------------------------- MODULE WebTransportWSProofs -------------------------
(***************************************************************************)
(* The WebSocket look-alike over WebTransport, for any options, number of  *)
(* streams, range of commands and number of messages.                      *)
(***************************************************************************)
EXTENDS WebTransportWS, FiniteSetTheorems, TLAPS

-----------------------------------------------------------------------------
(* Sequences.                                                              *)

\* RemoveAt takes one element out; the others keep their order.
LEMMA RemoveAtFacts ==
    ASSUME NEW S, NEW s \in Seq(S), NEW k \in DOMAIN s
    PROVE  /\ RemoveAt(s, k) \in Seq(S)
           /\ Len(RemoveAt(s, k)) = Len(s) - 1
           /\ \A j \in DOMAIN RemoveAt(s, k) :
                  RemoveAt(s, k)[j] = IF j < k THEN s[j] ELSE s[j + 1]
<1> DEFINE a == SubSeq(s, 1, k - 1)
           b == SubSeq(s, k + 1, Len(s))
<1>1. k \in 1..Len(s) /\ Len(s) \in Nat /\ \A i \in 1..Len(s) : s[i] \in S
    OBVIOUS
<1>2. a \in Seq(S) /\ Len(a) = k - 1 /\ \A j \in 1..(k - 1) : a[j] = s[j]
    BY <1>1
<1>3. b \in Seq(S) /\ Len(b) = Len(s) - k /\ \A j \in 1..(Len(s) - k) : b[j] = s[k + j]
    BY <1>1
<1> HIDE DEF a, b
<1> DEFINE c == a \o b
<1>4. c \in Seq(S) /\ Len(c) = Len(s) - 1
    BY <1>1, <1>2, <1>3
<1>5. \A j \in 1..(Len(a) + Len(b)) : c[j] = IF j <= Len(a) THEN a[j] ELSE b[j - Len(a)]
    <2>1. a \in Seq(S) /\ b \in Seq(S)
        BY <1>2, <1>3
    <2> QED
        BY ONLY <2>1 DEF c
<1>6. c = RemoveAt(s, k)
    BY DEF RemoveAt, a, b
<1> HIDE DEF c
<1>7. ASSUME NEW j \in 1..(Len(s) - 1)
      PROVE  c[j] = IF j < k THEN s[j] ELSE s[j + 1]
    <2>1. j \in Nat /\ k \in Nat /\ Len(a) = k - 1 /\ j \in 1..(Len(a) + Len(b))
        BY <1>1, <1>2, <1>3
    <2>2. c[j] = IF j < k THEN a[j] ELSE b[j - (k - 1)]
        BY <1>5, <2>1
    <2>3. j < k => a[j] = s[j]
        BY <1>2, <2>1
    <2>4. ~(j < k) => b[j - (k - 1)] = s[j + 1]
        <3>1. ~(j < k) => j - (k - 1) \in 1..(Len(s) - k) /\ k + (j - (k - 1)) = j + 1
            BY <1>1, <2>1
        <3> QED
            BY <1>3, <3>1
    <2> QED
        BY <2>2, <2>3, <2>4
<1>8. DOMAIN c = 1..(Len(s) - 1)
    BY <1>4
<1> QED
    BY <1>4, <1>6, <1>7, <1>8

\* Elements after a position, as the queue keeps its younger ones.
LEMMA SuffixFacts ==
    ASSUME NEW S, NEW s \in Seq(S), NEW n \in 0..Len(s)
    PROVE  LET t == SubSeq(s, n + 1, Len(s))
           IN  /\ t \in Seq(S) /\ Len(t) = Len(s) - n
               /\ \A j \in 1..(Len(s) - n) : t[j] = s[n + j]
OBVIOUS

-----------------------------------------------------------------------------
(* The options, the connection and the streams.                            *)

ControlOK ==
    /\ opt \in Configs
    /\ link \in {"up", "down"}
    /\ stage \in {"ready", "streams", "writers", "done", "failed"}
    /\ tick \in {"no", "pending", "fired"}
    /\ writers \in 0..MaxStreams
    /\ reader \in [Streams -> {"none", "reading", "ended"}]
    /\ currentWriteStreams \in 0..MaxStreams
    /\ writers <= opt.streamCount
    /\ stage = "ready" => writers = 0
    /\ stage = "streams" => writers < opt.streamCount
    /\ tick # "no" => stage = "done"

FlagsOK == closed \in BOOLEAN /\ reported \in BOOLEAN /\ pinging \in BOOLEAN

\* What the assumption says of the options of a run.
LEMMA OptionFacts ==
    ASSUME opt \in Configs
    PROVE  /\ opt.mode \in {"text", "stream"}
           /\ opt.streamCount \in 1..MaxStreams
           /\ opt.streamCount > 1 => opt.enableCommand
           /\ opt.mode = "stream" => opt.streamCount = 1
BY ConfigsAssumption

\* The constructor.
LEMMA ControlInit == Init => ControlOK /\ FlagsOK
<1> SUFFICES ASSUME Init PROVE ControlOK /\ FlagsOK
    OBVIOUS
<1>1. opt \in Configs
    BY DEF Init
<1>2. opt.streamCount \in 1..MaxStreams
    BY <1>1, OptionFacts
<1>3. closed = FALSE /\ reported = FALSE /\ pinging = FALSE
    BY DEF Init
<1>4. ControlOK
    BY <1>1, <1>2, MaxStreamsAssumption DEF Init, ControlOK
<1> QED
    BY <1>3, <1>4 DEF FlagsOK

\* A read of a stream leaves the options and the streams' number alone.
LEMMA ReadControl ==
    ASSUME ControlOK, NEW i \in Streams, Read(i)
    PROVE  /\ UNCHANGED <<opt, connectVars, closed, sendVars>>
           /\ reader' = reader \/ reader' = [reader EXCEPT ![i] = "ended"]
BY DEF Read

\* Connecting counts the streams as they are created.
LEMMA ControlNext == ControlOK /\ [Next]_vars => ControlOK'
<1> SUFFICES ASSUME ControlOK, [Next]_vars PROVE ControlOK'
    OBVIOUS
<1> USE DEF connectVars, sendVars
<1>0. opt.streamCount \in 1..MaxStreams /\ MaxStreams \in Nat \ {0}
    BY OptionFacts, MaxStreamsAssumption DEF ControlOK
<1>1. CASE UNCHANGED <<opt, link, stage, tick, writers, reader, currentWriteStreams>>
    BY <1>1 DEF ControlOK
<1>2. CASE Ready
    <2>1. UNCHANGED <<opt, tick, reader, currentWriteStreams, link>> /\ stage = "ready"
        BY <1>2 DEF Ready, Fails
    <2>2. \/ stage' = "writers" /\ writers' = 1
          \/ stage' = "streams" /\ writers' = 0
          \/ stage' = "failed" /\ writers' = writers
        BY <1>2 DEF Ready, Fails
    <2> QED
        BY <1>0, <2>1, <2>2 DEF ControlOK
<1>3. CASE StreamCreated
    <2>1. UNCHANGED <<opt, tick, reader, currentWriteStreams, link>> /\ stage = "streams"
        BY <1>3 DEF StreamCreated, Fails
    <2>2. \/ stage' = "writers" /\ writers' = writers + 1
          \/ stage' = "streams" /\ writers' = writers + 1 /\ writers + 1 # opt.streamCount
          \/ stage' = "failed" /\ writers' = writers
        BY <1>3 DEF StreamCreated, Fails
    <2> QED
        BY <1>0, <2>1, <2>2 DEF ControlOK
<1>4. CASE WritersReady
    <2>1. UNCHANGED <<opt, writers, currentWriteStreams, link>> /\ stage = "writers"
        BY <1>4 DEF WritersReady, Fails
    <2>2. /\ \/ stage' = "done" /\ tick' = "pending"
             \/ stage' = "failed" /\ tick' = tick
          /\ reader' \in [Streams -> {"none", "reading", "ended"}]
        BY <1>4 DEF WritersReady, Fails, NextTick, ControlOK
    <2> QED
        BY <2>1, <2>2 DEF ControlOK
<1>5. CASE Tick
    BY <1>5 DEF Tick, ControlOK
<1>6. CASE Lost
    BY <1>6 DEF Lost, ControlOK
<1>7. ASSUME NEW i \in Streams, ReadEnds(i) PROVE ControlOK'
    BY <1>7 DEF ReadEnds, ControlOK
<1>8. ASSUME NEW i \in Streams, Read(i) PROVE ControlOK'
    BY <1>8, ReadControl DEF ControlOK
<1>9. ASSUME NEW v \in 0..MaxStreams, setCurrentWriteStreams(v) PROVE ControlOK'
    <2>1. currentWriteStreams' = restrain(v, 1, writers)
          /\ UNCHANGED <<opt, link, stage, tick, writers, reader>>
        BY <1>9 DEF setCurrentWriteStreams
    <2>2. restrain(v, 1, writers) \in 0..MaxStreams
        BY <1>0 DEF restrain, ControlOK
    <2> QED
        BY <2>1, <2>2 DEF ControlOK
<1>10. CASE close
    BY <1>10 DEF close, Drop, ControlOK
<1>11. ASSUME NEW i \in Streams, CloseInOnMessage(i) PROVE ControlOK'
    <2>1. UNCHANGED <<opt, stage, tick, writers, currentWriteStreams>> /\ link' = "down"
        BY <1>11 DEF CloseInOnMessage, Drop
    <2>2. reader' = [reader EXCEPT ![i] = "ended"]
        BY <1>11 DEF CloseInOnMessage
    <2> QED
        BY <2>1, <2>2 DEF ControlOK
<1>12. CASE TransportClosed \/ ping \/ Age \/ DatagramLost \/ send \/ sendBinary
            \/ (\E n \in pingStart : PingTimeout(n)) \/ UNCHANGED vars
    BY <1>1, <1>12 DEF TransportClosed, ping, Age, PingTimeout, DatagramLost, send, sendBinary,
                       vars, Sent
<1> QED
    BY <1>2, <1>3, <1>4, <1>5, <1>6, <1>7, <1>8, <1>9, <1>10, <1>11, <1>12
       DEF Next, Continuation, Timeout, Network, User

\* The flags.
LEMMA FlagsNext == FlagsOK /\ [Next]_vars => FlagsOK'
<1> SUFFICES ASSUME closed \in BOOLEAN, reported \in BOOLEAN, pinging \in BOOLEAN, [Next]_vars
             PROVE  closed' \in BOOLEAN /\ reported' \in BOOLEAN /\ pinging' \in BOOLEAN
    BY DEF FlagsOK
<1>1. \/ closed' = closed \/ closed' = TRUE
    BY DEF Next, Continuation, Timeout, Network, User, Ready, StreamCreated, WritersReady, Tick,
           TransportClosed, ping, Age, PingTimeout, Lost, DatagramLost, ReadEnds, Read, send,
           sendBinary, close, CloseInOnMessage, Drop, setCurrentWriteStreams, vars
<1>2. \/ reported' = reported \/ reported' = TRUE
    BY DEF Next, Continuation, Timeout, Network, User, Ready, StreamCreated, WritersReady, Tick,
           TransportClosed, ping, Age, PingTimeout, Lost, DatagramLost, ReadEnds, Read, send,
           sendBinary, close, CloseInOnMessage, Drop, setCurrentWriteStreams, vars
<1>3. pinging' \in BOOLEAN
    <2>1. CASE Tick
        <3>1. pinging' = (opt.enablePing /\ TimerThere)
            BY <2>1 DEF Tick, TimerStarts
        <3> QED
            BY Zenon, <3>1
    <2>2. CASE close \/ \E i \in Streams : CloseInOnMessage(i)
        BY <2>2 DEF close, CloseInOnMessage, Drop, TimerStops
    <2>3. ASSUME NEW i \in Streams, Read(i) PROVE pinging' = pinging
        BY <2>3 DEF Read, onDecodeMessage, Deliver, DeliverFirst, Ignore, PingAnswered, pingVars
    <2> QED
        BY <2>1, <2>2, <2>3
           DEF Next, Continuation, Timeout, Network, User, Ready, StreamCreated, WritersReady,
               TransportClosed, ping, Age, PingTimeout, Lost, DatagramLost, ReadEnds, send,
               sendBinary, setCurrentWriteStreams, vars, pingVars
<1> QED
    BY Zenon, <1>1, <1>2, <1>3

-----------------------------------------------------------------------------
(* The kinds of steps, as the messages see them.                           *)

\* A frame at position k of a stream is taken from it; only datagrams overtake.
Taken(i, k) ==
    /\ k \in DOMAIN wire[i]
    /\ wire' = [wire EXCEPT ![i] = RemoveAt(@, k)]
    /\ opt.useDatagrams \/ k = 1

\* Nothing happens to messages.
Quiet == UNCHANGED <<wire, sent, textCommandPointer, delivered, dedupVars, closed>>

\* A message is sent, on some streams or on all.
Regular == ~opt.autoStream /\ ~opt.useDatagrams
SendsText ==
    /\ Sent(textCommandPointer, "text")
    /\ \E to \in SUBSET (1..writers) :
           /\ Write([cmd |-> textCommandPointer, id |-> Len(sent) + 1], to)
           /\ Regular => to = 1..writers
    /\ textCommandPointer' = IF opt.enableCommand THEN NextCommand ELSE textCommandPointer
    /\ UNCHANGED <<delivered, dedupVars, closed>>
SendsBinary ==
    /\ Sent(binaryCommand, "binary")
    /\ Write([cmd |-> binaryCommand, id |-> Len(sent) + 1], 1..writers)
    /\ UNCHANGED <<textCommandPointer, delivered, dedupVars, closed>>
Pings ==
    /\ Write([cmd |-> pingCommand, id |-> pings + 1], {1})
    /\ UNCHANGED <<sent, textCommandPointer, delivered, dedupVars, closed>>

\* A stream ends.
Ends(i) ==
    /\ wire' = [wire EXCEPT ![i] = <<>>]
    /\ reader' = [reader EXCEPT ![i] = "ended"]
    /\ UNCHANGED <<sent, textCommandPointer, delivered, dedupVars, closed>>

\* A frame is read: without a decoder, on the only stream, the first or a later copy
\* of a message, or the answer to a ping.
ReadsNothing(i, k) ==
    /\ Taken(i, k)
    /\ reader' = [reader EXCEPT ![i] = "ended"]
    /\ UNCHANGED <<sent, textCommandPointer, delivered, dedupVars, closed>>
ReadsOnly(i, k) ==
    /\ Taken(i, k) /\ Deliver(wire[i][k])
    /\ opt.streamCount = 1
    /\ UNCHANGED <<sent, textCommandPointer, closed>>
ReadsFirst(i, k) ==
    /\ Taken(i, k) /\ DeliverFirst(wire[i][k])
    /\ opt.streamCount > 1 /\ wire[i][k].cmd # pingCommand
    /\ UNCHANGED <<sent, textCommandPointer, closed>>
ReadsCopy(i, k) ==
    /\ Taken(i, k) /\ Ignore(wire[i][k])
    /\ opt.streamCount > 1 /\ wire[i][k].cmd # pingCommand
    /\ UNCHANGED <<sent, textCommandPointer, closed>>
ReadsPing(i, k) ==
    /\ Taken(i, k) /\ wire[i][k].cmd = pingCommand
    /\ UNCHANGED <<sent, textCommandPointer, delivered, dedupVars, closed>>
Reads(i, k) ==
    /\ reader[i] = "reading"
    /\ \/ ReadsNothing(i, k) \/ ReadsOnly(i, k) \/ ReadsCopy(i, k) \/ ReadsPing(i, k)
       \/ ReadsFirst(i, k) /\ ~closed

\* close() forgets what was remembered.
Closes ==
    /\ closed' = TRUE
    /\ commandQueue' = <<>> /\ commandMap' = {} /\ aged' = 0
    /\ UNCHANGED <<wire, sent, textCommandPointer, delivered, dropped, forgotten>>

\* Every step is of one of these kinds.
LEMMA StepKinds ==
    ASSUME ControlOK, [Next]_vars
    PROVE  \/ Quiet \/ SendsText \/ SendsBinary \/ Pings \/ DatagramLost \/ Age \/ Closes
           \/ \E i \in Streams : \/ Ends(i) \/ CloseInOnMessage(i)
                                   \/ \E k \in DOMAIN wire[i] : Reads(i, k)
<1>0. /\ opt.streamCount \in 1..MaxStreams
      /\ opt.streamCount > 1 => opt.enableCommand
      /\ opt.mode = "stream" => opt.streamCount = 1
      /\ MaxStreams \in Nat /\ writers \in Nat
    BY OptionFacts, MaxStreamsAssumption DEF ControlOK
<1>1. CASE Ready \/ StreamCreated \/ WritersReady \/ Tick \/ TransportClosed \/ Lost
           \/ (\E n \in pingStart : PingTimeout(n))
           \/ (\E v \in 0..MaxStreams : setCurrentWriteStreams(v)) \/ UNCHANGED vars
    BY <1>1 DEF Ready, StreamCreated, WritersReady, Tick, TransportClosed, Lost, PingTimeout,
                setCurrentWriteStreams, vars, Quiet, sendVars, dedupVars
<1>2. CASE send
    <2>1. CASE closed
        BY <1>2, <2>1 DEF send, Quiet, sendVars
    <2>2. CASE ~closed
        <3> DEFINE to == IF opt.autoStream THEN AutoWriters ELSE Writers
        <3>1. to \subseteq 1..writers /\ (Regular => to = 1..writers)
            BY DEF AutoWriters, Writers, Regular
        <3>2. Write([cmd |-> textCommandPointer, id |-> Len(sent) + 1], to)
            BY <1>2, <2>2 DEF send
        <3> HIDE DEF to
        <3> QED
            BY <1>2, <2>2, <3>1, <3>2 DEF send, SendsText
    <2> QED
        BY <2>1, <2>2
<1>3. CASE sendBinary
    BY <1>3 DEF sendBinary, SendsBinary, Writers
<1>4. CASE ping
    BY <1>4 DEF ping, Pings, sendVars
<1>5. ASSUME NEW i \in Streams, ReadEnds(i) PROVE Ends(i)
    BY <1>5 DEF ReadEnds, Ends, sendVars
<1>6. ASSUME NEW i \in Streams, Read(i) PROVE \E k \in DOMAIN wire[i] : Reads(i, k)
    <2>1. PICK k \in DOMAIN wire[i] :
              /\ Taken(i, k)
              /\ \/ /\ opt.mode = "text" /\ ~closed
                    /\ onDecodeMessage(wire[i][k])
                 \/ /\ reader' = [reader EXCEPT ![i] = "ended"]
                    /\ UNCHANGED <<dedupVars, delivered>>
                 \/ /\ opt.mode = "stream"
                    /\ Deliver(wire[i][k])
        BY <1>6 DEF Read, Taken, DecoderThere
    <2>2. reader[i] = "reading" /\ UNCHANGED <<sent, textCommandPointer, closed>>
        BY <1>6 DEF Read, sendVars
    <2>3. CASE reader' = [reader EXCEPT ![i] = "ended"] /\ UNCHANGED <<dedupVars, delivered>>
        BY <2>1, <2>2, <2>3 DEF Reads, ReadsNothing
    <2>4. CASE opt.mode = "stream" /\ Deliver(wire[i][k])
        BY <1>0, <2>1, <2>2, <2>4 DEF Reads, ReadsOnly
    <2>5. CASE ~closed /\ onDecodeMessage(wire[i][k])
        <3>1. CASE ~opt.enableCommand
            BY <1>0, <2>1, <2>2, <2>5, <3>1 DEF onDecodeMessage, Reads, ReadsOnly
        <3>2. CASE opt.enableCommand /\ wire[i][k].cmd = pingCommand
            BY <2>1, <2>2, <2>5, <3>2 DEF onDecodeMessage, PingAnswered, Reads, ReadsPing
        <3>3. CASE opt.enableCommand /\ wire[i][k].cmd # pingCommand /\ opt.streamCount > 1
            BY <2>1, <2>2, <2>5, <3>3 DEF onDecodeMessage, Reads, ReadsFirst, ReadsCopy
        <3>4. CASE opt.enableCommand /\ wire[i][k].cmd # pingCommand /\ ~(opt.streamCount > 1)
            BY <1>0, <2>1, <2>2, <2>5, <3>4 DEF onDecodeMessage, Reads, ReadsOnly
        <3> QED
            BY <3>1, <3>2, <3>3, <3>4
    <2> QED
        BY <2>1, <2>3, <2>4, <2>5
<1>7. CASE close
    BY <1>7 DEF close, Drop, Closes, sendVars
<1> QED
    BY <1>1, <1>2, <1>3, <1>4, <1>5, <1>6, <1>7 DEF Next, Continuation, Timeout, Network, User

-----------------------------------------------------------------------------
(* The messages: what is sent, on its way, delivered and remembered.       *)

Frames == [cmd : Nat, id : Nat]
Texts == [cmd : Nat, kind : {"text", "binary"}, open : BOOLEAN]

DataOK ==
    /\ wire \in [Streams -> Seq(Frames)]
    /\ sent \in Seq(Texts)
    /\ delivered \in Seq(Nat)
    /\ textCommandPointer \in textCommandStart..textCommandEnd
    /\ commandQueue \in Seq(Frames)
    /\ aged \in 0..Len(commandQueue)

\* The counts of pings, and those without an answer.
PingsOK == pings \in Nat /\ samples \in Nat /\ pingStart \subseteq 1..pings

\* The commands: those of texts, of binary messages and of pings differ.
LEMMA CommandFacts ==
    ASSUME textCommandPointer \in textCommandStart..textCommandEnd
    PROVE  /\ textCommandPointer \in Nat /\ textCommandPointer > 0
           /\ textCommandPointer # pingCommand /\ textCommandPointer # binaryCommand
           /\ binaryCommand \in Nat /\ pingCommand \in Nat /\ binaryCommand # pingCommand
           /\ NextCommand \in textCommandStart..textCommandEnd
           /\ textCommandStart \in Nat \ {0} /\ textCommandEnd \in Nat
BY CommandsAssumption DEF pingCommand, binaryCommand, NextCommand

\* A message that is sent comes last, with whether onopen has been called.
LEMMA SentFacts ==
    ASSUME sent \in Seq(Texts), NEW cmd \in Nat, NEW kind \in {"text", "binary"}, Sent(cmd, kind)
    PROVE  /\ sent' \in Seq(Texts)
           /\ Len(sent) \in Nat /\ Len(sent') = Len(sent) + 1
           /\ DOMAIN sent = 1..Len(sent) /\ DOMAIN sent' = 1..(Len(sent) + 1)
           /\ \A id \in DOMAIN sent : sent'[id] = sent[id]
           /\ sent'[Len(sent) + 1].cmd = cmd
           /\ sent'[Len(sent) + 1].kind = kind
           /\ sent'[Len(sent) + 1].open <=> tick = "fired"
<1> DEFINE text == [cmd |-> cmd, kind |-> kind, open |-> tick = "fired"]
<1>1. text \in Texts
    <2>1. (tick = "fired") \in BOOLEAN
        OBVIOUS
    <2> QED
        BY Zenon, <2>1 DEF Texts
<1>2. text.cmd = cmd /\ text.kind = kind
    OBVIOUS
<1>3. text.open <=> tick = "fired"
    BY Zenon
<1>4. sent' = Append(sent, text)
    BY DEF Sent
<1> HIDE DEF text, Texts
<1>5. /\ sent' \in Seq(Texts) /\ Len(sent) \in Nat /\ Len(sent') = Len(sent) + 1
      /\ DOMAIN sent = 1..Len(sent) /\ DOMAIN sent' = 1..(Len(sent) + 1)
      /\ \A id \in DOMAIN sent : sent'[id] = sent[id]
      /\ sent'[Len(sent) + 1] = text
    BY <1>1, <1>4
<1> QED
    BY <1>2, <1>3, <1>5

\* What is written comes last on the streams that are there.
LEMMA WriteFacts ==
    ASSUME wire \in [Streams -> Seq(Frames)], NEW f \in Frames, NEW to, Write(f, to)
    PROVE  /\ wire' \in [Streams -> Seq(Frames)]
           /\ \A i \in Streams :
                  IF i \in to /\ link = "up" /\ reader[i] # "ended"
                  THEN /\ Len(wire[i]) \in Nat
                       /\ DOMAIN wire[i] = 1..Len(wire[i])
                       /\ DOMAIN wire'[i] = 1..(Len(wire[i]) + 1)
                       /\ \A k \in DOMAIN wire[i] : wire'[i][k] = wire[i][k]
                       /\ wire'[i][Len(wire[i]) + 1] = f
                  ELSE wire'[i] = wire[i]
<1>1. ASSUME NEW i \in Streams
      PROVE  /\ Append(wire[i], f) \in Seq(Frames) /\ Len(wire[i]) \in Nat
             /\ DOMAIN wire[i] = 1..Len(wire[i])
             /\ DOMAIN Append(wire[i], f) = 1..(Len(wire[i]) + 1)
             /\ \A k \in DOMAIN wire[i] : Append(wire[i], f)[k] = wire[i][k]
             /\ Append(wire[i], f)[Len(wire[i]) + 1] = f
    <2>1. wire[i] \in Seq(Frames)
        OBVIOUS
    <2> QED
        BY <2>1
<1>2. wire' = [i \in Streams |-> IF i \in to /\ link = "up" /\ reader[i] # "ended"
                                 THEN Append(wire[i], f) ELSE wire[i]]
    BY DEF Write
<1> QED
    BY <1>1, <1>2

\* What is taken from a stream leaves the others and the order of the rest.
LEMMA TakenFacts ==
    ASSUME wire \in [Streams -> Seq(Frames)], NEW i \in Streams, NEW k, Taken(i, k)
    PROVE  /\ wire' \in [Streams -> Seq(Frames)]
           /\ k \in DOMAIN wire[i] /\ wire[i][k] \in Frames
           /\ Len(wire[i]) \in Nat /\ DOMAIN wire[i] = 1..Len(wire[i])
           /\ DOMAIN wire'[i] = 1..(Len(wire[i]) - 1)
           /\ \A l \in DOMAIN wire'[i] :
                  wire'[i][l] = IF l < k THEN wire[i][l] ELSE wire[i][l + 1]
           /\ \A j \in Streams \ {i} : wire'[j] = wire[j]
<1>1. k \in DOMAIN wire[i] /\ wire[i] \in Seq(Frames)
      /\ wire' = [wire EXCEPT ![i] = RemoveAt(wire[i], k)]
    BY DEF Taken
<1>2. /\ RemoveAt(wire[i], k) \in Seq(Frames)
      /\ Len(RemoveAt(wire[i], k)) = Len(wire[i]) - 1
      /\ \A j \in DOMAIN RemoveAt(wire[i], k) :
             RemoveAt(wire[i], k)[j] = IF j < k THEN wire[i][j] ELSE wire[i][j + 1]
    BY <1>1, RemoveAtFacts
<1>3. /\ Len(wire[i]) \in Nat /\ DOMAIN wire[i] = 1..Len(wire[i]) /\ wire[i][k] \in Frames
      /\ DOMAIN RemoveAt(wire[i], k) = 1..(Len(wire[i]) - 1)
    BY <1>1, <1>2
<1>4. /\ wire' \in [Streams -> Seq(Frames)] /\ wire'[i] = RemoveAt(wire[i], k)
      /\ \A j \in Streams \ {i} : wire'[j] = wire[j]
    BY <1>1, <1>2
<1> QED
    BY <1>1, <1>2, <1>3, <1>4

\* The queue after a new message: the aged ones are forgotten, the new one is kept.
LEMMA QueueFacts ==
    ASSUME commandQueue \in Seq(Frames), aged \in 0..Len(commandQueue), NEW f \in Frames,
           DeliverFirst(f)
    PROVE  LET queue == Append(commandQueue, [cmd |-> f.cmd, id |-> f.id])
               n     == Len(commandQueue)
           IN  /\ n \in Nat /\ aged \in 0..n
               /\ commandQueue' \in Seq(Frames) /\ DOMAIN commandQueue' = 1..(n + 1 - aged)
               /\ Len(commandQueue') = n + 1 - aged
               /\ \A j \in 1..(n + 1 - aged) : commandQueue'[j] = queue[aged + j]
               /\ \A j \in 1..n : queue[j] = commandQueue[j]
               /\ queue[n + 1] = [cmd |-> f.cmd, id |-> f.id]
               /\ forgotten' = forgotten \cup {queue[i].id : i \in 1..aged}
<1> DEFINE e == [cmd |-> f.cmd, id |-> f.id]
           queue == Append(commandQueue, e)
           n == Len(commandQueue)
<1>1. e \in Frames
    BY DEF Frames
<1>2. commandQueue' = SubSeq(queue, aged + 1, Len(queue))
      /\ forgotten' = forgotten \cup {queue[i].id : i \in 1..aged}
    BY DEF DeliverFirst, Kept
<1> HIDE DEF e, Frames
<1>3. /\ queue \in Seq(Frames) /\ n \in Nat /\ Len(queue) = n + 1 /\ queue[n + 1] = e
      /\ \A j \in 1..n : queue[j] = commandQueue[j]
    BY <1>1
<1>4. aged \in 0..Len(queue) /\ aged \in Nat
    BY <1>3
<1> HIDE DEF queue
<1>5. /\ commandQueue' \in Seq(Frames) /\ Len(commandQueue') = Len(queue) - aged
      /\ \A j \in 1..(Len(queue) - aged) : commandQueue'[j] = queue[aged + j]
    BY <1>2, <1>3, <1>4, SuffixFacts
<1>6. DOMAIN commandQueue' = 1..(n + 1 - aged)
    <2>1. DOMAIN commandQueue' = 1..Len(commandQueue')
        BY ONLY <1>5
    <2>2. Len(commandQueue') = n + 1 - aged
        BY ONLY <1>3, <1>4, <1>5
    <2> QED
        BY ONLY <2>1, <2>2
<1>7. /\ Len(commandQueue') = n + 1 - aged
      /\ \A j \in 1..(n + 1 - aged) : commandQueue'[j] = queue[aged + j]
    <2>1. Len(queue) - aged = n + 1 - aged
        BY ONLY <1>3, <1>4
    <2> QED
        BY ONLY <2>1, <1>5
<1>8. aged \in 0..n
    OBVIOUS
<1> HIDE DEF n
<1> QED
    BY ONLY <1>2, <1>3, <1>5, <1>6, <1>7, <1>8 DEF queue, e, n

\* The constructor.
LEMMA DataInit == Init => DataOK
<1> SUFFICES ASSUME Init PROVE DataOK
    OBVIOUS
<1>1. wire \in [Streams -> Seq(Frames)] /\ sent \in Seq(Texts) /\ delivered \in Seq(Nat)
      /\ commandQueue \in Seq(Frames) /\ aged \in 0..Len(commandQueue)
    BY DEF Init
<1>2. textCommandPointer \in textCommandStart..textCommandEnd
    BY CommandsAssumption DEF Init
<1> QED
    BY <1>1, <1>2 DEF DataOK

\* What is written to a stream, and what is read of it, keeps the types.
LEMMA DataNext ==
    ASSUME ControlOK, DataOK, PingsOK, [Next]_vars
    PROVE  DataOK'
<1>0. /\ wire \in [Streams -> Seq(Frames)] /\ sent \in Seq(Texts) /\ delivered \in Seq(Nat)
      /\ textCommandPointer \in textCommandStart..textCommandEnd
      /\ commandQueue \in Seq(Frames) /\ aged \in 0..Len(commandQueue)
    BY DEF DataOK
<1>1. CASE Quiet
    BY <1>1 DEF Quiet, dedupVars, DataOK
<1>2. CASE SendsText
    <2>1. [cmd |-> textCommandPointer, id |-> Len(sent) + 1] \in Frames
        BY <1>0, CommandFacts DEF Frames
    <2>2. wire' \in [Streams -> Seq(Frames)]
        BY <1>0, <1>2, <2>1, WriteFacts DEF SendsText
    <2>3. sent' \in Seq(Texts)
        BY <1>0, <1>2, SentFacts, CommandFacts DEF SendsText
    <2>4. textCommandPointer' \in textCommandStart..textCommandEnd
        BY <1>0, <1>2, CommandFacts DEF SendsText
    <2> QED
        BY <1>2, <2>2, <2>3, <2>4 DEF SendsText, dedupVars, DataOK
<1>3. CASE SendsBinary
    <2>1. [cmd |-> binaryCommand, id |-> Len(sent) + 1] \in Frames
        BY <1>0, CommandFacts DEF Frames
    <2>2. wire' \in [Streams -> Seq(Frames)]
        BY <1>0, <1>3, <2>1, WriteFacts DEF SendsBinary
    <2>3. sent' \in Seq(Texts)
        BY <1>0, <1>3, SentFacts, CommandFacts DEF SendsBinary
    <2> QED
        BY <1>3, <2>2, <2>3 DEF SendsBinary, dedupVars, DataOK
<1>4. CASE Pings
    <2>1. [cmd |-> pingCommand, id |-> pings + 1] \in Frames
        BY <1>0, CommandFacts DEF Frames, PingsOK
    <2>2. wire' \in [Streams -> Seq(Frames)]
        BY <1>0, <1>4, <2>1, WriteFacts DEF Pings
    <2> QED
        BY <1>4, <2>2 DEF Pings, dedupVars, DataOK
<1>5. CASE DatagramLost
    <2>1. 1 \in Streams
        BY MaxStreamsAssumption DEF Streams
    <2>2. PICK k \in DOMAIN wire[1] : wire' = [wire EXCEPT ![1] = RemoveAt(@, k)]
        BY <1>5 DEF DatagramLost
    <2>3. Taken(1, k)
        BY <1>5, <2>2 DEF Taken, DatagramLost
    <2> QED
        BY <1>0, <1>5, <2>1, <2>3, TakenFacts DEF DatagramLost, sendVars, dedupVars, DataOK
<1>6. CASE Age
    <2>1. aged' \in 0..Len(commandQueue)
        BY <1>0, <1>6 DEF Age
    <2> QED
        BY <1>6, <2>1 DEF Age, sendVars, DataOK
<1>7. CASE Closes
    <2>1. commandQueue' \in Seq(Frames) /\ aged' \in 0..Len(commandQueue')
        BY <1>7 DEF Closes
    <2> QED
        BY <1>7, <2>1 DEF Closes, DataOK
<1>8. ASSUME NEW i \in Streams, Ends(i) PROVE DataOK'
    <2>1. wire' \in [Streams -> Seq(Frames)]
        BY <1>0, <1>8 DEF Ends
    <2> QED
        BY <1>8, <2>1 DEF Ends, dedupVars, DataOK
<1>9. ASSUME NEW i \in Streams, CloseInOnMessage(i) PROVE DataOK'
    <2>1. wire' \in [Streams -> Seq(Frames)]
        BY <1>0, <1>9 DEF CloseInOnMessage
    <2>2. Head(wire[i]).id \in Nat
        <3>1. wire[i] # <<>> /\ wire[i] \in Seq(Frames)
            BY <1>0, <1>9 DEF CloseInOnMessage
        <3>2. Head(wire[i]) \in Frames
            BY <3>1
        <3> QED
            BY <3>2 DEF Frames
    <2>3. delivered' \in Seq(Nat)
        BY <1>0, <1>9, <2>2 DEF CloseInOnMessage
    <2>4. commandQueue' \in Seq(Frames) /\ aged' \in 0..Len(commandQueue')
          /\ UNCHANGED <<sent, textCommandPointer>>
        BY <1>9 DEF CloseInOnMessage, Drop, sendVars
    <2> QED
        BY <2>1, <2>3, <2>4 DEF DataOK
<1>10. ASSUME NEW i \in Streams, NEW k \in DOMAIN wire[i], Reads(i, k) PROVE DataOK'
    <2>1. Taken(i, k) /\ UNCHANGED <<sent, textCommandPointer>>
        BY <1>10 DEF Reads, ReadsNothing, ReadsOnly, ReadsFirst, ReadsCopy, ReadsPing
    <2>2. wire' \in [Streams -> Seq(Frames)] /\ wire[i][k] \in Frames
        BY <1>0, <2>1, TakenFacts
    <2>3. wire[i][k].id \in Nat
        BY <2>2 DEF Frames
    <2>4. delivered' \in Seq(Nat)
        <3>1. CASE ReadsNothing(i, k) \/ ReadsCopy(i, k) \/ ReadsPing(i, k)
            BY <1>0, <3>1 DEF ReadsNothing, ReadsCopy, ReadsPing, Ignore
        <3>2. CASE ReadsOnly(i, k)
            <4>1. delivered' = Append(delivered, 0) \/ delivered' = Append(delivered, wire[i][k].id)
                BY <3>2 DEF ReadsOnly, Deliver
            <4>2. Append(delivered, 0) \in Seq(Nat)
                BY <1>0
            <4>3. Append(delivered, wire[i][k].id) \in Seq(Nat)
                BY <1>0, <2>3
            <4> QED
                BY <4>1, <4>2, <4>3
        <3>3. CASE ReadsFirst(i, k)
            <4>1. delivered' = Append(delivered, wire[i][k].id)
                BY <3>3 DEF ReadsFirst, DeliverFirst
            <4> QED
                BY <1>0, <2>3, <4>1
        <3> QED
            BY <1>10, <3>1, <3>2, <3>3 DEF Reads
    <2>5. commandQueue' \in Seq(Frames) /\ aged' \in 0..Len(commandQueue')
        <3>1. CASE ReadsFirst(i, k)
            <4>1. DeliverFirst(wire[i][k])
                BY <3>1 DEF ReadsFirst
            <4>2. aged' = 0
                BY <4>1 DEF DeliverFirst
            <4>3. commandQueue' \in Seq(Frames)
                <5> HIDE DEF Frames, DeliverFirst
                <5> QED
                    BY <1>0, <2>2, <4>1, QueueFacts
            <4> QED
                BY <4>2, <4>3
        <3>2. CASE ReadsNothing(i, k) \/ ReadsOnly(i, k) \/ ReadsCopy(i, k) \/ ReadsPing(i, k)
            BY <1>0, <3>2 DEF ReadsNothing, ReadsOnly, ReadsCopy, ReadsPing, Deliver, Ignore,
                              dedupVars
        <3> QED
            BY <1>10, <3>1, <3>2 DEF Reads
    <2> QED
        BY <2>1, <2>2, <2>4, <2>5 DEF DataOK
<1> QED
    BY <1>1, <1>2, <1>3, <1>4, <1>5, <1>6, <1>7, <1>8, <1>9, <1>10, StepKinds

-----------------------------------------------------------------------------
(* The queue and the map of the commands remembered.                       *)

\* No command is remembered twice, and the map holds those of the queue.
QueueOK ==
    /\ commandMap = Remembered(commandQueue)
    /\ \A k, l \in DOMAIN commandQueue : commandQueue[k].cmd = commandQueue[l].cmd => k = l

\* Only a message that is not remembered is added.
LEMMA QueueNext ==
    ASSUME ControlOK, DataOK, QueueOK, [Next]_vars
    PROVE  QueueOK'
<1>0. /\ commandQueue \in Seq(Frames) /\ aged \in 0..Len(commandQueue)
      /\ wire \in [Streams -> Seq(Frames)]
    BY DEF DataOK
<1>1. CASE UNCHANGED <<commandQueue, commandMap>>
    BY <1>1 DEF QueueOK, Remembered
<1>2. CASE commandQueue' = <<>> /\ commandMap' = {}
    BY <1>2 DEF QueueOK, Remembered
<1>3. ASSUME NEW i \in Streams, NEW k \in DOMAIN wire[i], ReadsFirst(i, k) PROVE QueueOK'
    <2> DEFINE f == wire[i][k]
               n == Len(commandQueue)
               e == [cmd |-> f.cmd, id |-> f.id]
               queue == Append(commandQueue, e)
    <2>1. f \in Frames /\ DeliverFirst(f)
        BY <1>0, <1>3, TakenFacts DEF ReadsFirst
    <2>2. commandMap' = Remembered(commandQueue') /\ f.cmd \notin commandMap
        BY <2>1 DEF DeliverFirst, Known, Remembered
    <2>3. e.cmd = f.cmd
        OBVIOUS
    <2> HIDE DEF f, e
    <2>4. /\ n \in Nat /\ aged \in 0..n
          /\ DOMAIN commandQueue' = 1..(n + 1 - aged)
          /\ \A j \in 1..(n + 1 - aged) : commandQueue'[j] = queue[aged + j]
          /\ \A j \in 1..n : queue[j] = commandQueue[j]
          /\ queue[n + 1] = e
        BY <1>0, <2>1, QueueFacts DEF e
    <2>5. DOMAIN commandQueue = 1..n
        BY <1>0
    <2> HIDE DEF n, queue
    <2>6. \A j, l \in 1..(n + 1) : queue[j].cmd = queue[l].cmd => j = l
        <3>1. \A j \in 1..n : queue[j].cmd \in commandMap
            BY <2>4, <2>5 DEF QueueOK, Remembered
        <3>2. \A j, l \in 1..n : queue[j].cmd = queue[l].cmd => j = l
            BY <2>4, <2>5 DEF QueueOK
        <3>3. \A j \in 1..(n + 1) : j \in 1..n \/ j = n + 1
            BY <2>4
        <3>4. \A j \in 1..n : queue[j].cmd # queue[n + 1].cmd
            BY <2>2, <2>3, <2>4, <3>1
        <3> QED
            BY <3>2, <3>3, <3>4
    <2>7. ASSUME NEW j \in DOMAIN commandQueue', NEW l \in DOMAIN commandQueue',
                 commandQueue'[j].cmd = commandQueue'[l].cmd
          PROVE  j = l
        <3>1. aged + j \in 1..(n + 1) /\ aged + l \in 1..(n + 1) /\ j \in Nat /\ l \in Nat
            BY <2>4
        <3>2. queue[aged + j].cmd = queue[aged + l].cmd
            BY <2>4, <2>7
        <3>3. aged + j = aged + l
            BY <2>6, <3>1, <3>2
        <3> QED
            BY <2>4, <3>1, <3>3
    <2> QED
        BY <2>2, <2>7 DEF QueueOK
<1>4. ASSUME NEW i \in Streams, CloseInOnMessage(i) PROVE QueueOK'
    BY <1>2, <1>4 DEF CloseInOnMessage, Drop
<1>5. ASSUME NEW i \in Streams, NEW k \in DOMAIN wire[i], Reads(i, k) PROVE QueueOK'
    <2>1. CASE ReadsNothing(i, k) \/ ReadsOnly(i, k) \/ ReadsCopy(i, k) \/ ReadsPing(i, k)
        BY <1>1, <2>1 DEF ReadsNothing, ReadsOnly, ReadsCopy, ReadsPing, Deliver, Ignore, dedupVars
    <2> QED
        BY <1>3, <1>5, <2>1 DEF Reads
<1>6. ASSUME NEW i \in Streams, Ends(i) PROVE QueueOK'
    BY <1>1, <1>6 DEF Ends, dedupVars
<1>7. CASE Quiet \/ SendsText \/ SendsBinary \/ Pings \/ DatagramLost \/ Age
    BY <1>1, <1>7 DEF Quiet, SendsText, SendsBinary, Pings, DatagramLost, Age, dedupVars
<1>8. CASE Closes
    BY <1>2, <1>8 DEF Closes
<1> QED
    BY <1>4, <1>5, <1>6, <1>7, <1>8, StepKinds

\* As many commands as messages are remembered.
LEMMA QueueCount ==
    ASSUME DataOK, QueueOK
    PROVE  Cardinality(commandMap) = Len(commandQueue)
<1> DEFINE n == Len(commandQueue)
           F == [k \in 1..n |-> commandQueue[k].cmd]
<1>1. n \in Nat /\ DOMAIN commandQueue = 1..n
    BY DEF DataOK
<1>2. commandMap = {commandQueue[k].cmd : k \in 1..n}
    BY <1>1 DEF QueueOK, Remembered
<1>3. F \in Bijection(1..n, commandMap)
    BY <1>1, <1>2 DEF QueueOK, Bijection, Injection, Surjection, IsInjective
<1> HIDE DEF n, F
<1>4. IsFiniteSet(1..n) /\ Cardinality(1..n) = n
    <2>1. 1 \in Int /\ n \in Int /\ n >= 0
        BY <1>1
    <2>2. IsFiniteSet(1..n) /\ Cardinality(1..n) = IF 1 > n THEN 0 ELSE n - 1 + 1
        BY <2>1, FS_Interval
    <2> QED
        BY <2>1, <2>2
<1>5. ExistsBijection(1..n, commandMap)
    BY <1>3 DEF ExistsBijection
<1> QED
    BY <1>4, <1>5, FS_Bijection DEF n

-----------------------------------------------------------------------------
(* The pings.                                                              *)

\* A ping is sent; one gets its value for the average; or close() gives them all up.
PingSent ==
    /\ pings' = pings + 1 /\ pingStart' = pingStart \cup {pings + 1}
    /\ UNCHANGED <<samples, closed>>
PingCounted(n) ==
    /\ n \in pingStart
    /\ pingStart' = pingStart \ {n} /\ samples' = samples + 1
    /\ UNCHANGED <<pings, closed>>
PingsStop == closed' = TRUE /\ pingStart' = {} /\ UNCHANGED <<pings, samples>>

\* Every step is of one of these kinds.
LEMMA PingKinds ==
    ASSUME [Next]_vars
    PROVE  \/ UNCHANGED <<pings, samples, pingStart, closed>> \/ PingSent \/ PingsStop
           \/ \E n \in pingStart : PingCounted(n)
<1> USE DEF pingVars
<1>1. CASE ping
    BY <1>1 DEF ping, PingSent
<1>2. ASSUME NEW n \in pingStart, PingTimeout(n) PROVE PingCounted(n)
    BY <1>2 DEF PingTimeout, PingCounted, Push
<1>3. CASE close
    BY <1>3 DEF close, Drop, PingsStop
<1>4. ASSUME NEW i \in Streams, CloseInOnMessage(i) PROVE PingsStop
    BY <1>4 DEF CloseInOnMessage, Drop, PingsStop
<1>5. ASSUME NEW i \in Streams, Read(i)
      PROVE  \/ UNCHANGED <<pings, samples, pingStart, closed>>
             \/ \E n \in pingStart : PingCounted(n)
    <2>1. closed' = closed
        BY <1>5 DEF Read
    <2>2. UNCHANGED <<pings, samples, pingStart>> \/ \E f : PingAnswered(f)
        BY <1>5 DEF Read, onDecodeMessage, Deliver, DeliverFirst, Ignore
    <2>3. ASSUME NEW f, PingAnswered(f)
          PROVE  UNCHANGED <<pings, samples, pingStart>> \/ \E n \in pingStart : PingCounted(n)
        <3>1. CASE f.id \in pingStart
            BY <2>1, <2>3, <3>1 DEF PingAnswered, CountsAnswer, Push, PingCounted
        <3>2. CASE f.id \notin pingStart
            BY <2>3, <3>2 DEF PingAnswered, CountsAnswer
        <3> QED
            BY <3>1, <3>2
    <2> QED
        BY <2>1, <2>2, <2>3
<1>6. CASE UNCHANGED vars
    BY <1>6 DEF vars
<1> QED
    BY <1>1, <1>2, <1>3, <1>4, <1>5, <1>6
       DEF Next, Continuation, Timeout, Network, User, Ready, StreamCreated, WritersReady, Tick,
           TransportClosed, Age, Lost, DatagramLost, ReadEnds, send, sendBinary,
           setCurrentWriteStreams

\* Pings are numbered as they are sent.
LEMMA PingsNext == PingsOK /\ [Next]_vars => PingsOK'
<1> SUFFICES ASSUME PingsOK, [Next]_vars PROVE PingsOK'
    OBVIOUS
<1>1. CASE UNCHANGED <<pings, samples, pingStart, closed>>
    BY <1>1 DEF PingsOK
<1>2. CASE PingSent
    BY <1>2 DEF PingsOK, PingSent
<1>3. CASE PingsStop
    BY <1>3 DEF PingsOK, PingsStop
<1>4. ASSUME NEW n \in pingStart, PingCounted(n) PROVE PingsOK'
    BY <1>4 DEF PingsOK, PingCounted
<1> QED
    BY <1>1, <1>2, <1>3, <1>4, PingKinds

\* A ping is counted when it is no longer waited for, and waited for once.
LEMMA CountNext ==
    ASSUME PingsOK, FlagsOK, PingsCountOnce, [Next]_vars
    PROVE  PingsCountOnce'
<1>0. /\ pings \in Nat /\ samples \in Nat /\ pingStart \subseteq 1..pings
      /\ IsFiniteSet(pingStart) /\ Cardinality(pingStart) \in Nat
    <2>1. IsFiniteSet(1..pings)
        BY FS_Interval DEF PingsOK
    <2> QED
        BY <2>1, FS_Subset, FS_CardinalityType DEF PingsOK
<1>1. CASE UNCHANGED <<pings, samples, pingStart, closed>>
    BY <1>1 DEF PingsCountOnce
<1>2. CASE PingSent
    <2>1. pings + 1 \notin pingStart
        BY <1>0
    <2>2. Cardinality(pingStart') = Cardinality(pingStart) + 1
        BY <1>0, <1>2, <2>1, FS_AddElement DEF PingSent
    <2> QED
        BY <1>0, <1>2, <2>2 DEF PingSent, PingsCountOnce
<1>3. CASE PingsStop
    BY <1>3 DEF PingsStop, PingsCountOnce
<1>4. ASSUME NEW n \in pingStart, PingCounted(n) PROVE PingsCountOnce'
    <2>1. Cardinality(pingStart') = Cardinality(pingStart) - 1
        BY <1>0, <1>4, FS_RemoveElement DEF PingCounted
    <2> QED
        BY <1>0, <1>4, <2>1 DEF PingCounted, PingsCountOnce
<1> QED
    BY <1>1, <1>2, <1>3, <1>4, PingKinds

-----------------------------------------------------------------------------

\* All of it together.
BaseInv == ControlOK /\ FlagsOK /\ DataOK /\ PingsOK /\ QueueOK

\* The constructor establishes it.
LEMMA BaseInit == Init => BaseInv
<1> SUFFICES ASSUME Init PROVE PingsOK /\ QueueOK
    BY ControlInit, DataInit DEF BaseInv
<1> QED
    BY DEF Init, PingsOK, QueueOK, Remembered

\* Every step keeps it.
LEMMA BaseNext == BaseInv /\ [Next]_vars => BaseInv'
BY ControlNext, FlagsNext, DataNext, PingsNext, QueueNext DEF BaseInv

\* So it always holds.
LEMMA BaseIsInvariant == Spec => []BaseInv
BY BaseInit, BaseNext, PTL DEF Spec

(* Every variable stays in its set, and the map holds the queue's commands, *)
(* each of them once.                                                       *)
THEOREM TypeCorrect == Spec => []TypeOK
<1>1. BaseInv => TypeOK
    <2> SUFFICES ASSUME BaseInv PROVE TypeOK
        OBVIOUS
    <2>1. Cardinality(commandMap) = Len(commandQueue)
        BY QueueCount DEF BaseInv
    <2>2. {closed, reported, pinging} \subseteq BOOLEAN
        BY Zenon DEF BaseInv, FlagsOK
    <2> QED
        BY <2>1, <2>2 DEF TypeOK, BaseInv, ControlOK, DataOK, QueueOK
<1> QED
    BY <1>1, BaseIsInvariant, PTL

(* Every ping gives the average one value, that of the answer or of the     *)
(* timeout, whichever is first.                                             *)
THEOREM PingsCount == Spec => []PingsCountOnce
<1>1. Init => PingsCountOnce
    BY FS_EmptySet DEF Init, PingsCountOnce
<1>2. BaseInv /\ PingsCountOnce /\ [Next]_vars => PingsCountOnce'
    BY CountNext DEF BaseInv
<1> QED
    BY <1>1, <1>2, BaseIsInvariant, PTL DEF Spec

-----------------------------------------------------------------------------
(* What a step does to the messages sent, on their way and delivered.      *)

\* One message more has been sent.
SendsOne ==
    /\ DOMAIN sent = 1..Len(sent) /\ DOMAIN sent' = 1..(Len(sent) + 1)
    /\ \A id \in DOMAIN sent : sent'[id] = sent[id]
    /\ sent'[Len(sent) + 1].open <=> tick = "fired"
    /\ sent'[Len(sent) + 1].cmd # pingCommand
    /\ \/ /\ sent'[Len(sent) + 1].kind = "text" /\ sent'[Len(sent) + 1].cmd = textCommandPointer
          /\ textCommandPointer' = IF opt.enableCommand THEN NextCommand ELSE textCommandPointer
       \/ /\ sent'[Len(sent) + 1].kind = "binary" /\ sent'[Len(sent) + 1].cmd = binaryCommand
          /\ textCommandPointer' = textCommandPointer
    /\ UNCHANGED <<delivered, dedupVars, closed>>

\* It is the frame f.
IsSent(f) == SendsOne /\ f.id = Len(sent) + 1 /\ f.cmd = sent'[Len(sent) + 1].cmd

\* A frame is put at the end of a stream, or one is taken out.
Grows(i, f) ==
    /\ Len(wire[i]) \in Nat /\ DOMAIN wire[i] = 1..Len(wire[i])
    /\ DOMAIN wire'[i] = 1..(Len(wire[i]) + 1)
    /\ \A k \in DOMAIN wire[i] : wire'[i][k] = wire[i][k]
    /\ wire'[i][Len(wire[i]) + 1] = f
Shrinks(i, k) ==
    /\ k \in DOMAIN wire[i]
    /\ Len(wire[i]) \in Nat /\ DOMAIN wire[i] = 1..Len(wire[i])
    /\ DOMAIN wire'[i] = 1..(Len(wire[i]) - 1)
    /\ \A l \in DOMAIN wire'[i] : wire'[i][l] = IF l < k THEN wire[i][l] ELSE wire[i][l + 1]

\* Sending is one of two things.
LEMMA SendingFacts ==
    ASSUME DataOK, SendsText \/ SendsBinary
    PROVE  SendsOne
<1>0. sent \in Seq(Texts) /\ textCommandPointer \in textCommandStart..textCommandEnd
    BY DEF DataOK
<1>1. CASE SendsText
    <2>1. Sent(textCommandPointer, "text") /\ textCommandPointer \in Nat
        BY <1>0, <1>1, CommandFacts DEF SendsText
    <2>2. /\ DOMAIN sent = 1..Len(sent) /\ DOMAIN sent' = 1..(Len(sent) + 1)
          /\ \A id \in DOMAIN sent : sent'[id] = sent[id]
          /\ sent'[Len(sent) + 1].cmd = textCommandPointer
          /\ sent'[Len(sent) + 1].kind = "text"
          /\ sent'[Len(sent) + 1].open <=> tick = "fired"
        BY <1>0, <2>1, SentFacts
    <2> QED
        BY <1>0, <1>1, <2>2, CommandFacts DEF SendsText, SendsOne
<1>2. CASE SendsBinary
    <2>1. Sent(binaryCommand, "binary") /\ binaryCommand \in Nat
        BY <1>0, <1>2, CommandFacts DEF SendsBinary
    <2>2. /\ DOMAIN sent = 1..Len(sent) /\ DOMAIN sent' = 1..(Len(sent) + 1)
          /\ \A id \in DOMAIN sent : sent'[id] = sent[id]
          /\ sent'[Len(sent) + 1].cmd = binaryCommand
          /\ sent'[Len(sent) + 1].kind = "binary"
          /\ sent'[Len(sent) + 1].open <=> tick = "fired"
        BY <1>0, <2>1, SentFacts
    <2> QED
        BY <1>0, <1>2, <2>2, CommandFacts DEF SendsBinary, SendsOne
<1> QED
    BY <1>1, <1>2

\* Only sending changes what has been sent, and the pointer.
LEMMA SentStep ==
    ASSUME ControlOK, DataOK, [Next]_vars
    PROVE  UNCHANGED <<sent, textCommandPointer>> \/ SendsOne
BY ZenonT(60), StepKinds, SendingFacts
   DEF Quiet, Pings, DatagramLost, Age, Closes, Ends, CloseInOnMessage, Drop, Reads,
       ReadsNothing, ReadsOnly, ReadsFirst, ReadsCopy, ReadsPing, sendVars

\* onopen is called once.
LEMMA TickStays ==
    ASSUME ControlOK, [Next]_vars, tick = "fired"
    PROVE  tick' = "fired"
<1>1. stage = "done"
    BY DEF ControlOK
<1> QED
    BY <1>1
       DEF Next, Continuation, Timeout, Network, User, Ready, StreamCreated, WritersReady, Tick,
           TransportClosed, ping, Age, PingTimeout, Lost, DatagramLost, ReadEnds, Read, send,
           sendBinary, close, CloseInOnMessage, Drop, setCurrentWriteStreams, vars, connectVars

\* Every step leaves a stream alone, ends it, takes a frame out of it (as a datagram
\* that is lost, or to read the first one), or puts a ping or the message that is sent
\* at its end, where it can be written.
LEMMA WireStep ==
    ASSUME ControlOK, DataOK, PingsOK, [Next]_vars, NEW i \in Streams
    PROVE  \/ wire'[i] = wire[i]
           \/ wire'[i] = <<>> /\ reader'[i] = "ended"
           \/ \E k \in DOMAIN wire[i] :
                  Shrinks(i, k) /\ (opt.useDatagrams \/ (k = 1 /\ Reads(i, k)))
           \/ \E f \in Frames :
                  /\ Grows(i, f) /\ link = "up" /\ reader[i] # "ended"
                  /\ (f.cmd = pingCommand /\ i = 1) \/ (IsSent(f) /\ i \in 1..writers)
<1>0. /\ wire \in [Streams -> Seq(Frames)] /\ sent \in Seq(Texts)
      /\ textCommandPointer \in textCommandStart..textCommandEnd
    BY DEF DataOK
<1>1. CASE Quiet \/ Age \/ Closes
    BY <1>1 DEF Quiet, Age, Closes
<1>2. ASSUME NEW f \in Frames, NEW to, Write(f, to)
      PROVE  \/ wire'[i] = wire[i]
             \/ Grows(i, f) /\ i \in to /\ link = "up" /\ reader[i] # "ended"
    <2>1. CASE i \in to /\ link = "up" /\ reader[i] # "ended"
        BY <1>0, <1>2, <2>1, WriteFacts DEF Grows
    <2>2. CASE ~(i \in to /\ link = "up" /\ reader[i] # "ended")
        BY <1>0, <1>2, <2>2, WriteFacts
    <2> QED
        BY <2>1, <2>2
<1>3. CASE SendsText
    <2> DEFINE f == [cmd |-> textCommandPointer, id |-> Len(sent) + 1]
    <2>1. SendsOne /\ sent'[Len(sent) + 1].cmd = textCommandPointer
        BY <1>0, <1>3, SendingFacts, SentFacts, CommandFacts DEF SendsText
    <2>2. f \in Frames /\ IsSent(f)
        BY <1>0, <2>1, CommandFacts DEF Frames, IsSent
    <2>3. \E to \in SUBSET (1..writers) : Write(f, to)
        BY <1>3 DEF SendsText
    <2> HIDE DEF f
    <2> QED
        BY <1>2, <2>2, <2>3
<1>4. CASE SendsBinary
    <2> DEFINE f == [cmd |-> binaryCommand, id |-> Len(sent) + 1]
    <2>1. SendsOne /\ sent'[Len(sent) + 1].cmd = binaryCommand
        BY <1>0, <1>4, SendingFacts, SentFacts, CommandFacts DEF SendsBinary
    <2>2. f \in Frames /\ IsSent(f)
        BY <1>0, <2>1, CommandFacts DEF Frames, IsSent
    <2>3. \E to \in SUBSET (1..writers) : Write(f, to)
        BY <1>4 DEF SendsBinary
    <2> HIDE DEF f
    <2> QED
        BY <1>2, <2>2, <2>3
<1>5. CASE Pings
    <2> DEFINE f == [cmd |-> pingCommand, id |-> pings + 1]
    <2>1. f \in Frames /\ f.cmd = pingCommand
        BY <1>0, CommandFacts DEF Frames, PingsOK
    <2>2. Write(f, {1})
        BY <1>5 DEF Pings
    <2> HIDE DEF f
    <2> QED
        BY <1>2, <2>1, <2>2
<1>6. ASSUME NEW j \in Streams, NEW k, Taken(j, k)
      PROVE  wire'[i] = wire[i] \/ Shrinks(i, k)
    <2>1. CASE j = i
        BY <1>0, <1>6, <2>1, TakenFacts DEF Shrinks
    <2>2. CASE j # i
        BY <1>0, <1>6, <2>2, TakenFacts
    <2> QED
        BY <2>1, <2>2
<1>7. CASE DatagramLost
    <2>1. 1 \in Streams
        BY MaxStreamsAssumption DEF Streams
    <2>2. PICK k \in DOMAIN wire[1] : Taken(1, k)
        BY <1>7 DEF Taken, DatagramLost
    <2>3. wire'[i] = wire[i] \/ (k \in DOMAIN wire[i] /\ Shrinks(i, k))
        BY <1>6, <2>1, <2>2 DEF Shrinks
    <2> QED
        BY <1>7, <2>3 DEF DatagramLost
<1>8. ASSUME NEW j \in Streams, Ends(j) \/ CloseInOnMessage(j)
      PROVE  wire'[i] = wire[i] \/ (wire'[i] = <<>> /\ reader'[i] = "ended")
    <2>1. wire' = [wire EXCEPT ![j] = <<>>] /\ reader' = [reader EXCEPT ![j] = "ended"]
        BY <1>8 DEF Ends, CloseInOnMessage
    <2> QED
        BY <1>0, <2>1 DEF ControlOK
<1>9. ASSUME NEW j \in Streams, NEW k \in DOMAIN wire[j], Reads(j, k)
      PROVE  \/ wire'[i] = wire[i]
             \/ \E l \in DOMAIN wire[i] :
                    Shrinks(i, l) /\ (opt.useDatagrams \/ (l = 1 /\ Reads(i, l)))
    <2>1. Taken(j, k)
        BY <1>9 DEF Reads, ReadsNothing, ReadsOnly, ReadsFirst, ReadsCopy, ReadsPing
    <2>2. CASE j # i
        BY <1>0, <2>1, <2>2, TakenFacts
    <2>3. CASE j = i
        <3>1. wire'[i] = wire[i] \/ Shrinks(i, k)
            BY <1>6, <2>1
        <3>2. k \in DOMAIN wire[i] /\ Reads(i, k)
            BY <1>9, <2>3
        <3>3. opt.useDatagrams \/ k = 1
            BY <2>1 DEF Taken
        <3> HIDE DEF Reads
        <3> QED
            BY <3>1, <3>2, <3>3
    <2> QED
        BY <2>2, <2>3
<1> QED
    BY <1>1, <1>3, <1>4, <1>5, <1>7, <1>8, <1>9, StepKinds

\* A message is given to onmessage.
Gives(id) ==
    /\ Len(delivered) \in Nat
    /\ DOMAIN delivered = 1..Len(delivered) /\ DOMAIN delivered' = 1..(Len(delivered) + 1)
    /\ \A k \in DOMAIN delivered : delivered'[k] = delivered[k]
    /\ delivered'[Len(delivered) + 1] = id

\* It is the frame at k of stream i, which is remembered where there are several streams.
GivesFrame(i, k) ==
    /\ k \in DOMAIN wire[i] /\ wire[i][k] \in Frames /\ wire[i][k].cmd # pingCommand
    /\ opt.useDatagrams \/ k = 1
    /\ reader[i] = "reading"
    /\ Gives(wire[i][k].id)
    /\ Shrinks(i, k) \/ wire'[i] = <<>>
    /\ \A j \in Streams \ {i} : wire'[j] = wire[j]
    /\ opt.streamCount > 1 =>
           /\ ~closed /\ ~Known(wire[i][k].cmd)
           /\ closed' = TRUE \/ ReadsFirst(i, k)
    /\ UNCHANGED <<sent, textCommandPointer>>

\* A number at the end of what has been delivered.
LEMMA GivesFacts ==
    ASSUME delivered \in Seq(Nat), NEW id \in Nat, delivered' = Append(delivered, id)
    PROVE  Gives(id)
BY DEF Gives

\* Every step gives out nothing, the answer to a ping, or a message.
LEMMA DeliveredStep ==
    ASSUME ControlOK, DataOK, PingsOK, [Next]_vars
    PROVE  \/ delivered' = delivered \/ Gives(0)
           \/ \E i \in Streams : \E k \in DOMAIN wire[i] : GivesFrame(i, k)
<1>0. wire \in [Streams -> Seq(Frames)] /\ delivered \in Seq(Nat)
    BY DEF DataOK
<1>1. ASSUME NEW i \in Streams, NEW k \in DOMAIN wire[i], Taken(i, k), reader[i] = "reading",
             wire[i][k].cmd # pingCommand, UNCHANGED <<sent, textCommandPointer>>,
             delivered' = Append(delivered, wire[i][k].id),
             opt.streamCount > 1 =>
                 ~closed /\ ~Known(wire[i][k].cmd) /\ ReadsFirst(i, k)
      PROVE  GivesFrame(i, k)
    <2>1. /\ wire[i][k] \in Frames /\ Shrinks(i, k) /\ \A j \in Streams \ {i} : wire'[j] = wire[j]
        BY <1>0, <1>1, TakenFacts DEF Shrinks
    <2>2. wire[i][k].id \in Nat
        BY <2>1 DEF Frames
    <2>3. Gives(wire[i][k].id)
        BY <1>0, <1>1, <2>2, GivesFacts
    <2>4. opt.useDatagrams \/ k = 1
        BY <1>1 DEF Taken
    <2> QED
        BY <1>1, <2>1, <2>3, <2>4 DEF GivesFrame
<1>2. ASSUME NEW i \in Streams, NEW k \in DOMAIN wire[i], Reads(i, k), delivered' # delivered
      PROVE  Gives(0) \/ GivesFrame(i, k)
    <2>1. ReadsOnly(i, k) \/ (ReadsFirst(i, k) /\ ~closed)
        BY <1>2 DEF Reads, ReadsNothing, ReadsCopy, ReadsPing, Ignore
    <2>2. CASE ReadsOnly(i, k)
        <3>1. CASE wire[i][k].cmd = pingCommand
            <4>1. delivered' = Append(delivered, 0)
                BY <2>2, <3>1 DEF ReadsOnly, Deliver
            <4> QED
                BY <1>0, <4>1, GivesFacts
        <3>2. CASE wire[i][k].cmd # pingCommand
            <4>1. delivered' = Append(delivered, wire[i][k].id)
                BY <2>2, <3>2 DEF ReadsOnly, Deliver
            <4>2. Taken(i, k) /\ ~(opt.streamCount > 1) /\ UNCHANGED <<sent, textCommandPointer>>
                BY <2>2 DEF ReadsOnly
            <4>3. reader[i] = "reading"
                BY <1>2 DEF Reads
            <4> QED
                BY <1>1, <3>2, <4>1, <4>2, <4>3
        <3> QED
            BY <3>1, <3>2
    <2>3. CASE ReadsFirst(i, k) /\ ~closed
        <3>1. delivered' = Append(delivered, wire[i][k].id) /\ ~Known(wire[i][k].cmd)
            BY <2>3 DEF ReadsFirst, DeliverFirst
        <3>2. /\ Taken(i, k) /\ UNCHANGED <<sent, textCommandPointer>>
              /\ wire[i][k].cmd # pingCommand
            BY <2>3 DEF ReadsFirst
        <3>3. reader[i] = "reading"
            BY <1>2 DEF Reads
        <3> QED
            BY <1>1, <2>3, <3>1, <3>2, <3>3
    <2> QED
        BY <2>1, <2>2, <2>3
<1>3. ASSUME NEW i \in Streams, CloseInOnMessage(i)
      PROVE  Gives(0) \/ \E k \in DOMAIN wire[i] : GivesFrame(i, k)
    <2>1. wire[i] # <<>> /\ wire[i] \in Seq(Frames) /\ reader[i] = "reading"
        BY <1>0, <1>3 DEF CloseInOnMessage
    <2>2. 1 \in DOMAIN wire[i] /\ wire[i][1] \in Frames /\ Head(wire[i]) = wire[i][1]
        BY <2>1
    <2>3. /\ opt.enableCommand => wire[i][1].cmd # pingCommand
          /\ opt.streamCount > 1 => ~Known(wire[i][1].cmd)
          /\ delivered' = Append(delivered, IF wire[i][1].cmd = pingCommand THEN 0
                                            ELSE wire[i][1].id)
        BY <1>3, <2>2 DEF CloseInOnMessage
    <2>4. /\ ~closed /\ closed' = TRUE /\ wire' = [wire EXCEPT ![i] = <<>>]
          /\ UNCHANGED <<sent, textCommandPointer>>
        BY <1>3 DEF CloseInOnMessage, Drop, sendVars
    <2>5. CASE wire[i][1].cmd = pingCommand
        BY <1>0, <2>3, <2>5, GivesFacts
    <2>6. CASE wire[i][1].cmd # pingCommand
        <3>1. wire[i][1].id \in Nat
            BY <2>2 DEF Frames
        <3>2. Gives(wire[i][1].id)
            BY <1>0, <2>3, <2>6, <3>1, GivesFacts
        <3>3. wire'[i] = <<>> /\ \A j \in Streams \ {i} : wire'[j] = wire[j]
            BY <1>0, <2>4
        <3> QED
            BY <2>1, <2>2, <2>3, <2>4, <2>6, <3>2, <3>3 DEF GivesFrame
    <2> QED
        BY <2>5, <2>6
<1>4. CASE Quiet \/ SendsText \/ SendsBinary \/ Pings \/ DatagramLost \/ Age \/ Closes
           \/ \E i \in Streams : Ends(i)
    BY <1>4 DEF Quiet, SendsText, SendsBinary, Pings, DatagramLost, Age, Closes, Ends
<1> QED
    BY <1>2, <1>3, <1>4, StepKinds

\* Every step leaves the queue alone, empties it for good, or adds a message to it.
LEMMA QueueStep ==
    ASSUME ControlOK, [Next]_vars
    PROVE  \/ UNCHANGED <<commandQueue, forgotten>>
           \/ closed' = TRUE /\ commandQueue' = <<>> /\ forgotten' = forgotten
           \/ \E i \in Streams : \E k \in DOMAIN wire[i] : ReadsFirst(i, k)
<1>1. ASSUME NEW i \in Streams, NEW k \in DOMAIN wire[i], Reads(i, k)
      PROVE  UNCHANGED <<commandQueue, forgotten>> \/ ReadsFirst(i, k)
    BY <1>1 DEF Reads, ReadsNothing, ReadsOnly, ReadsCopy, ReadsPing, Deliver, Ignore, dedupVars
<1>2. ASSUME NEW i \in Streams, CloseInOnMessage(i)
      PROVE  closed' = TRUE /\ commandQueue' = <<>> /\ forgotten' = forgotten
    BY <1>2 DEF CloseInOnMessage, Drop
<1>3. CASE Quiet \/ SendsText \/ SendsBinary \/ Pings \/ DatagramLost \/ Age
           \/ \E i \in Streams : Ends(i)
    BY <1>3 DEF Quiet, SendsText, SendsBinary, Pings, DatagramLost, Age, Ends, dedupVars
<1>4. CASE Closes
    BY <1>4 DEF Closes
<1> QED
    BY <1>1, <1>2, <1>3, <1>4, StepKinds

-----------------------------------------------------------------------------
(* Every message on its way, delivered, remembered or dropped was sent.    *)

IsOf(f, messages) ==
    f.cmd # pingCommand => f.id \in DOMAIN messages /\ messages[f.id].cmd = f.cmd
WireSent == \A i \in Streams : \A k \in DOMAIN wire[i] : IsOf(wire[i][k], sent)
SentPlain ==
    \A id \in DOMAIN sent : sent[id].cmd # pingCommand /\ (sent[id].open => tick = "fired")
WasDelivered(id) == \E k \in DOMAIN delivered : delivered[k] = id
DeliveredSent == \A k \in DOMAIN delivered : delivered[k] # 0 => delivered[k] \in DOMAIN sent
QueueSent ==
    \A k \in DOMAIN commandQueue :
        LET e == commandQueue[k]
        IN  e.id \in DOMAIN sent /\ sent[e.id].cmd = e.cmd /\ WasDelivered(e.id)
DroppedSent == dropped \subseteq DOMAIN sent
MessagesKnown == WireSent /\ SentPlain /\ DeliveredSent /\ QueueSent /\ DroppedSent
KnownInv == BaseInv /\ MessagesKnown

\* What was sent stays sent.
LEMMA SentGrows ==
    ASSUME BaseInv, [Next]_vars, NEW id \in DOMAIN sent
    PROVE  id \in DOMAIN sent' /\ sent'[id] = sent[id]
<1>1. UNCHANGED sent \/ SendsOne
    BY SentStep DEF BaseInv
<1>2. CASE UNCHANGED sent
    BY <1>2
<1>3. CASE SendsOne
    <2>1. sent \in Seq(Texts) /\ Len(sent) \in Nat
        BY DEF BaseInv, DataOK
    <2> QED
        BY <1>3, <2>1 DEF SendsOne
<1> QED
    BY <1>1, <1>2, <1>3

\* What was delivered stays delivered.
LEMMA DeliveredGrows ==
    ASSUME BaseInv, [Next]_vars, NEW k \in DOMAIN delivered
    PROVE  k \in DOMAIN delivered' /\ delivered'[k] = delivered[k]
<1>1. UNCHANGED delivered \/ \E id : Gives(id)
    BY DeliveredStep DEF BaseInv, GivesFrame
<1>2. ASSUME NEW id, Gives(id) PROVE k \in DOMAIN delivered' /\ delivered'[k] = delivered[k]
    BY <1>2 DEF Gives
<1> QED
    BY <1>1, <1>2

\* The frames: old ones stay, a new one is of the message that is sent.
LEMMA WireSentNext == KnownInv /\ [Next]_vars => WireSent'
<1> SUFFICES ASSUME KnownInv, [Next]_vars, NEW i \in Streams, NEW k \in DOMAIN wire'[i]
             PROVE  IsOf(wire'[i][k], sent')
    BY DEF WireSent
<1>1. BaseInv /\ WireSent
    BY DEF KnownInv, MessagesKnown
<1>2. ASSUME NEW l \in DOMAIN wire[i], wire'[i][k] = wire[i][l]
      PROVE  IsOf(wire'[i][k], sent')
    <2>1. IsOf(wire[i][l], sent)
        BY <1>1 DEF WireSent
    <2>2. wire[i][l].cmd # pingCommand => /\ wire[i][l].id \in DOMAIN sent'
                                          /\ sent'[wire[i][l].id].cmd = wire[i][l].cmd
        BY <1>1, <2>1, SentGrows DEF IsOf
    <2> QED
        BY <1>2, <2>2 DEF IsOf
<1>3. CASE wire'[i] = wire[i]
    BY <1>2, <1>3
<1>4. CASE wire'[i] = <<>>
    BY <1>4
<1>5. ASSUME NEW l \in DOMAIN wire[i], Shrinks(i, l) PROVE IsOf(wire'[i][k], sent')
    <2>1. k \in DOMAIN wire[i] /\ k + 1 \in DOMAIN wire[i]
        BY <1>5 DEF Shrinks
    <2>2. wire'[i][k] = wire[i][k] \/ wire'[i][k] = wire[i][k + 1]
        BY <1>5 DEF Shrinks
    <2> QED
        BY <1>2, <2>1, <2>2
<1>6. ASSUME NEW f \in Frames, Grows(i, f), f.cmd = pingCommand \/ IsSent(f)
      PROVE  IsOf(wire'[i][k], sent')
    <2>1. k \in DOMAIN wire[i] \/ k = Len(wire[i]) + 1
        BY <1>6 DEF Grows
    <2>2. CASE k \in DOMAIN wire[i]
        <3>1. wire'[i][k] = wire[i][k]
            BY <1>6, <2>2 DEF Grows
        <3> QED
            BY <1>2, <2>2, <3>1
    <2>3. CASE k = Len(wire[i]) + 1
        <3>1. wire'[i][k] = f
            BY <1>6, <2>3 DEF Grows
        <3>2. IsSent(f) => f.id \in DOMAIN sent' /\ sent'[f.id].cmd = f.cmd
            BY DEF IsSent, SendsOne
        <3> QED
            BY <1>6, <3>1, <3>2 DEF IsOf
    <2> QED
        BY <2>1, <2>2, <2>3
<1> QED
    BY <1>1, <1>3, <1>4, <1>5, <1>6, WireStep DEF BaseInv

\* No message has the command of a ping, and one sent after onopen is known as such.
LEMMA SentPlainNext == KnownInv /\ [Next]_vars => SentPlain'
<1> SUFFICES ASSUME BaseInv, SentPlain, [Next]_vars, NEW id \in DOMAIN sent'
             PROVE  sent'[id].cmd # pingCommand /\ (sent'[id].open => tick' = "fired")
    BY DEF SentPlain, KnownInv, MessagesKnown
<1>1. CASE id \in DOMAIN sent
    BY <1>1, SentGrows, TickStays DEF SentPlain, BaseInv
<1>2. CASE id \notin DOMAIN sent
    <2>1. SendsOne /\ id = Len(sent) + 1
        BY <1>2, SentStep DEF SendsOne, BaseInv
    <2> QED
        BY <2>1, TickStays DEF SendsOne, BaseInv
<1> QED
    BY <1>1, <1>2

\* What is given to onmessage was on its way.
LEMMA DeliveredSentNext == KnownInv /\ [Next]_vars => DeliveredSent'
<1> SUFFICES ASSUME BaseInv, WireSent, DeliveredSent, [Next]_vars,
                    NEW l \in DOMAIN delivered', delivered'[l] # 0
             PROVE  delivered'[l] \in DOMAIN sent'
    BY DEF DeliveredSent, KnownInv, MessagesKnown
<1>1. CASE l \in DOMAIN delivered
    <2>1. delivered'[l] = delivered[l]
        BY <1>1, DeliveredGrows
    <2>2. delivered[l] \in DOMAIN sent
        BY <1>1, <2>1 DEF DeliveredSent
    <2> QED
        BY <2>1, <2>2, SentGrows
<1>2. CASE l \notin DOMAIN delivered
    <2>1. \A id : Gives(id) => l = Len(delivered) + 1 /\ delivered'[l] = id
        BY <1>2 DEF Gives
    <2>2. PICK i \in Streams : \E k \in DOMAIN wire[i] : GivesFrame(i, k)
        BY <1>2, <2>1, DeliveredStep DEF BaseInv
    <2>3. PICK k \in DOMAIN wire[i] : GivesFrame(i, k)
        BY <2>2
    <2>4. delivered'[l] = wire[i][k].id /\ wire[i][k].cmd # pingCommand
        BY <2>1, <2>3 DEF GivesFrame
    <2>5. wire[i][k].id \in DOMAIN sent
        BY <2>4 DEF WireSent, IsOf
    <2> QED
        BY <2>4, <2>5, SentGrows
<1> QED
    BY <1>1, <1>2

\* The parts of a queue after a message has been added.
LEMMA QueueParts ==
    ASSUME DataOK, NEW i \in Streams, NEW k, ReadsFirst(i, k)
    PROVE  /\ \A j \in DOMAIN commandQueue' :
                  \/ commandQueue'[j] = [cmd |-> wire[i][k].cmd, id |-> wire[i][k].id]
                  \/ \E l \in DOMAIN commandQueue : commandQueue'[j] = commandQueue[l]
           /\ \E j \in DOMAIN commandQueue' : commandQueue'[j].id = wire[i][k].id
           /\ \A l \in DOMAIN commandQueue :
                  \/ commandQueue[l].id \in forgotten'
                  \/ \E j \in DOMAIN commandQueue' : commandQueue'[j] = commandQueue[l]
           /\ forgotten \subseteq forgotten'
<1> DEFINE f == wire[i][k]
           n == Len(commandQueue)
           e == [cmd |-> f.cmd, id |-> f.id]
           queue == Append(commandQueue, e)
<1>0. /\ commandQueue \in Seq(Frames) /\ aged \in 0..Len(commandQueue)
      /\ wire \in [Streams -> Seq(Frames)]
    BY DEF DataOK
<1>1. f \in Frames /\ DeliverFirst(f)
    BY <1>0, TakenFacts DEF ReadsFirst
<1>2. e.id = f.id
    OBVIOUS
<1> HIDE DEF f, e
<1>3. /\ n \in Nat /\ aged \in 0..n
      /\ DOMAIN commandQueue' = 1..(n + 1 - aged)
      /\ \A j \in 1..(n + 1 - aged) : commandQueue'[j] = queue[aged + j]
      /\ \A j \in 1..n : queue[j] = commandQueue[j]
      /\ queue[n + 1] = e
      /\ forgotten' = forgotten \cup {queue[j].id : j \in 1..aged}
    BY <1>0, <1>1, QueueFacts DEF e
<1>4. DOMAIN commandQueue = 1..n
    BY <1>0
<1> HIDE DEF n, queue
<1>5. ASSUME NEW j \in DOMAIN commandQueue'
      PROVE  \/ commandQueue'[j] = e
             \/ \E l \in DOMAIN commandQueue : commandQueue'[j] = commandQueue[l]
    <2>1. commandQueue'[j] = queue[aged + j] /\ (aged + j \in 1..n \/ aged + j = n + 1)
        BY <1>3
    <2> QED
        BY <1>3, <1>4, <2>1
<1>6. n + 1 - aged \in DOMAIN commandQueue' /\ commandQueue'[n + 1 - aged] = e
    <2>1. n + 1 - aged \in 1..(n + 1 - aged) /\ aged + (n + 1 - aged) = n + 1
        BY <1>3
    <2> QED
        BY <1>3, <2>1
<1>7. ASSUME NEW l \in DOMAIN commandQueue
      PROVE  \/ commandQueue[l].id \in forgotten'
             \/ \E j \in DOMAIN commandQueue' : commandQueue'[j] = commandQueue[l]
    <2>1. CASE l <= aged
        <3>1. l \in 1..aged /\ queue[l] = commandQueue[l]
            BY <1>3, <1>4, <2>1
        <3> QED
            BY <1>3, <3>1
    <2>2. CASE l > aged
        <3>1. l - aged \in 1..(n + 1 - aged) /\ aged + (l - aged) = l /\ l \in 1..n
            BY <1>3, <1>4, <2>2
        <3>2. commandQueue'[l - aged] = commandQueue[l]
            BY <1>3, <3>1
        <3> QED
            BY <1>3, <3>1, <3>2
    <2> QED
        BY <1>3, <1>4, <2>1, <2>2
<1> QED
    BY <1>2, <1>3, <1>5, <1>6, <1>7 DEF e, f

\* What is remembered has been delivered.
LEMMA QueueSentNext == KnownInv /\ [Next]_vars => QueueSent'
<1> DEFINE Fine(e) == e.id \in DOMAIN sent' /\ sent'[e.id].cmd = e.cmd
                      /\ \E j \in DOMAIN delivered' : delivered'[j] = e.id
<1> SUFFICES ASSUME BaseInv, WireSent, QueueSent, [Next]_vars, NEW l \in DOMAIN commandQueue'
             PROVE  Fine(commandQueue'[l])
    BY DEF QueueSent, WasDelivered, KnownInv, MessagesKnown
<1>1. ASSUME NEW j \in DOMAIN commandQueue PROVE Fine(commandQueue[j])
    <2>1. /\ commandQueue[j].id \in DOMAIN sent
          /\ sent[commandQueue[j].id].cmd = commandQueue[j].cmd
          /\ \E m \in DOMAIN delivered : delivered[m] = commandQueue[j].id
        BY DEF QueueSent, WasDelivered
    <2> QED
        BY <2>1, SentGrows, DeliveredGrows
<1>2. CASE commandQueue' = commandQueue
    BY <1>1, <1>2
<1>3. CASE commandQueue' = <<>>
    BY <1>3
<1>4. ASSUME NEW i \in Streams, NEW k \in DOMAIN wire[i], ReadsFirst(i, k)
      PROVE  Fine(commandQueue'[l])
    <2> DEFINE e == [cmd |-> wire[i][k].cmd, id |-> wire[i][k].id]
    <2>1. \/ commandQueue'[l] = e
          \/ \E j \in DOMAIN commandQueue : commandQueue'[l] = commandQueue[j]
        BY <1>4, QueueParts DEF BaseInv
    <2>2. e.id = wire[i][k].id /\ e.cmd = wire[i][k].cmd
        OBVIOUS
    <2>3. wire[i][k].id \in DOMAIN sent /\ sent[wire[i][k].id].cmd = wire[i][k].cmd
        BY <1>4 DEF WireSent, IsOf, ReadsFirst
    <2>4. Gives(wire[i][k].id)
        <3>1. delivered' = Append(delivered, wire[i][k].id)
            BY <1>4 DEF ReadsFirst, DeliverFirst
        <3>2. wire[i][k].id \in Nat
            BY <2>3 DEF BaseInv, DataOK
        <3> QED
            BY <3>1, <3>2, GivesFacts DEF BaseInv, DataOK
    <2>5. \E j \in DOMAIN delivered' : delivered'[j] = wire[i][k].id
        BY <2>4 DEF Gives
    <2>6. Fine(e)
        <3> HIDE DEF e
        <3> QED
            BY <2>2, <2>3, <2>5, SentGrows
    <2> HIDE DEF e, Fine
    <2> QED
        BY <1>1, <2>1, <2>6
<1> QED
    BY <1>2, <1>3, <1>4, QueueStep DEF BaseInv

\* What is ignored was on its way.
LEMMA DroppedSentNext == KnownInv /\ [Next]_vars => DroppedSent'
<1> SUFFICES ASSUME BaseInv, WireSent, DroppedSent, [Next]_vars
             PROVE  dropped' \subseteq DOMAIN sent'
    BY DEF DroppedSent, KnownInv, MessagesKnown
<1>1. DOMAIN sent \subseteq DOMAIN sent'
    BY SentGrows
<1>2. ASSUME NEW i \in Streams, NEW k \in DOMAIN wire[i], Reads(i, k)
      PROVE  dropped' \subseteq DOMAIN sent
    <2>1. CASE ReadsCopy(i, k)
        <3>1. wire[i][k].id \in DOMAIN sent
            BY <2>1 DEF WireSent, IsOf, ReadsCopy
        <3> QED
            BY <2>1, <3>1 DEF ReadsCopy, Ignore, DroppedSent
    <2>2. CASE ~ReadsCopy(i, k)
        BY <1>2, <2>2 DEF Reads, ReadsNothing, ReadsOnly, ReadsFirst, ReadsPing, Deliver,
                          DeliverFirst, dedupVars, DroppedSent
    <2> QED
        BY <2>1, <2>2
<1>3. CASE dropped' = dropped
    BY <1>1, <1>3 DEF DroppedSent
<1> QED
    BY <1>1, <1>2, <1>3, StepKinds
       DEF BaseInv, Quiet, SendsText, SendsBinary, Pings, DatagramLost, Age, Ends, Closes,
           CloseInOnMessage, Drop, dedupVars

\* So it always holds.
LEMMA KnownIsInvariant == Spec => []KnownInv
<1>1. Init => MessagesKnown
    BY DEF Init, MessagesKnown, WireSent, SentPlain, DeliveredSent, QueueSent, DroppedSent
<1>2. KnownInv /\ [Next]_vars => MessagesKnown'
    BY WireSentNext, SentPlainNext, DeliveredSentNext, QueueSentNext, DroppedSentNext
       DEF MessagesKnown
<1>3. Init => KnownInv
    BY <1>1, BaseInit DEF KnownInv
<1>4. KnownInv /\ [Next]_vars => KnownInv'
    BY <1>2, BaseNext DEF KnownInv
<1> QED
    BY <1>3, <1>4, PTL DEF Spec

-----------------------------------------------------------------------------
(* No message is delivered twice.                                          *)

NoRepeats ==
    \A k, l \in DOMAIN delivered :
        delivered[k] = delivered[l] /\ delivered[k] # 0 => k = l \/ delivered[k] \in forgotten
OnlyStream ==
    opt.streamCount = 1 =>
        /\ \A i \in Streams \ {1} : wire[i] = <<>>
        /\ \A k \in DOMAIN wire[1] :
               wire[1][k].cmd # pingCommand => ~WasDelivered(wire[1][k].id)
        /\ \A k, l \in DOMAIN wire[1] :
               wire[1][k].cmd # pingCommand /\ wire[1][l].cmd # pingCommand
               /\ wire[1][k].id = wire[1][l].id => k = l
Remembers ==
    (opt.streamCount > 1 /\ ~closed) =>
        \A k \in DOMAIN delivered :
            delivered[k] # 0 => \/ delivered[k] \in forgotten
                                \/ \E j \in DOMAIN commandQueue : commandQueue[j].id = delivered[k]
OnceInv == NoRepeats /\ OnlyStream /\ Remembers

\* The options stay as they are; what is closed or forgotten stays so.
LEMMA OptStays == [Next]_vars => opt' = opt
<1> SUFFICES ASSUME [Next]_vars PROVE opt' = opt
    OBVIOUS
<1> QED
    BY DEF Next, Continuation, Timeout, Network, User, Ready, StreamCreated, WritersReady, Tick,
           TransportClosed, ping, Age, PingTimeout, Lost, DatagramLost, ReadEnds, Read, send,
           sendBinary, close, CloseInOnMessage, Drop, setCurrentWriteStreams, vars

\* close() is not undone.
LEMMA ClosedStays ==
    ASSUME BaseInv, [Next]_vars, closed
    PROVE  closed'
<1>1. closed' = closed \/ closed' = TRUE
    BY DEF Next, Continuation, Timeout, Network, User, Ready, StreamCreated, WritersReady, Tick,
           TransportClosed, ping, Age, PingTimeout, Lost, DatagramLost, ReadEnds, Read, send,
           sendBinary, close, CloseInOnMessage, Drop, setCurrentWriteStreams, vars
<1> QED
    BY Zenon, <1>1

\* What is forgotten stays so.
LEMMA ForgottenGrows == BaseInv /\ [Next]_vars => forgotten \subseteq forgotten'
BY QueueStep, QueueParts DEF BaseInv

\* A message that is given out was not before, or had been forgotten.
LEMMA GivenIsNew ==
    ASSUME KnownInv, OnceInv, NEW i \in Streams, NEW k \in DOMAIN wire[i], GivesFrame(i, k),
           WasDelivered(wire[i][k].id)
    PROVE  wire[i][k].id \in forgotten
<1> DEFINE f == wire[i][k]
<1>1. f.cmd # pingCommand /\ f.id \in DOMAIN sent /\ sent[f.id].cmd = f.cmd /\ f.id # 0
    <2>1. f.cmd # pingCommand /\ f.id \in DOMAIN sent /\ sent[f.id].cmd = f.cmd
        BY DEF GivesFrame, KnownInv, MessagesKnown, WireSent, IsOf
    <2> QED
        BY <2>1 DEF KnownInv, BaseInv, DataOK
<1>2. opt.streamCount \in 1..MaxStreams
    BY OptionFacts DEF KnownInv, BaseInv, ControlOK
<1>3. opt.streamCount # 1
    BY <1>1 DEF OnceInv, OnlyStream
<1>4. opt.streamCount > 1 /\ ~closed /\ ~Known(f.cmd)
    BY <1>2, <1>3, MaxStreamsAssumption DEF GivesFrame
<1>5. PICK l \in DOMAIN delivered : delivered[l] = f.id
    BY DEF WasDelivered
<1>6. f.id \in forgotten \/ \E j \in DOMAIN commandQueue : commandQueue[j].id = f.id
    BY <1>1, <1>4, <1>5 DEF OnceInv, Remembers
<1>7. ASSUME NEW j \in DOMAIN commandQueue, commandQueue[j].id = f.id PROVE FALSE
    <2>1. commandQueue[j].cmd = f.cmd
        BY <1>1, <1>7 DEF KnownInv, MessagesKnown, QueueSent
    <2>2. f.cmd \in commandMap
        BY <2>1 DEF KnownInv, BaseInv, QueueOK, Remembered
    <2> QED
        BY <1>4, <2>2 DEF Known
<1> QED
    BY <1>6, <1>7

\* Nothing is delivered again.
LEMMA NoRepeatsNext == KnownInv /\ OnceInv /\ [Next]_vars => NoRepeats'
<1> SUFFICES ASSUME KnownInv, OnceInv, [Next]_vars,
                    NEW k \in DOMAIN delivered', NEW l \in DOMAIN delivered', k # l,
                    delivered'[k] = delivered'[l], delivered'[k] # 0
             PROVE  delivered'[k] \in forgotten'
    BY DEF NoRepeats
<1>0. BaseInv /\ forgotten \subseteq forgotten'
    BY ForgottenGrows DEF KnownInv
<1>1. CASE k \in DOMAIN delivered /\ l \in DOMAIN delivered
    <2>1. delivered'[k] = delivered[k] /\ delivered'[l] = delivered[l]
        BY <1>0, <1>1, DeliveredGrows
    <2> QED
        BY <1>0, <1>1, <2>1 DEF OnceInv, NoRepeats
<1>2. ASSUME NEW m \in DOMAIN delivered', NEW n \in DOMAIN delivered', m # n,
             delivered'[m] = delivered'[n], delivered'[m] # 0, n \notin DOMAIN delivered
      PROVE  delivered'[m] \in forgotten'
    <2>1. \A id : Gives(id) => /\ n = Len(delivered) + 1 /\ delivered'[n] = id
                               /\ m \in DOMAIN delivered /\ delivered'[m] = delivered[m]
        BY <1>2 DEF Gives
    <2>2. PICK i \in Streams : \E p \in DOMAIN wire[i] : GivesFrame(i, p)
        BY <1>0, <1>2, <2>1, DeliveredStep DEF BaseInv
    <2>3. PICK p \in DOMAIN wire[i] : GivesFrame(i, p)
        BY <2>2
    <2>4. delivered'[n] = wire[i][p].id /\ m \in DOMAIN delivered /\ delivered'[m] = delivered[m]
        BY <2>1, <2>3 DEF GivesFrame
    <2>5. WasDelivered(wire[i][p].id)
        BY <1>2, <2>4 DEF WasDelivered
    <2>6. wire[i][p].id \in forgotten
        BY <2>3, <2>5, GivenIsNew
    <2> QED
        BY <1>0, <1>2, <2>4, <2>6
<1> QED
    BY <1>1, <1>2

\* One stream carries each message once.
LEMMA OnlyStreamNext == KnownInv /\ OnceInv /\ [Next]_vars => OnlyStream'
<1> SUFFICES ASSUME KnownInv, OnceInv, [Next]_vars, opt'.streamCount = 1
             PROVE  /\ \A i \in Streams \ {1} : wire'[i] = <<>>
                    /\ \A k \in DOMAIN wire'[1] :
                           wire'[1][k].cmd # pingCommand =>
                               \A m \in DOMAIN delivered' : delivered'[m] # wire'[1][k].id
                    /\ \A k, l \in DOMAIN wire'[1] :
                           wire'[1][k].cmd # pingCommand /\ wire'[1][l].cmd # pingCommand
                           /\ wire'[1][k].id = wire'[1][l].id => k = l
    BY DEF OnlyStream, WasDelivered
<1>0. /\ BaseInv /\ WireSent /\ DeliveredSent /\ 1 \in Streams
      /\ opt.streamCount = 1 /\ writers \in 0..1
    <2>1. opt.streamCount = 1
        BY OptStays
    <2> QED
        BY <2>1, MaxStreamsAssumption DEF KnownInv, MessagesKnown, BaseInv, ControlOK, Streams
<1>1. /\ \A i \in Streams \ {1} : wire[i] = <<>>
      /\ \A k \in DOMAIN wire[1] :
             wire[1][k].cmd # pingCommand =>
                 \A m \in DOMAIN delivered : delivered[m] # wire[1][k].id
      /\ \A k, l \in DOMAIN wire[1] :
             wire[1][k].cmd # pingCommand /\ wire[1][l].cmd # pingCommand
             /\ wire[1][k].id = wire[1][l].id => k = l
    BY <1>0 DEF OnceInv, OnlyStream, WasDelivered
<1>2. \A k \in DOMAIN wire[1] :
          wire[1][k].cmd # pingCommand =>
              wire[1][k].id \in DOMAIN sent /\ wire[1][k].id # 0 /\ wire[1][k].id # Len(sent) + 1
    <2>1. \A id \in DOMAIN sent : id # 0 /\ id # Len(sent) + 1
        BY <1>0 DEF BaseInv, DataOK
    <2> QED
        BY <1>0, <2>1 DEF WireSent, IsOf
<1>3. \A m \in DOMAIN delivered : delivered[m] # Len(sent) + 1
    <2>1. \A m \in DOMAIN delivered : delivered[m] # 0 => delivered[m] \in 1..Len(sent)
        BY <1>0 DEF DeliveredSent, BaseInv, DataOK
    <2>2. Len(sent) \in Nat
        BY <1>0 DEF BaseInv, DataOK
    <2> QED
        BY <2>1, <2>2
<1>4. ASSUME NEW i \in Streams \ {1} PROVE wire'[i] = <<>>
    <2>1. wire[i] = <<>> /\ i \notin 1..writers \cup {1}
        BY <1>0, <1>1 DEF Streams
    <2> QED
        BY <1>0, <2>1, WireStep DEF BaseInv
<1>5. \/ wire'[1] = wire[1] \/ wire'[1] = <<>> \/ \E k \in DOMAIN wire[1] : Shrinks(1, k)
      \/ \E f \in Frames : Grows(1, f) /\ (f.cmd = pingCommand \/ IsSent(f))
    BY <1>0, WireStep DEF BaseInv
<1>6. ASSUME NEW k \in DOMAIN wire'[1], NEW l \in DOMAIN wire'[1],
             wire'[1][k].cmd # pingCommand, wire'[1][l].cmd # pingCommand,
             wire'[1][k].id = wire'[1][l].id
      PROVE  k = l
    <2>1. CASE wire'[1] = wire[1]
        BY <1>1, <1>6, <2>1
    <2>2. ASSUME NEW p \in DOMAIN wire[1], Shrinks(1, p) PROVE k = l
        <3> DEFINE old(m) == IF m < p THEN m ELSE m + 1
        <3>1. \A m \in DOMAIN wire'[1] : old(m) \in DOMAIN wire[1] /\ wire'[1][m] = wire[1][old(m)]
            BY <2>2 DEF Shrinks
        <3>2. k \in Nat /\ l \in Nat /\ p \in Nat
            BY <2>2 DEF Shrinks
        <3>3. old(k) = old(l) => k = l
            BY <3>2
        <3> HIDE DEF old
        <3> QED
            BY <1>1, <1>6, <3>1, <3>3
    <2>3. ASSUME NEW f \in Frames, Grows(1, f), f.cmd = pingCommand \/ IsSent(f) PROVE k = l
        <3>1. /\ \A m \in DOMAIN wire[1] : wire'[1][m] = wire[1][m]
              /\ \A m \in DOMAIN wire'[1] : m \in DOMAIN wire[1] \/ m = Len(wire[1]) + 1
              /\ wire'[1][Len(wire[1]) + 1] = f
            BY <2>3 DEF Grows
        <3>2. IsSent(f) => f.id = Len(sent) + 1
            BY DEF IsSent
        <3> QED
            BY <1>1, <1>2, <1>6, <2>3, <3>1, <3>2
    <2> QED
        BY <1>5, <2>1, <2>2, <2>3
<1>7. ASSUME NEW k \in DOMAIN wire'[1], wire'[1][k].cmd # pingCommand,
             NEW m \in DOMAIN delivered', delivered'[m] = wire'[1][k].id
      PROVE  FALSE
    <2>1. CASE m \notin DOMAIN delivered
        <3>1. \A id : Gives(id) => delivered'[m] = id
            BY <2>1 DEF Gives
        <3>2. CASE Gives(0)
            <4>1. WireSent'
                BY WireSentNext
            <4>2. wire'[1][k].id \in DOMAIN sent'
                BY <1>0, <1>7, <4>1 DEF WireSent, IsOf
            <4>3. sent' \in Seq(Texts)
                BY <1>0, BaseNext DEF BaseInv, DataOK
            <4> QED
                BY <1>7, <3>1, <3>2, <4>2, <4>3
        <3>3. ASSUME NEW i \in Streams, NEW p \in DOMAIN wire[i], GivesFrame(i, p) PROVE FALSE
            <4>1. i = 1
                BY <1>1
            <4>2. delivered'[m] = wire[1][p].id /\ wire[1][p].cmd # pingCommand
                BY <3>1, <3>3, <4>1 DEF GivesFrame
            <4>3. Shrinks(1, p)
                BY <1>7, <3>3, <4>1 DEF GivesFrame
            <4> DEFINE old(n) == IF n < p THEN n ELSE n + 1
            <4>4. old(k) \in DOMAIN wire[1] /\ wire'[1][k] = wire[1][old(k)]
                BY <4>3 DEF Shrinks
            <4>5. old(k) # p
                BY <4>3 DEF Shrinks
            <4> HIDE DEF old
            <4> QED
                BY <1>1, <1>7, <4>1, <4>2, <4>4, <4>5
        <3> QED
            BY <1>0, <2>1, <3>2, <3>3, DeliveredStep DEF BaseInv
    <2>2. CASE m \in DOMAIN delivered
        <3>1. delivered'[m] = delivered[m]
            BY <1>0, <2>2, DeliveredGrows
        <3>2. ASSUME NEW p \in DOMAIN wire[1], wire'[1][k] = wire[1][p] PROVE FALSE
            BY <1>1, <1>7, <2>2, <3>1, <3>2
        <3>3. ASSUME NEW f \in Frames, Grows(1, f), f.cmd = pingCommand \/ IsSent(f) PROVE FALSE
            <4>1. k = Len(wire[1]) + 1 /\ wire'[1][k] = f
                BY <3>2, <3>3 DEF Grows
            <4>2. f.id = Len(sent) + 1
                BY <1>7, <3>3, <4>1 DEF IsSent
            <4> QED
                BY <1>3, <1>7, <2>2, <3>1, <4>1, <4>2
        <3>4. ASSUME NEW p \in DOMAIN wire[1], Shrinks(1, p) PROVE FALSE
            <4>1. k \in DOMAIN wire[1] /\ k + 1 \in DOMAIN wire[1]
                BY <3>4 DEF Shrinks
            <4>2. wire'[1][k] = wire[1][k] \/ wire'[1][k] = wire[1][k + 1]
                BY <3>4 DEF Shrinks
            <4> QED
                BY <3>2, <4>1, <4>2
        <3> QED
            BY <1>5, <1>7, <3>2, <3>3, <3>4
    <2> QED
        BY <2>1, <2>2
<1> QED
    BY <1>4, <1>6, <1>7

\* What is given out is remembered, until it is forgotten.
LEMMA RemembersNext == KnownInv /\ OnceInv /\ [Next]_vars => Remembers'
<1> SUFFICES ASSUME KnownInv, OnceInv, [Next]_vars, opt'.streamCount > 1, ~closed',
                    NEW k \in DOMAIN delivered', delivered'[k] # 0
             PROVE  \/ delivered'[k] \in forgotten'
                    \/ \E j \in DOMAIN commandQueue' : commandQueue'[j].id = delivered'[k]
    BY DEF Remembers
<1>0. BaseInv /\ opt.streamCount > 1 /\ ~closed /\ forgotten \subseteq forgotten'
    BY OptStays, ClosedStays, ForgottenGrows DEF KnownInv
<1>1. CASE k \in DOMAIN delivered
    <2>1. delivered'[k] = delivered[k]
        BY <1>0, <1>1, DeliveredGrows
    <2>2. CASE delivered[k] \in forgotten
        BY <1>0, <2>1, <2>2
    <2>3. ASSUME NEW j \in DOMAIN commandQueue, commandQueue[j].id = delivered[k]
          PROVE  \/ delivered[k] \in forgotten'
                 \/ \E l \in DOMAIN commandQueue' : commandQueue'[l].id = delivered[k]
        <3>1. CASE commandQueue' = commandQueue
            BY <2>3, <3>1
        <3>2. ASSUME NEW i \in Streams, NEW p \in DOMAIN wire[i], ReadsFirst(i, p)
              PROVE  \/ commandQueue[j].id \in forgotten'
                     \/ \E l \in DOMAIN commandQueue' : commandQueue'[l] = commandQueue[j]
            BY <1>0, <3>2, QueueParts DEF BaseInv
        <3> QED
            BY <1>0, <2>3, <3>1, <3>2, QueueStep DEF BaseInv
    <2> QED
        BY <1>0, <1>1, <2>1, <2>2, <2>3 DEF OnceInv, Remembers
<1>2. CASE k \notin DOMAIN delivered
    <2>1. \A id : Gives(id) => delivered'[k] = id
        BY <1>2 DEF Gives
    <2>2. PICK i \in Streams : \E p \in DOMAIN wire[i] : GivesFrame(i, p)
        BY <1>0, <1>2, <2>1, DeliveredStep DEF BaseInv
    <2>3. PICK p \in DOMAIN wire[i] : GivesFrame(i, p)
        BY <2>2
    <2>4. delivered'[k] = wire[i][p].id /\ ReadsFirst(i, p)
        BY <1>0, <2>1, <2>3 DEF GivesFrame
    <2> QED
        BY <1>0, <2>4, QueueParts DEF BaseInv
<1> QED
    BY <1>1, <1>2

\* So it always holds.
LEMMA OnceIsInvariant == Spec => [](KnownInv /\ OnceInv)
<1>1. Init => OnceInv
    <2> SUFFICES ASSUME Init PROVE OnceInv
        OBVIOUS
    <2>1. 1 \in Streams
        BY MaxStreamsAssumption DEF Streams
    <2>2. delivered = <<>> /\ \A i \in Streams : wire[i] = <<>>
        BY DEF Init
    <2> QED
        BY <2>1, <2>2 DEF OnceInv, NoRepeats, OnlyStream, Remembers
<1>2. KnownInv /\ OnceInv /\ [Next]_vars => OnceInv'
    BY NoRepeatsNext, OnlyStreamNext, RemembersNext DEF OnceInv
<1> QED
    BY <1>1, <1>2, KnownIsInvariant, PTL DEF Spec

(* However many streams bring a message, and in whatever order, onmessage   *)
(* gets it once; twice only when it had been forgotten in between.          *)
THEOREM MessagesComeOnce == Spec => []DeliveredOnce
<1>1. ASSUME KnownInv, OnceInv, NEW id \in DOMAIN sent, id \notin forgotten
      PROVE  Count(id) <= 1
    <2> DEFINE places == {k \in DOMAIN delivered : delivered[k] = id}
    <2>1. id # 0
        <3>1. sent \in Seq(Texts)
            BY <1>1 DEF KnownInv, BaseInv, DataOK
        <3> QED
            BY <3>1
    <2>2. \A k, l \in places : k = l
        BY <1>1, <2>1 DEF OnceInv, NoRepeats
    <2>3. CASE places = {}
        BY <2>3, FS_EmptySet DEF Count
    <2>4. ASSUME NEW k \in places PROVE Count(id) = 1
        <3>1. places = {k}
            BY <2>2, <2>4
        <3> QED
            BY <3>1, FS_Singleton DEF Count
    <2> QED
        BY <2>3, <2>4
<1>2. KnownInv /\ OnceInv => DeliveredOnce
    BY <1>1 DEF DeliveredOnce
<1> QED
    BY <1>2, OnceIsInvariant, PTL

-----------------------------------------------------------------------------
(* What is ignored is a copy.                                              *)

\* The pointer comes back to a command after a whole period: so many texts ago, at
\* least, the command cmd was given.
Period == textCommandEnd - textCommandStart + 1
Distance(cmd, pointer) == IF cmd < pointer THEN pointer - cmd ELSE pointer - cmd + Period
TextsApart ==
    opt.enableCommand =>
        /\ \A i \in DOMAIN sent :
               IF sent[i].kind = "text"
               THEN /\ sent[i].cmd \in textCommandStart..textCommandEnd
                    /\ Distance(sent[i].cmd, textCommandPointer) <= Len(sent) + 1 - i
               ELSE sent[i].cmd = binaryCommand
        /\ \A i, j \in DOMAIN sent :
               i < j /\ sent[i].kind = "text" /\ sent[i].cmd = sent[j].cmd => j - i >= Period

\* A text moves the pointer one command further from those given before.
LEMMA DistanceGrows ==
    ASSUME textCommandPointer \in textCommandStart..textCommandEnd,
           NEW cmd \in textCommandStart..textCommandEnd
    PROVE  /\ Distance(cmd, textCommandPointer) \in Int /\ Period \in Int
           /\ Distance(textCommandPointer, textCommandPointer) = Period
           /\ Distance(textCommandPointer, NextCommand) = 1
           /\ cmd # textCommandPointer =>
                  Distance(cmd, NextCommand) = Distance(cmd, textCommandPointer) + 1
BY CommandsAssumption DEF Distance, Period, NextCommand

\* Two texts with one command are a whole period apart.
LEMMA TextsApartNext == KnownInv /\ TextsApart /\ [Next]_vars => TextsApart'
<1> SUFFICES ASSUME KnownInv, TextsApart, [Next]_vars, opt'.enableCommand PROVE TextsApart'
    BY DEF TextsApart
<1> DEFINE n == Len(sent)
<1>0. /\ opt.enableCommand /\ BaseInv
      /\ textCommandPointer \in textCommandStart..textCommandEnd
      /\ textCommandStart \in Nat \ {0} /\ textCommandEnd \in Nat
    BY OptStays, CommandFacts DEF KnownInv, BaseInv, DataOK
<1>1. n \in Nat /\ DOMAIN sent = 1..n
    BY <1>0 DEF BaseInv, DataOK
<1>2. /\ \A i \in DOMAIN sent :
             IF sent[i].kind = "text"
             THEN /\ sent[i].cmd \in textCommandStart..textCommandEnd
                  /\ Distance(sent[i].cmd, textCommandPointer) <= n + 1 - i
             ELSE sent[i].cmd = binaryCommand
      /\ \A i, j \in DOMAIN sent :
             i < j /\ sent[i].kind = "text" /\ sent[i].cmd = sent[j].cmd => j - i >= Period
    BY <1>0 DEF TextsApart
<1>3. CASE UNCHANGED <<sent, textCommandPointer>>
    BY <1>2, <1>3 DEF TextsApart
<1>4. CASE SendsOne
    <2>1. /\ DOMAIN sent' = 1..(n + 1) /\ \A i \in 1..n : sent'[i] = sent[i]
          /\ \/ /\ sent'[n + 1].kind = "text" /\ sent'[n + 1].cmd = textCommandPointer
                /\ textCommandPointer' = NextCommand
             \/ /\ sent'[n + 1].kind = "binary" /\ sent'[n + 1].cmd = binaryCommand
                /\ textCommandPointer' = textCommandPointer
        BY <1>0, <1>1, <1>4 DEF SendsOne
    <2>2. Len(sent') = n + 1
        <3>1. sent' \in Seq(Texts)
            BY <1>0, BaseNext DEF BaseInv, DataOK
        <3>2. DOMAIN sent' = 1..Len(sent') /\ Len(sent') \in Nat
            BY <3>1
        <3> QED
            BY <1>1, <2>1, <3>2
    <2> HIDE DEF n
    <2>3. \A i \in 1..(n + 1) : i \in 1..n \/ i = n + 1
        BY <1>1
    <2>4. ASSUME NEW i \in DOMAIN sent', sent'[i].kind = "text"
          PROVE  /\ sent'[i].cmd \in textCommandStart..textCommandEnd
                 /\ Distance(sent'[i].cmd, textCommandPointer') <= n + 2 - i
        <3>1. CASE i \in 1..n
            <4>1. /\ sent'[i].cmd \in textCommandStart..textCommandEnd
                  /\ Distance(sent'[i].cmd, textCommandPointer) <= n + 1 - i
                BY <1>1, <1>2, <2>1, <2>4, <3>1
            <4>2. \/ textCommandPointer' = textCommandPointer
                  \/ textCommandPointer' = NextCommand
                BY <2>1
            <4>3. \/ Distance(sent'[i].cmd, textCommandPointer')
                       = Distance(sent'[i].cmd, textCommandPointer)
                  \/ Distance(sent'[i].cmd, textCommandPointer')
                       = Distance(sent'[i].cmd, textCommandPointer) + 1
                  \/ Distance(sent'[i].cmd, textCommandPointer') = 1
                BY <1>0, <4>1, <4>2, DistanceGrows
            <4>4. Distance(sent'[i].cmd, textCommandPointer) \in Int /\ i \in 1..n
                BY <1>0, <3>1, <4>1, DistanceGrows
            <4> QED
                BY <1>1, <4>1, <4>3, <4>4
        <3>2. CASE i = n + 1
            <4>1. Distance(sent'[i].cmd, textCommandPointer') = 1
                BY <1>0, <2>1, <2>4, <3>2, DistanceGrows
            <4> QED
                BY <1>0, <1>1, <2>1, <2>4, <3>2, <4>1
        <3> QED
            BY <2>1, <2>3, <3>1, <3>2
    <2>5. ASSUME NEW i \in DOMAIN sent', sent'[i].kind # "text" PROVE sent'[i].cmd = binaryCommand
        BY <1>1, <1>2, <2>1, <2>3, <2>5
    <2>6. ASSUME NEW i \in DOMAIN sent', NEW j \in DOMAIN sent',
                 i < j, sent'[i].kind = "text", sent'[i].cmd = sent'[j].cmd
          PROVE  j - i >= Period
        <3>1. i \in 1..n /\ sent'[i] = sent[i]
            BY <1>1, <2>1, <2>6
        <3>2. /\ sent[i].cmd \in textCommandStart..textCommandEnd
              /\ Distance(sent[i].cmd, textCommandPointer) <= n + 1 - i
            BY <1>1, <1>2, <2>6, <3>1
        <3>3. CASE j \in 1..n
            BY <1>1, <1>2, <2>1, <2>6, <3>1, <3>3
        <3>4. CASE j = n + 1
            <4>1. sent[i].cmd = textCommandPointer
                BY <1>0, <2>1, <2>6, <3>1, <3>2, <3>4 DEF binaryCommand
            <4>2. Distance(sent[i].cmd, textCommandPointer) = Period /\ Period \in Int
                BY <1>0, <3>2, <4>1, DistanceGrows
            <4> QED
                BY <1>1, <3>1, <3>2, <3>4, <4>2
        <3> QED
            BY <2>1, <2>3, <3>3, <3>4
    <2> QED
        BY <1>1, <2>2, <2>4, <2>5, <2>6 DEF TextsApart
<1> QED
    BY <1>0, <1>3, <1>4, SentStep DEF BaseInv

\* What a dropped message is a copy of, or taken for.
Excused(id) ==
    \/ WasDelivered(id)
    \/ sent[id].kind = "binary"
    \/ \E k \in DOMAIN delivered :
           /\ delivered[k] # 0 /\ sent[delivered[k]].cmd = sent[id].cmd
           /\ \/ delivered[k] > id + (textCommandEnd - textCommandStart)
              \/ id > delivered[k] + (textCommandEnd - textCommandStart)
DropsExcused == \A id \in dropped : Excused(id)

\* A frame whose command is remembered is of the message remembered, or of one at
\* least a period away.
LEMMA CopyIsExcused ==
    ASSUME KnownInv, TextsApart, NEW i \in Streams, NEW k \in DOMAIN wire[i], ReadsCopy(i, k)
    PROVE  Excused(wire[i][k].id)
<1> DEFINE id == wire[i][k].id
<1>1. /\ id \in DOMAIN sent /\ sent[id].cmd = wire[i][k].cmd
      /\ opt.enableCommand /\ wire[i][k].cmd \in commandMap
    BY OptionFacts DEF KnownInv, BaseInv, ControlOK, MessagesKnown, WireSent, IsOf, ReadsCopy,
                       Ignore, Known
<1>2. PICK l \in DOMAIN commandQueue : commandQueue[l].cmd = sent[id].cmd
    BY <1>1 DEF KnownInv, BaseInv, QueueOK, Remembered
<1> DEFINE o == commandQueue[l].id
<1>3. o \in DOMAIN sent /\ sent[o].cmd = sent[id].cmd /\ WasDelivered(o)
    BY <1>2 DEF KnownInv, MessagesKnown, QueueSent
<1> HIDE DEF id, o
<1>4. sent \in Seq(Texts) /\ textCommandStart \in Nat \ {0} /\ textCommandEnd \in Nat
    BY CommandFacts DEF KnownInv, BaseInv, DataOK
<1>5. id \in Nat /\ o \in Nat /\ o # 0
    BY <1>1, <1>3, <1>4
<1>6. /\ \A m \in DOMAIN sent :
             IF sent[m].kind = "text" THEN sent[m].cmd \in textCommandStart..textCommandEnd
             ELSE sent[m].cmd = binaryCommand
      /\ \A m, j \in DOMAIN sent :
             m < j /\ sent[m].kind = "text" /\ sent[m].cmd = sent[j].cmd => j - m >= Period
    BY <1>1 DEF TextsApart
<1>7. CASE o = id
    BY <1>3, <1>7 DEF Excused, id
<1>8. CASE sent[id].kind = "binary"
    BY <1>8 DEF Excused, id
<1>9. CASE o # id /\ sent[id].kind # "binary"
    <2>1. sent[id].kind = "text"
        <3>1. sent[id] \in Texts
            BY <1>1, <1>4
        <3>2. sent[id].kind \in {"text", "binary"}
            BY Zenon, <3>1 DEF Texts
        <3> QED
            BY <1>9, <3>2
    <2>2. sent[o].kind = "text"
        <3>1. sent[id].cmd # binaryCommand
            BY <1>1, <1>4, <1>6, <2>1 DEF binaryCommand
        <3> QED
            BY <1>3, <1>6, <3>1
    <2>3. \/ id < o /\ o - id >= Period
          \/ o < id /\ id - o >= Period
        BY <1>1, <1>3, <1>5, <1>6, <1>9, <2>1, <2>2
    <2>4. \/ o > id + (textCommandEnd - textCommandStart)
          \/ id > o + (textCommandEnd - textCommandStart)
        BY <1>4, <1>5, <2>3 DEF Period
    <2>5. PICK m \in DOMAIN delivered : delivered[m] = o
        BY <1>3 DEF WasDelivered
    <2> QED
        BY <1>3, <1>5, <2>4, <2>5 DEF Excused, id
<1> QED
    BY <1>7, <1>8, <1>9

\* What excuses a message does not go away.
LEMMA DropsExcusedNext == KnownInv /\ TextsApart /\ DropsExcused /\ [Next]_vars => DropsExcused'
<1> SUFFICES ASSUME KnownInv, TextsApart, DropsExcused, [Next]_vars, NEW id \in dropped'
             PROVE  Excused(id)'
    BY DEF DropsExcused
<1>0. BaseInv /\ DroppedSent /\ DeliveredSent
    BY DEF KnownInv, MessagesKnown
<1>1. Excused(id) /\ id \in DOMAIN sent
    <2>1. CASE dropped' = dropped
        BY <1>0, <2>1 DEF DropsExcused, DroppedSent
    <2>2. ASSUME NEW i \in Streams, NEW k \in DOMAIN wire[i], Reads(i, k)
          PROVE  Excused(id) /\ id \in DOMAIN sent
        <3>1. CASE ReadsCopy(i, k)
            <4>1. dropped' = dropped \cup {wire[i][k].id}
                BY <3>1 DEF ReadsCopy, Ignore
            <4>2. wire[i][k].id \in DOMAIN sent
                BY <3>1 DEF KnownInv, MessagesKnown, WireSent, IsOf, ReadsCopy
            <4>3. Excused(wire[i][k].id)
                BY <3>1, CopyIsExcused
            <4> QED
                BY <1>0, <4>1, <4>2, <4>3 DEF DropsExcused, DroppedSent
        <3>2. CASE ~ReadsCopy(i, k)
            <4>1. dropped' = dropped
                BY <2>2, <3>2 DEF Reads, ReadsNothing, ReadsOnly, ReadsFirst, ReadsPing, Deliver,
                                  DeliverFirst, dedupVars
            <4> QED
                BY <2>1, <4>1
        <3> QED
            BY <3>1, <3>2
    <2> QED
        BY <1>0, <2>1, <2>2, StepKinds
           DEF BaseInv, Quiet, SendsText, SendsBinary, Pings, DatagramLost, Age, Ends, Closes,
               CloseInOnMessage, Drop, dedupVars
<1>2. sent'[id] = sent[id]
    BY <1>0, <1>1, SentGrows
<1>3. \A k \in DOMAIN delivered : k \in DOMAIN delivered' /\ delivered'[k] = delivered[k]
    BY <1>0, DeliveredGrows
<1>4. \A k \in DOMAIN delivered : delivered[k] # 0 => sent'[delivered[k]] = sent[delivered[k]]
    BY <1>0, SentGrows DEF DeliveredSent
<1> QED
    BY <1>1, <1>2, <1>3, <1>4 DEF Excused, WasDelivered

(* What is ignored as already received was; or it is binary, all of which   *)
(* have one command, or its command is that of a message at least a whole   *)
(* range of commands before or after it.                                    *)
THEOREM DropsAreCopies == Spec => []DropsAreDuplicates
<1>1. Init => TextsApart /\ DropsExcused
    BY DEF Init, TextsApart, DropsExcused
<1>2. KnownInv /\ TextsApart /\ DropsExcused /\ [Next]_vars => TextsApart' /\ DropsExcused'
    BY TextsApartNext, DropsExcusedNext
<1>3. ASSUME KnownInv, DropsExcused, NEW id \in dropped
      PROVE  \/ Count(id) > 0
             \/ sent[id].kind = "binary"
             \/ \E other \in ToSet(delivered) \ {0} :
                    /\ sent[other].cmd = sent[id].cmd
                    /\ \/ other > id + (textCommandEnd - textCommandStart)
                       \/ id > other + (textCommandEnd - textCommandStart)
    <2>1. Excused(id)
        BY <1>3 DEF DropsExcused
    <2>2. CASE WasDelivered(id)
        <3> DEFINE places == {k \in DOMAIN delivered : delivered[k] = id}
        <3>1. IsFiniteSet(DOMAIN delivered)
            <4>1. DOMAIN delivered = 1..Len(delivered) /\ Len(delivered) \in Nat
                BY <1>3 DEF KnownInv, BaseInv, DataOK
            <4> QED
                BY <4>1, FS_Interval
        <3>2. IsFiniteSet(places) /\ places # {}
            <4>1. places \in SUBSET DOMAIN delivered
                OBVIOUS
            <4> QED
                BY <2>2, <3>1, <4>1, FS_Subset DEF WasDelivered
        <3>3. Cardinality(places) \in Nat /\ Cardinality(places) # 0
            <4> HIDE DEF places
            <4> QED
                BY <3>2, FS_CardinalityType, FS_EmptySet
        <3> QED
            BY <3>3 DEF Count
    <2>3. CASE \E k \in DOMAIN delivered :
                   /\ delivered[k] # 0 /\ sent[delivered[k]].cmd = sent[id].cmd
                   /\ \/ delivered[k] > id + (textCommandEnd - textCommandStart)
                      \/ id > delivered[k] + (textCommandEnd - textCommandStart)
        BY <2>3 DEF ToSet
    <2> QED
        BY <2>1, <2>2, <2>3 DEF Excused
<1>4. KnownInv /\ DropsExcused => DropsAreDuplicates
    BY <1>3 DEF DropsAreDuplicates
<1> QED
    BY <1>1, <1>2, <1>4, KnownIsInvariant, PTL DEF Spec

-----------------------------------------------------------------------------
(* Messages are first delivered in the order in which they were sent.      *)

\* The messages the order is about, where it is: every stream that is there holds each
\* of them that is not delivered yet, what is behind it was sent later, and what is
\* delivered before it was sent earlier.
Chosen(a) == sent[a].open /\ (opt.streamCount > 1 => OwnCommand(a))
IsFrame(f, a) == f.cmd # pingCommand /\ f.id = a
AllThere ==
    \A i \in 1..writers : \A a \in DOMAIN sent :
        (link = "up" /\ reader[i] # "ended" /\ Chosen(a)) =>
            WasDelivered(a) \/ \E k \in DOMAIN wire[i] : IsFrame(wire[i][k], a)
OnTheWay ==
    \A i \in Streams : \A k \in DOMAIN wire[i] : \A a \in 1..(wire[i][k].id - 1) :
        (/\ reader[i] # "ended" /\ wire[i][k].cmd # pingCommand
         /\ sent[wire[i][k].id].open /\ Chosen(a)) =>
            WasDelivered(a) \/ \E j \in 1..(k - 1) : IsFrame(wire[i][j], a)
Ordered ==
    \A k \in DOMAIN delivered : \A a \in 1..(delivered[k] - 1) :
        (sent[delivered[k]].open /\ Chosen(a)) => \E j \in 1..(k - 1) : delivered[j] = a
OrderInv == Regular => AllThere /\ OnTheWay /\ Ordered

\* A message sent before is chosen for as long as no other takes its command.
LEMMA ChosenBefore ==
    ASSUME BaseInv, [Next]_vars, NEW a \in DOMAIN sent, Chosen(a)'
    PROVE  Chosen(a)
<1>1. opt' = opt /\ sent'[a] = sent[a]
    BY OptStays, SentGrows
<1>2. \A b \in DOMAIN sent : b \in DOMAIN sent' /\ sent'[b] = sent[b]
    BY SentGrows
<1> QED
    BY <1>1, <1>2 DEF Chosen, OwnCommand

\* After onopen the streams are those there are, and each goes on or has ended.
LEMMA StreamsStay ==
    ASSUME BaseInv, [Next]_vars, tick = "fired"
    PROVE  /\ writers' = writers
           /\ link' = "up" => link = "up"
           /\ \A i \in Streams : reader'[i] # "ended" => reader[i] # "ended"
<1>0. stage = "done" /\ reader \in [Streams -> {"none", "reading", "ended"}]
    BY DEF BaseInv, ControlOK
<1>1. writers' = writers
    BY <1>0
       DEF Next, Continuation, Timeout, Network, User, Ready, StreamCreated, WritersReady, Tick,
           TransportClosed, ping, Age, PingTimeout, Lost, DatagramLost, ReadEnds, Read, send,
           sendBinary, close, CloseInOnMessage, Drop, setCurrentWriteStreams, vars, connectVars
<1>2. link' = link \/ link' = "down"
    BY <1>0
       DEF Next, Continuation, Timeout, Network, User, Ready, StreamCreated, WritersReady, Tick,
           TransportClosed, ping, Age, PingTimeout, Lost, DatagramLost, ReadEnds, Read, send,
           sendBinary, close, CloseInOnMessage, Drop, setCurrentWriteStreams, vars, connectVars
<1>3. reader' = reader \/ \E i \in Streams : reader' = [reader EXCEPT ![i] = "ended"]
    <2>1. ASSUME NEW i \in Streams, Read(i)
          PROVE  reader' = reader \/ reader' = [reader EXCEPT ![i] = "ended"]
        BY <2>1, ReadControl DEF BaseInv
    <2>2. ASSUME NEW i \in Streams, ReadEnds(i) \/ CloseInOnMessage(i)
          PROVE  reader' = [reader EXCEPT ![i] = "ended"]
        BY <2>2 DEF ReadEnds, CloseInOnMessage
    <2> QED
        BY <1>0, <2>1, <2>2
           DEF Next, Continuation, Timeout, Network, User, Ready, StreamCreated, WritersReady,
               Tick, TransportClosed, ping, Age, PingTimeout, Lost, DatagramLost, send,
               sendBinary, close, setCurrentWriteStreams, vars
<1> QED
    BY <1>0, <1>1, <1>2, <1>3

\* A message that is sent is put on every stream that is there.
LEMMA SentOnAll ==
    ASSUME BaseInv, Regular, [Next]_vars, sent' # sent, NEW i \in 1..writers, link = "up",
           reader[i] # "ended"
    PROVE  \E f \in Frames : Grows(i, f) /\ IsSent(f)
<1>0. /\ wire \in [Streams -> Seq(Frames)] /\ sent \in Seq(Texts) /\ i \in Streams
      /\ textCommandPointer \in textCommandStart..textCommandEnd
    BY MaxStreamsAssumption DEF BaseInv, DataOK, ControlOK, Streams
<1>1. SendsText \/ SendsBinary
    BY StepKinds
       DEF BaseInv, Quiet, Pings, DatagramLost, Age, Closes, Ends, CloseInOnMessage, Drop, Reads,
           ReadsNothing, ReadsOnly, ReadsFirst, ReadsCopy, ReadsPing, sendVars
<1>2. ASSUME NEW cmd \in Nat, NEW kind \in {"text", "binary"}, Sent(cmd, kind),
             Write([cmd |-> cmd, id |-> Len(sent) + 1], 1..writers)
      PROVE  \E f \in Frames : Grows(i, f) /\ IsSent(f)
    <2> DEFINE f == [cmd |-> cmd, id |-> Len(sent) + 1]
    <2>1. SendsOne /\ sent'[Len(sent) + 1].cmd = cmd
        BY <1>0, <1>1, <1>2, SendingFacts, SentFacts DEF BaseInv
    <2>2. f \in Frames /\ IsSent(f)
        BY <1>0, <2>1 DEF Frames, IsSent
    <2>3. Write(f, 1..writers)
        BY <1>2
    <2> HIDE DEF f
    <2>4. Grows(i, f)
        BY ZenonT(60), <1>0, <2>2, <2>3, WriteFacts DEF Grows
    <2> QED
        BY <2>2, <2>4
<1> QED
    BY <1>0, <1>1, <1>2, CommandFacts DEF SendsText, SendsBinary

\* A chosen message that is read is delivered, now or before.
LEMMA TakenIsDelivered ==
    ASSUME KnownInv, [Next]_vars, NEW i \in Streams, 1 \in DOMAIN wire[i], Reads(i, 1),
           reader'[i] # "ended", wire[i][1].cmd # pingCommand, Chosen(wire[i][1].id)
    PROVE  \E j \in DOMAIN delivered' : delivered'[j] = wire[i][1].id
<1>0. /\ BaseInv /\ wire \in [Streams -> Seq(Frames)]
      /\ reader \in [Streams -> {"none", "reading", "ended"}] /\ delivered \in Seq(Nat)
      /\ wire[i][1].id \in DOMAIN sent /\ sent[wire[i][1].id].cmd = wire[i][1].cmd
      /\ wire[i][1].id \in Nat
    BY DEF KnownInv, BaseInv, DataOK, ControlOK, MessagesKnown, WireSent, IsOf
<1>1. CASE ReadsNothing(i, 1)
    BY <1>0, <1>1 DEF ReadsNothing
<1>2. CASE ReadsPing(i, 1)
    BY <1>2 DEF ReadsPing
<1>3. CASE ReadsOnly(i, 1) \/ ReadsFirst(i, 1)
    <2>1. delivered' = Append(delivered, wire[i][1].id)
        BY <1>3 DEF ReadsOnly, ReadsFirst, Deliver, DeliverFirst
    <2>2. Gives(wire[i][1].id)
        BY <1>0, <2>1, GivesFacts
    <2> QED
        BY <2>2 DEF Gives
<1>4. CASE ReadsCopy(i, 1)
    <2>1. wire[i][1].cmd \in commandMap /\ OwnCommand(wire[i][1].id)
        BY <1>4 DEF ReadsCopy, Ignore, Known, Chosen
    <2>2. PICK l \in DOMAIN commandQueue : commandQueue[l].cmd = wire[i][1].cmd
        BY <1>0, <2>1 DEF BaseInv, QueueOK, Remembered
    <2>3. /\ commandQueue[l].id \in DOMAIN sent
          /\ sent[commandQueue[l].id].cmd = wire[i][1].cmd
          /\ WasDelivered(commandQueue[l].id)
        BY <2>2 DEF KnownInv, MessagesKnown, QueueSent
    <2>4. commandQueue[l].id = wire[i][1].id
        BY <1>0, <2>1, <2>3 DEF OwnCommand
    <2> QED
        BY <1>0, <2>3, <2>4, DeliveredGrows DEF WasDelivered
<1> QED
    BY <1>1, <1>2, <1>3, <1>4 DEF Reads

\* A message that is not delivered stays on the streams that go on.
LEMMA StaysOnStream ==
    ASSUME KnownInv, Regular, [Next]_vars, NEW i \in Streams, reader'[i] # "ended",
           NEW a, Chosen(a), NEW k \in DOMAIN wire[i], IsFrame(wire[i][k], a)
    PROVE  \/ \E j \in DOMAIN delivered' : delivered'[j] = a
           \/ k \in DOMAIN wire'[i] /\ IsFrame(wire'[i][k], a)
           \/ Shrinks(i, 1) /\ k # 1 /\ k - 1 \in DOMAIN wire'[i] /\ IsFrame(wire'[i][k - 1], a)
<1>0. BaseInv /\ ~opt.useDatagrams
    BY DEF KnownInv, Regular
<1>1. CASE wire'[i] = wire[i]
    BY <1>1
<1>2. ASSUME NEW f \in Frames, Grows(i, f)
      PROVE  k \in DOMAIN wire'[i] /\ IsFrame(wire'[i][k], a)
    BY <1>2 DEF Grows
<1>3. CASE 1 \in DOMAIN wire[i] /\ Shrinks(i, 1) /\ Reads(i, 1)
    <2>1. CASE k = 1
        BY <1>3, <2>1, TakenIsDelivered DEF IsFrame
    <2>2. CASE k # 1
        <3>1. k - 1 \in DOMAIN wire'[i] /\ wire'[i][k - 1] = wire[i][k]
            BY <1>3, <2>2 DEF Shrinks
        <3> QED
            BY <1>3, <2>2, <3>1
    <2> QED
        BY <2>1, <2>2
<1> QED
    BY <1>0, <1>1, <1>2, <1>3, WireStep DEF BaseInv

\* A frame on a stream was there before, or is the message that is sent, at the end.
LEMMA FrameBefore ==
    ASSUME KnownInv, Regular, [Next]_vars, NEW i \in Streams, reader'[i] # "ended",
           NEW k \in DOMAIN wire'[i], wire'[i][k].cmd # pingCommand
    PROVE  \/ k \in DOMAIN wire[i] /\ wire'[i][k] = wire[i][k] /\ ~Shrinks(i, 1)
           \/ Shrinks(i, 1) /\ k + 1 \in DOMAIN wire[i] /\ wire'[i][k] = wire[i][k + 1]
           \/ /\ \E f \in Frames : Grows(i, f) /\ IsSent(f) /\ wire'[i][k] = f
              /\ k = Len(wire[i]) + 1 /\ i \in 1..writers /\ link = "up" /\ reader[i] # "ended"
<1>0. BaseInv /\ ~opt.useDatagrams /\ wire \in [Streams -> Seq(Frames)]
    BY DEF KnownInv, Regular, BaseInv, DataOK
<1>1. CASE wire'[i] = wire[i]
    <2>1. ~Shrinks(i, 1)
        BY <1>1 DEF Shrinks
    <2> QED
        BY <1>1, <2>1
<1>2. CASE Shrinks(i, 1)
    BY <1>2 DEF Shrinks
<1>3. ASSUME NEW f \in Frames, Grows(i, f), link = "up", reader[i] # "ended",
             (f.cmd = pingCommand /\ i = 1) \/ (IsSent(f) /\ i \in 1..writers)
      PROVE  \/ k \in DOMAIN wire[i] /\ wire'[i][k] = wire[i][k] /\ ~Shrinks(i, 1)
             \/ /\ Grows(i, f) /\ IsSent(f) /\ wire'[i][k] = f
                /\ k = Len(wire[i]) + 1 /\ i \in 1..writers /\ link = "up" /\ reader[i] # "ended"
    <2>1. ~Shrinks(i, 1)
        BY <1>3 DEF Grows, Shrinks
    <2>2. CASE k \in DOMAIN wire[i]
        BY <1>3, <2>1, <2>2 DEF Grows
    <2>3. CASE k \notin DOMAIN wire[i]
        <3>1. k = Len(wire[i]) + 1 /\ wire'[i][k] = f
            BY <1>3, <2>3 DEF Grows
        <3> QED
            BY <1>3, <3>1
    <2> QED
        BY <2>2, <2>3
<1> QED
    BY <1>0, <1>1, <1>2, <1>3, WireStep DEF BaseInv

\* What stays, is written and is read keeps every stream complete.
LEMMA AllThereNext == KnownInv /\ OrderInv /\ Regular /\ [Next]_vars => AllThere'
<1> SUFFICES ASSUME KnownInv, OrderInv, Regular, [Next]_vars,
                    NEW i \in 1..writers', NEW a \in DOMAIN sent',
                    link' = "up", reader'[i] # "ended", Chosen(a)'
             PROVE  \/ \E j \in DOMAIN delivered' : delivered'[j] = a
                    \/ \E k \in DOMAIN wire'[i] : IsFrame(wire'[i][k], a)
    BY DEF AllThere, WasDelivered
<1>0. BaseInv /\ AllThere /\ SentPlain
    BY DEF KnownInv, MessagesKnown, OrderInv
<1>1. CASE a \in DOMAIN sent
    <2>1. Chosen(a) /\ tick = "fired"
        BY <1>0, <1>1, ChosenBefore DEF Chosen, SentPlain
    <2>2. i \in Streams
        BY <1>0, BaseNext, MaxStreamsAssumption DEF BaseInv, ControlOK, Streams
    <2>3. i \in 1..writers /\ link = "up" /\ reader[i] # "ended"
        BY <1>0, <2>1, <2>2, StreamsStay
    <2>4. WasDelivered(a) \/ \E k \in DOMAIN wire[i] : IsFrame(wire[i][k], a)
        BY <1>0, <1>1, <2>1, <2>3 DEF AllThere
    <2>5. CASE WasDelivered(a)
        BY <1>0, <2>5, DeliveredGrows DEF WasDelivered
    <2>6. ASSUME NEW k \in DOMAIN wire[i], IsFrame(wire[i][k], a)
          PROVE  \/ \E j \in DOMAIN delivered' : delivered'[j] = a
                 \/ \E l \in DOMAIN wire'[i] : IsFrame(wire'[i][l], a)
        BY <2>1, <2>2, <2>6, StaysOnStream
    <2> QED
        BY <2>4, <2>5, <2>6
<1>2. CASE a \notin DOMAIN sent
    <2>1. SendsOne /\ a = Len(sent) + 1 /\ sent' # sent
        BY <1>0, <1>2, SentStep DEF BaseInv, SendsOne
    <2>2. tick = "fired"
        BY <2>1 DEF Chosen, SendsOne
    <2>3. i \in Streams
        BY <1>0, BaseNext, MaxStreamsAssumption DEF BaseInv, ControlOK, Streams
    <2>4. i \in 1..writers /\ link = "up" /\ reader[i] # "ended"
        BY <1>0, <2>2, <2>3, StreamsStay
    <2>5. PICK f \in Frames : Grows(i, f) /\ IsSent(f)
        BY <1>0, <2>1, <2>4, SentOnAll
    <2>6. Len(wire[i]) + 1 \in DOMAIN wire'[i] /\ wire'[i][Len(wire[i]) + 1] = f
        BY <2>5 DEF Grows
    <2>7. f.id = a /\ f.cmd # pingCommand
        BY <2>1, <2>5 DEF IsSent, SendsOne
    <2> QED
        BY <2>6, <2>7 DEF IsFrame
<1> QED
    BY <1>1, <1>2

\* What is behind a message on a stream was sent later.
LEMMA OnTheWayNext == KnownInv /\ OrderInv /\ Regular /\ [Next]_vars => OnTheWay'
<1> SUFFICES ASSUME KnownInv, OrderInv, Regular, [Next]_vars,
                    NEW i \in Streams, NEW k \in DOMAIN wire'[i],
                    NEW a \in 1..(wire'[i][k].id - 1),
                    reader'[i] # "ended", wire'[i][k].cmd # pingCommand,
                    sent'[wire'[i][k].id].open, Chosen(a)'
             PROVE  \/ \E j \in DOMAIN delivered' : delivered'[j] = a
                    \/ \E j \in 1..(k - 1) : IsFrame(wire'[i][j], a)
    BY DEF OnTheWay, WasDelivered
<1> DEFINE id == wire'[i][k].id
<1>0. BaseInv /\ AllThere /\ OnTheWay /\ SentPlain /\ WireSent
    BY DEF KnownInv, MessagesKnown, OrderInv
<1>1. sent \in Seq(Texts) /\ Len(sent) \in Nat /\ DOMAIN sent = 1..Len(sent)
    BY <1>0 DEF BaseInv, DataOK
<1>2. wire \in [Streams -> Seq(Frames)] /\ wire' \in [Streams -> Seq(Frames)]
    BY <1>0, BaseNext DEF BaseInv, DataOK
<1>3. k \in Nat \ {0} /\ DOMAIN wire'[i] = 1..Len(wire'[i]) /\ Len(wire'[i]) \in Nat
    <2>1. wire'[i] \in Seq(Frames)
        BY <1>2
    <2> QED
        BY <2>1
<1>4. ASSUME NEW l \in DOMAIN wire[i], wire'[i][k] = wire[i][l]
      PROVE  /\ id \in DOMAIN sent /\ a \in DOMAIN sent /\ tick = "fired"
             /\ \/ \E j \in DOMAIN delivered' : delivered'[j] = a
                \/ \E j \in 1..(l - 1) : IsFrame(wire[i][j], a) /\ j \in DOMAIN wire[i]
    <2>1. id \in DOMAIN sent
        BY <1>0, <1>4 DEF WireSent, IsOf
    <2>2. a \in DOMAIN sent
        BY <1>1, <2>1
    <2>3. sent[id].open /\ tick = "fired"
        BY <1>0, <2>1, SentGrows DEF SentPlain
    <2>4. Chosen(a) /\ reader[i] # "ended"
        BY <1>0, <2>2, <2>3, ChosenBefore, StreamsStay
    <2>5. WasDelivered(a) \/ \E j \in 1..(l - 1) : IsFrame(wire[i][j], a)
        BY <1>0, <1>4, <2>3, <2>4 DEF OnTheWay
    <2>6. \A j \in 1..(l - 1) : j \in DOMAIN wire[i]
        <3>1. wire[i] \in Seq(Frames)
            BY <1>2
        <3> QED
            BY <3>1
    <2>7. WasDelivered(a) => \E j \in DOMAIN delivered' : delivered'[j] = a
        BY <1>0, DeliveredGrows DEF WasDelivered
    <2> QED
        BY <2>1, <2>2, <2>3, <2>5, <2>6, <2>7
<1>5. CASE k \in DOMAIN wire[i] /\ wire'[i][k] = wire[i][k] /\ ~Shrinks(i, 1)
    <2>1. ASSUME NEW j \in 1..(k - 1), j \in DOMAIN wire[i], IsFrame(wire[i][j], a)
          PROVE  \/ \E m \in DOMAIN delivered' : delivered'[m] = a
                 \/ IsFrame(wire'[i][j], a)
        BY <1>0, <1>4, <1>5, <2>1, ChosenBefore, StaysOnStream
    <2>2. \/ \E j \in DOMAIN delivered' : delivered'[j] = a
          \/ \E j \in 1..(k - 1) : IsFrame(wire[i][j], a) /\ j \in DOMAIN wire[i]
        BY <1>4, <1>5
    <2> QED
        BY <2>1, <2>2
<1>6. CASE Shrinks(i, 1) /\ k + 1 \in DOMAIN wire[i] /\ wire'[i][k] = wire[i][k + 1]
    <2>1. ASSUME NEW j \in 1..k, j \in DOMAIN wire[i], IsFrame(wire[i][j], a)
          PROVE  \/ \E m \in DOMAIN delivered' : delivered'[m] = a
                 \/ \E m \in 1..(k - 1) : IsFrame(wire'[i][m], a)
        <3>1. a \in DOMAIN sent
            BY <1>4, <1>6
        <3>2. Chosen(a)
            BY <1>0, <3>1, ChosenBefore
        <3>3. \/ \E m \in DOMAIN delivered' : delivered'[m] = a
              \/ j \in DOMAIN wire'[i] /\ IsFrame(wire'[i][j], a)
              \/ j # 1 /\ IsFrame(wire'[i][j - 1], a)
            BY <2>1, <3>2, StaysOnStream
        <3>4. j # 1 => j - 1 \in 1..(k - 1)
            BY <1>3
        <3>5. CASE j = k
            <4>1. \/ \E m \in DOMAIN delivered' : delivered'[m] = a
                  \/ Shrinks(i, 1) /\ j # 1 /\ IsFrame(wire'[i][j - 1], a)
                  \/ IsFrame(wire'[i][k], a)
                BY <3>3, <1>6, <3>5
            <4>2. ~IsFrame(wire'[i][k], a)
                <5>1. id \in Nat
                    BY <1>1, <1>4, <1>6
                <5> QED
                    BY <5>1 DEF IsFrame
            <4> QED
                BY <3>4, <4>1, <4>2
        <3>6. CASE j # k
            <4>1. j \in 1..(k - 1)
                BY <1>3, <3>6
            <4> QED
                BY <3>3, <3>4, <4>1
        <3> QED
            BY <3>5, <3>6
    <2>2. \/ \E j \in DOMAIN delivered' : delivered'[j] = a
          \/ \E j \in 1..((k + 1) - 1) : IsFrame(wire[i][j], a) /\ j \in DOMAIN wire[i]
        BY <1>4, <1>6
    <2>3. (k + 1) - 1 = k
        BY <1>3
    <2>4. \/ \E j \in DOMAIN delivered' : delivered'[j] = a
          \/ \E j \in 1..k : IsFrame(wire[i][j], a) /\ j \in DOMAIN wire[i]
        BY <2>2, <2>3
    <2> QED
        BY <2>1, <2>4
<1>7. ASSUME NEW f \in Frames, Grows(i, f), IsSent(f), wire'[i][k] = f,
             k = Len(wire[i]) + 1, i \in 1..writers, link = "up", reader[i] # "ended"
      PROVE  \/ \E j \in DOMAIN delivered' : delivered'[j] = a
             \/ \E j \in 1..(k - 1) : IsFrame(wire'[i][j], a)
    <2>1. id = Len(sent) + 1 /\ a \in DOMAIN sent
        BY <1>1, <1>7 DEF IsSent
    <2>2. Chosen(a)
        BY <1>0, <2>1, ChosenBefore
    <2>3. WasDelivered(a) \/ \E j \in DOMAIN wire[i] : IsFrame(wire[i][j], a)
        BY <1>0, <1>7, <2>1, <2>2 DEF AllThere
    <2>4. WasDelivered(a) => \E j \in DOMAIN delivered' : delivered'[j] = a
        BY <1>0, DeliveredGrows DEF WasDelivered
    <2>5. ASSUME NEW j \in DOMAIN wire[i], IsFrame(wire[i][j], a)
          PROVE  j \in 1..(k - 1) /\ IsFrame(wire'[i][j], a)
        BY <1>7, <2>5 DEF Grows
    <2> QED
        BY <2>3, <2>4, <2>5
<1> QED
    BY <1>5, <1>6, <1>7, FrameBefore

\* What is delivered next was sent later than the chosen ones before it.
LEMMA OrderedNext == KnownInv /\ OrderInv /\ Regular /\ [Next]_vars => Ordered'
<1> SUFFICES ASSUME KnownInv, OrderInv, Regular, [Next]_vars,
                    NEW k \in DOMAIN delivered', NEW a \in 1..(delivered'[k] - 1),
                    sent'[delivered'[k]].open, Chosen(a)'
             PROVE  \E j \in 1..(k - 1) : delivered'[j] = a
    BY DEF Ordered
<1>0. BaseInv /\ OnTheWay /\ Ordered /\ WireSent /\ DeliveredSent
    BY DEF KnownInv, MessagesKnown, OrderInv
<1>1. /\ sent \in Seq(Texts) /\ Len(sent) \in Nat /\ DOMAIN sent = 1..Len(sent)
      /\ Len(delivered) \in Nat /\ DOMAIN delivered = 1..Len(delivered)
    BY <1>0 DEF BaseInv, DataOK
<1>2. CASE k \in DOMAIN delivered
    <2>1. delivered'[k] = delivered[k] /\ delivered[k] \in Nat
        BY <1>0, <1>2, DeliveredGrows DEF BaseInv, DataOK
    <2>2. delivered[k] # 0
        BY <2>1
    <2>3. delivered[k] \in DOMAIN sent /\ a \in DOMAIN sent
        BY <1>0, <1>1, <1>2, <2>1, <2>2 DEF DeliveredSent
    <2>4. sent[delivered[k]].open /\ Chosen(a)
        BY <1>0, <2>1, <2>3, SentGrows, ChosenBefore
    <2>5. PICK j \in 1..(k - 1) : delivered[j] = a
        BY <1>0, <1>2, <2>1, <2>4 DEF Ordered
    <2>6. j \in DOMAIN delivered
        BY <1>1, <1>2
    <2> QED
        BY <1>0, <2>5, <2>6, DeliveredGrows
<1>3. CASE k \notin DOMAIN delivered
    <2>1. \A id : Gives(id) => k = Len(delivered) + 1 /\ delivered'[k] = id
        BY <1>3 DEF Gives
    <2>2. ~Gives(0)
        BY <2>1
    <2>3. PICK i \in Streams : \E p \in DOMAIN wire[i] : GivesFrame(i, p)
        BY <1>0, <1>3, <2>2, DeliveredStep DEF BaseInv
    <2>4. PICK p \in DOMAIN wire[i] : GivesFrame(i, p)
        BY <2>3
    <2>5. /\ p = 1 /\ wire[i][1].cmd # pingCommand /\ reader[i] # "ended" /\ sent' = sent
          /\ k = Len(delivered) + 1 /\ delivered'[k] = wire[i][1].id
        BY <2>1, <2>4 DEF GivesFrame, Regular
    <2>6. wire[i][1].id \in DOMAIN sent /\ a \in DOMAIN sent
        <3>1. wire[i][1].id \in DOMAIN sent
            BY <1>0, <2>4, <2>5 DEF WireSent, IsOf
        <3> QED
            BY <1>1, <2>5, <3>1
    <2>7. Chosen(a) /\ sent[wire[i][1].id].open
        BY <1>0, <2>5, <2>6, ChosenBefore
    <2>8. WasDelivered(a) \/ \E j \in 1..(1 - 1) : IsFrame(wire[i][j], a)
        BY <1>0, <2>4, <2>5, <2>7 DEF OnTheWay
    <2>9. PICK j \in DOMAIN delivered : delivered[j] = a
        BY <2>8 DEF WasDelivered
    <2> QED
        BY <1>0, <1>1, <2>5, <2>9, DeliveredGrows
<1> QED
    BY <1>2, <1>3

(* Messages sent after onopen are first delivered in the order in which     *)
(* they were sent, whichever stream is ahead and whichever ends.            *)
THEOREM MessagesKeepTheirOrder == Spec => []InOrder
<1>1. Init => OrderInv
    <2> SUFFICES ASSUME Init PROVE OrderInv
        OBVIOUS
    <2>1. sent = <<>> /\ delivered = <<>> /\ \A i \in Streams : wire[i] = <<>>
        BY DEF Init
    <2> QED
        BY <2>1 DEF OrderInv, AllThere, OnTheWay, Ordered
<1>2. KnownInv /\ OrderInv /\ [Next]_vars => OrderInv'
    <2> SUFFICES ASSUME KnownInv, OrderInv, [Next]_vars, Regular'
                 PROVE  AllThere' /\ OnTheWay' /\ Ordered'
        BY DEF OrderInv
    <2>1. Regular
        BY OptStays DEF Regular
    <2> QED
        BY <2>1, AllThereNext, OnTheWayNext, OrderedNext
<1>3. KnownInv /\ OrderInv => InOrder
    <2> SUFFICES ASSUME KnownInv, OrderInv, Regular,
                        NEW k \in FirstDelivered, NEW l \in FirstDelivered, k < l,
                        Chosen(delivered[k]), Chosen(delivered[l])
                 PROVE  delivered[k] < delivered[l]
        BY DEF InOrder, Regular, Chosen
    <2>1. /\ k \in DOMAIN delivered /\ l \in DOMAIN delivered /\ delivered \in Seq(Nat)
          /\ delivered[l] # 0 /\ \A j \in 1..(l - 1) : delivered[j] # delivered[l]
        BY DEF FirstDelivered, KnownInv, BaseInv, DataOK
    <2>2. delivered[k] # delivered[l] /\ delivered[k] \in Nat /\ delivered[l] \in Nat
        BY <2>1
    <2>3. ASSUME delivered[l] < delivered[k] PROVE FALSE
        <3>1. delivered[l] \in 1..(delivered[k] - 1)
            BY <2>1, <2>2, <2>3
        <3>2. PICK j \in 1..(k - 1) : delivered[j] = delivered[l]
            BY <2>1, <3>1 DEF OrderInv, Ordered, Chosen
        <3>3. j \in 1..(l - 1)
            BY <2>1
        <3> QED
            BY <2>1, <3>2, <3>3
    <2> QED
        BY <2>2, <2>3
<1> QED
    BY <1>1, <1>2, <1>3, KnownIsInvariant, PTL DEF Spec

=============================================================================
