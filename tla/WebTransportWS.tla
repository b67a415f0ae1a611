---------------------------- MODULE WebTransportWS ----------------------------
(***************************************************************************)
(* WebTransportWS.js: WebTransport under the interface of a WebSocket, on  *)
(* one stream, on several that each carry every message, or on datagrams;  *)
(* with the Timer of its ping.  One thread: an action is a call or the     *)
(* continuation of a promise up to its next await.  The server is the      *)
(* echo of /room, so what is written comes back on its stream; NetString   *)
(* cuts the bytes into the frames that a stream is a sequence of here.     *)
(***************************************************************************)
EXTENDS Naturals, Sequences, FiniteSets, SequencesExt

CONSTANTS
    Configs,           \* the options to consider, each with the messages it may send (bound)
    MaxStreams,        \* bound: streamCount
    textCommandStart,  \* options of that name
    textCommandEnd,
    MaxPings           \* bound: pings sent

binaryCommand == 0     \* any command outside the range of the texts
pingCommand == textCommandEnd + 1

ASSUME CommandsAssumption ==
    textCommandStart \in Nat \ {0} /\ textCommandEnd \in Nat
    /\ textCommandStart <= textCommandEnd
ASSUME MaxStreamsAssumption == MaxStreams \in Nat \ {0}
ASSUME ConfigsAssumption ==
    \A c \in Configs : /\ c.mode \in {"text", "stream"}
                       /\ c.streamCount \in 1..MaxStreams
                       /\ c.messages \in Nat
                       /\ c.streamCount > 1 => c.enableCommand
                       /\ c.mode = "stream" => c.streamCount = 1
                       /\ c.autoStream => c.streamCount > 1
                       /\ {c.useDatagrams, c.enableCommand, c.enablePing, c.autoStream} \subseteq BOOLEAN

VARIABLES
    opt,                  \* this.options
    link,                 \* "up" or "down", the native transport
    stage,                \* where connect() waits, or how it ended
    tick,                 \* "no", "pending" or "fired": the callback of nextTick
    closed,               \* close() has been called: the fields are null
    reported,             \* onclose has been called
    writers,              \* how many writers there are
    reader,               \* the read loop of each stream
    wire,                 \* what each stream still brings
    currentWriteStreams,  \* the field of that name
    textCommandPointer,   \* the field of that name
    commandQueue,         \* the messages remembered, oldest first
    commandMap,           \* their commands
    aged,                 \* how many of the queue are older than commandTimeout
    pinging,              \* the Timer of the ping is started
    pingStart,            \* pingStartTimestamp: the pings neither answered nor given up
    pings, samples,       \* pings sent, and values given to the average
    sent, delivered,      \* messages sent; numbers of messages given to onmessage
    dropped, forgotten    \* messages ignored as known; messages no longer remembered

connectVars == <<link, stage, tick, writers>>
sendVars == <<currentWriteStreams, textCommandPointer, sent>>
dedupVars == <<commandQueue, commandMap, aged, dropped, forgotten>>
pingVars == <<pinging, pingStart, pings, samples>>
vars == <<opt, connectVars, closed, reported, reader, wire, sendVars, dedupVars,
          pingVars, delivered>>

Streams == 1..MaxStreams
Remembered(queue) == {queue[i].cmd : i \in DOMAIN queue}

(* Every variable stays in its set, and the map holds the queue's commands. *)
TypeOK ==
    /\ opt \in Configs
    /\ link \in {"up", "down"}
    /\ stage \in {"ready", "streams", "writers", "done", "failed"}
    /\ tick \in {"no", "pending", "fired"}
    /\ {closed, reported, pinging} \subseteq BOOLEAN
    /\ writers \in 0..MaxStreams
    /\ reader \in [Streams -> {"none", "reading", "ended"}]
    /\ currentWriteStreams \in 0..MaxStreams
    /\ textCommandPointer \in textCommandStart..textCommandEnd
    /\ commandMap = Remembered(commandQueue)
    /\ Cardinality(commandMap) = Len(commandQueue)
    /\ aged \in 0..Len(commandQueue)

(* The constructor, up to the first await of connect().                    *)
Init ==
    /\ opt \in Configs
    /\ link = "up" /\ stage = "ready" /\ tick = "no"
    /\ closed = FALSE /\ reported = FALSE
    /\ writers = 0
    /\ reader = [i \in Streams |-> "none"]
    /\ wire = [i \in Streams |-> <<>>]
    /\ currentWriteStreams = 1
    /\ textCommandPointer = textCommandStart
    /\ commandQueue = <<>> /\ commandMap = {} /\ aged = 0
    /\ pinging = FALSE /\ pingStart = {} /\ pings = 0 /\ samples = 0
    /\ sent = <<>> /\ delivered = <<>>
    /\ dropped = {} /\ forgotten = {}

-----------------------------------------------------------------------------
(* connect().                                                              *)

Fails == stage' = "failed" /\ UNCHANGED <<link, tick, writers>>

\* await this.transport.ready.  close() ends the transport and drops the fields, so
\* what follows throws; nobody waits for the promise of connect().
Ready ==
    /\ stage = "ready"
    /\ \/ /\ link = "up"
          /\ stage' = IF opt.useDatagrams THEN "writers" ELSE "streams"
          /\ writers' = IF opt.useDatagrams THEN 1 ELSE 0
          /\ UNCHANGED <<link, tick>>
       \/ link = "down" /\ Fails
    /\ UNCHANGED <<opt, closed, reported, reader, wire, sendVars, dedupVars, pingVars, delivered>>

\* await this.transport.createBidirectionalStream(), one stream after another.
StreamCreated ==
    /\ stage = "streams"
    /\ \/ /\ link = "up"
          /\ writers' = writers + 1
          /\ stage' = IF writers + 1 = opt.streamCount THEN "writers" ELSE "streams"
          /\ UNCHANGED <<link, tick>>
       \/ link = "down" /\ Fails
    /\ UNCHANGED <<opt, closed, reported, reader, wire, sendVars, dedupVars, pingVars, delivered>>

\* await Promise.all(... ready).  After close() there are no readers to start, and
\* onopen is called all the same.  On a lost connection the writers may be ready or not.
NextTick == tick' = "pending"
WritersReady ==
    /\ stage = "writers"
    /\ \/ /\ NextTick
          /\ stage' = "done"
          /\ reader' = IF closed THEN reader
                       ELSE [i \in Streams |-> IF i <= writers THEN "reading" ELSE "none"]
          /\ UNCHANGED <<link, writers>>
       \/ link = "down" /\ Fails /\ UNCHANGED reader
    /\ UNCHANGED <<opt, closed, reported, wire, sendVars, dedupVars, pingVars, delivered>>

\* onopen, also when close() has been called since; the timer of the ping starts,
\* if close() has not dropped it.
TimerAlways == TRUE
TimerThere == ~closed
TimerStarts == pinging' = (opt.enablePing /\ TimerThere)
TimerStops == pinging' = FALSE
Tick ==
    /\ tick = "pending"
    /\ tick' = "fired"
    /\ TimerStarts
    /\ UNCHANGED <<opt, link, stage, writers, closed, reported, reader, wire, sendVars,
                   dedupVars, pingStart, pings, samples, delivered>>

-----------------------------------------------------------------------------
(* The native transport.                                                   *)

Lost ==
    /\ link = "up"
    /\ link' = "down"
    /\ UNCHANGED <<opt, stage, tick, writers, closed, reported, reader, wire, sendVars,
                   dedupVars, pingVars, delivered>>

\* transport.closed settles, with or without an error.
TransportClosed ==
    /\ link = "down"
    /\ reported' = TRUE
    /\ UNCHANGED <<opt, connectVars, closed, reader, wire, sendVars, dedupVars, pingVars, delivered>>

\* reader.read() fails, or says done: the loop ends.
ReadEnds(i) ==
    /\ reader[i] = "reading"
    /\ reader' = [reader EXCEPT ![i] = "ended"]
    /\ wire' = [wire EXCEPT ![i] = <<>>]
    /\ reported' = TRUE
    /\ UNCHANGED <<opt, connectVars, closed, sendVars, dedupVars, pingVars, delivered>>

DatagramLost ==
    /\ opt.useDatagrams
    /\ \E k \in DOMAIN wire[1] : wire' = [wire EXCEPT ![1] = RemoveAt(@, k)]
    /\ UNCHANGED <<opt, connectVars, closed, reported, reader, sendVars, dedupVars, pingVars, delivered>>

-----------------------------------------------------------------------------
(* The read loops, and onDecodeMessage.                                    *)

\* The queue after a new message: what is old at its head is forgotten.
KeptYounger(queue) == SubSeq(queue, aged + 2, Len(queue))
Kept(queue) == SubSeq(queue, aged + 1, Len(queue))
Known(cmd) == cmd \in commandMap

\* The first copy of a message on several streams is delivered and remembered.
\* Those remembered for too long are forgotten then, and not before.
DeliverFirst(f) ==
    LET queue == Append(commandQueue, [cmd |-> f.cmd, id |-> f.id])
    IN  /\ ~Known(f.cmd)
        /\ delivered' = Append(delivered, f.id)
        /\ commandQueue' = Kept(queue)
        /\ commandMap' = Remembered(Kept(queue))
        /\ aged' = 0
        /\ forgotten' = forgotten \cup {queue[i].id : i \in 1..aged}
        /\ UNCHANGED <<pingVars, dropped>>

Ignore(f) ==
    /\ Known(f.cmd)
    /\ dropped' = dropped \cup {f.id}
    /\ UNCHANGED <<commandQueue, commandMap, aged, forgotten, pingVars, delivered>>

\* Without commands, or in stream mode, the answer to a ping is given out as well.
Deliver(f) ==
    /\ delivered' = Append(delivered, IF f.cmd = pingCommand THEN 0 ELSE f.id)
    /\ UNCHANGED <<dedupVars, pingVars>>

\* A value for the average; the answer to a ping gives one, unless it has been given up.
Push == samples' = samples + 1
CountsLate(n) == Push
CountsAnswer(n) == IF n \in pingStart THEN Push ELSE UNCHANGED samples
PingAnswered(f) ==
    /\ CountsAnswer(f.id)
    /\ pingStart' = pingStart \ {f.id}
    /\ UNCHANGED <<pinging, pings, dedupVars, delivered>>

onDecodeMessage(f) ==
    IF ~opt.enableCommand THEN Deliver(f)
    ELSE IF f.cmd = pingCommand THEN PingAnswered(f)
    ELSE IF opt.streamCount > 1 THEN DeliverFirst(f) \/ Ignore(f)
    ELSE Deliver(f)

\* A read loop gets the next frame.  Without a decoder, after close(), the text mode
\* throws and the loop ends; the stream mode gives out what it got.
DecoderThere == ~closed
Read(i) ==
    /\ reader[i] = "reading"
    /\ \E k \in IF opt.useDatagrams THEN DOMAIN wire[i] ELSE DOMAIN wire[i] \cap {1} :
           /\ wire' = [wire EXCEPT ![i] = RemoveAt(@, k)]
           /\ \/ /\ opt.mode = "text" /\ DecoderThere
                 /\ onDecodeMessage(wire[i][k])
                 /\ UNCHANGED <<reader, reported>>
              \/ /\ opt.mode = "text" /\ ~DecoderThere
                 /\ reader' = [reader EXCEPT ![i] = "ended"]
                 /\ reported' = TRUE
                 /\ UNCHANGED <<dedupVars, pingVars, delivered>>
              \/ /\ opt.mode = "stream"
                 /\ Deliver(wire[i][k])
                 /\ UNCHANGED <<reader, reported>>
    /\ UNCHANGED <<opt, connectVars, closed, sendVars>>

\* A message remembered grows older than commandTimeout.
Age ==
    /\ aged < Len(commandQueue)
    /\ aged' = aged + 1
    /\ UNCHANGED <<opt, connectVars, closed, reported, reader, wire, sendVars, commandQueue,
                   commandMap, dropped, forgotten, pingVars, delivered>>

-----------------------------------------------------------------------------
(* The calls of the user.                                                  *)

\* writer.write() on each of the streams `to', whose rejection nobody awaits.
Write(f, to) ==
    wire' = [i \in Streams |-> IF i \in to /\ link = "up" /\ reader[i] # "ended"
                               THEN Append(wire[i], f) ELSE wire[i]]

FirstWriter == 1..writers \cap {1}
NextWriter == 1..writers \cap {1 + (Len(sent) % MaxStreams)}
Writers == 1..writers
AutoWriters == 1..writers \cap 1..currentWriteStreams

Sent(cmd, kind) ==
    sent' = Append(sent, [cmd |-> cmd, kind |-> kind, open |-> tick = "fired"])

SameCommand == textCommandPointer
CommandNoWrap == textCommandPointer + 1
NextCommand == IF textCommandPointer = textCommandEnd THEN textCommandStart
               ELSE textCommandPointer + 1

\* A message without a command (-1) is told by enableCommand alone.  After close() there
\* is no encoder: onclose.
send ==
    /\ opt.mode = "text"
    /\ Len(sent) < opt.messages
    /\ IF closed
       THEN reported' = TRUE /\ UNCHANGED <<wire, sendVars>>
       ELSE /\ Write([cmd |-> textCommandPointer, id |-> Len(sent) + 1],
                     IF opt.autoStream THEN AutoWriters ELSE Writers)
            /\ Sent(textCommandPointer, "text")
            /\ textCommandPointer' = IF opt.enableCommand THEN NextCommand ELSE textCommandPointer
            /\ UNCHANGED <<reported, currentWriteStreams>>
    /\ UNCHANGED <<opt, connectVars, closed, reader, dedupVars, pingVars, delivered>>

\* After close() there are no writers, and nothing is sent.
sendBinary ==
    /\ Len(sent) < opt.messages
    /\ ~closed
    /\ Write([cmd |-> binaryCommand, id |-> Len(sent) + 1], Writers)
    /\ Sent(binaryCommand, "binary")
    /\ UNCHANGED <<opt, connectVars, closed, reported, reader, currentWriteStreams,
                   textCommandPointer, dedupVars, pingVars, delivered>>

\* restrain(value, 1, this.writers.length), which is 0 for 1 without a writer.
restrain(value, min, max) == IF value < min THEN min ELSE IF value > max THEN max ELSE value
setCurrentWriteStreams(value) ==
    /\ opt.autoStream /\ ~closed
    /\ currentWriteStreams' = restrain(value, 1, writers)
    /\ UNCHANGED <<opt, connectVars, closed, reported, reader, wire, textCommandPointer, sent,
                   dedupVars, pingVars, delivered>>

\* The timer of the ping, which starts itself again.
ping ==
    /\ pinging
    /\ pings < MaxPings
    /\ pings' = pings + 1
    /\ pingStart' = pingStart \cup {pings + 1}
    /\ Write([cmd |-> pingCommand, id |-> pings + 1], {1})
    /\ UNCHANGED <<opt, connectVars, closed, reported, reader, sendVars, dedupVars, pinging,
                   samples, delivered>>

\* No answer for five seconds.
PingTimeout(n) ==
    /\ n \in pingStart
    /\ pingStart' = pingStart \ {n}
    /\ Push
    /\ UNCHANGED <<opt, connectVars, closed, reported, reader, wire, sendVars, dedupVars, pinging,
                   pings, delivered>>

\* What close() does but for delivered and the read loops.
Drop ==
    /\ ~closed
    /\ closed' = TRUE
    /\ link' = "down"
    /\ TimerStops
    /\ pingStart' = {}
    /\ commandQueue' = <<>> /\ commandMap' = {} /\ aged' = 0
    /\ UNCHANGED <<opt, stage, tick, writers, sendVars, dropped, forgotten, pings, samples>>

close == Drop /\ UNCHANGED <<reported, reader, wire, delivered>>

\* onmessage calls close(): the map, or the decoder's buffer, is gone when it returns,
\* and the read loop ends with that error.
CloseInOnMessage(i) ==
    /\ reader[i] = "reading" /\ opt.mode = "text" /\ wire[i] # <<>>
    /\ LET f == Head(wire[i])
       IN  /\ opt.enableCommand => f.cmd # pingCommand
           /\ opt.streamCount > 1 => ~Known(f.cmd)
           /\ delivered' = Append(delivered, IF f.cmd = pingCommand THEN 0 ELSE f.id)
    /\ reader' = [reader EXCEPT ![i] = "ended"]
    /\ wire' = [wire EXCEPT ![i] = <<>>]
    /\ reported' = TRUE
    /\ Drop

-----------------------------------------------------------------------------
Continuation == Ready \/ StreamCreated \/ WritersReady \/ Tick \/ TransportClosed
Timeout == ping \/ Age \/ \E n \in pingStart : PingTimeout(n)
Network == Lost \/ DatagramLost \/ \E i \in Streams : ReadEnds(i) \/ Read(i)
User == send \/ sendBinary \/ close \/ (\E i \in Streams : CloseInOnMessage(i)) \/ \E v \in 0..MaxStreams : setCurrentWriteStreams(v)

Next == Continuation \/ Timeout \/ Network \/ User

Spec == Init /\ [][Next]_vars

\* What a stream brings is read, and the loops of a lost connection end.
FairSpec ==
    /\ Spec
    /\ WF_vars(TransportClosed)
    /\ \A i \in Streams : WF_vars(Read(i)) /\ WF_vars(link = "down" /\ ReadEnds(i))

-----------------------------------------------------------------------------
(* Properties.                                                             *)

Count(id) == Cardinality({k \in DOMAIN delivered : delivered[k] = id})

(* However many streams bring a message, and in whatever order, it is       *)
(* delivered once; twice only when it had been forgotten in between.        *)
DeliveredOnce == \A id \in DOMAIN sent : Count(id) <= 1 \/ id \in forgotten

(* What is ignored as `already received' was; unless it is binary, all of   *)
(* which have one command, or the command is that of another message, a     *)
(* whole range of commands before or after it.                              *)
DropsAreDuplicates ==
    \A id \in dropped :
        \/ Count(id) > 0
        \/ sent[id].kind = "binary"
        \/ \E other \in ToSet(delivered) \ {0} :
               /\ sent[other].cmd = sent[id].cmd
               /\ \/ other > id + (textCommandEnd - textCommandStart)
                  \/ id > other + (textCommandEnd - textCommandStart)

FirstDelivered ==
    {k \in DOMAIN delivered :
         delivered[k] # 0 /\ \A j \in 1..(k - 1) : delivered[j] # delivered[k]}
OwnCommand(id) == \A other \in DOMAIN sent \ {id} : sent[other].cmd # sent[id].cmd

(* Messages sent after onopen are first delivered in the order in which     *)
(* they were sent, whichever stream is ahead, unless another message has    *)
(* the same command.  Not so with autoStream, when two messages may share   *)
(* no stream, nor with datagrams.                                           *)
InOrder ==
    (~opt.autoStream /\ ~opt.useDatagrams) =>
        \A k, l \in {j \in FirstDelivered :
                       /\ sent[delivered[j]].open
                       /\ opt.streamCount > 1 => OwnCommand(delivered[j])} :
            k < l => delivered[k] < delivered[l]

(* Every ping gives the average one value: the answer's or the timeout's,   *)
(* whichever is first, also when the other comes later.                     *)
PingsCountOnce == ~closed => pings = samples + Cardinality(pingStart)

(* After close(), also during connect() or from onmessage, onclose is called *)
(* and every loop and timer ends, none to start again.                      *)
ClosedIsOver ==
    closed ~> [](reported /\ ~pinging /\ \A i \in Streams : reader[i] # "reading")

(* What is sent on several streams after onopen arrives when one of them    *)
(* holds, whatever becomes of the others: again and again, nothing sent is  *)
(* missing but where every stream has ended.                                *)
Served(id) ==
    (sent[id].open /\ ~opt.autoStream /\ ~opt.useDatagrams) =>
        (Count(id) > 0 \/ id \in dropped \/ \A i \in 1..writers : reader[i] # "reading")

OneStreamIsEnough == []<>(\A id \in DOMAIN sent : Served(id))

=============================================================================
