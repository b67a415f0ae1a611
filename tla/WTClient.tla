------------------------------- MODULE WTClient -------------------------------
(***************************************************************************)
(* webtransport_client.go: Connect, the four loops it starts, the readers  *)
(* of incoming streams, the methods, close() and Close(); and the program  *)
(* example/client/client.go that uses it.                                  *)
(*                                                                         *)
(* Nothing protects the object, there is no flag beside `connected', and   *)
(* no panic is recovered.  A step is one read or write of a shared field   *)
(* or channel; `crash' names what panicked and ends the process.           *)
(***************************************************************************)
EXTENDS WTConnection

CONSTANTS
    Me,            \* the connection of this client
    Callers,       \* application goroutines that call its methods
    UniStreams,    \* the streams its server may open
    BidiStreams,
    ClientPaths    \* the values of ClientConfig.Path to consider, as in H3

Chans     == {"Stream", "ReceiveStream"}
Streams   == UniStreams \cup BidiStreams
Acceptors == {"uni", "bidi"}
Loops     == Acceptors \cup {"datagram", "connect"}
Procs     == Loops \cup Callers

ASSUME MeAssumption == Me \in Conns
ASSUME CallersAssumption == Callers \cap Loops = {}

\* The fields of the struct that may be nil.
Refs == {"session", "connectStream", "settingsStream", "ReceiveStream", "Stream"}

VARIABLES
    clientPath,  \* ClientConfig.Path
    connect,     \* where Connect() is, or how it returned
    ref,         \* ref[f]: client.f is not nil
    connected,   \* client.connected
    open,        \* open[ch]: the channel made for ch has not been closed
    pc,          \* where each goroutine of Procs is
    stream,      \* where each incoming stream is
    onMessage,   \* the application has set OnMessage
    calls,       \* how often close() has called OnClose
    crash        \* "none", or what the panic that ended the process used

objectVars == <<ref, connected, open>>
clientVars == <<clientPath, connect, objectVars, pc, stream, onMessage, calls, crash>>

ConnectStages == {"dial", "control", "settings", "open", "request", "write",
                  "response", "accepted", "ok", "error"}
Crashes == {"none", "nil stream", "session", "settingsStream", "connectStream", "channel"}
ClearLabels == <<"connectStream", "settingsStream", "ReceiveStream", "Stream", "connected">>
CloseLabels == {"check", "mark", "close Stream", "close ReceiveStream", "OnClose"}
                   \cup {ClearLabels[i] : i \in DOMAIN ClearLabels}
Labels == {"off", "top", "wait", "got", "use", "finish", "abort", "ended"} \cup CloseLabels

ClientTypeOK ==
    /\ clientPath \in ClientPaths
    /\ connect \in ConnectStages
    /\ ref \in [Refs -> BOOLEAN]
    /\ connected \in BOOLEAN
    /\ open \in [Chans -> BOOLEAN]
    /\ pc \in [Procs -> Labels]
    /\ \A p \in Callers : pc[p] \notin {"off", "wait", "got", "ended"}
    /\ stream \in [Streams -> {"none", "held", "reading", "offered", "blocked",
                               "done"}]
    /\ onMessage \in BOOLEAN
    /\ calls \in Nat
    /\ crash \in Crashes

(* CreateWebTransportClient.                                               *)
ClientInit ==
    /\ clientPath \in ClientPaths
    /\ connect = "dial"
    /\ ref = [f \in Refs |-> f \in Chans]
    /\ connected = FALSE
    /\ open = [ch \in Chans |-> TRUE]
    /\ pc = [p \in Procs |-> IF p \in Loops THEN "off" ELSE "top"]
    /\ stream = [s \in Streams |-> "none"]
    /\ onMessage = FALSE
    /\ calls = 0
    /\ crash = "none"

Alive == crash = "none"
Goto(p, label) == pc' = [pc EXCEPT ![p] = label]
Move(s, state) == stream' = [stream EXCEPT ![s] = state]

-----------------------------------------------------------------------------
(* Connect.                                                                *)

\* A stage of Connect that begins at one label and ends at another; it leaves the
\* goroutines alone.
Connects(from, to) ==
    /\ Alive
    /\ connect = from
    /\ connect' = to
    /\ UNCHANGED <<clientPath, open, stream, onMessage, calls, crash>>

\* quic.DialAddr; listening says whether a server answers.
Dial(listening) ==
    /\ conn[Me] = "none"
    /\ \/ /\ listening
          /\ Connects("dial", "control")
          /\ conn' = [conn EXCEPT ![Me] = "up"]
          /\ ref' = [ref EXCEPT !["session"] = TRUE]
       \/ Connects("dial", "error") /\ UNCHANGED <<conn, ref>>
    /\ UNCHANGED <<uni, control, request, response, connected, pc>>

AcceptControl ==
    /\ conn[Me] = "up"
    /\ control[Me].opened
    /\ Connects("control", "settings")
    /\ UNCHANGED <<connVars, ref, connected, pc>>

\* The server's settings must say that it knows WebTransport.
Supports(settings) ==
    /\ {H3_DATAGRAM_05, ENABLE_WEBTRANSPORT, ENABLE_CONNECT_PROTOCOL} \subseteq DOMAIN settings
    /\ \A id \in {H3_DATAGRAM_05, ENABLE_WEBTRANSPORT, ENABLE_CONNECT_PROTOCOL} :
           settings[id] = 1

ReadSettings ==
    LET parsed == ParseNextFrame(control[Me])
        isSettings == parsed.kind = "ok" /\ parsed.value.type = "SETTINGS"
    IN  /\ connect = "settings" /\ conn[Me] = "up"
        /\ parsed # Waits
        /\ IF isSettings /\ Supports(parsed.value.payload.Other)
           THEN Connects("settings", "open")
           ELSE Connects("settings", "error")
        /\ ref' = [ref EXCEPT !["settingsStream"] = @ \/ isSettings]
        /\ control' = Consumed(control, Me)
        /\ UNCHANGED <<conn, uni, request, response, connected, pc>>

\* The client's own control stream, with its settings.
OpenControl ==
    /\ conn[Me] = "up"
    /\ Connects("open", "request")
    /\ uni' = [uni EXCEPT ![Me] = @ + 1]
    /\ UNCHANGED <<conn, control, request, response, ref, connected, pc>>

KeepsConnectStream(r) == r
SetsConnectStream(r) == [r EXCEPT !["connectStream"] = TRUE]

OpenRequest ==
    /\ conn[Me] = "up"
    /\ Connects("request", "write")
    /\ ref' = SetsConnectStream(ref)
    /\ UNCHANGED <<connVars, connected, pc>>

WriteRequest ==
    LET encoded == encodeHeaders(RemoteAddr, clientPath)
    IN  /\ connect = "write" /\ conn[Me] = "up"
        /\ IF encoded = Fails \/ request[Me].ended
           THEN Connects("write", "error") /\ UNCHANGED request
           ELSE /\ Connects("write", "response")
                /\ request' = [request EXCEPT ![Me] = Stream(<<encoded.value>>)]
        /\ UNCHANGED <<conn, uni, control, response, ref, connected, pc>>

\* The response: a whole HEADERS frame first, and in it the status 200.
AnyStatus(block) == block # Fails
IsAccepted(block) == block # Fails /\ block = Ok("200")

ReadResponse ==
    LET parsed == ParseNextFrame(response[Me])
        isHeaders == parsed.kind = "ok" /\ parsed.value.type = "HEADERS"
        block == IF isHeaders /\ parsed.value.whole
                 THEN ResponseFromHeaders(parsed.value.payload) ELSE Fails
    IN  /\ connect = "response" /\ conn[Me] = "up"
        /\ response[Me].opened
        /\ parsed # Waits
        /\ isHeaders => parsed.value.whole \/ response[Me].ended
        /\ IF IsAccepted(block) THEN Connects("response", "accepted")
           ELSE Connects("response", "error")
        /\ response' = Consumed(response, Me)
        /\ UNCHANGED <<conn, uni, control, request, ref, connected, pc>>

\* client.connected = true; client.handleStream().
Succeed ==
    /\ Connects("accepted", "ok")
    /\ connected' = TRUE
    /\ pc' = [p \in Procs |-> IF p \in Loops THEN "top" ELSE pc[p]]
    /\ UNCHANGED <<connVars, ref>>

ConnectFails ==
    /\ conn[Me] = "down"
    /\ \E stage \in {"control", "settings", "open", "request", "write", "response"} :
           Connects(stage, "error")
    /\ UNCHANGED <<connVars, ref, connected, pc>>

Connect(listening) ==
    \/ Dial(listening) \/ AcceptControl \/ ReadSettings \/ OpenControl \/ OpenRequest
    \/ WriteRequest \/ ReadResponse \/ Succeed \/ ConnectFails

-----------------------------------------------------------------------------
(* The loops.                                                              *)

Panic(what) == crash' = what /\ UNCHANGED <<pc, stream>>

\* The field a loop reads before its blocking call, and the one whose StreamID it
\* compares with that of an accepted stream.
Called(l)    == IF l = "connect" THEN "connectStream" ELSE "session"
Compared(l)  == IF l = "uni" THEN "settingsStream" ELSE "connectStream"
StreamsOf(l) == CASE l = "uni" -> UniStreams [] l = "bidi" -> BidiStreams [] OTHER -> {}
ChanOf(s)    == IF s \in UniStreams THEN "ReceiveStream" ELSE "Stream"

\* The loop calls and waits; a call on nil panics.
Call(l) ==
    /\ Alive /\ pc[l] = "top"
    /\ IF ref[Called(l)] THEN Goto(l, "wait") /\ UNCHANGED <<stream, crash>>
       ELSE Panic(Called(l))
    /\ UNCHANGED <<connVars, clientPath, connect, objectVars, onMessage, calls>>

Accept(l, s) ==
    /\ Alive /\ pc[l] = "wait"
    /\ conn[Me] = "up"
    /\ stream[s] = "none"
    /\ Goto(l, "got")
    /\ Move(s, "held")
    /\ UNCHANGED <<connVars, clientPath, connect, objectVars, onMessage, calls, crash>>

\* The stream is another than settingsStream or connectStream: its reader starts.
CompareStreamId(l, s) ==
    /\ Alive /\ pc[l] = "got"
    /\ stream[s] = "held"
    /\ IF ref[Compared(l)] THEN Goto(l, "top") /\ Move(s, "reading") /\ UNCHANGED crash
       ELSE Panic(Compared(l))
    /\ UNCHANGED <<connVars, clientPath, connect, objectVars, onMessage, calls>>

\* if client.session == nil { return }, at the start of close().
AfterCloseEnded(p) == "ended"
AfterClose(p) == IF p \in Loops THEN "ended" ELSE "top"
Checked(p) == IF ref["session"] THEN "mark" ELSE AfterClose(p)

\* The blocking call of a loop fails, and the loop runs close().  The accept loops
\* log the id of the stream that they did not get, before they look at the error.
EndsOf(l) == conn[Me] = "down" \/ (l = "connect" /\ response[Me].ended)
LoopRetries(l) == UNCHANGED <<pc, stream, crash>>
OnError(l) ==
    IF l \in Acceptors THEN Panic("nil stream")
    ELSE Goto(l, Checked(l)) /\ UNCHANGED <<stream, crash>>

LoopError(l) ==
    /\ Alive /\ pc[l] = "wait"
    /\ EndsOf(l)
    /\ OnError(l)
    /\ UNCHANGED <<connVars, clientPath, connect, objectVars, onMessage, calls>>

\* A datagram for OnMessage, which answers it with SendMessage; without OnMessage,
\* as data on the CONNECT stream, it is only logged.
ReceiveMessage ==
    /\ Alive /\ pc["datagram"] = "wait"
    /\ conn[Me] = "up"
    /\ Goto("datagram", IF onMessage /\ connected THEN "use" ELSE "top")
    /\ UNCHANGED <<connVars, clientPath, connect, objectVars, stream, onMessage, calls, crash>>

ReadConnectStream ==
    /\ Alive /\ pc["connect"] = "wait"
    /\ conn[Me] = "up" /\ ~response[Me].ended
    /\ Goto("connect", "top")
    /\ UNCHANGED <<connVars, clientPath, connect, objectVars, stream, onMessage, calls, crash>>

-----------------------------------------------------------------------------
(* The readers of incoming streams, and the range loop of the application. *)

\* The header names a WebTransport stream, which is offered, client.Stream <- stream:
\* nothing is ever sent on nil, and a send on a closed channel panics; or it names
\* another kind of stream.
ReadHeader(s) ==
    /\ Alive /\ stream[s] = "reading"
    /\ conn[Me] = "up"
    /\ \/ Move(s, "done") /\ UNCHANGED <<pc, crash>>
       \/ IF ~ref[ChanOf(s)] THEN Move(s, "blocked") /\ UNCHANGED <<pc, crash>>
          ELSE IF open[ChanOf(s)] THEN Move(s, "offered") /\ UNCHANGED <<pc, crash>>
          ELSE Panic("channel")
    /\ UNCHANGED <<connVars, clientPath, connect, objectVars, onMessage, calls>>

ReadFails(s) ==
    /\ Alive /\ stream[s] = "reading"
    /\ Move(s, "done")
    /\ UNCHANGED <<connVars, clientPath, connect, objectVars, pc, onMessage, calls, crash>>

\* The channel is closed while the send waits.
OfferPanics(s) ==
    /\ Alive /\ stream[s] = "offered"
    /\ ~open[ChanOf(s)]
    /\ Panic("channel")
    /\ UNCHANGED <<connVars, clientPath, connect, objectVars, onMessage, calls>>

Reader(s) == ReadHeader(s) \/ ReadFails(s) \/ OfferPanics(s)

\* for stream := range client.Stream.  Nobody takes from ReceiveStream.
Receive(s) ==
    /\ Alive /\ stream[s] = "offered"
    /\ ChanOf(s) = "Stream" /\ open["Stream"]
    /\ Move(s, "done")
    /\ UNCHANGED <<connVars, clientPath, connect, objectVars, pc, onMessage, calls, crash>>

\* client.OnMessage = ..., in the same goroutine after the range loop.
SetOnMessage ==
    /\ Alive /\ ~onMessage
    /\ ~open["Stream"]
    /\ onMessage' = TRUE
    /\ UNCHANGED <<connVars, clientPath, connect, objectVars, pc, stream, calls, crash>>

-----------------------------------------------------------------------------
(* The methods.                                                            *)

\* CreateStream, CreateUniStream, SendMessage: if client.connected, client.session.
CallMethod(p) ==
    /\ Alive /\ pc[p] = "top"
    /\ connected
    /\ Goto(p, "use")
    /\ UNCHANGED <<connVars, clientPath, connect, objectVars, stream, onMessage, calls, crash>>

UseSession(p) ==
    /\ Alive /\ pc[p] = "use"
    /\ IF ref["session"] THEN Goto(p, "top") /\ UNCHANGED <<stream, crash>>
       ELSE Panic("session")
    /\ UNCHANGED <<connVars, clientPath, connect, objectVars, onMessage, calls>>

\* Close() does nothing when connected, else client.connectStream.Close(),
\* client.session.CloseWithError() and client.close().
Close(p) ==
    /\ Alive /\ pc[p] = "top"
    /\ ~connected
    /\ Goto(p, "finish")
    /\ UNCHANGED <<connVars, clientPath, connect, objectVars, stream, onMessage, calls, crash>>

FinishConnectStream(p) ==
    /\ Alive /\ pc[p] = "finish"
    /\ IF ref["connectStream"]
       THEN Goto(p, "abort") /\ request' = End(request, Me) /\ UNCHANGED <<stream, crash>>
       ELSE Panic("connectStream") /\ UNCHANGED request
    /\ UNCHANGED <<conn, uni, control, response, clientPath, connect, objectVars, onMessage, calls>>

CloseWithError(p) ==
    /\ Alive /\ pc[p] = "abort"
    /\ IF ref["session"]
       THEN Goto(p, "check") /\ conn' = [conn EXCEPT ![Me] = "down"] /\ UNCHANGED <<stream, crash>>
       ELSE Panic("session") /\ UNCHANGED conn
    /\ UNCHANGED <<uni, control, request, response, clientPath, connect, objectVars, onMessage,
                   calls>>

-----------------------------------------------------------------------------
(* close().                                                                *)

Check(p) ==
    /\ Alive /\ pc[p] = "check"
    /\ Goto(p, Checked(p))
    /\ UNCHANGED <<connVars, clientPath, connect, objectVars, stream, onMessage, calls, crash>>

Mark(p) ==
    /\ Alive /\ pc[p] = "mark"
    /\ ref' = [ref EXCEPT !["session"] = FALSE]
    /\ Goto(p, "close Stream")
    /\ UNCHANGED <<connVars, clientPath, connect, connected, open, stream, onMessage, calls, crash>>

\* close(client.Stream), close(client.ReceiveStream): the field must not be nil and
\* the channel still be open.
ClosesAnyChannel(ch) == TRUE
CanClose(ch) == ref[ch] /\ open[ch]

CloseChannel(p, at, ch, next) ==
    /\ Alive /\ pc[p] = at
    /\ IF CanClose(ch)
       THEN Goto(p, next) /\ open' = [open EXCEPT ![ch] = FALSE] /\ UNCHANGED <<stream, crash>>
       ELSE Panic("channel") /\ UNCHANGED open
    /\ UNCHANGED <<connVars, clientPath, connect, ref, connected, onMessage, calls>>

\* The five assignments, in their order.
LeavesConnected(i) == IF i < Len(ClearLabels) - 1 THEN ClearLabels[i + 1] ELSE "OnClose"
AfterClear(i) == IF i < Len(ClearLabels) THEN ClearLabels[i + 1] ELSE "OnClose"

Clear(p) ==
    /\ Alive
    /\ \E i \in DOMAIN ClearLabels :
           /\ pc[p] = ClearLabels[i]
           /\ ref' = [f \in Refs |-> ref[f] /\ f # ClearLabels[i]]
           /\ connected' = (connected /\ ClearLabels[i] # "connected")
           /\ Goto(p, AfterClear(i))
    /\ UNCHANGED <<connVars, clientPath, connect, open, stream, onMessage, calls, crash>>

CallOnClose(p) ==
    /\ Alive /\ pc[p] = "OnClose"
    /\ calls' = calls + 1
    /\ Goto(p, AfterClose(p))
    /\ UNCHANGED <<connVars, clientPath, connect, objectVars, stream, onMessage, crash>>

CloseStep(p) ==
    \/ Check(p) \/ Mark(p) \/ Clear(p) \/ CallOnClose(p)
    \/ CloseChannel(p, "close Stream", "Stream", "close ReceiveStream")
    \/ CloseChannel(p, "close ReceiveStream", "ReceiveStream", ClearLabels[1])

\* What a loop does by itself, without a stream of the server's.
LoopRuns(l) ==
    \/ Call(l) \/ LoopError(l) \/ CloseStep(l)
    \/ \E s \in StreamsOf(l) : CompareStreamId(l, s)

Loop(l) == LoopRuns(l) \/ \E s \in StreamsOf(l) : Accept(l, s)

Caller(p) ==
    \/ CallMethod(p) \/ UseSession(p) \/ Close(p) \/ FinishConnectStream(p)
    \/ CloseWithError(p) \/ CloseStep(p)

Client(listening) ==
    \/ Connect(listening)
    \/ \E l \in Loops : Loop(l)
    \/ ReceiveMessage \/ UseSession("datagram") \/ ReadConnectStream
    \/ \E s \in Streams : Reader(s) \/ Receive(s)
    \/ SetOnMessage
    \/ \E p \in Callers : Caller(p)

-----------------------------------------------------------------------------
(* Properties.                                                             *)

(* Several loops that find the connection gone, and Close(), run close() at *)
(* once, and it has no flag: OnClose is called once all the same, because a *)
(* second one panics at the channels or finds the session nil.              *)
OnCloseOnce == calls <= 1

(* When OnClose is called everything is closed and dropped.  Only a Close() *)
(* that comes in the last moment of Connect() is followed by `connected',   *)
(* and then no loop has gone further than its first call, which panics.     *)
TeardownComplete ==
    calls > 0 =>
        /\ \A f \in Refs : ~ref[f]
        /\ \A ch \in Chans : ~open[ch]
        /\ connected => \A l \in Loops : pc[l] = "top"

(* No panic, in whatever order the loops, the readers, the methods and      *)
(* Connect() run, unless the connection or the CONNECT stream has ended, or *)
(* Close() was called before Connect() had its stream.                      *)
PanicsNeedAnEnd ==
    crash # "none" =>
        \/ conn[Me] = "down" \/ response[Me].ended
        \/ \E p \in Callers : pc[p] = "finish" /\ ~ref["connectStream"]

(* A client does not outlive its connection: when a connected client loses  *)
(* it, each loop has ended or the process has.                              *)
EndsWithItsConnection ==
    (connect = "ok" /\ conn[Me] = "down") ~>
        (crash # "none" \/ \A l \in Loops : pc[l] = "ended")

=============================================================================
