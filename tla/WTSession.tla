------------------------------ MODULE WTSession ------------------------------
(***************************************************************************)
(* One server-side WebTransport session, webtransport.go: the object that  *)
(* createWebTransport builds, the four goroutines it starts, the goroutine *)
(* pair of every incoming stream, the application that takes the session   *)
(* from the server and calls its methods, and close().                     *)
(*                                                                         *)
(* No lock protects the object.  A step is one read or one write of a      *)
(* shared field or channel, so the interleavings TLC explores are those of *)
(* the goroutines under sequential consistency.  A panic outside close()   *)
(* ends the process: `crash' names the field whose use panicked.           *)
(***************************************************************************)
EXTENDS Naturals

CONSTANTS
    UniStreams,   \* the unidirectional QUIC streams the peer may open
    BidiStreams,  \* the bidirectional QUIC streams the peer may open
    Callers,      \* application goroutines that call the session's methods
    Ids,          \* session ids that may appear in a header or a datagram
    Consumed      \* the channels the application ranges over

Streams   == UniStreams \cup BidiStreams
Chans     == {"Stream", "ReceiveStream"}
Acceptors == {"uni", "bidi"}
Loops     == Acceptors \cup {"datagram", "connect"}
Procs     == Loops \cup Callers       \* the goroutines that may run close()

ASSUME StreamsAssumption == UniStreams \cap BidiStreams = {}
ASSUME CallersAssumption == Callers \cap Loops = {}
ASSUME IdsAssumption     == 0 \in Ids
ASSUME ConsumedAssumption == Consumed \subseteq Chans

\* The fields of the WebTransport struct that may be nil.
Refs == {"session", "connectStream", "settingsStream", "Req",
         "ReceiveStream", "Stream", "OnClose"}

VARIABLES
    ref,        \* ref[f]: transport.f is not nil
    closed,     \* transport.closed
    sessionId,  \* transport.sessionId
    open,       \* open[ch]: the channel made for ch has not been closed
    conn,       \* "up", "ended" (the peer finished the CONNECT stream), "down"
    stream,     \* where each incoming stream is
    handler,    \* the goroutine that waits for the header reader of a stream
    pc,         \* where each goroutine of Procs is
    app,        \* how far the application is with taking the session
    ranging,    \* the application's range loop over each channel
    calls,      \* how often close() has called OnClose
    crash       \* "none", or what the panic that ended the process used

\* The object and its channels, the streams with their goroutines, the
\* application.
objectVars  == <<ref, closed, sessionId, open>>
streamVars  == <<stream, handler>>
appVars     == <<app, ranging, calls>>
vars == <<objectVars, conn, streamVars, pc, appVars, crash>>

StreamStates  == {"none", "held", "reading", "named", "sending",
                  "blocked", "finished", "exited"}
HandlerStates == {"none", "waiting", "returned", "expired"}
RangeStates   == {"no", "ranging", "stuck", "ended"}
Crashes       == {"none", "settingsStream", "connectStream", "channel",
                  "session", "Req"}
ClearLabels   == {"connectStream", "settingsStream", "Req", "ReceiveStream", "Stream"}
CloseLabels   == {"check", "mark", "close Stream", "close ReceiveStream",
                  "OnClose"} \cup ClearLabels
LoopLabels    == {"wait", "got", "compare", "use", "ended"} \cup CloseLabels
CallerLabels  == {"idle", "use"} \cup CloseLabels

(* Every variable stays in its set.                                        *)
TypeOK ==
    /\ ref \in [Refs -> BOOLEAN]
    /\ closed \in BOOLEAN
    /\ sessionId \in Ids
    /\ open \in [Chans -> BOOLEAN]
    /\ conn \in {"up", "ended", "down"}
    /\ stream \in [Streams -> StreamStates]
    /\ handler \in [Streams -> HandlerStates]
    /\ pc \in [Procs -> LoopLabels \cup CallerLabels]
    /\ \A p \in Procs : pc[p] \in IF p \in Loops THEN LoopLabels ELSE CallerLabels
    /\ app \in {"waiting", "named", "serving"}
    /\ ranging \in [Chans -> RangeStates]
    /\ calls \in Nat
    /\ crash \in Crashes

\* The streams an acceptor loop takes, the channel it feeds, and the field
\* whose StreamID it compares every accepted stream with.
StreamsOf(l) == CASE l = "uni" -> UniStreams [] l = "bidi" -> BidiStreams [] OTHER -> {}
Compared(l)  == IF l = "uni" THEN "settingsStream" ELSE "connectStream"
ChanOf(s)    == IF s \in UniStreams THEN "ReceiveStream" ELSE "Stream"

\* done := make(chan struct{}, 1)
DoneCapUnbuffered == 0
DoneCap == 1

(* createWebTransport.                                                     *)
Init ==
    /\ ref = [f \in Refs |-> f # "OnClose"]
    /\ closed = FALSE
    /\ sessionId = 0
    /\ open = [ch \in Chans |-> TRUE]
    /\ conn = "up"
    /\ stream = [s \in Streams |-> "none"]
    /\ handler = [s \in Streams |-> "none"]
    /\ pc = [p \in Procs |-> IF p \in Loops THEN "wait" ELSE "idle"]
    /\ app = "waiting"
    /\ ranging = [ch \in Chans |-> "no"]
    /\ calls = 0
    /\ crash = "none"

Goto(p, label) == pc' = [pc EXCEPT ![p] = label]
Move(s, state) == stream' = [stream EXCEPT ![s] = state]

-----------------------------------------------------------------------------
(* The peer and the network.                                               *)

PeerEndsConnect ==
    /\ conn = "up"
    /\ conn' = "ended"
    /\ UNCHANGED <<objectVars, streamVars, pc, appVars, crash>>

ConnectionLost ==
    /\ conn # "down"
    /\ conn' = "down"
    /\ UNCHANGED <<objectVars, streamVars, pc, appVars, crash>>

-----------------------------------------------------------------------------
(* The two accept loops, the datagram loop and the CONNECT-stream loop.    *)

\* session.AcceptUniStream or session.AcceptStream returns a stream.
Accept(l, s) ==
    /\ pc[l] = "wait"
    /\ conn # "down"
    /\ stream[s] = "none"
    /\ Move(s, "held")
    /\ Goto(l, "got")
    /\ UNCHANGED <<objectVars, conn, handler, appVars, crash>>

\* if transport.session == nil { return }: the accepted stream is dropped.
AlwaysGoesOn == TRUE
GoesOn == ref["session"]

CheckSession(l, s) ==
    /\ pc[l] = "got"
    /\ stream[s] = "held"
    /\ IF GoesOn
       THEN Goto(l, "compare") /\ UNCHANGED stream
       ELSE Goto(l, "ended") /\ Move(s, "exited")
    /\ UNCHANGED <<objectVars, conn, handler, appVars, crash>>

\* transport.settingsStream.StreamID() (connectStream in the other loop) panics
\* when the field is nil.  The settings and the CONNECT stream were accepted
\* before the session existed and QUIC returns a stream once, so the ids differ
\* and the loop starts the stream's two goroutines.
CompareStreamId(l, s) ==
    /\ pc[l] = "compare"
    /\ stream[s] = "held"
    /\ IF ref[Compared(l)]
       THEN /\ Move(s, "reading")
            /\ handler' = [handler EXCEPT ![s] = "waiting"]
            /\ Goto(l, "wait")
            /\ UNCHANGED crash
       ELSE /\ crash' = Compared(l)
            /\ UNCHANGED <<stream, handler, pc>>
    /\ UNCHANGED <<objectVars, conn, appVars>>

\* What a loop does when its blocking call fails: transport.close(); return.
DatagramErrorIgnored(l) == IF l = "datagram" THEN "wait" ELSE "check"
OnError(l) == "check"

\* The blocking call of a loop fails, or the CONNECT stream ends.
LoopError(l) ==
    /\ pc[l] = "wait"
    /\ conn = "down" \/ (l = "connect" /\ conn = "ended")
    /\ Goto(l, OnError(l))
    /\ UNCHANGED <<objectVars, conn, streamVars, appVars, crash>>

\* A datagram whose id is the session's reaches OnMessage, which the application
\* sets when it takes the session, and which answers with SendMessage in this
\* goroutine; any other datagram is dropped.
ReceiveMessage(id) ==
    /\ pc["datagram"] = "wait"
    /\ conn # "down"
    /\ app = "serving"
    /\ id = sessionId
    /\ ref["session"]
    /\ Goto("datagram", "use")
    /\ UNCHANGED <<objectVars, conn, streamVars, appVars, crash>>

-----------------------------------------------------------------------------
(* The header reader of a stream and the goroutine that waits for it.      *)

\* The type is WebTransport's (0x54 or 0x41) or another kind of stream's; only
\* the former stores the id that follows it.
ReadHeader(s, wt, id) ==
    /\ stream[s] = "reading"
    /\ conn # "down"
    /\ sessionId' = IF wt THEN id ELSE sessionId
    /\ Move(s, IF wt THEN "named" ELSE "finished")
    /\ UNCHANGED <<ref, closed, open, conn, handler, pc, appVars, crash>>

\* A read of the header fails: the stream was reset, or the connection is gone.
ReadFails(s) ==
    /\ stream[s] = "reading"
    /\ Move(s, "finished")
    /\ UNCHANGED <<objectVars, conn, handler, pc, appVars, crash>>

\* transport.Stream <- stream evaluates the field: a send on a nil channel
\* blocks for ever.
OfferStream(s) ==
    /\ stream[s] = "named"
    /\ Move(s, IF ref[ChanOf(s)] THEN "sending" ELSE "blocked")
    /\ UNCHANGED <<objectVars, conn, handler, pc, appVars, crash>>

\* A send on a closed channel panics, also when the sender was already blocked.
SendPanics(s) ==
    /\ stream[s] = "sending"
    /\ ~open[ChanOf(s)]
    /\ crash' = "channel"
    /\ UNCHANGED <<objectVars, conn, streamVars, pc, appVars>>

\* The deferred done <- struct{}{}: the handler, if it is still in its select,
\* takes the value and returns, and otherwise the channel must have room for it.
Finish(s) ==
    /\ stream[s] = "finished"
    /\ handler[s] = "waiting" \/ DoneCap > 0
    /\ Move(s, "exited")
    /\ handler' = [handler EXCEPT ![s] = IF @ = "waiting" THEN "returned" ELSE @]
    /\ UNCHANGED <<objectVars, conn, pc, appVars, crash>>

\* time.After(1 second) fires.  The reader is not told.
HandlerExpires(s) ==
    /\ handler[s] = "waiting"
    /\ handler' = [handler EXCEPT ![s] = "expired"]
    /\ UNCHANGED <<objectVars, conn, stream, pc, appVars, crash>>

-----------------------------------------------------------------------------
(* The application.                                                        *)

\* s.Webtransport <- transport meets the application's receive, and the
\* application reads transport.Req.URL.  A teardown between the two has the
\* outcomes of a teardown before them.
TakeSession ==
    /\ app = "waiting"
    /\ IF ref["Req"] THEN app' = "named" /\ UNCHANGED crash
                     ELSE crash' = "Req" /\ UNCHANGED app
    /\ UNCHANGED <<objectVars, conn, streamVars, pc, ranging, calls>>

\* An application that has taken the session starts its goroutines, and sets the
\* callbacks in between, or none: OnMessage, and OnClose with it or not.
Taken == app # "waiting"

Register ==
    /\ app = "named"
    /\ app' = "serving"
    /\ \E reports \in BOOLEAN : ref' = [ref EXCEPT !["OnClose"] = reports]
    /\ UNCHANGED <<closed, sessionId, open, conn, streamVars, pc, ranging, calls,
                   crash>>

\* for stream := range transport.Stream evaluates the field once.
RangeStart(ch) ==
    /\ Taken
    /\ ranging[ch] = "no"
    /\ ranging' = [ranging EXCEPT ![ch] = IF ref[ch] THEN "ranging" ELSE "stuck"]
    /\ UNCHANGED <<objectVars, conn, streamVars, pc, app, calls, crash>>

Receive(s) ==
    /\ ranging[ChanOf(s)] = "ranging"
    /\ open[ChanOf(s)]
    /\ stream[s] = "sending"
    /\ Move(s, "finished")
    /\ UNCHANGED <<objectVars, conn, handler, pc, appVars, crash>>

RangeEnd(ch) ==
    /\ ranging[ch] = "ranging"
    /\ ~open[ch]
    /\ ranging' = [ranging EXCEPT ![ch] = "ended"]
    /\ UNCHANGED <<objectVars, conn, streamVars, pc, app, calls, crash>>

\* CreateStream, CreateUniStream and SendMessage: the nil check, which returns an
\* error.
Call(c) ==
    /\ pc[c] = "idle"
    /\ Taken
    /\ Goto(c, IF ref["session"] THEN "use" ELSE "idle")
    /\ UNCHANGED <<objectVars, conn, streamVars, appVars, crash>>

\* transport.session.OpenStream, OpenUniStream or SendMessage, with the field read
\* a second time.  What QUIC answers leaves the session as it is.
UseSession(p) ==
    /\ pc[p] = "use"
    /\ IF ref["session"]
       THEN Goto(p, IF p \in Loops THEN "wait" ELSE "idle") /\ UNCHANGED crash
       ELSE crash' = "session" /\ UNCHANGED pc
    /\ UNCHANGED <<objectVars, conn, streamVars, appVars>>

\* Close: an error when the session is nil, else close().  The QUIC connection
\* is left as it is.
Close(c) ==
    /\ pc[c] = "idle"
    /\ Taken
    /\ Goto(c, IF ref["session"] THEN "check" ELSE "idle")
    /\ UNCHANGED <<objectVars, conn, streamVars, appVars, crash>>

-----------------------------------------------------------------------------
(* close(), run by any goroutine of Procs.                                 *)

\* Where a goroutine goes on after close() returns.
AfterCloseEnded(p) == "ended"
AfterClose(p) == IF p \in Loops THEN "ended" ELSE "idle"

\* if transport.closed { return }; if transport.session == nil { return }.  Both
\* fields only ever change in one direction, session first, so reading them
\* together loses no outcome.
Check(p) ==
    /\ pc[p] = "check"
    /\ Goto(p, IF closed \/ ~ref["session"] THEN AfterClose(p) ELSE "mark")
    /\ UNCHANGED <<objectVars, conn, streamVars, appVars, crash>>

\* transport.session = nil; transport.closed = true.  Nobody reads closed on its
\* own, so the two writes are one step.
Mark(p) ==
    /\ pc[p] = "mark"
    /\ ref' = [ref EXCEPT !["session"] = FALSE]
    /\ closed' = TRUE
    /\ Goto(p, "close Stream")
    /\ UNCHANGED <<sessionId, open, conn, streamVars, appVars, crash>>

\* close(ch) panics on a nil and on a closed channel.  close() recovers and
\* returns, so a goroutine that comes second goes no further.
ClosesAnyChannel(ch) == TRUE
CanClose(ch) == ref[ch] /\ open[ch]

CloseChannel(p, ch, next) ==
    /\ IF CanClose(ch)
       THEN open' = [open EXCEPT ![ch] = FALSE] /\ Goto(p, next)
       ELSE Goto(p, AfterClose(p)) /\ UNCHANGED open
    /\ UNCHANGED <<ref, closed, sessionId, conn, streamVars, appVars, crash>>

CloseStream(p) ==
    pc[p] = "close Stream" /\ CloseChannel(p, "Stream", "close ReceiveStream")

CloseReceiveStream(p) ==
    pc[p] = "close ReceiveStream" /\ CloseChannel(p, "ReceiveStream", "connectStream")

\* The five references close() drops, in its order: a goroutine at label f is
\* about to set transport.f to nil and go on to NextClear[f].
NextClearSkippingReq ==
    [f \in ClearLabels |-> CASE f = "connectStream" -> "settingsStream"
                           [] f = "settingsStream" -> "ReceiveStream"
                           [] f = "Req" -> "ReceiveStream"
                           [] f = "ReceiveStream" -> "Stream"
                           [] f = "Stream" -> "OnClose"]
NextClear ==
    [f \in ClearLabels |-> CASE f = "connectStream" -> "settingsStream"
                           [] f = "settingsStream" -> "Req"
                           [] f = "Req" -> "ReceiveStream"
                           [] f = "ReceiveStream" -> "Stream"
                           [] f = "Stream" -> "OnClose"]

Clear(p) ==
    /\ pc[p] \in ClearLabels
    /\ ref' = [ref EXCEPT ![pc[p]] = FALSE]
    /\ Goto(p, NextClear[pc[p]])
    /\ UNCHANGED <<closed, sessionId, open, conn, streamVars, appVars, crash>>

\* if transport.OnClose != nil { transport.OnClose() }
ReportsUnlessNil == ref["OnClose"] /\ ref["session"]
Reports == ref["OnClose"]

CallOnClose(p) ==
    /\ pc[p] = "OnClose"
    /\ calls' = IF Reports THEN calls + 1 ELSE calls
    /\ Goto(p, AfterClose(p))
    /\ UNCHANGED <<objectVars, conn, streamVars, app, ranging, crash>>

-----------------------------------------------------------------------------
CloseStep(p) ==
    \/ Check(p) \/ Mark(p)
    \/ CloseStream(p) \/ CloseReceiveStream(p)
    \/ Clear(p) \/ CallOnClose(p)

\* What the runtime will schedule of a goroutine of the session once it can go on.
LoopStep(l) ==
    \/ LoopError(l)
    \/ \E s \in StreamsOf(l) : CheckSession(l, s) \/ CompareStreamId(l, s)
    \/ UseSession(l)

ReaderStep(s) == OfferStream(s) \/ SendPanics(s) \/ Finish(s)
ReaderRuns(s) == ReaderStep(s) \/ (conn = "down" /\ ReadFails(s))

Network == PeerEndsConnect \/ ConnectionLost

Session ==
    \/ \E l \in Loops : LoopStep(l) \/ \E s \in StreamsOf(l) : Accept(l, s)
    \/ \E id \in Ids : ReceiveMessage(id)
    \/ \E s \in Streams : ReadFails(s) \/ ReaderStep(s) \/ HandlerExpires(s)
    \/ \E s \in Streams, wt \in BOOLEAN, id \in Ids : ReadHeader(s, wt, id)
    \/ \E p \in Procs : CloseStep(p)

Application ==
    \/ TakeSession \/ Register
    \/ \E ch \in Consumed : RangeStart(ch) \/ RangeEnd(ch)
    \/ \E s \in Streams : Receive(s)
    \/ \E c \in Callers : Call(c) \/ UseSession(c) \/ Close(c)

\* No goroutine runs on after a panic that nothing recovers.
Next == crash = "none" /\ (Network \/ Session \/ Application)

Spec == Init /\ [][Next]_vars

(* The Go scheduler runs every goroutine that can run: a loop whose call    *)
(* has returned, a close() under way, a range over a closed channel, a      *)
(* reader that is through or whose connection is gone.  The peer owes       *)
(* nothing, no header is ever sure to be read, and the application need not *)
(* take the session or receive.                                             *)
Fairness ==
    /\ \A l \in Loops : WF_vars(crash = "none" /\ (LoopStep(l) \/ CloseStep(l)))
    /\ \A c \in Callers : WF_vars(crash = "none" /\ CloseStep(c))
    /\ \A s \in Streams : WF_vars(crash = "none" /\ ReaderRuns(s))
    /\ \A ch \in Consumed : WF_vars(crash = "none" /\ RangeEnd(ch))

FairSpec == Spec /\ Fairness

-----------------------------------------------------------------------------
(* Properties.                                                             *)

(* close() calls OnClose at most once, however many goroutines run it at    *)
(* the same time: the panic of the second close(transport.Stream) stops     *)
(* every goroutine but one.                                                 *)
OnCloseAtMostOnce == calls <= 1

InClose(p) == pc[p] \in CloseLabels

(* A teardown is never left half done: when the session is nil and no       *)
(* goroutine is inside close() any more, both channels are closed and every *)
(* reference is dropped, although the goroutines that came second panicked  *)
(* in the middle of close().                                                *)
TeardownComplete ==
    (~ref["session"] /\ \A p \in Procs : ~InClose(p)) =>
        /\ closed
        /\ \A ch \in Chans : ~open[ch]
        /\ \A f \in ClearLabels : ~ref[f]

(* The windows in which a goroutine has passed its last nil check, or needs *)
(* none, and still has a field or a channel of the session to use.          *)
InWindow ==
    \/ \E s \in Streams : stream[s] \in {"reading", "named", "sending"}
    \/ \E l \in Acceptors : pc[l] = "compare"
    \/ \E p \in Procs : pc[p] = "use"
    \/ app = "waiting"

(* A panic ends the process only after a teardown that began in such a      *)
(* window: no step panics while the session is not nil, and once it is nil  *)
(* with no window open, no step opens one and no step panics, whatever      *)
(* arrives and whoever calls afterwards.                                    *)
PanicsOnlyInWindows ==
    [][(ref["session"] \/ ~InWindow) =>
          /\ crash' = crash
          /\ ~ref["session"] => ~InWindow']_vars

(* A stream that is not there yet, or dropped, or held by a loop that has   *)
(* its nil check ahead, when the session is nil.                            *)
Late(s) ==
    /\ ~ref["session"]
    /\ stream[s] \in {"none", "held", "exited"}
    /\ stream[s] = "held" =>
          \A l \in Acceptors : s \in StreamsOf(l) => pc[l] # "compare"

(* The loops of a session that was torn down stay for as long as the        *)
(* connection is up, and accept what the peer still opens.  A stream that   *)
(* comes so late stays late: it gets no reader, stores no session id and    *)
(* never reaches the application, wherever the goroutines of the teardown   *)
(* are, and whoever calls the session.                                      *)
LateStreamsAreDropped == [][\A s \in Streams : Late(s) => Late(s)']_vars

(* Once the connection is gone the session unwinds: the four loops return,  *)
(* the application's range loops are over, and every reader has exited,     *)
(* also when its handler gave up on it first, or sits on a nil channel for  *)
(* ever; unless the process crashes.                                        *)
Unwound ==
    /\ \A l \in Loops : pc[l] = "ended"
    /\ \A ch \in Consumed : ranging[ch] # "ranging"
    /\ \A s \in Streams : stream[s] \in {"none", "exited", "blocked"}

UnwindsAfterLoss == conn = "down" ~> (Unwound \/ crash # "none")

(* An application that set OnClose before the teardown began hears of the   *)
(* end of the connection, and of the end of the CONNECT stream alone.       *)
OnCloseReported ==
    (conn # "up" /\ ref["OnClose"] /\ ref["session"]) ~> (calls = 1 \/ crash # "none")

(* The comment at the timeout: a stream whose header is not read within a   *)
(* second is given up.  So its header is not taken up after that second, to *)
(* put the stream on its way to the application.                            *)
ExpiredStreamIsGivenUp ==
    [][\A s \in Streams :
          stream[s] = "reading" /\ stream'[s] = "named" => handler[s] # "expired"]_vars

=============================================================================
