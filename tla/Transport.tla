------------------------------ MODULE Transport ------------------------------
(***************************************************************************)
(* The reconnecting transport of the browser, Transport.js: a status, a     *)
(* queue of unsent messages, and a chain of attempts for every connect()    *)
(* that found nothing to reuse.  A chain tries the server, then the         *)
(* proxies, and the whole list again for as long as it has retries; it      *)
(* opens one socket at most, so a chain and its socket share a number.      *)
(*                                                                         *)
(* One thread runs everything: an action is one event or one call, from its *)
(* start to its return.  But onOpen and onReconnecting run in the middle of *)
(* an event, and may call the transport: `callback' is the one that runs,   *)
(* and what the code does after it is the action of its return.  The other  *)
(* callbacks end the event that calls them, so what they call follows it.   *)
(***************************************************************************)
EXTENDS Naturals, Sequences, FiniteSets

CONSTANTS
    Proxys,              \* the number of proxies
    RetryCount,          \* options.retryCount
    Interval,            \* options.interval > 0
    Timeout,             \* options.timeout > 0
    ConnectOnClose,      \* options.connectOnClose
    RefreshQueueOnClose, \* options.refreshQueueOnClose
    QueueMax,            \* options.queueMax, 0 for none
    Calls,               \* the methods the application calls
    Reports,             \* how often a lost socket may call onclose
    MaxChains,           \* bound: chains
    MaxTimers,           \* bound: pending timers of one second
    MaxSends             \* bound: messages sent

ASSUME NumbersAssumption ==
    /\ Proxys \in Nat /\ RetryCount \in Nat /\ QueueMax \in Nat /\ Reports \in Nat
    /\ MaxChains \in Nat /\ MaxTimers \in Nat /\ MaxSends \in Nat
ASSUME OptionsAssumption ==
    {Interval, Timeout, ConnectOnClose, RefreshQueueOnClose} \subseteq BOOLEAN

Chains   == 1..MaxChains
Statuses == {"NONE", "OPEN", "ERROR", "CLOSE", "CLOSING", "TIMEOUT", "CONNECTING"}

\* A chain is unused, has an attempt under way, waits for its next attempt, has
\* an open socket or one that sends its last messages, has lost its socket, has
\* left an open socket behind that nobody will close, or is over.
Phases == {"unused", "attempt", "wait", "open", "flushed", "lost", "abandoned", "over"}

VARIABLES
    status,          \* me.status
    queue,           \* me.queue: the numbers of the messages in it
    socket,          \* me.socket: its chain, or 0
    server,          \* me.server: 0 for the application's, or the proxy's number
    retryIndex,      \* me.retryIndex
    nextStartTimer,  \* me.nextStartTimer: the chain that waits for it, or 0
    phase,           \* where each chain is
    first,           \* servers[0] of each chain
    serverIndex,     \* serverIndex of each chain
    reports,         \* how often the socket of each chain has called onclose
    timers,          \* the pending timers of one second, in the order they fire
    sends,           \* how many messages the application has sent
    wire,            \* the messages handed to a socket, in order
    early,           \* those that onOpen handed to it before it returned; only read
                     \* by a property
    callback,        \* the callback that runs in the middle of an event
    caller,          \* the chain whose event called it, or 0
    hung             \* a loop that never ends has the thread

chainVars  == <<phase, first, serverIndex>>
sendVars   == <<queue, wire, sends, early>>
threadVars == <<callback, caller, hung>>
vars == <<status, socket, server, retryIndex, nextStartTimer, chainVars, reports,
          timers, sendVars, threadVars>>

Reconnect    == 0   \* in timers: the timer of reconnect(); a chain's number: its lazy close
NoneOrChains == 0..MaxChains
Callbacks    == {"none", "onOpen", "onReconnecting"}

(* Every variable stays in its set.                                        *)
TypeOK ==
    /\ status \in Statuses
    /\ queue \in Seq(1..MaxSends) /\ wire \in Seq(1..MaxSends)
    /\ socket \in NoneOrChains /\ nextStartTimer \in NoneOrChains
    /\ server \in 0..Proxys
    /\ retryIndex \in Nat
    /\ phase \in [Chains -> Phases]
    /\ first \in [Chains -> 0..Proxys] /\ serverIndex \in [Chains -> 0..Proxys]
    /\ reports \in [Chains -> 0..Reports]
    /\ timers \in Seq(NoneOrChains)
    /\ sends \in 0..MaxSends
    /\ early \subseteq 1..MaxSends
    /\ callback \in Callbacks
    /\ caller \in IF callback = "none" THEN {0} ELSE Chains
    /\ hung \in BOOLEAN

Init ==
    /\ status = "NONE"
    /\ queue = <<>> /\ wire = <<>> /\ sends = 0 /\ early = {}
    /\ socket = 0 /\ nextStartTimer = 0 /\ retryIndex = 0
    /\ server = 0
    /\ phase = [c \in Chains |-> "unused"]
    /\ first = [c \in Chains |-> 0]
    /\ serverIndex = [c \in Chains |-> 0]
    /\ reports = [c \in Chains |-> 0]
    /\ timers = <<>>
    /\ callback = "none" /\ caller = 0
    /\ hung = FALSE

\* The address a chain tries: its first one, or a proxy.
Address(c) == IF serverIndex[c] = 0 THEN first[c] ELSE serverIndex[c]

-----------------------------------------------------------------------------
(* A callback of the application, called by an event of chain c.           *)

Enters(cb, c) == callback' = cb /\ caller' = c /\ UNCHANGED hung
Returns(cb)   == callback = cb /\ callback' = "none" /\ caller' = 0 /\ UNCHANGED hung

-----------------------------------------------------------------------------
(* connect(), in a handler that has already brought the status to st and the *)
(* phases to ph: refused, or the first attempt of a new chain.              *)

RefusedWhenOpen == {"OPEN", "CLOSING"}
Refused == {"OPEN", "CONNECTING", "CLOSING"}

connect(srv, st, ph) ==
    /\ server' = srv
    /\ IF st \in Refused
       THEN status' = st /\ phase' = ph /\ UNCHANGED <<first, serverIndex>>
       ELSE \E c \in Chains :
               /\ phase[c] = "unused" /\ \A d \in 1..(c - 1) : phase[d] # "unused"
               /\ status' = "CONNECTING"
               /\ phase' = [ph EXCEPT ![c] = "attempt"]
               /\ first' = [first EXCEPT ![c] = srv]
               /\ UNCHANGED serverIndex

Connect ==
    /\ "connect" \in Calls
    /\ connect(0, status, phase)
    /\ UNCHANGED <<socket, retryIndex, nextStartTimer, reports, timers, sendVars,
                   threadVars>>

-----------------------------------------------------------------------------
(* The end of an attempt: connectComplete and the callback of connectServer. *)

\* The queue is handed to the socket, oldest message first.
NoDrain == UNCHANGED <<queue, wire>>
Drain == wire' = wire \o queue /\ queue' = <<>>

\* The status is OPEN before onOpen runs.
Opened(c) ==
    /\ phase[c] = "attempt" /\ status = "CONNECTING"
    /\ status' = "OPEN"
    /\ socket' = c
    /\ phase' = [phase EXCEPT ![c] = "open"]
    /\ retryIndex' = IF RetryCount > 0 THEN 0 ELSE retryIndex
    /\ Enters("onOpen", c)
    /\ UNCHANGED <<server, nextStartTimer, first, serverIndex, reports, timers, sendVars>>

\* After onOpen the queue goes to the socket that had opened, whatever onOpen made of
\* the transport.
OnOpenReturns ==
    /\ Returns("onOpen")
    /\ Drain
    /\ UNCHANGED <<status, socket, server, retryIndex, nextStartTimer, chainVars,
                   reports, timers, sends, early>>

LastServerPlusOne(c) == serverIndex[c] = Proxys + 1
LastServer(c) == serverIndex[c] = Proxys

\* me.retryCount > 0 && me.retryIndex++ < me.retryCount - 1
NeverCounted == retryIndex
Counted == IF RetryCount > 0 THEN retryIndex + 1 ELSE retryIndex
Retries == RetryCount > 0 /\ retryIndex < RetryCount - 1

\* nextEnd(): the chain goes on with another server, now or after the interval.
\* The timed-out socket, if it is one, is not closed.
NextEnd(c, i) ==
    /\ serverIndex' = [serverIndex EXCEPT ![c] = i]
    /\ phase' = [phase EXCEPT ![c] = IF Interval THEN "wait" ELSE "attempt"]
    /\ nextStartTimer' = IF Interval THEN c ELSE 0
    /\ UNCHANGED status

GivesUp(c, result) ==
    /\ status' = result
    /\ phase' = [phase EXCEPT ![c] = "over"]
    /\ UNCHANGED <<serverIndex, nextStartTimer>>

\* onerror is called or the timer of the attempt fires.
Failed(c, result) ==
    /\ phase[c] = "attempt" /\ status = "CONNECTING"
    /\ \/ ~LastServer(c) /\ NextEnd(c, serverIndex[c] + 1) /\ UNCHANGED retryIndex
       \/ /\ LastServer(c)
          /\ retryIndex' = Counted
          /\ IF Retries THEN NextEnd(c, 0) ELSE GivesUp(c, result)
    /\ UNCHANGED <<socket, server, first, reports, timers, sendVars, threadVars>>

\* The transport was closed during the attempt: an open socket takes the queue
\* and is closed a second later, any other one is closed at once.
SendsFirst(result) == result = "OPEN" /\ RefreshQueueOnClose /\ queue # <<>>

EndsClosing(c, result) ==
    /\ phase[c] = "attempt" /\ status = "CLOSING"
    /\ IF SendsFirst(result)
       THEN /\ Len(timers) < MaxTimers
            /\ Drain
            /\ timers' = Append(timers, c)
            /\ phase' = [phase EXCEPT ![c] = "flushed"]
            /\ UNCHANGED status
       ELSE /\ status' = "CLOSE"
            /\ phase' = [phase EXCEPT ![c] = "over"]
            /\ UNCHANGED <<timers, queue, wire>>
    /\ UNCHANGED <<socket, server, retryIndex, nextStartTimer, first, serverIndex,
                   reports, sends, early, threadVars>>

\* The status is another one: the socket is dropped, and not closed.
Dropped(c, result) ==
    /\ phase[c] = "attempt" /\ status \notin {"CONNECTING", "CLOSING"}
    /\ phase' = [phase EXCEPT ![c] = IF result = "OPEN" THEN "abandoned" ELSE "over"]
    /\ UNCHANGED <<status, socket, server, retryIndex, nextStartTimer, first,
                   serverIndex, reports, timers, sendVars, threadVars>>

DropsOnly(c, result) == Dropped(c, result)
Late(c, result) == EndsClosing(c, result) \/ Dropped(c, result)

OnOpen(c)    == Opened(c) \/ Late(c, "OPEN")
OnError(c)   == Failed(c, "ERROR") \/ Late(c, "ERROR")
OnTimeout(c) == Timeout /\ (Failed(c, "TIMEOUT") \/ Late(c, "TIMEOUT"))

\* nextStart(), called by the timer of the interval.
NextStart(c) ==
    /\ phase[c] = "wait"
    /\ nextStartTimer' = 0
    /\ status' = IF status = "CLOSING" THEN "CLOSE" ELSE status
    /\ phase' = [phase EXCEPT ![c] = IF status = "CONNECTING" THEN "attempt" ELSE "over"]
    /\ UNCHANGED <<socket, server, retryIndex, first, serverIndex, reports, timers,
                   sendVars, threadVars>>

-----------------------------------------------------------------------------
(* The socket.                                                             *)

\* A socket that has its handlers reports its end.
OnClose(c) ==
    /\ phase[c] \in {"open", "lost"} /\ reports[c] < Reports
    /\ reports' = [reports EXCEPT ![c] = @ + 1]
    /\ phase' = [phase EXCEPT ![c] = "lost"]
    /\ IF status = "OPEN" /\ ConnectOnClose
       THEN status' = "NONE" /\ Enters("onReconnecting", c)
       ELSE UNCHANGED <<status, threadVars>>
    /\ UNCHANGED <<socket, server, retryIndex, nextStartTimer, first, serverIndex,
                   timers, sendVars>>

\* After onReconnecting the transport connects again, unless onReconnecting did.  What
\* the code calls `server' there is the address that had been reached.
ReconnectTo(c) == Address(c)

OnReconnectingReturns ==
    /\ Returns("onReconnecting")
    /\ connect(ReconnectTo(caller), status, phase)
    /\ UNCHANGED <<socket, retryIndex, nextStartTimer, reports, timers, sendVars>>

-----------------------------------------------------------------------------
(* send(), close() and reconnect().                                        *)

\* queue.shift() when the queue is at its limit, then queue.push().
Queued(m) == Append(IF QueueMax > 0 /\ Len(queue) = QueueMax THEN Tail(queue) ELSE queue, m)

Send ==
    /\ "send" \in Calls /\ sends < MaxSends
    /\ sends' = sends + 1
    /\ IF status = "OPEN"
       THEN /\ wire' = Append(wire, sends + 1)
            /\ early' = IF callback = "onOpen" THEN early \cup {sends + 1} ELSE early
            /\ UNCHANGED queue
       ELSE queue' = Queued(sends + 1) /\ UNCHANGED <<wire, early>>
    /\ UNCHANGED <<status, socket, server, retryIndex, nextStartTimer, chainVars,
                   reports, timers, threadVars>>

\* close() with a queue to send: send() puts every message back, the status being
\* CLOSING, and the loop over the queue does not end.
LoopsForEver == socket # 0 /\ RefreshQueueOnClose /\ queue # <<>>

\* The status and the phases when close() returns: without a socket the transport
\* stays CLOSING, and the timer of the interval is cancelled.
StatusKept == status
StatusClosed == IF socket = 0 THEN "CLOSING" ELSE "CLOSE"
PhasesClosed == [c \in Chains |-> IF c \in {socket, nextStartTimer} THEN "over" ELSE phase[c]]

Hang ==
    /\ hung' = TRUE
    /\ status' = "CLOSING"
    /\ UNCHANGED <<server, chainVars, timers, nextStartTimer>>

Close ==
    /\ "close" \in Calls
    /\ socket' = 0
    /\ IF LoopsForEver
       THEN Hang
       ELSE /\ status' = StatusClosed
            /\ phase' = PhasesClosed
            /\ nextStartTimer' = 0
            /\ UNCHANGED <<server, first, serverIndex, timers, hung>>
    /\ UNCHANGED <<retryIndex, reports, sendVars, callback, caller>>

\* reconnect() does nothing while CONNECTING.
ReconnectCall ==
    /\ "reconnect" \in Calls /\ status # "CONNECTING"
    /\ socket' = 0
    /\ \/ LoopsForEver /\ Hang
       \/ /\ ~LoopsForEver
          /\ nextStartTimer' = 0
          /\ IF StatusClosed = "CLOSING"
             THEN /\ Len(timers) < MaxTimers
                  /\ timers' = Append(timers, Reconnect)
                  /\ status' = "CLOSING" /\ phase' = PhasesClosed
                  /\ UNCHANGED <<server, first, serverIndex>>
             ELSE connect(server, "CLOSE", PhasesClosed) /\ UNCHANGED timers
          /\ UNCHANGED hung
    /\ UNCHANGED <<retryIndex, reports, sendVars, callback, caller>>

\* The oldest timer of one second fires: a flushed socket is closed, or reconnect()
\* goes on; either way the status becomes CLOSE, whatever it was.
TimerFires ==
    /\ timers # <<>>
    /\ timers' = Tail(timers)
    /\ IF Head(timers) = Reconnect
       THEN connect(server, "CLOSE", phase)
       ELSE /\ status' = "CLOSE"
            /\ phase' = [phase EXCEPT ![Head(timers)] = "over"]
            /\ UNCHANGED <<server, first, serverIndex>>
    /\ UNCHANGED <<socket, retryIndex, nextStartTimer, reports, sendVars, threadVars>>

-----------------------------------------------------------------------------
Network == \E c \in Chains : OnOpen(c) \/ OnError(c) \/ OnClose(c)
Timers  == TimerFires \/ \E c \in Chains : OnTimeout(c) \/ NextStart(c)
App     == Connect \/ Send \/ Close \/ ReconnectCall
Return  == OnOpenReturns \/ OnReconnectingReturns

\* No event interrupts a callback.
Idle == ~hung /\ callback = "none"

Next ==
    \/ Idle /\ (Network \/ Timers)
    \/ ~hung /\ (App \/ Return)

Spec == Init /\ [][Next]_vars

(* Timers fire, and a callback returns.  No server has to answer and the    *)
(* application owes nothing.                                                *)
Fairness ==
    /\ WF_vars(Idle /\ TimerFires)
    /\ \A c \in Chains : WF_vars(Idle /\ (OnTimeout(c) \/ NextStart(c)))
    /\ WF_vars(~hung /\ Return)

FairSpec == Spec /\ Fairness

-----------------------------------------------------------------------------
(* Properties.                                                             *)

(* Messages reach the sockets in the order in which they were sent, each at *)
(* most once, and what waits in the queue is younger than all of them: no   *)
(* reconnection and no flush at the end overtakes or repeats one.  Only     *)
(* what onOpen sends overtakes, and it overtakes only what waits for onOpen *)
(* to return.                                                              *)
InOrder ==
    LET all == wire \o queue
    IN  \A i, j \in DOMAIN all :
            i < j => \/ all[i] < all[j]
                     \/ /\ all[i] > all[j]
                        /\ all[i] \in early /\ all[j] \notin early

(* While the status is OPEN, messages go to a socket that this transport    *)
(* opened and has not closed, and none is left behind in the queue once     *)
(* onOpen has returned.                                                     *)
OpenHasItsSocket ==
    status = "OPEN" => /\ socket # 0
                       /\ phase[socket] \in {"open", "lost"}
                       /\ queue = <<>> \/ callback = "onOpen"

Live(c) == phase[c] \in {"attempt", "wait", "open"}

(* A transport that is neither closed nor told to reconnect keeps to one    *)
(* connection: one chain of attempts or one open socket, and no open socket *)
(* is left behind.                                                          *)
OneConnection ==
    /\ \A c, d \in Chains : Live(c) /\ Live(d) => c = d
    /\ \A c \in Chains : phase[c] # "abandoned"

(* The reports of an end that had been reported before.                    *)
Repeats == {r \in Chains \X (2..Reports) : r[2] <= reports[r[1]]}

(* A transport that is neither closed nor told to reconnect leaves no open  *)
(* socket behind when an attempt ends, and has one connection more than     *)
(* it should for every repeated report of an end at most, which it may take *)
(* for the end of the connection it has by then.                            *)
ConnectionsAreAccountedFor ==
    /\ Cardinality({c \in Chains : Live(c)}) <= 1 + Cardinality(Repeats)
    /\ \A c \in Chains : phase[c] # "abandoned"

(* What opens the door to a second connection: a reconnect() whose timer is *)
(* pending, a chain the status no longer tells of, an open socket that is   *)
(* not the transport's, a socket that may report its end again.             *)
Exposed ==
    \/ \E i \in DOMAIN timers : timers[i] = Reconnect
    \/ \E c \in Chains :
          \/ phase[c] \in {"attempt", "wait"} /\ status # "CONNECTING"
          \/ phase[c] = "open" /\ (status # "OPEN" \/ socket # c)
          \/ phase[c] = "lost" /\ reports[c] < Reports

(* A second connection comes about through one of these doors only.         *)
SecondConnectionNeedsADoor ==
    [][(OneConnection /\ ~Exposed) => OneConnection']_vars

(* Connecting comes to an end: the transport is open or says that it failed, *)
(* although no server ever answers.                                         *)
Settles == status = "CONNECTING" ~> status \in {"OPEN", "ERROR", "TIMEOUT"}

(* What was queued while connecting is sent or the failure is reported.     *)
QueueIsServed ==
    (status = "CONNECTING" /\ queue # <<>>) ~> (queue = <<>> \/ status \in {"ERROR", "TIMEOUT"})

(* A transport closed during an attempt ends up CLOSE, the only status from *)
(* which it connects again, when the attempt ends: whatever comes of it, and *)
(* also when the queue was still sent; unless the thread hangs.  (A chain   *)
(* must be left for the reconnect() that may be pending.)                   *)
ClosingEnds ==
    (/\ status = "CLOSING"
     /\ \E c \in Chains : phase[c] = "attempt"
     /\ \E c \in Chains : phase[c] = "unused") ~> (status # "CLOSING" \/ hung)

(* connect(server, proxys): the preferred address is the application's, and *)
(* the proxies are for when it fails.  So every chain begins with it.       *)
PreferredFirst ==
    [][\A c \in Chains :
          phase[c] = "unused" /\ phase'[c] = "attempt" => first'[c] = 0]_vars

=============================================================================
