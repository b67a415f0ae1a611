---------------------------- MODULE TransportProofs ----------------------------
(***************************************************************************)
(* The reconnecting transport, for any options and any bounds.             *)
(***************************************************************************)
EXTENDS Transport, FiniteSetTheorems, TLAPS

USE NumbersAssumption DEF Chains, NoneOrChains

(* The inductive invariant: the types of all but the flag, whose steps the  *)
(* provers handle apart, and the property.                                  *)
DataOK ==
    /\ status \in Statuses
    /\ queue \in Seq(1..MaxSends) /\ wire \in Seq(1..MaxSends)
    /\ socket \in NoneOrChains /\ nextStartTimer \in NoneOrChains
    /\ server \in 0..Proxys
    /\ retryIndex \in Nat
    /\ phase \in [Chains -> Phases]
    /\ first \in [Chains -> 0..Proxys] /\ serverIndex \in [Chains -> 0..Proxys]
    /\ reports \in [Chains -> 0..Reports]
    /\ timers \in Seq(NoneOrChains)
    /\ sends \in 0..MaxSends

IInv == DataOK /\ OpenHasItsSocket

HungOK == hung \in BOOLEAN

\* The callback that runs, the chain it runs for, and what it sent.
ThreadOK ==
    /\ callback \in Callbacks
    /\ caller \in IF callback = "none" THEN {0} ELSE Chains
    /\ early \subseteq 1..MaxSends

\* The flag starts as a truth value.
LEMMA HungInit == Init => HungOK
BY DEF Init, HungOK

\* Every step leaves the flag alone, or raises it.
LEMMA HungNext == HungOK /\ [Next]_vars => HungOK'
<1> SUFFICES ASSUME hung \in BOOLEAN, [Next]_vars
             PROVE  hung' \in BOOLEAN
    BY DEF HungOK
<1>1. CASE UNCHANGED hung
    BY <1>1
<1>2. CASE Hang
    BY <1>2 DEF Hang
<1>3. ASSUME NEW c \in Chains, OnOpen(c) \/ OnError(c) \/ OnTimeout(c) PROVE UNCHANGED hung
    BY <1>3 DEF OnOpen, OnError, OnTimeout, Opened, Failed, Late, EndsClosing, Dropped,
                Enters, threadVars
<1>4. ASSUME NEW c \in Chains, OnClose(c) \/ NextStart(c) PROVE UNCHANGED hung
    BY <1>4 DEF OnClose, NextStart, Enters, threadVars
<1>5. CASE Connect \/ Send \/ TimerFires \/ Return
    <2>1. UNCHANGED hung
        BY <1>5 DEF Connect, Send, TimerFires, Return, OnOpenReturns, OnReconnectingReturns,
                    Returns, threadVars
    <2> QED
        BY <2>1
<1>6. CASE Close \/ ReconnectCall
    <2>1. UNCHANGED hung \/ Hang
        BY <1>6 DEF Close, ReconnectCall
    <2> QED
        BY <1>1, <1>2, <2>1
<1>7. CASE UNCHANGED vars
    BY <1>7 DEF vars, threadVars
<1> QED
    BY <1>1, <1>3, <1>4, <1>5, <1>6, <1>7 DEF Next, Network, Timers, App

\* At first no callback runs.
LEMMA ThreadInit == Init => ThreadOK
BY DEF Init, ThreadOK, Callbacks

\* A callback is entered for a chain and returned from; only send() records.
LEMMA ThreadNext == DataOK /\ ThreadOK /\ [Next]_vars => ThreadOK'
<1> SUFFICES ASSUME DataOK, ThreadOK, [Next]_vars
             PROVE  ThreadOK'
    OBVIOUS
<1>1. CASE UNCHANGED <<callback, caller, early>>
    BY <1>1 DEF ThreadOK
<1>2. ASSUME NEW c \in Chains, Opened(c) PROVE ThreadOK'
    BY <1>2 DEF Opened, Enters, sendVars, ThreadOK, Callbacks
<1>3. ASSUME NEW c \in Chains, NEW result, Failed(c, result) \/ Late(c, result) PROVE ThreadOK'
    <2>1. UNCHANGED <<callback, caller, early>>
        BY <1>3 DEF Failed, Late, EndsClosing, Dropped, sendVars, threadVars
    <2> QED
        BY <1>1, <2>1
<1>4. ASSUME NEW c \in Chains, OnOpen(c) \/ OnError(c) \/ OnTimeout(c) PROVE ThreadOK'
    BY <1>2, <1>3, <1>4 DEF OnOpen, OnError, OnTimeout
<1>5. ASSUME NEW c \in Chains, OnClose(c) PROVE ThreadOK'
    <2>1. \/ Enters("onReconnecting", c) /\ UNCHANGED early
          \/ UNCHANGED <<callback, caller, early>>
        BY <1>5 DEF OnClose, sendVars, threadVars
    <2> QED
        BY <1>1, <2>1 DEF Enters, ThreadOK, Callbacks
<1>6. ASSUME NEW c \in Chains, NextStart(c) PROVE ThreadOK'
    <2>1. UNCHANGED <<callback, caller, early>>
        BY <1>6 DEF NextStart, sendVars, threadVars
    <2> QED
        BY <1>1, <2>1
<1>7. CASE Return
    <2>1. callback' = "none" /\ caller' = 0 /\ early' = early
        BY <1>7 DEF Return, OnOpenReturns, OnReconnectingReturns, Returns, sendVars
    <2> QED
        BY <2>1 DEF ThreadOK, Callbacks
<1>8. CASE Connect \/ TimerFires \/ Close \/ ReconnectCall
    <2>1. UNCHANGED <<callback, caller, early>>
        BY <1>8 DEF Connect, TimerFires, Close, ReconnectCall, sendVars, threadVars
    <2> QED
        BY <1>1, <2>1
<1>9. CASE Send
    <2>1. /\ UNCHANGED <<callback, caller>>
          /\ early' = early \/ early' = early \cup {sends + 1}
        BY <1>9 DEF Send, threadVars
    <2>2. sends + 1 \in 1..MaxSends
        BY <1>9 DEF Send, DataOK
    <2> QED
        BY <2>1, <2>2 DEF ThreadOK
<1>10. CASE UNCHANGED vars
    BY <1>1, <1>10 DEF vars, sendVars, threadVars
<1> QED
    BY <1>4, <1>5, <1>6, <1>7, <1>8, <1>9, <1>10 DEF Next, Network, Timers, App

\* A sequence of elements of a set stays one when an element of it is appended.
LEMMA AppendType ==
    ASSUME NEW S, NEW s \in Seq(S), NEW x \in S
    PROVE  Append(s, x) \in Seq(S)
OBVIOUS

\* And when its first element is taken away.
LEMMA TailType ==
    ASSUME NEW S, NEW s \in Seq(S), s # <<>>
    PROVE  Tail(s) \in Seq(S)
OBVIOUS

\* A new transport satisfies the invariant.
LEMMA InitInv == Init => IInv
<1> SUFFICES ASSUME Init PROVE IInv
    OBVIOUS
<1>1. /\ queue \in Seq(1..MaxSends) /\ wire \in Seq(1..MaxSends)
      /\ timers \in Seq(NoneOrChains)
    BY DEF Init
<1>2. /\ phase \in [Chains -> Phases] /\ reports \in [Chains -> 0..Reports]
      /\ first \in [Chains -> 0..Proxys] /\ serverIndex \in [Chains -> 0..Proxys]
    BY DEF Init, Phases
<1>3. status \in Statuses \ {"OPEN"}
    BY DEF Init, Statuses
<1>4. DataOK
    BY <1>1, <1>2, <1>3 DEF Init, DataOK
<1> QED
    BY <1>3, <1>4 DEF IInv, OpenHasItsSocket

\* The address a chain tries is one of the list.
LEMMA AddressType ==
    ASSUME DataOK, NEW c \in Chains
    PROVE  Address(c) \in 0..Proxys
BY DEF DataOK, Address

\* A handler that calls connect() with sound phases leaves sound ones, and the status
\* it had reached, or CONNECTING.
LEMMA ConnectFacts ==
    ASSUME DataOK, NEW srv \in 0..Proxys, NEW st \in Statuses,
           NEW ph \in [Chains -> Phases], connect(srv, st, ph)
    PROVE  /\ server' \in 0..Proxys
           /\ status' \in Statuses
           /\ phase' \in [Chains -> Phases]
           /\ first' \in [Chains -> 0..Proxys]
           /\ serverIndex' \in [Chains -> 0..Proxys]
           /\ status' = "OPEN" => st = "OPEN" /\ phase' = ph
<1>1. CASE st \in Refused
    BY <1>1 DEF connect, DataOK
<1>2. CASE st \notin Refused
    <2>1. PICK c \in Chains :
              /\ status' = "CONNECTING"
              /\ phase' = [ph EXCEPT ![c] = "attempt"]
              /\ first' = [first EXCEPT ![c] = srv]
              /\ UNCHANGED serverIndex
        BY <1>2 DEF connect
    <2> QED
        BY <2>1 DEF connect, DataOK, Statuses, Phases
<1> QED
    BY <1>1, <1>2

\* connect() keeps the invariant.
LEMMA ConnectInv ==
    ASSUME IInv, Connect
    PROVE  IInv'
<1>1. 0 \in 0..Proxys /\ status \in Statuses /\ phase \in [Chains -> Phases]
    BY DEF IInv, DataOK
<1>2. connect(0, status, phase)
    BY DEF Connect
<1>3. DataOK'
    BY <1>1, <1>2, ConnectFacts DEF Connect, sendVars, IInv, DataOK
<1>4. OpenHasItsSocket'
    BY <1>1, <1>2, ConnectFacts DEF Connect, sendVars, threadVars, IInv, OpenHasItsSocket
<1> QED
    BY <1>3, <1>4 DEF IInv

-----------------------------------------------------------------------------
(* The end of an attempt, and the timer of the interval.                    *)

\* The queue handed to a socket leaves sequences of messages.
LEMMA DrainType ==
    ASSUME DataOK, Drain
    PROVE  queue' = <<>> /\ queue' \in Seq(1..MaxSends) /\ wire' \in Seq(1..MaxSends)
BY DEF Drain, DataOK

\* An attempt that opens keeps the invariant.
LEMMA OpenedInv ==
    ASSUME IInv, NEW c \in Chains, Opened(c)
    PROVE  IInv'
<1>1. DataOK
    BY DEF IInv
<1>2. phase' \in [Chains -> Phases] /\ phase'[c] = "open"
    BY <1>1 DEF Opened, DataOK, Phases
<1>3. DataOK'
    BY <1>1, <1>2 DEF Opened, DataOK, Statuses, sendVars
<1>4. OpenHasItsSocket'
    BY <1>2 DEF Opened, Enters, OpenHasItsSocket
<1> QED
    BY <1>3, <1>4 DEF IInv

\* The return of onOpen keeps the invariant.
LEMMA OnOpenReturnsInv ==
    ASSUME IInv, OnOpenReturns
    PROVE  IInv'
<1>1. DataOK
    BY DEF IInv
<1>2. queue' = <<>> /\ queue' \in Seq(1..MaxSends) /\ wire' \in Seq(1..MaxSends)
    BY <1>1, DrainType DEF OnOpenReturns
<1>3. DataOK'
    BY <1>1, <1>2 DEF OnOpenReturns, DataOK, chainVars
<1>4. OpenHasItsSocket'
    BY <1>2 DEF OnOpenReturns, chainVars, IInv, OpenHasItsSocket
<1> QED
    BY <1>3, <1>4 DEF IInv

\* A failed attempt keeps the invariant.
LEMMA FailedInv ==
    ASSUME IInv, NEW c \in Chains, NEW result \in {"ERROR", "TIMEOUT"}, Failed(c, result)
    PROVE  IInv'
<1>1. DataOK
    BY DEF IInv
<1>2. retryIndex' \in Nat
    BY <1>1 DEF Failed, Counted, DataOK
<1>3. /\ status' \in Statuses \ {"OPEN"}
      /\ phase' \in [Chains -> Phases]
      /\ serverIndex' \in [Chains -> 0..Proxys]
      /\ nextStartTimer' \in NoneOrChains
    <2>1. CASE NextEnd(c, 0) \/ (~LastServer(c) /\ NextEnd(c, serverIndex[c] + 1))
        <3>1. PICK i \in 0..Proxys : NextEnd(c, i)
            BY <1>1, <2>1 DEF LastServer, DataOK
        <3>2. status' = "CONNECTING"
            BY <3>1 DEF NextEnd, Failed
        <3>3. phase' \in [Chains -> Phases]
            <4>1. PICK p \in Phases : phase' = [phase EXCEPT ![c] = p]
                BY <3>1 DEF NextEnd, Phases
            <4> QED
                BY <1>1, <4>1 DEF DataOK
        <3>4. serverIndex' \in [Chains -> 0..Proxys]
            BY <1>1, <3>1 DEF NextEnd, DataOK
        <3>5. nextStartTimer' \in NoneOrChains
            BY <3>1 DEF NextEnd
        <3> QED
            BY <3>2, <3>3, <3>4, <3>5 DEF Statuses
    <2>2. CASE GivesUp(c, result)
        <3>1. phase' \in [Chains -> Phases]
            BY <1>1, <2>2 DEF GivesUp, DataOK, Phases
        <3> QED
            BY <1>1, <2>2, <3>1 DEF GivesUp, DataOK, Statuses
    <2> QED
        BY <2>1, <2>2 DEF Failed
<1>4. DataOK'
    <2>1. UNCHANGED <<socket, server, first, reports, timers, queue, wire, sends>>
        BY DEF Failed, sendVars
    <2> QED
        BY <1>1, <1>2, <1>3, <2>1 DEF DataOK
<1>5. OpenHasItsSocket'
    BY <1>3 DEF OpenHasItsSocket
<1> QED
    BY <1>4, <1>5 DEF IInv

\* An attempt that ends when it is no longer waited for keeps the invariant.
LEMMA LateInv ==
    ASSUME IInv, NEW c \in Chains, NEW result, Late(c, result)
    PROVE  IInv'
<1>1. DataOK
    BY DEF IInv
<1>2. CASE EndsClosing(c, result)
    <2>1. CASE SendsFirst(result)
        <3>1. queue' = <<>> /\ queue' \in Seq(1..MaxSends) /\ wire' \in Seq(1..MaxSends)
            BY <1>1, <1>2, <2>1, DrainType DEF EndsClosing
        <3>2. timers' \in Seq(NoneOrChains)
            <4>1. timers' = Append(timers, c)
                BY <1>2, <2>1 DEF EndsClosing
            <4>2. timers \in Seq(NoneOrChains) /\ c \in NoneOrChains
                BY <1>1 DEF DataOK
            <4> QED
                BY <4>1, <4>2, AppendType
        <3>3. phase' \in [Chains -> Phases]
            BY <1>1, <1>2, <2>1 DEF EndsClosing, DataOK, Phases
        <3>4. DataOK'
            BY <1>1, <1>2, <2>1, <3>1, <3>2, <3>3 DEF EndsClosing, DataOK
        <3>5. OpenHasItsSocket'
            BY <1>2, <2>1 DEF EndsClosing, OpenHasItsSocket
        <3> QED
            BY <3>4, <3>5 DEF IInv
    <2>2. CASE ~SendsFirst(result)
        <3>1. /\ status' = "CLOSE" /\ phase' = [phase EXCEPT ![c] = "over"]
              /\ UNCHANGED <<socket, server, retryIndex, nextStartTimer, first,
                             serverIndex, reports, timers, queue, wire, sends>>
            BY <1>2, <2>2 DEF EndsClosing
        <3>2. status' \in Statuses /\ "over" \in Phases
            BY <3>1 DEF Statuses, Phases
        <3>3. phase' \in [Chains -> Phases]
            BY <1>1, <3>1, <3>2 DEF DataOK
        <3>4. DataOK'
            BY <1>1, <3>1, <3>2, <3>3 DEF DataOK
        <3>5. OpenHasItsSocket'
            BY <3>1 DEF OpenHasItsSocket
        <3> QED
            BY <3>4, <3>5 DEF IInv
    <2> QED
        BY <2>1, <2>2
<1>3. CASE Dropped(c, result)
    <2>1. /\ phase[c] = "attempt" /\ phase' \in [Chains -> Phases]
          /\ \A d \in Chains : d # c => phase'[d] = phase[d]
        BY <1>1, <1>3 DEF Dropped, DataOK, Phases
    <2>2. UNCHANGED <<status, socket, server, retryIndex, nextStartTimer, first,
                      serverIndex, reports, timers, queue, wire, sends, callback>>
        BY <1>3 DEF Dropped, sendVars, threadVars
    <2>3. DataOK'
        BY <1>1, <2>1, <2>2 DEF DataOK
    <2>4. OpenHasItsSocket'
        <3> SUFFICES ASSUME status = "OPEN"
                     PROVE  /\ socket # 0 /\ phase'[socket] \in {"open", "lost"}
                            /\ queue = <<>> \/ callback = "onOpen"
            BY <2>2 DEF OpenHasItsSocket
        <3>1. /\ socket # 0 /\ phase[socket] \in {"open", "lost"}
              /\ queue = <<>> \/ callback = "onOpen"
            BY DEF IInv, OpenHasItsSocket
        <3>2. socket # c
            BY <2>1, <3>1
        <3>3. socket \in Chains
            BY <1>1, <3>1 DEF DataOK
        <3> QED
            BY <2>1, <3>1, <3>2, <3>3
    <2> QED
        BY <2>3, <2>4 DEF IInv
<1> QED
    BY <1>2, <1>3 DEF Late

\* The timer of the interval keeps the invariant.
LEMMA NextStartInv ==
    ASSUME IInv, NEW c \in Chains, NextStart(c)
    PROVE  IInv'
<1>1. DataOK
    BY DEF IInv
<1>2. status' \in Statuses /\ phase' \in [Chains -> Phases]
    BY <1>1 DEF NextStart, DataOK, Phases, Statuses
<1>3. DataOK'
    <2>1. /\ nextStartTimer' \in NoneOrChains
          /\ UNCHANGED <<socket, server, retryIndex, first, serverIndex, reports, timers,
                         queue, wire, sends>>
        BY DEF NextStart, sendVars
    <2> QED
        BY <1>1, <1>2, <2>1 DEF DataOK
<1>4. OpenHasItsSocket'
    <2> SUFFICES ASSUME status' = "OPEN"
                 PROVE  /\ socket' # 0 /\ phase'[socket'] \in {"open", "lost"}
                        /\ queue' = <<>> \/ callback' = "onOpen"
        BY DEF OpenHasItsSocket
    <2>1. status = "OPEN"
        BY DEF NextStart
    <2>2. /\ socket # 0 /\ phase[socket] \in {"open", "lost"}
          /\ queue = <<>> \/ callback = "onOpen"
        BY <2>1 DEF IInv, OpenHasItsSocket
    <2>3. socket \in Chains /\ phase \in [Chains -> Phases]
        BY <1>1, <2>2 DEF DataOK
    <2> QED
        BY <2>2, <2>3 DEF NextStart, sendVars, threadVars
<1> QED
    BY <1>3, <1>4 DEF IInv

-----------------------------------------------------------------------------
(* The socket, the calls, and the timers of one second.                     *)

\* A socket that reports its end keeps the invariant.
LEMMA OnCloseInv ==
    ASSUME IInv, NEW c \in Chains, OnClose(c)
    PROVE  IInv'
<1>1. DataOK
    BY DEF IInv
<1>2. phase' = [phase EXCEPT ![c] = "lost"] /\ phase' \in [Chains -> Phases]
    BY <1>1 DEF OnClose, DataOK, Phases
<1>3. reports' \in [Chains -> 0..Reports]
    <2>1. reports' = [reports EXCEPT ![c] = @ + 1] /\ reports[c] < Reports
        BY DEF OnClose
    <2>2. reports \in [Chains -> 0..Reports]
        BY <1>1 DEF DataOK
    <2> QED
        BY <2>1, <2>2
<1>4. UNCHANGED <<socket, server, retryIndex, nextStartTimer, first, serverIndex, timers,
                  queue, wire, sends>>
    BY DEF OnClose, sendVars
<1>5. status' = "NONE" \/ UNCHANGED <<status, callback>>
    BY DEF OnClose, threadVars
<1>6. DataOK'
    BY <1>1, <1>2, <1>3, <1>4, <1>5 DEF DataOK, Statuses
<1>7. OpenHasItsSocket'
    BY <1>1, <1>2, <1>4, <1>5 DEF IInv, DataOK, OpenHasItsSocket
<1> QED
    BY <1>6, <1>7 DEF IInv

\* The return of onReconnecting keeps the invariant.
LEMMA OnReconnectingReturnsInv ==
    ASSUME IInv, ThreadOK, OnReconnectingReturns
    PROVE  IInv'
<1>1. DataOK
    BY DEF IInv
<1>2. callback = "onReconnecting" /\ caller \in Chains
    BY DEF OnReconnectingReturns, Returns, ThreadOK
<1>3. connect(ReconnectTo(caller), status, phase)
    BY DEF OnReconnectingReturns
<1>4. ReconnectTo(caller) \in 0..Proxys
    BY <1>1, <1>2, AddressType DEF ReconnectTo
<1>5. status \in Statuses /\ phase \in [Chains -> Phases]
    BY <1>1 DEF DataOK
<1>6. /\ server' \in 0..Proxys
      /\ status' \in Statuses
      /\ phase' \in [Chains -> Phases]
      /\ first' \in [Chains -> 0..Proxys]
      /\ serverIndex' \in [Chains -> 0..Proxys]
      /\ status' = "OPEN" => status = "OPEN" /\ phase' = phase
    BY <1>1, <1>3, <1>4, <1>5, ConnectFacts
<1>7. UNCHANGED <<socket, retryIndex, nextStartTimer, reports, timers, queue, wire, sends>>
    BY DEF OnReconnectingReturns, sendVars
<1>8. DataOK'
    BY <1>1, <1>6, <1>7 DEF DataOK
<1>9. OpenHasItsSocket'
    BY <1>2, <1>6, <1>7 DEF IInv, OpenHasItsSocket
<1> QED
    BY <1>8, <1>9 DEF IInv

\* send() keeps the invariant.
LEMMA SendInv ==
    ASSUME IInv, Send
    PROVE  IInv'
<1>1. DataOK
    BY DEF IInv
<1>2. sends' \in 0..MaxSends /\ sends + 1 \in 1..MaxSends
    BY <1>1 DEF Send, DataOK
<1>3. queue \in Seq(1..MaxSends) /\ wire \in Seq(1..MaxSends)
    BY <1>1 DEF DataOK
<1>4. queue' \in Seq(1..MaxSends) /\ wire' \in Seq(1..MaxSends)
    <2>1. CASE status = "OPEN"
        <3>1. wire' = Append(wire, sends + 1) /\ queue' = queue
            BY <2>1 DEF Send
        <3> QED
            BY <1>2, <1>3, <3>1, AppendType
    <2>2. CASE status # "OPEN"
        <3>1. wire' = wire /\ queue' = Queued(sends + 1)
            BY <2>2 DEF Send
        <3>2. CASE QueueMax > 0 /\ Len(queue) = QueueMax
            <4>1. queue # <<>>
                BY <3>2
            <4>2. Tail(queue) \in Seq(1..MaxSends)
                BY <1>3, <4>1, TailType
            <4>3. queue' = Append(Tail(queue), sends + 1)
                BY <3>1, <3>2 DEF Queued
            <4> QED
                BY <1>2, <1>3, <3>1, <4>2, <4>3, AppendType
        <3>3. CASE ~(QueueMax > 0 /\ Len(queue) = QueueMax)
            <4>1. queue' = Append(queue, sends + 1)
                BY <3>1, <3>3 DEF Queued
            <4> QED
                BY <1>2, <1>3, <3>1, <4>1, AppendType
        <3> QED
            BY <3>2, <3>3
    <2> QED
        BY <2>1, <2>2
<1>5. DataOK'
    BY <1>1, <1>2, <1>4 DEF Send, chainVars, DataOK
<1>6. OpenHasItsSocket'
    BY DEF Send, chainVars, threadVars, IInv, OpenHasItsSocket
<1> QED
    BY <1>5, <1>6 DEF IInv

\* What close() leaves of the phases and the status.
LEMMA ClosedType ==
    ASSUME DataOK
    PROVE  /\ PhasesClosed \in [Chains -> Phases]
           /\ StatusClosed \in {"CLOSING", "CLOSE"}
BY DEF DataOK, PhasesClosed, StatusClosed, Phases

\* A call of close() or reconnect() that never returns keeps the invariant.
LEMMA HangInv ==
    ASSUME IInv, Hang, socket' = 0, UNCHANGED <<retryIndex, reports, sendVars>>
    PROVE  IInv'
<1>1. status' = "CLOSING" /\ UNCHANGED <<server, phase, first, serverIndex, timers, nextStartTimer>>
    BY DEF Hang, chainVars
<1>2. "CLOSING" \in Statuses /\ 0 \in NoneOrChains
    BY DEF Statuses
<1>3. UNCHANGED <<queue, wire, sends>>
    BY DEF sendVars
<1>4. DataOK'
    BY <1>1, <1>2, <1>3 DEF IInv, DataOK
<1>5. OpenHasItsSocket'
    BY <1>1 DEF OpenHasItsSocket
<1> QED
    BY <1>4, <1>5 DEF IInv

\* close() keeps the invariant.
LEMMA CloseInv ==
    ASSUME IInv, Close
    PROVE  IInv'
<1>1. CASE LoopsForEver
    BY <1>1, HangInv DEF Close
<1>2. CASE ~LoopsForEver
    <2>1. /\ status' = StatusClosed /\ phase' = PhasesClosed
          /\ socket' = 0 /\ nextStartTimer' = 0
          /\ UNCHANGED <<server, first, serverIndex, timers, retryIndex, reports, sendVars>>
        BY <1>2 DEF Close
    <2>2. DataOK
        BY DEF IInv
    <2>3. phase' \in [Chains -> Phases] /\ status' \in Statuses \ {"OPEN"}
        BY <2>1, <2>2, ClosedType DEF Statuses
    <2>4. /\ socket' \in NoneOrChains /\ nextStartTimer' \in NoneOrChains
          /\ UNCHANGED <<server, first, serverIndex, timers, retryIndex, reports,
                         queue, wire, sends>>
        BY <2>1 DEF sendVars
    <2>5. DataOK'
        BY <2>2, <2>3, <2>4 DEF DataOK
    <2>6. OpenHasItsSocket'
        BY <2>3 DEF OpenHasItsSocket
    <2> QED
        BY <2>5, <2>6 DEF IInv
<1> QED
    BY <1>1, <1>2

\* reconnect() keeps the invariant.
LEMMA ReconnectInv ==
    ASSUME IInv, ReconnectCall
    PROVE  IInv'
<1>1. DataOK
    BY DEF IInv
<1>2. CASE LoopsForEver
    BY <1>2, HangInv DEF ReconnectCall
<1>3. CASE ~LoopsForEver /\ StatusClosed = "CLOSING"
    <2>1. /\ timers' = Append(timers, Reconnect)
          /\ status' = "CLOSING" /\ phase' = PhasesClosed
          /\ socket' = 0 /\ nextStartTimer' = 0
          /\ UNCHANGED <<server, first, serverIndex, retryIndex, reports, sendVars>>
        BY <1>3 DEF ReconnectCall
    <2>2. timers \in Seq(NoneOrChains) /\ Reconnect \in NoneOrChains
        BY <1>1 DEF DataOK, Reconnect
    <2>3. timers' \in Seq(NoneOrChains)
        BY <2>1, <2>2, AppendType
    <2>4. phase' \in [Chains -> Phases] /\ status' \in Statuses \ {"OPEN"}
        BY <1>1, <2>1, ClosedType DEF Statuses
    <2>5. /\ socket' \in NoneOrChains /\ nextStartTimer' \in NoneOrChains
          /\ UNCHANGED <<server, first, serverIndex, retryIndex, reports, queue, wire, sends>>
        BY <2>1 DEF sendVars
    <2>6. DataOK'
        BY <1>1, <2>3, <2>4, <2>5 DEF DataOK
    <2>7. OpenHasItsSocket'
        BY <2>4 DEF OpenHasItsSocket
    <2> QED
        BY <2>6, <2>7 DEF IInv
<1>4. CASE ~LoopsForEver /\ StatusClosed # "CLOSING"
    <2>1. connect(server, "CLOSE", PhasesClosed)
        BY <1>4 DEF ReconnectCall
    <2>2. server \in 0..Proxys /\ "CLOSE" \in Statuses
        BY <1>1 DEF DataOK, Statuses
    <2>3. /\ server' \in 0..Proxys
          /\ status' \in Statuses /\ status' # "OPEN"
          /\ phase' \in [Chains -> Phases]
          /\ first' \in [Chains -> 0..Proxys]
          /\ serverIndex' \in [Chains -> 0..Proxys]
        BY <1>1, <2>1, <2>2, ClosedType, ConnectFacts
    <2> QED
        <3>1. /\ socket' = 0 /\ nextStartTimer' = 0
              /\ UNCHANGED <<timers, retryIndex, reports, sendVars>>
            BY <1>4 DEF ReconnectCall
        <3>2. /\ socket' \in NoneOrChains /\ nextStartTimer' \in NoneOrChains
              /\ UNCHANGED <<timers, retryIndex, reports, queue, wire, sends>>
            BY <3>1 DEF sendVars
        <3>3. DataOK'
            BY <1>1, <2>3, <3>2 DEF DataOK
        <3>4. OpenHasItsSocket'
            BY <2>3 DEF OpenHasItsSocket
        <3> QED
            BY <3>3, <3>4 DEF IInv
<1> QED
    BY <1>2, <1>3, <1>4

\* A timer of one second keeps the invariant.
LEMMA TimerFiresInv ==
    ASSUME IInv, TimerFires
    PROVE  IInv'
<1>1. DataOK
    BY DEF IInv
<1>2. timers' \in Seq(NoneOrChains) /\ Head(timers) \in NoneOrChains
    <2>1. timers \in Seq(NoneOrChains) /\ timers # <<>> /\ timers' = Tail(timers)
        BY <1>1 DEF TimerFires, DataOK
    <2> QED
        BY <2>1, TailType
<1>3. UNCHANGED <<socket, retryIndex, nextStartTimer, reports, queue, wire, sends>>
    BY DEF TimerFires, sendVars
<1>4. CASE Head(timers) = Reconnect
    <2>1. connect(server, "CLOSE", phase)
        BY <1>4 DEF TimerFires
    <2>2. server \in 0..Proxys /\ "CLOSE" \in Statuses /\ phase \in [Chains -> Phases]
        BY <1>1 DEF DataOK, Statuses
    <2>3. /\ server' \in 0..Proxys
          /\ status' \in Statuses /\ status' # "OPEN"
          /\ phase' \in [Chains -> Phases]
          /\ first' \in [Chains -> 0..Proxys]
          /\ serverIndex' \in [Chains -> 0..Proxys]
        BY <1>1, <2>1, <2>2, ConnectFacts
    <2>4. DataOK'
        BY <1>1, <1>2, <1>3, <2>3 DEF DataOK
    <2>5. OpenHasItsSocket'
        BY <2>3 DEF OpenHasItsSocket
    <2> QED
        BY <2>4, <2>5 DEF IInv
<1>5. CASE Head(timers) # Reconnect
    <2>1. /\ status' = "CLOSE" /\ phase' = [phase EXCEPT ![Head(timers)] = "over"]
          /\ UNCHANGED <<server, first, serverIndex>>
        BY <1>5 DEF TimerFires
    <2>2. status' \in Statuses /\ "over" \in Phases
        BY <2>1 DEF Statuses, Phases
    <2>3. phase' \in [Chains -> Phases]
        BY <1>1, <2>1, <2>2 DEF DataOK
    <2>4. DataOK'
        BY <1>1, <1>2, <1>3, <2>1, <2>2, <2>3 DEF DataOK
    <2>5. OpenHasItsSocket'
        BY <2>1 DEF OpenHasItsSocket
    <2> QED
        BY <2>4, <2>5 DEF IInv
<1> QED
    BY <1>4, <1>5

-----------------------------------------------------------------------------
\* Every step keeps the invariant.
LEMMA NextInv == IInv /\ ThreadOK /\ [Next]_vars => IInv'
<1> SUFFICES ASSUME IInv, ThreadOK, [Next]_vars
             PROVE  IInv'
    OBVIOUS
<1>1. ASSUME NEW c \in Chains, OnOpen(c) PROVE IInv'
    BY <1>1, OpenedInv, LateInv DEF OnOpen
<1>2. ASSUME NEW c \in Chains, OnError(c) PROVE IInv'
    BY <1>2, FailedInv, LateInv DEF OnError
<1>3. ASSUME NEW c \in Chains, OnTimeout(c) PROVE IInv'
    BY <1>3, FailedInv, LateInv DEF OnTimeout
<1>4. ASSUME NEW c \in Chains, OnClose(c) PROVE IInv'
    BY <1>4, OnCloseInv
<1>5. ASSUME NEW c \in Chains, NextStart(c) PROVE IInv'
    BY <1>5, NextStartInv
<1>6. CASE Connect \/ Send \/ Close \/ ReconnectCall \/ TimerFires
    BY <1>6, ConnectInv, SendInv, CloseInv, ReconnectInv, TimerFiresInv
<1>7. CASE Return
    BY <1>7, OnOpenReturnsInv, OnReconnectingReturnsInv DEF Return
<1>8. CASE UNCHANGED vars
    BY <1>8 DEF vars, chainVars, sendVars, threadVars, IInv, DataOK, OpenHasItsSocket
<1> QED
    BY <1>1, <1>2, <1>3, <1>4, <1>5, <1>6, <1>7, <1>8 DEF Next, Network, Timers, App

\* What every reachable state of a transport satisfies.
LEMMA Invariant == Spec => [](IInv /\ ThreadOK)
<1>1. IInv => DataOK
    BY DEF IInv
<1> QED
    BY <1>1, InitInv, NextInv, ThreadInit, ThreadNext, PTL DEF Spec

(* Every variable of a transport stays in its set: no server index leaves   *)
(* the list, no timer is of a chain that does not exist.                    *)
THEOREM TypeCorrect == Spec => []TypeOK
<1>1. IInv /\ ThreadOK /\ HungOK => TypeOK
    BY Zenon DEF IInv, DataOK, ThreadOK, HungOK, TypeOK
<1> QED
    BY <1>1, Invariant, HungInit, HungNext, PTL DEF Spec

(* A transport whose status is OPEN has a socket that it has not closed, and *)
(* an empty queue once onOpen has returned, whatever is called, also from   *)
(* the callbacks, and whichever timers fire.                                *)
THEOREM OpenTransportsHaveTheirSocket == Spec => []OpenHasItsSocket
<1>1. IInv => OpenHasItsSocket
    BY DEF IInv
<1> QED
    BY <1>1, Invariant, PTL

-----------------------------------------------------------------------------
(* The order of the messages.                                               *)

\* m may come before n: it was sent before, or from onOpen while n waited.
May(E, m, n)     == m < n \/ (m > n /\ m \in E /\ n \notin E)
Sorted(E, s)     == \A i, j \in DOMAIN s : i < j => May(E, s[i], s[j])
Across(E, s, t)  == \A i \in DOMAIN s : \A j \in DOMAIN t : May(E, s[i], t[j])
AtMost(s, n)     == \A i \in DOMAIN s : s[i] <= n
Apart(E, s)      == \A i \in DOMAIN s : s[i] \notin E

(* What was handed to a socket may come before what waits, what waits was   *)
(* not sent early, and nothing has a number that was not given yet.         *)
OrderInv ==
    /\ Sorted(early, wire) /\ Sorted(early, queue) /\ Across(early, wire, queue)
    /\ Apart(early, queue)
    /\ AtMost(wire, sends) /\ AtMost(queue, sends) /\ early \subseteq 0..sends

\* One sorted sequence after another that may all come before it is sorted.
LEMMA SortedConcat ==
    ASSUME NEW E, NEW s \in Seq(Nat), NEW t \in Seq(Nat),
           Sorted(E, s), Sorted(E, t), Across(E, s, t)
    PROVE  Sorted(E, s \o t)
<1>1. /\ Len(s) \in Nat /\ DOMAIN s = 1..Len(s)
      /\ Len(t) \in Nat /\ DOMAIN t = 1..Len(t)
      /\ DOMAIN (s \o t) = 1..(Len(s) + Len(t))
      /\ \A k \in DOMAIN (s \o t) : (s \o t)[k] = IF k <= Len(s) THEN s[k] ELSE t[k - Len(s)]
    OBVIOUS
<1> SUFFICES ASSUME NEW i \in DOMAIN (s \o t), NEW j \in DOMAIN (s \o t), i < j
             PROVE  May(E, (s \o t)[i], (s \o t)[j])
    BY DEF Sorted
<1>2. i \in Nat /\ j \in Nat
    BY <1>1
<1>3. CASE j <= Len(s)
    <2>1. i \in DOMAIN s /\ j \in DOMAIN s
        BY <1>1, <1>2, <1>3
    <2>2. May(E, s[i], s[j])
        BY <2>1 DEF Sorted
    <2> QED
        BY <1>1, <1>2, <1>3, <2>2
<1>4. CASE i <= Len(s) /\ Len(s) < j
    <2>1. i \in DOMAIN s /\ j - Len(s) \in DOMAIN t
        BY <1>1, <1>2, <1>4
    <2>2. May(E, s[i], t[j - Len(s)])
        BY <2>1 DEF Across
    <2> QED
        BY <1>1, <1>2, <1>4, <2>2
<1>5. CASE Len(s) < i
    <2>1. i - Len(s) \in DOMAIN t /\ j - Len(s) \in DOMAIN t /\ i - Len(s) < j - Len(s)
        BY <1>1, <1>2, <1>5
    <2>2. May(E, t[i - Len(s)], t[j - Len(s)])
        BY <2>1 DEF Sorted
    <2> QED
        BY <1>1, <1>2, <1>5, <2>2
<1> QED
    BY <1>1, <1>2, <1>3, <1>4, <1>5

\* A number above all keeps a sequence sorted, and raises its bound.
LEMMA SortedAppend ==
    ASSUME NEW E, NEW s \in Seq(Nat), NEW n \in Nat, Sorted(E, s), AtMost(s, n)
    PROVE  Sorted(E, Append(s, n + 1)) /\ AtMost(Append(s, n + 1), n + 1)
BY DEF Sorted, AtMost, May

\* Where a sequence has no number above n, marking n + 1 as early changes nothing.
LEMMA SortedMark ==
    ASSUME NEW E, NEW s \in Seq(Nat), NEW n \in Nat, Sorted(E, s), AtMost(s, n)
    PROVE  Sorted(E \cup {n + 1}, s)
BY DEF Sorted, AtMost, May

\* The sequence without its first element: an element of it, one place further up.
LEMMA TailElements ==
    ASSUME NEW s \in Seq(Nat), s # <<>>
    PROVE  /\ Tail(s) \in Seq(Nat) /\ DOMAIN Tail(s) = 1..(Len(s) - 1)
           /\ \A i \in DOMAIN Tail(s) : i + 1 \in DOMAIN s /\ Tail(s)[i] = s[i + 1]
OBVIOUS

\* A new transport has sent nothing.
LEMMA OrderInit == Init => OrderInv
BY DEF Init, OrderInv, Sorted, Across, Apart, AtMost

\* A queue handed to a socket as a whole keeps the order.
LEMMA DrainOrder ==
    ASSUME IInv, OrderInv, Drain, UNCHANGED <<sends, early>>
    PROVE  OrderInv'
<1>1. wire \in Seq(Nat) /\ queue \in Seq(Nat) /\ sends \in Nat
    BY DEF IInv, DataOK
<1>2. wire' = wire \o queue /\ queue' = <<>>
    BY DEF Drain
<1>3. Sorted(early, wire')
    BY <1>1, <1>2, SortedConcat DEF OrderInv
<1>4. AtMost(wire', sends)
    BY <1>1, <1>2 DEF OrderInv, AtMost
<1> QED
    BY <1>2, <1>3, <1>4 DEF OrderInv, Sorted, Across, Apart, AtMost

\* send() gives the next number: to the queue, or to the socket, when nothing waits or
\* onOpen runs.
LEMMA SendOrder ==
    ASSUME IInv, OrderInv, Send
    PROVE  OrderInv'
<1>1. wire \in Seq(Nat) /\ queue \in Seq(Nat) /\ sends \in Nat /\ sends' = sends + 1
    BY DEF IInv, DataOK, Send
<1>2. CASE status = "OPEN" /\ callback # "onOpen"
    <2>1. wire' = Append(wire, sends + 1) /\ queue = <<>> /\ queue' = <<>> /\ early' = early
        BY <1>2 DEF Send, IInv, OpenHasItsSocket
    <2>2. Sorted(early', wire') /\ AtMost(wire', sends')
        BY <1>1, <2>1, SortedAppend DEF OrderInv
    <2>3. early' \subseteq 0..sends'
        BY <1>1, <2>1 DEF OrderInv
    <2> QED
        BY <2>1, <2>2, <2>3 DEF OrderInv, Sorted, Across, Apart, AtMost
<1>3. CASE status = "OPEN" /\ callback = "onOpen"
    <2>1. /\ wire' = Append(wire, sends + 1) /\ queue' = queue
          /\ early' = early \cup {sends + 1}
        BY <1>3 DEF Send
    <2>2. Sorted(early', wire) /\ Sorted(early', queue)
        BY <1>1, <2>1, SortedMark DEF OrderInv
    <2>3. Sorted(early', wire') /\ AtMost(wire', sends')
        BY <1>1, <2>1, <2>2, SortedAppend DEF OrderInv
    <2>4. Apart(early', queue') /\ AtMost(queue', sends') /\ early' \subseteq 0..sends'
        BY <1>1, <2>1 DEF OrderInv, Apart, AtMost
    <2>5. Across(early', wire', queue')
        <3> SUFFICES ASSUME NEW i \in DOMAIN wire', NEW j \in DOMAIN queue
                     PROVE  May(early', wire'[i], queue[j])
            BY <2>1 DEF Across
        <3>1. queue[j] \in Nat /\ queue[j] <= sends /\ queue[j] \notin early'
            BY <1>1, <2>1, <2>4 DEF OrderInv, AtMost, Apart
        <3>2. CASE i = Len(wire) + 1
            BY <1>1, <2>1, <3>1, <3>2 DEF May
        <3>3. CASE i # Len(wire) + 1
            <4>1. i \in DOMAIN wire /\ wire'[i] = wire[i]
                BY <1>1, <2>1, <3>3
            <4>2. May(early, wire[i], queue[j])
                BY <4>1 DEF OrderInv, Across
            <4> QED
                BY <2>1, <3>1, <4>1, <4>2 DEF May
        <3> QED
            BY <3>2, <3>3
    <2> QED
        BY <2>1, <2>2, <2>3, <2>4, <2>5 DEF OrderInv
<1>4. CASE status # "OPEN"
    <2> DEFINE kept == IF QueueMax > 0 /\ Len(queue) = QueueMax THEN Tail(queue) ELSE queue
    <2>1. wire' = wire /\ queue' = Append(kept, sends + 1) /\ early' = early
        BY <1>4 DEF Send, Queued
    <2>2. /\ kept \in Seq(Nat)
          /\ \/ kept = queue
             \/ \A i \in DOMAIN kept : i + 1 \in DOMAIN queue /\ kept[i] = queue[i + 1]
        <3>1. CASE QueueMax > 0 /\ Len(queue) = QueueMax
            <4>1. queue # <<>>
                BY <3>1
            <4> QED
                BY <1>1, <3>1, <4>1, TailElements
        <3>2. CASE ~(QueueMax > 0 /\ Len(queue) = QueueMax)
            BY <1>1, <3>2
        <3> QED
            BY <3>1, <3>2
    <2> HIDE DEF kept
    <2>3. Sorted(early, kept) /\ AtMost(kept, sends) /\ Across(early, wire, kept) /\ Apart(early, kept)
        <3>1. CASE kept = queue
            BY <3>1 DEF OrderInv
        <3>2. CASE \A i \in DOMAIN kept : i + 1 \in DOMAIN queue /\ kept[i] = queue[i + 1]
            BY <1>1, <2>2, <3>2 DEF OrderInv, Sorted, AtMost, Across, Apart
        <3> QED
            BY <2>2, <3>1, <3>2
    <2>4. Sorted(early, queue') /\ AtMost(queue', sends')
        BY <1>1, <2>1, <2>2, <2>3, SortedAppend
    <2>5. ASSUME NEW j \in DOMAIN queue'
          PROVE  queue'[j] = sends + 1 \/ (j \in DOMAIN kept /\ queue'[j] = kept[j])
        BY <2>1, <2>2
    <2>6. Across(early, wire', queue')
        <3> SUFFICES ASSUME NEW i \in DOMAIN wire, NEW j \in DOMAIN queue'
                     PROVE  May(early, wire[i], queue'[j])
            BY <2>1 DEF Across
        <3>1. CASE queue'[j] = sends + 1
            BY <1>1, <3>1 DEF OrderInv, AtMost, May
        <3>2. CASE j \in DOMAIN kept /\ queue'[j] = kept[j]
            BY <2>3, <3>2 DEF Across
        <3> QED
            BY <2>5, <3>1, <3>2
    <2>7. Apart(early, queue')
        BY <1>1, <2>3, <2>5 DEF Apart, OrderInv
    <2>8. AtMost(wire', sends') /\ early \subseteq 0..sends'
        BY <1>1, <2>1 DEF OrderInv, AtMost
    <2> QED
        BY <2>1, <2>4, <2>6, <2>7, <2>8 DEF OrderInv
<1> QED
    BY <1>2, <1>3, <1>4

\* Every step keeps the order: it sends, it hands over the whole queue, or it touches
\* no message.
LEMMA OrderNext == IInv /\ OrderInv /\ [Next]_vars => OrderInv'
<1> SUFFICES ASSUME IInv, OrderInv, [Next]_vars
             PROVE  OrderInv'
    OBVIOUS
<1>1. CASE UNCHANGED sendVars
    BY <1>1 DEF sendVars, OrderInv, Sorted, Across, Apart, AtMost
<1>2. ASSUME NEW c \in Chains, Opened(c) PROVE OrderInv'
    BY <1>1, <1>2 DEF Opened
<1>3. ASSUME NEW c \in Chains, NEW result, Failed(c, result) PROVE OrderInv'
    BY <1>1, <1>3 DEF Failed
<1>4. ASSUME NEW c \in Chains, NEW result, Late(c, result) PROVE OrderInv'
    <2>1. CASE EndsClosing(c, result)
        <3>1. (Drain \/ UNCHANGED <<queue, wire>>) /\ UNCHANGED <<sends, early>>
            BY <2>1 DEF EndsClosing
        <3> QED
            BY <1>1, <3>1, DrainOrder DEF sendVars
    <2>2. CASE Dropped(c, result)
        BY <1>1, <2>2 DEF Dropped
    <2> QED
        BY <1>4, <2>1, <2>2 DEF Late
<1>5. ASSUME NEW c \in Chains, OnOpen(c) \/ OnError(c) \/ OnTimeout(c) PROVE OrderInv'
    BY <1>2, <1>3, <1>4, <1>5 DEF OnOpen, OnError, OnTimeout
<1>6. ASSUME NEW c \in Chains, OnClose(c) \/ NextStart(c) PROVE OrderInv'
    BY <1>1, <1>6 DEF OnClose, NextStart
<1>7. CASE Connect \/ Close \/ ReconnectCall \/ TimerFires \/ OnReconnectingReturns
    BY <1>1, <1>7 DEF Connect, Close, ReconnectCall, TimerFires, OnReconnectingReturns
<1>8. CASE OnOpenReturns
    BY <1>8, DrainOrder DEF OnOpenReturns
<1>9. CASE Send
    BY <1>9, SendOrder
<1>10. CASE UNCHANGED vars
    BY <1>1, <1>10 DEF vars
<1> QED
    BY <1>5, <1>6, <1>7, <1>8, <1>9, <1>10 DEF Next, Network, Timers, App, Return

(* Whatever is called, also from the callbacks, lost, retried and dropped   *)
(* from a full queue, no message reaches a socket twice, and they reach the *)
(* sockets in the order of their send(), but for those that onOpen sends    *)
(* before the queue.                                                        *)
THEOREM MessagesKeepTheirOrder == Spec => []InOrder
<1>1. IInv /\ OrderInv => InOrder
    <2> SUFFICES ASSUME IInv, OrderInv PROVE InOrder
        OBVIOUS
    <2>1. wire \in Seq(Nat) /\ queue \in Seq(Nat)
        BY DEF IInv, DataOK
    <2>2. Sorted(early, wire \o queue)
        BY <2>1, SortedConcat DEF OrderInv
    <2> QED
        BY <2>2 DEF InOrder, Sorted, May
<1> QED
    BY <1>1, Invariant, OrderInit, OrderNext, PTL DEF Spec

-----------------------------------------------------------------------------
(* One connection.                                                          *)

\* A handler that calls connect() brings at most one chain to life, and only from a
\* status that refuses nothing.
LEMMA ConnectStarts ==
    ASSUME NEW srv, NEW st, NEW ph \in [Chains -> Phases], connect(srv, st, ph)
    PROVE  \/ status' = st /\ phase' = ph
           \/ /\ st \notin Refused /\ status' = "CONNECTING"
              /\ \E c \in Chains : phase' = [ph EXCEPT ![c] = "attempt"]
BY DEF connect

\* Phases with at most one live chain and no abandoned socket.
One(ph) ==
    /\ \A c, d \in Chains : /\ ph[c] \in {"attempt", "wait", "open"}
                            /\ ph[d] \in {"attempt", "wait", "open"}
                            => c = d
    /\ \A c \in Chains : ph[c] # "abandoned"

None(ph) == \A c \in Chains : ph[c] \notin {"attempt", "wait", "open", "abandoned"}

\* OneConnection is about the phases alone.
LEMMA OneIsAboutPhases == (OneConnection <=> One(phase)) /\ (OneConnection' <=> One(phase'))
BY DEF OneConnection, Live, One

\* Where no chain is alive, connect() starts the only one.
LEMMA StartsOne ==
    ASSUME NEW ph \in [Chains -> Phases], None(ph), NEW c \in Chains,
           phase' = [ph EXCEPT ![c] = "attempt"]
    PROVE  One(phase')
BY DEF None, One

\* A chain that goes on, or is over, leaves the others what they were.
LEMMA StaysOne ==
    ASSUME DataOK, One(phase), NEW c \in Chains, NEW p \in Phases, p # "abandoned",
           \/ phase[c] \in {"attempt", "wait", "open"}
           \/ p \notin {"attempt", "wait", "open"},
           phase' = [phase EXCEPT ![c] = p]
    PROVE  One(phase')
BY DEF One, DataOK

\* The head of a sequence is its first element.
LEMMA HeadFacts ==
    ASSUME NEW S, NEW s \in Seq(S), s # <<>>
    PROVE  1 \in DOMAIN s /\ Head(s) = s[1] /\ s[1] \in S
<1>1. Len(s) \in Nat /\ Len(s) # 0 /\ DOMAIN s = 1..Len(s)
    OBVIOUS
<1>2. 1 \in DOMAIN s
    BY <1>1
<1>3. s[1] \in S
    BY <1>2
<1>4. Head(s) = s[1]
    BY <1>1
<1> QED
    BY <1>2, <1>3, <1>4

\* A step from one connection, with no door open, leads to one connection.
LEMMA NoDoorNext ==
    ASSUME IInv, OneConnection, ~Exposed, [Next]_vars
    PROVE  OneConnection'
<1> SUFFICES One(phase')
    BY OneIsAboutPhases
<1>1. DataOK /\ One(phase) /\ phase \in [Chains -> Phases]
    BY OneIsAboutPhases DEF IInv, DataOK
<1>2. /\ \A i \in DOMAIN timers : timers[i] # Reconnect
      /\ \A c \in Chains : phase[c] \in {"attempt", "wait"} => status = "CONNECTING"
      /\ \A c \in Chains : phase[c] = "open" => status = "OPEN" /\ socket = c
      /\ \A c \in Chains : phase[c] = "lost" => ~(reports[c] < Reports)
    BY DEF Exposed
<1>3. {"attempt", "wait", "open", "over", "lost", "flushed"} \subseteq Phases
    BY DEF Phases
<1>4. CASE UNCHANGED phase
    BY <1>1, <1>4 DEF One
<1>5. ASSUME NEW c \in Chains, Opened(c) PROVE One(phase')
    BY <1>1, <1>3, <1>5, StaysOne DEF Opened
<1>6. ASSUME NEW c \in Chains, NEW result, Failed(c, result) PROVE One(phase')
    <2>1. phase[c] = "attempt"
        BY <1>6 DEF Failed
    <2>2. PICK p \in {"wait", "attempt", "over"} : phase' = [phase EXCEPT ![c] = p]
        BY <1>6 DEF Failed, NextEnd, GivesUp
    <2> QED
        BY <1>1, <1>3, <2>1, <2>2, StaysOne
<1>7. ASSUME NEW c \in Chains, NEW result PROVE ~Late(c, result)
    BY <1>2 DEF Late, EndsClosing, Dropped
<1>8. ASSUME NEW c \in Chains, NextStart(c) PROVE One(phase')
    <2>1. phase[c] = "wait"
        BY <1>8 DEF NextStart
    <2>2. PICK p \in {"attempt", "over"} : phase' = [phase EXCEPT ![c] = p]
        BY <1>8 DEF NextStart
    <2> QED
        BY <1>1, <1>3, <2>1, <2>2, StaysOne
<1>9. ASSUME NEW c \in Chains, OnClose(c) PROVE One(phase')
    BY <1>1, <1>3, <1>9, StaysOne DEF OnClose
<1>10. ASSUME NEW srv, connect(srv, status, phase) PROVE One(phase')
    <2>1. connect(srv, status, phase)
        BY <1>10
    <2>2. phase' = phase \/ /\ status \notin Refused
                            /\ \E c \in Chains : phase' = [phase EXCEPT ![c] = "attempt"]
        BY <1>1, <2>1, ConnectStarts
    <2>3. status \notin Refused => None(phase)
        BY <1>1, <1>2 DEF Refused, None, One
    <2> QED
        BY <1>1, <1>4, <2>2, <2>3, StartsOne
<1>11. CASE Send
    BY <1>4, <1>11 DEF Send, chainVars
<1>12. One(PhasesClosed) /\ PhasesClosed \in [Chains -> Phases]
    BY <1>1, <1>3 DEF PhasesClosed, One
<1>13. CASE Close
    BY <1>4, <1>12, <1>13 DEF Close, Hang, chainVars
<1>14. CASE ReconnectCall
    <2>1. CASE Hang \/ phase' = PhasesClosed
        BY <1>4, <1>12, <2>1 DEF Hang, chainVars
    <2>2. CASE connect(server, "CLOSE", PhasesClosed)
        <3>1. None(PhasesClosed)
            BY <1>1, <1>2, <1>3, <1>14 DEF ReconnectCall, PhasesClosed, None, One
        <3> QED
            BY <1>12, <2>2, <3>1, ConnectStarts, StartsOne
    <2> QED
        BY <1>14, <2>1, <2>2 DEF ReconnectCall
<1>15. CASE TimerFires
    <2>1. Head(timers) \in Chains
        <3>1. timers \in Seq(NoneOrChains) /\ timers # <<>>
            BY <1>1, <1>15 DEF TimerFires, DataOK
        <3>2. 1 \in DOMAIN timers /\ Head(timers) = timers[1] /\ timers[1] \in NoneOrChains
            BY <3>1, HeadFacts
        <3>3. timers[1] # Reconnect
            BY <1>2, <3>2
        <3> QED
            BY <3>2, <3>3 DEF NoneOrChains, Chains, Reconnect
    <2>2. phase' = [phase EXCEPT ![Head(timers)] = "over"]
        BY <1>15, <2>1 DEF TimerFires, Reconnect
    <2> QED
        BY <1>1, <1>3, <2>1, <2>2, StaysOne
<1>16. CASE UNCHANGED vars \/ OnOpenReturns
    BY <1>4, <1>16 DEF vars, OnOpenReturns, chainVars
<1>17. ASSUME NEW c \in Chains, OnOpen(c) \/ OnError(c) \/ OnTimeout(c) PROVE One(phase')
    BY <1>5, <1>6, <1>7, <1>17 DEF OnOpen, OnError, OnTimeout
<1>18. CASE Connect \/ OnReconnectingReturns
    BY <1>10, <1>18 DEF Connect, OnReconnectingReturns
<1> QED
    BY <1>8, <1>9, <1>11, <1>13, <1>14, <1>15, <1>16, <1>17, <1>18
       DEF Next, Network, Timers, App, Return

(* Whatever the options and the calls, a second connection comes about only *)
(* through a pending reconnect(), a chain or a socket that the transport no *)
(* longer tells of, or a socket that reports its end twice.                 *)
THEOREM OnlyDoorsLeadToASecondConnection == Spec => SecondConnectionNeedsADoor
<1>1. IInv /\ [Next]_vars => [(OneConnection /\ ~Exposed) => OneConnection']_vars
    BY NoDoorNext
<1> QED
    BY <1>1, Invariant, PTL DEF Spec, SecondConnectionNeedsADoor

-----------------------------------------------------------------------------
(* The connections of a transport that is only connected and sent on.       *)

PageUse == Calls \subseteq {"connect", "send"}

LiveChains == {c \in Chains : Live(c)}

\* The live chain that a transport may have without any repeated report.
Own == IF status \in {"OPEN", "CONNECTING"} THEN 1 ELSE 0

\* No timer but the chains' own; the one attempt is what the status tells of; a
\* socket that has reported its end is lost.
Orderly ==
    /\ timers = <<>>
    /\ \A c \in Chains : phase[c] # "abandoned"
    /\ \A c \in Chains : phase[c] \in {"attempt", "wait"} => status = "CONNECTING"
    /\ \A c, d \in Chains :
          phase[c] \in {"attempt", "wait"} /\ phase[d] \in {"attempt", "wait"} => c = d
    /\ \A c \in Chains : IF phase[c] = "lost" THEN reports[c] > 0 ELSE reports[c] = 0

Counts == Cardinality(LiveChains) <= Own + Cardinality(Repeats)

PageInv == Orderly /\ Counts

\* The sets that are counted are finite.
LEMMA FiniteCounts ==
    /\ IsFiniteSet(LiveChains) /\ Cardinality(LiveChains) \in Nat
    /\ IsFiniteSet(Repeats) /\ Cardinality(Repeats) \in Nat
<1>1. IsFiniteSet(1..MaxChains) /\ IsFiniteSet(2..Reports)
    BY FS_Interval
<1>2. IsFiniteSet(Chains \X (2..Reports))
    BY <1>1, FS_Product
<1>3. LiveChains \subseteq 1..MaxChains /\ Repeats \subseteq Chains \X (2..Reports)
    BY DEF LiveChains, Repeats
<1> QED
    BY <1>1, <1>2, <1>3, FS_Subset, FS_CardinalityType

\* A new transport has no chain.
LEMMA PageInit == Init => PageInv
<1> SUFFICES ASSUME Init PROVE PageInv
    OBVIOUS
<1>1. Orderly
    BY DEF Init, Orderly
<1>2. LiveChains = {}
    BY DEF Init, LiveChains, Live
<1>3. Cardinality(LiveChains) = 0 /\ Own = 0
    BY <1>2, FS_EmptySet DEF Init, Own
<1> QED
    BY <1>1, <1>3, FiniteCounts DEF PageInv, Counts

\* A chain that goes on, while the status keeps its own one, changes no count.
LEMMA GoesOnCounts ==
    ASSUME DataOK, Counts, NEW c \in Chains, NEW p \in {"attempt", "wait", "open"},
           phase[c] \in {"attempt", "wait"}, phase' = [phase EXCEPT ![c] = p],
           UNCHANGED reports, Own' = Own
    PROVE  Counts'
<1>1. LiveChains' = LiveChains
    BY DEF DataOK, LiveChains, Live
<1>2. Repeats' = Repeats
    BY DEF Repeats
<1> QED
    BY <1>1, <1>2 DEF Counts

\* A chain that starts is the transport's own one.
LEMMA StartsCounts ==
    ASSUME DataOK, Counts, NEW c \in Chains, phase' = [phase EXCEPT ![c] = "attempt"],
           UNCHANGED reports, Own = 0, Own' = 1
    PROVE  Counts'
<1>1. LiveChains' = LiveChains \cup {c}
    BY DEF DataOK, LiveChains, Live
<1>2. Repeats' = Repeats
    BY DEF Repeats
<1>3. \/ Cardinality(LiveChains') = Cardinality(LiveChains)
      \/ Cardinality(LiveChains') = Cardinality(LiveChains) + 1
    BY <1>1, FS_AddElement, FiniteCounts
<1>4. Cardinality(LiveChains) \in Nat /\ Cardinality(Repeats) \in Nat
    BY FiniteCounts
<1> QED
    BY <1>2, <1>3, <1>4 DEF Counts

\* A live chain that is over or lost was the transport's own one, or is one less.
LEMMA EndsCounts ==
    ASSUME DataOK, Counts, NEW c \in Chains, Live(c), NEW p \in {"over", "lost"},
           phase' = [phase EXCEPT ![c] = p], Repeats' = Repeats, Own' \in {0, Own}
    PROVE  Counts'
<1>1. LiveChains' = LiveChains \ {c} /\ c \in LiveChains
    BY DEF DataOK, LiveChains, Live
<1>2. Cardinality(LiveChains') = Cardinality(LiveChains) - 1
    BY <1>1, FS_RemoveElement, FiniteCounts
<1>3. Own \in {0, 1}
    BY DEF Own
<1> QED
    BY <1>2, <1>3, FiniteCounts DEF Counts

\* A repeated report counts for the connection it costs.
LEMMA RepeatCounts ==
    ASSUME DataOK, Counts, NEW c \in Chains, phase[c] = "lost",
           reports[c] > 0, reports[c] < Reports,
           reports' = [reports EXCEPT ![c] = @ + 1],
           phase' = [phase EXCEPT ![c] = "lost"], Own' \in {0, Own}
    PROVE  Counts'
<1> DEFINE r == <<c, reports[c] + 1>>
<1>1. LiveChains' = LiveChains
    BY DEF DataOK, LiveChains, Live
<1>2. /\ reports \in [Chains -> 0..Reports] /\ reports[c] \in 1..Reports
      /\ reports[c] + 1 \in 2..Reports
    <2>1. reports \in [Chains -> 0..Reports]
        BY DEF DataOK
    <2>2. reports[c] \in 0..Reports
        BY <2>1
    <2> QED
        BY <2>1, <2>2
<1>3. r \in Chains \X (2..Reports) /\ r \notin Repeats
    BY <1>2 DEF Repeats
<1>4. Repeats' = Repeats \cup {r}
    <2>1. ASSUME NEW d \in Chains, NEW n \in 2..Reports
          PROVE  n <= reports'[d] <=> (n <= reports[d] \/ (d = c /\ n = reports[c] + 1))
        BY <1>2
    <2> QED
        BY <1>3, <2>1 DEF Repeats
<1>5. Cardinality(Repeats') = Cardinality(Repeats) + 1
    BY <1>3, <1>4, FS_AddElement, FiniteCounts
<1>6. Own \in {0, 1}
    BY DEF Own
<1> QED
    BY <1>1, <1>5, <1>6, FiniteCounts DEF Counts

\* An orderly transport stays so when one chain, that is the only one under way, goes on.
LEMMA OrderlyMoves ==
    ASSUME DataOK, Orderly, NEW c \in Chains, NEW p \in Phases, phase[c] # "lost",
           p \notin {"abandoned", "lost"}, phase' = [phase EXCEPT ![c] = p],
           \A d \in Chains : d # c => phase[d] \notin {"attempt", "wait"},
           p \in {"attempt", "wait"} => status' = "CONNECTING",
           UNCHANGED <<reports, timers>>
    PROVE  Orderly'
<1>1. phase'[c] = p /\ \A d \in Chains : d # c => phase'[d] = phase[d]
    BY DEF DataOK
<1>2. \A d \in Chains : d # c => phase'[d] \notin {"attempt", "wait"}
    BY <1>1
<1>3. timers' = <<>> /\ \A d \in Chains : phase'[d] # "abandoned"
    BY <1>1 DEF Orderly
<1>4. \A d \in Chains : phase'[d] \in {"attempt", "wait"} => status' = "CONNECTING"
    BY <1>1, <1>2
<1>5. \A d, e \in Chains :
          phase'[d] \in {"attempt", "wait"} /\ phase'[e] \in {"attempt", "wait"} => d = e
    BY <1>2
<1>6. \A d \in Chains : IF phase'[d] = "lost" THEN reports'[d] > 0 ELSE reports'[d] = 0
    BY <1>1 DEF Orderly
<1> QED
    BY <1>3, <1>4, <1>5, <1>6 DEF Orderly

\* A handler that calls connect() starts an unused chain at most, from a status that
\* refuses nothing.
LEMMA ConnectCounts ==
    ASSUME DataOK, PageInv, NEW srv, connect(srv, status, phase), UNCHANGED <<reports, timers>>
    PROVE  PageInv'
<1>1. Orderly /\ Counts
    BY DEF PageInv
<1>2. CASE status \in Refused
    <2>1. UNCHANGED <<status, phase>>
        BY <1>2 DEF connect
    <2> QED
        BY <1>1, <2>1 DEF PageInv, Orderly, Counts, LiveChains, Live, Own, Repeats
<1>3. CASE status \notin Refused
    <2>1. PICK c \in Chains :
              phase[c] = "unused" /\ phase' = [phase EXCEPT ![c] = "attempt"] /\ status' = "CONNECTING"
        BY <1>3 DEF connect
    <2>2. Own = 0 /\ Own' = 1
        BY <1>3, <2>1 DEF Own, Refused
    <2>3. Counts'
        BY <1>1, <2>1, <2>2, StartsCounts
    <2>4. \A d \in Chains : phase[d] \notin {"attempt", "wait"}
        BY <1>1, <1>3 DEF Orderly, Refused
    <2>5. Orderly'
        BY <1>1, <2>1, <2>4, OrderlyMoves DEF Phases
    <2> QED
        BY <2>3, <2>5 DEF PageInv
<1> QED
    BY <1>2, <1>3

\* The end of an attempt, and the timer of the interval.
LEMMA AttemptCounts ==
    ASSUME DataOK, PageInv, NEW c \in Chains,
           \/ Opened(c) \/ NextStart(c) \/ \E result \in {"ERROR", "TIMEOUT"} : Failed(c, result)
    PROVE  PageInv'
<1>1. Orderly /\ Counts
    BY DEF PageInv
<1>2. /\ phase[c] \in {"attempt", "wait"} /\ status = "CONNECTING"
      /\ UNCHANGED <<reports, timers>>
    BY <1>1 DEF Orderly, Opened, NextStart, Failed
<1>3. \A d \in Chains : d # c => phase[d] \notin {"attempt", "wait"}
    BY <1>1, <1>2 DEF Orderly
<1>4. \/ Own' = Own /\ \E p \in {"attempt", "wait"} :
                           status' = "CONNECTING" /\ phase' = [phase EXCEPT ![c] = p]
      \/ Own' = Own /\ phase' = [phase EXCEPT ![c] = "open"]
      \/ phase' = [phase EXCEPT ![c] = "over"] /\ Own' = 0
    BY <1>2 DEF Opened, NextStart, Failed, NextEnd, GivesUp, Own
<1>5. CASE \E p \in {"attempt", "wait"} : /\ Own' = Own /\ status' = "CONNECTING"
                                         /\ phase' = [phase EXCEPT ![c] = p]
    <2>1. PICK p \in {"attempt", "wait"} :
              Own' = Own /\ status' = "CONNECTING" /\ phase' = [phase EXCEPT ![c] = p]
        BY <1>5
    <2>2. Counts'
        BY <1>1, <1>2, <2>1, GoesOnCounts
    <2>3. Orderly'
        BY <1>1, <1>2, <1>3, <2>1, OrderlyMoves DEF Phases
    <2> QED
        BY <2>2, <2>3 DEF PageInv
<1>6. CASE Own' = Own /\ phase' = [phase EXCEPT ![c] = "open"]
    <2>1. Counts'
        BY <1>1, <1>2, <1>6, GoesOnCounts
    <2>2. Orderly'
        BY <1>1, <1>2, <1>3, <1>6, OrderlyMoves DEF Phases
    <2> QED
        BY <2>1, <2>2 DEF PageInv
<1>7. CASE phase' = [phase EXCEPT ![c] = "over"] /\ Own' = 0
    <2>1. Counts'
        BY <1>1, <1>2, <1>7, EndsCounts DEF Live, Repeats
    <2>2. Orderly'
        BY <1>1, <1>2, <1>3, <1>7, OrderlyMoves DEF Phases
    <2> QED
        BY <2>1, <2>2 DEF PageInv
<1> QED
    BY <1>4, <1>5, <1>6, <1>7

\* A report of an end: the first of its socket, or a repeated one.
LEMMA OnCloseCounts ==
    ASSUME DataOK, PageInv, NEW c \in Chains, OnClose(c)
    PROVE  PageInv'
<1>1. Orderly /\ Counts
    BY DEF PageInv
<1>2. /\ reports \in [Chains -> 0..Reports] /\ reports[c] < Reports
      /\ reports' = [reports EXCEPT ![c] = @ + 1]
      /\ phase' = [phase EXCEPT ![c] = "lost"]
      /\ phase[c] \in {"open", "lost"} /\ UNCHANGED timers
    BY DEF DataOK, OnClose
<1>3. Own' \in {0, Own} /\ (UNCHANGED status \/ (status' = "NONE" /\ status = "OPEN"))
    BY DEF OnClose, Own
<1>4. phase'[c] = "lost" /\ \A d \in Chains : d # c => phase'[d] = phase[d]
    BY <1>2 DEF DataOK
<1>5. reports'[c] > 0 /\ \A d \in Chains : d # c => reports'[d] = reports[d]
    BY <1>2
<1>6. \A d \in Chains : phase'[d] \in {"attempt", "wait"} =>
                            phase[d] \in {"attempt", "wait"} /\ d # c
    BY <1>4
<1>7. Orderly'
    <2>1. timers' = <<>> /\ \A d \in Chains : phase'[d] # "abandoned"
        BY <1>1, <1>2, <1>4 DEF Orderly
    <2>2. \A d \in Chains : phase'[d] \in {"attempt", "wait"} => status' = "CONNECTING"
        BY <1>1, <1>3, <1>6 DEF Orderly
    <2>3. \A d, e \in Chains :
              phase'[d] \in {"attempt", "wait"} /\ phase'[e] \in {"attempt", "wait"} => d = e
        BY <1>1, <1>6 DEF Orderly
    <2>4. \A d \in Chains : IF phase'[d] = "lost" THEN reports'[d] > 0 ELSE reports'[d] = 0
        BY <1>1, <1>4, <1>5 DEF Orderly
    <2> QED
        BY <2>1, <2>2, <2>3, <2>4 DEF Orderly
<1>8. CASE phase[c] = "open"
    <2>1. reports[c] = 0
        BY <1>1, <1>8 DEF Orderly
    <2>2. Repeats' = Repeats
        <3>1. ASSUME NEW d \in Chains, NEW n \in 2..Reports
              PROVE  n <= reports'[d] <=> n <= reports[d]
            BY <1>2, <2>1
        <3> QED
            BY <3>1 DEF Repeats
    <2> QED
        BY <1>1, <1>2, <1>3, <1>7, <1>8, <2>2, EndsCounts DEF PageInv, Live
<1>9. CASE phase[c] = "lost"
    <2>1. reports[c] > 0
        BY <1>1, <1>9 DEF Orderly
    <2> QED
        BY <1>1, <1>2, <1>3, <1>7, <1>9, <2>1, RepeatCounts DEF PageInv
<1> QED
    BY <1>2, <1>8, <1>9

\* Every step of a transport that is only connected and sent on keeps the account.
LEMMA PageNext ==
    ASSUME PageUse, IInv, PageInv, [Next]_vars
    PROVE  PageInv'
<1>1. DataOK /\ Orderly
    BY DEF IInv, PageInv
<1>2. ~(Close \/ ReconnectCall \/ TimerFires)
    BY <1>1 DEF PageUse, Close, ReconnectCall, TimerFires, Orderly
<1>3. ASSUME NEW c \in Chains, NEW result PROVE ~Late(c, result)
    BY <1>1 DEF Orderly, Late, EndsClosing, Dropped
<1>4. ASSUME NEW c \in Chains, OnOpen(c) \/ OnError(c) \/ OnTimeout(c) \/ NextStart(c)
      PROVE  PageInv'
    BY <1>1, <1>3, <1>4, AttemptCounts DEF OnOpen, OnError, OnTimeout
<1>5. ASSUME NEW c \in Chains, OnClose(c) PROVE PageInv'
    BY <1>1, <1>5, OnCloseCounts
<1>6. CASE Connect \/ OnReconnectingReturns
    BY <1>1, <1>6, ConnectCounts DEF Connect, OnReconnectingReturns
<1>7. CASE Send \/ OnOpenReturns \/ UNCHANGED vars
    <2>1. UNCHANGED <<status, phase, reports, timers>>
        BY <1>7 DEF Send, OnOpenReturns, vars, chainVars
    <2> QED
        BY <2>1 DEF PageInv, Orderly, Counts, LiveChains, Live, Own, Repeats
<1> QED
    BY <1>2, <1>4, <1>5, <1>6, <1>7 DEF Next, Network, Timers, App, Return

(* A transport that is only connected and sent on, over sockets that report *)
(* their end as often as they like, leaves no open socket behind when an    *)
(* attempt ends, and has one connection, and one more for every repeated    *)
(* report at most, whatever the servers and the proxies do.                 *)
THEOREM PageConnectionsAreAccountedFor ==
    ASSUME PageUse
    PROVE  Spec => []ConnectionsAreAccountedFor
<1>1. IInv /\ PageInv /\ [Next]_vars => PageInv'
    BY PageUse, PageNext
<1>2. PageInv => ConnectionsAreAccountedFor
    BY FiniteCounts DEF PageInv, Orderly, Counts, Own, LiveChains, ConnectionsAreAccountedFor
<1> QED
    BY <1>1, <1>2, Invariant, PageInit, PTL DEF Spec

=============================================================================
