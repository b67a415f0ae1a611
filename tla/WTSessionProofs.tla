--------------------------- MODULE WTSessionProofs ---------------------------
(***************************************************************************)
(* What holds of a session for any sets of streams, application goroutines *)
(* and ids.                                                                *)
(***************************************************************************)
EXTENDS WTSession, TLAPS

USE DEF Streams, Chans, Acceptors, Loops, Procs

\* An acceptor's streams are streams.
LEMMA StreamsOfFacts ==
    ASSUME NEW l \in Loops, NEW s \in StreamsOf(l)
    PROVE  s \in Streams /\ l \in Acceptors
BY DEF StreamsOf

-----------------------------------------------------------------------------
(* The types.                                                              *)

\* A new session has its types.
LEMMA InitType == Init => TypeOK
<1> SUFFICES ASSUME Init PROVE TypeOK
    OBVIOUS
<1>1. \A p \in Procs : pc[p] \in IF p \in Loops THEN LoopLabels ELSE CallerLabels
    BY DEF Init, LoopLabels, CallerLabels
<1> QED
    BY <1>1, IdsAssumption
    DEF Init, TypeOK, Refs, StreamStates, HandlerStates, RangeStates, Crashes

(* The label a goroutine goes to fits the goroutine.                       *)
LEMMA GotoType ==
    ASSUME TypeOK, NEW p \in Procs,
           NEW label \in IF p \in Loops THEN LoopLabels ELSE CallerLabels,
           Goto(p, label)
    PROVE  /\ pc' \in [Procs -> LoopLabels \cup CallerLabels]
           /\ \A q \in Procs : pc'[q] \in IF q \in Loops THEN LoopLabels ELSE CallerLabels
BY DEF TypeOK, Goto

\* A step of close() keeps the types.
LEMMA CloseStepType ==
    ASSUME TypeOK, NEW p \in Procs, CloseStep(p)
    PROVE  TypeOK'
<1> USE DEF TypeOK, Refs, LoopLabels, CallerLabels, CloseLabels, ClearLabels
<1>1. CASE Check(p)
    BY <1>1, GotoType DEF Check, AfterClose, streamVars, objectVars, appVars
<1>2. CASE Mark(p)
    BY <1>2, GotoType DEF Mark, streamVars, appVars
<1>3. CASE CloseStream(p)
    BY ZenonT(60), <1>3, GotoType DEF CloseStream, CloseChannel, AfterClose, streamVars, appVars
<1>4. CASE CloseReceiveStream(p)
    BY ZenonT(60), <1>4, GotoType
    DEF CloseReceiveStream, CloseChannel, AfterClose, streamVars, appVars
<1>5. CASE Clear(p)
    <2>1. NextClear[pc[p]] \in CloseLabels /\ pc[p] \in Refs
        BY <1>5 DEF Clear, NextClear
    <2>2. ref' \in [Refs -> BOOLEAN]
        BY <1>5, <2>1 DEF Clear
    <2>3. Goto(p, NextClear[pc[p]])
        BY <1>5 DEF Clear
    <2>4. NextClear[pc[p]] \in IF p \in Loops THEN LoopLabels ELSE CallerLabels
        BY <2>1
    <2>5. /\ pc' \in [Procs -> LoopLabels \cup CallerLabels]
          /\ \A q \in Procs : pc'[q] \in IF q \in Loops THEN LoopLabels ELSE CallerLabels
        BY <2>3, <2>4, GotoType
    <2> QED
        BY <1>5, <2>2, <2>5 DEF Clear, streamVars, appVars
<1>6. CASE CallOnClose(p)
    <2>1. calls' \in Nat
        <3>1. calls' = calls + 1 \/ calls' = calls
            BY <1>6, Zenon DEF CallOnClose
        <3>2. calls \in Nat
            OBVIOUS
        <3> HIDE DEF TypeOK
        <3> QED
            BY <3>1, <3>2
    <2>2. /\ pc' \in [Procs -> LoopLabels \cup CallerLabels]
          /\ \A q \in Procs : pc'[q] \in IF q \in Loops THEN LoopLabels ELSE CallerLabels
        BY <1>6, GotoType DEF CallOnClose, AfterClose
    <2> QED
        BY <1>6, <2>1, <2>2 DEF CallOnClose, streamVars, objectVars
<1> QED
    BY <1>1, <1>2, <1>3, <1>4, <1>5, <1>6 DEF CloseStep

\* A step of one of the four loops keeps the types.
LEMMA LoopStepType ==
    ASSUME TypeOK, NEW l \in Loops, LoopStep(l)
    PROVE  TypeOK'
<1> USE DEF TypeOK, LoopLabels, CloseLabels
<1>1. CASE LoopError(l)
    BY <1>1, GotoType DEF LoopError, OnError, objectVars, streamVars, appVars
<1>2. ASSUME NEW s \in StreamsOf(l), CheckSession(l, s)
      PROVE  TypeOK'
    BY <1>2, GotoType, StreamsOfFacts
    DEF CheckSession, GoesOn, Move, StreamStates, objectVars, appVars
<1>3. ASSUME NEW s \in StreamsOf(l), CompareStreamId(l, s)
      PROVE  TypeOK'
    <2>1. s \in Streams /\ Compared(l) \in Crashes
        BY StreamsOfFacts DEF Compared, Crashes
    <2>2. CASE ref[Compared(l)]
        BY <1>3, <2>1, <2>2, GotoType
        DEF CompareStreamId, Move, StreamStates, HandlerStates, objectVars, appVars
    <2>3. CASE ~ref[Compared(l)]
        BY <1>3, <2>1, <2>3 DEF CompareStreamId, objectVars, appVars
    <2> QED
        BY <2>2, <2>3
<1>4. CASE UseSession(l)
    <2>1. CASE ref["session"]
        BY <1>4, <2>1, GotoType DEF UseSession, objectVars, streamVars, appVars
    <2>2. CASE ~ref["session"]
        BY <1>4, <2>2 DEF UseSession, Crashes, objectVars, streamVars, appVars
    <2> QED
        BY <2>1, <2>2
<1> QED
    BY <1>1, <1>2, <1>3, <1>4 DEF LoopStep

(* The steps of a stream's two goroutines.                                 *)
StreamStep(s) ==
    \/ ReadFails(s) \/ ReaderStep(s) \/ HandlerExpires(s) \/ Receive(s)
    \/ \E wt \in BOOLEAN, id \in Ids : ReadHeader(s, wt, id)

\* A step of a stream's two goroutines keeps the types.
LEMMA StreamStepType ==
    ASSUME TypeOK, NEW s \in Streams, StreamStep(s)
    PROVE  TypeOK'
<1> USE DEF TypeOK, Move, StreamStates
<1>1. CASE ReadFails(s)
    BY <1>1 DEF ReadFails, objectVars, appVars
<1>2. CASE OfferStream(s)
    BY <1>2 DEF OfferStream, objectVars, appVars
<1>3. CASE SendPanics(s)
    BY <1>3 DEF SendPanics, Crashes, objectVars, streamVars, appVars
<1>4. CASE Finish(s)
    BY <1>4 DEF Finish, HandlerStates, objectVars, appVars
<1>5. CASE HandlerExpires(s)
    BY <1>5 DEF HandlerExpires, HandlerStates, objectVars, appVars
<1>6. CASE Receive(s)
    BY <1>6 DEF Receive, objectVars, appVars
<1>7. ASSUME NEW wt \in BOOLEAN, NEW id \in Ids, ReadHeader(s, wt, id)
      PROVE  TypeOK'
    BY <1>7 DEF ReadHeader, appVars
<1> QED
    BY <1>1, <1>2, <1>3, <1>4, <1>5, <1>6, <1>7 DEF StreamStep, ReaderStep

\* Every step keeps the types.
LEMMA NextType ==
    ASSUME TypeOK, Next
    PROVE  TypeOK'
<1> USE DEF TypeOK
<1>1. CASE Network
    BY <1>1 DEF Network, PeerEndsConnect, ConnectionLost, objectVars, streamVars, appVars
<1>2. ASSUME NEW l \in Loops, LoopStep(l)
      PROVE  TypeOK'
    BY <1>2, LoopStepType
<1>3. ASSUME NEW l \in Loops, NEW s \in StreamsOf(l), Accept(l, s)
      PROVE  TypeOK'
    <2>1. s \in Streams
        BY StreamsOfFacts
    <2>2. /\ pc' \in [Procs -> LoopLabels \cup CallerLabels]
          /\ \A q \in Procs : pc'[q] \in IF q \in Loops THEN LoopLabels ELSE CallerLabels
        BY <1>3, GotoType DEF Accept, LoopLabels
    <2> QED
        BY <1>3, <2>1, <2>2 DEF Accept, Move, StreamStates, objectVars, appVars
<1>4. ASSUME NEW id \in Ids, ReceiveMessage(id)
      PROVE  TypeOK'
    BY <1>4, GotoType DEF ReceiveMessage, LoopLabels, objectVars, streamVars, appVars
<1>5. ASSUME NEW s \in Streams, StreamStep(s)
      PROVE  TypeOK'
    BY <1>5, StreamStepType
<1>6. ASSUME NEW p \in Procs, CloseStep(p)
      PROVE  TypeOK'
    BY <1>6, CloseStepType
<1>7. CASE TakeSession
    BY <1>7 DEF TakeSession, Crashes, objectVars, streamVars
<1>8. CASE Register
    BY <1>8 DEF Register, Refs, streamVars
<1>9. ASSUME NEW ch \in Consumed, RangeStart(ch) \/ RangeEnd(ch)
      PROVE  TypeOK'
    BY <1>9, ConsumedAssumption
    DEF RangeStart, RangeEnd, RangeStates, objectVars, streamVars
<1>10. ASSUME NEW c \in Callers, Call(c) \/ Close(c) \/ UseSession(c)
       PROVE  TypeOK'
    <2>1. c \notin Loops
        BY CallersAssumption
    <2>2. CASE Call(c)
        BY <2>1, <2>2, GotoType DEF Call, CallerLabels, objectVars, streamVars, appVars
    <2>3. CASE Close(c)
        BY <2>1, <2>3, GotoType
        DEF Close, CallerLabels, CloseLabels, objectVars, streamVars, appVars
    <2>4. CASE UseSession(c) /\ ref["session"]
        BY <2>1, <2>4, GotoType DEF UseSession, CallerLabels, objectVars, streamVars, appVars
    <2>5. CASE UseSession(c) /\ ~ref["session"]
        BY <2>5 DEF UseSession, Crashes, objectVars, streamVars, appVars
    <2> QED
        BY <1>10, <2>2, <2>3, <2>4, <2>5
<1> HIDE DEF TypeOK
<1> QED
    BY <1>1, <1>2, <1>3, <1>4, <1>5, <1>6, <1>7, <1>8, <1>9, <1>10
    DEF Next, Session, Application, StreamStep

(* Every variable stays in its set, for any number of streams, callers and  *)
(* ids: no goroutine runs code that is not its own.                         *)
THEOREM TypeCorrect == Spec => []TypeOK
<1>1. Init => TypeOK
    BY InitType
<1>2. TypeOK /\ [Next]_vars => TypeOK'
    <2> SUFFICES ASSUME TypeOK, [Next]_vars PROVE TypeOK'
        OBVIOUS
    <2>1. CASE Next
        BY <2>1, NextType
    <2>2. CASE UNCHANGED vars
        BY <2>2 DEF TypeOK, vars, objectVars, streamVars, appVars
    <2> QED
        BY <2>1, <2>2
<1> QED
    BY <1>1, <1>2, PTL DEF Spec

-----------------------------------------------------------------------------
(* The teardown.  A goroutine whose close(transport.Stream) succeeded is    *)
(* past it; the invariant says that at most one is, that it alone drops the *)
(* references and calls OnClose, and how far it has come.                   *)

PastLabels    == {"close ReceiveStream", "OnClose"} \cup ClearLabels
ClosingLabels == {"close Stream"} \cup PastLabels

\* The references dropped by a goroutine that is about to run each statement.
Dropped == [label \in ClearLabels \cup {"OnClose"} |->
    CASE label = "connectStream" -> {}
      [] label = "settingsStream" -> {"connectStream"}
      [] label = "Req" -> {"connectStream", "settingsStream"}
      [] label = "ReceiveStream" -> {"connectStream", "settingsStream", "Req"}
      [] label = "Stream" -> {"connectStream", "settingsStream", "Req", "ReceiveStream"}
      [] label = "OnClose" -> ClearLabels]

OneCloser ==
    /\ \A p, q \in Procs : pc[p] \in PastLabels /\ pc[q] \in PastLabels => p = q
    /\ \A p \in Procs : pc[p] \in PastLabels => ~open["Stream"] /\ calls = 0
    /\ calls <= 1
    /\ calls = 1 => ~open["Stream"]

Whole == open["ReceiveStream"] /\ \A f \in ClearLabels : ref[f]
Gone  == ~open["ReceiveStream"] /\ \A f \in ClearLabels : ~ref[f]

Progress ==
    /\ open["Stream"] => Whole
    /\ \A p \in Procs : pc[p] = "close ReceiveStream" => Whole
    /\ \A p \in Procs : pc[p] \in ClearLabels \cup {"OnClose"} =>
          ~open["ReceiveStream"] /\ \A f \in Dropped[pc[p]] : ~ref[f]
    /\ ~open["Stream"] => (\E p \in Procs : pc[p] \in PastLabels) \/ Gone
    /\ ref["session"] <=> ~closed
    /\ ref["session"] => open["Stream"] /\ \A p \in Procs : pc[p] \notin ClosingLabels
    /\ ~ref["session"] /\ open["Stream"] => \E p \in Procs : pc[p] = "close Stream"

IInv == TypeOK /\ OneCloser /\ Progress

\* A step that the teardown does not notice.
PcQuiet == \A p \in Procs :
    pc'[p] = pc[p] \/ (pc[p] \notin ClosingLabels /\ pc'[p] \notin ClosingLabels)

Quiet ==
    /\ closed' = closed /\ open' = open /\ calls' = calls
    /\ \A f \in ClearLabels \cup {"session"} : ref'[f] = ref[f]
    /\ PcQuiet

\* To move between labels outside the teardown leaves the teardown alone.
LEMMA GotoQuiet ==
    ASSUME TypeOK, NEW p \in Procs, NEW label, label \notin ClosingLabels,
           pc[p] \notin ClosingLabels, Goto(p, label)
    PROVE  PcQuiet
BY DEF TypeOK, Goto, PcQuiet

TeardownStep(p) ==
    Mark(p) \/ CloseStream(p) \/ CloseReceiveStream(p) \/ Clear(p) \/ CallOnClose(p)

\* A step either leaves the teardown alone or is a step of close() past its check.
LEMMA NextIsQuietOrTeardown ==
    ASSUME TypeOK, Next
    PROVE  Quiet \/ \E p \in Procs : TeardownStep(p)
<1> USE DEF Quiet
<1> DEFINE Outcome == Quiet \/ \E p \in Procs : TeardownStep(p)
<1> SUFFICES Outcome
    OBVIOUS
<1>l. \A label \in {"wait", "got", "compare", "use", "ended", "idle", "check", "mark"} :
          label \notin ClosingLabels
    BY DEF ClosingLabels, PastLabels, ClearLabels
<1>1. CASE Network
    BY <1>1 DEF Network, PeerEndsConnect, ConnectionLost, objectVars, appVars, PcQuiet
<1>2. ASSUME NEW l \in Loops, LoopStep(l)
      PROVE  Outcome
    <2>1. CASE LoopError(l)
        BY <1>l, <2>1, GotoQuiet DEF LoopError, OnError, objectVars, appVars
    <2>2. ASSUME NEW s \in StreamsOf(l), CheckSession(l, s)
          PROVE  Outcome
        BY <1>l, <2>2, GotoQuiet DEF CheckSession, GoesOn, objectVars, appVars
    <2>3. ASSUME NEW s \in StreamsOf(l), CompareStreamId(l, s)
          PROVE  Outcome
        <3>1. PcQuiet
            BY <1>l, <2>3, GotoQuiet DEF CompareStreamId, PcQuiet
        <3> QED
            BY <2>3, <3>1 DEF CompareStreamId, objectVars, appVars
    <2>4. CASE UseSession(l)
        <3>1. PcQuiet
            BY <1>l, <2>4, GotoQuiet DEF UseSession, PcQuiet
        <3> QED
            BY <2>4, <3>1 DEF UseSession, objectVars, appVars
    <2> QED
        BY <1>2, <2>1, <2>2, <2>3, <2>4 DEF LoopStep
<1>3. ASSUME NEW l \in Loops, NEW s \in StreamsOf(l), Accept(l, s)
      PROVE  Outcome
    BY <1>l, <1>3, GotoQuiet DEF Accept, objectVars, appVars
<1>4. ASSUME NEW id \in Ids, ReceiveMessage(id)
      PROVE  Outcome
    BY <1>l, <1>4, GotoQuiet DEF ReceiveMessage, objectVars, appVars
<1>5. ASSUME NEW s \in Streams, StreamStep(s)
      PROVE  Outcome
    BY <1>5 DEF StreamStep, ReadFails, ReaderStep, OfferStream, SendPanics, Finish,
                HandlerExpires, Receive, ReadHeader, objectVars, appVars, PcQuiet
<1>6. ASSUME NEW p \in Procs, CloseStep(p)
      PROVE  Outcome
    <2>1. CASE Check(p)
        BY <1>l, <2>1, GotoQuiet DEF Check, AfterClose, objectVars, appVars
    <2> QED
        BY <1>6, <2>1 DEF CloseStep, TeardownStep
<1>7. CASE TakeSession
    BY <1>7 DEF TakeSession, objectVars, PcQuiet
<1>8. CASE Register
    BY <1>8 DEF Register, PcQuiet, TypeOK, Refs, ClearLabels
<1>9. ASSUME NEW ch \in Consumed, RangeStart(ch) \/ RangeEnd(ch)
      PROVE  Outcome
    BY <1>9 DEF RangeStart, RangeEnd, objectVars, PcQuiet
<1>10. ASSUME NEW c \in Callers, Call(c) \/ Close(c) \/ UseSession(c)
       PROVE  Outcome
    <2>1. CASE Call(c)
        BY <1>l, <2>1, GotoQuiet DEF Call, objectVars, appVars
    <2>2. CASE Close(c)
        BY <1>l, <2>2, GotoQuiet DEF Close, objectVars, appVars
    <2>3. CASE UseSession(c)
        <3>1. PcQuiet
            BY <1>l, <2>3, GotoQuiet DEF UseSession, PcQuiet
        <3> QED
            BY <2>3, <3>1 DEF UseSession, objectVars, appVars
    <2> QED
        BY <1>10, <2>1, <2>2, <2>3
<1> QED
    BY <1>1, <1>2, <1>3, <1>4, <1>5, <1>6, <1>7, <1>8, <1>9, <1>10
    DEF Next, Session, Application, StreamStep

\* A new session satisfies the invariant: nobody is in close().
LEMMA InitInv == Init => IInv
<1> SUFFICES ASSUME Init PROVE IInv
    OBVIOUS
<1>1. TypeOK
    BY InitType
<1>2. \A p \in Procs : pc[p] \notin ClosingLabels
    BY DEF Init, ClosingLabels, PastLabels, ClearLabels
<1>3. OneCloser
    <2>1. calls <= 1 /\ calls # 1
        BY DEF Init
    <2> QED
        BY <1>2, <2>1 DEF OneCloser, ClosingLabels
<1>4. Whole /\ ref["session"] /\ open["Stream"] /\ ~closed
    BY DEF Init, Whole, Refs, ClearLabels
<1>5. Progress
    BY <1>2, <1>4 DEF Progress, ClosingLabels, PastLabels
<1> QED
    BY <1>1, <1>3, <1>5 DEF IInv

\* A step that leaves the teardown alone keeps the invariant.
LEMMA QuietInv ==
    ASSUME IInv, Quiet
    PROVE  OneCloser' /\ Progress'
<1>1. \A p \in Procs, label \in ClosingLabels : pc'[p] = label <=> pc[p] = label
    BY DEF Quiet, PcQuiet
<1>2. (Whole' <=> Whole) /\ (Gone' <=> Gone)
    BY DEF Quiet, Whole, Gone
<1>3. OneCloser'
    BY <1>1 DEF Quiet, IInv, OneCloser, ClosingLabels
<1>4. \A p \in Procs : pc'[p] \in PastLabels <=> pc[p] \in PastLabels
    BY <1>1 DEF ClosingLabels
<1>5. \A p \in Procs : pc'[p] \in ClearLabels \cup {"OnClose"} =>
          ~open'["ReceiveStream"] /\ \A f \in Dropped[pc'[p]] : ~ref'[f]
    <2> SUFFICES ASSUME NEW p \in Procs, pc'[p] \in ClearLabels \cup {"OnClose"}
                 PROVE  ~open'["ReceiveStream"] /\ \A f \in Dropped[pc'[p]] : ~ref'[f]
        OBVIOUS
    <2>1. pc[p] = pc'[p]
        BY <1>1 DEF ClosingLabels, PastLabels
    <2>2. Dropped[pc[p]] \subseteq ClearLabels
        BY <2>1 DEF Dropped, ClearLabels
    <2> QED
        BY <2>1, <2>2 DEF Quiet, IInv, Progress
<1>6. Progress'
    <2>1. /\ \A p \in Procs : pc'[p] = "close Stream" <=> pc[p] = "close Stream"
          /\ \A p \in Procs : pc'[p] = "close ReceiveStream" <=> pc[p] = "close ReceiveStream"
          /\ \A p \in Procs : pc'[p] \in ClosingLabels <=> pc[p] \in ClosingLabels
        BY <1>1 DEF ClosingLabels, PastLabels
    <2>2. open' = open /\ closed' = closed /\ ref'["session"] = ref["session"]
        BY DEF Quiet
    <2> QED
        BY <1>2, <1>4, <1>5, <2>1, <2>2 DEF IInv, Progress
<1> QED
    BY <1>3, <1>6

\* Marking the session closed keeps the invariant.
LEMMA MarkInv ==
    ASSUME IInv, NEW p \in Procs, Mark(p)
    PROVE  OneCloser' /\ Progress'
<1>1. /\ pc'[p] = "close Stream"
      /\ pc[p] = "mark"
      /\ \A q \in Procs \ {p} : pc'[q] = pc[q]
    BY DEF Mark, Goto, IInv, TypeOK
<1>2. \A q \in Procs : pc'[q] \in PastLabels <=> pc[q] \in PastLabels
    BY <1>1 DEF PastLabels, ClearLabels
<1>3. \A q \in Procs : pc'[q] \in PastLabels => pc'[q] = pc[q]
    BY <1>1 DEF PastLabels, ClearLabels
<1>4. /\ \A f \in ClearLabels : ref'[f] = ref[f]
      /\ ~ref'["session"] /\ closed' /\ open' = open /\ calls' = calls
    BY DEF Mark, IInv, TypeOK, Refs, ClearLabels, appVars
<1>5. (Whole' <=> Whole) /\ (Gone' <=> Gone)
    BY <1>4 DEF Whole, Gone
<1>6. OneCloser'
    BY <1>2, <1>4 DEF IInv, OneCloser
<1>7. \A q \in Procs : pc'[q] \in ClearLabels \cup {"OnClose"} =>
          ~open'["ReceiveStream"] /\ \A f \in Dropped[pc'[q]] : ~ref'[f]
    <2> SUFFICES ASSUME NEW q \in Procs, pc'[q] \in ClearLabels \cup {"OnClose"}
                 PROVE  ~open'["ReceiveStream"] /\ \A f \in Dropped[pc'[q]] : ~ref'[f]
        OBVIOUS
    <2>1. pc[q] = pc'[q]
        BY <1>3 DEF PastLabels
    <2>2. Dropped[pc[q]] \subseteq ClearLabels
        BY <2>1 DEF Dropped, ClearLabels
    <2> QED
        BY <2>1, <2>2, <1>4 DEF IInv, Progress
<1>8. Progress'
    BY <1>1, <1>2, <1>3, <1>4, <1>5, <1>7 DEF IInv, Progress, PastLabels
<1> QED
    BY <1>6, <1>8

\* Of several goroutines at the first close, one gets past it.
LEMMA CloseStreamInv ==
    ASSUME IInv, NEW p \in Procs, CloseStream(p)
    PROVE  OneCloser' /\ Progress'
<1>1. pc[p] = "close Stream" /\ \A q \in Procs \ {p} : pc'[q] = pc[q]
    BY DEF CloseStream, CloseChannel, Goto, IInv, TypeOK
<1>2. ref' = ref /\ closed' = closed /\ calls' = calls /\ ~ref["session"]
    BY <1>1 DEF CloseStream, CloseChannel, IInv, Progress, ClosingLabels, appVars
<1>3. CASE open["Stream"]
    <2>1. Whole /\ ref["Stream"]
        BY <1>3 DEF IInv, Progress, Whole, ClearLabels
    <2>2. /\ pc'[p] = "close ReceiveStream"
          /\ ~open'["Stream"] /\ open'["ReceiveStream"] = open["ReceiveStream"]
        BY <1>3, <2>1 DEF CloseStream, CloseChannel, CanClose, Goto, IInv, TypeOK
    <2>3. \A q \in Procs : pc[q] \notin PastLabels
        BY <1>3 DEF IInv, OneCloser
    <2>4. calls = 0
        BY <1>3 DEF IInv, OneCloser, TypeOK
    <2>5. OneCloser'
        <3>1. calls' = 0 /\ calls' <= 1
            BY <1>2, <2>4
        <3>2. \A q \in Procs : pc'[q] \in PastLabels => q = p
            BY <1>1, <2>3
        <3> QED
            BY <2>2, <3>1, <3>2 DEF OneCloser
    <2>6. Whole'
        BY <1>2, <2>1, <2>2 DEF Whole
    <2>7. \A q \in Procs : pc'[q] \notin ClearLabels \cup {"OnClose"}
        BY <1>1, <2>2, <2>3 DEF PastLabels, ClearLabels
    <2>8. /\ ~ref'["session"] /\ closed' /\ p \in Procs /\ pc'[p] \in PastLabels
        BY <1>2, <2>2 DEF IInv, Progress, PastLabels
    <2>9. Progress'
        BY <2>2, <2>6, <2>7, <2>8 DEF Progress
    <2> QED
        BY <2>5, <2>9
<1>4. CASE ~open["Stream"]
    <2>1. open' = open /\ pc'[p] \in {"ended", "idle"}
        BY <1>4 DEF CloseStream, CloseChannel, CanClose, AfterClose, Goto, IInv, TypeOK
    <2>2. \A q \in Procs : pc'[q] \in PastLabels => pc'[q] = pc[q]
        BY <1>1, <2>1 DEF PastLabels, ClearLabels
    <2>3. \A q \in Procs : pc[q] \in PastLabels => pc'[q] = pc[q]
        BY <1>1 DEF PastLabels, ClearLabels
    <2>4. (Whole' <=> Whole) /\ (Gone' <=> Gone)
        BY <1>2, <2>1 DEF Whole, Gone
    <2>5. OneCloser'
        BY <1>2, <2>1, <2>2 DEF IInv, OneCloser
    <2>6. Progress'
        BY <1>2, <1>4, <2>1, <2>2, <2>3, <2>4 DEF IInv, Progress, PastLabels
    <2> QED
        BY <2>5, <2>6
<1> QED
    BY <1>3, <1>4

(* What the invariant says while some goroutine is past its first close.    *)
LEMMA PastFacts ==
    ASSUME IInv, NEW p \in Procs, pc[p] \in PastLabels
    PROVE  /\ \A q \in Procs \ {p} : pc[q] \notin PastLabels
           /\ ~open["Stream"] /\ calls = 0
           /\ ~ref["session"] /\ closed
BY DEF IInv, OneCloser, Progress, ClosingLabels

\* The goroutine past the first close finds the second channel open.
LEMMA CloseReceiveStreamInv ==
    ASSUME IInv, NEW p \in Procs, CloseReceiveStream(p)
    PROVE  OneCloser' /\ Progress'
<1>1. pc[p] = "close ReceiveStream" /\ pc[p] \in PastLabels /\ Whole
    BY DEF CloseReceiveStream, PastLabels, IInv, Progress
<1>2. ref["ReceiveStream"] /\ open["ReceiveStream"]
    BY <1>1 DEF Whole, ClearLabels
<1>3. /\ pc' = [pc EXCEPT ![p] = "connectStream"]
      /\ open' = [open EXCEPT !["ReceiveStream"] = FALSE]
      /\ ref' = ref /\ closed' = closed /\ calls' = calls
    BY <1>2 DEF CloseReceiveStream, CloseChannel, CanClose, Goto, appVars
<1>4. /\ pc'[p] = "connectStream" /\ \A q \in Procs \ {p} : pc'[q] = pc[q]
      /\ ~open'["ReceiveStream"] /\ open'["Stream"] = open["Stream"]
    BY <1>3 DEF IInv, TypeOK
<1>5. \A q \in Procs : pc'[q] \in PastLabels => q = p
    BY <1>1, <1>4, PastFacts
<1>6. OneCloser'
    <2>1. calls' <= 1 /\ calls' = 0 /\ ~open'["Stream"]
        <3>1. calls = 0 /\ ~open["Stream"]
            BY <1>1, PastFacts
        <3> QED
            BY <1>3, <1>4, <3>1
    <2> QED
        BY <1>5, <2>1 DEF OneCloser
<1>7. Progress'
    <2>1. ~open'["Stream"] /\ ~ref'["session"] /\ closed'
        BY <1>1, <1>3, <1>4, PastFacts
    <2>2. pc'[p] \in PastLabels /\ Dropped[pc'[p]] = {}
        BY <1>4 DEF PastLabels, ClearLabels, Dropped
    <2>3. \A q \in Procs : pc'[q] # "close ReceiveStream"
        BY <1>4, <1>5 DEF PastLabels
    <2> QED
        BY <1>4, <1>5, <2>1, <2>2, <2>3 DEF Progress, PastLabels
<1> QED
    BY <1>6, <1>7

\* Dropping a reference keeps the invariant.
LEMMA ClearInv ==
    ASSUME IInv, NEW p \in Procs, Clear(p)
    PROVE  OneCloser' /\ Progress'
<1>1. pc[p] \in ClearLabels /\ pc[p] \in PastLabels
    BY DEF Clear, PastLabels
<1>2. /\ NextClear[pc[p]] \in ClearLabels \cup {"OnClose"}
      /\ Dropped[NextClear[pc[p]]] = Dropped[pc[p]] \cup {pc[p]}
      /\ Dropped[pc[p]] \subseteq ClearLabels
    BY <1>1 DEF NextClear, Dropped, ClearLabels
<1>3. /\ pc'[p] = NextClear[pc[p]] /\ \A q \in Procs \ {p} : pc'[q] = pc[q]
      /\ ~ref'[pc[p]]
      /\ \A f \in (ClearLabels \cup {"session"}) \ {pc[p]} : ref'[f] = ref[f]
      /\ open' = open /\ closed' = closed /\ calls' = calls
    BY <1>1 DEF Clear, Goto, IInv, TypeOK, Refs, ClearLabels, appVars
<1>4. \A q \in Procs : pc'[q] \in PastLabels => q = p
    BY <1>1, <1>3, PastFacts
<1>5. OneCloser'
    <2>1. calls' <= 1 /\ calls' = 0 /\ ~open'["Stream"]
        BY <1>1, <1>3, PastFacts
    <2> QED
        BY <1>4, <2>1 DEF OneCloser
<1>6. Progress'
    <2>1. ~open'["Stream"] /\ closed' /\ ~ref["session"]
        BY <1>1, <1>3, PastFacts
    <2>2. ~ref'["session"]
        BY <1>1, <1>3, <2>1 DEF ClearLabels
    <2>3. ~open["ReceiveStream"] /\ \A f \in Dropped[pc[p]] : ~ref[f]
        BY <1>1 DEF IInv, Progress
    <2>4. ~open'["ReceiveStream"] /\ \A f \in Dropped[pc'[p]] : ~ref'[f]
        BY <1>2, <1>3, <2>3
    <2>5. pc'[p] \in PastLabels /\ pc'[p] # "close ReceiveStream"
        BY <1>2, <1>3 DEF PastLabels, ClearLabels
    <2>6. \A q \in Procs : pc'[q] # "close ReceiveStream"
        BY <1>4, <2>5 DEF PastLabels
    <2> QED
        BY <1>4, <2>1, <2>2, <2>4, <2>5, <2>6 DEF Progress, PastLabels
<1> QED
    BY <1>5, <1>6

\* The last step of close() counts OnClose once.
LEMMA CallOnCloseInv ==
    ASSUME IInv, NEW p \in Procs, CallOnClose(p)
    PROVE  OneCloser' /\ Progress'
<1>1. pc[p] = "OnClose" /\ pc[p] \in PastLabels
    BY DEF CallOnClose, PastLabels
<1>2. Gone
    BY <1>1 DEF IInv, Progress, Dropped, Gone
<1>3. /\ pc'[p] \in {"ended", "idle"} /\ \A q \in Procs \ {p} : pc'[q] = pc[q]
      /\ ref' = ref /\ open' = open /\ closed' = closed
    BY DEF CallOnClose, Goto, AfterClose, IInv, TypeOK, objectVars
<1>4. calls' = 0 \/ calls' = 1
    <2>1. calls = 0
        BY <1>1, PastFacts
    <2>2. calls' = calls \/ calls' = calls + 1
        BY Zenon DEF CallOnClose
    <2> QED
        BY <2>1, <2>2
<1>5. \A q \in Procs : pc'[q] \notin PastLabels
    BY <1>1, <1>3, PastFacts DEF PastLabels, ClearLabels
<1>6. ~open'["Stream"] /\ ~ref'["session"] /\ closed'
    BY <1>1, <1>3, PastFacts
<1>7. OneCloser'
    <2>1. calls' <= 1
        BY <1>4
    <2> QED
        BY <1>5, <1>6, <2>1 DEF OneCloser
<1>8. Progress'
    <2>1. Gone'
        BY <1>2, <1>3 DEF Gone
    <2> QED
        BY <1>5, <1>6, <2>1 DEF Progress, PastLabels
<1> QED
    BY <1>7, <1>8

\* Every step keeps the invariant.
LEMMA NextInv ==
    ASSUME IInv, [Next]_vars
    PROVE  IInv'
<1>1. CASE Next
    <2>1. TypeOK'
        BY <1>1, NextType DEF IInv
    <2>2. Quiet \/ \E p \in Procs : TeardownStep(p)
        BY <1>1, NextIsQuietOrTeardown DEF IInv
    <2>3. OneCloser' /\ Progress'
        BY <2>2, QuietInv, MarkInv, CloseStreamInv, CloseReceiveStreamInv, ClearInv,
           CallOnCloseInv DEF TeardownStep
    <2> QED
        BY <2>1, <2>3 DEF IInv
<1>2. CASE UNCHANGED vars
    BY <1>2 DEF IInv, TypeOK, OneCloser, Progress, Whole, Gone, vars, objectVars,
                streamVars, appVars
<1> QED
    BY <1>1, <1>2

(* The invariant behind the teardown properties: one goroutine at most is   *)
(* past its first close of a channel, and what it has closed and dropped so *)
(* far is told by its place in close().                                     *)
THEOREM TeardownInvariant == Spec => []IInv
BY InitInv, NextInv, PTL DEF Spec

(* OnClose is called at most once whatever the number of goroutines that    *)
(* run close() at the same time.                                            *)
THEOREM OnCloseIsCalledAtMostOnce == Spec => []OnCloseAtMostOnce
<1>1. IInv => OnCloseAtMostOnce
    BY DEF IInv, OneCloser, OnCloseAtMostOnce
<1> QED
    BY <1>1, TeardownInvariant, PTL

(* When nobody is inside close() any more the teardown has been completed.  *)
THEOREM TeardownsAreComplete == Spec => []TeardownComplete
<1>1. IInv => TeardownComplete
    <2> SUFFICES ASSUME IInv, ~ref["session"], \A p \in Procs : ~InClose(p)
                 PROVE  closed /\ (\A ch \in Chans : ~open[ch]) /\ \A f \in ClearLabels : ~ref[f]
        BY DEF TeardownComplete
    <2>1. \A p \in Procs : pc[p] \notin ClosingLabels
        BY DEF InClose, CloseLabels, ClosingLabels, PastLabels
    <2>2. closed /\ ~open["Stream"]
        BY <2>1 DEF IInv, Progress, ClosingLabels
    <2>3. Gone
        BY <2>1, <2>2 DEF IInv, Progress, ClosingLabels
    <2> QED
        BY <2>2, <2>3 DEF Gone
<1> QED
    BY <1>1, TeardownInvariant, PTL

-----------------------------------------------------------------------------
(* Panics.                                                                 *)

(* While the session is there, every field and channel a step may use is.   *)
LEMMA NoPanicWithSession ==
    ASSUME IInv, Next, ref["session"]
    PROVE  crash' = crash
<1>1. open["Stream"] /\ Whole
    BY DEF IInv, Progress
<1>2. /\ \A l \in Loops : ref[Compared(l)]
      /\ \A s \in Streams : open[ChanOf(s)]
      /\ ref["Req"]
    BY <1>1 DEF Whole, ClearLabels, Compared, ChanOf
<1>3. ASSUME NEW l \in Loops, LoopStep(l)
      PROVE  crash' = crash
    BY <1>2, <1>3 DEF LoopStep, LoopError, CheckSession, CompareStreamId, UseSession
<1>4. ASSUME NEW s \in Streams, StreamStep(s)
      PROVE  crash' = crash
    BY <1>2, <1>4 DEF StreamStep, ReadFails, ReaderStep, OfferStream, SendPanics, Finish,
                      HandlerExpires, Receive, ReadHeader
<1>5. ASSUME NEW p \in Procs, CloseStep(p)
      PROVE  crash' = crash
    BY <1>5 DEF CloseStep, Check, Mark, CloseStream, CloseReceiveStream, CloseChannel,
                Clear, CallOnClose
<1>6. CASE Network
    BY <1>6 DEF Network, PeerEndsConnect, ConnectionLost
<1>7. CASE Application
    BY <1>2, <1>4, <1>7
    DEF Application, StreamStep, TakeSession, Register, RangeStart, RangeEnd, Call, Close,
        UseSession
<1> QED
    BY <1>3, <1>4, <1>5, <1>6, <1>7
    DEF Next, Session, StreamStep, Accept, ReceiveMessage

(* With the session gone and no window open, no step panics or opens one.   *)
LEMMA NoPanicOutsideWindows ==
    ASSUME IInv, Next, ~ref["session"], ~InWindow
    PROVE  crash' = crash /\ ~InWindow'
<1>1. /\ \A s \in Streams : stream[s] \notin {"reading", "named", "sending"}
      /\ \A l \in Acceptors : pc[l] # "compare"
      /\ \A p \in Procs : pc[p] # "use"
      /\ app # "waiting"
    BY DEF InWindow
<1> DEFINE PcShut == /\ \A l \in Acceptors : pc'[l] # "compare"
                     /\ \A p \in Procs : pc'[p] # "use"
           StreamShut == \A s \in Streams : stream'[s] \notin {"reading", "named", "sending"}
<1> SUFFICES PcShut /\ StreamShut /\ app' # "waiting" /\ crash' = crash
    BY DEF InWindow
<1>t. TypeOK
    BY DEF IInv
<1>2. ASSUME NEW p \in Procs, NEW label, Goto(p, label), label \notin {"compare", "use"}
      PROVE  PcShut
    BY <1>1, <1>2, <1>t DEF Goto, TypeOK
<1>3. ASSUME NEW s \in Streams, NEW state, Move(s, state),
             state \notin {"reading", "named", "sending"}
      PROVE  StreamShut
    BY <1>1, <1>3, <1>t DEF Move, TypeOK
<1>4. ASSUME NEW l \in Loops, LoopStep(l)
      PROVE  PcShut /\ StreamShut /\ app' = app /\ crash' = crash
    <2>1. CASE LoopError(l)
        BY <1>1, <1>2, <2>1 DEF LoopError, OnError, streamVars, appVars
    <2>2. ASSUME NEW s \in StreamsOf(l), CheckSession(l, s)
          PROVE  PcShut /\ StreamShut /\ app' = app /\ crash' = crash
        BY <1>1, <1>2, <1>3, <2>2, StreamsOfFacts DEF CheckSession, GoesOn, appVars
    <2>3. ASSUME NEW s \in StreamsOf(l), CompareStreamId(l, s)
          PROVE  FALSE
        BY <1>1, <2>3, StreamsOfFacts DEF CompareStreamId
    <2>4. CASE UseSession(l)
        BY <1>1, <2>4 DEF UseSession
    <2> QED
        BY <1>4, <2>1, <2>2, <2>3, <2>4 DEF LoopStep
<1>5. ASSUME NEW s \in Streams, StreamStep(s)
      PROVE  PcShut /\ StreamShut /\ app' = app /\ crash' = crash
    <2>1. CASE Finish(s)
        BY <1>1, <1>3, <2>1 DEF Finish, appVars
    <2>2. CASE HandlerExpires(s)
        BY <1>1, <2>2 DEF HandlerExpires, appVars
    <2>3. ~ReadFails(s) /\ ~OfferStream(s) /\ ~SendPanics(s) /\ ~Receive(s)
        BY <1>1 DEF ReadFails, OfferStream, SendPanics, Receive
    <2>4. \A wt \in BOOLEAN, id \in Ids : ~ReadHeader(s, wt, id)
        BY <1>1 DEF ReadHeader
    <2> QED
        BY <1>5, <2>1, <2>2, <2>3, <2>4 DEF StreamStep, ReaderStep
<1>6. ASSUME NEW p \in Procs, CloseStep(p)
      PROVE  PcShut /\ StreamShut /\ app' = app /\ crash' = crash
    <2>1. AfterClose(p) \notin {"compare", "use"}
        BY DEF AfterClose
    <2>2. PcShut
        <3>1. CASE Clear(p)
            <4>1. NextClear[pc[p]] \notin {"compare", "use"}
                BY <3>1 DEF Clear, NextClear, ClearLabels
            <4> QED
                BY <1>2, <3>1, <4>1 DEF Clear
        <3> QED
            BY <1>2, <1>6, <2>1, <3>1
            DEF CloseStep, Check, Mark, CloseStream, CloseReceiveStream, CloseChannel,
                CallOnClose
    <2> QED
        BY <1>1, <1>6, <2>2
        DEF CloseStep, Check, Mark, CloseStream, CloseReceiveStream, CloseChannel, Clear,
            CallOnClose, streamVars, appVars
<1>7. CASE Network
    BY <1>1, <1>7 DEF Network, PeerEndsConnect, ConnectionLost, streamVars, appVars
<1>8. ASSUME NEW c \in Callers, Call(c) \/ UseSession(c) \/ Close(c)
      PROVE  PcShut /\ StreamShut /\ app' = app /\ crash' = crash
    <2>1. ~UseSession(c)
        BY <1>1 DEF UseSession
    <2>2. PcShut
        BY <1>2, <1>8, <2>1 DEF Call, Close
    <2> QED
        BY <1>1, <1>8, <2>1, <2>2 DEF Call, Close, streamVars, appVars
<1>9. ASSUME NEW ch \in Consumed, RangeStart(ch) \/ RangeEnd(ch)
      PROVE  PcShut /\ StreamShut /\ app' = app /\ crash' = crash
    BY <1>1, <1>9 DEF RangeStart, RangeEnd, streamVars
<1>10. CASE Register
    BY <1>1, <1>10 DEF Register, streamVars
<1>11. ~TakeSession
    BY <1>1 DEF TakeSession
<1>12. ASSUME NEW l \in Loops, NEW s \in StreamsOf(l), Accept(l, s)
       PROVE  PcShut /\ StreamShut /\ app' = app /\ crash' = crash
    BY <1>1, <1>2, <1>3, <1>12, StreamsOfFacts DEF Accept, appVars
<1>13. \A id \in Ids : ~ReceiveMessage(id)
    BY DEF ReceiveMessage
<1> HIDE DEF PcShut, StreamShut
<1> QED
    BY <1>1, <1>4, <1>5, <1>6, <1>7, <1>8, <1>9, <1>10, <1>11, <1>12, <1>13
    DEF Next, Session, Application, StreamStep

(* A session whose teardown begins outside the windows never takes the      *)
(* process down: the panics of nil fields and closed channels all need a    *)
(* goroutine that was already past its nil check.                           *)
THEOREM PanicsNeedAWindow == Spec => PanicsOnlyInWindows
<1>1. IInv /\ [Next]_vars =>
        [(ref["session"] \/ ~InWindow) => crash' = crash /\ (~ref["session"] => ~InWindow')]_vars
    BY NoPanicWithSession, NoPanicOutsideWindows
<1> QED
    BY <1>1, TeardownInvariant, PTL DEF Spec, PanicsOnlyInWindows

-----------------------------------------------------------------------------
(* Streams that come after the teardown.                                   *)

\* The session that is gone stays so.
LEMMA NoSessionAgain ==
    ASSUME TypeOK, Next, ~ref["session"]
    PROVE  ~ref'["session"]
<1>1. Quiet \/ \E p \in Procs : TeardownStep(p)
    BY NextIsQuietOrTeardown
<1>2. ASSUME NEW p \in Procs, TeardownStep(p) PROVE ~ref'["session"]
    BY <1>2 DEF TeardownStep, Mark, CloseStream, CloseReceiveStream, CloseChannel, Clear,
                CallOnClose, TypeOK, Refs, ClearLabels, objectVars
<1> QED
    BY <1>1, <1>2 DEF Quiet

\* A late stream stays one while its state is among the three and no loop that was not
\* past its nil check gets there.
LEMMA LateKept ==
    ASSUME NEW s \in Streams, Late(s), ~ref'["session"], stream'[s] = stream[s],
           \A l \in Acceptors : pc'[l] = "compare" => pc[l] = "compare"
    PROVE  Late(s)'
BY DEF Late

\* No step gives a late stream a reader.
LEMMA LateNext ==
    ASSUME TypeOK, NEW s \in Streams, Late(s), Next
    PROVE  Late(s)'
<1>1. ~ref["session"] /\ ~ref'["session"]
    BY NoSessionAgain DEF Late
<1>2. stream \in [Streams -> StreamStates] /\ pc \in [Procs -> LoopLabels \cup CallerLabels]
    BY DEF TypeOK
<1>p. ASSUME NEW p \in Procs, NEW label, Goto(p, label), label # "compare"
      PROVE  \A l \in Acceptors : pc'[l] = "compare" => pc[l] = "compare"
    BY <1>2, <1>p DEF Goto
<1>3. ASSUME NEW l \in Loops, LoopStep(l) PROVE Late(s)'
    <2>1. CASE LoopError(l)
        BY <1>1, <1>p, <2>1, LateKept DEF LoopError, OnError, streamVars
    <2>2. ASSUME NEW t \in StreamsOf(l), CheckSession(l, t) PROVE Late(s)'
        <3>1. Move(t, "exited") /\ Goto(l, "ended") /\ t \in Streams
            BY <1>1, <2>2, StreamsOfFacts DEF CheckSession, GoesOn
        <3>2. stream'[s] = IF s = t THEN "exited" ELSE stream[s]
            BY <1>2, <3>1 DEF Move
        <3>3. \A k \in Acceptors : pc'[k] = "compare" => pc[k] = "compare"
            BY <1>p, <3>1
        <3> QED
            BY <1>1, <3>2, <3>3, LateKept DEF Late
    <2>3. ASSUME NEW t \in StreamsOf(l), CompareStreamId(l, t) PROVE Late(s)'
        <3>1. t # s
            BY <2>3, StreamsOfFacts DEF CompareStreamId, Late
        <3>2. stream'[s] = stream[s]
            BY <1>2, <2>3, <3>1 DEF CompareStreamId, Move
        <3>3. \A k \in Acceptors : pc'[k] = "compare" => pc[k] = "compare"
            BY <1>p, <2>3 DEF CompareStreamId
        <3> QED
            BY <1>1, <3>2, <3>3, LateKept
    <2>4. CASE UseSession(l)
        BY <1>1, <2>4, LateKept DEF UseSession, streamVars
    <2> QED
        BY <1>3, <2>1, <2>2, <2>3, <2>4 DEF LoopStep
<1>4. ASSUME NEW l \in Loops, NEW t \in StreamsOf(l), Accept(l, t) PROVE Late(s)'
    <2>1. /\ pc'[l] = "got" /\ \A k \in Procs : k # l => pc'[k] = pc[k]
          /\ stream'[t] = "held" /\ stream'[s] = IF s = t THEN "held" ELSE stream[s]
        BY <1>2, <1>4, StreamsOfFacts DEF Accept, Goto, Move
    <2>2. CASE s = t
        <3>1. \A k \in Acceptors : s \in StreamsOf(k) => k = l
            BY <1>4, <2>2, StreamsAssumption DEF StreamsOf
        <3> QED
            BY <1>1, <2>1, <2>2, <3>1 DEF Late
    <2>3. CASE s # t
        <3>1. \A k \in Acceptors : pc'[k] = "compare" => pc[k] = "compare"
            BY <2>1
        <3> QED
            BY <1>1, <2>1, <2>3, <3>1, LateKept
    <2> QED
        BY <2>2, <2>3
<1>5. \A id \in Ids : ~ReceiveMessage(id)
    BY <1>1 DEF ReceiveMessage
<1>6. ASSUME NEW t \in Streams, StreamStep(t) PROVE Late(s)'
    <2>1. stream'[s] = stream[s]
        <3>1. CASE SendPanics(t) \/ HandlerExpires(t)
            BY <3>1 DEF SendPanics, HandlerExpires, streamVars
        <3>2. CASE t = s
            BY <1>6, <3>1, <3>2 DEF StreamStep, ReaderStep, ReadFails, OfferStream, Finish,
                                    Receive, ReadHeader, Late
        <3>3. ASSUME t # s, NEW state, Move(t, state) PROVE stream'[s] = stream[s]
            BY <1>2, <3>3 DEF Move
        <3> QED
            BY <1>6, <3>1, <3>2, <3>3
            DEF StreamStep, ReaderStep, ReadFails, OfferStream, Finish, Receive, ReadHeader
    <2>2. pc' = pc
        BY <1>6 DEF StreamStep, ReadFails, ReaderStep, OfferStream, SendPanics, Finish,
                    HandlerExpires, Receive, ReadHeader
    <2> QED
        BY <1>1, <2>1, <2>2, LateKept
<1>7. ASSUME NEW p \in Procs, CloseStep(p) PROVE Late(s)'
    <2>1. \A l \in Acceptors : pc'[l] = "compare" => pc[l] = "compare"
        <3>1. AfterClose(p) # "compare"
            BY DEF AfterClose
        <3>2. CASE Clear(p)
            <4>1. NextClear[pc[p]] # "compare"
                BY <3>2 DEF Clear, NextClear, ClearLabels
            <4> QED
                BY <1>p, <3>2, <4>1 DEF Clear
        <3> QED
            BY <1>7, <1>p, <3>1, <3>2
            DEF CloseStep, Check, Mark, CloseStream, CloseReceiveStream, CloseChannel,
                CallOnClose
    <2>2. stream' = stream
        BY <1>7 DEF CloseStep, Check, Mark, CloseStream, CloseReceiveStream, CloseChannel,
                    Clear, CallOnClose, streamVars
    <2> QED
        BY <1>1, <2>1, <2>2, LateKept
<1>8. CASE Network \/ TakeSession \/ Register \/ \E ch \in Consumed : RangeStart(ch) \/ RangeEnd(ch)
    <2>1. UNCHANGED <<stream, pc>>
        BY <1>8 DEF Network, PeerEndsConnect, ConnectionLost, TakeSession, Register,
                    RangeStart, RangeEnd, streamVars
    <2> QED
        BY <1>1, <2>1, LateKept
<1>9. ASSUME NEW c \in Callers, Call(c) \/ UseSession(c) \/ Close(c) PROVE Late(s)'
    <2>1. UNCHANGED stream
        BY <1>9 DEF Call, UseSession, Close, streamVars
    <2>2. \A l \in Acceptors : pc'[l] = "compare" => pc[l] = "compare"
        BY <1>1, <1>9, <1>p DEF Call, UseSession, Close
    <2> QED
        BY <1>1, <2>1, <2>2, LateKept
<1> QED
    BY <1>3, <1>4, <1>5, <1>6, <1>7, <1>8, <1>9 DEF Next, Session, Application, StreamStep

(* A stream that comes after the teardown is dropped and stays so, for any  *)
(* number of streams, of callers, and of goroutines inside close().         *)
THEOREM LateStreamsStayDropped == Spec => LateStreamsAreDropped
<1>1. TypeOK /\ [Next]_vars => [\A s \in Streams : Late(s) => Late(s)']_vars
    <2>1. TypeOK /\ Next => \A s \in Streams : Late(s) => Late(s)'
        BY LateNext
    <2> QED
        BY <2>1
<1> QED
    BY <1>1, TypeCorrect, PTL DEF Spec, LateStreamsAreDropped

=============================================================================
