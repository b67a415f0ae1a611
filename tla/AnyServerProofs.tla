--------------------------- MODULE AnyServerProofs ---------------------------
(***************************************************************************)
(* What holds of a client with any server, for any sets of streams and     *)
(* application goroutines and whatever servers write.                      *)
(***************************************************************************)
EXTENDS AnyServer, TLAPS

USE DEF Streams, Chans, Acceptors, Loops, Procs, Refs

-----------------------------------------------------------------------------
(* The steps by what they do to the client.                                *)

\* What connect() and its streams do.
ConnectStep == \E listening \in BOOLEAN : Connect(listening)

\* The steps of a goroutine before and after close().
OuterStep(p) ==
    \/ p \in Loops /\ (Call(p) \/ LoopError(p))
    \/ p \in Loops /\ \E s \in StreamsOf(p) : Accept(p, s) \/ CompareStreamId(p, s)
    \/ p = "datagram" /\ (ReceiveMessage \/ UseSession(p))
    \/ p = "connect" /\ ReadConnectStream
    \/ p \in Callers /\ (CallMethod(p) \/ UseSession(p) \/ Close(p) \/ FinishConnectStream(p)
                         \/ CloseWithError(p))
    \/ Check(p)

\* Steps that belong to no goroutine of Procs.
StreamStep == (\E s \in Streams : Reader(s) \/ Receive(s)) \/ SetOnMessage

TeardownStep(p) ==
    \/ Mark(p) \/ Clear(p) \/ CallOnClose(p)
    \/ CloseChannel(p, "close Stream", "Stream", "close ReceiveStream")
    \/ CloseChannel(p, "close ReceiveStream", "ReceiveStream", ClearLabels[1])

\* Every step of the client is one of these.
LEMMA ClientSteps ==
    ASSUME Client(TRUE)
    PROVE  \/ ConnectStep \/ StreamStep
           \/ \E p \in Procs : OuterStep(p) \/ TeardownStep(p)
BY DEF Client, ConnectStep, StreamStep, OuterStep, TeardownStep, Loop, LoopRuns, Caller, CloseStep

-----------------------------------------------------------------------------
(* The types.                                                              *)

\* All the labels.
LEMMA LabelsAre ==
    Labels = {"off", "top", "wait", "got", "use", "finish", "abort", "ended", "check", "mark",
              "close Stream", "close ReceiveStream", "connectStream", "settingsStream",
              "ReceiveStream", "Stream", "connected", "OnClose"}
<1>1. DOMAIN ClearLabels = 1..5
    BY DEF ClearLabels
<1>2. /\ ClearLabels[1] = "connectStream" /\ ClearLabels[2] = "settingsStream"
      /\ ClearLabels[3] = "ReceiveStream" /\ ClearLabels[4] = "Stream"
      /\ ClearLabels[5] = "connected"
    BY DEF ClearLabels
<1>3. {ClearLabels[i] : i \in 1..5} = {ClearLabels[1], ClearLabels[2], ClearLabels[3],
                                      ClearLabels[4], ClearLabels[5]}
    OBVIOUS
<1> QED
    BY <1>1, <1>2, <1>3 DEF Labels, CloseLabels

\* A new client has its types.
LEMMA InitType == Init => ClientTypeOK
<1> SUFFICES ASSUME ClientInit PROVE ClientTypeOK
    BY DEF Init
<1>1. pc \in [Procs -> Labels] /\ \A p \in Callers : pc[p] = "top"
    BY LabelsAre, CallersAssumption DEF ClientInit
<1>2. ref \in [Refs -> BOOLEAN]
    <2>1. ref = [f \in Refs |-> f \in Chans]
        BY DEF ClientInit
    <2>2. \A f \in Refs : (f \in Chans) \in BOOLEAN
        OBVIOUS
    <2> HIDE DEF Refs, Chans
    <2> QED
        BY ONLY <2>1, <2>2, Zenon
<1>3. open \in [Chans -> BOOLEAN]
    BY Zenon DEF ClientInit
<1>4. stream \in [Streams -> {"none", "held", "reading", "offered", "blocked", "done"}]
    BY DEF ClientInit
<1>5. clientPath \in ClientPaths /\ connect \in ConnectStages /\ crash \in Crashes
    BY DEF ClientInit, ConnectStages, Crashes
<1>6. connected \in BOOLEAN /\ onMessage \in BOOLEAN /\ calls \in Nat
    BY DEF ClientInit
<1>7. \A p \in Callers : pc[p] \notin {"off", "wait", "got", "ended"}
    BY <1>1
<1> QED
    BY <1>1, <1>2, <1>3, <1>4, <1>5, <1>6, <1>7 DEF ClientTypeOK

\* A label that fits the goroutine.
Fits(p, label) ==
    /\ label \in Labels
    /\ p \in Callers => label \notin {"off", "wait", "got", "ended"}

\* Moving a goroutine to a label that fits it keeps the types of pc.
LEMMA GotoType ==
    ASSUME ClientTypeOK, NEW p \in Procs, NEW label, Fits(p, label), Goto(p, label)
    PROVE  /\ pc' \in [Procs -> Labels]
           /\ \A q \in Callers : pc'[q] \notin {"off", "wait", "got", "ended"}
BY DEF ClientTypeOK, Fits, Goto

\* After close(), and at its start, a goroutine is where it may be.
LEMMA CheckedFits ==
    ASSUME NEW p \in Procs
    PROVE  Fits(p, Checked(p)) /\ Fits(p, AfterClose(p))
BY CallersAssumption DEF Checked, AfterClose, Fits, Labels, CloseLabels

\* Connect() keeps the types.
LEMMA ConnectType ==
    ASSUME ClientTypeOK, ConnectStep
    PROVE  ClientTypeOK'
<1> USE DEF ClientTypeOK, ConnectStages, Connects
<1>1. ASSUME NEW listening \in BOOLEAN, Dial(listening)
      PROVE  ClientTypeOK'
    BY ZenonT(60), <1>1 DEF Dial
<1>2. CASE AcceptControl \/ OpenControl \/ OpenRequest
    BY <1>2 DEF AcceptControl, OpenControl, OpenRequest, SetsConnectStream
<1>3. CASE ReadSettings
    <2>1. ref' = [ref EXCEPT !["settingsStream"] = TRUE] \/ ref' = ref
        BY <1>3 DEF ReadSettings
    <2>2. Connects("settings", "open") \/ Connects("settings", "error")
        BY <1>3 DEF ReadSettings
    <2>3. UNCHANGED <<connected, pc>>
        BY <1>3 DEF ReadSettings
    <2> QED
        BY <2>1, <2>2, <2>3
<1>4. CASE WriteRequest
    <2>1. Connects("write", "error") \/ Connects("write", "response")
        BY <1>4 DEF WriteRequest
    <2>2. UNCHANGED <<ref, connected, pc>>
        BY <1>4 DEF WriteRequest
    <2> QED
        BY <2>1, <2>2
<1>5. CASE ReadResponse
    <2>1. Connects("response", "error") \/ Connects("response", "accepted")
        BY <1>5 DEF ReadResponse
    <2>2. UNCHANGED <<ref, connected, pc>>
        BY <1>5 DEF ReadResponse
    <2> QED
        BY <2>1, <2>2
<1>6. CASE Succeed
    BY <1>6, CallersAssumption DEF Succeed, Labels
<1>7. CASE ConnectFails
    BY <1>7 DEF ConnectFails
<1> QED
    BY <1>1, <1>2, <1>3, <1>4, <1>5, <1>6, <1>7 DEF ConnectStep, Connect

\* The readers, the range loop and SetOnMessage keep the types.
LEMMA StreamType ==
    ASSUME ClientTypeOK, StreamStep
    PROVE  ClientTypeOK'
<1> USE DEF ClientTypeOK, objectVars, Panic, Move, Crashes
<1>1. ASSUME NEW s \in Streams, ReadHeader(s)
      PROVE  ClientTypeOK'
    BY <1>1 DEF ReadHeader
<1>2. ASSUME NEW s \in Streams, ReadFails(s) \/ OfferPanics(s) \/ Receive(s)
      PROVE  ClientTypeOK'
    BY <1>2 DEF ReadFails, OfferPanics, Receive
<1>3. CASE SetOnMessage
    BY <1>3 DEF SetOnMessage
<1> QED
    BY <1>1, <1>2, <1>3 DEF StreamStep, Reader

-----------------------------------------------------------------------------
(* Steps outside close() move one goroutine between labels outside it, and *)
(* leave everything that close() changes alone.                            *)

Inside == {"close Stream", "close ReceiveStream", "connectStream", "settingsStream",
           "ReceiveStream", "Stream", "connected", "OnClose"}

Quiet ==
    /\ UNCHANGED <<connect, objectVars, calls>>
    /\ \/ pc' = pc
       \/ \E p \in Procs, label \in Labels \ Inside :
              /\ pc[p] \notin Inside
              /\ Goto(p, label)
              /\ Fits(p, label)
              /\ p \in Loops =>
                     /\ pc[p] # "off"
                     /\ pc[p] = "top" => ref["session"] \/ ref["connectStream"]
              /\ p \in Callers =>
                     \/ pc[p] \notin {"top", "finish"}
                     \/ pc[p] = "top" /\ label = "finish"
                     \/ connected \/ ref["connectStream"]

\* The readers, the range loop and SetOnMessage are quiet.
LEMMA StreamQuiet ==
    ASSUME StreamStep
    PROVE  Quiet
BY DEF StreamStep, Reader, ReadHeader, ReadFails, OfferPanics, Receive, SetOnMessage, Panic, Quiet

\* Where a goroutine may go from the start of close() is outside what counts.
LEMMA CheckedOutside ==
    ASSUME NEW p \in Procs
    PROVE  Checked(p) \in Labels \ Inside
BY DEF Checked, AfterClose, Inside, Labels, CloseLabels

\* So are the goroutines before and after close().
LEMMA OuterQuiet ==
    ASSUME ClientTypeOK, NEW p \in Procs, OuterStep(p)
    PROVE  Quiet /\ ClientTypeOK'
<1> USE CallersAssumption DEF Panic, objectVars
<1>1. Labels \ Inside = {"off", "top", "wait", "got", "use", "finish", "abort", "ended",
                         "check", "mark"}
    BY LabelsAre DEF Inside
<1>2. ASSUME Quiet, UNCHANGED <<clientPath, connect>>,
             stream' \in [Streams -> {"none", "held", "reading", "offered", "blocked", "done"}],
             onMessage' \in BOOLEAN, crash' \in Crashes
      PROVE  ClientTypeOK'
    <2>1. CASE pc' = pc
        BY <1>2, <2>1 DEF Quiet, ClientTypeOK
    <2>2. ASSUME NEW q \in Procs, NEW label \in Labels, Goto(q, label), Fits(q, label)
          PROVE  ClientTypeOK'
        BY <1>2, <2>2, GotoType DEF Quiet, ClientTypeOK
    <2> QED
        BY <1>2, <2>1, <2>2 DEF Quiet
<1>3. CASE p \in Loops /\ Call(p)
    <2>1. Quiet
        BY <1>1, <1>3 DEF Call, Called, Quiet, Fits, Inside
    <2> QED
        BY <1>3, <1>2, <2>1 DEF Call, Called, ClientTypeOK, Crashes
<1>4. CASE p \in Loops /\ LoopError(p)
    <2>1. Quiet
        BY <1>1, <1>4, CheckedFits, CheckedOutside DEF LoopError, OnError, Quiet, Inside
    <2> QED
        BY <1>4, <1>2, <2>1 DEF LoopError, OnError, ClientTypeOK, Crashes
<1>5. ASSUME p \in Loops, NEW s \in StreamsOf(p), Accept(p, s) \/ CompareStreamId(p, s)
      PROVE  Quiet /\ ClientTypeOK'
    <2>1. Quiet
        BY <1>1, <1>5 DEF Accept, CompareStreamId, Compared, Quiet, Fits, Inside
    <2>2. s \in Streams
        BY <1>5 DEF StreamsOf
    <2> QED
        BY <1>5, <1>2, <2>1, <2>2 DEF Accept, CompareStreamId, Compared, Move, ClientTypeOK, Crashes
<1>6. CASE p = "datagram" /\ ReceiveMessage
    <2>1. Quiet
        BY <1>1, <1>6 DEF ReceiveMessage, Quiet, Fits, Inside
    <2> QED
        BY <1>6, <1>2, <2>1 DEF ReceiveMessage, ClientTypeOK
<1>7. CASE UseSession(p)
    <2>1. Quiet
        BY <1>1, <1>7 DEF UseSession, Quiet, Fits, Inside
    <2> QED
        BY <1>7, <1>2, <2>1 DEF UseSession, ClientTypeOK, Crashes
<1>8. CASE p = "connect" /\ ReadConnectStream
    <2>1. Quiet
        BY <1>1, <1>8 DEF ReadConnectStream, Quiet, Fits, Inside
    <2> QED
        BY <1>8, <1>2, <2>1 DEF ReadConnectStream, ClientTypeOK
<1>9. CASE p \in Callers /\ (CallMethod(p) \/ Close(p))
    <2>1. Quiet
        BY <1>1, <1>9 DEF CallMethod, Close, Quiet, Fits, Inside
    <2> QED
        BY <1>9, <1>2, <2>1 DEF CallMethod, Close, ClientTypeOK
<1>10. CASE p \in Callers /\ (FinishConnectStream(p) \/ CloseWithError(p))
    <2>1. Quiet
        BY <1>1, <1>10 DEF FinishConnectStream, CloseWithError, Quiet, Fits, Inside
    <2> QED
        BY <1>10, <1>2, <2>1 DEF FinishConnectStream, CloseWithError, ClientTypeOK, Crashes
<1>11. CASE Check(p)
    <2>1. Quiet
        BY <1>1, <1>11, CheckedFits, CheckedOutside DEF Check, Quiet, Inside
    <2> QED
        BY <1>11, <1>2, <2>1 DEF Check, ClientTypeOK
<1> QED
    BY <1>3, <1>4, <1>5, <1>6, <1>7, <1>8, <1>9, <1>10, <1>11 DEF OuterStep

-----------------------------------------------------------------------------
(* The teardown.                                                           *)

\* The five assignments of close() one by one.
Clears(p, at, next) ==
    /\ pc[p] = at
    /\ Goto(p, next)
    /\ ref' = [f \in Refs |-> ref[f] /\ f # at]
    /\ connected' = (connected /\ at # "connected")
    /\ UNCHANGED <<clientPath, connect, open, stream, onMessage, calls, crash>>

\* Clear is one of them.
LEMMA ClearIs ==
    ASSUME NEW p \in Procs, Clear(p)
    PROVE  \/ Clears(p, "connectStream", "settingsStream")
           \/ Clears(p, "settingsStream", "ReceiveStream")
           \/ Clears(p, "ReceiveStream", "Stream")
           \/ Clears(p, "Stream", "connected")
           \/ Clears(p, "connected", "OnClose")
<1>1. DOMAIN ClearLabels = 1..5 /\ Len(ClearLabels) = 5
    BY DEF ClearLabels
<1>2. /\ ClearLabels[1] = "connectStream" /\ ClearLabels[2] = "settingsStream"
      /\ ClearLabels[3] = "ReceiveStream" /\ ClearLabels[4] = "Stream"
      /\ ClearLabels[5] = "connected"
    BY DEF ClearLabels
<1>3. PICK i \in 1..5 : /\ pc[p] = ClearLabels[i]
                        /\ ref' = [f \in Refs |-> ref[f] /\ f # ClearLabels[i]]
                        /\ connected' = (connected /\ ClearLabels[i] # "connected")
                        /\ Goto(p, AfterClear(i))
    BY <1>1 DEF Clear
<1>4. /\ AfterClear(1) = "settingsStream" /\ AfterClear(2) = "ReceiveStream"
      /\ AfterClear(3) = "Stream" /\ AfterClear(4) = "connected" /\ AfterClear(5) = "OnClose"
    BY <1>1, <1>2 DEF AfterClear
<1>5. UNCHANGED <<clientPath, connect, open, stream, onMessage, calls, crash>>
    BY DEF Clear
<1>6. i = 1 \/ i = 2 \/ i = 3 \/ i = 4 \/ i = 5
    OBVIOUS
<1> QED
    BY <1>2, <1>3, <1>4, <1>5, <1>6 DEF Clears

\* The assignments keep the types.
LEMMA ClearType ==
    ASSUME ClientTypeOK, NEW p \in Procs, NEW at \in Labels, NEW next \in Inside,
           Clears(p, at, next)
    PROVE  ClientTypeOK'
<1>1. Fits(p, next)
    BY LabelsAre DEF Fits, Inside
<1>2. ref' \in [Refs -> BOOLEAN]
    BY Zenon DEF Clears
<1>3. connected' \in BOOLEAN
    BY DEF Clears
<1>4. /\ pc' \in [Procs -> Labels]
      /\ \A q \in Callers : pc'[q] \notin {"off", "wait", "got", "ended"}
    BY <1>1, GotoType DEF Clears
<1> QED
    BY <1>2, <1>3, <1>4 DEF Clears, ClientTypeOK

\* The steps of close() keep the types.
LEMMA TeardownType ==
    ASSUME ClientTypeOK, NEW p \in Procs, TeardownStep(p)
    PROVE  ClientTypeOK'
<1>1. /\ \A label \in Inside : Fits(p, label)
      /\ Inside \subseteq Labels
    BY LabelsAre DEF Fits, Inside
<1>2. CASE Mark(p)
    BY <1>1, <1>2, GotoType DEF Mark, Inside, ClientTypeOK
<1>3. CASE Clear(p)
    BY <1>1, <1>3, ClearIs, ClearType DEF Inside
<1>4. CASE CallOnClose(p)
    <2>1. /\ pc' \in [Procs -> Labels]
          /\ \A q \in Callers : pc'[q] \notin {"off", "wait", "got", "ended"}
        BY <1>4, CheckedFits, GotoType DEF CallOnClose
    <2>2. calls' \in Nat
        BY <1>4 DEF CallOnClose, ClientTypeOK
    <2> QED
        BY <1>4, <2>1, <2>2 DEF CallOnClose, objectVars, ClientTypeOK
<1>5. ASSUME NEW at, NEW ch \in Chans, NEW next \in Inside, CloseChannel(p, at, ch, next)
      PROVE  ClientTypeOK'
    <2>1. CASE CanClose(ch)
        BY <1>1, <1>5, <2>1, GotoType DEF CloseChannel, ClientTypeOK
    <2>2. CASE ~CanClose(ch)
        BY <1>5, <2>2 DEF CloseChannel, Panic, Crashes, ClientTypeOK
    <2> QED
        BY <2>1, <2>2
<1>6. ClearLabels[1] = "connectStream"
    BY DEF ClearLabels
<1> QED
    BY <1>2, <1>3, <1>4, <1>5, <1>6 DEF TeardownStep, Inside

(* Every variable of a client stays in its set, in whatever order Connect,  *)
(* the loops, the readers and the methods run.                              *)
THEOREM TypeCorrect == Spec => []ClientTypeOK
<1>1. ASSUME ClientTypeOK, [Next]_vars
      PROVE  ClientTypeOK'
    <2>1. CASE UNCHANGED clientVars
        BY <1>1, <2>1 DEF clientVars, objectVars, ClientTypeOK
    <2>2. CASE Client(TRUE)
        BY <1>1, <2>2, ClientSteps, ConnectType, StreamType, OuterQuiet, TeardownType
    <2> QED
        BY <1>1, <2>1, <2>2 DEF Next, Environment, vars
<1> QED
    BY <1>1, InitType, PTL DEF Spec

-----------------------------------------------------------------------------
(* The inductive invariant.  No flag and no recover keeps a second close()  *)
(* out: the channel it would close again does.                              *)

Past == Inside \ {"close Stream"}

\* Nothing can be torn down before Connect() has opened its request, and the loops
\* start when it succeeds.
Early ==
    /\ connect \in {"dial", "control", "settings", "open", "request"} =>
           /\ ~ref["connectStream"]
           /\ calls = 0
           /\ \A p \in Callers : pc[p] \in {"top", "finish"}
    /\ connect # "ok" => ~connected /\ \A l \in Loops : pc[l] = "off"

\* One goroutine gets past its first close of a channel.
OneCloser ==
    /\ \A p, q \in Procs : pc[p] \in Past /\ pc[q] \in Past => p = q
    /\ open["Stream"] => calls = 0
    /\ calls <= 1

\* What a loop that starts after the teardown would use is gone.
NoneRuns == connected => \A l \in Loops : pc[l] = "top"

\* Where that goroutine is tells what has been closed and dropped.
Progress ==
    \A p \in Procs :
        /\ pc[p] \in Inside => ~ref["session"]
        /\ pc[p] \in Past => ~open["Stream"] /\ calls = 0
        /\ pc[p] \in Past \ {"close ReceiveStream"} => ~open["ReceiveStream"]
        /\ pc[p] \in {"settingsStream", "ReceiveStream", "Stream", "connected", "OnClose"} =>
               ~ref["connectStream"]
        /\ pc[p] \in {"ReceiveStream", "Stream", "connected", "OnClose"} => ~ref["settingsStream"]
        /\ pc[p] \in {"Stream", "connected", "OnClose"} => ~ref["ReceiveStream"]
        /\ pc[p] \in {"connected", "OnClose"} => ~ref["Stream"]
        /\ pc[p] = "OnClose" => NoneRuns

Complete ==
    calls > 0 =>
        /\ \A f \in Refs : ~ref[f]
        /\ \A ch \in Chans : ~open[ch]
        /\ NoneRuns

IInv == ClientTypeOK /\ Early /\ OneCloser /\ Progress /\ Complete

\* A new client has not been torn down.
LEMMA InitInv == Init => IInv
<1> SUFFICES ASSUME Init PROVE IInv
    OBVIOUS
<1>1. ClientTypeOK
    BY InitType
<1>2. \A p \in Procs : pc[p] \notin Inside
    BY DEF Init, ClientInit, Inside
<1>3. \A p \in Callers : pc[p] = "top"
    BY CallersAssumption DEF Init, ClientInit
<1>4. calls = 0 /\ connect = "dial" /\ ~connected
    BY DEF Init, ClientInit
<1>5. ~ref["connectStream"]
    BY DEF Init, ClientInit
<1>6. \A l \in Loops : pc[l] = "off"
    BY DEF Init, ClientInit
<1>7. Early
    BY <1>3, <1>4, <1>5, <1>6 DEF Early
<1>8. OneCloser
    <2>1. \A p, q \in Procs : pc[p] \in Past /\ pc[q] \in Past => p = q
        BY <1>2 DEF Past
    <2>2. calls <= 1
        BY <1>4
    <2> QED
        BY <1>4, <2>1, <2>2 DEF OneCloser
<1>9. Progress
    BY <1>2 DEF Progress, Past, Inside
<1> QED
    BY <1>1, <1>4, <1>7, <1>8, <1>9 DEF IInv, Complete

\* A quiet step keeps the invariant: the goroutine it moves was and is outside, and
\* no loop moves from its top when the fields are gone.
LEMMA QuietInv ==
    ASSUME IInv, Quiet, ClientTypeOK'
    PROVE  IInv'
<1> USE DEF objectVars
<1>1. CASE pc' = pc
    BY <1>1 DEF Quiet, IInv, Early, OneCloser, Progress, Complete, NoneRuns
<1>2. ASSUME NEW p \in Procs, NEW label \in Labels \ Inside, pc[p] \notin Inside,
             pc' = [pc EXCEPT ![p] = label],
             p \in Loops => /\ pc[p] # "off"
                            /\ pc[p] = "top" => ref["session"] \/ ref["connectStream"],
             p \in Callers => \/ pc[p] \notin {"top", "finish"}
                              \/ pc[p] = "top" /\ label = "finish"
                              \/ connected \/ ref["connectStream"]
      PROVE  IInv'
    <2>1. UNCHANGED <<connect, ref, connected, open, calls>>
        BY DEF Quiet
    <2>2. \A q \in Procs : pc'[q] = IF q = p THEN label ELSE pc[q]
        BY <1>2 DEF IInv, ClientTypeOK
    <2>3. \A q \in Procs : pc'[q] \in Inside => q # p /\ pc'[q] = pc[q]
        BY <1>2, <2>2
    <2>4. Early'
        BY <1>2, <2>1, <2>2 DEF IInv, Early
    <2>5. OneCloser'
        BY <2>1, <2>3 DEF IInv, OneCloser, Past
    <2>6. ASSUME NoneRuns, ~ref["session"], ~ref["connectStream"]
          PROVE  NoneRuns'
        BY <1>2, <2>1, <2>2, <2>6 DEF NoneRuns
    <2>7. Progress'
        BY <2>1, <2>3, <2>6 DEF IInv, Progress, Past, Inside
    <2>8. Complete'
        BY <2>1, <2>6 DEF IInv, Complete
    <2> QED
        BY <2>4, <2>5, <2>7, <2>8 DEF IInv
<1> QED
    BY <1>1, <1>2 DEF Quiet, Goto

\* A step that changes nothing of the client keeps the invariant.
LEMMA StutterInv ==
    ASSUME IInv, UNCHANGED clientVars
    PROVE  IInv'
<1>1. ClientTypeOK'
    BY DEF clientVars, objectVars, IInv, ClientTypeOK
<1>2. Quiet
    BY DEF clientVars, Quiet
<1> QED
    BY <1>1, <1>2, QuietInv

\* Connect() keeps the invariant: when it sets a field, nobody is in close() yet,
\* and when it starts the loops they are at their top.
LEMMA ConnectInv ==
    ASSUME IInv, ConnectStep, ClientTypeOK'
    PROVE  IInv'
<1> USE DEF Connects
<1>1. /\ UNCHANGED <<open, calls>>
      /\ connect' # connect
    BY DEF ConnectStep, Connect, Dial, AcceptControl, ReadSettings, OpenControl, OpenRequest,
           WriteRequest, ReadResponse, Succeed, ConnectFails
<1>2. ASSUME connect \in {"dial", "control", "settings", "open", "request"},
             connect' # "ok",
             connect' \in {"dial", "control", "settings", "open", "request"} =>
                 ~ref'["connectStream"],
             UNCHANGED <<connected, pc>>
      PROVE  IInv'
    <2>1. Early'
        BY <1>1, <1>2 DEF IInv, Early
    <2>2. \A p \in Procs : pc[p] \notin Inside
        BY <1>2 DEF IInv, Early, Inside
    <2>3. OneCloser'
        BY <1>1, <1>2 DEF IInv, OneCloser
    <2>4. Progress'
        BY <1>2, <2>2 DEF Progress, Past, Inside
    <2>5. Complete'
        BY <1>1, <1>2 DEF IInv, Early, Complete
    <2> QED
        BY <2>1, <2>3, <2>4, <2>5 DEF IInv
<1>3. ASSUME connect' \notin {"dial", "control", "settings", "open", "request", "ok"},
             connect # "ok",
             UNCHANGED <<ref, connected, pc>>
      PROVE  IInv'
    <2>1. Early'
        BY <1>3 DEF IInv, Early
    <2>2. OneCloser' /\ Progress' /\ Complete'
        BY <1>1, <1>3 DEF IInv, OneCloser, Progress, Complete, NoneRuns
    <2> QED
        BY <2>1, <2>2 DEF IInv
<1>4. ASSUME NEW listening \in BOOLEAN, Dial(listening)
      PROVE  IInv'
    BY <1>2, <1>4 DEF Dial, IInv, ClientTypeOK, Early
<1>5. CASE AcceptControl \/ OpenControl
    BY <1>2, <1>5 DEF AcceptControl, OpenControl, IInv, Early
<1>6. CASE ReadSettings
    <2>1. Connects("settings", "open") \/ Connects("settings", "error")
        BY <1>6 DEF ReadSettings
    <2>2. ref'["connectStream"] = ref["connectStream"]
        BY <1>6 DEF ReadSettings, IInv, ClientTypeOK
    <2>3. UNCHANGED <<connected, pc>>
        BY <1>6 DEF ReadSettings
    <2> QED
        BY <1>2, <2>1, <2>2, <2>3 DEF IInv, Early
<1>7. CASE OpenRequest
    BY <1>2, <1>7 DEF OpenRequest
<1>8. CASE WriteRequest
    <2>1. Connects("write", "error") \/ Connects("write", "response")
        BY <1>8 DEF WriteRequest
    <2>2. UNCHANGED <<ref, connected, pc>>
        BY <1>8 DEF WriteRequest
    <2> QED
        BY <1>3, <2>1, <2>2
<1>9. CASE ReadResponse
    <2>1. Connects("response", "error") \/ Connects("response", "accepted")
        BY <1>9 DEF ReadResponse
    <2>2. UNCHANGED <<ref, connected, pc>>
        BY <1>9 DEF ReadResponse
    <2> QED
        BY <1>3, <2>1, <2>2
<1>10. CASE ConnectFails
    BY <1>3, <1>10 DEF ConnectFails
<1>11. CASE Succeed
    <2>1. /\ connect' = "ok"
          /\ UNCHANGED ref
          /\ \A p \in Procs : pc'[p] = IF p \in Loops THEN "top" ELSE pc[p]
        BY <1>11 DEF Succeed
    <2>2. \A p \in Procs : pc'[p] \in Inside => pc'[p] = pc[p]
        BY <2>1 DEF Inside
    <2>3. NoneRuns'
        BY <2>1 DEF NoneRuns
    <2>4. Early'
        BY <2>1 DEF Early
    <2>5. OneCloser'
        BY <1>1, <2>2 DEF IInv, OneCloser, Past
    <2>6. Progress'
        BY <1>1, <2>1, <2>2, <2>3 DEF IInv, Progress, Past, Inside
    <2>7. Complete'
        BY <1>1, <2>1, <2>3 DEF IInv, Complete
    <2> QED
        BY <2>4, <2>5, <2>6, <2>7 DEF IInv
<1> QED
    BY <1>4, <1>5, <1>6, <1>7, <1>8, <1>9, <1>10, <1>11 DEF ConnectStep, Connect

\* A goroutine in close() that moves on leaves the loops that have not run, and
\* whatever holds before the request is opened.
LEMMA CloserMoves ==
    ASSUME IInv, NEW p \in Procs, NEW label, pc[p] \in Inside \cup {"mark"}, Goto(p, label),
           connect' = connect, connected' => connected
    PROVE  /\ Early'
           /\ NoneRuns => NoneRuns'
           /\ pc'[p] = label
           /\ \A q \in Procs : q # p => pc'[q] = pc[q]
<1>1. /\ pc'[p] = label
      /\ \A q \in Procs : q # p => pc'[q] = pc[q]
    BY DEF IInv, ClientTypeOK, Goto
<1>2. pc[p] \notin {"off", "top", "finish"}
    BY DEF Inside
<1>3. connect \notin {"dial", "control", "settings", "open", "request"}
    <2>1. CASE p \in Loops
        BY <1>2, <2>1 DEF IInv, Early
    <2>2. CASE p \in Callers
        BY <1>2, <2>2 DEF IInv, Early
    <2> QED
        BY <2>1, <2>2
<1>4. p \in Loops => connect = "ok"
    BY <1>2 DEF IInv, Early
<1>5. Early'
    BY <1>1, <1>3, <1>4 DEF IInv, Early
<1>6. NoneRuns => NoneRuns'
    BY <1>1, <1>2 DEF NoneRuns
<1> QED
    BY <1>1, <1>5, <1>6

\* The first close of a channel: Stream is open, so nobody has been here before.
LEMMA CloseStreamInv ==
    ASSUME IInv, ClientTypeOK', NEW p \in Procs,
           CloseChannel(p, "close Stream", "Stream", "close ReceiveStream")
    PROVE  IInv'
<1>1. CASE ~CanClose("Stream")
    <2>1. Quiet
        BY <1>1 DEF CloseChannel, Panic, Quiet, objectVars
    <2> QED
        BY <2>1, QuietInv
<1>2. CASE CanClose("Stream")
    <2>1. /\ pc[p] = "close Stream"
          /\ Goto(p, "close ReceiveStream")
          /\ UNCHANGED <<connect, ref, connected, calls>>
        BY <1>2 DEF CloseChannel
    <2>2. ~open'["Stream"]
        BY <1>2 DEF CloseChannel, IInv, ClientTypeOK
    <2>3. /\ calls = 0
          /\ \A q \in Procs : pc[q] \notin Past
        BY <1>2 DEF CanClose, IInv, OneCloser, Progress
    <2>4. /\ Early'
          /\ pc'[p] = "close ReceiveStream"
          /\ \A q \in Procs : q # p => pc'[q] = pc[q]
        BY <2>1, CloserMoves DEF Inside
    <2>5. calls' = 0
        BY <2>1, <2>3
    <2>6. calls' <= 1 /\ ~(calls' > 0)
        BY ONLY <2>5
    <2>7. \A q \in Procs : q # p => pc'[q] \notin Past
        BY <2>3, <2>4
    <2>8. OneCloser'
        BY <2>2, <2>7, <2>6 DEF OneCloser
    <2>9. ~ref["session"]
        BY <2>1 DEF IInv, Progress, Inside
    <2>10. Progress'
        BY <2>1, <2>2, <2>3, <2>4, <2>7, <2>9 DEF Progress, Past, Inside
    <2>11. Complete'
        BY <2>6 DEF Complete
    <2> QED
        BY <2>4, <2>8, <2>10, <2>11 DEF IInv
<1> QED
    BY <1>1, <1>2

\* A step of the one goroutine that is past it.
LEMMA PastInv ==
    ASSUME IInv, ClientTypeOK', NEW p \in Procs, NEW label, pc[p] \in Past, Goto(p, label),
           connect' = connect, connected' => connected, calls' = calls,
           \A f \in Refs : ref'[f] => ref[f],
           \A ch \in Chans : open'[ch] => open[ch],
           label \in Past,
           label # "close ReceiveStream" => ~open'["ReceiveStream"],
           label \in {"settingsStream", "ReceiveStream", "Stream", "connected", "OnClose"} =>
               ~ref'["connectStream"],
           label \in {"ReceiveStream", "Stream", "connected", "OnClose"} =>
               ~ref'["settingsStream"],
           label \in {"Stream", "connected", "OnClose"} => ~ref'["ReceiveStream"],
           label \in {"connected", "OnClose"} => ~ref'["Stream"],
           label = "OnClose" => ~connected'
    PROVE  IInv'
<1>1. /\ Early'
      /\ pc'[p] = label
      /\ \A q \in Procs : q # p => pc'[q] = pc[q]
    BY CloserMoves DEF Past
<1>2. /\ ~ref["session"] /\ ~open["Stream"] /\ calls = 0
      /\ \A q \in Procs : q # p => pc[q] \notin Past
    BY DEF IInv, OneCloser, Progress, Past
<1>3. ~ref'["session"] /\ ~open'["Stream"]
    BY <1>2
<1>4. calls' = 0
    BY <1>2
<1>5. calls' <= 1 /\ ~(calls' > 0)
    BY ONLY <1>4
<1>6. ASSUME NEW q \in Procs, q # p
      PROVE  pc'[q] \notin Past
    BY <1>1, <1>2, <1>6
<1>7. OneCloser'
    BY <1>3, <1>6, <1>5 DEF OneCloser
<1>8. label = "OnClose" => NoneRuns'
    BY DEF NoneRuns
<1>9. Progress'
    BY <1>1, <1>2, <1>3, <1>6, <1>8 DEF Progress, Past, Inside
<1>10. Complete'
    BY <1>5 DEF Complete
<1> QED
    BY <1>1, <1>7, <1>9, <1>10 DEF IInv

\* The second close of a channel and the five assignments.
LEMMA DropInv ==
    ASSUME IInv, ClientTypeOK', NEW p \in Procs,
           \/ CloseChannel(p, "close ReceiveStream", "ReceiveStream", ClearLabels[1])
           \/ Clear(p)
    PROVE  IInv'
<1>1. pc[p] \in Past => Progress
    BY DEF IInv
<1>2. CASE CloseChannel(p, "close ReceiveStream", "ReceiveStream", ClearLabels[1])
    <2>1. CASE ~CanClose("ReceiveStream")
        <3>1. Quiet
            BY <1>2, <2>1 DEF CloseChannel, Panic, Quiet, objectVars
        <3> QED
            BY <3>1, QuietInv
    <2>2. CASE CanClose("ReceiveStream")
        <3>1. ClearLabels[1] = "connectStream"
            BY DEF ClearLabels
        <3>2. /\ pc[p] = "close ReceiveStream"
              /\ Goto(p, "connectStream")
              /\ UNCHANGED <<connect, ref, connected, calls>>
              /\ open' = [open EXCEPT !["ReceiveStream"] = FALSE]
            BY <1>2, <2>2, <3>1 DEF CloseChannel
        <3>3. /\ ~open'["ReceiveStream"]
              /\ \A ch \in Chans : open'[ch] => open[ch]
            BY <3>2 DEF IInv, ClientTypeOK
        <3>4. pc[p] \in Past /\ "connectStream" \in Past
            BY <3>2 DEF Past, Inside
        <3> QED
            BY <3>2, <3>3, <3>4, PastInv
    <2> QED
        BY <2>1, <2>2
<1>3. ASSUME NEW at, NEW next, at \in Past, next \in Past, Clears(p, at, next)
      PROVE  /\ pc[p] \in Past
             /\ Goto(p, next)
             /\ UNCHANGED <<connect, calls, open>>
             /\ connected' => connected
             /\ \A f \in Refs : ref'[f] => ref[f] /\ f # at
             /\ at = "connected" => ~connected'
             /\ \A ch \in Chans : open'[ch] => open[ch]
    BY <1>3 DEF Clears
<1> USE DEF Past, Inside
<1>4. CASE Clears(p, "connectStream", "settingsStream")
    <2>1. pc[p] = "connectStream"
        BY <1>4 DEF Clears
    <2>2. ~open'["ReceiveStream"] /\ ~ref'["connectStream"]
        BY <1>3, <1>4, <2>1 DEF IInv, Progress
    <2> QED
        BY <1>3, <1>4, <2>2, PastInv
<1>5. CASE Clears(p, "settingsStream", "ReceiveStream")
    <2>1. pc[p] = "settingsStream"
        BY <1>5 DEF Clears
    <2>2. ~open'["ReceiveStream"] /\ ~ref'["connectStream"] /\ ~ref'["settingsStream"]
        BY <1>3, <1>5, <2>1 DEF IInv, Progress
    <2> QED
        BY <1>3, <1>5, <2>2, PastInv
<1>6. CASE Clears(p, "ReceiveStream", "Stream")
    <2>1. pc[p] = "ReceiveStream"
        BY <1>6 DEF Clears
    <2>2. /\ ~open'["ReceiveStream"] /\ ~ref'["connectStream"] /\ ~ref'["settingsStream"]
          /\ ~ref'["ReceiveStream"]
        BY <1>3, <1>6, <2>1 DEF IInv, Progress
    <2> QED
        BY <1>3, <1>6, <2>2, PastInv
<1>7. CASE Clears(p, "Stream", "connected")
    <2>1. pc[p] = "Stream"
        BY <1>7 DEF Clears
    <2>2. /\ ~open'["ReceiveStream"] /\ ~ref'["connectStream"] /\ ~ref'["settingsStream"]
          /\ ~ref'["ReceiveStream"] /\ ~ref'["Stream"]
        BY <1>3, <1>7, <2>1 DEF IInv, Progress
    <2> QED
        BY <1>3, <1>7, <2>2, PastInv
<1>8. CASE Clears(p, "connected", "OnClose")
    <2>1. pc[p] = "connected"
        BY <1>8 DEF Clears
    <2>2. /\ ~open'["ReceiveStream"] /\ ~ref'["connectStream"] /\ ~ref'["settingsStream"]
          /\ ~ref'["ReceiveStream"] /\ ~ref'["Stream"]
        BY <1>3, <1>8, <2>1 DEF IInv, Progress
    <2> QED
        BY <1>3, <1>8, <2>2, PastInv
<1> QED
    BY <1>2, <1>4, <1>5, <1>6, <1>7, <1>8, ClearIs

\* The first step of close() and its last.
LEMMA EndsInv ==
    ASSUME IInv, ClientTypeOK', NEW p \in Procs, Mark(p) \/ CallOnClose(p)
    PROVE  IInv'
<1>1. CASE Mark(p)
    <2>1. /\ pc[p] = "mark"
          /\ Goto(p, "close Stream")
          /\ UNCHANGED <<connect, connected, open, calls>>
          /\ ref' = [ref EXCEPT !["session"] = FALSE]
        BY <1>1 DEF Mark
    <2>2. /\ ~ref'["session"]
          /\ \A f \in Refs : ref'[f] => ref[f]
        BY <2>1 DEF IInv, ClientTypeOK
    <2>3. /\ Early'
          /\ NoneRuns => NoneRuns'
          /\ pc'[p] = "close Stream"
          /\ \A q \in Procs : q # p => pc'[q] = pc[q]
        BY <2>1, CloserMoves
    <2>4. \A q \in Procs : pc'[q] \in Past => pc[q] = pc'[q]
        BY <2>3 DEF Past, Inside
    <2>5. OneCloser'
        BY <2>1, <2>4 DEF IInv, OneCloser
    <2>6. Progress'
        BY <2>1, <2>2, <2>3, <2>4 DEF IInv, Progress, Past, Inside
    <2>7. Complete'
        BY <2>1, <2>2, <2>3 DEF IInv, Complete
    <2> QED
        BY <2>3, <2>5, <2>6, <2>7 DEF IInv
<1>2. CASE CallOnClose(p)
    <2>1. /\ pc[p] = "OnClose"
          /\ Goto(p, AfterClose(p))
          /\ UNCHANGED <<connect, ref, connected, open>>
          /\ calls' = calls + 1
        BY <1>2 DEF CallOnClose, objectVars
    <2>2. AfterClose(p) \notin Inside
        BY DEF AfterClose, Inside
    <2>3. /\ Early'
          /\ NoneRuns => NoneRuns'
          /\ pc'[p] = AfterClose(p)
          /\ \A q \in Procs : q # p => pc'[q] = pc[q]
        BY <2>1, CloserMoves DEF Inside
    <2>4. pc[p] \in Past /\ pc[p] \in Inside
        BY <2>1 DEF Past, Inside
    <2>5. \A q \in Procs : pc'[q] \notin Past
        BY <2>2, <2>3, <2>4 DEF IInv, OneCloser, Past
    <2>6. calls = 0 /\ NoneRuns
        BY <2>1, <2>4 DEF IInv, Progress
    <2>7. calls' = 1
        BY <2>6, <2>1
    <2>8. /\ ~ref["session"] /\ ~ref["connectStream"] /\ ~ref["settingsStream"]
          /\ ~ref["ReceiveStream"] /\ ~ref["Stream"]
          /\ ~open["Stream"] /\ ~open["ReceiveStream"]
        BY <2>1, <2>4 DEF IInv, Progress
    <2>9. /\ NoneRuns'
          /\ \A f \in Refs : ~ref'[f]
          /\ \A ch \in Chans : ~open'[ch]
        BY <2>6, <2>1, <2>3, <2>8
    <2>10. calls' <= 1
        BY ONLY <2>7
    <2>11. OneCloser'
        BY <2>5, <2>9, <2>10 DEF OneCloser
    <2>12. Progress'
        BY <2>5, <2>9 DEF Progress, Past, Inside
    <2>13. Complete'
        BY <2>9 DEF Complete
    <2> QED
        BY <2>3, <2>11, <2>12, <2>13 DEF IInv
<1> QED
    BY <1>1, <1>2

\* Every step keeps the invariant.
LEMMA NextInv ==
    ASSUME IInv, [Next]_vars
    PROVE  IInv'
<1>1. ClientTypeOK
    BY DEF IInv
<1>2. CASE UNCHANGED clientVars
    BY <1>2, StutterInv
<1>3. CASE ConnectStep
    BY <1>1, <1>3, ConnectType, ConnectInv
<1>4. CASE StreamStep
    BY <1>1, <1>4, StreamType, StreamQuiet, QuietInv
<1>5. ASSUME NEW p \in Procs, OuterStep(p)
      PROVE  IInv'
    BY <1>1, <1>5, OuterQuiet, QuietInv
<1>6. ASSUME NEW p \in Procs, TeardownStep(p)
      PROVE  IInv'
    BY <1>1, <1>6, TeardownType, CloseStreamInv, DropInv, EndsInv DEF TeardownStep
<1> QED
    BY <1>2, <1>3, <1>4, <1>5, <1>6, ClientSteps DEF Next, Environment, vars

\* The invariant holds of every behaviour.
LEMMA Invariant == Spec => []IInv
BY InitInv, NextInv, PTL DEF Spec

(* The application hears of the end of its session once, however many loops *)
(* notice it and whoever calls Close(): nothing but the panic at a channel   *)
(* that is closed already, and the nil session, keeps a second close() out.  *)
THEOREM OnCloseIsCalledAtMostOnce == Spec => []OnCloseOnce
<1>1. IInv => OnCloseOnce
    BY DEF IInv, OneCloser, OnCloseOnce
<1> QED
    BY <1>1, Invariant, PTL

(* And when it hears of it, each channel is closed and each field is nil;   *)
(* a client that says it is connected after that has run no loop.            *)
THEOREM TeardownsAreComplete == Spec => []TeardownComplete
<1>1. IInv => TeardownComplete
    BY DEF IInv, Complete, NoneRuns, TeardownComplete
<1> QED
    BY <1>1, Invariant, PTL

-----------------------------------------------------------------------------
(* No panic while the connection and the CONNECT stream last.              *)

Lasts == conn[Me] # "down" /\ ~response[Me].ended

\* As much of the types of the wire as tells that an end is for good.
WireOK ==
    /\ conn \in [Conns -> {"none", "up", "down"}]
    /\ response = [c \in Conns |-> response[c]]
    /\ response[Me] = [opened |-> response[Me].opened, ended |-> response[Me].ended,
                       frames |-> response[Me].frames]
    /\ response[Me].ended \in BOOLEAN
    /\ response[Me].ended => response[Me].opened

\* What a step does to the connection and to the server's half of the CONNECT stream.
ConnStep ==
    \/ conn' = conn
    \/ conn[Me] = "none" /\ conn' = [conn EXCEPT ![Me] = "up"]
    \/ conn' = [conn EXCEPT ![Me] = "down"]

ResponseStep ==
    \/ response' = response
    \/ \E s \in Responses : ~response[Me].opened /\ response' = [response EXCEPT ![Me] = s]
    \/ response' = Consumed(response, Me)
    \/ response' = End(response, Me)
    \/ \E n \in Nat : response' = [response EXCEPT ![Me].frames[n].whole = TRUE]

\* While it lasts nobody is in close() and what has been set is there.
Wired ==
    (Lasts /\ crash = "none") =>
        /\ \A p \in Procs : pc[p] \notin Inside \cup {"check", "mark"}
        /\ \A ch \in Chans : ref[ch] /\ open[ch]
        /\ connect \notin {"dial", "error"} => ref["session"]
        /\ connect \in {"open", "request", "write", "response", "accepted", "ok"} =>
               ref["settingsStream"]
        /\ connect \in {"write", "response", "accepted", "ok"} => ref["connectStream"]
        /\ ref["connectStream"] => ref["session"]
        /\ \A p \in Procs : pc[p] = "abort" => ref["connectStream"]
        /\ \A p \in Procs : pc[p] = "use" => connect = "ok"

\* A stream that has been opened is known.
LEMMA StreamIs ==
    ASSUME NEW s \in Responses
    PROVE  s = [opened |-> TRUE, ended |-> FALSE, frames |-> s.frames]
BY ResponsesAssumption DEF Stream

\* At the start nothing has ended.
LEMMA InitWired == Init => WireOK /\ Wired /\ PanicsNeedAnEnd
<1> SUFFICES ASSUME ConnInit, ClientInit PROVE WireOK /\ Wired /\ PanicsNeedAnEnd
    BY DEF Init
<1>1. WireOK
    BY MeAssumption DEF ConnInit, NoStream, WireOK
<1>2. /\ connect = "dial" /\ crash = "none"
      /\ ~ref["connectStream"] /\ \A ch \in Chans : ref[ch] /\ open[ch]
    BY DEF ClientInit
<1>3. \A p \in Procs : pc[p] \in {"off", "top"}
    BY DEF ClientInit
<1>4. Wired
    BY <1>2, <1>3 DEF Wired, Inside
<1> QED
    BY <1>1, <1>2, <1>4 DEF PanicsNeedAnEnd

\* An end is for good.
LEMMA EndsLast ==
    ASSUME WireOK, ConnStep, ResponseStep
    PROVE  WireOK' /\ (Lasts' => Lasts)
<1>1. /\ conn' \in [Conns -> {"none", "up", "down"}]
      /\ conn'[Me] # "down" => conn[Me] # "down"
    BY MeAssumption DEF WireOK, ConnStep
<1> DEFINE r  == response[Me]
           r2 == response'[Me]
           Good == /\ response' = [c \in Conns |-> response'[c]]
                   /\ r2 = [opened |-> r2.opened, ended |-> r2.ended, frames |-> r2.frames]
                   /\ r2.ended \in BOOLEAN
                   /\ r2.ended => r2.opened
                   /\ r.ended => r2.ended
<1>2. Good
    <2>0. /\ response = [c \in Conns |-> response[c]]
          /\ r = [opened |-> r.opened, ended |-> r.ended, frames |-> r.frames]
          /\ r.ended \in BOOLEAN
          /\ r.ended => r.opened
        BY DEF WireOK
    <2>1. ASSUME NEW v, response' = [response EXCEPT ![Me] = v]
          PROVE  r2 = v /\ response' = [c \in Conns |-> response'[c]]
        BY <2>0, <2>1, MeAssumption
    <2>2. CASE response' = response
        BY <2>0, <2>2
    <2>3. ASSUME NEW s \in Responses, ~r.opened, response' = [response EXCEPT ![Me] = s]
          PROVE  Good
        <3>1. r2 = s /\ response' = [c \in Conns |-> response'[c]]
            BY <2>1, <2>3
        <3>2. s = [opened |-> TRUE, ended |-> FALSE, frames |-> s.frames]
            BY StreamIs
        <3>3. s.opened = TRUE /\ s.ended = FALSE
            BY <3>2
        <3>4. ~r.ended
            BY <2>0, <2>3
        <3> QED
            BY <3>1, <3>2, <3>3, <3>4
    <2>4. CASE response' = Consumed(response, Me)
        <3>1. response' = [response EXCEPT ![Me] = [r EXCEPT !.frames = <<>>]]
            BY <2>4 DEF Consumed
        <3> QED
            BY <2>0, <2>1, <3>1
    <2>5. CASE response' = End(response, Me)
        <3>1. response' = [response EXCEPT ![Me] = [r EXCEPT !.ended = TRUE, !.opened = TRUE]]
            BY <2>0, <2>5, MeAssumption DEF End
        <3> QED
            BY ZenonT(60), <2>0, <2>1, <3>1
    <2>6. ASSUME NEW n \in Nat, response' = [response EXCEPT ![Me].frames[n].whole = TRUE]
          PROVE  Good
        <3>1. PICK v : response' = [response EXCEPT ![Me] = [r EXCEPT !.frames = v]]
            BY <2>6
        <3> QED
            BY <2>0, <2>1, <3>1
    <2> QED
        BY <2>2, <2>3, <2>4, <2>5, <2>6 DEF ResponseStep
<1> QED
    BY <1>1, <1>2 DEF WireOK, Lasts

\* Every step is such a step of the wire.
LEMMA StepsOnTheWire ==
    ASSUME [Next]_vars
    PROVE  ConnStep /\ ResponseStep
<1> USE DEF connVars
<1>1. CASE UNCHANGED vars
    BY <1>1 DEF vars, ConnStep, ResponseStep
<1>2. CASE Environment
    <2>1. ASSUME NEW s \in Controls, OpensControl(s)
          PROVE  ConnStep /\ ResponseStep
        BY <2>1 DEF OpensControl, ConnStep, ResponseStep
    <2>2. ASSUME NEW s \in Responses, Responds(s)
          PROVE  ConnStep /\ ResponseStep
        BY <2>2 DEF Responds, ConnStep, ResponseStep
    <2>3. CASE EndsControl
        BY <2>3 DEF EndsControl, ConnStep, ResponseStep
    <2>4. CASE EndsResponse
        <3>1. conn' = conn
            BY <2>4 DEF EndsResponse
        <3>2. ASSUME response' # End(response, Me)
              PROVE  \E n \in Nat : response' = [response EXCEPT ![Me].frames[n].whole = TRUE]
            BY <2>4, <3>2 DEF EndsResponse, GoesOn
        <3> QED
            BY <3>1, <3>2 DEF ConnStep, ResponseStep
    <2>5. CASE Lost(Me)
        BY <2>5 DEF Lost, ConnStep, ResponseStep
    <2> QED
        BY <1>2, <2>1, <2>2, <2>3, <2>4, <2>5 DEF Environment
<1>3. CASE ConnectStep
    BY <1>3 DEF ConnectStep, Connect, Dial, AcceptControl, ReadSettings, OpenControl, OpenRequest,
                WriteRequest, ReadResponse, Succeed, ConnectFails, ConnStep, ResponseStep
<1>4. CASE StreamStep
    BY <1>4 DEF StreamStep, Reader, ReadHeader, ReadFails, OfferPanics, Receive, SetOnMessage,
                ConnStep, ResponseStep
<1>5. ASSUME NEW p \in Procs, OuterStep(p)
      PROVE  ConnStep /\ ResponseStep
    BY <1>5 DEF OuterStep, Call, LoopError, Accept, CompareStreamId, ReceiveMessage, UseSession,
                ReadConnectStream, CallMethod, Close, FinishConnectStream, CloseWithError, Check,
                ConnStep, ResponseStep
<1>6. ASSUME NEW p \in Procs, TeardownStep(p)
      PROVE  ConnStep /\ ResponseStep
    BY <1>6 DEF TeardownStep, Mark, CloseChannel, Clear, CallOnClose, ConnStep, ResponseStep
<1> QED
    BY <1>1, <1>2, <1>3, <1>4, <1>5, <1>6, ClientSteps DEF Next

\* Connect() keeps what is wired, and no stage of it panics.
LEMMA ConnectWired ==
    ASSUME ClientTypeOK, Wired, ConnectStep, Lasts' => Lasts
    PROVE  Wired' /\ crash' = "none"
<1> USE DEF Wired, ClientTypeOK
<1>1. /\ Alive
      /\ UNCHANGED <<open, crash>>
    BY DEF ConnectStep, Connect, Dial, AcceptControl, ReadSettings, OpenControl, OpenRequest,
           WriteRequest, ReadResponse, Succeed, ConnectFails, Connects
<1> SUFFICES ASSUME Lasts, crash = "none" PROVE Wired'
    BY <1>1 DEF Alive
<1> USE DEF Connects
<1>2. ASSUME NEW listening \in BOOLEAN, Dial(listening)
      PROVE  Wired'
    BY <1>1, <1>2 DEF Dial
<1>3. CASE AcceptControl \/ OpenControl
    BY <1>1, <1>3 DEF AcceptControl, OpenControl
<1>4. CASE ReadSettings
    <2> DEFINE parsed == ParseNextFrame(control[Me])
               isSettings == parsed.kind = "ok" /\ parsed.value.type = "SETTINGS"
    <2>1. \/ Connects("settings", "open") /\ isSettings
          \/ Connects("settings", "error")
        BY <1>4 DEF ReadSettings
    <2>2. /\ ref' = [ref EXCEPT !["settingsStream"] = @ \/ isSettings]
          /\ UNCHANGED <<connected, pc>>
        BY <1>4 DEF ReadSettings
    <2> HIDE DEF isSettings
    <2>3. /\ isSettings => ref'["settingsStream"]
          /\ \A f \in Refs \ {"settingsStream"} : ref'[f] = ref[f]
        BY <2>2
    <2> QED
        BY <1>1, <2>1, <2>2, <2>3
<1>5. CASE OpenRequest
    BY <1>1, <1>5 DEF OpenRequest, SetsConnectStream
<1>6. CASE WriteRequest
    <2>1. Connects("write", "error") \/ Connects("write", "response")
        BY <1>6 DEF WriteRequest
    <2>2. UNCHANGED <<ref, connected, pc>>
        BY <1>6 DEF WriteRequest
    <2> QED
        BY <1>1, <2>1, <2>2
<1>7. CASE ReadResponse
    <2>1. Connects("response", "error") \/ Connects("response", "accepted")
        BY <1>7 DEF ReadResponse
    <2>2. UNCHANGED <<ref, connected, pc>>
        BY <1>7 DEF ReadResponse
    <2> QED
        BY <1>1, <2>1, <2>2
<1>8. CASE ConnectFails
    BY <1>1, <1>8 DEF ConnectFails
<1>9. CASE Succeed
    <2>1. /\ connect = "accepted" /\ connect' = "ok"
          /\ UNCHANGED ref
          /\ \A p \in Procs : pc'[p] = "top" \/ pc'[p] = pc[p]
        BY <1>9 DEF Succeed
    <2> QED
        BY <1>1, <2>1 DEF Inside
<1> QED
    BY <1>2, <1>3, <1>4, <1>5, <1>6, <1>7, <1>8, <1>9 DEF ConnectStep, Connect

\* A step of a goroutine keeps what is wired, and panics only in a Close() that was
\* called too early.
LEMMA OuterWired ==
    ASSUME IInv, WireOK, Wired, NEW p \in Procs, OuterStep(p), Lasts' => Lasts
    PROVE  Wired' /\ PanicsNeedAnEnd'
<1>1. Alive
    BY DEF OuterStep, Call, LoopError, Accept, CompareStreamId, ReceiveMessage, UseSession,
           ReadConnectStream, CallMethod, Close, FinishConnectStream, CloseWithError, Check
<1>2. CASE ~Lasts'
    BY <1>2 DEF Wired, PanicsNeedAnEnd, Lasts
<1>3. ASSUME Lasts', crash' = "none", UNCHANGED <<connect, objectVars>>,
             NEW label, label \notin Inside \cup {"check", "mark"}, Goto(p, label),
             label = "abort" => ref["connectStream"],
             label = "use" => connect = "ok"
      PROVE  Wired' /\ PanicsNeedAnEnd'
    <2>1. \A q \in Procs : pc'[q] = IF q = p THEN label ELSE pc[q]
        BY <1>3 DEF Goto, IInv, ClientTypeOK
    <2>2. Wired'
        BY <1>1, <1>3, <2>1 DEF Wired, Alive, objectVars
    <2> QED
        BY <1>3, <2>2 DEF PanicsNeedAnEnd
<1> SUFFICES ASSUME Lasts, Lasts' PROVE Wired' /\ PanicsNeedAnEnd'
    BY <1>2
<1>4. /\ \A q \in Procs : pc[q] \notin Inside \cup {"check", "mark"}
      /\ \A ch \in Chans : ref[ch] /\ open[ch]
      /\ connect \notin {"dial", "error"} => ref["session"]
      /\ connect \in {"open", "request", "write", "response", "accepted", "ok"} =>
             ref["settingsStream"]
      /\ connect \in {"write", "response", "accepted", "ok"} => ref["connectStream"]
      /\ ref["connectStream"] => ref["session"]
      /\ \A q \in Procs : pc[q] = "abort" => ref["connectStream"]
      /\ \A q \in Procs : pc[q] = "use" => connect = "ok"
    BY <1>1 DEF Wired, Alive
<1>5. /\ connected => connect = "ok"
      /\ p \in Loops /\ pc[p] # "off" => connect = "ok"
    BY DEF IInv, Early
<1> USE DEF Inside
<1>6. CASE p \in Loops /\ Call(p)
    BY <1>1, <1>3, <1>4, <1>5, <1>6 DEF Call, Called, Alive
<1>7. CASE p \in Loops /\ LoopError(p)
    BY <1>7 DEF LoopError, EndsOf, Lasts
<1>8. ASSUME p \in Loops, NEW s, Accept(p, s) \/ CompareStreamId(p, s)
      PROVE  Wired' /\ PanicsNeedAnEnd'
    BY <1>1, <1>3, <1>4, <1>5, <1>8 DEF Accept, CompareStreamId, Compared, Alive
<1>9. CASE p = "datagram" /\ ReceiveMessage
    BY <1>1, <1>3, <1>5, <1>9 DEF ReceiveMessage, Alive
<1>10. CASE UseSession(p)
    BY <1>1, <1>3, <1>4, <1>10 DEF UseSession, Alive
<1>11. CASE p = "connect" /\ ReadConnectStream
    BY <1>1, <1>3, <1>11 DEF ReadConnectStream, Alive
<1>12. CASE CallMethod(p) \/ Close(p)
    BY <1>1, <1>3, <1>5, <1>12 DEF CallMethod, Close, Alive
<1>13. CASE p \in Callers /\ FinishConnectStream(p)
    <2>1. CASE ref["connectStream"]
        BY <1>1, <1>3, <1>13, <2>1 DEF FinishConnectStream, Alive
    <2>2. CASE ~ref["connectStream"]
        <3>1. /\ pc[p] = "finish"
              /\ crash' = "connectStream"
              /\ UNCHANGED <<pc, ref>>
            BY <1>13, <2>2 DEF FinishConnectStream, Panic, objectVars
        <3>2. Wired'
            BY <3>1 DEF Wired
        <3> QED
            BY <1>13, <2>2, <3>1, <3>2 DEF PanicsNeedAnEnd
    <2> QED
        BY <2>1, <2>2
<1>14. CASE CloseWithError(p)
    <2>1. ref["session"]
        BY <1>4, <1>14 DEF CloseWithError
    <2>2. conn' = [conn EXCEPT ![Me] = "down"]
        BY <1>14, <2>1 DEF CloseWithError
    <2> QED
        BY <2>2, MeAssumption DEF Lasts, WireOK
<1>15. CASE Check(p)
    BY <1>4, <1>15 DEF Check
<1> QED
    BY <1>6, <1>7, <1>8, <1>9, <1>10, <1>11, <1>12, <1>13, <1>14, <1>15 DEF OuterStep

\* So does every step.
LEMMA WiredNext ==
    ASSUME IInv, WireOK, Wired, PanicsNeedAnEnd, [Next]_vars
    PROVE  WireOK' /\ Wired' /\ PanicsNeedAnEnd'
<1>1. WireOK' /\ (Lasts' => Lasts)
    BY StepsOnTheWire, EndsLast
<1>2. CASE UNCHANGED clientVars
    BY <1>1, <1>2 DEF clientVars, objectVars, Wired, PanicsNeedAnEnd, Lasts
<1>3. CASE ConnectStep
    BY <1>1, <1>3, ConnectWired DEF IInv, PanicsNeedAnEnd
<1>4. CASE StreamStep
    <2>1. UNCHANGED <<connect, objectVars, pc>> /\ Alive
        BY <1>4 DEF StreamStep, Reader, ReadHeader, ReadFails, OfferPanics, Receive, SetOnMessage,
                    Panic
    <2>2. Wired'
        BY <1>1, <2>1 DEF Wired, Alive, objectVars
    <2>3. (Lasts => \A ch \in Chans : ref[ch] /\ open[ch]) => (Lasts => crash' = "none")
        BY <1>4, <2>1 DEF StreamStep, Reader, ReadHeader, ReadFails, OfferPanics, Receive,
                          SetOnMessage, ChanOf, Alive
    <2>4. Lasts' => crash' = "none"
        BY <1>1, <2>1, <2>3 DEF Wired, Alive
    <2> QED
        BY <1>1, <2>2, <2>4 DEF PanicsNeedAnEnd, Lasts
<1>5. ASSUME NEW p \in Procs, OuterStep(p)
      PROVE  Wired' /\ PanicsNeedAnEnd'
    BY <1>1, <1>5, OuterWired
<1>6. ASSUME NEW p \in Procs, TeardownStep(p)
      PROVE  Wired' /\ PanicsNeedAnEnd'
    <2>1. Alive /\ pc[p] \in Inside \cup {"mark"}
        <3>1. CASE Clear(p)
            BY <3>1, ClearIs DEF Clears, Clear, Inside
        <3> QED
            BY <1>6, <3>1 DEF TeardownStep, Mark, CloseChannel, CallOnClose, Inside
    <2>2. ~Lasts
        BY <2>1 DEF Wired, Alive
    <2> QED
        BY <1>1, <2>2 DEF Wired, PanicsNeedAnEnd, Lasts
<1> QED
    BY <1>1, <1>2, <1>3, <1>4, <1>5, <1>6, ClientSteps DEF Next, Environment, vars

(* Nothing a server writes, and no order in which Connect(), the loops, the *)
(* readers and the methods run, makes the client panic, while connection    *)
(* and CONNECT stream last and Close() waits for Connect()'s request.       *)
THEOREM PanicsComeWithAnEnd == Spec => []PanicsNeedAnEnd
<1> DEFINE J == WireOK /\ Wired /\ PanicsNeedAnEnd
<1>1. Init => J
    BY InitWired
<1>2. IInv /\ J /\ [Next]_vars => J'
    BY WiredNext
<1>3. J => PanicsNeedAnEnd
    OBVIOUS
<1> HIDE DEF J
<1> QED
    BY <1>1, <1>2, <1>3, Invariant, PTL DEF Spec

===============================================================================
