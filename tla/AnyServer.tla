------------------------------ MODULE AnyServer ------------------------------
(***************************************************************************)
(* A client and a server of another make, which may write anything,        *)
(* nothing, or half of it, and end a stream at any time.                   *)
(***************************************************************************)
EXTENDS WTClient

CONSTANTS
    Controls,      \* what such servers write to their first stream
    Responses      \* how they answer the CONNECT

\* An answer is a stream that has been opened; it may end later.
ASSUME ResponsesAssumption == \A s \in Responses : s = Stream(s.frames)

vars == <<connVars, clientVars>>

Init == ConnInit /\ ClientInit

OpensControl(s) ==
    /\ conn[Me] = "up" /\ ~control[Me].opened
    /\ control' = [control EXCEPT ![Me] = s]
    /\ UNCHANGED <<conn, uni, request, response>>

Responds(s) ==
    /\ conn[Me] = "up" /\ request[Me].opened /\ ~response[Me].opened
    /\ response' = [response EXCEPT ![Me] = s]
    /\ UNCHANGED <<conn, uni, control, request>>

GoesOn(half) ==
    /\ conn[Me] = "up" /\ half[Me].opened /\ ~half[Me].ended
    /\ \/ half' = End(half, Me)
       \/ LET n == Len(half[Me].frames)
          IN  /\ n > 0 /\ ~half[Me].frames[n].whole
              /\ half' = [half EXCEPT ![Me].frames[n].whole = TRUE]

EndsControl ==
    /\ control[Me].frames # <<>>
    /\ GoesOn(control)
    /\ UNCHANGED <<conn, uni, request, response>>
EndsResponse == GoesOn(response) /\ UNCHANGED <<conn, uni, control, request>>

Environment ==
    /\ Alive
    /\ \/ \E s \in Controls : OpensControl(s)
       \/ \E s \in Responses : Responds(s)
       \/ EndsControl \/ EndsResponse \/ Lost(Me)
    /\ UNCHANGED clientVars

Next == Environment \/ Client(TRUE)

Spec == Init /\ [][Next]_vars

\* Goroutines run; servers, streams and the application need not.
FairSpec ==
    /\ Spec
    /\ \A l \in Loops : WF_vars(LoopRuns(l))
    /\ WF_vars(UseSession("datagram"))

=============================================================================
