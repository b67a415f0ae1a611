------------------------------ MODULE ByteWindow ------------------------------
(***************************************************************************)
(* What RingBuffer.js promises.  The buffer is a window on the stream of    *)
(* bytes written: the last Size of them, oldest first, of which the last    *)
(* `unread' have not been read.  A reader may step back over the bytes it   *)
(* has read for as long as the window still holds them.  A window that      *)
(* forgets keeps its bytes, but no longer in an order anybody may rely on.  *)
(***************************************************************************)
EXTENDS Integers, Sequences

CONSTANTS
    Size,     \* the size of the buffer
    Bytes,    \* the values of a byte; a fresh buffer is filled with 0
    Chunks,   \* the arrays a caller may write
    Counts    \* the lengths and indices a caller may pass

VARIABLES window, unread, result

Least(m, n) == IF m < n THEN m ELSE n

Init ==
    /\ window = [i \in 1..Size |-> 0]
    /\ unread = 0
    /\ result = <<>>

\* The newest bytes push out the oldest, read or not; more than Size bytes at
\* once are refused.
Write(d) ==
    /\ result' = <<>>
    /\ IF Len(d) > Size
       THEN UNCHANGED <<window, unread>>
       ELSE /\ window' = [i \in 1..Size |-> IF i + Len(d) <= Size
                                            THEN window[i + Len(d)]
                                            ELSE d[i + Len(d) - Size]]
            /\ unread' = Least(Size, unread + Len(d))

\* The oldest unread byte is the one at Size - unread + 1.
Unread(n) == [i \in 1..n |-> window[Size - unread + i]]

Read(n) ==
    /\ result' = Unread(Least(n, unread))
    /\ unread' = unread - Least(n, unread)
    /\ UNCHANGED window

Peek(i) ==
    /\ result' = IF i < unread THEN <<window[Size - unread + 1 + i]>> ELSE <<>>
    /\ UNCHANGED <<window, unread>>

Back(n) ==
    /\ result' = <<>>
    /\ unread' = Least(Size, unread + n)
    /\ UNCHANGED window

Forget ==
    /\ result' = <<>>
    /\ unread' = 0
    /\ \E r \in 0..Size :
          window' = [i \in 1..Size |-> window[IF i + r <= Size THEN i + r ELSE i + r - Size]]

Skip(n) ==
    IF n <= unread
    THEN result' = <<>> /\ unread' = unread - n /\ UNCHANGED window
    ELSE Forget

Next ==
    \/ \E d \in Chunks : Write(d)
    \/ \E n \in Counts : Read(n) \/ Back(n) \/ Skip(n)
    \/ Read(1)
    \/ \E i \in Counts : Peek(i)
    \/ Forget

vars == <<window, unread, result>>

Spec == Init /\ [][Next]_vars

=============================================================================
