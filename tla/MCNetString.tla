----------------------------- MODULE MCNetString -----------------------------
(***************************************************************************)
(* NetString for TLC.                                                      *)
(***************************************************************************)
EXTENDS NetString

\* Messages with commands of one and two digits, and payloads that look like
\* framing; encoded they take from 5 to 11 bytes.
Tricky == {[payload |-> <<>>, cmd |-> 7],
           [payload |-> <<Comma, Colon>>, cmd |-> 20],
           [payload |-> <<Zero, Zero + 1, Space, Comma, Colon, Zero>>, cmd |-> 1]}

NoMessages == {}
\* Single bytes of every kind the decoder tells apart.
AnyByte == {<<b>> : b \in {Zero, Zero + 1, Zero + 2, Colon, Comma, Space}}
\* A header of ten digits.
TenDigits == {[i \in 1..11 |-> IF i < 11 THEN Zero + 1 ELSE Colon]}

\* The hypotheses of the theorems about NetString hold here.
ASSUME RoomAssumption == Room /\ FramesAreShorter

=============================================================================
