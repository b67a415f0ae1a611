----------------------------- MODULE MCWTSession -----------------------------
(***************************************************************************)
(* WTSession for TLC.  Streams and callers are model values; the id of a   *)
(* header is either 0, the one a session starts with, or another one.      *)
(***************************************************************************)
EXTENDS WTSession

MCIds == {0, 4}
JustZero == {0}

\* The channels that the applications of example/server/server.go range over:
\* /room takes bidirectional streams, /counter also unidirectional ones.
RoomConsumed == {"Stream"}
CounterConsumed == {"ReceiveStream"}

=============================================================================
