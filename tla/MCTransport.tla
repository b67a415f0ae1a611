----------------------------- MODULE MCTransport -----------------------------
(***************************************************************************)
(* Transport for TLC.                                                      *)
(***************************************************************************)
EXTENDS Transport

AllCalls    == {"connect", "send", "close", "reconnect"}
\* What the pages of example/ call.
PageCalls   == {"connect", "send"}

=============================================================================
