----------------------------- MODULE WTConnection -----------------------------
(***************************************************************************)
(* The QUIC connections that the client and the server share: for each of  *)
(* them the streams the handshake uses.  QUIC itself is external: streams  *)
(* arrive complete and in order, and a connection that is lost fails every *)
(* call on it, at both ends.                                               *)
(***************************************************************************)
EXTENDS H3

CONSTANT Conns      \* the connections, one for every peer of the server

VARIABLES
    conn,       \* conn[c]: "none" before it is dialled, "up", "down"
    uni,        \* uni[c]: the peer's unidirectional streams not yet accepted
    control,    \* control[c]: the server's first unidirectional stream
    request,    \* request[c]: the peer's first bidirectional stream, its half
    response    \* response[c]: the server's half of it

connVars == <<conn, uni, control, request, response>>

ConnTypeOK ==
    /\ conn \in [Conns -> {"none", "up", "down"}]
    /\ uni \in [Conns -> Nat]
    /\ DOMAIN control = Conns /\ DOMAIN request = Conns /\ DOMAIN response = Conns

ConnInit ==
    /\ conn = [c \in Conns |-> "none"]
    /\ uni = [c \in Conns |-> 0]
    /\ control = [c \in Conns |-> NoStream]
    /\ request = [c \in Conns |-> NoStream]
    /\ response = [c \in Conns |-> NoStream]

\* The idle timeout, the network, or the other process.
Lost(c) ==
    /\ conn[c] = "up"
    /\ conn' = [conn EXCEPT ![c] = "down"]
    /\ UNCHANGED <<uni, control, request, response>>

\* FIN: the rest of a stream's half will not come; it opens the stream if need be.
End(half, c) == [half EXCEPT ![c].ended = TRUE, ![c].opened = TRUE]

\* The frame that was wanted has been read, and what follows it is never looked at.
Consumed(half, c) == [half EXCEPT ![c].frames = <<>>]

=============================================================================
