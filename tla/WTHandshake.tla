----------------------------- MODULE WTHandshake -----------------------------
(***************************************************************************)
(* The client of WTClient and the server of WTServer on one connection,    *)
(* while peers of other makes are connected to the same server.  What the  *)
(* client does once it is connected is checked with AnyServer.             *)
(***************************************************************************)
EXTENDS WTClient, WTServer

\* A request that holds a value nobody wrote, as a block that was cut off may leave it.
Half(r) ==
    \/ \E i \in DOMAIN r.RequestURI : r.RequestURI[i] = Zeros
    \/ "garbled" \in {r.Method, r.Proto, r.Host}

\* What peers write is a stream of frames, and no request in full looks like half of one.
ASSUME RequestsAssumption ==
    \A s \in Requests :
        /\ s = Stream(s.frames)
        /\ DOMAIN s.frames = 1..Len(s.frames)
        /\ \A i \in DOMAIN s.frames :
               LET f == s.frames[i]
                   r == RequestFromHeaders(f.payload)
               IN  /\ DOMAIN f = {"type", "length", "payload", "whole"}
                   /\ f.type = "HEADERS" /\ r # Fails => ~Half(r.value)

\* A path is given as it is, without escapes.
ASSUME ClientPathsAssumption ==
    \A path \in ClientPaths :
        /\ path \in Seq(STRING)
        /\ \A i \in DOMAIN path : path[i] \notin {"%3F", "%25", "%2A", Zeros}

vars == <<connVars, clientVars, serverVars>>

Init == ConnInit /\ ClientInit /\ ServerInit

Others == Conns \ {Me}

ClientSteps == Connect(serverUp) /\ UNCHANGED serverVars
ServerSteps == (Server \/ Consume) /\ UNCHANGED clientVars
PeerSteps   == (\E c \in Others : Peer(c)) /\ UNCHANGED clientVars
LossSteps   == (\E c \in Conns : Lost(c)) /\ UNCHANGED <<clientVars, serverVars>>

Next == ClientSteps \/ ServerSteps \/ PeerSteps \/ LossSteps

Spec == Init /\ [][Next]_vars

\* Every goroutine that can run does, at both ends, and the application takes the
\* sessions it still wants.  Peers may stop anywhere.
FairSpec ==
    /\ Spec
    /\ WF_vars(ClientSteps)
    /\ \A c \in Conns :
           WF_vars((AcceptSession(c) \/ Handle(c)) /\ UNCHANGED clientVars)
    /\ WF_vars(Consume /\ UNCHANGED clientVars)

-----------------------------------------------------------------------------
(* Properties.                                                             *)

\* The path that a client asks for: no path is the root, and of a whole URL of its
\* server only the path counts.  One that begins otherwise cannot be sent.
Meant ==
    IF clientPath = <<>> THEN <<"/">>
    ELSE IF clientPath[1] = Origin THEN Tail(clientPath)
    ELSE clientPath
Unsendable == clientPath # <<"*">> /\ (Meant = <<>> \/ Meant[1] # "/")

(* The two ends agree.  A client that is connected has a session at the     *)
(* server, on offer or given, under the very path that it meant, whatever   *)
(* characters are in it and although it is escaped, sent and parsed on the  *)
(* way.  A client that was turned away had a cause: no server, a lost       *)
(* connection, a path that cannot be sent, or a server of another path.     *)
BothEndsAgree ==
    /\ connect \in {"accepted", "ok"} =>
           /\ handler[Me] \in {"offering", "given"}
           /\ Req[Me].Path = Meant
           /\ Path \in {<<>>, Meant}
    /\ connect = "error" =>
           \/ conn[Me] # "up"
           \/ ~request[Me].opened /\ Unsendable
           \/ handler[Me] = "ended" /\ Path \notin {<<>>, Meant}

(* A header block that was cut off is decoded all the same, and may become *)
(* a session, even one that the application serves when only the query was *)
(* cut: but only when its stream or its connection is over, so that the    *)
(* session ends itself.                                                    *)
HalfRequestsAreOver ==
    \A c \in Conns : Half(Req[c]) => request[c].ended \/ conn[c] = "down"

(* Connect() returns, although nothing in it has a timeout, other peers of  *)
(* the server stop anywhere, and the application takes no more sessions:    *)
(* only the path `*', which the server cannot parse, is never answered.     *)
ConnectReturns ==
    (connect # "dial") ~> (connect \in {"ok", "error"} \/ clientPath = <<"*">>)

(* A session on offer is taken, whichever connection it is on: in the end   *)
(* none is left, unless the application serves one, after which it takes no *)
(* more, or the server has ended.                                           *)
OfferedIsTaken ==
    <>[](served # {} \/ ~serverUp \/ \A c \in Conns : handler[c] # "offering")

=============================================================================
