------------------------------- MODULE WTServer -------------------------------
(***************************************************************************)
(* webtransport_server.go: Run accepts connections, handleSession answers  *)
(* the CONNECT of each in a goroutine of its own and offers the session on *)
(* an unbuffered channel; and the goroutine of example/server/server.go    *)
(* that takes them.  What a session does afterwards is WTSession.          *)
(***************************************************************************)
EXTENDS WTConnection

CONSTANTS
    ServerPaths,   \* the values of ServerConfig.Path to consider, as in H3
    Requests       \* what peers write to their first bidirectional stream

VARIABLES
    Path,        \* ServerConfig.Path
    handler,     \* handler[c]: where handleSession is with a connection
    Req,         \* Req[c]: the request of the session, once there is one
    offers,      \* the senders on s.Webtransport, first come first served
    served,      \* the sessions the application serves
    consuming,   \* the application still takes sessions
    serverUp     \* the process runs

serverVars == <<Path, handler, Req, offers, served, consuming, serverUp>>

Stages == {"none", "control", "settings", "request", "parse", "block", "answer",
           "offering", "given", "ended"}
NoRequest == [Method |-> "", Proto |-> "", Host |-> "", RequestURI |-> <<>>, Path |-> <<>>]

ServerTypeOK ==
    /\ ConnTypeOK
    /\ Path \in ServerPaths
    /\ handler \in [Conns -> Stages]
    /\ DOMAIN Req = Conns
    /\ offers \in Seq(Conns)
    /\ served \subseteq Conns
    /\ consuming \in BOOLEAN
    /\ serverUp \in BOOLEAN

ServerInit ==
    /\ Path \in ServerPaths
    /\ handler = [c \in Conns |-> "none"]
    /\ Req = [c \in Conns |-> NoRequest]
    /\ offers = <<>>
    /\ served = {}
    /\ consuming = TRUE
    /\ serverUp = TRUE

-----------------------------------------------------------------------------
(* Run and handleSession.                                                  *)

Go(c, stage) == handler' = [handler EXCEPT ![c] = stage]

\* A step of the handler of a connection from one stage to the next.
Handles(c, from, to) ==
    /\ serverUp
    /\ handler[c] = from
    /\ Go(c, to)
    /\ UNCHANGED <<Path, offers, served, consuming, serverUp>>

\* go s.handleSession(sess): Run is at once free for the next connection.
RunWaits == \A c \in Conns : handler[c] \in {"none", "given", "ended"}
RunIsFree == TRUE

AcceptSession(c) ==
    /\ RunIsFree
    /\ conn[c] = "up"
    /\ Handles(c, "none", "control")
    /\ UNCHANGED <<connVars, Req>>

\* The settings of both ends; a range over the map takes them in any order, which
\* no parser reads.
Supported == <<<<H3_DATAGRAM_05, 1>>, <<ENABLE_CONNECT_PROTOCOL, 1>>,
               <<ENABLE_WEBTRANSPORT, 1>>>>

WriteSettings(c) ==
    /\ conn[c] = "up"
    /\ Handles(c, "control", "settings")
    /\ control' = [control EXCEPT ![c] = Stream(<<SettingsFrame(Supported)>>)]
    /\ UNCHANGED <<conn, uni, request, response, Req>>

\* The first unidirectional stream is taken for the settings and never read.
AcceptsNoSettings(c) ==
    /\ conn[c] = "up"
    /\ Handles(c, "settings", "request")
    /\ uni' = [uni EXCEPT ![c] = @ - 1]
    /\ UNCHANGED <<conn, control, request, response, Req>>
AcceptSettings(c) ==
    /\ conn[c] = "up"
    /\ uni[c] > 0
    /\ Handles(c, "settings", "request")
    /\ uni' = [uni EXCEPT ![c] = @ - 1]
    /\ UNCHANGED <<conn, control, request, response, Req>>

AcceptRequest(c) ==
    /\ conn[c] = "up"
    /\ request[c].opened
    /\ Handles(c, "request", "parse")
    /\ UNCHANGED <<connVars, Req>>

ParseRequest(c) ==
    LET parsed == ParseNextFrame(request[c])
    IN  /\ handler[c] = "parse" /\ conn[c] = "up"
        /\ parsed # Waits
        /\ IF parsed.kind = "ok" /\ parsed.value.type = "HEADERS"
           THEN Handles(c, "parse", "block")
           ELSE Handles(c, "parse", "ended")
        /\ UNCHANGED <<connVars, Req>>

\* A call of the handler on a lost connection fails, and the handler returns.
HandlerFails(c) ==
    /\ conn[c] = "down"
    /\ \E stage \in {"control", "settings", "request", "parse"} : Handles(c, stage, "ended")
    /\ UNCHANGED <<connVars, Req>>

\* io.ReadFull, whose error is only logged, and what is made of the bytes it got:
\* the outcomes of decoding the block, and of a request that is in order.
Block(c) ==
    LET f == ParseNextFrame(request[c]).value
    IN  IF conn[c] = "up" THEN f ELSE [f EXCEPT !.whole = FALSE]
ReadAny(c) == TRUE
ReadFull(c) == Block(c).whole \/ request[c].ended \/ conn[c] = "down"
Read(decoded) == IF decoded = Fails THEN Fails ELSE RequestFromHeaders(decoded.value)

ReadRequest(c) ==
    /\ handler[c] = "block"
    /\ ReadFull(c)
    /\ request' = Consumed(request, c)
    /\ UNCHANGED <<conn, uni, control, response>>
    /\ \E decoded \in Decodings(Block(c)) :
           IF Read(decoded) = Fails
           THEN Handles(c, "block", "ended") /\ UNCHANGED Req
           ELSE /\ Handles(c, "block", "answer")
                /\ Req' = [Req EXCEPT ![c] = Read(decoded).value]

Accepts(r) ==
    /\ r.Method = "CONNECT"
    /\ r.Proto = "webtransport"
    /\ r.Path = Path \/ Path = <<>>

\* 200, createWebTransport and the send on s.Webtransport, or 404.
AnswerRequest(c) ==
    LET status == IF Accepts(Req[c]) THEN "200" ELSE "404"
    IN  /\ serverUp
        /\ handler[c] = "answer"
        /\ response' = IF conn[c] = "up" THEN [response EXCEPT ![c] = Answer(status)]
                       ELSE response
        /\ IF Accepts(Req[c])
           THEN Go(c, "offering") /\ offers' = Append(offers, c)
           ELSE Go(c, "ended") /\ UNCHANGED offers
        /\ UNCHANGED <<conn, uni, control, request, Path, Req, served, consuming, serverUp>>

Handle(c) ==
    \/ WriteSettings(c) \/ AcceptSettings(c) \/ AcceptRequest(c) \/ ParseRequest(c)
    \/ HandlerFails(c) \/ ReadRequest(c) \/ AnswerRequest(c)

-----------------------------------------------------------------------------
(* The application's goroutine.                                            *)

\* After a session it serves the goroutine returns; any other path is closed, which
\* ends the session here and leaves its connection.
Serves(path) == path \in {<<"/", "counter">>, <<"/", "room">>}
GoesOnAfterAny(path) == FALSE
GoesOnTaking(path) == ~Serves(path)

Take(c) ==
    /\ serverUp /\ consuming
    /\ offers # <<>> /\ c = Head(offers)
    /\ offers' = Tail(offers)
    /\ Go(c, "given")
    /\ served' = IF Serves(Req[c].Path) THEN served \cup {c} ELSE served
    /\ consuming' = GoesOnTaking(Req[c].Path)
    /\ UNCHANGED <<connVars, Path, Req, serverUp>>

\* The loops of a session run before it is taken: when they have closed it, Req is
\* nil and reading its path ends the process, with every connection.
TakeDead(c) ==
    /\ serverUp /\ consuming
    /\ offers # <<>> /\ c = Head(offers)
    /\ conn[c] = "down" \/ request[c].ended
    /\ serverUp' = FALSE
    /\ conn' = [d \in Conns |-> IF conn[d] = "up" THEN "down" ELSE conn[d]]
    /\ UNCHANGED <<uni, control, request, response, Path, handler, Req, offers, served, consuming>>

Consume == \E c \in Conns : Take(c) \/ TakeDead(c)

-----------------------------------------------------------------------------
(* A peer of another make, which may stop anywhere.                        *)

PeerDials(c) ==
    /\ serverUp
    /\ conn[c] = "none"
    /\ conn' = [conn EXCEPT ![c] = "up"]
    /\ UNCHANGED <<uni, control, request, response, serverVars>>

\* One stream is enough: its type is not read.
PeerOpensUni(c) ==
    /\ conn[c] = "up"
    /\ handler[c] \in {"none", "control", "settings"} /\ uni[c] = 0
    /\ uni' = [uni EXCEPT ![c] = 1]
    /\ UNCHANGED <<conn, control, request, response, serverVars>>

PeerSends(c, stream) ==
    /\ conn[c] = "up"
    /\ ~request[c].opened
    /\ request' = [request EXCEPT ![c] = stream]
    /\ UNCHANGED <<conn, uni, control, response, serverVars>>

\* The rest of a frame, or the end of the stream.
PeerGoesOn(c) ==
    /\ conn[c] = "up"
    /\ request[c].opened /\ ~request[c].ended
    /\ \/ request' = End(request, c)
       \/ LET n == Len(request[c].frames)
          IN  /\ n > 0 /\ ~request[c].frames[n].whole
              /\ request' = [request EXCEPT ![c].frames[n].whole = TRUE]
    /\ UNCHANGED <<conn, uni, control, response, serverVars>>

Peer(c) ==
    \/ PeerDials(c) \/ PeerOpensUni(c) \/ PeerGoesOn(c)
    \/ \E stream \in Requests : PeerSends(c, stream)

Server == \E c \in Conns : AcceptSession(c) \/ Handle(c)

=============================================================================
