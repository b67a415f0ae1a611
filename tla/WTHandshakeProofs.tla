--------------------------- MODULE WTHandshakeProofs ---------------------------
(***************************************************************************)
(* The handshake of a client and a server, for any number of peers, whatever *)
(* they write, and any paths that a program gives as they are.             *)
(***************************************************************************)
EXTENDS WTHandshake, H3Proofs, WellFoundedInduction

-----------------------------------------------------------------------------
(* The types.                                                              *)

\* The types of all but the two flags of the server.
DataOK ==
    /\ conn \in [Conns -> {"none", "up", "down"}]
    /\ uni \in [Conns -> Nat]
    /\ DOMAIN control = Conns /\ DOMAIN request = Conns /\ DOMAIN response = Conns
    /\ Path \in ServerPaths
    /\ handler \in [Conns -> Stages]
    /\ DOMAIN Req = Conns
    /\ offers \in Seq(Conns)
    /\ served \subseteq Conns

FlagsOK == consuming \in BOOLEAN /\ serverUp \in BOOLEAN

\* Before anybody dials.
LEMMA DataInit == Init => DataOK /\ FlagsOK
BY DEF Init, ConnInit, ServerInit, DataOK, FlagsOK, Stages

\* A step of Connect() touches the connection alone, and keeps its types.
LEMMA ClientData ==
    ASSUME DataOK, ClientSteps
    PROVE  DataOK'
<1>1. UNCHANGED <<Path, handler, Req, offers, served>>
    BY DEF ClientSteps, serverVars
<1> SUFFICES /\ conn' \in [Conns -> {"none", "up", "down"}] /\ uni' \in [Conns -> Nat]
             /\ DOMAIN control' = Conns /\ DOMAIN request' = Conns /\ DOMAIN response' = Conns
    BY <1>1 DEF DataOK
<1>2. CASE Dial(serverUp)
    BY <1>2 DEF Dial, DataOK
<1>3. CASE UNCHANGED connVars
    BY <1>3 DEF connVars, DataOK
<1>4. CASE AcceptControl \/ OpenRequest \/ Succeed \/ ConnectFails
    BY <1>3, <1>4 DEF AcceptControl, OpenRequest, Succeed, ConnectFails
<1>5. CASE ReadSettings
    BY <1>5 DEF ReadSettings, Consumed, DataOK
<1>6. CASE OpenControl
    BY <1>6, MeAssumption DEF OpenControl, DataOK
<1>7. CASE WriteRequest
    BY <1>7 DEF WriteRequest, DataOK
<1>8. CASE ReadResponse
    BY <1>8 DEF ReadResponse, Consumed, DataOK
<1> QED
    BY <1>2, <1>4, <1>5, <1>6, <1>7, <1>8 DEF ClientSteps, Connect

\* What a step of a handler does to the server's variables.
LEMMA HandlesFacts ==
    ASSUME DataOK, NEW c \in Conns, NEW from, NEW to \in Stages, Handles(c, from, to)
    PROVE  /\ handler[c] = from
           /\ handler' \in [Conns -> Stages] /\ handler' = [handler EXCEPT ![c] = to]
           /\ UNCHANGED <<Path, offers, served, consuming, serverUp>>
BY DEF Handles, Go, DataOK

\* The handler of a connection keeps the types.
LEMMA HandlerData ==
    ASSUME DataOK, NEW c \in Conns, AcceptSession(c) \/ Handle(c)
    PROVE  DataOK'
<1> USE DEF Stages
<1>1. CASE AcceptSession(c)
    BY <1>1, HandlesFacts DEF AcceptSession, connVars, DataOK
<1>2. CASE WriteSettings(c)
    BY <1>2, HandlesFacts DEF WriteSettings, DataOK
<1>3. CASE AcceptSettings(c)
    BY <1>3, HandlesFacts DEF AcceptSettings, DataOK
<1>4. CASE AcceptRequest(c)
    BY <1>4, HandlesFacts DEF AcceptRequest, connVars, DataOK
<1>5. CASE ParseRequest(c)
    BY <1>5, HandlesFacts DEF ParseRequest, connVars, DataOK
<1>6. CASE HandlerFails(c)
    BY <1>6, HandlesFacts DEF HandlerFails, connVars, DataOK
<1>7. CASE ReadRequest(c)
    <2>1. UNCHANGED <<conn, uni, control, response>> /\ DOMAIN request' = Conns
        BY <1>7 DEF ReadRequest, Consumed, DataOK
    <2>2. /\ Handles(c, "block", "ended") \/ Handles(c, "block", "answer")
          /\ DOMAIN Req' = Conns
        BY <1>7 DEF ReadRequest, DataOK
    <2> QED
        BY <2>1, <2>2, HandlesFacts DEF DataOK
<1>8. CASE AnswerRequest(c)
    <2>1. UNCHANGED <<conn, uni, control, request, Path, Req, served>>
        BY <1>8 DEF AnswerRequest
    <2>2. DOMAIN response' = Conns
        BY <1>8 DEF AnswerRequest, DataOK
    <2>3. handler' \in [Conns -> Stages]
        BY <1>8 DEF AnswerRequest, Go, DataOK
    <2>4. offers' \in Seq(Conns)
        <3>1. offers' = Append(offers, c) \/ offers' = offers
            BY <1>8 DEF AnswerRequest
        <3>2. offers \in Seq(Conns)
            BY DEF DataOK
        <3> QED
            BY <3>1, <3>2
    <2> QED
        BY <2>1, <2>2, <2>3, <2>4 DEF DataOK
<1> QED
    BY <1>1, <1>2, <1>3, <1>4, <1>5, <1>6, <1>7, <1>8 DEF Handle

\* So does the application's goroutine.
LEMMA ConsumeData ==
    ASSUME DataOK, Consume
    PROVE  DataOK'
<1>1. ASSUME NEW c \in Conns, Take(c) PROVE DataOK'
    <2>1. offers' \in Seq(Conns)
        BY <1>1 DEF Take, DataOK
    <2>2. handler' \in [Conns -> Stages]
        BY <1>1 DEF Take, Go, DataOK, Stages
    <2> QED
        BY <1>1, <2>1, <2>2 DEF Take, connVars, DataOK
<1>2. ASSUME NEW c \in Conns, TakeDead(c) PROVE DataOK'
    BY <1>2 DEF TakeDead, DataOK
<1> QED
    BY <1>1, <1>2 DEF Consume

\* So do the other peers and the network.
LEMMA PeerData ==
    ASSUME DataOK, NEW c \in Conns, Peer(c) \/ Lost(c), UNCHANGED serverVars \/ Peer(c)
    PROVE  DataOK'
<1>1. UNCHANGED <<Path, handler, Req, offers, served>>
    BY DEF Peer, PeerDials, PeerOpensUni, PeerSends, PeerGoesOn, serverVars
<1> SUFFICES /\ conn' \in [Conns -> {"none", "up", "down"}] /\ uni' \in [Conns -> Nat]
             /\ DOMAIN control' = Conns /\ DOMAIN request' = Conns /\ DOMAIN response' = Conns
    BY <1>1 DEF DataOK
<1>2. CASE PeerDials(c) \/ Lost(c)
    BY <1>2 DEF PeerDials, Lost, DataOK
<1>3. CASE PeerOpensUni(c)
    BY <1>3 DEF PeerOpensUni, DataOK
<1>4. ASSUME NEW s, PeerSends(c, s) PROVE DOMAIN request' = Conns
    BY <1>4 DEF PeerSends, DataOK
<1>5. ASSUME NEW s, PeerSends(c, s) PROVE UNCHANGED <<conn, uni, control, response>>
    BY <1>5 DEF PeerSends
<1>6. CASE PeerGoesOn(c)
    BY <1>6 DEF PeerGoesOn, End, DataOK
<1> QED
    BY <1>2, <1>3, <1>4, <1>5, <1>6 DEF Peer, DataOK

\* Every step keeps the types.
LEMMA DataNext == DataOK /\ [Next]_vars => DataOK'
<1> SUFFICES ASSUME DataOK, [Next]_vars PROVE DataOK'
    OBVIOUS
<1>1. CASE ClientSteps
    BY <1>1, ClientData
<1>2. CASE ServerSteps
    BY <1>2, HandlerData, ConsumeData DEF ServerSteps, Server
<1>3. CASE PeerSteps \/ LossSteps
    BY <1>3, PeerData DEF PeerSteps, LossSteps, Others
<1>4. CASE UNCHANGED vars
    BY <1>4 DEF vars, connVars, serverVars, DataOK
<1> QED
    BY <1>1, <1>2, <1>3, <1>4 DEF Next

\* And the flags, which only the application's goroutine touches.
LEMMA FlagsNext == FlagsOK /\ [Next]_vars => FlagsOK'
<1> SUFFICES ASSUME consuming \in BOOLEAN, serverUp \in BOOLEAN, [Next]_vars
             PROVE  consuming' \in BOOLEAN /\ serverUp' \in BOOLEAN
    BY DEF FlagsOK
<1>1. CASE UNCHANGED <<consuming, serverUp>>
    BY <1>1
<1>2. ASSUME NEW c \in Conns, Take(c)
      PROVE  consuming' \in BOOLEAN /\ serverUp' \in BOOLEAN
    <2>1. consuming' = ~Serves(Req[c].Path) /\ serverUp' = serverUp
        BY <1>2 DEF Take, GoesOnTaking
    <2> QED
        BY <2>1
<1>3. ASSUME NEW c \in Conns, TakeDead(c)
      PROVE  consuming' \in BOOLEAN /\ serverUp' \in BOOLEAN
    BY <1>3 DEF TakeDead
<1>4. ASSUME NEW c \in Conns, AcceptSession(c) \/ Handle(c)
      PROVE  UNCHANGED <<consuming, serverUp>>
    BY <1>4 DEF AcceptSession, Handle, WriteSettings, AcceptSettings, AcceptRequest,
                ParseRequest, HandlerFails, ReadRequest, AnswerRequest, Handles
<1>5. ASSUME NEW c \in Conns, Peer(c) PROVE UNCHANGED <<consuming, serverUp>>
    BY <1>5 DEF Peer, PeerDials, PeerOpensUni, PeerSends, PeerGoesOn, serverVars
<1>6. CASE ClientSteps \/ LossSteps \/ UNCHANGED vars
    BY <1>1, <1>6 DEF ClientSteps, LossSteps, serverVars, vars
<1>7. CASE ServerSteps
    BY <1>1, <1>2, <1>3, <1>4, <1>7 DEF ServerSteps, Server, Consume
<1>8. CASE PeerSteps
    BY <1>1, <1>5, <1>8 DEF PeerSteps, Others
<1> QED
    BY <1>6, <1>7, <1>8 DEF Next

(* Every variable of the connections and of the server stays in its set,    *)
(* whoever is connected: no handler waits for a stream that it has taken    *)
(* already, and nobody but a peer of the server is offered or served.       *)
THEOREM TypeCorrect == Spec => []ServerTypeOK
<1>1. DataOK /\ FlagsOK => ServerTypeOK
    <2> SUFFICES ASSUME DataOK, FlagsOK PROVE ServerTypeOK
        OBVIOUS
    <2>1. ConnTypeOK
        BY DEF DataOK, ConnTypeOK
    <2> QED
        BY Zenon, <2>1 DEF DataOK, FlagsOK, ServerTypeOK
<1> QED
    BY <1>1, DataInit, DataNext, FlagsNext, PTL DEF Spec

-----------------------------------------------------------------------------
(* What the two ends read of each other.                                    *)

SettingsStream == Stream(<<SettingsFrame(Supported)>>)

\* A stream of one frame: that frame is the next one.
LEMMA OneIsNext ==
    ASSUME NEW f, f.type \in {"HEADERS", "SETTINGS"}, NEW s, s = Stream(<<f>>)
    PROVE  ParseNextFrame(s) =
               IF f.type = "SETTINGS" THEN parseSettingsFrame(f, s.ended) ELSE Ok(f)
<1>1. s.frames = <<f>>
    BY DEF Stream
<1>2. DOMAIN s.frames = {1} /\ s.frames[1] = f
    BY <1>1
<1>3. {i \in DOMAIN s.frames : s.frames[i].type \in {"DATA", "HEADERS", "SETTINGS"}} = {1}
    BY <1>2
<1>4. Min({1}) = 1
    BY DEF Min
<1>5. {1} # {}
    OBVIOUS
<1>6. ParseNextFrame(s) =
          IF s.frames[1].type = "SETTINGS" THEN parseSettingsFrame(s.frames[1], s.ended)
          ELSE Ok(s.frames[1])
    BY Zenon, <1>3, <1>4, <1>5 DEF ParseNextFrame
<1> QED
    BY <1>2, <1>6

\* A header block is passed on as it is.
LEMMA HeadersAreNext ==
    ASSUME NEW f, f.type = "HEADERS"
    PROVE  ParseNextFrame(Stream(<<f>>)) = Ok(f)
BY OneIsNext

\* Settings are parsed.
LEMMA SettingsAreNext ==
    ASSUME NEW f, f.type = "SETTINGS", NEW s, s = Stream(<<f>>)
    PROVE  ParseNextFrame(s) = parseSettingsFrame(f, s.ended)
BY OneIsNext

\* The server's settings are read as what the client asks for.
LEMMA SettingsAreRead ==
    LET parsed == ParseNextFrame(SettingsStream)
    IN  parsed.kind = "ok" /\ parsed.value.type = "SETTINGS"
            /\ Supports(parsed.value.payload.Other)
<1> DEFINE ended  == SettingsStream.ended
           parsed == parseSettingsFrame(SettingsFrame(Supported), ended)
           other  == parsed.value.payload.Other
<1> HIDE DEF ended
<1>1. Supported \in Settings
    BY DEF Supported, Settings, Setting, H3_DATAGRAM_05, ENABLE_CONNECT_PROTOCOL,
           ENABLE_WEBTRANSPORT
<1>2. /\ DOMAIN Supported = {1, 2, 3} /\ Len(Supported) = 3
      /\ Supported[1] = <<H3_DATAGRAM_05, 1>>
      /\ Supported[2] = <<ENABLE_CONNECT_PROTOCOL, 1>>
      /\ Supported[3] = <<ENABLE_WEBTRANSPORT, 1>>
    BY DEF Supported
<1>3. \A i \in DOMAIN Supported : Supported[i][1] # settingDatagram
    BY <1>2 DEF H3_DATAGRAM_05, ENABLE_CONNECT_PROTOCOL, ENABLE_WEBTRANSPORT, settingDatagram
<1>4. \A i, j \in DOMAIN Supported : i # j => Supported[i][1] # Supported[j][1]
    BY <1>2 DEF H3_DATAGRAM_05, ENABLE_CONNECT_PROTOCOL, ENABLE_WEBTRANSPORT
<1>5. LengthOf(Supported) <= 8192
    <2>1. Bytes(Supported) \in Nat /\ Bytes(Supported) <= 30 * 3
        BY <1>1, <1>2, BytesType
    <2>2. VarintLen(settingDatagram) = 2 /\ VarintLen(1) = 1
        BY DEF VarintLen, settingDatagram
    <2> QED
        BY <2>1, <2>2 DEF LengthOf
<1>6. /\ parsed.kind = "ok" /\ parsed.value.type = "SETTINGS"
      /\ DOMAIN other = Firsts(Supported)
      /\ \A i \in DOMAIN Supported : other[Supported[i][1]] = Supported[i][2]
    <2>1. ReadAs(parsed, Supported)
        BY <1>1, <1>3, <1>4, <1>5, SettingsRoundTrip
    <2> QED
        BY <2>1 DEF ReadAs
<1> HIDE DEF parsed, other
<1>7. Firsts(Supported) = {H3_DATAGRAM_05, ENABLE_CONNECT_PROTOCOL, ENABLE_WEBTRANSPORT}
    BY <1>2 DEF Firsts
<1>8. Supports(other)
    BY <1>2, <1>6, <1>7 DEF Supports
<1>9. ParseNextFrame(SettingsStream) = parsed
    <2> DEFINE f == SettingsFrame(Supported)
    <2>1. f.type = "SETTINGS"
        BY DEF SettingsFrame, Frame
    <2> HIDE DEF f
    <2>2. ParseNextFrame(SettingsStream) = parseSettingsFrame(f, SettingsStream.ended)
        BY Zenon, <2>1, SettingsAreNext DEF SettingsStream, f
    <2> QED
        BY Zenon, <2>2 DEF parsed, f, ended
<1> QED
    BY <1>6, <1>8, <1>9 DEF other

\* The frame of an answer.
AnswerFrame(status) ==
    HeadersFrame(<<<<":status", status>>, <<"sec-webtransport-http3-draft", "draft02">>>>)

\* The server's answer: one whole block, on a stream that stays open.
LEMMA AnswerFacts ==
    ASSUME NEW status \in {"200", "404"}
    PROVE  Answer(status) = Stream(<<AnswerFrame(status)>>)
<1> DEFINE w == WriteHeader(NewResponseWriter, status)
           n == NewResponseWriter
<1>1. n.stream = <<>> /\ n.buffered = <<>> /\ n.headerWritten = FALSE
      /\ DOMAIN n = {"stream", "buffered", "headerWritten"}
    BY DEF NewResponseWriter
<1> HIDE DEF n
<1>2. ~(status \in {"100", "103"})
    OBVIOUS
<1>3. w = [n EXCEPT !.buffered = Append(@, AnswerFrame(status)),
                    !.headerWritten = ~(status \in {"100", "103"})]
    BY <1>1, <1>2 DEF WriteHeader, AnswerFrame, n
<1> HIDE DEF w
<1>4. w.stream = <<>> /\ w.buffered = <<AnswerFrame(status)>>
      /\ DOMAIN w = {"stream", "buffered", "headerWritten"}
    BY <1>1, <1>3
<1>5. Flush(w).stream = <<AnswerFrame(status)>>
    BY <1>4 DEF Flush
<1> QED
    BY <1>5 DEF Answer, w, n

\* The client reads the status that the server answered.
LEMMA AnswerIsRead ==
    ASSUME NEW status \in {"200", "404"}
    PROVE  LET parsed == ParseNextFrame(Answer(status))
           IN  /\ parsed.kind = "ok" /\ parsed.value.type = "HEADERS" /\ parsed.value.whole
               /\ ResponseFromHeaders(parsed.value.payload) = Ok(status)
<1> DEFINE f == AnswerFrame(status)
           pairs == <<<<":status", status>>, <<"sec-webtransport-http3-draft", "draft02">>>>
<1>1. f.type = "HEADERS" /\ f.whole /\ f.payload = pairs
    BY DEF AnswerFrame, HeadersFrame, Frame
<1> HIDE DEF f
<1>2. ParseNextFrame(Answer(status)) = Ok(f)
    <2>1. Answer(status) = Stream(<<f>>)
        BY AnswerFacts DEF f
    <2>2. ParseNextFrame(Stream(<<f>>)) = Ok(f)
        BY Zenon, <1>1, HeadersAreNext
    <2> QED
        BY <2>1, <2>2
<1>3. /\ DOMAIN pairs = {1, 2} /\ pairs[1][1] = ":status" /\ pairs[1][2] = status
      /\ pairs[2][1] # ":status"
    OBVIOUS
<1> HIDE DEF pairs
<1>4. Positions(pairs, ":status") = {1}
    BY <1>3 DEF Positions
<1>5. Last(pairs, ":status", "0") = status
    <2>1. Max({1}) = 1
        BY DEF Max
    <2> QED
        BY <1>3, <1>4, <2>1 DEF Last
<1>6. ResponseFromHeaders(pairs) = Ok(status)
    BY <1>3, <1>4, <1>5 DEF ResponseFromHeaders
<1> QED
    BY <1>1, <1>2, <1>6 DEF Ok

-----------------------------------------------------------------------------
(* The two ends agree.                                                      *)

\* The handler has answered 200.
Asked == {"offering", "given"}

\* What the two paths say: the server takes the session, under the path that was meant,
\* or it does not.
Granted == Req[Me].Path = Meant /\ Path \in {<<>>, Meant}
Refused == Path \notin {<<>>, Meant}

\* Why Connect() may fail; a request that could not be written leaves no stream.
TurnedAway ==
    \/ conn[Me] # "up"
    \/ request[Me] = NoStream /\ Unsendable
    \/ handler[Me] = "ended" /\ Refused

\* The client's CONNECT, and what the server makes of it.
Asking ==
    LET encoded == encodeHeaders(RemoteAddr, clientPath)
    IN  encoded # Fails /\ request[Me] = Stream(<<encoded.value>>)
Asks(r) == r.Method = "CONNECT" /\ r.Proto = "webtransport" /\ r.Path = Meant

BeforeRequest == {"dial", "control", "settings", "open", "request", "write"}
Returned == {"accepted", "ok", "error"}

\* Until the client has written there is no request; the first stream of the server
\* holds its settings until they are read, and the answer is on the stream for as long
\* as Connect() has not read it, with a handler that has gone where it says.
NothingAsked == connect \in BeforeRequest => request[Me] = NoStream
SettingsAhead ==
    /\ connect \in {"dial", "control"} => control[Me] \in {NoStream, SettingsStream}
    /\ connect = "settings" => control[Me] = SettingsStream
Answered ==
    \/ response[Me] = NoStream
    \/ response[Me] = Answer("200") /\ handler[Me] \in Asked /\ Granted
    \/ response[Me] = Answer("404") /\ handler[Me] = "ended" /\ Refused
AnswerAhead == connect \notin Returned => Answered
Outcome ==
    /\ connect \in {"accepted", "ok"} => handler[Me] \in Asked /\ Granted
    /\ connect = "error" => TurnedAway

MineInv == NothingAsked /\ SettingsAhead /\ AnswerAhead /\ Outcome

\* Only sessions that were answered with 200 are on offer.
OffersInv == \A i \in DOMAIN offers : handler[offers[i]] \in Asked

\* The client's stream holds its CONNECT until its handler has read it, and it is read
\* as it was meant unless the connection is lost.
RequestAhead ==
    /\ clientPath \in ClientPaths
    /\ handler[Me] \in {"none", "control", "settings", "request"} =>
           request[Me] = NoStream \/ Asking
    /\ handler[Me] \in {"parse", "block"} => Asking
    /\ handler[Me] = "answer" => conn[Me] = "down" \/ Asks(Req[Me])

AgreeInv == MineInv /\ OffersInv /\ RequestAhead

\* Before anybody dials.
LEMMA AgreeInit == Init => AgreeInv
<1> SUFFICES ASSUME Init PROVE AgreeInv
    OBVIOUS
<1>1. request[Me] = NoStream /\ control[Me] = NoStream /\ response[Me] = NoStream
    BY MeAssumption DEF Init, ConnInit
<1>2. connect = "dial" /\ offers = <<>> /\ clientPath \in ClientPaths
    BY DEF Init, ClientInit, ServerInit
<1>3. handler[Me] = "none"
    BY MeAssumption DEF Init, ServerInit
<1>4. RequestAhead
    BY <1>1, <1>2, <1>3 DEF RequestAhead
<1> QED
    BY <1>1, <1>2, <1>4 DEF AgreeInv, MineInv, OffersInv, NothingAsked, SettingsAhead,
                            AnswerAhead, Answered, Outcome, Returned

\* A session on offer stays on offer, or is given, and what is added is an offer.
LEMMA OffersNext ==
    ASSUME DataOK, OffersInv, [Next]_vars
    PROVE  OffersInv'
<1>1. CASE UNCHANGED <<offers, handler>>
    BY <1>1 DEF OffersInv
<1>2. ASSUME NEW c \in Conns, NEW from \in Stages \ Asked, NEW to, Handles(c, from, to)
      PROVE  OffersInv'
    <2>1. offers' = offers /\ handler[c] = from /\ handler' = [handler EXCEPT ![c] = to]
        BY <1>2 DEF Handles, Go
    <2>2. \A i \in DOMAIN offers : offers[i] # c /\ offers[i] \in Conns
        BY <2>1 DEF OffersInv, DataOK
    <2> QED
        BY <2>1, <2>2 DEF OffersInv, DataOK
<1>3. ASSUME NEW c \in Conns, AcceptSession(c) \/ Handle(c) PROVE OffersInv'
    <2>1. CASE AnswerRequest(c)
        <3>1. \/ handler' = [handler EXCEPT ![c] = "offering"] /\ offers' = Append(offers, c)
              \/ handler' = [handler EXCEPT ![c] = "ended"] /\ offers' = offers
            BY <2>1 DEF AnswerRequest, Go
        <3>2. \A i \in DOMAIN offers : offers[i] # c /\ offers[i] \in Conns
            <4>1. handler[c] \notin Asked
                BY <2>1 DEF AnswerRequest, Asked
            <4>2. \A i \in DOMAIN offers : offers[i] \in Conns
                BY DEF DataOK
            <4> QED
                BY <4>1, <4>2 DEF OffersInv
        <3>3. \A d \in Conns : d # c => handler'[d] = handler[d]
            BY <3>1 DEF DataOK
        <3>4. \A i \in DOMAIN offers : handler'[offers[i]] \in Asked
            BY <3>2, <3>3 DEF OffersInv
        <3>5. CASE offers' = offers
            BY <3>4, <3>5 DEF OffersInv
        <3>6. CASE handler' = [handler EXCEPT ![c] = "offering"] /\ offers' = Append(offers, c)
            <4>1. \A i \in DOMAIN offers' :
                      offers'[i] = c \/ (i \in DOMAIN offers /\ offers'[i] = offers[i])
                BY <3>6 DEF DataOK
            <4>2. handler'[c] = "offering"
                BY <3>6 DEF DataOK
            <4> QED
                BY <3>4, <4>1, <4>2 DEF OffersInv, Asked
        <3> QED
            BY <3>1, <3>5, <3>6
    <2>2. CASE AcceptSession(c) \/ WriteSettings(c) \/ AcceptSettings(c)
               \/ AcceptRequest(c) \/ ParseRequest(c) \/ HandlerFails(c) \/ ReadRequest(c)
        BY <1>2, <2>2 DEF AcceptSession, WriteSettings, AcceptSettings, AcceptRequest,
                          ParseRequest, HandlerFails, ReadRequest, Stages, Asked
    <2> QED
        BY <1>3, <2>1, <2>2 DEF Handle
<1>4. ASSUME NEW c \in Conns, Take(c) PROVE OffersInv'
    <2>1. offers # <<>> /\ offers' = Tail(offers)
          /\ handler' = [handler EXCEPT ![c] = "given"]
        BY <1>4 DEF Take, Go
    <2>2. \A i \in DOMAIN offers' : i + 1 \in DOMAIN offers /\ offers'[i] = offers[i + 1]
        BY <2>1 DEF DataOK
    <2>3. \A i \in DOMAIN offers : offers[i] \in Conns
        BY DEF DataOK
    <2> QED
        BY <2>1, <2>2, <2>3 DEF OffersInv, DataOK, Asked
<1>5. ASSUME NEW c \in Conns, TakeDead(c) PROVE OffersInv'
    BY <1>1, <1>5 DEF TakeDead
<1>6. ASSUME NEW c \in Conns, Peer(c) PROVE OffersInv'
    BY <1>1, <1>6 DEF Peer, PeerDials, PeerOpensUni, PeerSends, PeerGoesOn, serverVars
<1>7. CASE ClientSteps \/ LossSteps \/ UNCHANGED vars
    BY <1>1, <1>7 DEF ClientSteps, LossSteps, serverVars, vars
<1> QED
    BY <1>3, <1>4, <1>5, <1>6, <1>7
       DEF Next, ServerSteps, Server, Consume, PeerSteps, Others

\* The paths stay what they are.
LEMMA PathsKept ==
    ASSUME UNCHANGED <<clientPath, Path>>
    PROVE  /\ Meant' = Meant /\ (Unsendable' <=> Unsendable) /\ (Refused' <=> Refused)
           /\ Req'[Me] = Req[Me] => (Granted' <=> Granted)
BY DEF Meant, Unsendable, Refused, Granted

\* What does not concern the client's connection, but perhaps loses it.
LEMMA ElsewhereKeepsMine ==
    ASSUME MineInv, UNCHANGED <<connect, clientPath, Path>>,
           conn'[Me] = conn[Me] \/ conn'[Me] = "down",
           control'[Me] = control[Me], request'[Me] = request[Me], response'[Me] = response[Me],
           handler'[Me] = handler[Me], Req'[Me] = Req[Me]
    PROVE  MineInv'
<1>1. NothingAsked' /\ SettingsAhead'
    BY DEF MineInv, NothingAsked, SettingsAhead
<1>2. (Granted' <=> Granted) /\ (Refused' <=> Refused) /\ (Unsendable' <=> Unsendable)
    BY PathsKept
<1>3. AnswerAhead'
    BY <1>2 DEF MineInv, AnswerAhead, Answered
<1>4. Outcome'
    BY <1>2 DEF MineInv, Outcome, TurnedAway
<1> QED
    BY <1>1, <1>3, <1>4 DEF MineInv

\* The two answers differ, and neither is no answer.
LEMMA AnswersDiffer ==
    /\ Answer("200").opened /\ Answer("404").opened
    /\ Answer("200") # NoStream /\ Answer("404") # NoStream
<1>1. Answer("200").opened /\ Answer("404").opened
    BY AnswerFacts DEF Stream
<1>2. ~NoStream.opened
    BY DEF NoStream
<1> QED
    BY <1>1, <1>2

\* Reading a stream that has nothing on it leaves it as it was.
LEMMA NothingConsumed ==
    ASSUME NEW half, DOMAIN half = Conns, half[Me] = NoStream, NEW c \in Conns
    PROVE  Consumed(half, c)[Me] = NoStream
<1>1. [NoStream EXCEPT !.frames = <<>>] = NoStream
    BY DEF NoStream
<1> QED
    BY <1>1, MeAssumption DEF Consumed

\* A stage of Connect() that does not end it and changes none of the streams.
LEMMA StageKeepsMine ==
    ASSUME MineInv, UNCHANGED <<control, request, response, handler, Req, clientPath, Path>>,
           connect \notin Returned, connect' \notin Returned,
           connect' \in BeforeRequest => connect \in BeforeRequest,
           connect' \in {"dial", "control"} => connect \in {"dial", "control"},
           connect' = "settings" => control[Me] = SettingsStream
    PROVE  MineInv'
<1>1. NothingAsked' /\ SettingsAhead'
    BY DEF MineInv, NothingAsked, SettingsAhead
<1>2. (Granted' <=> Granted) /\ (Refused' <=> Refused)
    BY PathsKept
<1>3. AnswerAhead'
    BY <1>2 DEF MineInv, AnswerAhead, Answered
<1>4. Outcome'
    BY DEF Outcome, Returned
<1> QED
    BY <1>1, <1>3, <1>4 DEF MineInv

\* A Connect() that fails has a cause.
LEMMA ErrorKeepsMine ==
    ASSUME connect' = "error", TurnedAway'
    PROVE  MineInv'
BY DEF MineInv, NothingAsked, SettingsAhead, AnswerAhead, Outcome, BeforeRequest, Returned

\* The client's path, and what it is meant to be.
LEMMA MineIsPlain ==
    ASSUME RequestAhead
    PROVE  /\ Plain(clientPath)
           /\ Named(clientPath) = Meant /\ (CannotBeSent(clientPath) <=> Unsendable)
<1>1. clientPath \in ClientPaths
    BY DEF RequestAhead
<1>2. Plain(clientPath)
    BY <1>1, ClientPathsAssumption DEF Plain
<1>3. Named(clientPath) = Meant
    BY DEF Named, Meant
<1> QED
    BY <1>2, <1>3 DEF CannotBeSent, Unsendable

\* Connect() asks once, reads the answer that its handler gave, and fails with a cause.
LEMMA ClientMine ==
    ASSUME DataOK, MineInv, RequestAhead, ClientSteps
    PROVE  MineInv'
<1>1. UNCHANGED <<clientPath, Path, handler, Req>>
    BY DEF ClientSteps, serverVars, Connect, Dial, AcceptControl, ReadSettings, OpenControl,
           OpenRequest, WriteRequest, ReadResponse, Succeed, ConnectFails, Connects
<1> DEFINE Kept == /\ (Granted' <=> Granted) /\ (Refused' <=> Refused)
                   /\ (Unsendable' <=> Unsendable)
<1>0. Kept
    BY <1>1, PathsKept
<1>2. CASE Dial(serverUp)
    <2>1. connect' = "control" \/ (connect' = "error" /\ conn'[Me] # "up")
        BY <1>2 DEF Dial, Connects
    <2>2. connect = "dial" /\ UNCHANGED <<control, request, response>>
        BY <1>2 DEF Dial, Connects
    <2>3. CASE connect' = "control"
        BY <1>1, <2>2, <2>3, StageKeepsMine DEF BeforeRequest, Returned
    <2>4. CASE connect' = "error" /\ conn'[Me] # "up"
        BY <2>4, ErrorKeepsMine DEF TurnedAway
    <2> QED
        BY <2>1, <2>3, <2>4
<1>3. CASE AcceptControl
    <2>1. /\ connect = "control" /\ connect' = "settings" /\ control[Me].opened
          /\ UNCHANGED <<control, request, response>>
        BY <1>3 DEF AcceptControl, Connects, connVars
    <2>2. control[Me] = SettingsStream
        BY <2>1 DEF MineInv, SettingsAhead, NoStream
    <2> QED
        BY <1>1, <2>1, <2>2, StageKeepsMine DEF BeforeRequest, Returned
<1>4. CASE ReadSettings
    <2>1. connect = "settings" /\ UNCHANGED <<request, response>>
        BY <1>4 DEF ReadSettings, Connects
    <2>2. control[Me] = SettingsStream
        BY <2>1 DEF MineInv, SettingsAhead
    <2>3. connect' = "open"
        BY <1>4, <2>2, SettingsAreRead DEF ReadSettings, Connects
    <2>4. NothingAsked' /\ SettingsAhead' /\ Outcome'
        BY <2>1, <2>3 DEF MineInv, NothingAsked, SettingsAhead, Outcome, BeforeRequest
    <2>6. AnswerAhead'
        BY <1>0, <1>1, <2>1 DEF MineInv, AnswerAhead, Answered, Returned
    <2> QED
        BY <2>4, <2>6 DEF MineInv
<1>5. CASE OpenControl
    BY <1>1, <1>5, StageKeepsMine DEF OpenControl, Connects, BeforeRequest, Returned
<1>6. CASE OpenRequest
    BY <1>1, <1>6, StageKeepsMine DEF OpenRequest, Connects, connVars, BeforeRequest, Returned
<1>7. CASE WriteRequest
    <2>1. connect = "write" /\ request[Me] = NoStream /\ UNCHANGED <<conn, control, response>>
        BY <1>7 DEF WriteRequest, Connects, MineInv, NothingAsked, BeforeRequest
    <2>2. \/ /\ connect' = "error" /\ UNCHANGED request
             /\ encodeHeaders(RemoteAddr, clientPath) = Fails \/ request[Me].ended
          \/ connect' = "response"
        BY <1>7 DEF WriteRequest, Connects
    <2>3. CASE connect' = "response"
        <3>1. NothingAsked' /\ SettingsAhead' /\ Outcome'
            BY <2>3 DEF NothingAsked, SettingsAhead, Outcome, BeforeRequest
        <3>3. AnswerAhead'
            BY <1>0, <1>1, <2>1, <2>3 DEF MineInv, AnswerAhead, Answered, Returned
        <3> QED
            BY <3>1, <3>3 DEF MineInv
    <2>4. CASE connect' # "response"
        <3>1. encodeHeaders(RemoteAddr, clientPath) = Fails
            BY <2>1, <2>2, <2>4 DEF NoStream
        <3>2. Unsendable
            BY <3>1, MineIsPlain, PathsRoundTrip
        <3> QED
            BY <1>0, <2>1, <2>2, <2>4, <3>2, ErrorKeepsMine DEF TurnedAway
    <2> QED
        BY <2>3, <2>4
<1>8. CASE ReadResponse
    <2>1. connect = "response" /\ response[Me].opened /\ UNCHANGED <<conn, control, request>>
        BY <1>8 DEF ReadResponse, Connects
    <2>2. Answered /\ response[Me] # NoStream
        BY <2>1 DEF MineInv, AnswerAhead, Returned, NoStream
    <2>3. CASE response[Me] = Answer("200")
        <3>1. handler[Me] \in Asked /\ Granted
            BY <2>2, <2>3, AnswerIsRead DEF Answered, Ok
        <3>2. connect' = "accepted"
            BY <1>8, <2>3, AnswerIsRead DEF ReadResponse, Connects, IsAccepted, Ok, Fails
        <3> QED
            BY <1>0, <1>1, <3>1, <3>2 DEF MineInv, NothingAsked, SettingsAhead, AnswerAhead,
                                          Outcome, BeforeRequest, Returned
    <2>4. CASE response[Me] = Answer("404") /\ response[Me] # Answer("200")
        <3>1. handler[Me] = "ended" /\ Refused
            BY <2>2, <2>4 DEF Answered
        <3>2. connect' = "error"
            BY <1>8, <2>4, AnswerIsRead DEF ReadResponse, Connects, IsAccepted, Ok
        <3>3. TurnedAway'
            BY <1>0, <1>1, <3>1 DEF TurnedAway
        <3> QED
            BY <3>2, <3>3, ErrorKeepsMine
    <2> QED
        BY <2>2, <2>3, <2>4 DEF Answered
<1>9. CASE Succeed
    <2>1. connect = "accepted" /\ connect' = "ok" /\ UNCHANGED <<control, request, response>>
        BY <1>9 DEF Succeed, Connects, connVars
    <2> QED
        BY <1>0, <1>1, <2>1 DEF MineInv, NothingAsked, SettingsAhead, AnswerAhead, Outcome,
                                BeforeRequest, Returned
<1>10. CASE ConnectFails
    <2>1. conn'[Me] = "down" /\ connect' = "error"
        BY <1>10 DEF ConnectFails, Connects, connVars
    <2> QED
        BY <2>1, ErrorKeepsMine DEF TurnedAway
<1> QED
    BY <1>2, <1>3, <1>4, <1>5, <1>6, <1>7, <1>8, <1>9, <1>10 DEF ClientSteps, Connect

\* A stage of the client's handler before it answers.
LEMMA StageBeforeAnswer ==
    ASSUME DataOK, MineInv, NEW from \in Stages \ (Asked \cup {"ended"}), NEW to,
           Handles(Me, from, to), UNCHANGED <<connect, conn, response, clientPath>>,
           control'[Me] \in {control[Me], SettingsStream},
           request'[Me] = request[Me] \/ (request[Me] # NoStream /\ request'[Me] # NoStream)
    PROVE  MineInv'
<1>1. handler[Me] = from
    BY DEF Handles
<1>2. response[Me] = NoStream \/ connect \in Returned
    BY <1>1 DEF MineInv, AnswerAhead, Answered
<1>3. NothingAsked' /\ SettingsAhead'
    BY DEF MineInv, NothingAsked, SettingsAhead
<1>4. AnswerAhead'
    BY <1>2 DEF AnswerAhead, Answered
<1>5. connect \in {"accepted", "ok"} => FALSE
    BY <1>1 DEF MineInv, Outcome
<1>6. connect = "error" => TurnedAway'
    <2>1. Unsendable' <=> Unsendable
        BY PathsKept DEF Handles
    <2> QED
        BY <1>1, <2>1 DEF MineInv, Outcome, TurnedAway
<1> QED
    BY <1>3, <1>4, <1>5, <1>6 DEF MineInv, Outcome

\* The client's handler answers once, before anybody has read an answer.
LEMMA HandlerMine ==
    ASSUME DataOK, MineInv, RequestAhead, AcceptSession(Me) \/ Handle(Me), UNCHANGED clientVars
    PROVE  MineInv'
<1> USE DEF Stages, Asked
<1>1. UNCHANGED <<connect, clientPath>>
    BY DEF clientVars
<1>2. CASE AcceptSession(Me)
    BY <1>1, <1>2, StageBeforeAnswer DEF AcceptSession, connVars
<1>3. CASE WriteSettings(Me)
    <2>1. control'[Me] = SettingsStream
        BY <1>3, MeAssumption DEF WriteSettings, SettingsStream, DataOK
    <2> QED
        BY <1>1, <1>3, <2>1, StageBeforeAnswer DEF WriteSettings
<1>4. CASE AcceptSettings(Me)
    BY <1>1, <1>4, StageBeforeAnswer DEF AcceptSettings
<1>5. CASE AcceptRequest(Me)
    BY <1>1, <1>5, StageBeforeAnswer DEF AcceptRequest, connVars
<1>6. CASE ParseRequest(Me)
    <2>1. Handles(Me, "parse", "block") \/ Handles(Me, "parse", "ended")
        BY <1>6 DEF ParseRequest
    <2>2. UNCHANGED connVars
        BY <1>6 DEF ParseRequest
    <2> QED
        BY <1>1, <2>1, <2>2, StageBeforeAnswer DEF connVars
<1>7. CASE HandlerFails(Me)
    BY <1>1, <1>7, StageBeforeAnswer DEF HandlerFails, connVars
<1>8. CASE ReadRequest(Me)
    <2>1. Handles(Me, "block", "ended") \/ Handles(Me, "block", "answer")
        BY <1>8 DEF ReadRequest
    <2>2. UNCHANGED <<conn, control, response>> /\ request' = Consumed(request, Me)
        BY <1>8 DEF ReadRequest
    <2>3. handler[Me] = "block"
        BY <1>8 DEF ReadRequest
    <2>4. connect \notin Returned \/ connect = "error"
        BY <2>3 DEF MineInv, Outcome, Returned
    <2>5. request[Me] = NoStream => request'[Me] = NoStream
        BY <2>2, NothingConsumed, MeAssumption DEF DataOK
    <2>6. NothingAsked' /\ SettingsAhead'
        BY <1>1, <2>2, <2>5 DEF MineInv, NothingAsked, SettingsAhead
    <2>7. AnswerAhead'
        BY <1>1, <2>2, <2>3 DEF MineInv, AnswerAhead, Answered
    <2>8. Outcome'
        <3>1. Unsendable' <=> Unsendable
            BY <1>1, PathsKept DEF Unsendable, Meant
        <3> QED
            BY <1>1, <2>2, <2>3, <2>5, <3>1 DEF MineInv, Outcome, TurnedAway
    <2> QED
        BY <2>6, <2>7, <2>8 DEF MineInv
<1>9. CASE AnswerRequest(Me)
    <2>1. handler[Me] = "answer" /\ UNCHANGED <<conn, control, request, Path, Req>>
        BY <1>9 DEF AnswerRequest
    <2>2. response[Me] = NoStream \/ connect \in Returned
        BY <2>1 DEF MineInv, AnswerAhead, Answered
    <2>3. connect \notin {"accepted", "ok"}
        BY <2>1 DEF MineInv, Outcome
    <2>4. (Granted' <=> Granted) /\ (Refused' <=> Refused) /\ (Unsendable' <=> Unsendable)
        BY <1>1, <2>1, PathsKept
    <2>5. Outcome'
        BY <1>1, <2>1, <2>3, <2>4 DEF MineInv, Outcome, TurnedAway
    <2>6. AnswerAhead'
        <3>1. CASE conn[Me] # "up"
            <4>1. response' = response
                BY <1>9, <3>1 DEF AnswerRequest
            <4> QED
                BY <1>1, <2>2, <4>1 DEF AnswerAhead, Answered
        <3>2. CASE conn[Me] = "up" /\ Accepts(Req[Me])
            <4>1. handler'[Me] = "offering" /\ response'[Me] = Answer("200")
                BY <1>9, <3>2, MeAssumption DEF AnswerRequest, Go, DataOK
            <4>2. Granted
                BY <2>1, <3>2 DEF RequestAhead, Asks, Accepts, Granted
            <4> QED
                BY <2>4, <4>1, <4>2 DEF AnswerAhead, Answered
        <3>3. CASE conn[Me] = "up" /\ ~Accepts(Req[Me])
            <4>1. handler'[Me] = "ended" /\ response'[Me] = Answer("404")
                BY <1>9, <3>3, MeAssumption DEF AnswerRequest, Go, DataOK
            <4>2. Refused
                BY <2>1, <3>3 DEF RequestAhead, Asks, Accepts, Refused
            <4> QED
                BY <2>4, <4>1, <4>2 DEF AnswerAhead, Answered
        <3> QED
            BY <3>1, <3>2, <3>3
    <2> QED
        BY <1>1, <2>1, <2>5, <2>6 DEF MineInv, NothingAsked, SettingsAhead
<1> QED
    BY <1>2, <1>3, <1>4, <1>5, <1>6, <1>7, <1>8, <1>9 DEF Handle

\* The handler of another connection does not touch the client's.
LEMMA OtherHandlerMine ==
    ASSUME DataOK, MineInv, NEW c \in Others, AcceptSession(c) \/ Handle(c), UNCHANGED clientVars
    PROVE  MineInv'
<1> USE MeAssumption DEF Others
<1>1. UNCHANGED <<connect, clientPath>>
    BY DEF clientVars
<1>2. UNCHANGED <<conn, Path>>
    BY DEF AcceptSession, Handle, WriteSettings, AcceptSettings, AcceptRequest, ParseRequest,
           HandlerFails, ReadRequest, AnswerRequest, Handles, connVars
<1>3. \A to : Go(c, to) => handler'[Me] = handler[Me]
    BY DEF Go, DataOK
<1>4. /\ control'[Me] = control[Me] /\ request'[Me] = request[Me]
      /\ response'[Me] = response[Me] /\ handler'[Me] = handler[Me] /\ Req'[Me] = Req[Me]
    <2>1. CASE AcceptSession(c) \/ AcceptRequest(c) \/ ParseRequest(c) \/ HandlerFails(c)
        BY <1>3, <2>1 DEF AcceptSession, AcceptRequest, ParseRequest, HandlerFails, Handles,
                          connVars
    <2>2. CASE WriteSettings(c)
        BY <1>3, <2>2 DEF WriteSettings, Handles, DataOK
    <2>3. CASE AcceptSettings(c)
        BY <1>3, <2>3 DEF AcceptSettings, Handles
    <2>4. CASE ReadRequest(c)
        <3>1. request'[Me] = request[Me] /\ UNCHANGED <<control, response>>
            BY <2>4 DEF ReadRequest, Consumed, DataOK
        <3>2. handler'[Me] = handler[Me] /\ Req'[Me] = Req[Me]
            BY <1>3, <2>4 DEF ReadRequest, Handles, DataOK
        <3> QED
            BY <3>1, <3>2
    <2>5. CASE AnswerRequest(c)
        <3>1. response'[Me] = response[Me] /\ UNCHANGED <<control, request, Req>>
            BY <2>5 DEF AnswerRequest, DataOK
        <3>2. handler'[Me] = handler[Me]
            BY <1>3, <2>5 DEF AnswerRequest
        <3> QED
            BY <3>1, <3>2
    <2> QED
        BY <2>1, <2>2, <2>3, <2>4, <2>5 DEF Handle
<1> QED
    BY <1>1, <1>2, <1>4, ElsewhereKeepsMine

\* The application takes sessions that are on offer.
LEMMA ConsumeMine ==
    ASSUME DataOK, MineInv, OffersInv, Consume, UNCHANGED clientVars
    PROVE  MineInv'
<1> USE MeAssumption
<1>1. UNCHANGED <<connect, clientPath>>
    BY DEF clientVars
<1>2. ASSUME NEW c \in Conns, Take(c) PROVE MineInv'
    <2>1. UNCHANGED <<conn, control, request, response, Path, Req>>
        BY <1>2 DEF Take, connVars
    <2>2. handler' = [handler EXCEPT ![c] = "given"]
        BY <1>2 DEF Take, Go
    <2>3. CASE c # Me
        <3>1. handler'[Me] = handler[Me]
            BY <2>2, <2>3 DEF DataOK
        <3> QED
            BY <1>1, <2>1, <3>1, ElsewhereKeepsMine
    <2>4. CASE c = Me
        <3>1. offers # <<>> /\ c = Head(offers)
            BY <1>2 DEF Take
        <3>2. 1 \in DOMAIN offers /\ c = offers[1]
            BY <3>1 DEF DataOK
        <3>3. handler[Me] \in Asked
            BY <2>4, <3>2 DEF OffersInv
        <3>4. handler'[Me] = "given"
            BY <2>2, <2>4 DEF DataOK
        <3>5. NothingAsked' /\ SettingsAhead'
            BY <1>1, <2>1 DEF MineInv, NothingAsked, SettingsAhead
        <3> DEFINE Kept == (Granted' <=> Granted) /\ (Unsendable' <=> Unsendable)
        <3>0. Kept
            BY <1>1, <2>1, PathsKept
        <3>6. AnswerAhead'
            BY <1>1, <2>1, <3>0, <3>3, <3>4 DEF MineInv, AnswerAhead, Answered, Asked
        <3>7. Outcome'
            BY <1>1, <2>1, <3>0, <3>3, <3>4 DEF MineInv, Outcome, TurnedAway, Asked
        <3> QED
            BY <3>5, <3>6, <3>7 DEF MineInv
    <2> QED
        BY <2>3, <2>4
<1>3. ASSUME NEW c \in Conns, TakeDead(c) PROVE MineInv'
    <2>1. UNCHANGED <<control, request, response, Path, Req, handler>>
        BY <1>3 DEF TakeDead
    <2>2. conn'[Me] = conn[Me] \/ conn'[Me] = "down"
        BY <1>3 DEF TakeDead
    <2> QED
        BY <1>1, <2>1, <2>2, ElsewhereKeepsMine
<1> QED
    BY <1>2, <1>3 DEF Consume

\* The other peers do not touch the client's connection; the network may end it.
LEMMA PeerMine ==
    ASSUME DataOK, MineInv, PeerSteps \/ LossSteps
    PROVE  MineInv'
<1> USE MeAssumption DEF Others
<1>1. UNCHANGED <<connect, clientPath, Path, handler, Req, control, response>>
    BY DEF PeerSteps, LossSteps, clientVars, serverVars, Peer, PeerDials, PeerOpensUni,
           PeerSends, PeerGoesOn, Lost
<1>2. ASSUME NEW c \in Others, Peer(c)
      PROVE  conn'[Me] = conn[Me] /\ request'[Me] = request[Me]
    <2>1. CASE PeerDials(c) \/ PeerOpensUni(c)
        BY <2>1 DEF PeerDials, PeerOpensUni, DataOK
    <2>2. ASSUME NEW s \in Requests, PeerSends(c, s)
          PROVE  conn'[Me] = conn[Me] /\ request'[Me] = request[Me]
        BY <2>2 DEF PeerSends, DataOK
    <2>3. CASE PeerGoesOn(c)
        BY <2>3 DEF PeerGoesOn, End, DataOK
    <2> QED
        BY <1>2, <2>1, <2>2, <2>3 DEF Peer
<1>3. ASSUME NEW c \in Conns, Lost(c)
      PROVE  conn'[Me] \in {conn[Me], "down"} /\ request'[Me] = request[Me]
    BY <1>3 DEF Lost, DataOK
<1> QED
    BY <1>1, <1>2, <1>3, ElsewhereKeepsMine DEF PeerSteps, LossSteps

\* A request that is written is on the stream.
LEMMA AskingIsOpen ==
    ASSUME Asking
    PROVE  request[Me].opened /\ request[Me] # NoStream
BY DEF Asking, Stream, NoStream

\* Off the client's stream, a handler that goes on has what it needs.
LEMMA StageKeepsRequest ==
    ASSUME RequestAhead, clientPath' = clientPath,
           request'[Me] = request[Me], Req'[Me] = Req[Me],
           conn[Me] = "down" => conn'[Me] = "down",
           handler'[Me] \in {"none", "control", "settings", "request"} =>
               handler[Me] \in {"none", "control", "settings", "request"},
           handler'[Me] \in {"parse", "block"} => Asking,
           handler'[Me] = "answer" => handler[Me] = "answer"
    PROVE  RequestAhead'
<1>1. Asking' <=> Asking
    BY DEF Asking
<1>2. Asks(Req[Me])' <=> Asks(Req[Me])
    BY DEF Asks, Meant
<1> QED
    BY <1>1, <1>2 DEF RequestAhead

\* On a connection that is not lost the handler reads what the client wrote.
LEMMA AskedIsRead ==
    ASSUME RequestAhead, Asking, conn[Me] # "down", ReadFull(Me),
           NEW decoded \in Decodings(Block(Me)), Read(decoded) # Fails
    PROVE  Asks(Read(decoded).value)
<1> DEFINE f == HeadersFrame(Fields(RemoteAddr, PathField(clientPath)))
           read == RequestFromHeaders(f.payload)
<1>1. Plain(clientPath) /\ Named(clientPath) = Meant
    BY MineIsPlain
<1>2. encodeHeaders(RemoteAddr, clientPath) = Ok(f)
    BY <1>1, PathsRoundTrip DEF Asking
<1>3. Ok(f).value = f
    BY DEF Ok
<1>4. f.type = "HEADERS" /\ f.whole /\ DOMAIN f = {"type", "length", "payload", "whole"}
    BY DEF HeadersFrame, Frame
<1>5. RemoteAddr # ""
    BY DEF RemoteAddr
<1>6. \/ read = Fails
      \/ read = Ok([Method |-> "CONNECT", Proto |-> "webtransport", Host |-> RemoteAddr,
                    RequestURI |-> PathField(clientPath), Path |-> Meant])
    <2>1. encodeHeaders(RemoteAddr, clientPath) # Fails
        BY DEF Asking
    <2>2. encodeHeaders(RemoteAddr, clientPath).value.payload = f.payload
        BY <1>2, <1>3
    <2> QED
        BY <1>1, <1>5, <2>1, <2>2, PathsRoundTrip
<1> HIDE DEF f
<1>7. ParseNextFrame(request[Me]) = Ok(f)
    <2>1. request[Me] = Stream(<<f>>)
        BY <1>2, <1>3 DEF Asking
    <2> QED
        BY <1>4, <2>1, HeadersAreNext
<1>8. decoded = Ok(f.payload)
    <2>1. ParseNextFrame(request[Me]).value = f
        BY <1>3, <1>7
    <2>2. ~request[Me].ended
        BY DEF Asking, Stream
    <2>3. Block(Me) = IF conn[Me] = "up" THEN f ELSE [f EXCEPT !.whole = FALSE]
        BY <2>1 DEF Block
    <2>4. [f EXCEPT !.whole = FALSE].whole = FALSE
        BY <1>4
    <2>5. Block(Me) = f
        BY <2>2, <2>3, <2>4 DEF ReadFull
    <2> QED
        BY <1>4, <2>5 DEF Decodings
<1>9. Read(decoded) = read
    BY <1>8 DEF Read, Ok, Fails
<1> QED
    BY <1>6, <1>9 DEF Asks, Ok

\* The client's handler takes the request as it was meant.
LEMMA HandlerRequest ==
    ASSUME DataOK, RequestAhead, AcceptSession(Me) \/ Handle(Me), UNCHANGED clientVars
    PROVE  RequestAhead'
<1> USE MeAssumption
<1>1. clientPath' = clientPath
    BY DEF clientVars
<1>2. ASSUME NEW from, NEW to, Handles(Me, from, to)
      PROVE  handler[Me] = from /\ handler'[Me] = to
    BY <1>2 DEF Handles, Go, DataOK
<1>3. CASE AcceptSession(Me) \/ WriteSettings(Me) \/ AcceptSettings(Me)
    <2>1. UNCHANGED <<conn, request, Req>>
        BY <1>3 DEF AcceptSession, WriteSettings, AcceptSettings, connVars
    <2>2. /\ handler[Me] \in {"none", "control", "settings"}
          /\ handler'[Me] \in {"control", "settings", "request"}
        BY <1>2, <1>3 DEF AcceptSession, WriteSettings, AcceptSettings
    <2> QED
        BY <1>1, <2>1, <2>2, StageKeepsRequest
<1>4. CASE AcceptRequest(Me)
    <2>1. handler[Me] = "request" /\ handler'[Me] = "parse" /\ UNCHANGED <<conn, request, Req>>
        BY <1>2, <1>4 DEF AcceptRequest, connVars
    <2>2. Asking
        BY <1>4, <2>1 DEF AcceptRequest, RequestAhead, NoStream
    <2> QED
        BY <1>1, <2>1, <2>2, StageKeepsRequest
<1>5. CASE ParseRequest(Me)
    <2>1. /\ handler[Me] = "parse" /\ handler'[Me] \in {"block", "ended"}
          /\ UNCHANGED <<conn, request, Req>>
        BY <1>2, <1>5 DEF ParseRequest, connVars
    <2>2. Asking
        BY <2>1 DEF RequestAhead
    <2> QED
        BY <1>1, <2>1, <2>2, StageKeepsRequest
<1>6. CASE HandlerFails(Me)
    <2>1. handler'[Me] = "ended" /\ UNCHANGED <<conn, request, Req>>
        BY <1>2, <1>6 DEF HandlerFails, connVars
    <2> QED
        BY <1>1, <2>1, StageKeepsRequest
<1>7. CASE ReadRequest(Me)
    <2>1. handler[Me] = "block" /\ conn' = conn
        BY <1>7 DEF ReadRequest
    <2>2. Asking
        BY <2>1 DEF RequestAhead
    <2>3. PICK decoded \in Decodings(Block(Me)) :
              IF Read(decoded) = Fails THEN Handles(Me, "block", "ended")
              ELSE Handles(Me, "block", "answer") /\ Req' = [Req EXCEPT ![Me] = Read(decoded).value]
        BY <1>7 DEF ReadRequest
    <2>4. CASE Read(decoded) = Fails
        <3>1. handler'[Me] = "ended"
            BY <1>2, <2>3, <2>4
        <3> QED
            BY <1>1, <3>1 DEF RequestAhead
    <2>5. CASE Read(decoded) # Fails
        <3>1. handler'[Me] = "answer" /\ Req'[Me] = Read(decoded).value
            BY <1>2, <2>3, <2>5 DEF DataOK
        <3>2. conn'[Me] = "down" \/ Asks(Req'[Me])
            BY <1>7, <2>1, <2>2, <2>5, <3>1, AskedIsRead DEF ReadRequest
        <3>3. Asks(Req[Me])' <=> Asks(Req'[Me])
            BY <1>1 DEF Asks, Meant
        <3> QED
            BY <1>1, <3>1, <3>2, <3>3 DEF RequestAhead
    <2> QED
        BY <2>4, <2>5
<1>8. CASE AnswerRequest(Me)
    <2>1. handler'[Me] \in {"offering", "ended"} /\ UNCHANGED <<conn, request, Req>>
        BY <1>8 DEF AnswerRequest, Go, DataOK
    <2> QED
        BY <1>1, <2>1, StageKeepsRequest
<1> QED
    BY <1>3, <1>4, <1>5, <1>6, <1>7, <1>8 DEF Handle

\* Connect() writes once, before anybody can read.
LEMMA ClientRequest ==
    ASSUME DataOK, MineInv, RequestAhead, ClientSteps
    PROVE  RequestAhead'
<1> USE MeAssumption
<1>1. UNCHANGED <<clientPath, handler, Req>>
    BY DEF ClientSteps, serverVars, Connect, Dial, AcceptControl, ReadSettings, OpenControl,
           OpenRequest, WriteRequest, ReadResponse, Succeed, ConnectFails, Connects
<1>2. Asks(Req[Me])' <=> Asks(Req[Me])
    BY <1>1 DEF Asks, Meant
<1>3. CASE WriteRequest
    <2>1. request[Me] = NoStream /\ conn' = conn
        BY <1>3 DEF WriteRequest, Connects, MineInv, NothingAsked, BeforeRequest
    <2>2. request' = request \/ Asking'
        BY <1>1, <1>3 DEF WriteRequest, Asking, DataOK
    <2>3. handler[Me] \notin {"parse", "block"}
        BY <2>1, AskingIsOpen DEF RequestAhead
    <2> QED
        BY <1>1, <1>2, <2>1, <2>2, <2>3 DEF RequestAhead
<1>4. CASE Dial(serverUp)
    <2>1. UNCHANGED request
        BY <1>4 DEF Dial
    <2>2. conn[Me] # "down"
        BY <1>4 DEF Dial
    <2> QED
        BY <1>1, <2>1, <2>2, StageKeepsRequest DEF RequestAhead
<1>5. CASE ~WriteRequest /\ ~Dial(serverUp)
    <2>1. UNCHANGED <<conn, request>>
        BY <1>5 DEF ClientSteps, Connect, AcceptControl, ReadSettings, OpenControl, OpenRequest,
                    ReadResponse, Succeed, ConnectFails, connVars
    <2> QED
        BY <1>1, <2>1, StageKeepsRequest DEF RequestAhead
<1> QED
    BY <1>3, <1>4, <1>5

\* Nobody else touches the client's stream, and none but its handler its request.
LEMMA RequestNext ==
    ASSUME DataOK, MineInv, OffersInv, RequestAhead, [Next]_vars
    PROVE  RequestAhead'
<1> USE MeAssumption
<1>1. ASSUME UNCHANGED <<clientVars, request, Req>>, conn[Me] = "down" => conn'[Me] = "down",
             handler'[Me] \in {handler[Me], "given"}
      PROVE  RequestAhead'
    BY <1>1, StageKeepsRequest DEF RequestAhead, clientVars
<1>2. ASSUME NEW c \in Others, AcceptSession(c) \/ Handle(c), UNCHANGED clientVars
      PROVE  RequestAhead'
    <2>1. clientPath' = clientPath /\ request'[Me] = request[Me] /\ conn' = conn
        BY <1>2 DEF AcceptSession, Handle, WriteSettings, AcceptSettings, AcceptRequest,
                    ParseRequest, HandlerFails, ReadRequest, AnswerRequest, connVars, Consumed,
                    DataOK, Others, clientVars
    <2>2. \A to : Go(c, to) => handler'[Me] = handler[Me]
        BY DEF Go, DataOK, Others
    <2>3. handler'[Me] = handler[Me]
        BY <1>2, <2>2 DEF AcceptSession, Handle, WriteSettings, AcceptSettings, AcceptRequest,
                          ParseRequest, HandlerFails, ReadRequest, AnswerRequest, Handles
    <2>4. Req'[Me] = Req[Me]
        <3>1. CASE ReadRequest(c)
            BY <3>1 DEF ReadRequest, DataOK, Others
        <3>2. CASE ~ReadRequest(c)
            BY <1>2, <3>2 DEF AcceptSession, Handle, WriteSettings, AcceptSettings,
                              AcceptRequest, ParseRequest, HandlerFails, AnswerRequest
        <3> QED
            BY <3>1, <3>2
    <2> QED
        BY <2>1, <2>3, <2>4, StageKeepsRequest DEF RequestAhead
<1>3. ASSUME NEW c \in Others, Peer(c), UNCHANGED clientVars
      PROVE  RequestAhead'
    <2>1. UNCHANGED <<handler, Req>>
        BY <1>3 DEF Peer, PeerDials, PeerOpensUni, PeerSends, PeerGoesOn, serverVars
    <2>2. conn'[Me] = conn[Me] /\ request'[Me] = request[Me]
        <3>1. CASE PeerDials(c) \/ PeerOpensUni(c)
            BY <3>1 DEF PeerDials, PeerOpensUni, DataOK, Others
        <3>2. ASSUME NEW t \in Requests, PeerSends(c, t)
              PROVE  conn'[Me] = conn[Me] /\ request'[Me] = request[Me]
            BY <3>2 DEF PeerSends, DataOK, Others
        <3>3. CASE PeerGoesOn(c)
            BY <3>3 DEF PeerGoesOn, End, DataOK, Others
        <3> QED
            BY <1>3, <3>1, <3>2, <3>3 DEF Peer
    <2> QED
        BY <1>3, <2>1, <2>2, StageKeepsRequest DEF RequestAhead, clientVars
<1>4. CASE ClientSteps
    BY <1>4, ClientRequest
<1>5. CASE ServerSteps
    <2>1. ASSUME NEW c \in Conns, Take(c) PROVE RequestAhead'
        <3>1. UNCHANGED <<clientVars, request, Req, conn>>
            BY <1>5, <2>1 DEF ServerSteps, Take, connVars
        <3>2. handler'[Me] \in {handler[Me], "given"}
            BY <2>1 DEF Take, Go, DataOK
        <3> QED
            BY <1>1, <3>1, <3>2
    <2>2. ASSUME NEW c \in Conns, TakeDead(c) PROVE RequestAhead'
        <3>1. UNCHANGED <<clientVars, request, Req, handler>>
            BY <1>5, <2>2 DEF ServerSteps, TakeDead
        <3>2. conn[Me] = "down" => conn'[Me] = "down"
            BY <2>2 DEF TakeDead, DataOK
        <3> QED
            BY <1>1, <3>1, <3>2
    <2> QED
        BY <1>2, <1>5, <2>1, <2>2, HandlerRequest DEF ServerSteps, Server, Consume, Others
<1>6. CASE PeerSteps
    BY <1>3, <1>6 DEF PeerSteps
<1>7. CASE LossSteps
    <2>1. UNCHANGED <<clientVars, request, Req, handler>>
        BY <1>7 DEF LossSteps, Lost, serverVars
    <2>2. conn[Me] = "down" => conn'[Me] = "down"
        BY <1>7 DEF LossSteps, Lost, DataOK
    <2> QED
        BY <1>1, <2>1, <2>2
<1>8. CASE UNCHANGED vars
    BY <1>1, <1>8 DEF vars, connVars, serverVars
<1> QED
    BY <1>4, <1>5, <1>6, <1>7, <1>8 DEF Next

\* The invariant is inductive.
LEMMA AgreeNext ==
    ASSUME DataOK, AgreeInv, [Next]_vars
    PROVE  AgreeInv'
<1> USE DEF AgreeInv
<1>1. MineInv'
    <2>1. CASE ClientSteps
        BY <2>1, ClientMine
    <2>2. CASE ServerSteps
        BY <2>2, HandlerMine, OtherHandlerMine, ConsumeMine DEF ServerSteps, Server, Others
    <2>3. CASE PeerSteps \/ LossSteps
        BY <2>3, PeerMine
    <2>4. CASE UNCHANGED vars
        BY <2>4, ElsewhereKeepsMine DEF vars, connVars, clientVars, serverVars
    <2> QED
        BY <2>1, <2>2, <2>3, <2>4 DEF Next
<1> QED
    BY <1>1, OffersNext, RequestNext

(* The two ends agree, whoever else is connected and whatever they write,   *)
(* for every path of a client: one that is connected has a handler that     *)
(* answered 200, with a session on offer or given under the path that was   *)
(* meant, and one that was turned away had a cause.                         *)
THEOREM EndsAgree == Spec => []BothEndsAgree
<1>1. AgreeInv => BothEndsAgree
    <2> SUFFICES ASSUME Outcome PROVE BothEndsAgree
        BY DEF AgreeInv, MineInv
    <2>1. request[Me] = NoStream => ~request[Me].opened
        BY DEF NoStream
    <2> QED
        BY <2>1 DEF Outcome, TurnedAway, BothEndsAgree, Asked, Granted, Refused
<1>2. DataOK /\ AgreeInv /\ [Next]_vars => DataOK' /\ AgreeInv'
    BY DataNext, AgreeNext
<1> QED
    BY <1>1, <1>2, DataInit, AgreeInit, PTL DEF Spec

-----------------------------------------------------------------------------
(* A request that was cut off.                                              *)

\* Frames that a peer may have written.
FrameOK(f) ==
    /\ DOMAIN f = {"type", "length", "payload", "whole"}
    /\ (f.type = "HEADERS" /\ RequestFromHeaders(f.payload) # Fails) =>
           ~Half(RequestFromHeaders(f.payload).value)
StreamOK(s) ==
    /\ DOMAIN s = {"opened", "ended", "frames"}
    /\ s.ended => s.opened
    /\ s.opened \/ s.frames = <<>>
    /\ DOMAIN s.frames \subseteq Nat
    /\ \A i \in DOMAIN s.frames : FrameOK(s.frames[i])

\* The frames that ParseNextFrame does not skip, and that the first of them is HEADERS.
Known(s) == {i \in DOMAIN s.frames : s.frames[i].type \in {"DATA", "HEADERS", "SETTINGS"}}
HeadersCome(s) == Known(s) # {} /\ s.frames[Min(Known(s))].type = "HEADERS"

\* A set of numbers has a smallest one.
LEMMA MinIsThere ==
    ASSUME NEW S, S \subseteq Nat, S # {}
    PROVE  Min(S) \in S /\ \A x \in S : Min(S) <= x
<1> DEFINE R == OpToRel(<, Nat)
<1>1. IsWellFoundedOn(R, Nat)
    BY NatLessThanWellFounded
<1>2. \A x, y \in Nat : y < x => <<y, x>> \in R
    BY DEF OpToRel
<1> HIDE DEF R
<1>3. PICK m \in S : \A y \in S : ~(<<y, m>> \in R)
    BY <1>1, WFMin
<1>4. \A y \in S : m <= y
    <2> SUFFICES ASSUME NEW y \in S PROVE m <= y
        OBVIOUS
    <2>1. y \in Nat /\ m \in Nat
        OBVIOUS
    <2>2. ~(y < m)
        BY <1>2, <1>3, <2>1
    <2> QED
        BY <2>1, <2>2
<1> QED
    BY <1>4 DEF Min

\* ParseNextFrame gives the header of a HEADERS frame when one comes, and only then.
LEMMA HeadersAreFound ==
    ASSUME NEW s, StreamOK(s)
    PROVE  /\ HeadersCome(s) =>
                  \E i \in DOMAIN s.frames : /\ ParseNextFrame(s).value = s.frames[i]
                                             /\ s.frames[i].type = "HEADERS"
           /\ (ParseNextFrame(s).kind = "ok" /\ ParseNextFrame(s).value.type = "HEADERS") =>
                  HeadersCome(s)
<1> DEFINE f == s.frames[Min(Known(s))]
<1>1. Known(s) = {} => ParseNextFrame(s) = IF s.ended THEN Fails ELSE Waits
    BY DEF ParseNextFrame, Known
<1>2. Known(s) # {} => ParseNextFrame(s) =
          IF f.type = "SETTINGS" THEN parseSettingsFrame(f, s.ended) ELSE Ok(f)
    BY DEF ParseNextFrame, Known
<1>3. Known(s) # {} => Min(Known(s)) \in DOMAIN s.frames
    BY MinIsThere DEF Known, StreamOK
<1>4. HeadersCome(s) => ParseNextFrame(s).value = f /\ f.type = "HEADERS"
    BY <1>2 DEF HeadersCome, Ok
<1>5. ASSUME ParseNextFrame(s).kind = "ok", ParseNextFrame(s).value.type = "HEADERS"
      PROVE  HeadersCome(s)
    <2>1. Known(s) # {}
        BY <1>1, <1>5 DEF Fails, Waits
    <2>2. DOMAIN f = {"type", "length", "payload", "whole"}
        BY <1>3, <2>1 DEF StreamOK, FrameOK
    <2> HIDE DEF f
    <2>3. CASE f.type = "SETTINGS"
        <3>1. ParseNextFrame(s) = parseSettingsFrame(f, s.ended)
            BY <1>2, <2>1, <2>3
        <3>2. "type" \in DOMAIN f
            BY <2>2
        <3>3. ParseNextFrame(s).value.type = "SETTINGS"
            BY Zenon, <1>5, <2>3, <3>1, <3>2, TypeIsKept
        <3> QED
            BY <1>5, <3>3
    <2>4. CASE f.type # "SETTINGS"
        <3>1. ParseNextFrame(s) = Ok(f)
            BY <1>2, <2>1, <2>4
        <3> QED
            BY <1>5, <2>1, <3>1 DEF Ok, HeadersCome, f
    <2> QED
        BY <2>3, <2>4
<1> QED
    BY <1>3, <1>4, <1>5 DEF HeadersCome

\* What a stream brings depends on the types of its frames alone.
LEMMA TypesDecide ==
    ASSUME NEW s, NEW t, HeadersCome(s), DOMAIN t.frames = DOMAIN s.frames,
           \A i \in DOMAIN s.frames : t.frames[i].type = s.frames[i].type,
           StreamOK(s)
    PROVE  HeadersCome(t)
<1>1. Known(t) = Known(s)
    BY DEF Known
<1>2. Min(Known(s)) \in DOMAIN s.frames
    BY MinIsThere DEF Known, StreamOK, HeadersCome
<1> QED
    BY <1>1, <1>2 DEF HeadersCome

\* For each connection: its stream, the handler that reads a block, and that half of a
\* request comes of a stream or a connection that is over.
HalfOf(c) ==
    /\ StreamOK(request[c])
    /\ handler[c] = "block" => HeadersCome(request[c])
    /\ Half(Req[c]) => request[c].ended \/ conn[c] = "down"
HalfInv == \A c \in Conns : HalfOf(c)

\* Nothing comes of a stream that is not open, nor of one without frames.
LEMMA NothingComes ==
    /\ StreamOK(NoStream)
    /\ \A s : StreamOK(s) /\ ~s.opened => ~HeadersCome(s) /\ ~s.ended
<1>1. StreamOK(NoStream)
    BY DEF StreamOK, NoStream
<1>2. ASSUME NEW s, StreamOK(s), ~s.opened PROVE ~HeadersCome(s) /\ ~s.ended
    <2>1. s.frames = <<>> /\ ~s.ended
        BY <1>2 DEF StreamOK
    <2>2. Known(s) = {}
        BY <2>1 DEF Known
    <2> QED
        BY <2>1, <2>2 DEF HeadersCome
<1> QED
    BY <1>1, <1>2

\* Before anybody dials.
LEMMA HalfInit == Init => HalfInv
<1> SUFFICES ASSUME Init, NEW c \in Conns PROVE HalfOf(c)
    BY DEF HalfInv
<1>1. request[c] = NoStream /\ handler[c] = "none" /\ Req[c] = NoRequest
    BY DEF Init, ConnInit, ServerInit
<1>2. ~Half(NoRequest)
    <2>1. DOMAIN NoRequest.RequestURI = {}
        BY DEF NoRequest
    <2>2. "garbled" \notin {NoRequest.Method, NoRequest.Proto, NoRequest.Host}
        BY DEF NoRequest
    <2> QED
        BY <2>1, <2>2 DEF Half
<1> QED
    BY <1>1, <1>2, NothingComes DEF HalfOf

\* What leaves the frames of a connection, and what was taken for its request, alone.
LEMMA HalfKept ==
    ASSUME NEW c \in Conns, HalfOf(c), StreamOK(request'[c]),
           handler'[c] = "block" => handler[c] = "block" /\ HeadersCome(request'[c]),
           Req'[c] = Req[c],
           request[c].ended => request'[c].ended,
           conn[c] = "down" => conn'[c] = "down"
    PROVE  HalfOf(c)'
<1>1. Half(Req'[c]) => request'[c].ended \/ conn'[c] = "down"
    BY DEF HalfOf
<1> QED
    BY <1>1 DEF HalfOf

\* A step that leaves requests alone and begins no block.
LEMMA HalfUntouched ==
    ASSUME DataOK, HalfInv, UNCHANGED <<request, Req>>,
           \A c \in Conns : conn[c] = "down" => conn'[c] = "down",
           \A c \in Conns : handler'[c] = "block" => handler[c] = "block"
    PROVE  HalfInv'
<1> SUFFICES ASSUME NEW c \in Conns PROVE HalfOf(c)'
    BY DEF HalfInv
<1>1. HalfOf(c)
    BY DEF HalfInv
<1>2. StreamOK(request[c]) /\ (handler[c] = "block" => HeadersCome(request[c]))
    BY <1>1 DEF HalfOf
<1> QED
    BY <1>1, <1>2, HalfKept

\* The client writes one whole block, which nobody takes for half of one.
LEMMA RequestIsWhole ==
    ASSUME RequestAhead
    PROVE  LET encoded == encodeHeaders(RemoteAddr, clientPath)
           IN  encoded = Fails \/ StreamOK(Stream(<<encoded.value>>))
<1> SUFFICES ASSUME encodeHeaders(RemoteAddr, clientPath) # Fails
             PROVE  StreamOK(Stream(<<encodeHeaders(RemoteAddr, clientPath).value>>))
    OBVIOUS
<1> DEFINE f == HeadersFrame(Fields(RemoteAddr, PathField(clientPath)))
           read == RequestFromHeaders(f.payload)
<1>1. encodeHeaders(RemoteAddr, clientPath) = Ok(f) /\ Plain(clientPath)
    BY MineIsPlain, PathsRoundTrip
<1>2. Ok(f).value = f
    BY DEF Ok
<1>3. RemoteAddr # "" /\ RemoteAddr # "garbled"
    BY DEF RemoteAddr
<1>4. \A i \in DOMAIN PathField(clientPath) : PathField(clientPath)[i] # Zeros
    BY <1>1, PathsRoundTrip
<1>5. read # Fails => ~Half(read.value)
    <2>1. \/ read = Fails
          \/ read = Ok([Method |-> "CONNECT", Proto |-> "webtransport", Host |-> RemoteAddr,
                        RequestURI |-> PathField(clientPath), Path |-> Named(clientPath)])
        <3>1. encodeHeaders(RemoteAddr, clientPath).value.payload = f.payload
            BY <1>1, <1>2
        <3> QED
            BY <1>1, <1>3, <3>1, PathsRoundTrip
    <2> SUFFICES ASSUME read # Fails PROVE ~Half(read.value)
        OBVIOUS
    <2> HIDE DEF read
    <2>2. /\ read.value.Method = "CONNECT" /\ read.value.Proto = "webtransport"
          /\ read.value.Host = RemoteAddr /\ read.value.RequestURI = PathField(clientPath)
        BY <2>1 DEF Ok
    <2> QED
        BY <1>3, <1>4, <2>2 DEF Half
<1>6. DOMAIN f = {"type", "length", "payload", "whole"}
    BY DEF HeadersFrame, Frame
<1> HIDE DEF f
<1>7. FrameOK(f)
    BY <1>5, <1>6 DEF FrameOK
<1>8. StreamOK(Stream(<<f>>))
    <2> DEFINE frames == <<f>>
    <2>1. DOMAIN frames = {1} /\ frames[1] = f
        OBVIOUS
    <2> HIDE DEF frames
    <2>2. StreamOK(Stream(frames))
        BY <1>7, <2>1 DEF StreamOK, Stream
    <2> QED
        BY <2>2 DEF frames
<1> QED
    BY <1>1, <1>2, <1>8

\* Connect() does not touch the requests of others, and asks once.
LEMMA ClientHalf ==
    ASSUME DataOK, MineInv, RequestAhead, HalfInv, ClientSteps
    PROVE  HalfInv'
<1>1. UNCHANGED <<handler, Req>>
    BY DEF ClientSteps, serverVars
<1>2. CASE UNCHANGED request
    <2>1. \A c \in Conns : conn[c] = "down" => conn'[c] = "down"
        BY DEF ClientSteps, Connect, Dial, AcceptControl, ReadSettings, OpenControl, OpenRequest,
               WriteRequest, ReadResponse, Succeed, ConnectFails, connVars, DataOK
    <2> QED
        BY <1>1, <1>2, <2>1, HalfUntouched
<1>3. CASE WriteRequest /\ ~UNCHANGED request
    <2>1. /\ encodeHeaders(RemoteAddr, clientPath) # Fails
          /\ request' = [request EXCEPT ![Me] =
                 Stream(<<encodeHeaders(RemoteAddr, clientPath).value>>)]
        BY <1>3 DEF WriteRequest
    <2>2. request[Me] = NoStream /\ conn[Me] = "up" /\ conn' = conn
        BY <1>3 DEF WriteRequest, Connects, MineInv, NothingAsked, BeforeRequest
    <2>3. ~HeadersCome(request[Me]) /\ ~request[Me].ended
        BY <2>2, NothingComes DEF NoStream
    <2>4. StreamOK(request'[Me])
        BY <2>1, RequestIsWhole, MeAssumption DEF DataOK
    <2>5. \A c \in Conns : c # Me => request'[c] = request[c]
        BY <2>1 DEF DataOK
    <2> SUFFICES ASSUME NEW c \in Conns PROVE HalfOf(c)'
        BY DEF HalfInv
    <2>6. HalfOf(c) /\ StreamOK(request[c]) /\ (handler[c] = "block" => HeadersCome(request[c]))
        BY DEF HalfInv, HalfOf
    <2>7. CASE c # Me
        BY <1>1, <2>2, <2>5, <2>6, <2>7, HalfKept
    <2>8. CASE c = Me
        <3>1. handler'[c] # "block"
            BY <1>1, <2>3, <2>6, <2>8
        <3> QED
            BY <1>1, <2>2, <2>3, <2>4, <2>6, <2>8, <3>1, HalfKept
    <2> QED
        BY <2>7, <2>8
<1> QED
    BY <1>2, <1>3 DEF ClientSteps, Connect, Dial, AcceptControl, ReadSettings, OpenControl,
                      OpenRequest, ReadResponse, Succeed, ConnectFails, connVars

\* A handler that takes half of a request found its stream or its connection over.
LEMMA HalfIsOver ==
    ASSUME DataOK, HalfInv, NEW c \in Conns, ReadRequest(c), Half(Req'[c]), Req' # Req
    PROVE  request[c].ended \/ conn[c] = "down"
<1> SUFFICES ASSUME ~request[c].ended, conn[c] # "down" PROVE FALSE
    OBVIOUS
<1> DEFINE f == ParseNextFrame(request[c]).value
<1>1. StreamOK(request[c]) /\ HeadersCome(request[c])
    BY DEF HalfInv, HalfOf, ReadRequest
<1>2. FrameOK(f) /\ f.type = "HEADERS"
    BY <1>1, HeadersAreFound DEF StreamOK
<1> HIDE DEF f
<1>3. Block(c).whole
    BY DEF ReadRequest, ReadFull
<1>4. Block(c) = f
    <2>1. Block(c) = IF conn[c] = "up" THEN f ELSE [f EXCEPT !.whole = FALSE]
        BY DEF Block, f
    <2>2. [f EXCEPT !.whole = FALSE].whole = FALSE
        BY <1>2 DEF FrameOK
    <2> QED
        BY <1>3, <2>1, <2>2
<1>5. Decodings(f) = {Ok(f.payload)}
    BY <1>3, <1>4 DEF Decodings
<1>6. PICK decoded \in {Ok(f.payload)} :
          Read(decoded) # Fails /\ Req' = [Req EXCEPT ![c] = Read(decoded).value]
    BY <1>4, <1>5 DEF ReadRequest
<1>7. decoded # Fails /\ decoded.value = f.payload
    BY <1>6 DEF Ok, Fails
<1>8. Read(decoded) = RequestFromHeaders(f.payload)
    BY <1>7 DEF Read
<1>9. ~Half(Read(decoded).value)
    BY <1>2, <1>6, <1>8 DEF FrameOK
<1>10. Req'[c] = Read(decoded).value
    BY <1>6 DEF DataOK
<1> QED
    BY <1>9, <1>10

\* A stream from which a frame has been taken.
LEMMA ConsumedStream ==
    ASSUME NEW s, StreamOK(s)
    PROVE  LET t == [s EXCEPT !.frames = <<>>] IN StreamOK(t) /\ t.ended = s.ended
<1> DEFINE t == [s EXCEPT !.frames = <<>>]
<1>1. t.frames = <<>> /\ t.opened = s.opened /\ t.ended = s.ended /\ DOMAIN t = DOMAIN s
    BY DEF StreamOK
<1> HIDE DEF t
<1>2. StreamOK(t)
    BY <1>1 DEF StreamOK
<1> QED
    BY <1>1, <1>2 DEF t

\* The handlers.
LEMMA HandlerHalf ==
    ASSUME DataOK, HalfInv, NEW c \in Conns, AcceptSession(c) \/ Handle(c)
    PROVE  HalfInv'
<1>1. UNCHANGED conn
    BY DEF AcceptSession, Handle, WriteSettings, AcceptSettings, AcceptRequest, ParseRequest,
           HandlerFails, ReadRequest, AnswerRequest, Handles, connVars
<1>2. ASSUME NEW from \in {"none", "control", "settings", "request", "parse"},
             NEW to \in Stages \ {"block"}, Handles(c, from, to), UNCHANGED <<request, Req>>
      PROVE  HalfInv'
    BY <1>1, <1>2, HalfUntouched DEF Handles, Go, DataOK
<1>3. CASE AcceptSession(c) \/ WriteSettings(c) \/ AcceptSettings(c) \/ AcceptRequest(c)
           \/ HandlerFails(c)
    BY <1>2, <1>3 DEF AcceptSession, WriteSettings, AcceptSettings, AcceptRequest, HandlerFails,
                      connVars, Stages
<1>4. CASE ParseRequest(c)
    <2>1. CASE Handles(c, "parse", "ended")
        BY <1>2, <1>4, <2>1 DEF ParseRequest, connVars, Stages
    <2>2. CASE Handles(c, "parse", "block") /\ ~Handles(c, "parse", "ended")
        <3>1. /\ handler[c] = "parse" /\ handler' = [handler EXCEPT ![c] = "block"]
              /\ UNCHANGED <<request, Req>>
            BY <1>4, <2>2 DEF ParseRequest, Handles, Go, connVars
        <3>2. ParseNextFrame(request[c]).kind = "ok"
              /\ ParseNextFrame(request[c]).value.type = "HEADERS"
            BY <1>4, <2>2 DEF ParseRequest
        <3> SUFFICES ASSUME NEW d \in Conns PROVE HalfOf(d)'
            BY DEF HalfInv
        <3>3. HalfOf(d) /\ StreamOK(request[d])
            BY DEF HalfInv, HalfOf
        <3>4. CASE d = c
            <4>1. HeadersCome(request[c])
                BY <3>2, <3>3, <3>4, HeadersAreFound
            <4> QED
                BY <1>1, <3>1, <3>3, <3>4, <4>1 DEF HalfOf
        <3>5. CASE d # c
            <4>1. handler'[d] = handler[d]
                BY <3>1, <3>5 DEF DataOK
            <4>2. handler[d] = "block" => HeadersCome(request[d])
                BY <3>3 DEF HalfOf
            <4> QED
                BY <1>1, <3>1, <3>3, <4>1, <4>2, HalfKept
        <3> QED
            BY <3>4, <3>5
    <2> QED
        BY <1>4, <2>1, <2>2 DEF ParseRequest
<1>5. CASE ReadRequest(c)
    <2>1. handler[c] = "block" /\ request' = Consumed(request, c)
        BY <1>5 DEF ReadRequest
    <2>2. PICK to \in {"ended", "answer"} : handler' = [handler EXCEPT ![c] = to]
        BY <1>5 DEF ReadRequest, Handles, Go
    <2>3. \A d \in Conns \ {c} : Req'[d] = Req[d]
        BY <1>5 DEF ReadRequest, DataOK
    <2> SUFFICES ASSUME NEW d \in Conns PROVE HalfOf(d)'
        BY DEF HalfInv
    <2>4. HalfOf(d) /\ StreamOK(request[d]) /\ (handler[d] = "block" => HeadersCome(request[d]))
        BY DEF HalfInv, HalfOf
    <2>5. CASE d # c
        <3>1. handler'[d] = handler[d] /\ request'[d] = request[d]
            BY <2>1, <2>2, <2>5 DEF DataOK, Consumed
        <3> QED
            BY <1>1, <2>3, <2>4, <2>5, <3>1, HalfKept
    <2>6. CASE d = c
        <3>1. request'[c] = [request[c] EXCEPT !.frames = <<>>]
            BY <2>1 DEF Consumed, DataOK
        <3>2. StreamOK(request'[c]) /\ request'[c].ended = request[c].ended
            BY <2>4, <2>6, <3>1, ConsumedStream
        <3>3. handler'[c] = to
            BY <2>2 DEF DataOK
        <3>5. Half(Req'[c]) => request[c].ended \/ conn[c] = "down"
            <4>1. CASE Req' = Req
                BY <2>4, <2>6, <4>1 DEF HalfOf
            <4>2. CASE Req' # Req
                BY <1>5, <4>2, HalfIsOver
            <4> QED
                BY <4>1, <4>2
        <3> QED
            BY <1>1, <2>6, <3>2, <3>3, <3>5 DEF HalfOf
    <2> QED
        BY <2>5, <2>6
<1>6. CASE AnswerRequest(c)
    <2>1. handler[c] = "answer" /\ UNCHANGED <<request, Req>>
        BY <1>6 DEF AnswerRequest
    <2>2. PICK to \in {"offering", "ended"} : handler' = [handler EXCEPT ![c] = to]
        BY <1>6 DEF AnswerRequest, Go
    <2> QED
        BY <1>1, <2>1, <2>2, HalfUntouched DEF DataOK
<1> QED
    BY <1>3, <1>4, <1>5, <1>6 DEF Handle

\* The application takes sessions as they are.
LEMMA ConsumeHalf ==
    ASSUME DataOK, HalfInv, Consume
    PROVE  HalfInv'
<1>1. ASSUME NEW c \in Conns, Take(c) PROVE HalfInv'
    <2>1. UNCHANGED <<conn, request, Req>>
        BY <1>1 DEF Take, connVars
    <2>2. \A d \in Conns : handler'[d] \in {handler[d], "given"}
        BY <1>1 DEF Take, Go, DataOK
    <2> QED
        BY <2>1, <2>2, HalfUntouched
<1>2. ASSUME NEW c \in Conns, TakeDead(c) PROVE HalfInv'
    <2>1. UNCHANGED <<request, Req, handler>>
        BY <1>2 DEF TakeDead
    <2>2. \A d \in Conns : conn[d] = "down" => conn'[d] = "down"
        BY <1>2 DEF TakeDead
    <2> QED
        BY <2>1, <2>2, HalfUntouched
<1> QED
    BY <1>1, <1>2 DEF Consume

\* A stream that is ended, or whose last frame is completed, brings what it brought.
LEMMA GoingOn ==
    ASSUME NEW s, StreamOK(s), s.opened
    PROVE  /\ LET t == [s EXCEPT !.ended = TRUE, !.opened = TRUE]
              IN  StreamOK(t) /\ (HeadersCome(s) => HeadersCome(t)) /\ t.ended
           /\ \A n : LET t == [s EXCEPT !.frames[n].whole = TRUE]
                     IN  /\ StreamOK(t) /\ (HeadersCome(s) => HeadersCome(t))
                         /\ t.ended = s.ended
<1>1. ASSUME NEW t, t = [s EXCEPT !.ended = TRUE, !.opened = TRUE]
      PROVE  StreamOK(t) /\ (HeadersCome(s) => HeadersCome(t)) /\ t.ended
    <2>1. t.frames = s.frames /\ t.opened /\ t.ended /\ DOMAIN t = DOMAIN s
        BY <1>1 DEF StreamOK
    <2>2. StreamOK(t)
        BY <2>1 DEF StreamOK
    <2> QED
        BY <2>1, <2>2, TypesDecide
<1>2. ASSUME NEW n, NEW t, t = [s EXCEPT !.frames[n].whole = TRUE]
      PROVE  StreamOK(t) /\ (HeadersCome(s) => HeadersCome(t)) /\ t.ended = s.ended
    <2>1. /\ t.frames = [s.frames EXCEPT ![n].whole = TRUE]
          /\ t.opened = s.opened /\ t.ended = s.ended /\ DOMAIN t = DOMAIN s
        BY <1>2 DEF StreamOK
    <2>2. DOMAIN t.frames = DOMAIN s.frames /\ DOMAIN s.frames \subseteq Nat
        BY <2>1 DEF StreamOK
    <2>3. ASSUME NEW i \in DOMAIN s.frames
          PROVE  /\ t.frames[i].type = s.frames[i].type
                 /\ FrameOK(t.frames[i])
        <3>1. FrameOK(s.frames[i])
            BY DEF StreamOK
        <3>2. t.frames[i] \in {s.frames[i], [s.frames[i] EXCEPT !.whole = TRUE]}
            BY <2>1
        <3>3. /\ t.frames[i].type = s.frames[i].type
              /\ t.frames[i].payload = s.frames[i].payload
              /\ DOMAIN t.frames[i] = DOMAIN s.frames[i]
            BY <3>1, <3>2 DEF FrameOK
        <3> QED
            BY <3>1, <3>3 DEF FrameOK
    <2>4. StreamOK(t)
        BY <2>1, <2>2, <2>3 DEF StreamOK
    <2>5. HeadersCome(s) => HeadersCome(t)
        BY <2>2, <2>3, TypesDecide
    <2> QED
        BY <2>1, <2>4, <2>5
<1> QED
    BY <1>1, <1>2

\* Peers write streams of frames; nothing that was open is taken back.
LEMMA PeerHalf ==
    ASSUME DataOK, HalfInv, NEW c \in Conns, Peer(c)
    PROVE  HalfInv'
<1>1. UNCHANGED <<handler, Req>>
    BY DEF Peer, PeerDials, PeerOpensUni, PeerSends, PeerGoesOn, serverVars
<1>2. CASE PeerDials(c) \/ PeerOpensUni(c)
    <2>1. UNCHANGED request /\ \A d \in Conns : conn[d] = "down" => conn'[d] = "down"
        BY <1>2 DEF PeerDials, PeerOpensUni, DataOK
    <2> QED
        BY <1>1, <2>1, HalfUntouched
<1>3. ASSUME NEW new, request' = [request EXCEPT ![c] = new], conn' = conn, StreamOK(new),
             HeadersCome(request[c]) => HeadersCome(new), request[c].ended => new.ended
      PROVE  HalfInv'
    <2> SUFFICES ASSUME NEW d \in Conns PROVE HalfOf(d)'
        BY DEF HalfInv
    <2>1. HalfOf(d) /\ StreamOK(request[d]) /\ (handler[d] = "block" => HeadersCome(request[d]))
        BY DEF HalfInv, HalfOf
    <2>2. d = c => request'[d] = new
        BY <1>3 DEF DataOK
    <2>3. d # c => request'[d] = request[d]
        BY <1>3 DEF DataOK
    <2> QED
        BY <1>1, <1>3, <2>1, <2>2, <2>3, HalfKept
<1>4. StreamOK(request[c])
    BY DEF HalfInv, HalfOf
<1>5. ASSUME NEW s \in Requests, PeerSends(c, s) PROVE HalfInv'
    <2>1. ~request[c].opened /\ request' = [request EXCEPT ![c] = s] /\ conn' = conn
        BY <1>5 DEF PeerSends
    <2>2. StreamOK(s)
        <3>1. s = Stream(s.frames) /\ DOMAIN s.frames = 1..Len(s.frames)
            BY RequestsAssumption
        <3>2. \A i \in DOMAIN s.frames : FrameOK(s.frames[i])
            BY RequestsAssumption DEF FrameOK
        <3>3. DOMAIN s.frames \subseteq Nat
            BY <3>1
        <3>4. DOMAIN s = {"opened", "ended", "frames"} /\ s.opened /\ ~s.ended
            BY <3>1 DEF Stream
        <3> QED
            BY <3>2, <3>3, <3>4 DEF StreamOK
    <2> QED
        BY <1>3, <1>4, <2>1, <2>2, NothingComes
<1>6. CASE PeerGoesOn(c)
    <2>1. conn' = conn /\ request[c].opened
        BY <1>6 DEF PeerGoesOn
    <2>2. CASE request' = End(request, c)
        <3> DEFINE new == [request[c] EXCEPT !.ended = TRUE, !.opened = TRUE]
        <3>1. request' = [request EXCEPT ![c] = new]
            BY <2>2 DEF End
        <3>2. StreamOK(new) /\ (HeadersCome(request[c]) => HeadersCome(new)) /\ new.ended
            BY <1>4, <2>1, GoingOn
        <3> HIDE DEF new
        <3> QED
            BY <1>3, <2>1, <3>1, <3>2
    <2>3. ASSUME NEW n, request' = [request EXCEPT ![c].frames[n].whole = TRUE]
          PROVE  HalfInv'
        <3> DEFINE new == [request[c] EXCEPT !.frames[n].whole = TRUE]
        <3>1. request' = [request EXCEPT ![c] = new]
            BY <2>3
        <3>2. /\ StreamOK(new) /\ (HeadersCome(request[c]) => HeadersCome(new))
              /\ new.ended = request[c].ended
            BY <1>4, <2>1, GoingOn
        <3> HIDE DEF new
        <3> QED
            BY <1>3, <2>1, <3>1, <3>2
    <2> QED
        BY <1>6, <2>2, <2>3 DEF PeerGoesOn
<1> QED
    BY <1>2, <1>5, <1>6 DEF Peer

\* The invariant is inductive, with the one of the client's own request.
LEMMA HalfNext ==
    ASSUME DataOK, MineInv, RequestAhead, HalfInv, [Next]_vars
    PROVE  HalfInv'
<1>1. CASE ClientSteps
    BY <1>1, ClientHalf
<1>2. CASE ServerSteps
    BY <1>2, HandlerHalf, ConsumeHalf DEF ServerSteps, Server
<1>3. CASE PeerSteps
    BY <1>3, PeerHalf DEF PeerSteps, Others
<1>4. CASE LossSteps
    <2>1. UNCHANGED <<request, Req, handler>>
        BY <1>4 DEF LossSteps, Lost, serverVars
    <2>2. \A c \in Conns : conn[c] = "down" => conn'[c] = "down"
        BY <1>4 DEF LossSteps, Lost, DataOK
    <2> QED
        BY <2>1, <2>2, HalfUntouched
<1>5. CASE UNCHANGED vars
    BY <1>5, HalfUntouched DEF vars, connVars, serverVars
<1> QED
    BY <1>1, <1>2, <1>3, <1>4, <1>5 DEF Next

(* A header block that was cut off is decoded all the same, and a session   *)
(* may come of it under a path that the application serves; but then its    *)
(* stream or its connection is over, and the session ends itself: whatever  *)
(* frames the peers write, in whatever order, and wherever they stop.       *)
THEOREM HalfRequestsEnd == Spec => []HalfRequestsAreOver
<1>1. HalfInv => HalfRequestsAreOver
    BY DEF HalfInv, HalfOf, HalfRequestsAreOver
<1>2. AgreeInv => MineInv /\ RequestAhead
    BY DEF AgreeInv
<1>3. /\ DataOK /\ AgreeInv /\ HalfInv /\ [Next]_vars => DataOK' /\ AgreeInv' /\ HalfInv'
    BY <1>2, DataNext, AgreeNext, HalfNext
<1> QED
    BY <1>1, <1>3, DataInit, AgreeInit, HalfInit, PTL DEF Spec

=============================================================================
