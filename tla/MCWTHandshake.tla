---------------------------- MODULE MCWTHandshake ----------------------------
(***************************************************************************)
(* The two handshakes for TLC.                                             *)
(***************************************************************************)
EXTENDS WTHandshake, TLC

Counter == <<"/", "counter", "?", "a">>
Other == <<"/", "other">>

\* A path with a character to be escaped, a whole URL, one that cannot be sent and one
\* that cannot be parsed.
SomePaths == {Counter, <<Origin, "/", "room">>, <<"room">>, <<"*">>}
EveryPath == {<<>>, Counter}

Ask(method, protocol, path) ==
    HeadersFrame(<<<<":method", method>>, <<":protocol", protocol>>,
                   <<":authority", "host">>, <<":path", path>>>>)
Cut(f) == [f EXCEPT !.whole = FALSE]

\* A session after a frame of an unknown type, whose request comes in full or is cut in
\* its path or its query; a session that is closed; other requests; other frames.
SomeRequests ==
    {Stream(<<Frame("GREASE", 4, <<>>), Cut(Ask("CONNECT", "webtransport", Counter))>>),
     Stream(<<Ask("CONNECT", "webtransport", Other)>>),
     Stream(<<Ask("CONNECT", "websocket", Other)>>),
     Stream(<<Ask("GET", "", <<>>)>>),
     Stream(<<Frame("DATA", 4, <<>>)>>)}

=============================================================================
