---------------------------------- MODULE H3 ----------------------------------
(***************************************************************************)
(* h3/: HTTP/3 frames, the SETTINGS frame, and the header lists of the     *)
(* extended CONNECT.  A direction of a stream is the sequence of frames    *)
(* written to it and whether it has ended; only the last frame can be      *)
(* incomplete.  A payload is a sequence of pairs: settings, or header      *)
(* fields once QPACK has decoded them.  A path, and the text that a `:path' *)
(* field carries for one, is a sequence of tokens: `/', `?', `*', `%', an   *)
(* escape, the origin of a URL, or anything between them.                   *)
(***************************************************************************)
EXTENDS Naturals, Sequences, FiniteSetsExt

Frame(type, length, payload) ==
    [type |-> type, length |-> length, payload |-> payload, whole |-> TRUE]

NoStream == [opened |-> FALSE, ended |-> FALSE, frames |-> <<>>]
Stream(frames) == [opened |-> TRUE, ended |-> FALSE, frames |-> frames]

\* What a parser gives: a value, an error, or nothing yet.
Ok(value) == [kind |-> "ok", value |-> value]
Fails == [kind |-> "error"]
Waits == [kind |-> "waits"]

Firsts(pairs) == {pairs[i][1] : i \in DOMAIN pairs}
Positions(pairs, name) == {i \in DOMAIN pairs : pairs[i][1] = name}
\* The value of the last pair with a name, or other: a later field overwrites.
Last(pairs, name, other) ==
    LET at == Positions(pairs, name) IN IF at = {} THEN other ELSE pairs[Max(at)][2]

-----------------------------------------------------------------------------
(* frame.go.                                                               *)

settingDatagram == 630          \* 0x276
H3_DATAGRAM_05 == 16765559      \* 0xffd277
ENABLE_CONNECT_PROTOCOL == 8
ENABLE_WEBTRANSPORT == 727725890  \* 0x2b603742

\* quicvarint.Len.
VarintLen(n) ==
    IF n < 64 THEN 1 ELSE IF n < 16384 THEN 2 ELSE IF n < 1073741824 THEN 4 ELSE 8

\* The bytes of a list of settings, its numbers counted by the bytes they take.
Taking(settings, k) ==
    Cardinality({p \in (DOMAIN settings) \X {1, 2} : VarintLen(settings[p[1]][p[2]]) = k})
Bytes(settings) ==
    Taking(settings, 1) + 2 * Taking(settings, 2) + 4 * Taking(settings, 4)
        + 8 * Taking(settings, 8)

\* SettingsFrame.Write with Datagram set: the length, the datagram setting, and
\* the others in the order in which a range over the map happens to take them.
LengthOf(others) == Bytes(others) + VarintLen(settingDatagram) + VarintLen(1)
SettingsFrame(others) ==
    Frame("SETTINGS", LengthOf(others), <<<<settingDatagram, 1>>>> \o others)

\* parseSettingsFrame.  A length that cuts a setting in two is an error too.
parseSettingsFrame(f, ended) ==
    LET repeated == \E i, j \in DOMAIN f.payload :
                        i # j /\ f.payload[i][1] = f.payload[j][1]
        datagram == Last(f.payload, settingDatagram, 0)
        others   == Firsts(f.payload) \ {settingDatagram}
    IN  IF f.length > 8192 THEN Fails
        ELSE IF ~f.whole THEN IF ended THEN Fails ELSE Waits
        ELSE IF f.length # Bytes(f.payload) \/ repeated \/ datagram \notin {0, 1} THEN Fails
        ELSE Ok([f EXCEPT !.payload =
                 [Datagram |-> datagram = 1,
                  Other |-> [id \in others |-> Last(f.payload, id, 0)]]])

\* ParseNextFrame: frames of other types are skipped, the frame returned for DATA
\* or HEADERS is its header, whose payload the caller reads.
ParseNextFrame(stream) ==
    LET known == {i \in DOMAIN stream.frames :
                     stream.frames[i].type \in {"DATA", "HEADERS", "SETTINGS"}}
    IN  IF known = {} THEN IF stream.ended THEN Fails ELSE Waits
        ELSE LET f == stream.frames[Min(known)]
             IN  IF f.type = "SETTINGS" THEN parseSettingsFrame(f, stream.ended) ELSE Ok(f)

\* A header block after its frame header: the fields, and how QPACK may take what
\* was read of a block that ends too early, with zeros for the rest: it fails, or the
\* value of the last field ends in zeros where it was cut.
HeadersFrame(fields) == Frame("HEADERS", Len(fields), fields)
Zeros == "0"
Cuts(name, value) ==
    IF name = ":path" THEN {Append(SubSeq(value, 1, k), Zeros) : k \in 0..(Len(value) - 1)}
    ELSE {"garbled"}
Garbled(fields) ==
    LET n == Len(fields)
    IN  {[fields EXCEPT ![n] = <<@[1], v>>] : v \in Cuts(fields[n][1], fields[n][2])}
Decodings(f) ==
    IF f.whole THEN {Ok(f.payload)} ELSE {Fails} \cup {Ok(fields) : fields \in Garbled(f.payload)}

-----------------------------------------------------------------------------
(* Package net/url.                                                        *)

\* How many tokens come before the first one of a kind.
Upto(text, token) ==
    Min({Len(text)} \cup {i - 1 : i \in {j \in DOMAIN text : text[j] = token}})

\* escape and unescape, in the mode for paths.
Escape(token) ==
    CASE token = "?" -> "%3F" [] token = "%" -> "%25" [] token = "*" -> "%2A" [] OTHER -> token
Unescape(token) ==
    CASE token = "%3F" -> "?" [] token = "%25" -> "%" [] token = "%2A" -> "*" [] OTHER -> token

\* URL.RequestURI, of a URL of which only Path and Scheme are set.
RequestURI(path) ==
    IF path = <<>> THEN <<"/">>
    ELSE IF path = <<"*">> THEN path
    ELSE [i \in DOMAIN path |-> Escape(path[i])]

\* ParseRequestURI: URL.Path begins with the first `/', ends before a query, and is
\* unescaped.
UrlPath(text) ==
    IF \E i \in 1..Upto(text, "?") : text[i] = "%" THEN Fails
    ELSE LET unescaped == [i \in DOMAIN text |-> Unescape(text[i])]
         IN  Ok(SubSeq(unescaped, Upto(text, "/") + 1, Upto(text, "?")))

-----------------------------------------------------------------------------
(* request_writer.go, request.go, response_writer.go.                      *)

\* The scheme and the address that the client dials, and the address alone.
Origin == "https://server"
RemoteAddr == "server"

validPseudoPath(text) == (text # <<>> /\ text[1] = "/") \/ text = <<"*">>
TrimPrefix(text) == IF text # <<>> /\ text[1] = Origin THEN Tail(text) ELSE text

\* encodeHeaders and writeHeaders, for the CONNECT of the client: a path that holds a
\* whole URL is cut down to what follows its origin.
PathField(path) ==
    LET text == RequestURI(path) IN IF validPseudoPath(text) THEN text ELSE TrimPrefix(text)
encodeHeaders(host, path) ==
    IF validPseudoPath(PathField(path))
    THEN Ok(HeadersFrame(<<<<":authority", host>>, <<":method", "CONNECT">>,
                           <<":path", PathField(path)>>, <<":scheme", "https">>,
                           <<":protocol", "webtransport">>>>))
    ELSE Fails

\* The text of a CONNECT is parsed behind its authority, which ends in a port: what
\* comes before the first `/' joins that port and can only be more of it.  Any other
\* request names `*', a path or a whole URL.
Parses(method, authority, text) ==
    IF method = "CONNECT"
    THEN authority # "" =>
             \A i \in DOMAIN text : text[i] # Zeros => \E j \in 1..i : text[j] \in {"/", "?"}
    ELSE text = <<"*">> \/ (text # <<>> /\ text[1] \in {"/", Origin})
ParseRequestURI(method, authority, text) ==
    IF ~Parses(method, authority, text) THEN Fails
    ELSE IF method # "CONNECT" /\ text = <<"*">> THEN Ok(text)
    ELSE UrlPath(text)

\* RequestFromHeaders.  Only a CONNECT may come without path or authority.
RequestFromHeaders(headers) ==
    LET field(name) == Last(headers, name, "")
        text        == Last(headers, ":path", <<>>)
        incomplete  == text = <<>> \/ "" \in {field(":authority"), field(":method")}
        path        == ParseRequestURI(field(":method"), field(":authority"), text)
    IN  IF \/ field(":method") # "CONNECT" /\ incomplete
           \/ path = Fails
           \/ field("content-length") = "many"
        THEN Fails
        ELSE Ok([Method |-> field(":method"), Proto |-> field(":protocol"),
                 Host |-> field(":authority"), RequestURI |-> text, Path |-> path.value])

\* ResponseFromHeaders: one status that is not a number is enough to fail.
ResponseFromHeaders(headers) ==
    IF \E i \in Positions(headers, ":status") : headers[i][2] \in {"garbled", "many"}
    THEN Fails
    ELSE Ok(Last(headers, ":status", "0"))

\* The response writer: what is on the stream, what is still buffered, and whether
\* a final status has been written, after which WriteHeader does nothing.
NewResponseWriter == [stream |-> <<>>, buffered |-> <<>>, headerWritten |-> FALSE]
Flush(w) == [w EXCEPT !.stream = @ \o w.buffered, !.buffered = <<>>]
WriteHeader(w, status) ==
    LET informs == status \in {"100", "103"}
        written == [w EXCEPT !.buffered = Append(@, HeadersFrame(
                                 <<<<":status", status>>,
                                   <<"sec-webtransport-http3-draft", "draft02">>>>)),
                             !.headerWritten = ~informs]
    IN  IF w.headerWritten THEN w ELSE IF informs THEN Flush(written) ELSE written

\* What the handler answers with: r.WriteHeader(status); r.Flush().
Answer(status) == Stream(Flush(WriteHeader(NewResponseWriter, status)).stream)

=============================================================================
