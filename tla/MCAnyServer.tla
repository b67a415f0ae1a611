----------------------------- MODULE MCAnyServer -----------------------------
(***************************************************************************)
(* A client and any server for TLC.                                        *)
(***************************************************************************)
EXTENDS AnyServer, TLC

SomePaths == {<<>>, <<"room">>}

Cut(f) == [f EXCEPT !.whole = FALSE]
Good == <<<<H3_DATAGRAM_05, 1>>, <<ENABLE_CONNECT_PROTOCOL, 1>>, <<ENABLE_WEBTRANSPORT, 1>>>>
Grease == Frame("GREASE", 4, <<>>)

\* Settings after a frame of an unknown type, without WebTransport, twice the same,
\* cut off; and no settings.
SomeControls == {Stream(<<Grease, SettingsFrame(Good)>>),
                 Stream(<<SettingsFrame(SubSeq(Good, 1, 2))>>),
                 Stream(<<SettingsFrame(Good \o Good)>>),
                 Stream(<<Cut(SettingsFrame(Good))>>),
                 Stream(<<Frame("DATA", 4, <<>>)>>)}
SomeResponses == {Answer("200"), Answer("404"), Answer("103"),
                  Stream(<<Cut(HeadersFrame(<<<<":status", "200">>>>))>>),
                  Stream(<<Frame("DATA", 4, <<>>)>>)}

=============================================================================
