# A TLA+ model of webtransport-go

The repository is a WebTransport server and client in Go (`webtransport*.go`, `h3/`) with
example programs, and a browser library (`example/bjy-common/lib`) that makes WebTransport look
like a WebSocket and reconnects it. This directory holds TLA+ modules of its core logic, the TLC
configurations that check them, and TLAPS proofs of what matters most.

Sections: [the system](#the-system), [the modules](#the-modules), [the runs](#the-runs),
[fairness](#fairness), [the proofs](#the-proofs), [findings](#findings),
[not modelled](#what-is-not-modelled), [the plan](#the-plan).

## The system

| Component | State | Operations | Interacts with |
|---|---|---|---|
| server session, `webtransport.go` | the struct's fields, of which seven may become nil; two unbuffered channels; no lock | four loops (uni streams, bidi streams, datagrams, CONNECT stream); a header reader and a handler for every stream; `CreateStream`, `CreateUniStream`, `SendMessage`, `Close`; `close()` | QUIC (calls that block and fail), the application (channels, `OnMessage`, `OnClose`) |
| listener and handshake, `webtransport_server.go` | the channel `Webtransport`; one goroutine per connection | `Run`, `handleSession`: settings, CONNECT, 200 or 404, hand-off | creates sessions, sends them to the application |
| client session, `webtransport_client.go` | like the server session, with `connected` instead of `closed` | `Connect` (the handshake), four loops, the methods, `close()`, `Close` | the server session through QUIC |
| HTTP/3, `h3/` | none beyond a response writer's flags | parse and write frames, settings, requests, responses | both handshakes |
| example server and client | per session: range loops and callbacks | `/counter`, `/room`: echo | take sessions, call their methods |
| ring buffer, `RingBuffer.js` | array, two pointers, count | `write`, `read`, `readByte`, `getByteByIndex`, `back`, `skip`, `clear`, `readByRange` | the netstring decoder |
| netstring, `NetString.js` | a ring buffer | `encode`, `decode`, `destroy` | fed by the read loop, gives messages to `onDecodeText` |
| WebSocket look-alike, `WebTransportWS.js` | streams, readers, writers, decoders, command map and queue | `connect`, `read`, `onDecodeMessage`, `send`, `sendBinary`, `ping`, `close` | native WebTransport (promises), a user with WebSocket callbacks |
| reconnecting transport, `Transport.js` | status, queue, socket, retry count, timers | `connect`, `send`, `close`, `reconnect`; callbacks of sockets and timers | a native socket, the application |
| timer, average, helpers, utilities, pages | little or none | | |

What is hard here, and what makes each component correct:

* **Server session.** Nothing protects the object: `close()` runs in up to four loops and any
  application goroutine at once, and everybody else checks a field for nil and uses it a step
  later. Correct means: torn down exactly once and completely, `OnClose` called once, no panic
  outside the windows that the missing lock leaves, no goroutine left when the connection is
  gone.
* **Listener.** The hand-off waits without limit for an application that may have stopped
  taking sessions, in goroutines whose peers may stop anywhere. Correct means: both ends agree
  whether there is a session, nobody waits for somebody else's peer, and a session on offer is
  taken while the application takes any.
* **Client session.** As the server session, without its guards (no `recover`, no flag): what
  keeps a second `close()` out is the panic that ends the process. Correct means: one `OnClose`,
  after a complete teardown; no panic while connection and CONNECT stream last.
* **Ring buffer.** Two values of a pointer name one place, writes overwrite what is unread, the
  reader steps back. Correct means: it is a window on the stream of bytes.
* **Netstring.** A chunk may end anywhere. Correct means: what is decoded does not depend on the
  chunks, and well-formed messages arrive once, in order, as soon as they are complete.
* **Transport.** Sockets, attempts and timers that belong to the past call back and find the
  status of the present. Correct means: one connection, messages in order, every connect comes
  to an end.
* **WebSocket look-alike.** The same message on several streams, an end reported several times,
  `close()` while `connect()` waits or from `onmessage`. Correct means: each message delivered
  once and in order as long as one stream holds, every ping counted once, all ended after
  `close()`.

`PROJECT.json` lists each hazard at its line with the properties that cover it.

## The modules

| Module | Models | Uses |
|---|---|---|
| `WTSession` | `webtransport.go`, with the hand-off and the application of `example/server/server.go` | |
| `WTSessionProofs` | theorems about it | `WTSession` |
| `ByteWindow` | what a ring buffer promises | |
| `RingBuffer` | `RingBuffer.js` | `ByteWindow` (refinement) |
| `RingBufferProofs` | theorems about it | `RingBuffer` |
| `NetString` | `NetString.js` and the read loop of `WebTransportWS.js` | takes the ring buffer for the window that it implements |
| `NetStringProofs` | theorems about it | `NetString` |
| `Transport` | `Transport.js` | |
| `TransportProofs` | theorems about it | `Transport` |
| `H3` | `h3/`: frames, settings, header lists, the response writer, as operators | |
| `H3Proofs` | theorems about it | `H3` |
| `WTConnection` | the QUIC connections between the two ends | `H3` |
| `WTServer` | `webtransport_server.go` and the goroutine of `example/server/server.go` that takes sessions | `WTConnection` |
| `WTClient` | `webtransport_client.go` and `example/client/client.go` | `WTConnection` |
| `AnyServer` | a client and a server of another make | `WTClient` |
| `AnyServerProofs` | theorems about the client | `AnyServer` |
| `WTHandshake` | client and server together, beside other peers | `WTClient`, `WTServer` |
| `WTHandshakeProofs` | theorems about it | `WTHandshake`, `H3Proofs` |
| `WebTransportWS` | `WebTransportWS.js`, `Timer.js` | takes `NetString` for the frames it decodes |
| `WebTransportWSProofs` | theorems about it | `WebTransportWS` |
| `MC...` | the values TLC is given | |

### WTSession

`ref[f]` says whether the field `f` of the struct is non-nil; `closed` and `sessionId` are the
fields of that name; `open[ch]` says whether the channel made for `ch` is open, which is a
different thing from the field that holds it. Each goroutine that may run `close()` (the four
loops and the application's callers) has a program counter in `pc`; a step is one read or write
of a shared field or channel. Two reads in a row are one step only where no other goroutine can
tell (`closed` and `session` in `close()`, said at the action). The two goroutines of a stream
are `stream[s]` (the reader: reading the header, holding a header, offering the stream, exited,
blocked on a nil channel) and `handler[s]` (the one in the `select`). `close()` is
`Check, Mark, CloseStream, CloseReceiveStream, Clear` (five times), `CallOnClose`; the panic of
a second `close(ch)` is recovered, which is the `ELSE` of `CloseChannel`. A panic anywhere else
ends the process: `crash` names what panicked and no action is enabled afterwards. An application
that has taken the session (`TakeSession`) starts its range loops and calls methods at once, and sets
its callbacks (`Register`) before, in between, after, or never: `/counter` and `/room` of the example
do so in different orders, and neither sets `OnClose`.

External: QUIC (an accepted stream, a lost connection, failing reads) and the peer. The
memory is sequentially consistent: Go's races could show stale values of `session` and `closed`
too, which would add outcomes of the same kind, a check passed late.

### ByteWindow and RingBuffer

`RingBuffer` has the array, the pointers `valid` and `tail`, the count `length`, and what the
last call returned. Every method is an action; `readByRange`, which changes nothing, is an
operator. `ByteWindow` keeps the last `Size` bytes in order and the number of unread ones; the
refinement mapping reads the array from `tail` on. The field `pos` is left out: no code reads it.

### NetString

`encode` and `decode` on character codes. `Decode` is a recursive function, one application per
message, as the method calls itself. The state is what the ring buffer holds unread, the pointer
(for `serialized`, which two equal pointers make empty), the messages given to `onDecodeText`,
and whether it has thrown, after which the read loop stops. The environment writes messages or
arbitrary bytes and delivers them in chunks.

### Transport

One thread, so an action is an event or a call from its start to its return, unless a callback of
the application runs in the middle of it. A *chain* is what
one effective `connect()` starts: attempts at the server and the proxies in turn, with the timer
of the interval between them. A chain opens one socket at most, so both share a number;
`phase[c]` says where they are. `timers` are the pending one-second timers of `reconnect()` and
of the lazy close in the order they fire, for they have the same delay. `hung` is the loop of
`close()` that puts back what it takes from the queue. `onOpen` runs when the status is `OPEN` and
before the queue is sent, `onReconnecting` when the status is `NONE` and before the reconnection: the
event stops there (`callback`, and `caller`, the chain it belongs to), the application may call any
method, and `OnOpenReturns` or `OnReconnectingReturns` is the rest of the event. The other callbacks
are the last thing their event does, so that a call from one of them is a call that follows it.
`onSend`, which runs in `send()` and between two messages of the flush of a late attempt, is assumed
not to call the transport.
A second connection needs one of four *doors* (`Exposed`): a timer of `reconnect()`, an attempt or its timer under way when the status is no longer
`CONNECTING`, a socket that is open and not the transport's, a lost socket that may report its
end again.

### H3 and WTConnection

A direction of a stream is the sequence of frames written to it, whether it is open and whether
it has ended; the last frame may be incomplete (`whole`), which is what a parser that has to
wait, and a stream that ends in the middle, are about. A parser gives a value, an error, or
`Waits`. A payload is a sequence of pairs, and a length is that of its bytes (`Bytes`, over
`VarintLen`). What the callers' decisions hang on is kept: the size
limit of SETTINGS, a length that cuts a setting in two, a setting given twice, frames of unknown
types that are skipped, a status that is no number, the fields of the CONNECT, the writer that
writes one final header and buffers it until `Flush`.

A path is a sequence of tokens: `/`, `?`, `*`, `%`, an escape, the origin of a URL, or anything
between them. `encodeHeaders` writes what `RequestURI` makes of it, which escapes what the client puts
into `URL.Path` (a `?` goes out as `%3F`), lets `*` pass, cuts a whole URL down to what follows its
origin, and refuses the rest; `RequestFromHeaders` parses the text of a CONNECT behind its authority,
up to a `?`, and unescapes it. `net/url` and QPACK are external: `Escape`, `Unescape`, `RequestURI`
and `UrlPath` say what the former does, `Decodings` what the latter may make of a block that was cut
off: an error, or the fields with the last one ending in zeros where it was cut (`Zeros`), so that a
path may be cut anywhere, also in its query or before its first `/`. An authority ends in a port.

`WTConnection` holds, for each connection, the streams of the handshake; `Lost` ends it, and every call on it fails from then on.

### WTServer

`handler[c]` says where `handleSession` is with a connection, one action for each of its
blocking calls or decisions; `offers` are the goroutines that wait at `s.Webtransport <- ...`,
first come first served as Go queues senders. A header block that was cut off is decoded with
zeros for its rest, and each of its `Decodings` is taken further. `Path` is one of `ServerPaths`, and
`Serves` the paths of the example, compared with the decoded `URL.Path`. `Take` is one
turn of the application's loop, `TakeDead` the one that finds `Req` nil, and ends the process
with all its connections.

### WTClient and AnyServer

`connect` is the place in `Connect()`, one action per blocking call; the rest is as in
`WTSession`: `ref`, `open`, `pc`, `stream`, and `crash` for a panic, none of which is recovered
here. The accept loops use the stream before they look at the error, so their `OnError` is a
panic; the two others run `close()`. `Close()` works only when the client is not connected.
`AnyServer` lets a server write whatever is in `Controls` and `Responses`, complete or end a
stream at any time, or never.

### WTHandshake

The same client with `WTServer`, restricted to `Connect()`: what the client does afterwards is
checked with `AnyServer`, whose servers write what `WTServer` does (up to frames a parser skips)
and much else.

### WebTransportWS

An action is a call, or the continuation of a promise up to its next `await`. `stage` is where
`connect()` waits, `tick` the callback of `nextTick` (`onopen`), `reader[i]` a read loop, `wire`
what the streams bring: the server is the echo of `/room`, so this is what was written on them.
A message has a command and a number; `commandQueue` and `commandMap` are the fields of that
name, `aged` says how much of the queue is older than `commandTimeout`, which is looked at only
when a message is delivered. `sent`, `dropped` and `forgotten` are history. After `close()` the
fields are null: what then throws, what does nothing (`each` of `null`) and what goes on anyway
(`onopen`, the stream mode) differ from call to call.

## The runs

| Run | Bounds | Shows |
|---|---|---|
| `session_safety` | 1 bidi stream, 1 caller | `OnCloseAtMostOnce`, `TeardownComplete`, `PanicsOnlyInWindows`, `LateStreamsAreDropped` |
| `session_liveness` | 1 uni stream, no caller | `UnwindsAfterLoss`, `OnCloseReported` |
| `session_expiry` | 1 uni stream | a finding, see below |
| `ring_buffer` | 4 bytes, chunks of up to 5 | `Coherent`, `ImplementsWindow`, `RangeIsWhatWasRead` |
| `netstring_stream` | messages of 5 to 11 bytes, 38 bytes in all, or any 6 bytes of 6 kinds; chunks of up to 3, a buffer of 13 | `ChunksDoNotMatter`, `DecodesWhatArrived`, `SerializedIsTheFrame` |
| `netstring_digits` | one header | a finding |
| `transport_calls` | 3 chains, 2 timers, 2 messages, queue of 1, 1 proxy, 2 rounds, 2 reports of an end | `InOrder`, `OpenHasItsSocket`, `SecondConnectionNeedsADoor`, `ClosingEnds` |
| `transport_pages` | 4 chains, 3 messages, 2 reports of an end | `ConnectionsAreAccountedFor`, `Settles`, `QueueIsServed` |
| `transport_preferred` | 3 chains | a finding |
| `client_session` | 1 bidi stream, 1 caller, 5 kinds of settings, 5 of answers | `OnCloseOnce`, `TeardownComplete`, `PanicsNeedAnEnd`, `EndsWithItsConnection` |
| `handshake` | the client with 4 paths, 1 other peer with 5 kinds of request, 2 server paths | `BothEndsAgree`, `HalfRequestsAreOver`, `ConnectReturns`, `OfferedIsTaken` |
| `websocket` | 6 sets of options, up to 2 streams, 3 messages and 2 pings, 2 commands | `DeliveredOnce`, `DropsAreDuplicates`, `InOrder`, `PingsCountOnce`, `ClosedIsOver`, `OneStreamIsEnough` |

Why the bounds are enough:

* *Session.* Five goroutines can be inside `close()` together, two more than any property
  relates. Streams do not touch each other; what two of them share is a channel, an id and the
  loop that accepts them, and the safety theorems hold for any number. The safety run has the
  bidirectional loop's stream and the liveness run the unidirectional loop's.
* *Ring buffer.* A size of four has every relation of two pointers, a wrap and an overflow in
  one write, and whole turns; the theorems hold for every size.
* *Netstring.* Six bytes are a whole message with a command and an empty or one-byte payload, or
  any malformed header. In the stream run a buffer one byte smaller loses messages: the
  longest unfinished message (10 bytes) and a chunk (3) must fit beside each other. The program
  has 1 MiB and messages far below it, which is what makes the assumption reasonable there.
* *Transport.* Three chains are two reconnections or two `connect()` calls beside one
  under way, the least that lets an attempt of the past meet a connection of the present twice.
  Two timers are both kinds in either order. In both runs a lost socket may report its end
  twice, as `WebTransportWS` does, on which most pages run: the second report meets the connection
  that the first one led to, and the theorem about the pages holds for any number of reports. Two
  messages are one in the queue and one that `onOpen` sends.
* *Client.* The four loops and a caller can be in `close()` together. One stream meets every
  state of the teardown in its loop, its reader and its channel; the theorems hold for any
  number of streams and callers.
* *Handshake.* Two connections are the least at which one can hold up the other, take the
  application's goroutine or bring the process down. The client's path has a character that is
  escaped, holds a whole URL, cannot be sent, or cannot be parsed; the server's path is empty
  or one of the client's, and another one for the rest. The other peer's half request may be cut
  anywhere in its path and its query, or be completed.
* *WebSocket.* Two streams have every order of two copies, and either can end. Two commands and
  three messages let the commands start again while the first is still on its way or remembered.

The runs switch off the deadlock check where the process, the goroutines of a session or the
bounds may end; the ring buffer's run keeps it. Every property has a mutant: a definition of the
model changed as a bug in the code would, with which TLC finds the property violated.

## Fairness

* *Session.* Weak fairness for every goroutine that can run, as the Go scheduler gives it: a
  loop whose call has returned, a `close()` under way, a reader whose connection is gone, a
  range over a closed channel. The one-second timer needs none for what is claimed. No fairness for the peer, for
  headers, for the hand-off, for the application's receives.
* *Transport.* Weak fairness for timers, and for the return of a callback: what the application calls
  from it ends. No server has to answer. `Settles` needs the
  option `timeout`, as all pages set it: without it, and with `WebTransportWS`, which never calls
  `onerror`, a failed attempt would be waited for for ever.
* *Client.* Weak fairness for `Connect()` (in `handshake`), for each loop and for a message
  callback under way. None for the server, its streams, the application or a loss.
* *Server.* Weak fairness for the goroutine of every connection and for the application's
  goroutine; none for peers. A request that never comes leaves its handler waiting.
* *WebSocket.* Weak fairness for reading what a stream brings, for the end of the loops of a
  connection that is gone, and for the promise `closed`, which the browser settles. None for
  `connect()`, timers or the user.

## The proofs

Assumptions: the named `ASSUME`s of the modules, nothing else. Most are types: loops and callers
are different, 0 is an id; sizes are positive naturals, numbers and bounds naturals; payloads and
chunks are sequences of numbers (`BytesAssumption`); the client's connection is one of the
connections. `RequestsAssumption` (`WTHandshake`) says that what a peer
writes is a stream of frames, and that a request in full does not hold the tokens that stand for what
is missing of half a one; `ClientPathsAssumption`, that a client's path is a sequence of tokens of
which none is an escape or those zeros; `CommandsAssumption`, that the commands of texts are a range of positive numbers, and
`ConfigsAssumption`, which options go together (several streams need commands, `stream` mode has one
stream), as in the constructor's defaults.

Two theorems have hypotheses beyond these. `PageConnectionsAreAccountedFor` is about
`PageUse` (only `connect` and `send` are called). Those about
what `NetString` decodes are about a buffer with `Room`: the longest unfinished message and a chunk
fit in it beside each other, what is written without `encode` fits in it, lengths have ten digits at
most, and a decoder without `enableCommand` is sent no commands. The program has 1 MiB and messages
far below it; with less room messages are lost, as the run's bounds show, so this is needed and not a
convenience. `FramesAreShorter` says that no frame fills the buffer exactly, for then both pointers
of `readByRange` are equal. `MCNetString` has TLC evaluate both (`RoomAssumption`).

`WTSessionProofs`, for any sets of streams, callers and ids:

* `TypeCorrect`: `Spec => []TypeOK`.
* `TeardownInvariant`: `Spec => []IInv`. `OnCloseAtMostOnce` is not inductive: it does not say
  who may still call. `IInv` adds that at most one goroutine is past its first close of a channel
  (`OneCloser`), and that what is closed and dropped is told by that goroutine's place
  (`Progress`): before anybody is past, both channels are open and nothing is dropped; while
  somebody is, exactly the steps before its label are done; after, all of them. The panic that
  `recover` swallows is what keeps the second goroutine out, and `CloseStreamInv` is the lemma
  that shows it. A step is either quiet (touches nothing of the teardown) or a teardown step,
  so the lemmas are one per step of `close()` and one for all others.
* `OnCloseIsCalledAtMostOnce`, `TeardownsAreComplete`: from `IInv`.
* `LateStreamsStayDropped`: `Spec => LateStreamsAreDropped`. That the session is nil is for good, so
  whatever loop accepts the stream finds it nil and drops it (`LateNext`); accepting and check are two
  steps of a loop, so a late stream may also be held by one that has its check ahead.
* `PanicsNeedAWindow`: `Spec => PanicsOnlyInWindows`, from `IInv`: with the session there, no
  field or channel in use is gone; with it gone and no window open, the guards keep everybody out.

`RingBufferProofs`, for every size, set of bytes and set of chunks:

* `Invariant`, `TypeCorrect`: types and `Coherent`, which together are inductive.
* `RingBufferImplementsWindow`: `Spec => ImplementsWindow`, one lemma per method (`write` with
  and without wrap, `readByte` as a `read` of one byte, `skip` beyond the end as a `Forget`).
* `RangesAreWhatWasRead`: `Spec => RangeIsWhatWasRead`.

`NetStringProofs`, for any messages, raw chunks, sizes and chunks. `Decimal`, `Value`, `Decode` and
`Encoded` are recursive functions. That each is what its definition says follows from
`RecursionHasASolution`, for a step that looks only at arguments of a smaller rank, and what holds
of them for every argument from `RankInduction`: a least counterexample, with the statement given
as a set, since the library's theorems take it as an operator. `EncodedFacts` says that a number
survives being written and read, and what `Digits`, `Number` and the tests of `decode` make of an
encoded message.

* `TypeCorrect`: `Spec => []TypeOK`.
* `MessagesArrive`: `Room => (Spec => []DecodesWhatArrived)`. The property speaks of what has
  arrived; the invariant (`MessagesInv`) of all that was written: what is decoded is what was sent
  first, and the unread bytes with those still pending are the encodings of the rest, of which the
  unread ones are no whole message (`Waits`). `FindsThem` is the lemma about `Decode`: of bytes that
  encodings begin with it finds the messages that are complete, and it leaves a beginning of the next.
* `RawFormsAreKept`: `Room /\ FramesAreShorter => (Spec => []SerializedIsTheFrame)`; each message
  found has the bytes between the pointers (`RawInv`).
* `CutsDoNotMatter`: `Room => (Spec => []ChunksDoNotMatter)`, whatever bytes a peer writes, well
  formed or not. `LongerGoesOn`: a `Decode` that is given more bytes finds what it had found, and
  goes on where it waited or with the error it had; `PointersDoNotMatter`: where the pointer is
  tells nothing but `serialized`.

`TransportProofs`, for any options, numbers of proxies and retries, and bounds:

* `TypeCorrect`: `Spec => []TypeOK`. That a server index stays in the list needs the test for the
  last server before it is raised; that a timer belongs to a chain needs every place that sets one.
* `OpenTransportsHaveTheirSocket`: `Spec => []OpenHasItsSocket`. With the types, and with what a
  callback under way says of the event it is part of (`ThreadOK`), it is inductive:
  only `Opened` makes the status `OPEN`, and the return of its `onOpen` sends the queue; every
  other step that touches a phase either moves a chain that is not the socket's or leaves `OPEN`.
  `ConnectFacts` is the lemma for the handlers that go on with `connect()`.
* `MessagesKeepTheirOrder`: `Spec => []InOrder`. Leaving out what `onOpen` sent (`early`), what a
  socket was given and what is queued both rise, the former below the latter, and none is numbered
  beyond the calls (`OrderInv`); a queue that is sent is moved as a whole (`DrainOrder`).
* `OnlyDoorsLeadToASecondConnection`: `Spec => SecondConnectionNeedsADoor`, from the types. The
  proof of it found the third door: with `connectOnClose` off, a transport can be open on one
  socket while another is open too.
* `PageConnectionsAreAccountedFor`: `PageUse => (Spec => []ConnectionsAreAccountedFor)`, by counting
  (`Counts`): while `OPEN` or `CONNECTING` a transport has a live chain of its own (`Own`), and the
  others are no more than the repeated reports. Only what the status tells of can be under way, and
  nothing is left behind (`Orderly`).

`H3Proofs`: `SettingsRoundTrip`: for any finite map of settings, in whatever order `Write` ranges
over it, `parseSettingsFrame` reads what was written as that map, and the length in the frame is
that of its payload. The parser's state is generalised to the pairs seen so far (`Taking`), and the
proof goes by a least counterexample, as it must where an induction theorem cannot be used.
`PathsRoundTrip`: for every path, what `encodeHeaders` writes `RequestFromHeaders` parses to the path
that was named, by the cases of its first token (`PathIsSent`) and since no escaped text has a `?` or
a `%` left for the parser (`PathIsParsed`); it is not written only when it cannot be sent, and `*` is
written and not parsed.

`WTHandshakeProofs`, for any number of connections, any paths and any requests of peers:

* `TypeCorrect`: `Spec => []ServerTypeOK`.
* `EndsAgree`: `Spec => []BothEndsAgree`. The property speaks of what the client has read; the
  invariant (`AgreeInv`) of what it will read: nothing is asked before the request is written
  (`NothingAsked`), what lies ahead of the client on the control stream are the server's settings
  (`SettingsAhead`), what lies ahead of the server is the client's request, and what the server has
  read is the path that was meant (`RequestAhead`, with `PathsRoundTrip`, and `Asks`), the answer ahead
  of the client is that of the handler's stage, with a cause when it is no 200 (`AnswerAhead`), and
  what it has read agrees with the handler (`Outcome`); connections on offer have been asked for
  (`OffersInv`).
* `HalfRequestsEnd`: `Spec => []HalfRequestsAreOver`. Whether a HEADERS frame still comes is a
  property of the stream's unread frames (`HeadersCome`: the first of a known type is HEADERS);
  only the last frame can be cut off, and no whole one gives a request with what stands for the
  missing rest (`RequestIsWhole`), so a handler that decoded half a block has a stream that has ended
  or a connection that is gone (`HalfInv`).

`WebTransportWSProofs`, for any options, numbers of streams, messages and pings, and any range of
commands. The steps are sorted by what they do to messages (`StepKinds`), to one stream
(`WireStep`: left alone, ended, one frame taken out, one put at its end), to what has been
delivered (`DeliveredStep`) and to the queue (`QueueStep`); the invariants are proved over these.

* `TypeCorrect`: `Spec => []TypeOK`; no command is remembered twice (`QueueOK`).
* `PingsCount`: `Spec => []PingsCountOnce`, a count of the pings sent, counted and waited for.
* `MessagesComeOnce`: `Spec => []DeliveredOnce`. `OnceInv`: what was delivered on several streams
  is in the queue or forgotten (`Remembers`), so a second copy is known by its command; on the
  only stream each message lies once, and not after its delivery (`OnlyStream`).
* `DropsAreCopies`: `Spec => []DropsAreDuplicates`. Two texts with one command are a whole range
  of commands apart (`TextsApart`), since the pointer has to come round; `Distance` is how far it
  has come.
* `MessagesKeepTheirOrder`: `Spec => []InOrder`. A message with a command of its own is on every
  stream that goes on, or delivered (`AllThere`); so is all that was sent before a message on its
  way, ahead of it (`OnTheWay`); so what is delivered has its predecessors before it (`Ordered`).

`AnyServerProofs`, for a client with any sets of streams, callers and paths, and a server that
writes anything (`ResponsesAssumption`: an answer is a stream that has been opened):

* `TypeCorrect`: `Spec => []ClientTypeOK`.
* `OnCloseIsCalledAtMostOnce`, `TeardownsAreComplete`: from `IInv`, which has the parts of the
  session's invariant (`OneCloser`, `Progress`, `Complete`) and two that the client needs for
  want of a flag: nobody is in `close()` before `Connect()` has opened its request, although
  `Connect()` sets fields then (`Early`), and a client that becomes `connected` after its teardown
  has loops that find no field to use (`NoneRuns`). The steps outside `close()` share one lemma
  (`QuietInv`), the five assignments another (`PastInv`).
* `PanicsComeWithAnEnd`: `Spec => []PanicsNeedAnEnd`. `Wired` says what each stage of `Connect()`
  has set and that nobody is in `close()`, as long as the connection and the CONNECT stream last;
  `WireOK`, that an end is for good (`EndsLast`), so that what holds before a step that does
  not end them may be used after it.

Every invariant and every action property that the passing runs check is stated by a theorem. Only
model-checked: liveness (fairness and `ENABLED` are out of the prover's reach).

## Findings

* `session_expiry`: the comment at the timeout of an incoming stream says that it exits; the
  reader goes on, takes up a header that comes later and offers the stream (`webtransport.go:116-122`).
* `netstring_digits`: 'length is more than 9 digits' is thrown for eleven digits, not for ten
  (`NetString.js:55-57`).
* `transport_preferred`: a reconnection after a proxy had answered takes the proxy for the
  preferred address (`Transport.js:153`, where `server` is the parameter of the callback).

The models also show these, which no doc speaks of:

* a session's stream reader may panic and end the process (`crash`);
* `close()` of a transport that reconnects with messages in its queue never returns (`hung`);
* a second connection, or one that nobody closes, after `reconnect()` or `close()` during an
  attempt;
* the end of its connection ends the client's process nearly always, for both accept loops panic
  on the stream they did not get (`OnError` of `WTClient`); `Close()` does nothing for a connected
  client, and before `Connect()` has opened its request it panics;
* a session whose connection ends while it is on offer ends the server when it is taken
  (`TakeDead`); after one session that it serves, the example server takes no other;
* a CONNECT that is cut off may become a session: cut in its query it has the path of the whole one
  and may be served, until its session ends itself (`HalfRequestsAreOver`); cut before the first `/` of
  its path it has the empty path, which a server without a path of its own accepts;
* a client's path with a query is asked for as a path that contains a `?`, since `Connect()` puts it
  into `URL.Path`; the path `*` is sent, cannot be parsed behind the authority, and is never answered:
  `Connect()` waits (`ConnectReturns` makes the exception);
* what a page sends from `onOpen` overtakes what it had queued before (`InOrder` makes the exception);
  a `close()` in `onReconnecting` is undone by the reconnection that follows, a `close()` in `onOpen`
  lets the queue go to the socket that was closed, or hangs;
* a socket that reports its end again, as `WebTransportWS` does, costs the transport a connection that
  it had, which stays beside the next one (`ConnectionsAreAccountedFor` counts them);
* the loops of a session that was closed accept streams, and drop them, until the connection ends;
* on several streams all binary messages have one command, so the second is dropped while the
  first is remembered (`DropsAreDuplicates` makes the exception); `setCurrentWriteStreams` before
  there is a writer makes it 0, and messages go nowhere; a ping without `enableCommand` comes
  back as a message; `onopen` is called after `close()`.

## What is not modelled

* Which session id is right when several headers name one: the last that is read counts
  (`ReadHeader`), and nothing in the code says more.
* Logging, the utilities and the helpers without state, the pages' measurements, the development
  servers, TLS configuration, default options, and the contents of streams beyond their header:
  no property depends on them.
* `h3/`: `Write`, `DataStream` and `bodyAllowedForStatus` of the response writer, which nothing
  calls; header fields nobody looks at; the bytes of varints and of QPACK (external).
* The client puts its session id before a datagram and does not take one off: datagrams have no
  contents here.
* `WebTransportWS`: the command of a server's own ping, which no server of the repository sends;
  the average behind `getRTT()`; what the native transport does with its options.
* `Transport`: the socket of an attempt that timed out and may still open at the server.

## The plan

1. `WTSession` with its proofs: done.
2. `RingBuffer` and `ByteWindow` with proofs: done. `NetString` over them, with proofs: done.
3. `Transport` with proofs of its safety: done.
4. `WTClient`, `WTServer`, `H3` and their composition, with proofs of their safety: done.
5. `WebTransportWS` with proofs of its safety: done.
6. An abstract socket (open once, each message once, ended) that `WebTransportWS` implements and
   `Transport` uses.
