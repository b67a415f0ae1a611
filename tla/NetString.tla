------------------------------ MODULE NetString ------------------------------
(***************************************************************************)
(* The framing of the browser's messages, NetString.js: encode() on one     *)
(* side, and on the other decode(), which is given the chunks a stream      *)
(* arrives in.  Its RingBuffer is taken for what it implements, the window  *)
(* of ByteWindow: `unread' is the unread part of it and `valid' the pointer *)
(* to its start.  Bytes are character codes.                               *)
(***************************************************************************)
EXTENDS Naturals, Sequences, SequencesExt

CONSTANTS
    BufferSize,     \* options.bufferSize
    EnableCommand,  \* options.enableCommand
    Messages,       \* what encode() is called with: records of payload and cmd
    RawChunks,      \* bytes that a peer may write without encode()
    MaxChunk,       \* the longest chunk a read returns
    MaxBytes,       \* bound: bytes written as messages
    MaxRaw          \* bound: bytes written without encode()

ASSUME SizesAssumption ==
    BufferSize \in Nat \ {0} /\ MaxChunk \in Nat /\ MaxBytes \in Nat /\ MaxRaw \in Nat
ASSUME CommandAssumption == EnableCommand \in BOOLEAN
ASSUME BytesAssumption ==
    Messages \subseteq [payload : Seq(Nat), cmd : Nat] /\ RawChunks \subseteq Seq(Nat)

Zero == 48
Colon == 58
Comma == 44
Space == 32
Digit == Zero..(Zero + 9)
IsDigit(byte) == byte \in Digit

VARIABLES
    pending,    \* bytes written and not yet read from the stream
    delivered,  \* all bytes given to decode()
    sent,       \* the messages encoded
    unread,     \* the unread bytes of the ring buffer
    valid,      \* its pointer to them
    decoded,    \* the messages given to onDecodeText
    failed      \* decode() has thrown, and the reader has stopped

vars == <<pending, delivered, sent, unread, valid, decoded, failed>>

Init ==
    /\ pending = <<>> /\ delivered = <<>> /\ sent = <<>>
    /\ unread = <<>> /\ valid = 0
    /\ decoded = <<>> /\ failed = FALSE

-----------------------------------------------------------------------------
(* encode()                                                                *)

\* `${n}`
Decimal[n \in Nat] ==
    IF n < 10 THEN <<Zero + n>> ELSE Decimal[n \div 10] \o <<Zero + (n % 10)>>

CommandPrefix(cmd) == IF EnableCommand THEN Append(Decimal[cmd], Space) ELSE <<>>

LengthOfPayload(m) == Len(m.payload)
LengthOf(m) == Len(m.payload) + Len(CommandPrefix(m.cmd))

encode(m) ==
    Decimal[LengthOf(m)] \o <<Colon>> \o CommandPrefix(m.cmd) \o m.payload \o <<Comma>>

-----------------------------------------------------------------------------
(* decode(), for one message: what becomes of the unread bytes b.           *)

\* The number that digits form, read from the left.
Value[digits \in Seq(Digit)] ==
    IF digits = <<>> THEN 0 ELSE 10 * Value[Front(digits)] + (Last(digits) - Zero)

\* How many digits b begins with, and the number they form.
Digits(b) ==
    LET others == {i \in DOMAIN b : ~IsDigit(b[i])}
    IN  IF others = {} THEN Len(b) ELSE Min(others) - 1
Number(b) == Value[SubSeq(b, 1, Digits(b))]

\* if (i > 9) throws before the digit number i is read.
TooManyDigits(b) == Digits(b) > 10

BadHeader(b) ==
    \/ ~IsDigit(b[1])
    \/ b[1] = Zero /\ IsDigit(b[2])
    \/ TooManyDigits(b)
    \/ Digits(b) < Len(b) /\ b[Digits(b) + 1] # Colon

\* The bytes after the colon, and whether the message and its comma are there.
Body(b) == SubSeq(b, Digits(b) + 2, Len(b))
Arrived(b) == Number(b) + 1 <= Len(Body(b))

\* The command is the number the body begins with, and a space follows it.  The
\* comma is looked for where the length says, wherever the command ended.
BadBody(b) ==
    \/ EnableCommand /\ ~(/\ Digits(Body(b)) < Len(Body(b))
                          /\ Body(b)[Digits(Body(b)) + 1] = Space)
    \/ Body(b)[Number(b) + 1] # Comma

PrefixLength(b) == IF EnableCommand THEN Digits(Body(b)) + 1 ELSE 0
FrameLength(b)  == Digits(b) + Number(b) + 2

\* A pointer n bytes further on, n <= BufferSize.
AdvanceOn(p, n) == p + n
Advance(p, n) == IF p + n > BufferSize THEN p + n - BufferSize ELSE p + n

\* readByRange(startPointer, getCurrentPointer()): the frame, but nothing at all
\* when both pointers are the same.
SerializedWithoutComma(p, b) == SubSeq(b, 1, FrameLength(b) - 1)
Serialized(p, b) ==
    IF Advance(p, FrameLength(b)) = p THEN <<>> ELSE SubSeq(b, 1, FrameLength(b))

Frame(p, b) ==
    [payload    |-> SubSeq(Body(b), PrefixLength(b) + 1, Number(b)),
     cmd        |-> IF EnableCommand THEN Number(Body(b)) ELSE 0,
     serialized |-> Serialized(p, b)]

\* back(i): the header that was read is unread again.
HeaderRead(b) == IF Digits(b) < Len(b) THEN Digits(b) + 1 ELSE Digits(b)
BackWithoutColon(b) == Digits(b)
Back(b) == HeaderRead(b)
PutBack(b) == SubSeq(b, HeaderRead(b) - Back(b) + 1, Len(b))

\* The unread bytes, the pointer to them, and what decode() has found.
State == [unread : Seq(Nat), valid : Nat, decoded : Seq([payload : Seq(Nat), cmd : Nat,
          serialized : Seq(Nat)]), failed : BOOLEAN]

\* decode() throws, waits for more, or has found a message.
Thrown(st)  == [st EXCEPT !.failed = TRUE]
Waiting(st) == [st EXCEPT !.unread = PutBack(@), !.valid = IF @ = BufferSize THEN 0 ELSE @]
Taken(st)   == [st EXCEPT !.unread = SubSeq(@, FrameLength(@) + 1, Len(@)),
                          !.valid = Advance(@, FrameLength(st.unread)),
                          !.decoded = Append(@, Frame(st.valid, st.unread))]

\* The state that decode() leaves: it calls itself after every message.
Decode[st \in State] ==
    LET b == st.unread
    IN  IF Len(b) < 3 THEN st
        ELSE IF BadHeader(b) THEN Thrown(st)
        ELSE IF Digits(b) = Len(b) \/ ~Arrived(b) THEN Waiting(st)
        ELSE IF BadBody(b) THEN Thrown(st)
        ELSE Decode[Taken(st)]

\* ringBuffer.write(buffer): the last BufferSize bytes stay, and more than that at
\* once are not taken.
Overflow(u, chunk) ==
    IF Len(u) + Len(chunk) > BufferSize THEN Len(u) + Len(chunk) - BufferSize ELSE 0

AfterWrite(u, v, chunk) ==
    IF Len(chunk) > BufferSize THEN [unread |-> u, valid |-> v]
    ELSE [unread |-> SubSeq(u \o chunk, Overflow(u, chunk) + 1, Len(u) + Len(chunk)),
          valid  |-> Advance(v, Overflow(u, chunk))]

decode(u, v, d, chunk) ==
    LET w == AfterWrite(u, v, chunk)
    IN  Decode[[unread |-> w.unread, valid |-> w.valid, decoded |-> d, failed |-> FALSE]]

-----------------------------------------------------------------------------
(* The sender writes messages, or nothing but other bytes, and the stream  *)
(* delivers them in chunks of any length.                                  *)

Written == Len(delivered) + Len(pending)

SendMessage(m) ==
    /\ sent = <<>> => Written = 0
    /\ Written + Len(encode(m)) <= MaxBytes
    /\ pending' = pending \o encode(m)
    /\ sent' = Append(sent, m)
    /\ UNCHANGED <<delivered, unread, valid, decoded, failed>>

SendRaw(bytes) ==
    /\ sent = <<>>
    /\ Written + Len(bytes) <= MaxRaw
    /\ pending' = pending \o bytes
    /\ UNCHANGED <<delivered, sent, unread, valid, decoded, failed>>

\* reader.read() in WebTransportWS.read, and the decode() that follows.
Read(n) ==
    /\ ~failed
    /\ n <= Len(pending)
    /\ LET chunk == SubSeq(pending, 1, n)
           after == decode(unread, valid, decoded, chunk)
       IN  /\ delivered' = delivered \o chunk
           /\ unread' = after.unread /\ valid' = after.valid
           /\ decoded' = after.decoded /\ failed' = after.failed
    /\ pending' = SubSeq(pending, n + 1, Len(pending))
    /\ UNCHANGED sent

Next ==
    \/ \E m \in Messages : SendMessage(m)
    \/ \E bytes \in RawChunks : SendRaw(bytes)
    \/ \E n \in 1..MaxChunk : Read(n)

Spec == Init /\ [][Next]_vars

-----------------------------------------------------------------------------
(* What the encoder and the decoder can be used for.                        *)

\* A command is in the bytes, or there is none but 0.
CommandsAreSent == EnableCommand \/ \A m \in Messages : m.cmd = 0

\* A length of more than ten digits is refused.
LengthsAreRead == \A m \in Messages : Len(Decimal[LengthOf(m)]) <= 10

\* The buffer holds the longest unfinished message and a chunk, and all that is written
\* without encode().
Room ==
    /\ CommandsAreSent /\ LengthsAreRead
    /\ MaxRaw <= BufferSize
    /\ \A m \in Messages : Len(encode(m)) + MaxChunk <= BufferSize + 1

\* readByRange() reads nothing of a frame that fills the buffer.
FramesAreShorter == \A m \in Messages : Len(encode(m)) < BufferSize

-----------------------------------------------------------------------------
(* Properties.                                                             *)

(* The buffer holds no more than its size, and its pointer stays in it.     *)
TypeOK ==
    /\ Len(unread) <= BufferSize
    /\ valid \in 0..BufferSize
    /\ failed \in BOOLEAN

Plain(frames) == [i \in DOMAIN frames |-> [payload |-> frames[i].payload, cmd |-> frames[i].cmd]]

(* However the bytes of a peer are cut into chunks, well formed or not,      *)
(* the decoder has found the messages, and the error, that it finds when it *)
(* is given all of them at once.                                            *)
ChunksDoNotMatter ==
    LET whole == Decode[[unread |-> delivered, valid |-> 0, decoded |-> <<>>, failed |-> FALSE]]
    IN  failed = whole.failed /\ Plain(decoded) = Plain(whole.decoded)

\* The bytes of one message after the other.
Encoded[messages \in Seq(Messages)] ==
    IF messages = <<>> THEN <<>> ELSE Encoded[Front(messages)] \o encode(Last(messages))

(* Of a stream of encoded messages the decoder has given out, in order and  *)
(* unchanged, exactly those that have arrived completely, although messages *)
(* and chunks end at different places, and it never throws.                 *)
DecodesWhatArrived ==
    sent # <<>> =>
        /\ ~failed
        /\ Plain(decoded) = SubSeq(sent, 1, Len(decoded))
        /\ delivered = Encoded[Plain(decoded)] \o unread
        /\ Len(decoded) < Len(sent) => Len(unread) < Len(encode(sent[Len(decoded) + 1]))

(* The raw form handed out beside a message, which a server's ping is       *)
(* answered with, is the message as it was encoded.                         *)
SerializedIsTheFrame ==
    sent # <<>> => \A i \in DOMAIN decoded :
        decoded[i].serialized = encode([payload |-> decoded[i].payload, cmd |-> decoded[i].cmd])

(* 'length is more than 9 digits': a header with ten digits is refused.     *)
NineDigitsAtMost ==
    (Len(unread) > 10 /\ Digits(unread) > 9) => failed

=============================================================================
