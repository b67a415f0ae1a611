------------------------------ MODULE RingBuffer ------------------------------
(***************************************************************************)
(* The byte buffer of the netstring decoder, RingBuffer.js: an array, the   *)
(* pointer `valid' to the oldest unread byte, the pointer `tail' to the     *)
(* place of the next write, and the number of unread bytes.  Both pointers  *)
(* run from 0 to Size: the end of the array and its start are two values    *)
(* for one place.  `result' is what the last call returned.                 *)
(***************************************************************************)
EXTENDS Integers, Sequences

CONSTANTS
    Size,     \* the size given to the constructor
    Bytes,    \* the values of a byte
    Chunks,   \* the arrays the caller may write
    Counts    \* the lengths and indices the caller may pass

ASSUME SizeAssumption   == Size \in Nat \ {0}
ASSUME BytesAssumption  == 0 \in Bytes
ASSUME ChunksAssumption == Chunks \subseteq Seq(Bytes)
ASSUME CountsAssumption == Counts \subseteq Nat

VARIABLES data, valid, tail, length, result

vars == <<data, valid, tail, length, result>>

Slots == 0 .. Size - 1

(* The pointers and the count stay within the array.                        *)
TypeOK ==
    /\ data \in [Slots -> Bytes]
    /\ valid \in 0..Size
    /\ tail \in 0..Size
    /\ length \in 0..Size
    /\ result \in Seq(Bytes)

Init ==
    /\ data = [j \in Slots |-> 0]
    /\ valid = 0
    /\ tail = 0
    /\ length = 0
    /\ result = <<>>

\* Where a pointer is n bytes further on, and n bytes back.
AdvanceNoWrap(p, n) == p + n
AdvanceToStart(p, n) == IF p + n > Size THEN 0 ELSE p + n
Advance(p, n) == IF p + n > Size THEN n - (Size - p) ELSE p + n
Retreat(p, n) == IF p < n THEN Size - (n - p) ELSE p - n

\* The slot of the byte i places after the pointer p.
SlotAt(p, i) == IF p + i >= Size THEN i - (Size - p) ELSE p + i

\* data.set(d, tail), cut in two where the array ends.
Stored(d) ==
    [j \in Slots |->
        IF tail + Len(d) > Size
        THEN IF j >= tail THEN d[j - tail + 1]
             ELSE IF j < Len(d) - (Size - tail) THEN d[j + (Size - tail) + 1]
             ELSE data[j]
        ELSE IF j >= tail /\ j < tail + Len(d) THEN d[j - tail + 1] ELSE data[j]]

\* The unread bytes that d overwrites.
OverwrittenNone(d) == 0
Overwritten(d) == IF length + Len(d) > Size THEN length + Len(d) - Size ELSE 0

write(d) ==
    /\ result' = <<>>
    /\ IF Len(d) > Size
       THEN UNCHANGED <<data, valid, tail, length>>
       ELSE /\ data' = Stored(d)
            /\ tail' = Advance(tail, Len(d))
            /\ valid' = Advance(valid, Overwritten(d))
            /\ length' = length + Len(d) - Overwritten(d)

\* The n bytes from the pointer valid on.
Oldest(n) == [i \in 1..n |-> data[SlotAt(valid, i - 1)]]

Available(n) == IF n > length THEN length ELSE n

read(n) ==
    /\ IF length = 0
       THEN result' = <<>> /\ UNCHANGED <<valid, length>>
       ELSE /\ result' = Oldest(Available(n))
            /\ valid' = Advance(valid, Available(n))
            /\ length' = length - Available(n)
    /\ UNCHANGED <<data, tail>>

readByte ==
    /\ IF length = 0
       THEN result' = <<>> /\ UNCHANGED <<valid, length>>
       ELSE /\ result' = <<data[IF valid >= Size THEN 0 ELSE valid]>>
            /\ valid' = IF valid >= Size THEN 1 ELSE valid + 1
            /\ length' = length - 1
    /\ UNCHANGED <<data, tail>>

getByteByIndex(i) ==
    /\ result' = IF length > i THEN <<data[SlotAt(valid, i)]>> ELSE <<>>
    /\ UNCHANGED <<data, valid, tail, length>>

back(n) ==
    /\ result' = <<>>
    /\ IF n > Size - length
       THEN valid' = tail /\ length' = Size
       ELSE valid' = Retreat(valid, n) /\ length' = length + n
    /\ UNCHANGED <<data, tail>>

clear ==
    /\ result' = <<>>
    /\ valid' = 0 /\ tail' = 0 /\ length' = 0
    /\ UNCHANGED data

\* To skip more than there is resets both pointers, like clear().
skip(n) ==
    IF length < n
    THEN clear
    ELSE /\ result' = <<>>
         /\ valid' = Advance(valid, n)
         /\ length' = length - n
         /\ UNCHANGED <<data, tail>>

Next ==
    \/ \E d \in Chunks : write(d)
    \/ \E n \in Counts : read(n) \/ back(n) \/ skip(n)
    \/ readByte
    \/ \E i \in Counts : getByteByIndex(i)
    \/ clear

Spec == Init /\ [][Next]_vars

\* readByRange(start, end), which changes nothing: the bytes between two values
\* of the pointer.
RangeNoWrap(start, end) == [i \in 1..(end - start) |-> data[start + i - 1]]
readByRange(start, end) ==
    IF start <= end
    THEN [i \in 1..(end - start) |-> data[start + i - 1]]
    ELSE [i \in 1..(Size - start + end) |->
             IF start + i - 1 < Size THEN data[start + i - 1] ELSE data[start + i - 1 - Size]]

-----------------------------------------------------------------------------
(* Properties.                                                             *)

(* The three counters agree: the unread bytes begin at valid and end at     *)
(* tail, up to whole turns of the ring, after any sequence of writes that   *)
(* overwrite, reads, steps back and skips.                                  *)
Coherent == valid + length - tail \in {0 - Size, 0, Size, 2 * Size}

\* The window that the array and its pointers stand for: Size bytes from the
\* tail on, where the oldest one is.
Window == INSTANCE ByteWindow WITH
    window <- [i \in 1..Size |-> data[SlotAt(tail, i - 1)]],
    unread <- length

(* The buffer behaves as a window on the stream: whatever the calls and     *)
(* wherever the pointers wrap, a read returns the oldest unread bytes in    *)
(* order, an overflowing write drops exactly the oldest ones, and back()    *)
(* gives back exactly the bytes read before, as long as they are held.      *)
ImplementsWindow == Window!Spec

(* The decoder takes the raw bytes of a message with readByRange(pointer     *)
(* before, pointer after).  That is what was read in between, provided the  *)
(* message is shorter than the buffer: with a full turn both pointers are   *)
(* at the same place.                                                       *)
RangeIsWhatWasRead ==
    [][\A n \in Counts :
          read(n) /\ Available(n) < Size => readByRange(valid, valid') = result']_vars

=============================================================================
