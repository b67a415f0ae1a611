--------------------------- MODULE RingBufferProofs ---------------------------
(***************************************************************************)
(* The ring buffer is a window on the stream of bytes, for every size and   *)
(* whatever is written and read.                                            *)
(***************************************************************************)
EXTENDS RingBuffer, TLAPS

USE SizeAssumption DEF Slots

(* The inductive invariant: the types and the agreement of the counters.    *)
IInv == TypeOK /\ Coherent

-----------------------------------------------------------------------------
(* Pointers.                                                               *)

\* A pointer moved forward stays in the array, up to a whole turn.
LEMMA AdvanceFacts ==
    ASSUME NEW p \in 0..Size, NEW n \in 0..Size
    PROVE  Advance(p, n) \in 0..Size /\ Advance(p, n) \in {p + n, p + n - Size}
BY DEF Advance

\* A pointer moved back stays in the array, up to a whole turn.
LEMMA RetreatFacts ==
    ASSUME NEW p \in 0..Size, NEW n \in 0..Size
    PROVE  Retreat(p, n) \in 0..Size /\ Retreat(p, n) \in {p - n, p - n + Size}
BY DEF Retreat

\* The byte i places on has a slot.
LEMMA SlotAtFacts ==
    ASSUME NEW p \in 0..Size, NEW i \in 0 .. Size - 1
    PROVE  SlotAt(p, i) \in Slots
BY DEF SlotAt

\* A function on 1..n is a sequence.
LEMMA ArrayIsSeq ==
    ASSUME NEW n \in Nat, NEW f \in [1..n -> Bytes]
    PROVE  f \in Seq(Bytes)
OBVIOUS

\* What a caller writes are bytes.
LEMMA ChunkFacts ==
    ASSUME NEW d \in Chunks
    PROVE  /\ Len(d) \in Nat
           /\ \A i \in 1..Len(d) : d[i] \in Bytes
BY ChunksAssumption

\* A write leaves bytes in every slot.
LEMMA StoredType ==
    ASSUME TypeOK, NEW d \in Chunks, Len(d) <= Size
    PROVE  Stored(d) \in [Slots -> Bytes]
<1> SUFFICES ASSUME NEW j \in Slots
             PROVE  Stored(d)[j] \in Bytes
    BY DEF Stored
<1> QED
    BY ChunkFacts DEF Stored, TypeOK

\* A fresh buffer satisfies the invariant.
LEMMA InitInv == Init => IInv
BY BytesAssumption DEF Init, IInv, TypeOK, Coherent

(* Three numbers of 0..Size whose sum stays the same up to Size stay        *)
(* coherent.                                                               *)
LEMMA StaysCoherent ==
    ASSUME NEW v \in 0..Size, NEW l \in 0..Size, NEW t \in 0..Size,
           NEW v2 \in 0..Size, NEW l2 \in 0..Size, NEW t2 \in 0..Size,
           v + l - t \in {0 - Size, 0, Size, 2 * Size},
           v2 + l2 - t2 \in {v + l - t - Size, v + l - t, v + l - t + Size}
    PROVE  v2 + l2 - t2 \in {0 - Size, 0, Size, 2 * Size}
OBVIOUS

\* write() keeps the invariant.
LEMMA WriteInv ==
    ASSUME IInv, NEW d \in Chunks, write(d), Len(d) <= Size
    PROVE  IInv'
<1>1. Len(d) \in 0..Size /\ length \in 0..Size /\ tail \in 0..Size /\ valid \in 0..Size
    BY ChunkFacts DEF IInv, TypeOK
<1>2. Overwritten(d) \in 0..Size /\ length + Len(d) - Overwritten(d) \in 0..Size
    BY <1>1 DEF Overwritten
<1>3. /\ tail' = Advance(tail, Len(d))
      /\ valid' = Advance(valid, Overwritten(d))
      /\ length' = length + Len(d) - Overwritten(d)
      /\ data' = Stored(d)
      /\ result' = <<>>
    BY <1>1 DEF write
<1>4. tail' \in 0..Size /\ tail' \in {tail + Len(d), tail + Len(d) - Size}
    BY <1>1, <1>3, AdvanceFacts
<1>5. valid' \in 0..Size /\ valid' \in {valid + Overwritten(d), valid + Overwritten(d) - Size}
    BY <1>2, <1>1, <1>3, AdvanceFacts
<1>6. valid' + length' - tail' \in {valid + length - tail - Size, valid + length - tail,
                                   valid + length - tail + Size}
    <2>1. \A v, l, t, n, o, v2, t2 \in Int :
              t2 \in {t + n, t + n - Size} /\ v2 \in {v + o, v + o - Size} =>
                  v2 + (l + n - o) - t2 \in {v + l - t - Size, v + l - t, v + l - t + Size}
        OBVIOUS
    <2>2. /\ valid \in Int /\ length \in Int /\ tail \in Int /\ Len(d) \in Int
          /\ Overwritten(d) \in Int /\ valid' \in Int /\ tail' \in Int
        BY <1>1, <1>2, <1>4, <1>5
    <2> QED
        BY <1>3, <1>4, <1>5, <2>1, <2>2
<1>7. Coherent'
    <2> DEFINE v2 == valid'
               l2 == length'
               t2 == tail'
    <2>1. valid + length - tail \in {0 - Size, 0, Size, 2 * Size}
        BY DEF IInv, Coherent
    <2>2. v2 \in 0..Size /\ l2 \in 0..Size /\ t2 \in 0..Size
        BY <1>2, <1>3, <1>4, <1>5
    <2>3. v2 + l2 - t2 \in {valid + length - tail - Size, valid + length - tail,
                           valid + length - tail + Size}
        BY <1>6
    <2> HIDE DEF v2, l2, t2
    <2>4. v2 + l2 - t2 \in {0 - Size, 0, Size, 2 * Size}
        BY <1>1, <2>1, <2>2, <2>3, StaysCoherent
    <2> QED
        BY <2>4 DEF Coherent, v2, l2, t2
<1>8. TypeOK'
    BY <1>2, <1>3, <1>4, <1>5, StoredType DEF IInv, TypeOK
<1> QED
    BY <1>7, <1>8 DEF IInv

(* The results: a call returns a sequence of bytes of the array.            *)
LEMMA OldestType ==
    ASSUME TypeOK, NEW n \in 0..length
    PROVE  Oldest(n) \in Seq(Bytes)
<1>1. \A i \in 1..n : SlotAt(valid, i - 1) \in Slots
    BY DEF TypeOK, SlotAt
<1>2. \A i \in 1..n : data[SlotAt(valid, i - 1)] \in Bytes
    BY <1>1 DEF TypeOK
<1>3. Oldest(n) \in [1..n -> Bytes]
    BY <1>2 DEF Oldest
<1> QED
    BY <1>3, ArrayIsSeq DEF TypeOK

\* valid moves n bytes forward and length shrinks by n.
LEMMA ForwardInv ==
    ASSUME IInv, NEW n \in 0..length, valid' = Advance(valid, n), length' = length - n,
           tail' = tail, data' = data, result' \in Seq(Bytes)
    PROVE  IInv'
<1>1. n \in 0..Size /\ length \in 0..Size /\ tail \in 0..Size /\ valid \in 0..Size
    BY DEF IInv, TypeOK
<1>2. valid' \in 0..Size /\ valid' \in {valid + n, valid + n - Size} /\ length' \in 0..Size
    BY <1>1 DEF Advance
<1>3. valid' + length' - tail' \in {valid + length - tail - Size, valid + length - tail,
                                   valid + length - tail + Size}
    BY <1>1, <1>2
<1>4. Coherent'
    BY SMTT(30), <1>1, <1>2, <1>3, StaysCoherent DEF IInv, Coherent
<1> QED
    BY <1>2, <1>4 DEF IInv, TypeOK

\* No more is read than there is.
LEMMA AvailableFacts ==
    ASSUME TypeOK, NEW n \in Nat
    PROVE  Available(n) \in 0..length
BY DEF TypeOK, Available

\* read() keeps the invariant.
LEMMA ReadInv ==
    ASSUME IInv, NEW n \in Nat, read(n)
    PROVE  IInv'
<1>1. CASE length = 0
    BY <1>1 DEF read, IInv, TypeOK, Coherent
<1>2. CASE length # 0
    <2>1. Available(n) \in 0..length
        BY DEF Available, IInv, TypeOK
    <2> QED
        BY <1>2, <2>1, OldestType, ForwardInv DEF read, IInv
<1> QED
    BY <1>1, <1>2

\* readByte is read(1).
LEMMA ReadByteIsRead ==
    ASSUME IInv, readByte
    PROVE  read(1)
<1>1. valid \in 0..Size /\ length \in 0..Size
    BY DEF IInv, TypeOK
<1>2. CASE length = 0
    BY <1>2 DEF readByte, read
<1>3. CASE length # 0
    <2>1. Available(1) = 1
        BY <1>1, <1>3 DEF Available
    <2>2. (IF valid >= Size THEN 1 ELSE valid + 1) = Advance(valid, 1)
        BY <1>1 DEF Advance
    <2>3. (IF valid >= Size THEN 0 ELSE valid) = SlotAt(valid, 0)
        BY <1>1 DEF SlotAt
    <2>4. Oldest(1) = <<data[SlotAt(valid, 0)]>>
        BY DEF Oldest
    <2> QED
        BY <1>3, <2>1, <2>2, <2>3, <2>4 DEF readByte, read
<1> QED
    BY <1>2, <1>3

\* getByteByIndex() keeps the invariant.
LEMMA PeekInv ==
    ASSUME IInv, NEW i \in Nat, getByteByIndex(i)
    PROVE  IInv'
<1>1. CASE length > i
    <2>1. SlotAt(valid, i) \in Slots
        BY <1>1 DEF IInv, TypeOK, SlotAt
    <2>2. result' \in Seq(Bytes)
        BY <1>1, <2>1 DEF getByteByIndex, IInv, TypeOK
    <2> QED
        BY <2>2 DEF getByteByIndex, IInv, TypeOK, Coherent
<1>2. CASE ~(length > i)
    BY <1>2 DEF getByteByIndex, IInv, TypeOK, Coherent
<1> QED
    BY <1>1, <1>2

\* back() keeps the invariant.
LEMMA BackInv ==
    ASSUME IInv, NEW n \in Nat, back(n)
    PROVE  IInv'
<1>1. length \in 0..Size /\ tail \in 0..Size /\ valid \in 0..Size
    BY DEF IInv, TypeOK
<1>2. CASE n > Size - length
    <2>1. Coherent'
        BY <1>1, <1>2 DEF back, Coherent
    <2> QED
        BY <1>1, <1>2, <2>1 DEF back, IInv, TypeOK
<1>3. CASE ~(n > Size - length)
    <2>1. n \in 0..Size /\ length' \in 0..Size
        BY <1>1, <1>3 DEF back
    <2>2. valid' \in 0..Size /\ valid' \in {valid - n, valid - n + Size}
        BY <1>1, <1>3, <2>1, RetreatFacts DEF back
    <2>3. valid' + length' - tail' \in {valid + length - tail - Size, valid + length - tail,
                                       valid + length - tail + Size}
        BY <1>1, <1>3, <2>1, <2>2 DEF back
    <2>4. Coherent'
        BY <1>1, <1>3, <2>1, <2>2, <2>3, StaysCoherent DEF back, IInv, Coherent
    <2> QED
        BY <1>3, <2>1, <2>2, <2>4 DEF back, IInv, TypeOK
<1> QED
    BY <1>2, <1>3

\* clear() keeps the invariant.
LEMMA ClearInv ==
    ASSUME IInv, clear
    PROVE  IInv'
BY DEF clear, IInv, TypeOK, Coherent

\* skip() keeps the invariant.
LEMMA SkipInv ==
    ASSUME IInv, NEW n \in Nat, skip(n)
    PROVE  IInv'
<1>1. CASE length < n
    BY <1>1, ClearInv DEF skip
<1>2. CASE ~(length < n)
    <2>1. n \in 0..length
        BY <1>2 DEF IInv, TypeOK
    <2> QED
        BY <1>2, <2>1, ForwardInv DEF skip
<1> QED
    BY <1>1, <1>2

\* Every call keeps the invariant.
LEMMA NextInv ==
    ASSUME IInv, [Next]_vars
    PROVE  IInv'
<1>1. ASSUME NEW d \in Chunks, write(d)
      PROVE  IInv'
    <2>1. CASE Len(d) > Size
        BY <1>1, <2>1 DEF write, IInv, TypeOK, Coherent
    <2>2. CASE Len(d) <= Size
        BY <1>1, <2>2, WriteInv
    <2> QED
        BY <2>1, <2>2, ChunkFacts
<1>2. ASSUME NEW n \in Counts,
             read(n) \/ back(n) \/ skip(n) \/ getByteByIndex(n)
      PROVE  IInv'
    BY <1>2, CountsAssumption, ReadInv, BackInv, SkipInv, PeekInv
<1>3. CASE readByte
    BY <1>3, ReadByteIsRead, ReadInv
<1>4. CASE clear
    BY <1>4, ClearInv
<1>5. CASE UNCHANGED vars
    BY <1>5 DEF vars, IInv, TypeOK, Coherent
<1> QED
    BY <1>1, <1>2, <1>3, <1>4, <1>5 DEF Next

(* The pointers and the count stay in the array and agree with one another. *)
THEOREM Invariant == Spec => [](TypeOK /\ Coherent)
<1>1. IInv <=> TypeOK /\ Coherent
    BY DEF IInv
<1> QED
    BY <1>1, InitInv, NextInv, PTL DEF Spec

(* Pointers and count never leave the array, and it never holds what is no  *)
(* byte.                                                                    *)
THEOREM TypeCorrect == Spec => []TypeOK
BY Invariant, PTL

-----------------------------------------------------------------------------
(* The refinement.  Win is what the array and its tail stand for.           *)

Win == [i \in 1..Size |-> data[SlotAt(tail, i - 1)]]

(* A write shifts the window, whether or not it wraps.                      *)
LEMMA StoredWindow ==
    ASSUME TypeOK, NEW d \in Chunks, Len(d) <= Size, NEW i \in 1..Size
    PROVE  Stored(d)[SlotAt(Advance(tail, Len(d)), i - 1)] =
             IF i + Len(d) <= Size THEN data[SlotAt(tail, i + Len(d) - 1)]
                                   ELSE d[i + Len(d) - Size]
<1> DEFINE n == Len(d)
           t == tail
<1>1. n \in 0..Size /\ t \in 0..Size /\ i \in 1..Size
    BY ChunkFacts DEF TypeOK
<1> DEFINE j == SlotAt(Advance(t, n), i - 1)
<1>2. j \in Slots
    BY <1>1 DEF SlotAt, Advance
<1>3. Stored(d)[j] =
        IF t + n > Size
        THEN IF j >= t THEN d[j - t + 1]
             ELSE IF j < n - (Size - t) THEN d[j + (Size - t) + 1] ELSE data[j]
        ELSE IF j >= t /\ j < t + n THEN d[j - t + 1] ELSE data[j]
    BY <1>2 DEF Stored
<1> HIDE DEF n, t
<1>4. CASE t + n > Size /\ i + n <= Size
    BY <1>1, <1>3, <1>4 DEF SlotAt, Advance, n, t
<1>5. CASE t + n > Size /\ ~(i + n <= Size)
    <2>1. CASE j >= t
        <3>1. j - t + 1 = i + n - Size
            BY <1>1, <1>5, <2>1 DEF SlotAt, Advance
        <3> QED
            BY <1>3, <1>5, <2>1, <3>1 DEF n, t
    <2>2. CASE j < t
        <3>1. j < n - (Size - t) /\ j + (Size - t) + 1 = i + n - Size
            BY <1>1, <1>5, <2>2 DEF SlotAt, Advance
        <3> QED
            BY <1>3, <1>5, <2>2, <3>1, <1>1, <1>2 DEF n, t
    <2> QED
        BY <1>1, <1>2, <2>1, <2>2
<1>6. CASE ~(t + n > Size) /\ i + n <= Size
    <2>1. ~(j >= t /\ j < t + n) /\ j = SlotAt(t, i + n - 1)
        BY <1>1, <1>6 DEF SlotAt, Advance
    <2> QED
        BY <1>3, <1>6, <2>1 DEF n, t
<1>7. CASE ~(t + n > Size) /\ ~(i + n <= Size)
    <2>1. j >= t /\ j < t + n /\ j - t + 1 = i + n - Size
        BY <1>1, <1>7 DEF SlotAt, Advance
    <2> QED
        BY <1>3, <1>7, <2>1 DEF n, t
<1> QED
    BY <1>4, <1>5, <1>6, <1>7

\* write() is a Write of the window.
LEMMA WriteRefines ==
    ASSUME IInv, NEW d \in Chunks, write(d)
    PROVE  Window!Write(d)
<1>1. CASE Len(d) > Size
    BY <1>1 DEF write, Window!Write
<1>2. CASE Len(d) <= Size
    <2>1. length' = Window!Least(Size, length + Len(d))
        <3>1. length' = length + Len(d) - Overwritten(d)
            BY <1>2, ChunkFacts DEF write
        <3>2. Len(d) \in 0..Size /\ length \in 0..Size
            BY <1>2, ChunkFacts DEF IInv, TypeOK
        <3>3. length + Len(d) - Overwritten(d) = Window!Least(Size, length + Len(d))
            BY <3>2 DEF Overwritten, Window!Least
        <3> QED
            BY <3>1, <3>3
    <2>2. Win' = [i \in 1..Size |-> IF i + Len(d) <= Size THEN Win[i + Len(d)]
                                                       ELSE d[i + Len(d) - Size]]
        <3>1. data' = Stored(d) /\ tail' = Advance(tail, Len(d))
            BY <1>2, ChunkFacts DEF write
        <3>2. \A i \in 1..Size :
                  data'[SlotAt(tail', i - 1)] = IF i + Len(d) <= Size
                                                THEN data[SlotAt(tail, i + Len(d) - 1)]
                                                ELSE d[i + Len(d) - Size]
            BY <1>2, <3>1, StoredWindow DEF IInv
        <3>3. \A i \in 1..Size : i + Len(d) <= Size =>
                  Win[i + Len(d)] = data[SlotAt(tail, i + Len(d) - 1)]
            BY ChunkFacts DEF Win
        <3> QED
            BY <3>2, <3>3 DEF Win
    <2> QED
        BY <1>2, <2>1, <2>2, ChunkFacts DEF write, Window!Write, Win
<1> QED
    BY <1>1, <1>2, ChunkFacts

(* The oldest unread bytes lie at the end of the window.                    *)
LEMMA OldestIsUnread ==
    ASSUME IInv, NEW n \in 0..length
    PROVE  Oldest(n) = Window!Unread(n)
<1>1. valid \in 0..Size /\ length \in 0..Size /\ tail \in 0..Size
    BY DEF IInv, TypeOK
<1>2. ASSUME NEW i \in 1..n
      PROVE  data[SlotAt(valid, i - 1)] = Win[Size - length + i]
    <2> DEFINE m == Size - length + i
    <2>1. m \in 1..Size /\ SlotAt(valid, i - 1) = SlotAt(tail, m - 1)
        BY <1>1 DEF SlotAt, IInv, Coherent
    <2> HIDE DEF m
    <2>2. data[SlotAt(valid, i - 1)] = Win[m]
        BY <2>1 DEF Win
    <2> QED
        BY <2>2 DEF m
<1> QED
    BY <1>2 DEF Oldest, Window!Unread, Win

\* read() is a Read of the window.
LEMMA ReadRefines ==
    ASSUME IInv, NEW n \in Nat, read(n)
    PROVE  Window!Read(n)
<1>1. length \in 0..Size
    BY DEF IInv, TypeOK
<1>2. Available(n) = Window!Least(n, length) /\ Available(n) \in 0..length
    BY <1>1 DEF Available, Window!Least
<1>3. Win' = Win
    BY DEF read, Win
<1>4. CASE length = 0
    <2>1. Window!Least(n, length) = 0
        BY <1>4 DEF Window!Least
    <2>2. Window!Unread(0) = <<>>
        BY DEF Window!Unread
    <2> QED
        BY <1>3, <1>4, <2>1, <2>2 DEF read, Window!Read, Win
<1>5. CASE length # 0
    BY <1>2, <1>3, <1>5, OldestIsUnread DEF read, Window!Read, Win
<1> QED
    BY <1>4, <1>5

\* getByteByIndex() is a Peek of the window.
LEMMA PeekRefines ==
    ASSUME IInv, NEW i \in Nat, getByteByIndex(i)
    PROVE  Window!Peek(i)
<1>1. valid \in 0..Size /\ length \in 0..Size /\ tail \in 0..Size
    BY DEF IInv, TypeOK
<1>2. Win' = Win /\ length' = length
    BY DEF getByteByIndex, Win
<1>3. CASE length > i
    <2> DEFINE m == Size - length + 1 + i
    <2>1. m \in 1..Size /\ SlotAt(valid, i) = SlotAt(tail, m - 1)
        BY <1>1, <1>3 DEF SlotAt, IInv, Coherent
    <2> HIDE DEF m
    <2>2. data[SlotAt(valid, i)] = Win[m]
        BY <2>1 DEF Win
    <2>3. data[SlotAt(valid, i)] = Win[Size - length + 1 + i]
        BY <2>2 DEF m
    <2> QED
        BY <1>1, <1>2, <1>3, <2>3 DEF getByteByIndex, Window!Peek, Win
<1>4. CASE ~(length > i)
    BY <1>1, <1>2, <1>4 DEF getByteByIndex, Window!Peek, Win
<1> QED
    BY <1>3, <1>4

\* back() is a Back of the window.
LEMMA BackRefines ==
    ASSUME IInv, NEW n \in Nat, back(n)
    PROVE  Window!Back(n)
<1>1. length \in 0..Size
    BY DEF IInv, TypeOK
<1>2. Win' = Win
    BY DEF back, Win
<1>3. length' = Window!Least(Size, length + n)
    BY <1>1 DEF back, Window!Least
<1> QED
    BY <1>2, <1>3 DEF back, Window!Back, Win

\* clear() is a Forget of the window.
LEMMA ClearRefines ==
    ASSUME IInv, clear
    PROVE  Window!Forget
<1> DEFINE r == Size - tail
           turned(i) == IF i + r <= Size THEN i + r ELSE i + r - Size
<1>1. tail \in 0..Size /\ r \in 0..Size
    BY DEF IInv, TypeOK
<1>2. \A i \in 1..Size : /\ turned(i) \in 1..Size
                         /\ SlotAt(tail, turned(i) - 1) = SlotAt(0, i - 1)
    BY <1>1 DEF SlotAt
<1>3. Win' = [i \in 1..Size |-> data[SlotAt(0, i - 1)]]
    BY DEF clear, Win
<1>4. Win' = [i \in 1..Size |-> Win[turned(i)]]
    BY <1>2, <1>3 DEF Win
<1> QED
    BY <1>1, <1>4 DEF clear, Window!Forget, Win

\* skip() is a Skip of the window.
LEMMA SkipRefines ==
    ASSUME IInv, NEW n \in Nat, skip(n)
    PROVE  Window!Skip(n)
<1>1. length \in 0..Size
    BY DEF IInv, TypeOK
<1>2. CASE length < n
    BY <1>1, <1>2, ClearRefines DEF skip, Window!Skip
<1>3. CASE ~(length < n)
    <2>1. Win' = Win
        BY <1>3 DEF skip, Win
    <2> QED
        BY <1>1, <1>3, <2>1 DEF skip, Window!Skip, Win
<1> QED
    BY <1>2, <1>3

\* Every call is a step of the window.
LEMMA StepRefines ==
    ASSUME IInv, [Next]_vars
    PROVE  [Window!Next]_(Window!vars)
<1>1. ASSUME NEW d \in Chunks, write(d)
      PROVE  Window!Next
    BY <1>1, WriteRefines DEF Window!Next
<1>2. ASSUME NEW n \in Counts, read(n)
      PROVE  Window!Next
    BY <1>2, CountsAssumption, ReadRefines DEF Window!Next
<1>3. ASSUME NEW n \in Counts, back(n) \/ skip(n)
      PROVE  Window!Next
    BY <1>3, CountsAssumption, BackRefines, SkipRefines DEF Window!Next
<1>4. ASSUME NEW i \in Counts, getByteByIndex(i)
      PROVE  Window!Next
    BY <1>4, CountsAssumption, PeekRefines DEF Window!Next
<1>5. CASE readByte
    BY <1>5, ReadByteIsRead, ReadRefines DEF Window!Next
<1>6. CASE clear
    BY <1>6, ClearRefines DEF Window!Next
<1>7. CASE UNCHANGED vars
    BY <1>7 DEF vars, Window!vars
<1> QED
    BY <1>1, <1>2, <1>3, <1>4, <1>5, <1>6, <1>7 DEF Next

(* RingBuffer.js implements the window on the stream, for every size,       *)
(* whatever is written and however the reader moves.                        *)
THEOREM RingBufferImplementsWindow == Spec => ImplementsWindow
<1>1. Init => Window!Init
    <2> SUFFICES ASSUME Init PROVE Window!Init
        OBVIOUS
    <2>1. \A i \in 1..Size : data[SlotAt(tail, i - 1)] = 0
        BY DEF Init, SlotAt
    <2> QED
        BY <2>1 DEF Init, Window!Init
<1>2. IInv /\ [Next]_vars => [Window!Next]_(Window!vars)
    BY StepRefines
<1>3. Spec => []IInv
    BY InitInv, NextInv, PTL DEF Spec
<1> QED
    BY <1>1, <1>2, <1>3, PTL DEF Spec, Window!Spec, ImplementsWindow

(* What readByRange returns between the pointers before and after a read is *)
(* what was read, unless the read went all the way round.                   *)
THEOREM RangesAreWhatWasRead == Spec => RangeIsWhatWasRead
<1>2. ASSUME IInv, NEW n \in Nat, read(n), Available(n) < Size
      PROVE  readByRange(valid, valid') = result'
    <2> DEFINE k == Available(n)
    <2>a. valid \in 0..Size /\ length \in 0..Size
        BY <1>2 DEF IInv, TypeOK
    <2>1. valid \in 0..Size /\ length \in 0..Size /\ k \in 0..length
        BY <1>2, <2>a, AvailableFacts DEF IInv
    <2>2. CASE length = 0
        <3>1. valid' = valid /\ result' = <<>>
            BY <1>2, <2>2 DEF read
        <3>2. readByRange(valid, valid) = <<>>
            BY <2>1 DEF readByRange
        <3> QED
            BY <3>1, <3>2
    <2>3. CASE length # 0
        <3>1. valid' = Advance(valid, k) /\ result' = Oldest(k)
            BY <1>2, <2>3 DEF read
        <3>2. k < Size
            BY <1>2
        <3> HIDE DEF k
        <3>3. CASE valid + k > Size
            <4>1. ~(valid <= Advance(valid, k)) /\ Size - valid + Advance(valid, k) = k
                BY <2>1, <3>2, <3>3 DEF Advance
            <4>2. \A i \in 1..k :
                      (IF valid + i - 1 < Size THEN valid + i - 1 ELSE valid + i - 1 - Size)
                          = SlotAt(valid, i - 1)
                BY <2>1 DEF SlotAt
            <4> QED
                BY <3>1, <4>1, <4>2 DEF readByRange, Oldest
        <3>4. CASE ~(valid + k > Size)
            <4>1. valid <= Advance(valid, k) /\ Advance(valid, k) - valid = k
                BY <2>1, <3>4 DEF Advance
            <4>2. \A i \in 1..k : valid + i - 1 = SlotAt(valid, i - 1)
                BY <2>1, <3>4 DEF SlotAt
            <4> QED
                BY <3>1, <4>1, <4>2 DEF readByRange, Oldest
        <3> QED
            BY <3>3, <3>4
    <2> QED
        BY <2>2, <2>3
<1>3. IInv /\ [Next]_vars =>
        [\A n \in Counts :
            read(n) /\ Available(n) < Size => readByRange(valid, valid') = result']_vars
    BY <1>2, CountsAssumption
<1>4. Spec => []IInv
    BY InitInv, NextInv, PTL DEF Spec
<1> QED
    BY <1>3, <1>4, PTL DEF Spec, RangeIsWhatWasRead

=============================================================================
