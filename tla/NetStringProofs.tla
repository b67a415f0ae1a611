--------------------------- MODULE NetStringProofs ---------------------------
(***************************************************************************)
(* Proofs about NetString.                                                 *)
(*                                                                         *)
(* Decimal, Value, Decode and Encoded are recursive functions; that each of *)
(* them is what its definition says follows from RecursionHasASolution, and *)
(* what holds of them for every argument from RankInduction, an induction   *)
(* over a rank that is a number.  Two facts about decode() carry the rest:  *)
(* of bytes that an encoder made it finds the messages that are complete    *)
(* and waits for the next one (FindsThem), and of any bytes it finds the    *)
(* same, whether it is given them at once or goes on where it waited        *)
(* (LongerGoesOn, PointersDoNotMatter).                                     *)
(***************************************************************************)
EXTENDS NetString, Integers, WellFoundedInduction, TLAPS

-----------------------------------------------------------------------------
(* Recursion.                                                              *)

\* Every set of numbers that is not empty has a least one.
LEMMA LeastIsThere ==
    ASSUME NEW S, S \subseteq Nat, S # {}
    PROVE  \E m \in S : \A x \in S : m <= x
<1> DEFINE R == OpToRel(<, Nat)
<1>1. IsWellFoundedOn(R, Nat)
    BY NatLessThanWellFounded
<1>2. \A x, y \in Nat : y < x => <<y, x>> \in R
    BY DEF OpToRel
<1> HIDE DEF R
<1>3. PICK m \in S : \A y \in S : ~(<<y, m>> \in R)
    BY <1>1, WFMin
<1>4. \A y \in S : m <= y
    <2> SUFFICES ASSUME NEW y \in S PROVE m <= y
        OBVIOUS
    <2>1. y \in Nat /\ m \in Nat
        OBVIOUS
    <2>2. ~(y < m)
        BY <1>2, <1>3, <2>1
    <2> QED
        BY <2>1, <2>2
<1> QED
    BY <1>4

\* The steps of a recursive definition of a function from S to T: step[x], given the
\* function, is its value for x.
Steps(S, T) == [S -> [[S -> T] -> T]]

\* A step looks at values for what has a smaller rank only.
Descends(S, T, rank, step) ==
    \A x \in S : \A g, h \in [S -> T] :
        (\A y \in S : rank[y] < rank[x] => g[y] = h[y]) => step[x][g] = step[x][h]

Solutions(S, T, step) == {g \in [S -> T] : \A x \in S : g[x] = step[x][g]}

\* A recursive definition that descends has a solution.
LEMMA RecursionHasASolution ==
    ASSUME NEW S, NEW T, T # {}, NEW rank, rank \in [S -> Nat],
           NEW step, step \in Steps(S, T), Descends(S, T, rank, step)
    PROVE  Solutions(S, T, step) # {}
<1> USE DEF Steps, Descends
<1>0. PICK t0 \in T : TRUE
    OBVIOUS
<1> DEFINE Sol(n) == {g \in [S -> T] : \A x \in S : rank[x] <= n => g[x] = step[x][g]}
<1>1. \A n \in Nat : Sol(n) # {}
    <2> DEFINE Bad == {n \in Nat : Sol(n) = {}}
    <2> SUFFICES ASSUME Bad # {} PROVE FALSE
        BY ZenonT(60)
    <2>1. Bad \subseteq Nat
        OBVIOUS
    <2> HIDE DEF Bad
    <2>2. PICK n \in Bad : \A k \in Bad : n <= k
        BY <2>1, LeastIsThere
    <2>3. n \in Nat /\ Sol(n) = {}
        BY <2>2 DEF Bad
    <2>4. ASSUME NEW g \in [S -> T], \A x \in S : rank[x] < n => g[x] = step[x][g]
          PROVE  FALSE
        <3> DEFINE h == [x \in S |-> step[x][g]]
        <3>1. h \in [S -> T]
            OBVIOUS
        <3>2. \A x \in S : rank[x] < n => h[x] = g[x]
            BY <2>4
        <3>3. ASSUME NEW x \in S, rank[x] <= n PROVE h[x] = step[x][h]
            <4>1. \A y \in S : rank[y] < rank[x] => g[y] = h[y]
                BY <2>3, <3>2, <3>3
            <4>2. h[x] = step[x][g]
                OBVIOUS
            <4> HIDE DEF h
            <4> QED
                BY <3>1, <4>1, <4>2
        <3> HIDE DEF h
        <3>4. h \in Sol(n)
            BY <3>1, <3>3
        <3> QED
            BY <2>3, <3>4
    <2>5. CASE n = 0
        <3> DEFINE g == [x \in S |-> t0]
        <3>1. g \in [S -> T]
            OBVIOUS
        <3>2. \A x \in S : ~(rank[x] < n)
            BY <2>5
        <3> HIDE DEF g
        <3> QED
            BY <2>4, <3>1, <3>2
    <2>6. CASE n # 0
        <3>1. n - 1 \in Nat /\ ~(n <= n - 1)
            BY <2>3, <2>6
        <3>2. PICK g \in Sol(n - 1) : TRUE
            <4>1. n - 1 \notin Bad
                BY <2>2, <3>1
            <4> HIDE DEF Sol
            <4> QED
                BY <3>1, <4>1 DEF Bad
        <3>3. \A x \in S : rank[x] < n => rank[x] <= n - 1
            BY <2>3
        <3> QED
            BY <2>4, <3>2, <3>3
    <2> QED
        BY <2>5, <2>6
<1>2. ASSUME NEW n \in Nat, NEW m \in Nat, NEW g \in Sol(n), NEW h \in Sol(m),
             NEW z \in S, rank[z] <= n, rank[z] <= m
      PROVE  g[z] = h[z]
    <2> DEFINE Bad == {k \in Nat : \E x \in S : rank[x] = k /\ k <= rank[z] /\ g[x] # h[x]}
    <2>1. Bad \subseteq Nat
        OBVIOUS
    <2> SUFFICES ASSUME g[z] # h[z] PROVE FALSE
        OBVIOUS
    <2>2. rank[z] \in Bad
        OBVIOUS
    <2> HIDE DEF Bad
    <2>3. PICK k \in Bad : \A j \in Bad : k <= j
        BY <2>1, <2>2, LeastIsThere
    <2>4. PICK x \in S : rank[x] = k /\ k <= rank[z] /\ g[x] # h[x]
        BY <2>3 DEF Bad
    <2>5. \A y \in S : rank[y] < rank[x] => g[y] = h[y]
        <3> SUFFICES ASSUME NEW y \in S, rank[y] < rank[x], g[y] # h[y] PROVE FALSE
            OBVIOUS
        <3>1. rank[y] \in Nat /\ rank[y] <= rank[z] /\ ~(k <= rank[y])
            BY <2>4
        <3>2. rank[y] \in Bad
            BY <3>1 DEF Bad
        <3> QED
            BY <2>3, <3>1, <3>2
    <2>6. step[x][g] = step[x][h]
        BY <2>5
    <2>7. rank[x] <= n /\ rank[x] <= m
        BY <1>2, <2>4
    <2> QED
        BY <2>4, <2>6, <2>7
<1> DEFINE Up == [n \in Nat |-> CHOOSE g \in Sol(n) : TRUE]
           f == [x \in S |-> Up[rank[x]][x]]
<1>3. \A n \in Nat : Up[n] \in Sol(n)
    <2> SUFFICES ASSUME NEW n \in Nat PROVE Up[n] \in Sol(n)
        OBVIOUS
    <2>1. Sol(n) # {}
        BY <1>1
    <2>2. Up[n] = CHOOSE g \in Sol(n) : TRUE
        OBVIOUS
    <2> HIDE DEF Up, Sol
    <2> QED
        BY <2>1, <2>2
<1>4. \A n \in Nat : Sol(n) \subseteq [S -> T]
    OBVIOUS
<1>5. f \in [S -> T] /\ \A x \in S : f[x] = Up[rank[x]][x]
    <2> HIDE DEF Up, Sol
    <2> QED
        BY <1>3, <1>4
<1> HIDE DEF f, Up
<1>6. ASSUME NEW x \in S PROVE f[x] = step[x][f]
    <2>1. PICK n \in Nat : n = rank[x]
        OBVIOUS
    <2>2. PICK g \in Sol(n) : g = Up[n]
        BY <1>3
    <2>3. ASSUME NEW y \in S, rank[y] < rank[x] PROVE g[y] = f[y]
        <3>1. PICK m \in Nat : m = rank[y]
            OBVIOUS
        <3>2. PICK h \in Sol(m) : h = Up[m]
            BY <1>3
        <3>3. rank[y] <= m /\ rank[y] <= n
            BY <2>1, <2>3, <3>1
        <3>4. g[y] = h[y]
            <4> HIDE DEF Sol
            <4> QED
                BY <1>2, <2>3, <3>3
        <3> QED
            BY <1>5, <3>1, <3>2, <3>4
    <2>4. g \in [S -> T] /\ g[x] = step[x][g]
        BY <2>1
    <2>5. step[x][g] = step[x][f]
        BY <1>5, <2>3, <2>4
    <2>6. f[x] = g[x]
        BY <1>5, <2>1, <2>2
    <2> QED
        BY <2>4, <2>5, <2>6
<1> QED
    BY <1>5, <1>6 DEF Solutions

\* Induction on a rank, for a set P of the things it is shown of.
LEMMA RankInduction ==
    ASSUME NEW S, NEW rank \in [S -> Nat], NEW P,
           \A x \in S : (\A y \in S : rank[y] < rank[x] => y \in P) => x \in P
    PROVE  S \subseteq P
<1> DEFINE Bad == {k \in Nat : \E x \in S : rank[x] = k /\ x \notin P}
<1> SUFFICES ASSUME NEW z \in S, z \notin P PROVE FALSE
    OBVIOUS
<1>1. Bad \subseteq Nat /\ rank[z] \in Bad
    OBVIOUS
<1> HIDE DEF Bad
<1>2. PICK k \in Bad : \A j \in Bad : k <= j
    BY <1>1, LeastIsThere
<1>3. PICK x \in S : rank[x] = k /\ x \notin P
    BY <1>2 DEF Bad
<1>4. ASSUME NEW y \in S, rank[y] < rank[x], y \notin P PROVE FALSE
    <2>1. rank[y] \in Nat /\ ~(k <= rank[y])
        BY <1>3, <1>4
    <2>2. rank[y] \in Bad
        BY <1>4, <2>1 DEF Bad
    <2> QED
        BY <1>2, <2>1, <2>2
<1> QED
    BY <1>3, <1>4

-----------------------------------------------------------------------------
(* Sequences.                                                              *)

\* A concatenation, and a part of a sequence, element by element.
LEMMA ConcatFacts ==
    ASSUME NEW S, NEW a \in Seq(S), NEW b \in Seq(S)
    PROVE  /\ a \o b \in Seq(S) /\ Len(a \o b) = Len(a) + Len(b)
           /\ Len(a) \in Nat /\ Len(b) \in Nat
           /\ \A i \in 1..Len(a) : (a \o b)[i] = a[i]
           /\ \A i \in 1..Len(b) : (a \o b)[Len(a) + i] = b[i]
OBVIOUS

\* What a part of a sequence consists of.
LEMMA PartFacts ==
    ASSUME NEW S, NEW s \in Seq(S), NEW m \in Nat \ {0}, NEW n \in 0..Len(s)
    PROVE  /\ SubSeq(s, m, n) \in Seq(S)
           /\ Len(SubSeq(s, m, n)) = IF m <= n THEN n - m + 1 ELSE 0
           /\ \A i \in 1..(n - m + 1) : SubSeq(s, m, n)[i] = s[m + i - 1]
OBVIOUS

\* Sequences with the same length and the same elements are the same.
LEMMA SameSeq ==
    ASSUME NEW S, NEW s \in Seq(S), NEW t \in Seq(S), Len(s) = Len(t),
           \A i \in 1..Len(s) : s[i] = t[i]
    PROVE  s = t
OBVIOUS

\* Three sequences are put together in either order,
LEMMA ConcatAssociates ==
    ASSUME NEW S, NEW a \in Seq(S), NEW b \in Seq(S), NEW c \in Seq(S)
    PROVE  (a \o b) \o c = a \o (b \o c)
OBVIOUS

\* and so are bytes.
LEMMA BytesAssociate ==
    ASSUME NEW x \in Seq(Nat), NEW y \in Seq(Nat), NEW z \in Seq(Nat)
    PROVE  (x \o y) \o z = x \o (y \o z)
BY SMTT(30), ConcatAssociates

\* A sequence that begins with another one.
LEMMA Beginning ==
    ASSUME NEW S, NEW a \in Seq(S), NEW b \in Seq(S)
    PROVE  /\ SubSeq(a \o b, 1, Len(a)) = a
           /\ SubSeq(a \o b, Len(a) + 1, Len(a \o b)) = b
OBVIOUS

\* Both parts of a sequence that is cut make it up.
LEMMA Cut ==
    ASSUME NEW S, NEW s \in Seq(S), NEW n \in 0..Len(s)
    PROVE  SubSeq(s, 1, n) \o SubSeq(s, n + 1, Len(s)) = s
<1> DEFINE a == SubSeq(s, 1, n)
           b == SubSeq(s, n + 1, Len(s))
<1>1. Len(s) \in Nat /\ n \in Nat
    OBVIOUS
<1>2. a \in Seq(S) /\ Len(a) = n /\ \A i \in 1..n : a[i] = s[i]
    BY <1>1, PartFacts
<1>3. b \in Seq(S) /\ Len(b) = Len(s) - n /\ \A i \in 1..(Len(s) - n) : b[i] = s[n + i]
    BY <1>1, PartFacts
<1> HIDE DEF a, b
<1>4. /\ a \o b \in Seq(S) /\ Len(a \o b) = Len(s)
      /\ \A i \in 1..n : (a \o b)[i] = a[i]
      /\ \A i \in 1..(Len(s) - n) : (a \o b)[n + i] = b[i]
    BY <1>1, <1>2, <1>3, ConcatFacts
<1>5. ASSUME NEW i \in 1..Len(s) PROVE (a \o b)[i] = s[i]
    <2>1. CASE i <= n
        BY <1>1, <1>2, <1>4, <2>1
    <2>2. CASE ~(i <= n)
        <3>1. i - n \in 1..(Len(s) - n) /\ n + (i - n) = i
            BY <1>1, <2>2
        <3> QED
            BY <1>3, <1>4, <3>1
    <2> QED
        BY <2>1, <2>2
<1>6. a \o b = s
    BY <1>4, <1>5, SameSeq
<1> QED
    BY <1>6 DEF a, b

-----------------------------------------------------------------------------
(* Numbers and their digits.                                               *)

\* Decimal is what it is defined to be.
LEMMA DecimalUnfolds ==
    ASSUME NEW n \in Nat
    PROVE  Decimal[n] = IF n < 10 THEN <<Zero + n>>
                        ELSE Decimal[n \div 10] \o <<Zero + (n % 10)>>
<1> DEFINE T == Seq(Digit)
           body(k, g) == IF k < 10 THEN <<Zero + k>> ELSE g[k \div 10] \o <<Zero + (k % 10)>>
           step == [k \in Nat |-> [g \in [Nat -> T] |-> body(k, g)]]
           rank == [k \in Nat |-> k]
<1>1. ASSUME NEW k \in Nat PROVE k >= 10 => k \div 10 \in Nat /\ k \div 10 < k
    OBVIOUS
<1>2. ASSUME NEW k \in Nat, NEW g \in [Nat -> T] PROVE body(k, g) \in T
    <2>1. CASE k < 10
        BY <2>1 DEF Digit, Zero
    <2>2. CASE ~(k < 10)
        <3>1. g[k \div 10] \in Seq(Digit)
            BY <1>1, <2>2
        <3>2. <<Zero + (k % 10)>> \in Seq(Digit)
            BY DEF Digit, Zero
        <3> QED
            BY <2>2, <3>1, <3>2
    <2> QED
        BY <2>1, <2>2
<1>3. rank \in [Nat -> Nat]
    OBVIOUS
<1>4. step \in Steps(Nat, T)
    BY <1>2 DEF Steps
<1>5. T # {}
    <2>1. <<>> \in T
        OBVIOUS
    <2> QED
        BY <2>1
<1>6. Descends(Nat, T, rank, step)
    BY <1>1 DEF Descends
<1>7. \A k \in Nat : \A g \in [Nat -> T] : step[k][g] = body(k, g)
    OBVIOUS
<1> HIDE DEF step, rank, T
<1>8. PICK g \in Solutions(Nat, T, step) : TRUE
    BY Zenon, <1>3, <1>4, <1>5, <1>6, RecursionHasASolution
<1>9. \A k \in Nat : g[k] = body(k, g)
    BY <1>7, <1>8 DEF Solutions
<1>10. g = [k \in Nat |-> body(k, g)]
    <2>1. g = [k \in Nat |-> g[k]]
        BY SMTT(30), <1>8 DEF Solutions
    <2> QED
        BY <1>9, <2>1
<1>11. Decimal = [k \in Nat |-> body(k, Decimal)]
    BY Zenon, <1>10 DEF Decimal
<1> QED
    BY <1>11

\* Value is what it is defined to be.
LEMMA ValueUnfolds ==
    ASSUME NEW ds \in Seq(Digit)
    PROVE  Value[ds] = IF ds = <<>> THEN 0 ELSE 10 * Value[Front(ds)] + (Last(ds) - Zero)
<1> DEFINE S == Seq(Digit)
           body(s, g) == IF s = <<>> THEN 0 ELSE 10 * g[Front(s)] + (Last(s) - Zero)
           step == [s \in S |-> [g \in [S -> Nat] |-> body(s, g)]]
           rank == [s \in S |-> Len(s)]
<1>1. ASSUME NEW s \in S, s # <<>>
      PROVE  Front(s) \in S /\ Len(Front(s)) < Len(s) /\ Last(s) - Zero \in Nat
    <2>1. Len(s) \in Nat /\ Len(s) # 0
        BY <1>1
    <2>2. s[Len(s)] \in Digit
        BY <2>1
    <2> QED
        BY <2>1, <2>2 DEF Front, Last, Digit, Zero
<1>2. ASSUME NEW s \in S, NEW g \in [S -> Nat] PROVE body(s, g) \in Nat
    <2>1. CASE s = <<>>
        BY <2>1
    <2>2. CASE s # <<>>
        <3>1. g[Front(s)] \in Nat /\ Last(s) - Zero \in Nat
            BY <1>1, <2>2
        <3> HIDE DEF S
        <3> QED
            BY <2>2, <3>1
    <2> QED
        BY <2>1, <2>2
<1>3. rank \in [S -> Nat]
    OBVIOUS
<1>4. step \in Steps(S, Nat)
    BY <1>2 DEF Steps
<1>5. Descends(S, Nat, rank, step)
    BY <1>1 DEF Descends
<1>6. \A s \in S : \A g \in [S -> Nat] : step[s][g] = body(s, g)
    OBVIOUS
<1> HIDE DEF step, rank
<1>7. PICK g \in Solutions(S, Nat, step) : TRUE
    <2>1. Nat # {}
        OBVIOUS
    <2> HIDE DEF S
    <2> QED
        BY Zenon, <1>3, <1>4, <1>5, <2>1, RecursionHasASolution
<1>8. \A s \in S : g[s] = body(s, g)
    BY <1>6, <1>7 DEF Solutions
<1>9. g = [s \in S |-> body(s, g)]
    <2>1. g = [s \in S |-> g[s]]
        BY <1>7 DEF Solutions
    <2> QED
        BY <1>8, <2>1
<1>10. Value = [s \in S |-> body(s, Value)]
    BY <1>9 DEF Value
<1> QED
    BY <1>10

\* Digits form a natural number.
LEMMA ValueType ==
    ASSUME NEW ds \in Seq(Digit)
    PROVE  Value[ds] \in Nat
<1> DEFINE S == Seq(Digit)
           P == {s \in S : Value[s] \in Nat}
           rank == [s \in S |-> Len(s)]
<1>1. rank \in [S -> Nat]
    OBVIOUS
<1>2. ASSUME NEW s \in S, \A t \in S : rank[t] < rank[s] => t \in P
      PROVE  s \in P
    <2>1. CASE s = <<>>
        <3>1. Value[s] = 0
            BY <2>1, ValueUnfolds
        <3> QED
            BY <3>1
    <2>2. CASE s # <<>>
        <3>1. Front(s) \in S /\ Len(Front(s)) < Len(s) /\ Last(s) - Zero \in Nat
            <4>1. Len(s) \in Nat /\ Len(s) # 0
                BY <2>2
            <4>2. s[Len(s)] \in Digit
                BY <4>1
            <4> QED
                BY <4>1, <4>2 DEF Front, Last, Digit, Zero
        <3>2. Value[Front(s)] \in Nat
            BY <1>2, <3>1
        <3>3. Value[s] = 10 * Value[Front(s)] + (Last(s) - Zero)
            BY <2>2, ValueUnfolds
        <3>4. Value[s] \in Nat
            <4> HIDE DEF S
            <4> QED
                BY <3>1, <3>2, <3>3
        <3> QED
            BY <3>4
    <2> QED
        BY <2>1, <2>2
<1> HIDE DEF rank, P, S
<1>3. S \subseteq P
    BY <1>1, <1>2, RankInduction
<1> QED
    BY <1>3 DEF S, P

\* One more digit.
LEMMA ValueOfAppend ==
    ASSUME NEW ds \in Seq(Digit), NEW d \in Digit
    PROVE  Value[ds \o <<d>>] = 10 * Value[ds] + (d - Zero)
<1> DEFINE s == ds \o <<d>>
<1>1. s \in Seq(Digit) /\ Len(s) = Len(ds) + 1 /\ s # <<>> /\ s[Len(s)] = d
    OBVIOUS
<1>2. Front(s) = ds
    BY DEF Front
<1>3. Last(s) = d
    BY <1>1 DEF Last
<1> HIDE DEF s
<1>4. Value[s] = 10 * Value[ds] + (d - Zero)
    BY <1>1, <1>2, <1>3, ValueUnfolds
<1> QED
    BY <1>4 DEF s

\* Digits(b) digits come first, and then something else or nothing.
LEMMA DigitsFacts ==
    ASSUME NEW b \in Seq(Nat)
    PROVE  /\ Digits(b) \in 0..Len(b)
           /\ \A i \in 1..Digits(b) : IsDigit(b[i])
           /\ Digits(b) < Len(b) => ~IsDigit(b[Digits(b) + 1])
<1> DEFINE others == {i \in DOMAIN b : ~IsDigit(b[i])}
<1>1. Len(b) \in Nat /\ DOMAIN b = 1..Len(b)
    OBVIOUS
<1>2. Digits(b) = IF others = {} THEN Len(b) ELSE Min(others) - 1
    BY DEF Digits
<1>3. CASE others = {}
    BY <1>1, <1>2, <1>3
<1>4. CASE others # {}
    <2>1. others \subseteq Nat
        BY <1>1
    <2>2. PICK m \in others : \A x \in others : m <= x
        BY <1>4, <2>1, LeastIsThere
    <2>3. Min(others) \in others /\ \A x \in others : Min(others) <= x
        BY <2>2 DEF Min
    <2>4. PICK k \in others : k = Min(others)
        BY <2>3
    <2>5. Digits(b) = k - 1 /\ k \in 1..Len(b) /\ ~IsDigit(b[k])
        BY <1>1, <1>2, <1>4, <2>4
    <2>6. ASSUME NEW i \in 1..(k - 1) PROVE IsDigit(b[i])
        <3>1. i \in DOMAIN b /\ ~(k <= i)
            BY <1>1, <2>5
        <3> QED
            BY <2>3, <2>4, <3>1
    <2> HIDE DEF others
    <2> QED
        BY <1>1, <2>5, <2>6
<1> QED
    BY <1>3, <1>4

\* What comes before the first byte that is no digit are the digits.
LEMMA DigitsAre ==
    ASSUME NEW b \in Seq(Nat), NEW n \in 0..Len(b), \A i \in 1..n : IsDigit(b[i]),
           n < Len(b) => ~IsDigit(b[n + 1])
    PROVE  Digits(b) = n
<1>1. Len(b) \in Nat /\ n \in Nat /\ Digits(b) \in Nat /\ Digits(b) <= Len(b)
    BY DigitsFacts
<1>2. CASE Digits(b) < n
    <2>1. Digits(b) + 1 \in 1..n /\ Digits(b) < Len(b)
        BY <1>1, <1>2
    <2> QED
        BY <2>1, DigitsFacts
<1>3. CASE n < Digits(b)
    <2>1. n + 1 \in 1..Digits(b) /\ n < Len(b)
        BY <1>1, <1>3
    <2> QED
        BY <2>1, DigitsFacts
<1> QED
    BY <1>1, <1>2, <1>3

\* What a sequence begins with is a number.
LEMMA NumberType ==
    ASSUME NEW b \in Seq(Nat)
    PROVE  SubSeq(b, 1, Digits(b)) \in Seq(Digit) /\ Number(b) \in Nat
<1>1. Digits(b) \in 0..Len(b) /\ \A i \in 1..Digits(b) : b[i] \in Digit
    BY DigitsFacts DEF IsDigit
<1> DEFINE d == SubSeq(b, 1, Digits(b))
           n == Digits(b)
<1>2. n \in Nat /\ Len(b) \in Nat
    BY <1>1
<1>3. d \in Seq(Nat) /\ Len(d) = n /\ \A i \in 1..n : d[i] = b[i]
    BY <1>1, <1>2, PartFacts
<1> HIDE DEF d, n
<1>4. \A i \in 1..n : d[i] \in Digit
    BY <1>1, <1>3 DEF n
<1>5. d \in Seq(Digit)
    BY <1>2, <1>3, <1>4
<1> QED
    BY <1>5, ValueType DEF Number, d

-----------------------------------------------------------------------------
(* decode().                                                               *)

Frames == [payload : Seq(Nat), cmd : Nat, serialized : Seq(Nat)]

\* What decode() does with unread bytes b: it throws, takes a frame, or waits.
Throws(b) == Len(b) >= 3 /\ (BadHeader(b) \/ (Digits(b) < Len(b) /\ Arrived(b) /\ BadBody(b)))
Takes(b)  == Len(b) >= 3 /\ ~BadHeader(b) /\ Digits(b) < Len(b) /\ Arrived(b) /\ ~BadBody(b)

\* A frame that has arrived lies in the unread bytes.
LEMMA FrameFacts ==
    ASSUME NEW b \in Seq(Nat), Digits(b) < Len(b), Arrived(b)
    PROVE  /\ Digits(b) \in Nat /\ Number(b) \in Nat /\ FrameLength(b) = Digits(b) + Number(b) + 2
           /\ FrameLength(b) \in 2..Len(b)
           /\ Body(b) \in Seq(Nat) /\ Len(Body(b)) = Len(b) - Digits(b) - 1
           /\ \A i \in 1..Len(Body(b)) : Body(b)[i] = b[Digits(b) + 1 + i]
           /\ Number(b) + 1 <= Len(Body(b))
<1>1. Len(b) \in Nat /\ Digits(b) \in 0..Len(b) /\ Number(b) \in Nat
    BY DigitsFacts, NumberType
<1> DEFINE n == Digits(b)
<1>2. n + 2 \in Nat \ {0} /\ Len(b) \in 0..Len(b)
    BY <1>1
<1>3. /\ Body(b) \in Seq(Nat)
      /\ Len(Body(b)) = IF n + 2 <= Len(b) THEN Len(b) - (n + 2) + 1 ELSE 0
      /\ \A i \in 1..(Len(b) - (n + 2) + 1) : Body(b)[i] = b[(n + 2) + i - 1]
    BY <1>2, PartFacts DEF Body
<1>4. Len(Body(b)) = Len(b) - n - 1
    BY <1>1, <1>3
<1>5. ASSUME NEW i \in 1..Len(Body(b)) PROVE Body(b)[i] = b[n + 1 + i]
    <2>1. i \in 1..(Len(b) - (n + 2) + 1) /\ (n + 2) + i - 1 = n + 1 + i
        BY <1>1, <1>4
    <2> QED
        BY <1>3, <2>1
<1>6. Number(b) + 1 <= Len(Body(b))
    BY DEF Arrived
<1>7. FrameLength(b) = n + Number(b) + 2
    BY DEF FrameLength
<1>8. FrameLength(b) \in 2..Len(b)
    BY ONLY SMTT(30), <1>1, <1>4, <1>6, <1>7
<1>9. n \in Nat
    BY <1>1
<1> HIDE DEF n
<1> QED
    BY ONLY <1>1, <1>3, <1>4, <1>5, <1>6, <1>7, <1>8, <1>9 DEF n

\* What decode() gives out is a frame.
LEMMA FrameType ==
    ASSUME NEW p \in Nat, NEW b \in Seq(Nat), Digits(b) < Len(b), Arrived(b)
    PROVE  Frame(p, b) \in Frames
<1>1. /\ Body(b) \in Seq(Nat) /\ Number(b) \in 0..Len(Body(b)) /\ FrameLength(b) \in 0..Len(b)
      /\ Len(b) \in Nat
    <2>1. /\ Body(b) \in Seq(Nat) /\ Number(b) \in Nat /\ Number(b) + 1 <= Len(Body(b))
          /\ FrameLength(b) \in 2..Len(b)
        BY FrameFacts
    <2>2. Len(b) \in Nat /\ Len(Body(b)) \in Nat
        BY <2>1
    <2> QED
        BY ONLY <2>1, <2>2
<1>2. Digits(Body(b)) \in Nat /\ Number(Body(b)) \in Nat
    BY <1>1, DigitsFacts, NumberType
<1>3. PrefixLength(b) + 1 \in Nat \ {0}
    BY <1>2 DEF PrefixLength
<1>4. SubSeq(Body(b), PrefixLength(b) + 1, Number(b)) \in Seq(Nat)
    BY <1>1, <1>3, PartFacts
<1>5. SubSeq(b, 1, FrameLength(b)) \in Seq(Nat)
    BY <1>1, PartFacts
<1>6. Serialized(p, b) \in Seq(Nat)
    BY <1>5 DEF Serialized
<1> QED
    BY <1>2, <1>4, <1>6 DEF Frame, Frames

\* What is left after a frame is shorter.
LEMMA TakenType ==
    ASSUME NEW st \in State, Takes(st.unread)
    PROVE  /\ Taken(st) \in State /\ Len(Taken(st).unread) < Len(st.unread)
           /\ Taken(st).unread =
                  SubSeq(st.unread, FrameLength(st.unread) + 1, Len(st.unread))
           /\ Taken(st).valid = Advance(st.valid, FrameLength(st.unread))
           /\ Taken(st).decoded = Append(st.decoded, Frame(st.valid, st.unread))
           /\ Taken(st).failed = st.failed
<1> DEFINE b == st.unread
<1>1. b \in Seq(Nat) /\ st.valid \in Nat /\ st.decoded \in Seq(Frames) /\ st.failed \in BOOLEAN
    BY DEF State, Frames
<1>2. Digits(b) < Len(b) /\ Arrived(b)
    BY DEF Takes
<1>3. Frame(st.valid, b) \in Frames
    BY <1>1, <1>2, FrameType
<1>4. FrameLength(b) \in 2..Len(b) /\ Len(b) \in Nat
    BY <1>1, <1>2, FrameFacts
<1>5. SubSeq(b, FrameLength(b) + 1, Len(b)) \in Seq(Nat)
      /\ Len(SubSeq(b, FrameLength(b) + 1, Len(b))) < Len(b)
    <2>1. FrameLength(b) + 1 \in Nat \ {0} /\ Len(b) \in 0..Len(b)
        BY <1>4
    <2>2. /\ SubSeq(b, FrameLength(b) + 1, Len(b)) \in Seq(Nat)
          /\ Len(SubSeq(b, FrameLength(b) + 1, Len(b))) =
                 IF FrameLength(b) + 1 <= Len(b) THEN Len(b) - (FrameLength(b) + 1) + 1 ELSE 0
        BY <1>1, <2>1, PartFacts
    <2> QED
        BY <1>4, <2>2
<1>6. Advance(st.valid, FrameLength(b)) \in Nat
    <2>1. BufferSize \in Nat
        BY SizesAssumption
    <2> QED
        BY <1>1, <1>4, <2>1 DEF Advance
<1>7. Append(st.decoded, Frame(st.valid, b)) \in Seq(Frames)
    BY <1>1, <1>3
<1> QED
    BY <1>5, <1>6, <1>7 DEF Taken, State, Frames

\* One step of decode(), which goes on with g.
DecodeStep(st, g) ==
    LET b == st.unread
    IN  IF Len(b) < 3 THEN st
        ELSE IF BadHeader(b) THEN Thrown(st)
        ELSE IF Digits(b) = Len(b) \/ ~Arrived(b) THEN Waiting(st)
        ELSE IF BadBody(b) THEN Thrown(st)
        ELSE g[Taken(st)]

\* What has been read of a header is unread again.
LEMMA PutBackFacts ==
    ASSUME NEW b \in Seq(Nat)
    PROVE  PutBack(b) = b
<1>1. HeaderRead(b) \in Nat
    BY DigitsFacts DEF HeaderRead
<1>2. PutBack(b) = SubSeq(b, 1, Len(b))
    BY <1>1 DEF PutBack, Back
<1> QED
    BY <1>2

\* What decode() does in each of the three cases.
LEMMA StepCases ==
    ASSUME NEW st \in State, NEW g
    PROVE  /\ Throws(st.unread) => DecodeStep(st, g) = Thrown(st)
           /\ Takes(st.unread) => DecodeStep(st, g) = g[Taken(st)]
           /\ ~Throws(st.unread) /\ ~Takes(st.unread) =>
                  DecodeStep(st, g) = IF Len(st.unread) < 3 THEN st ELSE Waiting(st)
<1> DEFINE b == st.unread
<1>1. b \in Seq(Nat) /\ Len(b) \in Nat /\ Digits(b) \in 0..Len(b)
    BY DigitsFacts DEF State
<1>2. ~(Len(b) < 3) <=> Len(b) >= 3
    BY <1>1
<1>3. ~(Digits(b) = Len(b)) <=> Digits(b) < Len(b)
    BY <1>1
<1> QED
    BY ONLY Zenon, <1>2, <1>3 DEF DecodeStep, Throws, Takes

\* Throwing and waiting keep the messages found; waiting also keeps the unread bytes.
LEMMA StepType ==
    ASSUME NEW st \in State
    PROVE  /\ Thrown(st) \in State /\ Waiting(st) \in State
           /\ Waiting(st).unread = st.unread /\ Waiting(st).decoded = st.decoded
           /\ Waiting(st).failed = st.failed /\ Waiting(st).valid \in {st.valid, 0}
           /\ Thrown(st).failed /\ Thrown(st).decoded = st.decoded
<1>1. st.unread \in Seq(Nat) /\ st.valid \in Nat /\ 0 \in Nat
    BY DEF State
<1>2. PutBack(st.unread) = st.unread
    BY <1>1, PutBackFacts
<1>3. Thrown(st) \in State /\ Thrown(st).failed /\ Thrown(st).decoded = st.decoded
    BY DEF Thrown, State
<1>4. Waiting(st) \in State /\ Waiting(st).unread = st.unread
    BY <1>1, <1>2 DEF Waiting, State
<1>5. /\ Waiting(st).decoded = st.decoded
      /\ Waiting(st).failed = st.failed /\ Waiting(st).valid \in {st.valid, 0}
    BY <1>1, <1>2 DEF Waiting, State
<1> QED
    BY <1>3, <1>4, <1>5

\* decode() is what it is defined to be.
LEMMA DecodeUnfolds ==
    ASSUME NEW st \in State
    PROVE  Decode[st] = DecodeStep(st, Decode)
<1> DEFINE step == [s \in State |-> [g \in [State -> State] |-> DecodeStep(s, g)]]
           rank == [s \in State |-> Len(s.unread)]
<1>1. rank \in [State -> Nat]
    BY DEF State
<1>2. ASSUME NEW s \in State, NEW g \in [State -> State] PROVE DecodeStep(s, g) \in State
    BY <1>2, StepCases, StepType, TakenType
<1>3. step \in Steps(State, State)
    BY <1>2 DEF Steps
<1>4. State # {}
    <2>1. [unread |-> <<>>, valid |-> 0, decoded |-> <<>>, failed |-> FALSE] \in State
        BY DEF State
    <2> QED
        BY <2>1
<1>5. Descends(State, State, rank, step)
    <2> SUFFICES ASSUME NEW s \in State, NEW g \in [State -> State], NEW h \in [State -> State],
                        \A y \in State : rank[y] < rank[s] => g[y] = h[y]
                 PROVE  step[s][g] = step[s][h]
        BY DEF Descends
    <2>1. Takes(s.unread) => g[Taken(s)] = h[Taken(s)]
        BY TakenType
    <2>2. DecodeStep(s, g) = DecodeStep(s, h)
        <3>1. CASE Takes(s.unread)
            BY <2>1, <3>1, StepCases
        <3>2. CASE ~Takes(s.unread)
            BY <3>2, StepCases
        <3> QED
            BY <3>1, <3>2
    <2> QED
        BY <2>2
<1>6. \A s \in State : \A g \in [State -> State] : step[s][g] = DecodeStep(s, g)
    OBVIOUS
<1> HIDE DEF step, rank
<1>7. PICK g \in Solutions(State, State, step) : TRUE
    BY Zenon, <1>1, <1>3, <1>4, <1>5, RecursionHasASolution
<1>8. \A s \in State : g[s] = DecodeStep(s, g)
    BY <1>6, <1>7 DEF Solutions
<1>9. g = [s \in State |-> DecodeStep(s, g)]
    <2>1. g = [s \in State |-> g[s]]
        BY <1>7 DEF Solutions
    <2> QED
        BY <1>8, <2>1
<1>10. Decode = [s \in State |-> DecodeStep(s, Decode)]
    BY Zenon, <1>9 DEF Decode, DecodeStep
<1> QED
    BY <1>10

\* decode() stays in the buffer.
LEMMA DecodeType ==
    ASSUME NEW st \in State
    PROVE  /\ Decode[st] \in State
           /\ Len(st.unread) <= BufferSize /\ st.valid <= BufferSize =>
                  Len(Decode[st].unread) <= BufferSize /\ Decode[st].valid <= BufferSize
<1> DEFINE Fits(s) == Len(s.unread) <= BufferSize /\ s.valid <= BufferSize
           P == {s \in State : Decode[s] \in State /\ (Fits(s) => Fits(Decode[s]))}
           rank == [s \in State |-> Len(s.unread)]
<1>1. rank \in [State -> Nat]
    BY DEF State
<1>2. BufferSize \in Nat
    BY SizesAssumption
<1>3. ASSUME NEW s \in State, \A t \in State : rank[t] < rank[s] => t \in P
      PROVE  s \in P
    <2>1. CASE Takes(s.unread)
        <3>1. /\ Taken(s) \in State /\ Len(Taken(s).unread) < Len(s.unread)
              /\ Taken(s).valid = Advance(s.valid, FrameLength(s.unread))
            BY <2>1, TakenType
        <3>2. Taken(s) \in P
            BY <1>3, <3>1
        <3>3. Decode[s] = Decode[Taken(s)]
            BY <2>1, DecodeUnfolds, StepCases
        <3>4. Fits(s) => Fits(Taken(s))
            <4>1. FrameLength(s.unread) \in 2..Len(s.unread) /\ Len(s.unread) \in Nat
                  /\ s.valid \in Nat
                BY <2>1, FrameFacts DEF Takes, State
            <4>2. Len(Taken(s).unread) \in Nat
                BY <3>1 DEF State
            <4> QED
                BY <1>2, <3>1, <4>1, <4>2 DEF Advance
        <3> QED
            BY <3>2, <3>3, <3>4
    <2>2. CASE Throws(s.unread)
        <3>1. Decode[s] = Thrown(s) /\ Thrown(s) \in State
            BY <2>2, DecodeUnfolds, StepCases, StepType
        <3>2. Thrown(s).unread = s.unread /\ Thrown(s).valid = s.valid
            BY DEF Thrown, State
        <3> QED
            BY <3>1, <3>2
    <2>3. CASE ~Takes(s.unread) /\ ~Throws(s.unread)
        <3>1. Decode[s] = IF Len(s.unread) < 3 THEN s ELSE Waiting(s)
            BY <2>3, DecodeUnfolds, StepCases
        <3>2. /\ Waiting(s) \in State /\ Waiting(s).unread = s.unread
              /\ Waiting(s).valid \in {s.valid, 0}
            BY StepType
        <3>3. Fits(s) => Fits(Waiting(s))
            BY <1>2, <3>2
        <3>4. Decode[s] = s \/ Decode[s] = Waiting(s)
            BY <3>1
        <3> QED
            BY <3>2, <3>3, <3>4
    <2> QED
        BY <2>1, <2>2, <2>3
<1> HIDE DEF P, rank
<1>4. State \subseteq P
    BY <1>1, <1>3, RankInduction
<1> QED
    BY <1>4 DEF P

-----------------------------------------------------------------------------
(* encode().                                                               *)

\* Digits are bytes.
LEMMA DigitSeqsAreByteSeqs ==
    ASSUME NEW ds \in Seq(Digit)
    PROVE  ds \in Seq(Nat)
<1>1. \A d \in Digit : d \in Nat
    BY DEF Digit, Zero
<1> QED
    BY <1>1

\* A number's digits form that number, with a leading zero only for 0.
LEMMA DecimalFacts ==
    ASSUME NEW n \in Nat
    PROVE  /\ Decimal[n] \in Seq(Digit) /\ Decimal[n] \in Seq(Nat) /\ Len(Decimal[n]) >= 1
           /\ Value[Decimal[n]] = n
           /\ Decimal[n][1] = Zero => Len(Decimal[n]) = 1
<1> DEFINE Facts(k) == /\ Decimal[k] \in Seq(Digit) /\ Len(Decimal[k]) >= 1
                       /\ Value[Decimal[k]] = k
                       /\ k > 0 => Decimal[k][1] # Zero
                       /\ k < 10 => Len(Decimal[k]) = 1
           P == {k \in Nat : Facts(k)}
           rank == [k \in Nat |-> k]
<1>1. rank \in [Nat -> Nat]
    OBVIOUS
<1>2. ASSUME NEW k \in Nat, \A j \in Nat : rank[j] < rank[k] => j \in P
      PROVE  k \in P
    <2>1. CASE k < 10
        <3> DEFINE d == Zero + k
        <3>1. Decimal[k] = <<d>>
            BY <2>1, DecimalUnfolds
        <3>2. d \in Digit /\ d - Zero = k
            BY <2>1 DEF Digit, Zero
        <3>3. k > 0 => d # Zero
            BY DEF Zero
        <3> HIDE DEF d
        <3>4. <<>> \in Seq(Digit) /\ <<>> \o <<d>> = <<d>>
            OBVIOUS
        <3>5. Value[<<>>] = 0
            BY <3>4, ValueUnfolds
        <3>6. Value[<<>> \o <<d>>] = 10 * Value[<<>>] + (d - Zero)
            BY <3>2, <3>4, ValueOfAppend
        <3>7. Value[<<d>>] = k
            BY <3>2, <3>4, <3>5, <3>6
        <3>8. <<d>> \in Seq(Digit) /\ Len(<<d>>) = 1 /\ <<d>>[1] = d
            BY <3>2
        <3>9. Facts(k)
            BY ONLY <3>1, <3>3, <3>7, <3>8
        <3> QED
            BY <3>9
    <2>2. CASE ~(k < 10)
        <3> DEFINE j == k \div 10
                   d == Zero + (k % 10)
        <3>1. j \in Nat /\ j < k /\ j > 0 /\ k = 10 * j + (k % 10)
            BY <2>2
        <3>2. d \in Digit /\ d - Zero = k % 10
            BY DEF Digit, Zero
        <3>3. Decimal[k] = Decimal[j] \o <<d>>
            BY <2>2, DecimalUnfolds
        <3>4. j \in P
            BY <1>2, <3>1
        <3> HIDE DEF j, d
        <3>5. Facts(j)
            BY <3>4
        <3>6. Value[Decimal[j] \o <<d>>] = 10 * Value[Decimal[j]] + (d - Zero)
            BY <3>2, <3>5, ValueOfAppend
        <3>7. Value[Decimal[k]] = k
            BY <3>1, <3>2, <3>3, <3>5, <3>6
        <3>8. /\ Decimal[j] \o <<d>> \in Seq(Digit) /\ Len(Decimal[j] \o <<d>>) >= 1
              /\ (Decimal[j] \o <<d>>)[1] = Decimal[j][1]
            BY <3>2, <3>5
        <3>9. Facts(k)
            BY ONLY <2>2, <3>1, <3>3, <3>5, <3>7, <3>8
        <3> QED
            BY <3>9
    <2> QED
        BY <2>1, <2>2
<1> HIDE DEF P, rank
<1>3. Nat \subseteq P
    BY <1>1, <1>2, RankInduction
<1>4. Facts(n)
    BY <1>3 DEF P
<1>5. Decimal[n][1] = Zero => Len(Decimal[n]) = 1
    BY <1>4
<1> QED
    BY <1>4, <1>5, DigitSeqsAreByteSeqs

\* A message is its payload and its command.
LEMMA MessageFacts ==
    ASSUME NEW m \in Messages
    PROVE  m.payload \in Seq(Nat) /\ m.cmd \in Nat /\ m = [payload |-> m.payload, cmd |-> m.cmd]
BY BytesAssumption

\* encode() makes bytes of a message: a header, the body whose length it says, a comma.
LEMMA EncodeType ==
    ASSUME NEW m \in Messages
    PROVE  /\ CommandPrefix(m.cmd) \in Seq(Nat) /\ LengthOf(m) \in Nat /\ encode(m) \in Seq(Nat)
           /\ Len(encode(m)) = Len(Decimal[LengthOf(m)]) + LengthOf(m) + 2
<1>1. m.payload \in Seq(Nat) /\ m.cmd \in Nat
    BY MessageFacts
<1>2. Decimal[m.cmd] \in Seq(Nat)
    BY <1>1, DecimalFacts
<1>3. CommandPrefix(m.cmd) \in Seq(Nat)
    BY <1>2 DEF CommandPrefix, Space
<1>4. LengthOf(m) \in Nat
    <2> DEFINE x == Len(m.payload)
               y == Len(CommandPrefix(m.cmd))
    <2>1. x \in Nat /\ y \in Nat
        BY <1>1, <1>3
    <2>2. LengthOf(m) = x + y
        BY DEF LengthOf
    <2> HIDE DEF x, y
    <2> QED
        BY ONLY <2>1, <2>2
<1> DEFINE d == Decimal[LengthOf(m)]
           c == CommandPrefix(m.cmd)
<1>5. d \in Seq(Nat)
    BY <1>4, DecimalFacts
<1>6. <<Colon>> \in Seq(Nat) /\ <<Comma>> \in Seq(Nat) /\ Len(<<Colon>>) = 1 /\ Len(<<Comma>>) = 1
    BY DEF Colon, Comma
<1>7. LengthOf(m) = Len(m.payload) + Len(c)
    BY DEF LengthOf
<1>8. encode(m) = (((d \o <<Colon>>) \o c) \o m.payload) \o <<Comma>>
    BY DEF encode
<1> HIDE DEF d, c
<1>9. d \o <<Colon>> \in Seq(Nat) /\ Len(d \o <<Colon>>) = Len(d) + 1 /\ Len(d) \in Nat
    BY <1>5, <1>6, ConcatFacts
<1>10. /\ (d \o <<Colon>>) \o c \in Seq(Nat) /\ Len((d \o <<Colon>>) \o c) = Len(d) + 1 + Len(c)
       /\ Len(c) \in Nat
    BY <1>3, <1>9, ConcatFacts DEF c
<1>11. /\ ((d \o <<Colon>>) \o c) \o m.payload \in Seq(Nat)
       /\ Len(((d \o <<Colon>>) \o c) \o m.payload) = Len(d) + 1 + Len(c) + Len(m.payload)
       /\ Len(m.payload) \in Nat
    BY <1>1, <1>10, ConcatFacts
<1>12. /\ encode(m) \in Seq(Nat)
       /\ Len(encode(m)) = Len(d) + 1 + Len(c) + Len(m.payload) + 1
    BY <1>6, <1>8, <1>11, ConcatFacts
<1>13. Len(encode(m)) = Len(d) + LengthOf(m) + 2
    <2> DEFINE x == Len(m.payload)
               y == Len(c)
               z == Len(d)
    <2>1. x \in Nat /\ y \in Nat /\ z \in Nat
        BY <1>9, <1>10, <1>11
    <2>2. LengthOf(m) = x + y /\ Len(encode(m)) = z + 1 + y + x + 1
        BY Zenon, <1>7, <1>12
    <2> HIDE DEF x, y, z
    <2>3. Len(encode(m)) = z + LengthOf(m) + 2
        BY ONLY <2>1, <2>2
    <2> QED
        BY <2>3 DEF z
<1> QED
    BY <1>3, <1>4, <1>12, <1>13 DEF c, d

-----------------------------------------------------------------------------
(* Types.                                                                  *)

DataOK ==
    /\ pending \in Seq(Nat) /\ delivered \in Seq(Nat)
    /\ sent \in Seq(Messages)
    /\ unread \in Seq(Nat) /\ Len(unread) <= BufferSize
    /\ valid \in 0..BufferSize
    /\ decoded \in Seq(Frames)
    /\ failed \in BOOLEAN

\* What write() leaves of the unread bytes and a chunk.
LEMMA AfterWriteType ==
    ASSUME NEW u \in Seq(Nat), Len(u) <= BufferSize, NEW v \in 0..BufferSize,
           NEW chunk \in Seq(Nat)
    PROVE  LET w == AfterWrite(u, v, chunk)
           IN  w.unread \in Seq(Nat) /\ Len(w.unread) <= BufferSize /\ w.valid \in 0..BufferSize
<1> DEFINE n == Len(u)
           k == Len(chunk)
           o == Overflow(u, chunk)
           s == u \o chunk
<1>1. BufferSize \in Nat /\ n \in Nat /\ k \in Nat /\ n <= BufferSize
    BY SizesAssumption
<1>2. CASE k > BufferSize
    <2>1. AfterWrite(u, v, chunk) = [unread |-> u, valid |-> v]
        BY <1>2 DEF AfterWrite
    <2> QED
        BY <2>1
<1>3. CASE ~(k > BufferSize)
    <2>1. /\ o \in 0..BufferSize /\ n + k - o <= BufferSize
          /\ o <= n + k
        BY <1>1, <1>3 DEF Overflow
    <2>2. s \in Seq(Nat) /\ Len(s) = n + k
        BY ConcatFacts
    <2> DEFINE first == o + 1
               last == n + k
    <2>3. first \in Nat \ {0} /\ last \in 0..Len(s) /\ last - first + 1 <= BufferSize
        BY <1>1, <2>1, <2>2
    <2>4. Advance(v, o) \in 0..BufferSize
        BY <1>1, <2>1 DEF Advance
    <2>5. AfterWrite(u, v, chunk) = [unread |-> SubSeq(s, first, last), valid |-> Advance(v, o)]
        BY <1>3 DEF AfterWrite
    <2> HIDE DEF s, first, last
    <2>6. /\ SubSeq(s, first, last) \in Seq(Nat)
          /\ Len(SubSeq(s, first, last)) = IF first <= last THEN last - first + 1 ELSE 0
        BY <2>2, <2>3, PartFacts
    <2>7. Len(SubSeq(s, first, last)) <= BufferSize
        BY <1>1, <2>3, <2>6
    <2> QED
        BY <2>4, <2>5, <2>6, <2>7
<1> QED
    BY <1>2, <1>3

\* What a read takes from the stream, and what it leaves there.
LEMMA ChunkFacts ==
    ASSUME DataOK, NEW n \in 1..MaxChunk, n <= Len(pending)
    PROVE  /\ SubSeq(pending, 1, n) \in Seq(Nat) /\ Len(SubSeq(pending, 1, n)) = n
           /\ SubSeq(pending, n + 1, Len(pending)) \in Seq(Nat)
           /\ pending = SubSeq(pending, 1, n) \o SubSeq(pending, n + 1, Len(pending))
<1>1. pending \in Seq(Nat) /\ Len(pending) \in Nat /\ n \in Nat /\ n \in 0..Len(pending)
    BY SizesAssumption DEF DataOK
<1>2. n + 1 \in Nat \ {0} /\ Len(pending) \in 0..Len(pending) /\ 1 \in Nat \ {0}
    BY <1>1
<1>3. SubSeq(pending, 1, n) \in Seq(Nat) /\ Len(SubSeq(pending, 1, n)) = n
    BY <1>1, <1>2, PartFacts
<1>4. SubSeq(pending, n + 1, Len(pending)) \in Seq(Nat)
    BY <1>1, <1>2, PartFacts
<1> QED
    BY <1>1, <1>3, <1>4, Cut

\* What decode() is given by a read, and the state it leaves.
Given(n) ==
    LET w == AfterWrite(unread, valid, SubSeq(pending, 1, n))
    IN  [unread |-> w.unread, valid |-> w.valid, decoded |-> decoded, failed |-> FALSE]

\* A read does to the buffer what decode() does to what it is given.
LEMMA ReadFacts ==
    ASSUME DataOK, NEW n \in 1..MaxChunk, Read(n)
    PROVE  /\ ~failed /\ n <= Len(pending) /\ Given(n) \in State
           /\ Len(Given(n).unread) <= BufferSize /\ Given(n).valid <= BufferSize
           /\ Decode[Given(n)] \in State
           /\ unread' = Decode[Given(n)].unread /\ valid' = Decode[Given(n)].valid
           /\ decoded' = Decode[Given(n)].decoded /\ failed' = Decode[Given(n)].failed
           /\ delivered' = delivered \o SubSeq(pending, 1, n)
           /\ pending' = SubSeq(pending, n + 1, Len(pending))
           /\ sent' = sent
<1> DEFINE w == AfterWrite(unread, valid, SubSeq(pending, 1, n))
<1>1. n <= Len(pending) /\ ~failed
    BY DEF Read
<1>2. SubSeq(pending, 1, n) \in Seq(Nat)
    BY <1>1, ChunkFacts
<1>3. w.unread \in Seq(Nat) /\ Len(w.unread) <= BufferSize /\ w.valid \in 0..BufferSize
    BY <1>2, AfterWriteType DEF DataOK
<1>4. Given(n) = [unread |-> w.unread, valid |-> w.valid, decoded |-> decoded, failed |-> FALSE]
    BY DEF Given
<1> HIDE DEF w
<1>5. Given(n) \in State
    <2>1. decoded \in Seq(Frames) /\ w.valid \in Nat
        BY <1>3, SizesAssumption DEF DataOK
    <2> QED
        BY <1>3, <1>4, <2>1 DEF State, Frames
<1>6. Len(Given(n).unread) <= BufferSize /\ Given(n).valid <= BufferSize
    BY <1>3, <1>4, SizesAssumption
<1>7. Decode[Given(n)] \in State
    BY <1>5, DecodeType
<1>8. decode(unread, valid, decoded, SubSeq(pending, 1, n)) = Decode[Given(n)]
    BY DEF decode, Given
<1>9. /\ unread' = Decode[Given(n)].unread /\ valid' = Decode[Given(n)].valid
      /\ decoded' = Decode[Given(n)].decoded /\ failed' = Decode[Given(n)].failed
    BY Zenon, <1>8 DEF Read
<1> QED
    BY <1>1, <1>5, <1>6, <1>7, <1>9 DEF Read

\* The types hold in the beginning,
LEMMA DataInit == Init => DataOK
<1> SUFFICES ASSUME Init PROVE DataOK
    OBVIOUS
<1>1. 0 \in 0..BufferSize /\ Len(<<>>) <= BufferSize
    BY SizesAssumption
<1>2. <<>> \in Seq(Nat) /\ <<>> \in Seq(Messages) /\ <<>> \in Seq(Frames)
    OBVIOUS
<1>3. failed \in BOOLEAN
    BY DEF Init
<1> QED
    BY Zenon, <1>1, <1>2, <1>3 DEF Init, DataOK

\* after every step,
LEMMA DataNext ==
    ASSUME DataOK, [Next]_vars
    PROVE  DataOK'
<1>1. ASSUME NEW m \in Messages, SendMessage(m) PROVE DataOK'
    <2>1. encode(m) \in Seq(Nat)
        BY EncodeType
    <2> QED
        BY <1>1, <2>1 DEF SendMessage, DataOK
<1>2. ASSUME NEW bytes \in RawChunks, SendRaw(bytes) PROVE DataOK'
    <2>1. bytes \in Seq(Nat)
        BY BytesAssumption
    <2> QED
        BY <1>2, <2>1 DEF SendRaw, DataOK
<1>3. ASSUME NEW n \in 1..MaxChunk, Read(n) PROVE DataOK'
    <2> DEFINE r == Decode[Given(n)]
    <2>1. /\ Given(n) \in State /\ r \in State /\ n <= Len(pending)
          /\ Len(Given(n).unread) <= BufferSize /\ Given(n).valid <= BufferSize
          /\ unread' = r.unread /\ valid' = r.valid /\ decoded' = r.decoded /\ failed' = r.failed
          /\ delivered' = delivered \o SubSeq(pending, 1, n)
          /\ pending' = SubSeq(pending, n + 1, Len(pending)) /\ sent' = sent
        BY <1>3, ReadFacts
    <2>2. Len(r.unread) <= BufferSize /\ r.valid <= BufferSize
        BY <2>1, DecodeType
    <2>3. delivered' \in Seq(Nat) /\ pending' \in Seq(Nat)
        BY <2>1, ChunkFacts, ConcatFacts DEF DataOK
    <2> HIDE DEF r
    <2>4. /\ r.unread \in Seq(Nat) /\ r.valid \in Nat /\ r.decoded \in Seq(Frames)
          /\ r.failed \in BOOLEAN
        BY <2>1 DEF State, Frames
    <2> QED
        BY SMTT(30), <2>1, <2>2, <2>3, <2>4, SizesAssumption DEF DataOK
<1>4. CASE UNCHANGED vars
    BY <1>4 DEF vars, DataOK
<1> QED
    BY <1>1, <1>2, <1>3, <1>4 DEF Next

\* and always.
LEMMA DataInvariant == Spec => []DataOK
<1> QED
    BY DataInit, DataNext, PTL DEF Spec

(* Whatever a peer writes and however it is cut, the unread bytes fit the   *)
(* buffer and the pointer stays in it, although a frame's length is the     *)
(* peer's: nothing is taken before the whole frame has arrived.             *)
THEOREM TypeCorrect == Spec => []TypeOK
<1>1. DataOK => TypeOK
    BY DEF DataOK, TypeOK
<1> QED
    BY <1>1, DataInvariant, PTL

-----------------------------------------------------------------------------
(* More bytes after those that are there.                                  *)

\* A part of a sequence is that of every longer one.
LEMMA PartOfConcat ==
    ASSUME NEW S, NEW a \in Seq(S), NEW c \in Seq(S), NEW m \in Nat \ {0}, NEW n \in 0..Len(a)
    PROVE  SubSeq(a \o c, m, n) = SubSeq(a, m, n)
<1> DEFINE s == SubSeq(a \o c, m, n)
           t == SubSeq(a, m, n)
<1>1. /\ a \o c \in Seq(S) /\ Len(a) \in Nat /\ n \in Nat /\ n \in 0..Len(a \o c)
      /\ \A i \in 1..Len(a) : (a \o c)[i] = a[i]
    BY ConcatFacts
<1>2. /\ s \in Seq(S) /\ Len(s) = IF m <= n THEN n - m + 1 ELSE 0
      /\ \A i \in 1..(n - m + 1) : s[i] = (a \o c)[m + i - 1]
    <2> HIDE DEF s
    <2> QED
        BY <1>1, PartFacts DEF s
<1>3. /\ t \in Seq(S) /\ Len(t) = IF m <= n THEN n - m + 1 ELSE 0
      /\ \A i \in 1..(n - m + 1) : t[i] = a[m + i - 1]
    <2> HIDE DEF t
    <2> QED
        BY <1>1, PartFacts DEF t
<1> HIDE DEF s, t
<1>4. ASSUME NEW i \in 1..Len(s) PROVE s[i] = t[i]
    <2>1. i \in 1..(n - m + 1)
        BY <1>1, <1>2
    <2>2. m + i - 1 \in 1..Len(a)
        BY <1>1, <2>1
    <2>3. (a \o c)[m + i - 1] = a[m + i - 1]
        BY <1>1, <2>2
    <2> QED
        BY <1>2, <1>3, <2>1, <2>3
<1>5. s = t
    BY <1>2, <1>3, <1>4, SameSeq
<1> QED
    BY <1>5 DEF s, t

\* What comes after n elements, with more behind it.
LEMMA RestOfConcat ==
    ASSUME NEW S, NEW a \in Seq(S), NEW c \in Seq(S), NEW n \in 0..Len(a)
    PROVE  SubSeq(a \o c, n + 1, Len(a \o c)) = SubSeq(a, n + 1, Len(a)) \o c
<1> DEFINE p == SubSeq(a, 1, n)
           r == SubSeq(a, n + 1, Len(a))
<1>1. n \in Nat /\ Len(a) \in Nat /\ 1 \in Nat \ {0} /\ n + 1 \in Nat \ {0}
      /\ Len(a) \in 0..Len(a)
    OBVIOUS
<1>2. p \in Seq(S) /\ Len(p) = n
    BY <1>1, PartFacts
<1>3. r \in Seq(S)
    BY <1>1, PartFacts
<1>4. p \o r = a
    BY Cut
<1> HIDE DEF p, r
<1>5. a \o c = p \o (r \o c) /\ r \o c \in Seq(S)
    <2>1. (p \o r) \o c = p \o (r \o c)
        BY SMTT(30), <1>2, <1>3, ConcatAssociates
    <2>2. r \o c \in Seq(S)
        BY <1>3, ConcatFacts
    <2> QED
        BY Zenon, <1>4, <2>1, <2>2
<1>6. SubSeq(p \o (r \o c), Len(p) + 1, Len(p \o (r \o c))) = r \o c
    BY <1>2, <1>5, Beginning
<1> QED
    BY <1>2, <1>5, <1>6 DEF r

\* Digits that have ended stay as many; digits at the end may become more.
LEMMA DigitsOfConcat ==
    ASSUME NEW b \in Seq(Nat), NEW c \in Seq(Nat)
    PROVE  /\ Digits(b) <= Digits(b \o c)
           /\ Digits(b) < Len(b) => Digits(b \o c) = Digits(b) /\ Number(b \o c) = Number(b)
<1> DEFINE s == b \o c
           n == Digits(b)
           k == Digits(s)
<1>1. /\ s \in Seq(Nat) /\ Len(s) = Len(b) + Len(c) /\ Len(b) \in Nat /\ Len(c) \in Nat
      /\ \A i \in 1..Len(b) : s[i] = b[i]
    BY ConcatFacts
<1> HIDE DEF s
<1>2. /\ n \in 0..Len(b) /\ \A i \in 1..n : IsDigit(b[i])
      /\ n < Len(b) => ~IsDigit(b[n + 1])
    BY DigitsFacts
<1>3. /\ k \in 0..Len(s) /\ \A i \in 1..k : IsDigit(s[i])
      /\ k < Len(s) => ~IsDigit(s[k + 1])
    BY <1>1, DigitsFacts
<1>4. n <= k
    <2> SUFFICES ASSUME k < n PROVE FALSE
        BY <1>1, <1>2, <1>3
    <2>1. k + 1 \in 1..n /\ k + 1 \in 1..Len(b) /\ k < Len(s)
        BY <1>1, <1>2, <1>3
    <2> HIDE DEF n, k
    <2> QED
        BY <1>1, <1>2, <1>3, <2>1
<1>5. ASSUME n < Len(b) PROVE k = n
    <2>1. n \in 0..Len(s) /\ n < Len(s) /\ n + 1 \in 1..Len(b)
        BY <1>1, <1>2, <1>5
    <2>2. ASSUME NEW i \in 1..n PROVE IsDigit(s[i])
        <3>1. i \in 1..Len(b)
            BY <1>1, <1>2
        <3> QED
            BY <1>1, <1>2, <3>1
    <2>3. ~IsDigit(s[n + 1])
        BY <1>1, <1>2, <1>5, <2>1
    <2> HIDE DEF n
    <2>4. Digits(s) = n
        BY <1>1, <2>1, <2>2, <2>3, DigitsAre
    <2> QED
        BY <2>4
<1>6. ASSUME n < Len(b) PROVE Number(s) = Number(b)
    <2>1. SubSeq(s, 1, n) = SubSeq(b, 1, n)
        <3>1. 1 \in Nat \ {0}
            OBVIOUS
        <3> HIDE DEF n
        <3>2. SubSeq(b \o c, 1, n) = SubSeq(b, 1, n)
            BY <1>2, <3>1, PartOfConcat
        <3> QED
            BY <3>2 DEF s
    <2>2. SubSeq(s, 1, Digits(s)) = SubSeq(b, 1, Digits(b))
        BY <1>5, <1>6, <2>1
    <2> QED
        BY <2>2 DEF Number
<1> QED
    BY <1>4, <1>5, <1>6 DEF s

\* The header of longer bytes.
LEMMA HeaderOfConcat ==
    ASSUME NEW b \in Seq(Nat), NEW c \in Seq(Nat), Len(b) >= 3
    PROVE  /\ BadHeader(b) => BadHeader(b \o c)
           /\ BadHeader(b \o c) /\ Digits(b) < Len(b) => BadHeader(b)
<1> DEFINE s == b \o c
<1>1. /\ s \in Seq(Nat) /\ Len(s) = Len(b) + Len(c) /\ Len(b) \in Nat /\ Len(c) \in Nat
      /\ \A i \in 1..Len(b) : s[i] = b[i]
    BY ConcatFacts
<1>2. s[1] = b[1] /\ s[2] = b[2]
    BY <1>1
<1>3. /\ Digits(b) \in 0..Len(b) /\ Digits(s) \in 0..Len(s)
      /\ Digits(b) <= Digits(s) /\ (Digits(b) < Len(b) => Digits(s) = Digits(b))
    BY <1>1, DigitsFacts, DigitsOfConcat
<1> HIDE DEF s
<1>4. TooManyDigits(b) => TooManyDigits(s)
    BY <1>1, <1>3 DEF TooManyDigits
<1>5. ASSUME Digits(b) < Len(b)
      PROVE  /\ Digits(s) < Len(s) /\ s[Digits(s) + 1] = b[Digits(b) + 1]
             /\ TooManyDigits(s) => TooManyDigits(b)
    <2>1. Digits(b) + 1 \in 1..Len(b) /\ Digits(s) = Digits(b)
        BY <1>1, <1>3, <1>5
    <2> QED
        BY <1>1, <1>3, <1>5, <2>1 DEF TooManyDigits
<1>6. BadHeader(b) => BadHeader(s)
    BY Zenon, <1>2, <1>4, <1>5 DEF BadHeader
<1>7. BadHeader(s) /\ Digits(b) < Len(b) => BadHeader(b)
    BY Zenon, <1>2, <1>5 DEF BadHeader
<1> QED
    BY <1>6, <1>7 DEF s

\* A frame that has arrived is the same frame in longer bytes.
LEMMA BodyOfConcat ==
    ASSUME NEW b \in Seq(Nat), NEW c \in Seq(Nat), Digits(b) < Len(b), Arrived(b)
    PROVE  /\ b \o c \in Seq(Nat) /\ Digits(b \o c) < Len(b \o c) /\ Arrived(b \o c)
           /\ Digits(b \o c) = Digits(b) /\ Number(b \o c) = Number(b)
           /\ FrameLength(b \o c) = FrameLength(b)
           /\ Body(b \o c) = Body(b) \o c
<1> DEFINE s == b \o c
           n == Digits(b)
<1>1. s \in Seq(Nat) /\ Len(s) = Len(b) + Len(c) /\ Len(b) \in Nat /\ Len(c) \in Nat
    BY ConcatFacts
<1>2. Digits(s) = n /\ Number(s) = Number(b) /\ n \in Nat /\ Number(b) \in Nat
    BY DigitsOfConcat, FrameFacts
<1>3. FrameLength(s) = FrameLength(b)
    BY <1>2 DEF FrameLength
<1>4. Body(s) = Body(b) \o c
    <2>1. n + 1 \in 0..Len(b)
        BY <1>1, <1>2
    <2> DEFINE k == n + 1
    <2> HIDE DEF k
    <2>2. SubSeq(b \o c, k + 1, Len(b \o c)) = SubSeq(b, k + 1, Len(b)) \o c
        BY <2>1, RestOfConcat DEF k
    <2>3. k + 1 = n + 2
        BY <1>2 DEF k
    <2> QED
        BY Zenon, <1>2, <2>2, <2>3 DEF Body
<1>5. Arrived(s)
    <2>1. Body(b) \in Seq(Nat) /\ Number(b) + 1 <= Len(Body(b))
        BY FrameFacts
    <2>2. Len(Body(s)) = Len(Body(b)) + Len(c) /\ Len(Body(b)) \in Nat
        BY <1>4, <2>1, ConcatFacts
    <2>3. Number(s) + 1 <= Len(Body(s))
        BY <1>1, <1>2, <2>1, <2>2
    <2> QED
        BY <2>3 DEF Arrived
<1>6. Digits(s) < Len(s)
    BY <1>1, <1>2
<1> QED
    BY <1>1, <1>2, <1>3, <1>4, <1>5, <1>6

\* More bytes change neither the verdict on a frame that is there nor what it contains.
LEMMA FrameOfConcat ==
    ASSUME NEW b \in Seq(Nat), NEW c \in Seq(Nat), Digits(b) < Len(b), Arrived(b)
    PROVE  /\ BadBody(b \o c) <=> BadBody(b)
           /\ ~BadBody(b) =>
                  \A p, q : /\ Frame(q, b \o c).payload = Frame(p, b).payload
                            /\ Frame(q, b \o c).cmd = Frame(p, b).cmd
<1> DEFINE s == b \o c
           body == Body(b)
           long == Body(s)
           n == Number(b)
<1>1. s \in Seq(Nat) /\ Number(s) = n /\ long = body \o c
    BY BodyOfConcat
<1>2. body \in Seq(Nat) /\ n \in Nat /\ n + 1 <= Len(body) /\ Len(body) \in Nat
    BY FrameFacts
<1> HIDE DEF s, body, long, n
<1>3. /\ long \in Seq(Nat) /\ Len(long) = Len(body) + Len(c) /\ Len(c) \in Nat
      /\ \A i \in 1..Len(body) : long[i] = body[i]
    BY <1>1, <1>2, ConcatFacts
<1>4. long[n + 1] = body[n + 1]
    BY <1>2, <1>3
<1>5. /\ Digits(body) \in 0..Len(body) /\ \A i \in 1..Digits(body) : IsDigit(body[i])
      /\ Digits(body) <= Digits(long)
      /\ Digits(body) < Len(body) => Digits(long) = Digits(body) /\ Number(long) = Number(body)
    BY <1>1, <1>2, DigitsFacts, DigitsOfConcat
<1>6. BadBody(b) <=> \/ EnableCommand /\ ~(Digits(body) < Len(body)
                                           /\ body[Digits(body) + 1] = Space)
                     \/ body[n + 1] # Comma
    BY DEF BadBody, body, n
<1>7. BadBody(s) <=> \/ EnableCommand /\ ~(Digits(long) < Len(long)
                                           /\ long[Digits(long) + 1] = Space)
                     \/ long[n + 1] # Comma
    BY <1>1 DEF BadBody, long
<1>8. CASE Digits(body) < Len(body)
    <2>1. Digits(body) + 1 \in 1..Len(body) /\ Digits(long) < Len(long)
        BY SMTT(30), <1>2, <1>3, <1>5, <1>8
    <2>2. long[Digits(long) + 1] = body[Digits(body) + 1]
        BY <1>3, <1>5, <1>8, <2>1
    <2>3. BadBody(s) <=> BadBody(b)
        BY Zenon, <1>4, <1>6, <1>7, <1>8, <2>1, <2>2
    <2>4. ASSUME NEW p, NEW q
          PROVE  Frame(q, s).payload = Frame(p, b).payload /\ Frame(q, s).cmd = Frame(p, b).cmd
        <3>1. PrefixLength(s) = PrefixLength(b) /\ PrefixLength(b) \in Nat
            <4>1. Digits(long) = Digits(body) /\ Digits(body) \in Nat
                BY <1>2, <1>5, <1>8
            <4> QED
                BY <4>1 DEF PrefixLength, long, body
        <3>2. SubSeq(long, PrefixLength(b) + 1, n) = SubSeq(body, PrefixLength(b) + 1, n)
            <4> DEFINE k == PrefixLength(b) + 1
            <4>1. k \in Nat \ {0} /\ n \in 0..Len(body)
                BY <1>2, <3>1
            <4> HIDE DEF k
            <4>2. SubSeq(long, k, n) = SubSeq(body, k, n)
                BY <1>1, <1>2, <4>1, PartOfConcat
            <4> QED
                BY <4>2 DEF k
        <3>3. /\ Frame(q, s).payload = SubSeq(long, PrefixLength(s) + 1, Number(s))
              /\ Frame(p, b).payload = SubSeq(body, PrefixLength(b) + 1, n)
              /\ Frame(q, s).cmd = (IF EnableCommand THEN Number(long) ELSE 0)
              /\ Frame(p, b).cmd = (IF EnableCommand THEN Number(body) ELSE 0)
            BY DEF Frame, long, body, n
        <3> QED
            BY Zenon, <1>1, <1>5, <1>8, <3>1, <3>2, <3>3
    <2> QED
        BY <2>3, <2>4 DEF s
<1>9. CASE ~(Digits(body) < Len(body))
    <2>1. n + 1 \in 1..Digits(body)
        BY <1>2, <1>5, <1>9
    <2>2. IsDigit(body[n + 1]) /\ body[n + 1] # Comma
        BY SMTT(30), <1>5, <2>1 DEF IsDigit, Digit, Zero, Comma
    <2>3. BadBody(b) /\ BadBody(s)
        BY <1>4, <1>6, <1>7, <2>2
    <2> QED
        BY <2>3 DEF s
<1> QED
    BY <1>8, <1>9

\* More bytes change neither what is found in those that are there, nor an error.
LEMMA ConcatKeeps ==
    ASSUME NEW b \in Seq(Nat), NEW c \in Seq(Nat)
    PROVE  /\ Throws(b) => Throws(b \o c)
           /\ Takes(b) => Takes(b \o c)
<1>1. Len(b \o c) = Len(b) + Len(c) /\ Len(b) \in Nat /\ Len(c) \in Nat
    BY ConcatFacts
<1>2. Len(b) >= 3 => Len(b \o c) >= 3
    BY <1>1
<1>3. CASE Digits(b) < Len(b) /\ Arrived(b)
    <2>1. /\ Digits(b \o c) < Len(b \o c) /\ Arrived(b \o c)
          /\ BadBody(b \o c) <=> BadBody(b)
        BY <1>3, BodyOfConcat, FrameOfConcat
    <2>2. Len(b) >= 3 => (BadHeader(b) => BadHeader(b \o c))
        BY HeaderOfConcat
    <2>3. Len(b) >= 3 => (BadHeader(b \o c) => BadHeader(b))
        BY <1>3, HeaderOfConcat
    <2> QED
        BY Zenon, <1>2, <1>3, <2>1, <2>2, <2>3 DEF Throws, Takes
<1>4. CASE ~(Digits(b) < Len(b) /\ Arrived(b))
    <2>1. Len(b) >= 3 => (BadHeader(b) => BadHeader(b \o c))
        BY HeaderOfConcat
    <2> QED
        BY Zenon, <1>2, <1>4, <2>1 DEF Throws, Takes
<1> QED
    BY <1>3, <1>4

-----------------------------------------------------------------------------
(* Chunks.                                                                 *)

\* One more message, found twice, beside raw forms that may differ.
LEMMA PlainOfAppend ==
    ASSUME NEW d \in Seq(Frames), NEW e \in Seq(Frames), Plain(d) = Plain(e),
           NEW f \in Frames, NEW g \in Frames, f.payload = g.payload, f.cmd = g.cmd
    PROVE  Plain(Append(d, f)) = Plain(Append(e, g))
<1>1. /\ Len(d) \in Nat /\ DOMAIN d = 1..Len(d) /\ Len(e) \in Nat /\ DOMAIN e = 1..Len(e)
      /\ DOMAIN Plain(d) = DOMAIN d /\ DOMAIN Plain(e) = DOMAIN e
    BY SMTT(30) DEF Plain
<1>2. DOMAIN d = DOMAIN e
    BY <1>1
<1>3. Len(d) = Len(e)
    <2> DEFINE n == Len(d)
               k == Len(e)
    <2>1. n \in Nat /\ k \in Nat /\ 1..n = 1..k
        BY <1>1, <1>2
    <2> HIDE DEF n, k
    <2>2. n \in 1..n \/ n = 0
        BY <2>1
    <2>3. k \in 1..k \/ k = 0
        BY <2>1
    <2>4. (n \in 1..n => n <= k) /\ (k \in 1..k => k <= n)
        BY <2>1
    <2> QED
        BY SMTT(30), <2>1, <2>2, <2>3, <2>4 DEF n, k
<1> DEFINE x == Append(d, f)
           y == Append(e, g)
<1>4. /\ DOMAIN x = 1..(Len(d) + 1) /\ \A i \in 1..Len(d) : x[i] = d[i] /\ x[Len(d) + 1] = f
    BY <1>1
<1>5. /\ DOMAIN y = 1..(Len(e) + 1) /\ \A i \in 1..Len(e) : y[i] = e[i] /\ y[Len(e) + 1] = g
    BY <1>1
<1>6. x[Len(d) + 1] = f /\ y[Len(e) + 1] = g
    OBVIOUS
<1> HIDE DEF x, y
<1>7. ASSUME NEW i \in 1..(Len(d) + 1)
      PROVE  x[i].payload = y[i].payload /\ x[i].cmd = y[i].cmd
    <2>1. CASE i = Len(d) + 1
        BY <1>3, <1>6, <2>1
    <2>2. CASE i # Len(d) + 1
        <3>1. i \in 1..Len(d)
            BY SMTT(30), <1>1, <2>2
        <3>2. Plain(d)[i] = [payload |-> d[i].payload, cmd |-> d[i].cmd]
            BY ZenonT(60), <1>1, <3>1 DEF Plain
        <3>3. Plain(e)[i] = [payload |-> e[i].payload, cmd |-> e[i].cmd]
            BY <1>1, <1>2, <3>1 DEF Plain
        <3>4. d[i].payload = e[i].payload /\ d[i].cmd = e[i].cmd
            BY <3>2, <3>3
        <3> QED
            BY <1>3, <1>4, <1>5, <3>1, <3>4
    <2> QED
        BY <2>1, <2>2
<1>8. DOMAIN x = 1..(Len(d) + 1) /\ DOMAIN y = 1..(Len(d) + 1)
    BY <1>3, <1>4, <1>5
<1>9. Plain(x) = Plain(y)
    BY <1>7, <1>8 DEF Plain
<1> QED
    BY <1>9 DEF x, y

\* A decoder tt has found what st has, and has the bytes c more to read.
Longer(st, c, tt) ==
    /\ tt.unread = st.unread \o c
    /\ Plain(tt.decoded) = Plain(st.decoded)
    /\ ~st.failed /\ ~tt.failed

\* A decoder with more to read takes the message that the other one takes.
LEMMA TakenLonger ==
    ASSUME NEW st \in State, NEW c \in Seq(Nat), NEW tt \in State, Longer(st, c, tt),
           Takes(st.unread)
    PROVE  Takes(tt.unread) /\ Longer(Taken(st), c, Taken(tt))
<1> DEFINE b == st.unread
           s == tt.unread
<1>1. /\ b \in Seq(Nat) /\ s \in Seq(Nat) /\ st.valid \in Nat /\ tt.valid \in Nat
      /\ st.decoded \in Seq(Frames) /\ tt.decoded \in Seq(Frames)
    BY DEF State, Frames
<1>2. s = b \o c
    BY DEF Longer
<1>3. Takes(s)
    BY <1>1, <1>2, ConcatKeeps
<1>4. Digits(b) < Len(b) /\ Arrived(b) /\ ~BadBody(b)
    BY DEF Takes
<1>5. /\ Digits(s) < Len(s) /\ Arrived(s) /\ FrameLength(s) = FrameLength(b)
    BY <1>1, <1>2, <1>4, BodyOfConcat
<1>6. /\ Frame(tt.valid, s).payload = Frame(st.valid, b).payload
      /\ Frame(tt.valid, s).cmd = Frame(st.valid, b).cmd
    BY <1>1, <1>2, <1>4, FrameOfConcat
<1>7. Frame(tt.valid, s) \in Frames /\ Frame(st.valid, b) \in Frames
    BY <1>1, <1>4, <1>5, FrameType
<1>8. Plain(Append(tt.decoded, Frame(tt.valid, s))) = Plain(Append(st.decoded, Frame(st.valid, b)))
    <2>1. Plain(tt.decoded) = Plain(st.decoded)
        BY DEF Longer
    <2> HIDE DEF b, s
    <2> QED
        BY <1>1, <1>6, <1>7, <2>1, PlainOfAppend
<1>9. SubSeq(s, FrameLength(s) + 1, Len(s)) = SubSeq(b, FrameLength(b) + 1, Len(b)) \o c
    <2> DEFINE n == FrameLength(b)
    <2>1. n \in 0..Len(b)
        <3>1. n \in 2..Len(b) /\ Len(b) \in Nat
            BY <1>1, <1>4, FrameFacts
        <3> QED
            BY <3>1
    <2> HIDE DEF n, b, s
    <2>2. SubSeq(b \o c, n + 1, Len(b \o c)) = SubSeq(b, n + 1, Len(b)) \o c
        BY <1>1, <2>1, RestOfConcat
    <2> QED
        BY Zenon, <1>2, <1>5, <2>2 DEF n
<1>10. /\ Taken(tt).unread = SubSeq(s, FrameLength(s) + 1, Len(s))
       /\ Taken(st).unread = SubSeq(b, FrameLength(b) + 1, Len(b))
       /\ Taken(tt).decoded = Append(tt.decoded, Frame(tt.valid, s))
       /\ Taken(st).decoded = Append(st.decoded, Frame(st.valid, b))
       /\ Taken(tt).failed = tt.failed /\ Taken(st).failed = st.failed
    BY <1>3, TakenType
<1>11. ~st.failed /\ ~tt.failed
    BY DEF Longer
<1> HIDE DEF b, s
<1>12. Longer(Taken(st), c, Taken(tt))
    BY Zenon, <1>8, <1>9, <1>10, <1>11 DEF Longer
<1> QED
    BY <1>3, <1>12 DEF s

\* One step of decode().
LEMMA DecodeCases ==
    ASSUME NEW st \in State
    PROVE  /\ Takes(st.unread) => Decode[st] = Decode[Taken(st)]
           /\ Throws(st.unread) =>
                  Decode[st].failed /\ Decode[st].decoded = st.decoded
           /\ ~Throws(st.unread) /\ ~Takes(st.unread) =>
                  /\ Decode[st].unread = st.unread /\ Decode[st].decoded = st.decoded
                  /\ Decode[st].failed = st.failed
<1>1. Takes(st.unread) => Decode[st] = Decode[Taken(st)]
    BY Zenon, DecodeUnfolds, StepCases
<1>2. Throws(st.unread) => Decode[st] = Thrown(st)
    BY Zenon, DecodeUnfolds, StepCases
<1>3. ~Throws(st.unread) /\ ~Takes(st.unread) => Decode[st] = st \/ Decode[st] = Waiting(st)
    BY Zenon, DecodeUnfolds, StepCases
<1> QED
    BY Zenon, <1>1, <1>2, <1>3, StepType

\* What becomes of a decoder with c more to read than st: it throws when st does, and
\* else it goes on where st waits, with c.
GoesOn(st, c, tt) ==
    IF Decode[st].failed
    THEN Decode[tt].failed /\ Plain(Decode[tt].decoded) = Plain(Decode[st].decoded)
    ELSE \E x \in State : Longer(Decode[st], c, x) /\ Decode[tt] = Decode[x]

\* A decoder with more to read goes on where the one with less waits.
LEMMA LongerGoesOn ==
    ASSUME NEW st \in State, NEW c \in Seq(Nat), NEW tt \in State, Longer(st, c, tt)
    PROVE  GoesOn(st, c, tt)
<1> DEFINE P == {s \in State : \A t \in State : Longer(s, c, t) => GoesOn(s, c, t)}
           rank == [s \in State |-> Len(s.unread)]
<1>1. rank \in [State -> Nat]
    BY DEF State
<1>2. ASSUME NEW s \in State, \A t \in State : rank[t] < rank[s] => t \in P
      PROVE  s \in P
    <2> SUFFICES ASSUME NEW t \in State, Longer(s, c, t) PROVE GoesOn(s, c, t)
        OBVIOUS
    <2>1. CASE Takes(s.unread)
        <3>1. Taken(s) \in State /\ Len(Taken(s).unread) < Len(s.unread)
            BY <2>1, TakenType
        <3>2. Takes(t.unread) /\ Longer(Taken(s), c, Taken(t))
            BY <2>1, TakenLonger
        <3>3. Taken(t) \in State
            BY <3>2, TakenType
        <3>4. Taken(s) \in P
            BY <1>2, <3>1
        <3>5. GoesOn(Taken(s), c, Taken(t))
            BY <3>2, <3>3, <3>4
        <3>6. Decode[s] = Decode[Taken(s)] /\ Decode[t] = Decode[Taken(t)]
            BY <2>1, <3>2, DecodeCases
        <3> QED
            BY Zenon, <3>5, <3>6 DEF GoesOn
    <2>2. CASE Throws(s.unread)
        <3>1. Throws(t.unread)
            <4>1. s.unread \in Seq(Nat) /\ t.unread = s.unread \o c
                BY DEF State, Longer
            <4> QED
                BY <2>2, <4>1, ConcatKeeps
        <3>2. /\ Decode[s].failed /\ Decode[s].decoded = s.decoded
              /\ Decode[t].failed /\ Decode[t].decoded = t.decoded
            BY Zenon, <2>2, <3>1, DecodeCases
        <3> QED
            BY Zenon, <3>2 DEF GoesOn, Longer
    <2>3. CASE ~Takes(s.unread) /\ ~Throws(s.unread)
        <3>1. /\ Decode[s].unread = s.unread /\ Decode[s].decoded = s.decoded
              /\ Decode[s].failed = s.failed
            BY Zenon, <2>3, DecodeCases
        <3>2. Longer(Decode[s], c, t) /\ ~Decode[s].failed
            BY Zenon, <3>1 DEF Longer
        <3> QED
            BY Zenon, <3>2 DEF GoesOn
    <2> QED
        BY <2>1, <2>2, <2>3
<1> HIDE DEF P, rank
<1>3. State \subseteq P
    BY <1>1, <1>2, RankInduction
<1>4. \A t \in State : Longer(st, c, t) => GoesOn(st, c, t)
    BY <1>3 DEF P
<1> QED
    BY <1>4

\* Decoders with the same to read find the same, wherever their pointers are.
LEMMA PointersDoNotMatter ==
    ASSUME NEW st \in State, NEW tt \in State, Longer(st, <<>>, tt)
    PROVE  /\ Decode[tt].unread = Decode[st].unread \/ Decode[st].failed
           /\ Decode[tt].failed = Decode[st].failed
           /\ Plain(Decode[tt].decoded) = Plain(Decode[st].decoded)
<1> DEFINE Same(s, t) == /\ Decode[t].unread = Decode[s].unread \/ Decode[s].failed
                         /\ Decode[t].failed = Decode[s].failed
                         /\ Plain(Decode[t].decoded) = Plain(Decode[s].decoded)
           P == {s \in State : \A t \in State : Longer(s, <<>>, t) => Same(s, t)}
           rank == [s \in State |-> Len(s.unread)]
<1>1. rank \in [State -> Nat] /\ <<>> \in Seq(Nat)
    BY DEF State
<1>2. ASSUME NEW s \in State, \A t \in State : rank[t] < rank[s] => t \in P
      PROVE  s \in P
    <2> SUFFICES ASSUME NEW t \in State, Longer(s, <<>>, t) PROVE Same(s, t)
        OBVIOUS
    <2>1. t.unread = s.unread
        BY DEF Longer, State
    <2>2. CASE Takes(s.unread)
        <3>1. Taken(s) \in State /\ Len(Taken(s).unread) < Len(s.unread)
            BY <2>2, TakenType
        <3>2. Takes(t.unread) /\ Longer(Taken(s), <<>>, Taken(t))
            BY <1>1, <2>2, TakenLonger
        <3>3. Taken(t) \in State
            BY <3>2, TakenType
        <3>4. Taken(s) \in P
            BY <1>2, <3>1
        <3>5. Same(Taken(s), Taken(t))
            BY <3>2, <3>3, <3>4
        <3>6. Decode[s] = Decode[Taken(s)] /\ Decode[t] = Decode[Taken(t)]
            BY <2>2, <3>2, DecodeCases
        <3> QED
            BY Zenon, <3>5, <3>6
    <2>3. CASE Throws(s.unread)
        <3>1. /\ Decode[s].failed /\ Decode[s].decoded = s.decoded
              /\ Decode[t].failed /\ Decode[t].decoded = t.decoded
            BY Zenon, <2>1, <2>3, DecodeCases
        <3>2. Decode[s].failed \in BOOLEAN /\ Decode[t].failed \in BOOLEAN
            BY DecodeType DEF State
        <3> QED
            BY Zenon, <3>1, <3>2 DEF Longer
    <2>4. CASE ~Takes(s.unread) /\ ~Throws(s.unread)
        <3>1. /\ Decode[s].unread = s.unread /\ Decode[s].decoded = s.decoded
              /\ Decode[s].failed = s.failed
              /\ Decode[t].unread = t.unread /\ Decode[t].decoded = t.decoded
              /\ Decode[t].failed = t.failed
            BY Zenon, <2>1, <2>4, DecodeCases
        <3>2. s.failed \in BOOLEAN /\ t.failed \in BOOLEAN
            BY DEF State
        <3> QED
            BY Zenon, <2>1, <3>1, <3>2 DEF Longer
    <2> QED
        BY <2>2, <2>3, <2>4
<1> HIDE DEF P, rank
<1>3. State \subseteq P
    BY <1>1, <1>2, RankInduction
<1>4. \A t \in State : Longer(st, <<>>, t) => Same(st, t)
    BY <1>3 DEF P
<1> HIDE DEF Same
<1>5. Same(st, tt)
    BY <1>4
<1> QED
    BY <1>5 DEF Same

-----------------------------------------------------------------------------
(* Encoded messages.                                                       *)

\* A number, a byte x that is no digit, and whatever follows.
NumberThen(n, x, r) == (Decimal[n] \o <<x>>) \o r
NoDigit(x) == x \in Nat /\ x \notin Digit

BeginsWith(b, n, x) ==
    /\ Digits(b) = Len(Decimal[n]) /\ Number(b) = n
    /\ Digits(b) < Len(b) /\ b[Digits(b) + 1] = x
    /\ b[1] = Decimal[n][1]

\* That number is read, and that byte is found after it.
LEMMA NumberIsRead ==
    ASSUME NEW n \in Nat, NEW x, NoDigit(x), NEW r \in Seq(Nat)
    PROVE  BeginsWith(NumberThen(n, x, r), n, x)
<1> DEFINE ds == Decimal[n]
           h == ds \o <<x>>
           k == Len(ds)
           s == h \o r
<1>1. ds \in Seq(Digit) /\ ds \in Seq(Nat) /\ k >= 1 /\ k \in Nat /\ Value[ds] = n
    <2>1. ds \in Seq(Digit) /\ ds \in Seq(Nat) /\ k >= 1 /\ Value[ds] = n
        BY DecimalFacts
    <2> QED
        BY <2>1
<1>2. x \notin Digit /\ <<x>> \in Seq(Nat) /\ Len(<<x>>) = 1 /\ <<x>>[1] = x
    BY DEF NoDigit
<1> HIDE DEF ds
<1>3. /\ h \in Seq(Nat) /\ Len(h) = k + 1 /\ \A i \in 1..k : h[i] = ds[i]
      /\ h[k + 1] = x
    <2>1. /\ h \in Seq(Nat) /\ Len(h) = k + 1 /\ \A i \in 1..k : h[i] = ds[i]
          /\ \A i \in 1..Len(<<x>>) : h[k + i] = <<x>>[i]
        BY <1>1, <1>2, ConcatFacts
    <2>2. 1 \in 1..Len(<<x>>)
        BY <1>2
    <2> QED
        BY <1>2, <2>1, <2>2
<1>4. Digits(h) = k
    <2>1. \A i \in 1..k : ds[i] \in Digit
        BY <1>1
    <2>2. k \in 0..Len(h) /\ \A i \in 1..k : IsDigit(h[i])
        BY <1>1, <1>3, <2>1 DEF IsDigit
    <2>3. k < Len(h) => ~IsDigit(h[k + 1])
        BY <1>2, <1>3 DEF IsDigit
    <2> HIDE DEF h, k
    <2> QED
        BY <1>3, <2>2, <2>3, DigitsAre
<1>5. Number(h) = n
    <2>1. SubSeq(h, 1, k) = ds
        BY <1>1, <1>2, Beginning
    <2> QED
        BY <1>1, <1>4, <2>1 DEF Number
<1>6. Digits(h) < Len(h)
    BY <1>1, <1>3, <1>4
<1> HIDE DEF h, k
<1>7. Digits(s) = k /\ Number(s) = n
    BY <1>3, <1>4, <1>5, <1>6, DigitsOfConcat
<1>8. /\ s \in Seq(Nat) /\ Len(s) = k + 1 + Len(r) /\ Len(r) \in Nat
      /\ \A i \in 1..Len(h) : s[i] = h[i]
    <2>1. /\ s \in Seq(Nat) /\ Len(s) = Len(h) + Len(r) /\ Len(r) \in Nat
          /\ \A i \in 1..Len(h) : s[i] = h[i]
        BY <1>3, ConcatFacts
    <2>2. Len(h) = k + 1
        BY <1>3
    <2> HIDE DEF s
    <2> QED
        BY Zenon, <2>1, <2>2
<1>9. s[k + 1] = x /\ s[1] = ds[1]
    BY <1>1, <1>3, <1>8
<1>10. k < Len(s)
    BY <1>1, <1>8
<1> QED
    BY Zenon, <1>7, <1>9, <1>10 DEF k, ds, h, NumberThen, BeginsWith

\* What follows the colon in an encoded message.
EncodedBody(m) == (CommandPrefix(m.cmd) \o m.payload) \o <<Comma>>

\* The body is the prefix of the command and the payload, and the comma is behind it.
LEMMA EncodedBodyFacts ==
    ASSUME NEW m \in Messages
    PROVE  /\ EncodedBody(m) \in Seq(Nat) /\ Len(EncodedBody(m)) = LengthOf(m) + 1
           /\ EncodedBody(m)[LengthOf(m) + 1] = Comma
           /\ SubSeq(EncodedBody(m), Len(CommandPrefix(m.cmd)) + 1, LengthOf(m)) = m.payload
           /\ encode(m) = (Decimal[LengthOf(m)] \o <<Colon>>) \o EncodedBody(m)
<1> DEFINE c == CommandPrefix(m.cmd)
           p == m.payload
           n == LengthOf(m)
           d == Decimal[n]
<1>1. /\ p \in Seq(Nat) /\ c \in Seq(Nat) /\ n \in Nat /\ n = Len(p) + Len(c)
      /\ Len(p) \in Nat /\ Len(c) \in Nat
    <2>1. p \in Seq(Nat)
        BY MessageFacts
    <2>2. c \in Seq(Nat) /\ n \in Nat
        BY EncodeType
    <2>3. n = Len(p) + Len(c)
        BY DEF LengthOf
    <2> HIDE DEF p, c, n
    <2> QED
        BY <2>1, <2>2, <2>3
<1>2. d \in Seq(Nat)
    BY <1>1, DecimalFacts
<1>3. /\ <<Colon>> \in Seq(Nat) /\ <<Comma>> \in Seq(Nat) /\ Len(<<Comma>>) = 1
      /\ <<Comma>>[1] = Comma
    BY DEF Colon, Comma
<1>4. encode(m) = (((d \o <<Colon>>) \o c) \o p) \o <<Comma>>
    BY DEF encode
<1>5. EncodedBody(m) = (c \o p) \o <<Comma>>
    BY DEF EncodedBody
<1> HIDE DEF c, p, n, d
<1>6. d \o <<Colon>> \in Seq(Nat)
    BY <1>2, <1>3, ConcatFacts
<1>7. c \o p \in Seq(Nat) /\ Len(c \o p) = n
    BY <1>1, ConcatFacts
<1>8. encode(m) = (d \o <<Colon>>) \o EncodedBody(m)
    <2> DEFINE h == d \o <<Colon>>
    <2> HIDE DEF h
    <2>1. h \in Seq(Nat) /\ encode(m) = ((h \o c) \o p) \o <<Comma>>
        BY <1>4, <1>6 DEF h
    <2>2. (h \o c) \o p = h \o (c \o p)
        BY <1>1, <2>1, ConcatAssociates
    <2>3. (h \o (c \o p)) \o <<Comma>> = h \o ((c \o p) \o <<Comma>>)
        <3> DEFINE a == c \o p
        <3>1. a \in Seq(Nat)
            BY <1>7
        <3> HIDE DEF a
        <3>2. (h \o a) \o <<Comma>> = h \o (a \o <<Comma>>)
            BY SMTT(30), <1>3, <2>1, <3>1, ConcatAssociates
        <3> QED
            BY <3>2 DEF a
    <2> QED
        BY Zenon, <1>5, <2>1, <2>2, <2>3 DEF h
<1>9. /\ EncodedBody(m) \in Seq(Nat) /\ Len(EncodedBody(m)) = n + 1
      /\ EncodedBody(m)[n + 1] = Comma
    <2> DEFINE a == c \o p
    <2> HIDE DEF a
    <2>1. a \in Seq(Nat) /\ Len(a) = n /\ EncodedBody(m) = a \o <<Comma>>
        BY <1>5, <1>7 DEF a
    <2>2. /\ a \o <<Comma>> \in Seq(Nat) /\ Len(a \o <<Comma>>) = Len(a) + Len(<<Comma>>)
          /\ \A i \in 1..Len(<<Comma>>) : (a \o <<Comma>>)[Len(a) + i] = <<Comma>>[i]
        BY <1>3, <2>1, ConcatFacts
    <2>3. 1 \in 1..Len(<<Comma>>)
        BY <1>3
    <2> QED
        BY <1>3, <2>1, <2>2, <2>3
<1>10. SubSeq(EncodedBody(m), Len(c) + 1, n) = p
    <2>1. SubSeq(c \o p, Len(c) + 1, Len(c \o p)) = p
        BY <1>1, Beginning
    <2> DEFINE a == c \o p
               k == Len(c) + 1
    <2>2. a \in Seq(Nat) /\ Len(a) = n /\ EncodedBody(m) = a \o <<Comma>>
        BY <1>5, <1>7 DEF a
    <2>3. k \in Nat \ {0} /\ n \in 0..Len(a)
        BY <1>1, <2>2
    <2>4. SubSeq(a, k, n) = p
        BY Zenon, <2>1, <2>2
    <2> HIDE DEF a, k
    <2>5. SubSeq(a \o <<Comma>>, k, n) = SubSeq(a, k, n)
        BY <1>3, <2>2, <2>3, PartOfConcat
    <2> QED
        BY Zenon, <2>2, <2>4, <2>5 DEF k
<1> QED
    BY <1>8, <1>9, <1>10 DEF c, p, n, d

\* decode() reads of an encoded message what encode() was given.
LEMMA EncodedFacts ==
    ASSUME NEW m \in Messages, CommandsAreSent, Len(Decimal[LengthOf(m)]) <= 10
    PROVE  LET e == encode(m)
           IN  /\ e \in Seq(Nat) /\ Takes(e) /\ FrameLength(e) = Len(e)
               /\ \A p : Frame(p, e).payload = m.payload /\ Frame(p, e).cmd = m.cmd
<1> DEFINE e == encode(m)
           n == LengthOf(m)
           d == Decimal[n]
           body == EncodedBody(m)
           c == CommandPrefix(m.cmd)
<1>1. /\ n \in Nat /\ e \in Seq(Nat) /\ Len(e) = Len(d) + n + 2 /\ m.cmd \in Nat
      /\ m.payload \in Seq(Nat) /\ c \in Seq(Nat) /\ n = Len(m.payload) + Len(c)
    BY EncodeType, MessageFacts DEF LengthOf
<1>2. /\ body \in Seq(Nat) /\ Len(body) = n + 1 /\ body[n + 1] = Comma
      /\ SubSeq(body, Len(c) + 1, n) = m.payload /\ e = (d \o <<Colon>>) \o body
    BY EncodedBodyFacts
<1>3. /\ d \in Seq(Digit) /\ Len(d) >= 1 /\ Len(d) \in Nat /\ (d[1] = Zero => Len(d) = 1)
      /\ d[1] \in Digit /\ d \in Seq(Nat) /\ Len(d) <= 10
    <2>1. /\ d \in Seq(Digit) /\ Len(d) >= 1 /\ (d[1] = Zero => Len(d) = 1) /\ d \in Seq(Nat)
        BY <1>1, DecimalFacts
    <2> HIDE DEF d
    <2>2. Len(d) <= 10
        BY DEF d
    <2> QED
        BY <2>1, <2>2
<1> HIDE DEF n, body, c
<1>4. /\ Digits(e) = Len(d) /\ Number(e) = n /\ Digits(e) < Len(e) /\ e[Digits(e) + 1] = Colon
      /\ e[1] = d[1]
    <2>1. NoDigit(Colon)
        BY DEF NoDigit, Colon, Digit, Zero
    <2>2. n \in Nat /\ body \in Seq(Nat) /\ e = NumberThen(n, Colon, body)
        BY <1>1, <1>2 DEF NumberThen
    <2>3. BeginsWith(e, n, Colon)
        BY ONLY <2>1, <2>2, NumberIsRead
    <2> QED
        BY Zenon, <2>3 DEF BeginsWith
<1> HIDE DEF e, d
<1>5. Body(e) = body
    <2> DEFINE h == d \o <<Colon>>
    <2>1. <<Colon>> \in Seq(Nat) /\ Len(<<Colon>>) = 1
        BY DEF Colon
    <2>2. h \in Seq(Nat) /\ Len(h) = Len(d) + 1
        BY <1>3, <2>1, ConcatFacts
    <2>3. e = h \o body
        BY <1>2
    <2> HIDE DEF h
    <2>4. SubSeq(h \o body, Len(h) + 1, Len(h \o body)) = body
        BY <1>2, <2>2, Beginning
    <2>5. Digits(e) + 2 = Len(h) + 1
        BY <1>3, <1>4, <2>2
    <2> QED
        BY Zenon, <2>3, <2>4, <2>5 DEF Body
<1>6. Arrived(e)
    BY <1>1, <1>2, <1>4, <1>5 DEF Arrived
<1>7. ~BadHeader(e)
    <2>1. IsDigit(e[1])
        BY <1>3, <1>4 DEF IsDigit
    <2>2. ~(e[1] = Zero /\ IsDigit(e[2]))
        <3> SUFFICES ASSUME e[1] = Zero PROVE ~IsDigit(e[2])
            OBVIOUS
        <3>1. Digits(e) + 1 = 2
            BY <1>3, <1>4
        <3> QED
            BY <1>4, <3>1 DEF Colon, IsDigit, Digit, Zero
    <2>3. ~TooManyDigits(e)
        BY <1>3, <1>4 DEF TooManyDigits
    <2> QED
        BY Zenon, <1>4, <2>1, <2>2, <2>3 DEF BadHeader
<1>8. Len(e) >= 3
    BY <1>1, <1>3
<1>9. FrameLength(e) = Len(e)
    BY <1>1, <1>3, <1>4 DEF FrameLength
<1>10. CASE EnableCommand
    <2> DEFINE cd == Decimal[m.cmd]
               r == m.payload \o <<Comma>>
    <2>1. /\ cd \in Seq(Nat) /\ <<Comma>> \in Seq(Nat) /\ <<Space>> \in Seq(Nat)
          /\ NoDigit(Space) /\ Space \in Nat
        BY <1>1, DecimalFacts DEF Space, Digit, Zero, Comma, NoDigit
    <2>2. r \in Seq(Nat)
        BY <1>1, <2>1, ConcatFacts
    <2>3. c = cd \o <<Space>>
        BY <1>10, <2>1 DEF c, CommandPrefix
    <2>4. body = (c \o m.payload) \o <<Comma>>
        BY DEF body, EncodedBody, c
    <2> HIDE DEF cd, r
    <2>5. body = c \o r
        <3> DEFINE p == m.payload
        <3>1. p \in Seq(Nat)
            BY <1>1
        <3> HIDE DEF p
        <3>2. (c \o p) \o <<Comma>> = c \o (p \o <<Comma>>)
            <4>1. c \in Seq(Nat) /\ <<Comma>> \in Seq(Nat)
                BY <1>1, <2>1
            <4> QED
                BY ONLY <3>1, <4>1, ConcatAssociates
        <3> QED
            BY Zenon, <2>4, <3>2 DEF r, p
    <2>6. /\ Digits(body) = Len(cd) /\ Number(body) = m.cmd /\ Digits(body) < Len(body)
          /\ body[Digits(body) + 1] = Space
        <3>1. body = NumberThen(m.cmd, Space, r)
            BY Zenon, <2>3, <2>5 DEF NumberThen, cd
        <3>2. m.cmd \in Nat /\ NoDigit(Space) /\ r \in Seq(Nat)
            BY <1>1, <2>1, <2>2
        <3>3. BeginsWith(body, m.cmd, Space)
            BY ONLY <3>1, <3>2, NumberIsRead
        <3> QED
            BY Zenon, <3>3 DEF BeginsWith, cd
    <2>7. Len(c) = Len(cd) + 1
        <3>1. Len(<<Space>>) = 1
            OBVIOUS
        <3> QED
            BY <2>1, <2>3, <3>1, ConcatFacts
    <2>8. PrefixLength(e) = Len(c)
        BY Zenon, <1>5, <1>10, <2>6, <2>7 DEF PrefixLength
    <2>9. ~BadBody(e)
        BY Zenon, <1>2, <1>4, <1>5, <2>6 DEF BadBody
    <2>10. \A p : Frame(p, e).payload = m.payload /\ Frame(p, e).cmd = m.cmd
        <3> TAKE p
        <3>1. /\ Frame(p, e).payload = SubSeq(Body(e), PrefixLength(e) + 1, Number(e))
              /\ Frame(p, e).cmd = Number(Body(e))
            BY <1>10 DEF Frame
        <3> QED
            BY Zenon, <1>2, <1>4, <1>5, <2>6, <2>8, <3>1
    <2>11. Takes(e)
        BY Zenon, <1>4, <1>6, <1>7, <1>8, <2>9 DEF Takes
    <2> QED
        BY <1>1, <1>9, <2>10, <2>11 DEF e
<1>11. CASE ~EnableCommand
    <2>1. c = <<>> /\ Len(c) = 0 /\ m.cmd = 0
        BY <1>11 DEF c, CommandPrefix, CommandsAreSent
    <2>2. PrefixLength(e) = Len(c)
        BY <1>11, <2>1 DEF PrefixLength
    <2>3. ~BadBody(e)
        BY Zenon, <1>2, <1>4, <1>5, <1>11 DEF BadBody
    <2>4. \A p : Frame(p, e).payload = m.payload /\ Frame(p, e).cmd = m.cmd
        <3> TAKE p
        <3>1. /\ Frame(p, e).payload = SubSeq(Body(e), PrefixLength(e) + 1, Number(e))
              /\ Frame(p, e).cmd = 0
            BY <1>11 DEF Frame
        <3> QED
            BY Zenon, <1>2, <1>4, <1>5, <2>1, <2>2, <3>1
    <2>5. Takes(e)
        BY Zenon, <1>4, <1>6, <1>7, <1>8, <2>3 DEF Takes
    <2> QED
        BY <1>1, <1>9, <2>4, <2>5 DEF e
<1> QED
    BY <1>10, <1>11

\* An encoded message is taken, whatever follows it.
LEMMA EncodedIsTaken ==
    ASSUME NEW m \in Messages, CommandsAreSent, Len(Decimal[LengthOf(m)]) <= 10,
           NEW t \in Seq(Nat)
    PROVE  LET b == encode(m) \o t
           IN  /\ b \in Seq(Nat) /\ Takes(b) /\ FrameLength(b) = Len(encode(m))
               /\ SubSeq(b, FrameLength(b) + 1, Len(b)) = t
               /\ \A p : Frame(p, b).payload = m.payload /\ Frame(p, b).cmd = m.cmd
<1> DEFINE e == encode(m)
           b == e \o t
<1>1. /\ e \in Seq(Nat) /\ Takes(e) /\ FrameLength(e) = Len(e)
      /\ \A p : Frame(p, e).payload = m.payload /\ Frame(p, e).cmd = m.cmd
    BY EncodedFacts
<1> HIDE DEF e
<1>2. Digits(e) < Len(e) /\ Arrived(e) /\ ~BadBody(e)
    BY <1>1 DEF Takes
<1>3. Takes(b)
    BY <1>1, ConcatKeeps
<1>4. b \in Seq(Nat) /\ FrameLength(b) = Len(e)
    BY <1>1, <1>2, BodyOfConcat
<1>5. \A p : Frame(p, b).payload = m.payload /\ Frame(p, b).cmd = m.cmd
    <2> TAKE p
    <2>1. Frame(p, b).payload = Frame(p, e).payload /\ Frame(p, b).cmd = Frame(p, e).cmd
        BY <1>1, <1>2, FrameOfConcat
    <2> QED
        BY Zenon, <1>1, <2>1
<1>6. SubSeq(b, Len(e) + 1, Len(b)) = t
    BY <1>1, Beginning
<1> HIDE DEF b
<1>7. SubSeq(b, FrameLength(b) + 1, Len(b)) = t
    BY Zenon, <1>4, <1>6
<1> QED
    BY Zenon, <1>3, <1>4, <1>5, <1>7 DEF b, e

\* As long as a part of an encoded message is missing decode() waits.
LEMMA EncodedIsWaitedFor ==
    ASSUME NEW m \in Messages, CommandsAreSent, Len(Decimal[LengthOf(m)]) <= 10,
           NEW b \in Seq(Nat), NEW t \in Seq(Nat), b \o t = encode(m), t # <<>>
    PROVE  ~Throws(b) /\ ~Takes(b)
<1>1. Takes(encode(m)) /\ FrameLength(encode(m)) = Len(encode(m))
    BY EncodedFacts
<1>2. ~Throws(b)
    <2>1. ~Throws(encode(m))
        BY Zenon, <1>1 DEF Takes, Throws
    <2>2. Throws(b) => Throws(b \o t)
        BY ConcatKeeps
    <2> QED
        BY Zenon, <2>1, <2>2
<1>3. ~Takes(b)
    <2> SUFFICES ASSUME Takes(b) PROVE FALSE
        OBVIOUS
    <2>1. Digits(b) < Len(b) /\ Arrived(b)
        BY DEF Takes
    <2>2. FrameLength(b) \in 2..Len(b) /\ FrameLength(b \o t) = FrameLength(b)
        BY <2>1, FrameFacts, BodyOfConcat
    <2>3. Len(b \o t) = Len(b) + Len(t) /\ Len(b) \in Nat /\ Len(t) \in Nat \ {0}
        BY ConcatFacts
    <2>4. FrameLength(b \o t) = Len(b \o t)
        BY Zenon, <1>1
    <2> QED
        BY <2>2, <2>3, <2>4
<1> QED
    BY <1>2, <1>3

\* Encoded is what it is defined to be.
LEMMA EncodedUnfolds ==
    ASSUME NEW ms \in Seq(Messages)
    PROVE  Encoded[ms] = IF ms = <<>> THEN <<>> ELSE Encoded[Front(ms)] \o encode(Last(ms))
<1> DEFINE S == Seq(Messages)
           T == Seq(Nat)
           body(s, g) == IF s = <<>> THEN <<>> ELSE g[Front(s)] \o encode(Last(s))
           step == [s \in S |-> [g \in [S -> T] |-> body(s, g)]]
           rank == [s \in S |-> Len(s)]
<1>1. ASSUME NEW s \in S, s # <<>>
      PROVE  Front(s) \in S /\ Len(Front(s)) < Len(s) /\ encode(Last(s)) \in T
    <2>1. Len(s) \in Nat /\ Len(s) # 0
        BY <1>1
    <2>2. Last(s) \in Messages
        BY <2>1 DEF Last
    <2>3. encode(Last(s)) \in T
        BY <2>2, EncodeType
    <2> QED
        BY <2>1, <2>3 DEF Front
<1>2. ASSUME NEW s \in S, NEW g \in [S -> T] PROVE body(s, g) \in T
    <2>1. CASE s = <<>>
        BY <2>1
    <2>2. CASE s # <<>>
        <3>1. g[Front(s)] \in T /\ encode(Last(s)) \in T
            BY <1>1, <2>2
        <3>2. g[Front(s)] \o encode(Last(s)) \in T
            BY <3>1, ConcatFacts
        <3> QED
            BY <2>2, <3>2
    <2> QED
        BY <2>1, <2>2
<1>3. rank \in [S -> Nat]
    OBVIOUS
<1>4. step \in Steps(S, T)
    BY <1>2 DEF Steps
<1>5. Descends(S, T, rank, step)
    BY <1>1 DEF Descends
<1>6. \A s \in S : \A g \in [S -> T] : step[s][g] = body(s, g)
    OBVIOUS
<1> HIDE DEF step, rank
<1>7. PICK g \in Solutions(S, T, step) : TRUE
    <2>1. T # {}
        <3>1. <<>> \in T
            OBVIOUS
        <3> QED
            BY <3>1
    <2> HIDE DEF S, T
    <2> QED
        BY Zenon, <1>3, <1>4, <1>5, <2>1, RecursionHasASolution
<1>8. \A s \in S : g[s] = body(s, g)
    BY <1>6, <1>7 DEF Solutions
<1>9. g = [s \in S |-> body(s, g)]
    <2>1. g = [s \in S |-> g[s]]
        BY <1>7 DEF Solutions
    <2> QED
        BY Zenon, <1>8, <2>1
<1>10. Encoded = [s \in S |-> body(s, Encoded)]
    BY Zenon, <1>9 DEF Encoded
<1>11. Encoded[ms] = body(ms, Encoded)
    BY <1>10
<1> QED
    BY <1>11


\* One more message after those before and those behind.
LEMMA AppendAssociates ==
    ASSUME NEW a \in Seq(Messages), NEW b \in Seq(Messages), NEW m \in Messages
    PROVE  Append(a \o b, m) = a \o Append(b, m)
OBVIOUS

\* A message is the last one of a sequence, or there is none.
LEMMA LastOfMessages ==
    ASSUME NEW ms \in Seq(Messages), ms # <<>>
    PROVE  /\ Front(ms) \in Seq(Messages) /\ Last(ms) \in Messages
           /\ Len(ms) \in Nat /\ Len(Front(ms)) = Len(ms) - 1
           /\ ms = Append(Front(ms), Last(ms))
<1>1. Len(ms) \in Nat /\ Len(ms) # 0
    OBVIOUS
<1>2. Last(ms) \in Messages
    BY <1>1 DEF Last
<1> DEFINE n == Len(ms)
           f == Front(ms)
           m == Last(ms)
           t == Append(f, m)
<1>3. n \in Nat /\ n # 0 /\ 1 \in Nat \ {0} /\ n - 1 \in 0..Len(ms)
    BY <1>1
<1>4. f = SubSeq(ms, 1, n - 1) /\ m = ms[n]
    BY DEF Front, Last
<1> HIDE DEF n, f, m
<1>5. /\ f \in Seq(Messages) /\ Len(f) = n - 1
      /\ \A i \in 1..(n - 1) : f[i] = ms[i]
    <2> DEFINE k == n - 1
    <2>1. k \in 0..Len(ms)
        BY <1>3
    <2>2. f = SubSeq(ms, 1, k)
        BY <1>4
    <2> HIDE DEF k
    <2>3. /\ f \in Seq(Messages) /\ Len(f) = IF 1 <= k THEN k - 1 + 1 ELSE 0
          /\ \A i \in 1..(k - 1 + 1) : f[i] = ms[1 + i - 1]
        BY ONLY <1>3, <2>1, <2>2, PartFacts
    <2> QED
        BY <1>3, <2>1, <2>3 DEF k
<1>6. t \in Seq(Messages) /\ Len(t) = n /\ t[n] = m /\ \A i \in 1..(n - 1) : t[i] = f[i]
    BY <1>2, <1>3, <1>5 DEF m
<1>7. \A i \in 1..n : t[i] = ms[i]
    BY <1>3, <1>4, <1>5, <1>6
<1> HIDE DEF t
<1>8. t = ms
    BY <1>3, <1>6, <1>7, SameSeq DEF n
<1> QED
    BY <1>2, <1>3, <1>5, <1>8 DEF n, f, m, t

\* One more message.
LEMMA EncodedOfAppend ==
    ASSUME NEW ms \in Seq(Messages), NEW m \in Messages
    PROVE  Encoded[Append(ms, m)] = Encoded[ms] \o encode(m)
<1> DEFINE s == Append(ms, m)
<1>1. s \in Seq(Messages) /\ Len(s) = Len(ms) + 1 /\ s # <<>> /\ s[Len(s)] = m
    OBVIOUS
<1>2. Front(s) = ms
    BY DEF Front
<1>3. Last(s) = m
    BY <1>1 DEF Last
<1> HIDE DEF s
<1>4. Encoded[s] = Encoded[ms] \o encode(m)
    BY Zenon, <1>1, <1>2, <1>3, EncodedUnfolds
<1> QED
    BY <1>4 DEF s

\* Encoded messages are bytes.
LEMMA EncodedType ==
    ASSUME NEW ms \in Seq(Messages)
    PROVE  Encoded[ms] \in Seq(Nat)
<1> DEFINE S == Seq(Messages)
           P == {s \in S : Encoded[s] \in Seq(Nat)}
           rank == [s \in S |-> Len(s)]
<1>1. rank \in [S -> Nat]
    OBVIOUS
<1>2. ASSUME NEW s \in S, \A t \in S : rank[t] < rank[s] => t \in P
      PROVE  s \in P
    <2>1. CASE s = <<>>
        <3>1. Encoded[s] = <<>>
            BY <2>1, EncodedUnfolds
        <3>2. Encoded[s] \in Seq(Nat)
            BY <3>1
        <3> QED
            BY <3>2
    <2>2. CASE s # <<>>
        <3>1. /\ Front(s) \in S /\ Last(s) \in Messages /\ Len(Front(s)) < Len(s)
            BY <2>2, LastOfMessages
        <3>2. Front(s) \in P
            BY <1>2, <3>1
        <3>3. Encoded[Front(s)] \in Seq(Nat) /\ encode(Last(s)) \in Seq(Nat)
            BY <3>1, <3>2, EncodeType
        <3>4. Encoded[Front(s)] \o encode(Last(s)) \in Seq(Nat)
            BY <3>3, ConcatFacts
        <3>5. Encoded[s] \in Seq(Nat)
            BY Zenon, <2>2, <3>4, EncodedUnfolds
        <3> QED
            BY <3>5
    <2> QED
        BY <2>1, <2>2
<1> HIDE DEF rank, P, S
<1>3. S \subseteq P
    BY <1>1, <1>2, RankInduction
<1> QED
    BY <1>3 DEF S, P

\* Messages after messages.
LEMMA EncodedOfConcat ==
    ASSUME NEW a \in Seq(Messages), NEW b \in Seq(Messages)
    PROVE  Encoded[a \o b] = Encoded[a] \o Encoded[b]
<1> DEFINE S == Seq(Messages)
           P == {s \in S : Encoded[a \o s] = Encoded[a] \o Encoded[s]}
           rank == [s \in S |-> Len(s)]
<1>1. rank \in [S -> Nat]
    OBVIOUS
<1>2. ASSUME NEW s \in S, \A t \in S : rank[t] < rank[s] => t \in P
      PROVE  s \in P
    <2>1. CASE s = <<>>
        <3>1. Encoded[s] = <<>>
            BY <2>1, EncodedUnfolds
        <3>2. a \o s = a
            BY <2>1
        <3>3. Encoded[a] \o Encoded[s] = Encoded[a]
            BY <3>1, EncodedType
        <3> QED
            BY <3>2, <3>3
    <2>2. CASE s # <<>>
        <3> DEFINE f == Front(s)
                   m == Last(s)
        <3>1. f \in S /\ m \in Messages /\ Len(f) < Len(s) /\ s = Append(f, m)
            BY <2>2, LastOfMessages
        <3> HIDE DEF f, m
        <3>2. f \in P
            BY <1>2, <3>1
        <3>3. a \o s = Append(a \o f, m) /\ a \o f \in S
            BY <3>1
        <3>4. Encoded[a \o s] = Encoded[a \o f] \o encode(m)
            BY Zenon, <3>1, <3>3, EncodedOfAppend
        <3>5. Encoded[s] = Encoded[f] \o encode(m)
            BY Zenon, <3>1, EncodedOfAppend
        <3>6. Encoded[a \o f] = Encoded[a] \o Encoded[f]
            BY <3>2
        <3>7. (Encoded[a] \o Encoded[f]) \o encode(m) = Encoded[a] \o (Encoded[f] \o encode(m))
            <4> DEFINE x == Encoded[a]
                       y == Encoded[f]
                       z == encode(m)
            <4>1. x \in Seq(Nat) /\ y \in Seq(Nat) /\ z \in Seq(Nat)
                BY <3>1, EncodedType, EncodeType
            <4> HIDE DEF x, y, z
            <4>2. (x \o y) \o z = x \o (y \o z)
                BY ONLY <4>1, BytesAssociate
            <4> QED
                BY <4>2 DEF x, y, z
        <3>8. Encoded[a \o s] = Encoded[a] \o Encoded[s]
            BY Zenon, <3>4, <3>5, <3>6, <3>7
        <3> QED
            BY <3>8
    <2> QED
        BY <2>1, <2>2
<1> HIDE DEF rank, P, S
<1>3. S \subseteq P
    BY <1>1, <1>2, RankInduction
<1> QED
    BY <1>3 DEF S, P

\* u is a part of e, and more is missing; e is a part of u, and what follows is w.
EndsBefore(u, e) == \E t \in Seq(Nat) : t # <<>> /\ u \o t = e
GoesBeyond(u, r, e, w) == \E t \in Seq(Nat) : u = e \o t /\ t \o r = w

\* The same bytes split in two ways.
LEMMA TwoSplits ==
    ASSUME NEW u \in Seq(Nat), NEW r \in Seq(Nat), NEW e \in Seq(Nat), NEW w \in Seq(Nat),
           u \o r = e \o w
    PROVE  /\ Len(u) < Len(e) => EndsBefore(u, e)
           /\ Len(u) < Len(e) \/ GoesBeyond(u, r, e, w)
<1>1. Len(u) \in Nat /\ Len(e) \in Nat
    OBVIOUS
<1>2. SubSeq(u \o r, 1, Len(u)) = u /\ SubSeq(e \o w, 1, Len(e)) = e
    BY Beginning
<1>3. CASE Len(u) < Len(e)
    <2> DEFINE n == Len(u)
               t == SubSeq(e, n + 1, Len(e))
    <2>1. n \in 0..Len(e) /\ 1 \in Nat \ {0} /\ n + 1 \in Nat \ {0} /\ Len(e) \in 0..Len(e)
        BY <1>1, <1>3
    <2> HIDE DEF n
    <2>2. SubSeq(e \o w, 1, n) = SubSeq(e, 1, n)
        BY <2>1, PartOfConcat
    <2>3. SubSeq(e, 1, n) = u
        BY Zenon, <1>2, <2>2 DEF n
    <2>4. SubSeq(e, 1, n) \o t = e
        BY <2>1, Cut
    <2>5. t \in Seq(Nat) /\ Len(t) = IF n + 1 <= Len(e) THEN Len(e) - (n + 1) + 1 ELSE 0
        <3> DEFINE k == n + 1
        <3>1. k \in Nat \ {0}
            BY <2>1
        <3> HIDE DEF k
        <3>2. /\ SubSeq(e, k, Len(e)) \in Seq(Nat)
              /\ Len(SubSeq(e, k, Len(e))) = IF k <= Len(e) THEN Len(e) - k + 1 ELSE 0
            BY <2>1, <3>1, PartFacts
        <3> QED
            BY <3>2 DEF k
    <2>6. Len(t) # 0
        BY <1>1, <1>3, <2>1, <2>5 DEF n
    <2> HIDE DEF t
    <2>7. t # <<>>
        BY <2>6
    <2> QED
        BY Zenon, <1>3, <2>3, <2>4, <2>5, <2>7 DEF EndsBefore
<1>4. CASE ~(Len(u) < Len(e))
    <2> DEFINE n == Len(e)
               t == SubSeq(u, n + 1, Len(u))
    <2>1. n \in 0..Len(u) /\ 1 \in Nat \ {0} /\ n + 1 \in Nat \ {0} /\ Len(u) \in 0..Len(u)
        BY <1>1, <1>4
    <2> HIDE DEF n
    <2>2. SubSeq(u \o r, 1, n) = SubSeq(u, 1, n)
        BY <2>1, PartOfConcat
    <2>3. SubSeq(u, 1, n) = e
        BY Zenon, <1>2, <2>2 DEF n
    <2>4. SubSeq(u, 1, n) \o t = u
        BY <2>1, Cut
    <2>5. t \in Seq(Nat)
        <3> DEFINE k == n + 1
        <3>1. k \in Nat \ {0}
            BY <2>1
        <3> HIDE DEF k
        <3>2. SubSeq(u, k, Len(u)) \in Seq(Nat)
            BY <2>1, <3>1, PartFacts
        <3> QED
            BY <3>2 DEF k
    <2> HIDE DEF t
    <2>6. u = e \o t
        BY Zenon, <2>3, <2>4
    <2>7. (e \o t) \o r = e \o (t \o r) /\ t \o r \in Seq(Nat)
        BY ONLY ZenonT(60), <2>5, BytesAssociate, ConcatFacts
    <2> DEFINE v == t \o r
    <2>8. v \in Seq(Nat) /\ e \o v = e \o w
        BY Zenon, <2>6, <2>7
    <2> HIDE DEF v
    <2>9. /\ SubSeq(e \o v, Len(e) + 1, Len(e \o v)) = v
          /\ SubSeq(e \o w, Len(e) + 1, Len(e \o w)) = w
        BY ONLY <2>8, Beginning
    <2>10. v = w
        BY Zenon, <2>8, <2>9
    <2> QED
        BY Zenon, <1>4, <2>5, <2>6, <2>10 DEF v, GoesBeyond
<1> QED
    BY Zenon, <1>3, <1>4

\* A message is the first one of a sequence, or there is none.
LEMMA FirstOfMessages ==
    ASSUME NEW ms \in Seq(Messages), ms # <<>>
    PROVE  \E m \in Messages, tl \in Seq(Messages) :
               /\ ms = <<m>> \o tl /\ Encoded[ms] = encode(m) \o Encoded[tl]
<1> DEFINE m == ms[1]
           tl == SubSeq(ms, 2, Len(ms))
           one == SubSeq(ms, 1, 1)
<1>1. Len(ms) \in Nat /\ Len(ms) # 0 /\ m \in Messages /\ 1 \in 0..Len(ms)
    OBVIOUS
<1>2. tl \in Seq(Messages)
    <2>1. 2 \in Nat \ {0} /\ Len(ms) \in 0..Len(ms)
        BY <1>1
    <2> QED
        BY <2>1, PartFacts
<1>3. one = <<m>>
    <2>1. /\ one \in Seq(Messages) /\ Len(one) = 1 /\ one[1] = ms[1]
        <3>1. /\ one \in Seq(Messages) /\ Len(one) = IF 1 <= 1 THEN 1 - 1 + 1 ELSE 0
              /\ \A i \in 1..(1 - 1 + 1) : one[i] = ms[1 + i - 1]
            <4>1. 1 \in Nat \ {0}
                OBVIOUS
            <4> QED
                BY <1>1, <4>1, PartFacts
        <3> HIDE DEF one
        <3> QED
            BY <3>1
    <2> HIDE DEF one
    <2>2. <<m>> \in Seq(Messages) /\ Len(<<m>>) = 1 /\ <<m>>[1] = m
        BY <1>1
    <2> HIDE DEF m
    <2> QED
        BY ONLY <2>1, <2>2, SameSeq DEF m
<1>4. one \o tl = ms
    <2>1. SubSeq(ms, 1, 1) \o SubSeq(ms, 1 + 1, Len(ms)) = ms
        BY <1>1, Cut
    <2>2. 1 + 1 = 2
        OBVIOUS
    <2> QED
        BY Zenon, <2>1, <2>2
<1> HIDE DEF m, tl, one
<1>5. Encoded[<<m>>] = encode(m)
    <2> DEFINE none == <<>>
    <2>1. none \in Seq(Messages) /\ Append(none, m) = <<m>>
        BY <1>1
    <2>2. Encoded[none] = <<>>
        BY <2>1, EncodedUnfolds
    <2> HIDE DEF none
    <2>3. Encoded[Append(none, m)] = Encoded[none] \o encode(m)
        BY <1>1, <2>1, EncodedOfAppend
    <2>4. <<>> \o encode(m) = encode(m)
        BY <1>1, EncodeType
    <2> QED
        BY Zenon, <2>1, <2>2, <2>3, <2>4
<1>6. Encoded[ms] = encode(m) \o Encoded[tl]
    <2>1. <<m>> \in Seq(Messages)
        BY <1>1
    <2>2. Encoded[<<m>> \o tl] = Encoded[<<m>>] \o Encoded[tl]
        BY Zenon, <1>2, <2>1, EncodedOfConcat
    <2> QED
        BY Zenon, <1>3, <1>4, <1>5, <2>2
<1>7. ms = <<m>> \o tl
    BY Zenon, <1>3, <1>4
<1> QED
    BY Zenon, <1>1, <1>2, <1>6, <1>7

PlainMessages == [payload : Seq(Nat), cmd : Nat]

\* Beside their raw forms frames are messages.
LEMMA PlainFacts ==
    ASSUME NEW d \in Seq(Frames)
    PROVE  /\ Plain(d) \in Seq(PlainMessages) /\ Len(Plain(d)) = Len(d)
           /\ \A i \in 1..Len(d) : Plain(d)[i] = [payload |-> d[i].payload, cmd |-> d[i].cmd]
<1>1. Len(d) \in Nat /\ DOMAIN d = 1..Len(d) /\ \A i \in 1..Len(d) : d[i] \in Frames
    OBVIOUS
<1>2. Plain(d) = [i \in 1..Len(d) |-> [payload |-> d[i].payload, cmd |-> d[i].cmd]]
    BY <1>1 DEF Plain
<1>3. \A i \in 1..Len(d) : [payload |-> d[i].payload, cmd |-> d[i].cmd] \in PlainMessages
    BY <1>1 DEF Frames, PlainMessages
<1> DEFINE n == Len(d)
<1> HIDE DEF n
<1>4. Plain(d) \in [1..n -> PlainMessages]
    BY <1>2, <1>3 DEF n
<1>5. n \in Nat
    BY <1>1 DEF n
<1>6. Plain(d) \in Seq(PlainMessages) /\ Len(Plain(d)) = n
    BY <1>4, <1>5
<1> QED
    BY <1>2, <1>6 DEF n

\* Messages have a payload and a command.
LEMMA MessagesArePlain ==
    ASSUME NEW ms \in Seq(Messages)
    PROVE  ms \in Seq(PlainMessages)
<1>1. Messages \subseteq PlainMessages
    BY BytesAssumption DEF PlainMessages
<1> QED
    BY <1>1

\* Messages are put together in either order.
LEMMA PlainAssociate ==
    ASSUME NEW x \in Seq(PlainMessages), NEW y \in Seq(PlainMessages), NEW z \in Seq(PlainMessages)
    PROVE  (x \o y) \o z = x \o (y \o z)
BY ConcatAssociates

\* A message found is the next one.
LEMMA PlainOfOneMore ==
    ASSUME NEW d \in Seq(Frames), NEW f \in Frames, NEW m \in Messages,
           f.payload = m.payload, f.cmd = m.cmd
    PROVE  Plain(Append(d, f)) = Plain(d) \o <<m>>
<1> DEFINE p == Plain(d)
           x == Append(d, f)
           y == p \o <<m>>
           n == Len(d)
<1>1. /\ p \in Seq(PlainMessages) /\ Len(p) = n
      /\ \A i \in 1..n : p[i] = [payload |-> d[i].payload, cmd |-> d[i].cmd]
    BY PlainFacts
<1>2. n \in Nat
    OBVIOUS
<1>3. x \in Seq(Frames) /\ Len(x) = n + 1 /\ x[n + 1] = f /\ \A i \in 1..n : x[i] = d[i]
    OBVIOUS
<1>4. /\ Plain(x) \in Seq(PlainMessages) /\ Len(Plain(x)) = n + 1
      /\ \A i \in 1..(n + 1) : Plain(x)[i] = [payload |-> x[i].payload, cmd |-> x[i].cmd]
    <2> HIDE DEF x
    <2>1. /\ Plain(x) \in Seq(PlainMessages) /\ Len(Plain(x)) = Len(x)
          /\ \A i \in 1..Len(x) : Plain(x)[i] = [payload |-> x[i].payload, cmd |-> x[i].cmd]
        BY <1>3, PlainFacts
    <2> QED
        BY Zenon, <1>3, <2>1
<1>5. m \in PlainMessages /\ m = [payload |-> m.payload, cmd |-> m.cmd]
    BY MessageFacts DEF PlainMessages
<1> HIDE DEF p, x, n
<1>6. y \in Seq(PlainMessages) /\ Len(y) = n + 1 /\ y[n + 1] = m /\ \A i \in 1..n : y[i] = p[i]
    BY <1>1, <1>2, <1>5
<1>7. \A i \in 1..(n + 1) : Plain(x)[i] = y[i]
    <2> SUFFICES ASSUME NEW i \in 1..(n + 1) PROVE Plain(x)[i] = y[i]
        OBVIOUS
    <2>1. CASE i = n + 1
        <3>1. Plain(x)[i] = [payload |-> f.payload, cmd |-> f.cmd]
            BY <1>2, <1>3, <1>4, <2>1
        <3>2. [payload |-> f.payload, cmd |-> f.cmd] = m
            BY <1>5
        <3> QED
            BY Zenon, <1>6, <2>1, <3>1, <3>2
    <2>2. CASE i # n + 1
        <3>1. i \in 1..n
            BY <1>2, <2>2
        <3>2. Plain(x)[i] = [payload |-> x[i].payload, cmd |-> x[i].cmd]
            BY <1>4
        <3> HIDE DEF y
        <3> QED
            BY Zenon, <1>1, <1>3, <1>6, <3>1, <3>2
    <2> QED
        BY <2>1, <2>2
<1> HIDE DEF y
<1>8. Plain(x) = y
    BY <1>4, <1>6, <1>7, SameSeq
<1> QED
    BY <1>8 DEF x, y, p

-----------------------------------------------------------------------------
(* A decoder that is given encoded messages.                               *)

\* The frames d have the form in which they were sent.
RawForms(d) ==
    \A i \in 1..Len(d) :
        d[i].serialized = encode([payload |-> d[i].payload, cmd |-> d[i].cmd])

\* Of messages ms that have partly arrived, the rest r being on its way, decode() finds
\* a, those of which all bytes have arrived, and waits for the first of b.
Finds(st, ms, r) ==
    \E a \in Seq(Messages), b \in Seq(Messages) :
        /\ ms = a \o b
        /\ ~Decode[st].failed
        /\ Plain(Decode[st].decoded) = Plain(st.decoded) \o a
        /\ st.unread = Encoded[a] \o Decode[st].unread
        /\ Decode[st].unread \o r = Encoded[b]
        /\ b # <<>> => Len(Decode[st].unread) < Len(encode(b[1]))
        /\ (FramesAreShorter /\ RawForms(st.decoded)) => RawForms(Decode[st].decoded)

\* The raw form of a message that is found is what encode() made of it.
LEMMA FrameIsRaw ==
    ASSUME NEW m \in Messages, CommandsAreSent, LengthsAreRead, FramesAreShorter,
           NEW t \in Seq(Nat), NEW p \in Nat
    PROVE  Frame(p, encode(m) \o t).serialized = encode(m)
<1> DEFINE e == encode(m)
           b == e \o t
           n == Len(e)
<1>1. e \in Seq(Nat) /\ n = Len(Decimal[LengthOf(m)]) + LengthOf(m) + 2 /\ LengthOf(m) \in Nat
    BY EncodeType
<1>2. Len(Decimal[LengthOf(m)]) \in Nat /\ Len(Decimal[LengthOf(m)]) <= 10
    BY <1>1, DecimalFacts DEF LengthsAreRead
<1>3. FrameLength(b) = n
    BY <1>2, EncodedIsTaken
<1>4. n < BufferSize
    BY DEF FramesAreShorter
<1>5. SubSeq(b, 1, n) = e
    BY <1>1, Beginning
<1> HIDE DEF b, n, e
<1>6. n \in Nat \ {0} /\ BufferSize \in Nat
    BY <1>1, <1>2, SizesAssumption
<1>7. Advance(p, n) # p
    BY <1>4, <1>6 DEF Advance
<1>8. Serialized(p, b) = e
    BY Zenon, <1>3, <1>5, <1>7 DEF Serialized
<1>9. Frame(p, b).serialized = Serialized(p, b)
    BY DEF Frame
<1> QED
    BY Zenon, <1>8, <1>9 DEF b, e

\* decode() finds nothing and waits for the first of the messages.
LEMMA FindsNothing ==
    ASSUME NEW st \in State, ~st.failed, NEW ms \in Seq(Messages), NEW r \in Seq(Nat),
           st.unread \o r = Encoded[ms], ~Throws(st.unread), ~Takes(st.unread),
           ms # <<>> => Len(st.unread) < Len(encode(ms[1]))
    PROVE  Finds(st, ms, r)
<1> DEFINE none == <<>>
<1>1. /\ Decode[st].unread = st.unread /\ Decode[st].decoded = st.decoded
      /\ Decode[st].failed = st.failed
    BY Zenon, DecodeCases
<1>2. none \in Seq(Messages) /\ none \o ms = ms
    OBVIOUS
<1>3. Encoded[none] = <<>>
    BY <1>2, EncodedUnfolds
<1>4. st.unread \in Seq(Nat) /\ st.decoded \in Seq(Frames)
    BY DEF State, Frames
<1>5. Encoded[none] \o st.unread = st.unread
    BY <1>3, <1>4
<1>6. Plain(st.decoded) \o none = Plain(st.decoded)
    <2>1. Plain(st.decoded) \in Seq(PlainMessages)
        BY <1>4, PlainFacts
    <2> QED
        BY <2>1
<1> HIDE DEF none
<1> QED
    BY Zenon, <1>1, <1>2, <1>5, <1>6 DEF Finds

\* decode() finds the first of the messages, and then what it finds after it.
LEMMA FindsOneMore ==
    ASSUME NEW st \in State, ~st.failed, CommandsAreSent, LengthsAreRead,
           NEW m \in Messages, NEW tl \in Seq(Messages), NEW t \in Seq(Nat), NEW r \in Seq(Nat),
           st.unread = encode(m) \o t, Taken(st) \in State, Takes(st.unread),
           Finds(Taken(st), tl, r)
    PROVE  Finds(st, <<m>> \o tl, r)
<1> DEFINE e == encode(m)
           tk == Taken(st)
           f == Frame(st.valid, st.unread)
<1>1. /\ st.unread \in Seq(Nat) /\ st.decoded \in Seq(Frames) /\ st.valid \in Nat
    BY DEF State, Frames
<1>2. /\ e \in Seq(Nat) /\ <<m>> \in Seq(Messages) /\ Len(Decimal[LengthOf(m)]) <= 10
    BY EncodeType DEF LengthsAreRead
<1>3. /\ SubSeq(st.unread, FrameLength(st.unread) + 1, Len(st.unread)) = t
      /\ f.payload = m.payload /\ f.cmd = m.cmd
    <2>1. /\ SubSeq(e \o t, FrameLength(e \o t) + 1, Len(e \o t)) = t
          /\ \A p : Frame(p, e \o t).payload = m.payload /\ Frame(p, e \o t).cmd = m.cmd
        BY Zenon, <1>2, EncodedIsTaken
    <2> QED
        BY Zenon, <2>1
<1>4. f \in Frames
    BY Zenon, <1>1, FrameType DEF Takes
<1>5. Decode[st] = Decode[tk] /\ tk.unread = t /\ tk.decoded = Append(st.decoded, f)
    BY Zenon, <1>3, DecodeCases, TakenType
<1> HIDE DEF tk, f
<1>6. PICK a \in Seq(Messages), b \in Seq(Messages) :
          /\ tl = a \o b
          /\ ~Decode[tk].failed
          /\ Plain(Decode[tk].decoded) = Plain(tk.decoded) \o a
          /\ tk.unread = Encoded[a] \o Decode[tk].unread
          /\ Decode[tk].unread \o r = Encoded[b]
          /\ b # <<>> => Len(Decode[tk].unread) < Len(encode(b[1]))
          /\ (FramesAreShorter /\ RawForms(tk.decoded)) => RawForms(Decode[tk].decoded)
    BY Zenon DEF Finds, tk
<1> DEFINE c == <<m>> \o a
           u == Decode[tk].unread
<1>7. c \in Seq(Messages) /\ <<m>> \o tl = c \o b
    <2> DEFINE one == <<m>>
    <2>1. one \in Seq(Messages) /\ a \in Seq(Messages) /\ b \in Seq(Messages)
        BY <1>2, <1>6
    <2> HIDE DEF one
    <2>2. one \in Seq(PlainMessages) /\ a \in Seq(PlainMessages) /\ b \in Seq(PlainMessages)
        BY <2>1, MessagesArePlain
    <2>3. (one \o a) \o b = one \o (a \o b)
        BY ONLY <2>2, PlainAssociate
    <2>4. one \o a \in Seq(Messages)
        BY ONLY <2>1, ConcatFacts
    <2> QED
        BY Zenon, <1>6, <2>3, <2>4 DEF one
<1>8. Plain(Decode[st].decoded) = Plain(st.decoded) \o c
    <2> DEFINE d == Plain(st.decoded)
               one == <<m>>
    <2>1. Plain(tk.decoded) = d \o one
        BY Zenon, <1>1, <1>3, <1>4, <1>5, PlainOfOneMore
    <2>2. d \in Seq(PlainMessages) /\ one \in Seq(PlainMessages) /\ a \in Seq(PlainMessages)
        BY Zenon, <1>1, <1>2, PlainFacts, MessagesArePlain
    <2> HIDE DEF d, one
    <2>3. (d \o one) \o a = d \o (one \o a)
        BY ONLY <2>2, PlainAssociate
    <2> QED
        BY Zenon, <1>5, <1>6, <2>1, <2>3 DEF d, one
<1>9. st.unread = Encoded[c] \o u
    <2> DEFINE x == Encoded[a]
    <2>1. x \in Seq(Nat)
        BY EncodedType
    <2>2. u \in Seq(Nat)
        BY DecodeType DEF State, tk
    <2>3. Encoded[c] = e \o x
        <3> DEFINE none == <<>>
        <3>1. none \in Seq(Messages) /\ Append(none, m) = <<m>>
            OBVIOUS
        <3>2. Encoded[none] = <<>>
            BY <3>1, EncodedUnfolds
        <3> HIDE DEF none
        <3>3. Encoded[Append(none, m)] = Encoded[none] \o encode(m)
            BY <3>1, EncodedOfAppend
        <3>4. <<>> \o encode(m) = encode(m)
            BY <1>2
        <3>5. Encoded[<<m>> \o a] = Encoded[<<m>>] \o Encoded[a]
            BY Zenon, <1>2, EncodedOfConcat
        <3> QED
            BY Zenon, <3>1, <3>2, <3>3, <3>4, <3>5
    <2>4. st.unread = e \o t /\ t = x \o u
        BY Zenon, <1>5, <1>6
    <2> HIDE DEF e, x, u
    <2>5. (e \o x) \o u = e \o (x \o u)
        BY ONLY ZenonT(60), <1>2, <2>1, <2>2, BytesAssociate
    <2> QED
        BY Zenon, <2>3, <2>4, <2>5
<1>10. (FramesAreShorter /\ RawForms(st.decoded)) => RawForms(Decode[st].decoded)
    <2> SUFFICES ASSUME FramesAreShorter, RawForms(st.decoded) PROVE RawForms(tk.decoded)
        BY Zenon, <1>5, <1>6
    <2>1. f.serialized = encode([payload |-> f.payload, cmd |-> f.cmd])
        <3>1. f.serialized = encode(m)
            BY Zenon, <1>1, FrameIsRaw DEF f
        <3>2. [payload |-> f.payload, cmd |-> f.cmd] = m
            BY Zenon, <1>3, MessageFacts
        <3> QED
            BY Zenon, <3>1, <3>2
    <2>2. /\ Len(tk.decoded) = Len(st.decoded) + 1 /\ Len(st.decoded) \in Nat
          /\ tk.decoded[Len(st.decoded) + 1] = f
          /\ \A i \in 1..Len(st.decoded) : tk.decoded[i] = st.decoded[i]
        BY <1>1, <1>4, <1>5
    <2> SUFFICES ASSUME NEW i \in 1..Len(tk.decoded)
                 PROVE  tk.decoded[i].serialized =
                            encode([payload |-> tk.decoded[i].payload, cmd |-> tk.decoded[i].cmd])
        BY DEF RawForms
    <2>3. CASE i = Len(st.decoded) + 1
        BY Zenon, <2>1, <2>2, <2>3
    <2>4. CASE i # Len(st.decoded) + 1
        <3>1. i \in 1..Len(st.decoded)
            BY <2>2, <2>4
        <3> QED
            BY Zenon, <2>2, <3>1 DEF RawForms
    <2> QED
        BY <2>3, <2>4
<1> HIDE DEF c, u
<1> QED
    BY Zenon, <1>5, <1>6, <1>7, <1>8, <1>9, <1>10 DEF Finds, u

\* Whatever part of encoded messages decode() is given, it finds those that are complete.
LEMMA FindsThem ==
    ASSUME CommandsAreSent, LengthsAreRead, NEW st \in State, ~st.failed,
           NEW ms \in Seq(Messages), NEW r \in Seq(Nat), st.unread \o r = Encoded[ms]
    PROVE  Finds(st, ms, r)
<1> DEFINE P == {s \in State : \A l \in Seq(Messages) :
                     ~s.failed /\ s.unread \o r = Encoded[l] => Finds(s, l, r)}
           rank == [s \in State |-> Len(s.unread)]
<1>1. rank \in [State -> Nat]
    BY DEF State
<1>2. ASSUME NEW s \in State, \A t \in State : rank[t] < rank[s] => t \in P
      PROVE  s \in P
    <2> SUFFICES ASSUME NEW l \in Seq(Messages), ~s.failed, s.unread \o r = Encoded[l]
                 PROVE  Finds(s, l, r)
        OBVIOUS
    <2> DEFINE u == s.unread
    <2>1. u \in Seq(Nat) /\ Len(u) \in Nat
        BY DEF State
    <2>2. CASE l = <<>>
        <3>1. u \o r = <<>>
            BY <2>2, EncodedUnfolds
        <3>2. Len(u \o r) = Len(u) + Len(r) /\ Len(r) \in Nat
            BY ONLY <2>1, ConcatFacts
        <3>3. Len(u) = 0
            BY <2>1, <3>1, <3>2
        <3>4. ~Throws(u) /\ ~Takes(u)
            BY <3>3 DEF Throws, Takes
        <3> QED
            BY Zenon, <2>2, <3>4, FindsNothing
    <2>3. CASE l # <<>>
        <3>1. PICK m \in Messages, tl \in Seq(Messages) :
                  l = <<m>> \o tl /\ Encoded[l] = encode(m) \o Encoded[tl]
            BY <2>3, FirstOfMessages
        <3> DEFINE e == encode(m)
                   w == Encoded[tl]
        <3>2. e \in Seq(Nat) /\ w \in Seq(Nat) /\ u \o r = e \o w
            BY <3>1, EncodeType, EncodedType
        <3>3. Len(Decimal[LengthOf(m)]) <= 10
            BY DEF LengthsAreRead
        <3>4. l[1] = m
            <4> DEFINE one == <<m>>
            <4>1. one \in Seq(Messages) /\ Len(one) = 1 /\ one[1] = m
                OBVIOUS
            <4> HIDE DEF one
            <4>2. \A i \in 1..Len(one) : (one \o tl)[i] = one[i]
                BY <4>1, ConcatFacts
            <4>3. 1 \in 1..Len(one)
                BY <4>1
            <4> QED
                BY Zenon, <3>1, <4>1, <4>2, <4>3 DEF one
        <3>5. CASE Len(u) < Len(e)
            <4>1. PICK t \in Seq(Nat) : t # <<>> /\ u \o t = e
                <5>1. EndsBefore(u, e)
                    BY Zenon, <2>1, <3>2, <3>5, TwoSplits
                <5> QED
                    BY Zenon, <5>1 DEF EndsBefore
            <4>2. ~Throws(u) /\ ~Takes(u)
                BY Zenon, <2>1, <3>3, <4>1, EncodedIsWaitedFor
            <4> QED
                BY Zenon, <3>4, <3>5, <4>2, FindsNothing
        <3>6. CASE ~(Len(u) < Len(e))
            <4>1. PICK t \in Seq(Nat) : u = e \o t /\ t \o r = w
                <5>1. GoesBeyond(u, r, e, w)
                    BY Zenon, <2>1, <3>2, <3>6, TwoSplits
                <5> QED
                    BY Zenon, <5>1 DEF GoesBeyond
            <4> HIDE DEF w
            <4>2. Takes(u)
                BY Zenon, <3>3, <4>1, EncodedIsTaken
            <4>3. Taken(s) \in State /\ Len(Taken(s).unread) < Len(u) /\ Taken(s).failed = s.failed
                  /\ Taken(s).unread = SubSeq(u, FrameLength(u) + 1, Len(u))
                BY <4>2, TakenType
            <4>4. Taken(s).unread = t
                <5>1. SubSeq(e \o t, FrameLength(e \o t) + 1, Len(e \o t)) = t
                    BY Zenon, <3>3, EncodedIsTaken
                <5> HIDE DEF e
                <5> QED
                    BY Zenon, <4>1, <4>3, <5>1
            <4>5. Taken(s) \in P
                BY <1>2, <4>3
            <4>6. Finds(Taken(s), tl, r)
                BY Zenon, <4>1, <4>3, <4>4, <4>5 DEF w
            <4>7. Finds(s, <<m>> \o tl, r)
                BY Zenon, <4>1, <4>2, <4>3, <4>6, FindsOneMore
            <4> QED
                BY Zenon, <3>1, <4>7
        <3> QED
            BY <3>5, <3>6
    <2> QED
        BY <2>2, <2>3
<1> HIDE DEF P, rank
<1>3. State \subseteq P
    BY <1>1, <1>2, RankInduction
<1>4. \A l \in Seq(Messages) : ~st.failed /\ st.unread \o r = Encoded[l] => Finds(st, l, r)
    BY <1>3 DEF P
<1> QED
    BY Zenon, <1>4

-----------------------------------------------------------------------------
(* The bytes on their way.                                                 *)

\* The messages sent are those found and then b, of which the unread and the pending bytes
\* are the encoding; the first of b has not arrived yet.
Waits(b) ==
    /\ Plain(decoded) \in Seq(Messages)
    /\ sent = Plain(decoded) \o b
    /\ delivered = Encoded[Plain(decoded)] \o unread
    /\ unread \o pending = Encoded[b]
    /\ b # <<>> => Len(unread) < Len(encode(b[1]))

MessagesInv ==
    /\ delivered = <<>> => unread = <<>> /\ decoded = <<>> /\ ~failed
    /\ sent # <<>> => ~failed /\ \E b \in Seq(Messages) : Waits(b)

RawInv == FramesAreShorter /\ sent # <<>> => RawForms(decoded)

\* Before the first message nothing is expected.
LEMMA NothingSent ==
    ASSUME sent = <<>>, delivered = <<>>, pending = <<>>, unread = <<>>, decoded = <<>>
    PROVE  Waits(<<>>)
<1> DEFINE none == <<>>
<1>1. none \in Seq(Messages) /\ none \o none = none /\ Encoded[none] = none
    <2>1. none \in Seq(Messages) /\ none \o none = none
        OBVIOUS
    <2> HIDE DEF none
    <2>2. none = <<>>
        BY DEF none
    <2>3. Encoded[none] = <<>>
        BY Zenon, <2>1, <2>2, EncodedUnfolds
    <2> QED
        BY Zenon, <2>1, <2>2, <2>3
<1>2. Plain(none) = none
    <2>1. none \in Seq(Frames) /\ Len(none) = 0
        OBVIOUS
    <2> HIDE DEF none
    <2>2. Plain(none) \in Seq(PlainMessages) /\ Len(Plain(none)) = 0
        BY <2>1, PlainFacts
    <2> QED
        BY <2>2 DEF none
<1>3. sent = none /\ delivered = none /\ pending = none /\ unread = none /\ decoded = none
    OBVIOUS
<1> HIDE DEF none
<1>4. none = <<>>
    BY DEF none
<1> QED
    BY Zenon, <1>1, <1>2, <1>3, <1>4 DEF Waits

\* One more message is waited for.
LEMMA SendWaits ==
    ASSUME DataOK, NEW m \in Messages, SendMessage(m), NEW b \in Seq(Messages), Waits(b)
    PROVE  \E c \in Seq(Messages) : Waits(c)'
<1> DEFINE e == encode(m)
           c == Append(b, m)
           p == Plain(decoded)
<1>1. /\ unread \in Seq(Nat) /\ pending \in Seq(Nat) /\ e \in Seq(Nat)
      /\ p \in Seq(Messages) /\ sent = p \o b /\ c \in Seq(Messages) /\ c # <<>>
    <2>1. unread \in Seq(Nat) /\ pending \in Seq(Nat) /\ e \in Seq(Nat)
        BY EncodeType DEF DataOK
    <2>2. p \in Seq(Messages) /\ sent = p \o b
        BY DEF Waits
    <2>3. c \in Seq(Messages) /\ c # <<>>
        <3>1. c \in Seq(Messages) /\ Len(c) = Len(b) + 1 /\ Len(b) \in Nat
            OBVIOUS
        <3> HIDE DEF c
        <3>2. Len(c) # 0
            BY <3>1
        <3> QED
            BY <3>1, <3>2
    <2> QED
        BY Zenon, <2>1, <2>2, <2>3
<1>2. /\ pending' = pending \o e /\ sent' = Append(sent, m)
      /\ delivered' = delivered /\ unread' = unread /\ decoded' = decoded
    BY DEF SendMessage
<1>3. sent' = p \o c
    <2>1. Append(p \o b, m) = p \o Append(b, m)
        BY Zenon, <1>1, AppendAssociates
    <2> QED
        BY Zenon, <1>1, <1>2, <2>1
<1>4. unread' \o pending' = Encoded[c]
    <2>1. Encoded[c] = Encoded[b] \o e
        BY EncodedOfAppend
    <2> HIDE DEF e, c
    <2>2. (unread \o pending) \o e = unread \o (pending \o e)
        BY Zenon, <1>1, BytesAssociate
    <2> QED
        BY Zenon, <1>2, <2>1, <2>2 DEF Waits
<1>5. Len(unread) < Len(encode(c[1]))
    <2>1. CASE b = <<>>
        <3>1. unread \o pending = <<>>
            BY <2>1, EncodedUnfolds DEF Waits
        <3>2. Len(unread) = 0
            BY <1>1, <3>1
        <3>3. c[1] = m
            BY <2>1
        <3>4. Len(e) > 0
            BY SMTT(30), EncodeType, DecimalFacts
        <3> HIDE DEF c
        <3> QED
            BY <3>2, <3>3, <3>4
    <2>2. CASE b # <<>>
        <3>1. c[1] = b[1]
            BY <2>2
        <3> HIDE DEF c
        <3> QED
            BY Zenon, <2>2, <3>1 DEF Waits
    <2> QED
        BY <2>1, <2>2
<1>6. Plain(decoded)' = p /\ Plain(decoded') = p
    BY Zenon, <1>2
<1> HIDE DEF c, p, e
<1>7. Waits(c)'
    BY Zenon, <1>1, <1>2, <1>3, <1>4, <1>5, <1>6 DEF Waits, p
<1> QED
    BY Zenon, <1>1, <1>7

\* What fits the buffer follows the unread bytes.
LEMMA WriteThatFits ==
    ASSUME NEW u \in Seq(Nat), NEW v, NEW chunk \in Seq(Nat), Len(u) + Len(chunk) <= BufferSize
    PROVE  AfterWrite(u, v, chunk).unread = u \o chunk
<1> DEFINE x == Len(u)
           k == Len(chunk)
           s == u \o chunk
<1>1. x \in Nat /\ k \in Nat /\ BufferSize \in Nat /\ x + k <= BufferSize
    BY SizesAssumption
<1>2. s \in Seq(Nat) /\ Len(s) = x + k
    BY ConcatFacts
<1>3. SubSeq(s, 1, x + k) = s
    <2>1. SubSeq(s, 1, Len(s)) = s
        <3> HIDE DEF s
        <3>1. SubSeq(s \o <<>>, 1, Len(s)) = s /\ s \o <<>> = s
            BY <1>2, Beginning
        <3> QED
            BY <3>1
    <2> QED
        BY Zenon, <1>2, <2>1
<1> HIDE DEF x, k, s
<1>4. Overflow(u, chunk) = 0 /\ ~(k > BufferSize)
    BY <1>1 DEF Overflow, x, k
<1>5. AfterWrite(u, v, chunk) = [unread |-> SubSeq(s, 0 + 1, x + k), valid |-> Advance(v, 0)]
    BY <1>4 DEF AfterWrite, x, k, s
<1>6. AfterWrite(u, v, chunk).unread = SubSeq(s, 0 + 1, x + k)
    <2> DEFINE y == SubSeq(s, 0 + 1, x + k)
               z == Advance(v, 0)
    <2>1. AfterWrite(u, v, chunk) = [unread |-> y, valid |-> z]
        BY <1>5
    <2> HIDE DEF y, z
    <2>2. AfterWrite(u, v, chunk).unread = y
        BY ONLY <2>1
    <2> QED
        BY <2>2 DEF y
<1>7. 0 + 1 = 1
    OBVIOUS
<1> QED
    BY Zenon, <1>3, <1>6, <1>7 DEF s

\* A read that finds room in the buffer.
LEMMA ReadGives ==
    ASSUME DataOK, NEW n \in 1..MaxChunk, Read(n), Len(unread) + n <= BufferSize
    PROVE  /\ Given(n).unread = unread \o SubSeq(pending, 1, n)
           /\ Given(n).decoded = decoded /\ Given(n).failed = FALSE
<1> DEFINE chunk == SubSeq(pending, 1, n)
           w == AfterWrite(unread, valid, chunk)
<1>1. chunk \in Seq(Nat) /\ Len(chunk) = n
    BY ReadFacts, ChunkFacts
<1>2. unread \in Seq(Nat)
    BY DEF DataOK
<1>3. Given(n) = [unread |-> w.unread, valid |-> w.valid, decoded |-> decoded, failed |-> FALSE]
    BY DEF Given
<1> HIDE DEF chunk
<1>4. w.unread = unread \o chunk
    BY <1>1, <1>2, WriteThatFits
<1> HIDE DEF w
<1>5. /\ Given(n).unread = w.unread /\ Given(n).decoded = decoded /\ Given(n).failed = FALSE
    BY <1>3
<1> QED
    BY Zenon, <1>4, <1>5 DEF chunk

\* As long as an awaited message is missing, the unread bytes and a chunk fit the buffer.
LEMMA ReadFits ==
    ASSUME DataOK, Room, NEW n \in 1..MaxChunk, Read(n), NEW b \in Seq(Messages), Waits(b)
    PROVE  Len(unread) + n <= BufferSize
<1>1. /\ unread \in Seq(Nat) /\ pending \in Seq(Nat) /\ Len(unread) \in Nat /\ Len(pending) \in Nat
      /\ n \in Nat /\ n >= 1 /\ n <= MaxChunk /\ n <= Len(pending)
      /\ MaxChunk \in Nat /\ BufferSize \in Nat
    BY ReadFacts, SizesAssumption DEF DataOK
<1>2. b # <<>>
    <2> SUFFICES ASSUME b = <<>> PROVE FALSE
        OBVIOUS
    <2>1. unread \o pending = <<>>
        BY EncodedUnfolds DEF Waits
    <2>2. Len(unread \o pending) = Len(unread) + Len(pending)
        BY ONLY <1>1, ConcatFacts
    <2>3. Len(unread \o pending) = 0
        BY ONLY <2>1
    <2> QED
        BY ONLY <1>1, <2>2, <2>3
<1>3. b[1] \in Messages
    <2>1. Len(b) \in Nat /\ Len(b) # 0
        BY <1>2
    <2> QED
        BY <2>1
<1>4. Len(unread) < Len(encode(b[1]))
    BY Zenon, <1>2 DEF Waits
<1>5. Len(encode(b[1])) + MaxChunk <= BufferSize + 1
    BY Zenon, <1>3 DEF Room
<1>6. Len(encode(b[1])) \in Nat
    BY <1>3, EncodeType
<1> QED
    BY ONLY <1>1, <1>4, <1>5, <1>6

\* After a read the messages that have arrived are found, and the others are waited for.
LEMMA ReadWaits ==
    ASSUME DataOK, Room, NEW n \in 1..MaxChunk, Read(n), NEW b \in Seq(Messages), Waits(b)
    PROVE  /\ ~failed' /\ \E c \in Seq(Messages) : Waits(c)'
           /\ (FramesAreShorter /\ RawForms(decoded)) => RawForms(decoded')
<1> DEFINE st == Given(n)
           d == Decode[Given(n)]
           chunk == SubSeq(pending, 1, n)
           rest == SubSeq(pending, n + 1, Len(pending))
           p == Plain(decoded)
<1>1. /\ st \in State /\ d \in State
      /\ unread' = d.unread /\ decoded' = d.decoded /\ failed' = d.failed
      /\ delivered' = delivered \o chunk /\ pending' = rest /\ sent' = sent
      /\ n <= Len(pending)
    BY ReadFacts
<1>2. /\ chunk \in Seq(Nat) /\ rest \in Seq(Nat) /\ pending = chunk \o rest
    BY <1>1, ChunkFacts
<1>3. /\ unread \in Seq(Nat) /\ p \in Seq(Messages) /\ sent = p \o b
      /\ delivered = Encoded[p] \o unread /\ unread \o pending = Encoded[b]
    BY DEF DataOK, Waits
<1>4. st.unread = unread \o chunk /\ st.decoded = decoded /\ ~st.failed
    BY ReadFits, ReadGives
<1> HIDE DEF st, chunk, rest, p
<1>5. st.unread \o rest = Encoded[b]
    <2>1. (unread \o chunk) \o rest = unread \o (chunk \o rest)
        BY ONLY <1>2, <1>3, BytesAssociate
    <2> QED
        BY Zenon, <1>2, <1>3, <1>4, <2>1
<1>6. Finds(st, b, rest)
    BY Zenon, <1>1, <1>2, <1>4, <1>5, FindsThem DEF Room
<1>7. PICK a \in Seq(Messages), c \in Seq(Messages) :
          /\ b = a \o c
          /\ ~d.failed
          /\ Plain(d.decoded) = Plain(st.decoded) \o a
          /\ st.unread = Encoded[a] \o d.unread
          /\ d.unread \o rest = Encoded[c]
          /\ c # <<>> => Len(d.unread) < Len(encode(c[1]))
          /\ (FramesAreShorter /\ RawForms(st.decoded)) => RawForms(d.decoded)
    BY Zenon, <1>6 DEF Finds, d, st
<1> HIDE DEF d
<1>8. d.unread \in Seq(Nat)
    BY <1>1 DEF State
<1> DEFINE q == p \o a
<1>9. q \in Seq(Messages) /\ sent = q \o c
    <2>1. p \in Seq(PlainMessages) /\ a \in Seq(PlainMessages) /\ c \in Seq(PlainMessages)
        BY Zenon, <1>3, <1>7, MessagesArePlain
    <2>2. (p \o a) \o c = p \o (a \o c)
        BY Zenon, <2>1, PlainAssociate
    <2>3. p \o a \in Seq(Messages)
        BY Zenon, <1>3, <1>7, ConcatFacts
    <2> QED
        BY Zenon, <1>3, <1>7, <2>2, <2>3
<1>10. Encoded[q] = Encoded[p] \o Encoded[a]
    BY Zenon, <1>3, <1>7, EncodedOfConcat
<1>11. delivered \o chunk = Encoded[q] \o d.unread
    <2> DEFINE x == Encoded[p]
               y == Encoded[a]
               z == d.unread
    <2>1. x \in Seq(Nat) /\ y \in Seq(Nat) /\ z \in Seq(Nat)
        BY Zenon, <1>3, <1>7, <1>8, EncodedType
    <2>2. delivered = x \o unread /\ unread \o chunk = y \o z /\ Encoded[q] = x \o y
        BY Zenon, <1>3, <1>4, <1>7, <1>10
    <2> HIDE DEF x, y, z, q
    <2>3. unread \in Seq(Nat) /\ chunk \in Seq(Nat)
        BY <1>2, <1>3
    <2>4. (x \o unread) \o chunk = x \o (unread \o chunk)
        BY ONLY ZenonT(60), <2>1, <2>3, BytesAssociate
    <2>5. (x \o y) \o z = x \o (y \o z)
        BY ONLY <2>1, BytesAssociate
    <2> QED
        BY Zenon, <2>2, <2>4, <2>5 DEF z
<1>12. Plain(decoded') = q
    BY Zenon, <1>1, <1>4, <1>7 DEF p
<1> HIDE DEF q
<1>13. Waits(c)'
    BY Zenon, <1>1, <1>7, <1>9, <1>11, <1>12 DEF Waits
<1> QED
    BY Zenon, <1>1, <1>4, <1>7, <1>13

\* Nothing is expected in the beginning.
LEMMA MessagesInit == Init => MessagesInv /\ RawInv
BY Zenon DEF Init, MessagesInv, RawInv

\* Messages that have arrived are found, and no others, after every step.
LEMMA MessagesNext ==
    ASSUME Room, DataOK, MessagesInv, [Next]_vars
    PROVE  MessagesInv'
<1>1. ASSUME NEW m \in Messages, SendMessage(m) PROVE MessagesInv'
    <2>1. /\ delivered' = delivered /\ unread' = unread /\ decoded' = decoded /\ failed' = failed
          /\ (sent = <<>> => Written = 0)
        BY <1>1 DEF SendMessage
    <2>2. CASE sent = <<>>
        <3>1. delivered = <<>> /\ pending = <<>>
            <4>1. Len(delivered) \in Nat /\ Len(pending) \in Nat
                BY DEF DataOK
            <4>2. Len(delivered) + Len(pending) = 0
                BY <2>1, <2>2 DEF Written
            <4>3. Len(delivered) = 0 /\ Len(pending) = 0
                BY ONLY <4>1, <4>2
            <4> QED
                BY <4>3 DEF DataOK
        <3>2. unread = <<>> /\ decoded = <<>> /\ ~failed
            BY Zenon, <3>1 DEF MessagesInv
        <3>3. Waits(<<>>) /\ <<>> \in Seq(Messages)
            <4>1. <<>> \in Seq(Messages)
                OBVIOUS
            <4> QED
                BY Zenon, <2>2, <3>1, <3>2, <4>1, NothingSent
        <3>4. \E c \in Seq(Messages) : Waits(c)'
            BY Zenon, <1>1, <3>3, SendWaits
        <3> QED
            BY Zenon, <2>1, <3>2, <3>4 DEF MessagesInv
    <2>3. CASE sent # <<>>
        <3>1. ~failed /\ \E c \in Seq(Messages) : Waits(c)'
            BY Zenon, <1>1, <2>3, SendWaits DEF MessagesInv
        <3> QED
            BY Zenon, <2>1, <3>1 DEF MessagesInv
    <2> QED
        BY <2>2, <2>3
<1>2. ASSUME NEW bytes \in RawChunks, SendRaw(bytes) PROVE MessagesInv'
    BY Zenon, <1>2 DEF SendRaw, MessagesInv
<1>3. ASSUME NEW n \in 1..MaxChunk, Read(n) PROVE MessagesInv'
    <2>1. delivered' # <<>>
        <3> DEFINE chunk == SubSeq(pending, 1, n)
        <3>1. delivered' = delivered \o chunk /\ chunk \in Seq(Nat) /\ Len(chunk) = n
            BY <1>3, ReadFacts, ChunkFacts
        <3>2. delivered \in Seq(Nat) /\ n \in Nat /\ n >= 1
            BY SizesAssumption DEF DataOK
        <3> HIDE DEF chunk
        <3>3. Len(delivered \o chunk) = Len(delivered) + Len(chunk) /\ Len(delivered) \in Nat
            BY ONLY <3>1, <3>2, ConcatFacts
        <3>4. Len(delivered') # 0
            BY <3>1, <3>2, <3>3
        <3> QED
            BY <3>4
    <2>2. sent' = sent
        BY <1>3 DEF Read
    <2>3. sent # <<>> => ~failed' /\ \E c \in Seq(Messages) : Waits(c)'
        BY Zenon, <1>3, ReadWaits DEF MessagesInv
    <2> QED
        BY Zenon, <2>1, <2>2, <2>3 DEF MessagesInv
<1>4. ASSUME UNCHANGED vars PROVE MessagesInv'
    <2>1. \A b : Waits(b) => Waits(b)'
        BY Zenon, <1>4 DEF vars, Waits
    <2> QED
        BY Zenon, <1>4, <2>1 DEF vars, MessagesInv
<1> QED
    BY Zenon, <1>1, <1>2, <1>3, <1>4 DEF Next

\* So have their raw forms the form in which they were sent.
LEMMA RawNext ==
    ASSUME Room, DataOK, MessagesInv, RawInv, [Next]_vars
    PROVE  RawInv'
<1> SUFFICES ASSUME FramesAreShorter, sent' # <<>> PROVE RawForms(decoded')
    BY DEF RawInv
<1>1. ASSUME NEW m \in Messages, SendMessage(m) PROVE RawForms(decoded')
    <2>1. decoded' = decoded /\ (sent = <<>> => Written = 0)
        BY <1>1 DEF SendMessage
    <2>2. CASE sent = <<>>
        <3>1. Len(delivered) \in Nat /\ Len(pending) \in Nat
            BY DEF DataOK
        <3>2. Len(delivered) + Len(pending) = 0
            BY <2>1, <2>2 DEF Written
        <3>3. Len(delivered) = 0
            BY ONLY <3>1, <3>2
        <3>4. delivered = <<>>
            BY <3>3 DEF DataOK
        <3>5. decoded' = <<>>
            BY Zenon, <2>1, <3>4 DEF MessagesInv
        <3> QED
            BY <3>5 DEF RawForms
    <2>3. CASE sent # <<>>
        BY Zenon, <2>1, <2>3 DEF RawInv
    <2> QED
        BY <2>2, <2>3
<1>2. ASSUME NEW bytes \in RawChunks, SendRaw(bytes) PROVE RawForms(decoded')
    BY Zenon, <1>2 DEF SendRaw, RawInv
<1>3. ASSUME NEW n \in 1..MaxChunk, Read(n) PROVE RawForms(decoded')
    <2>1. sent # <<>>
        BY <1>3 DEF Read
    <2> QED
        BY Zenon, <1>3, <2>1, ReadWaits DEF MessagesInv, RawInv
<1>4. ASSUME UNCHANGED vars PROVE RawForms(decoded')
    BY Zenon, <1>4 DEF vars, RawInv
<1> QED
    BY Zenon, <1>1, <1>2, <1>3, <1>4 DEF Next

\* What the invariant says of the messages, by their places.
LEMMA WaitsMeans ==
    ASSUME DataOK, NEW b \in Seq(Messages), Waits(b)
    PROVE  /\ Plain(decoded) = SubSeq(sent, 1, Len(decoded))
           /\ Len(decoded) < Len(sent) =>
                  Len(unread) < Len(encode(sent[Len(decoded) + 1]))
<1> DEFINE p == Plain(decoded)
           n == Len(decoded)
<1>1. p \in Seq(Messages) /\ sent = p \o b
    BY DEF Waits
<1>2. Len(p) = n /\ n \in Nat
    <2>1. decoded \in Seq(Frames)
        BY DEF DataOK
    <2> QED
        BY <2>1, PlainFacts
<1> HIDE DEF p, n
<1>3. SubSeq(p \o b, 1, Len(p)) = p
    BY ONLY <1>1, Beginning
<1>4. p = SubSeq(sent, 1, n)
    BY Zenon, <1>1, <1>2, <1>3
<1>5. ASSUME n < Len(sent) PROVE Len(unread) < Len(encode(sent[n + 1]))
    <2>1. Len(p \o b) = Len(p) + Len(b) /\ \A i \in 1..Len(b) : (p \o b)[Len(p) + i] = b[i]
        BY ONLY <1>1, ConcatFacts
    <2>2. Len(b) \in Nat /\ Len(b) # 0
        BY <1>1, <1>2, <1>5, <2>1
    <2>3. b # <<>> /\ 1 \in 1..Len(b)
        BY <2>2
    <2>4. sent[n + 1] = b[1]
        BY Zenon, <1>1, <1>2, <2>1, <2>3
    <2> QED
        BY Zenon, <2>3, <2>4 DEF Waits
<1> QED
    BY Zenon, <1>4, <1>5 DEF p, n

(* Of a stream of encoded messages the decoder has given out, in order and  *)
(* unchanged, exactly those that have arrived completely, wherever the      *)
(* reads cut them, and it never throws.                                     *)
THEOREM MessagesArrive ==
    ASSUME Room
    PROVE  Spec => []DecodesWhatArrived
<1>1. Init => MessagesInv
    BY MessagesInit
<1>2. DataOK /\ MessagesInv /\ [Next]_vars => MessagesInv'
    BY Room, MessagesNext
<1>3. DataOK /\ MessagesInv => DecodesWhatArrived
    <2> SUFFICES ASSUME DataOK, MessagesInv, sent # <<>>
                 PROVE  /\ ~failed
                        /\ Plain(decoded) = SubSeq(sent, 1, Len(decoded))
                        /\ delivered = Encoded[Plain(decoded)] \o unread
                        /\ Len(decoded) < Len(sent) =>
                               Len(unread) < Len(encode(sent[Len(decoded) + 1]))
        BY Zenon DEF DecodesWhatArrived
    <2>1. PICK b \in Seq(Messages) : Waits(b)
        BY Zenon DEF MessagesInv
    <2> QED
        BY Zenon, <2>1, WaitsMeans DEF MessagesInv, Waits
<1> QED
    BY <1>1, <1>2, <1>3, DataInvariant, PTL DEF Spec

(* The raw form that is handed out beside a message, and that a server's    *)
(* ping is answered with, is the message as it was encoded, as long as no   *)
(* message fills the buffer.                                                *)
THEOREM RawFormsAreKept ==
    ASSUME Room, FramesAreShorter
    PROVE  Spec => []SerializedIsTheFrame
<1>1. Init => MessagesInv /\ RawInv
    BY MessagesInit
<1>2. DataOK /\ MessagesInv /\ RawInv /\ [Next]_vars => MessagesInv' /\ RawInv'
    BY Zenon, Room, MessagesNext, RawNext
<1>3. DataOK /\ RawInv => SerializedIsTheFrame
    <2> SUFFICES ASSUME DataOK, RawInv, sent # <<>>, NEW i \in DOMAIN decoded
                 PROVE  decoded[i].serialized =
                            encode([payload |-> decoded[i].payload, cmd |-> decoded[i].cmd])
        BY Zenon DEF SerializedIsTheFrame
    <2>1. i \in 1..Len(decoded)
        BY DEF DataOK
    <2> QED
        BY Zenon, FramesAreShorter, <2>1 DEF RawInv, RawForms
<1> QED
    BY <1>1, <1>2, <1>3, DataInvariant, PTL DEF Spec

-----------------------------------------------------------------------------
(* Bytes cut into chunks, and all of them at once.                         *)

\* A decoder that is given bytes and has found nothing yet.
Fresh(bytes) == [unread |-> bytes, valid |-> 0, decoded |-> <<>>, failed |-> FALSE]

\* It is one of the decoder's states.
LEMMA FreshType ==
    ASSUME NEW bytes \in Seq(Nat)
    PROVE  /\ Fresh(bytes) \in State
           /\ Fresh(bytes).unread = bytes /\ Fresh(bytes).decoded = <<>>
           /\ Fresh(bytes).failed = FALSE
BY DEF Fresh, State

\* decode() adds nothing to the unread bytes.
LEMMA DecodeShortens ==
    ASSUME NEW st \in State
    PROVE  Len(Decode[st].unread) <= Len(st.unread)
<1> DEFINE P == {s \in State : Len(Decode[s].unread) <= Len(s.unread)}
           rank == [s \in State |-> Len(s.unread)]
<1>1. rank \in [State -> Nat]
    BY DEF State
<1>2. ASSUME NEW s \in State, \A t \in State : rank[t] < rank[s] => t \in P
      PROVE  s \in P
    <2> DEFINE n == Len(s.unread)
               k == Len(Decode[s].unread)
    <2>1. n \in Nat /\ k \in Nat
        BY DecodeType DEF State
    <2>2. CASE Takes(s.unread)
        <3>1. Taken(s) \in State /\ Len(Taken(s).unread) < n /\ Decode[s] = Decode[Taken(s)]
            BY <2>2, TakenType, DecodeCases
        <3>2. Taken(s) \in P
            BY <1>2, <3>1
        <3> DEFINE l == Len(Taken(s).unread)
        <3>3. l \in Nat /\ k <= l /\ l < n
            <4>1. l \in Nat
                BY <3>1 DEF State
            <4> QED
                BY Zenon, <3>1, <3>2, <4>1
        <3> HIDE DEF n, k, l
        <3>4. k <= n
            BY <2>1, <3>3
        <3> QED
            BY <3>4 DEF n, k
    <2>3. CASE Throws(s.unread)
        <3>1. Decode[s] = Thrown(s)
            BY Zenon, <2>3, DecodeUnfolds, StepCases
        <3>2. Thrown(s).unread = s.unread
            BY DEF Thrown, State
        <3>3. k = n
            BY Zenon, <3>1, <3>2
        <3> HIDE DEF n, k
        <3>4. k <= n
            BY <2>1, <3>3
        <3> QED
            BY <3>4 DEF n, k
    <2>4. CASE ~Takes(s.unread) /\ ~Throws(s.unread)
        <3>1. k = n
            BY Zenon, <2>4, DecodeCases
        <3> HIDE DEF n, k
        <3>2. k <= n
            BY <2>1, <3>1
        <3> QED
            BY <3>2 DEF n, k
    <2> QED
        BY <2>2, <2>3, <2>4
<1> HIDE DEF P, rank
<1>3. State \subseteq P
    BY <1>1, <1>2, RankInduction
<1> QED
    BY <1>3 DEF P

\* The decoder has found what one that is given all bytes at once finds, and has the same
\* left to read.
ChunksInv ==
    LET whole == Decode[Fresh(delivered)]
    IN  /\ failed = whole.failed
        /\ Plain(decoded) = Plain(whole.decoded)
        /\ ~failed => unread = whole.unread

\* The bytes written without encode(), and those of them that are unread.
RawLengths ==
    sent = <<>> => /\ Len(delivered) + Len(pending) <= MaxRaw
                   /\ Len(unread) <= Len(delivered)

\* In the beginning there are no bytes to be cut.
LEMMA ChunksInit == Init => ChunksInv /\ RawLengths
<1> SUFFICES ASSUME Init PROVE ChunksInv /\ RawLengths
    OBVIOUS
<1> DEFINE none == <<>>
<1>1. none \in Seq(Nat) /\ Len(none) = 0
    OBVIOUS
<1>2. delivered = none /\ pending = none /\ unread = none /\ decoded = none /\ failed = FALSE
    BY DEF Init
<1> HIDE DEF none
<1>3. ~Throws(none) /\ ~Takes(none)
    BY <1>1 DEF Throws, Takes
<1>4. /\ Fresh(none) \in State /\ Fresh(none).unread = none /\ Fresh(none).decoded = none
      /\ Fresh(none).failed = FALSE
    BY <1>1, FreshType DEF none
<1>5. /\ Decode[Fresh(none)].unread = none /\ Decode[Fresh(none)].decoded = none
      /\ Decode[Fresh(none)].failed = FALSE
    BY Zenon, <1>3, <1>4, DecodeCases
<1>6. ChunksInv
    BY Zenon, <1>2, <1>5 DEF ChunksInv
<1>7. RawLengths
    BY <1>1, <1>2, SizesAssumption DEF RawLengths
<1> QED
    BY <1>6, <1>7

\* What is unread and a chunk fit the buffer.
LEMMA ChunkFits ==
    ASSUME Room, DataOK, MessagesInv, RawLengths, NEW n \in 1..MaxChunk, Read(n)
    PROVE  Len(unread) + n <= BufferSize
<1>1. CASE sent = <<>>
    <2>1. /\ Len(unread) \in Nat /\ Len(delivered) \in Nat /\ Len(pending) \in Nat
          /\ MaxRaw \in Nat /\ BufferSize \in Nat
        BY SizesAssumption DEF DataOK
    <2>2. /\ Len(delivered) + Len(pending) <= MaxRaw /\ Len(unread) <= Len(delivered)
          /\ MaxRaw <= BufferSize
        BY Zenon, <1>1 DEF RawLengths, Room
    <2>3. n <= Len(pending) /\ n \in Nat
        BY ReadFacts, SizesAssumption
    <2> QED
        BY ONLY <2>1, <2>2, <2>3
<1>2. CASE sent # <<>>
    <2>1. PICK b \in Seq(Messages) : Waits(b)
        BY Zenon, <1>2 DEF MessagesInv
    <2> QED
        BY <2>1, ReadFits
<1> QED
    BY <1>1, <1>2

\* A read leaves the decoder where all the bytes at once would have left it.
LEMMA ReadIsWhole ==
    ASSUME DataOK, ChunksInv, NEW n \in 1..MaxChunk, Read(n), Len(unread) + n <= BufferSize
    PROVE  ChunksInv'
<1> DEFINE st == Given(n)
           chunk == SubSeq(pending, 1, n)
           old == Fresh(delivered)
           new == Fresh(delivered \o chunk)
           w == Decode[old]
<1>1. /\ st \in State /\ ~failed
      /\ unread' = Decode[st].unread /\ decoded' = Decode[st].decoded
      /\ failed' = Decode[st].failed /\ delivered' = delivered \o chunk
    BY ReadFacts
<1>2. chunk \in Seq(Nat) /\ delivered \in Seq(Nat)
    BY ReadFacts, ChunkFacts DEF DataOK
<1>3. st.unread = unread \o chunk /\ st.decoded = decoded /\ st.failed = FALSE
    BY Zenon, ReadGives
<1> HIDE DEF chunk, st
<1>4. delivered \o chunk \in Seq(Nat)
    BY ONLY <1>2, ConcatFacts
<1>5. /\ old \in State /\ old.unread = delivered /\ old.decoded = <<>> /\ old.failed = FALSE
      /\ new \in State /\ new.unread = delivered \o chunk /\ new.decoded = <<>>
      /\ new.failed = FALSE
    BY Zenon, <1>2, <1>4, FreshType
<1>6. failed = w.failed /\ Plain(decoded) = Plain(w.decoded) /\ unread = w.unread
    BY Zenon, <1>1 DEF ChunksInv
<1> HIDE DEF old, new
<1>7. Longer(old, chunk, new)
    BY Zenon, <1>5 DEF Longer
<1>8. GoesOn(old, chunk, new)
    BY Zenon, <1>2, <1>5, <1>7, LongerGoesOn
<1>9. PICK x \in State : Longer(w, chunk, x) /\ Decode[new] = Decode[x]
    BY Zenon, <1>1, <1>6, <1>8 DEF GoesOn
<1> HIDE DEF w
<1>10. Longer(st, <<>>, x)
    <2>1. st.unread \in Seq(Nat)
        BY <1>1 DEF State
    <2>2. st.unread \o <<>> = st.unread
        BY <2>1
    <2>3. /\ x.unread = unread \o chunk /\ Plain(x.decoded) = Plain(decoded) /\ ~x.failed
        BY Zenon, <1>6, <1>9 DEF Longer
    <2> QED
        BY Zenon, <1>3, <2>2, <2>3 DEF Longer
<1>11. /\ Decode[x].unread = Decode[st].unread \/ Decode[st].failed
       /\ Decode[x].failed = Decode[st].failed
       /\ Plain(Decode[x].decoded) = Plain(Decode[st].decoded)
    BY Zenon, <1>1, <1>9, <1>10, PointersDoNotMatter
<1>12. Fresh(delivered)' = new /\ Fresh(delivered') = new
    BY Zenon, <1>1 DEF new
<1>13. /\ failed' = Decode[new].failed /\ Plain(decoded') = Plain(Decode[new].decoded)
       /\ ~failed' => unread' = Decode[new].unread
    BY Zenon, <1>1, <1>9, <1>11
<1> QED
    BY Zenon, <1>12, <1>13 DEF ChunksInv

\* What the cut bytes lead to is what all of them at once lead to, after every step.
LEMMA ChunksNext ==
    ASSUME Room, DataOK, MessagesInv, ChunksInv, RawLengths, [Next]_vars
    PROVE  ChunksInv' /\ RawLengths'
<1>1. ASSUME NEW m \in Messages, SendMessage(m) PROVE ChunksInv' /\ RawLengths'
    <2>1. /\ delivered' = delivered /\ unread' = unread /\ decoded' = decoded /\ failed' = failed
          /\ sent' = Append(sent, m)
        BY <1>1 DEF SendMessage
    <2>2. sent' # <<>>
        <3>1. sent \in Seq(Messages)
            BY DEF DataOK
        <3> QED
            BY <2>1, <3>1
    <2>3. Fresh(delivered)' = Fresh(delivered)
        BY Zenon, <2>1 DEF Fresh
    <2> QED
        BY Zenon, <2>1, <2>2, <2>3 DEF ChunksInv, RawLengths
<1>2. ASSUME NEW bytes \in RawChunks, SendRaw(bytes) PROVE ChunksInv' /\ RawLengths'
    <2>1. /\ delivered' = delivered /\ unread' = unread /\ decoded' = decoded /\ failed' = failed
          /\ sent' = sent /\ sent = <<>> /\ pending' = pending \o bytes
          /\ Written + Len(bytes) <= MaxRaw
        BY <1>2 DEF SendRaw
    <2>2. Fresh(delivered)' = Fresh(delivered)
        BY Zenon, <2>1 DEF Fresh
    <2>3. Len(delivered) + Len(pending') <= MaxRaw
        <3>1. pending \in Seq(Nat) /\ delivered \in Seq(Nat) /\ bytes \in Seq(Nat)
            BY BytesAssumption DEF DataOK
        <3>2. Len(pending \o bytes) = Len(pending) + Len(bytes)
            BY ONLY <3>1, ConcatFacts
        <3>3. Len(pending) \in Nat /\ Len(bytes) \in Nat /\ Len(delivered) \in Nat
            BY <3>1
        <3>4. Len(delivered) + Len(pending) + Len(bytes) <= MaxRaw
            BY <2>1 DEF Written
        <3>5. Len(pending') = Len(pending) + Len(bytes)
            BY Zenon, <2>1, <3>2
        <3> QED
            BY ONLY <3>3, <3>4, <3>5, SizesAssumption
    <2> QED
        BY Zenon, <2>1, <2>2, <2>3 DEF ChunksInv, RawLengths
<1>3. ASSUME NEW n \in 1..MaxChunk, Read(n) PROVE ChunksInv' /\ RawLengths'
    <2>1. Len(unread) + n <= BufferSize
        BY <1>3, ChunkFits
    <2>2. ChunksInv'
        BY <1>3, <2>1, ReadIsWhole
    <2>3. ASSUME sent' = <<>>
          PROVE  Len(delivered') + Len(pending') <= MaxRaw /\ Len(unread') <= Len(delivered')
        <3> DEFINE chunk == SubSeq(pending, 1, n)
                   rest == SubSeq(pending, n + 1, Len(pending))
        <3>1. /\ delivered' = delivered \o chunk /\ pending' = rest /\ sent' = sent
              /\ Given(n) \in State /\ unread' = Decode[Given(n)].unread
            BY <1>3, ReadFacts
        <3>2. /\ chunk \in Seq(Nat) /\ rest \in Seq(Nat) /\ Len(chunk) = n
              /\ pending = chunk \o rest /\ delivered \in Seq(Nat) /\ unread \in Seq(Nat)
            BY <1>3, ReadFacts, ChunkFacts DEF DataOK
        <3>3. Given(n).unread = unread \o chunk
            BY Zenon, <1>3, <2>1, ReadGives
        <3>4. Len(unread') <= Len(Given(n).unread)
            BY Zenon, <3>1, DecodeShortens
        <3> HIDE DEF chunk, rest
        <3>5. /\ Len(delivered \o chunk) = Len(delivered) + Len(chunk)
              /\ Len(unread \o chunk) = Len(unread) + Len(chunk)
              /\ Len(chunk \o rest) = Len(chunk) + Len(rest)
            BY ONLY <3>2, ConcatFacts
        <3>6. /\ Len(delivered) \in Nat /\ Len(unread) \in Nat /\ Len(chunk) \in Nat
              /\ Len(rest) \in Nat
            BY ONLY <3>2
        <3>7. Len(delivered) + Len(pending) <= MaxRaw /\ Len(unread) <= Len(delivered)
            BY Zenon, <2>3, <3>1 DEF RawLengths
        <3>8. /\ Len(delivered') = Len(delivered) + Len(chunk)
              /\ Len(pending') = Len(rest) /\ Len(pending) = Len(chunk) + Len(rest)
              /\ Len(unread') <= Len(unread) + Len(chunk)
            BY Zenon, <3>1, <3>2, <3>3, <3>4, <3>5
        <3>9. Len(unread') \in Nat
            BY <1>3, DataNext DEF DataOK, Next
        <3> QED
            BY ONLY <3>6, <3>7, <3>8, <3>9, SizesAssumption
    <2> QED
        BY Zenon, <2>2, <2>3 DEF RawLengths
<1>4. ASSUME UNCHANGED vars PROVE ChunksInv' /\ RawLengths'
    <2>1. Fresh(delivered)' = Fresh(delivered)
        BY Zenon, <1>4 DEF Fresh, vars
    <2> QED
        BY Zenon, <1>4, <2>1 DEF vars, ChunksInv, RawLengths
<1> QED
    BY Zenon, <1>1, <1>2, <1>3, <1>4 DEF Next

(* However the bytes of a peer are cut into chunks, well formed or not, the *)
(* decoder has found the messages, and the error, that it finds when it is  *)
(* given all of them at once.                                               *)
THEOREM CutsDoNotMatter ==
    ASSUME Room
    PROVE  Spec => []ChunksDoNotMatter
<1>1. Init => MessagesInv /\ ChunksInv /\ RawLengths
    BY MessagesInit, ChunksInit
<1>2. DataOK /\ MessagesInv /\ ChunksInv /\ RawLengths /\ [Next]_vars
          => MessagesInv' /\ ChunksInv' /\ RawLengths'
    BY Zenon, Room, MessagesNext, ChunksNext
<1>3. ChunksInv => ChunksDoNotMatter
    BY Zenon DEF ChunksInv, ChunksDoNotMatter, Fresh
<1> QED
    BY <1>1, <1>2, <1>3, DataInvariant, PTL DEF Spec
=============================================================================
