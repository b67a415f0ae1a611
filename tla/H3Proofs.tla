------------------------------- MODULE H3Proofs -------------------------------
(***************************************************************************)
(* What one end writes with the h3 package the other end reads, for every   *)
(* settings map and every status.                                          *)
(***************************************************************************)
EXTENDS H3, FiniteSetTheorems, TLAPS

\* The only pair with a name is the last one.
LEMMA LastOfOne ==
    ASSUME NEW pairs, NEW name, NEW other, NEW i \in DOMAIN pairs, i \in Nat,
           pairs[i][1] = name, \A j \in DOMAIN pairs : pairs[j][1] = name => j = i
    PROVE  Last(pairs, name, other) = pairs[i][2]
<1>1. Positions(pairs, name) = {i}
    BY DEF Positions
<1>2. Max({i}) = i
    BY DEF Max
<1> QED
    BY <1>1, <1>2 DEF Last

\* A list without the name gives the other value.
LEMMA LastOfNone ==
    ASSUME NEW pairs, NEW name, NEW other, \A j \in DOMAIN pairs : pairs[j][1] # name
    PROVE  Last(pairs, name, other) = other
BY DEF Last, Positions

\* A list of settings, each an id and a value.
Setting  == Nat \X Nat
Settings == Seq(Setting)

\* A setting written before a list of them.
LEMMA ConsFacts ==
    ASSUME NEW x \in Setting, NEW s \in Settings
    PROVE  /\ <<x>> \o s \in Settings
           /\ DOMAIN s = 1..Len(s) /\ Len(s) \in Nat
           /\ DOMAIN (<<x>> \o s) = 1..(Len(s) + 1)
           /\ (<<x>> \o s)[1] = x
           /\ \A i \in DOMAIN s : i + 1 \in DOMAIN (<<x>> \o s) /\ (<<x>> \o s)[i + 1] = s[i]
           /\ \A i \in DOMAIN (<<x>> \o s) : i = 1 \/ i - 1 \in DOMAIN s
<1>1. ASSUME NEW S, NEW y \in S, NEW t \in Seq(S)
      PROVE  /\ <<y>> \o t \in Seq(S)
             /\ DOMAIN t = 1..Len(t) /\ Len(t) \in Nat
             /\ DOMAIN (<<y>> \o t) = 1..(Len(t) + 1)
             /\ (<<y>> \o t)[1] = y
             /\ \A i \in DOMAIN t : i + 1 \in DOMAIN (<<y>> \o t) /\ (<<y>> \o t)[i + 1] = t[i]
             /\ \A i \in DOMAIN (<<y>> \o t) : i = 1 \/ i - 1 \in DOMAIN t
    OBVIOUS
<1> QED
    BY Zenon, <1>1 DEF Settings

\* What a list has as a sequence.
LEMMA SettingsFacts ==
    ASSUME NEW s \in Settings
    PROVE  Len(s) \in Nat /\ DOMAIN s = 1..Len(s)
<1>1. ASSUME NEW S, NEW t \in Seq(S) PROVE Len(t) \in Nat /\ DOMAIN t = 1..Len(t)
    OBVIOUS
<1> QED
    BY Zenon, <1>1 DEF Settings

\* An id and a value are two numbers.
LEMMA TwoNumbers == IsFiniteSet({1, 2}) /\ Cardinality({1, 2}) = 2
<1>1. {1, 2} = {1} \cup {2} /\ 2 \notin {1}
    OBVIOUS
<1>2. IsFiniteSet({1}) /\ Cardinality({1}) = 1
    BY FS_Singleton
<1>3. IsFiniteSet({1} \cup {2}) /\ Cardinality({1} \cup {2}) = 1 + 1
    BY <1>1, <1>2, FS_AddElement
<1> QED
    BY <1>1, <1>3

Numbers(settings, k) ==
    {p \in (DOMAIN settings) \X {1, 2} : VarintLen(settings[p[1]][p[2]]) = k}

\* The numbers of a list that take so many bytes can be counted, and there are at most
\* two for every setting.
LEMMA NumbersFinite ==
    ASSUME NEW s \in Settings, NEW k
    PROVE  /\ IsFiniteSet(Numbers(s, k)) /\ Taking(s, k) = Cardinality(Numbers(s, k))
           /\ Taking(s, k) \in Nat /\ Taking(s, k) <= 2 * Len(s)
<1>1. Len(s) \in Nat /\ DOMAIN s = 1..Len(s)
    BY SettingsFacts
<1>2. IsFiniteSet(DOMAIN s) /\ Cardinality(DOMAIN s) = Len(s)
    <2>1. ASSUME NEW n \in Nat PROVE IsFiniteSet(1..n) /\ Cardinality(1..n) = n
        BY FS_Interval
    <2> QED
        BY <1>1, <2>1
<1>3. IsFiniteSet({1, 2}) /\ Cardinality({1, 2}) = 2
    BY TwoNumbers
<1>4. /\ IsFiniteSet((DOMAIN s) \X {1, 2})
      /\ Cardinality((DOMAIN s) \X {1, 2}) = Len(s) * 2
    <2>1. /\ IsFiniteSet((DOMAIN s) \X {1, 2})
          /\ Cardinality((DOMAIN s) \X {1, 2}) = Cardinality(DOMAIN s) * Cardinality({1, 2})
        BY <1>2, <1>3, FS_Product
    <2> QED
        BY <1>2, <1>3, <2>1
<1>5. Numbers(s, k) \in SUBSET ((DOMAIN s) \X {1, 2})
    BY DEF Numbers
<1>6. /\ IsFiniteSet(Numbers(s, k))
      /\ Cardinality(Numbers(s, k)) <= Cardinality((DOMAIN s) \X {1, 2})
    BY <1>4, <1>5, FS_Subset
<1>7. Cardinality(Numbers(s, k)) \in Nat
    BY <1>6, FS_CardinalityType
<1>8. Taking(s, k) = Cardinality(Numbers(s, k))
    BY DEF Taking, Numbers
<1> QED
    BY <1>1, <1>4, <1>6, <1>7, <1>8

\* A setting before a list adds its own two numbers.
LEMMA TakingCons ==
    ASSUME NEW x \in Setting, NEW s \in Settings, NEW k
    PROVE  Taking(<<x>> \o s, k) = Taking(s, k)
               + (IF VarintLen(x[1]) = k THEN 1 ELSE 0)
               + (IF VarintLen(x[2]) = k THEN 1 ELSE 0)
<1> DEFINE u == <<x>> \o s
           T == {p \in Numbers(u, k) : p[1] # 1}
           f == [p \in Numbers(s, k) |-> <<p[1] + 1, p[2]>>]
<1>1. /\ u \in Settings
      /\ DOMAIN s = 1..Len(s) /\ Len(s) \in Nat /\ DOMAIN u = 1..(Len(s) + 1)
      /\ u[1] = x
      /\ \A i \in DOMAIN s : i + 1 \in DOMAIN u /\ u[i + 1] = s[i]
      /\ \A i \in DOMAIN u : i = 1 \/ i - 1 \in DOMAIN s
    BY ConsFacts
<1> HIDE DEF u
<1>2. f \in Bijection(Numbers(s, k), T)
    <2>1. ASSUME NEW p \in Numbers(s, k) PROVE f[p] \in T
        <3>1. p \in (DOMAIN s) \X {1, 2} /\ VarintLen(s[p[1]][p[2]]) = k
            BY DEF Numbers
        <3>2. p[1] \in DOMAIN s /\ p[2] \in {1, 2} /\ p[1] + 1 # 1
            BY <1>1, <3>1
        <3>3. p[1] + 1 \in DOMAIN u /\ u[p[1] + 1] = s[p[1]]
            BY <1>1, <3>2
        <3> QED
            BY <3>1, <3>2, <3>3 DEF Numbers
    <2>2. ASSUME NEW p \in Numbers(s, k), NEW q \in Numbers(s, k), f[p] = f[q] PROVE p = q
        <3>1. /\ p \in (DOMAIN s) \X {1, 2} /\ q \in (DOMAIN s) \X {1, 2}
              /\ p[1] + 1 = q[1] + 1 /\ p[2] = q[2]
            BY <2>2 DEF Numbers
        <3>2. p[1] \in DOMAIN s /\ q[1] \in DOMAIN s
            BY <3>1
        <3>3. p[1] = q[1]
            BY <1>1, <3>1, <3>2
        <3> QED
            BY <3>1, <3>3
    <2>3. ASSUME NEW t \in T PROVE \E p \in Numbers(s, k) : f[p] = t
        <3>1. t \in (DOMAIN u) \X {1, 2} /\ VarintLen(u[t[1]][t[2]]) = k /\ t[1] # 1
            BY DEF Numbers
        <3>2. t[1] \in DOMAIN u /\ t[2] \in {1, 2} /\ t = <<t[1], t[2]>> /\ t[1] \in Nat
            BY <1>1, <3>1
        <3>3. t[1] - 1 \in DOMAIN s /\ t[1] - 1 + 1 = t[1]
            BY <1>1, <3>1, <3>2
        <3>4. s[t[1] - 1] = u[t[1]]
            BY <1>1, <3>3
        <3>5. <<t[1] - 1, t[2]>> \in Numbers(s, k)
            BY <3>1, <3>2, <3>3, <3>4 DEF Numbers
        <3>6. f[<<t[1] - 1, t[2]>>] = t
            BY <3>2, <3>3, <3>5
        <3> QED
            BY <3>5, <3>6
    <2> QED
        BY <2>1, <2>2, <2>3 DEF Bijection, Injection, Surjection, IsInjective
<1>3. IsFiniteSet(T) /\ Cardinality(T) = Taking(s, k) /\ Taking(s, k) \in Nat
    <2>1. ExistsBijection(Numbers(s, k), T)
        BY <1>2 DEF ExistsBijection
    <2> QED
        BY <2>1, NumbersFinite, FS_Bijection
<1> DEFINE First == {p \in {<<1, 1>>, <<1, 2>>} : VarintLen(x[p[2]]) = k}
<1>4. Numbers(u, k) = T \cup First
    <2>1. ASSUME NEW p \in Numbers(u, k) PROVE p \in T \cup First
        <3>1. p \in (DOMAIN u) \X {1, 2} /\ VarintLen(u[p[1]][p[2]]) = k
            BY DEF Numbers
        <3>2. p[1] = 1 => p \in {<<1, 1>>, <<1, 2>>}
            BY <3>1
        <3> QED
            BY <1>1, <3>1, <3>2
    <2>2. First \subseteq Numbers(u, k)
        BY <1>1 DEF Numbers
    <2> QED
        BY <2>1, <2>2
<1>5. <<1, 1>> \notin T /\ <<1, 2>> \notin T
    OBVIOUS
<1>6. Taking(u, k) = Cardinality(Numbers(u, k))
    BY DEF Taking, Numbers
<1> HIDE DEF T
<1>7. CASE VarintLen(x[1]) = k /\ VarintLen(x[2]) = k
    <2>1. Numbers(u, k) = (T \cup {<<1, 1>>}) \cup {<<1, 2>>}
        BY <1>4, <1>7
    <2>2. <<1, 2>> \notin T \cup {<<1, 1>>}
        BY <1>5
    <2>3. IsFiniteSet(T \cup {<<1, 1>>}) /\ Cardinality(T \cup {<<1, 1>>}) = Cardinality(T) + 1
        BY <1>3, <1>5, FS_AddElement
    <2>4. Cardinality((T \cup {<<1, 1>>}) \cup {<<1, 2>>}) = Cardinality(T \cup {<<1, 1>>}) + 1
        BY <2>2, <2>3, FS_AddElement
    <2> QED
        BY <1>3, <1>6, <1>7, <2>1, <2>3, <2>4 DEF u
<1>8. CASE VarintLen(x[1]) = k /\ VarintLen(x[2]) # k
    <2>1. Numbers(u, k) = T \cup {<<1, 1>>}
        BY <1>4, <1>8
    <2>2. Cardinality(Numbers(u, k)) = Cardinality(T) + 1
        BY <1>3, <1>5, <2>1, FS_AddElement
    <2> QED
        BY <1>3, <1>6, <1>8, <2>2 DEF u
<1>9. CASE VarintLen(x[1]) # k /\ VarintLen(x[2]) = k
    <2>1. Numbers(u, k) = T \cup {<<1, 2>>}
        BY <1>4, <1>9
    <2>2. Cardinality(Numbers(u, k)) = Cardinality(T) + 1
        BY <1>3, <1>5, <2>1, FS_AddElement
    <2> QED
        BY <1>3, <1>6, <1>9, <2>2 DEF u
<1>10. CASE VarintLen(x[1]) # k /\ VarintLen(x[2]) # k
    <2>1. Numbers(u, k) = T
        BY <1>4, <1>10
    <2> QED
        BY <1>3, <1>6, <1>10, <2>1 DEF u
<1> QED
    BY <1>7, <1>8, <1>9, <1>10

\* The bytes of a list are a number, and at most fifteen for every number of it.
LEMMA BytesType ==
    ASSUME NEW s \in Settings
    PROVE  Bytes(s) \in Nat /\ Bytes(s) <= 30 * Len(s)
<1>1. /\ Taking(s, 1) \in Nat /\ Taking(s, 1) <= 2 * Len(s)
      /\ Taking(s, 2) \in Nat /\ Taking(s, 2) <= 2 * Len(s)
      /\ Taking(s, 4) \in Nat /\ Taking(s, 4) <= 2 * Len(s)
      /\ Taking(s, 8) \in Nat /\ Taking(s, 8) <= 2 * Len(s)
    BY NumbersFinite
<1>2. Len(s) \in Nat
    BY SettingsFacts
<1> QED
    BY SMTT(30), <1>1, <1>2 DEF Bytes

\* So the bytes of a list are those of its first setting and of the rest.
LEMMA BytesCons ==
    ASSUME NEW x \in Setting, NEW s \in Settings
    PROVE  Bytes(<<x>> \o s) = Bytes(s) + VarintLen(x[1]) + VarintLen(x[2])
<1> DEFINE a(k) == IF VarintLen(x[1]) = k THEN 1 ELSE 0
           b(k) == IF VarintLen(x[2]) = k THEN 1 ELSE 0
<1>1. /\ Taking(s, 1) \in Nat /\ Taking(s, 2) \in Nat
      /\ Taking(s, 4) \in Nat /\ Taking(s, 8) \in Nat
    BY NumbersFinite
<1>2. /\ VarintLen(x[1]) = a(1) + 2 * a(2) + 4 * a(4) + 8 * a(8)
      /\ VarintLen(x[2]) = b(1) + 2 * b(2) + 4 * b(4) + 8 * b(8)
    BY DEF VarintLen
<1>3. \A k : a(k) \in Nat /\ b(k) \in Nat
    OBVIOUS
<1>4. /\ Taking(<<x>> \o s, 1) = Taking(s, 1) + a(1) + b(1)
      /\ Taking(<<x>> \o s, 2) = Taking(s, 2) + a(2) + b(2)
      /\ Taking(<<x>> \o s, 4) = Taking(s, 4) + a(4) + b(4)
      /\ Taking(<<x>> \o s, 8) = Taking(s, 8) + a(8) + b(8)
    BY TakingCons
<1> HIDE DEF a, b
<1>5. /\ a(1) \in Nat /\ a(2) \in Nat /\ a(4) \in Nat /\ a(8) \in Nat
      /\ b(1) \in Nat /\ b(2) \in Nat /\ b(4) \in Nat /\ b(8) \in Nat
    BY <1>3
<1>6. Bytes(<<x>> \o s) = (Taking(s, 1) + a(1) + b(1)) + 2 * (Taking(s, 2) + a(2) + b(2))
             + 4 * (Taking(s, 4) + a(4) + b(4)) + 8 * (Taking(s, 8) + a(8) + b(8))
    BY <1>4 DEF Bytes
<1>7. Bytes(s) = Taking(s, 1) + 2 * Taking(s, 2) + 4 * Taking(s, 4) + 8 * Taking(s, 8)
    BY DEF Bytes
<1>8. ASSUME NEW t1 \in Nat, NEW t2 \in Nat, NEW t4 \in Nat, NEW t8 \in Nat,
             NEW a1 \in Nat, NEW a2 \in Nat, NEW a4 \in Nat, NEW a8 \in Nat,
             NEW b1 \in Nat, NEW b2 \in Nat, NEW b4 \in Nat, NEW b8 \in Nat
      PROVE  (t1 + a1 + b1) + 2 * (t2 + a2 + b2) + 4 * (t4 + a4 + b4) + 8 * (t8 + a8 + b8)
             = (t1 + 2 * t2 + 4 * t4 + 8 * t8) + (a1 + 2 * a2 + 4 * a4 + 8 * a8)
                   + (b1 + 2 * b2 + 4 * b4 + 8 * b8)
    OBVIOUS
<1> QED
    BY <1>1, <1>2, <1>5, <1>6, <1>7, <1>8

-----------------------------------------------------------------------------
\* A reader has found these settings and the datagram setting, and no others.
ReadAs(parsed, others) ==
    /\ parsed.kind = "ok" /\ parsed.value.type = "SETTINGS"
    /\ parsed.value.payload.Datagram
    /\ DOMAIN parsed.value.payload.Other = Firsts(others)
    /\ \A i \in DOMAIN others : parsed.value.payload.Other[others[i][1]] = others[i][2]

(* What SettingsFrame.Write writes for a map of other settings, in whatever *)
(* order it takes them, parseSettingsFrame reads as that map, with the       *)
(* datagram setting: the length that is written before the settings is the   *)
(* number of their bytes, and no setting is taken for a repeated one.        *)
THEOREM SettingsRoundTrip ==
    ASSUME NEW others \in Settings, NEW ended,
           \A i, j \in DOMAIN others : i # j => others[i][1] # others[j][1],
           \A i \in DOMAIN others : others[i][1] # settingDatagram,
           LengthOf(others) <= 8192
    PROVE  ReadAs(parseSettingsFrame(SettingsFrame(others), ended), others)
<1> DEFINE datagram == <<settingDatagram, 1>>
           pairs == <<datagram>> \o others
           g == SettingsFrame(others)
<1>1. datagram \in Setting
    BY DEF settingDatagram, Setting
<1>2. /\ DOMAIN others = 1..Len(others) /\ Len(others) \in Nat
      /\ DOMAIN pairs = 1..(Len(others) + 1)
      /\ pairs[1] = datagram
      /\ \A i \in DOMAIN others : i + 1 \in DOMAIN pairs /\ pairs[i + 1] = others[i]
      /\ \A i \in DOMAIN pairs : i = 1 \/ i - 1 \in DOMAIN others
    BY <1>1, ConsFacts
<1>3. Bytes(pairs) = LengthOf(others)
    BY <1>1, BytesCons DEF LengthOf
<1> HIDE DEF pairs
<1>4. g = [type |-> "SETTINGS", length |-> LengthOf(others), payload |-> pairs, whole |-> TRUE]
    BY DEF SettingsFrame, Frame, pairs
<1> HIDE DEF g
<1>5. \A i \in DOMAIN pairs :
        i \in Nat /\ (i # 1 => i - 1 \in DOMAIN others /\ pairs[i] = others[i - 1])
    BY <1>2
<1>6. \A i, j \in DOMAIN pairs : i # j => pairs[i][1] # pairs[j][1]
    <2> SUFFICES ASSUME NEW i \in DOMAIN pairs, NEW j \in DOMAIN pairs, i # j
                 PROVE  pairs[i][1] # pairs[j][1]
        OBVIOUS
    <2>1. CASE i = 1 \/ j = 1
        BY <1>2, <1>5, <2>1
    <2>2. CASE i # 1 /\ j # 1
        <3>1. i - 1 # j - 1
            BY <1>5
        <3> QED
            BY <1>5, <2>2, <3>1
    <2> QED
        BY <2>1, <2>2
<1>7. Last(pairs, settingDatagram, 0) = 1
    <2>1. 1 \in Nat /\ 1 \in DOMAIN pairs /\ pairs[1][1] = settingDatagram /\ pairs[1][2] = 1
        BY <1>2
    <2>2. \A j \in DOMAIN pairs : pairs[j][1] = settingDatagram => j = 1
        BY <1>6, <2>1
    <2>3. Last(pairs, settingDatagram, 0) = pairs[1][2]
        BY <2>1, <2>2, LastOfOne
    <2> QED
        BY <2>1, <2>3
<1>8. \A i \in DOMAIN others : Last(pairs, others[i][1], 0) = others[i][2]
    <2> SUFFICES ASSUME NEW i \in DOMAIN others
                 PROVE  Last(pairs, others[i][1], 0) = others[i][2]
        OBVIOUS
    <2>1. i + 1 \in DOMAIN pairs /\ pairs[i + 1] = others[i] /\ i + 1 \in Nat
        BY <1>2
    <2>2. \A j \in DOMAIN pairs : pairs[j][1] = others[i][1] => j = i + 1
        BY <1>6, <2>1
    <2>3. pairs[i + 1][1] = others[i][1] /\ pairs[i + 1][2] = others[i][2]
        BY <2>1
    <2> QED
        BY SMTT(30), <2>1, <2>2, <2>3, LastOfOne
<1>9. Firsts(pairs) \ {settingDatagram} = Firsts(others)
    <2>1. ASSUME NEW n \in Firsts(others) PROVE n \in Firsts(pairs) /\ n # settingDatagram
        <3>1. PICK i \in DOMAIN others : n = others[i][1]
            BY DEF Firsts
        <3> QED
            BY <1>2, <3>1 DEF Firsts
    <2>2. ASSUME NEW n \in Firsts(pairs), n # settingDatagram PROVE n \in Firsts(others)
        <3>1. PICK i \in DOMAIN pairs : n = pairs[i][1]
            BY DEF Firsts
        <3>2. i # 1
            BY <1>2, <2>2, <3>1
        <3> QED
            BY <1>5, <3>1, <3>2 DEF Firsts
    <2> QED
        BY <2>1, <2>2
<1> DEFINE other == [id \in Firsts(g.payload) \ {settingDatagram} |-> Last(g.payload, id, 0)]
           read == [Datagram |-> Last(g.payload, settingDatagram, 0) = 1, Other |-> other]
<1>10. parseSettingsFrame(g, ended) = Ok([g EXCEPT !.payload = read])
    <2>1. ~(g.length > 8192) /\ g.whole /\ g.payload = pairs /\ g.length = Bytes(g.payload)
        <3>1. Bytes(others) \in Nat
            BY BytesType
        <3>2. VarintLen(settingDatagram) \in Nat /\ VarintLen(1) \in Nat
            BY DEF VarintLen
        <3>3. LengthOf(others) \in Nat
            BY <3>1, <3>2 DEF LengthOf
        <3> QED
            BY <1>3, <1>4, <3>3
    <2>2. ~ \E i, j \in DOMAIN g.payload : i # j /\ g.payload[i][1] = g.payload[j][1]
        BY <1>6, <2>1
    <2>3. Last(g.payload, settingDatagram, 0) = 1
        BY <1>7, <2>1
    <2> QED
        BY SMTT(30), <2>1, <2>2, <2>3 DEF parseSettingsFrame
<1>11. read.Datagram /\ read.Other = other
    <2>1. Last(g.payload, settingDatagram, 0) = 1
        BY <1>4, <1>7
    <2>2. read.Datagram = (Last(g.payload, settingDatagram, 0) = 1)
        OBVIOUS
    <2>3. read.Other = other
        OBVIOUS
    <2> HIDE DEF read, other
    <2>4. read.Datagram
        BY ONLY Zenon, <2>1, <2>2
    <2> QED
        BY <2>3, <2>4
<1> HIDE DEF read
<1>12. LET parsed == parseSettingsFrame(g, ended)
       IN  parsed.kind = "ok" /\ parsed.value.type = "SETTINGS" /\ parsed.value.payload = read
    BY <1>4, <1>10 DEF Ok
<1>13. \A i \in DOMAIN others : others[i][1] \in Firsts(others)
    BY DEF Firsts
<1>14. \A i \in DOMAIN others : other[others[i][1]] = others[i][2]
    BY <1>4, <1>8, <1>9, <1>13
<1>15. DOMAIN other = Firsts(others)
    BY <1>4, <1>9
<1> HIDE DEF other
<1> QED
    BY <1>11, <1>12, <1>14, <1>15 DEF g, ReadAs

\* Parsing settings leaves the type of their frame.
LEMMA TypeIsKept ==
    ASSUME NEW f, NEW ended, parseSettingsFrame(f, ended).kind = "ok",
           f.type = "SETTINGS", "type" \in DOMAIN f
    PROVE  parseSettingsFrame(f, ended).value.type = "SETTINGS"
<1> DEFINE payload == [Datagram |-> Last(f.payload, settingDatagram, 0) = 1,
                       Other |-> [id \in Firsts(f.payload) \ {settingDatagram} |->
                                      Last(f.payload, id, 0)]]
           value == [f EXCEPT !.payload = payload]
<1>1. \/ parseSettingsFrame(f, ended) = Fails
      \/ parseSettingsFrame(f, ended) = Waits
      \/ parseSettingsFrame(f, ended) = Ok(value)
    <2> DEFINE long == f.length > 8192
               cut == ~f.whole
               repeated == \E i, j \in DOMAIN f.payload :
                               i # j /\ f.payload[i][1] = f.payload[j][1]
               wrong == f.length # Bytes(f.payload) \/ repeated
                            \/ Last(f.payload, settingDatagram, 0) \notin {0, 1}
    <2>1. parseSettingsFrame(f, ended) =
              IF long THEN Fails
              ELSE IF cut THEN IF ended THEN Fails ELSE Waits
              ELSE IF wrong THEN Fails ELSE Ok(value)
        BY SMTT(30) DEF parseSettingsFrame
    <2> HIDE DEF long, cut, wrong, value
    <2> QED
        BY ONLY <2>1, SMTT(30)
<1> HIDE DEF payload
<1>2. value.type = "SETTINGS"
    OBVIOUS
<1> HIDE DEF value
<1>3. Fails.kind # "ok" /\ Waits.kind # "ok" /\ Ok(value).value = value
    BY DEF Fails, Waits, Ok
<1> QED
    BY <1>1, <1>2, <1>3

-----------------------------------------------------------------------------
(* Paths.                                                                  *)

\* A path as a program gives it: no token of it stands for an escape or for zeros.
Plain(path) ==
    /\ path \in Seq(STRING)
    /\ \A i \in DOMAIN path : path[i] \notin {"%3F", "%25", "%2A", Zeros}

\* What such a path names, and whether it can be sent.
Named(path) ==
    IF path = <<>> THEN <<"/">>
    ELSE IF path[1] = Origin THEN Tail(path)
    ELSE path
CannotBeSent(path) == path # <<"*">> /\ (Named(path) = <<>> \/ Named(path)[1] # "/")

\* A token is escaped to one that means nothing in a URL, and back.
LEMMA EscapedToken ==
    ASSUME NEW x, x \notin {"%3F", "%25", "%2A", Zeros}
    PROVE  /\ Unescape(Escape(x)) = x
           /\ Escape(x) \notin {"?", "%", "*", Zeros}
           /\ (Escape(x) = "/") <=> (x = "/")
           /\ (Escape(x) = Origin) <=> (x = Origin)
<1>1. CASE x = "?"
    <2>1. Escape(x) = "%3F"
        BY <1>1 DEF Escape
    <2>2. Unescape("%3F") = "?"
        BY DEF Unescape
    <2>3. "%3F" \notin {"?", "%", "*", Zeros, "/", Origin}
        BY DEF Zeros, Origin
    <2>4. x # "/" /\ x # Origin
        BY <1>1 DEF Origin
    <2> QED
        BY <1>1, <2>1, <2>2, <2>3, <2>4
<1>2. CASE x = "%"
    <2>1. Escape(x) = "%25"
        BY <1>2 DEF Escape
    <2>2. Unescape("%25") = "%"
        BY DEF Unescape
    <2>3. "%25" \notin {"?", "%", "*", Zeros, "/", Origin}
        BY DEF Zeros, Origin
    <2>4. x # "/" /\ x # Origin
        BY <1>2 DEF Origin
    <2> QED
        BY <1>2, <2>1, <2>2, <2>3, <2>4
<1>3. CASE x = "*"
    <2>1. Escape(x) = "%2A"
        BY <1>3 DEF Escape
    <2>2. Unescape("%2A") = "*"
        BY DEF Unescape
    <2>3. "%2A" \notin {"?", "%", "*", Zeros, "/", Origin}
        BY DEF Zeros, Origin
    <2>4. x # "/" /\ x # Origin
        BY <1>3 DEF Origin
    <2> QED
        BY <1>3, <2>1, <2>2, <2>3, <2>4
<1>4. CASE x # "?" /\ x # "%" /\ x # "*"
    <2>1. Escape(x) = x
        BY <1>4 DEF Escape
    <2>2. Unescape(x) = x
        BY DEF Unescape
    <2> QED
        BY <1>4, <2>1, <2>2
<1> QED
    BY <1>1, <1>2, <1>3, <1>4

\* A sequence of anything.
IsSeq(text) == \E S : text \in Seq(S)

\* How many tokens come before one that is not there, and before the first one.
LEMMA UptoFacts ==
    ASSUME NEW text, IsSeq(text), NEW token
    PROVE  /\ (\A i \in DOMAIN text : text[i] # token) => Upto(text, token) = Len(text)
           /\ (text # <<>> /\ text[1] = token) => Upto(text, token) = 0
<1> DEFINE S == {Len(text)} \cup {i - 1 : i \in {j \in DOMAIN text : text[j] = token}}
<1>1. Upto(text, token) = Min(S)
    BY DEF Upto
<1>2. Len(text) \in Nat /\ DOMAIN text = 1..Len(text) /\ (text # <<>> => Len(text) # 0)
    <2>1. PICK T : text \in Seq(T)
        BY DEF IsSeq
    <2> QED
        BY <2>1
<1>3. ASSUME \A i \in DOMAIN text : text[i] # token
      PROVE  Upto(text, token) = Len(text)
    <2>1. S = {Len(text)}
        BY <1>3
    <2>2. Min({Len(text)}) = Len(text)
        BY <1>2 DEF Min
    <2> QED
        BY <1>1, <2>1, <2>2
<1>4. ASSUME text # <<>>, text[1] = token
      PROVE  Upto(text, token) = 0
    <2>1. 1 \in DOMAIN text
        BY <1>2, <1>4
    <2>2. 0 \in S
        BY <1>4, <2>1
    <2>3. \A x \in S : x \in Nat
        BY <1>2
    <2> HIDE DEF S
    <2>4. \E x \in S : \A y \in S : x <= y
        BY <2>2, <2>3
    <2>5. Min(S) \in S /\ \A y \in S : Min(S) <= y
        BY <2>4 DEF Min
    <2>6. Min(S) <= 0 /\ Min(S) \in Nat
        BY <2>2, <2>3, <2>5
    <2> QED
        BY <1>1, <2>6
<1> QED
    BY <1>3, <1>4

\* The escaped path, token by token.
LEMMA RequestURIFacts ==
    ASSUME NEW path, Plain(path), path # <<>>, path # <<"*">>
    PROVE  LET r == RequestURI(path)
           IN  /\ IsSeq(r) /\ Len(r) = Len(path) /\ DOMAIN r = DOMAIN path
               /\ r # <<>> /\ r # <<"*">> /\ 1 \in DOMAIN r
               /\ \A i \in DOMAIN r : /\ Unescape(r[i]) = path[i]
                                      /\ r[i] \notin {"?", "%", "*", Zeros}
                                      /\ (r[i] = "/") <=> (path[i] = "/")
                                      /\ (r[i] = Origin) <=> (path[i] = Origin)
<1> DEFINE r == [i \in DOMAIN path |-> Escape(path[i])]
<1>1. RequestURI(path) = r
    BY DEF RequestURI
<1>2. path \in Seq(STRING) /\ DOMAIN path = 1..Len(path) /\ Len(path) \in Nat /\ Len(path) # 0
    BY DEF Plain
<1>3. \A i \in DOMAIN path : path[i] \notin {"%3F", "%25", "%2A", Zeros}
    BY <1>2 DEF Plain
<1>4. \A i \in DOMAIN path :
          /\ Unescape(r[i]) = path[i]
          /\ r[i] \notin {"?", "%", "*", Zeros}
          /\ (r[i] = "/") <=> (path[i] = "/")
          /\ (r[i] = Origin) <=> (path[i] = Origin)
    BY <1>3, EscapedToken
<1>5. DOMAIN r = 1..Len(path)
    BY <1>2
<1> HIDE DEF r
<1>6. IsSeq(r) /\ Len(r) = Len(path)
    <2> DEFINE S == {r[i] : i \in 1..Len(path)}
    <2>1. r = [i \in 1..Len(path) |-> r[i]]
        BY <1>5 DEF r
    <2>2. r \in [1..Len(path) -> S]
        BY <2>1
    <2> HIDE DEF S
    <2>3. r \in Seq(S) /\ Len(r) = Len(path)
        BY <1>2, <2>2
    <2> QED
        BY <2>3 DEF IsSeq
<1>7. 1 \in DOMAIN r
    BY <1>2, <1>5
<1>8. r # <<>>
    BY <1>2, <1>6
<1>9. r # <<"*">>
    BY <1>2, <1>4, <1>5, <1>7
<1> QED
    BY <1>1, <1>2, <1>4, <1>5, <1>6, <1>7, <1>8, <1>9

\* A text of a path that is sent: rooted, with nothing in it that a URL would take for
\* anything else, and unescaped to the path that was named.
Carries(text, path) ==
    /\ IsSeq(text) /\ text # <<>> /\ text[1] = "/"
    /\ \A i \in DOMAIN text : text[i] \notin {"?", "%", "*", Zeros}
    /\ [i \in DOMAIN text |-> Unescape(text[i])] = Named(path)

\* A path is sent exactly when it can be, in such a text.
LEMMA PathIsSent ==
    ASSUME NEW path, Plain(path), path # <<"*">>
    PROVE  /\ validPseudoPath(PathField(path)) => Carries(PathField(path), path)
           /\ ~validPseudoPath(PathField(path)) => CannotBeSent(path)
<1>1. CASE path = <<>>
    <2>1. RequestURI(path) = <<"/">>
        BY <1>1 DEF RequestURI
    <2>2. PathField(path) = <<"/">> /\ validPseudoPath(PathField(path))
        BY <2>1 DEF PathField, validPseudoPath
    <2>3. Unescape("/") = "/" /\ "/" # Zeros
        BY DEF Unescape, Zeros
    <2>4. [i \in DOMAIN <<"/">> |-> Unescape(<<"/">>[i])] = <<"/">>
        BY <2>3
    <2>5. Named(path) = <<"/">>
        BY <1>1 DEF Named
    <2>6. Carries(<<"/">>, path)
        <3> DEFINE t == <<"/">>
        <3>1. IsSeq(t) /\ t # <<>> /\ t[1] = "/" /\ DOMAIN t = {1}
            <4>1. t \in Seq({"/"})
                OBVIOUS
            <4>2. t # <<>> /\ t[1] = "/" /\ Len(t) = 1
                OBVIOUS
            <4>3. DOMAIN t = 1..1
                OBVIOUS
            <4>4. IsSeq(t)
                BY <4>1 DEF IsSeq
            <4>5. 1..1 = {1}
                OBVIOUS
            <4> HIDE DEF t
            <4> QED
                BY <4>2, <4>3, <4>4, <4>5
        <3>2. \A i \in DOMAIN t : t[i] \notin {"?", "%", "*", Zeros}
            BY <2>3, <3>1
        <3>3. [i \in DOMAIN t |-> Unescape(t[i])] = Named(path)
            BY <2>4, <2>5
        <3> HIDE DEF t
        <3>4. Carries(t, path)
            BY <3>1, <3>2, <3>3 DEF Carries
        <3> QED
            BY <3>4 DEF t
    <2> QED
        BY <2>2, <2>6
<1>2. CASE path # <<>>
    <2> DEFINE r == RequestURI(path)
    <2>1. /\ IsSeq(r) /\ Len(r) = Len(path) /\ DOMAIN r = DOMAIN path
          /\ r # <<>> /\ r # <<"*">> /\ 1 \in DOMAIN r
          /\ \A i \in DOMAIN r : /\ Unescape(r[i]) = path[i]
                                 /\ r[i] \notin {"?", "%", "*", Zeros}
                                 /\ (r[i] = "/") <=> (path[i] = "/")
                                 /\ (r[i] = Origin) <=> (path[i] = Origin)
        BY <1>2, RequestURIFacts
    <2>2. path \in Seq(STRING)
        BY DEF Plain
    <2>3. PathField(path) = IF validPseudoPath(r) THEN r ELSE TrimPrefix(r)
        BY DEF PathField
    <2> HIDE DEF r
    <2>4. validPseudoPath(r) <=> r[1] = "/"
        BY <2>1 DEF validPseudoPath
    <2>5. CASE r[1] = "/"
        <3>1. path[1] = "/"
            BY <2>1, <2>5
        <3>2. Named(path) = path
            BY <1>2, <3>1 DEF Named, Origin
        <3>3. [i \in DOMAIN r |-> Unescape(r[i])] = path
            BY <2>1, <2>2
        <3>4. Carries(r, path)
            BY <2>1, <2>5, <3>2, <3>3, SMTT(30) DEF Carries
        <3> QED
            BY <2>3, <2>4, <2>5, <3>4
    <2>6. CASE r[1] = Origin
        <3> DEFINE t == Tail(r)
        <3>1. path[1] = Origin /\ Named(path) = Tail(path)
            BY <1>2, <2>1, <2>6 DEF Named
        <3>2. PathField(path) = t
            BY <2>1, <2>3, <2>4, <2>6 DEF TrimPrefix, Origin
        <3>3. /\ IsSeq(t) /\ Len(t) = Len(Tail(path)) /\ DOMAIN t = DOMAIN Tail(path)
              /\ DOMAIN t = 1..Len(t) /\ Len(t) \in Nat
              /\ \A i \in DOMAIN t : i + 1 \in DOMAIN r /\ t[i] = r[i + 1]
                                     /\ Tail(path)[i] = path[i + 1]
            <4>1. PICK S : r \in Seq(S)
                BY <2>1 DEF IsSeq
            <4>2. t \in Seq(S)
                BY <2>1, <4>1
            <4>3. Len(t) = Len(r) - 1 /\ Len(Tail(path)) = Len(path) - 1
                BY <1>2, <2>1, <2>2, <4>1
            <4>4. \A i \in 1..Len(t) : i + 1 \in DOMAIN r /\ t[i] = r[i + 1]
                BY <2>1, <4>1, <4>3
            <4>5. \A i \in 1..Len(Tail(path)) : Tail(path)[i] = path[i + 1]
                BY <1>2, <2>2, <4>3
            <4> HIDE DEF t
            <4> QED
                BY <1>2, <2>1, <2>2, <4>2, <4>3, <4>4, <4>5 DEF IsSeq
        <3>4. \A i \in DOMAIN t : /\ Unescape(t[i]) = Tail(path)[i]
                                  /\ t[i] \notin {"?", "%", "*", Zeros}
                                  /\ (t[i] = "/") <=> (Tail(path)[i] = "/")
            BY <2>1, <3>3
        <3>5. Tail(path) \in Seq(STRING)
            BY <1>2, <2>2
        <3> HIDE DEF t
        <3>6. t # <<"*">>
            BY <3>3, <3>4
        <3>7. validPseudoPath(t) => Carries(t, path)
            <4>1. [i \in DOMAIN t |-> Unescape(t[i])] = Tail(path)
                <5> DEFINE given == Tail(path)
                <5>1. given = [i \in 1..Len(given) |-> given[i]] /\ DOMAIN given = 1..Len(given)
                    <6> HIDE DEF given
                    <6>1. given \in Seq(STRING)
                        BY <3>5 DEF given
                    <6> QED
                        BY <6>1
                <5>2. DOMAIN t = DOMAIN given /\ \A i \in DOMAIN t : Unescape(t[i]) = given[i]
                    BY <3>3, <3>4
                <5> HIDE DEF given
                <5>3. [i \in DOMAIN t |-> Unescape(t[i])] = [i \in 1..Len(given) |-> given[i]]
                    BY <5>1, <5>2
                <5> QED
                    BY <5>1, <5>3 DEF given
            <4> QED
                BY <3>1, <3>3, <3>4, <3>6, <4>1 DEF Carries, validPseudoPath
        <3>8. ~validPseudoPath(t) => CannotBeSent(path)
            <4>1. CASE t = <<>>
                BY <3>1, <3>3, <3>5, <4>1 DEF CannotBeSent
            <4>2. CASE t # <<>> /\ t[1] # "/"
                <5>1. 1 \in DOMAIN t
                    BY <3>3, <4>2
                <5> QED
                    BY <3>1, <3>4, <4>2, <5>1, SMTT(30) DEF CannotBeSent
            <4> QED
                BY <4>1, <4>2 DEF validPseudoPath
        <3> QED
            BY <3>2, <3>7, <3>8, SMTT(30)
    <2>7. CASE r[1] # "/" /\ r[1] # Origin
        <3>1. PathField(path) = r
            BY <2>3, <2>4, <2>7, SMTT(30) DEF TrimPrefix
        <3>2. Named(path) = path /\ path[1] # "/"
            BY <1>2, <2>1, <2>7 DEF Named
        <3> QED
            BY <2>4, <2>7, <3>1, <3>2 DEF CannotBeSent
    <2> QED
        BY <2>5, <2>6, <2>7
<1> QED
    BY <1>1, <1>2

\* The fields of the client's CONNECT.
Fields(host, text) ==
    <<<<":authority", host>>, <<":method", "CONNECT">>, <<":path", text>>,
      <<":scheme", "https">>, <<":protocol", "webtransport">>>>

LEMMA FieldsAreRead ==
    ASSUME NEW host, NEW text
    PROVE  LET pairs == Fields(host, text)
           IN  /\ \A other : Last(pairs, ":authority", other) = host
               /\ \A other : Last(pairs, ":method", other) = "CONNECT"
               /\ \A other : Last(pairs, ":path", other) = text
               /\ \A other : Last(pairs, ":protocol", other) = "webtransport"
               /\ \A other : Last(pairs, "content-length", other) = other
<1> DEFINE pairs == Fields(host, text)
<1>1. /\ DOMAIN pairs = 1..5
      /\ pairs[1][1] = ":authority" /\ pairs[1][2] = host
      /\ pairs[2][1] = ":method" /\ pairs[2][2] = "CONNECT"
      /\ pairs[3][1] = ":path" /\ pairs[3][2] = text
      /\ pairs[4][1] = ":scheme"
      /\ pairs[5][1] = ":protocol" /\ pairs[5][2] = "webtransport"
    BY DEF Fields
<1> HIDE DEF pairs
<1>2. \A j \in DOMAIN pairs : j = 1 \/ j = 2 \/ j = 3 \/ j = 4 \/ j = 5
    BY <1>1
<1>3. \A other : Last(pairs, ":authority", other) = host
    BY <1>1, <1>2, LastOfOne, SMTT(30)
<1>4. \A other : Last(pairs, ":method", other) = "CONNECT"
    BY <1>1, <1>2, LastOfOne
<1>5. \A other : Last(pairs, ":path", other) = text
    BY <1>1, <1>2, LastOfOne
<1>6. \A other : Last(pairs, ":protocol", other) = "webtransport"
    BY <1>1, <1>2, LastOfOne
<1>7. \A other : Last(pairs, "content-length", other) = other
    BY <1>1, <1>2, LastOfNone
<1> QED
    BY <1>3, <1>4, <1>5, <1>6, <1>7 DEF pairs

\* A text that carries a path is parsed to it.
LEMMA PathIsParsed ==
    ASSUME NEW path, NEW text, Carries(text, path), NEW authority
    PROVE  ParseRequestURI("CONNECT", authority, text) = Ok(Named(path))
<1>1. IsSeq(text) /\ Len(text) \in Nat /\ DOMAIN text = 1..Len(text)
    <2>1. PICK S : text \in Seq(S)
        BY DEF Carries, IsSeq
    <2> QED
        BY <2>1 DEF IsSeq
<1>2. Upto(text, "?") = Len(text) /\ Upto(text, "/") = 0
    BY <1>1, UptoFacts DEF Carries
<1>3. Parses("CONNECT", authority, text)
    <2>1. \A i \in DOMAIN text : 1 \in 1..i /\ text[1] \in {"/", "?"}
        BY <1>1 DEF Carries
    <2> QED
        BY <2>1 DEF Parses
<1> DEFINE u == [i \in DOMAIN text |-> Unescape(text[i])]
<1>4. u = Named(path) /\ DOMAIN u = 1..Len(text)
    BY <1>1 DEF Carries
<1>5. SubSeq(u, 0 + 1, Len(text)) = u
    <2>1. SubSeq(u, 1, Len(text)) = [i \in 1..Len(text) |-> u[i]]
        BY <1>1
    <2>2. [i \in 1..Len(text) |-> u[i]] = u
        BY <1>4
    <2> QED
        BY <2>1, <2>2
<1>6. ~\E i \in 1..Upto(text, "?") : text[i] = "%"
    BY <1>1, <1>2 DEF Carries
<1>7. UrlPath(text) = Ok(u)
    BY <1>2, <1>5, <1>6 DEF UrlPath
<1> QED
    BY <1>3, <1>4, <1>7 DEF ParseRequestURI

(* What a client asks for reaches the server: for every path it may be      *)
(* given, its CONNECT is parsed to the path that was named, whatever is     *)
(* escaped on the way; it is not written when the path cannot be sent, and  *)
(* not parsed when it is `*' alone.                                         *)
THEOREM PathsRoundTrip ==
    ASSUME NEW path, Plain(path), NEW host
    PROVE  LET encoded == encodeHeaders(host, path)
               read == RequestFromHeaders(encoded.value.payload)
           IN  /\ encoded = Fails \/ encoded = Ok(HeadersFrame(Fields(host, PathField(path))))
               /\ encoded = Fails => CannotBeSent(path)
               /\ (encoded # Fails /\ path = <<"*">> /\ host # "") => read = Fails
               /\ (encoded # Fails /\ path # <<"*">>) =>
                      read = Ok([Method |-> "CONNECT", Proto |-> "webtransport",
                                 Host |-> host, RequestURI |-> PathField(path),
                                 Path |-> Named(path)])
               /\ encoded # Fails =>
                      \A i \in DOMAIN PathField(path) : PathField(path)[i] # Zeros
<1> DEFINE text == PathField(path)
           pairs == Fields(host, text)
           encoded == encodeHeaders(host, path)
           read == RequestFromHeaders(pairs)
<1>1. encoded = IF validPseudoPath(text) THEN Ok(HeadersFrame(pairs)) ELSE Fails
    BY DEF encodeHeaders, Fields
<1>2. /\ Ok(HeadersFrame(pairs)) # Fails
      /\ Ok(HeadersFrame(pairs)).value.payload = pairs
    BY DEF Ok, Fails, HeadersFrame, Frame
<1>3. read = IF ParseRequestURI("CONNECT", host, text) = Fails THEN Fails
             ELSE Ok([Method |-> "CONNECT", Proto |-> "webtransport", Host |-> host,
                      RequestURI |-> text,
                      Path |-> ParseRequestURI("CONNECT", host, text).value])
    <2>1. /\ \A other : Last(pairs, ":authority", other) = host
          /\ \A other : Last(pairs, ":method", other) = "CONNECT"
          /\ \A other : Last(pairs, ":path", other) = text
          /\ \A other : Last(pairs, ":protocol", other) = "webtransport"
          /\ \A other : Last(pairs, "content-length", other) = other
        BY FieldsAreRead
    <2> HIDE DEF pairs, text
    <2> QED
        BY <2>1 DEF RequestFromHeaders
<1>4. CASE path = <<"*">>
    <2>1. text = <<"*">>
        BY <1>4 DEF PathField, RequestURI, validPseudoPath
    <2>2. validPseudoPath(text)
        BY <2>1 DEF validPseudoPath
    <2>3. host # "" => ~Parses("CONNECT", host, text)
        <3>1. 1 \in DOMAIN text /\ text[1] = "*"
            BY <2>1
        <3>2. text[1] # Zeros /\ ~\E j \in 1..1 : text[j] \in {"/", "?"}
            BY <3>1 DEF Zeros
        <3> QED
            BY <3>1, <3>2 DEF Parses
    <2>4. host # "" => read = Fails
        BY <1>3, <2>3 DEF ParseRequestURI
    <2>5. \A i \in DOMAIN text : text[i] # Zeros
        BY <2>1 DEF Zeros
    <2>6. encoded = Ok(HeadersFrame(pairs)) /\ encoded.value.payload = pairs
        BY <1>1, <1>2, <2>2
    <2>7. host # "" => RequestFromHeaders(encoded.value.payload) = Fails
        <3> HIDE DEF text, pairs, encoded
        <3>1. RequestFromHeaders(encoded.value.payload) = read
            BY <2>6
        <3> QED
            BY <2>4, <3>1
    <2>8. encoded # Fails
        <3> HIDE DEF text, pairs, encoded
        <3> QED
            BY <1>2, <2>6
    <2> QED
        BY <1>4, <2>5, <2>6, <2>7, <2>8
<1>5. CASE path # <<"*">> /\ validPseudoPath(text)
    <2>1. Carries(text, path)
        BY <1>5, PathIsSent
    <2>2. ParseRequestURI("CONNECT", host, text) = Ok(Named(path))
        BY <2>1, PathIsParsed
    <2>3. Ok(Named(path)) # Fails /\ Ok(Named(path)).value = Named(path)
        BY DEF Ok, Fails
    <2>4. read = Ok([Method |-> "CONNECT", Proto |-> "webtransport", Host |-> host,
                     RequestURI |-> text, Path |-> Named(path)])
        BY <1>3, <2>2, <2>3
    <2>5. \A i \in DOMAIN text : text[i] # Zeros
        BY <2>1 DEF Carries
    <2> QED
        BY <1>1, <1>2, <1>5, <2>4, <2>5
<1>6. CASE path # <<"*">> /\ ~validPseudoPath(text)
    <2>1. CannotBeSent(path)
        BY <1>6, PathIsSent
    <2> QED
        BY <1>1, <1>6, <2>1
<1> QED
    BY <1>4, <1>5, <1>6

=============================================================================
