---------------------------- MODULE RecordProofs ----------------------------
(***************************************************************************)
(* Proofs about the record codec.                                          *)
(***************************************************************************)
EXTENDS SegmentBytes, CobsProofs

-----------------------------------------------------------------------------
(* Varints: what Varint writes, as a recursion over the number. *)

\* The two halves of a byte.
LEMMA RadixFacts ==
  /\ Radix \in Nat /\ Radix >= 2 /\ 2 * Radix <= MaxByte + 1
  /\ Byte = 0 .. MaxByte /\ MaxByte \in Nat
<1>1. MaxByte \in Nat /\ MaxByte >= 3
  BY MaxByteAssumption, RecordAssumption
<1>2. \A m \in Nat : m >= 3 => /\ (m + 1) \div 2 \in Nat /\ (m + 1) \div 2 >= 2
                               /\ 2 * ((m + 1) \div 2) <= m + 1
  OBVIOUS
<1> QED
  BY <1>1, <1>2 DEF Radix, Byte

\* A number without its last digit is smaller, and the digit makes up for it.
LEMMA DigitOff ==
  ASSUME NEW k \in Nat
  PROVE  /\ k % Radix \in 0 .. Radix - 1 /\ k \div Radix \in Nat
         /\ k = (k % Radix) + Radix * (k \div Radix)
         /\ k >= Radix => k \div Radix < k
<1> DEFINE q == k \div Radix
           r == k % Radix
<1>1. Radix \in Nat /\ Radix >= 2
  BY RadixFacts
<1>2. q \in Nat /\ r \in 0 .. Radix - 1 /\ k = Radix * q + r
  BY <1>1
<1> HIDE DEF q, r
<1>3. Radix * q \in Nat /\ Radix * q >= 2 * q
  BY <1>1, <1>2
<1>4. k >= Radix => q < k
  BY <1>1, <1>2, <1>3
<1>5. k = r + Radix * q
  BY <1>2, <1>3
<1> QED
  BY <1>2, <1>4, <1>5 DEF q, r

\* What Varint makes of a number, if f is what it makes of the smaller ones.
VarintAt(k, f) == IF k < Radix THEN <<k>> ELSE <<Radix + (k % Radix)>> \o f[k \div Radix]

VarintsBy(f, n) ==
  /\ f \in [0 .. n -> Seq(Byte)]
  /\ \A k \in 0 .. n : f[k] = VarintAt(k, f)
  /\ Varint(n) = f[n]

\* The numbers an entry of the recursion goes on with are in its domain.
LEMMA VarintGoesOn ==
  ASSUME NEW n \in Nat, NEW k \in 0 .. n, ~(k < Radix)
  PROVE  k \div Radix \in 0 .. n /\ k \div Radix < k
<1>1. k \in Nat /\ k >= Radix
  BY RadixFacts
<1>2. k \div Radix \in Nat /\ k \div Radix < k
  BY <1>1, DigitOff
<1> QED
  BY <1>2

LEMMA VarintTyped ==
  ASSUME NEW n \in Nat, NEW k \in 0 .. n, NEW f,
         \A j \in 0 .. n : j < k => f[j] \in Seq(Byte)
  PROVE  VarintAt(k, f) \in Seq(Byte)
<1>1. CASE k < Radix
  <2>1. k \in Byte
    BY <1>1, RadixFacts
  <2> QED
    BY <1>1, <2>1 DEF VarintAt
<1>2. CASE ~(k < Radix)
  <2>1. f[k \div Radix] \in Seq(Byte)
    BY <1>2, VarintGoesOn
  <2>2. k % Radix \in 0 .. Radix - 1
    BY DigitOff
  <2>3. Radix + (k % Radix) \in Byte
    BY <2>2, RadixFacts
  <2>4. <<Radix + (k % Radix)>> \in Seq(Byte)
    BY <2>3
  <2> QED
    BY <1>2, <2>1, <2>4, ConcatProperties DEF VarintAt
<1> QED
  BY <1>1, <1>2

LEMMA VarintSame ==
  ASSUME NEW n \in Nat, NEW k \in 0 .. n, NEW f, NEW g,
         \A j \in 0 .. n : j < k => f[j] = g[j]
  PROVE  VarintAt(k, f) = VarintAt(k, g)
<1>1. CASE ~(k < Radix)
  <2>1. f[k \div Radix] = g[k \div Radix]
    BY <1>1, VarintGoesOn
  <2> QED
    BY <2>1 DEF VarintAt
<1> QED
  BY <1>1 DEF VarintAt

\* The recursion is defined for every number up to the one to be written.
LEMMA VarintSteps ==
  ASSUME NEW n \in Nat
  PROVE  \E f : VarintsBy(f, n)
<1> DEFINE I == 0 .. n
           V == Seq(Byte)
           rank == [k \in I |-> k]
           step == [p \in I \X [I -> V] |-> VarintAt(p[1], p[2])]
           Def(f) == [k \in I |-> VarintAt(k, f)]
           g == CHOOSE f : f = Def(f)
<1>1. Varint(n) = g[n]
  BY Zenon DEF Varint, VarintAt
<1>2. /\ rank \in [I -> Nat] /\ \A k \in I : rank[k] < n + 1
      /\ \A k, j \in I : rank[j] < rank[k] <=> j < k
  OBVIOUS
<1>3. \A k \in I, f \in [I -> V] : step[<<k, f>>] = VarintAt(k, f)
  OBVIOUS
<1>4. Descends(I, rank, V, step)
  <2>1. \A k \in I : \A f \in [I -> V] : VarintAt(k, f) \in V
    BY VarintTyped
  <2>2. step \in [I \X [I -> V] -> V]
    BY <2>1
  <2>3. ASSUME NEW k \in I, NEW f \in [I -> V], NEW h \in [I -> V],
               SameBelow(I, rank, rank[k], f, h)
        PROVE  step[<<k, f>>] = step[<<k, h>>]
    <3>1. \A j \in I : j < k => f[j] = h[j]
      BY <1>2, <2>3 DEF SameBelow
    <3>2. VarintAt(k, f) = VarintAt(k, h)
      BY <3>1, VarintSame
    <3> QED
      BY <1>3, <3>2
  <2> HIDE DEF step, rank
  <2> QED
    BY <2>2, <2>3 DEF Descends
<1> HIDE DEF step, rank
<1>5. PICK f : Follows(I, V, step, f)
  <2>1. n + 1 \in Nat /\ <<>> \in V
    BY EmptySeq
  <2> HIDE DEF I, V
  <2> QED
    BY <1>2, <1>4, <2>1, RankRecursion
<1>6. f = Def(f)
  <2>1. f \in [I -> V] /\ \A k \in I : f[k] = VarintAt(k, f)
    BY <1>3, <1>5 DEF Follows
  <2> QED
    BY <2>1
<1>7. g = Def(g)
  <2> HIDE DEF Def
  <2> QED
    BY <1>6, Zenon
<1>8. /\ g = [k \in I |-> g[k]]
      /\ \A k \in I : g[k] = VarintAt(k, g)
  <2>1. /\ Def(g) = [k \in I |-> Def(g)[k]]
        /\ \A k \in I : Def(g)[k] = VarintAt(k, g)
    OBVIOUS
  <2> HIDE DEF Def, g
  <2> QED
    BY <1>7, <2>1
<1> HIDE DEF g
<1>9. \A k \in I : g[k] \in V
  <2> DEFINE S == {k \in I : g[k] \in V}
  <2>1. ASSUME NEW k \in I, \A j \in I : rank[j] < rank[k] => j \in S
        PROVE  k \in S
    <3>1. \A j \in I : j < k => g[j] \in V
      BY <1>2, <2>1
    <3> QED
      BY <1>8, <3>1, VarintTyped
  <2> HIDE DEF S, I
  <2>2. I \subseteq S
    BY <1>2, <2>1, RankInduction
  <2> QED
    BY <2>2 DEF S
<1>10. g \in [I -> V]
  BY <1>8, <1>9
<1> QED
  BY <1>1, <1>8, <1>10 DEF VarintsBy

\* The entry of a number is what Varint writes for it alone.
LEMMA VarintEntries ==
  ASSUME NEW n \in Nat, NEW f, VarintsBy(f, n), NEW k \in 0 .. n
  PROVE  f[k] = Varint(k)
<1> DEFINE I == 0 .. k
           rank == [j \in I |-> j]
<1>1. PICK g : VarintsBy(g, k)
  BY VarintSteps
<1> DEFINE S == {j \in I : f[j] = g[j]}
<1>2. /\ rank \in [I -> Nat] /\ \A i, j \in I : rank[j] < rank[i] <=> j < i
  OBVIOUS
<1>3. ASSUME NEW i \in I, \A j \in I : rank[j] < rank[i] => j \in S
      PROVE  i \in S
  <2>1. \A j \in 0 .. k : j < i => f[j] = g[j]
    BY <1>2, <1>3
  <2>2. VarintAt(i, f) = VarintAt(i, g)
    BY <2>1, VarintSame
  <2>3. i \in 0 .. n /\ i \in 0 .. k
    OBVIOUS
  <2>4. f[i] = g[i]
    BY <1>1, <2>2, <2>3 DEF VarintsBy
  <2> QED
    BY <2>4
<1>4. k \in I
  OBVIOUS
<1> HIDE DEF S, I, rank
<1>5. I \subseteq S
  BY <1>2, <1>3, RankInduction
<1>6. f[k] = g[k]
  BY <1>4, <1>5 DEF S
<1> QED
  BY <1>1, <1>6 DEF VarintsBy

\* A number below Radix is its own varint; another one begins with its last
\* digit and goes on with the varint of the rest.
LEMMA VarintIs ==
  ASSUME NEW n \in Nat
  PROVE  /\ Varint(n) \in Seq(Byte)
         /\ n < Radix => Varint(n) = <<n>>
         /\ n >= Radix => Varint(n) = <<Radix + (n % Radix)>> \o Varint(n \div Radix)
<1>1. PICK f : VarintsBy(f, n)
  BY VarintSteps
<1>2. n \in 0 .. n
  OBVIOUS
<1>3. Varint(n) = VarintAt(n, f) /\ Varint(n) \in Seq(Byte)
  BY <1>1, <1>2 DEF VarintsBy
<1>4. CASE n < Radix
  BY <1>3, <1>4, RadixFacts DEF VarintAt
<1>5. CASE ~(n < Radix)
  <2>1. n \div Radix \in 0 .. n
    BY <1>2, <1>5, VarintGoesOn
  <2>2. f[n \div Radix] = Varint(n \div Radix)
    BY <1>1, <2>1, VarintEntries
  <2> QED
    BY <1>3, <1>5, <2>2 DEF VarintAt
<1> QED
  BY <1>4, <1>5, RadixFacts

\* How long a varint is, digit by digit.
LEMMA VarintLength ==
  ASSUME NEW n \in Nat
  PROVE  /\ Len(Varint(n)) \in Nat /\ Len(Varint(n)) >= 1
         /\ n < Radix => Len(Varint(n)) = 1
         /\ n >= Radix => Len(Varint(n)) = 1 + Len(Varint(n \div Radix))
<1>1. Varint(n) \in Seq(Byte)
  BY VarintIs
<1>2. CASE n < Radix
  <2>1. Varint(n) = <<n>>
    BY <1>2, VarintIs
  <2> QED
    BY <1>2, <2>1, RadixFacts
<1>3. CASE n >= Radix
  <2> DEFINE d == Radix + (n % Radix)
             w == Varint(n \div Radix)
  <2>1. n \div Radix \in Nat /\ n % Radix \in 0 .. Radix - 1
    BY DigitOff
  <2>2. w \in Seq(Byte) /\ Varint(n) = <<d>> \o w
    BY <1>3, <2>1, VarintIs
  <2>3. d \in Byte
    BY <2>1, RadixFacts
  <2> HIDE DEF d, w
  <2>4. <<d>> \in Seq(Byte) /\ Len(<<d>>) = 1
    BY <2>3
  <2>5. Len(Varint(n)) = 1 + Len(w) /\ Len(w) \in Nat
    BY <2>2, <2>4, ConcatBytes
  <2> QED
    BY <1>3, <2>5, RadixFacts DEF w
<1> QED
  BY <1>2, <1>3, RadixFacts

\* Dividing does not change the order of two numbers.
LEMMA DivMonotone ==
  ASSUME NEW B \in Nat, B > 0, NEW m \in Nat, NEW n \in Nat, m <= n
  PROVE  m \div B \in Nat /\ n \div B \in Nat /\ m \div B <= n \div B
<1> DEFINE p == m \div B
           q == n \div B
           r == m % B
           t == n % B
<1>1. /\ p \in Nat /\ r \in 0 .. B - 1 /\ m = B * p + r
      /\ q \in Nat /\ t \in 0 .. B - 1 /\ n = B * q + t
  OBVIOUS
<1> HIDE DEF p, q, r, t
<1>2. SUFFICES ASSUME p > q PROVE FALSE
  BY <1>1 DEF p, q
<1>3. PICK d \in Nat : p = q + 1 + d
  <2>1. p - q - 1 \in Nat /\ p = q + 1 + (p - q - 1)
    BY <1>1, <1>2
  <2> QED
    BY <2>1
<1>4. B * p = B * q + B + B * d /\ B * d \in Nat /\ B * q \in Nat /\ B * p \in Nat
  BY <1>1, <1>3
<1> QED
  BY <1>1, <1>4

\* A larger number has no shorter varint.
LEMMA VarintMonotone ==
  ASSUME NEW m \in Nat, NEW n \in Nat, m <= n
  PROVE  Len(Varint(m)) <= Len(Varint(n))
<1> DEFINE S == {k \in Nat : \A j \in Nat : j <= k => Len(Varint(j)) <= Len(Varint(k))}
<1>1. ASSUME NEW k \in Nat, \A i \in Nat : i < k => i \in S
      PROVE  k \in S
  <2> SUFFICES ASSUME NEW j \in Nat, j <= k PROVE Len(Varint(j)) <= Len(Varint(k))
    OBVIOUS
  <2>1. CASE j < Radix
    BY <2>1, VarintLength
  <2>2. CASE ~(j < Radix)
    <3>1. j >= Radix /\ k >= Radix
      BY <2>2, RadixFacts
    <3>2. k \div Radix \in Nat /\ k \div Radix < k /\ j \div Radix \in Nat
          /\ j \div Radix <= k \div Radix
      <4>1. k \div Radix < k
        BY <3>1, DigitOff
      <4>2. Radix \in Nat /\ Radix > 0
        BY RadixFacts
      <4> QED
        BY <4>1, <4>2, DivMonotone
    <3>3. k \div Radix \in S
      BY <1>1, <3>2
    <3>4. Len(Varint(j \div Radix)) <= Len(Varint(k \div Radix))
      BY <3>2, <3>3
    <3>5. Len(Varint(j)) = 1 + Len(Varint(j \div Radix))
          /\ Len(Varint(k)) = 1 + Len(Varint(k \div Radix))
          /\ Len(Varint(j \div Radix)) \in Nat /\ Len(Varint(k \div Radix)) \in Nat
      BY <3>1, <3>2, VarintLength
    <3> QED
      BY <3>4, <3>5
  <2> QED
    BY <2>1, <2>2
<1> HIDE DEF S
<1>2. Nat \subseteq S
  BY <1>1, StrongInduction
<1> QED
  BY <1>2 DEF S
-----------------------------------------------------------------------------
(* Varints: what TakeVarint reads. *)

\* The bytes of v are those of s from position i on.
Placed(v, s, i) ==
  /\ i \in Nat /\ i >= 1 /\ i + Len(v) <= Len(s) + 1
  /\ \A j \in 1 .. Len(v) : s[(i + j) - 1] = v[j]

\* What comes behind the first byte of what is placed.
LEMMA PlacedTail ==
  ASSUME NEW s \in Seq(Byte), NEW d \in Byte, NEW w \in Seq(Byte), NEW i,
         Placed(<<d>> \o w, s, i)
  PROVE  i \in 1 .. Len(s) /\ s[i] = d /\ Placed(w, s, i + 1)
<1> DEFINE v == <<d>> \o w
<1>1. /\ Len(<<d>>) = 1 /\ <<d>>[1] = d /\ <<d>> \in Seq(Byte)
      /\ Len(w) \in Nat /\ Len(s) \in Nat
  BY ByteFacts
<1>2. Len(v) = 1 + Len(w) /\ v[1] = d /\ \A j \in 1 .. Len(w) : v[1 + j] = w[j]
  <2>1. /\ Len(v) = Len(<<d>>) + Len(w)
        /\ \A j \in 1 .. Len(<<d>>) : v[j] = <<d>>[j]
        /\ \A j \in 1 .. Len(w) : v[Len(<<d>>) + j] = w[j]
    BY <1>1, ConcatBytes
  <2>2. 1 \in 1 .. Len(<<d>>)
    BY <1>1
  <2> QED
    BY <1>1, <2>1, <2>2
<1> HIDE DEF v
<1>3. i \in Nat /\ i >= 1 /\ i + Len(v) <= Len(s) + 1
      /\ \A j \in 1 .. Len(v) : s[(i + j) - 1] = v[j]
  BY DEF Placed, v
<1>4. i \in 1 .. Len(s) /\ i + 1 \in Nat /\ i + 1 >= 1 /\ (i + 1) + Len(w) <= Len(s) + 1
  BY <1>1, <1>2, <1>3
<1>5. s[i] = d
  <2>1. 1 \in 1 .. Len(v) /\ (i + 1) - 1 = i
    BY <1>1, <1>2, <1>3
  <2> QED
    BY <1>2, <1>3, <2>1
<1>6. ASSUME NEW j \in 1 .. Len(w) PROVE s[((i + 1) + j) - 1] = w[j]
  <2>1. 1 + j \in 1 .. Len(v) /\ (i + (1 + j)) - 1 = ((i + 1) + j) - 1
    BY <1>1, <1>2, <1>3
  <2> QED
    BY <1>2, <1>3, <2>1
<1> QED
  BY <1>4, <1>5, <1>6 DEF Placed

\* The position of the last byte of a varint placed at i.
LastOf(k, i) == (i + Len(Varint(k))) - 1

\* A varint in a sequence ends where its first byte below Radix is.
LEMMA VarintEnds ==
  ASSUME NEW s \in Seq(Byte), NEW k \in Nat, NEW i \in Nat, Placed(Varint(k), s, i)
  PROVE  /\ LastOf(k, i) \in i .. Len(s)
         /\ s[LastOf(k, i)] < Radix
         /\ \A j \in i .. LastOf(k, i) - 1 : s[j] >= Radix
<1> DEFINE EndsAt(m, p) == /\ LastOf(m, p) \in p .. Len(s)
                         /\ s[LastOf(m, p)] < Radix
                         /\ \A j \in p .. LastOf(m, p) - 1 : s[j] >= Radix
           S == {m \in Nat : \A p \in Nat : Placed(Varint(m), s, p) => EndsAt(m, p)}
<1>1. ASSUME NEW m \in Nat, \A n \in Nat : n < m => n \in S
      PROVE  m \in S
  <2> SUFFICES ASSUME NEW p \in Nat, Placed(Varint(m), s, p) PROVE EndsAt(m, p)
    OBVIOUS
  <2>1. CASE m < Radix
    <3>1. Varint(m) = <<m>> /\ Len(Varint(m)) = 1
      BY <2>1, VarintIs, VarintLength
    <3>2. p >= 1 /\ p + 1 <= Len(s) + 1 /\ s[p] = m
      <4>1. p >= 1 /\ p + 1 <= Len(s) + 1 /\ s[(p + 1) - 1] = Varint(m)[1]
        BY <3>1 DEF Placed
      <4>2. Varint(m)[1] = m /\ (p + 1) - 1 = p
        BY <3>1
      <4> QED
        BY <4>1, <4>2
    <3>3. LastOf(m, p) = p /\ Len(s) \in Nat
      BY <3>1, ByteFacts DEF LastOf
    <3> QED
      BY <2>1, <3>2, <3>3
  <2>2. CASE m >= Radix
    <3> DEFINE d == Radix + (m % Radix)
               n == m \div Radix
    <3>1. n \in Nat /\ n < m /\ m % Radix \in 0 .. Radix - 1
      BY <2>2, DigitOff
    <3>2. Varint(m) = <<d>> \o Varint(n) /\ Len(Varint(m)) = 1 + Len(Varint(n))
          /\ Len(Varint(n)) \in Nat /\ Varint(n) \in Seq(Byte)
      BY <2>2, <3>1, VarintIs, VarintLength
    <3>3. d \in Byte /\ d >= Radix
      BY <3>1, RadixFacts
    <3> HIDE DEF d, n
    <3>4. s[p] = d /\ Placed(Varint(n), s, p + 1)
      BY <3>2, <3>3, PlacedTail
    <3>5. EndsAt(n, p + 1)
      BY <1>1, <3>1, <3>4
    <3>6. LastOf(n, p + 1) = LastOf(m, p)
      BY <3>2 DEF LastOf
    <3>7. ASSUME NEW j \in p .. LastOf(m, p) - 1 PROVE s[j] >= Radix
      <4>1. CASE j = p
        BY <3>3, <3>4, <4>1
      <4>2. CASE j # p
        <5>1. j \in p + 1 .. LastOf(n, p + 1) - 1
          BY <3>6, <4>2
        <5> QED
          BY <3>5, <5>1
      <4> QED
        BY <4>1, <4>2
    <3>8. LastOf(m, p) \in p .. Len(s)
      <4>1. LastOf(m, p) \in p + 1 .. Len(s)
        BY <3>5, <3>6
      <4> QED
        BY <4>1
    <3> QED
      BY <3>5, <3>6, <3>7, <3>8
  <2> QED
    BY <2>1, <2>2, RadixFacts
<1> HIDE DEF S
<1>2. Nat \subseteq S
  BY <1>1, StrongInduction
<1> QED
  BY <1>2 DEF S

\* What TakeVarint makes of position j of a varint that ends at e, if f is
\* what it makes of the next; and the whole recursion.
ReadAt(s, e, j, f) == IF j > e THEN 0 ELSE (s[j] % Radix) + Radix * f[j + 1]

ReadsBy(f, s, i, e) ==
  /\ f \in [i .. e + 1 -> Nat]
  /\ \A j \in i .. e + 1 : f[j] = ReadAt(s, e, j, f)

Reading(s, i, e) == CHOOSE f : f = [j \in i .. e + 1 |-> ReadAt(s, e, j, f)]

LEMMA ReadTyped ==
  ASSUME NEW s \in Seq(Byte), NEW i \in Nat, i >= 1, NEW e \in i .. Len(s),
         NEW j \in i .. e + 1, NEW f,
         \A m \in i .. e + 1 : m > j => f[m] \in Nat
  PROVE  ReadAt(s, e, j, f) \in Nat
<1>1. CASE ~(j > e)
  <2>1. j + 1 \in i .. e + 1 /\ j + 1 > j /\ j \in 1 .. Len(s)
    BY <1>1, ByteFacts
  <2>2. f[j + 1] \in Nat /\ s[j] \in Nat /\ Radix \in Nat /\ Radix > 0
    BY <2>1, ByteFacts, RadixFacts
  <2>3. \A a \in Nat, b \in Nat, c \in Nat : c > 0 => (a % c) + c * b \in Nat
    OBVIOUS
  <2> QED
    BY <1>1, <2>2, <2>3 DEF ReadAt
<1> QED
  BY <1>1 DEF ReadAt

LEMMA ReadSame ==
  ASSUME NEW s \in Seq(Byte), NEW i \in Nat, i >= 1, NEW e \in i .. Len(s),
         NEW j \in i .. e + 1, NEW f, NEW g,
         \A m \in i .. e + 1 : m > j => f[m] = g[m]
  PROVE  ReadAt(s, e, j, f) = ReadAt(s, e, j, g)
<1>1. CASE ~(j > e)
  <2>1. j + 1 \in i .. e + 1 /\ j + 1 > j
    BY <1>1, ByteFacts
  <2> QED
    BY <1>1, <2>1 DEF ReadAt
<1> QED
  BY <1>1 DEF ReadAt

\* The recursion is defined at every position up to the end of the varint.
LEMMA ReadSteps ==
  ASSUME NEW s \in Seq(Byte), NEW i \in Nat, i >= 1, NEW e \in i .. Len(s)
  PROVE  ReadsBy(Reading(s, i, e), s, i, e)
<1> DEFINE I == i .. e + 1
           rank == [j \in I |-> e + 1 - j]
           step == [p \in I \X [I -> Nat] |-> ReadAt(s, e, p[1], p[2])]
           Def(f) == [j \in I |-> ReadAt(s, e, j, f)]
           g == CHOOSE f : f = Def(f)
<1>1. Reading(s, i, e) = g
  BY Zenon DEF Reading
<1>2. /\ e \in Nat /\ rank \in [I -> Nat] /\ \A j \in I : rank[j] < e + 1
      /\ \A j, m \in I : rank[m] < rank[j] <=> m > j
  BY ByteFacts
<1>3. \A j \in I, f \in [I -> Nat] : step[<<j, f>>] = ReadAt(s, e, j, f)
  OBVIOUS
<1>4. Descends(I, rank, Nat, step)
  <2>1. \A j \in I : \A f \in [I -> Nat] : ReadAt(s, e, j, f) \in Nat
    BY ReadTyped
  <2>2. step \in [I \X [I -> Nat] -> Nat]
    BY <2>1
  <2>3. ASSUME NEW j \in I, NEW f \in [I -> Nat], NEW h \in [I -> Nat],
               SameBelow(I, rank, rank[j], f, h)
        PROVE  step[<<j, f>>] = step[<<j, h>>]
    <3>1. \A m \in I : m > j => f[m] = h[m]
      BY <1>2, <2>3 DEF SameBelow
    <3>2. ReadAt(s, e, j, f) = ReadAt(s, e, j, h)
      BY <3>1, ReadSame
    <3> QED
      BY <1>3, <3>2
  <2> HIDE DEF step, rank
  <2> QED
    BY <2>2, <2>3 DEF Descends
<1> HIDE DEF step, rank
<1>5. PICK f : Follows(I, Nat, step, f)
  <2>1. e + 1 \in Nat /\ 0 \in Nat
    BY <1>2
  <2> HIDE DEF I
  <2> QED
    BY <1>2, <1>4, <2>1, RankRecursion
<1>6. f = Def(f)
  <2>1. f \in [I -> Nat] /\ \A j \in I : f[j] = ReadAt(s, e, j, f)
    BY <1>3, <1>5 DEF Follows
  <2> QED
    BY <2>1
<1>7. g = Def(g)
  <2> HIDE DEF Def
  <2> QED
    BY <1>6, Zenon
<1>8. /\ g = [j \in I |-> g[j]]
      /\ \A j \in I : g[j] = ReadAt(s, e, j, g)
  <2>1. /\ Def(g) = [j \in I |-> Def(g)[j]]
        /\ \A j \in I : Def(g)[j] = ReadAt(s, e, j, g)
    OBVIOUS
  <2> HIDE DEF Def, g
  <2> QED
    BY <1>7, <2>1
<1> HIDE DEF g
<1>9. \A j \in I : g[j] \in Nat
  <2> DEFINE S == {j \in I : g[j] \in Nat}
  <2>1. ASSUME NEW j \in I, \A m \in I : rank[m] < rank[j] => m \in S
        PROVE  j \in S
    <3>1. \A m \in I : m > j => g[m] \in Nat
      BY <1>2, <2>1
    <3>2. ReadAt(s, e, j, g) \in Nat
      BY <3>1, ReadTyped
    <3> QED
      BY <1>8, <3>2
  <2> HIDE DEF S, I
  <2>2. I \subseteq S
    BY <1>2, <2>1, RankInduction
  <2> QED
    BY <2>2 DEF S
<1>10. g \in [I -> Nat]
  BY <1>8, <1>9
<1> QED
  BY <1>1, <1>8, <1>10 DEF ReadsBy

\* Read from the position where a varint is placed, the digits make up the
\* number again.
LEMMA ReadingUndoes ==
  ASSUME NEW s \in Seq(Byte), NEW k \in Nat, NEW i \in Nat, Placed(Varint(k), s, i),
         NEW f, ReadsBy(f, s, i, LastOf(k, i))
  PROVE  f[i] = k
<1> DEFINE e == LastOf(k, i)
<1>1. e \in i .. Len(s) /\ i >= 1 /\ Len(s) \in Nat
  BY VarintEnds, ByteFacts DEF Placed
<1>2. \A j \in i .. e + 1 : f[j] \in Nat /\ f[j] = ReadAt(s, e, j, f)
  BY DEF ReadsBy
<1> DEFINE S == {m \in Nat : \A p \in Nat :
                  p >= i /\ Placed(Varint(m), s, p) /\ LastOf(m, p) = e => f[p] = m}
<1> HIDE DEF e
<1>3. ASSUME NEW m \in Nat, \A n \in Nat : n < m => n \in S
      PROVE  m \in S
  <2> SUFFICES ASSUME NEW p \in Nat, p >= i, Placed(Varint(m), s, p), LastOf(m, p) = e
               PROVE  f[p] = m
    OBVIOUS
  <2>1. p \in i .. e /\ p \in i .. e + 1 /\ p + 1 \in i .. e + 1 /\ ~(p > e)
    <3>1. LastOf(m, p) \in p .. Len(s)
      BY VarintEnds
    <3> QED
      BY <1>1, <3>1
  <2>2. f[p] = (s[p] % Radix) + Radix * f[p + 1]
    BY <1>2, <2>1 DEF ReadAt
  <2>3. CASE m < Radix
    <3>1. Varint(m) = <<m>> /\ Len(Varint(m)) = 1
      BY <2>3, VarintIs, VarintLength
    <3>2. p = e
      BY <3>1 DEF LastOf
    <3>3. s[p] = m
      <4>1. s[(p + 1) - 1] = Varint(m)[1]
        BY <3>1 DEF Placed
      <4>2. Varint(m)[1] = m /\ (p + 1) - 1 = p
        BY <3>1
      <4> QED
        BY <4>1, <4>2
    <3>4. f[p + 1] = 0
      <4>1. p + 1 > e
        BY <3>2
      <4> QED
        BY <1>2, <2>1, <4>1 DEF ReadAt
    <3>5. \A c \in Nat : m < c => (m % c) + c * 0 = m
      OBVIOUS
    <3> QED
      BY <2>2, <2>3, <3>3, <3>4, <3>5, RadixFacts
  <2>4. CASE m >= Radix
    <3> DEFINE r == m % Radix
               n == m \div Radix
               d == Radix + r
    <3>1. n \in Nat /\ n < m /\ r \in 0 .. Radix - 1 /\ m = r + Radix * n
      BY <2>4, DigitOff
    <3>2. Varint(m) = <<d>> \o Varint(n) /\ Len(Varint(m)) = 1 + Len(Varint(n))
      BY <2>4, VarintIs, VarintLength
    <3>3. Len(Varint(n)) \in Nat /\ Varint(n) \in Seq(Byte)
      BY <3>1, VarintIs, VarintLength
    <3>4. d \in Byte
      BY <3>1, RadixFacts
    <3> HIDE DEF n
    <3>5. s[p] = d /\ Placed(Varint(n), s, p + 1)
      <4> HIDE DEF d
      <4> QED
        BY <3>2, <3>3, <3>4, PlacedTail
    <3>6. LastOf(n, p + 1) = e
      BY <3>2, <3>3 DEF LastOf
    <3>7. f[p + 1] = n
      BY <1>3, <3>1, <3>5, <3>6
    <3> HIDE DEF r
    <3>8. \A c \in Nat : r \in 0 .. c - 1 => (c + r) % c = r
      OBVIOUS
    <3>9. s[p] % Radix = r
      BY <3>1, <3>5, <3>8, RadixFacts
    <3> QED
      BY <2>2, <3>1, <3>7, <3>9
  <2> QED
    BY <2>3, <2>4, RadixFacts
<1> HIDE DEF S
<1>4. k \in S
  BY <1>3, StrongInduction
<1>5. i >= i
  OBVIOUS
<1> QED
  BY <1>4, <1>5 DEF S, e

\* Taking what Varint wrote gives the number back, if it fits the type.
LEMMA TakeUndoes ==
  ASSUME NEW s \in Seq(Byte), NEW k \in Nat, NEW i \in Nat, Placed(Varint(k), s, i),
         NEW max \in Nat
  PROVE  /\ k <= max =>
              TakeVarint(s, i, max) = [ok |-> TRUE, value |-> k, next |-> i + Len(Varint(k))]
         /\ TakeVarint(s, i, max).ok => TakeVarint(s, i, max).value = k
<1> DEFINE e == LastOf(k, i)
           f == Reading(s, i, e)
           E == Ends(s, i)
           l == LastDigit(s, i)
           taken == [ok |-> TRUE, value |-> k, next |-> i + Len(Varint(k))]
<1>1. TakeVarint(s, i, max) =
        IF E = {} \/ l - i >= Len(Varint(max)) \/ FromDigits(s, i, l) > max THEN CodecError
        ELSE [ok |-> TRUE, value |-> FromDigits(s, i, l), next |-> l + 1]
  BY Zenon DEF TakeVarint
<1>2. /\ e \in i .. Len(s) /\ s[e] < Radix /\ i >= 1
      /\ \A j \in i .. e - 1 : s[j] >= Radix
  BY VarintEnds DEF Placed
<1>3. e \in E /\ \A j \in E : e <= j
  <2>1. e \in E
    BY <1>2 DEF Ends
  <2>2. ASSUME NEW j \in E PROVE e <= j
    <3>1. j \in i .. Len(s) /\ s[j] < Radix /\ j \in 1 .. Len(s) /\ s[j] \in Nat
      BY <1>2, ByteFacts DEF Ends
    <3>2. CASE j < e
      <4>1. j \in i .. e - 1
        BY <1>2, <3>1, <3>2
      <4> QED
        BY <1>2, <3>1, <4>1, RadixFacts
    <3> QED
      BY <1>2, <3>1, <3>2
  <2> QED
    BY <2>1, <2>2
<1>4. l = e
  <2>1. l \in E /\ \A j \in E : l <= j
    <3> HIDE DEF e, E
    <3> QED
      BY <1>3 DEF LastDigit, E
  <2>2. l <= e /\ e <= l
    BY <1>3, <2>1
  <2>3. l \in Int /\ e \in Int
    <3>1. l \in i .. Len(s)
      BY <2>1 DEF Ends
    <3> HIDE DEF l
    <3> QED
      BY <1>2, <3>1
  <2> HIDE DEF l, e
  <2> QED
    BY <2>2, <2>3
<1>5. f[i] = k
  <2>1. ReadsBy(f, s, i, e)
    BY <1>2, ReadSteps
  <2> HIDE DEF f
  <2> QED
    BY <2>1, ReadingUndoes
<1>6. e = (i + Len(Varint(k))) - 1 /\ Len(Varint(k)) \in Nat /\ Len(Varint(max)) \in Nat
  BY VarintLength DEF LastOf
<1> DEFINE m == Len(Varint(k))
           M == Len(Varint(max))
<1>7. TakeVarint(s, i, max) = IF m - 1 >= M \/ k > max THEN CodecError ELSE taken
  <2>1. E # {}
    BY <1>3
  <2>2. e - i = m - 1 /\ e + 1 = i + m
    BY <1>6
  <2>3. FromDigits(s, i, l) = k
    <3>1. FromDigits(s, i, e) = Reading(s, i, e)[i]
      BY Zenon DEF FromDigits, Reading, ReadAt
    <3> QED
      BY <1>4, <1>5, <3>1
  <2> HIDE DEF E, e, l, m, M
  <2> QED
    BY <1>1, <1>4, <2>1, <2>2, <2>3 DEF m, M
<1>8. k <= max => ~(m - 1 >= M) /\ ~(k > max)
  <2> SUFFICES ASSUME k <= max PROVE ~(m - 1 >= M) /\ ~(k > max)
    OBVIOUS
  <2>1. m <= M
    BY VarintMonotone
  <2> QED
    BY <1>6, <2>1
<1>9. ~CodecError.ok /\ taken.ok /\ taken.value = k
  BY DEF CodecError
<1> HIDE DEF m, M, taken
<1>10. k <= max => TakeVarint(s, i, max) = taken
  BY <1>7, <1>8
<1>11. TakeVarint(s, i, max).ok => TakeVarint(s, i, max).value = k
  BY <1>7, <1>9
<1> QED
  BY <1>10, <1>11 DEF taken
-----------------------------------------------------------------------------
(* Serialize and Deserialize. *)

\* What is appended to a sequence is placed behind it, and stays where it is
\* when more is appended.
LEMMA PlacedLast ==
  ASSUME NEW a \in Seq(Byte), NEW v \in Seq(Byte)
  PROVE  Placed(v, a \o v, Len(a) + 1)
<1>1. /\ Len(a) \in Nat /\ Len(v) \in Nat /\ Len(a \o v) = Len(a) + Len(v)
      /\ \A j \in 1 .. Len(v) : (a \o v)[Len(a) + j] = v[j]
  BY ConcatBytes
<1> DEFINE s == a \o v
           n == Len(a)
<1> HIDE DEF s, n
<1>2. \A j \in 1 .. Len(v) : ((n + 1) + j) - 1 = n + j
  BY <1>1 DEF n
<1>3. \A j \in 1 .. Len(v) : s[((n + 1) + j) - 1] = v[j]
  BY <1>1, <1>2 DEF n, s
<1>4. n + 1 \in Nat /\ n + 1 >= 1 /\ (n + 1) + Len(v) <= Len(s) + 1
  BY <1>1 DEF n, s
<1> QED
  BY <1>3, <1>4 DEF Placed, n, s

LEMMA PlacedStays ==
  ASSUME NEW s \in Seq(Byte), NEW t \in Seq(Byte), NEW v \in Seq(Byte), NEW i,
         Placed(v, s, i)
  PROVE  Placed(v, s \o t, i)
<1> DEFINE c == s \o t
<1>1. /\ Len(c) = Len(s) + Len(t) /\ Len(s) \in Nat /\ Len(t) \in Nat /\ Len(v) \in Nat
      /\ \A j \in 1 .. Len(s) : c[j] = s[j]
  BY ConcatBytes, ByteFacts
<1> HIDE DEF c
<1>2. i \in Nat /\ i >= 1 /\ i + Len(v) <= Len(s) + 1
      /\ \A j \in 1 .. Len(v) : s[(i + j) - 1] = v[j]
  BY DEF Placed
<1>3. \A j \in 1 .. Len(v) : (i + j) - 1 \in 1 .. Len(s)
  BY <1>1, <1>2
<1>4. \A j \in 1 .. Len(v) : c[(i + j) - 1] = v[j]
  BY <1>1, <1>2, <1>3
<1>5. i + Len(v) <= Len(c) + 1
  BY <1>1, <1>2
<1> QED
  BY <1>2, <1>4, <1>5 DEF Placed, c

\* The parts of a serialized record, and where each begins.
VersionOf(r) == Varint(r.version)
StampOf(r)   == Varint(r.timestamp_us)
NumberOf(r)  == Varint(r.sequence)
KindOf(r)    == <<r.packet_type, r.severity>>
LengthOf(r)  == Varint(Len(r.payload))

StampAt(r)   == 1 + Len(VersionOf(r))
NumberAt(r)  == StampAt(r) + Len(StampOf(r))
KindAt(r)    == NumberAt(r) + Len(NumberOf(r))
LengthAt(r)  == KindAt(r) + 2
PayloadAt(r) == LengthAt(r) + Len(LengthOf(r))

\* What kinds of values a record has.
LEMMA RecordIs ==
  ASSUME NEW r, IsRecord(r)
  PROVE  /\ r = [version |-> r.version, timestamp_us |-> r.timestamp_us,
                 sequence |-> r.sequence, packet_type |-> r.packet_type,
                 severity |-> r.severity, payload |-> r.payload]
         /\ r.version \in Nat /\ r.timestamp_us \in Nat /\ r.sequence \in Nat
         /\ r.timestamp_us <= MaxU64 /\ r.sequence <= MaxU32
         /\ MaxU64 \in Nat /\ MaxU32 \in Nat
         /\ r.packet_type \in Byte /\ r.severity \in Byte /\ r.payload \in Seq(Byte)
         /\ Len(r.payload) \in Nat /\ Len(r.payload) <= MAX_PAYLOAD
         /\ MAX_PAYLOAD \in Nat /\ MAX_PAYLOAD <= MaxU64
<1>1. /\ r = [version |-> r.version, timestamp_us |-> r.timestamp_us,
              sequence |-> r.sequence, packet_type |-> r.packet_type,
              severity |-> r.severity, payload |-> r.payload]
      /\ r.version \in Byte /\ r.timestamp_us \in 0 .. MaxU64 /\ r.sequence \in 0 .. MaxU32
      /\ r.packet_type \in Byte /\ r.severity \in Byte /\ r.payload \in Seq(Byte)
      /\ Len(r.payload) <= MAX_PAYLOAD
  BY DEF IsRecord
<1>2. \A b \in Byte : b \in Nat
  BY RadixFacts
<1>3. Len(r.payload) \in Nat
  BY <1>1, ByteFacts
<1>4. MaxU64 \in Nat /\ MaxU32 \in Nat /\ MAX_PAYLOAD \in Nat /\ MAX_PAYLOAD <= MaxU64
  BY RecordAssumption
<1>5. \A m \in Nat : \A n \in 0 .. m : n \in Nat /\ n <= m
  OBVIOUS
<1> HIDE DEF Byte
<1>6. /\ r.timestamp_us \in Nat /\ r.sequence \in Nat
      /\ r.timestamp_us <= MaxU64 /\ r.sequence <= MaxU32
  BY <1>1, <1>4, <1>5
<1> QED
  BY <1>1, <1>2, <1>3, <1>4, <1>6

\* Serialize puts each part at its place.
LEMMA SerializedParts ==
  ASSUME NEW r, IsRecord(r)
  PROVE  /\ Serialize(r) \in Seq(Byte)
         /\ Len(Serialize(r)) + 1 = PayloadAt(r) + Len(r.payload)
         /\ Placed(VersionOf(r), Serialize(r), 1)
         /\ Placed(StampOf(r), Serialize(r), StampAt(r))
         /\ Placed(NumberOf(r), Serialize(r), NumberAt(r))
         /\ Placed(KindOf(r), Serialize(r), KindAt(r))
         /\ Placed(LengthOf(r), Serialize(r), LengthAt(r))
         /\ Placed(r.payload, Serialize(r), PayloadAt(r))
<1> DEFINE v == VersionOf(r)
           t == StampOf(r)
           n == NumberOf(r)
           k == KindOf(r)
           l == LengthOf(r)
           p == r.payload
           s2 == v \o t
           s3 == s2 \o n
           s4 == s3 \o k
           s5 == s4 \o l
           s6 == s5 \o p
<1>1. /\ v \in Seq(Byte) /\ t \in Seq(Byte) /\ n \in Seq(Byte)
      /\ k \in Seq(Byte) /\ Len(k) = 2 /\ l \in Seq(Byte) /\ p \in Seq(Byte)
  <2>1. /\ r.version \in Nat /\ r.timestamp_us \in Nat /\ r.sequence \in Nat
        /\ r.packet_type \in Byte /\ r.severity \in Byte /\ r.payload \in Seq(Byte)
        /\ Len(r.payload) \in Nat
    BY RecordIs
  <2>2. v \in Seq(Byte) /\ t \in Seq(Byte) /\ n \in Seq(Byte) /\ l \in Seq(Byte)
    BY <2>1, VarintIs DEF VersionOf, StampOf, NumberOf, LengthOf
  <2>3. k \in Seq(Byte) /\ Len(k) = 2
    BY <2>1 DEF KindOf
  <2> QED
    BY <2>1, <2>2, <2>3
<1>2. Serialize(r) = s6
  BY DEF Serialize, VersionOf, StampOf, NumberOf, KindOf, LengthOf
<1>3. /\ StampAt(r) = 1 + Len(v) /\ NumberAt(r) = StampAt(r) + Len(t)
      /\ KindAt(r) = NumberAt(r) + Len(n) /\ LengthAt(r) = KindAt(r) + 2
      /\ PayloadAt(r) = LengthAt(r) + Len(l)
  BY DEF StampAt, NumberAt, KindAt, LengthAt, PayloadAt
<1> HIDE DEF v, t, n, k, l, p, s2, s3, s4, s5, s6
<1>4. s2 \in Seq(Byte) /\ Len(s2) = Len(v) + Len(t)
  BY <1>1, ConcatBytes DEF s2
<1>5. s3 \in Seq(Byte) /\ Len(s3) = Len(s2) + Len(n)
  BY <1>1, <1>4, ConcatBytes DEF s3
<1>6. s4 \in Seq(Byte) /\ Len(s4) = Len(s3) + Len(k)
  BY <1>1, <1>5, ConcatBytes DEF s4
<1>7. s5 \in Seq(Byte) /\ Len(s5) = Len(s4) + Len(l)
  BY <1>1, <1>6, ConcatBytes DEF s5
<1>8. s6 \in Seq(Byte) /\ Len(s6) = Len(s5) + Len(p)
  BY <1>1, <1>7, ConcatBytes DEF s6
<1>9. Len(v) \in Nat /\ Len(t) \in Nat /\ Len(n) \in Nat /\ Len(l) \in Nat /\ Len(p) \in Nat
  BY <1>1, ByteFacts
<1>10. /\ StampAt(r) = Len(v) + 1 /\ NumberAt(r) = Len(s2) + 1 /\ KindAt(r) = Len(s3) + 1
       /\ LengthAt(r) = Len(s4) + 1 /\ PayloadAt(r) = Len(s5) + 1
       /\ Len(s6) + 1 = PayloadAt(r) + Len(p)
  BY <1>1, <1>3, <1>4, <1>5, <1>6, <1>7, <1>8, <1>9
<1>11. Placed(v, s6, 1)
  <2>1. Placed(v, v, 1)
    BY <1>1, <1>9 DEF Placed
  <2>2. Placed(v, s2, 1)
    BY <1>1, <2>1, PlacedStays DEF s2
  <2>3. Placed(v, s3, 1)
    BY <1>1, <1>4, <2>2, PlacedStays DEF s3
  <2>4. Placed(v, s4, 1)
    BY <1>1, <1>5, <2>3, PlacedStays DEF s4
  <2>5. Placed(v, s5, 1)
    BY <1>1, <1>6, <2>4, PlacedStays DEF s5
  <2> QED
    BY <1>1, <1>7, <2>5, PlacedStays DEF s6
<1>12. Placed(t, s6, StampAt(r))
  <2>1. Placed(t, s2, StampAt(r))
    BY <1>1, <1>10, PlacedLast DEF s2
  <2>2. Placed(t, s3, StampAt(r))
    BY <1>1, <1>4, <2>1, PlacedStays DEF s3
  <2>3. Placed(t, s4, StampAt(r))
    BY <1>1, <1>5, <2>2, PlacedStays DEF s4
  <2>4. Placed(t, s5, StampAt(r))
    BY <1>1, <1>6, <2>3, PlacedStays DEF s5
  <2> QED
    BY <1>1, <1>7, <2>4, PlacedStays DEF s6
<1>13. Placed(n, s6, NumberAt(r))
  <2>1. Placed(n, s3, NumberAt(r))
    BY <1>1, <1>4, <1>10, PlacedLast DEF s3
  <2>2. Placed(n, s4, NumberAt(r))
    BY <1>1, <1>5, <2>1, PlacedStays DEF s4
  <2>3. Placed(n, s5, NumberAt(r))
    BY <1>1, <1>6, <2>2, PlacedStays DEF s5
  <2> QED
    BY <1>1, <1>7, <2>3, PlacedStays DEF s6
<1>14. Placed(k, s6, KindAt(r))
  <2>1. Placed(k, s4, KindAt(r))
    BY <1>1, <1>5, <1>10, PlacedLast DEF s4
  <2>2. Placed(k, s5, KindAt(r))
    BY <1>1, <1>6, <2>1, PlacedStays DEF s5
  <2> QED
    BY <1>1, <1>7, <2>2, PlacedStays DEF s6
<1>15. Placed(l, s6, LengthAt(r))
  <2>1. Placed(l, s5, LengthAt(r))
    BY <1>1, <1>6, <1>10, PlacedLast DEF s5
  <2> QED
    BY <1>1, <1>7, <2>1, PlacedStays DEF s6
<1>16. Placed(p, s6, PayloadAt(r))
  BY <1>1, <1>7, <1>10, PlacedLast DEF s6
<1> QED
  BY <1>2, <1>8, <1>10, <1>11, <1>12, <1>13, <1>14, <1>15, <1>16 DEF v, t, n, k, l, p

\* What is placed in a sequence can be cut out of it.
LEMMA PlacedSlice ==
  ASSUME NEW s \in Seq(Byte), NEW v \in Seq(Byte), NEW i, Placed(v, s, i)
  PROVE  SubSeq(s, i, (i + Len(v)) - 1) = v
<1> DEFINE n == (i + Len(v)) - 1
           x == SubSeq(s, i, n)
<1>1. /\ i \in Nat /\ i >= 1 /\ i + Len(v) <= Len(s) + 1
      /\ \A j \in 1 .. Len(v) : s[(i + j) - 1] = v[j]
      /\ Len(v) \in Nat /\ Len(s) \in Nat
  BY ByteFacts DEF Placed
<1>2. n \in Nat /\ i <= n + 1 /\ n <= Len(s) /\ (n + 1) - i = Len(v)
  BY <1>1
<1> HIDE DEF n
<1>3. /\ x \in Seq(Byte) /\ Len(x) = Len(v)
      /\ \A j \in 1 .. Len(v) : x[j] = s[(i + j) - 1]
  BY <1>1, <1>2, Slice
<1> HIDE DEF x
<1>4. \A j \in 1 .. Len(x) : x[j] = v[j]
  BY <1>1, <1>3
<1>5. x = v
  BY <1>3, <1>4, SeqEqual
<1> QED
  BY <1>5 DEF x, n

\* Deserialize gives back a record of this version, and refuses any other.
LEMMA DeserializeUndoes ==
  ASSUME NEW r, IsRecord(r)
  PROVE  Deserialize(Serialize(r)) =
           IF Known(r) THEN [ok |-> TRUE, record |-> r] ELSE CodecError
<1> DEFINE s == Serialize(r)
           version == TakeVarint(s, 1, MaxU32)
           stamp   == TakeVarint(s, version.next, MaxU64)
           number  == TakeVarint(s, stamp.next, MaxU32)
           at      == number.next
           length  == TakeVarint(s, at + 2, MaxU64)
           from    == length.next
           whole   == /\ version.ok /\ version.value = V1
                      /\ stamp.ok /\ number.ok /\ at + 1 <= Len(s)
                      /\ length.ok /\ length.value <= MAX_PAYLOAD
                      /\ from + length.value - 1 <= Len(s)
           read    == [version |-> V1, timestamp_us |-> stamp.value,
                       sequence |-> number.value, packet_type |-> s[at],
                       severity |-> s[at + 1],
                       payload |-> SubSeq(s, from, from + length.value - 1)]
<1>1. Deserialize(s) = IF whole THEN [ok |-> TRUE, record |-> read] ELSE CodecError
  BY Zenon DEF Deserialize
<1>2. /\ s \in Seq(Byte) /\ Len(s) + 1 = PayloadAt(r) + Len(r.payload)
      /\ Placed(VersionOf(r), s, 1) /\ Placed(StampOf(r), s, StampAt(r))
      /\ Placed(NumberOf(r), s, NumberAt(r)) /\ Placed(KindOf(r), s, KindAt(r))
      /\ Placed(LengthOf(r), s, LengthAt(r)) /\ Placed(r.payload, s, PayloadAt(r))
  BY SerializedParts
<1>3. /\ r.version \in Nat /\ r.timestamp_us \in Nat /\ r.sequence \in Nat
      /\ r.timestamp_us <= MaxU64 /\ r.sequence <= MaxU32
      /\ MaxU64 \in Nat /\ MaxU32 \in Nat
      /\ r.packet_type \in Byte /\ r.severity \in Byte /\ r.payload \in Seq(Byte)
      /\ Len(r.payload) \in Nat /\ Len(r.payload) <= MAX_PAYLOAD
      /\ MAX_PAYLOAD \in Nat /\ MAX_PAYLOAD <= MaxU64
  BY RecordIs
<1> HIDE DEF s
<1>4. CASE ~Known(r)
  <2>1. version.ok => version.value = r.version
    BY <1>2, <1>3, TakeUndoes DEF VersionOf
  <2>2. ~whole
    BY <1>4, <2>1 DEF Known
  <2> HIDE DEF whole, read
  <2> QED
    BY <1>1, <1>4, <2>2 DEF s
<1>5. CASE Known(r)
  <2>1. /\ StampAt(r) \in Nat /\ NumberAt(r) \in Nat /\ KindAt(r) \in Nat
        /\ LengthAt(r) \in Nat /\ PayloadAt(r) \in Nat
    BY <1>2 DEF Placed
  <2>2. version = [ok |-> TRUE, value |-> V1, next |-> StampAt(r)]
    <3>1. r.version = V1 /\ r.version <= MaxU32
      BY <1>3, <1>5 DEF Known, V1
    <3> QED
      BY <1>2, <1>3, <3>1, TakeUndoes DEF VersionOf, StampAt
  <2> HIDE DEF version
  <2>3. stamp = [ok |-> TRUE, value |-> r.timestamp_us, next |-> NumberAt(r)]
    <3>1. version.next = StampAt(r)
      BY <2>2
    <3>2. Placed(Varint(r.timestamp_us), s, StampAt(r))
      BY <1>2 DEF StampOf
    <3>3. TakeVarint(s, StampAt(r), MaxU64) =
            [ok |-> TRUE, value |-> r.timestamp_us,
             next |-> StampAt(r) + Len(Varint(r.timestamp_us))]
      <4>1. /\ s \in Seq(Byte) /\ r.timestamp_us \in Nat /\ StampAt(r) \in Nat
            /\ MaxU64 \in Nat /\ r.timestamp_us <= MaxU64
        BY <1>2, <1>3, <2>1
      <4> QED
        BY <3>2, <4>1, TakeUndoes
    <3> QED
      BY <3>1, <3>3 DEF StampOf, NumberAt
  <2> HIDE DEF stamp
  <2>4. number = [ok |-> TRUE, value |-> r.sequence, next |-> KindAt(r)]
    <3>1. stamp.next = NumberAt(r)
      BY <2>3
    <3>2. Placed(Varint(r.sequence), s, NumberAt(r))
      BY <1>2 DEF NumberOf
    <3>3. TakeVarint(s, NumberAt(r), MaxU32) =
            [ok |-> TRUE, value |-> r.sequence, next |-> NumberAt(r) + Len(Varint(r.sequence))]
      <4>1. /\ s \in Seq(Byte) /\ r.sequence \in Nat /\ NumberAt(r) \in Nat
            /\ MaxU32 \in Nat /\ r.sequence <= MaxU32
        BY <1>2, <1>3, <2>1
      <4> QED
        BY <3>2, <4>1, TakeUndoes
    <3> QED
      BY <3>1, <3>3 DEF NumberOf, KindAt
  <2> HIDE DEF number
  <2>5. at = KindAt(r) /\ at + 2 = LengthAt(r)
    BY <2>4 DEF LengthAt
  <2>6. length = [ok |-> TRUE, value |-> Len(r.payload), next |-> PayloadAt(r)]
    <3>1. Len(r.payload) <= MaxU64
      BY <1>3
    <3>2. Placed(Varint(Len(r.payload)), s, LengthAt(r))
      BY <1>2 DEF LengthOf
    <3>3. TakeVarint(s, LengthAt(r), MaxU64) =
            [ok |-> TRUE, value |-> Len(r.payload),
             next |-> LengthAt(r) + Len(Varint(Len(r.payload)))]
      BY <1>2, <1>3, <2>1, <3>1, <3>2, TakeUndoes
    <3> QED
      BY <2>5, <3>3 DEF LengthOf, PayloadAt
  <2> HIDE DEF at, length
  <2>7. from = PayloadAt(r) /\ length.value = Len(r.payload)
    BY <2>6
  <2>8. s[at] = r.packet_type /\ s[at + 1] = r.severity /\ at + 1 <= Len(s)
    <3> DEFINE k == KindOf(r)
    <3>1. Len(k) = 2 /\ k[1] = r.packet_type /\ k[2] = r.severity
      BY DEF KindOf
    <3> HIDE DEF k
    <3>2. at \in Nat /\ at + 2 <= Len(s) + 1 /\ s[(at + 1) - 1] = k[1] /\ s[(at + 2) - 1] = k[2]
      <4>1. at \in Nat /\ Placed(k, s, at)
        BY <1>2, <2>1, <2>5 DEF k
      <4>2. 1 \in 1 .. Len(k) /\ 2 \in 1 .. Len(k)
        BY <3>1
      <4> HIDE DEF at
      <4> QED
        BY <3>1, <4>1, <4>2 DEF Placed
    <3>3. (at + 1) - 1 = at /\ (at + 2) - 1 = at + 1 /\ Len(s) \in Nat
      BY <1>2, <3>2, ByteFacts
    <3> QED
      BY <3>1, <3>2, <3>3
  <2>9. SubSeq(s, from, from + length.value - 1) = r.payload
    <3>1. SubSeq(s, PayloadAt(r), (PayloadAt(r) + Len(r.payload)) - 1) = r.payload
      BY <1>2, <1>3, PlacedSlice
    <3> HIDE DEF from
    <3>2. from + (length.value - 1) = (PayloadAt(r) + Len(r.payload)) - 1
      BY <1>3, <2>1, <2>7
    <3> QED
      BY <2>7, <3>1, <3>2, Zenon
  <2>10. whole
    <3>1. from + length.value - 1 <= Len(s)
      <4> DEFINE L == Len(s)
                 m == Len(r.payload)
      <4>1. L + 1 = PayloadAt(r) + m /\ m \in Nat /\ L \in Nat
        BY <1>2, <1>3, ByteFacts
      <4>2. PayloadAt(r) + m - 1 <= L
        <5> HIDE DEF L, m
        <5> QED
          BY <2>1, <4>1
      <4> QED
        BY <2>7, <4>2
    <3>2. version.ok /\ version.value = V1 /\ stamp.ok /\ number.ok /\ length.ok
      BY <2>2, <2>3, <2>4, <2>6
    <3>3. length.value <= MAX_PAYLOAD
      BY <1>3, <2>7
    <3> HIDE DEF from
    <3> QED
      BY <2>8, <3>1, <3>2, <3>3
  <2>11. read = r
    <3>1. stamp.value = r.timestamp_us /\ number.value = r.sequence /\ V1 = r.version
      BY <1>5, <2>3, <2>4 DEF Known
    <3>2. read = [version |-> r.version, timestamp_us |-> r.timestamp_us,
                  sequence |-> r.sequence, packet_type |-> r.packet_type,
                  severity |-> r.severity, payload |-> r.payload]
      BY <2>8, <2>9, <3>1
    <3> HIDE DEF read
    <3> QED
      BY <3>2, RecordIs
  <2> HIDE DEF whole, read
  <2> QED
    BY <1>1, <1>5, <2>10, <2>11 DEF s
<1> QED
  BY <1>4, <1>5
-----------------------------------------------------------------------------
(* The checksum. *)

\* The remainder after n bytes of s, if f is the remainders before it; and how
\* a digit is shifted out of it.
RestAt(s, n, f) == IF n = 0 THEN 1 ELSE (7 * f[n - 1] + s[n] + 1) % CrcModulus
ShiftedAt(rest, k, f) == IF k = 0 THEN rest ELSE f[k - 1] \div (MaxByte + 1)

RestOf(s) == CHOOSE f : f = [n \in 0 .. Len(s) |-> RestAt(s, n, f)]
ShiftedOf(rest) == CHOOSE f : f = [k \in 0 .. CRC_LEN |-> ShiftedAt(rest, k, f)]

LEMMA RestTyped ==
  ASSUME NEW s \in Seq(Byte)
  PROVE  RestOf(s)[Len(s)] \in Nat
<1> DEFINE n == Len(s)
           I == 0 .. n
           Def(f) == [i \in I |-> RestAt(s, i, f)]
           g == CHOOSE f : f = Def(f)
           step == [p \in (1 .. n) \X Nat |-> (7 * p[2] + s[p[1]] + 1) % CrcModulus]
<1>1. n \in Nat /\ \A i \in 1 .. n : s[i] \in Nat
  BY ByteFacts
<1>2. CrcModulus \in Nat /\ CrcModulus > 0
  BY RecordAssumption
<1>3. RestOf(s) = g
  BY Zenon DEF RestOf
<1>4. \A a \in Nat, b \in Nat, c \in Nat : c > 0 => (7 * a + b + 1) % c \in Nat
  OBVIOUS
<1>5. step \in StepFunctions(n, Nat)
  BY <1>1, <1>2, <1>4 DEF StepFunctions
<1>6. \A i \in 1 .. n, r \in Nat : step[<<i, r>>] = (7 * r + s[i] + 1) % CrcModulus
  OBVIOUS
<1> HIDE DEF step, n
<1>7. PICK f : Recurs(f, n, Nat, 1, step)
  BY <1>1, <1>5, Recursion
<1>8. f = Def(f)
  <2>1. f \in [I -> Nat] /\ f[0] = 1 /\ \A i \in 1 .. n : f[i] = step[<<i, f[i - 1]>>]
    BY <1>7 DEF Recurs
  <2>2. ASSUME NEW i \in I PROVE f[i] = RestAt(s, i, f)
    <3>1. CASE i = 0
      BY <2>1, <3>1 DEF RestAt
    <3>2. CASE i # 0
      <4>1. i \in 1 .. n /\ i - 1 \in I
        BY <1>1, <3>2
      <4>2. f[i - 1] \in Nat
        BY <2>1, <4>1
      <4> QED
        BY <1>6, <2>1, <3>2, <4>1, <4>2 DEF RestAt
    <3> QED
      BY <3>1, <3>2
  <2> QED
    BY <2>1, <2>2
<1>9. g = Def(g)
  <2> HIDE DEF Def
  <2> QED
    BY <1>8, Zenon
<1>10. \A i \in I : g[i] = RestAt(s, i, g)
  <2>1. \A i \in I : Def(g)[i] = RestAt(s, i, g)
    OBVIOUS
  <2> HIDE DEF Def, g
  <2> QED
    BY <1>9, <2>1
<1> HIDE DEF g
<1> DEFINE S == {i \in I : g[i] \in Nat}
<1>11. 0 \in S
  BY <1>1, <1>10 DEF RestAt
<1>12. ASSUME NEW i \in 1 .. n, i - 1 \in S
       PROVE  i \in S
  <2>1. i \in I /\ i # 0 /\ g[i - 1] \in Nat
    BY <1>1, <1>12
  <2>2. g[i] = (7 * g[i - 1] + s[i] + 1) % CrcModulus
    BY <1>10, <2>1 DEF RestAt
  <2>3. (7 * g[i - 1] + s[i] + 1) % CrcModulus \in Nat
    BY <1>1, <1>2, <1>4, <2>1
  <2> QED
    BY <2>1, <2>2, <2>3
<1> HIDE DEF S
<1>13. 0 .. n \subseteq S
  BY <1>1, <1>11, <1>12, IntervalInduction
<1>14. n \in S
  BY <1>1, <1>13
<1> QED
  BY <1>3, <1>14 DEF S, n

LEMMA ShiftedTyped ==
  ASSUME NEW rest \in Nat
  PROVE  \A k \in 0 .. CRC_LEN : ShiftedOf(rest)[k] \in Nat
<1> DEFINE I == 0 .. CRC_LEN
           B == MaxByte + 1
           Def(f) == [k \in I |-> ShiftedAt(rest, k, f)]
           g == CHOOSE f : f = Def(f)
           step == [p \in (1 .. CRC_LEN) \X Nat |-> p[2] \div B]
<1>1. CRC_LEN \in Nat /\ B \in Nat /\ B > 0
  BY RecordAssumption, MaxByteAssumption
<1>2. ShiftedOf(rest) = g
  BY Zenon DEF ShiftedOf
<1> HIDE DEF B
<1>3. \A a \in Nat : a \div B \in Nat
  BY <1>1
<1>4. step \in StepFunctions(CRC_LEN, Nat)
  BY <1>3 DEF StepFunctions
<1>5. \A k \in 1 .. CRC_LEN, r \in Nat : step[<<k, r>>] = r \div B
  OBVIOUS
<1> HIDE DEF step
<1>6. PICK f : Recurs(f, CRC_LEN, Nat, rest, step)
  BY <1>1, <1>4, Recursion
<1>7. f = Def(f)
  <2>1. f \in [I -> Nat] /\ f[0] = rest /\ \A k \in 1 .. CRC_LEN : f[k] = step[<<k, f[k - 1]>>]
    BY <1>6 DEF Recurs
  <2>2. ASSUME NEW k \in I PROVE f[k] = ShiftedAt(rest, k, f)
    <3>1. CASE k = 0
      BY <2>1, <3>1 DEF ShiftedAt
    <3>2. CASE k # 0
      <4>1. k \in 1 .. CRC_LEN /\ k - 1 \in I
        BY <1>1, <3>2
      <4>2. f[k - 1] \in Nat
        BY <2>1, <4>1
      <4> QED
        BY <1>5, <2>1, <3>2, <4>1, <4>2 DEF ShiftedAt, B
    <3> QED
      BY <3>1, <3>2
  <2> QED
    BY <2>1, <2>2
<1>8. g = Def(g)
  <2> HIDE DEF Def
  <2> QED
    BY <1>7, Zenon
<1>9. \A k \in I : g[k] = ShiftedAt(rest, k, g)
  <2>1. \A k \in I : Def(g)[k] = ShiftedAt(rest, k, g)
    OBVIOUS
  <2> HIDE DEF Def, g
  <2> QED
    BY <1>8, <2>1
<1> HIDE DEF g
<1> DEFINE S == {k \in I : g[k] \in Nat}
<1>10. 0 \in S
  BY <1>1, <1>9 DEF ShiftedAt
<1>11. ASSUME NEW k \in 1 .. CRC_LEN, k - 1 \in S
       PROVE  k \in S
  <2>1. k \in I /\ k # 0 /\ g[k - 1] \in Nat
    BY <1>1, <1>11
  <2>2. g[k] = g[k - 1] \div B
    BY <1>9, <2>1 DEF ShiftedAt, B
  <2> QED
    BY <1>3, <2>1, <2>2
<1> HIDE DEF S
<1>12. 0 .. CRC_LEN \subseteq S
  BY <1>1, <1>10, <1>11, IntervalInduction
<1> QED
  BY <1>2, <1>12 DEF S

\* The checksum of any bytes is CRC_LEN bytes.
LEMMA CrcTyped ==
  ASSUME NEW s \in Seq(Byte)
  PROVE  Crc(s) \in Seq(Byte) /\ Len(Crc(s)) = CRC_LEN
<1> DEFINE rest == RestOf(s)[Len(s)]
           g == ShiftedOf(rest)
           B == MaxByte + 1
<1>1. Crc(s) = [k \in 1 .. CRC_LEN |-> g[k - 1] % B]
  BY Zenon DEF Crc, RestOf, RestAt, ShiftedOf, ShiftedAt
<1>2. rest \in Nat
  BY RestTyped
<1> HIDE DEF rest
<1>3. \A k \in 0 .. CRC_LEN : g[k] \in Nat
  BY <1>2, ShiftedTyped
<1> HIDE DEF g
<1>4. CRC_LEN \in Nat /\ MaxByte \in Nat
  BY RecordAssumption, MaxByteAssumption
<1>5. \A a \in Nat : a % B \in Byte
  <2>1. \A a, m \in Nat : a % (m + 1) \in 0 .. m
    OBVIOUS
  <2> QED
    BY <1>4, <2>1 DEF Byte
<1> HIDE DEF B
<1>6. ASSUME NEW k \in 1 .. CRC_LEN PROVE g[k - 1] % B \in Byte
  <2>1. k - 1 \in 0 .. CRC_LEN
    BY <1>4
  <2> QED
    BY <1>3, <1>5, <2>1
<1>7. Crc(s) \in [1 .. CRC_LEN -> Byte]
  BY <1>1, <1>6
<1>8. Crc(s) \in Seq(Byte)
  BY <1>4, <1>7, SeqDef
<1>9. Len(Crc(s)) = CRC_LEN
  BY <1>1, <1>4, <1>8
<1> QED
  BY <1>8, <1>9

-----------------------------------------------------------------------------
(* How long an encoded record gets. *)

\* The longest record of its version.
LEMMA SerializedLength ==
  ASSUME NEW r, IsRecord(r)
  PROVE  /\ Longest(r) \in Nat /\ Len(Serialize(r)) \in Nat /\ CRC_LEN \in Nat
         /\ Len(Serialize(r)) >= 1 /\ Len(Serialize(r)) + CRC_LEN <= Longest(r)
<1> DEFINE n == Len(r.payload)
           v == Len(VersionOf(r))
           t == Len(StampOf(r))
           q == Len(NumberOf(r))
           l == Len(LengthOf(r))
           T == Len(Varint(MaxU64))
           Q == Len(Varint(MaxU32))
           M == Len(Varint(MAX_PAYLOAD))
           s == Len(Serialize(r))
<1>1. /\ r.version \in Nat /\ r.timestamp_us \in Nat /\ r.sequence \in Nat
      /\ r.timestamp_us <= MaxU64 /\ r.sequence <= MaxU32
      /\ MaxU64 \in Nat /\ MaxU32 \in Nat
      /\ n \in Nat /\ n <= MAX_PAYLOAD /\ MAX_PAYLOAD \in Nat
  BY RecordIs
<1>2. v \in Nat /\ v >= 1 /\ v = Len(Varint(r.version))
  BY <1>1, VarintLength DEF VersionOf
<1>3. t \in Nat /\ T \in Nat /\ t <= T
  <2>1. t \in Nat /\ T \in Nat
    BY <1>1, VarintLength DEF StampOf
  <2>2. Len(Varint(r.timestamp_us)) <= Len(Varint(MaxU64))
    BY <1>1, VarintMonotone
  <2> QED
    BY <2>1, <2>2 DEF StampOf
<1>4. q \in Nat /\ Q \in Nat /\ q <= Q
  <2>1. q \in Nat /\ Q \in Nat
    BY <1>1, VarintLength DEF NumberOf
  <2>2. Len(Varint(r.sequence)) <= Len(Varint(MaxU32))
    BY <1>1, VarintMonotone
  <2> QED
    BY <2>1, <2>2 DEF NumberOf
<1>5. l \in Nat /\ M \in Nat /\ l <= M
  <2>1. l \in Nat /\ M \in Nat
    BY <1>1, VarintLength DEF LengthOf
  <2>2. Len(Varint(n)) <= Len(Varint(MAX_PAYLOAD))
    BY <1>1, VarintMonotone
  <2> QED
    BY <2>1, <2>2 DEF LengthOf
<1>6. s \in Nat /\ s + 1 = PayloadAt(r) + n
  <2>1. Serialize(r) \in Seq(Byte) /\ Len(Serialize(r)) + 1 = PayloadAt(r) + Len(r.payload)
    BY SerializedParts
  <2> QED
    BY <2>1, ByteFacts
<1>7. CRC_LEN \in Nat
  BY RecordAssumption
<1>8. PayloadAt(r) = 1 + v + t + q + 2 + l
  BY DEF PayloadAt, LengthAt, KindAt, NumberAt, StampAt
<1>9. Longest(r) = v + T + Q + 2 + M + MAX_PAYLOAD + CRC_LEN
  BY <1>2 DEF Longest
<1> HIDE DEF n, v, t, q, l, T, Q, M, s
<1>10. s = v + t + q + 2 + l + n
  BY <1>1, <1>2, <1>3, <1>4, <1>5, <1>6, <1>8
<1>11. s >= 1 /\ s + CRC_LEN <= Longest(r) /\ Longest(r) \in Nat
  BY <1>1, <1>2, <1>3, <1>4, <1>5, <1>7, <1>9, <1>10
<1> QED
  BY <1>6, <1>7, <1>11 DEF s

\* Rounding a quotient up.
LEMMA RoundedUp ==
  ASSUME NEW L \in Nat, L > 0, NEW n \in Nat, NEW x \in Int
  PROVE  /\ (n + L - 1) \div L \in Nat
         /\ L * x <= n => x <= (n + L - 1) \div L
         /\ n >= 1 /\ L * x <= n - 1 => x + 1 <= (n + L - 1) \div L
<1> DEFINE m == n + L - 1
           q == m \div L
           t == m % L
<1>1. m \in Nat /\ m = n + (L - 1)
  OBVIOUS
<1> HIDE DEF m
<1>2. q \in Nat /\ t \in 0 .. L - 1 /\ m = L * q + t
  BY <1>1
<1> HIDE DEF q, t
<1>3. L * q \in Nat /\ n <= L * q
  BY <1>1, <1>2
<1>4. ASSUME L * x <= n, x > q PROVE FALSE
  <2>1. PICK d \in Nat : x = q + 1 + d
    <3>1. x - q - 1 \in Nat /\ x = q + 1 + (x - q - 1)
      BY <1>2, <1>4
    <3> QED
      BY <3>1
  <2>2. L * x = L * q + L + L * d /\ L * d \in Nat
    BY <1>2, <2>1
  <2> QED
    BY <1>3, <1>4, <2>2
<1>5. ASSUME n >= 1, L * x <= n - 1, x >= q PROVE FALSE
  <2>1. PICK d \in Nat : x = q + d
    <3>1. x - q \in Nat /\ x = q + (x - q)
      BY <1>2, <1>5
    <3> QED
      BY <3>1
  <2>2. L * x = L * q + L * d /\ L * d \in Nat
    BY <1>2, <2>1
  <2> QED
    BY <1>3, <1>5, <2>2
<1>6. /\ q \in Nat /\ (L * x <= n => x <= q)
      /\ (n >= 1 /\ L * x <= n - 1 => x + 1 <= q)
  BY <1>2, <1>4, <1>5
<1> QED
  BY <1>6 DEF m, q

\* max_encoding_length falls at most one short, and not if the data begins
\* with a zero.
LEMMA EncodingLength ==
  ASSUME NEW s \in Seq(Byte), s # <<>>
  PROVE  /\ Len(CobsEncode(s)) \in Nat /\ MaxEncodingLength(Len(s)) \in Nat
         /\ Len(CobsEncode(s)) <= MaxEncodingLength(Len(s)) + 1
         /\ s[1] = 0 => Len(CobsEncode(s)) <= MaxEncodingLength(Len(s))
<1> DEFINE L == MaxByte - 1
           n == Len(s)
           e == Len(CobsEncode(s))
           x == e - 1 - n
           q == (n + L - 1) \div L
<1>1. L \in Nat /\ L > 0 /\ n \in Nat /\ n >= 1
  <2>1. n \in Nat /\ n # 0
    BY ByteFacts, EmptySeq
  <2> QED
    BY <2>1, MaxByteAssumption
<1>2. e \in Nat /\ L * x <= n
  <2>1. CobsEncode(s) \in Blocks /\ (MaxByte - 1) * (Len(CobsEncode(s)) - 1 - Len(s)) <= Len(s)
    BY CobsRoundTrip
  <2>2. CobsEncode(s) \in Seq(Byte)
    BY <2>1, BlocksAreBytes
  <2> QED
    BY <2>1, <2>2, ByteFacts
<1>3. s[1] = 0 => L * x <= n - 1
  BY ZeroFirst
<1>4. MaxEncodingLength(n) = n + q
  <2>1. \A a \in Nat, b \in Nat : a + b - 2 = a + (b - 1) - 1
    OBVIOUS
  <2>2. n + MaxByte - 2 = n + L - 1
    BY <1>1, <2>1, MaxByteAssumption
  <2> QED
    BY <2>2 DEF MaxEncodingLength
<1>5. x \in Int
  BY <1>1, <1>2
<1> DEFINE y == L * x
<1>6. y <= n /\ (s[1] = 0 => y <= n - 1)
  BY <1>2, <1>3
<1>7. x = e - 1 - n
  OBVIOUS
<1> HIDE DEF L, n, e, x
<1>8. /\ q \in Nat /\ (y <= n => x <= q) /\ (n >= 1 /\ y <= n - 1 => x + 1 <= q)
  BY <1>1, <1>5, RoundedUp
<1> HIDE DEF q, y
<1>9. /\ e <= n + q + 1 /\ (s[1] = 0 => e <= n + q) /\ n + q \in Nat
  BY <1>1, <1>2, <1>6, <1>7, <1>8
<1> QED
  BY <1>2, <1>4, <1>9 DEF e, n

\* Longer data has no shorter bound.
LEMMA EncodingMonotone ==
  ASSUME NEW m \in Nat, NEW n \in Nat, m <= n
  PROVE  /\ MaxEncodingLength(m) \in Nat /\ MaxEncodingLength(n) \in Nat
         /\ MaxEncodingLength(m) <= MaxEncodingLength(n) /\ n <= MaxEncodingLength(n)
<1> DEFINE L == MaxByte - 1
           a == m + MaxByte - 2
           b == n + MaxByte - 2
<1>1. L \in Nat /\ L > 0 /\ a \in Nat /\ b \in Nat /\ a <= b
  BY MaxByteAssumption
<1>2. MaxEncodingLength(m) = m + a \div L /\ MaxEncodingLength(n) = n + b \div L
  BY DEF MaxEncodingLength
<1> HIDE DEF L, a, b
<1>3. a \div L \in Nat /\ b \div L \in Nat /\ a \div L <= b \div L
  BY <1>1, DivMonotone
<1> QED
  BY <1>2, <1>3

-----------------------------------------------------------------------------
(* encode and decode. *)

\* Bytes followed by the delimiter, and taken from before it.
LEMMA Delimited ==
  ASSUME NEW e \in Seq(Byte)
  PROVE  /\ Append(e, 0) \in Seq(Byte) /\ Len(Append(e, 0)) = Len(e) + 1
         /\ Append(e, 0) # <<>> /\ Last(Append(e, 0)) = 0 /\ Front(Append(e, 0)) = e
<1> DEFINE z == Append(e, 0)
           f == SubSeq(z, 1, Len(e))
<1>1. /\ z \in Seq(Byte) /\ z # <<>> /\ Len(z) = Len(e) + 1
      /\ \A i \in 1 .. Len(e) : z[i] = e[i]
      /\ z[Len(e) + 1] = 0
  BY ByteFacts, AppendProperties
<1>2. Len(e) \in Nat
  BY ByteFacts
<1> HIDE DEF z
<1>3. /\ 1 \in Nat /\ 1 <= Len(e) + 1 /\ Len(e) <= Len(z) /\ (Len(e) + 1) - 1 = Len(e)
      /\ Len(z) - 1 = Len(e)
  BY <1>1, <1>2
<1>4. /\ f \in Seq(Byte) /\ Len(f) = (Len(e) + 1) - 1
      /\ \A i \in 1 .. (Len(e) + 1) - 1 : f[i] = z[(1 + i) - 1]
  BY <1>1, <1>2, <1>3, Slice
<1> HIDE DEF f
<1>5. \A i \in 1 .. Len(f) : f[i] = e[i]
  <2> TAKE i \in 1 .. Len(f)
  <2>1. i \in 1 .. Len(e) /\ (1 + i) - 1 = i
    BY <1>2, <1>3, <1>4
  <2> QED
    BY <1>1, <1>3, <1>4, <2>1
<1>6. f = e
  BY <1>2, <1>3, <1>4, <1>5, SeqEqual
<1>7. Last(z) = 0 /\ Front(z) = f
  BY <1>1, <1>3 DEF Last, Front, f
<1> QED
  BY <1>1, <1>6, <1>7 DEF z

\* A record with its checksum behind it is checked and read.
LEMMA CheckedUndoes ==
  ASSUME NEW r, IsRecord(r)
  PROVE  LET s == Serialize(r)
             d == s \o Crc(s)
         IN  /\ d \in Seq(Byte) /\ Len(d) = Len(s) + CRC_LEN
             /\ Checked(d) = IF Known(r) THEN [ok |-> TRUE, record |-> r] ELSE CodecError
             /\ Known(r) => d[1] = 0
<1> DEFINE s == Serialize(r)
           c == Crc(s)
           d == s \o c
           before == SubSeq(d, 1, Len(d) - CRC_LEN)
<1>1. s \in Seq(Byte) /\ Len(s) \in Nat /\ Len(s) >= 1 /\ CRC_LEN \in Nat
  BY SerializedParts, SerializedLength
<1>2. Deserialize(s) = IF Known(r) THEN [ok |-> TRUE, record |-> r] ELSE CodecError
  BY DeserializeUndoes
<1>3. Known(r) => s[1] = 0
  <2> SUFFICES ASSUME Known(r) PROVE s[1] = 0
    OBVIOUS
  <2>1. Placed(VersionOf(r), s, 1)
    BY SerializedParts
  <2>2. VersionOf(r) = <<0>>
    <3>1. r.version = 0
      BY DEF Known, V1
    <3>2. 0 \in Nat /\ 0 < Radix
      BY RadixFacts
    <3> QED
      BY <3>1, <3>2, VarintIs DEF VersionOf
  <2> QED
    BY <2>1, <2>2 DEF Placed
<1> HIDE DEF s
<1>4. c \in Seq(Byte) /\ Len(c) = CRC_LEN
  BY <1>1, CrcTyped
<1> HIDE DEF c
<1>5. d \in Seq(Byte) /\ Len(d) = Len(s) + CRC_LEN /\ \A i \in 1 .. Len(s) : d[i] = s[i]
  BY <1>1, <1>4, ConcatBytes
<1>6. before = s
  <2>1. SubSeq(s \o c, 1, Len(s)) = SubSeq(s, 1, Len(s))
    BY <1>1, <1>4, SliceBefore
  <2>2. SubSeq(s, 1, Len(s)) = s
    BY <1>1, SliceAll
  <2>3. Len(d) - CRC_LEN = Len(s)
    BY <1>1, <1>5
  <2> QED
    BY <2>1, <2>2, <2>3
<1>7. ~(Len(d) < CRC_LEN) /\ 1 \in 1 .. Len(s)
  BY <1>1, <1>5
<1>8. d = s \o Crc(s)
  BY DEF c
<1> HIDE DEF d
<1>9. Checked(d) = Deserialize(s)
  BY <1>6, <1>7, <1>8 DEF Checked, before
<1> QED
  BY <1>2, <1>3, <1>5, <1>7, <1>9 DEF s, c, d

\* What decode makes of the bytes that encode stuffs, delimited or not.
LEMMA DecodeUndoes ==
  ASSUME NEW d \in Seq(Byte), d # <<>>, Len(CobsEncode(d)) <= MAX_STORED_RECORD_BYTES
  PROVE  LET bytes == Append(CobsEncode(d), 0)
         IN  Decode(bytes) = Checked(d) /\ Decode(Front(bytes)) = Checked(d)
<1> DEFINE e == CobsEncode(d)
           bytes == Append(e, 0)
<1>1. e \in Blocks /\ e # <<>> /\ CobsDecode(e) = [ok |-> TRUE, data |-> d]
  BY CobsRoundTrip
<1>2. e \in Seq(Byte) /\ \A i \in 1 .. Len(e) : e[i] # 0
  BY <1>1, BlocksAreBytes
<1>3. Len(e) \in Nat /\ Len(e) <= MAX_STORED_RECORD_BYTES
  BY <1>2, ByteFacts
<1> HIDE DEF e
<1>4. bytes # <<>> /\ Last(bytes) = 0 /\ Front(bytes) = e
  BY <1>2, Delimited
<1>5. Last(e) # 0
  <2>1. Len(e) # 0
    BY <1>1, <1>2, EmptySeq
  <2>2. Len(e) \in 1 .. Len(e)
    BY <1>3, <2>1
  <2> QED
    BY <1>2, <2>2 DEF Last
<1>6. Strip(bytes) = e
  BY <1>4 DEF Strip
<1>7. Strip(e) = e
  BY <1>5 DEF Strip
<1>8. MAX_STORED_RECORD_BYTES \in Nat
  BY RecordAssumption
<1>9. ~(Len(e) > MAX_STORED_RECORD_BYTES)
  BY <1>3, <1>8
<1> HIDE DEF bytes
<1>10. ASSUME NEW buf, Strip(buf) = e PROVE Decode(buf) = Checked(d)
  BY <1>1, <1>9, <1>10 DEF Decode
<1>11. Decode(bytes) = Checked(d) /\ Decode(e) = Checked(d)
  BY <1>6, <1>7, <1>10
<1> QED
  BY <1>4, <1>11 DEF bytes, e

-----------------------------------------------------------------------------
(* The records of a segment. *)

\* What RoundTrip says of a record.
Returns(r) ==
  LET encoded == Encode(r, MAX_STORED_RECORD_BYTES)
      result  == IF Known(r) THEN [ok |-> TRUE, record |-> r] ELSE CodecError
  IN  /\ encoded.ok
      /\ Decode(encoded.bytes) = result /\ Decode(Front(encoded.bytes)) = result
      /\ Known(r) =>
           Len(encoded.bytes) <= MaxEncodingLength(Len(Serialize(r)) + CRC_LEN) + 1

\* Every record that fits the buffer can be encoded, into as many bytes as
\* encode asks for, and decoded, unless it is of another version
\* (record.rs, encode and decode).
THEOREM RecordsReturn ==
  ASSUME RecordsFit, NEW r \in Records
  PROVE  Returns(r)
<1> DEFINE s == Serialize(r)
           d == s \o Crc(s)
           e == CobsEncode(d)
           n == Len(d)
           M == MAX_STORED_RECORD_BYTES
           asked == MaxEncodingLength(n)
           result == IF Known(r) THEN [ok |-> TRUE, record |-> r] ELSE CodecError
<1>1. IsRecord(r)
  BY SegmentBytesAssumption
<1>2. /\ d \in Seq(Byte) /\ n = Len(s) + CRC_LEN
      /\ Checked(d) = result /\ (Known(r) => d[1] = 0)
  BY <1>1, CheckedUndoes
<1>3. Longest(r) \in Nat /\ n \in Nat /\ n >= 1 /\ n <= Longest(r)
  <2>1. /\ Longest(r) \in Nat /\ Len(Serialize(r)) \in Nat /\ CRC_LEN \in Nat
        /\ Len(Serialize(r)) >= 1 /\ Len(Serialize(r)) + CRC_LEN <= Longest(r)
    BY <1>1, SerializedLength
  <2> HIDE DEF d
  <2> QED
    BY <1>2, <2>1
<1>4. MaxEncodingLength(Longest(r)) + 1 <= M /\ M \in Nat
  BY RecordAssumption DEF RecordsFit
<1>5. Encode(r, M) = IF n > M \/ M < asked + 1 THEN CodecError
                     ELSE [ok |-> TRUE, bytes |-> Append(e, 0)]
  BY Zenon DEF Encode
<1> HIDE DEF d
<1>6. d # <<>>
  <2>1. n # 0
    BY <1>3
  <2> QED
    BY <2>1
<1>7. /\ Len(e) \in Nat /\ asked \in Nat /\ Len(e) <= asked + 1
      /\ (d[1] = 0 => Len(e) <= asked)
  BY <1>2, <1>6, EncodingLength
<1>8. /\ MaxEncodingLength(Longest(r)) \in Nat /\ asked <= MaxEncodingLength(Longest(r))
      /\ Longest(r) <= MaxEncodingLength(Longest(r))
  BY <1>3, EncodingMonotone
<1>9. e \in Seq(Byte)
  <2>1. e \in Blocks
    BY <1>2, CobsRoundTrip
  <2> QED
    BY <2>1, BlocksAreBytes
<1>10. ~(n > M) /\ ~(M < asked + 1) /\ Len(e) <= M
  BY <1>3, <1>4, <1>7, <1>8
<1>11. /\ Decode(Append(e, 0)) = Checked(d) /\ Decode(Front(Append(e, 0))) = Checked(d)
  BY <1>2, <1>6, <1>10, DecodeUndoes
<1>12. Len(Append(e, 0)) = Len(e) + 1
  BY <1>9, Delimited
<1>13. Encode(r, M) = [ok |-> TRUE, bytes |-> Append(e, 0)]
  BY <1>5, <1>10
<1>14. Known(r) => Len(Append(e, 0)) <= MaxEncodingLength(Len(s) + CRC_LEN) + 1
  BY <1>2, <1>7, <1>12
<1> HIDE DEF e, s, asked
<1>15. Encode(r, M).ok /\ Encode(r, M).bytes = Append(e, 0)
  BY <1>13
<1> QED
  BY <1>2, <1>11, <1>14, <1>15 DEF Returns, s

\* Nothing was refused, and each piece is as long as its record's encoding.
RecordInv ==
  /\ refused = {}
  /\ written \in Seq(Records) /\ Len(pieces) = Len(written)
  /\ pieces \in Seq([id : Nat, size : Nat, got : Nat])
  /\ \A k \in 1 .. Len(written) :
       pieces[k].size = Len(Encode(written[k], MAX_STORED_RECORD_BYTES).bytes)

\* RecordInv says of the records written what RoundTrip does.
LEMMA RecordInvGives ==
  ASSUME RecordsFit, RecordInv
  PROVE  RoundTrip
<1>1. ASSUME NEW k \in 1 .. Len(written) PROVE Returns(written[k])
  <2>1. written[k] \in Records
    BY ElementOfSeq DEF RecordInv
  <2> QED
    BY <2>1, RecordsReturn
<1>2. EncodeFits
  <2> SUFFICES ASSUME NEW k \in 1 .. Len(written), Known(written[k])
               PROVE  pieces[k].size <=
                        MaxEncodingLength(Len(Serialize(written[k])) + CRC_LEN) + 1
    BY DEF EncodeFits, RecordInv
  <2> QED
    BY <1>1 DEF Returns, RecordInv
<1>3. ASSUME NEW k \in 1 .. Len(written)
      PROVE  LET bytes == Encode(written[k], MAX_STORED_RECORD_BYTES).bytes
                 result == IF Known(written[k]) THEN [ok |-> TRUE, record |-> written[k]]
                           ELSE CodecError
             IN  Decode(bytes) = result /\ Decode(Front(bytes)) = result
  BY <1>1 DEF Returns
<1> QED
  BY <1>2, <1>3 DEF RoundTrip

\* drain never returns Error::Codec, encode stays inside the space it asked
\* for, and read_segment gets back every record of this version whose bytes
\* are whole (record.rs; telemetry-std/src/lib.rs, drain and read_segment).
THEOREM RecordsRoundTrip ==
  ASSUME RecordsFit
  PROVE  Spec => []RoundTrip
<1>1. Init => RecordInv
  BY DEF Init, RecordInv
<1>2. RecordInv /\ [Next]_sbvars => RecordInv'
  <2> SUFFICES ASSUME RecordInv, [Next]_sbvars PROVE RecordInv'
    OBVIOUS
  <2>1. ASSUME NEW r \in Records, NEW got \in 1 .. MAX_STORED_RECORD_BYTES, Write(r, got)
        PROVE  RecordInv'
    <3> DEFINE encoded == Encode(r, MAX_STORED_RECORD_BYTES)
               id == Len(pieces) + 1
               p == Piece([id |-> id, size |-> Len(encoded.bytes)], got)
    <3>1. encoded.ok
      BY RecordsReturn DEF Returns
    <3>2. /\ pieces' = Append(pieces, p) /\ written' = Append(written, r)
          /\ UNCHANGED refused
      BY <2>1, <3>1 DEF Write
    <3>3. Len(encoded.bytes) \in Nat
      <4>1. PICK d \in Seq(Byte) : encoded = [ok |-> TRUE, bytes |-> Append(CobsEncode(d), 0)]
        <5>1. Serialize(r) \o Crc(Serialize(r)) \in Seq(Byte)
          BY SegmentBytesAssumption, CheckedUndoes
        <5>2. CodecError.ok = FALSE
          BY DEF CodecError
        <5> QED
          BY <3>1, <5>1, <5>2, Zenon DEF Encode
      <4>2. CobsEncode(d) \in Seq(Byte)
        <5>1. CobsEncode(d) \in Blocks
          BY CobsRoundTrip
        <5> QED
          BY <5>1, BlocksAreBytes
      <4>3. Append(CobsEncode(d), 0) \in Seq(Byte)
        BY <4>2, Delimited
      <4> QED
        BY <4>1, <4>3, ByteFacts
    <3> HIDE DEF encoded
    <3>4. Len(pieces) \in Nat /\ MAX_STORED_RECORD_BYTES \in Nat
      BY RecordAssumption DEF RecordInv
    <3>5. p \in [id : Nat, size : Nat, got : Nat] /\ p.size = Len(encoded.bytes)
      BY <3>3, <3>4 DEF Piece
    <3> HIDE DEF p
    <3>6. /\ pieces' \in Seq([id : Nat, size : Nat, got : Nat])
          /\ Len(pieces') = Len(pieces) + 1 /\ pieces'[Len(pieces) + 1] = p
          /\ \A k \in 1 .. Len(pieces) : pieces'[k] = pieces[k]
      BY <3>2, <3>5, AppendProperties DEF RecordInv
    <3>7. /\ written' \in Seq(Records) /\ Len(written') = Len(written) + 1
          /\ written'[Len(written) + 1] = r
          /\ \A k \in 1 .. Len(written) : written'[k] = written[k]
      BY <3>2, AppendProperties DEF RecordInv
    <3>8. ASSUME NEW k \in 1 .. Len(written')
          PROVE  pieces'[k].size = Len(Encode(written'[k], MAX_STORED_RECORD_BYTES).bytes)
      <4>1. Len(written) = Len(pieces) /\ Len(written) \in Nat
        BY <3>4 DEF RecordInv
      <4>2. CASE k \in 1 .. Len(written)
        BY <3>6, <3>7, <4>1, <4>2 DEF RecordInv
      <4>3. CASE k = Len(written) + 1
        BY <3>5, <3>6, <3>7, <4>1, <4>3 DEF encoded
      <4> QED
        BY <3>7, <4>1, <4>2, <4>3
    <3> QED
      BY <3>2, <3>6, <3>7, <3>8 DEF RecordInv
  <2>2. ASSUME NEW i, NEW b, Damage(i, b) PROVE RecordInv'
    BY <2>2 DEF Damage, RecordInv
  <2>3. CASE UNCHANGED sbvars
    BY <2>3 DEF sbvars, RecordInv
  <2> QED
    BY <2>1, <2>2, <2>3 DEF Next
<1>3. RecordInv => RoundTrip
  BY RecordInvGives
<1> QED
  BY <1>1, <1>2, <1>3, PTL DEF Spec
=============================================================================
