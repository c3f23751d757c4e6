----------------------------- MODULE CobsProofs -----------------------------
(***************************************************************************)
(* Proofs about the byte stuffing of module Cobs, for every width of a     *)
(* byte and inputs of every length.  Both directions are recursions over   *)
(* positions: DecodeSteps and EncodeSteps show, by RankRecursion of module *)
(* DataInduction, that they are defined everywhere, and what is claimed of *)
(* them follows by RankInduction from the end of the input backwards.      *)
(***************************************************************************)
EXTENDS Cobs, DataInduction, SequenceTheorems, TLAPS

-----------------------------------------------------------------------------
(* Slices and concatenations. *)

\* A slice of a sequence, from m to n, which is empty if n is just before m.
LEMMA Slice ==
  ASSUME NEW S, NEW s \in Seq(S), NEW m \in Nat, NEW n \in Nat,
         1 <= m, m <= n + 1, n <= Len(s)
  PROVE  /\ SubSeq(s, m, n) \in Seq(S)
         /\ Len(SubSeq(s, m, n)) = (n + 1) - m
         /\ \A i \in 1 .. (n + 1) - m : SubSeq(s, m, n)[i] = s[(m + i) - 1]
<1>1. m \in Int /\ n \in Int /\ Len(s) \in Nat
  BY LenProperties
<1>2. \A i \in m .. n : s[i] \in S
  BY <1>1, ElementOfSeq
<1>3. /\ SubSeq(s, m, n) \in Seq(S)
      /\ Len(SubSeq(s, m, n)) = IF m <= n THEN n - m + 1 ELSE 0
      /\ \A i \in 1 .. n - m + 1 : SubSeq(s, m, n)[i] = s[m + i - 1]
  BY <1>1, <1>2, SubSeqProperties
<1>4. /\ n - m + 1 = (n + 1) - m /\ \A i \in Nat : m + i - 1 = (m + i) - 1
      /\ (IF m <= n THEN n - m + 1 ELSE 0) = (n + 1) - m
  BY <1>1
<1> QED
  BY <1>3, <1>4

\* What is where in two sequences put together.
LEMMA ConcatBytes ==
  ASSUME NEW S, NEW a \in Seq(S), NEW b \in Seq(S)
  PROVE  /\ a \o b \in Seq(S) /\ Len(a) \in Nat /\ Len(b) \in Nat
         /\ Len(a \o b) = Len(a) + Len(b)
         /\ \A i \in 1 .. Len(a) : (a \o b)[i] = a[i]
         /\ \A i \in 1 .. Len(b) : (a \o b)[Len(a) + i] = b[i]
BY LenProperties, ConcatProperties

\* The first of two sequences, cut out of both.
LEMMA SliceBefore ==
  ASSUME NEW S, NEW a \in Seq(S), NEW b \in Seq(S), NEW m \in Nat, NEW n \in Nat,
         1 <= m, m <= n + 1, n <= Len(a)
  PROVE  SubSeq(a \o b, m, n) = SubSeq(a, m, n)
<1> DEFINE c == a \o b
           x == SubSeq(c, m, n)
           y == SubSeq(a, m, n)
<1>1. /\ Len(a) \in Nat /\ Len(b) \in Nat /\ c \in Seq(S) /\ Len(c) = Len(a) + Len(b)
      /\ \A i \in 1 .. Len(a) : c[i] = a[i]
  BY ConcatBytes
<1> HIDE DEF c
<1>2. y \in Seq(S) /\ Len(y) = (n + 1) - m /\ \A i \in 1 .. (n + 1) - m : y[i] = a[(m + i) - 1]
  BY Slice
<1>3. n <= Len(c)
  BY <1>1
<1>4. x \in Seq(S) /\ Len(x) = (n + 1) - m /\ \A i \in 1 .. (n + 1) - m : x[i] = c[(m + i) - 1]
  BY <1>1, <1>3, Slice
<1> HIDE DEF x, y
<1>5. ASSUME NEW i \in 1 .. (n + 1) - m
      PROVE  x[i] = y[i]
  <2>1. (m + i) - 1 \in 1 .. Len(a)
    BY <1>1
  <2> QED
    BY <1>1, <1>2, <1>4, <2>1
<1>6. x = y
  BY <1>2, <1>4, <1>5, SeqEqual
<1> QED
  BY <1>6 DEF x, y, c

\* A slice of the second of two sequences.
LEMMA SliceBehind ==
  ASSUME NEW S, NEW a \in Seq(S), NEW b \in Seq(S), NEW m \in Nat, NEW n \in Nat,
         1 <= m, m <= n + 1, n <= Len(b)
  PROVE  SubSeq(a \o b, Len(a) + m, Len(a) + n) = SubSeq(b, m, n)
<1> DEFINE c == a \o b
           x == SubSeq(c, Len(a) + m, Len(a) + n)
           y == SubSeq(b, m, n)
<1>1. /\ Len(a) \in Nat /\ Len(b) \in Nat /\ c \in Seq(S) /\ Len(c) = Len(a) + Len(b)
      /\ \A i \in 1 .. Len(b) : c[Len(a) + i] = b[i]
  BY LenProperties, ConcatProperties
<1> HIDE DEF c
<1>2. y \in Seq(S) /\ Len(y) = (n + 1) - m /\ \A i \in 1 .. (n + 1) - m : y[i] = b[(m + i) - 1]
  BY Slice
<1>3. /\ Len(a) + m \in Nat /\ Len(a) + n \in Nat /\ 1 <= Len(a) + m
      /\ Len(a) + m <= (Len(a) + n) + 1 /\ Len(a) + n <= Len(c)
      /\ ((Len(a) + n) + 1) - (Len(a) + m) = (n + 1) - m
  BY <1>1
<1>4. /\ x \in Seq(S) /\ Len(x) = (n + 1) - m
      /\ \A i \in 1 .. (n + 1) - m : x[i] = c[((Len(a) + m) + i) - 1]
  BY <1>1, <1>3, Slice
<1> HIDE DEF x, y
<1>5. ASSUME NEW i \in 1 .. (n + 1) - m
      PROVE  x[i] = y[i]
  <2>1. (m + i) - 1 \in 1 .. Len(b) /\ ((Len(a) + m) + i) - 1 = Len(a) + ((m + i) - 1)
    BY <1>1
  <2> QED
    BY <1>1, <1>2, <1>4, <2>1
<1>6. x = y
  BY <1>2, <1>4, <1>5, SeqEqual
<1> QED
  BY <1>6 DEF x, y, c

\* A slice that is everything.
LEMMA SliceAll ==
  ASSUME NEW S, NEW s \in Seq(S)
  PROVE  SubSeq(s, 1, Len(s)) = s
<1>0. Len(s) \in Nat
  BY LenProperties
<1>1. 1 <= Len(s) + 1 /\ (Len(s) + 1) - 1 = Len(s) /\ \A x \in Nat : (1 + x) - 1 = x
  BY <1>0
<1>2. /\ SubSeq(s, 1, Len(s)) \in Seq(S) /\ Len(SubSeq(s, 1, Len(s))) = (Len(s) + 1) - 1
      /\ \A x \in 1 .. (Len(s) + 1) - 1 : SubSeq(s, 1, Len(s))[x] = s[(1 + x) - 1]
  BY <1>0, <1>1, Slice
<1> QED
  BY <1>0, <1>1, <1>2, SeqEqual

\* A slice of one element.
LEMMA SliceOne ==
  ASSUME NEW S, NEW s \in Seq(S), NEW m \in 1 .. Len(s)
  PROVE  SubSeq(s, m, m) = <<s[m]>>
<1> DEFINE z == SubSeq(s, m, m)
           v == s[m]
<1>1. m \in Nat /\ 1 <= m /\ m <= m + 1 /\ m <= Len(s)
      /\ (m + 1) - m = 1 /\ (m + 1) - 1 = m /\ 1 \in 1 .. 1 /\ v \in S
  BY ElementOfSeq
<1>2. /\ z \in Seq(S) /\ Len(z) = (m + 1) - m
      /\ \A x \in 1 .. (m + 1) - m : z[x] = s[(m + x) - 1]
  BY <1>1, Slice
<1>3. z[1] = v /\ Len(z) = 1
  BY <1>1, <1>2
<1> HIDE DEF z, v
<1>4. <<v>> \in Seq(S) /\ Len(<<v>>) = 1 /\ <<v>>[1] = v
  BY <1>1
<1>5. Len(z) = Len(<<v>>) /\ \A x \in 1 .. Len(z) : z[x] = <<v>>[x]
  BY <1>3, <1>4
<1> QED
  BY <1>2, <1>4, <1>5, SeqEqual DEF z, v

\* Two elements, one after the other.
LEMMA Pair ==
  ASSUME NEW S, NEW x \in S, NEW y \in S
  PROVE  <<x>> \o <<y>> = <<x, y>>
<1> DEFINE a == <<x>>
           b == <<y>>
           c == <<x, y>>
<1>1. /\ a \in Seq(S) /\ Len(a) = 1 /\ a[1] = x
      /\ b \in Seq(S) /\ Len(b) = 1 /\ b[1] = y
      /\ c \in Seq(S) /\ Len(c) = 2 /\ c[1] = x /\ c[2] = y
  OBVIOUS
<1> HIDE DEF a, b, c
<1>2. /\ a \o b \in Seq(S) /\ Len(a \o b) = Len(a) + Len(b)
      /\ \A i \in 1 .. Len(a) : (a \o b)[i] = a[i]
      /\ \A i \in 1 .. Len(b) : (a \o b)[Len(a) + i] = b[i]
  <2>1. a \in Seq(S) /\ b \in Seq(S)
    BY <1>1
  <2> QED
    BY <2>1, ConcatBytes
<1>3. Len(a \o b) = 2 /\ (a \o b)[1] = x /\ (a \o b)[2] = y
  <2>1. 1 + 1 = 2 /\ 1 \in 1 .. 1
    OBVIOUS
  <2>2. (a \o b)[1] = a[1] /\ (a \o b)[1 + 1] = b[1]
    BY <1>1, <1>2, <2>1
  <2> QED
    BY <1>1, <1>2, <2>1, <2>2
<1>4. \A i \in 1 .. Len(a \o b) : (a \o b)[i] = c[i]
  <2>1. \A i \in 1 .. 2 : i = 1 \/ i = 2
    OBVIOUS
  <2> QED
    BY <1>1, <1>3, <2>1
<1>5. a \o b = c
  BY <1>1, <1>2, <1>3, <1>4, SeqEqual
<1> QED
  BY <1>5 DEF a, b, c

\* Two slices that follow each other are one.
LEMMA SlicesJoin ==
  ASSUME NEW S, NEW s \in Seq(S), NEW i \in Nat, NEW j \in Nat, NEW k \in Nat,
         1 <= i, i <= j + 1, j <= k, k <= Len(s)
  PROVE  SubSeq(s, i, j) \o SubSeq(s, j + 1, k) = SubSeq(s, i, k)
<1> DEFINE a == SubSeq(s, i, j)
           b == SubSeq(s, j + 1, k)
           c == SubSeq(s, i, k)
           p == (j + 1) - i
           q == (k + 1) - (j + 1)
<1>1. j <= Len(s) /\ 1 <= j + 1 /\ j + 1 <= k + 1 /\ j + 1 \in Nat /\ i <= k + 1
  BY LenProperties
<1>2. a \in Seq(S) /\ Len(a) = p /\ \A x \in 1 .. p : a[x] = s[(i + x) - 1]
  BY <1>1, Slice
<1>3. b \in Seq(S) /\ Len(b) = q /\ \A x \in 1 .. q : b[x] = s[((j + 1) + x) - 1]
  BY <1>1, Slice
<1>4. /\ c \in Seq(S) /\ Len(c) = (k + 1) - i
      /\ \A x \in 1 .. (k + 1) - i : c[x] = s[(i + x) - 1]
  BY <1>1, Slice
<1> HIDE DEF a, b, c
<1>5. /\ a \o b \in Seq(S) /\ Len(a \o b) = Len(a) + Len(b)
      /\ \A x \in 1 .. Len(a) : (a \o b)[x] = a[x]
      /\ \A x \in 1 .. Len(b) : (a \o b)[Len(a) + x] = b[x]
  <2>1. a \in Seq(S) /\ b \in Seq(S)
    BY <1>2, <1>3
  <2> QED
    BY <2>1, ConcatBytes
<1>6. p \in Nat /\ q \in Nat /\ p + q = (k + 1) - i
  OBVIOUS
<1>7. ASSUME NEW x \in 1 .. p + q
      PROVE  (a \o b)[x] = c[x]
  <2>1. CASE x \in 1 .. p
    BY <1>2, <1>4, <1>5, <1>6, <2>1
  <2>2. CASE x \notin 1 .. p
    <3>1. x - p \in 1 .. q /\ p + (x - p) = x /\ ((j + 1) + (x - p)) - 1 = (i + x) - 1
      BY <1>6, <2>2
    <3>2. (a \o b)[x] = b[x - p]
      BY <1>2, <1>3, <1>5, <3>1
    <3>3. b[x - p] = s[((j + 1) + (x - p)) - 1]
      BY <1>3, <3>1
    <3> QED
      BY <1>4, <1>6, <3>1, <3>2, <3>3
  <2> QED
    BY <2>1, <2>2
<1>8. Len(a \o b) = Len(c) /\ Len(c) = p + q
  BY <1>2, <1>3, <1>4, <1>5, <1>6
<1>9. a \o b = c
  BY <1>4, <1>5, <1>7, <1>8, SeqEqual
<1> QED
  BY <1>9 DEF a, b, c

-----------------------------------------------------------------------------
(* The decoder. *)

\* An answer of cobs::decode, and the one that continues another.
Answers == [ok : BOOLEAN, data : Seq(Byte)]

\* What decode makes of the block at position i, if f is what it makes of the
\* positions behind.
Implied(s, i) == IF s[i] = MaxByte \/ i + s[i] = Len(s) + 1 THEN <<>> ELSE <<0>>
Continued(s, i, rest) ==
  IF rest.ok THEN [ok   |-> TRUE,
                   data |-> SubSeq(s, i + 1, (i + s[i]) - 1) \o Implied(s, i) \o rest.data]
             ELSE BadCobs
Broken(s, i) == s[i] = 0 \/ i + s[i] > Len(s) + 1
DecodedAt(s, i, f) ==
  IF i = Len(s) + 1 THEN [ok |-> TRUE, data |-> <<>>]
  ELSE IF Broken(s, i) THEN BadCobs
  ELSE Continued(s, i, f[i + s[i]])

DecodesBy(f, s) ==
  /\ f \in [1 .. Len(s) + 1 -> Answers]
  /\ \A i \in 1 .. Len(s) + 1 : f[i] = DecodedAt(s, i, f)
  /\ CobsDecode(s) = f[1]

\* The bytes of a sequence are naturals.
LEMMA ByteFacts ==
  ASSUME NEW s \in Seq(Byte)
  PROVE  /\ Len(s) \in Nat /\ \A i \in 1 .. Len(s) : s[i] \in Byte /\ s[i] \in Nat
         /\ MaxByte \in Nat /\ 0 \in Byte
<1>1. Len(s) \in Nat /\ \A i \in 1 .. Len(s) : s[i] \in Byte
  BY LenProperties, ElementOfSeq
<1> QED
  BY <1>1, MaxByteAssumption DEF Byte

\* Both answers a block can begin with are answers.
LEMMA BadAnswer == BadCobs \in Answers /\ [ok |-> TRUE, data |-> <<>>] \in Answers
BY EmptySeq DEF BadCobs, Answers

\* Decoding a sound block and what follows yields bytes.
LEMMA ContinuedTyped ==
  ASSUME NEW s \in Seq(Byte), NEW i \in 1 .. Len(s), ~Broken(s, i), NEW rest \in Answers
  PROVE  Continued(s, i, rest) \in Answers
<1>1. /\ Len(s) \in Nat /\ s[i] \in Nat /\ s[i] # 0 /\ i + s[i] <= Len(s) + 1 /\ 0 \in Byte
  BY ByteFacts DEF Broken
<1>2. SubSeq(s, i + 1, (i + s[i]) - 1) \in Seq(Byte)
  <2>1. \A k \in i + 1 .. (i + s[i]) - 1 : k \in 1 .. Len(s)
    BY <1>1
  <2>2. i + 1 \in Int /\ (i + s[i]) - 1 \in Int
    BY <1>1
  <2> QED
    BY <1>1, <2>1, <2>2, SubSeqProperties
<1>3. Implied(s, i) \in Seq(Byte)
  BY <1>1, EmptySeq DEF Implied
<1>4. rest.ok \in BOOLEAN /\ rest.data \in Seq(Byte)
  BY DEF Answers
<1>5. SubSeq(s, i + 1, (i + s[i]) - 1) \o Implied(s, i) \o rest.data \in Seq(Byte)
  BY <1>2, <1>3, <1>4, ConcatProperties
<1> QED
  BY <1>5, BadAnswer DEF Continued, Answers

\* One step of the decoder, from answers to an answer.
LEMMA DecodedTyped ==
  ASSUME NEW s \in Seq(Byte), NEW i \in 1 .. Len(s) + 1, NEW f,
         \A j \in 1 .. Len(s) + 1 : j > i => f[j] \in Answers
  PROVE  DecodedAt(s, i, f) \in Answers
<1>0. Len(s) \in Nat
  BY ByteFacts
<1>1. CASE i # Len(s) + 1 /\ ~Broken(s, i)
  <2>1. i \in 1 .. Len(s) /\ s[i] \in Nat
    BY <1>0, <1>1, ByteFacts
  <2>2. i + s[i] \in 1 .. Len(s) + 1 /\ i + s[i] > i
    BY <1>0, <1>1, <2>1 DEF Broken
  <2>3. f[i + s[i]] \in Answers
    BY <2>2
  <2> QED
    BY <1>1, <2>1, <2>3, ContinuedTyped DEF DecodedAt
<1> QED
  BY <1>1, BadAnswer DEF DecodedAt

\* That step only looks at the positions behind.
LEMMA DecodedSame ==
  ASSUME NEW s \in Seq(Byte), NEW i \in 1 .. Len(s) + 1, NEW f, NEW g,
         \A j \in 1 .. Len(s) + 1 : j > i => f[j] = g[j]
  PROVE  DecodedAt(s, i, f) = DecodedAt(s, i, g)
<1>0. Len(s) \in Nat
  BY ByteFacts
<1>1. CASE i # Len(s) + 1 /\ ~Broken(s, i)
  <2>1. i \in 1 .. Len(s) /\ s[i] \in Nat
    BY <1>0, <1>1, ByteFacts
  <2>2. i + s[i] \in 1 .. Len(s) + 1 /\ i + s[i] > i
    BY <1>0, <1>1, <2>1 DEF Broken
  <2>3. f[i + s[i]] = g[i + s[i]]
    BY <2>2
  <2> QED
    BY <2>3 DEF DecodedAt
<1> QED
  BY <1>1 DEF DecodedAt

\* The decoder is defined at every position, and each position by those
\* behind it.
LEMMA DecodeSteps ==
  ASSUME NEW s \in Seq(Byte)
  PROVE  \E f : DecodesBy(f, s)
<1> DEFINE I == 1 .. Len(s) + 1
           rank == [i \in I |-> Len(s) + 1 - i]
           step == [p \in I \X [I -> Answers] |-> DecodedAt(s, p[1], p[2])]
           Def(f) == [i \in I |-> DecodedAt(s, i, f)]
           g == CHOOSE f : f = Def(f)
<1>0. Len(s) \in Nat
  BY ByteFacts
<1>1. CobsDecode(s) = g[1]
  BY Zenon DEF CobsDecode, DecodedAt, Continued, Implied, Broken
<1>2. /\ rank \in [I -> Nat] /\ \A i \in I : rank[i] < Len(s) + 1
      /\ \A i, j \in I : rank[j] < rank[i] <=> j > i
  BY <1>0
<1>3. \A i \in I, f \in [I -> Answers] : step[<<i, f>>] = DecodedAt(s, i, f)
  OBVIOUS
<1>4. Descends(I, rank, Answers, step)
  <2>1. \A i \in I : \A f \in [I -> Answers] : DecodedAt(s, i, f) \in Answers
    BY DecodedTyped
  <2>2. step \in [I \X [I -> Answers] -> Answers]
    BY <2>1
  <2>3. ASSUME NEW i \in I, NEW f \in [I -> Answers], NEW h \in [I -> Answers],
               SameBelow(I, rank, rank[i], f, h)
        PROVE  step[<<i, f>>] = step[<<i, h>>]
    <3>1. \A j \in I : j > i => f[j] = h[j]
      BY <1>2, <2>3 DEF SameBelow
    <3>2. DecodedAt(s, i, f) = DecodedAt(s, i, h)
      BY <3>1, DecodedSame
    <3> QED
      BY <1>3, <3>2
  <2> HIDE DEF step, rank
  <2> QED
    BY <2>2, <2>3 DEF Descends
<1> HIDE DEF step, rank
<1>5. PICK f : Follows(I, Answers, step, f)
  <2>1. Len(s) + 1 \in Nat /\ BadCobs \in Answers
    BY <1>0, BadAnswer
  <2> HIDE DEF I
  <2> QED
    BY <1>2, <1>4, <2>1, RankRecursion
<1>6. f = Def(f)
  <2>1. f \in [I -> Answers] /\ \A i \in I : f[i] = DecodedAt(s, i, f)
    BY <1>3, <1>5 DEF Follows
  <2> QED
    BY <2>1
<1>7. g = Def(g)
  <2> HIDE DEF Def
  <2> QED
    BY <1>6, Zenon
<1>8. /\ g = [i \in I |-> g[i]]
      /\ \A i \in I : g[i] = DecodedAt(s, i, g)
  <2>1. /\ Def(g) = [i \in I |-> Def(g)[i]]
        /\ \A i \in I : Def(g)[i] = DecodedAt(s, i, g)
    OBVIOUS
  <2> HIDE DEF Def, g
  <2> QED
    BY <1>7, <2>1
<1> HIDE DEF g
<1>9. \A i \in I : g[i] \in Answers
  <2> DEFINE S == {i \in I : g[i] \in Answers}
  <2>1. ASSUME NEW i \in I, \A j \in I : rank[j] < rank[i] => j \in S
        PROVE  i \in S
    <3>1. \A j \in I : j > i => g[j] \in Answers
      BY <1>2, <2>1
    <3> QED
      BY <1>8, <3>1, DecodedTyped
  <2> HIDE DEF S, I
  <2>2. I \subseteq S
    BY <1>2, <2>1, RankInduction
  <2> QED
    BY <2>2 DEF S
<1>10. g \in [I -> Answers]
  BY <1>8, <1>9
<1> QED
  BY <1>1, <1>8, <1>10 DEF DecodesBy

\* Whatever the bytes, the decoder yields bytes.
LEMMA DecodeTyped ==
  ASSUME NEW s \in Seq(Byte)
  PROVE  CobsDecode(s) \in Answers
<1>1. PICK f : DecodesBy(f, s)
  BY DecodeSteps
<1>2. 1 \in 1 .. Len(s) + 1
  BY ByteFacts
<1> QED
  BY <1>1, <1>2 DEF DecodesBy

\* The decoder takes no notice of what is before the position it is at.
AgreeBehind(a, b, j, f, g) ==
  \A m \in 1 .. Len(b) + 1 : m > j => f[Len(a) + m] = g[m]

LEMMA DecodedBehind ==
  ASSUME NEW a \in Seq(Byte), NEW b \in Seq(Byte), NEW f, NEW g, NEW j \in 1 .. Len(b) + 1,
         AgreeBehind(a, b, j, f, g)
  PROVE  DecodedAt(a \o b, Len(a) + j, f) = DecodedAt(b, j, g)
<1> DEFINE c == a \o b
           i == Len(a) + j
<1>1. /\ Len(a) \in Nat /\ Len(b) \in Nat /\ c \in Seq(Byte) /\ Len(c) = Len(a) + Len(b)
      /\ \A m \in 1 .. Len(b) : c[Len(a) + m] = b[m]
  BY ConcatBytes
<1> HIDE DEF c
<1>2. CASE j = Len(b) + 1
  <2>1. i = Len(c) + 1
    BY <1>1, <1>2
  <2> QED
    BY <1>2, <2>1 DEF DecodedAt, c
<1>3. CASE j # Len(b) + 1
  <2>1. /\ j \in 1 .. Len(b) /\ i # Len(c) + 1 /\ i \in Nat
        /\ c[i] = b[j] /\ b[j] \in Nat
    BY <1>1, <1>3, ByteFacts
  <2>2. Broken(c, i) <=> Broken(b, j)
    BY <1>1, <2>1 DEF Broken
  <2>3. CASE Broken(b, j)
    BY <1>3, <2>1, <2>2, <2>3 DEF DecodedAt, c
  <2>4. CASE ~Broken(b, j)
    <3>1. /\ b[j] # 0 /\ j + b[j] \in 1 .. Len(b) + 1 /\ j + b[j] > j
          /\ i + c[i] = Len(a) + (j + b[j])
      BY <1>1, <2>1, <2>4 DEF Broken
    <3>2. f[i + c[i]] = g[j + b[j]]
      BY <3>1 DEF AgreeBehind
    <3>3. Implied(c, i) = Implied(b, j)
      <4>1. i + c[i] = Len(c) + 1 <=> j + b[j] = Len(b) + 1
        <5> DEFINE v == j + b[j]
                   e == i + c[i]
        <5>1. v \in Nat /\ e = Len(a) + v
          BY <3>1
        <5>2. Len(c) = Len(a) + Len(b) /\ Len(a) \in Nat /\ Len(b) \in Nat
          BY <1>1
        <5> HIDE DEF v, e, i
        <5>3. e = Len(c) + 1 <=> v = Len(b) + 1
          BY <5>1, <5>2
        <5> QED
          BY <5>3 DEF v, e
      <4> QED
        BY <2>1, <4>1, Zenon DEF Implied
    <3>4. SubSeq(c, i + 1, (i + c[i]) - 1) = SubSeq(b, j + 1, (j + b[j]) - 1)
      <4> DEFINE m == j + 1
                 n == (j + b[j]) - 1
      <4>1. /\ m \in Nat /\ n \in Nat /\ 1 <= m /\ m <= n + 1 /\ n <= Len(b)
        <5>1. \A v \in 1 .. Len(b) + 1 : v > j =>
                v - 1 \in Nat /\ j + 1 <= (v - 1) + 1 /\ v - 1 <= Len(b)
          BY <1>1, <2>1
        <5>2. j + 1 \in Nat /\ 1 <= j + 1
          BY <2>1
        <5> QED
          BY <3>1, <5>1, <5>2
      <4>2. i + 1 = Len(a) + m /\ (i + c[i]) - 1 = Len(a) + n
        BY <1>1, <2>1, <3>1
      <4> HIDE DEF m, n, i
      <4>3. SubSeq(c, Len(a) + m, Len(a) + n) = SubSeq(b, m, n)
        BY <4>1, SliceBehind DEF c
      <4> QED
        BY <4>2, <4>3 DEF m, n
    <3>5. Continued(c, i, f[i + c[i]]) = Continued(b, j, g[j + b[j]])
      BY <3>2, <3>3, <3>4, Zenon DEF Continued
    <3>6. DecodedAt(c, i, f) = DecodedAt(b, j, g)
      BY <1>3, <2>1, <2>2, <2>4, <3>5 DEF DecodedAt
    <3> QED
      BY <3>6 DEF c
  <2> QED
    BY <2>3, <2>4
<1> QED
  BY <1>2, <1>3

\* So it makes of the bytes behind a prefix what it makes of them alone.
LEMMA DecodesBehind ==
  ASSUME NEW a \in Seq(Byte), NEW b \in Seq(Byte), NEW f, NEW g,
         DecodesBy(f, a \o b), DecodesBy(g, b)
  PROVE  f[Len(a) + 1] = CobsDecode(b)
<1> DEFINE I == 1 .. Len(b) + 1
           rank == [j \in I |-> Len(b) + 1 - j]
           S == {j \in I : f[Len(a) + j] = g[j]}
<1>1. /\ Len(a) \in Nat /\ Len(b) \in Nat /\ Len(a \o b) = Len(a) + Len(b)
  BY ConcatBytes
<1>2. /\ rank \in [I -> Nat] /\ \A i, j \in I : rank[j] < rank[i] <=> j > i
  BY <1>1
<1>3. ASSUME NEW j \in I, \A m \in I : rank[m] < rank[j] => m \in S
      PROVE  j \in S
  <2>1. \A m \in I : m > j => f[Len(a) + m] = g[m]
    BY <1>2, <1>3
  <2>2. DecodedAt(a \o b, Len(a) + j, f) = DecodedAt(b, j, g)
    <3>1. j \in 1 .. Len(b) + 1
      OBVIOUS
    <3>2. AgreeBehind(a, b, j, f, g)
      BY <2>1 DEF AgreeBehind
    <3> HIDE DEF I, S, rank
    <3> QED
      BY <3>1, <3>2, DecodedBehind
  <2>3. Len(a) + j \in 1 .. Len(a \o b) + 1
    BY <1>1
  <2> QED
    BY <2>2, <2>3 DEF DecodesBy
<1> HIDE DEF rank, S, I
<1>4. I \subseteq S
  BY <1>2, <1>3, RankInduction
<1>5. 1 \in S
  BY <1>1, <1>4 DEF I
<1> QED
  BY <1>5 DEF S, DecodesBy

\* No bytes decode to no bytes.
LEMMA DecodeNothing == CobsDecode(<<>>) = [ok |-> TRUE, data |-> <<>>]
<1>1. <<>> \in Seq(Byte) /\ Len(<<>>) = 0
  BY EmptySeq
<1>2. PICK f : DecodesBy(f, <<>>)
  BY <1>1, DecodeSteps
<1>3. 1 \in 1 .. Len(<<>>) + 1 /\ 1 = Len(<<>>) + 1
  BY <1>1
<1>4. f[1] = DecodedAt(<<>>, 1, f) /\ CobsDecode(<<>>) = f[1]
  BY <1>2, <1>3, Zenon DEF DecodesBy
<1>5. DecodedAt(<<>>, 1, f) = [ok |-> TRUE, data |-> <<>>]
  BY <1>3, Zenon DEF DecodedAt
<1> QED
  BY <1>4, <1>5

\* A block: its code byte and the bytes it announces.
Block(open) == <<Len(open) + 1>> \o open

\* A block that is not too long consists of bytes.
LEMMA BlockFacts ==
  ASSUME NEW open \in Seq(Byte), Len(open) < MaxByte
  PROVE  /\ Block(open) \in Seq(Byte)
         /\ Len(Block(open)) = Len(open) + 1
         /\ Block(open)[1] = Len(open) + 1
         /\ \A i \in 1 .. Len(open) : Block(open)[1 + i] = open[i]
<1>1. Len(open) \in Nat /\ Len(open) + 1 \in Byte
  BY ByteFacts DEF Byte
<1>2. <<Len(open) + 1>> \in Seq(Byte) /\ Len(<<Len(open) + 1>>) = 1
      /\ <<Len(open) + 1>>[1] = Len(open) + 1
  BY <1>1
<1> DEFINE h == <<Len(open) + 1>>
<1> HIDE DEF h
<1>3. /\ h \o open \in Seq(Byte) /\ Len(h \o open) = Len(h) + Len(open)
      /\ \A i \in 1 .. Len(h) : (h \o open)[i] = h[i]
      /\ \A i \in 1 .. Len(open) : (h \o open)[Len(h) + i] = open[i]
  BY <1>2, ConcatBytes DEF h
<1>4. h \in Seq(Byte) /\ Len(h) = 1 /\ h[1] = Len(open) + 1 /\ Block(open) = h \o open
  BY <1>2 DEF h, Block
<1>5. Len(Block(open)) = Len(open) + 1
  BY <1>1, <1>3, <1>4
<1> QED
  BY <1>3, <1>4, <1>5

\* What the decoder makes of a block and of what follows it.
Zero(open, rest) == IF Len(open) + 1 = MaxByte \/ rest = <<>> THEN <<>> ELSE <<0>>

\* A block decodes to its bytes, to the zero it implies and to the rest.
LEMMA DecodeBlock ==
  ASSUME NEW open \in Seq(Byte), Len(open) < MaxByte, NEW rest \in Seq(Byte),
         CobsDecode(rest).ok
  PROVE  CobsDecode(Block(open) \o rest) =
           [ok |-> TRUE, data |-> open \o Zero(open, rest) \o CobsDecode(rest).data]
<1> DEFINE a == Block(open)
           s == a \o rest
           n == Len(open)
<1>1. /\ a \in Seq(Byte) /\ Len(a) = n + 1 /\ a[1] = n + 1
      /\ \A i \in 1 .. n : a[1 + i] = open[i]
      /\ n \in Nat /\ n < MaxByte
  BY BlockFacts, ByteFacts
<1> HIDE DEF a
<1>2. /\ s \in Seq(Byte) /\ Len(rest) \in Nat /\ Len(s) = n + 1 + Len(rest)
      /\ \A i \in 1 .. n + 1 : s[i] = a[i]
  <2>1. /\ s \in Seq(Byte) /\ Len(rest) \in Nat /\ Len(s) = Len(a) + Len(rest)
        /\ \A i \in 1 .. Len(a) : s[i] = a[i]
    <3>1. a \in Seq(Byte)
      BY <1>1
    <3> QED
      BY <3>1, ConcatBytes
  <2> HIDE DEF s
  <2> QED
    BY <1>1, <2>1
<1>3. PICK f : DecodesBy(f, s)
  BY <1>2, DecodeSteps
<1>4. PICK g : DecodesBy(g, rest)
  BY DecodeSteps
<1>5. f[n + 1 + 1] = CobsDecode(rest)
  <2>1. f[Len(a) + 1] = CobsDecode(rest)
    BY <1>1, <1>3, <1>4, DecodesBehind
  <2> QED
    BY <1>1, <2>1
<1> HIDE DEF s
<1>6. s[1] = n + 1 /\ 1 # Len(s) + 1 /\ 1 + s[1] = n + 1 + 1 /\ 1 \in 1 .. Len(s) + 1
  BY <1>1, <1>2
<1>7. ~Broken(s, 1)
  BY <1>1, <1>2, <1>6 DEF Broken
<1>8. CobsDecode(s) = Continued(s, 1, CobsDecode(rest))
  <2>1. CobsDecode(s) = f[1] /\ f[1] = DecodedAt(s, 1, f)
    BY <1>3, <1>6, Zenon DEF DecodesBy
  <2>2. DecodedAt(s, 1, f) = Continued(s, 1, f[1 + s[1]])
    BY <1>6, <1>7, Zenon DEF DecodedAt
  <2> QED
    BY <1>5, <1>6, <2>1, <2>2
<1>9. SubSeq(s, 1 + 1, (1 + s[1]) - 1) = open
  <2>1. 2 \in Nat /\ n + 1 \in Nat /\ 2 <= (n + 1) + 1 /\ n + 1 <= Len(s)
        /\ ((n + 1) + 1) - 2 = n
    BY <1>1, <1>2
  <2>2. /\ SubSeq(s, 2, n + 1) \in Seq(Byte) /\ Len(SubSeq(s, 2, n + 1)) = n
        /\ \A i \in 1 .. n : SubSeq(s, 2, n + 1)[i] = s[(2 + i) - 1]
    BY <1>2, <2>1, Slice
  <2>3. \A i \in 1 .. n : s[(2 + i) - 1] = open[i]
    <3>1. \A i \in 1 .. n : (2 + i) - 1 = 1 + i /\ 1 + i \in 1 .. n + 1
      BY <1>1
    <3> QED
      BY <1>1, <1>2, <3>1
  <2>4. SubSeq(s, 2, n + 1) = open
    <3>1. open \in Seq(Byte) /\ Len(open) = n
      OBVIOUS
    <3> HIDE DEF n
    <3> QED
      BY <2>2, <2>3, <3>1, SeqEqual
  <2>5. 1 + 1 = 2 /\ (1 + s[1]) - 1 = n + 1
    BY <1>1, <1>6
  <2> QED
    BY <2>4, <2>5
<1>10. Implied(s, 1) = Zero(open, rest)
  <2>1. 1 + s[1] = Len(s) + 1 <=> Len(rest) = 0
    BY <1>1, <1>2, <1>6
  <2>2. Len(rest) = 0 <=> rest = <<>>
    BY EmptySeq
  <2> QED
    BY <1>6, <2>1, <2>2, Zenon DEF Implied, Zero
<1>11. CobsDecode(s) = [ok |-> TRUE, data |-> open \o Zero(open, rest) \o CobsDecode(rest).data]
  BY <1>8, <1>9, <1>10, Zenon DEF Continued
<1> QED
  BY <1>11 DEF s, a

-----------------------------------------------------------------------------
(* The encoder. *)

\* The bytes of the block that begins at i, and where the next one does.
Open(s, i) == SubSeq(s, i, i + BlockLength(s, i) - 1)

BlockKnown(s, i, n) ==
  /\ n \in Nat /\ n <= MaxByte - 1
  /\ i + n <= Len(s) + 1
  /\ \A k \in 0 .. n - 1 : s[i + k] # 0
  /\ BlockEnds(s, i, n)

\* Every block ends, before the input does, and has no zero in it.
LEMMA BlockLengthIs ==
  ASSUME NEW s \in Seq(Byte), NEW i \in 1 .. Len(s) + 1
  PROVE  BlockKnown(s, i, BlockLength(s, i))
<1> DEFINE Least(n) == BlockEnds(s, i, n) /\ \A m \in 0 .. n - 1 : ~BlockEnds(s, i, m)
           K == 0 .. MaxByte - 1
           S == {n \in Nat : n \in K => ~BlockEnds(s, i, n)}
<1>1. Len(s) \in Nat /\ MaxByte \in Nat /\ MaxByte >= 2
  BY ByteFacts, MaxByteAssumption
<1>2. \E n \in K : Least(n)
  <2> SUFFICES ASSUME ~ \E n \in K : Least(n) PROVE FALSE
    OBVIOUS
  <2>1. ASSUME NEW n \in Nat, \A m \in Nat : m < n => m \in S
        PROVE  n \in S
    <3>1. ASSUME n \in K, NEW m \in 0 .. n - 1 PROVE ~BlockEnds(s, i, m)
      <4>1. m \in Nat /\ m < n /\ m \in K
        BY <1>1, <3>1
      <4> QED
        BY <2>1, <4>1
    <3> QED
      BY <3>1
  <2> HIDE DEF S
  <2>2. Nat \subseteq S
    BY <2>1, StrongInduction
  <2>3. MaxByte - 1 \in Nat /\ MaxByte - 1 \in K
    BY <1>1
  <2>4. ~BlockEnds(s, i, MaxByte - 1)
    BY <2>2, <2>3 DEF S
  <2> QED
    BY <2>4 DEF BlockEnds
<1>3. PICK n \in K : n = BlockLength(s, i) /\ Least(n)
  <2> DEFINE b == CHOOSE n \in K : Least(n)
  <2>1. b \in K /\ Least(b)
    <3> HIDE DEF Least, K
    <3> QED
      BY <1>2
  <2>2. b = BlockLength(s, i)
    BY DEF BlockLength
  <2> HIDE DEF b
  <2> QED
    BY <2>1, <2>2
<1>4. i + n <= Len(s) + 1
  <2> SUFFICES ASSUME i + n > Len(s) + 1 PROVE FALSE
    BY <1>1
  <2>1. (Len(s) + 1) - i \in 0 .. n - 1 /\ i + ((Len(s) + 1) - i) = Len(s) + 1
    BY <1>1
  <2>2. BlockEnds(s, i, (Len(s) + 1) - i)
    BY <2>1 DEF BlockEnds
  <2> QED
    BY <1>3, <2>1, <2>2
<1>5. \A k \in 0 .. n - 1 : s[i + k] # 0
  BY <1>3 DEF BlockEnds
<1>6. n \in Nat /\ n <= MaxByte - 1
  BY <1>1
<1> QED
  BY <1>3, <1>4, <1>5, <1>6 DEF BlockKnown

\* What encode makes of the positions from i on, if f is what it makes of
\* those behind the block at i.
EncodedAt(s, i, f) ==
  LET n     == BlockLength(s, i)
      block == <<n + 1>> \o SubSeq(s, i, i + n - 1)
  IN  IF n = MaxByte - 1         THEN block \o f[i + n]
      ELSE IF i + n = Len(s) + 1 THEN block
      ELSE block \o f[i + n + 1]

Blocks == Seq(Byte \ {0})

EncodesBy(f, s) ==
  /\ f \in [1 .. Len(s) + 1 -> Blocks]
  /\ \A i \in 1 .. Len(s) + 1 : f[i] = EncodedAt(s, i, f)
  /\ CobsEncode(s) = f[1]

\* The block at i, with its code byte, is free of zeros.
LEMMA OpenBlock ==
  ASSUME NEW s \in Seq(Byte), NEW i \in 1 .. Len(s) + 1
  PROVE  /\ Open(s, i) \in Blocks
         /\ Open(s, i) \in Seq(Byte)
         /\ Len(Open(s, i)) = BlockLength(s, i)
         /\ Len(Open(s, i)) < MaxByte
         /\ <<BlockLength(s, i) + 1>> \o SubSeq(s, i, i + BlockLength(s, i) - 1)
              = Block(Open(s, i))
         /\ Block(Open(s, i)) \in Blocks
<1> DEFINE n == BlockLength(s, i)
           o == Open(s, i)
<1>1. BlockKnown(s, i, n)
  BY BlockLengthIs
<1> HIDE DEF n
<1>2. /\ Len(s) \in Nat /\ MaxByte \in Nat /\ MaxByte >= 2 /\ i \in Nat /\ i >= 1
      /\ n \in Nat /\ n <= MaxByte - 1 /\ i + n <= Len(s) + 1
      /\ \A k \in 0 .. n - 1 : s[i + k] # 0
  BY <1>1, ByteFacts, MaxByteAssumption DEF BlockKnown
<1>3. /\ i + n - 1 \in Nat /\ i <= (i + n - 1) + 1 /\ i + n - 1 <= Len(s)
      /\ ((i + n - 1) + 1) - i = n
  BY <1>2
<1>4. o = SubSeq(s, i, i + n - 1)
  BY DEF Open, n
<1> HIDE DEF o
<1>5. o \in Seq(Byte) /\ Len(o) = n /\ \A x \in 1 .. n : o[x] = s[(i + x) - 1]
  <2>1. \A v \in Nat : 1 <= i /\ i <= v + 1 /\ v <= Len(s) /\ (v + 1) - i = n =>
          /\ SubSeq(s, i, v) \in Seq(Byte) /\ Len(SubSeq(s, i, v)) = n
          /\ \A x \in 1 .. n : SubSeq(s, i, v)[x] = s[(i + x) - 1]
    <3> SUFFICES ASSUME NEW v \in Nat, 1 <= i, i <= v + 1, v <= Len(s), (v + 1) - i = n
                 PROVE  /\ SubSeq(s, i, v) \in Seq(Byte) /\ Len(SubSeq(s, i, v)) = n
                        /\ \A x \in 1 .. n : SubSeq(s, i, v)[x] = s[(i + x) - 1]
      OBVIOUS
    <3>1. /\ SubSeq(s, i, v) \in Seq(Byte) /\ Len(SubSeq(s, i, v)) = (v + 1) - i
          /\ \A x \in 1 .. (v + 1) - i : SubSeq(s, i, v)[x] = s[(i + x) - 1]
      BY <1>2, Slice
    <3> QED
      BY <3>1
  <2> QED
    BY <1>2, <1>3, <1>4, <2>1
<1>6. \A x \in 1 .. n : o[x] \in Byte \ {0}
  <2>1. ASSUME NEW x \in 1 .. n PROVE o[x] \in Byte \ {0}
    <3>1. x - 1 \in 0 .. n - 1 /\ (i + x) - 1 = i + (x - 1) /\ (i + x) - 1 \in 1 .. Len(s)
      BY <1>2
    <3>2. s[(i + x) - 1] \in Byte /\ s[(i + x) - 1] # 0
      BY <1>2, <3>1, ByteFacts
    <3> QED
      BY <1>5, <3>2
  <2> QED
    BY <2>1
<1>7. o \in Blocks
  <2>1. \A x \in 1 .. Len(o) : o[x] \in Byte \ {0}
    BY <1>5, <1>6
  <2> QED
    BY <1>5, <2>1, SeqDef DEF Blocks
<1>8. Len(o) < MaxByte
  BY <1>2, <1>5
<1>9. <<n + 1>> \o SubSeq(s, i, i + n - 1) = Block(o)
  BY <1>4, <1>5 DEF Block
<1>10. Block(o) \in Blocks
  <2>1. n + 1 \in Byte \ {0}
    BY <1>2 DEF Byte
  <2>2. <<n + 1>> \in Seq(Byte \ {0})
    BY <2>1
  <2>3. <<n + 1>> \o o \in Seq(Byte \ {0})
    BY <2>2, <1>7, ConcatBytes DEF Blocks
  <2> QED
    BY <2>3, <1>5 DEF Block, Blocks
<1> QED
  BY <1>5, <1>7, <1>8, <1>9, <1>10 DEF o, n

\* The next block begins further on.
LEMMA NextBlock ==
  ASSUME NEW s \in Seq(Byte), NEW i \in 1 .. Len(s) + 1
  PROVE  LET n == BlockLength(s, i)
         IN  /\ n = MaxByte - 1 => i + n \in 1 .. Len(s) + 1 /\ i + n > i
             /\ i + n # Len(s) + 1 => i + n + 1 \in 1 .. Len(s) + 1 /\ i + n + 1 > i
<1> DEFINE n == BlockLength(s, i)
<1>1. BlockKnown(s, i, n) /\ Len(s) \in Nat /\ MaxByte \in Nat /\ MaxByte >= 2
  BY BlockLengthIs, ByteFacts, MaxByteAssumption
<1> HIDE DEF n
<1>2. n \in Nat /\ i + n <= Len(s) + 1
  BY <1>1 DEF BlockKnown
<1>3. n = MaxByte - 1 => i + n \in 1 .. Len(s) + 1 /\ i + n > i
  BY <1>1, <1>2
<1>4. i + n # Len(s) + 1 => i + n + 1 \in 1 .. Len(s) + 1 /\ i + n + 1 > i
  BY <1>1, <1>2
<1> QED
  BY <1>3, <1>4 DEF n

\* One step of the encoder, from blocks to a block.
LEMMA EncodedTyped ==
  ASSUME NEW s \in Seq(Byte), NEW i \in 1 .. Len(s) + 1, NEW f,
         \A j \in 1 .. Len(s) + 1 : j > i => f[j] \in Blocks
  PROVE  EncodedAt(s, i, f) \in Blocks
<1> DEFINE n == BlockLength(s, i)
           b == Block(Open(s, i))
<1>2. b \in Blocks /\ <<n + 1>> \o SubSeq(s, i, i + n - 1) = b
  BY OpenBlock
<1>3. ASSUME NEW r \in Blocks PROVE b \o r \in Blocks
  BY <1>2, <1>3, ConcatBytes DEF Blocks
<1>4. /\ n = MaxByte - 1 => i + n \in 1 .. Len(s) + 1 /\ i + n > i
      /\ i + n # Len(s) + 1 => i + n + 1 \in 1 .. Len(s) + 1 /\ i + n + 1 > i
  BY NextBlock
<1> HIDE DEF b
<1>5. CASE n = MaxByte - 1
  <2>1. EncodedAt(s, i, f) = b \o f[i + n]
    BY <1>2, <1>5 DEF EncodedAt
  <2>2. f[i + n] \in Blocks
    BY <1>4, <1>5
  <2> QED
    BY <1>3, <2>1, <2>2
<1>6. CASE n # MaxByte - 1 /\ i + n = Len(s) + 1
  BY <1>2, <1>6 DEF EncodedAt
<1>7. CASE n # MaxByte - 1 /\ i + n # Len(s) + 1
  <2>1. EncodedAt(s, i, f) = b \o f[i + n + 1]
    BY <1>2, <1>7 DEF EncodedAt
  <2>2. f[i + n + 1] \in Blocks
    BY <1>4, <1>7
  <2> QED
    BY <1>3, <2>1, <2>2
<1> QED
  BY <1>5, <1>6, <1>7

\* That step only looks at the positions behind.
LEMMA EncodedSame ==
  ASSUME NEW s \in Seq(Byte), NEW i \in 1 .. Len(s) + 1, NEW f, NEW g,
         \A j \in 1 .. Len(s) + 1 : j > i => f[j] = g[j]
  PROVE  EncodedAt(s, i, f) = EncodedAt(s, i, g)
<1> DEFINE n == BlockLength(s, i)
<1>2. /\ n = MaxByte - 1 => i + n \in 1 .. Len(s) + 1 /\ i + n > i
      /\ i + n # Len(s) + 1 => i + n + 1 \in 1 .. Len(s) + 1 /\ i + n + 1 > i
  BY NextBlock
<1>3. /\ n = MaxByte - 1 => f[i + n] = g[i + n]
      /\ i + n # Len(s) + 1 => f[i + n + 1] = g[i + n + 1]
  BY <1>2
<1> QED
  BY <1>3, Zenon DEF EncodedAt

\* The encoder is defined at every position, and each position by those
\* behind it.
LEMMA EncodeSteps ==
  ASSUME NEW s \in Seq(Byte)
  PROVE  \E f : EncodesBy(f, s)
<1> DEFINE I == 1 .. Len(s) + 1
           rank == [i \in I |-> Len(s) + 1 - i]
           step == [p \in I \X [I -> Blocks] |-> EncodedAt(s, p[1], p[2])]
           Def(f) == [i \in I |-> EncodedAt(s, i, f)]
           g == CHOOSE f : f = Def(f)
<1>0. Len(s) \in Nat
  BY ByteFacts
<1>1. CobsEncode(s) = g[1]
  BY Zenon DEF CobsEncode, EncodedAt
<1>2. /\ rank \in [I -> Nat] /\ \A i \in I : rank[i] < Len(s) + 1
      /\ \A i, j \in I : rank[j] < rank[i] <=> j > i
  BY <1>0
<1>3. \A i \in I, f \in [I -> Blocks] : step[<<i, f>>] = EncodedAt(s, i, f)
  OBVIOUS
<1>4. Descends(I, rank, Blocks, step)
  <2>1. \A i \in I : \A f \in [I -> Blocks] : EncodedAt(s, i, f) \in Blocks
    BY EncodedTyped
  <2>2. step \in [I \X [I -> Blocks] -> Blocks]
    BY <2>1
  <2>3. ASSUME NEW i \in I, NEW f \in [I -> Blocks], NEW h \in [I -> Blocks],
               SameBelow(I, rank, rank[i], f, h)
        PROVE  step[<<i, f>>] = step[<<i, h>>]
    <3>1. \A j \in I : j > i => f[j] = h[j]
      BY <1>2, <2>3 DEF SameBelow
    <3>2. EncodedAt(s, i, f) = EncodedAt(s, i, h)
      BY <3>1, EncodedSame
    <3> QED
      BY <1>3, <3>2
  <2> HIDE DEF step, rank
  <2> QED
    BY <2>2, <2>3 DEF Descends
<1> HIDE DEF step, rank
<1>5. PICK f : Follows(I, Blocks, step, f)
  <2>1. Len(s) + 1 \in Nat /\ <<>> \in Blocks
    BY <1>0, EmptySeq DEF Blocks
  <2> HIDE DEF I
  <2> QED
    BY <1>2, <1>4, <2>1, RankRecursion
<1>6. f = Def(f)
  <2>1. f \in [I -> Blocks] /\ \A i \in I : f[i] = EncodedAt(s, i, f)
    BY <1>3, <1>5 DEF Follows
  <2> QED
    BY <2>1
<1>7. g = Def(g)
  <2> HIDE DEF Def
  <2> QED
    BY <1>6, Zenon
<1>8. /\ g = [i \in I |-> g[i]]
      /\ \A i \in I : g[i] = EncodedAt(s, i, g)
  <2>1. /\ Def(g) = [i \in I |-> Def(g)[i]]
        /\ \A i \in I : Def(g)[i] = EncodedAt(s, i, g)
    OBVIOUS
  <2> HIDE DEF Def, g
  <2> QED
    BY <1>7, <2>1
<1> HIDE DEF g
<1>9. \A i \in I : g[i] \in Blocks
  <2> DEFINE S == {i \in I : g[i] \in Blocks}
  <2>1. ASSUME NEW i \in I, \A j \in I : rank[j] < rank[i] => j \in S
        PROVE  i \in S
    <3>1. \A j \in I : j > i => g[j] \in Blocks
      BY <1>2, <2>1
    <3> QED
      BY <1>8, <3>1, EncodedTyped
  <2> HIDE DEF S, I
  <2>2. I \subseteq S
    BY <1>2, <2>1, RankInduction
  <2> QED
    BY <2>2 DEF S
<1>10. g \in [I -> Blocks]
  BY <1>8, <1>9
<1> QED
  BY <1>1, <1>8, <1>10 DEF EncodesBy

-----------------------------------------------------------------------------
(* The one undoes the other. *)

\* What is claimed of the encoding e of the bytes of s from i on.
Undone(s, i, e) ==
  /\ e \in Blocks /\ e # <<>>
  /\ CobsDecode(e) = [ok |-> TRUE, data |-> SubSeq(s, i, Len(s))]
\* One byte of overhead, and one more for each full block.
Cheap(s, i, e) ==
  (MaxByte - 1) * (Len(e) - 1 - (Len(s) + 1 - i)) <= Len(s) + 1 - i

\* The three ways in which the block at i goes on.
LEMMA BlockSplits ==
  ASSUME NEW s \in Seq(Byte), NEW i \in 1 .. Len(s) + 1
  PROVE  LET n == BlockLength(s, i)
             rest(j) == SubSeq(s, j, Len(s))
         IN  /\ n = MaxByte - 1 => rest(i) = Open(s, i) \o rest(i + n)
             /\ i + n = Len(s) + 1 => rest(i) = Open(s, i)
             /\ n # MaxByte - 1 /\ i + n # Len(s) + 1 =>
                  rest(i) = Open(s, i) \o <<0>> \o rest(i + n + 1)
<1> DEFINE n == BlockLength(s, i)
           j == i + n - 1
<1>1. /\ BlockKnown(s, i, n) /\ Len(s) \in Nat
  BY BlockLengthIs, ByteFacts
<1>2. Open(s, i) = SubSeq(s, i, j)
  BY DEF Open
<1> HIDE DEF n
<1>3. n \in Nat /\ i \in Nat /\ 1 <= i /\ i + n <= Len(s) + 1
  BY <1>1 DEF BlockKnown
<1>4. j \in Nat /\ i <= j + 1 /\ j <= Len(s) /\ j + 1 = i + n /\ Len(s) <= Len(s)
  BY <1>1, <1>3
<1> HIDE DEF j
<1>5. n = MaxByte - 1 => SubSeq(s, i, Len(s)) = Open(s, i) \o SubSeq(s, i + n, Len(s))
  <2>1. SubSeq(s, i, j) \o SubSeq(s, j + 1, Len(s)) = SubSeq(s, i, Len(s))
    BY <1>1, <1>3, <1>4, SlicesJoin
  <2> QED
    BY <1>2, <1>4, <2>1
<1>6. i + n = Len(s) + 1 => SubSeq(s, i, Len(s)) = Open(s, i)
  BY <1>1, <1>2, <1>4
<1>7. ASSUME n # MaxByte - 1, i + n # Len(s) + 1
      PROVE  SubSeq(s, i, Len(s)) = Open(s, i) \o <<0>> \o SubSeq(s, i + n + 1, Len(s))
  <2>1. i + n \in 1 .. Len(s) /\ i + n \in Nat /\ s[i + n] = 0
    BY <1>1, <1>3, <1>7 DEF BlockKnown, BlockEnds
  <2>3. SubSeq(s, i + n, i + n) = <<0>>
    BY <2>1, SliceOne
  <2>4. SubSeq(s, i, j) \o SubSeq(s, j + 1, i + n) = SubSeq(s, i, i + n)
    <3>1. j <= i + n /\ i + n <= Len(s)
      BY <1>3, <1>4, <2>1
    <3> QED
      BY <1>3, <1>4, <2>1, <3>1, SlicesJoin
  <2>5. SubSeq(s, i, i + n) \o SubSeq(s, (i + n) + 1, Len(s)) = SubSeq(s, i, Len(s))
    <3>1. i <= (i + n) + 1 /\ i + n <= Len(s)
      BY <1>3, <2>1
    <3> QED
      BY <1>1, <1>3, <1>4, <2>1, <3>1, SlicesJoin
  <2>6. SubSeq(s, j + 1, i + n) = <<0>>
    BY <1>4, <2>3
  <2> QED
    BY <1>2, <2>4, <2>5, <2>6
<1> QED
  BY <1>5, <1>6, <1>7 DEF n

\* The block at i decodes to its bytes, whatever follows it.
LEMMA DecodeOpen ==
  ASSUME NEW s \in Seq(Byte), NEW i \in 1 .. Len(s) + 1, NEW r \in Blocks,
         CobsDecode(r).ok
  PROVE  /\ Block(Open(s, i)) \o r \in Blocks
         /\ Block(Open(s, i)) \o r # <<>>
         /\ Len(Block(Open(s, i)) \o r) = BlockLength(s, i) + 1 + Len(r)
         /\ CobsDecode(Block(Open(s, i)) \o r) =
              [ok |-> TRUE, data |-> Open(s, i) \o Zero(Open(s, i), r) \o CobsDecode(r).data]
<1> DEFINE o == Open(s, i)
           b == Block(o)
           n == BlockLength(s, i)
<1>1. o \in Seq(Byte) /\ Len(o) = n /\ Len(o) < MaxByte /\ b \in Blocks /\ n \in Nat
  BY OpenBlock, BlockLengthIs DEF BlockKnown
<1> HIDE DEF o
<1>2. r \in Seq(Byte)
  BY SeqMonotonic DEF Blocks
<1>3. Len(b) = n + 1
  BY <1>1, BlockFacts
<1>4. CobsDecode(b \o r) = [ok |-> TRUE, data |-> o \o Zero(o, r) \o CobsDecode(r).data]
  BY <1>1, <1>2, DecodeBlock
<1> HIDE DEF b, n
<1>5. /\ b \o r \in Blocks /\ Len(b \o r) = Len(b) + Len(r) /\ Len(r) \in Nat
  BY <1>1, ConcatBytes DEF Blocks
<1>6. b \o r # <<>>
  <2>1. Len(b \o r) # 0
    BY <1>1, <1>3, <1>5
  <2> QED
    BY <2>1, EmptySeq
<1> QED
  BY <1>3, <1>4, <1>5, <1>6 DEF o, b, n

\* What Undone says, field by field.
LEMMA UndoneGives ==
  ASSUME NEW s, NEW i, NEW e, Undone(s, i, e)
  PROVE  /\ e \in Blocks /\ e # <<>>
         /\ CobsDecode(e).ok /\ CobsDecode(e).data = SubSeq(s, i, Len(s))
<1> DEFINE d == SubSeq(s, i, Len(s))
<1>1. e \in Blocks /\ e # <<>> /\ CobsDecode(e) = [ok |-> TRUE, data |-> d]
  BY DEF Undone
<1> HIDE DEF d
<1>2. CobsDecode(e).ok /\ CobsDecode(e).data = d
  BY <1>1
<1> QED
  BY <1>1, <1>2 DEF d

\* The decoder undoes the encoder at i if it does so behind i.
LEMMA UndoneStep ==
  ASSUME NEW s \in Seq(Byte), NEW i \in 1 .. Len(s) + 1, NEW f,
         \A j \in 1 .. Len(s) + 1 : j > i => Undone(s, j, f[j])
  PROVE  Undone(s, i, EncodedAt(s, i, f))
<1> DEFINE n == BlockLength(s, i)
           o == Open(s, i)
           b == Block(o)
           e == EncodedAt(s, i, f)
           rest(j) == SubSeq(s, j, Len(s))
<1>1. <<n + 1>> \o SubSeq(s, i, i + n - 1) = b /\ Len(o) = n /\ o \in Seq(Byte)
      /\ b \in Blocks /\ n \in Nat
  BY OpenBlock, BlockLengthIs DEF BlockKnown
<1>2. /\ n = MaxByte - 1 => i + n \in 1 .. Len(s) + 1 /\ i + n > i
      /\ i + n # Len(s) + 1 => i + n + 1 \in 1 .. Len(s) + 1 /\ i + n + 1 > i
  BY NextBlock
<1>3. /\ n = MaxByte - 1 => rest(i) = o \o rest(i + n)
      /\ i + n = Len(s) + 1 => rest(i) = o
      /\ n # MaxByte - 1 /\ i + n # Len(s) + 1 => rest(i) = o \o <<0>> \o rest(i + n + 1)
  BY BlockSplits
<1>4. ASSUME NEW r \in Blocks, CobsDecode(r).ok
      PROVE  /\ b \o r \in Blocks /\ b \o r # <<>>
             /\ CobsDecode(b \o r) = [ok |-> TRUE, data |-> o \o Zero(o, r) \o CobsDecode(r).data]
  BY <1>4, DecodeOpen
<1>5. Len(o) + 1 = MaxByte <=> n = MaxByte - 1
  <2> HIDE DEF n, o
  <2> QED
    BY <1>1, MaxByteAssumption
<1>6. o \o <<>> = o /\ <<>> \in Blocks
  BY <1>1, ConcatEmptySeq, EmptySeq DEF Blocks
<1>7. CASE n = MaxByte - 1
  <2> DEFINE r == f[i + n]
  <2>1. e = b \o r
    BY <1>1, <1>7 DEF EncodedAt
  <2>2. Undone(s, i + n, r)
    BY <1>2, <1>7
  <2>3. r \in Blocks /\ CobsDecode(r).ok /\ CobsDecode(r).data = rest(i + n)
    BY <2>2, UndoneGives
  <2>4. Zero(o, r) = <<>>
    BY <1>5, <1>7 DEF Zero
  <2>5. o \o <<>> \o rest(i + n) = rest(i)
    BY <1>3, <1>6, <1>7
  <2> HIDE DEF r, n, o, b, e, rest
  <2>6. CobsDecode(b \o r) = [ok |-> TRUE, data |-> o \o Zero(o, r) \o CobsDecode(r).data]
    BY <1>4, <2>3
  <2>7. CobsDecode(b \o r) = [ok |-> TRUE, data |-> rest(i)]
    BY <2>3, <2>4, <2>5, <2>6
  <2> QED
    BY <1>4, <2>1, <2>3, <2>7 DEF Undone, e, rest
<1>8. CASE n # MaxByte - 1 /\ i + n = Len(s) + 1
  <2>1. e = b
    BY <1>1, <1>8 DEF EncodedAt
  <2>2. b \o <<>> = b
    BY <1>1, ConcatEmptySeq DEF Blocks
  <2>3. Zero(o, <<>>) = <<>>
    BY DEF Zero
  <2>4. CobsDecode(<<>>).ok /\ CobsDecode(<<>>).data = <<>>
    BY DecodeNothing
  <2>5. o \o <<>> \o <<>> = rest(i)
    BY <1>3, <1>6, <1>8
  <2> HIDE DEF n, o, b, e, rest
  <2>6. /\ b \o <<>> \in Blocks /\ b \o <<>> # <<>>
        /\ CobsDecode(b \o <<>>)
             = [ok |-> TRUE, data |-> o \o Zero(o, <<>>) \o CobsDecode(<<>>).data]
    BY <1>4, <1>6, <2>4
  <2>7. CobsDecode(b) = [ok |-> TRUE, data |-> rest(i)] /\ b # <<>> /\ b \in Blocks
    BY <2>2, <2>3, <2>4, <2>5, <2>6
  <2> QED
    BY <2>1, <2>7 DEF Undone, e, rest
<1>9. CASE n # MaxByte - 1 /\ i + n # Len(s) + 1
  <2> DEFINE r == f[i + n + 1]
  <2>1. e = b \o r
    BY <1>1, <1>9 DEF EncodedAt
  <2>2. Undone(s, i + n + 1, r)
    BY <1>2, <1>9
  <2>3. r \in Blocks /\ r # <<>> /\ CobsDecode(r).ok /\ CobsDecode(r).data = rest(i + n + 1)
    BY <2>2, UndoneGives
  <2>4. Zero(o, r) = <<0>>
    BY <1>5, <1>9, <2>3 DEF Zero
  <2>5. o \o <<0>> \o rest(i + n + 1) = rest(i)
    BY <1>3, <1>9
  <2> HIDE DEF r, n, o, b, e, rest
  <2>6. CobsDecode(b \o r) = [ok |-> TRUE, data |-> o \o Zero(o, r) \o CobsDecode(r).data]
    BY <1>4, <2>3
  <2>7. CobsDecode(b \o r) = [ok |-> TRUE, data |-> rest(i)]
    BY <2>3, <2>4, <2>5, <2>6
  <2> QED
    BY <1>4, <2>1, <2>3, <2>7 DEF Undone, e, rest
<1> QED
  BY <1>7, <1>8, <1>9

\* Each block adds one byte, and only a full one adds it to no zero.
LEMMA CheapStep ==
  ASSUME NEW s \in Seq(Byte), NEW i \in 1 .. Len(s) + 1, NEW f,
         \A j \in 1 .. Len(s) + 1 : j > i => Undone(s, j, f[j]) /\ Cheap(s, j, f[j])
  PROVE  Cheap(s, i, EncodedAt(s, i, f))
<1> DEFINE n == BlockLength(s, i)
           b == Block(Open(s, i))
           e == EncodedAt(s, i, f)
           M == MaxByte - 1
           left(j) == Len(s) + 1 - j
<1>1. /\ <<n + 1>> \o SubSeq(s, i, i + n - 1) = b /\ b \in Blocks
      /\ n \in Nat /\ n <= M /\ i + n <= Len(s) + 1 /\ Len(b) = n + 1
  <2>1. BlockKnown(s, i, n)
    BY BlockLengthIs
  <2>2. /\ <<n + 1>> \o SubSeq(s, i, i + n - 1) = b /\ b \in Blocks
        /\ Open(s, i) \in Seq(Byte) /\ Len(Open(s, i)) = n /\ Len(Open(s, i)) < MaxByte
    BY OpenBlock
  <2>3. Len(b) = Len(Open(s, i)) + 1
    BY <2>2, BlockFacts
  <2> HIDE DEF n
  <2> QED
    BY <2>1, <2>2, <2>3 DEF BlockKnown
<1>2. /\ n = MaxByte - 1 => i + n \in 1 .. Len(s) + 1 /\ i + n > i
      /\ i + n # Len(s) + 1 => i + n + 1 \in 1 .. Len(s) + 1 /\ i + n + 1 > i
  BY NextBlock
<1>3. /\ Len(s) \in Nat /\ M \in Nat /\ i \in Nat
  BY ByteFacts, MaxByteAssumption
<1>4. ASSUME NEW r \in Blocks
      PROVE  Len(b \o r) = n + 1 + Len(r) /\ Len(r) \in Nat
  <2> HIDE DEF b, n
  <2>1. Len(b \o r) = Len(b) + Len(r) /\ Len(r) \in Nat
    BY <1>1, <1>4, ConcatBytes DEF Blocks
  <2> QED
    BY <1>1, <2>1
<1> HIDE DEF n, b
<1>5. CASE n = MaxByte - 1
  <2> DEFINE r == f[i + n]
             x == Len(r) - 1 - left(i + n)
  <2>1. e = b \o r
    BY <1>1, <1>5 DEF EncodedAt, n
  <2>2. Undone(s, i + n, r) /\ Cheap(s, i + n, r)
    BY <1>2, <1>5
  <2>3. r \in Blocks /\ M * x <= left(i + n)
    BY <2>2 DEF Undone, Cheap
  <2>4. Len(e) = n + 1 + Len(r) /\ Len(r) \in Nat
    BY <1>4, <2>1, <2>3
  <2>5. /\ Len(e) - 1 - left(i) = x + 1 /\ left(i) = left(i + n) + M
        /\ x \in Int /\ left(i + n) \in Int
    <3> DEFINE E == Len(e)
               R == Len(r)
               L == Len(s)
    <3>1. E = n + 1 + R /\ R \in Nat /\ L \in Nat /\ i \in Nat /\ n = M /\ M \in Nat
      BY <1>3, <1>5, <2>4
    <3> HIDE DEF E, R, L, M
    <3>2. /\ E - 1 - (L + 1 - i) = (R - 1 - (L + 1 - (i + n))) + 1
          /\ L + 1 - i = (L + 1 - (i + n)) + M
          /\ R - 1 - (L + 1 - (i + n)) \in Int /\ L + 1 - (i + n) \in Int
      BY <3>1
    <3> QED
      BY <3>2 DEF E, R, L
  <2>6. \A y \in Int : M * (y + 1) = M * y + M
    BY <1>3
  <2>7. M * x \in Int
    BY <1>3, <2>5
  <2> HIDE DEF x, M, left, r, e
  <2>8. M * (x + 1) <= left(i)
    BY <1>3, <2>3, <2>5, <2>6, <2>7
  <2>9. M * (Len(e) - 1 - left(i)) <= left(i)
    BY <2>5, <2>8
  <2> QED
    BY <2>9 DEF Cheap, M, left, e
<1>6. CASE n # MaxByte - 1 /\ i + n = Len(s) + 1
  <2>1. e = b
    BY <1>1, <1>6 DEF EncodedAt, n
  <2>2. Len(e) - 1 - left(i) = 0 /\ left(i) \in Nat
    <3> DEFINE E == Len(e)
               L == Len(s)
    <3>1. E = n + 1 /\ L \in Nat /\ i \in Nat /\ n \in Nat /\ i + n = L + 1
      BY <1>1, <1>3, <1>6, <2>1
    <3> HIDE DEF E, L
    <3>2. E - 1 - (L + 1 - i) = 0 /\ L + 1 - i \in Nat
      BY <3>1
    <3> QED
      BY <3>2 DEF E, L
  <2>3. M * 0 = 0
    BY <1>3
  <2> HIDE DEF M, left, e
  <2>4. M * (Len(e) - 1 - left(i)) <= left(i)
    BY <2>2, <2>3
  <2> QED
    BY <2>4 DEF Cheap, M, left, e
<1>7. CASE n # MaxByte - 1 /\ i + n # Len(s) + 1
  <2> DEFINE r == f[i + n + 1]
             x == Len(r) - 1 - left(i + n + 1)
  <2>1. e = b \o r
    BY <1>1, <1>7 DEF EncodedAt, n
  <2>2. Undone(s, i + n + 1, r) /\ Cheap(s, i + n + 1, r)
    BY <1>2, <1>7
  <2>3. r \in Blocks /\ M * x <= left(i + n + 1)
    BY <2>2 DEF Undone, Cheap
  <2>4. Len(e) = n + 1 + Len(r) /\ Len(r) \in Nat
    BY <1>4, <2>1, <2>3
  <2>5. /\ Len(e) - 1 - left(i) = x /\ left(i + n + 1) <= left(i)
        /\ x \in Int /\ left(i + n + 1) \in Int /\ left(i) \in Int
    <3> DEFINE E == Len(e)
               R == Len(r)
               L == Len(s)
    <3>1. E = n + 1 + R /\ R \in Nat /\ L \in Nat /\ i \in Nat /\ n \in Nat
      BY <1>1, <1>3, <2>4
    <3> HIDE DEF E, R, L
    <3>2. /\ E - 1 - (L + 1 - i) = R - 1 - (L + 1 - (i + n + 1))
          /\ L + 1 - (i + n + 1) <= L + 1 - i
          /\ R - 1 - (L + 1 - (i + n + 1)) \in Int
          /\ L + 1 - (i + n + 1) \in Int /\ L + 1 - i \in Int
      BY <3>1
    <3> QED
      BY <3>2 DEF E, R, L
  <2>6. M * x \in Int
    BY <1>3, <2>5
  <2> HIDE DEF x, M, left, r, e
  <2>7. M * (Len(e) - 1 - left(i)) <= left(i)
    BY <2>3, <2>5, <2>6
  <2> QED
    BY <2>7 DEF Cheap, M, left, e
<1> QED
  BY <1>5, <1>6, <1>7

\* What the encoder makes of the rest of the input is that at every position.
LEMMA EncodedEverywhere ==
  ASSUME NEW s \in Seq(Byte)
  PROVE  \E f : /\ EncodesBy(f, s)
               /\ \A i \in 1 .. Len(s) + 1 : Undone(s, i, f[i]) /\ Cheap(s, i, f[i])
<1> DEFINE I == 1 .. Len(s) + 1
           rank == [i \in I |-> Len(s) + 1 - i]
<1>0. Len(s) \in Nat
  BY ByteFacts
<1>1. PICK f : EncodesBy(f, s)
  BY EncodeSteps
<1> DEFINE S == {i \in I : Undone(s, i, f[i]) /\ Cheap(s, i, f[i])}
<1>2. /\ rank \in [I -> Nat] /\ \A i, j \in I : rank[j] < rank[i] <=> j > i
  BY <1>0
<1>3. ASSUME NEW i \in I, \A j \in I : rank[j] < rank[i] => j \in S
      PROVE  i \in S
  <2>1. \A j \in I : j > i => Undone(s, j, f[j]) /\ Cheap(s, j, f[j])
    BY <1>2, <1>3
  <2>2. Undone(s, i, EncodedAt(s, i, f))
    BY <2>1, UndoneStep
  <2>3. Cheap(s, i, EncodedAt(s, i, f))
    BY <2>1, CheapStep
  <2> QED
    BY <1>1, <2>2, <2>3 DEF EncodesBy
<1> HIDE DEF S, I, rank
<1>4. I \subseteq S
  BY <1>2, <1>3, RankInduction
<1> QED
  BY <1>1, <1>4 DEF S, I

\* The encoding of any bytes has no zero, decodes to those bytes and is at
\* most one byte longer for every started MaxByte - 1 of them
\* (cobs::encode, cobs::decode_in_place).
THEOREM CobsRoundTrip ==
  ASSUME NEW s \in Seq(Byte)
  PROVE  /\ CobsEncode(s) \in Blocks /\ CobsEncode(s) # <<>>
         /\ CobsDecode(CobsEncode(s)) = [ok |-> TRUE, data |-> s]
         /\ (MaxByte - 1) * (Len(CobsEncode(s)) - 1 - Len(s)) <= Len(s)
<1>1. PICK f : /\ EncodesBy(f, s)
               /\ \A i \in 1 .. Len(s) + 1 : Undone(s, i, f[i]) /\ Cheap(s, i, f[i])
  BY EncodedEverywhere
<1>2. Len(s) \in Nat /\ 1 \in 1 .. Len(s) + 1
  BY ByteFacts
<1>3. CobsEncode(s) = f[1]
  BY <1>1 DEF EncodesBy
<1>4. Undone(s, 1, CobsEncode(s)) /\ Cheap(s, 1, CobsEncode(s))
  BY <1>1, <1>2, <1>3
<1>5. SubSeq(s, 1, Len(s)) = s /\ Len(s) + 1 - 1 = Len(s)
  BY <1>2, SliceAll
<1> QED
  BY <1>4, <1>5 DEF Undone, Cheap

\* What the encoder yields are bytes, none of them a zero.
LEMMA BlocksAreBytes ==
  ASSUME NEW e \in Blocks
  PROVE  e \in Seq(Byte) /\ \A i \in 1 .. Len(e) : e[i] # 0
<1>1. e \in Seq(Byte \ {0})
  BY DEF Blocks
<1>2. \A i \in 1 .. Len(e) : e[i] \in Byte \ {0}
  BY <1>1, ElementOfSeq
<1>3. e \in Seq(Byte)
  BY <1>1, SeqDef
<1> QED
  BY <1>2, <1>3

\* Bytes that begin with a zero are encoded like those behind it: its place is
\* taken by the code byte of the empty block before it.
LEMMA ZeroFirst ==
  ASSUME NEW s \in Seq(Byte), s # <<>>, s[1] = 0
  PROVE  (MaxByte - 1) * (Len(CobsEncode(s)) - 1 - Len(s)) <= Len(s) - 1
<1> DEFINE n == BlockLength(s, 1)
           b == Block(Open(s, 1))
           L == Len(s)
<1>1. PICK f : /\ EncodesBy(f, s)
               /\ \A i \in 1 .. Len(s) + 1 : Undone(s, i, f[i]) /\ Cheap(s, i, f[i])
  BY EncodedEverywhere
<1>2. L \in Nat /\ L >= 1 /\ 1 \in 1 .. L + 1 /\ 2 \in 1 .. L + 1
  <2>1. L \in Nat /\ L # 0
    BY ByteFacts, EmptySeq
  <2> QED
    BY <2>1
<1>3. n = 0
  <2>1. n \in Nat /\ \A k \in 0 .. n - 1 : s[1 + k] # 0
    BY <1>2, BlockLengthIs DEF BlockKnown
  <2> HIDE DEF n
  <2>2. n >= 1 => 0 \in 0 .. n - 1 /\ 1 + 0 = 1
    BY <2>1
  <2> QED
    BY <2>1, <2>2
<1>4. /\ Len(Open(s, 1)) = n /\ Open(s, 1) \in Seq(Byte) /\ Len(Open(s, 1)) < MaxByte
      /\ <<n + 1>> \o SubSeq(s, 1, 1 + n - 1) = b
  <2>1. 1 \in 1 .. Len(s) + 1
    BY <1>2
  <2> QED
    BY <2>1, OpenBlock, Zenon
<1>5. b \in Seq(Byte) /\ Len(b) = 1
  <2> DEFINE o == Open(s, 1)
  <2>1. o \in Seq(Byte) /\ Len(o) < MaxByte /\ Len(o) = 0
    BY <1>3, <1>4
  <2>2. b = Block(o)
    OBVIOUS
  <2> HIDE DEF o, b
  <2>3. Block(o) \in Seq(Byte) /\ Len(Block(o)) = Len(o) + 1
    BY <2>1, BlockFacts
  <2>4. Len(b) = 1
    BY <2>1, <2>2, <2>3
  <2> QED
    BY <2>2, <2>3, <2>4
<1>6. CobsEncode(s) = b \o f[2]
  <2>1. CobsEncode(s) = EncodedAt(s, 1, f)
    BY <1>1, <1>2 DEF EncodesBy
  <2>2. n # MaxByte - 1 /\ 1 + n # L + 1 /\ 1 + n + 1 = 2
    <3> HIDE DEF L, n
    <3> QED
      BY <1>2, <1>3, MaxByteAssumption
  <2> QED
    BY <1>4, <2>1, <2>2 DEF EncodedAt
<1> HIDE DEF n, b
<1>7. Undone(s, 2, f[2]) /\ Cheap(s, 2, f[2])
  BY <1>1, <1>2
<1>8. f[2] \in Seq(Byte) /\ (MaxByte - 1) * (Len(f[2]) - 1 - (L + 1 - 2)) <= L + 1 - 2
  <2>1. f[2] \in Blocks
    BY <1>7 DEF Undone
  <2> QED
    BY <1>7, <2>1, BlocksAreBytes DEF Cheap
<1>9. Len(CobsEncode(s)) = 1 + Len(f[2]) /\ Len(f[2]) \in Nat
  <2> DEFINE g == f[2]
  <2>1. b \in Seq(Byte) /\ g \in Seq(Byte)
    BY <1>5, <1>8
  <2> HIDE DEF g
  <2>2. Len(b \o g) = Len(b) + Len(g) /\ Len(g) \in Nat
    BY <2>1, ConcatBytes
  <2>3. CobsEncode(s) = b \o g
    BY <1>6 DEF g
  <2>4. Len(CobsEncode(s)) = 1 + Len(g) /\ Len(g) \in Nat
    BY <1>5, <2>2, <2>3
  <2> QED
    BY <2>4 DEF g
<1>10. L + 1 - 2 = L - 1 /\ Len(f[2]) - 1 - (L + 1 - 2) = Len(CobsEncode(s)) - 1 - L
  <2> DEFINE F == Len(f[2])
             E == Len(CobsEncode(s))
  <2>1. E = 1 + F /\ F \in Nat /\ L \in Nat
    BY <1>2, <1>9
  <2> HIDE DEF E, F, L
  <2>2. L + 1 - 2 = L - 1 /\ F - 1 - (L + 1 - 2) = E - 1 - L
    BY <2>1
  <2> QED
    BY <2>2 DEF E, F
<1> QED
  BY <1>8, <1>10
=============================================================================
