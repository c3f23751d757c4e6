----------------------------- MODULE LinkProofs -----------------------------
(***************************************************************************)
(* Proofs about the generator and the receiving end of a transport.        *)
(***************************************************************************)
EXTENDS Link, FramerProofs, FiniteSetTheorems

-----------------------------------------------------------------------------
(* What the generator encodes. *)

\* The sum of the first n bytes, if f is the sums before.
SumAt(s, n, f) == IF n = 0 THEN 0 ELSE f[n - 1] + s[n]
SumOf(s) == CHOOSE f : f = [n \in 0 .. Len(s) |-> SumAt(s, n, f)]

LEMMA SumTyped ==
  ASSUME NEW s \in Seq(Byte)
  PROVE  Sum(s) \in Nat
<1> DEFINE n == Len(s)
           I == 0 .. n
           Def(f) == [i \in I |-> SumAt(s, i, f)]
           g == CHOOSE f : f = Def(f)
           step == [p \in (1 .. n) \X Nat |-> p[2] + s[p[1]]]
<1>1. n \in Nat /\ \A i \in 1 .. n : s[i] \in Nat
  BY ByteFacts
<1>2. Sum(s) = g[n]
  BY Zenon DEF Sum, SumAt
<1>3. step \in StepFunctions(n, Nat)
  BY <1>1 DEF StepFunctions
<1>4. \A i \in 1 .. n, r \in Nat : step[<<i, r>>] = r + s[i]
  OBVIOUS
<1> HIDE DEF step, n
<1>5. PICK f : Recurs(f, n, Nat, 0, step)
  BY <1>1, <1>3, Recursion
<1>6. f = Def(f)
  <2>1. f \in [I -> Nat] /\ f[0] = 0 /\ \A i \in 1 .. n : f[i] = step[<<i, f[i - 1]>>]
    BY <1>5 DEF Recurs
  <2>2. ASSUME NEW i \in I PROVE f[i] = SumAt(s, i, f)
    <3>1. CASE i = 0
      BY <2>1, <3>1 DEF SumAt
    <3>2. CASE i # 0
      <4>1. i \in 1 .. n /\ i - 1 \in I
        BY <1>1, <3>2
      <4>2. f[i - 1] \in Nat
        BY <2>1, <4>1
      <4> QED
        BY <1>4, <2>1, <3>2, <4>1, <4>2 DEF SumAt
    <3> QED
      BY <3>1, <3>2
  <2> QED
    BY <2>1, <2>2
<1>7. g = Def(g)
  <2> HIDE DEF Def
  <2> QED
    BY <1>6, Zenon
<1>8. \A i \in I : g[i] = SumAt(s, i, g)
  <2>1. \A i \in I : Def(g)[i] = SumAt(s, i, g)
    OBVIOUS
  <2> HIDE DEF Def, g
  <2> QED
    BY <1>7, <2>1
<1> HIDE DEF g
<1> DEFINE S == {i \in I : g[i] \in Nat}
<1>9. 0 \in S
  BY <1>1, <1>8 DEF SumAt
<1>10. ASSUME NEW i \in 1 .. n, i - 1 \in S
       PROVE  i \in S
  <2>1. i \in I /\ i # 0 /\ g[i - 1] \in Nat
    BY <1>1, <1>10
  <2>2. g[i] = g[i - 1] + s[i]
    BY <1>8, <2>1 DEF SumAt
  <2> QED
    BY <1>1, <2>1, <2>2
<1> HIDE DEF S
<1>11. 0 .. n \subseteq S
  BY <1>1, <1>9, <1>10, IntervalInduction
<1>12. n \in S
  BY <1>1, <1>11
<1> QED
  BY <1>2, <1>12 DEF S

\* The frames of the generator can be built, and their CRC agrees.
LEMMA NewFrameIs ==
  ASSUME NEW s \in Byte, NEW p \in Payloads
  PROVE  /\ NewFrame(s, p) \in Frames /\ NewFrame(s, p).id[1] = s
         /\ CrcOk(NewFrame(s, p))
<1> DEFINE f == NewFrame(s, p)
           c == Sum(<<s>>) + Sum(p) + Len(p)
           B == MaxByte + 1
<1>1. p \in Seq(Byte) /\ Len(p) \in Nat /\ Len(p) <= MAX_PAYLOAD /\ <<s>> \in Seq(Byte)
  BY GeneratorAssumption, ByteFacts
<1>2. c \in Nat
  <2>1. Sum(<<s>>) \in Nat
    BY <1>1, SumTyped
  <2>2. Sum(p) \in Nat
    BY <1>1, SumTyped
  <2> QED
    BY <1>1, <2>1, <2>2
<1>3. f = [id |-> <<s>>, payload_len |-> Len(p), payload |-> p, crc_bytes |-> <<c % B>>]
  BY DEF NewFrame, Crc
<1>4. Crc(f) = c
  <2> HIDE DEF f
  <2>1. f.id = <<s>> /\ f.payload = p /\ f.payload_len = Len(p)
    BY <1>3
  <2>2. Crc(f) = Sum(f.id) + Sum(f.payload) + f.payload_len
    BY DEF Crc
  <2> QED
    BY <2>1, <2>2
<1> HIDE DEF c
<1>5. c % B \in Byte
  <2>1. \A a, m \in Nat : a % (m + 1) \in 0 .. m
    OBVIOUS
  <2> QED
    BY <1>2, <2>1, MaxByteAssumption DEF Byte
<1>6. CrcOk(f)
  <2> HIDE DEF f
  <2> QED
    BY <1>3, <1>4 DEF CrcOk
<1>7. f \in Frames
  <2> DEFINE n == Len(p)
  <2>1. <<s>> \in [1 .. HEADER_LEN - 2 -> Byte] /\ <<c % B>> \in [1 .. CRC16_LEN -> Byte]
    BY <1>5, GeneratorAssumption
  <2>2. p \in [1 .. n -> Byte] /\ n \in 0 .. MAX_PAYLOAD
    BY <1>1, FrameAssumption
  <2> HIDE DEF f, n
  <2>3. f \in [id          : [1 .. HEADER_LEN - 2 -> Byte],
               payload_len : {n},
               payload     : [1 .. n -> Byte],
               crc_bytes   : [1 .. CRC16_LEN -> Byte]]
    BY <1>3, <2>1, <2>2 DEF n
  <2> QED
    BY <2>2, <2>3 DEF Frames
<1>8. f.id[1] = s
  <2> HIDE DEF f
  <2> QED
    BY <1>3
<1> QED
  BY <1>6, <1>7, <1>8

\* What the proofs assume of the constants.
Conditions == TwoBytes /\ WireFits /\ DamageShows

\* What the delimiter follows.
Body(s, p) == EncodeCobs(NewFrame(s, p))

LEMMA BodyIs ==
  ASSUME Conditions, NEW s \in Byte, NEW p \in Payloads
  PROVE  /\ Body(s, p) \in Seq(Byte) /\ Body(s, p) # <<>>
         /\ Len(Body(s, p)) \in Nat /\ Len(Body(s, p)) >= 1 /\ Len(Body(s, p)) <= N
         /\ \A i \in 1 .. Len(Body(s, p)) : Body(s, p)[i] # 0
         /\ Process(Body(s, p)) = Complete(NewFrame(s, p))
         /\ Encoded(s, p) = Append(Body(s, p), 0)
<1> DEFINE f == NewFrame(s, p)
           w == Body(s, p)
<1>1. f \in Frames
  BY NewFrameIs
<1>2. w = Wire[f]
  BY <1>1 DEF Wire, Body
<1>3. w # <<>> /\ Len(w) <= N /\ CobsDecode(w) = [ok |-> TRUE, data |-> EncodeRaw(f)]
  BY <1>1, <1>2, WireIs DEF Conditions
<1>4. EncodeRaw(f) \in Seq(Byte) /\ Parse(EncodeRaw(f)) = Complete(f)
  BY <1>1, ParseUndoes DEF Conditions
<1>5. Process(w) = Complete(f)
  BY <1>3, <1>4 DEF Process
<1>6. w \in Blocks
  BY <1>4, CobsRoundTrip DEF Body, EncodeCobs
<1>7. w \in Seq(Byte) /\ \A i \in 1 .. Len(w) : w[i] # 0
  BY <1>6, BlocksAreBytes
<1>8. Encoded(s, p) = Append(w, 0)
  BY DEF Encoded, Body
<1> HIDE DEF w
<1>9. Len(w) \in Nat /\ Len(w) >= 1
  BY <1>3, <1>7, ByteFacts, EmptySeq
<1> QED
  BY <1>3, <1>5, <1>7, <1>8, <1>9 DEF w

\* A frame that the framer completes and whose CRC agrees passes.
LEMMA BodyPasses ==
  ASSUME Conditions, NEW s \in Byte, NEW p \in Payloads
  PROVE  Passes(Body(s, p))
<1>1. Process(Body(s, p)) = Complete(NewFrame(s, p)) /\ CrcOk(NewFrame(s, p))
  BY BodyIs, NewFrameIs
<1> QED
  BY <1>1 DEF Passes, Complete

-----------------------------------------------------------------------------
(* The shapes of a piece, by its delimiters. *)

\* The first zero of y is at h; what is before it, and what is behind it.
FirstZero(y, h) == h \in 1 .. Len(y) /\ y[h] = 0 /\ \A i \in 1 .. h - 1 : y[i] # 0
Before(y, h) == SubSeq(y, 1, h - 1)
Behind(y, h) == SubSeq(y, h + 1, Len(y))

\* What is before the first zero fits the buffer and does not pass.
Rejected(y, h) == FirstZero(y, h) /\ h - 1 <= N /\ ~Passes(Before(y, h))

\* Bytes with one delimiter, at their end, or with another one before it, and
\* how many segments that are not empty there are for the framer to judge.
OneLeft(y, n) ==
  /\ y \in Seq(Byte) /\ Rejected(y, Len(y))
  /\ n = IF Len(y) = 1 THEN 0 ELSE 1

TwoLeft(y, n) ==
  /\ y \in Seq(Byte)
  /\ \E h \in 2 .. Len(y) : Rejected(y, h) /\ OneLeft(Behind(y, h), n - 1)

Damaged(y) == OneLeft(y, 1) \/ TwoLeft(y, 1) \/ TwoLeft(y, 2)

\* Bytes that a delimiter is missing behind, and such bytes behind another
\* segment.
Unclosed(y) == y \in Seq(Byte) /\ Len(y) <= N /\ \A i \in 1 .. Len(y) : y[i] # 0
Half(y) ==
  /\ y \in Seq(Byte)
  /\ \E h \in 2 .. Len(y) : Rejected(y, h) /\ Unclosed(Behind(y, h))

Severed(y) == y # <<>> /\ (Unclosed(y) \/ Half(y))

\* The bytes before and behind a position.
LEMMA BeforeIs ==
  ASSUME NEW y \in Seq(Byte), NEW h \in 1 .. Len(y)
  PROVE  /\ Before(y, h) \in Seq(Byte) /\ Len(Before(y, h)) = h - 1
         /\ \A i \in 1 .. h - 1 : Before(y, h)[i] = y[i]
<1> DEFINE b == SubSeq(y, 1, h - 1)
<1>1. Len(y) \in Nat
  BY ByteFacts
<1>2. /\ 1 \in Nat /\ h - 1 \in Nat /\ 1 <= (h - 1) + 1 /\ h - 1 <= Len(y)
      /\ ((h - 1) + 1) - 1 = h - 1
  BY <1>1
<1>3. /\ b \in Seq(Byte) /\ Len(b) = ((h - 1) + 1) - 1
      /\ \A i \in 1 .. ((h - 1) + 1) - 1 : b[i] = y[(1 + i) - 1]
  BY <1>2, Slice
<1> HIDE DEF b
<1>4. \A i \in 1 .. h - 1 : (1 + i) - 1 = i
  BY <1>1
<1>5. b \in Seq(Byte) /\ Len(b) = h - 1 /\ \A i \in 1 .. h - 1 : b[i] = y[i]
  BY <1>2, <1>3, <1>4
<1> QED
  BY <1>5 DEF Before, b

LEMMA BehindIs ==
  ASSUME NEW y \in Seq(Byte), NEW h \in 1 .. Len(y)
  PROVE  /\ Behind(y, h) \in Seq(Byte) /\ Len(Behind(y, h)) = Len(y) - h
         /\ \A i \in 1 .. Len(y) - h : Behind(y, h)[i] = y[h + i]
<1> DEFINE b == SubSeq(y, h + 1, Len(y))
<1>1. Len(y) \in Nat
  BY ByteFacts
<1>2. /\ h + 1 \in Nat /\ 1 <= h + 1 /\ h + 1 <= Len(y) + 1 /\ Len(y) <= Len(y)
      /\ (Len(y) + 1) - (h + 1) = Len(y) - h
  BY <1>1
<1>3. /\ b \in Seq(Byte) /\ Len(b) = (Len(y) + 1) - (h + 1)
      /\ \A i \in 1 .. (Len(y) + 1) - (h + 1) : b[i] = y[((h + 1) + i) - 1]
  BY <1>1, <1>2, Slice
<1> HIDE DEF b
<1>4. \A i \in 1 .. Len(y) - h : ((h + 1) + i) - 1 = h + i
  BY <1>1
<1>5. b \in Seq(Byte) /\ Len(b) = Len(y) - h /\ \A i \in 1 .. Len(y) - h : b[i] = y[h + i]
  BY <1>2, <1>3, <1>4
<1> QED
  BY <1>5 DEF Behind, b

\* A segment that does not pass, and its delimiter.
LEMMA OneLeftIs ==
  ASSUME NEW a \in Seq(Byte), NEW y \in Seq(Byte), Len(y) = Len(a) + 1,
         \A i \in 1 .. Len(a) : y[i] = a[i] /\ a[i] # 0,
         y[Len(a) + 1] = 0, Len(a) <= N, ~Passes(a)
  PROVE  OneLeft(y, IF a = <<>> THEN 0 ELSE 1)
<1>1. Len(a) \in Nat /\ Len(y) \in Nat /\ Len(y) \in 1 .. Len(y) /\ Len(y) - 1 = Len(a)
  <2>1. Len(a) \in Nat
    BY ByteFacts
  <2> QED
    BY <2>1
<1>2. FirstZero(y, Len(y))
  BY <1>1 DEF FirstZero
<1>3. Before(y, Len(y)) = a
  <2> DEFINE b == Before(y, Len(y))
  <2>1. b \in Seq(Byte) /\ Len(b) = Len(y) - 1 /\ \A i \in 1 .. Len(y) - 1 : b[i] = y[i]
    BY <1>1, BeforeIs
  <2> HIDE DEF b
  <2>2. Len(b) = Len(a) /\ \A i \in 1 .. Len(b) : b[i] = a[i]
    BY <1>1, <2>1
  <2>3. b = a
    BY <2>1, <2>2, SeqEqual
  <2> QED
    BY <2>3 DEF b
<1>4. Rejected(y, Len(y))
  BY <1>1, <1>2, <1>3 DEF Rejected
<1>5. a = <<>> <=> Len(y) = 1
  <2>1. a = <<>> <=> Len(a) = 0
    BY EmptySeq
  <2> QED
    BY <1>1, <2>1
<1> QED
  BY <1>4, <1>5 DEF OneLeft

\* Bytes with a delimiter put behind them.
LEMMA ClosedIs ==
  ASSUME NEW w \in Seq(Byte)
  PROVE  /\ Append(w, 0) \in Seq(Byte) /\ Len(Append(w, 0)) = Len(w) + 1
         /\ \A i \in 1 .. Len(w) : Append(w, 0)[i] = w[i]
         /\ Append(w, 0)[Len(w) + 1] = 0 /\ Len(w) \in Nat
  BY ByteFacts, AppendProperties

\* A frame that was cut short (apply_corruption, truncate).
LEMMA CutShape ==
  ASSUME Conditions, NEW s \in Byte, NEW p \in Payloads,
         NEW n \in 1 .. Len(Encoded(s, p)) - 2
  PROVE  Damaged(CutAndClosed(Encoded(s, p), n))
<1> DEFINE w == Body(s, p)
           e == Encoded(s, p)
           a == SubSeq(w, 1, n)
           y == Append(a, 0)
<1>1. /\ w \in Seq(Byte) /\ Len(w) \in Nat /\ Len(w) <= N
      /\ \A i \in 1 .. Len(w) : w[i] # 0
      /\ e = Append(w, 0)
  BY BodyIs
<1>2. /\ e \in Seq(Byte) /\ Len(e) = Len(w) + 1 /\ \A i \in 1 .. Len(w) : e[i] = w[i]
  BY <1>1, ClosedIs
<1>3. ~Passes(a)
  <2>1. n \in 1 .. Len(w) - 1
    BY <1>1, <1>2
  <2>2. \A k \in 1 .. Len(Body(s, p)) - 1 : ~Passes(SubSeq(Body(s, p), 1, k))
    BY DEF Conditions, DamageShows, Body
  <2> QED
    BY <2>1, <2>2
<1>0. n \in 1 .. Len(e) - 2
  OBVIOUS
<1> HIDE DEF w, e
<1>4. n \in Nat /\ n >= 1 /\ n + 1 \in 1 .. Len(w) /\ (n + 1) - 1 = n /\ n + 1 \in 1 .. Len(e)
  BY <1>0, <1>1, <1>2
<1>5. /\ a \in Seq(Byte) /\ Len(a) = n /\ \A i \in 1 .. n : a[i] = w[i]
  <2> DEFINE b == Before(w, n + 1)
  <2>1. b \in Seq(Byte) /\ Len(b) = (n + 1) - 1 /\ \A i \in 1 .. (n + 1) - 1 : b[i] = w[i]
    BY <1>1, <1>4, BeforeIs
  <2>2. b = a
    BY <1>4 DEF Before
  <2> HIDE DEF a, b
  <2> QED
    BY <1>4, <2>1, <2>2
<1>6. SubSeq(e, 1, n) = a
  <2> DEFINE b == Before(e, n + 1)
  <2>1. b \in Seq(Byte) /\ Len(b) = (n + 1) - 1 /\ \A i \in 1 .. (n + 1) - 1 : b[i] = e[i]
    BY <1>2, <1>4, BeforeIs
  <2>2. b = SubSeq(e, 1, n)
    BY <1>4 DEF Before
  <2> HIDE DEF a, b
  <2>3. \A i \in 1 .. n : i \in 1 .. Len(w)
    BY <1>1, <1>4
  <2>4. Len(b) = n /\ \A i \in 1 .. Len(b) : b[i] = a[i]
    BY <1>2, <1>4, <1>5, <2>1, <2>3
  <2>5. b = a
    BY <1>5, <2>1, <2>4, SeqEqual
  <2> QED
    BY <2>2, <2>5
<1>7. CutAndClosed(e, n) = y
  BY <1>6 DEF CutAndClosed
<1> HIDE DEF a
<1>8. /\ y \in Seq(Byte) /\ Len(y) = Len(a) + 1 /\ y[Len(a) + 1] = 0
      /\ \A i \in 1 .. Len(a) : y[i] = a[i]
  BY <1>5, ClosedIs
<1> HIDE DEF y
<1>9. \A i \in 1 .. Len(a) : y[i] = a[i] /\ a[i] # 0
  <2>1. \A i \in 1 .. n : i \in 1 .. Len(w)
    BY <1>1, <1>4
  <2> QED
    BY <1>1, <1>5, <1>8, <2>1
<1>10. Len(a) <= N
  BY <1>1, <1>4, <1>5, FramerAssumption
<1>11. OneLeft(y, IF a = <<>> THEN 0 ELSE 1)
  BY <1>3, <1>5, <1>8, <1>9, <1>10, OneLeftIs
<1>12. a # <<>>
  BY <1>4, <1>5, EmptySeq
<1> QED
  BY <1>7, <1>11, <1>12 DEF Damaged, e

\* A frame with a byte flipped (apply_corruption, bad-crc).
LEMMA FlipShape ==
  ASSUME Conditions, NEW s \in Byte, NEW p \in Payloads,
         NEW i \in FlipPositions(Encoded(s, p))
  PROVE  Damaged([Encoded(s, p) EXCEPT ![i] = Flip[@]])
<1> DEFINE w == Body(s, p)
           e == Encoded(s, p)
           v == Flip[w[i]]
           y == [e EXCEPT ![i] = Flip[@]]
<1>1. /\ w \in Seq(Byte) /\ Len(w) \in Nat /\ Len(w) <= N
      /\ \A j \in 1 .. Len(w) : w[j] # 0
      /\ e = Append(w, 0)
  BY BodyIs
<1>2. /\ e \in Seq(Byte) /\ Len(e) = Len(w) + 1 /\ \A j \in 1 .. Len(w) : e[j] = w[j]
      /\ e[Len(w) + 1] = 0
  BY <1>1, ClosedIs
<1>3. /\ i = 1 => v # 0
      /\ \A n \in 1 .. Len(w) - 1 : ~Passes(SubSeq(w, 1, n))
      /\ i \in 1 .. Len(w) =>
           IF v = 0 THEN ~Passes(SubSeq(w, i + 1, Len(w))) ELSE ~Passes([w EXCEPT ![i] = v])
  BY DEF Conditions, DamageShows, Body
<1>4. i \in 1 .. Len(e) - 1
  BY DEF FlipPositions
<1> HIDE DEF w, e
<1>5. i \in 1 .. Len(w) /\ i \in 1 .. Len(e) /\ i \in Nat /\ i # Len(w) + 1
  BY <1>1, <1>2, <1>4
<1>6. w[i] \in Byte /\ v \in Byte
  <2>1. w[i] \in Byte
    BY <1>1, <1>5, ElementOfSeq
  <2> QED
    BY <2>1, GeneratorAssumption
<1>7. /\ y \in Seq(Byte) /\ Len(y) = Len(w) + 1 /\ y[i] = v /\ y[Len(w) + 1] = 0
      /\ \A j \in 1 .. Len(w) : j # i => y[j] = w[j]
  <2>1. e[i] = w[i]
    BY <1>2, <1>5
  <2>2. y = [e EXCEPT ![i] = v]
    BY <2>1
  <2> HIDE DEF v, y
  <2>3. y \in Seq(Byte) /\ Len(y) = Len(e) /\ y[i] = v /\ \A j \in 1 .. Len(e) : j # i => y[j] = e[j]
    BY <1>2, <1>5, <1>6, <2>2, ExceptSeq
  <2>4. Len(w) + 1 \in 1 .. Len(e) /\ \A j \in 1 .. Len(w) : j \in 1 .. Len(e)
    BY <1>1, <1>2
  <2> QED
    BY <1>2, <1>5, <2>3, <2>4
<1> HIDE DEF v, y
<1>8. CASE v # 0
  <2> DEFINE a == [w EXCEPT ![i] = v]
  <2>1. /\ a \in Seq(Byte) /\ Len(a) = Len(w) /\ a[i] = v
        /\ \A j \in 1 .. Len(w) : j # i => a[j] = w[j]
    BY <1>1, <1>5, <1>6, ExceptSeq
  <2>2. ~Passes(a)
    BY <1>3, <1>5, <1>8
  <2> HIDE DEF a
  <2>3. \A j \in 1 .. Len(a) : y[j] = a[j] /\ a[j] # 0
    BY <1>1, <1>7, <1>8, <2>1
  <2>4. OneLeft(y, IF a = <<>> THEN 0 ELSE 1)
    BY <1>1, <1>7, <2>1, <2>2, <2>3, OneLeftIs
  <2>5. a # <<>>
    BY <1>1, <1>5, <2>1, EmptySeq
  <2> QED
    BY <2>4, <2>5 DEF Damaged, y, e
<1>9. CASE v = 0
  <2> DEFINE z == Behind(y, i)
             b == Behind(w, i)
             a == Before(y, i)
  <2>1. i \in 2 .. Len(y) /\ i \in 1 .. Len(y)
    BY <1>1, <1>3, <1>5, <1>7, <1>9
  <2>2. a \in Seq(Byte) /\ Len(a) = i - 1 /\ \A j \in 1 .. i - 1 : a[j] = y[j]
    BY <1>7, <2>1, BeforeIs
  <2>3. FirstZero(y, i)
    <3>1. \A j \in 1 .. i - 1 : j \in 1 .. Len(w) /\ j # i
      BY <1>1, <1>5
    <3> QED
      BY <1>1, <1>7, <1>9, <2>1, <3>1 DEF FirstZero
  <2>4. ~Passes(a)
    <3> DEFINE c == Before(w, i)
    <3>1. c \in Seq(Byte) /\ Len(c) = i - 1 /\ \A j \in 1 .. i - 1 : c[j] = w[j]
      BY <1>1, <1>5, BeforeIs
    <3>2. i - 1 \in 1 .. Len(w) - 1
      BY <1>1, <1>5, <2>1
    <3>3. ~Passes(c)
      BY <1>3, <3>2 DEF Before
    <3> HIDE DEF a, c
    <3>4. \A j \in 1 .. i - 1 : j \in 1 .. Len(w) /\ j # i
      BY <1>1, <1>5
    <3>5. Len(a) = Len(c) /\ \A j \in 1 .. Len(a) : a[j] = c[j]
      BY <1>7, <2>2, <3>1, <3>4
    <3>6. a = c
      BY <2>2, <3>1, <3>5, SeqEqual
    <3> QED
      BY <3>3, <3>6
  <2>5. Rejected(y, i)
    <3>1. i - 1 <= N
      BY <1>1, <1>5, FramerAssumption
    <3> QED
      BY <2>3, <2>4, <3>1 DEF Rejected
  <2>6. z \in Seq(Byte) /\ Len(z) = Len(y) - i /\ \A j \in 1 .. Len(y) - i : z[j] = y[i + j]
    BY <1>7, <2>1, BehindIs
  <2>7. b \in Seq(Byte) /\ Len(b) = Len(w) - i /\ \A j \in 1 .. Len(w) - i : b[j] = w[i + j]
    BY <1>1, <1>5, BehindIs
  <2>8. ~Passes(b)
    BY <1>3, <1>5, <1>9 DEF Behind
  <2> HIDE DEF a, b, z
  <2>9. /\ Len(z) = Len(b) + 1 /\ Len(b) <= N
        /\ \A j \in 1 .. Len(b) : z[j] = b[j] /\ b[j] # 0
        /\ z[Len(b) + 1] = 0
    <3>1. Len(y) - i = (Len(w) - i) + 1 /\ Len(w) - i <= N
          /\ (Len(w) - i) + 1 \in 1 .. Len(y) - i /\ i + ((Len(w) - i) + 1) = Len(w) + 1
      BY <1>1, <1>5, <1>7, FramerAssumption
    <3>2. \A j \in 1 .. Len(w) - i : j \in 1 .. Len(y) - i /\ i + j \in 1 .. Len(w) /\ i + j # i
      BY <1>1, <1>5, <1>7
    <3>3. Len(z) = Len(b) + 1 /\ Len(b) <= N
      BY <2>6, <2>7, <3>1
    <3>4. z[Len(b) + 1] = y[Len(w) + 1]
      BY <2>6, <2>7, <3>1
    <3>5. y[Len(w) + 1] = 0
      BY <1>1, <1>7
    <3>6. ASSUME NEW j \in 1 .. Len(b)
          PROVE  z[j] = b[j] /\ b[j] # 0
      <4>1. j \in 1 .. Len(y) - i /\ i + j \in 1 .. Len(w) /\ i + j # i /\ j \in 1 .. Len(w) - i
        BY <2>7, <3>2
      <4>2. z[j] = y[i + j] /\ b[j] = w[i + j]
        BY <2>6, <2>7, <4>1
      <4>3. y[i + j] = w[i + j] /\ w[i + j] # 0
        BY <1>1, <1>7, <4>1
      <4> QED
        BY <4>2, <4>3
    <3> QED
      BY <3>3, <3>4, <3>5, <3>6
  <2>10. OneLeft(z, IF b = <<>> THEN 0 ELSE 1)
    BY <2>6, <2>7, <2>8, <2>9, OneLeftIs
  <2>11. TwoLeft(y, 1) \/ TwoLeft(y, 2)
    <3>1. ASSUME NEW n \in {1, 2}, OneLeft(z, n - 1) PROVE TwoLeft(y, n)
      BY <1>7, <2>1, <2>5, <3>1 DEF TwoLeft, z
    <3>2. 1 - 1 = 0 /\ 2 - 1 = 1
      OBVIOUS
    <3> QED
      BY <2>10, <3>1, <3>2
  <2> QED
    BY <2>11 DEF Damaged, y, e
<1> QED
  BY <1>8, <1>9

\* The beginning of bytes whose first segment does not pass.
LEMMA PrefixHalf ==
  ASSUME NEW y \in Seq(Byte), NEW h \in 2 .. Len(y), Rejected(y, h), NEW n \in h .. Len(y),
         \A i \in 1 .. n - h : y[h + i] # 0, n - h <= N
  PROVE  Half(SubSeq(y, 1, n))
<1> DEFINE x == SubSeq(y, 1, n)
           t == Behind(x, h)
           a == Before(y, h)
           b == Before(x, h)
<1>1. Len(y) \in Nat /\ n \in Nat /\ h \in Nat /\ h \in 1 .. Len(y) /\ h \in 1 .. n
      /\ 1 <= n + 1 /\ n <= Len(y) /\ 1 \in Nat
  <2>1. Len(y) \in Nat
    BY ByteFacts
  <2> QED
    BY <2>1
<1>2. x \in Seq(Byte) /\ Len(x) = n /\ \A i \in 1 .. n : x[i] = y[i]
  <2>1. /\ x \in Seq(Byte) /\ Len(x) = (n + 1) - 1
        /\ \A i \in 1 .. (n + 1) - 1 : x[i] = y[(1 + i) - 1]
    BY <1>1, Slice
  <2> HIDE DEF x
  <2>2. (n + 1) - 1 = n /\ \A i \in 1 .. n : (1 + i) - 1 = i
    BY <1>1
  <2> QED
    BY <2>1, <2>2
<1> HIDE DEF x
<1>3. h \in 1 .. Len(x) /\ h \in 2 .. Len(x)
  BY <1>1, <1>2
<1>4. FirstZero(y, h) /\ h - 1 <= N /\ ~Passes(a)
  BY DEF Rejected
<1>5. a \in Seq(Byte) /\ Len(a) = h - 1 /\ \A i \in 1 .. h - 1 : a[i] = y[i]
  BY <1>1, BeforeIs
<1>6. b \in Seq(Byte) /\ Len(b) = h - 1 /\ \A i \in 1 .. h - 1 : b[i] = x[i]
  BY <1>2, <1>3, BeforeIs
<1>7. t \in Seq(Byte) /\ Len(t) = n - h /\ \A i \in 1 .. n - h : t[i] = x[h + i]
  BY <1>2, <1>3, BehindIs
<1>8. FirstZero(x, h)
  <2>1. \A i \in 1 .. h - 1 : i \in 1 .. n
    BY <1>1
  <2> QED
    BY <1>1, <1>2, <1>3, <1>4, <2>1 DEF FirstZero
<1> HIDE DEF a, b, t
<1>9. b = a
  <2>1. \A i \in 1 .. h - 1 : i \in 1 .. n
    BY <1>1
  <2>2. Len(b) = Len(a) /\ \A i \in 1 .. Len(b) : b[i] = a[i]
    BY <1>2, <1>5, <1>6, <2>1
  <2> QED
    BY <1>5, <1>6, <2>2, SeqEqual
<1>10. Unclosed(t)
  <2>1. \A i \in 1 .. n - h : h + i \in 1 .. n
    BY <1>1
  <2>2. \A i \in 1 .. n - h : t[i] # 0
    BY <1>2, <1>7, <2>1
  <2> QED
    BY <1>7, <2>2 DEF Unclosed
<1>11. Rejected(x, h)
  BY <1>4, <1>8, <1>9 DEF Rejected, b
<1> QED
  BY <1>2, <1>3, <1>10, <1>11 DEF Half, t, x

\* A piece that was written in part (emit).
LEMMA SeveredShape ==
  ASSUME NEW y \in Seq(Byte), FirstZero(y, Len(y)) \/ TwoLeft(y, 1) \/ TwoLeft(y, 2),
         FirstZero(y, Len(y)) => Len(y) - 1 <= N, NEW n \in 1 .. Len(y) - 1
  PROVE  Severed(SubSeq(y, 1, n))
<1> DEFINE x == SubSeq(y, 1, n)
<1>1. Len(y) \in Nat /\ n \in Nat /\ n >= 1 /\ n + 1 \in 1 .. Len(y) /\ (n + 1) - 1 = n
      /\ N \in Nat
  <2>1. Len(y) \in Nat
    BY ByteFacts
  <2> QED
    BY <2>1, FramerAssumption
<1>2. /\ x \in Seq(Byte) /\ Len(x) = n /\ \A i \in 1 .. n : x[i] = y[i]
  <2> DEFINE b == Before(y, n + 1)
  <2>1. b \in Seq(Byte) /\ Len(b) = (n + 1) - 1 /\ \A i \in 1 .. (n + 1) - 1 : b[i] = y[i]
    BY <1>1, BeforeIs
  <2>2. b = x
    BY <1>1 DEF Before
  <2> HIDE DEF x, b
  <2> QED
    BY <1>1, <2>1, <2>2
<1> HIDE DEF x
<1>3. x # <<>>
  BY <1>1, <1>2, EmptySeq
<1>4. ASSUME NEW h \in 1 .. Len(y), FirstZero(y, h), n < h, h - 1 <= N
      PROVE  Unclosed(x)
  <2>1. \A i \in 1 .. n : i \in 1 .. h - 1
    BY <1>1, <1>4
  <2>2. n <= N
    BY <1>1, <1>4
  <2> QED
    BY <1>2, <1>4, <2>1, <2>2 DEF Unclosed, FirstZero
<1>5. CASE FirstZero(y, Len(y))
  <2>1. Unclosed(x)
    BY <1>1, <1>4, <1>5
  <2> QED
    BY <1>3, <2>1 DEF Severed, x
<1>6. ASSUME NEW k \in {1, 2}, TwoLeft(y, k)
      PROVE  Severed(x)
  <2>1. PICK h \in 2 .. Len(y) : Rejected(y, h) /\ OneLeft(Behind(y, h), k - 1)
    BY <1>6 DEF TwoLeft
  <2>2. FirstZero(y, h) /\ h - 1 <= N /\ ~Passes(Before(y, h)) /\ h \in 1 .. Len(y) /\ h \in Nat
    BY <1>1, <2>1 DEF Rejected
  <2>3. CASE n < h
    <3>1. Unclosed(x)
      BY <1>4, <2>2, <2>3
    <3> QED
      BY <1>3, <3>1 DEF Severed
  <2>4. CASE n >= h
    <3> DEFINE z == Behind(y, h)
    <3>1. z \in Seq(Byte) /\ Len(z) = Len(y) - h /\ \A i \in 1 .. Len(y) - h : z[i] = y[h + i]
      BY <2>2, BehindIs
    <3>2. FirstZero(z, Len(z)) /\ Len(z) - 1 <= N
      BY <2>1 DEF OneLeft, Rejected
    <3> HIDE DEF z
    <3>3. \A i \in 1 .. n - h : i \in 1 .. Len(z) - 1 /\ i \in 1 .. Len(y) - h
      BY <1>1, <2>2, <2>4, <3>1
    <3>4. \A i \in 1 .. n - h : y[h + i] # 0
      BY <3>1, <3>2, <3>3 DEF FirstZero
    <3>5. n - h <= N /\ n \in h .. Len(y)
      BY <1>1, <2>2, <2>4, <3>1, <3>2
    <3>6. Half(SubSeq(y, 1, n))
      BY <2>1, <3>4, <3>5, PrefixHalf
    <3> QED
      BY <1>3, <3>6 DEF Severed, x
  <2> QED
    BY <1>1, <2>2, <2>3, <2>4
<1>7. ASSUME NEW k \in {1, 2}, TwoLeft(y, k) PROVE Severed(SubSeq(y, 1, n))
  BY <1>6, <1>7 DEF x
<1> QED
  BY <1>5, <1>7 DEF x

\* What was severed can be cut again.
LEMMA SeveredAgain ==
  ASSUME NEW y \in Seq(Byte), Severed(y), NEW n \in 1 .. Len(y) - 1
  PROVE  Severed(SubSeq(y, 1, n))
<1> DEFINE x == SubSeq(y, 1, n)
<1>1. Len(y) \in Nat /\ n \in Nat /\ n >= 1 /\ 1 <= n + 1 /\ n < Len(y) /\ 1 \in Nat
  <2>1. Len(y) \in Nat
    BY ByteFacts
  <2> QED
    BY <2>1
<1>2. x \in Seq(Byte) /\ Len(x) = n /\ \A i \in 1 .. n : x[i] = y[i]
  <2>1. /\ x \in Seq(Byte) /\ Len(x) = (n + 1) - 1
        /\ \A i \in 1 .. (n + 1) - 1 : x[i] = y[(1 + i) - 1]
    BY <1>1, Slice
  <2> HIDE DEF x
  <2>2. (n + 1) - 1 = n /\ \A i \in 1 .. n : (1 + i) - 1 = i
    BY <1>1
  <2> QED
    BY <2>1, <2>2
<1> HIDE DEF x
<1>3. x # <<>>
  BY <1>1, <1>2, EmptySeq
<1>4. ASSUME n <= N, \A i \in 1 .. n : y[i] # 0
      PROVE  Severed(x)
  BY <1>2, <1>3, <1>4 DEF Severed, Unclosed
<1>5. CASE Unclosed(y)
  <2>1. \A i \in 1 .. n : i \in 1 .. Len(y)
    BY <1>1
  <2>2. n <= N /\ \A i \in 1 .. n : y[i] # 0
    BY <1>1, <1>5, <2>1, FramerAssumption DEF Unclosed
  <2> QED
    BY <1>4, <2>2 DEF x
<1>6. CASE Half(y)
  <2>1. PICK h \in 2 .. Len(y) : Rejected(y, h) /\ Unclosed(Behind(y, h))
    BY <1>6 DEF Half
  <2>2. FirstZero(y, h) /\ h - 1 <= N /\ h \in 1 .. Len(y) /\ h \in Nat /\ N \in Nat
    BY <1>1, <2>1, FramerAssumption DEF Rejected
  <2>3. CASE n < h
    <3>1. n <= N /\ \A i \in 1 .. n : i \in 1 .. h - 1
      BY <1>1, <2>2, <2>3
    <3>2. \A i \in 1 .. n : y[i] # 0
      BY <2>2, <3>1 DEF FirstZero
    <3> QED
      BY <1>4, <3>1, <3>2 DEF x
  <2>4. CASE n >= h
    <3> DEFINE z == Behind(y, h)
    <3>1. z \in Seq(Byte) /\ Len(z) = Len(y) - h /\ \A i \in 1 .. Len(y) - h : z[i] = y[h + i]
      BY <2>2, BehindIs
    <3>2. Len(z) <= N /\ \A i \in 1 .. Len(z) : z[i] # 0
      BY <2>1 DEF Unclosed
    <3> HIDE DEF z
    <3>3. \A i \in 1 .. n - h : i \in 1 .. Len(z) /\ i \in 1 .. Len(y) - h
      BY <1>1, <2>2, <2>4, <3>1
    <3>4. \A i \in 1 .. n - h : y[h + i] # 0
      BY <3>1, <3>2, <3>3
    <3>5. n - h <= N /\ n \in h .. Len(y)
      BY <1>1, <2>2, <2>4, <3>1, <3>2
    <3>6. Half(SubSeq(y, 1, n))
      BY <2>1, <3>4, <3>5, PrefixHalf
    <3> QED
      BY <1>3, <3>6 DEF Severed, x
  <2> QED
    BY <1>1, <2>2, <2>3, <2>4
<1> QED
  BY <1>5, <1>6 DEF Severed, x

\* The frames themselves have this shape, and so has what damage leaves.
LEMMA EncodedShape ==
  ASSUME Conditions, NEW s \in Byte, NEW p \in Payloads
  PROVE  LET y == Encoded(s, p)
         IN  y \in Seq(Byte) /\ FirstZero(y, Len(y)) /\ Len(y) - 1 <= N /\ Len(y) - 1 \in Nat
             /\ Before(y, Len(y)) = Body(s, p)
<1> DEFINE w == Body(s, p)
           y == Encoded(s, p)
           b == Before(y, Len(y))
<1>1. /\ w \in Seq(Byte) /\ Len(w) \in Nat /\ Len(w) <= N
      /\ \A i \in 1 .. Len(w) : w[i] # 0
      /\ y = Append(w, 0)
  BY BodyIs
<1>2. y \in Seq(Byte) /\ Len(y) = Len(w) + 1 /\ y[Len(w) + 1] = 0
      /\ \A i \in 1 .. Len(w) : y[i] = w[i]
  BY <1>1, ClosedIs
<1> HIDE DEF w, y
<1>3. Len(y) \in 1 .. Len(y) /\ Len(y) - 1 = Len(w)
  BY <1>1, <1>2
<1>4. FirstZero(y, Len(y))
  BY <1>1, <1>2, <1>3 DEF FirstZero
<1>5. b = w
  <2>1. b \in Seq(Byte) /\ Len(b) = Len(y) - 1 /\ \A i \in 1 .. Len(y) - 1 : b[i] = y[i]
    BY <1>2, <1>3, BeforeIs
  <2> HIDE DEF b
  <2> QED
    BY <1>1, <1>2, <1>3, <2>1, SeqEqual
<1> QED
  BY <1>1, <1>2, <1>3, <1>4, <1>5 DEF w, y, b

LEMMA DamagedShape ==
  ASSUME NEW y, Damaged(y)
  PROVE  /\ y \in Seq(Byte) /\ y # <<>> /\ (FirstZero(y, Len(y)) \/ TwoLeft(y, 1) \/ TwoLeft(y, 2))
         /\ FirstZero(y, Len(y)) => Len(y) - 1 <= N
<1>1. CASE OneLeft(y, 1)
  <2>1. y \in Seq(Byte) /\ FirstZero(y, Len(y)) /\ Len(y) - 1 <= N
    BY <1>1 DEF OneLeft, Rejected
  <2>2. y # <<>>
    BY <2>1, EmptySeq DEF FirstZero
  <2> QED
    BY <2>1, <2>2
<1>2. ASSUME NEW k \in {1, 2}, TwoLeft(y, k)
      PROVE  y \in Seq(Byte) /\ y # <<>> /\ (FirstZero(y, Len(y)) => Len(y) - 1 <= N)
  <2>1. PICK h \in 2 .. Len(y) : Rejected(y, h)
    BY <1>2 DEF TwoLeft
  <2>2. y \in Seq(Byte) /\ Len(y) \in Nat
    BY <1>2, ByteFacts DEF TwoLeft
  <2>3. y # <<>>
    BY <2>2, EmptySeq
  <2>4. FirstZero(y, Len(y)) => h = Len(y)
    BY <2>1, <2>2 DEF FirstZero, Rejected
  <2> QED
    BY <2>1, <2>2, <2>3, <2>4 DEF Rejected
<1> QED
  BY <1>1, <1>2 DEF Damaged

-----------------------------------------------------------------------------
(* One byte at the receiver. *)

NoZero(s) == s \in Seq(Byte) /\ \A i \in 1 .. Len(s) : s[i] # 0

\* What was collected, and what is still to come, of one piece.
Unheard == buf \o arriving

\* A byte moves from the second to the first, or ends a segment.
LEMMA ByteArrives ==
  ASSUME NEW a, NEW z, NoZero(a), z \in Seq(Byte), z # <<>>
  PROVE  LET y == a \o z
             b == Head(z)
             h == Len(a) + 1
         IN  /\ y \in Seq(Byte) /\ b \in Byte /\ Tail(z) \in Seq(Byte)
             /\ Len(a) \in Nat /\ h \in 1 .. Len(y) /\ y[h] = b
             /\ b # 0 => NoZero(Append(a, b)) /\ Append(a, b) \o Tail(z) = y
             /\ b = 0 => FirstZero(y, h) /\ Before(y, h) = a /\ Behind(y, h) = Tail(z)
<1> DEFINE y == a \o z
           b == Head(z)
           r == Tail(z)
           h == Len(a) + 1
<1>1. /\ a \in Seq(Byte) /\ (\A i \in 1 .. Len(a) : a[i] # 0) /\ Len(a) \in Nat
      /\ Len(z) \in Nat /\ Len(z) >= 1
  BY ByteFacts, EmptySeq DEF NoZero
<1>2. /\ y \in Seq(Byte) /\ Len(y) = Len(a) + Len(z)
      /\ \A i \in 1 .. Len(a) : y[i] = a[i]
      /\ \A i \in 1 .. Len(z) : y[Len(a) + i] = z[i]
  BY <1>1, ConcatBytes
<1>3. /\ b = z[1] /\ b \in Byte /\ r \in Seq(Byte) /\ Len(r) = Len(z) - 1
      /\ \A i \in 1 .. Len(r) : r[i] = z[i + 1]
  <2>1. b = z[1] /\ r \in Seq(Byte) /\ Len(r) = Len(z) - 1 /\ \A i \in 1 .. Len(r) : r[i] = z[i + 1]
    BY HeadTailProperties
  <2>2. z[1] \in Byte
    BY <1>1, ElementOfSeq
  <2> QED
    BY <2>1, <2>2
<1> HIDE DEF y, b, r
<1>4. h \in 1 .. Len(y) /\ y[h] = b
  BY <1>1, <1>2, <1>3
<1>5. ASSUME b # 0 PROVE NoZero(Append(a, b)) /\ Append(a, b) \o r = y
  <2> DEFINE c == Append(a, b)
             d == c \o r
  <2>1. /\ c \in Seq(Byte) /\ Len(c) = Len(a) + 1 /\ c[Len(a) + 1] = b
        /\ \A i \in 1 .. Len(a) : c[i] = a[i]
    BY <1>1, <1>3, AppendProperties
  <2> HIDE DEF c
  <2>2. NoZero(c)
    BY <1>1, <1>5, <2>1 DEF NoZero
  <2>3. /\ d \in Seq(Byte) /\ Len(d) = Len(c) + Len(r)
        /\ \A i \in 1 .. Len(c) : d[i] = c[i]
        /\ \A i \in 1 .. Len(r) : d[Len(c) + i] = r[i]
    <3>1. c \in Seq(Byte) /\ r \in Seq(Byte)
      BY <1>3, <2>1
    <3> QED
      BY <3>1, ConcatBytes
  <2> HIDE DEF d
  <2>4. Len(d) = Len(y) /\ Len(d) = Len(a) + Len(z) /\ Len(r) \in Nat /\ Len(c) = Len(a) + 1
    <3>1. Len(r) = Len(z) - 1 /\ Len(c) = Len(a) + 1 /\ Len(d) = Len(c) + Len(r)
          /\ Len(y) = Len(a) + Len(z)
      BY <1>2, <1>3, <2>1, <2>3
    <3> HIDE DEF h
    <3> QED
      BY <1>1, <3>1
  <2>5. ASSUME NEW i \in 1 .. Len(d) PROVE d[i] = y[i]
    <3>1. CASE i \in 1 .. Len(a)
      BY <1>1, <1>2, <2>1, <2>3, <3>1
    <3>2. CASE i = Len(a) + 1
      BY <1>1, <1>4, <2>1, <2>3, <3>2
    <3>3. CASE i > Len(a) + 1
      <4> DEFINE k == i - Len(c)
      <4>1. Len(r) = Len(z) - 1
        BY <1>3
      <4>2. k \in 1 .. Len(r) /\ i = Len(c) + k /\ k + 1 \in 1 .. Len(z) /\ i = Len(a) + (k + 1)
        BY <1>1, <2>4, <3>3, <4>1
      <4> HIDE DEF k
      <4>3. d[i] = r[k]
        BY <2>3, <4>2
      <4>4. y[i] = z[k + 1]
        BY <1>2, <4>2
      <4>5. r[k] = z[k + 1]
        BY <1>3, <4>2
      <4> QED
        BY <4>3, <4>4, <4>5
    <3>4. i \in 1 .. Len(a) \/ i = Len(a) + 1 \/ i > Len(a) + 1
      BY <1>1, <2>4
    <3> QED
      BY <3>1, <3>2, <3>3, <3>4
  <2>6. d = y
    BY <1>2, <2>3, <2>4, <2>5, SeqEqual
  <2> QED
    BY <2>2, <2>6 DEF c, d
<1>6. ASSUME b = 0 PROVE FirstZero(y, h) /\ Before(y, h) = a /\ Behind(y, h) = r
  <2> DEFINE c == Before(y, h)
             d == Behind(y, h)
  <2>1. FirstZero(y, h)
    <3>1. \A i \in 1 .. h - 1 : i \in 1 .. Len(a)
      BY <1>1
    <3> QED
      BY <1>1, <1>2, <1>4, <1>6, <3>1 DEF FirstZero
  <2>2. c \in Seq(Byte) /\ Len(c) = h - 1 /\ \A i \in 1 .. h - 1 : c[i] = y[i]
    BY <1>2, <1>4, BeforeIs
  <2>3. d \in Seq(Byte) /\ Len(d) = Len(y) - h /\ \A i \in 1 .. Len(y) - h : d[i] = y[h + i]
    BY <1>2, <1>4, BehindIs
  <2> HIDE DEF c, d
  <2>4. Len(c) = Len(a) /\ \A i \in 1 .. Len(c) : c[i] = a[i]
    BY <1>1, <1>2, <2>2
  <2>5. c = a
    BY <1>1, <2>2, <2>4, SeqEqual
  <2>6. Len(d) = Len(r)
    BY <1>1, <1>2, <1>3, <2>3
  <2>7. ASSUME NEW i \in 1 .. Len(d) PROVE d[i] = r[i]
    <3>1. i \in 1 .. Len(y) - h /\ i \in 1 .. Len(r) /\ i + 1 \in 1 .. Len(z)
          /\ h + i = Len(a) + (i + 1)
      BY <1>1, <1>2, <1>3, <2>3, <2>6
    <3> QED
      BY <1>2, <1>3, <2>3, <3>1
  <2>8. d = r
    BY <1>3, <2>3, <2>6, <2>7, SeqEqual
  <2> QED
    BY <2>1, <2>5, <2>8 DEF c, d
<1> QED
  BY <1>1, <1>2, <1>3, <1>4, <1>5, <1>6 DEF y, b, r

\* The framer, collecting, with a segment that fits the buffer.
LEMMA FeedResult ==
  ASSUME state = "Collecting", Len(buf) \in Nat, NEW b \in Byte, Feed(b), b # 0 => Len(buf) < N
  PROVE  /\ state' = "Collecting"
         /\ b # 0 => buf' = Append(buf, b) /\ out' = Incomplete
         /\ b = 0 => /\ buf' = <<>>
                     /\ out' = IF buf = <<>> THEN Incomplete ELSE Process(buf)
<1>1. b # 0 => ~Full
  BY FramerAssumption DEF Full
<1> QED
  BY <1>1 DEF Feed, Discard, Resync, Push, PushFails, SkipDelimiter, EndOfFrame

\* What the validator and the counters make of it.
LEMMA JudgeNothing ==
  ASSUME Judge(Incomplete)
  PROVE  UNCHANGED <<last_seq, stats, accepted>>
  BY DEF Judge, Incomplete

LEMMA JudgeRejected ==
  ASSUME NEW a, ~Passes(a), Judge(Process(a))
  PROVE  stats' = CountError /\ UNCHANGED <<last_seq, accepted>>
<1> DEFINE answer == Process(a)
           frame == Seen(answer.frame)
<1>1. answer.kind \in {"CobsError", "ParseError", "Complete"}
  BY DEF Process, Parse, CobsError, ParseError, Complete
<1>2. answer.kind = "Complete" => ~CrcOk(answer.frame)
  BY DEF Passes
<1>3. Judge(answer)
  OBVIOUS
<1> HIDE DEF answer
<1>4. CASE answer.kind = "Complete"
  <2>1. ~frame.crc_ok
    BY <1>2, <1>4 DEF Seen
  <2> HIDE DEF frame
  <2>2. V!Check(last_seq, frame) = "Crc"
    BY <2>1 DEF V!Check
  <2>3. V!LastSeqAfter(last_seq, frame) = last_seq
    BY <2>2 DEF V!LastSeqAfter
  <2> QED
    BY <1>3, <1>4, <2>2, <2>3 DEF Judge, frame
<1>5. CASE answer.kind # "Complete"
  BY <1>1, <1>3, <1>5 DEF Judge
<1> QED
  BY <1>4, <1>5

\* wrapping_add(1)
Succ(n) == (n + 1) % (MaxByte + 1)

LEMMA JudgeGood ==
  ASSUME NEW s \in Byte, NEW p \in Payloads, Judge(Complete(NewFrame(s, p)))
  PROVE  /\ last_seq' = s
         /\ IF last_seq = None \/ s = Succ(last_seq)
            THEN stats' = [stats EXCEPT !.ok = @ + 1] /\ accepted' = Append(accepted, from)
            ELSE stats' = [stats EXCEPT !.seq_gap = @ + 1] /\ accepted' = accepted
<1> DEFINE answer == Complete(NewFrame(s, p))
           frame == Seen(answer.frame)
<1>1. answer.kind = "Complete" /\ answer.frame = NewFrame(s, p)
  BY DEF Complete
<1>2. frame.crc_ok /\ frame.sequence = s /\ frame.packet_type = 1 /\ frame.severity = 0
  BY <1>1, NewFrameIs DEF Seen
<1>3. Judge(answer)
  OBVIOUS
<1> HIDE DEF answer
<1>4. /\ last_seq' = V!LastSeqAfter(last_seq, frame)
      /\ \/ /\ V!Check(last_seq, frame) = "Accepted"
            /\ stats' = [stats EXCEPT !.ok = @ + 1]
            /\ accepted' = Append(accepted, from)
         \/ /\ V!Check(last_seq, frame) = "SequenceGap"
            /\ stats' = [stats EXCEPT !.seq_gap = @ + 1]
            /\ UNCHANGED accepted
         \/ /\ V!Check(last_seq, frame) = "Crc"
            /\ stats' = CountError
            /\ UNCHANGED accepted
  BY <1>1, <1>3 DEF Judge
<1> HIDE DEF frame
<1>5. V!Check(last_seq, frame) =
        IF last_seq = None \/ s = Succ(last_seq) THEN "Accepted" ELSE "SequenceGap"
  BY <1>2 DEF V!Check, V!KnownKind, V!InSequence, V!Successor, Succ
<1>6. V!LastSeqAfter(last_seq, frame) = s
  BY <1>2, <1>5 DEF V!LastSeqAfter
<1> QED
  BY <1>4, <1>5, <1>6

\* The first zero of a piece is where the receiver comes upon it.
LEMMA ZeroArrives ==
  ASSUME NEW a, NEW z, NoZero(a), z \in Seq(Byte), z # <<>>, NEW h, FirstZero(a \o z, h)
  PROVE  /\ Head(z) # 0 => Len(a) + 2 <= h /\ Tail(z) # <<>>
         /\ Head(z) = 0 => h = Len(a) + 1
<1> DEFINE y == a \o z
           b == Head(z)
           r == Tail(z)
           k == Len(a) + 1
<1>1. /\ Len(a) \in Nat /\ y[k] = b /\ k \in 1 .. Len(y)
      /\ y \in Seq(Byte) /\ r \in Seq(Byte) /\ (b = 0 => FirstZero(y, k))
  BY ByteArrives
<1>2. /\ a \in Seq(Byte) /\ Len(y) = Len(a) + Len(z) /\ Len(z) \in Nat
      /\ \A i \in 1 .. Len(a) : y[i] = a[i] /\ a[i] # 0
  BY ConcatBytes, ByteFacts DEF NoZero
<1>3. Len(r) = Len(z) - 1
  BY HeadTailProperties
<1>4. h \in 1 .. Len(y) /\ y[h] = 0 /\ \A i \in 1 .. h - 1 : y[i] # 0
  BY DEF FirstZero
<1> HIDE DEF y, b, r, k
<1>5. k = Len(a) + 1
  BY DEF k
<1>6. h \notin 1 .. Len(a)
  BY <1>2, <1>4
<1>7. h >= k
  BY <1>1, <1>2, <1>4, <1>5, <1>6
<1>8. ASSUME b # 0 PROVE Len(a) + 2 <= h /\ r # <<>>
  <2>1. h # k
    BY <1>1, <1>4, <1>8
  <2>2. Len(a) + 2 <= h
    BY <1>1, <1>2, <1>4, <1>5, <1>7, <2>1
  <2>3. Len(r) # 0
    <3>1. h \in Nat /\ h \in 1 .. Len(a) + Len(z)
      BY <1>2, <1>4
    <3>2. \A p, q, g \in Nat : p + 2 <= g /\ g \in 1 .. p + q => q - 1 # 0
      OBVIOUS
    <3>3. Len(z) - 1 # 0
      BY <1>1, <1>2, <2>2, <3>1, <3>2
    <3> QED
      BY <1>3, <3>3
  <2>4. r # <<>>
    BY <2>3
  <2> QED
    BY <2>2, <2>4
<1>9. ASSUME b = 0 PROVE h = Len(a) + 1
  <2>1. ~(k \in 1 .. h - 1)
    BY <1>1, <1>4, <1>9
  <2> QED
    BY <1>1, <1>2, <1>4, <1>5, <1>7, <2>1
<1> QED
  BY <1>8, <1>9 DEF b, r

-----------------------------------------------------------------------------
(* The invariant: what was sent, and what was heard of it. *)

GenTyped ==
  /\ seq \in Byte /\ turn \in Nat
  /\ gen \in {"running", "done", "failed"} /\ sink \in {"stream", "udp"}
  /\ gstats \in [valid : Nat, bad_crc : Nat, truncated : Nat, seq_gap : Nat, burst_extra : Nat]
  /\ wire \in Seq(Piece) /\ outbox \in Seq(Piece)

ReceiverTyped ==
  /\ arriving \in Seq(Byte) /\ from \in Nat /\ last_seq \in Byte \cup {None}
  /\ stats \in [ok : Nat, crc_fail : Nat, seq_gap : Nat] /\ accepted \in Seq(Nat)
  /\ channel \in [intact : Nat, damaged : Nat, lost : Nat, repeated : Nat, overtook : Nat]
  /\ NoZero(buf) /\ state = "Collecting"

\* A piece holds the frame with the number of its turn, or what damage left.
Sound(q, num) ==
  /\ q.made_in <= turn
  /\ IF q.intact THEN \E p \in Payloads : q.bytes = Encoded(num[q.made_in], p)
     ELSE Damaged(q.bytes)

\* Only the last piece of a stream that broke off is not closed.
Torn(k) ==
  /\ k = Len(wire) /\ ~wire[k].intact /\ Severed(wire[k].bytes) /\ wire[k].made_in <= turn
  /\ sink = "stream" /\ gen = "failed"

Sent(num) ==
  /\ num \in [Nat -> Byte]
  /\ \A k \in 1 .. Len(outbox) : Sound(outbox[k], num)
  /\ \A k \in 1 .. Len(wire) : Sound(wire[k], num) \/ Torn(k)
  /\ gen # "running" => outbox = <<>>

\* Every damaged frame but `open` is counted once or twice, when the next n
\* verdicts are.
Counted(open, n) ==
  /\ channel.damaged - open <= stats.crc_fail + n
  /\ stats.crc_fail + n <= 2 * channel.damaged

Settled == stats.ok + stats.seq_gap = channel.intact

\* Between two pieces; within a frame; within a damaged one; at the end of a
\* stream that broke off.
Idle == arriving = <<>> /\ buf = <<>> /\ Settled /\ Counted(0, 0)

GoodDue(num) ==
  /\ arriving # <<>> /\ stats.ok + stats.seq_gap + 1 = channel.intact /\ Counted(0, 0)
  /\ \E p \in Payloads : Unheard = Encoded(num[from], p)

BadDue ==
  /\ arriving # <<>> /\ Settled
  /\ \E n \in 0 .. 2 : (OneLeft(Unheard, n) \/ TwoLeft(Unheard, n)) /\ Counted(0, n)

BrokenOff ==
  /\ wire = <<>> /\ gen = "failed" /\ Settled
  /\ \/ Unclosed(Unheard) /\ Counted(IF Unheard = <<>> THEN 0 ELSE 1, 0)
     \/ Half(Unheard) /\ Counted(0, 1)

Heard(num) == from <= turn /\ (Idle \/ GoodDue(num) \/ BadDue \/ BrokenOff)

LinkInv(num) == GenTyped /\ ReceiverTyped /\ Sent(num) /\ Heard(num)

\* LinkInv settles what becomes of a frame.
LEMMA LinkInvGives ==
  ASSUME NEW num, LinkInv(num)
  PROVE  FramesJudged
<1>1. ASSUME arriving = <<>> PROVE Settled /\ Counted(IF buf = <<>> THEN 0 ELSE 1, 0)
  <2>1. Unheard = buf /\ buf \in Seq(Byte)
    BY <1>1, ConcatEmptySeq DEF Unheard, LinkInv, ReceiverTyped, NoZero
  <2>2. ~GoodDue(num) /\ ~BadDue
    BY <1>1 DEF GoodDue, BadDue
  <2>3. ~Half(buf)
    BY DEF Half, Rejected, FirstZero, LinkInv, ReceiverTyped, NoZero
  <2>4. CASE Idle
    BY <2>4 DEF Idle
  <2>5. CASE BrokenOff
    BY <2>1, <2>3, <2>5 DEF BrokenOff
  <2> QED
    BY <2>2, <2>4, <2>5 DEF LinkInv, Heard
<1>2. channel.damaged \in Nat /\ stats.crc_fail \in Nat
  BY DEF LinkInv, ReceiverTyped
<1> QED
  BY <1>1, <1>2 DEF FramesJudged, IntactAccounted, DamageCounted, Settled, Counted

-----------------------------------------------------------------------------
(* A byte is received. *)

\* The verdict that may be due is none, or one on a segment that was rejected,
\* or one on a frame with a good CRC.
ReceivedByte(b) ==
  /\ b # 0 => /\ NoZero(buf') /\ Unheard' = Unheard
              /\ UNCHANGED <<last_seq, stats, accepted>>
  /\ b = 0 => /\ buf' = <<>> /\ Unheard' = arriving'
              /\ buf = <<>> => UNCHANGED <<last_seq, stats, accepted>>
              /\ buf # <<>> => Judge(Process(buf))

LEMMA ReceiveIs ==
  ASSUME ReceiverTyped, Receive, Head(arriving) # 0 => Len(buf) < N
  PROVE  /\ arriving # <<>> /\ arriving' = Tail(arriving) /\ arriving' \in Seq(Byte)
         /\ NoZero(buf') /\ state' = "Collecting"
         /\ ReceivedByte(Head(arriving)) /\ UNCHANGED <<gvars, from, channel>>
<1> DEFINE b == Head(arriving)
<1>1. /\ arriving # <<>> /\ arriving \in Seq(Byte) /\ NoZero(buf) /\ state = "Collecting"
      /\ Feed(b) /\ Judge(out') /\ arriving' = Tail(arriving)
      /\ UNCHANGED <<gvars, from, channel>>
  BY DEF ReceiverTyped, Receive
<1>2. /\ b \in Byte /\ Tail(arriving) \in Seq(Byte) /\ Len(buf) \in Nat
      /\ b # 0 => NoZero(Append(buf, b)) /\ Append(buf, b) \o Tail(arriving) = buf \o arriving
  BY <1>1, ByteArrives
<1>3. b # 0 => Len(buf) < N
  OBVIOUS
<1> HIDE DEF b
<1>4. /\ state' = "Collecting"
      /\ b # 0 => buf' = Append(buf, b) /\ out' = Incomplete
      /\ b = 0 => buf' = <<>> /\ out' = IF buf = <<>> THEN Incomplete ELSE Process(buf)
  BY <1>1, <1>2, <1>3, FeedResult
<1>5. NoZero(<<>>)
  BY DEF NoZero
<1>6. CASE b # 0
  <2>1. Judge(Incomplete)
    BY <1>1, <1>4, <1>6
  <2>2. UNCHANGED <<last_seq, stats, accepted>>
    BY <2>1, JudgeNothing
  <2>3. NoZero(buf') /\ buf' \o arriving' = buf \o arriving
    BY <1>1, <1>2, <1>4, <1>6
  <2>4. ReceivedByte(b)
    BY <1>6, <2>2, <2>3 DEF ReceivedByte, Unheard
  <2> QED
    BY <1>1, <1>2, <1>4, <2>3, <2>4 DEF b
<1>7. CASE b = 0
  <2>1. buf' = <<>> /\ NoZero(buf')
    BY <1>4, <1>5, <1>7
  <2>2. Unheard' = arriving'
    <3>1. <<>> \o arriving' = arriving'
      BY <1>1, <1>2, ConcatEmptySeq
    <3> QED
      BY <2>1, <3>1 DEF Unheard
  <2>3. buf = <<>> => UNCHANGED <<last_seq, stats, accepted>>
    BY <1>1, <1>4, <1>7, JudgeNothing
  <2>4. buf # <<>> => Judge(Process(buf))
    BY <1>1, <1>4, <1>7
  <2>5. ReceivedByte(b)
    BY <1>7, <2>1, <2>2, <2>3, <2>4 DEF ReceivedByte
  <2> QED
    BY <1>1, <1>2, <1>4, <2>1, <2>5 DEF b
<1> QED
  BY <1>6, <1>7

\* The bytes of a piece under reception, while it has a zero ahead.
LEMMA ZeroAhead ==
  ASSUME ReceiverTyped, arriving # <<>>, NEW h, FirstZero(Unheard, h), h - 1 <= N
  PROVE  /\ Unheard \in Seq(Byte) /\ Len(Unheard) \in Nat /\ h \in 1 .. Len(Unheard)
         /\ Head(arriving) # 0 => Len(buf) < N /\ Tail(arriving) # <<>>
         /\ Head(arriving) = 0 => /\ h = Len(buf) + 1 /\ Before(Unheard, h) = buf
                                  /\ Behind(Unheard, h) = Tail(arriving)
<1>1. NoZero(buf) /\ arriving \in Seq(Byte)
  BY DEF ReceiverTyped
<1>2. /\ Head(arriving) # 0 => Len(buf) + 2 <= h /\ Tail(arriving) # <<>>
      /\ Head(arriving) = 0 => h = Len(buf) + 1
  BY <1>1, ZeroArrives DEF Unheard
<1>3. /\ Unheard \in Seq(Byte) /\ Len(buf) \in Nat
      /\ Head(arriving) = 0 => /\ Before(Unheard, Len(buf) + 1) = buf
                               /\ Behind(Unheard, Len(buf) + 1) = Tail(arriving)
  BY <1>1, ByteArrives DEF Unheard
<1>4. Len(Unheard) \in Nat
  BY <1>3, ByteFacts
<1>5. h \in 1 .. Len(Unheard)
  BY DEF FirstZero
<1>6. Head(arriving) # 0 => Len(buf) < N
  BY <1>2, <1>3, <1>4, <1>5, FramerAssumption
<1> QED
  BY <1>2, <1>3, <1>4, <1>5, <1>6

\* Nothing is behind the last byte.
LEMMA BehindLast ==
  ASSUME NEW y \in Seq(Byte), FirstZero(y, Len(y))
  PROVE  Behind(y, Len(y)) = <<>>
<1>1. Len(y) \in 1 .. Len(y) /\ Len(y) \in Nat
  BY ByteFacts DEF FirstZero
<1>2. Behind(y, Len(y)) \in Seq(Byte) /\ Len(Behind(y, Len(y))) = Len(y) - Len(y)
  BY <1>1, BehindIs
<1> QED
  BY <1>1, <1>2, EmptySeq

\* An error is counted, or nothing.
Counts(n) ==
  /\ stats' = IF n = 0 THEN stats ELSE CountError
  /\ UNCHANGED <<last_seq, accepted>>

\* The receiver goes on in a segment that will be rejected, or rejects it.
LEMMA RejectedReceives ==
  ASSUME ReceiverTyped, Receive, NEW h, Rejected(Unheard, h)
  PROVE  /\ ReceiverTyped' /\ UNCHANGED <<gvars, from, channel>>
         /\ \/ Unheard' = Unheard /\ arriving' # <<>> /\ Counts(0)
            \/ /\ Unheard' = Behind(Unheard, h) /\ arriving' = Behind(Unheard, h)
               /\ buf' = <<>> /\ Counts(h - 1)
<1> DEFINE b == Head(arriving)
<1>1. FirstZero(Unheard, h) /\ h - 1 <= N /\ ~Passes(Before(Unheard, h)) /\ arriving # <<>>
  BY DEF Rejected, Receive
<1>2. /\ b # 0 => Len(buf) < N /\ Tail(arriving) # <<>>
      /\ b = 0 => /\ h = Len(buf) + 1 /\ Before(Unheard, h) = buf
                  /\ Behind(Unheard, h) = Tail(arriving)
  BY <1>1, ZeroAhead
<1>3. /\ arriving' = Tail(arriving) /\ arriving' \in Seq(Byte)
      /\ NoZero(buf') /\ state' = "Collecting"
      /\ ReceivedByte(b) /\ UNCHANGED <<gvars, from, channel>>
  BY <1>2, ReceiveIs
<1>4. stats \in [ok : Nat, crc_fail : Nat, seq_gap : Nat] => CountError \in [ok : Nat, crc_fail : Nat, seq_gap : Nat]
  BY DEF CountError
<1>5. ASSUME NEW n, Counts(n)
      PROVE  ReceiverTyped'
  <2>1. stats' \in [ok : Nat, crc_fail : Nat, seq_gap : Nat]
    BY <1>4, <1>5 DEF Counts, ReceiverTyped
  <2> QED
    BY <1>3, <1>5, <2>1 DEF ReceiverTyped, Counts
<1> HIDE DEF b
<1>6. CASE b # 0
  <2>1. Counts(0) /\ Unheard' = Unheard
    BY <1>3, <1>6 DEF ReceivedByte, Counts
  <2> QED
    BY <1>2, <1>3, <1>5, <1>6, <2>1
<1>7. CASE b = 0
  <2>1. h - 1 = Len(buf) /\ (h - 1 = 0 <=> buf = <<>>)
    <3>1. buf \in Seq(Byte) /\ Len(buf) \in Nat
      BY ByteFacts DEF ReceiverTyped, NoZero
    <3> QED
      BY <1>2, <1>7, <3>1, EmptySeq
  <2>2. Counts(h - 1)
    <3>1. CASE buf = <<>>
      BY <1>3, <1>7, <2>1, <3>1 DEF ReceivedByte, Counts
    <3>2. CASE buf # <<>>
      <4>1. ~Passes(buf) /\ Judge(Process(buf))
        BY <1>1, <1>2, <1>3, <1>7, <3>2 DEF ReceivedByte
      <4>2. stats' = CountError /\ UNCHANGED <<last_seq, accepted>>
        BY <4>1, JudgeRejected
      <4> QED
        BY <2>1, <3>2, <4>2 DEF Counts
    <3> QED
      BY <3>1, <3>2
  <2>3. Unheard' = Behind(Unheard, h) /\ arriving' = Behind(Unheard, h) /\ buf' = <<>>
    BY <1>2, <1>3, <1>7 DEF ReceivedByte
  <2> QED
    BY <1>3, <1>5, <2>2, <2>3
<1> QED
  BY <1>6, <1>7

\* What counting does to the counters.
LEMMA CountsIs ==
  ASSUME ReceiverTyped, NEW n, Counts(n)
  PROVE  /\ stats'.ok = stats.ok /\ stats'.seq_gap = stats.seq_gap
         /\ stats'.crc_fail = stats.crc_fail + IF n = 0 THEN 0 ELSE 1
<1>1. stats \in [ok : Nat, crc_fail : Nat, seq_gap : Nat]
  BY DEF ReceiverTyped
<1> QED
  BY <1>1 DEF Counts, CountError

\* Nothing changes for the sequence check.
Passing == UNCHANGED <<last_seq, accepted>> /\ stats'.ok = stats.ok /\ stats'.seq_gap = stats.seq_gap

\* The sequence check on the frame of turn `from`.
Completed(num) ==
  /\ last_seq' = num[from]
  /\ IF last_seq = None \/ num[from] = Succ(last_seq)
     THEN stats' = [stats EXCEPT !.ok = @ + 1] /\ accepted' = Append(accepted, from)
     ELSE stats' = [stats EXCEPT !.seq_gap = @ + 1] /\ accepted' = accepted

\* The rest of a frame is received.
LEMMA GoodReceives ==
  ASSUME Conditions, ReceiverTyped, Receive, NEW num \in [Nat -> Byte], GoodDue(num)
  PROVE  /\ ReceiverTyped' /\ UNCHANGED <<gvars, from, channel>>
         /\ \/ GoodDue(num)' /\ Passing
            \/ Idle' /\ Completed(num)
<1> DEFINE b == Head(arriving)
           s == num[from]
<1>1. PICK p \in Payloads : Unheard = Encoded(s, p)
  BY DEF GoodDue
<1>2. s \in Byte /\ arriving # <<>>
  BY DEF ReceiverTyped, GoodDue
<1>3. /\ Unheard \in Seq(Byte) /\ FirstZero(Unheard, Len(Unheard)) /\ Len(Unheard) - 1 <= N
      /\ Before(Unheard, Len(Unheard)) = Body(s, p)
  BY <1>1, <1>2, EncodedShape
<1>4. /\ b # 0 => Len(buf) < N /\ Tail(arriving) # <<>>
      /\ b = 0 => Body(s, p) = buf /\ Behind(Unheard, Len(Unheard)) = Tail(arriving)
  BY <1>2, <1>3, ZeroAhead
<1>5. /\ arriving' = Tail(arriving) /\ arriving' \in Seq(Byte)
      /\ NoZero(buf') /\ state' = "Collecting"
      /\ ReceivedByte(b) /\ UNCHANGED <<gvars, from, channel>>
  BY <1>4, ReceiveIs
<1>6. stats \in [ok : Nat, crc_fail : Nat, seq_gap : Nat] /\ channel'=channel /\ from' = from
      /\ stats.ok + stats.seq_gap + 1 = channel.intact /\ Counted(0, 0)
  BY <1>5 DEF ReceiverTyped, GoodDue
<1> HIDE DEF b
<1>7. CASE b # 0
  <2>1. UNCHANGED <<last_seq, stats, accepted>> /\ Unheard' = Unheard /\ arriving' # <<>>
    BY <1>4, <1>5, <1>7 DEF ReceivedByte
  <2>2. ReceiverTyped'
    BY <1>5, <2>1 DEF ReceiverTyped
  <2>3. GoodDue(num)'
    <3>1. GoodDue(num)
      OBVIOUS
    <3> QED
      BY <1>6, <2>1, <3>1 DEF GoodDue, Counted
  <2>4. Passing
    BY <2>1 DEF Passing
  <2> QED
    BY <1>5, <2>2, <2>3, <2>4
<1>8. CASE b = 0
  <2>1. buf # <<>> /\ Process(buf) = Complete(NewFrame(s, p))
    BY <1>2, <1>4, <1>8, BodyIs
  <2>2. Judge(Complete(NewFrame(s, p)))
    BY <1>5, <1>8, <2>1 DEF ReceivedByte
  <2>3. Completed(num)
    BY <1>2, <2>2, JudgeGood DEF Completed
  <2>4. buf' = <<>> /\ arriving' = <<>>
    <3>1. Behind(Unheard, Len(Unheard)) = <<>>
      BY <1>3, BehindLast
    <3>2. arriving' = Behind(Unheard, Len(Unheard))
      BY <1>4, <1>5, <1>8
    <3>3. buf' = <<>>
      BY <1>5, <1>8 DEF ReceivedByte
    <3> QED
      BY <3>1, <3>2, <3>3
  <2>5. ReceiverTyped'
    <3>1. stats' \in [ok : Nat, crc_fail : Nat, seq_gap : Nat]
      <4>1. stats \in [ok : Nat, crc_fail : Nat, seq_gap : Nat]
        BY <1>6
      <4>2. /\ [stats EXCEPT !.ok = @ + 1] \in [ok : Nat, crc_fail : Nat, seq_gap : Nat]
            /\ [stats EXCEPT !.seq_gap = @ + 1] \in [ok : Nat, crc_fail : Nat, seq_gap : Nat]
        BY <4>1
      <4>3. \/ stats' = [stats EXCEPT !.ok = @ + 1]
            \/ stats' = [stats EXCEPT !.seq_gap = @ + 1]
        BY <2>3, Zenon DEF Completed
      <4> QED
        BY <4>2, <4>3, Zenon
    <3>2. accepted' \in Seq(Nat)
      <4>1. accepted \in Seq(Nat) /\ from \in Nat
        BY DEF ReceiverTyped
      <4>2. Append(accepted, from) \in Seq(Nat)
        BY <4>1, AppendProperties
      <4> QED
        BY <2>3, <4>1, <4>2 DEF Completed
    <3>3. last_seq' \in Byte \cup {None}
      BY <1>2, <2>3 DEF Completed
    <3> QED
      BY <1>5, <3>1, <3>2, <3>3 DEF ReceiverTyped
  <2>6. stats'.ok + stats'.seq_gap = stats.ok + stats.seq_gap + 1 /\ stats'.crc_fail = stats.crc_fail
    BY <1>6, <2>3 DEF Completed
  <2>7. Idle'
    BY <1>6, <2>4, <2>6 DEF Idle, Settled, Counted
  <2> QED
    BY <1>5, <2>3, <2>5, <2>7
<1> QED
  BY <1>7, <1>8

\* The rest of a damaged frame is received.
LEMMA BadReceives ==
  ASSUME ReceiverTyped, Receive, BadDue
  PROVE  /\ ReceiverTyped' /\ UNCHANGED <<gvars, from, channel>>
         /\ BadDue' \/ Idle'
         /\ Passing
<1>1. PICK n \in 0 .. 2 : (OneLeft(Unheard, n) \/ TwoLeft(Unheard, n)) /\ Counted(0, n)
  BY DEF BadDue
<1>2. arriving # <<>> /\ Settled
  BY DEF BadDue
<1>3. /\ stats \in [ok : Nat, crc_fail : Nat, seq_gap : Nat] /\ channel.damaged \in Nat
      /\ stats.crc_fail \in Nat
  BY DEF ReceiverTyped
<1>4. CASE OneLeft(Unheard, n)
  <2> DEFINE h == Len(Unheard)
  <2>1. Rejected(Unheard, h) /\ n = (IF h = 1 THEN 0 ELSE 1) /\ Unheard \in Seq(Byte)
        /\ FirstZero(Unheard, h) /\ h \in Nat
    BY <1>4, ByteFacts DEF OneLeft, Rejected
  <2>2. /\ ReceiverTyped' /\ UNCHANGED <<gvars, from, channel>>
        /\ \/ Unheard' = Unheard /\ arriving' # <<>> /\ Counts(0)
           \/ /\ Unheard' = Behind(Unheard, h) /\ arriving' = Behind(Unheard, h)
              /\ buf' = <<>> /\ Counts(h - 1)
    BY <2>1, RejectedReceives
  <2>3. Behind(Unheard, h) = <<>>
    BY <2>1, BehindLast
  <2> HIDE DEF h
  <2>4. CASE Unheard' = Unheard /\ arriving' # <<>> /\ Counts(0)
    <3>1. Passing /\ stats'.crc_fail = stats.crc_fail
      BY <1>3, <2>4, CountsIs DEF Passing, Counts
    <3>2. Settled' /\ Counted(0, n)'
      BY <1>1, <1>2, <2>2, <3>1 DEF Settled, Counted, Passing
    <3>3. OneLeft(Unheard, n)'
      BY <1>4, <2>4
    <3> QED
      BY <2>2, <2>4, <3>1, <3>2, <3>3 DEF BadDue
  <2>5. CASE arriving' = Behind(Unheard, h) /\ buf' = <<>> /\ Counts(h - 1)
    <3>1. Passing /\ stats'.crc_fail = stats.crc_fail + n
      <4>1. n = IF h - 1 = 0 THEN 0 ELSE 1
        BY <2>1
      <4> QED
        BY <1>3, <2>5, <4>1, CountsIs DEF Passing, Counts
    <3>2. Settled' /\ Counted(0, 0)'
      <4>1. stats'.crc_fail + 0 = stats.crc_fail + n /\ channel' = channel
        BY <1>3, <2>2, <3>1
      <4> QED
        BY <1>1, <1>2, <2>2, <3>1, <4>1 DEF Settled, Counted, Passing
    <3> QED
      BY <2>2, <2>3, <2>5, <3>1, <3>2 DEF Idle
  <2> QED
    BY <2>2, <2>4, <2>5
<1>5. CASE TwoLeft(Unheard, n)
  <2>1. PICK h \in 2 .. Len(Unheard) : Rejected(Unheard, h) /\ OneLeft(Behind(Unheard, h), n - 1)
    BY <1>5 DEF TwoLeft
  <2>2. /\ ReceiverTyped' /\ UNCHANGED <<gvars, from, channel>>
        /\ \/ Unheard' = Unheard /\ arriving' # <<>> /\ Counts(0)
           \/ /\ Unheard' = Behind(Unheard, h) /\ arriving' = Behind(Unheard, h)
              /\ buf' = <<>> /\ Counts(h - 1)
    BY <2>1, RejectedReceives
  <2>3. CASE Unheard' = Unheard /\ arriving' # <<>> /\ Counts(0)
    <3>1. Passing /\ stats'.crc_fail = stats.crc_fail
      BY <1>3, <2>3, CountsIs DEF Passing, Counts
    <3>2. Settled' /\ Counted(0, n)'
      BY <1>1, <1>2, <2>2, <3>1 DEF Settled, Counted, Passing
    <3>3. TwoLeft(Unheard, n)'
      BY <1>5, <2>3
    <3> QED
      BY <2>2, <2>3, <3>1, <3>2, <3>3 DEF BadDue
  <2>4. CASE /\ Unheard' = Behind(Unheard, h) /\ arriving' = Behind(Unheard, h)
             /\ buf' = <<>> /\ Counts(h - 1)
    <3>1. h \in Nat /\ h - 1 # 0
      <4>1. Len(Unheard) \in Nat
        BY <1>5, ByteFacts DEF TwoLeft
      <4> QED
        BY <2>1, <4>1
    <3>2. Passing /\ stats'.crc_fail = stats.crc_fail + 1
      BY <1>3, <2>4, <3>1, CountsIs DEF Passing, Counts
    <3>3. n - 1 \in 0 .. 1
      BY <2>1 DEF OneLeft
    <3>4. Settled' /\ Counted(0, n - 1)'
      <4>1. stats'.crc_fail + (n - 1) = stats.crc_fail + n /\ channel' = channel
        BY <1>3, <2>2, <3>2
      <4> QED
        BY <1>1, <1>2, <2>2, <3>2, <4>1 DEF Settled, Counted, Passing
    <3>5. OneLeft(Unheard, n - 1)'
      BY <2>1, <2>4
    <3>6. arriving' # <<>>
      BY <2>1, <2>4 DEF OneLeft, Rejected, FirstZero
    <3>7. BadDue'
      BY <3>3, <3>4, <3>5, <3>6 DEF BadDue
    <3> QED
      BY <2>2, <3>2, <3>7
  <2> QED
    BY <2>2, <2>3, <2>4
<1> QED
  BY <1>1, <1>4, <1>5

\* What is left of a stream that broke off is received.
LEMMA BrokenReceives ==
  ASSUME ReceiverTyped, Receive, BrokenOff
  PROVE  /\ ReceiverTyped' /\ UNCHANGED <<gvars, from, channel>>
         /\ BrokenOff' /\ Passing
<1>1. /\ stats \in [ok : Nat, crc_fail : Nat, seq_gap : Nat] /\ channel.damaged \in Nat
      /\ stats.crc_fail \in Nat /\ Settled /\ wire = <<>> /\ gen = "failed"
  BY DEF ReceiverTyped, BrokenOff
<1>2. CASE Unclosed(Unheard) /\ Counted(IF Unheard = <<>> THEN 0 ELSE 1, 0)
  <2> DEFINE b == Head(arriving)
  <2>1. arriving # <<>> /\ arriving \in Seq(Byte) /\ NoZero(buf)
    BY DEF Receive, ReceiverTyped
  <2>2. /\ Len(buf) \in Nat /\ Len(buf) + 1 \in 1 .. Len(Unheard)
        /\ Unheard[Len(buf) + 1] = b
    BY <2>1, ByteArrives DEF Unheard
  <2>3. b # 0 /\ Len(buf) < N
    <3>1. Len(Unheard) \in Nat /\ Len(Unheard) <= N /\ \A i \in 1 .. Len(Unheard) : Unheard[i] # 0
      BY <1>2, ByteFacts DEF Unclosed
    <3> HIDE DEF b
    <3> QED
      BY <2>2, <3>1, FramerAssumption
  <2>4. /\ arriving' = Tail(arriving) /\ arriving' \in Seq(Byte)
        /\ NoZero(buf') /\ state' = "Collecting"
        /\ ReceivedByte(b) /\ UNCHANGED <<gvars, from, channel>>
    BY <2>3, ReceiveIs
  <2> HIDE DEF b
  <2>5. UNCHANGED <<last_seq, stats, accepted>> /\ Unheard' = Unheard
    BY <2>3, <2>4 DEF ReceivedByte
  <2>6. ReceiverTyped'
    BY <2>4, <2>5 DEF ReceiverTyped
  <2>7. BrokenOff' /\ Passing
    BY <1>1, <1>2, <2>4, <2>5 DEF BrokenOff, Passing, Settled, Counted, gvars
  <2> QED
    BY <2>4, <2>6, <2>7
<1>3. CASE Half(Unheard) /\ Counted(0, 1)
  <2>1. PICK h \in 2 .. Len(Unheard) : Rejected(Unheard, h) /\ Unclosed(Behind(Unheard, h))
    BY <1>3 DEF Half
  <2>2. /\ ReceiverTyped' /\ UNCHANGED <<gvars, from, channel>>
        /\ \/ Unheard' = Unheard /\ arriving' # <<>> /\ Counts(0)
           \/ /\ Unheard' = Behind(Unheard, h) /\ arriving' = Behind(Unheard, h)
              /\ buf' = <<>> /\ Counts(h - 1)
    BY <2>1, RejectedReceives
  <2>3. CASE Unheard' = Unheard /\ Counts(0)
    <3>1. Passing /\ stats'.crc_fail = stats.crc_fail
      BY <1>1, <2>3, CountsIs DEF Passing, Counts
    <3>2. BrokenOff'
      BY <1>1, <1>3, <2>2, <2>3, <3>1 DEF BrokenOff, Passing, Settled, Counted, gvars
    <3> QED
      BY <2>2, <3>1, <3>2
  <2>4. CASE Unheard' = Behind(Unheard, h) /\ Counts(h - 1)
    <3>1. h - 1 # 0
      <4>1. Len(Unheard) \in Nat
        BY <1>3, ByteFacts DEF Half
      <4> QED
        BY <2>1, <4>1
    <3>2. Passing /\ stats'.crc_fail = stats.crc_fail + 1
      <4>1. /\ stats'.ok = stats.ok /\ stats'.seq_gap = stats.seq_gap
            /\ stats'.crc_fail = stats.crc_fail + IF h - 1 = 0 THEN 0 ELSE 1
        BY <2>4, CountsIs
      <4>2. UNCHANGED <<last_seq, accepted>>
        BY <2>4 DEF Counts
      <4> QED
        BY <1>1, <3>1, <4>1, <4>2 DEF Passing
    <3>3. channel' = channel /\ wire' = wire /\ gen' = gen
      BY <2>2 DEF gvars
    <3>4. Counted(0, 0)' /\ Counted(1, 0)'
      BY <1>1, <1>3, <3>2, <3>3 DEF Counted
    <3>5. Settled'
      BY <1>1, <3>2, <3>3 DEF Settled, Passing
    <3>6. Unclosed(Unheard)'
      BY <2>1, <2>4 DEF Unclosed
    <3>7. BrokenOff'
      <4>1. CASE Unheard' = <<>>
        BY <1>1, <3>3, <3>4, <3>5, <3>6, <4>1 DEF BrokenOff
      <4>2. CASE Unheard' # <<>>
        BY <1>1, <3>3, <3>4, <3>5, <3>6, <4>2 DEF BrokenOff
      <4> QED
        BY <4>1, <4>2
    <3> QED
      BY <2>2, <3>2, <3>7
  <2> QED
    BY <2>2, <2>3, <2>4
<1> QED
  BY <1>2, <1>3 DEF BrokenOff

\* A byte is received.
LEMMA ReceiveKeeps ==
  ASSUME Conditions, NEW num, LinkInv(num), Receive
  PROVE  /\ LinkInv(num)' /\ UNCHANGED <<gvars, from, channel>>
         /\ \/ Passing /\ (GoodDue(num) <=> GoodDue(num)')
            \/ GoodDue(num) /\ ~GoodDue(num)' /\ Completed(num)
<1>1. GenTyped /\ ReceiverTyped /\ Sent(num) /\ Heard(num) /\ num \in [Nat -> Byte]
  BY DEF LinkInv, Sent
<1>2. ~Idle
  BY DEF Idle, Receive
<1>3. \A a, b, c \in Nat : a + b = c => a + b + 1 # c
  OBVIOUS
<1>4. /\ Settled => ~GoodDue(num)
      /\ Settled' /\ ReceiverTyped' => ~GoodDue(num)'
  <2>1. Settled => ~GoodDue(num)
    <3>1. stats.ok \in Nat /\ stats.seq_gap \in Nat /\ channel.intact \in Nat
      BY <1>1 DEF ReceiverTyped
    <3> QED
      BY <1>3, <3>1 DEF Settled, GoodDue
  <2>2. ASSUME Settled', ReceiverTyped' PROVE ~GoodDue(num)'
    <3>1. stats'.ok \in Nat /\ stats'.seq_gap \in Nat /\ channel'.intact \in Nat
      BY <2>2 DEF ReceiverTyped
    <3> QED
      BY <1>3, <2>2, <3>1 DEF Settled, GoodDue
  <2> QED
    BY <2>1, <2>2
<1>5. ASSUME UNCHANGED <<gvars, from, channel>>
      PROVE  GenTyped' /\ Sent(num)' /\ (from <= turn)'
  <2>1. UNCHANGED <<seq, gstats, turn, outbox, gen, sink, wire, from>>
    BY <1>5 DEF gvars
  <2> QED
    BY <1>1, <2>1 DEF GenTyped, Sent, Sound, Torn, Heard
<1>6. CASE GoodDue(num)
  <2>1. /\ ReceiverTyped' /\ UNCHANGED <<gvars, from, channel>>
        /\ \/ GoodDue(num)' /\ Passing
           \/ Idle' /\ Completed(num)
    BY <1>1, <1>6, GoodReceives
  <2>2. Idle' => Settled'
    BY DEF Idle
  <2> QED
    BY <1>4, <1>5, <1>6, <2>1, <2>2 DEF LinkInv, Heard
<1>7. CASE BadDue
  <2>1. ReceiverTyped' /\ UNCHANGED <<gvars, from, channel>> /\ (BadDue' \/ Idle') /\ Passing
    BY <1>1, <1>7, BadReceives
  <2>2. Settled /\ Settled'
    BY <1>7, <2>1 DEF BadDue, Idle
  <2> QED
    BY <1>4, <1>5, <2>1, <2>2 DEF LinkInv, Heard
<1>8. CASE BrokenOff
  <2>1. ReceiverTyped' /\ UNCHANGED <<gvars, from, channel>> /\ BrokenOff' /\ Passing
    BY <1>1, <1>8, BrokenReceives
  <2>2. Settled /\ Settled'
    BY <1>8, <2>1 DEF BrokenOff
  <2> QED
    BY <1>4, <1>5, <2>1, <2>2 DEF LinkInv, Heard
<1> QED
  BY <1>1, <1>2, <1>6, <1>7, <1>8 DEF Heard

-----------------------------------------------------------------------------
(* A turn of the generator. *)

Stats == [valid : Nat, bad_crc : Nat, truncated : Nat, seq_gap : Nat, burst_extra : Nat]

LEMMA PieceFacts ==
  ASSUME NEW q \in Seq(Piece)
  PROVE  /\ Len(q) \in Nat
         /\ \A k \in 1 .. Len(q) :
              /\ q[k] \in Piece /\ q[k].bytes \in Seq(Byte)
              /\ q[k].made_in \in Nat /\ q[k].intact \in BOOLEAN
<1>1. Len(q) \in Nat /\ \A k \in 1 .. Len(q) : q[k] \in Piece
  BY LenProperties, ElementOfSeq
<1> QED
  BY <1>1 DEF Piece

\* A piece of this turn: the encoded frame, or what corruption made of it.
Fresh(q, s, p) ==
  /\ q \in Piece /\ q.made_in = turn + 1
  /\ IF q.intact THEN q.bytes = Encoded(s, p) ELSE Damaged(q.bytes)

LEMMA FreshIs ==
  ASSUME turn \in Nat, NEW s, NEW p, NEW b \in Seq(Byte), NEW i \in BOOLEAN,
         IF i THEN b = Encoded(s, p) ELSE Damaged(b)
  PROVE  Fresh(PieceOf(b, i), s, p)
<1>1. PieceOf(b, i) = [bytes |-> b, made_in |-> turn + 1, intact |-> i]
  BY DEF PieceOf
<1>2. PieceOf(b, i) \in Piece
  BY <1>1 DEF Piece
<1> QED
  BY <1>1, <1>2 DEF Fresh

LEMMA BumpIs ==
  ASSUME NEW st \in Stats, NEW n \in Nat, NEW field \in {"valid", "bad_crc", "truncated"}
  PROVE  /\ Bump(st, field, n) \in Stats
         /\ Bump(st, field, n).seq_gap = st.seq_gap
         /\ Bump(st, field, n).burst_extra = st.burst_extra
  BY DEF Bump, Stats

LEMMA BumpBurst ==
  ASSUME NEW st \in Stats, NEW n \in Nat
  PROVE  /\ Bump(st, "burst_extra", n) \in Stats
         /\ Bump(st, "burst_extra", n).seq_gap = st.seq_gap
         /\ Bump(st, "burst_extra", n).burst_extra = st.burst_extra + n
  BY DEF Bump, Stats

LEMMA BumpGap ==
  ASSUME NEW st \in Stats, NEW n \in Nat
  PROVE  /\ Bump(st, "seq_gap", n) \in Stats
         /\ Bump(st, "seq_gap", n).seq_gap = st.seq_gap + n
         /\ Bump(st, "seq_gap", n).burst_extra = st.burst_extra
  BY DEF Bump, Stats

\* What a turn emits for a frame, `extra` copies included.
LEMMA CorruptedIs ==
  ASSUME Conditions, turn \in Nat, NEW s \in Byte, NEW p \in Payloads, NEW st \in Stats,
         NEW c \in Corrupted(Encoded(s, p), st)
  PROVE  \E extra \in Nat :
           /\ c.pieces \in Seq(Piece) /\ Len(c.pieces) = extra + 1
           /\ \A k \in 1 .. Len(c.pieces) : Fresh(c.pieces[k], s, p)
           /\ c.stats \in Stats /\ c.stats.seq_gap = st.seq_gap
           /\ c.stats.burst_extra = st.burst_extra + extra
<1> DEFINE e == Encoded(s, p)
<1>1. e \in Seq(Byte) /\ burst_size \in Nat
  BY EncodedShape, GeneratorAssumption
<1>2. ASSUME NEW b \in Seq(Byte), NEW i \in BOOLEAN, IF i THEN b = e ELSE Damaged(b)
      PROVE  /\ <<PieceOf(b, i)>> \in Seq(Piece) /\ Len(<<PieceOf(b, i)>>) = 0 + 1
             /\ \A k \in 1 .. Len(<<PieceOf(b, i)>>) : Fresh(<<PieceOf(b, i)>>[k], s, p)
  <2> DEFINE q == PieceOf(b, i)
  <2>1. Fresh(q, s, p)
    BY <1>2, FreshIs
  <2> HIDE DEF q
  <2>2. q \in Piece
    BY <2>1 DEF Fresh
  <2>3. <<q>> \in Seq(Piece) /\ Len(<<q>>) = 1 /\ <<q>>[1] = q
    BY <2>2
  <2>4. \A k \in 1 .. 1 : k = 1
    OBVIOUS
  <2>5. <<q>> \in Seq(Piece) /\ Len(<<q>>) = 0 + 1 /\ \A k \in 1 .. Len(<<q>>) : Fresh(<<q>>[k], s, p)
    BY <2>1, <2>3, <2>4
  <2> QED
    BY <2>5 DEF q
<1>3. ASSUME c \in Original(e, st) PROVE c.pieces = <<PieceOf(e, TRUE)>> /\ c.stats = Bump(st, "valid", 1)
  <2>1. c = [pieces |-> <<PieceOf(e, TRUE)>>, stats |-> Bump(st, "valid", 1)]
    BY <1>3 DEF Original
  <2> QED
    BY <2>1
<1>4. ASSUME c \in BadCrc(e, st)
      PROVE  \E b \in Seq(Byte) :
               Damaged(b) /\ c.pieces = <<PieceOf(b, FALSE)>> /\ c.stats = Bump(st, "bad_crc", 1)
  <2> HIDE DEF e
  <2>1. PICK i \in FlipPositions(e) :
          c = [pieces |-> <<PieceOf([e EXCEPT ![i] = Flip[@]], FALSE)>>,
               stats  |-> Bump(st, "bad_crc", 1)]
    BY <1>4 DEF BadCrc
  <2>2. Damaged([e EXCEPT ![i] = Flip[@]])
    BY FlipShape DEF e
  <2>3. [e EXCEPT ![i] = Flip[@]] \in Seq(Byte)
    BY <2>2, DamagedShape
  <2> QED
    BY <2>1, <2>2, <2>3
<1>5. ASSUME c \in Truncate(e, st)
      PROVE  \E b \in Seq(Byte) :
               Damaged(b) /\ c.pieces = <<PieceOf(b, FALSE)>> /\ c.stats = Bump(st, "truncated", 1)
  <2> HIDE DEF e
  <2>1. PICK n \in 1 .. Len(e) - 2 :
          c = [pieces |-> <<PieceOf(CutAndClosed(e, n), FALSE)>>,
               stats  |-> Bump(st, "truncated", 1)]
    BY <1>5 DEF Truncate
  <2>2. Damaged(CutAndClosed(e, n))
    BY CutShape DEF e
  <2>3. CutAndClosed(e, n) \in Seq(Byte)
    BY <2>2, DamagedShape
  <2> QED
    BY <2>1, <2>2, <2>3
<1>6. ASSUME c \in Burst(e, st)
      PROVE  /\ c.pieces \in Seq(Piece) /\ Len(c.pieces) = burst_size + 1
             /\ \A k \in 1 .. Len(c.pieces) : Fresh(c.pieces[k], s, p)
             /\ c.stats = Bump(Bump(st, "valid", 1), "burst_extra", burst_size)
  <2> DEFINE q == PieceOf(e, TRUE)
             n == burst_size + 1
  <2>1. Fresh(q, s, p)
    BY <1>1, FreshIs
  <2>2. /\ c.pieces = [k \in 1 .. n |-> q]
        /\ c.stats = Bump(Bump(st, "valid", 1), "burst_extra", burst_size)
    <3>1. c = [pieces |-> [k \in 1 .. n |-> q],
               stats  |-> Bump(Bump(st, "valid", 1), "burst_extra", burst_size)]
      BY <1>6 DEF Burst
    <3> HIDE DEF q, n
    <3> QED
      BY <3>1
  <2>3. n \in Nat
    BY <1>1
  <2> HIDE DEF q, n
  <2>4. q \in Piece
    BY <2>1 DEF Fresh
  <2>5. c.pieces \in Seq(Piece) /\ Len(c.pieces) = n /\ \A k \in 1 .. n : c.pieces[k] = q
    BY <2>2, <2>3, <2>4
  <2> QED
    BY <2>1, <2>2, <2>5 DEF n
<1>7. c \in Original(e, st) \/ c \in BadCrc(e, st) \/ c \in Truncate(e, st) \/ c \in Burst(e, st)
  BY DEF Corrupted
<1> HIDE DEF e
<1>8. ASSUME NEW b \in Seq(Byte), NEW i \in BOOLEAN, IF i THEN b = e ELSE Damaged(b),
             c.pieces = <<PieceOf(b, i)>>,
             NEW f \in {"valid", "bad_crc", "truncated"}, c.stats = Bump(st, f, 1)
      PROVE  /\ c.pieces \in Seq(Piece) /\ Len(c.pieces) = 0 + 1
             /\ \A k \in 1 .. Len(c.pieces) : Fresh(c.pieces[k], s, p)
             /\ c.stats \in Stats /\ c.stats.seq_gap = st.seq_gap
             /\ c.stats.burst_extra = st.burst_extra + 0
  <2>1. /\ c.pieces \in Seq(Piece) /\ Len(c.pieces) = 0 + 1
        /\ \A k \in 1 .. Len(c.pieces) : Fresh(c.pieces[k], s, p)
    BY <1>2, <1>8
  <2>2. /\ c.stats \in Stats /\ c.stats.seq_gap = st.seq_gap
        /\ c.stats.burst_extra = st.burst_extra
    <3>1. /\ Bump(st, f, 1) \in Stats /\ Bump(st, f, 1).seq_gap = st.seq_gap
          /\ Bump(st, f, 1).burst_extra = st.burst_extra
      BY BumpIs
    <3> QED
      BY <1>8, <3>1
  <2>3. st.burst_extra \in Nat
    BY DEF Stats
  <2> QED
    BY <2>1, <2>2, <2>3
<1>9. CASE c \in Original(e, st)
  <2>1. c.pieces = <<PieceOf(e, TRUE)>> /\ c.stats = Bump(st, "valid", 1)
    BY <1>3, <1>9
  <2> QED
    BY <1>1, <1>8, <2>1
<1>10. CASE c \in BadCrc(e, st)
  <2>1. PICK b \in Seq(Byte) :
          Damaged(b) /\ c.pieces = <<PieceOf(b, FALSE)>> /\ c.stats = Bump(st, "bad_crc", 1)
    BY <1>4, <1>10
  <2> QED
    BY <1>8, <2>1
<1>11. CASE c \in Truncate(e, st)
  <2>1. PICK b \in Seq(Byte) :
          Damaged(b) /\ c.pieces = <<PieceOf(b, FALSE)>> /\ c.stats = Bump(st, "truncated", 1)
    BY <1>5, <1>11
  <2> QED
    BY <1>8, <2>1
<1>12. CASE c \in Burst(e, st)
  <2>1. /\ c.pieces \in Seq(Piece) /\ Len(c.pieces) = burst_size + 1
        /\ \A k \in 1 .. Len(c.pieces) : Fresh(c.pieces[k], s, p)
        /\ c.stats = Bump(Bump(st, "valid", 1), "burst_extra", burst_size)
    BY <1>6, <1>12
  <2>2. /\ Bump(st, "valid", 1) \in Stats /\ Bump(st, "valid", 1).seq_gap = st.seq_gap
        /\ Bump(st, "valid", 1).burst_extra = st.burst_extra
    BY BumpIs
  <2>3. /\ c.stats \in Stats /\ c.stats.seq_gap = st.seq_gap
        /\ c.stats.burst_extra = st.burst_extra + burst_size
    <3> DEFINE a == Bump(st, "valid", 1)
               b == Bump(a, "burst_extra", burst_size)
    <3>1. a \in Stats /\ a.seq_gap = st.seq_gap /\ a.burst_extra = st.burst_extra
      BY <2>2
    <3>2. c.stats = b
      BY <2>1
    <3> HIDE DEF a
    <3>3. b \in Stats /\ b.seq_gap = a.seq_gap /\ b.burst_extra = a.burst_extra + burst_size
      BY <1>1, <3>1, BumpBurst
    <3> HIDE DEF b
    <3> QED
      BY <3>1, <3>2, <3>3
  <2> QED
    BY <1>1, <2>1, <2>3
<1> QED
  BY <1>7, <1>9, <1>10, <1>11, <1>12

\* One turn, for the number s.
TurnGives(s, p, extra, gap) ==
  /\ gen = "running" /\ outbox = <<>> /\ turn' = turn + 1 /\ seq' = Succ(s)
  /\ outbox' \in Seq(Piece) /\ Len(outbox') = extra + 1
  /\ \A k \in 1 .. Len(outbox') : Fresh(outbox'[k], s, p)
  /\ gstats' \in Stats /\ gstats'.seq_gap = gstats.seq_gap + gap
  /\ gstats'.burst_extra = gstats.burst_extra + extra
  /\ UNCHANGED <<gen, sink, wire>>

LEMMA SuccIs ==
  ASSUME NEW n \in Byte
  PROVE  Succ(n) \in Byte
<1>1. \A a, m \in Nat : a % (m + 1) \in 0 .. m
  OBVIOUS
<1>2. n + 1 \in Nat /\ MaxByte \in Nat
  BY MaxByteAssumption DEF Byte
<1> QED
  BY <1>1, <1>2 DEF Succ, Byte

LEMMA TurnIs ==
  ASSUME Conditions, GenTyped, MakeFrame
  PROVE  \E s \in Byte, p \in Payloads, extra \in Nat, gap \in {0, 1} :
           (gap = 0 => s = seq) /\ TurnGives(s, p, extra, gap)
<1>1. PICK skip \in {0} \cup (IF "seq-gap" \in Modes THEN Skips ELSE {}), p \in Payloads :
        Turn(skip, p)
  BY DEF MakeFrame
<1> DEFINE s  == (seq + skip) % (MaxByte + 1)
           st == IF skip = 0 THEN gstats ELSE Bump(gstats, "seq_gap", 1)
           gap == IF skip = 0 THEN 0 ELSE 1
<1>2. skip \in Nat /\ seq \in Byte /\ seq \in Nat /\ MaxByte \in Nat /\ seq <= MaxByte
      /\ turn \in Nat /\ gstats \in Stats
  <2>1. Skips \subseteq Nat
    BY GeneratorAssumption
  <2>2. skip \in Nat
    BY <2>1
  <2> QED
    BY <2>2, MaxByteAssumption DEF GenTyped, Byte, Stats
<1>3. s \in Byte /\ (skip = 0 => s = seq)
  <2>1. \A a, m \in Nat : a % (m + 1) \in 0 .. m /\ (a <= m => a % (m + 1) = a)
    OBVIOUS
  <2>2. seq + skip \in Nat /\ (skip = 0 => seq + skip = seq)
    BY <1>2
  <2>3. s \in 0 .. MaxByte /\ (seq + skip <= MaxByte => s = seq + skip)
    BY <1>2, <2>1, <2>2
  <2> QED
    BY <1>2, <2>2, <2>3 DEF Byte
<1>4. st \in Stats /\ st.seq_gap = gstats.seq_gap + gap /\ st.burst_extra = gstats.burst_extra
  <2>1. gstats.seq_gap \in Nat
    BY <1>2 DEF Stats
  <2>2. CASE skip = 0
    BY <1>2, <2>1, <2>2
  <2>3. CASE skip # 0
    <3> DEFINE a == Bump(gstats, "seq_gap", 1)
    <3>1. a \in Stats /\ a.seq_gap = gstats.seq_gap + 1 /\ a.burst_extra = gstats.burst_extra
      BY <1>2, BumpGap
    <3> HIDE DEF a
    <3>2. st = a /\ gap = 1
      BY <2>3 DEF a
    <3> HIDE DEF st, gap
    <3> QED
      BY <3>1, <3>2
  <2> QED
    BY <2>2, <2>3
<1>5. PICK c \in Corrupted(Encoded(s, p), st) : outbox' = c.pieces /\ gstats' = c.stats
  BY <1>1 DEF Turn
<1>6. /\ gen = "running" /\ outbox = <<>> /\ turn' = turn + 1 /\ seq' = Succ(s)
      /\ UNCHANGED <<gen, sink, wire>>
  BY <1>1 DEF Turn, Succ
<1>7. gap \in {0, 1} /\ (gap = 0 => s = seq)
  BY <1>3
<1> HIDE DEF s, st, gap
<1>8. PICK extra \in Nat :
        /\ c.pieces \in Seq(Piece) /\ Len(c.pieces) = extra + 1
        /\ \A k \in 1 .. Len(c.pieces) : Fresh(c.pieces[k], s, p)
        /\ c.stats \in Stats /\ c.stats.seq_gap = st.seq_gap
        /\ c.stats.burst_extra = st.burst_extra + extra
  BY <1>2, <1>3, <1>4, CorruptedIs
<1>9. TurnGives(s, p, extra, gap)
  BY <1>4, <1>5, <1>6, <1>8 DEF TurnGives
<1> QED
  BY <1>3, <1>7, <1>9

-----------------------------------------------------------------------------
(* The invariant is kept by the generator. *)

LEMMA SendingIdle ==
  ASSUME NEW num, LinkInv(num), Sending(Generate)
  PROVE  gen = "running" /\ Idle
<1>1. arriving = <<>> /\ gen = "running"
  BY DEF Sending, Generate, MakeFrame, Turn, Emit, EmitFails, Finish
<1>2. ~GoodDue(num) /\ ~BadDue /\ ~BrokenOff
  BY <1>1 DEF GoodDue, BadDue, BrokenOff
<1> QED
  BY <1>1, <1>2 DEF LinkInv, Heard

LEMMA GeneratorKeeps ==
  ASSUME NEW num, LinkInv(num), NEW num2, Sending(Generate), GenTyped', Sent(num2)', turn <= turn'
  PROVE  LinkInv(num2)'
<1>1. Idle /\ UNCHANGED <<vars, rvars, channel>>
  BY SendingIdle DEF Sending
<1>2. UNCHANGED <<arriving, from, last_seq, stats, accepted, channel, buf, state>>
  BY <1>1 DEF vars, rvars
<1>3. Idle'
  BY <1>1, <1>2 DEF Idle, Settled, Counted
<1>4. ReceiverTyped'
  BY <1>2 DEF LinkInv, ReceiverTyped
<1>5. (from <= turn)'
  <2>1. from <= turn /\ from \in Nat /\ turn \in Nat /\ turn' \in Nat
    BY DEF LinkInv, Heard, ReceiverTyped, GenTyped
  <2> QED
    BY <1>2, <2>1
<1> QED
  BY <1>3, <1>4, <1>5 DEF LinkInv, Heard

\* A turn: its number joins those of the turns before.
LEMMA MakeFrameKeeps ==
  ASSUME NEW num, LinkInv(num), Sending(MakeFrame), NEW s \in Byte, NEW p \in Payloads,
         NEW extra \in Nat, NEW gap \in {0, 1}, TurnGives(s, p, extra, gap),
         NEW num2, num2 = [num EXCEPT ![turn + 1] = s]
  PROVE  LinkInv(num2)'
<1>1. /\ GenTyped /\ Sent(num) /\ num \in [Nat -> Byte] /\ turn \in Nat /\ turn + 1 \in Nat
      /\ turn + 1 # turn
  BY DEF LinkInv, Sent, GenTyped
<1>2. /\ turn' = turn + 1 /\ seq' = Succ(s) /\ outbox' \in Seq(Piece)
      /\ \A k \in 1 .. Len(outbox') : Fresh(outbox'[k], s, p)
      /\ gstats' \in Stats /\ gen = "running" /\ gen' = gen /\ sink' = sink /\ wire' = wire
  BY DEF TurnGives
<1>3. GenTyped'
  <2>1. seq' \in Byte
    BY <1>2, SuccIs
  <2> QED
    BY <1>1, <1>2, <2>1 DEF GenTyped, Stats
<1>4. num2 \in [Nat -> Byte] /\ num2[turn + 1] = s /\ \A t \in Nat : t # turn + 1 => num2[t] = num[t]
  BY <1>1
<1>5. ASSUME NEW k \in 1 .. Len(outbox')
      PROVE  Sound(outbox[k], num2)'
  <2> DEFINE q == outbox'[k]
  <2>1. Fresh(q, s, p)
    BY <1>2, <1>5
  <2>2. q.made_in <= turn' /\ num2[q.made_in] = s
    BY <1>1, <1>2, <1>4, <2>1 DEF Fresh
  <2> HIDE DEF q
  <2>3. IF q.intact THEN \E r \in Payloads : q.bytes = Encoded(num2[q.made_in], r) ELSE Damaged(q.bytes)
    BY <2>1, <2>2 DEF Fresh
  <2> QED
    BY <2>2, <2>3 DEF Sound, q
<1>6. ASSUME NEW k \in 1 .. Len(wire')
      PROVE  Sound(wire[k], num2)'
  <2> DEFINE q == wire[k]
  <2>1. k \in 1 .. Len(wire) /\ wire'[k] = q
    BY <1>2, <1>6
  <2>2. Sound(q, num) \/ Torn(k)
    BY <1>1, <2>1 DEF Sent
  <2>3. Sound(q, num)
    BY <1>2, <2>2 DEF Torn
  <2>4. q.made_in \in Nat
    BY <1>1, <2>1, PieceFacts DEF GenTyped
  <2> HIDE DEF q
  <2>5. q.made_in # turn + 1 /\ q.made_in <= turn + 1
    BY <1>1, <2>3, <2>4 DEF Sound
  <2>6. num2[q.made_in] = num[q.made_in]
    BY <1>4, <2>4, <2>5
  <2> QED
    BY <1>2, <2>1, <2>3, <2>5, <2>6 DEF Sound
<1>7. Sent(num2)'
  BY <1>2, <1>4, <1>5, <1>6 DEF Sent
<1>8. turn <= turn' /\ Sending(Generate)
  BY <1>1, <1>2 DEF Sending, Generate
<1> QED
  BY <1>3, <1>7, <1>8, GeneratorKeeps

\* The head of the outbox.
LEMMA HeadIs ==
  ASSUME NEW q \in Seq(Piece), q # <<>>
  PROVE  /\ Head(q) = q[1] /\ 1 \in 1 .. Len(q) /\ Tail(q) \in Seq(Piece) /\ Len(q) \in Nat
         /\ Len(Tail(q)) = Len(q) - 1
         /\ \A k \in 1 .. Len(Tail(q)) : k + 1 \in 1 .. Len(q) /\ Tail(q)[k] = q[k + 1]
<1>1. Len(q) \in Nat /\ Len(q) >= 1
  BY EmptySeq
<1>2. Head(q) = q[1] /\ Tail(q) \in Seq(Piece) /\ Len(Tail(q)) = Len(q) - 1
      /\ \A k \in 1 .. Len(Tail(q)) : Tail(q)[k] = q[k + 1]
  BY HeadTailProperties
<1> QED
  BY <1>1, <1>2

LEMMA EmitKeeps ==
  ASSUME NEW num, LinkInv(num), Sending(Emit)
  PROVE  LinkInv(num)'
<1>1. /\ GenTyped /\ Sent(num) /\ outbox \in Seq(Piece) /\ wire \in Seq(Piece)
  BY DEF LinkInv, GenTyped
<1>2. /\ gen = "running" /\ outbox # <<>> /\ wire' = Append(wire, Head(outbox))
      /\ outbox' = Tail(outbox) /\ UNCHANGED <<seq, gstats, turn, gen, sink>>
  BY DEF Sending, Emit
<1>3. /\ Head(outbox) = outbox[1] /\ 1 \in 1 .. Len(outbox) /\ outbox' \in Seq(Piece)
      /\ outbox[1] \in Piece
      /\ \A k \in 1 .. Len(outbox') : k + 1 \in 1 .. Len(outbox) /\ outbox'[k] = outbox[k + 1]
  BY <1>1, <1>2, HeadIs, PieceFacts
<1>4. /\ wire' \in Seq(Piece) /\ Len(wire') = Len(wire) + 1 /\ Len(wire) \in Nat
      /\ \A k \in 1 .. Len(wire) : wire'[k] = wire[k]
      /\ wire'[Len(wire) + 1] = outbox[1]
  BY <1>1, <1>2, <1>3, AppendProperties, PieceFacts
<1>5. GenTyped'
  BY <1>1, <1>2, <1>3, <1>4 DEF GenTyped
<1>6. ASSUME NEW k \in 1 .. Len(wire')
      PROVE  Sound(wire[k], num)'
  <2>1. CASE k \in 1 .. Len(wire)
    <3>1. Sound(wire[k], num)
      BY <1>1, <1>2, <2>1 DEF Sent, Torn
    <3> QED
      BY <1>2, <1>4, <2>1, <3>1 DEF Sound
  <2>2. CASE k = Len(wire) + 1
    <3>1. Sound(outbox[1], num)
      BY <1>1, <1>3 DEF Sent
    <3> QED
      BY <1>2, <1>4, <2>2, <3>1 DEF Sound
  <2> QED
    BY <1>4, <2>1, <2>2
<1>7. ASSUME NEW k \in 1 .. Len(outbox')
      PROVE  Sound(outbox[k], num)'
  <2>1. Sound(outbox[k + 1], num)
    BY <1>1, <1>3 DEF Sent
  <2> QED
    BY <1>2, <1>3, <2>1 DEF Sound
<1>8. Sent(num)'
  BY <1>1, <1>2, <1>6, <1>7 DEF Sent
<1>9. turn <= turn' /\ Sending(Generate)
  BY <1>1, <1>2 DEF Sending, Generate, GenTyped
<1> QED
  BY <1>5, <1>8, <1>9, GeneratorKeeps

\* A part of a piece, written when the sink failed or left when it broke off.
LEMMA PartIs ==
  ASSUME Conditions, NEW num, num \in [Nat -> Byte], NEW q \in Piece,
         Sound(q, num) \/ Severed(q.bytes), NEW n \in 1 .. Len(q.bytes) - 1
  PROVE  LET part == Part(q, n)
         IN  part \in Piece /\ part.made_in = q.made_in /\ ~part.intact /\ Severed(part.bytes)
<1> DEFINE y == q.bytes
           b == SubSeq(y, 1, n)
           t == q.made_in
<1>1. y \in Seq(Byte) /\ t \in Nat /\ q = [bytes |-> y, made_in |-> t, intact |-> q.intact]
  BY DEF Piece
<1>2. ASSUME Sound(q, num)
      PROVE  /\ FirstZero(y, Len(y)) \/ TwoLeft(y, 1) \/ TwoLeft(y, 2)
             /\ FirstZero(y, Len(y)) => Len(y) - 1 <= N
  <2>1. CASE q.intact
    <3>1. PICK p \in Payloads : y = Encoded(num[t], p)
      BY <1>2, <2>1 DEF Sound
    <3>2. num[t] \in Byte
      BY <1>1
    <3> HIDE DEF y
    <3> QED
      BY <3>1, <3>2, EncodedShape
  <2>2. CASE ~q.intact
    <3>1. Damaged(y)
      BY <1>2, <2>2 DEF Sound
    <3> HIDE DEF y
    <3> QED
      BY <3>1, DamagedShape
  <2> QED
    BY <2>1, <2>2
<1>3. n \in 1 .. Len(y) - 1
  OBVIOUS
<1>4. Severed(b) /\ b \in Seq(Byte)
  <2>1. CASE Sound(q, num)
    <3> HIDE DEF y
    <3> QED
      BY <1>1, <1>2, <1>3, <2>1, SeveredShape
  <2>2. CASE Severed(y)
    <3> HIDE DEF y
    <3> QED
      BY <1>1, <1>3, <2>2, SeveredAgain
  <2>3. Severed(b)
    BY <2>1, <2>2
  <2> HIDE DEF b
  <2> QED
    BY <2>3 DEF Severed, Unclosed, Half
<1>5. \A u \in Seq(Byte), w \in BOOLEAN :
        LET r == [q EXCEPT !.bytes = u, !.intact = w]
        IN  r \in Piece /\ r.made_in = q.made_in /\ r.bytes = u /\ r.intact = w
  BY DEF Piece
<1>6. Part(q, n) = [q EXCEPT !.bytes = b, !.intact = FALSE]
  BY DEF Part
<1> HIDE DEF b
<1> DEFINE r == [q EXCEPT !.bytes = b, !.intact = FALSE]
<1>7. r \in Piece /\ r.made_in = q.made_in /\ r.bytes = b /\ r.intact = FALSE
  BY <1>4, <1>5
<1> HIDE DEF r
<1>8. Part(q, n) = r
  BY <1>6 DEF r
<1>9. ~r.intact /\ Severed(r.bytes)
  BY <1>4, <1>7
<1> QED
  BY <1>7, <1>8, <1>9

LEMMA EmitFailsKeeps ==
  ASSUME Conditions, NEW num, LinkInv(num), Sending(EmitFails)
  PROVE  LinkInv(num)'
<1>1. /\ GenTyped /\ Sent(num) /\ outbox \in Seq(Piece) /\ wire \in Seq(Piece)
      /\ num \in [Nat -> Byte]
  BY DEF LinkInv, GenTyped, Sent
<1>2. /\ gen = "running" /\ outbox # <<>> /\ gen' = "failed" /\ outbox' = <<>>
      /\ UNCHANGED <<seq, gstats, turn, sink>>
  BY DEF Sending, EmitFails
<1>3. \A k \in 1 .. Len(wire) : Sound(wire[k], num)
  BY <1>1, <1>2 DEF Sent, Torn
<1>4. wire' \in Seq(Piece) /\ \A k \in 1 .. Len(wire') : Sound(wire[k], num)' \/ Torn(k)'
  <2>1. CASE wire' = wire
    BY <1>1, <1>2, <1>3, <2>1 DEF Sound
  <2>2. CASE /\ sink = "stream"
             /\ \E n \in 1 .. Len(Head(outbox).bytes) - 1 :
                  wire' = Append(wire, Part(Head(outbox), n))
    <3> DEFINE q == Head(outbox)
    <3>1. PICK n \in 1 .. Len(q.bytes) - 1 :
            wire' = Append(wire, Part(q, n))
      BY <2>2
    <3>2. q = outbox[1] /\ 1 \in 1 .. Len(outbox) /\ q \in Piece
      BY <1>1, <1>2, HeadIs, PieceFacts
    <3>3. Sound(q, num)
      BY <1>1, <3>2 DEF Sent
    <3> DEFINE part == Part(q, n)
    <3>4. n \in 1 .. Len(q.bytes) - 1 /\ wire' = Append(wire, part)
      BY <3>1
    <3> HIDE DEF q
    <3>5. part \in Piece /\ part.made_in = q.made_in /\ ~part.intact /\ Severed(part.bytes)
      BY <1>1, <3>2, <3>3, <3>4, PartIs
    <3> HIDE DEF part
    <3>6. /\ wire' \in Seq(Piece) /\ Len(wire') = Len(wire) + 1 /\ Len(wire) \in Nat
          /\ \A k \in 1 .. Len(wire) : wire'[k] = wire[k]
          /\ wire'[Len(wire) + 1] = part
      BY <1>1, <3>4, <3>5, AppendProperties, PieceFacts
    <3>7. ASSUME NEW k \in 1 .. Len(wire')
          PROVE  Sound(wire[k], num)' \/ Torn(k)'
      <4>1. CASE k \in 1 .. Len(wire)
        BY <1>2, <1>3, <3>6, <4>1 DEF Sound
      <4>2. CASE k = Len(wire) + 1
        <5>1. part.made_in <= turn
          BY <3>3, <3>5 DEF Sound
        <5> QED
          BY <1>2, <2>2, <3>5, <3>6, <4>2, <5>1 DEF Torn
      <4> QED
        BY <3>6, <4>1, <4>2
    <3> QED
      BY <3>6, <3>7
  <2> QED
    BY <2>1, <2>2 DEF Sending, EmitFails
<1>5. outbox' \in Seq(Piece) /\ Len(outbox') = 0
  BY <1>2, EmptySeq
<1>6. GenTyped' /\ Sent(num)'
  BY <1>1, <1>2, <1>4, <1>5 DEF GenTyped, Sent
<1>7. turn <= turn' /\ Sending(Generate)
  BY <1>1, <1>2 DEF Sending, Generate, GenTyped
<1> QED
  BY <1>6, <1>7, GeneratorKeeps

LEMMA FinishKeeps ==
  ASSUME NEW num, LinkInv(num), Sending(Finish)
  PROVE  LinkInv(num)'
<1>1. /\ GenTyped /\ Sent(num) /\ gen = "running" /\ outbox = <<>> /\ gen' \in {"done", "failed"}
      /\ UNCHANGED <<seq, gstats, turn, outbox, sink, wire>>
  BY DEF LinkInv, Sending, Finish
<1>2. \A k \in 1 .. Len(wire) : Sound(wire[k], num)
  BY <1>1 DEF Sent, Torn
<1>3. GenTyped' /\ Sent(num)'
  BY <1>1, <1>2 DEF GenTyped, Sent, Sound
<1>4. turn <= turn' /\ Sending(Generate)
  BY <1>1 DEF Sending, Generate, GenTyped
<1> QED
  BY <1>3, <1>4, GeneratorKeeps

-----------------------------------------------------------------------------
(* The invariant is kept by the transport. *)

\* The pieces before the k-th.
LEMMA PiecesBefore ==
  ASSUME NEW q \in Seq(Piece), NEW k \in 1 .. Len(q)
  PROVE  LET a == SubSeq(q, 1, k - 1)
         IN  a \in Seq(Piece) /\ Len(a) = k - 1 /\ \A j \in 1 .. k - 1 : a[j] = q[j]
<1> DEFINE a == SubSeq(q, 1, k - 1)
<1>1. Len(q) \in Nat
  BY PieceFacts
<1>2. 1 \in Nat /\ k - 1 \in Nat /\ 1 <= (k - 1) + 1 /\ k - 1 <= Len(q) /\ ((k - 1) + 1) - 1 = k - 1
  BY <1>1
<1>3. /\ a \in Seq(Piece) /\ Len(a) = ((k - 1) + 1) - 1
      /\ \A j \in 1 .. ((k - 1) + 1) - 1 : a[j] = q[(1 + j) - 1]
  BY <1>2, Slice
<1> HIDE DEF a
<1>4. \A j \in 1 .. k - 1 : (1 + j) - 1 = j
  BY <1>2
<1>5. a \in Seq(Piece) /\ Len(a) = k - 1 /\ \A j \in 1 .. k - 1 : a[j] = q[j]
  BY <1>2, <1>3, <1>4
<1> QED
  BY <1>5 DEF a

LEMMA WithoutIs ==
  ASSUME wire \in Seq(Piece), NEW i \in 1 .. Len(wire)
  PROVE  LET w == Without(i)
         IN  /\ w \in Seq(Piece) /\ Len(w) = Len(wire) - 1 /\ Len(wire) \in Nat
             /\ \A k \in 1 .. Len(w) :
                  IF k < i THEN w[k] = wire[k] ELSE k + 1 \in 1 .. Len(wire) /\ w[k] = wire[k + 1]
<1> DEFINE n == Len(wire)
           a == SubSeq(wire, 1, i - 1)
           b == SubSeq(wire, i + 1, n)
           w == a \o b
<1>1. n \in Nat /\ i \in 1 .. n
  BY PieceFacts
<1>2. /\ a \in Seq(Piece) /\ Len(a) = i - 1
      /\ \A k \in 1 .. i - 1 : a[k] = wire[k]
  BY PiecesBefore
<1>3. /\ b \in Seq(Piece) /\ Len(b) = n - i
      /\ \A k \in 1 .. n - i : b[k] = wire[i + k]
  <2>1. i + 1 \in Nat /\ 1 <= i + 1 /\ i + 1 <= n + 1 /\ n <= n /\ (n + 1) - (i + 1) = n - i
    BY <1>1
  <2>2. /\ b \in Seq(Piece) /\ Len(b) = (n + 1) - (i + 1)
        /\ \A k \in 1 .. (n + 1) - (i + 1) : b[k] = wire[((i + 1) + k) - 1]
    BY <1>1, <2>1, Slice
  <2> HIDE DEF b
  <2>3. \A k \in 1 .. n - i : ((i + 1) + k) - 1 = i + k
    BY <1>1
  <2> QED
    BY <2>1, <2>2, <2>3
<1>4. /\ w \in Seq(Piece) /\ Len(a) \in Nat /\ Len(b) \in Nat
      /\ Len(w) = Len(a) + Len(b)
      /\ \A k \in 1 .. Len(a) : w[k] = a[k]
      /\ \A k \in 1 .. Len(b) : w[Len(a) + k] = b[k]
  <2>1. a \in Seq(Piece) /\ b \in Seq(Piece)
    BY <1>2, <1>3
  <2> HIDE DEF a, b
  <2> QED
    BY <2>1, ConcatBytes
<1>5. Without(i) = w
  BY DEF Without
<1> HIDE DEF n, a, b, w
<1>6. Len(w) = n - 1
  BY <1>1, <1>2, <1>3, <1>4
<1>7. ASSUME NEW k \in 1 .. Len(w)
      PROVE  IF k < i THEN w[k] = wire[k] ELSE k + 1 \in 1 .. n /\ w[k] = wire[k + 1]
  <2>1. CASE k < i
    <3>1. k \in 1 .. i - 1
      BY <1>1, <2>1
    <3> QED
      BY <1>2, <1>4, <2>1, <3>1
  <2>2. CASE ~(k < i)
    <3> DEFINE j == k - (i - 1)
    <3>1. j \in 1 .. n - i /\ k = (i - 1) + j /\ i + j = k + 1 /\ k + 1 \in 1 .. n
      BY <1>1, <1>6, <2>2
    <3> HIDE DEF j
    <3>2. w[k] = b[j] /\ b[j] = wire[i + j]
      BY <1>2, <1>3, <1>4, <3>1
    <3> QED
      BY <2>2, <3>1, <3>2
  <2> QED
    BY <2>1, <2>2
<1> QED
  BY <1>1, <1>4, <1>5, <1>6, <1>7 DEF n

\* With a piece less under way, the others are as they were.
LEMMA LessSent ==
  ASSUME NEW num, GenTyped, Sent(num), NEW i \in 1 .. Len(wire), wire' = Without(i),
         i > 1 => sink = "udp", UNCHANGED <<seq, gstats, turn, outbox, gen, sink>>
  PROVE  GenTyped' /\ Sent(num)' /\ Len(wire') = Len(wire) - 1 /\ Len(wire) \in Nat
<1>1. /\ wire' \in Seq(Piece) /\ Len(wire') = Len(wire) - 1 /\ Len(wire) \in Nat
      /\ \A k \in 1 .. Len(wire') :
           IF k < i THEN wire'[k] = wire[k] ELSE k + 1 \in 1 .. Len(wire) /\ wire'[k] = wire[k + 1]
  BY WithoutIs DEF GenTyped
<1>2. ASSUME NEW k \in 1 .. Len(wire')
      PROVE  Sound(wire[k], num)' \/ Torn(k)'
  <2> DEFINE j == IF k < i THEN k ELSE k + 1
  <2>1. j \in 1 .. Len(wire) /\ wire'[k] = wire[j]
    BY <1>1
  <2>2. Sound(wire[j], num) \/ Torn(j)
    BY <2>1 DEF Sent
  <2>3. CASE Sound(wire[j], num)
    BY <2>1, <2>3 DEF Sound
  <2>4. CASE Torn(j)
    <3>1. j = Len(wire) /\ ~(i > 1)
      BY <2>4 DEF Torn
    <3>2. k = Len(wire')
      BY <1>1, <3>1
    <3> HIDE DEF j
    <3> QED
      BY <2>1, <2>4, <3>2 DEF Torn
  <2> QED
    BY <2>2, <2>3, <2>4
<1>3. GenTyped'
  BY <1>1 DEF GenTyped
<1>4. Sent(num)'
  BY <1>2 DEF Sent, Sound
<1> QED
  BY <1>1, <1>3, <1>4

LEMMA SameSent ==
  ASSUME NEW num, GenTyped, Sent(num), UNCHANGED <<seq, gstats, turn, outbox, gen, sink, wire>>
  PROVE  GenTyped' /\ Sent(num)'
  BY DEF GenTyped, Sent, Sound, Torn

LEMMA WaitingIdle ==
  ASSUME NEW num, LinkInv(num), arriving = <<>>, wire # <<>>
  PROVE  Idle
  BY DEF LinkInv, Heard, GoodDue, BadDue, BrokenOff

\* A damaged frame, and the counting of it.
LEMMA CountMore ==
  ASSUME ReceiverTyped, Counted(0, 0), channel'.damaged = channel.damaged + 1,
         stats' = stats
  PROVE  Counted(0, 1)' /\ Counted(0, 2)' /\ Counted(1, 0)'
<1>1. channel.damaged \in Nat /\ stats.crc_fail \in Nat
  BY DEF ReceiverTyped
<1>2. channel.damaged - 0 <= stats.crc_fail + 0 /\ stats.crc_fail + 0 <= 2 * channel.damaged
  BY DEF Counted
<1> DEFINE d == channel.damaged
           c == stats.crc_fail
<1>3. /\ (d + 1) - 0 <= c + 1 /\ c + 1 <= 2 * (d + 1)
      /\ (d + 1) - 0 <= c + 2 /\ c + 2 <= 2 * (d + 1)
      /\ (d + 1) - 1 <= c + 0 /\ c + 0 <= 2 * (d + 1)
  <2> HIDE DEF d, c
  <2> QED
    BY <1>1, <1>2 DEF d, c
<1> QED
  BY <1>3 DEF Counted

LEMMA DeliveryCounts ==
  ASSUME ReceiverTyped, NEW i, NEW again \in BOOLEAN, Deliver(i, again)
  PROVE  /\ channel' \in [intact : Nat, damaged : Nat, lost : Nat, repeated : Nat, overtook : Nat]
         /\ channel'.intact = channel.intact + IF wire[i].intact THEN 1 ELSE 0
         /\ channel'.damaged = channel.damaged + IF wire[i].intact THEN 0 ELSE 1
         /\ channel'.lost = channel.lost
         /\ channel'.repeated = channel.repeated + IF again THEN 1 ELSE 0
         /\ channel'.overtook = channel.overtook + IF i > 1 THEN 1 ELSE 0
<1> DEFINE a == channel.intact + IF wire[i].intact THEN 1 ELSE 0
           b == channel.damaged + IF wire[i].intact THEN 0 ELSE 1
           c == channel.repeated + IF again THEN 1 ELSE 0
           d == channel.overtook + IF i > 1 THEN 1 ELSE 0
<1>1. channel \in [intact : Nat, damaged : Nat, lost : Nat, repeated : Nat, overtook : Nat]
  BY DEF ReceiverTyped
<1>2. /\ channel.intact \in Nat /\ channel.damaged \in Nat
      /\ channel.repeated \in Nat /\ channel.overtook \in Nat
  BY <1>1
<1>3. a \in Nat /\ b \in Nat /\ c \in Nat /\ d \in Nat
  BY <1>2
<1>4. channel' = [channel EXCEPT
        !.intact   = IF wire[i].intact THEN channel.intact + 1 ELSE channel.intact,
        !.damaged  = IF wire[i].intact THEN channel.damaged ELSE channel.damaged + 1,
        !.repeated = IF again THEN channel.repeated + 1 ELSE channel.repeated,
        !.overtook = IF i > 1 THEN channel.overtook + 1 ELSE channel.overtook]
  BY DEF Deliver
<1>5. /\ (IF wire[i].intact THEN channel.intact + 1 ELSE channel.intact) = a
      /\ (IF wire[i].intact THEN channel.damaged ELSE channel.damaged + 1) = b
      /\ (IF again THEN channel.repeated + 1 ELSE channel.repeated) = c
      /\ (IF i > 1 THEN channel.overtook + 1 ELSE channel.overtook) = d
  BY <1>2
<1>6. channel' = [channel EXCEPT !.intact = a, !.damaged = b, !.repeated = c, !.overtook = d]
  BY <1>4, <1>5, Zenon
<1> DEFINE e == channel.lost
<1> HIDE DEF a, b, c, d
<1>7. channel' = [intact |-> a, damaged |-> b, lost |-> e, repeated |-> c, overtook |-> d]
  BY <1>1, <1>6
<1>8. e \in Nat
  BY <1>1
<1> HIDE DEF e
<1>9. /\ channel' \in [intact : Nat, damaged : Nat, lost : Nat, repeated : Nat, overtook : Nat]
      /\ channel'.intact = a /\ channel'.damaged = b /\ channel'.lost = e
      /\ channel'.repeated = c /\ channel'.overtook = d
  BY <1>3, <1>7, <1>8
<1> QED
  BY <1>9 DEF a, b, c, d, e

LEMMA DeliverKeeps ==
  ASSUME Conditions, NEW num, LinkInv(num), NEW i, NEW again \in BOOLEAN, Deliver(i, again)
  PROVE  /\ LinkInv(num)' /\ Idle /\ i \in 1 .. Len(wire)
         /\ wire[i].intact => GoodDue(num)'
         /\ ~wire[i].intact => Settled'
<1> DEFINE q == wire[i]
<1>1. /\ arriving = <<>> /\ i \in 1 .. Len(wire) /\ arriving' = q.bytes /\ from' = q.made_in
      /\ UNCHANGED <<seq, gstats, turn, outbox, gen, sink>>
      /\ UNCHANGED <<vars, last_seq, stats, accepted>>
      /\ i > 1 \/ again => sink = "udp"
      /\ wire' = IF again THEN wire ELSE Without(i)
  BY DEF Deliver
<1>2. /\ GenTyped /\ Sent(num) /\ ReceiverTyped /\ num \in [Nat -> Byte] /\ Len(wire) \in Nat
      /\ q \in Piece /\ q.bytes \in Seq(Byte) /\ q.made_in \in Nat /\ q.intact \in BOOLEAN
  BY <1>1, PieceFacts DEF LinkInv, Sent, GenTyped
<1>3. Idle
  <2>1. wire # <<>>
    BY <1>1
  <2> QED
    BY <1>1, <2>1, WaitingIdle
<1>4. buf = <<>> /\ Settled /\ Counted(0, 0)
  BY <1>3 DEF Idle
<1>5. /\ channel' \in [intact : Nat, damaged : Nat, lost : Nat, repeated : Nat, overtook : Nat]
      /\ channel'.intact = channel.intact + IF q.intact THEN 1 ELSE 0
      /\ channel'.damaged = channel.damaged + IF q.intact THEN 0 ELSE 1
  BY <1>2, DeliveryCounts
<1>6. Unheard' = q.bytes
  <2>1. buf' = <<>> /\ arriving' = q.bytes
    BY <1>1, <1>4 DEF vars
  <2>2. <<>> \o q.bytes = q.bytes
    BY <1>2, ConcatEmptySeq
  <2> QED
    BY <2>1, <2>2 DEF Unheard
<1>7. GenTyped' /\ Sent(num)' /\ (again \/ Len(wire') = Len(wire) - 1)
  <2>1. CASE again
    BY <1>1, <1>2, <2>1, SameSent
  <2>2. CASE ~again
    BY <1>1, <1>2, <2>2, LessSent
  <2> QED
    BY <2>1, <2>2
<1>8. ReceiverTyped'
  BY <1>1, <1>2, <1>5 DEF ReceiverTyped, vars
<1>9. Sound(q, num) \/ Torn(i)
  BY <1>1, <1>2 DEF Sent
<1>10. (from <= turn)'
  BY <1>1, <1>9 DEF Sound, Torn
<1>11. stats' = stats /\ stats.ok + stats.seq_gap = channel.intact /\ channel.intact \in Nat
       /\ channel.damaged \in Nat /\ stats.crc_fail \in Nat
  BY <1>1, <1>2, <1>4 DEF Settled, ReceiverTyped
<1> HIDE DEF q
<1>12. CASE q.intact /\ Sound(q, num)
  <2>1. PICK p \in Payloads : q.bytes = Encoded(num[from'], p)
    BY <1>1, <1>12 DEF Sound
  <2>2. arriving' # <<>>
    <3>1. FirstZero(q.bytes, Len(q.bytes))
      BY <1>1, <1>2, <2>1, EncodedShape
    <3> QED
      BY <1>1, <3>1, EmptySeq DEF FirstZero
  <2>3. Counted(0, 0)'
    BY <1>4, <1>5, <1>11, <1>12 DEF Counted
  <2>4. GoodDue(num)'
    BY <1>5, <1>6, <1>11, <1>12, <2>1, <2>2, <2>3 DEF GoodDue
  <2> QED
    BY <1>1, <1>3, <1>7, <1>8, <1>10, <1>12, <2>4 DEF LinkInv, Heard, q
<1>13. CASE ~q.intact
  <2>1. channel'.damaged = channel.damaged + 1 /\ channel'.intact = channel.intact
    BY <1>5, <1>11, <1>13
  <2>2. Counted(0, 1)' /\ Counted(0, 2)' /\ Counted(1, 0)'
    BY <1>2, <1>4, <1>11, <2>1, CountMore
  <2>3. Settled'
    BY <1>11, <2>1 DEF Settled
  <2>4. CASE Sound(q, num)
    <3>1. Damaged(q.bytes)
      BY <1>13, <2>4 DEF Sound
    <3>2. arriving' # <<>>
      BY <1>1, <3>1, DamagedShape
    <3>3. OneLeft(Unheard, 1)' \/ TwoLeft(Unheard, 1)' \/ TwoLeft(Unheard, 2)'
      BY <1>6, <3>1 DEF Damaged
    <3>4. BadDue'
      BY <2>2, <2>3, <3>2, <3>3 DEF BadDue
    <3> QED
      BY <1>1, <1>3, <1>7, <1>8, <1>10, <1>13, <2>3, <3>4 DEF LinkInv, Heard, q
  <2>5. CASE Torn(i)
    <3>1. i = Len(wire) /\ sink = "stream" /\ gen = "failed" /\ Severed(q.bytes)
      BY <2>5 DEF Torn, q
    <3>2. wire' = <<>>
      <4>1. ~again /\ ~(i > 1)
        BY <1>1, <3>1
      <4>2. Len(wire') = 0
        BY <1>1, <1>2, <1>7, <3>1, <4>1
      <4> QED
        BY <1>7, <4>2, EmptySeq DEF GenTyped
    <3>3. Unheard' # <<>> /\ (Unclosed(Unheard)' \/ Half(Unheard)')
      BY <1>6, <3>1 DEF Severed
    <3>4. BrokenOff'
      BY <1>1, <2>2, <2>3, <3>1, <3>2, <3>3 DEF BrokenOff
    <3> QED
      BY <1>1, <1>3, <1>7, <1>8, <1>10, <1>13, <2>3, <3>4 DEF LinkInv, Heard, q
  <2> QED
    BY <1>9, <2>4, <2>5
<1>14. Torn(i) => ~q.intact
  BY DEF Torn, q
<1> QED
  BY <1>9, <1>12, <1>13, <1>14

LEMMA LoseKeeps ==
  ASSUME NEW num, LinkInv(num), NEW i, Lose(i)
  PROVE  LinkInv(num)'
<1>1. /\ i \in 1 .. Len(wire) /\ sink = "udp" /\ wire' = Without(i)
      /\ channel' = [channel EXCEPT !.lost = @ + 1]
      /\ UNCHANGED <<seq, gstats, turn, outbox, gen, sink, vars, rvars>>
  BY DEF Lose
<1>2. GenTyped /\ Sent(num) /\ ReceiverTyped /\ Heard(num)
  BY DEF LinkInv
<1>3. GenTyped' /\ Sent(num)'
  BY <1>1, <1>2, LessSent
<1>4. channel \in [intact : Nat, damaged : Nat, lost : Nat, repeated : Nat, overtook : Nat]
  BY <1>2 DEF ReceiverTyped
<1>5. /\ channel' \in [intact : Nat, damaged : Nat, lost : Nat, repeated : Nat, overtook : Nat]
      /\ channel'.intact = channel.intact /\ channel'.damaged = channel.damaged
  BY <1>1, <1>4
<1>6. UNCHANGED <<arriving, from, last_seq, stats, accepted, buf, state, turn>>
  BY <1>1 DEF vars, rvars
<1>7. ReceiverTyped'
  BY <1>2, <1>5, <1>6 DEF ReceiverTyped
<1>8. ~BrokenOff
  BY <1>1 DEF BrokenOff
<1>9. /\ Idle => Idle'
      /\ GoodDue(num) => GoodDue(num)'
      /\ BadDue => BadDue'
  BY <1>5, <1>6 DEF Idle, GoodDue, BadDue, Settled, Counted, Unheard
<1>10. Heard(num)'
  BY <1>2, <1>6, <1>8, <1>9 DEF Heard
<1> QED
  BY <1>3, <1>7, <1>10 DEF LinkInv

\* What is left of a stream that breaks off: the pieces before some place, as
\* they were, and perhaps a part of the one there.
LEMMA BrokenWire ==
  ASSUME Conditions, NEW num, LinkInv(num), Break
  PROVE  /\ wire' \in Seq(Piece) /\ Len(wire') <= Len(wire)
         /\ \A k \in 1 .. Len(wire') : wire'[k].made_in = wire[k].made_in
         /\ \A k \in 1 .. Len(wire') : Sound(wire[k], num)' \/ Torn(k)'
<1>1. /\ GenTyped /\ Sent(num) /\ wire \in Seq(Piece) /\ num \in [Nat -> Byte]
      /\ Len(wire) \in Nat /\ \A k \in 1 .. Len(wire) : wire[k] \in Piece
  BY PieceFacts DEF LinkInv, GenTyped, Sent
<1>2. /\ gen = "failed" /\ sink = "stream"
      /\ UNCHANGED <<turn, gen, sink>>
  BY DEF Break
<1>3. PICK k \in 1 .. Len(wire) :
        \/ wire' = SubSeq(wire, 1, k - 1)
        \/ \E n \in 1 .. Len(wire[k].bytes) - 1 :
             wire' = Append(SubSeq(wire, 1, k - 1), Part(wire[k], n))
  BY DEF Break
<1> DEFINE a == SubSeq(wire, 1, k - 1)
<1>4. a \in Seq(Piece) /\ Len(a) = k - 1 /\ \A j \in 1 .. k - 1 : a[j] = wire[j]
  BY <1>1, PiecesBefore
<1>5. \A j \in 1 .. k - 1 : j \in 1 .. Len(wire) /\ Sound(wire[j], num)
  BY <1>1 DEF Sent, Torn
<1>6. wire' = a \/ \E n \in 1 .. Len(wire[k].bytes) - 1 : wire' = Append(a, Part(wire[k], n))
  BY <1>3
<1>7. k - 1 \in Nat /\ k <= Len(wire)
  BY <1>1
<1> HIDE DEF a
<1>8. CASE wire' = a
  BY <1>2, <1>4, <1>5, <1>7, <1>8 DEF Sound
<1>9. CASE \E n \in 1 .. Len(wire[k].bytes) - 1 : wire' = Append(a, Part(wire[k], n))
  <2> DEFINE q == wire[k]
  <2>1. PICK n \in 1 .. Len(q.bytes) - 1 : wire' = Append(a, Part(q, n))
    BY <1>9
  <2>2. q \in Piece /\ (Sound(q, num) \/ Severed(q.bytes)) /\ q.made_in <= turn
    BY <1>1 DEF Sent, Sound, Torn
  <2> DEFINE part == Part(q, n)
  <2>3. n \in 1 .. Len(q.bytes) - 1 /\ wire' = Append(a, part)
    BY <2>1
  <2> HIDE DEF q
  <2>4. part \in Piece /\ part.made_in = q.made_in /\ ~part.intact /\ Severed(part.bytes)
    BY <1>1, <2>2, <2>3, PartIs
  <2> HIDE DEF part
  <2>5. /\ wire' \in Seq(Piece) /\ Len(wire') = k
        /\ \A j \in 1 .. k - 1 : wire'[j] = wire[j]
        /\ wire'[k] = part
    <3>1. /\ wire' \in Seq(Piece) /\ Len(wire') = Len(a) + 1
          /\ \A j \in 1 .. Len(a) : wire'[j] = a[j]
          /\ wire'[Len(a) + 1] = part
      BY <1>4, <2>3, <2>4, AppendProperties
    <3>2. (k - 1) + 1 = k
      BY <1>7
    <3> QED
      BY <1>4, <3>1, <3>2
  <2>6. ASSUME NEW j \in 1 .. Len(wire')
        PROVE  wire'[j].made_in = wire[j].made_in /\ (Sound(wire[j], num)' \/ Torn(j)')
    <3>1. CASE j \in 1 .. k - 1
      BY <1>2, <1>5, <2>5, <3>1 DEF Sound
    <3>2. CASE j = k
      <4>1. wire'[j].made_in = wire[j].made_in
        BY <2>4, <2>5, <3>2 DEF q
      <4>2. Torn(j)'
        BY <1>2, <2>2, <2>4, <2>5, <3>2 DEF Torn
      <4> QED
        BY <4>1, <4>2
    <3> QED
      BY <1>7, <2>5, <3>1, <3>2
  <2> QED
    BY <1>7, <2>5, <2>6
<1> QED
  BY <1>6, <1>8, <1>9

LEMMA BreakKeeps ==
  ASSUME Conditions, NEW num, LinkInv(num), Break
  PROVE  LinkInv(num)'
<1>1. /\ gen = "failed" /\ wire # <<>>
      /\ UNCHANGED <<seq, gstats, turn, outbox, gen, sink>> /\ UNCHANGED <<vars, rvars, channel>>
  BY DEF Break
<1>2. GenTyped /\ Sent(num) /\ ReceiverTyped /\ Heard(num)
  BY DEF LinkInv
<1>3. /\ wire' \in Seq(Piece)
      /\ \A k \in 1 .. Len(wire') : Sound(wire[k], num)' \/ Torn(k)'
  BY BrokenWire
<1>4. GenTyped' /\ Sent(num)'
  BY <1>1, <1>2, <1>3 DEF GenTyped, Sent, Sound
<1>5. UNCHANGED <<arriving, from, last_seq, stats, accepted, buf, state, turn, channel>>
  BY <1>1 DEF vars, rvars
<1>6. ReceiverTyped'
  BY <1>2, <1>5 DEF ReceiverTyped
<1>7. ~BrokenOff
  BY <1>1 DEF BrokenOff
<1>8. /\ Idle => Idle'
      /\ GoodDue(num) => GoodDue(num)'
      /\ BadDue => BadDue'
  BY <1>5 DEF Idle, GoodDue, BadDue, Settled, Counted, Unheard
<1>9. Heard(num)'
  BY <1>2, <1>5, <1>7, <1>8 DEF Heard
<1> QED
  BY <1>4, <1>6, <1>9 DEF LinkInv

LEMMA NothingKeeps ==
  ASSUME NEW num, LinkInv(num), UNCHANGED lvars
  PROVE  LinkInv(num)'
<1>1. /\ UNCHANGED <<seq, gstats, turn, outbox, gen, sink, wire>>
      /\ UNCHANGED <<arriving, from, last_seq, stats, accepted, buf, state, channel>>
  BY DEF lvars, gvars, vars, rvars
<1>2. GenTyped /\ Sent(num) /\ ReceiverTyped /\ Heard(num)
  BY DEF LinkInv
<1>3. GenTyped' /\ Sent(num)'
  BY <1>1, <1>2, SameSent
<1>4. ReceiverTyped'
  BY <1>1, <1>2 DEF ReceiverTyped
<1>5. Idle' = Idle /\ GoodDue(num)' = GoodDue(num) /\ BadDue' = BadDue /\ BrokenOff' = BrokenOff
  BY <1>1 DEF Idle, GoodDue, BadDue, BrokenOff, Settled, Counted, Unheard
<1>6. Heard(num)'
  BY <1>1, <1>2, <1>5 DEF Heard
<1> QED
  BY <1>3, <1>4, <1>6 DEF LinkInv

LEMMA LinkStarts ==
  ASSUME LinkInit
  PROVE  LinkInv([t \in Nat |-> 0])
<1> DEFINE num == [t \in Nat |-> 0]
<1>1. 0 \in Byte
  BY MaxByteAssumption DEF Byte
<1>2. num \in [Nat -> Byte]
  BY <1>1
<1> HIDE DEF num
<1>3. GenTyped /\ Sent(num)
  BY <1>1, <1>2, GeneratorAssumption DEF LinkInit, GeneratorInit, GenTyped, Sent
<1>4. ReceiverTyped /\ Heard(num)
  BY DEF LinkInit, GeneratorInit, Init, ReceiverTyped, Heard, Idle, NoZero, Settled, Counted
<1> QED
  BY <1>3, <1>4 DEF LinkInv, num

-----------------------------------------------------------------------------
(* The order of a stream. *)

\* What is under way is in the order of the turns and not before what was
\* received; what was accepted is before what is received, or is the frame
\* that the sequence check heard last.
Ordered ==
  /\ \A k, l \in 1 .. Len(wire) : k < l => wire[k].made_in <= wire[l].made_in
  /\ \A k \in 1 .. Len(wire) : from <= wire[k].made_in

AcceptedOnce(num) ==
  /\ \A i, j \in 1 .. Len(accepted) : i < j => accepted[i] < accepted[j]
  /\ \A i \in 1 .. Len(accepted) :
       accepted[i] <= from /\ (accepted[i] = from => last_seq = num[from])

InOrder(num) ==
  /\ \A k \in 1 .. Len(outbox) : outbox[k].made_in = turn
  /\ sink = "stream" => Ordered /\ AcceptedOnce(num)

LEMMA NatLess ==
  ASSUME NEW num, LinkInv(num)
  PROVE  /\ Len(wire) \in Nat /\ Len(outbox) \in Nat /\ Len(accepted) \in Nat
         /\ turn \in Nat /\ from \in Nat /\ from <= turn
         /\ \A k \in 1 .. Len(wire) : wire[k].made_in \in Nat /\ wire[k].made_in <= turn
         /\ \A k \in 1 .. Len(outbox) : outbox[k].made_in \in Nat
         /\ \A k \in 1 .. Len(accepted) : accepted[k] \in Nat
<1>1. /\ wire \in Seq(Piece) /\ outbox \in Seq(Piece) /\ accepted \in Seq(Nat)
      /\ turn \in Nat /\ from \in Nat /\ from <= turn
      /\ \A k \in 1 .. Len(wire) : Sound(wire[k], num) \/ Torn(k)
  BY DEF LinkInv, GenTyped, ReceiverTyped, Sent, Heard
<1>2. /\ Len(wire) \in Nat /\ \A k \in 1 .. Len(wire) : wire[k].made_in \in Nat
      /\ Len(outbox) \in Nat /\ \A k \in 1 .. Len(outbox) : outbox[k].made_in \in Nat
  BY <1>1, PieceFacts
<1>3. Len(accepted) \in Nat /\ \A k \in 1 .. Len(accepted) : accepted[k] \in Nat
  BY <1>1, LenProperties, ElementOfSeq
<1> QED
  BY <1>1, <1>2, <1>3 DEF Sound, Torn

LEMMA MakeFrameOrder ==
  ASSUME NEW num, LinkInv(num), InOrder(num), Sending(MakeFrame), NEW s \in Byte, NEW p \in Payloads,
         NEW extra \in Nat, NEW gap \in {0, 1}, TurnGives(s, p, extra, gap),
         NEW num2, num2 = [num EXCEPT ![turn + 1] = s]
  PROVE  InOrder(num2)'
<1>1. /\ UNCHANGED <<sink, wire>> /\ UNCHANGED <<from, last_seq, accepted>>
      /\ turn' = turn + 1 /\ \A k \in 1 .. Len(outbox') : outbox'[k].made_in = turn + 1
  BY DEF TurnGives, Fresh, Sending, rvars
<1>2. from \in Nat /\ turn \in Nat /\ from <= turn /\ num \in [Nat -> Byte]
  BY DEF LinkInv, Sent, GenTyped, ReceiverTyped, Heard
<1>3. num2[from] = num[from]
  BY <1>2
<1> QED
  BY <1>1, <1>3 DEF InOrder, Ordered, AcceptedOnce

\* A piece of the last turn joins those under way.
LEMMA JoinsOrder ==
  ASSUME NEW num, LinkInv(num), InOrder(num), NEW q \in Piece, q.made_in = turn,
         wire' = Append(wire, q), UNCHANGED <<from, last_seq, accepted, sink, turn>>
  PROVE  (sink = "stream" => Ordered /\ AcceptedOnce(num))'
<1>1. /\ wire \in Seq(Piece) /\ Len(wire) \in Nat /\ turn \in Nat /\ from <= turn
      /\ \A k \in 1 .. Len(wire) : wire[k].made_in \in Nat /\ wire[k].made_in <= turn
  BY NatLess DEF LinkInv, GenTyped
<1>2. /\ Len(wire') = Len(wire) + 1 /\ wire'[Len(wire) + 1] = q
      /\ \A k \in 1 .. Len(wire) : wire'[k] = wire[k]
  BY <1>1, AppendProperties
<1>3. ASSUME sink = "stream"
      PROVE  Ordered'
  <2>1. /\ \A k, l \in 1 .. Len(wire) : k < l => wire[k].made_in <= wire[l].made_in
        /\ \A k \in 1 .. Len(wire) : from <= wire[k].made_in
    BY <1>3 DEF InOrder, Ordered
  <2>2. \A k \in 1 .. Len(wire') : k \in 1 .. Len(wire) \/ k = Len(wire) + 1
    BY <1>1, <1>2
  <2>3. ASSUME NEW k \in 1 .. Len(wire'), NEW l \in 1 .. Len(wire'), k < l
        PROVE  wire'[k].made_in <= wire'[l].made_in
    <3>1. k \in 1 .. Len(wire)
      BY <1>1, <1>2, <2>3
    <3>2. CASE l \in 1 .. Len(wire)
      BY <1>2, <2>1, <2>3, <3>1, <3>2
    <3>3. CASE l = Len(wire) + 1
      BY <1>1, <1>2, <3>1, <3>3
    <3> QED
      BY <2>2, <3>2, <3>3
  <2>4. ASSUME NEW k \in 1 .. Len(wire')
        PROVE  from <= wire'[k].made_in
    BY <1>1, <1>2, <2>1, <2>2
  <2> QED
    BY <2>3, <2>4 DEF Ordered
<1> QED
  BY <1>3 DEF InOrder, AcceptedOnce

LEMMA EmitOrder ==
  ASSUME NEW num, LinkInv(num), InOrder(num), Sending(Emit)
  PROVE  InOrder(num)'
<1>1. /\ wire' = Append(wire, Head(outbox)) /\ outbox' = Tail(outbox) /\ outbox # <<>>
      /\ UNCHANGED <<from, last_seq, accepted, sink, turn>> /\ outbox \in Seq(Piece)
  BY DEF Sending, Emit, rvars, LinkInv, GenTyped
<1>2. /\ Head(outbox) \in Piece /\ Head(outbox).made_in = turn
      /\ \A k \in 1 .. Len(outbox') : k + 1 \in 1 .. Len(outbox) /\ outbox'[k] = outbox[k + 1]
  BY <1>1, HeadIs, PieceFacts DEF InOrder
<1>3. (sink = "stream" => Ordered /\ AcceptedOnce(num))'
  BY <1>1, <1>2, JoinsOrder
<1>4. \A k \in 1 .. Len(outbox') : outbox'[k].made_in = turn'
  BY <1>1, <1>2 DEF InOrder
<1> QED
  BY <1>3, <1>4 DEF InOrder

LEMMA EmitFailsOrder ==
  ASSUME Conditions, NEW num, LinkInv(num), InOrder(num), Sending(EmitFails)
  PROVE  InOrder(num)'
<1>1. /\ outbox' = <<>> /\ outbox # <<>> /\ gen = "running"
      /\ UNCHANGED <<from, last_seq, accepted, sink, turn>> /\ outbox \in Seq(Piece)
  BY DEF Sending, EmitFails, rvars, LinkInv, GenTyped
<1>2. CASE wire' = wire
  BY <1>1, <1>2 DEF InOrder, Ordered, AcceptedOnce
<1>3. CASE \E n \in 1 .. Len(Head(outbox).bytes) - 1 :
             wire' = Append(wire, Part(Head(outbox), n))
  <2> DEFINE q == Head(outbox)
  <2>1. PICK n \in 1 .. Len(q.bytes) - 1 : wire' = Append(wire, Part(q, n))
    BY <1>3
  <2>2. q = outbox[1] /\ 1 \in 1 .. Len(outbox) /\ q \in Piece /\ q.made_in = turn
    BY <1>1, HeadIs, PieceFacts DEF InOrder
  <2>3. Sound(q, num) /\ num \in [Nat -> Byte]
    BY <2>2 DEF LinkInv, Sent
  <2>4. n \in 1 .. Len(q.bytes) - 1
    BY <2>1
  <2> HIDE DEF q
  <2>5. Part(q, n) \in Piece /\ Part(q, n).made_in = turn
    BY <2>2, <2>3, <2>4, PartIs
  <2>6. (sink = "stream" => Ordered /\ AcceptedOnce(num))'
    BY <1>1, <2>1, <2>5, JoinsOrder
  <2>7. Len(outbox') = 0
    BY <1>1
  <2> QED
    BY <2>6, <2>7 DEF InOrder
<1> QED
  BY <1>2, <1>3 DEF Sending, EmitFails

LEMMA DeliverOrder ==
  ASSUME NEW num, LinkInv(num), InOrder(num), NEW i, NEW again \in BOOLEAN, Deliver(i, again)
  PROVE  InOrder(num)'
<1>1. /\ i \in 1 .. Len(wire) /\ from' = wire[i].made_in
      /\ i > 1 \/ again => sink = "udp"
      /\ wire' = IF again THEN wire ELSE Without(i)
      /\ UNCHANGED <<turn, outbox, sink, last_seq, accepted>>
  BY DEF Deliver
<1>2. /\ wire \in Seq(Piece) /\ Len(wire) \in Nat /\ from \in Nat /\ Len(accepted) \in Nat
      /\ \A k \in 1 .. Len(wire) : wire[k].made_in \in Nat
      /\ \A k \in 1 .. Len(accepted) : accepted[k] \in Nat
  BY NatLess DEF LinkInv, GenTyped
<1>3. ASSUME sink = "stream"
      PROVE  Ordered' /\ AcceptedOnce(num)'
  <2>1. ~again /\ i = 1
    BY <1>1, <1>2, <1>3
  <2>2. /\ Len(wire') = Len(wire) - 1
        /\ \A k \in 1 .. Len(wire') : k + 1 \in 1 .. Len(wire) /\ wire'[k] = wire[k + 1]
    <3>1. wire' = Without(1) /\ 1 \in 1 .. Len(wire)
      BY <1>1, <2>1
    <3>2. /\ Len(wire') = Len(wire) - 1
          /\ \A k \in 1 .. Len(wire') :
               IF k < 1 THEN wire'[k] = wire[k] ELSE k + 1 \in 1 .. Len(wire) /\ wire'[k] = wire[k + 1]
      BY <1>2, <3>1, WithoutIs
    <3>3. \A k \in 1 .. Len(wire') : ~(k < 1)
      BY <1>2, <3>2
    <3> QED
      BY <3>2, <3>3
  <2>3. Ordered /\ AcceptedOnce(num)
    BY <1>3 DEF InOrder
  <2>4. Ordered'
    <3>1. ASSUME NEW k \in 1 .. Len(wire'), NEW l \in 1 .. Len(wire'), k < l
          PROVE  wire'[k].made_in <= wire'[l].made_in
      <4>1. k + 1 < l + 1
        BY <1>2, <2>2, <3>1
      <4> QED
        BY <2>2, <2>3, <4>1 DEF Ordered
    <3>2. ASSUME NEW k \in 1 .. Len(wire')
          PROVE  from' <= wire'[k].made_in
      <4>1. 1 < k + 1 /\ 1 \in 1 .. Len(wire)
        BY <1>1, <1>2, <2>1, <2>2
      <4> QED
        BY <1>1, <2>1, <2>2, <2>3, <4>1 DEF Ordered
    <3> QED
      BY <3>1, <3>2 DEF Ordered
  <2>5. from <= from' /\ from' \in Nat
    BY <1>1, <1>2, <2>3 DEF Ordered
  <2>6. ASSUME NEW k \in 1 .. Len(accepted)
        PROVE  accepted[k] <= from' /\ (accepted[k] = from' => last_seq = num[from'])
    <3>1. accepted[k] <= from /\ (accepted[k] = from => last_seq = num[from])
      BY <2>3 DEF AcceptedOnce
    <3>2. accepted[k] = from' => from' = from
      BY <1>2, <2>5, <3>1
    <3> QED
      BY <1>2, <2>5, <3>1, <3>2
  <2>7. AcceptedOnce(num)'
    BY <1>1, <2>3, <2>6 DEF AcceptedOnce
  <2> QED
    BY <2>4, <2>7
<1> QED
  BY <1>1, <1>3 DEF InOrder

\* The number of a frame never follows on itself.
LEMMA SuccDiffers ==
  ASSUME NEW n \in Byte
  PROVE  Succ(n) # n
<1>1. n \in Nat /\ MaxByte \in Nat /\ n <= MaxByte /\ MaxByte >= 2
  BY MaxByteAssumption DEF Byte
<1>2. \A a, m \in Nat : a <= m => a % (m + 1) = a
  OBVIOUS
<1>3. \A m \in Nat : (m + 1) % (m + 1) = 0
  OBVIOUS
<1>4. CASE n = MaxByte
  BY <1>1, <1>3, <1>4 DEF Succ
<1>5. CASE n # MaxByte
  <2>1. n + 1 \in Nat /\ n + 1 <= MaxByte
    BY <1>1, <1>5
  <2>2. Succ(n) = n + 1
    BY <1>1, <1>2, <2>1 DEF Succ
  <2> QED
    BY <1>1, <2>2
<1> QED
  BY <1>4, <1>5

LEMMA ReceiveOrder ==
  ASSUME Conditions, NEW num, LinkInv(num), InOrder(num), Receive
  PROVE  InOrder(num)'
<1>1. /\ UNCHANGED <<turn, outbox, sink, wire, from>>
      /\ \/ Passing
         \/ Completed(num)
  BY ReceiveKeeps DEF gvars
<1>2. CASE Passing
  BY <1>1, <1>2 DEF InOrder, Ordered, AcceptedOnce, Passing
<1>3. CASE Completed(num)
  <2>1. /\ accepted \in Seq(Nat) /\ Len(accepted) \in Nat /\ from \in Nat /\ num[from] \in Byte
        /\ \A k \in 1 .. Len(accepted) : accepted[k] \in Nat
    BY NatLess DEF LinkInv, ReceiverTyped, Sent
  <2>2. last_seq' = num[from]
    BY <1>3 DEF Completed
  <2>3. CASE accepted' = accepted
    BY <1>1, <2>2, <2>3 DEF InOrder, Ordered, AcceptedOnce
  <2>4. CASE accepted' = Append(accepted, from) /\ (last_seq = None \/ num[from] = Succ(last_seq))
    <3>1. /\ Len(accepted') = Len(accepted) + 1 /\ accepted'[Len(accepted) + 1] = from
          /\ \A k \in 1 .. Len(accepted) : accepted'[k] = accepted[k]
      BY <2>1, <2>4, AppendProperties
    <3>2. last_seq # num[from]
      <4>1. num[from] # Succ(num[from]) /\ num[from] # None
        BY <2>1, SuccDiffers, LinkAssumption
      <4> QED
        BY <2>4, <4>1
    <3>3. ASSUME sink = "stream"
          PROVE  AcceptedOnce(num)'
      <4>1. AcceptedOnce(num)
        BY <3>3 DEF InOrder
      <4>2. \A k \in 1 .. Len(accepted) : accepted[k] < from
        BY <2>1, <3>2, <4>1 DEF AcceptedOnce
      <4>3. \A k \in 1 .. Len(accepted') : k \in 1 .. Len(accepted) \/ k = Len(accepted) + 1
        BY <2>1, <3>1
      <4>4. ASSUME NEW k \in 1 .. Len(accepted'), NEW l \in 1 .. Len(accepted'), k < l
            PROVE  accepted'[k] < accepted'[l]
        <5>1. k \in 1 .. Len(accepted)
          BY <2>1, <3>1, <4>4
        <5>2. CASE l \in 1 .. Len(accepted)
          BY <3>1, <4>1, <4>4, <5>1, <5>2 DEF AcceptedOnce
        <5>3. CASE l = Len(accepted) + 1
          BY <3>1, <4>2, <5>1, <5>3
        <5> QED
          BY <4>3, <5>2, <5>3
      <4>5. ASSUME NEW k \in 1 .. Len(accepted')
            PROVE  accepted'[k] <= from
        BY <2>1, <3>1, <4>2, <4>3
      <4> QED
        BY <1>1, <2>2, <4>4, <4>5 DEF AcceptedOnce
    <3> QED
      BY <1>1, <3>3 DEF InOrder, Ordered
  <2> QED
    BY <1>3, <2>3, <2>4 DEF Completed
<1> QED
  BY <1>1, <1>2, <1>3

-----------------------------------------------------------------------------
(* Breaks in a sequence of sequence numbers. *)

BreaksOf(c) == {k \in 1 .. Len(c) - 1 : c[k + 1] # Succ(c[k])}
Breaks(c) == Cardinality(BreaksOf(c))

\* The break between the last number of x and the first of y, if there is one.
Seam(x, y) == IF x # <<>> /\ y # <<>> /\ y[1] # Succ(x[Len(x)]) THEN 1 ELSE 0

LEMMA BreaksBound ==
  ASSUME NEW c \in Seq(Byte)
  PROVE  /\ IsFiniteSet(BreaksOf(c)) /\ Breaks(c) \in Nat
         /\ Len(c) <= 1 => Breaks(c) = 0
         /\ Len(c) >= 1 => Breaks(c) <= Len(c) - 1
<1> DEFINE n == Len(c) - 1
<1>1. Len(c) \in Nat /\ n \in Int /\ 1 \in Int
  BY ByteFacts
<1>2. BreaksOf(c) \in SUBSET (1 .. n)
  BY DEF BreaksOf
<1>3. IsFiniteSet(1 .. n) /\ Cardinality(1 .. n) = IF 1 > n THEN 0 ELSE n - 1 + 1
  <2> HIDE DEF n
  <2> QED
    BY <1>1, FS_Interval
<1>4. IsFiniteSet(BreaksOf(c)) /\ Cardinality(BreaksOf(c)) <= Cardinality(1 .. n)
  BY <1>2, <1>3, FS_Subset
<1>5. Cardinality(BreaksOf(c)) \in Nat
  BY <1>4, FS_CardinalityType
<1>6. Len(c) <= 1 => Cardinality(1 .. n) = 0
  BY <1>1, <1>3
<1>7. Len(c) >= 1 => Cardinality(1 .. n) = n
  BY <1>1, <1>3
<1> HIDE DEF n
<1>8. Len(c) <= 1 => Cardinality(BreaksOf(c)) = 0
  BY <1>4, <1>5, <1>6
<1>9. Len(c) >= 1 => Cardinality(BreaksOf(c)) <= n
  BY <1>4, <1>7
<1> QED
  BY <1>4, <1>5, <1>8, <1>9 DEF Breaks, n

LEMMA ShortUnbroken ==
  ASSUME NEW c \in Seq(Byte), Len(c) <= 1
  PROVE  Breaks(c) = 0
  BY BreaksBound

\* Breaks of two sequences in a row.
LEMMA BreaksJoin ==
  ASSUME NEW x \in Seq(Byte), NEW y \in Seq(Byte)
  PROVE  /\ Breaks(x \o y) = Breaks(x) + Breaks(y) + Seam(x, y)
         /\ x \o y \in Seq(Byte) /\ Seam(x, y) \in {0, 1}
<1>1. /\ Breaks(x) \in Nat /\ Breaks(y) \in Nat /\ IsFiniteSet(BreaksOf(x)) /\ IsFiniteSet(BreaksOf(y))
      /\ Len(x) \in Nat /\ Len(y) \in Nat
  BY BreaksBound, ByteFacts
<1>2. /\ x \o y \in Seq(Byte) /\ Len(x \o y) = Len(x) + Len(y)
      /\ \A i \in 1 .. Len(x) : (x \o y)[i] = x[i]
      /\ \A i \in 1 .. Len(y) : (x \o y)[Len(x) + i] = y[i]
  BY ConcatBytes
<1>3. Seam(x, y) \in {0, 1}
  BY DEF Seam
<1>4. CASE x = <<>>
  <2>1. x \o y = y /\ Len(x) = 0
    BY <1>4, ConcatEmptySeq
  <2>2. Breaks(x) = 0
    <3>1. Len(x) <= 1
      BY <2>1
    <3> QED
      BY <3>1, ShortUnbroken
  <2>3. Seam(x, y) = 0
    BY <1>4 DEF Seam
  <2> QED
    BY <1>1, <1>2, <1>3, <2>1, <2>2, <2>3
<1>5. CASE y = <<>>
  <2>1. x \o y = x /\ Len(y) = 0
    BY <1>5, ConcatEmptySeq
  <2>2. Breaks(y) = 0
    <3>1. Len(y) <= 1
      BY <2>1
    <3> QED
      BY <3>1, ShortUnbroken
  <2>3. Seam(x, y) = 0
    BY <1>5 DEF Seam
  <2> QED
    BY <1>1, <1>2, <1>3, <2>1, <2>2, <2>3
<1>6. CASE x # <<>> /\ y # <<>>
  <2> DEFINE c == x \o y
             n == Len(x)
             A == BreaksOf(x)
             B == BreaksOf(y)
             E == IF y[1] # Succ(x[n]) THEN {n} ELSE {}
             sh == [k \in B |-> n + k]
             S == {n + k : k \in B}
  <2>1. n \in Nat /\ n >= 1 /\ Len(y) \in Nat /\ Len(y) >= 1
    BY <1>1, <1>6, EmptySeq
  <2>2. /\ A = {k \in 1 .. n - 1 : x[k + 1] # Succ(x[k])}
        /\ B = {k \in 1 .. Len(y) - 1 : y[k + 1] # Succ(y[k])}
    BY DEF BreaksOf
  <2>3. BreaksOf(c) = (A \cup E) \cup S
    <3>1. BreaksOf(c) = {k \in 1 .. Len(c) - 1 : c[k + 1] # Succ(c[k])}
      BY DEF BreaksOf
    <3>2. Len(c) = n + Len(y)
      BY <1>2
    <3>3. ASSUME NEW k \in 1 .. n - 1
          PROVE  c[k] = x[k] /\ c[k + 1] = x[k + 1]
      <4>1. k \in 1 .. n /\ k + 1 \in 1 .. n
        BY <2>1
      <4> QED
        BY <1>2, <4>1
    <3>4. c[n] = x[n] /\ c[n + 1] = y[1]
      BY <1>2, <2>1
    <3>5. ASSUME NEW k \in 1 .. Len(y) - 1
          PROVE  c[n + k] = y[k] /\ c[(n + k) + 1] = y[k + 1]
      <4>1. k \in 1 .. Len(y) /\ k + 1 \in 1 .. Len(y) /\ (n + k) + 1 = n + (k + 1)
        BY <2>1
      <4> QED
        BY <1>2, <4>1
    <3> HIDE DEF c, n, A, B
    <3>6. ASSUME NEW k \in BreaksOf(c)
          PROVE  k \in (A \cup E) \cup S
      <4>1. k \in 1 .. (n + Len(y)) - 1 /\ c[k + 1] # Succ(c[k])
        BY <3>1, <3>2, <3>6
      <4>2. CASE k \in 1 .. n - 1
        BY <2>2, <3>3, <4>1, <4>2
      <4>3. CASE k = n
        BY <3>4, <4>1, <4>3
      <4>4. CASE k > n
        <5> DEFINE j == k - n
        <5>1. j \in 1 .. Len(y) - 1 /\ k = n + j
          BY <2>1, <4>1, <4>4
        <5> HIDE DEF j
        <5>2. c[k] = y[j] /\ c[k + 1] = y[j + 1]
          BY <3>5, <5>1
        <5>3. j \in B
          BY <2>2, <4>1, <5>1, <5>2
        <5> QED
          BY <5>1, <5>3
      <4> QED
        BY <2>1, <4>1, <4>2, <4>3, <4>4
    <3>7. ASSUME NEW k \in (A \cup E) \cup S
          PROVE  k \in BreaksOf(c)
      <4>1. CASE k \in A
        <5>1. k \in 1 .. n - 1 /\ x[k + 1] # Succ(x[k])
          BY <2>2, <4>1
        <5>2. k \in 1 .. Len(c) - 1
          BY <2>1, <3>2, <5>1
        <5> QED
          BY <3>1, <3>3, <5>1, <5>2
      <4>2. CASE k \in E
        <5>1. k = n /\ y[1] # Succ(x[n])
          BY <4>2
        <5>2. k \in 1 .. Len(c) - 1
          BY <2>1, <3>2, <5>1
        <5> QED
          BY <3>1, <3>4, <5>1, <5>2
      <4>3. CASE k \in S
        <5>1. PICK j \in B : k = n + j
          BY <4>3
        <5>2. j \in 1 .. Len(y) - 1 /\ y[j + 1] # Succ(y[j])
          BY <2>2, <5>1
        <5>3. k \in 1 .. Len(c) - 1
          BY <2>1, <3>2, <5>1, <5>2
        <5> QED
          BY <3>1, <3>5, <5>1, <5>2, <5>3
      <4> QED
        BY <3>7, <4>1, <4>2, <4>3
    <3> QED
      BY <3>6, <3>7
  <2>4. A \subseteq 1 .. n - 1 /\ B \subseteq 1 .. Len(y) - 1
    BY <2>2
  <2>5. Breaks(x) = Cardinality(A) /\ Breaks(y) = Cardinality(B) /\ Breaks(c) = Cardinality(BreaksOf(c))
    BY DEF Breaks
  <2>6. Seam(x, y) = IF y[1] # Succ(x[n]) THEN 1 ELSE 0
    BY <1>6 DEF Seam
  <2>7. IsFiniteSet(A) /\ IsFiniteSet(B)
    BY <1>1
  <2> HIDE DEF c, n, A, B, S
  <2>8. IsFiniteSet(A \cup E) /\ Cardinality(A \cup E) = Cardinality(A) + Seam(x, y)
    <3>1. CASE y[1] # Succ(x[n])
      <4>1. n \notin A
        BY <2>1, <2>4
      <4>2. E = {n} /\ Seam(x, y) = 1
        BY <2>6, <3>1
      <4> QED
        BY <2>7, <4>1, <4>2, FS_AddElement
    <3>2. CASE ~(y[1] # Succ(x[n]))
      <4>1. E = {} /\ Seam(x, y) = 0
        BY <2>6, <3>2
      <4> HIDE DEF E
      <4>2. A \cup E = A
        BY <4>1
      <4>3. Cardinality(A) \in Nat
        BY <1>1, <2>5
      <4> QED
        BY <2>7, <4>1, <4>2, <4>3
    <3> QED
      BY <3>1, <3>2
  <2>9. IsFiniteSet(S) /\ Cardinality(S) = Cardinality(B)
    <3>1. sh \in Bijection(B, S)
      <4>1. \A k \in B : k \in Nat
        BY <2>1, <2>4
      <4>2. \A j, k \in B : sh[j] = sh[k] => j = k
        BY <2>1, <4>1
      <4>3. sh \in [B -> S] /\ \A t \in S : \E k \in B : sh[k] = t
        BY DEF S
      <4>4. DOMAIN sh = B
        OBVIOUS
      <4> HIDE DEF sh
      <4> QED
        BY <4>2, <4>3, <4>4 DEF Bijection, Injection, Surjection, IsInjective
    <3>2. ExistsBijection(B, S)
      BY <3>1 DEF ExistsBijection
    <3> QED
      BY <2>7, <3>2, FS_Bijection
  <2>10. (A \cup E) \cap S = {}
    <3>1. \A k \in A \cup E : k \in Int /\ k <= n
      BY <2>1, <2>4
    <3>2. \A k \in S : k \in Int /\ k > n
      BY <2>1, <2>4 DEF S
    <3>3. \A k \in Int : ~(k <= n /\ k > n)
      BY <2>1
    <3> HIDE DEF E
    <3> QED
      BY <3>1, <3>2, <3>3
  <2> HIDE DEF E
  <2>11. Cardinality((A \cup E) \cup S) = Cardinality(A \cup E) + Cardinality(S) - 0
    BY <2>8, <2>9, <2>10, FS_Union, FS_EmptySet
  <2>12. Breaks(c) = Breaks(x) + Breaks(y) + Seam(x, y)
    BY <1>1, <1>3, <2>3, <2>5, <2>8, <2>9, <2>11
  <2> QED
    BY <1>2, <1>3, <2>12 DEF c
<1> QED
  BY <1>4, <1>5, <1>6

\* A number taken out, or put in.
LEMMA BreaksAround ==
  ASSUME NEW x \in Seq(Byte), NEW m \in Byte, NEW z \in Seq(Byte)
  PROVE  /\ Breaks(x \o z) <= Breaks(x \o (<<m>> \o z)) + 1
         /\ Breaks(x \o (<<m>> \o z)) <= Breaks(x \o z) + 2
         /\ Breaks(x \o z) \in Nat /\ Breaks(x \o (<<m>> \o z)) \in Nat
         /\ x \o z \in Seq(Byte) /\ x \o (<<m>> \o z) \in Seq(Byte)
<1>1. <<m>> \in Seq(Byte) /\ Len(<<m>>) <= 1
  OBVIOUS
<1>2. Breaks(<<m>>) = 0
  BY <1>1, ShortUnbroken
<1> DEFINE y == <<m>> \o z
<1>3. Breaks(y) = 0 + Breaks(z) + Seam(<<m>>, z) /\ y \in Seq(Byte) /\ Seam(<<m>>, z) \in {0, 1}
  BY <1>1, <1>2, BreaksJoin
<1> HIDE DEF y
<1>4. Breaks(x \o y) = Breaks(x) + Breaks(y) + Seam(x, y) /\ Seam(x, y) \in {0, 1} /\ x \o y \in Seq(Byte)
  BY <1>3, BreaksJoin
<1>5. Breaks(x \o z) = Breaks(x) + Breaks(z) + Seam(x, z) /\ Seam(x, z) \in {0, 1} /\ x \o z \in Seq(Byte)
  BY BreaksJoin
<1>6. Breaks(x) \in Nat /\ Breaks(z) \in Nat
  BY BreaksBound
<1>7. \A a, b \in Nat, i, j, k \in {0, 1} :
        /\ a + b + i \in Nat /\ a + (0 + b + j) + k \in Nat
        /\ a + b + i <= a + (0 + b + j) + k + 1
        /\ a + (0 + b + j) + k <= a + b + i + 2
  OBVIOUS
<1> QED
  BY <1>3, <1>4, <1>5, <1>6, <1>7 DEF y

-----------------------------------------------------------------------------
(* The gaps there may be yet. *)

\* The numbers of the turns that pieces were made in.
Numbers(q, num) == [k \in 1 .. Len(q) |-> num[q[k].made_in]]

LEMMA NumbersTyped ==
  ASSUME NEW num \in [Nat -> Byte], NEW q \in Seq(Piece)
  PROVE  /\ Numbers(q, num) \in Seq(Byte) /\ Len(Numbers(q, num)) = Len(q) /\ Len(q) \in Nat
         /\ \A k \in 1 .. Len(q) : Numbers(q, num)[k] = num[q[k].made_in]
<1> DEFINE r == Numbers(q, num)
<1>1. Len(q) \in Nat /\ \A k \in 1 .. Len(q) : q[k].made_in \in Nat
  BY PieceFacts
<1>2. r = [k \in 1 .. Len(q) |-> num[q[k].made_in]]
  BY DEF Numbers
<1>3. \A k \in 1 .. Len(q) : num[q[k].made_in] \in Byte
  BY <1>1
<1> HIDE DEF r
<1>4. r \in [1 .. Len(q) -> Byte] /\ \A k \in 1 .. Len(q) : r[k] = num[q[k].made_in]
  BY <1>2, <1>3
<1>5. r \in Seq(Byte) /\ Len(r) = Len(q)
  BY <1>1, <1>4
<1> QED
  BY <1>1, <1>4, <1>5 DEF r

LEMMA NumbersJoin ==
  ASSUME NEW num \in [Nat -> Byte], NEW a \in Seq(Piece), NEW b \in Seq(Piece)
  PROVE  Numbers(a \o b, num) = Numbers(a, num) \o Numbers(b, num)
<1> DEFINE c == a \o b
           x == Numbers(a, num)
           y == Numbers(b, num)
           u == Numbers(c, num)
           v == x \o y
<1>1. /\ c \in Seq(Piece) /\ Len(a) \in Nat /\ Len(b) \in Nat /\ Len(c) = Len(a) + Len(b)
      /\ \A i \in 1 .. Len(a) : c[i] = a[i]
      /\ \A i \in 1 .. Len(b) : c[Len(a) + i] = b[i]
  BY ConcatBytes
<1>2. x \in Seq(Byte) /\ Len(x) = Len(a) /\ \A k \in 1 .. Len(a) : x[k] = num[a[k].made_in]
  BY NumbersTyped
<1>3. y \in Seq(Byte) /\ Len(y) = Len(b) /\ \A k \in 1 .. Len(b) : y[k] = num[b[k].made_in]
  BY NumbersTyped
<1> HIDE DEF c, x, y
<1>4. u \in Seq(Byte) /\ Len(u) = Len(c) /\ \A k \in 1 .. Len(c) : u[k] = num[c[k].made_in]
  BY <1>1, NumbersTyped
<1>5. /\ v \in Seq(Byte) /\ Len(v) = Len(x) + Len(y)
      /\ \A i \in 1 .. Len(x) : v[i] = x[i]
      /\ \A i \in 1 .. Len(y) : v[Len(x) + i] = y[i]
  <2>1. x \in Seq(Byte) /\ y \in Seq(Byte)
    BY <1>2, <1>3
  <2> QED
    BY <2>1, ConcatBytes
<1> HIDE DEF u, v
<1>6. Len(u) = Len(v)
  BY <1>1, <1>2, <1>3, <1>4, <1>5
<1>7. ASSUME NEW i \in 1 .. Len(u)
      PROVE  u[i] = v[i]
  <2>1. CASE i \in 1 .. Len(a)
    <3>1. i \in 1 .. Len(c)
      BY <1>4
    <3>2. c[i] = a[i] /\ u[i] = num[c[i].made_in]
      BY <1>1, <1>4, <2>1, <3>1
    <3>3. v[i] = x[i] /\ x[i] = num[a[i].made_in]
      BY <1>2, <1>5, <2>1
    <3> QED
      BY <3>2, <3>3
  <2>2. CASE i \notin 1 .. Len(a)
    <3> DEFINE k == i - Len(a)
    <3>1. k \in 1 .. Len(b) /\ i = Len(a) + k /\ i \in 1 .. Len(c)
      BY <1>1, <1>4, <2>2
    <3> HIDE DEF k
    <3>2. c[i] = b[k] /\ v[i] = y[k]
      BY <1>1, <1>2, <1>3, <1>5, <3>1
    <3>3. u[i] = num[c[i].made_in] /\ y[k] = num[b[k].made_in]
      BY <1>3, <1>4, <3>1
    <3> QED
      BY <3>2, <3>3
  <2> QED
    BY <2>1, <2>2
<1>8. u = v
  BY <1>4, <1>5, <1>6, <1>7, SeqEqual
<1> QED
  BY <1>8 DEF u, v, c, x, y

LEMMA NumbersFew ==
  ASSUME NEW num \in [Nat -> Byte]
  PROVE  /\ Numbers(<<>>, num) = <<>>
         /\ \A q \in Piece : Numbers(<<q>>, num) = <<num[q.made_in]>> /\ num[q.made_in] \in Byte
<1>1. Numbers(<<>>, num) = <<>>
  <2>1. <<>> \in Seq(Piece) /\ Len(<<>>) = 0
    OBVIOUS
  <2>2. Numbers(<<>>, num) \in Seq(Byte) /\ Len(Numbers(<<>>, num)) = 0
    BY <2>1, NumbersTyped
  <2> QED
    BY <2>2, EmptySeq
<1>2. ASSUME NEW q \in Piece
      PROVE  Numbers(<<q>>, num) = <<num[q.made_in]>> /\ num[q.made_in] \in Byte
  <2> DEFINE t == q.made_in
             u == Numbers(<<q>>, num)
             v == <<num[t]>>
  <2>1. <<q>> \in Seq(Piece) /\ Len(<<q>>) = 1 /\ <<q>>[1] = q /\ t \in Nat
    BY DEF Piece
  <2>2. u \in Seq(Byte) /\ Len(u) = 1 /\ u[1] = num[t]
    <3> DEFINE w == <<q>>
    <3>1. w \in Seq(Piece) /\ Len(w) = 1 /\ w[1].made_in = t /\ u = Numbers(w, num) /\ 1 \in 1 .. Len(w)
      BY <2>1
    <3> HIDE DEF w, u, t
    <3>2. Numbers(w, num) \in Seq(Byte) /\ Len(Numbers(w, num)) = Len(w)
          /\ \A k \in 1 .. Len(w) : Numbers(w, num)[k] = num[w[k].made_in]
      BY <3>1, NumbersTyped
    <3> QED
      BY <3>1, <3>2
  <2>3. num[t] \in Byte
    BY <2>1
  <2> HIDE DEF t
  <2>4. v \in Seq(Byte) /\ Len(v) = 1 /\ v[1] = num[t]
    BY <2>3
  <2> HIDE DEF u, v
  <2>5. \A i \in 1 .. Len(u) : i = 1
    BY <2>2
  <2>6. u = v
    BY <2>2, <2>4, <2>5, SeqEqual
  <2> QED
    BY <2>3, <2>6 DEF u, v, t
<1> QED
  BY <1>1, <1>2

\* What the sequence check heard and is still to hear, in the order of the
\* transport, and at its end the number of the next turn.
Known == IF last_seq = None THEN <<>> ELSE <<last_seq>>
Due(num) == IF Settled THEN <<>> ELSE <<num[from]>>
Front(num) == Known \o Due(num)
Next1 == IF gen = "running" THEN <<seq>> ELSE <<>>
Back(num) == Numbers(outbox, num) \o Next1
Chain(num) == Front(num) \o (Numbers(wire, num) \o Back(num))

\* Every gap counted, and every break still to come, was paid for.
Paid ==
  gstats.seq_gap + gstats.burst_extra + channel.damaged + channel.lost
    + 2 * channel.repeated + 3 * channel.overtook
GapsPaid(num) == stats.seq_gap + Breaks(Chain(num)) <= Paid

LEMMA ChainTyped ==
  ASSUME NEW num, LinkInv(num)
  PROVE  /\ num \in [Nat -> Byte] /\ wire \in Seq(Piece) /\ outbox \in Seq(Piece)
         /\ Known \in Seq(Byte) /\ Due(num) \in Seq(Byte) /\ Front(num) \in Seq(Byte)
         /\ Next1 \in Seq(Byte) /\ Back(num) \in Seq(Byte)
         /\ Numbers(wire, num) \in Seq(Byte) /\ Numbers(outbox, num) \in Seq(Byte)
         /\ Chain(num) \in Seq(Byte) /\ Breaks(Chain(num)) \in Nat
         /\ Paid \in Nat /\ stats.seq_gap \in Nat
<1>1. /\ num \in [Nat -> Byte] /\ wire \in Seq(Piece) /\ outbox \in Seq(Piece)
      /\ last_seq \in Byte \cup {None} /\ from \in Nat /\ seq \in Byte
      /\ stats \in [ok : Nat, crc_fail : Nat, seq_gap : Nat]
      /\ channel \in [intact : Nat, damaged : Nat, lost : Nat, repeated : Nat, overtook : Nat]
      /\ gstats \in Stats
  BY DEF LinkInv, GenTyped, ReceiverTyped, Sent, Stats
<1>2. \A n \in Byte : <<n>> \in Seq(Byte)
  OBVIOUS
<1>3. <<>> \in Seq(Byte)
  OBVIOUS
<1>4. Known \in Seq(Byte)
  BY <1>1, <1>2, <1>3 DEF Known
<1>5. Due(num) \in Seq(Byte)
  <2>1. num[from] \in Byte
    BY <1>1
  <2> QED
    BY <1>2, <1>3, <2>1 DEF Due
<1>6. Next1 \in Seq(Byte)
  BY <1>1, <1>2, <1>3 DEF Next1
<1>7. Numbers(wire, num) \in Seq(Byte) /\ Numbers(outbox, num) \in Seq(Byte)
  BY <1>1, NumbersTyped
<1>8. Front(num) \in Seq(Byte) /\ Back(num) \in Seq(Byte)
  BY <1>4, <1>5, <1>6, <1>7, ConcatBytes DEF Front, Back
<1>9. Chain(num) \in Seq(Byte)
  BY <1>7, <1>8, ConcatBytes DEF Chain
<1>10. Breaks(Chain(num)) \in Nat
  BY <1>9, BreaksBound
<1>11. stats.seq_gap \in Nat /\ Paid \in Nat
  <2>1. /\ channel.damaged \in Nat /\ channel.lost \in Nat
        /\ channel.repeated \in Nat /\ channel.overtook \in Nat
        /\ gstats.seq_gap \in Nat /\ gstats.burst_extra \in Nat
    BY <1>1 DEF Stats
  <2>2. \A a, b, c, d, e, f \in Nat : a + b + c + d + 2 * e + 3 * f \in Nat
    OBVIOUS
  <2>3. stats.seq_gap \in Nat
    BY <1>1
  <2> QED
    BY <2>1, <2>2, <2>3 DEF Paid
<1> QED
  BY <1>1, <1>4, <1>5, <1>6, <1>7, <1>8, <1>9, <1>10, <1>11

\* A turn puts its number, once for every piece, before the number of the next.
LEMMA TurnBreaks ==
  ASSUME NEW x \in Seq(Byte), NEW q \in Byte, NEW s \in Byte, NEW extra \in Nat,
         NEW r \in Seq(Byte), Len(r) = extra + 1, \A k \in 1 .. Len(r) : r[k] = s,
         NEW gap \in {0, 1}, gap = 0 => s = q
  PROVE  Breaks(x \o (r \o <<Succ(s)>>)) <= Breaks(x \o <<q>>) + extra + gap
<1> DEFINE n == Succ(s)
           t == r \o <<n>>
<1>1. n \in Byte
  BY SuccIs
<1>2. <<q>> \in Seq(Byte) /\ Len(<<q>>) <= 1 /\ <<q>>[1] = q /\ <<q>> # <<>>
  OBVIOUS
<1>3. /\ Breaks(x \o <<q>>) = Breaks(x) + Breaks(<<q>>) + Seam(x, <<q>>)
      /\ Seam(x, <<q>>) \in {0, 1} /\ Breaks(<<q>>) = 0 /\ Breaks(x) \in Nat
  <2>1. Breaks(x \o <<q>>) = Breaks(x) + Breaks(<<q>>) + Seam(x, <<q>>) /\ Seam(x, <<q>>) \in {0, 1}
    BY <1>2, BreaksJoin
  <2>2. Breaks(<<q>>) = 0
    BY <1>2, ShortUnbroken
  <2>3. Breaks(x) \in Nat
    BY BreaksBound
  <2> QED
    BY <2>1, <2>2, <2>3
<1>4. Breaks(r) \in Nat /\ Breaks(r) <= extra
  BY BreaksBound
<1>5. r # <<>> /\ r[Len(r)] = s /\ r[1] = s
  <2>1. Len(r) \in 1 .. Len(r) /\ 1 \in 1 .. Len(r) /\ Len(r) # 0
    OBVIOUS
  <2> QED
    BY <2>1
<1>6. /\ t \in Seq(Byte) /\ Breaks(t) = Breaks(r) /\ t # <<>> /\ t[1] = s
  <2> DEFINE u == <<n>>
  <2>1. u \in Seq(Byte) /\ Len(u) <= 1 /\ Len(u) = 1 /\ u[1] = n
    BY <1>1
  <2> HIDE DEF u, n
  <2>2. Breaks(u) = 0
    BY <2>1, ShortUnbroken
  <2>3. Breaks(r \o u) = Breaks(r) + Breaks(u) + Seam(r, u)
    BY <2>1, BreaksJoin
  <2>4. Seam(r, u) = 0
    BY <1>5, <2>1 DEF Seam, n
  <2>5. /\ r \o u \in Seq(Byte) /\ Len(r \o u) = Len(r) + Len(u)
        /\ \A i \in 1 .. Len(r) : (r \o u)[i] = r[i]
    BY <2>1, ConcatBytes
  <2>6. 1 \in 1 .. Len(r) /\ Len(r) + Len(u) # 0
    BY <2>1
  <2>7. (r \o u)[1] = s /\ r \o u # <<>>
    BY <1>5, <2>5, <2>6
  <2>8. Breaks(r \o u) = Breaks(r)
    BY <1>4, <2>2, <2>3, <2>4
  <2> QED
    BY <2>5, <2>7, <2>8 DEF u
<1> HIDE DEF t
<1>7. Breaks(x \o t) = Breaks(x) + Breaks(t) + Seam(x, t) /\ Seam(x, t) \in {0, 1}
  BY <1>6, BreaksJoin
<1>8. gap = 0 => Seam(x, t) = Seam(x, <<q>>)
  BY <1>2, <1>6 DEF Seam
<1>9. \A a, b, c \in Nat, i, j, g \in {0, 1} :
        b <= c /\ (g = 0 => i = j) => a + b + i <= a + 0 + j + c + g
  OBVIOUS
<1>10. Breaks(x \o t) <= Breaks(x \o <<q>>) + extra + gap
  BY <1>3, <1>4, <1>6, <1>7, <1>8, <1>9
<1> QED
  BY <1>10 DEF t, n

\* The end of a sequence left out.
LEMMA BreaksFewer ==
  ASSUME NEW x \in Seq(Byte), NEW y \in Seq(Byte)
  PROVE  Breaks(x) <= Breaks(x \o y)
<1>1. Breaks(x \o y) = Breaks(x) + Breaks(y) + Seam(x, y) /\ Seam(x, y) \in {0, 1}
  BY BreaksJoin
<1>2. Breaks(x) \in Nat /\ Breaks(y) \in Nat
  BY BreaksBound
<1> QED
  BY <1>1, <1>2

LEMMA Regroup ==
  ASSUME NEW a \in Seq(Byte), NEW b \in Seq(Byte), NEW c \in Seq(Byte)
  PROVE  (a \o b) \o c = a \o (b \o c)
  BY ConcatAssociative

\* The same, for sequences that are long terms.
Regrouped(a, b, c) == (a \o b) \o c = a \o (b \o c)

LEMMA Regroups ==
  ASSUME NEW a \in Seq(Byte), NEW b \in Seq(Byte), NEW c \in Seq(Byte)
  PROVE  Regrouped(a, b, c)
  BY Regroup DEF Regrouped

\* A number lost, brought forward, or brought forward with a copy left.
LEMMA DeliveryBreaks ==
  ASSUME NEW k \in Seq(Byte), NEW x \in Seq(Byte), NEW m \in Byte, NEW z \in Seq(Byte),
         NEW r \in Seq(Byte)
  PROVE  LET c == k \o ((x \o (<<m>> \o z)) \o r)
             d == k \o ((x \o z) \o r)
             e == (k \o <<m>>) \o ((x \o z) \o r)
             f == (k \o <<m>>) \o ((x \o (<<m>> \o z)) \o r)
         IN  /\ Breaks(d) <= Breaks(c) + 1
             /\ Breaks(e) <= Breaks(c) + 3
             /\ Breaks(f) <= Breaks(c) + 2
             /\ x = <<>> => Breaks(e) = Breaks(c)
             /\ Breaks(c) \in Nat /\ Breaks(d) \in Nat /\ Breaks(e) \in Nat /\ Breaks(f) \in Nat
<1> DEFINE c == k \o ((x \o (<<m>> \o z)) \o r)
           d == k \o ((x \o z) \o r)
           e == (k \o <<m>>) \o ((x \o z) \o r)
           f == (k \o <<m>>) \o ((x \o (<<m>> \o z)) \o r)
           o == <<m>>
           zr == z \o r
           u == x \o zr
           y == (x \o (o \o z)) \o r
<1>1. o \in Seq(Byte)
  OBVIOUS
<1>2. zr \in Seq(Byte) /\ o \o z \in Seq(Byte) /\ k \o x \in Seq(Byte) /\ k \o o \in Seq(Byte)
      /\ x \o z \in Seq(Byte)
  <2> HIDE DEF o
  <2> QED
    BY <1>1, ConcatBytes
<1>3. u \in Seq(Byte) /\ x \o (o \o z) \in Seq(Byte) /\ o \o zr \in Seq(Byte)
  <2> HIDE DEF o, zr
  <2> QED
    BY <1>1, <1>2, ConcatBytes
<1>4. y \in Seq(Byte)
  <2> HIDE DEF o
  <2> QED
    BY <1>3, ConcatBytes
<1>5. y = x \o (o \o zr)
  <2> HIDE DEF o
  <2>1. y = x \o ((o \o z) \o r)
    <3> DEFINE w == o \o z
    <3>1. w \in Seq(Byte) /\ y = (x \o w) \o r
      BY <1>2
    <3> HIDE DEF w, y
    <3>2. Regrouped(x, w, r)
      BY <3>1, Regroups
    <3> QED
      BY <3>1, <3>2 DEF w, Regrouped
  <2>2. (o \o z) \o r = o \o zr
    BY <1>1, Regroup
  <2> QED
    BY <2>1, <2>2
<1>6. c = (k \o x) \o (o \o zr)
  <2>1. c = k \o y
    OBVIOUS
  <2> HIDE DEF c, y, o, zr
  <2>2. (k \o x) \o (o \o zr) = k \o (x \o (o \o zr))
    <3> DEFINE w == o \o zr
    <3>1. w \in Seq(Byte)
      BY <1>3
    <3> HIDE DEF w
    <3>2. Regrouped(k, x, w)
      BY <3>1, Regroups
    <3> QED
      BY <3>2 DEF w, Regrouped
  <2> QED
    BY <1>5, <2>1, <2>2
<1>7. (x \o z) \o r = u
  BY Regroup
<1>8. d = k \o u /\ d = (k \o x) \o zr
  <2>1. d = k \o u
    BY <1>7
  <2> HIDE DEF d, zr
  <2>2. (k \o x) \o zr = k \o (x \o zr)
    <3>1. zr \in Seq(Byte)
      BY <1>2
    <3>2. Regrouped(k, x, zr)
      BY <3>1, Regroups
    <3> QED
      BY <3>2 DEF Regrouped
  <2> QED
    BY <2>1, <2>2
<1>9. e = k \o (o \o u)
  <2>1. e = (k \o o) \o u
    BY <1>7
  <2> HIDE DEF e, o, u
  <2>2. o \in Seq(Byte) /\ u \in Seq(Byte)
    BY <1>1, <1>3
  <2>3. Regrouped(k, o, u)
    BY <2>2, Regroups
  <2> QED
    BY <2>1, <2>3 DEF Regrouped
<1>10. f = k \o (o \o y)
  <2>1. f = (k \o o) \o y
    OBVIOUS
  <2> HIDE DEF f, o, y
  <2>2. o \in Seq(Byte) /\ y \in Seq(Byte)
    BY <1>1, <1>4
  <2>3. Regrouped(k, o, y)
    BY <2>2, Regroups
  <2> QED
    BY <2>1, <2>3 DEF Regrouped
<1>11. x = <<>> => e = c
  <2>1. x = <<>> => u = zr /\ k \o x = k
    <3> HIDE DEF zr
    <3> QED
      BY <1>2, ConcatEmptySeq
  <2> HIDE DEF e, c, o, zr, u
  <2> QED
    BY <1>6, <1>9, <2>1
<1>12. c = k \o y
  OBVIOUS
<1> HIDE DEF c, d, e, f, u, y, zr
<1>13. Breaks(d) <= Breaks(c) + 1 /\ Breaks(d) \in Nat /\ Breaks(c) \in Nat
  BY <1>2, <1>6, <1>8, BreaksAround
<1>14. Breaks(e) <= Breaks(d) + 2 /\ Breaks(e) \in Nat
  BY <1>3, <1>8, <1>9, BreaksAround
<1>15. Breaks(f) <= Breaks(c) + 2 /\ Breaks(f) \in Nat
  BY <1>4, <1>10, <1>12, BreaksAround
<1>16. Breaks(e) <= Breaks(c) + 3
  BY <1>13, <1>14
<1> QED
  BY <1>11, <1>13, <1>14, <1>15, <1>16 DEF c, d, e, f

\* A step of the generator leaves what the receiver heard.
LEMMA SendingFront ==
  ASSUME NEW num, LinkInv(num), NEW num2, Sending(Generate), num2[from] = num[from]
  PROVE  /\ Front(num2)' = Front(num) /\ stats' = stats /\ channel' = channel
<1>1. UNCHANGED <<from, last_seq, stats, channel>>
  BY DEF Sending, rvars
<1>2. Known' = Known /\ Due(num2)' = Due(num)
  BY <1>1 DEF Known, Due, Settled
<1> QED
  BY <1>1, <1>2 DEF Front

LEMMA MakeFramePays ==
  ASSUME NEW num, LinkInv(num), GapsPaid(num), Sending(MakeFrame), NEW s \in Byte, NEW p \in Payloads,
         NEW extra \in Nat, NEW gap \in {0, 1}, gap = 0 => s = seq, TurnGives(s, p, extra, gap),
         NEW num2, num2 = [num EXCEPT ![turn + 1] = s]
  PROVE  GapsPaid(num2)'
<1> DEFINE f == Front(num)
           w == Numbers(wire, num)
           x == f \o w
           r == Numbers(outbox', num2)
           n == Succ(s)
<1>1. /\ num \in [Nat -> Byte] /\ wire \in Seq(Piece) /\ turn \in Nat /\ from \in Nat /\ from <= turn
      /\ f \in Seq(Byte) /\ w \in Seq(Byte) /\ seq \in Byte
      /\ \A k \in 1 .. Len(wire) : wire[k].made_in \in Nat /\ wire[k].made_in <= turn
  BY ChainTyped, NatLess DEF LinkInv, GenTyped
<1>2. /\ gen = "running" /\ outbox = <<>> /\ seq' = n /\ gen' = gen /\ wire' = wire
      /\ outbox' \in Seq(Piece) /\ Len(outbox') = extra + 1
      /\ \A k \in 1 .. Len(outbox') : outbox'[k].made_in = turn + 1
      /\ gstats'.seq_gap = gstats.seq_gap + gap
      /\ gstats'.burst_extra = gstats.burst_extra + extra
  BY DEF TurnGives, Fresh
<1>3. /\ num2 \in [Nat -> Byte] /\ num2[turn + 1] = s /\ num2[from] = num[from]
      /\ \A t \in Nat : t <= turn => num2[t] = num[t]
  BY <1>1
<1>4. Front(num2)' = f /\ stats' = stats /\ channel' = channel
  <2>1. Sending(Generate)
    BY DEF Sending, Generate
  <2> QED
    BY <1>3, <2>1, SendingFront
<1>5. Numbers(wire, num2)' = w
  <2>1. Numbers(wire, num2)' = Numbers(wire, num2)
    BY <1>2 DEF Numbers
  <2>2. \A k \in 1 .. Len(wire) : num2[wire[k].made_in] = num[wire[k].made_in]
    BY <1>1, <1>3
  <2>3. [k \in 1 .. Len(wire) |-> num2[wire[k].made_in]] = [k \in 1 .. Len(wire) |-> num[wire[k].made_in]]
    BY <2>2
  <2> QED
    BY <2>1, <2>3 DEF Numbers
<1>6. r \in Seq(Byte) /\ Len(r) = extra + 1 /\ \A k \in 1 .. Len(r) : r[k] = s
  <2>1. r \in Seq(Byte) /\ Len(r) = Len(outbox') /\ \A k \in 1 .. Len(outbox') : r[k] = num2[outbox'[k].made_in]
    BY <1>2, <1>3, NumbersTyped
  <2> HIDE DEF r
  <2> QED
    BY <1>2, <1>3, <2>1
<1> HIDE DEF f, w, r
<1>7. Back(num) = <<seq>>
  <2>1. Numbers(<<>>, num) = <<>>
    BY <1>1, NumbersFew
  <2>2. Back(num) = <<>> \o <<seq>>
    BY <1>2, <2>1 DEF Back, Next1
  <2>3. <<seq>> \in Seq(Byte)
    BY <1>1
  <2> QED
    BY <2>2, <2>3, ConcatEmptySeq
<1>8. Chain(num) = x \o <<seq>> /\ x \in Seq(Byte)
  <2>1. <<seq>> \in Seq(Byte)
    BY <1>1
  <2>2. (f \o w) \o <<seq>> = f \o (w \o <<seq>>)
    BY <1>1, <2>1, Regroup
  <2>3. x \in Seq(Byte)
    BY <1>1, ConcatBytes
  <2> QED
    BY <1>7, <2>2, <2>3 DEF Chain, f, w
<1>9. Chain(num2)' = x \o (r \o <<n>>)
  <2>1. Back(num2)' = r \o <<n>>
    BY <1>2 DEF Back, Next1, Numbers, r
  <2>2. <<n>> \in Seq(Byte)
    BY SuccIs
  <2> DEFINE t == r \o <<n>>
  <2>3. t \in Seq(Byte)
    BY <1>6, <2>2, ConcatBytes
  <2>4. Chain(num2)' = f \o (w \o t)
    BY <1>4, <1>5, <2>1 DEF Chain
  <2> HIDE DEF t
  <2>5. (f \o w) \o t = f \o (w \o t)
    BY <1>1, <2>3, Regroup
  <2> QED
    BY <2>4, <2>5 DEF t
<1>10. Breaks(Chain(num2)') <= Breaks(Chain(num)) + extra + gap
  <2> HIDE DEF x
  <2>1. Breaks(x \o (r \o <<n>>)) <= Breaks(x \o <<seq>>) + extra + gap
    BY <1>1, <1>6, <1>8, TurnBreaks
  <2> QED
    BY <1>8, <1>9, <2>1
<1>11. r \o <<n>> \in Seq(Byte) /\ x \o (r \o <<n>>) \in Seq(Byte)
  <2> DEFINE u == <<n>>
  <2>1. u \in Seq(Byte)
    BY SuccIs
  <2> HIDE DEF u, x
  <2>2. r \o u \in Seq(Byte)
    BY <1>6, <2>1, ConcatBytes
  <2>3. x \o (r \o u) \in Seq(Byte)
    <3> DEFINE t == r \o u
    <3>1. t \in Seq(Byte) /\ x \in Seq(Byte)
      BY <1>8, <2>2
    <3> HIDE DEF t
    <3>2. x \o t \in Seq(Byte)
      BY <3>1, ConcatBytes
    <3> QED
      BY <3>2 DEF t
  <2> QED
    BY <2>2, <2>3 DEF u
<1>12. Breaks(Chain(num2)') \in Nat
  BY <1>9, <1>11, BreaksBound
<1>13. Breaks(Chain(num)) \in Nat /\ Paid \in Nat /\ stats.seq_gap \in Nat
  BY ChainTyped
<1>14. Paid' = Paid + extra + gap
  <2>1. /\ channel.damaged \in Nat /\ channel.lost \in Nat
        /\ channel.repeated \in Nat /\ channel.overtook \in Nat
        /\ gstats.seq_gap \in Nat /\ gstats.burst_extra \in Nat /\ gap \in Nat
    BY DEF LinkInv, ReceiverTyped, GenTyped
  <2>2. Paid' = (gstats.seq_gap + gap) + (gstats.burst_extra + extra) + channel.damaged
                + channel.lost + 2 * channel.repeated + 3 * channel.overtook
    BY <1>2, <1>4 DEF Paid
  <2> QED
    BY <2>1, <2>2 DEF Paid
<1>15. Breaks(Chain(num2))' = Breaks(Chain(num2)')
  BY DEF Breaks, BreaksOf
<1> QED
  BY <1>4, <1>10, <1>12, <1>13, <1>14, <1>15 DEF GapsPaid

\* Nothing is paid, and the numbers to come are the same or fewer.
LEMMA FewerPays ==
  ASSUME NEW num, LinkInv(num), GapsPaid(num), NEW x \in Seq(Byte), NEW y \in Seq(Byte),
         Chain(num) = x \o y, Chain(num)' = x \/ Chain(num)' = Chain(num),
         stats'.seq_gap = stats.seq_gap, Paid' = Paid
  PROVE  GapsPaid(num)'
<1>1. Breaks(Chain(num)) \in Nat /\ Paid \in Nat /\ stats.seq_gap \in Nat
  BY ChainTyped
<1>2. Breaks(x) <= Breaks(x \o y) /\ Breaks(x) \in Nat
  BY BreaksFewer, BreaksBound
<1>3. Breaks(Chain(num))' = Breaks(Chain(num)')
  BY DEF Breaks, BreaksOf
<1>4. Breaks(Chain(num)') \in Nat /\ Breaks(Chain(num)') <= Breaks(Chain(num))
  <2>1. CASE Chain(num)' = x
    BY <1>2, <2>1
  <2>2. CASE Chain(num)' = Chain(num)
    BY <1>1, <2>2
  <2> QED
    BY <2>1, <2>2
<1> QED
  BY <1>1, <1>3, <1>4 DEF GapsPaid

LEMMA HeadJoins ==
  ASSUME NEW q \in Seq(Piece), q # <<>>
  PROVE  q = <<Head(q)>> \o Tail(q)
<1>1. Len(q) \in 1 .. Len(q) /\ 1 \in 1 .. Len(q) /\ Head(q) = q[1]
  <2>1. Len(q) \in Nat
    BY HeadIs
  <2> QED
    BY <2>1, HeadIs
<1>2. SubSeq(q, 1, Len(q)) = <<q[1]>> \o SubSeq(q, 1 + 1, Len(q))
  BY <1>1, SubSeqRecursiveFirst
<1>3. SubSeq(q, 1, Len(q)) = q /\ Tail(q) = SubSeq(q, 2, Len(q))
  BY SubSeqFull, TailIsSubSeq
<1> QED
  BY <1>1, <1>2, <1>3

\* The chain of the outbox's head `o`, grouped by what a step of it keeps.
Groups(f, w, o, t, g) ==
  /\ f \o (w \o ((o \o t) \o g)) = f \o ((w \o o) \o (t \o g))
  /\ f \o (w \o ((o \o t) \o g)) = (f \o (w \o o)) \o (t \o g)
  /\ f \o (w \o ((o \o t) \o g)) = (f \o w) \o ((o \o t) \o g)
  /\ t \o g \in Seq(Byte) /\ (o \o t) \o g \in Seq(Byte)
  /\ f \o w \in Seq(Byte) /\ f \o (w \o o) \in Seq(Byte)

LEMMA HeadGroups ==
  ASSUME NEW f \in Seq(Byte), NEW w \in Seq(Byte), NEW o \in Seq(Byte), NEW t \in Seq(Byte),
         NEW g \in Seq(Byte)
  PROVE  Groups(f, w, o, t, g)
<1> DEFINE u == t \o g
           v == (o \o t) \o g
           x == w \o o
<1>1. u \in Seq(Byte) /\ x \in Seq(Byte) /\ f \o w \in Seq(Byte)
  BY ConcatBytes
<1>2. v = o \o u
  <2>1. Regrouped(o, t, g)
    BY Regroups
  <2> QED
    BY <2>1 DEF Regrouped
<1>3. v \in Seq(Byte)
  <2> HIDE DEF u, v
  <2> QED
    BY <1>1, <1>2, ConcatBytes
<1>4. w \o v = x \o u
  <2>1. u \in Seq(Byte)
    BY <1>1
  <2> HIDE DEF u, v
  <2>2. Regrouped(w, o, u)
    BY <2>1, Regroups
  <2> QED
    BY <1>2, <2>2 DEF Regrouped
<1>5. (f \o x) \o u = f \o (x \o u) /\ f \o x \in Seq(Byte)
  <2>1. u \in Seq(Byte) /\ x \in Seq(Byte)
    BY <1>1
  <2> HIDE DEF u, x
  <2>2. Regrouped(f, x, u)
    BY <2>1, Regroups
  <2>3. f \o x \in Seq(Byte)
    BY <2>1, ConcatBytes
  <2> QED
    BY <2>2, <2>3 DEF Regrouped
<1>6. (f \o w) \o v = f \o (w \o v)
  <2>1. v \in Seq(Byte)
    BY <1>3
  <2> HIDE DEF v
  <2>2. Regrouped(f, w, v)
    BY <2>1, Regroups
  <2> QED
    BY <2>2 DEF Regrouped
<1> HIDE DEF u, v, x
<1>7. f \o (w \o v) = f \o (x \o u)
  BY <1>4
<1> QED
  BY <1>1, <1>3, <1>5, <1>6, <1>7 DEF Groups, u, v, x


\* What the head of the outbox adds to the numbers to come.
LEMMA OutboxChain ==
  ASSUME NEW num, LinkInv(num), outbox # <<>>
  PROVE  LET f == Front(num)
             w == Numbers(wire, num)
             h == Head(outbox)
             o == <<num[h.made_in]>>
             t == Numbers(Tail(outbox), num)
         IN  /\ f \in Seq(Byte) /\ w \in Seq(Byte) /\ o \in Seq(Byte) /\ t \in Seq(Byte)
             /\ Next1 \in Seq(Byte) /\ h \in Piece /\ Tail(outbox) \in Seq(Piece)
             /\ Chain(num) = f \o (w \o ((o \o t) \o Next1))
             /\ \A q \in Piece : q.made_in = h.made_in => Numbers(Append(wire, q), num) = w \o o
<1> DEFINE f == Front(num)
           w == Numbers(wire, num)
           h == Head(outbox)
           o == <<num[h.made_in]>>
           l == Tail(outbox)
           t == Numbers(l, num)
<1>1. /\ num \in [Nat -> Byte] /\ wire \in Seq(Piece) /\ outbox \in Seq(Piece)
      /\ f \in Seq(Byte) /\ w \in Seq(Byte) /\ Next1 \in Seq(Byte)
  BY ChainTyped
<1>2. h \in Piece /\ l \in Seq(Piece)
  BY <1>1, HeadIs, PieceFacts
<1>3. outbox = <<h>> \o l
  BY <1>1, HeadJoins
<1> HIDE DEF h, l
<1>4. Numbers(<<h>>, num) = o /\ num[h.made_in] \in Byte
  BY <1>1, <1>2, NumbersFew
<1>5. o \in Seq(Byte) /\ <<h>> \in Seq(Piece)
  BY <1>2, <1>4
<1>6. t \in Seq(Byte)
  BY <1>1, <1>2, NumbersTyped
<1>7. Numbers(outbox, num) = o \o t
  <2> DEFINE a == <<h>>
  <2>1. a \in Seq(Piece)
    BY <1>5
  <2> HIDE DEF a, t, o
  <2>2. Numbers(a \o l, num) = Numbers(a, num) \o Numbers(l, num)
    BY <1>1, <1>2, <2>1, NumbersJoin
  <2> QED
    BY <1>3, <1>4, <2>2 DEF a, t
<1>8. Chain(num) = f \o (w \o ((o \o t) \o Next1))
  BY <1>7 DEF Chain, Back
<1>9. ASSUME NEW q \in Piece, q.made_in = h.made_in
      PROVE  Numbers(Append(wire, q), num) = w \o o
  <2>1. Append(wire, q) = wire \o <<q>> /\ <<q>> \in Seq(Piece)
    BY <1>1, AppendIsConcat
  <2>2. Numbers(<<q>>, num) = o
    BY <1>1, <1>9, NumbersFew
  <2> QED
    BY <1>1, <2>1, <2>2, NumbersJoin
<1> QED
  BY <1>1, <1>2, <1>5, <1>6, <1>8, <1>9 DEF h, l

\* A step of the generator that makes no frame costs nothing.
LEMMA SamePaid ==
  ASSUME NEW num, LinkInv(num), Sending(Generate), gstats' = gstats
  PROVE  Front(num)' = Front(num) /\ stats'.seq_gap = stats.seq_gap /\ Paid' = Paid
<1>1. Front(num)' = Front(num) /\ stats' = stats /\ channel' = channel
  BY SendingFront
<1> QED
  BY <1>1 DEF Paid

LEMMA ChainAfter ==
  ASSUME NEW num
  PROVE  /\ Chain(num)' = Front(num)' \o (Numbers(wire', num) \o (Numbers(outbox', num) \o Next1'))
         /\ Next1' = IF gen' = "running" THEN <<seq'>> ELSE <<>>
  BY DEF Chain, Back, Numbers, Next1

LEMMA EmitPays ==
  ASSUME NEW num, LinkInv(num), GapsPaid(num), Sending(Emit)
  PROVE  GapsPaid(num)'
<1> DEFINE f == Front(num)
           w == Numbers(wire, num)
           h == Head(outbox)
           o == <<num[h.made_in]>>
           t == Numbers(Tail(outbox), num)
           g == Next1
<1>1. /\ wire' = Append(wire, Head(outbox)) /\ outbox' = Tail(outbox) /\ outbox # <<>>
      /\ gen' = gen /\ seq' = seq /\ gstats' = gstats /\ Sending(Generate)
  BY DEF Sending, Emit, Generate
<1>2. f = Front(num)' /\ stats'.seq_gap = stats.seq_gap /\ Paid' = Paid
  BY <1>1, SamePaid
<1>3. /\ f \in Seq(Byte) /\ w \in Seq(Byte) /\ o \in Seq(Byte) /\ t \in Seq(Byte) /\ g \in Seq(Byte)
      /\ h \in Piece /\ Chain(num) = f \o (w \o ((o \o t) \o g))
      /\ \A q \in Piece : q.made_in = h.made_in => Numbers(Append(wire, q), num) = w \o o
  BY <1>1, OutboxChain
<1>4. Numbers(wire', num) = w \o o /\ Numbers(outbox', num) = t /\ Next1' = g
  BY <1>1, <1>3 DEF Next1
<1> HIDE DEF f, w, h, o, t, g
<1>5. Chain(num)' = f \o ((w \o o) \o (t \o g))
  BY <1>2, <1>4, ChainAfter
<1>6. Chain(num)' = Chain(num)
  <2>1. f \in Seq(Byte) /\ w \in Seq(Byte) /\ o \in Seq(Byte) /\ t \in Seq(Byte) /\ g \in Seq(Byte)
    BY <1>3
  <2>2. Groups(f, w, o, t, g)
    BY <2>1, HeadGroups
  <2> QED
    BY <1>3, <1>5, <2>2 DEF Groups
<1>7. Chain(num) \in Seq(Byte) /\ <<>> \in Seq(Byte)
  BY ChainTyped
<1>8. Chain(num) = Chain(num) \o <<>>
  BY <1>7, ConcatEmptySeq
<1> QED
  BY <1>2, <1>6, <1>7, <1>8, FewerPays

LEMMA EmitFailsPays ==
  ASSUME Conditions, NEW num, LinkInv(num), GapsPaid(num), Sending(EmitFails)
  PROVE  GapsPaid(num)'
<1> DEFINE f == Front(num)
           w == Numbers(wire, num)
           h == Head(outbox)
           o == <<num[h.made_in]>>
           t == Numbers(Tail(outbox), num)
           g == Next1
<1>1. /\ outbox' = <<>> /\ outbox # <<>> /\ gen' = "failed" /\ gen = "running"
      /\ gstats' = gstats /\ Sending(Generate)
  BY DEF Sending, EmitFails, Generate
<1>2. f = Front(num)' /\ stats'.seq_gap = stats.seq_gap /\ Paid' = Paid
  BY <1>1, SamePaid
<1>3. /\ f \in Seq(Byte) /\ w \in Seq(Byte) /\ o \in Seq(Byte) /\ t \in Seq(Byte) /\ g \in Seq(Byte)
      /\ h \in Piece /\ Chain(num) = f \o (w \o ((o \o t) \o g))
      /\ \A q \in Piece : q.made_in = h.made_in => Numbers(Append(wire, q), num) = w \o o
  BY <1>1, OutboxChain
<1>4. num \in [Nat -> Byte] /\ outbox \in Seq(Piece) /\ wire \in Seq(Piece)
  BY ChainTyped
<1>5. Numbers(outbox', num) \o Next1' = <<>>
  <2>1. Numbers(<<>>, num) = <<>> /\ <<>> \o <<>> = <<>>
    BY <1>4, NumbersFew
  <2> QED
    BY <1>1, <2>1 DEF Next1
<1>6. ASSUME NEW v \in Seq(Byte), Numbers(wire', num) = v
      PROVE  Chain(num)' = f \o v
  <2>1. v \o <<>> = v
    BY ConcatEmptySeq
  <2> HIDE DEF f
  <2>2. Chain(num)' = f \o (v \o <<>>)
    BY <1>2, <1>5, <1>6, ChainAfter
  <2> QED
    BY <2>1, <2>2
<1>7. CASE wire' = wire
  <2>1. Chain(num)' = f \o w
    BY <1>3, <1>6, <1>7
  <2> HIDE DEF f, w, h, o, t, g
  <2>2. /\ Chain(num) = (f \o w) \o ((o \o t) \o g)
        /\ f \o w \in Seq(Byte) /\ (o \o t) \o g \in Seq(Byte)
    <3>1. f \in Seq(Byte) /\ w \in Seq(Byte) /\ o \in Seq(Byte) /\ t \in Seq(Byte) /\ g \in Seq(Byte)
      BY <1>3
    <3>2. Groups(f, w, o, t, g)
      BY <3>1, HeadGroups
    <3> QED
      BY <1>3, <3>2 DEF Groups
  <2> QED
    BY <1>2, <2>1, <2>2, FewerPays
<1>8. CASE \E n \in 1 .. Len(Head(outbox).bytes) - 1 :
             wire' = Append(wire, Part(Head(outbox), n))
  <2>1. PICK n \in 1 .. Len(h.bytes) - 1 : wire' = Append(wire, Part(h, n))
    BY <1>8
  <2>2. Sound(h, num)
    <3>1. h = outbox[1] /\ 1 \in 1 .. Len(outbox)
      BY <1>1, <1>4, HeadIs
    <3> QED
      BY <3>1 DEF LinkInv, Sent
  <2>3. n \in 1 .. Len(h.bytes) - 1
    BY <2>1
  <2>4. w \o o \in Seq(Byte)
    <3> HIDE DEF w, o
    <3> QED
      BY <1>3, ConcatBytes
  <2>5. Part(h, n) \in Piece /\ Part(h, n).made_in = h.made_in
    <3> HIDE DEF h
    <3> QED
      BY <1>3, <1>4, <2>2, <2>3, PartIs
  <2>6. Numbers(wire', num) = w \o o
    <3> HIDE DEF h, w, o
    <3> QED
      BY <1>3, <2>1, <2>5
  <2>7. Chain(num)' = f \o (w \o o)
    <3> HIDE DEF f, w, o
    <3> QED
      BY <1>6, <2>4, <2>6
  <2> HIDE DEF f, w, h, o, t, g
  <2>8. /\ Chain(num) = (f \o (w \o o)) \o (t \o g)
        /\ f \o (w \o o) \in Seq(Byte) /\ t \o g \in Seq(Byte)
    <3>1. f \in Seq(Byte) /\ w \in Seq(Byte) /\ o \in Seq(Byte) /\ t \in Seq(Byte) /\ g \in Seq(Byte)
      BY <1>3
    <3>2. Groups(f, w, o, t, g)
      BY <3>1, HeadGroups
    <3> QED
      BY <1>3, <3>2 DEF Groups
  <2> QED
    BY <1>2, <2>7, <2>8, FewerPays
<1> QED
  BY <1>7, <1>8 DEF Sending, EmitFails

LEMMA FinishPays ==
  ASSUME NEW num, LinkInv(num), GapsPaid(num), Sending(Finish)
  PROVE  GapsPaid(num)'
<1> DEFINE f == Front(num)
           w == Numbers(wire, num)
           b == Back(num)
<1>1. /\ outbox = <<>> /\ outbox' = outbox /\ gen' # "running" /\ wire' = wire
      /\ gstats' = gstats /\ Sending(Generate)
  BY DEF Sending, Finish, Generate
<1>2. f = Front(num)' /\ stats'.seq_gap = stats.seq_gap /\ Paid' = Paid
  BY <1>1, SamePaid
<1>3. /\ f \in Seq(Byte) /\ w \in Seq(Byte) /\ b \in Seq(Byte) /\ Chain(num) = f \o (w \o b)
      /\ num \in [Nat -> Byte]
  BY ChainTyped DEF Chain
<1>4. Numbers(wire', num) = w /\ Numbers(outbox', num) \o Next1' = <<>>
  <2>1. Numbers(<<>>, num) = <<>> /\ <<>> \o <<>> = <<>>
    BY <1>3, NumbersFew
  <2> QED
    BY <1>1, <2>1 DEF Next1
<1> HIDE DEF f, w, b
<1>5. Chain(num)' = f \o w
  <2>1. w \o <<>> = w
    BY <1>3, ConcatEmptySeq
  <2> QED
    BY <1>2, <1>4, <2>1, ChainAfter
<1>6. Chain(num) = (f \o w) \o b /\ f \o w \in Seq(Byte)
  BY <1>3, Regroup, ConcatBytes
<1> QED
  BY <1>2, <1>3, <1>5, <1>6, FewerPays

LEMMA BreakPays ==
  ASSUME Conditions, NEW num, LinkInv(num), GapsPaid(num), Break
  PROVE  GapsPaid(num)'
<1> DEFINE f == Front(num)
           w == Numbers(wire, num)
           v == Numbers(wire', num)
           r == SubSeq(w, Len(wire') + 1, Len(wire))
           b == Back(num)
<1>1. /\ outbox = <<>> /\ outbox' = <<>> /\ gen' # "running"
      /\ UNCHANGED <<gstats, channel, from, last_seq, stats>>
  BY DEF Break, rvars, LinkInv, Sent
<1>2. f = Front(num)' /\ stats'.seq_gap = stats.seq_gap /\ Paid' = Paid
  BY <1>1 DEF Front, Known, Due, Settled, Paid
<1>3. /\ f \in Seq(Byte) /\ w \in Seq(Byte) /\ b \in Seq(Byte) /\ Chain(num) = f \o (w \o b)
      /\ num \in [Nat -> Byte] /\ wire \in Seq(Piece)
  BY ChainTyped DEF Chain
<1>4. /\ wire' \in Seq(Piece) /\ Len(wire') <= Len(wire)
      /\ \A k \in 1 .. Len(wire') : wire'[k].made_in = wire[k].made_in
  BY BrokenWire
<1>5. /\ Len(w) = Len(wire) /\ Len(wire) \in Nat
      /\ \A k \in 1 .. Len(wire) : w[k] = num[wire[k].made_in]
  BY <1>3, NumbersTyped
<1>6. /\ v \in Seq(Byte) /\ Len(v) = Len(wire') /\ Len(wire') \in Nat
      /\ \A k \in 1 .. Len(wire') : v[k] = num[wire'[k].made_in]
  BY <1>3, <1>4, NumbersTyped
<1> HIDE DEF f, w, v, b
<1>7. w = v \o r /\ r \in Seq(Byte)
  <2> DEFINE u == SubSeq(w, 1, Len(wire'))
  <2>1. /\ 1 \in Nat /\ 1 <= Len(wire') + 1 /\ Len(wire') <= Len(w) /\ Len(wire') + 1 \in Nat
        /\ 1 <= Len(wire') + 1 /\ Len(wire') + 1 <= Len(wire) + 1 /\ Len(wire) <= Len(w)
        /\ (Len(wire') + 1) - 1 = Len(wire')
    BY <1>4, <1>5, <1>6
  <2>2. u \o r = SubSeq(w, 1, Len(wire))
    <3> DEFINE m == Len(wire')
               n == Len(wire)
    <3>1. m \in Nat /\ n \in Nat /\ 1 \in Nat /\ 1 <= m + 1 /\ m <= n /\ n <= Len(w)
      BY <1>4, <1>5, <1>6, <2>1
    <3> HIDE DEF m, n
    <3>2. SubSeq(w, 1, m) \o SubSeq(w, m + 1, n) = SubSeq(w, 1, n)
      BY <1>3, <3>1, SlicesJoin
    <3> QED
      BY <3>2 DEF m, n
  <2>3. SubSeq(w, 1, Len(wire)) = w
    BY <1>3, <1>5, SliceAll
  <2>4. r \in Seq(Byte)
    BY <1>3, <1>5, <2>1, Slice
  <2>5. /\ u \in Seq(Byte) /\ Len(u) = Len(wire')
        /\ \A k \in 1 .. Len(wire') : u[k] = w[(1 + k) - 1]
    BY <1>3, <1>6, <2>1, Slice
  <2> HIDE DEF u, r
  <2>6. \A k \in 1 .. Len(wire') : k \in 1 .. Len(wire) /\ (1 + k) - 1 = k
    BY <1>4, <1>5, <1>6
  <2>7. \A k \in 1 .. Len(wire') : u[k] = v[k]
    BY <1>4, <1>5, <1>6, <2>5, <2>6
  <2>8. u = v
    BY <1>6, <2>5, <2>7, SeqEqual
  <2> QED
    BY <2>2, <2>3, <2>4, <2>8
<1>8. Numbers(outbox', num) \o Next1' = <<>>
  <2>1. Numbers(<<>>, num) = <<>> /\ <<>> \o <<>> = <<>>
    BY <1>3, NumbersFew
  <2> QED
    BY <1>1, <2>1 DEF Next1
<1> HIDE DEF r
<1>9. Chain(num)' = f \o v
  <2>1. v \o <<>> = v
    BY <1>6, ConcatEmptySeq
  <2>2. Chain(num)' = Front(num)' \o (Numbers(wire', num) \o (Numbers(outbox', num) \o Next1'))
    BY ChainAfter
  <2> QED
    BY <1>2, <1>8, <2>1, <2>2 DEF v
<1>10. /\ Chain(num) = (f \o v) \o (r \o b)
       /\ f \o v \in Seq(Byte) /\ r \o b \in Seq(Byte)
  <2>1. (v \o r) \o b = v \o (r \o b)
    BY <1>3, <1>6, <1>7, Regroup
  <2>2. f \o v \in Seq(Byte) /\ r \o b \in Seq(Byte)
    BY <1>3, <1>6, <1>7, ConcatBytes
  <2>3. (f \o v) \o (r \o b) = f \o (v \o (r \o b))
    BY <1>3, <1>6, <2>2, Regroup
  <2> QED
    BY <1>3, <1>7, <2>1, <2>2, <2>3
<1> QED
  BY <1>2, <1>9, <1>10, FewerPays

-----------------------------------------------------------------------------
(* What the transport does to the numbers under way. *)

LEMMA WireSplits ==
  ASSUME NEW num, LinkInv(num), NEW i \in 1 .. Len(wire)
  PROVE  \E x \in Seq(Byte), m \in Byte, z \in Seq(Byte) :
           /\ m = num[wire[i].made_in]
           /\ Numbers(wire, num) = x \o (<<m>> \o z)
           /\ Numbers(Without(i), num) = x \o z
           /\ i = 1 => x = <<>>
<1> DEFINE n == Len(wire)
           a == SubSeq(wire, 1, i - 1)
           b == SubSeq(wire, i + 1, n)
           q == wire[i]
           c == <<q>>
           x == Numbers(a, num)
           z == Numbers(b, num)
           m == num[q.made_in]
<1>1. num \in [Nat -> Byte] /\ wire \in Seq(Piece) /\ n \in Nat /\ q \in Piece
  BY ChainTyped, PieceFacts
<1>2. a \in Seq(Piece) /\ b \in Seq(Piece) /\ Without(i) = a \o b
  <2>1. a \in Seq(Piece)
    <3>1. 1 \in Nat /\ i - 1 \in Nat /\ 1 <= (i - 1) + 1 /\ i - 1 <= n
      BY <1>1
    <3> QED
      BY <1>1, <3>1, Slice
  <2>2. b \in Seq(Piece)
    <3>1. i + 1 \in Nat /\ 1 <= i + 1 /\ i + 1 <= n + 1 /\ n <= n
      BY <1>1
    <3> QED
      BY <1>1, <3>1, Slice
  <2> QED
    BY <2>1, <2>2 DEF Without
<1>3. wire = a \o (c \o b)
  <2>1. /\ 1 \in 1 .. n + 1 /\ i - 1 \in 1 - 1 .. n /\ n \in i - 1 .. n
        /\ (i - 1) + 1 = i /\ i \in 1 .. n /\ n \in i .. n
    BY <1>1
  <2>2. SubSeq(wire, 1, i - 1) \o SubSeq(wire, (i - 1) + 1, n) = SubSeq(wire, 1, n)
    BY <1>1, <2>1, ConcatAdjacentSubSeq
  <2>3. SubSeq(wire, i, n) = <<wire[i]>> \o SubSeq(wire, i + 1, n)
    BY <1>1, <2>1, SubSeqRecursiveFirst
  <2>4. SubSeq(wire, 1, n) = wire
    BY <1>1, SubSeqFull
  <2> QED
    BY <2>1, <2>2, <2>3, <2>4
<1>4. c \in Seq(Piece)
  BY <1>1
<1>5. Numbers(c, num) = <<m>> /\ m \in Byte
  BY <1>1, NumbersFew
<1>6. x \in Seq(Byte) /\ z \in Seq(Byte)
  <2> HIDE DEF a, b
  <2> QED
    BY <1>1, <1>2, NumbersTyped
<1>7. i = 1 => x = <<>>
  <2>1. i = 1 => a = <<>>
    <3>1. 1 \in Nat /\ i - 1 \in Nat /\ 1 <= (i - 1) + 1 /\ i - 1 <= n
      BY <1>1
    <3>2. Len(a) = ((i - 1) + 1) - 1
      BY <1>1, <3>1, Slice
    <3> HIDE DEF a
    <3>3. i = 1 => Len(a) = 0
      BY <3>2
    <3> QED
      BY <1>2, <3>3, EmptySeq
  <2> HIDE DEF a
  <2> QED
    BY <1>1, <2>1, NumbersFew
<1> HIDE DEF a, b, c, m, x, z
<1>8. c \o b \in Seq(Piece)
  BY <1>2, <1>4, ConcatBytes
<1>9. Numbers(c \o b, num) = <<m>> \o z
  <2>1. Numbers(c \o b, num) = Numbers(c, num) \o Numbers(b, num)
    BY <1>1, <1>2, <1>4, NumbersJoin
  <2> QED
    BY <1>5, <2>1 DEF z
<1>10. Numbers(wire, num) = x \o (<<m>> \o z)
  <2> DEFINE d == c \o b
  <2>1. d \in Seq(Piece) /\ wire = a \o d /\ Numbers(d, num) = <<m>> \o z
    BY <1>3, <1>8, <1>9
  <2> HIDE DEF d
  <2>2. Numbers(a \o d, num) = Numbers(a, num) \o Numbers(d, num)
    BY <1>1, <1>2, <2>1, NumbersJoin
  <2> QED
    BY <2>1, <2>2 DEF x
<1>11. Numbers(Without(i), num) = x \o z
  <2>1. Numbers(a \o b, num) = Numbers(a, num) \o Numbers(b, num)
    BY <1>1, <1>2, NumbersJoin
  <2> QED
    BY <1>2, <2>1 DEF x, z
<1>12. m = num[wire[i].made_in]
  BY DEF m
<1> QED
  BY <1>5, <1>6, <1>7, <1>10, <1>11, <1>12

\* A step pays for the breaks it makes.
LEMMA StepPays ==
  ASSUME NEW num, NEW num2, LinkInv(num), GapsPaid(num), NEW extra \in Nat, NEW more \in Nat,
         Breaks(Chain(num2)') \in Nat, Breaks(Chain(num2)') + extra <= Breaks(Chain(num)) + more,
         stats'.seq_gap = stats.seq_gap + extra, Paid' = Paid + more
  PROVE  GapsPaid(num2)'
<1>1. Breaks(Chain(num)) \in Nat /\ Paid \in Nat /\ stats.seq_gap \in Nat
  BY ChainTyped
<1>2. Breaks(Chain(num2))' = Breaks(Chain(num2)')
  BY DEF Breaks, BreaksOf
<1>3. \A a, b, c, d, e, f \in Nat : a + b <= d /\ c + e <= b + f => a + e + c <= d + f
  OBVIOUS
<1> QED
  BY <1>1, <1>2, <1>3 DEF GapsPaid

LEMMA LosePays ==
  ASSUME NEW num, LinkInv(num), GapsPaid(num), NEW i, Lose(i)
  PROVE  GapsPaid(num)'
<1> DEFINE f == Front(num)
           b == Back(num)
<1>1. /\ i \in 1 .. Len(wire) /\ wire' = Without(i)
      /\ channel' = [channel EXCEPT !.lost = @ + 1]
      /\ UNCHANGED <<seq, gstats, outbox, gen, from, last_seq, stats>>
  BY DEF Lose, rvars
<1>2. channel \in [intact : Nat, damaged : Nat, lost : Nat, repeated : Nat, overtook : Nat]
      /\ gstats.seq_gap \in Nat /\ gstats.burst_extra \in Nat
  BY DEF LinkInv, GenTyped, ReceiverTyped
<1>3. /\ channel'.intact = channel.intact /\ channel'.lost = channel.lost + 1
      /\ channel'.damaged = channel.damaged
      /\ channel'.repeated = channel.repeated /\ channel'.overtook = channel.overtook
  BY <1>1, <1>2
<1>4. PICK x \in Seq(Byte), m \in Byte, z \in Seq(Byte) :
        /\ Numbers(wire, num) = x \o (<<m>> \o z)
        /\ Numbers(Without(i), num) = x \o z
  BY <1>1, WireSplits
<1>5. f \in Seq(Byte) /\ b \in Seq(Byte)
  BY ChainTyped
<1>6. f = Front(num)'
  BY <1>1, <1>3 DEF Front, Known, Due, Settled
<1>7. b = Back(num)'
  BY <1>1 DEF Back, Numbers, Next1
<1> HIDE DEF f, b
<1>8. Chain(num) = f \o ((x \o (<<m>> \o z)) \o b)
  BY <1>4 DEF Chain, f, b
<1>9. Chain(num)' = f \o ((x \o z) \o b)
  <2>1. Chain(num)' = Front(num)' \o (Numbers(wire', num) \o Back(num)')
    BY DEF Chain, Numbers
  <2> QED
    BY <1>1, <1>4, <1>6, <1>7, <2>1
<1>10. /\ Breaks(f \o ((x \o z) \o b)) <= Breaks(f \o ((x \o (<<m>> \o z)) \o b)) + 1
       /\ Breaks(f \o ((x \o z) \o b)) \in Nat
  BY <1>5, DeliveryBreaks
<1>11. Paid' = Paid + 1
  <2>1. Paid' = gstats.seq_gap + gstats.burst_extra + channel.damaged + (channel.lost + 1)
                + 2 * channel.repeated + 3 * channel.overtook
    BY <1>1, <1>3 DEF Paid
  <2>2. /\ gstats.seq_gap \in Nat /\ gstats.burst_extra \in Nat
        /\ channel.damaged \in Nat /\ channel.lost \in Nat
        /\ channel.repeated \in Nat /\ channel.overtook \in Nat
    BY <1>2
  <2>3. Paid = gstats.seq_gap + gstats.burst_extra + channel.damaged + channel.lost
               + 2 * channel.repeated + 3 * channel.overtook
    BY DEF Paid
  <2> DEFINE s == gstats.seq_gap
             t == gstats.burst_extra
             d == channel.damaged
             l == channel.lost
             r == channel.repeated
             o == channel.overtook
  <2>4. s \in Nat /\ t \in Nat /\ d \in Nat /\ l \in Nat /\ r \in Nat /\ o \in Nat
    BY <2>2
  <2>5. Paid' = s + t + d + (l + 1) + 2 * r + 3 * o /\ Paid = s + t + d + l + 2 * r + 3 * o
    BY <2>1, <2>3
  <2> HIDE DEF s, t, d, l, r, o
  <2> QED
    BY <2>4, <2>5
<1>12. stats'.seq_gap = stats.seq_gap + 0
  <2>1. stats.seq_gap \in Nat
    BY ChainTyped
  <2> QED
    BY <1>1, <2>1
<1>13. /\ Breaks(Chain(num)') \in Nat
       /\ Breaks(Chain(num)') + 0 <= Breaks(Chain(num)) + 1
  <2>1. Breaks(Chain(num)') \in Nat /\ Breaks(Chain(num)') <= Breaks(Chain(num)) + 1
    BY <1>8, <1>9, <1>10
  <2> QED
    BY <2>1
<1>14. 0 \in Nat /\ 1 \in Nat
  OBVIOUS
<1> QED
  BY <1>11, <1>12, <1>13, <1>14, StepPays

\* What a delivery may cost the sequence check.
LEMMA DeliveryPaid ==
  ASSUME NEW num, LinkInv(num), NEW i, NEW again \in BOOLEAN, Deliver(i, again)
  PROVE  Paid' = Paid + (IF wire[i].intact THEN 0 ELSE 1) + (IF again THEN 2 ELSE 0)
                      + (IF i > 1 THEN 3 ELSE 0)
<1> DEFINE d == IF wire[i].intact THEN 0 ELSE 1
           r == IF again THEN 1 ELSE 0
           o == IF i > 1 THEN 1 ELSE 0
<1>1. /\ channel'.damaged = channel.damaged + d
      /\ channel'.lost = channel.lost
      /\ channel'.repeated = channel.repeated + r
      /\ channel'.overtook = channel.overtook + o
      /\ gstats' = gstats
  BY DeliveryCounts DEF LinkInv, Deliver
<1>2. /\ gstats.seq_gap \in Nat /\ gstats.burst_extra \in Nat
      /\ channel.damaged \in Nat /\ channel.lost \in Nat
      /\ channel.repeated \in Nat /\ channel.overtook \in Nat
  BY DEF LinkInv, GenTyped, ReceiverTyped
<1>3. /\ d \in {0, 1} /\ r \in {0, 1} /\ o \in {0, 1}
      /\ (IF again THEN 2 ELSE 0) = 2 * r
      /\ (IF i > 1 THEN 3 ELSE 0) = 3 * o
  OBVIOUS
<1> HIDE DEF d, r, o
<1>4. Paid' = gstats.seq_gap + gstats.burst_extra + (channel.damaged + d) + channel.lost
              + 2 * (channel.repeated + r) + 3 * (channel.overtook + o)
  BY <1>1 DEF Paid
<1>5. Paid = gstats.seq_gap + gstats.burst_extra + channel.damaged + channel.lost
             + 2 * channel.repeated + 3 * channel.overtook
  BY DEF Paid
<1>6. \A s, t, a, b, c, e \in Nat, x, y, z \in {0, 1} :
        s + t + (a + x) + b + 2 * (c + y) + 3 * (e + z)
          = (s + t + a + b + 2 * c + 3 * e) + x + 2 * y + 3 * z
  OBVIOUS
<1>7. Paid' = Paid + d + 2 * r + 3 * o
  BY <1>2, <1>3, <1>4, <1>5, <1>6
<1> QED
  BY <1>3, <1>7 DEF d

LEMMA DeliverPays ==
  ASSUME Conditions, NEW num, LinkInv(num), GapsPaid(num), NEW i, NEW again \in BOOLEAN,
         Deliver(i, again)
  PROVE  GapsPaid(num)'
<1> DEFINE k == Known
           b == Back(num)
           q == wire[i]
           cost == (IF q.intact THEN 0 ELSE 1) + (IF again THEN 2 ELSE 0) + (IF i > 1 THEN 3 ELSE 0)
<1>1. /\ i \in 1 .. Len(wire) /\ from' = q.made_in
      /\ wire' = IF again THEN wire ELSE Without(i)
      /\ UNCHANGED <<seq, outbox, gen, last_seq, stats>>
  BY DEF Deliver
<1>2. /\ LinkInv(num)' /\ Idle
      /\ q.intact => GoodDue(num)'
      /\ ~q.intact => Settled'
  BY DeliverKeeps
<1>3. q.intact => ~Settled'
  <2>1. \A a, c, d \in Nat : a + c + 1 = d => a + c # d
    OBVIOUS
  <2>2. stats'.ok \in Nat /\ stats'.seq_gap \in Nat /\ channel'.intact \in Nat
    BY <1>2 DEF LinkInv, ReceiverTyped
  <2> QED
    BY <1>2, <2>1, <2>2 DEF GoodDue, Settled
<1>4. PICK x \in Seq(Byte), m \in Byte, z \in Seq(Byte) :
        /\ m = num[q.made_in]
        /\ Numbers(wire, num) = x \o (<<m>> \o z)
        /\ Numbers(Without(i), num) = x \o z
        /\ i = 1 => x = <<>>
  BY <1>1, WireSplits
<1>5. k \in Seq(Byte) /\ b \in Seq(Byte)
  BY ChainTyped
<1>6. Front(num) = k
  <2>1. Due(num) = <<>>
    BY <1>2 DEF Idle, Due
  <2> HIDE DEF k
  <2> QED
    BY <1>5, <2>1, ConcatEmptySeq DEF Front, k
<1>7. Front(num)' = IF q.intact THEN k \o <<m>> ELSE k
  <2>1. Known' = k
    BY <1>1 DEF Known
  <2>2. Due(num)' = IF q.intact THEN <<m>> ELSE <<>>
    BY <1>1, <1>2, <1>3, <1>4 DEF Due
  <2>3. k \o <<>> = k
    <3> HIDE DEF k
    <3> QED
      BY <1>5, ConcatEmptySeq
  <2>4. Front(num)' = Known' \o Due(num)'
    BY DEF Front
  <2> QED
    BY <2>1, <2>2, <2>3, <2>4
<1>8. b = Back(num)'
  BY <1>1 DEF Back, Numbers, Next1
<1>9. i \in Nat /\ (~(i > 1) => x = <<>>)
  <2>1. Len(wire) \in Nat
    BY NatLess
  <2> QED
    BY <1>1, <1>4, <2>1
<1> HIDE DEF k, b
<1> DEFINE c == k \o ((x \o (<<m>> \o z)) \o b)
           d == k \o ((x \o z) \o b)
           e == (k \o <<m>>) \o ((x \o z) \o b)
           f == (k \o <<m>>) \o ((x \o (<<m>> \o z)) \o b)
<1>10. Chain(num) = c
  BY <1>4, <1>6 DEF Chain, b
<1>11. Chain(num)' = IF again THEN IF q.intact THEN f ELSE c
                     ELSE IF q.intact THEN e ELSE d
  <2>1. Chain(num)' = Front(num)' \o (Numbers(wire', num) \o Back(num)')
    BY DEF Chain, Numbers
  <2>2. Numbers(wire', num) = IF again THEN x \o (<<m>> \o z) ELSE x \o z
    BY <1>1, <1>4
  <2> QED
    BY <1>7, <1>8, <2>1, <2>2
<1>12. /\ Breaks(d) <= Breaks(c) + 1
       /\ Breaks(e) <= Breaks(c) + 3
       /\ Breaks(f) <= Breaks(c) + 2
       /\ x = <<>> => Breaks(e) = Breaks(c)
       /\ Breaks(c) \in Nat /\ Breaks(d) \in Nat /\ Breaks(e) \in Nat /\ Breaks(f) \in Nat
  BY <1>5, DeliveryBreaks
<1> HIDE DEF c, d, e, f
<1>13. Paid' = Paid + (IF q.intact THEN 0 ELSE 1) + (IF again THEN 2 ELSE 0)
                    + (IF i > 1 THEN 3 ELSE 0)
  BY DeliveryPaid
<1>14. stats.seq_gap \in Nat /\ Paid \in Nat
  BY ChainTyped
<1>15. cost \in Nat /\ Paid' = Paid + cost
  <2>1. \A p \in Nat, g, h, j \in {0, 1, 2, 3} : p + g + h + j = p + (g + h + j) /\ g + h + j \in Nat
    OBVIOUS
  <2> QED
    BY <1>13, <1>14, <2>1
<1>16. /\ Breaks(Chain(num)') \in Nat
       /\ Breaks(Chain(num)') <= Breaks(Chain(num)) + cost
  <2>1. q.intact \in BOOLEAN
    BY <1>1, ChainTyped, PieceFacts
  <2>2. CASE again /\ q.intact
    BY <1>10, <1>11, <1>12, <2>2
  <2>3. CASE again /\ ~q.intact
    BY <1>10, <1>11, <1>12, <2>3
  <2>4. CASE ~again /\ q.intact
    <3>1. Chain(num)' = e
      BY <1>11, <2>4
    <3>2. CASE i > 1
      BY <1>10, <1>12, <2>4, <3>1, <3>2
    <3>3. CASE ~(i > 1)
      BY <1>9, <1>10, <1>12, <2>4, <3>1, <3>3
    <3> QED
      BY <3>2, <3>3
  <2>5. CASE ~again /\ ~q.intact
    BY <1>10, <1>11, <1>12, <2>5
  <2> QED
    BY <2>1, <2>2, <2>3, <2>4, <2>5
<1> HIDE DEF cost
<1>17. Breaks(Chain(num)') + 0 <= Breaks(Chain(num)) + cost /\ stats'.seq_gap = stats.seq_gap + 0
       /\ 0 \in Nat
  BY <1>1, <1>14, <1>16
<1> QED
  BY <1>15, <1>16, <1>17, StepPays

\* The sequence check counts a gap where there is a break.
LEMMA HeardBreaks ==
  ASSUME NEW l \in Byte, NEW n \in Byte, NEW y \in Seq(Byte)
  PROVE  /\ Breaks((<<l>> \o <<n>>) \o y)
              = Breaks(<<n>> \o y) + IF n = Succ(l) THEN 0 ELSE 1
         /\ Breaks(<<n>> \o y) \in Nat
<1> DEFINE a == <<l>>
           b == <<n>>
           c == b \o y
<1>1. a \in Seq(Byte) /\ b \in Seq(Byte) /\ Len(a) = 1 /\ Len(b) = 1 /\ a[1] = l /\ b[1] = n
      /\ a # <<>>
  OBVIOUS
<1> HIDE DEF a, b
<1>2. /\ c \in Seq(Byte) /\ Len(b) \in Nat /\ Len(y) \in Nat /\ Len(c) = Len(b) + Len(y)
      /\ \A i \in 1 .. Len(b) : c[i] = b[i]
  BY <1>1, ConcatBytes
<1>3. (a \o b) \o y = a \o c
  BY <1>1, Regroup
<1> HIDE DEF c
<1>4. c[1] = n /\ c # <<>>
  <2>1. 1 \in 1 .. Len(b) /\ Len(c) # 0
    BY <1>1, <1>2
  <2> QED
    BY <1>1, <1>2, <2>1
<1>5. Breaks(a \o c) = Breaks(a) + Breaks(c) + Seam(a, c)
  BY <1>1, <1>2, BreaksJoin
<1>6. Breaks(a) = 0
  <2>1. Len(a) <= 1
    BY <1>1
  <2> QED
    BY <1>1, <2>1, ShortUnbroken
<1>7. Breaks(c) \in Nat
  BY <1>2, BreaksBound
<1>8. Seam(a, c) = IF n = Succ(l) THEN 0 ELSE 1
  BY <1>1, <1>4 DEF Seam
<1>9. Breaks((a \o b) \o y) = Breaks(c) + IF n = Succ(l) THEN 0 ELSE 1
  BY <1>3, <1>5, <1>6, <1>7, <1>8
<1> QED
  BY <1>7, <1>9 DEF a, b, c

LEMMA ReceivePays ==
  ASSUME Conditions, NEW num, LinkInv(num), GapsPaid(num), Receive
  PROVE  GapsPaid(num)'
<1> DEFINE y == Numbers(wire, num) \o Back(num)
           n == num[from]
<1>1. /\ LinkInv(num)' /\ UNCHANGED <<wire, outbox, seq, gen, gstats, from, channel>>
      /\ \/ Passing
         \/ GoodDue(num) /\ Completed(num)
  BY ReceiveKeeps DEF gvars
<1>2. /\ stats \in [ok : Nat, crc_fail : Nat, seq_gap : Nat] /\ channel.intact \in Nat
      /\ last_seq \in Byte \cup {None} /\ from \in Nat /\ num \in [Nat -> Byte]
  BY DEF LinkInv, ReceiverTyped, Sent
<1>3. y \in Seq(Byte) /\ n \in Byte /\ Known \in Seq(Byte)
  BY <1>2, ChainTyped, ConcatBytes
<1>4. Chain(num) = Front(num) \o y
  BY DEF Chain
<1>5. Chain(num)' = Front(num)' \o y
  BY <1>1 DEF Chain, Back, Numbers, Next1
<1>6. Paid' = Paid + 0
  <2>1. Paid \in Nat
    BY ChainTyped
  <2>2. Paid' = Paid
    BY <1>1 DEF Paid
  <2> QED
    BY <2>1, <2>2
<1>7. Breaks(Chain(num)) \in Nat /\ stats.seq_gap \in Nat /\ stats.ok \in Nat /\ 0 \in Nat /\ 1 \in Nat
  BY <1>2, ChainTyped
<1> HIDE DEF y, n
<1>8. CASE Passing
  <2>1. Front(num)' = Front(num)
    BY <1>1, <1>8 DEF Front, Known, Due, Settled, Passing
  <2>2. Chain(num)' = Chain(num)
    BY <1>4, <1>5, <2>1
  <2>3. /\ stats'.seq_gap = stats.seq_gap + 0 /\ Breaks(Chain(num)') \in Nat
        /\ Breaks(Chain(num)') + 0 <= Breaks(Chain(num)) + 0
    <3>1. stats'.seq_gap = stats.seq_gap
      BY <1>8 DEF Passing
    <3>2. Breaks(Chain(num)') = Breaks(Chain(num))
      BY <2>2
    <3> QED
      BY <1>7, <3>1, <3>2
  <2> QED
    BY <1>6, <1>7, <2>3, StepPays
<1>9. CASE GoodDue(num) /\ Completed(num)
  <2> DEFINE follows == last_seq = None \/ n = Succ(last_seq)
  <2>1. /\ last_seq' = n
        /\ IF follows THEN stats' = [stats EXCEPT !.ok = @ + 1]
           ELSE stats' = [stats EXCEPT !.seq_gap = @ + 1]
    BY <1>9 DEF Completed, n
  <2>2. stats.ok + stats.seq_gap + 1 = channel.intact
    BY <1>9 DEF GoodDue
  <2>3. /\ stats'.seq_gap = stats.seq_gap + IF follows THEN 0 ELSE 1
        /\ stats'.ok = stats.ok + IF follows THEN 1 ELSE 0
    <3> HIDE DEF follows
    <3> QED
      BY <1>2, <1>7, <2>1
  <2>4. ~Settled /\ Settled'
    <3>1. stats'.ok + stats'.seq_gap = channel'.intact
      BY <1>1, <1>7, <2>2, <2>3
    <3> QED
      BY <1>2, <1>7, <2>2, <3>1 DEF Settled
  <2>5. Front(num) = Known \o <<n>>
    BY <2>4 DEF Front, Due, n
  <2>6. Front(num)' = <<n>>
    <3>1. n # None
      BY <1>3, LinkAssumption
    <3>2. Known' = <<n>> /\ Due(num)' = <<>>
      BY <2>1, <2>4, <3>1 DEF Known, Due
    <3>3. <<n>> \in Seq(Byte)
      BY <1>3
    <3>4. <<n>> \o <<>> = <<n>>
      BY <3>3, ConcatEmptySeq
    <3> QED
      BY <3>2, <3>4 DEF Front
  <2>7. Chain(num)' = <<n>> \o y
    BY <1>5, <2>6
  <2>8. CASE last_seq = None
    <3>1. <<n>> \in Seq(Byte)
      BY <1>3
    <3>2. <<>> \o <<n>> = <<n>>
      BY <3>1, ConcatEmptySeq
    <3>3. Chain(num)' = Chain(num)
      BY <1>4, <2>5, <2>7, <2>8, <3>2 DEF Known
    <3>4. Breaks(Chain(num)') = Breaks(Chain(num))
      BY <3>3
    <3>5. /\ stats'.seq_gap = stats.seq_gap + 0 /\ Breaks(Chain(num)') \in Nat
          /\ Breaks(Chain(num)') + 0 <= Breaks(Chain(num)) + 0
      BY <1>7, <2>3, <2>8, <3>4
    <3> QED
      BY <1>6, <1>7, <3>5, StepPays
  <2>9. CASE last_seq # None
    <3>1. last_seq \in Byte
      BY <1>2, <2>9
    <3>2. Chain(num) = (<<last_seq>> \o <<n>>) \o y
      BY <1>4, <2>5, <2>9 DEF Known
    <3>3. /\ Breaks((<<last_seq>> \o <<n>>) \o y)
               = Breaks(<<n>> \o y) + IF n = Succ(last_seq) THEN 0 ELSE 1
          /\ Breaks(<<n>> \o y) \in Nat
      BY <1>3, <3>1, HeardBreaks
    <3>4. /\ Breaks(Chain(num)) = Breaks(Chain(num)') + IF follows THEN 0 ELSE 1
          /\ Breaks(Chain(num)') \in Nat
      BY <2>7, <2>9, <3>2, <3>3
    <3> HIDE DEF follows
    <3>5. CASE follows
      <4>1. /\ stats'.seq_gap = stats.seq_gap + 0
            /\ Breaks(Chain(num)') + 0 <= Breaks(Chain(num)) + 0
        BY <1>7, <2>3, <3>4, <3>5
      <4> QED
        BY <1>6, <1>7, <3>4, <4>1, StepPays
    <3>6. CASE ~follows
      <4>1. /\ stats'.seq_gap = stats.seq_gap + 1
            /\ Breaks(Chain(num)') + 1 <= Breaks(Chain(num)) + 0
        BY <1>7, <2>3, <3>4, <3>6
      <4> QED
        BY <1>6, <1>7, <3>4, <4>1, StepPays
    <3> QED
      BY <3>5, <3>6
  <2> QED
    BY <2>8, <2>9
<1> QED
  BY <1>1, <1>8, <1>9

LEMMA NothingPays ==
  ASSUME NEW num, GapsPaid(num), UNCHANGED lvars
  PROVE  GapsPaid(num)'
<1>1. UNCHANGED <<seq, gstats, outbox, gen, wire, from, last_seq, stats, channel>>
  BY DEF lvars, gvars, rvars
<1>2. Chain(num)' = Chain(num) /\ Paid' = Paid
  BY <1>1 DEF Chain, Front, Back, Known, Due, Next1, Numbers, Settled, Paid
<1>3. Breaks(Chain(num))' = Breaks(Chain(num)')
  BY DEF Breaks, BreaksOf
<1> QED
  BY <1>1, <1>2, <1>3 DEF GapsPaid

LEMMA PaidAtStart ==
  ASSUME LinkInit, NEW num, LinkInv(num)
  PROVE  GapsPaid(num)
<1>1. /\ last_seq = None /\ Settled /\ wire = <<>> /\ outbox = <<>> /\ gen = "running" /\ seq = 0
      /\ stats.seq_gap = 0
  BY DEF LinkInit, GeneratorInit, Settled
<1>2. num \in [Nat -> Byte] /\ Paid \in Nat /\ Next1 \in Seq(Byte)
  BY ChainTyped
<1>3. Numbers(<<>>, num) = <<>>
  BY <1>2, NumbersFew
<1>4. <<>> \o <<>> = <<>> /\ <<>> \o Next1 = Next1
  <2>1. <<>> \in Seq(Byte)
    OBVIOUS
  <2> QED
    BY <1>2, <2>1, ConcatEmptySeq
<1>5. Chain(num) = Next1
  BY <1>1, <1>3, <1>4 DEF Chain, Front, Known, Due, Back
<1>6. Len(Next1) <= 1
  BY <1>1 DEF Next1
<1>7. Breaks(Chain(num)) = 0
  BY <1>2, <1>5, <1>6, ShortUnbroken
<1> QED
  BY <1>1, <1>2, <1>7 DEF GapsPaid

\* The order when nothing but the state of the generator changes.
LEMMA FinishOrder ==
  ASSUME NEW num, InOrder(num), Sending(Finish)
  PROVE  InOrder(num)'
<1>1. UNCHANGED <<turn, outbox, sink, wire, from, last_seq, accepted>>
  BY DEF Sending, Finish, rvars
<1> QED
  BY <1>1 DEF InOrder, Ordered, AcceptedOnce

LEMMA LoseOrder ==
  ASSUME NEW num, InOrder(num), NEW i, Lose(i)
  PROVE  InOrder(num)'
<1>1. UNCHANGED <<turn, outbox, sink>> /\ sink # "stream"
  BY DEF Lose
<1> QED
  BY <1>1 DEF InOrder

LEMMA BreakOrder ==
  ASSUME Conditions, NEW num, LinkInv(num), InOrder(num), Break
  PROVE  InOrder(num)'
<1>1. UNCHANGED <<turn, outbox, sink, from, last_seq, accepted>> /\ sink = "stream"
  BY DEF Break, rvars
<1>2. /\ wire' \in Seq(Piece) /\ Len(wire') <= Len(wire)
      /\ \A k \in 1 .. Len(wire') : wire'[k].made_in = wire[k].made_in
  BY BrokenWire
<1>3. Len(wire) \in Nat /\ Len(wire') \in Nat
  BY <1>2, PieceFacts, NatLess
<1>4. \A k \in 1 .. Len(wire') : k \in 1 .. Len(wire)
  BY <1>2, <1>3
<1>5. Ordered /\ AcceptedOnce(num)
  BY <1>1 DEF InOrder
<1>6. Ordered'
  BY <1>1, <1>2, <1>4, <1>5 DEF Ordered
<1> QED
  BY <1>1, <1>5, <1>6 DEF InOrder, AcceptedOnce

LEMMA NothingOrder ==
  ASSUME NEW num, InOrder(num), UNCHANGED lvars
  PROVE  InOrder(num)'
<1>1. UNCHANGED <<turn, outbox, sink, wire, from, last_seq, accepted>>
  BY DEF lvars, gvars, rvars
<1> QED
  BY <1>1 DEF InOrder, Ordered, AcceptedOnce

LEMMA OrderAtStart ==
  ASSUME LinkInit, NEW num
  PROVE  InOrder(num)
<1>1. outbox = <<>> /\ wire = <<>> /\ accepted = <<>>
  BY DEF LinkInit, GeneratorInit
<1>2. Len(outbox) = 0 /\ Len(wire) = 0 /\ Len(accepted) = 0
  BY <1>1
<1> QED
  BY <1>2 DEF InOrder, Ordered, AcceptedOnce

-----------------------------------------------------------------------------
(* The three together are inductive. *)

FullInv(num) == LinkInv(num) /\ InOrder(num) /\ GapsPaid(num)
LinkIsSound == \E num : FullInv(num)

LEMMA GeneratorStep ==
  ASSUME Conditions, NEW num, FullInv(num), Sending(Generate)
  PROVE  LinkIsSound'
<1>1. LinkInv(num) /\ InOrder(num) /\ GapsPaid(num)
  BY DEF FullInv
<1>2. CASE Sending(MakeFrame)
  <2>1. PICK s \in Byte, p \in Payloads, extra \in Nat, gap \in {0, 1} :
          (gap = 0 => s = seq) /\ TurnGives(s, p, extra, gap)
    BY <1>1, <1>2, TurnIs DEF Sending, LinkInv
  <2>2. PICK num2 : num2 = [num EXCEPT ![turn + 1] = s]
    OBVIOUS
  <2>3. LinkInv(num2)'
    BY <1>1, <1>2, <2>1, <2>2, MakeFrameKeeps
  <2>4. InOrder(num2)'
    BY <1>1, <1>2, <2>1, <2>2, MakeFrameOrder
  <2>5. GapsPaid(num2)'
    BY <1>1, <1>2, <2>1, <2>2, MakeFramePays
  <2>6. FullInv(num2)'
    BY <2>3, <2>4, <2>5 DEF FullInv
  <2> QED
    BY <2>6 DEF LinkIsSound
<1>3. CASE Sending(Emit)
  <2>1. FullInv(num)'
    BY <1>1, <1>3, EmitKeeps, EmitOrder, EmitPays DEF FullInv
  <2> QED
    BY <2>1 DEF LinkIsSound
<1>4. CASE Sending(EmitFails)
  <2>1. FullInv(num)'
    BY <1>1, <1>4, EmitFailsKeeps, EmitFailsOrder, EmitFailsPays DEF FullInv
  <2> QED
    BY <2>1 DEF LinkIsSound
<1>5. CASE Sending(Finish)
  <2>1. FullInv(num)'
    BY <1>1, <1>5, FinishKeeps, FinishOrder, FinishPays DEF FullInv
  <2> QED
    BY <2>1 DEF LinkIsSound
<1> QED
  BY <1>2, <1>3, <1>4, <1>5 DEF Sending, Generate

LEMMA TransportStep ==
  ASSUME Conditions, NEW num, FullInv(num),
         \/ \E i \in 1 .. MaxWire, again \in BOOLEAN : Deliver(i, again)
         \/ \E i \in 1 .. MaxWire : Lose(i)
         \/ Break
  PROVE  FullInv(num)'
<1>1. LinkInv(num) /\ InOrder(num) /\ GapsPaid(num)
  BY DEF FullInv
<1>2. ASSUME NEW i \in 1 .. MaxWire, NEW again \in BOOLEAN, Deliver(i, again)
      PROVE  FullInv(num)'
  BY <1>1, <1>2, DeliverKeeps, DeliverOrder, DeliverPays DEF FullInv
<1>3. ASSUME NEW i \in 1 .. MaxWire, Lose(i)
      PROVE  FullInv(num)'
  BY <1>1, <1>3, LoseKeeps, LoseOrder, LosePays DEF FullInv
<1>4. ASSUME Break
      PROVE  FullInv(num)'
  BY <1>1, <1>4, BreakKeeps, BreakOrder, BreakPays DEF FullInv
<1> QED
  BY <1>2, <1>3, <1>4

LEMMA LinkStaysSound ==
  ASSUME Conditions
  PROVE  LinkSpec => []LinkIsSound
<1>1. LinkInit => LinkIsSound
  <2> SUFFICES ASSUME LinkInit PROVE LinkIsSound
    OBVIOUS
  <2> DEFINE num == [t \in Nat |-> 0]
  <2>1. LinkInv(num)
    BY LinkStarts
  <2> HIDE DEF num
  <2>2. FullInv(num)
    BY <2>1, OrderAtStart, PaidAtStart DEF FullInv
  <2> QED
    BY <2>2 DEF LinkIsSound
<1>2. LinkIsSound /\ [LinkNext]_lvars => LinkIsSound'
  <2> SUFFICES ASSUME LinkIsSound, [LinkNext]_lvars PROVE LinkIsSound'
    OBVIOUS
  <2>1. PICK num : FullInv(num)
    BY DEF LinkIsSound
  <2>2. LinkInv(num) /\ InOrder(num) /\ GapsPaid(num)
    BY <2>1 DEF FullInv
  <2>3. FullInv(num)' => LinkIsSound'
    BY DEF LinkIsSound
  <2>4. CASE Sending(Generate)
    BY <2>1, <2>4, GeneratorStep
  <2>5. CASE \/ \E i \in 1 .. MaxWire, again \in BOOLEAN : Deliver(i, again)
             \/ \E i \in 1 .. MaxWire : Lose(i)
             \/ Break
    BY <2>1, <2>3, <2>5, TransportStep
  <2>6. CASE Receive
    <3>1. LinkInv(num)' /\ InOrder(num)' /\ GapsPaid(num)'
      BY <2>2, <2>6, ReceiveKeeps, ReceiveOrder, ReceivePays
    <3> QED
      BY <2>3, <3>1 DEF FullInv
  <2>7. CASE UNCHANGED lvars
    <3>1. LinkInv(num)' /\ InOrder(num)' /\ GapsPaid(num)'
      BY <2>2, <2>7, NothingKeeps, NothingOrder, NothingPays
    <3> QED
      BY <2>3, <3>1 DEF FullInv
  <2>8. Quiet => UNCHANGED lvars
    BY DEF Quiet
  <2> QED
    BY <2>4, <2>5, <2>6, <2>7, <2>8 DEF LinkNext
<1> QED
  BY <1>1, <1>2, PTL DEF LinkSpec

\* Whatever was flipped, cut, lost, repeated or reordered on the way, the
\* framer finds back to the next frame: every intact frame that arrives is
\* recognised and counted, ok or as a gap, and every damaged one raises
\* crc_fail once or twice (push_byte and ingest, fed by the generator).
THEOREM LinkJudgesFrames ==
  ASSUME Conditions
  PROVE  LinkSpec => []FramesJudged
<1>1. LinkIsSound => FramesJudged
  BY LinkInvGives DEF LinkIsSound, FullInv
<1> QED
  BY <1>1, LinkStaysSound, PTL

\* Over a pipe, a file or TCP the validator lets through no frame twice and
\* none late: the copies of a burst fail its check for the next number, and
\* no damage makes an older frame come through.
THEOREM LinkKeepsOrder ==
  ASSUME Conditions
  PROVE  LinkSpec => []StreamInOrder
<1>1. LinkIsSound => StreamInOrder
  BY DEF LinkIsSound, FullInv, InOrder, AcceptedOnce, StreamInOrder
<1> QED
  BY <1>1, LinkStaysSound, PTL

\* What the validator reports as gaps is bounded by what happened: one for a
\* number the generator skipped, a copy it made, a frame damaged or lost, two
\* for a datagram repeated and three for one that overtook others.
THEOREM LinkBoundsGaps ==
  ASSUME Conditions
  PROVE  LinkSpec => []FaultsBounded
<1>1. LinkIsSound => FaultsBounded
  <2> SUFFICES ASSUME NEW num, FullInv(num) PROVE FaultsBounded
    BY DEF LinkIsSound
  <2>1. LinkInv(num) /\ GapsPaid(num)
    BY DEF FullInv
  <2>2. IntactAccounted
    BY <2>1, LinkInvGives DEF FramesJudged
  <2>3. Breaks(Chain(num)) \in Nat /\ Paid \in Nat /\ stats.seq_gap \in Nat
    BY <2>1, ChainTyped
  <2>4. stats.seq_gap <= Paid
    BY <2>1, <2>3 DEF GapsPaid
  <2> QED
    BY <2>2, <2>4 DEF FaultsBounded, GapsBounded, Paid
<1> QED
  BY <1>1, LinkStaysSound, PTL

=============================================================================
