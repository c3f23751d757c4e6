---------------------------- MODULE FramerProofs ----------------------------
(***************************************************************************)
(* Proofs about the framer, for every buffer capacity, header layout and   *)
(* byte width.  The inductive invariant is TypeOK /\ InStep: the verdicts  *)
(* only agree with FramerSpec because the buffer is the segment while      *)
(* collecting, and discarding means that the segment has outgrown it.      *)
(* What those verdicts are worth is shown in the last two sections: the    *)
(* round trip of CobsProofs, the layout of a frame, and from both that     *)
(* every frame sent is delivered and that none is invented.                *)
(***************************************************************************)
EXTENDS Framer, CobsProofs

\* The five answers of feed, whatever the bytes: process() answers with an
\* error or with a frame, never with Incomplete or Overflow.
LEMMA ProcessKind ==
  ASSUME NEW s
  PROVE  Process(s).kind \in {"CobsError", "ParseError", "Complete"}
<1>1. ASSUME NEW d
      PROVE  Parse(d).kind \in {"ParseError", "Complete"}
  BY DEF Parse, ParseError, Complete
<1>2. CASE CobsDecode(s).ok
  BY <1>1, <1>2 DEF Process
<1>3. CASE ~CobsDecode(s).ok
  BY <1>3 DEF Process, CobsError
<1> QED
  BY <1>2, <1>3

\* A saturating counter stays in its range.
LEMMA IncType ==
  ASSUME NEW n \in 0 .. MaxCount
  PROVE  SaturatingInc(n) \in 0 .. MaxCount
BY FramerAssumption DEF SaturatingInc

\* The buffer stays within its capacity, free of delimiters, and the resync
\* counter within its width, whatever bytes are fed (Framer::feed).
THEOREM TypeCorrect == Spec => []TypeOK
<1>1. Init => TypeOK
  BY FramerAssumption DEF Init, TypeOK, States, Incomplete
<1>2. TypeOK /\ [Next]_vars => TypeOK'
  <2> SUFFICES ASSUME TypeOK, [Next]_vars
               PROVE  TypeOK'
    OBVIOUS
  <2> USE FramerAssumption
  <2>1. ASSUME NEW byte \in Byte, Discard(byte)
        PROVE  TypeOK'
    BY <2>1 DEF Discard, Extend, TypeOK, Incomplete
  <2>2. ASSUME NEW byte \in Byte, Resync(byte)
        PROVE  TypeOK'
    BY <2>2 DEF Resync, TypeOK, States, Incomplete
  <2>3. ASSUME NEW byte \in Byte, Push(byte)
        PROVE  TypeOK'
    BY <2>3 DEF Push, Full, Extend, TypeOK, Incomplete
  <2>4. ASSUME NEW byte \in Byte, PushFails(byte)
        PROVE  TypeOK'
    BY <2>4, IncType DEF PushFails, Full, AfterOverflow, Extend, TypeOK, States, Overflow
  <2>5. ASSUME NEW byte \in Byte, SkipDelimiter(byte)
        PROVE  TypeOK'
    BY <2>5 DEF SkipDelimiter, TypeOK, Incomplete
  <2>6. ASSUME NEW byte \in Byte, EndOfFrame(byte)
        PROVE  TypeOK'
    <3>1. out'.kind \in {"CobsError", "ParseError", "Complete"}
      BY <2>6, ProcessKind DEF EndOfFrame
    <3>2. resync_count' \in 0 .. MaxCount
      BY <2>6, IncType DEF EndOfFrame, TypeOK
    <3> QED
      BY <2>6, <3>1, <3>2 DEF EndOfFrame, TypeOK
  <2>7. CASE UNCHANGED vars
    BY <2>7 DEF vars, TypeOK
  <2> QED
    BY <2>1, <2>2, <2>3, <2>4, <2>5, <2>6, <2>7 DEF Next, Feed
<1> QED
  BY <1>1, <1>2, PTL DEF Spec

\* While collecting, the buffer is everything since the last delimiter; the
\* framer discards only a segment that has outgrown it (Framer::feed).
THEOREM StaysInStep == Spec => []InStep
<1>1. Init => InStep
  BY DEF Init, InStep
<1>2. TypeOK /\ InStep /\ [Next]_vars => InStep'
  <2> SUFFICES ASSUME TypeOK, InStep, [Next]_vars
               PROVE  InStep'
    OBVIOUS
  <2> USE FramerAssumption
  <2>1. ASSUME NEW byte \in Byte, Discard(byte)
        PROVE  InStep'
    BY <2>1 DEF Discard, Extend, TypeOK, InStep
  <2>2. ASSUME NEW byte \in Byte, Resync(byte)
        PROVE  InStep'
    BY <2>2 DEF Resync, InStep
  <2>3. ASSUME NEW byte \in Byte, Push(byte)
        PROVE  InStep'
    BY <2>3 DEF Push, Full, Extend, InStep
  <2>4. ASSUME NEW byte \in Byte, PushFails(byte)
        PROVE  InStep'
    BY <2>4 DEF PushFails, Full, AfterOverflow, Extend, TypeOK, InStep
  <2>5. ASSUME NEW byte \in Byte, SkipDelimiter(byte)
        PROVE  InStep'
    BY <2>5 DEF SkipDelimiter, InStep
  <2>6. ASSUME NEW byte \in Byte, EndOfFrame(byte)
        PROVE  InStep'
    BY <2>6 DEF EndOfFrame, InStep
  <2>7. CASE UNCHANGED vars
    BY <2>7 DEF vars, InStep
  <2> QED
    BY <2>1, <2>2, <2>3, <2>4, <2>5, <2>6, <2>7 DEF Next, Feed
<1> QED
  BY <1>1, <1>2, TypeCorrect, PTL DEF Spec

\* The abstract module has its own copy of the frame definitions, at the same
\* constants: they are the same operators.
LEMMA SameDefinitions ==
  /\ Abstract!Byte = Byte
  /\ Abstract!Incomplete = Incomplete
  /\ Abstract!Overflow = Overflow
  /\ \A s : Abstract!Process(s) = Process(s)
<1>1. \A s : Abstract!CobsDecode(s) = CobsDecode(s)
  BY Zenon DEF Abstract!CobsDecode, CobsDecode, Abstract!BadCobs, BadCobs
<1>2. \A d : Abstract!Parse(d) = Parse(d)
  BY Zenon DEF Abstract!Parse, Parse, Abstract!PayloadLen, PayloadLen,
     Abstract!MIN_FRAME_LEN, MIN_FRAME_LEN,
     Abstract!TooShort, TooShort, Abstract!Misfit, Misfit, Abstract!ParseError, ParseError,
     Abstract!Complete, Complete
<1>3. \A s : Abstract!Process(s) = Process(s)
  BY <1>1, <1>2, Zenon DEF Abstract!Process, Process, Abstract!CobsError, CobsError
<1> QED
  BY <1>3 DEF Abstract!Byte, Byte, Abstract!Incomplete, Incomplete,
              Abstract!Overflow, Overflow

\* The framer, with its buffer and its two modes, implements the stateless
\* splitter: one verdict per non-empty segment, a function of that segment
\* alone, and each re-synchronisation counted once.
THEOREM Refinement == Spec => ImplementsFramerSpec
<1> USE SameDefinitions
<1> USE DEF Abstract!Take, Abstract!Answer, Abstract!Fits, Abstract!Resyncs,
            Incomplete, Overflow, CobsError, SaturatingInc
<1>1. Init => Abstract!Init
  BY DEF Init, Abstract!Init
<1>2. TypeOK /\ InStep /\ [Next]_vars => [Abstract!Next]_Abstract!vars
  <2> SUFFICES ASSUME TypeOK, InStep, [Next]_vars
               PROVE  [Abstract!Next]_Abstract!vars
    OBVIOUS
  <2> USE FramerAssumption
  <2>1. ASSUME NEW byte \in Byte, Discard(byte)
        PROVE  Abstract!Take(byte)
    BY <2>1 DEF Discard, Extend, TypeOK, InStep
  <2>2. ASSUME NEW byte \in Byte, Resync(byte)
        PROVE  Abstract!Take(byte)
    BY <2>2 DEF Resync, TypeOK, InStep
  <2>3. ASSUME NEW byte \in Byte, Push(byte)
        PROVE  Abstract!Take(byte)
    BY <2>3 DEF Push, Full, Extend, TypeOK, InStep
  <2>4. ASSUME NEW byte \in Byte, PushFails(byte)
        PROVE  Abstract!Take(byte)
    BY <2>4 DEF PushFails, Full, AfterOverflow, Extend, TypeOK, InStep
  <2>5. ASSUME NEW byte \in Byte, SkipDelimiter(byte)
        PROVE  Abstract!Take(byte)
    BY <2>5 DEF SkipDelimiter, InStep
  <2>6. ASSUME NEW byte \in Byte, EndOfFrame(byte)
        PROVE  Abstract!Take(byte)
    BY <2>6, ProcessKind DEF EndOfFrame, TypeOK, InStep
  <2>7. CASE UNCHANGED vars
    BY <2>7 DEF vars, Abstract!vars
  <2> QED
    BY <2>1, <2>2, <2>3, <2>4, <2>5, <2>6, <2>7 DEF Next, Feed, Abstract!Next
<1> QED
  BY <1>1, <1>2, TypeCorrect, StaysInStep, PTL DEF Spec, ImplementsFramerSpec, Abstract!Spec
-----------------------------------------------------------------------------
(* The frame: what encode_raw lays out and process() reads back. *)

\* A number of two digits is divided into them again.
LEMMA TwoDigits ==
  ASSUME NEW B \in Nat, B > 0, NEW lo \in 0 .. B - 1, NEW hi \in Nat
  PROVE  /\ lo + B * hi \in Nat
         /\ (lo + B * hi) % B = lo
         /\ (lo + B * hi) \div B = hi
<1> DEFINE n == lo + B * hi
           q == n \div B
           r == n % B
<1>1. n \in Nat
  OBVIOUS
<1> HIDE DEF n
<1>2. q \in Nat /\ r \in 0 .. B - 1 /\ n = B * q + r
  BY <1>1
<1> HIDE DEF q, r
<1>3. B * q + r = B * hi + lo
  BY <1>2 DEF n
<1>4. q = hi
  <2>1. CASE q > hi
    <3>1. q - hi - 1 \in Nat
      BY <1>2, <2>1
    <3> DEFINE d == q - hi - 1
    <3>2. q = hi + 1 + d /\ d \in Nat
      BY <1>2, <3>1
    <3> HIDE DEF d
    <3>3. B * q = B * hi + B + B * d /\ B * d \in Nat
      BY <3>2
    <3> QED
      BY <1>2, <1>3, <3>3
  <2>2. CASE q < hi
    <3>1. hi - q - 1 \in Nat
      BY <1>2, <2>2
    <3> DEFINE d == hi - q - 1
    <3>2. hi = q + 1 + d /\ d \in Nat
      BY <1>2, <3>1
    <3> HIDE DEF d
    <3>3. B * hi = B * q + B + B * d /\ B * d \in Nat
      BY <1>2, <3>2
    <3> QED
      BY <1>2, <1>3, <3>3
  <2> QED
    BY <1>2, <2>1, <2>2
<1>5. r = lo
  BY <1>2, <1>3, <1>4
<1> QED
  BY <1>1, <1>4, <1>5 DEF n, q, r

\* A number below the square of the base has two digits.
LEMMA IntoDigits ==
  ASSUME NEW B \in Nat, B > 0, NEW n \in Nat, n < B * B
  PROVE  /\ n % B \in 0 .. B - 1 /\ n \div B \in 0 .. B - 1
         /\ (n % B) + B * (n \div B) = n
<1> DEFINE q == n \div B
           r == n % B
<1>1. q \in Nat /\ r \in 0 .. B - 1 /\ n = B * q + r
  OBVIOUS
<1> HIDE DEF q, r
<1>2. q <= B - 1
  <2> SUFFICES ASSUME q >= B PROVE FALSE
    BY <1>1
  <2> DEFINE d == q - B
  <2>1. q = B + d /\ d \in Nat
    BY <1>1
  <2> HIDE DEF d
  <2>2. B * q = B * B + B * d /\ B * d \in Nat
    BY <2>1
  <2> QED
    BY <1>1, <2>2
<1>3. r + B * q = n
  BY <1>1
<1> QED
  BY <1>1, <1>2, <1>3 DEF q, r

\* A sequence of n bytes as the function the frame's fields are.
LEMMA SeqIsField ==
  ASSUME NEW S, NEW s \in Seq(S), NEW n \in Nat, Len(s) = n
  PROVE  s \in [1 .. n -> S]
BY LenProperties

\* And the other way round.
LEMMA FieldIsSeq ==
  ASSUME NEW S, NEW n \in Nat, NEW s \in [1 .. n -> S]
  PROVE  s \in Seq(S) /\ Len(s) = n
<1>1. s \in Seq(S)
  BY SeqDef
<1>2. DOMAIN s = 1 .. n /\ DOMAIN s = 1 .. Len(s) /\ Len(s) \in Nat
  BY <1>1, LenProperties
<1>3. \A m \in Nat : 1 .. m = 1 .. n => m = n
  <2> SUFFICES ASSUME NEW m \in Nat, 1 .. m = 1 .. n PROVE m = n
    OBVIOUS
  <2>1. m \in 1 .. m <=> m \in 1 .. n
    OBVIOUS
  <2>2. n \in 1 .. m <=> n \in 1 .. n
    OBVIOUS
  <2> QED
    BY <2>1, <2>2
<1>4. Len(s) = n
  BY <1>2, <1>3
<1> QED
  BY <1>1, <1>4

\* The bytes of the length field.
Digits(f) == <<f.payload_len % (MaxByte + 1), f.payload_len \div (MaxByte + 1)>>

\* The fields of a frame with n bytes of payload.
FrameParts(f, n) ==
  /\ f = [id |-> f.id, payload_len |-> n, payload |-> f.payload, crc_bytes |-> f.crc_bytes]
  /\ f.payload_len = n
  /\ f.id \in Seq(Byte) /\ Len(f.id) = HEADER_LEN - 2
  /\ f.payload \in Seq(Byte) /\ Len(f.payload) = n
  /\ f.crc_bytes \in Seq(Byte) /\ Len(f.crc_bytes) = CRC16_LEN

\* The frames are the records whose fields have the right lengths.
LEMMA FramesAre ==
  ASSUME NEW f
  PROVE  f \in Frames <=> \E n \in 0 .. MAX_PAYLOAD : FrameParts(f, n)
<1>1. HEADER_LEN - 2 \in Nat /\ CRC16_LEN \in Nat /\ MAX_PAYLOAD \in Nat
  BY FrameAssumption
<1>2. ASSUME f \in Frames
      PROVE  \E n \in 0 .. MAX_PAYLOAD : FrameParts(f, n)
  <2>1. PICK n \in 0 .. MAX_PAYLOAD :
          f \in [id : [1 .. HEADER_LEN - 2 -> Byte], payload_len : {n},
                 payload : [1 .. n -> Byte], crc_bytes : [1 .. CRC16_LEN -> Byte]]
    BY <1>2 DEF Frames
  <2>2. /\ f = [id |-> f.id, payload_len |-> n, payload |-> f.payload, crc_bytes |-> f.crc_bytes]
        /\ f.payload_len = n
        /\ f.id \in [1 .. HEADER_LEN - 2 -> Byte]
        /\ f.payload \in [1 .. n -> Byte]
        /\ f.crc_bytes \in [1 .. CRC16_LEN -> Byte]
    BY <2>1
  <2>3. f.id \in Seq(Byte) /\ Len(f.id) = HEADER_LEN - 2
    BY <1>1, <2>2, FieldIsSeq
  <2>4. f.payload \in Seq(Byte) /\ Len(f.payload) = n
    <3>1. n \in Nat
      BY <1>1
    <3> QED
      BY <2>2, <3>1, FieldIsSeq
  <2>5. f.crc_bytes \in Seq(Byte) /\ Len(f.crc_bytes) = CRC16_LEN
    BY <1>1, <2>2, FieldIsSeq
  <2>6. FrameParts(f, n)
    BY <2>2, <2>3, <2>4, <2>5, Zenon DEF FrameParts
  <2> QED
    BY <2>6
<1>3. ASSUME NEW n \in 0 .. MAX_PAYLOAD, FrameParts(f, n)
      PROVE  f \in Frames
  <2>1. /\ f = [id |-> f.id, payload_len |-> n, payload |-> f.payload, crc_bytes |-> f.crc_bytes]
        /\ f.id \in Seq(Byte) /\ Len(f.id) = HEADER_LEN - 2
        /\ f.payload \in Seq(Byte) /\ Len(f.payload) = n
        /\ f.crc_bytes \in Seq(Byte) /\ Len(f.crc_bytes) = CRC16_LEN
    BY <1>3, Zenon DEF FrameParts
  <2>2. f.id \in [1 .. HEADER_LEN - 2 -> Byte]
    BY <1>1, <2>1, SeqIsField
  <2>3. f.payload \in [1 .. n -> Byte]
    <3>1. n \in Nat
      BY <1>1
    <3> QED
      BY <2>1, <3>1, SeqIsField
  <2>4. f.crc_bytes \in [1 .. CRC16_LEN -> Byte]
    BY <1>1, <2>1, SeqIsField
  <2> DEFINE i == f.id
             p == f.payload
             c == f.crc_bytes
  <2>5. /\ f = [id |-> i, payload_len |-> n, payload |-> p, crc_bytes |-> c]
        /\ i \in [1 .. HEADER_LEN - 2 -> Byte] /\ p \in [1 .. n -> Byte]
        /\ c \in [1 .. CRC16_LEN -> Byte]
    BY <2>1, <2>2, <2>3, <2>4
  <2> HIDE DEF i, p, c
  <2>6. f \in [id : [1 .. HEADER_LEN - 2 -> Byte], payload_len : {n},
               payload : [1 .. n -> Byte], crc_bytes : [1 .. CRC16_LEN -> Byte]]
    BY <2>5
  <2> QED
    BY <2>6 DEF Frames
<1> QED
  BY <1>2, <1>3

\* What Framer::process accepts.
Accepted(d, n) ==
  /\ n = PayloadLen(d) /\ n \in 0 .. MAX_PAYLOAD
  /\ Len(d) = HEADER_LEN + n + CRC16_LEN

\* The two bytes of payload_len and the number they make.
LEMMA LengthField ==
  ASSUME NEW d \in Seq(Byte), ~TooShort(d)
  PROVE  /\ d[HEADER_LEN - 1] \in 0 .. MaxByte /\ d[HEADER_LEN] \in 0 .. MaxByte
         /\ PayloadLen(d) \in Nat
         /\ PayloadLen(d) % (MaxByte + 1) = d[HEADER_LEN - 1]
         /\ PayloadLen(d) \div (MaxByte + 1) = d[HEADER_LEN]
<1> DEFINE lo == d[HEADER_LEN - 1]
           hi == d[HEADER_LEN]
           B == MaxByte + 1
<1>1. HEADER_LEN - 1 \in 1 .. Len(d) /\ HEADER_LEN \in 1 .. Len(d)
  BY ByteFacts, FrameAssumption DEF TooShort, MIN_FRAME_LEN
<1>2. lo \in Byte /\ hi \in Byte
  BY <1>1, ElementOfSeq
<1>3. B \in Nat /\ B > 0 /\ lo \in 0 .. B - 1 /\ hi \in Nat
  <2> HIDE DEF lo, hi
  <2> QED
    BY <1>2, MaxByteAssumption DEF Byte
<1>4. PayloadLen(d) = lo + B * hi
  BY DEF PayloadLen
<1> HIDE DEF lo, hi, B
<1>5. PayloadLen(d) \in Nat /\ PayloadLen(d) % B = lo /\ PayloadLen(d) \div B = hi
  BY <1>3, <1>4, TwoDigits
<1> QED
  BY <1>2, <1>5 DEF lo, hi, B, Byte

\* A frame is complete exactly when its length is the announced one.
LEMMA CompleteIs ==
  ASSUME NEW d \in Seq(Byte)
  PROVE  /\ Parse(d).kind = "Complete" =>
              /\ ~TooShort(d) /\ \E n \in Nat : Accepted(d, n)
         /\ \A n \in Nat : Accepted(d, n) =>
              Parse(d) = Complete([id          |-> SubSeq(d, 1, HEADER_LEN - 2),
                                   payload_len |-> n,
                                   payload     |-> SubSeq(d, HEADER_LEN + 1, HEADER_LEN + n),
                                   crc_bytes   |-> SubSeq(d, HEADER_LEN + n + 1,
                                                          HEADER_LEN + n + CRC16_LEN)])
<1>1. ASSUME Parse(d).kind = "Complete"
      PROVE  ~TooShort(d) /\ \E n \in Nat : Accepted(d, n)
  <2>1. ~TooShort(d) /\ ~(PayloadLen(d) > MAX_PAYLOAD) /\ ~Misfit(d)
    <3>1. ParseError.kind # "Complete"
      BY DEF ParseError
    <3> QED
      BY <1>1, <3>1 DEF Parse
  <2>2. PayloadLen(d) \in Nat
    BY <2>1, LengthField
  <2>3. PayloadLen(d) \in 0 .. MAX_PAYLOAD
    BY <2>1, <2>2, FrameAssumption
  <2>4. Accepted(d, PayloadLen(d))
    BY <2>1, <2>3, Zenon DEF Accepted, Misfit
  <2> QED
    BY <2>1, <2>2, <2>4
<1>2. ASSUME NEW n \in Nat, Accepted(d, n)
      PROVE  Parse(d) = Complete([id          |-> SubSeq(d, 1, HEADER_LEN - 2),
                                  payload_len |-> n,
                                  payload     |-> SubSeq(d, HEADER_LEN + 1, HEADER_LEN + n),
                                  crc_bytes   |-> SubSeq(d, HEADER_LEN + n + 1,
                                                         HEADER_LEN + n + CRC16_LEN)])
  <2>1. ~TooShort(d) /\ ~(PayloadLen(d) > MAX_PAYLOAD)
    BY <1>2, FrameAssumption DEF Accepted, TooShort, MIN_FRAME_LEN
  <2>2. ~Misfit(d) /\ PayloadLen(d) = n
    BY <1>2, Zenon DEF Accepted, Misfit
  <2> QED
    BY <2>1, <2>2, Zenon DEF Parse
<1> QED
  BY <1>1, <1>2

\* What is accepted is a frame, and laying it out again gives the same bytes
\* (Framer::process, Frame::encode_raw).
LEMMA ParseFaithful ==
  ASSUME NEW d \in Seq(Byte), Parse(d).kind = "Complete"
  PROVE  Parse(d).frame \in Frames /\ EncodeRaw(Parse(d).frame) = d
<1> DEFINE H == HEADER_LEN
           C == CRC16_LEN
<1>1. PICK n \in Nat : Accepted(d, n)
  BY CompleteIs
<1> DEFINE j == H + n
<1> DEFINE i == SubSeq(d, 1, H - 2)
           p == SubSeq(d, H + 1, j)
           c == SubSeq(d, j + 1, j + C)
           f == [id |-> i, payload_len |-> n, payload |-> p, crc_bytes |-> c]
           two == SubSeq(d, H - 1, H)
<1>2. Parse(d) = Complete(f)
  BY <1>1, CompleteIs
<1>3. /\ n \in 0 .. MAX_PAYLOAD /\ n = PayloadLen(d)
      /\ H \in Nat /\ H >= 2 /\ C \in Nat
      /\ j \in Nat /\ j = H + n /\ Len(d) = j + C
  BY <1>1, FrameAssumption DEF Accepted
<1> HIDE DEF j, H, C
<1>A. H \in Nat /\ 1 <= H + 1 /\ j \in Nat /\ H <= j
  BY <1>3
<1>B. j \in Nat /\ C \in Nat /\ Len(d) = j + C
  BY <1>3
<1>C. j <= Len(d)
  BY <1>B
<1>4. i \in Seq(Byte) /\ Len(i) = H - 2
  <2>1. H - 2 \in Nat /\ 1 <= (H - 2) + 1 /\ H - 2 <= Len(d) /\ ((H - 2) + 1) - 1 = H - 2
    BY <1>3
  <2> QED
    BY <2>1, Slice
<1>5. p \in Seq(Byte) /\ Len(p) = n
  <2> DEFINE m == H + 1
  <2>1. m \in Nat /\ 1 <= m /\ m <= j + 1 /\ j <= Len(d) /\ (j + 1) - m = n
    BY <1>3
  <2> HIDE DEF m
  <2>2. SubSeq(d, m, j) \in Seq(Byte) /\ Len(SubSeq(d, m, j)) = (j + 1) - m
    BY <1>3, <2>1, Slice
  <2> QED
    BY <2>1, <2>2 DEF m
<1>6. c \in Seq(Byte) /\ Len(c) = C
  <2> DEFINE m == j + 1
             k == j + C
  <2>1. \A x, y \in Nat : /\ x + 1 \in Nat /\ x + y \in Nat /\ 1 <= x + 1
                          /\ x + 1 <= (x + y) + 1 /\ ((x + y) + 1) - (x + 1) = y
    OBVIOUS
  <2>2. m \in Nat /\ k \in Nat /\ 1 <= m /\ m <= k + 1 /\ k <= Len(d) /\ (k + 1) - m = C
    BY <1>B, <2>1
  <2> HIDE DEF m, k
  <2>3. SubSeq(d, m, k) \in Seq(Byte) /\ Len(SubSeq(d, m, k)) = (k + 1) - m
    BY <2>2, Slice
  <2> QED
    BY <2>2, <2>3 DEF m, k
<1>7. two = Digits(f)
  <2>1. ~TooShort(d) /\ f.payload_len = n
    BY CompleteIs
  <2>2. /\ n % (MaxByte + 1) = d[H - 1] /\ n \div (MaxByte + 1) = d[H]
        /\ d[H - 1] \in 0 .. MaxByte /\ d[H] \in 0 .. MaxByte
    BY <1>3, <2>1, LengthField DEF H
  <2>7. H - 1 \in 1 .. Len(d) /\ H \in 1 .. Len(d)
    BY <1>3
  <2>3. SubSeq(d, H - 1, H - 1) \o SubSeq(d, H, H) = two
    <3>1. H - 1 \in Nat /\ 1 <= H - 1 /\ H - 1 <= (H - 1) + 1 /\ H - 1 <= H /\ H <= Len(d)
          /\ (H - 1) + 1 = H
      BY <1>3
    <3>2. SubSeq(d, H - 1, H - 1) \o SubSeq(d, (H - 1) + 1, H) = SubSeq(d, H - 1, H)
      BY <1>3, <3>1, SlicesJoin
    <3> QED
      BY <3>1, <3>2
  <2>4. SubSeq(d, H - 1, H - 1) = <<d[H - 1]>> /\ SubSeq(d, H, H) = <<d[H]>>
    BY <2>7, SliceOne
  <2>5. <<d[H - 1]>> \o <<d[H]>> = <<d[H - 1], d[H]>>
    BY <2>2, Pair
  <2> HIDE DEF f, two
  <2>6. two = <<d[H - 1], d[H]>>
    BY <2>3, <2>4, <2>5
  <2> QED
    BY <2>1, <2>2, <2>6 DEF Digits
<1>8. i \o two \o p \o c = d
  <2>1. i \o two = SubSeq(d, 1, H)
    <3>1. /\ 1 \in Nat /\ H - 2 \in Nat /\ 1 <= (H - 2) + 1 /\ H - 2 <= H /\ H <= Len(d)
          /\ (H - 2) + 1 = H - 1
      BY <1>3
    <3>2. SubSeq(d, 1, H - 2) \o SubSeq(d, (H - 2) + 1, H) = SubSeq(d, 1, H)
      BY <1>3, <3>1, SlicesJoin
    <3> QED
      BY <3>1, <3>2
  <2>2. SubSeq(d, 1, H) \o p = SubSeq(d, 1, j)
    <3>1. 1 \in Nat /\ 1 <= 1
      OBVIOUS
    <3>2. SubSeq(d, 1, H) \o SubSeq(d, H + 1, j) = SubSeq(d, 1, j)
      BY <1>A, <1>C, <3>1, SlicesJoin
    <3> QED
      BY <3>2
  <2>3. SubSeq(d, 1, j) \o c = SubSeq(d, 1, j + C)
    <3> DEFINE k == j + C
    <3>1. 1 \in Nat /\ k \in Nat /\ 1 <= j + 1 /\ j <= k /\ k <= Len(d)
      BY <1>B
    <3> HIDE DEF k
    <3>2. SubSeq(d, 1, j) \o SubSeq(d, j + 1, k) = SubSeq(d, 1, k)
      BY <1>A, <3>1, SlicesJoin
    <3> QED
      BY <3>2 DEF k
  <2>4. SubSeq(d, 1, j + C) = d
    BY <1>3, SliceAll
  <2> QED
    BY <2>1, <2>2, <2>3, <2>4
<1> HIDE DEF i, p, c, two
<1>9. EncodeRaw(f) = d
  <2>1. f.id = i /\ f.payload = p /\ f.crc_bytes = c
    OBVIOUS
  <2>2. EncodeRaw(f) = f.id \o Digits(f) \o f.payload \o f.crc_bytes
    BY DEF EncodeRaw, Digits
  <2> QED
    BY <1>7, <1>8, <2>1, <2>2
<1>10. f \in Frames
  <2>1. FrameParts(f, n)
    BY <1>3, <1>4, <1>5, <1>6 DEF FrameParts, H, C
  <2> HIDE DEF f
  <2> QED
    BY <1>3, <2>1, FramesAre
<1>11. Parse(d).frame = f
  BY <1>2 DEF Complete
<1> QED
  BY <1>9, <1>10, <1>11

\* The bytes of a frame, and where its fields are in them.
LEMMA RawBytes ==
  ASSUME NEW f, NEW n \in 0 .. MAX_PAYLOAD, FrameParts(f, n), TwoBytes
  PROVE  /\ EncodeRaw(f) \in Seq(Byte)
         /\ Accepted(EncodeRaw(f), n)
         /\ SubSeq(EncodeRaw(f), 1, HEADER_LEN - 2) = f.id
         /\ SubSeq(EncodeRaw(f), HEADER_LEN + 1, HEADER_LEN + n) = f.payload
         /\ SubSeq(EncodeRaw(f), HEADER_LEN + n + 1, HEADER_LEN + n + CRC16_LEN) = f.crc_bytes
<1> DEFINE H == HEADER_LEN
           C == CRC16_LEN
           B == MaxByte + 1
           lo == n % B
           hi == n \div B
           two == <<lo, hi>>
           i == f.id
           p == f.payload
           c == f.crc_bytes
           head == i \o two
           body == head \o p
           d == body \o c
<1>1. /\ n \in Nat /\ MaxByte \in Nat /\ B \in Nat /\ B > 0 /\ B * B > n
  BY MaxByteAssumption, FrameAssumption DEF TwoBytes
<1>2. lo \in 0 .. B - 1 /\ hi \in 0 .. B - 1 /\ lo + B * hi = n
  BY <1>1, IntoDigits
<1>3. lo \in Byte /\ hi \in Byte
  <2> HIDE DEF lo, hi
  <2>1. B - 1 = MaxByte
    BY <1>1
  <2> QED
    BY <1>2, <2>1 DEF Byte
<1> HIDE DEF lo, hi
<1>4. two \in Seq(Byte) /\ Len(two) = 2 /\ two[1] = lo /\ two[2] = hi
  BY <1>3
<1>5. EncodeRaw(f) = d
  BY DEF EncodeRaw, FrameParts, lo, hi
<1>6. /\ i \in Seq(Byte) /\ Len(i) = H - 2
      /\ p \in Seq(Byte) /\ Len(p) = n
      /\ c \in Seq(Byte) /\ Len(c) = C
  BY DEF FrameParts
<1> HIDE DEF two, i, p, c
<1>7. /\ head \in Seq(Byte) /\ Len(head) = Len(i) + Len(two)
      /\ \A x \in 1 .. Len(two) : head[Len(i) + x] = two[x]
  <2>1. i \in Seq(Byte) /\ two \in Seq(Byte)
    BY <1>4, <1>6
  <2> QED
    BY <2>1, ConcatBytes
<1>8. H \in Nat /\ H >= 2 /\ C \in Nat
  BY FrameAssumption
<1> HIDE DEF H, C
<1>9. Len(head) = H /\ head[H - 1] = lo /\ head[H] = hi
  <2>1. (H - 2) + 2 = H /\ (H - 2) + 1 = H - 1 /\ 1 \in 1 .. 2 /\ 2 \in 1 .. 2
    BY <1>8
  <2>2. head[(H - 2) + 1] = two[1] /\ head[(H - 2) + 2] = two[2]
    BY <1>4, <1>6, <1>7, <2>1
  <2> QED
    BY <1>4, <1>6, <1>7, <2>1, <2>2
<1>10. /\ body \in Seq(Byte) /\ Len(body) = Len(head) + Len(p)
       /\ \A x \in 1 .. Len(head) : body[x] = head[x]
  <2> HIDE DEF head
  <2>1. head \in Seq(Byte) /\ p \in Seq(Byte)
    BY <1>6, <1>7
  <2> QED
    BY <2>1, ConcatBytes
<1>11. /\ d \in Seq(Byte) /\ Len(d) = Len(body) + Len(c)
       /\ \A x \in 1 .. Len(body) : d[x] = body[x]
  <2> HIDE DEF body
  <2>1. body \in Seq(Byte) /\ c \in Seq(Byte)
    BY <1>6, <1>10
  <2> QED
    BY <2>1, ConcatBytes
<1> DEFINE j == H + n
<1>12. j \in Nat /\ Len(body) = j /\ Len(d) = j + C
  <2> HIDE DEF head, body, d
  <2> QED
    BY <1>1, <1>6, <1>8, <1>9, <1>10, <1>11
<1>13. Accepted(d, n)
  <2> HIDE DEF head, body, d
  <2>1. H - 1 \in 1 .. H /\ H \in 1 .. H /\ H - 1 \in 1 .. j /\ H \in 1 .. j
    BY <1>1, <1>8
  <2>2. d[H - 1] = lo /\ d[H] = hi
    BY <1>9, <1>10, <1>11, <1>12, <2>1
  <2>3. PayloadLen(d) = n
    BY <1>2, <2>2 DEF PayloadLen, H
  <2>4. Len(d) = HEADER_LEN + n + CRC16_LEN
    BY <1>12 DEF H, C
  <2> QED
    BY <2>3, <2>4, Zenon DEF Accepted
<1>14. SubSeq(d, 1, H - 2) = i
  <2> DEFINE h == H - 2
  <2>1. h \in Nat /\ 1 \in Nat /\ 1 <= 1 /\ 1 <= h + 1 /\ h <= H /\ h <= j
    BY <1>1, <1>8
  <2>2. Len(i) = h /\ Len(head) = H /\ Len(body) = j /\ h <= Len(i) /\ h <= Len(head)
        /\ h <= Len(body)
    BY <1>6, <1>9, <1>12, <2>1
  <2>3. SubSeq(i \o two, 1, h) = SubSeq(i, 1, h)
    <3> HIDE DEF h
    <3> QED
      BY <1>4, <1>6, <2>1, <2>2, SliceBefore
  <2>4. SubSeq(head \o p, 1, h) = SubSeq(head, 1, h)
    <3> HIDE DEF h, head
    <3> QED
      BY <1>6, <1>7, <2>1, <2>2, SliceBefore
  <2>5. SubSeq(body \o c, 1, h) = SubSeq(body, 1, h)
    <3> HIDE DEF h, body
    <3> QED
      BY <1>6, <1>10, <2>1, <2>2, SliceBefore
  <2>6. SubSeq(i, 1, h) = i
    BY <1>6, <2>2, SliceAll
  <2> QED
    BY <2>3, <2>4, <2>5, <2>6
<1>15. SubSeq(d, H + 1, j) = p
  <2>1. SubSeq(head \o p, Len(head) + 1, Len(head) + n) = SubSeq(p, 1, n)
    <3> HIDE DEF head
    <3>1. head \in Seq(Byte) /\ p \in Seq(Byte) /\ 1 \in Nat /\ 1 <= 1 /\ 1 <= n + 1 /\ n <= Len(p)
      BY <1>1, <1>6, <1>7
    <3> QED
      BY <1>1, <3>1, SliceBehind
  <2>2. SubSeq(p, 1, n) = p
    BY <1>6, SliceAll
  <2>3. SubSeq(body, H + 1, j) = p
    BY <1>9, <2>1, <2>2
  <2>4. SubSeq(body \o c, H + 1, j) = SubSeq(body, H + 1, j)
    <3> DEFINE m == H + 1
    <3>1. m \in Nat /\ 1 <= m /\ m <= j + 1 /\ j \in Nat
      BY <1>1, <1>8
    <3> HIDE DEF m, j, body
    <3>2. j <= Len(body)
      BY <1>12
    <3>3. SubSeq(body \o c, m, j) = SubSeq(body, m, j)
      BY <1>6, <1>10, <3>1, <3>2, SliceBefore
    <3> QED
      BY <3>3 DEF m
  <2> QED
    BY <2>3, <2>4
<1>16. SubSeq(d, j + 1, j + C) = c
  <2>1. SubSeq(body \o c, Len(body) + 1, Len(body) + C) = SubSeq(c, 1, C)
    <3> HIDE DEF body
    <3>1. body \in Seq(Byte) /\ c \in Seq(Byte) /\ 1 \in Nat /\ 1 <= 1 /\ 1 <= C + 1 /\ C <= Len(c)
      BY <1>6, <1>8, <1>10
    <3> QED
      BY <1>8, <3>1, SliceBehind
  <2>2. SubSeq(c, 1, C) = c
    BY <1>6, SliceAll
  <2> QED
    BY <1>12, <2>1, <2>2
<1> QED
  BY <1>5, <1>11, <1>13, <1>14, <1>15, <1>16 DEF H, C, i, p, c

\* A frame that was laid out is read back as it was.
LEMMA ParseUndoes ==
  ASSUME NEW f \in Frames, TwoBytes
  PROVE  /\ EncodeRaw(f) \in Seq(Byte)
         /\ Len(EncodeRaw(f)) <= HEADER_LEN + MAX_PAYLOAD + CRC16_LEN
         /\ Parse(EncodeRaw(f)) = Complete(f)
<1> DEFINE d == EncodeRaw(f)
<1>1. PICK n \in 0 .. MAX_PAYLOAD : FrameParts(f, n)
  BY FramesAre
<1>2. n \in Nat
  BY FrameAssumption
<1>3. /\ d \in Seq(Byte) /\ Accepted(d, n)
      /\ SubSeq(d, 1, HEADER_LEN - 2) = f.id
      /\ SubSeq(d, HEADER_LEN + 1, HEADER_LEN + n) = f.payload
      /\ SubSeq(d, HEADER_LEN + n + 1, HEADER_LEN + n + CRC16_LEN) = f.crc_bytes
  BY <1>1, RawBytes
<1> HIDE DEF d
<1>4. Parse(d) = Complete([id          |-> SubSeq(d, 1, HEADER_LEN - 2),
                           payload_len |-> n,
                           payload     |-> SubSeq(d, HEADER_LEN + 1, HEADER_LEN + n),
                           crc_bytes   |-> SubSeq(d, HEADER_LEN + n + 1,
                                                  HEADER_LEN + n + CRC16_LEN)])
  BY <1>2, <1>3, CompleteIs
<1>5. f = [id |-> f.id, payload_len |-> n, payload |-> f.payload, crc_bytes |-> f.crc_bytes]
  BY <1>1, Zenon DEF FrameParts
<1>6. Parse(d) = Complete(f)
  BY <1>3, <1>4, <1>5, Zenon
<1>7. Len(d) <= HEADER_LEN + MAX_PAYLOAD + CRC16_LEN
  <2>1. Len(d) = HEADER_LEN + n + CRC16_LEN
    BY <1>3 DEF Accepted
  <2> QED
    BY <2>1, FrameAssumption
<1> QED
  BY <1>3, <1>6, <1>7 DEF d

-----------------------------------------------------------------------------
(* What the framer delivers. *)

\* On the wire a frame is not empty, fits the buffer and decodes to its bytes.
LEMMA WireIs ==
  ASSUME NEW f \in Frames, TwoBytes, WireFits
  PROVE  /\ Wire[f] # <<>>
         /\ Len(Wire[f]) <= N
         /\ CobsDecode(Wire[f]) = [ok |-> TRUE, data |-> EncodeRaw(f)]
<1> DEFINE d == EncodeRaw(f)
           w == CobsEncode(d)
           M == HEADER_LEN + MAX_PAYLOAD + CRC16_LEN
           L == MaxByte - 1
<1>1. Wire[f] = w
  BY DEF Wire, EncodeCobs
<1>2. d \in Seq(Byte) /\ Len(d) <= M
  BY ParseUndoes
<1> HIDE DEF d
<1>3. /\ w \in Blocks /\ w # <<>> /\ CobsDecode(w) = [ok |-> TRUE, data |-> d]
      /\ L * (Len(w) - 1 - Len(d)) <= Len(d)
  BY <1>2, CobsRoundTrip
<1> HIDE DEF w
<1>4. Len(w) \in Nat /\ Len(d) \in Nat /\ M \in Nat /\ N \in Nat /\ L \in Nat
      /\ L * (N - M) > M
  BY <1>2, <1>3, LenProperties, FrameAssumption, FramerAssumption, MaxByteAssumption
     DEF Blocks, WireFits
<1>5. Len(w) <= N
  <2> SUFFICES ASSUME Len(w) > N PROVE FALSE
    BY <1>4
  <2> DEFINE x == Len(w) - 1 - Len(d)
             y == N - M
             z == x - y
  <2> HIDE DEF L, M
  <2>1. x \in Int /\ y \in Int /\ z \in Nat /\ x = y + z
    <3>1. \A a, b, c, e \in Nat : a > c /\ b <= e =>
            /\ a - 1 - b \in Int /\ c - e \in Int
            /\ (a - 1 - b) - (c - e) \in Nat
            /\ a - 1 - b = (c - e) + ((a - 1 - b) - (c - e))
      OBVIOUS
    <3>2. Len(d) <= M
      BY <1>2 DEF M
    <3> QED
      BY <1>4, <3>1, <3>2
  <2>2. L * x <= Len(d) /\ L * y > M
    BY <1>3, <1>4
  <2> HIDE DEF x, y, z
  <2>3. L * x = L * y + L * z /\ L * z \in Nat /\ L * y \in Int
    BY <1>4, <2>1
  <2> QED
    BY <1>2, <1>4, <2>2, <2>3 DEF M
<1> QED
  BY <1>1, <1>3, <1>5 DEF d

\* A segment that was collected to its end is judged by process().
LEMMA SegmentEnds ==
  ASSUME TypeOK, InStep, [Next]_vars, seg # <<>>, seg' = <<>>
  PROVE  \/ Len(seg) > N /\ out' = Incomplete
         \/ Len(seg) <= N /\ out' = Process(seg)
<1> USE FramerAssumption
<1>1. ASSUME NEW byte \in Byte, Extend(byte)
      PROVE  FALSE
  BY <1>1 DEF Extend, TypeOK
<1>2. ASSUME NEW byte \in Byte, Resync(byte)
      PROVE  Len(seg) > N /\ out' = Incomplete
  BY <1>2 DEF Resync, InStep
<1>3. ASSUME NEW byte \in Byte, SkipDelimiter(byte)
      PROVE  FALSE
  BY <1>3 DEF SkipDelimiter, InStep
<1>4. ASSUME NEW byte \in Byte, EndOfFrame(byte)
      PROVE  Len(seg) <= N /\ out' = Process(seg)
  BY <1>4 DEF EndOfFrame, InStep, TypeOK
<1>5. CASE UNCHANGED vars
  BY <1>5 DEF vars
<1> QED
  BY <1>1, <1>2, <1>3, <1>4, <1>5
     DEF Next, Feed, Discard, Push, PushFails

\* Whatever noise, overflow or error went before it, a frame that arrives
\* whole between two delimiters comes out as that very frame: the buffer holds
\* it, COBS gives its bytes back, and process() cuts them where encode_raw put
\* them (Framer::feed, Frame::encode_cobs).  The hypotheses are about the
\* constants only: 512 bytes of buffer for frames of at most 491 bytes, and a
\* limit of 480 for a length in two bytes.
THEOREM FramesAreDelivered ==
  ASSUME TwoBytes, WireFits
  PROVE  Spec => ValidFrameDelivered
<1>1. TypeOK /\ InStep /\ [Next]_vars =>
        [seg # <<>> /\ seg' = <<>> =>
           \A f \in Frames : seg = Wire[f] => out' = Complete(f)]_vars
  <2> SUFFICES ASSUME TypeOK, InStep, [Next]_vars, seg # <<>>, seg' = <<>>,
                      NEW f \in Frames, seg = Wire[f]
               PROVE  out' = Complete(f)
    OBVIOUS
  <2>1. Len(seg) <= N /\ CobsDecode(seg) = [ok |-> TRUE, data |-> EncodeRaw(f)]
    BY WireIs
  <2>2. out' = Process(seg)
    <3>1. Len(seg) \in Nat
      BY DEF TypeOK
    <3> QED
      BY <2>1, <3>1, SegmentEnds, FramerAssumption
  <2>3. Process(seg) = Parse(EncodeRaw(f))
    BY <2>1 DEF Process
  <2> QED
    BY <2>2, <2>3, ParseUndoes
<1> QED
  BY <1>1, TypeCorrect, StaysInStep, PTL DEF Spec, ValidFrameDelivered

\* The framer invents nothing: what it calls a frame is one that Frame::new
\* can build, and the bytes that were received are its encoding
\* (Framer::process).
THEOREM NothingInvented == Spec => CompleteIsFaithful
<1>1. TypeOK /\ InStep /\ [Next]_vars =>
        [out'.kind = "Complete" /\ seg # <<>> /\ seg' = <<>> =>
           /\ out'.frame \in Frames
           /\ EncodeRaw(out'.frame) = CobsDecode(seg).data]_vars
  <2> SUFFICES ASSUME TypeOK, InStep, [Next]_vars,
                      out'.kind = "Complete", seg # <<>>, seg' = <<>>
               PROVE  /\ out'.frame \in Frames
                      /\ EncodeRaw(out'.frame) = CobsDecode(seg).data
    OBVIOUS
  <2> DEFINE d == CobsDecode(seg).data
  <2>1. out' = Process(seg)
    BY SegmentEnds DEF Incomplete
  <2>2. CobsDecode(seg).ok /\ out' = Parse(d)
    BY <2>1 DEF Process, CobsError
  <2>3. d \in Seq(Byte)
    <3>1. seg \in Seq(Byte)
      BY SeqMonotonic DEF TypeOK
    <3> QED
      BY <3>1, DecodeTyped DEF Answers
  <2> HIDE DEF d
  <2>4. Parse(d).frame \in Frames /\ EncodeRaw(Parse(d).frame) = d
    BY <2>2, <2>3, ParseFaithful
  <2> QED
    BY <2>2, <2>4 DEF d
<1> QED
  BY <1>1, TypeCorrect, StaysInStep, PTL DEF Spec, CompleteIsFaithful
=============================================================================
