---------------------------- MODULE RecordCodec -----------------------------
(***************************************************************************)
(* telemetry-core/src/record.rs: encode and decode, down to the bytes, and *)
(* read_segment over them (telemetry-std/src/lib.rs).                      *)
(*                                                                         *)
(* A byte is a number in 0..MaxByte (module Cobs), and a varint keeps half *)
(* of a byte's values for its digits.  CRC-32 is stood in for by a         *)
(* polynomial remainder of CRC_LEN bytes: what is checked of damage holds  *)
(* for the damage that occurs in the instance.                             *)
(***************************************************************************)
EXTENDS Cobs, SequencesExt

CONSTANTS MAX_PAYLOAD,               \* 480 in the code
          MAX_STORED_RECORD_BYTES,   \* 512 in the code
          CRC_LEN,                   \* 4 in the code
          CrcModulus,                \* at most as many as CRC_LEN bytes can tell apart
          MaxU64, MaxU32             \* the largest timestamp and sequence number

ASSUME RecordAssumption ==
  /\ MaxByte >= 3   \* a varint has more than one digit to a byte
  /\ MAX_PAYLOAD \in Nat /\ MAX_STORED_RECORD_BYTES \in Nat /\ CRC_LEN \in Nat
  /\ CrcModulus \in Nat /\ CrcModulus \in 1 .. (MaxByte + 1) ^ CRC_LEN
  /\ MaxU32 \in Nat /\ MaxU64 \in Nat /\ MAX_PAYLOAD <= MaxU64

\* A StoredRecord.  V1 is the only version this code can read; a record of
\* another version is one that a newer program wrote.
V1 == 0

IsRecord(r) ==
  /\ r \in [version : Byte, timestamp_us : 0 .. MaxU64, sequence : 0 .. MaxU32,
            packet_type : Byte, severity : Byte, payload : Seq(Byte)]
  /\ Len(r.payload) <= MAX_PAYLOAD

CodecError == [ok |-> FALSE]

-----------------------------------------------------------------------------
(* postcard                                                                *)

Radix == (MaxByte + 1) \div 2

\* Low digits first; a byte of Radix or more announces another digit.
Varint(n) ==
  LET From[k \in 0 .. n] ==
        IF k < Radix THEN <<k>> ELSE <<Radix + (k % Radix)>> \o From[k \div Radix]
  IN  From[n]

\* The last digit of the varint that starts at position i of s, and the number
\* whose digits are those from i to last.
Ends(s, i) == {j \in i .. Len(s) : s[j] < Radix}
LastDigit(s, i) == CHOOSE j \in Ends(s, i) : \A k \in Ends(s, i) : j <= k

FromDigits(s, i, last) ==
  LET From[j \in i .. last + 1] ==
        IF j > last THEN 0 ELSE (s[j] % Radix) + Radix * From[j + 1]
  IN  From[i]

\* The varint that starts at position i of s, and the position after it: an
\* error if s ends first, or if it does not fit the integer type.
TakeVarint(s, i, max) ==
  LET last == LastDigit(s, i)
  IN  IF \/ Ends(s, i) = {} \/ last - i >= Len(Varint(max))
         \/ FromDigits(s, i, last) > max
      THEN CodecError
      ELSE [ok |-> TRUE, value |-> FromDigits(s, i, last), next |-> last + 1]

\* postcard::to_slice
Serialize(r) ==
  Varint(r.version) \o Varint(r.timestamp_us) \o Varint(r.sequence)
    \o <<r.packet_type, r.severity>> \o Varint(Len(r.payload)) \o r.payload

\* postcard::from_bytes: bytes left over at the end are ignored.
Deserialize(s) ==
  LET version == TakeVarint(s, 1, MaxU32)
      stamp   == TakeVarint(s, version.next, MaxU64)
      number  == TakeVarint(s, stamp.next, MaxU32)
      at      == number.next
      length  == TakeVarint(s, at + 2, MaxU64)
      from    == length.next
  IN  IF /\ version.ok /\ version.value = V1
         /\ stamp.ok /\ number.ok /\ at + 1 <= Len(s)
         /\ length.ok /\ length.value <= MAX_PAYLOAD
         /\ from + length.value - 1 <= Len(s)
      THEN [ok |-> TRUE,
            record |-> [version |-> V1, timestamp_us |-> stamp.value,
                        sequence |-> number.value, packet_type |-> s[at],
                        severity |-> s[at + 1],
                        payload |-> SubSeq(s, from, from + length.value - 1)]]
      ELSE CodecError

-----------------------------------------------------------------------------
(* encode                                                                  *)

\* The checksum of s, low byte first.
Crc(s) ==
  LET Rest[n \in 0 .. Len(s)] ==
        IF n = 0 THEN 1 ELSE (7 * Rest[n - 1] + s[n] + 1) % CrcModulus
      Shifted[k \in 0 .. CRC_LEN] ==
        IF k = 0 THEN Rest[Len(s)] ELSE Shifted[k - 1] \div (MaxByte + 1)
  IN  [k \in 1 .. CRC_LEN |-> Shifted[k - 1] % (MaxByte + 1)]

\* cobs::max_encoding_length: one code byte for every full block begun.
MaxEncodingLength(n) == n + (n + MaxByte - 2) \div (MaxByte - 1)

\* encode, into a buffer of buf_len bytes.
Encode(r, buf_len) ==
  LET postcard == Serialize(r)
      pre_cobs == postcard \o Crc(postcard)
  IN  IF \/ Len(pre_cobs) > MAX_STORED_RECORD_BYTES
         \/ buf_len < MaxEncodingLength(Len(pre_cobs)) + 1
      THEN CodecError
      ELSE [ok |-> TRUE, bytes |-> Append(CobsEncode(pre_cobs), 0)]

-----------------------------------------------------------------------------
(* decode                                                                  *)

\* The delimiter at the end may be there or not.
AsIs(buf) == buf   \* mutant
Strip(buf) == IF buf # <<>> /\ Last(buf) = 0 THEN Front(buf) ELSE buf

Unchecked(data) ==   \* mutant
  IF Len(data) < CRC_LEN THEN CodecError
  ELSE Deserialize(SubSeq(data, 1, Len(data) - CRC_LEN))

\* The bytes inside the COBS envelope: the checksum is the last CRC_LEN.
Checked(data) ==
  LET postcard == SubSeq(data, 1, Len(data) - CRC_LEN)
  IN  IF Len(data) < CRC_LEN \/ data # postcard \o Crc(postcard) THEN CodecError
      ELSE Deserialize(postcard)

Decode(buf) ==
  LET cobs_bytes == Strip(buf)
      decoded == CobsDecode(cobs_bytes)
  IN  IF \/ cobs_bytes = <<>>
         \/ Len(cobs_bytes) > MAX_STORED_RECORD_BYTES
         \/ ~decoded.ok
      THEN CodecError ELSE Checked(decoded.data)

-----------------------------------------------------------------------------
(* read_segment                                                            *)

TerminatedOnly(bytes) ==   \* mutant
  {j \in 1 .. Len(bytes) - 1 : bytes[j] # 0 /\ bytes[j + 1] = 0}

\* Where the chunks between delimiters end; empty ones are skipped.
ChunkEnds(bytes) ==
  {j \in 1 .. Len(bytes) : bytes[j] # 0 /\ (j = Len(bytes) \/ bytes[j + 1] = 0)}

ChunkStart(bytes, j) ==
  CHOOSE i \in 1 .. j : (i = 1 \/ bytes[i - 1] = 0) /\ \A k \in i .. j : bytes[k] # 0

ReadSegment(bytes) ==
  LET ends == SetToSortSeq(ChunkEnds(bytes), <)
  IN  [k \in 1 .. Len(ends) |-> Decode(SubSeq(bytes, ChunkStart(bytes, ends[k]), ends[k]))]
=============================================================================
