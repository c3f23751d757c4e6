-------------------------------- MODULE Frame -------------------------------
(***************************************************************************)
(* The wire frame: what Frame::encode_raw lays out and what                *)
(* Framer::process reads back (frame.rs, framer.rs, protocol.rs).          *)
(*                                                                         *)
(* The header is HEADER_LEN bytes, the last two of which are payload_len,  *)
(* low byte first; the bytes before them (version, type, severity and      *)
(* sequence) are carried as they are, in the field `id`.  The framer does  *)
(* not compute the CRC, so crc_bytes are any CRC16_LEN bytes.              *)
(***************************************************************************)
EXTENDS Cobs

CONSTANTS HEADER_LEN,    \* 9 in the code
          CRC16_LEN,     \* 2 in the code
          MAX_PAYLOAD    \* 480 in the code

ASSUME FrameAssumption ==
  /\ HEADER_LEN \in Nat /\ HEADER_LEN >= 2
  /\ CRC16_LEN \in Nat
  /\ MAX_PAYLOAD \in Nat

MIN_FRAME_LEN == HEADER_LEN + CRC16_LEN

\* Frames that Frame::new can build: the payload fits, payload_len says so.
Frames ==
  UNION { [id          : [1 .. HEADER_LEN - 2 -> Byte],
           payload_len : {n},
           payload     : [1 .. n -> Byte],
           crc_bytes   : [1 .. CRC16_LEN -> Byte]] : n \in 0 .. MAX_PAYLOAD }

\* Frame::encode_raw
EncodeRaw(f) ==
  f.id \o <<f.payload_len % (MaxByte + 1), f.payload_len \div (MaxByte + 1)>>
       \o f.payload \o f.crc_bytes

\* Frame::encode_cobs, without the closing delimiter
EncodeCobs(f) == CobsEncode(EncodeRaw(f))

-----------------------------------------------------------------------------
\* FrameOutput
Incomplete  == [kind |-> "Incomplete"]
Overflow    == [kind |-> "Overflow"]
CobsError   == [kind |-> "CobsError"]
ParseError  == [kind |-> "ParseError"]
Complete(f) == [kind |-> "Complete", frame |-> f]

\* u16::from_le_bytes over bytes 7 and 8 of the decoded frame
PayloadLen(d) == d[HEADER_LEN - 1] + (MaxByte + 1) * d[HEADER_LEN]

\* Fewer bytes than a frame with an empty payload has.
TooShortOrEmpty(d) == Len(d) <= MIN_FRAME_LEN   \* mutant
TooShort(d) == Len(d) < MIN_FRAME_LEN

\* The structural check: the length is what payload_len says it is.
Truncated(d) == Len(d) < HEADER_LEN + PayloadLen(d) + CRC16_LEN   \* mutant
Misfit(d) == Len(d) # HEADER_LEN + PayloadLen(d) + CRC16_LEN

\* Framer::process after a successful COBS decode: three checks, then the
\* fields are cut out of the decoded bytes.
Parse(d) ==
  IF TooShort(d) \/ PayloadLen(d) > MAX_PAYLOAD \/ Misfit(d)
  THEN ParseError
  ELSE LET crc_start == HEADER_LEN + PayloadLen(d)
       IN  Complete([id          |-> SubSeq(d, 1, HEADER_LEN - 2),
                     payload_len |-> PayloadLen(d),
                     payload     |-> SubSeq(d, HEADER_LEN + 1, crc_start),
                     crc_bytes   |-> SubSeq(d, crc_start + 1, crc_start + CRC16_LEN)])

\* Framer::process: the verdict on the bytes between two delimiters.
Process(buf) ==
  LET decoded == CobsDecode(buf)
  IN  IF decoded.ok THEN Parse(decoded.data) ELSE CobsError
=============================================================================
