------------------------------ MODULE MCRecord ------------------------------
(***************************************************************************)
(* Bytes are 0..15, so a full COBS block has 14 of them and a varint three *)
(* bits a byte.  The largest record has a timestamp of three bytes, a      *)
(* sequence number and a payload length of two, and a payload of nine: with *)
(* its checksum 23 bytes and no zero but the first, so that it spans two   *)
(* blocks.  The buffer has not a byte more than it needs.                  *)
(***************************************************************************)
EXTENDS SegmentBytes

StoredV1(ts, seq, type, severity, payload) ==
  [version |-> V1, timestamp_us |-> ts, sequence |-> seq,
   packet_type |-> type, severity |-> severity, payload |-> payload]

MCRecords ==
  {StoredV1(0, 0, 1, 0, <<>>),
   StoredV1(MaxU64, MaxU32, 5, 4, [k \in 1 .. MAX_PAYLOAD |-> 15]),
   StoredV1(8, 7, 2, 1, <<0, 10, 0>>),
   [StoredV1(64, 8, 3, 2, <<7>>) EXCEPT !.version = 1]}

\* The condition of the theorem about RoundTrip.
ASSUME ConditionHolds == RecordsFit
=============================================================================
