---------------------------- MODULE SegmentBytes ----------------------------
(***************************************************************************)
(* The bytes of one segment file: records that drain encodes and write_all *)
(* appends, whole or in part, records of a version this program does not   *)
(* know, and bytes of the medium that change.  The pieces of module        *)
(* Segment are kept beside the bytes, to compare what the reader makes of  *)
(* the one with what the other says.                                       *)
(***************************************************************************)
EXTENDS RecordCodec, Segment

CONSTANTS Records,     \* records that occur
          MaxPieces,   \* bound of the model: writes to the file
          Flips,       \* values a changed byte may take
          MaxDamage    \* bound of the model: bytes that change

ASSUME SegmentBytesAssumption ==
  /\ \A r \in Records : IsRecord(r)
  /\ MaxPieces \in Nat /\ Flips \subseteq Byte /\ MaxDamage \in Nat

VARIABLES file,     \* the bytes
          \* auxiliary:
          pieces,   \* the same file as module Segment sees it
          written,  \* the record of each piece
          origin,   \* for each byte of the file its piece
          damaged,  \* positions of changed bytes
          refused   \* records encode returned an error for

sbvars == <<file, pieces, written, origin, damaged, refused>>

Init ==
  /\ file = <<>> /\ pieces = <<>> /\ written = <<>> /\ origin = <<>>
  /\ damaged = {} /\ refused = {}

\* drain encodes a record, and write_all appends the first `got` bytes of it.
Write(r, got) ==
  LET encoded == Encode(r, MAX_STORED_RECORD_BYTES)
      id == Len(pieces) + 1
  IN  /\ Len(pieces) < MaxPieces /\ damaged = {}
      /\ IF encoded.ok
         THEN /\ got <= Len(encoded.bytes)
              /\ file' = file \o SubSeq(encoded.bytes, 1, got)
              /\ pieces' = Append(pieces, Piece([id |-> id, size |-> Len(encoded.bytes)], got))
              /\ written' = Append(written, r)
              /\ origin' = origin \o [k \in 1 .. got |-> id]
              /\ UNCHANGED refused
         ELSE /\ refused' = refused \cup {r}
              /\ UNCHANGED <<file, pieces, written, origin>>
      /\ UNCHANGED damaged

\* The medium returns another byte than was written.
Damage(i, b) ==
  /\ Cardinality(damaged) < MaxDamage
  /\ i \notin damaged /\ file[i] # b
  /\ file' = [file EXCEPT ![i] = b]
  /\ damaged' = damaged \cup {i}
  /\ UNCHANGED <<pieces, written, origin, refused>>

Next ==
  \/ \E r \in Records : \E got \in 1 .. MAX_STORED_RECORD_BYTES : Write(r, got)
  \/ \E i \in 1 .. Len(file) : \E b \in Flips : Damage(i, b)

Spec == Init /\ [][Next]_sbvars

-----------------------------------------------------------------------------
\* What the comment on MAX_STORED_RECORD_BYTES works out: the longest record of
\* its version, with its checksum, stuffed and delimited, fits the buffer.
Longest(r) ==
  Len(Varint(r.version)) + Len(Varint(MaxU64)) + Len(Varint(MaxU32)) + 2
    + Len(Varint(MAX_PAYLOAD)) + MAX_PAYLOAD + CRC_LEN

RecordsFit ==
  \A r \in Records : MaxEncodingLength(Longest(r)) + 1 <= MAX_STORED_RECORD_BYTES

-----------------------------------------------------------------------------
Known(r) == r.version = V1

\* Whatever a frame can carry, its record can be encoded: drain never returns
\* Error::Codec.  And encode stays inside the space it asked for, delimiter
\* included, so that it does not panic either: max_encoding_length is one
\* short for data that ends with a full block, unless there is a zero in it,
\* as the version number of V1 is.
EncodeFits ==
  /\ refused = {}
  /\ \A k \in {n \in 1 .. Len(written) : Known(written[n])} :
       pieces[k].size <= MaxEncodingLength(Len(Serialize(written[k])) + CRC_LEN) + 1

\* Every record can be encoded, and decode undoes encode for every record of
\* this version, with and without the delimiter; a record of an unknown
\* version is an error, not a panic and not some other record.
RoundTrip ==
  /\ EncodeFits
  /\ \A k \in 1 .. Len(written) :
    LET bytes == Encode(written[k], MAX_STORED_RECORD_BYTES).bytes
        result == IF Known(written[k]) THEN [ok |-> TRUE, record |-> written[k]] ELSE CodecError
    IN  Decode(bytes) = result /\ Decode(Front(bytes)) = result

\* A torn record that lacks more than its delimiter can be completed by the
\* first bytes of another torn record behind it, as every encoded record of
\* this version starts with the same byte.  It reads as itself then.
Completable(i) == i < Len(pieces) /\ ~Whole(pieces[i]) /\ ~Whole(pieces[i + 1])

Expected(i) ==
  IF Readable(pieces, i) /\ Known(written[i])
  THEN [ok |-> TRUE, record |-> written[i]] ELSE CodecError

\* The bytes say what the pieces say: there is one result of read_segment for
\* each piece that ends a chunk, the record if module Segment calls the piece
\* readable and an error if not.  So every torn, merged, unterminated or
\* unknown record is one error, and no other record is disturbed by it.
BytesMatchPieces ==
  LET ends == SetToSortSeq({i \in 1 .. Len(pieces) : EndsChunk(pieces, i)}, <)
      results == ReadSegment(file)
  IN  damaged = {} =>
        /\ Len(results) = Len(ends)
        /\ \A k \in 1 .. Len(ends) :
             \/ results[k] = Expected(ends[k])
             \/ /\ ends[k] > 1 /\ Completable(ends[k] - 1)
                /\ results[k] = [ok |-> TRUE, record |-> written[ends[k] - 1]]

\* The pieces a changed byte can cost: its own, and, as it may have been the
\* delimiter between two, the next.
Hit == {origin[i] : i \in damaged} \cup {origin[i] + 1 : i \in {j \in damaged :
          j = Len(file) \/ origin[j + 1] # origin[j]}}

OkRecords(results) ==
  LET good == SelectSeq(results, LAMBDA x : x.ok) IN [k \in 1 .. Len(good) |-> good[k].record]

\* A changed byte never makes up a record, and disturbs only the pieces it
\* hit: what is read is what was written, in order, and of the whole records
\* that were not hit exactly the readable ones.  (A torn record may be
\* completed, or lose the end it had.)
DamageContained ==
  LET readable == {k \in 1 .. Len(pieces) : Readable(pieces, k) /\ Known(written[k])}
      open == Hit \cup {k \in 1 .. Len(pieces) : ~Whole(pieces[k])}
  IN  \E kept \in SUBSET (1 .. Len(pieces)) :
        /\ kept \ open = readable \ open
        /\ OkRecords(ReadSegment(file)) =
             LET order == SetToSortSeq(kept, <)
             IN  [n \in 1 .. Len(order) |-> written[order[n]]]
=============================================================================
