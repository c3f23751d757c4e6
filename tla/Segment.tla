------------------------------ MODULE Segment -------------------------------
(***************************************************************************)
(* A segment file as the sequence of the pieces that were written to it,   *)
(* and what read_segment (telemetry-std/src/lib.rs) makes of it.  A piece  *)
(* is the first `got` of the `size` bytes of an encoded record; the last   *)
(* byte of a record is its 0x00 delimiter, and its only one.               *)
(*                                                                         *)
(* Module SegmentBytes checks these definitions against the bytes.         *)
(***************************************************************************)
EXTENDS Integers, Sequences

Piece(r, got) == [id |-> r.id, size |-> r.size, got |-> got]
Whole(piece)  == piece.got = piece.size
RecordIn(piece) == [id |-> piece.id, size |-> piece.size]

\* The file is split at its delimiters, so piece i of p is a chunk of its
\* own if it starts one and ends one.
StartsChunk(p, i) == i = 1 \/ Whole(p[i - 1])
EndsChunk(p, i)   == i = Len(p) \/ Whole(p[i])

\* record::decode of a single piece.  The delimiter is not part of a chunk,
\* so a piece that lacks only that byte decodes like the whole record; a
\* shorter one fails its CRC-32, and so does any run of several pieces.  (Two
\* torn pieces in a row are taken to fail together, also where the second
\* happens to complete the first: see Completable in module SegmentBytes.)
AnyPrefix(piece) == piece.got > 0   \* mutant
Decodes(piece) == piece.got >= piece.size - 1

\* The chunks read_segment yields as Ok.
UpToFirstError(p, i) ==   \* mutant
  \A j \in 1 .. i : StartsChunk(p, j) /\ EndsChunk(p, j) /\ Decodes(p[j])

Readable(p, i) == StartsChunk(p, i) /\ EndsChunk(p, i) /\ Decodes(p[i])
=============================================================================
