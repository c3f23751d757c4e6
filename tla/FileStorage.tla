---------------------------- MODULE FileStorage -----------------------------
(***************************************************************************)
(* telemetry-std/src/lib.rs: FileStorage, the rotating segment files, with *)
(* every way an operating-system call under it can fail.  A file is the    *)
(* sequence of the pieces that were written to it (module Segment, which   *)
(* says how it is read back).  File handles are unbuffered, so what        *)
(* write_all passed on survives the end of the process.                    *)
(***************************************************************************)
EXTENDS Segment, FiniteSets, SequencesExt

CONSTANTS max_segment_bytes,
          Sizes,         \* lengths of encoded records that occur
          Indices,       \* bound of the model: segment numbers
          NoFile,        \* a path with no file; no open handle
          MaxWrites,     \* bound of the model: calls of write, over all runs
          MaxRuns        \* bound of the model: runs of the program

ASSUME FileStorageAssumption ==
  /\ max_segment_bytes \in Nat
  /\ Sizes \subseteq Nat \ {0, 1}   \* at least one byte and the delimiter
  /\ Indices \subseteq Nat \ {0}     \* segment_index is bumped before it is used
  /\ NoFile \notin Indices
  /\ MaxWrites \in Nat /\ MaxRuns \in Nat \ {0}

VARIABLES disk,            \* the directory: segment number -> contents
          current_file,    \* number of the file the open handle writes to
          segment_index, current_size,
          \* auxiliary:
          writes,          \* calls of write so far, which number the records
          acked,           \* records of this run whose write returned Ok
          opened,          \* segments created in this run, in order
          runs             \* runs of the program so far

vars == <<disk, current_file, segment_index, current_size,
          writes, acked, opened, runs>>

Record == [id : 1 .. MaxWrites, size : Sizes]

Init ==
  /\ disk = [i \in Indices |-> NoFile]
  /\ current_file = NoFile /\ segment_index = 0 /\ current_size = 0
  /\ writes = 0
  /\ acked = <<>> /\ opened = <<>>
  /\ runs = 1

-----------------------------------------------------------------------------
\* write

RotateWhenPast(r) ==   \* mutant
  current_file = NoFile \/ current_size > max_segment_bytes

NeedsRotate(r) ==
  current_file = NoFile \/ current_size + r.size > max_segment_bytes

\* A call of write with a record of some size.
Call(r) ==
  /\ writes < MaxWrites
  /\ r.id = writes + 1
  /\ writes' = r.id
  /\ UNCHANGED runs

\* write_all passes `got` bytes on: none, some, or all of the record.
EmptyPieceToo(dir, file, r, got) ==   \* mutant
  [dir EXCEPT ![file] = Append(@, Piece(r, got))]

Wrote(dir, file, r, got) ==
  IF got = 0 THEN dir
  ELSE [dir EXCEPT ![file] = Append(@, Piece(r, got))]

\* write_all returned Ok: counted, acknowledged.
Done(r, size) ==
  /\ current_size' = size + r.size
  /\ acked' = Append(acked, r)

\* write_all returned an error after part of the record went out: the bytes
\* stay in the file, current_size does not count them.
Failed(size) ==
  /\ current_size' = size
  /\ UNCHANGED acked

Outcome(r, got, size) ==
  IF got = r.size THEN Done(r, size) ELSE Failed(size)

\* The record fits the file that is open.
WriteInPlace(r) ==
  /\ Call(r) /\ ~NeedsRotate(r)
  /\ \E got \in 0 .. r.size :
       /\ disk' = Wrote(disk, current_file, r, got)
       /\ Outcome(r, got, current_size)
  /\ UNCHANGED <<current_file, segment_index, opened>>

\* File::create: a new file, or an existing one made empty.
OpenedForAppend(dir, index) ==   \* mutant
  [dir EXCEPT ![index] = IF @ = NoFile THEN <<>> ELSE @]

Created(dir, index) == [dir EXCEPT ![index] = <<>>]

RecycledIndex == (segment_index % 2) + 1   \* mutant
NextIndex == segment_index + 1

\* Rotation, as far as the increment of segment_index.
Rotate(r) ==
  /\ Call(r) /\ NeedsRotate(r)
  /\ NextIndex \in Indices
  /\ segment_index' = NextIndex

\* open_next_segment succeeded; then write_all into the new file.
WriteRotated(r) ==
  /\ Rotate(r)
  /\ current_file' = segment_index'
  /\ opened' = Append(opened, segment_index')
  /\ \E got \in 0 .. r.size :
       /\ disk' = Wrote(Created(disk, segment_index'), segment_index', r, got)
       /\ Outcome(r, got, 0)

\* File::create failed, after segment_index had been bumped: the old file
\* stays open under a number that no longer is its own.
CreateFails(r) ==
  /\ Rotate(r)
  /\ UNCHANGED <<disk, current_file, current_size, acked, opened>>

\* The flush of the old file failed: open_next_segment returns at once.
RotateFlushFails(r) ==
  /\ Call(r) /\ NeedsRotate(r)
  /\ current_file # NoFile
  /\ UNCHANGED <<disk, current_file, segment_index, current_size, acked, opened>>

Write(r) ==
  \/ WriteInPlace(r)
  \/ WriteRotated(r)
  \/ CreateFails(r)
  \/ RotateFlushFails(r)

\* The program ends, in whatever way, and is started again on the same
\* directory, into which FileStorage::new does not look.  A crash in the
\* middle of write_all is a partial write followed by this.
Restart ==
  /\ runs < MaxRuns
  /\ runs' = runs + 1
  /\ current_file' = NoFile /\ segment_index' = 0 /\ current_size' = 0
  /\ acked' = <<>> /\ opened' = <<>>
  /\ UNCHANGED <<disk, writes>>

Next == (\E r \in Record : Write(r)) \/ Restart

Spec == Init /\ [][Next]_vars

-----------------------------------------------------------------------------
Pieces == [id : 1 .. MaxWrites, size : Sizes, got : Nat]

\* A file is a sequence of non-empty pieces.
IsFile(p) ==
  /\ p \in Seq(Pieces)
  /\ \A j \in 1 .. Len(p) : p[j].got \in 1 .. p[j].size

\* Type invariant.
TypeOK ==
  /\ DOMAIN disk = Indices
  /\ \A i \in Indices : disk[i] # NoFile => IsFile(disk[i])
  /\ current_file \in Indices \cup {NoFile}
  /\ segment_index \in Indices \cup {0}
  /\ current_size \in Nat
  /\ writes \in 0 .. MaxWrites /\ runs \in 1 .. MaxRuns
  /\ acked \in Seq(Record) /\ opened \in Seq(Indices)

\* The complete records of a file, in order, and their size.
WholeRecords(p) ==
  LET upto[n \in 0 .. Len(p)] ==
        IF n = 0 THEN <<>>
        ELSE IF Whole(p[n]) THEN Append(upto[n - 1], RecordIn(p[n])) ELSE upto[n - 1]
  IN  upto[Len(p)]

SizeOfWhole(p) ==
  LET upto[n \in 0 .. Len(p)] ==
        IF n = 0 THEN 0
        ELSE IF Whole(p[n]) THEN upto[n - 1] + p[n].size ELSE upto[n - 1]
  IN  upto[Len(p)]

\* current_size is the size of the complete records in the open file, after
\* any sequence of rotations and failed writes.
SizeTracked ==
  current_file # NoFile =>
    current_size = SizeOfWhole(disk[current_file])

\* So the rotation test keeps the complete records of every segment within
\* max_segment_bytes, unless there is only one.
SegmentBound ==
  /\ SizeTracked
  /\ \A i \in ToSet(opened) :
       \/ SizeOfWhole(disk[i]) <= max_segment_bytes
       \/ Len(WholeRecords(disk[i])) = 1

\* The complete records of this run's segments, in the order of the segments.
RecordsIn(dir, segments) ==
  LET upto[k \in 0 .. Len(segments)] ==
        IF k = 0 THEN <<>> ELSE upto[k - 1] \o WholeRecords(dir[segments[k]])
  IN  upto[Len(segments)]

OnDisk == RecordsIn(disk, opened)

\* Exactly the acknowledged records are on disk, complete and in order,
\* whichever writes and rotations failed between them and whatever an
\* earlier run left in the directory.
AckedOnDisk == OnDisk = acked

\* What the segments of this run hold is never taken back: files only grow.
AppendOnly ==
  [][runs' = runs =>
       \A i \in ToSet(opened) : IsPrefix(disk[i], disk'[i])]_vars

Read(i) == {j \in 1 .. Len(disk[i]) : Readable(disk[i], j)}

\* A torn write costs at most one acknowledged record: the one whose bytes
\* were appended right behind it.  Everything else in the segment is
\* readable, up to and including its last record.
TornCostsOne ==
  \A i \in ToSet(opened) :
    LET p == disk[i]
        unread == {j \in 1 .. Len(p) : Whole(p[j]) /\ j \notin Read(i)}
        torn   == {j \in 1 .. Len(p) : ~Whole(p[j])}
    IN  Cardinality(unread) <= Cardinality(torn)

\* What the reader yields was written: an acknowledged record, or the very
\* last one of a segment, of which all but the delimiter got out.
ReadIsWritten ==
  \A i \in ToSet(opened) : \A j \in Read(i) :
    \/ RecordIn(disk[i][j]) \in ToSet(acked)
    \/ j = Len(disk[i]) /\ disk[i][j].got = disk[i][j].size - 1

-----------------------------------------------------------------------------
(* What the documents say and the code does not do.                        *)

\* docs/protocol.md:158-159 and docs/failure-modes.md:14: at boot only a
\* partial write beyond the last complete record is cut off.
CompleteRecords(dir) ==
  {RecordIn(piece) : piece \in {x \in UNION {ToSet(dir[i]) : i \in {k \in Indices : dir[k] # NoFile}} : Whole(x)}}
CompleteRecordsSurvive ==
  [][CompleteRecords(disk) \subseteq CompleteRecords(disk')]_vars
=============================================================================
