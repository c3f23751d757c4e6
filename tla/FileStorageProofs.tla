-------------------------- MODULE FileStorageProofs --------------------------
(***************************************************************************)
(* Proofs about the segment files, for every record size, segment limit    *)
(* and number of writes, failures and restarts.                            *)
(***************************************************************************)
EXTENDS FileStorage, DataInduction, SequenceTheorems, FiniteSetTheorems, TLAPS

\* The segments of this run are numbered up to segment_index, so that the
\* number of the next is not theirs, and they exist; the open one does.
OpenedInv ==
  /\ \A k \in 1 .. Len(opened) : opened[k] <= segment_index /\ IsFile(disk[opened[k]])
  /\ current_file # NoFile => IsFile(disk[current_file])

\* The parts of TypeOK under the names the proofs use.
LEMMA Types ==
  ASSUME TypeOK
  PROVE  /\ segment_index \in Nat /\ current_size \in Nat
         /\ Len(opened) \in Nat /\ Len(acked) \in Nat
         /\ \A k \in 1 .. Len(opened) : opened[k] \in Indices
         /\ Indices \subseteq Nat
<1>1. opened \in Seq(Indices) /\ acked \in Seq(Record) /\ segment_index \in Indices \cup {0}
  BY DEF TypeOK
<1>2. Indices \subseteq Nat
  BY FileStorageAssumption
<1> QED
  BY <1>1, <1>2, LenProperties, ElementOfSeq DEF TypeOK

\* What write_all leaves in a file: nothing new, or one non-empty piece more.
LEMMA WroteFile ==
  ASSUME NEW dir, DOMAIN dir = Indices, NEW file \in Indices, IsFile(dir[file]),
         NEW r \in Record, NEW got \in 0 .. r.size
  PROVE  /\ DOMAIN Wrote(dir, file, r, got) = Indices
         /\ \A i \in Indices : i # file => Wrote(dir, file, r, got)[i] = dir[i]
         /\ \/ Wrote(dir, file, r, got)[file] = dir[file]
            \/ \E piece \in Pieces : Wrote(dir, file, r, got)[file] = Append(dir[file], piece)
         /\ IsFile(Wrote(dir, file, r, got)[file])
<1> DEFINE piece == Piece(r, got)
<1>1. r.size \in Nat /\ r.size \in Sizes /\ r.id \in 1 .. MaxWrites
  BY FileStorageAssumption DEF Record
<1>2. piece \in Pieces /\ piece.got = got /\ piece.size = r.size
  BY <1>1 DEF Piece, Pieces
<1>3. CASE got = 0
  BY <1>3 DEF Wrote
<1>4. CASE got # 0
  <2>1. Wrote(dir, file, r, got) = [dir EXCEPT ![file] = Append(@, piece)]
    BY <1>4 DEF Wrote
  <2>2. /\ Append(dir[file], piece) \in Seq(Pieces)
        /\ Len(dir[file]) \in Nat
        /\ Len(Append(dir[file], piece)) = Len(dir[file]) + 1
        /\ Append(dir[file], piece)[Len(dir[file]) + 1] = piece
        /\ \A j \in 1 .. Len(dir[file]) : Append(dir[file], piece)[j] = dir[file][j]
    BY <1>2, AppendProperties, LenProperties DEF IsFile
  <2>3. got \in 1 .. r.size
    BY <1>1, <1>4
  <2> HIDE DEF piece
  <2>4. \A j \in 1 .. Len(Append(dir[file], piece)) :
          Append(dir[file], piece)[j].got \in 1 .. Append(dir[file], piece)[j].size
    BY <1>2, <2>2, <2>3 DEF IsFile
  <2>5. IsFile(Append(dir[file], piece))
    BY <2>2, <2>4 DEF IsFile
  <2> QED
    BY <1>2, <2>1, <2>5
<1> QED
  BY <1>3, <1>4

\* write_all leaves the other files alone.
LEMMA WroteElsewhere ==
  ASSUME NEW dir, NEW file, NEW r, NEW got, NEW i \in DOMAIN dir, i # file
  PROVE  Wrote(dir, file, r, got)[i] = dir[i]
BY DEF Wrote

\* The counts after write_all, whichever way it ended.
LEMMA OutcomeTypes ==
  ASSUME acked \in Seq(Record), NEW r \in Record, NEW got, NEW size \in Nat,
         Outcome(r, got, size)
  PROVE  current_size' \in Nat /\ acked' \in Seq(Record)
<1>1. r.size \in Nat
  BY FileStorageAssumption DEF Record
<1> QED
  BY <1>1, AppendProperties DEF Outcome, Done, Failed

\* The two ways a write changes the directory: in the open file, or in a new
\* one whose number no segment of this run has.
LEMMA WriteShape ==
  ASSUME TypeOK, OpenedInv, NEW r \in Record, Write(r)
  PROVE  \/ UNCHANGED <<disk, current_file, current_size, acked, opened>>
              /\ segment_index' \in {segment_index} \cup Indices
              /\ segment_index' >= segment_index
         \/ /\ current_file \in Indices /\ UNCHANGED <<current_file, segment_index, opened>>
            /\ \E got \in 0 .. r.size : /\ disk' = Wrote(disk, current_file, r, got)
                                        /\ Outcome(r, got, current_size)
         \/ /\ segment_index' \in Indices /\ segment_index' = segment_index + 1
            /\ current_file' = segment_index'
            /\ opened' = Append(opened, segment_index')
            /\ \E got \in 0 .. r.size :
                 /\ disk' = Wrote(Created(disk, segment_index'), segment_index', r, got)
                 /\ Outcome(r, got, 0)
<1>0. segment_index \in Nat
  BY Types
<1>1. CASE WriteInPlace(r)
  BY <1>1 DEF WriteInPlace, NeedsRotate, TypeOK
<1>2. CASE WriteRotated(r)
  BY <1>2 DEF WriteRotated, Rotate, NextIndex
<1>3. CASE CreateFails(r)
  BY <1>0, <1>3 DEF CreateFails, Rotate, NextIndex
<1>4. CASE RotateFlushFails(r)
  BY <1>0, <1>4 DEF RotateFlushFails
<1> QED
  BY <1>1, <1>2, <1>3, <1>4 DEF Write

\* The directory part of the type invariant.
DirOK(dir) ==
  /\ DOMAIN dir = Indices
  /\ \A i \in Indices : dir[i] # NoFile => IsFile(dir[i])

\* An empty file may be put at any number.
LEMMA CreatedFile ==
  ASSUME NEW dir, DirOK(dir), NEW index \in Indices
  PROVE  /\ DirOK(Created(dir, index))
         /\ IsFile(Created(dir, index)[index])
         /\ \A i \in Indices : i # index => Created(dir, index)[i] = dir[i]
<1>1. <<>> \in Seq(Pieces) /\ Len(<<>>) = 0
  BY EmptySeq
<1>2. IsFile(<<>>)
  BY <1>1 DEF IsFile
<1> QED
  BY <1>2 DEF Created, DirOK

\* A piece may be put at the end of any file.
LEMMA WroteDir ==
  ASSUME NEW dir, DirOK(dir), NEW file \in Indices, IsFile(dir[file]),
         NEW r \in Record, NEW got \in 0 .. r.size
  PROVE  /\ DirOK(Wrote(dir, file, r, got))
         /\ IsFile(Wrote(dir, file, r, got)[file])
         /\ \A i \in Indices : i # file => Wrote(dir, file, r, got)[i] = dir[i]
<1>1. DOMAIN dir = Indices
  BY DEF DirOK
<1>2. /\ DOMAIN Wrote(dir, file, r, got) = Indices
      /\ IsFile(Wrote(dir, file, r, got)[file])
      /\ \A i \in Indices : i # file => Wrote(dir, file, r, got)[i] = dir[i]
  BY <1>1, WroteFile
<1> QED
  BY <1>2 DEF DirOK

\* Type correctness, with what it takes to know that a rotation never comes
\* back to a segment of the same run: segment_index only grows, also when
\* File::create fails after the increment.
THEOREM StorageTypes == Spec => [](TypeOK /\ OpenedInv)
<1> USE FileStorageAssumption
<1>1. Init => TypeOK /\ OpenedInv
  <2> SUFFICES ASSUME Init PROVE TypeOK /\ OpenedInv
    OBVIOUS
  <2>1. /\ <<>> \in Seq(Record) /\ <<>> \in Seq(Indices) /\ Len(<<>>) = 0
    BY EmptySeq
  <2>2. 1 \in 1 .. MaxRuns /\ 0 \in 0 .. MaxWrites /\ 0 \in Nat
    OBVIOUS
  <2> QED
    BY <2>1, <2>2 DEF Init, TypeOK, OpenedInv
<1>2. TypeOK /\ OpenedInv /\ [Next]_vars => TypeOK' /\ OpenedInv'
  <2> SUFFICES ASSUME TypeOK, OpenedInv, [Next]_vars
               PROVE  TypeOK' /\ OpenedInv'
    OBVIOUS
  <2>0. /\ DirOK(disk) /\ segment_index \in Nat /\ Len(opened) \in Nat
        /\ opened \in Seq(Indices) /\ acked \in Seq(Record) /\ writes \in 0 .. MaxWrites
        /\ runs \in 1 .. MaxRuns /\ current_file \in Indices \cup {NoFile}
        /\ segment_index \in Indices \cup {0} /\ current_size \in Nat
        /\ \A k \in 1 .. Len(opened) : opened[k] \in Indices /\ opened[k] \in Nat
    BY Types DEF TypeOK, DirOK
  <2>1. ASSUME NEW r \in Record, Write(r)
        PROVE  TypeOK' /\ OpenedInv'
    <3>1. writes' \in 0 .. MaxWrites /\ runs' \in 1 .. MaxRuns
      <4>1. Call(r)
        BY <2>1 DEF Write, WriteInPlace, WriteRotated, CreateFails, RotateFlushFails, Rotate
      <4> QED
        BY <2>0, <4>1 DEF Call, Record
    <3>2. CASE /\ UNCHANGED <<disk, current_file, current_size, acked, opened>>
               /\ segment_index' \in {segment_index} \cup Indices
               /\ segment_index' >= segment_index
      <4>1. segment_index' \in Indices \cup {0} /\ segment_index' \in Nat
        BY <2>0, <3>2
      <4>2. TypeOK'
        BY <3>1, <3>2, <4>1 DEF TypeOK
      <4>3. \A k \in 1 .. Len(opened) : opened[k] <= segment_index'
        BY <2>0, <3>2, <4>1 DEF OpenedInv
      <4> QED
        BY <3>2, <4>2, <4>3 DEF OpenedInv
    <3>3. CASE /\ current_file \in Indices /\ UNCHANGED <<current_file, segment_index, opened>>
               /\ \E got \in 0 .. r.size : /\ disk' = Wrote(disk, current_file, r, got)
                                           /\ Outcome(r, got, current_size)
      <4>1. PICK got \in 0 .. r.size : /\ disk' = Wrote(disk, current_file, r, got)
                                       /\ Outcome(r, got, current_size)
        BY <3>3
      <4>2. IsFile(disk[current_file])
        BY <3>3 DEF OpenedInv
      <4>3. /\ DirOK(disk') /\ IsFile(disk'[current_file])
            /\ \A i \in Indices : i # current_file => disk'[i] = disk[i]
        <5>1. DirOK(disk) /\ current_file \in Indices /\ disk' = Wrote(disk, current_file, r, got)
          BY <2>0, <3>3, <4>1
        <5> QED
          BY <4>2, <5>1, WroteDir
      <4>4. current_size' \in Nat /\ acked' \in Seq(Record)
        BY <2>0, <4>1, OutcomeTypes
      <4>5. TypeOK'
        BY <2>0, <3>1, <3>3, <4>3, <4>4 DEF TypeOK, DirOK
      <4>6. \A i \in Indices : IsFile(disk[i]) => IsFile(disk'[i])
        BY <4>3
      <4> QED
        BY <2>0, <3>3, <4>3, <4>5, <4>6 DEF OpenedInv
    <3>4. CASE /\ segment_index' \in Indices /\ segment_index' = segment_index + 1
               /\ current_file' = segment_index'
               /\ opened' = Append(opened, segment_index')
               /\ \E got \in 0 .. r.size :
                    /\ disk' = Wrote(Created(disk, segment_index'), segment_index', r, got)
                    /\ Outcome(r, got, 0)
      <4> DEFINE index == segment_index + 1
      <4> DEFINE dir == Created(disk, index)
      <4>1. PICK got \in 0 .. r.size : disk' = Wrote(dir, index, r, got) /\ Outcome(r, got, 0)
        BY <3>4
      <4>2. index \in Indices /\ index \in Nat /\ segment_index' = index
        BY <3>4
      <4>3. /\ DirOK(dir) /\ IsFile(dir[index])
            /\ \A i \in Indices : i # index => dir[i] = disk[i]
        BY <2>0, <4>2, CreatedFile
      <4> HIDE DEF dir
      <4>4. /\ DirOK(disk') /\ IsFile(disk'[index])
            /\ \A i \in Indices : i # index => disk'[i] = dir[i]
        <5> HIDE DEF index
        <5>1. DirOK(dir) /\ index \in Indices /\ IsFile(dir[index])
          BY <4>2, <4>3
        <5>2. disk' = Wrote(dir, index, r, got)
          BY <4>1
        <5> QED
          BY <5>1, <5>2, WroteDir
      <4>5. current_size' \in Nat /\ acked' \in Seq(Record)
        BY <2>0, <4>1, OutcomeTypes
      <4>6. /\ opened' \in Seq(Indices) /\ Len(opened') = Len(opened) + 1
            /\ opened'[Len(opened) + 1] = index
            /\ \A k \in 1 .. Len(opened) : opened'[k] = opened[k]
        BY <2>0, <3>4, <4>2, AppendProperties
      <4>7. TypeOK'
        BY <3>1, <3>4, <4>2, <4>4, <4>5, <4>6 DEF TypeOK, DirOK
      <4>8. ASSUME NEW k \in 1 .. Len(opened')
            PROVE  opened'[k] <= segment_index' /\ IsFile(disk'[opened'[k]])
        <5>1. CASE k = Len(opened) + 1
          BY <2>0, <4>2, <4>4, <4>6, <5>1
        <5>2. CASE k \in 1 .. Len(opened)
          <6>1. opened'[k] = opened[k] /\ opened[k] <= segment_index /\ IsFile(disk[opened[k]])
            BY <4>6, <5>2 DEF OpenedInv
          <6>2. opened[k] \in Indices /\ opened[k] \in Nat /\ opened[k] # index
            BY <2>0, <5>2, <6>1
          <6> QED
            BY <2>0, <4>2, <4>3, <4>4, <6>1, <6>2
        <5> QED
          BY <2>0, <4>6, <5>1, <5>2
      <4>9. IsFile(disk'[current_file'])
        BY <3>4, <4>2, <4>4
      <4> QED
        BY <4>7, <4>8, <4>9 DEF OpenedInv
    <3> QED
      BY <2>1, <3>2, <3>3, <3>4, WriteShape
  <2>2. CASE Restart
    <3>1. <<>> \in Seq(Record) /\ <<>> \in Seq(Indices) /\ Len(<<>>) = 0
      BY EmptySeq
    <3>2. runs' \in 1 .. MaxRuns
      BY <2>0, <2>2 DEF Restart
    <3>3. TypeOK'
      BY <2>0, <2>2, <3>1, <3>2 DEF Restart, TypeOK, DirOK
    <3> QED
      BY <2>2, <3>1, <3>3 DEF Restart, OpenedInv
  <2>3. CASE UNCHANGED vars
    BY <2>3 DEF vars, TypeOK, OpenedInv
  <2> QED
    BY <2>1, <2>2, <2>3 DEF Next
<1> QED
  BY <1>1, <1>2, PTL DEF Spec

\* A sequence is a prefix of itself, and of itself with one element more.
LEMMA AppendKeepsPrefix ==
  ASSUME NEW S, NEW s \in Seq(S), NEW x \in S
  PROVE  IsPrefix(s, s) /\ IsPrefix(s, Append(s, x))
<1>1. /\ Len(s) \in Nat /\ Append(s, x) \in Seq(S) /\ Len(Append(s, x)) = Len(s) + 1
      /\ \A i \in 1 .. Len(s) : Append(s, x)[i] = s[i] /\ s[i] \in S
  <2>1. Len(s) \in Nat /\ \A i \in 1 .. Len(s) : s[i] \in S
    BY LenProperties, ElementOfSeq
  <2>2. /\ Append(s, x) \in Seq(S) /\ Len(Append(s, x)) = Len(s) + 1
        /\ \A i \in 1 .. Len(s) : Append(s, x)[i] = s[i]
    BY AppendProperties
  <2> QED
    BY <2>1, <2>2
<1> DEFINE a == SubSeq(s, 1, Len(s))
           b == SubSeq(Append(s, x), 1, Len(s))
<1>2. /\ a \in Seq(S) /\ Len(a) = Len(s) /\ \A i \in 1 .. Len(s) : a[i] = s[i]
  BY <1>1, SubSeqProperties
<1>3. /\ b \in Seq(S) /\ Len(b) = Len(s) /\ \A i \in 1 .. Len(s) : b[i] = s[i]
  BY <1>1, SubSeqProperties
<1>4. a = b
  <2> HIDE DEF a, b
  <2> QED
    BY <1>1, <1>2, <1>3, SeqEqual
<1>5. Len(s) <= Len(s) /\ Len(s) <= Len(Append(s, x))
  BY <1>1
<1> QED
  BY <1>4, <1>5, Zenon DEF IsPrefix

\* What a segment of the current run holds is never taken back, whichever
\* calls fail (FileStorage appends to the open file and truncates only a
\* number it has not used in this run).
THEOREM SegmentsOnlyGrow == Spec => AppendOnly
<1>1. TypeOK /\ OpenedInv /\ [Next]_vars =>
        [runs' = runs => \A i \in ToSet(opened) : IsPrefix(disk[i], disk'[i])]_vars
  <2> SUFFICES ASSUME TypeOK, OpenedInv, Next, runs' = runs, NEW i \in ToSet(opened)
               PROVE  IsPrefix(disk[i], disk'[i])
    OBVIOUS
  <2>1. PICK k \in 1 .. Len(opened) : i = opened[k]
    BY LenProperties DEF ToSet, TypeOK
  <2>2. i \in Indices /\ i \in Nat /\ i <= segment_index /\ IsFile(disk[i])
    BY <2>1, Types DEF OpenedInv
  <2>3. ASSUME \/ disk'[i] = disk[i]
               \/ \E piece \in Pieces : disk'[i] = Append(disk[i], piece)
        PROVE  IsPrefix(disk[i], disk'[i])
    <3>1. disk[i] \in Seq(Pieces)
      BY <2>2 DEF IsFile
    <3>2. CASE disk'[i] = disk[i]
      BY <3>2 DEF IsPrefix
    <3>3. CASE \E piece \in Pieces : disk'[i] = Append(disk[i], piece)
      <4>1. PICK piece \in Pieces : disk'[i] = Append(disk[i], piece)
        BY <3>3
      <4>2. IsPrefix(disk[i], Append(disk[i], piece))
        BY <3>1, AppendKeepsPrefix
      <4> QED
        BY <4>1, <4>2
    <3> QED
      BY <2>3, <3>2, <3>3
  <2>4. ~Restart
    BY DEF Restart, TypeOK
  <2>5. PICK r \in Record : Write(r)
    BY <2>4 DEF Next
  <2>6. CASE disk' = disk
    BY <2>3, <2>6
  <2>7. CASE \E got \in 0 .. r.size : /\ current_file \in Indices
                                      /\ disk' = Wrote(disk, current_file, r, got)
    <3>1. PICK got \in 0 .. r.size : /\ current_file \in Indices
                                     /\ disk' = Wrote(disk, current_file, r, got)
      BY <2>7
    <3>2. IsFile(disk[current_file]) /\ DOMAIN disk = Indices
      BY <3>1, FileStorageAssumption DEF OpenedInv, TypeOK
    <3>3. \/ disk'[i] = disk[i]
          \/ \E piece \in Pieces : disk'[i] = Append(disk[i], piece)
      BY <2>2, <3>1, <3>2, WroteFile
    <3> QED
      BY <2>3, <3>3
  <2>8. CASE \E got \in 0 .. r.size :
               /\ segment_index' \in Indices /\ segment_index' = segment_index + 1
               /\ disk' = Wrote(Created(disk, segment_index'), segment_index', r, got)
    <3> DEFINE index == segment_index + 1
               dir == Created(disk, index)
    <3>1. PICK got \in 0 .. r.size : index \in Indices /\ disk' = Wrote(dir, index, r, got)
      BY <2>8
    <3>2. DirOK(dir) /\ IsFile(dir[index]) /\ \A j \in Indices : j # index => dir[j] = disk[j]
      BY <3>1, CreatedFile DEF TypeOK, DirOK
    <3>3. i # index
      BY <2>2, Types
    <3> HIDE DEF dir, index
    <3>4. disk'[i] = dir[i]
      BY <2>2, <3>1, <3>2, <3>3, WroteFile DEF DirOK
    <3> QED
      BY <2>2, <2>3, <3>2, <3>3, <3>4
  <2> QED
    BY <2>5, <2>6, <2>7, <2>8, WriteShape
<1> QED
  BY <1>1, StorageTypes, PTL DEF Spec, AppendOnly

-----------------------------------------------------------------------------
(* What the reader makes of the files.                                     *)

\* Of a file of pieces, only a torn one can make the next whole one unreadable,
\* so that the unreadable whole ones are no more than the torn.
LEMMA TornBefore ==
  ASSUME NEW p, IsFile(p)
  PROVE  LET unread == {j \in 1 .. Len(p) : Whole(p[j]) /\ ~Readable(p, j)}
             torn   == {j \in 1 .. Len(p) : ~Whole(p[j])}
         IN  Cardinality(unread) <= Cardinality(torn)
<1> DEFINE unread == {j \in 1 .. Len(p) : Whole(p[j]) /\ ~Readable(p, j)}
           torn   == {j \in 1 .. Len(p) : ~Whole(p[j])}
           before == [j \in unread |-> j - 1]
<1>0. Len(p) \in Nat
  BY LenProperties DEF IsFile
<1>1. ASSUME NEW j \in unread
      PROVE  j \in Nat /\ j - 1 \in torn
  <2>1. j \in 1 .. Len(p) /\ Whole(p[j]) /\ ~Readable(p, j)
    OBVIOUS
  <2>2. p[j].size \in Nat
    <3>1. p[j] \in Pieces
      BY <2>1, ElementOfSeq DEF IsFile
    <3>2. p[j].size \in Sizes
      BY <3>1 DEF Pieces
    <3> QED
      BY <3>2, FileStorageAssumption
  <2>3. EndsChunk(p, j) /\ Decodes(p[j])
    BY <2>1, <2>2 DEF EndsChunk, Decodes, Whole
  <2>4. j # 1 /\ ~Whole(p[j - 1])
    BY <2>1, <2>3 DEF Readable, StartsChunk
  <2> QED
    BY <1>0, <2>1, <2>4
<1>2. before \in Injection(unread, torn)
  <2>1. before \in [unread -> torn]
    BY <1>1
  <2>2. \A i, j \in unread : before[i] = before[j] => i = j
    BY <1>1
  <2> HIDE DEF unread, torn
  <2> QED
    BY <2>1, <2>2 DEF Injection, IsInjective
<1>3. IsFiniteSet(torn)
  <2>1. IsFiniteSet(1 .. Len(p))
    BY <1>0, FS_Interval
  <2>2. torn \in SUBSET (1 .. Len(p))
    OBVIOUS
  <2> QED
    BY <2>1, <2>2, FS_Subset
<1>4. Cardinality(unread) <= Cardinality(torn)
  <2> HIDE DEF unread, torn, before
  <2> QED
    BY <1>2, <1>3, FS_Injection
<1> QED
  BY <1>4

\* TornCostsOne, for every history of writes, failures and restarts.
THEOREM TornWritesCostOne == Spec => []TornCostsOne
<1>1. TypeOK /\ OpenedInv => TornCostsOne
  <2> SUFFICES ASSUME TypeOK, OpenedInv, NEW i \in ToSet(opened)
               PROVE  Cardinality({j \in 1 .. Len(disk[i]) : Whole(disk[i][j]) /\ j \notin Read(i)})
                        <= Cardinality({j \in 1 .. Len(disk[i]) : ~Whole(disk[i][j])})
    BY DEF TornCostsOne
  <2>1. PICK k \in 1 .. Len(opened) : i = opened[k]
    BY LenProperties DEF ToSet, TypeOK
  <2>2. IsFile(disk[i])
    BY <2>1 DEF OpenedInv
  <2>3. {j \in 1 .. Len(disk[i]) : Whole(disk[i][j]) /\ j \notin Read(i)}
          = {j \in 1 .. Len(disk[i]) : Whole(disk[i][j]) /\ ~Readable(disk[i], j)}
    BY DEF Read
  <2> QED
    BY <2>2, <2>3, TornBefore
<1> QED
  BY <1>1, StorageTypes, PTL

\* The complete records of this run's segments were acknowledged.
WholeAcked ==
  \A k \in 1 .. Len(opened) : \A j \in 1 .. Len(disk[opened[k]]) :
    LET piece == disk[opened[k]][j]
    IN  Whole(piece) => RecordIn(piece) \in ToSet(acked)

\* The pieces of a file after write_all are those of before, and the new one.
LEMMA PieceWritten ==
  ASSUME NEW dir, DOMAIN dir = Indices, NEW file \in Indices, IsFile(dir[file]),
         NEW r \in Record, NEW got \in 0 .. r.size,
         NEW j \in 1 .. Len(Wrote(dir, file, r, got)[file])
  PROVE  \/ j \in 1 .. Len(dir[file]) /\ Wrote(dir, file, r, got)[file][j] = dir[file][j]
         \/ /\ j = Len(Wrote(dir, file, r, got)[file])
            /\ Wrote(dir, file, r, got)[file][j] = Piece(r, got)
<1>1. CASE got = 0
  BY <1>1 DEF Wrote
<1>2. CASE got # 0
  <2>1. Wrote(dir, file, r, got)[file] = Append(dir[file], Piece(r, got))
    BY <1>2 DEF Wrote
  <2>2. /\ Len(dir[file]) \in Nat
        /\ Len(Append(dir[file], Piece(r, got))) = Len(dir[file]) + 1
        /\ Append(dir[file], Piece(r, got))[Len(dir[file]) + 1] = Piece(r, got)
        /\ \A n \in 1 .. Len(dir[file]) : Append(dir[file], Piece(r, got))[n] = dir[file][n]
    <3>1. r.size \in Nat /\ r.size \in Sizes /\ r.id \in 1 .. MaxWrites
      BY FileStorageAssumption DEF Record
    <3>2. Piece(r, got) \in Pieces
      BY <3>1 DEF Piece, Pieces
    <3> QED
      BY <3>2, AppendProperties, LenProperties DEF IsFile
  <2> QED
    BY <2>1, <2>2
<1> QED
  BY <1>1, <1>2

\* A record all of whose bytes are written is acknowledged, and nothing
\* acknowledged is forgotten.
LEMMA AckedGrows ==
  ASSUME acked \in Seq(Record), NEW r \in Record, NEW got, NEW size, Outcome(r, got, size)
  PROVE  /\ ToSet(acked) \subseteq ToSet(acked')
         /\ Whole(Piece(r, got)) => RecordIn(Piece(r, got)) \in ToSet(acked')
<1>1. RecordIn(Piece(r, got)) = r /\ (Whole(Piece(r, got)) => got = r.size)
  BY DEF RecordIn, Piece, Whole, Record
<1>2. CASE got = r.size
  <2>1. acked' = Append(acked, r)
    BY <1>2 DEF Outcome, Done
  <2>2. /\ Len(acked) \in Nat /\ DOMAIN acked = 1 .. Len(acked)
        /\ Append(acked, r) \in Seq(Record)
        /\ Len(Append(acked, r)) = Len(acked) + 1
        /\ \A n \in 1 .. Len(acked) : Append(acked, r)[n] = acked[n]
        /\ Append(acked, r)[Len(acked) + 1] = r
    BY AppendProperties, LenProperties
  <2>3. DOMAIN Append(acked, r) = 1 .. Len(acked) + 1
    BY <2>2, LenProperties
  <2> QED
    BY <1>1, <2>1, <2>2, <2>3 DEF ToSet
<1>3. CASE got # r.size
  BY <1>1, <1>3 DEF Outcome, Failed
<1> QED
  BY <1>2, <1>3

LEMMA WholeAckedKept ==
  ASSUME TypeOK, OpenedInv, WholeAcked, [Next]_vars
  PROVE  WholeAcked'
<1> USE FileStorageAssumption
<1>0. /\ DirOK(disk) /\ DOMAIN disk = Indices /\ segment_index \in Nat /\ Len(opened) \in Nat
      /\ opened \in Seq(Indices) /\ acked \in Seq(Record)
      /\ \A k \in 1 .. Len(opened) : opened[k] \in Indices /\ opened[k] \in Nat
  BY Types DEF TypeOK, DirOK
<1>1. ASSUME NEW r \in Record, Write(r)
      PROVE  WholeAcked'
  <2>1. CASE UNCHANGED <<disk, current_file, current_size, acked, opened>>
    BY <2>1 DEF WholeAcked
  <2>2. CASE /\ current_file \in Indices /\ UNCHANGED <<current_file, segment_index, opened>>
             /\ \E got \in 0 .. r.size : /\ disk' = Wrote(disk, current_file, r, got)
                                         /\ Outcome(r, got, current_size)
    <3>1. PICK got \in 0 .. r.size : /\ disk' = Wrote(disk, current_file, r, got)
                                     /\ Outcome(r, got, current_size)
      BY <2>2
    <3>2. IsFile(disk[current_file])
      BY <2>2 DEF OpenedInv
    <3>3. /\ ToSet(acked) \subseteq ToSet(acked')
          /\ Whole(Piece(r, got)) => RecordIn(Piece(r, got)) \in ToSet(acked')
      BY <1>0, <3>1, AckedGrows
    <3>4. ASSUME NEW k \in 1 .. Len(opened), NEW j \in 1 .. Len(disk'[opened[k]]),
                 Whole(disk'[opened[k]][j])
          PROVE  RecordIn(disk'[opened[k]][j]) \in ToSet(acked')
      <4>1. CASE j \in 1 .. Len(disk[opened[k]]) /\ disk'[opened[k]][j] = disk[opened[k]][j]
        BY <3>3, <3>4, <4>1 DEF WholeAcked
      <4>2. CASE disk'[opened[k]][j] = Piece(r, got)
        BY <3>3, <3>4, <4>2
      <4>3. CASE opened[k] # current_file
        <5>1. \A i \in Indices : i # current_file => Wrote(disk, current_file, r, got)[i] = disk[i]
          BY <1>0, WroteElsewhere
        <5>2. disk'[opened[k]] = disk[opened[k]]
          BY <1>0, <3>1, <4>3, <5>1
        <5> QED
          BY <4>1, <5>2
      <4>4. CASE opened[k] = current_file
        <5>1. \/ /\ j \in 1 .. Len(disk[current_file])
                 /\ disk'[current_file][j] = disk[current_file][j]
              \/ disk'[current_file][j] = Piece(r, got)
          <6>1. /\ current_file \in Indices /\ DOMAIN disk = Indices
                /\ disk' = Wrote(disk, current_file, r, got)
            BY <1>0, <2>2, <3>1
          <6>2. j \in 1 .. Len(Wrote(disk, current_file, r, got)[current_file])
            BY <4>4, <6>1
          <6>3. \/ /\ j \in 1 .. Len(disk[current_file])
                   /\ Wrote(disk, current_file, r, got)[current_file][j] = disk[current_file][j]
                \/ Wrote(disk, current_file, r, got)[current_file][j] = Piece(r, got)
            BY <3>2, <6>1, <6>2, PieceWritten
          <6> QED
            BY <6>1, <6>3
        <5> QED
          BY <4>1, <4>2, <4>4, <5>1
      <4> QED
        BY <4>3, <4>4
    <3> QED
      BY <2>2, <3>4 DEF WholeAcked
  <2>3. CASE /\ segment_index' \in Indices /\ segment_index' = segment_index + 1
             /\ current_file' = segment_index'
             /\ opened' = Append(opened, segment_index')
             /\ \E got \in 0 .. r.size :
                  /\ disk' = Wrote(Created(disk, segment_index'), segment_index', r, got)
                  /\ Outcome(r, got, 0)
    <3> DEFINE index == segment_index + 1
               dir == Created(disk, index)
    <3>1. PICK got \in 0 .. r.size : disk' = Wrote(dir, index, r, got) /\ Outcome(r, got, 0)
      BY <2>3
    <3>2. index \in Indices /\ index \in Nat /\ opened' = Append(opened, index)
      BY <2>3
    <3>3. DirOK(dir) /\ IsFile(dir[index]) /\ \A i \in Indices : i # index => dir[i] = disk[i]
      BY <1>0, <3>2, CreatedFile
    <3>4. Len(dir[index]) = 0
      BY <1>0, <3>2 DEF Created
    <3> HIDE DEF dir
    <3>5. DOMAIN dir = Indices
      BY <3>3 DEF DirOK
    <3>6. /\ ToSet(acked) \subseteq ToSet(acked')
          /\ Whole(Piece(r, got)) => RecordIn(Piece(r, got)) \in ToSet(acked')
      BY <1>0, <3>1, AckedGrows
    <3>7. /\ Len(opened') = Len(opened) + 1 /\ opened'[Len(opened) + 1] = index
          /\ \A k \in 1 .. Len(opened) : opened'[k] = opened[k]
      BY <1>0, <3>2, AppendProperties
    <3>8. ASSUME NEW k \in 1 .. Len(opened'), NEW j \in 1 .. Len(disk'[opened'[k]]),
                 Whole(disk'[opened'[k]][j])
          PROVE  RecordIn(disk'[opened'[k]][j]) \in ToSet(acked')
      <4>1. CASE k \in 1 .. Len(opened)
        <5>1. opened'[k] = opened[k] /\ opened[k] \in Indices /\ opened[k] # index
          BY <1>0, <3>7, <4>1 DEF OpenedInv
        <5>2. \A i \in Indices : i # index => disk'[i] = dir[i]
          <6>1. DOMAIN dir = Indices
            BY <3>3 DEF DirOK
          <6> QED
            BY <3>1, <6>1, WroteElsewhere
        <5>3. disk'[opened[k]] = disk[opened[k]]
          BY <3>3, <5>1, <5>2
        <5> QED
          BY <3>6, <3>8, <4>1, <5>1, <5>3 DEF WholeAcked
      <4>2. CASE k = Len(opened) + 1
        <5>1. j \in 1 .. Len(disk'[index]) /\ opened'[k] = index
          BY <3>7, <4>2
        <5>2. j \notin 1 .. Len(dir[index])
          BY <3>4
        <5>3. disk'[index][j] = Piece(r, got)
          <6> HIDE DEF index
          <6>1. disk' = Wrote(dir, index, r, got) /\ j \in 1 .. Len(Wrote(dir, index, r, got)[index])
            BY <3>1, <5>1
          <6>2. \/ j \in 1 .. Len(dir[index])
                \/ Wrote(dir, index, r, got)[index][j] = Piece(r, got)
            BY <3>2, <3>3, <3>5, <6>1, PieceWritten
          <6> QED
            BY <5>2, <6>1, <6>2
        <5> QED
          BY <3>6, <3>8, <5>1, <5>3
      <4> QED
        BY <1>0, <3>7, <4>1, <4>2
    <3> QED
      BY <3>8 DEF WholeAcked
  <2> QED
    BY <1>1, <2>1, <2>2, <2>3, WriteShape
<1>2. CASE Restart
  <2>1. Len(opened') = 0
    BY <1>2, EmptySeq DEF Restart
  <2> QED
    BY <2>1 DEF WholeAcked
<1>3. CASE UNCHANGED vars
  BY <1>3 DEF vars, WholeAcked
<1> QED
  BY <1>1, <1>2, <1>3 DEF Next

\* ReadIsWritten: nothing comes out of a segment but acknowledged records, and
\* a last one of which only the delimiter is missing.
THEOREM ReaderYieldsWritten == Spec => []ReadIsWritten
<1>1. Init => WholeAcked
  <2> SUFFICES ASSUME Init PROVE WholeAcked
    OBVIOUS
  <2>1. Len(opened) = 0
    BY EmptySeq DEF Init
  <2> QED
    BY <2>1 DEF WholeAcked
<1>2. TypeOK /\ OpenedInv /\ WholeAcked /\ [Next]_vars => WholeAcked'
  BY WholeAckedKept
<1>3. TypeOK /\ OpenedInv /\ WholeAcked => ReadIsWritten
  <2> SUFFICES ASSUME TypeOK, OpenedInv, WholeAcked,
                      NEW i \in ToSet(opened), NEW j \in Read(i)
               PROVE  \/ RecordIn(disk[i][j]) \in ToSet(acked)
                      \/ j = Len(disk[i]) /\ disk[i][j].got = disk[i][j].size - 1
    BY DEF ReadIsWritten
  <2>1. PICK k \in 1 .. Len(opened) : i = opened[k]
    BY LenProperties DEF ToSet, TypeOK
  <2>2. /\ j \in 1 .. Len(disk[i]) /\ IsFile(disk[i])
        /\ EndsChunk(disk[i], j) /\ Decodes(disk[i][j])
    BY <2>1 DEF OpenedInv, Read, Readable
  <2>3. CASE Whole(disk[i][j])
    BY <2>1, <2>2, <2>3 DEF WholeAcked
  <2>4. CASE ~Whole(disk[i][j])
    <3>1. j = Len(disk[i])
      BY <2>2, <2>4 DEF EndsChunk
    <3>2. disk[i][j].size \in Nat /\ disk[i][j].got \in 1 .. disk[i][j].size
      <4>1. disk[i][j] \in Pieces
        BY <2>2, ElementOfSeq DEF IsFile
      <4>2. disk[i][j].size \in Sizes
        BY <4>1 DEF Pieces
      <4> QED
        BY <2>2, <4>2, FileStorageAssumption DEF IsFile
    <3> QED
      BY <2>2, <2>4, <3>1, <3>2 DEF Decodes, Whole
  <2> QED
    BY <2>3, <2>4
<1> QED
  BY <1>1, <1>2, <1>3, StorageTypes, PTL DEF Spec

-----------------------------------------------------------------------------
\* The pieces of this run's segments carry the numbers of their calls of
\* write, in the order in which a reader meets them.
PieceAt(k, j) == disk[opened[k]][j]

CallOrder ==
  /\ \A k \in 1 .. Len(opened) : \A j \in 1 .. Len(disk[opened[k]]) :
       PieceAt(k, j).id \in 1 .. writes
  /\ \A k, l \in 1 .. Len(opened) :
       \A i \in 1 .. Len(disk[opened[k]]), j \in 1 .. Len(disk[opened[l]]) :
         k < l \/ (k = l /\ i < j) => PieceAt(k, i).id < PieceAt(l, j).id

\* Each segment is newer than those before it, and the last one is open.
OpenIsLast ==
  /\ \A k, l \in 1 .. Len(opened) : k < l => opened[k] < opened[l]
  /\ current_file # NoFile =>
       Len(opened) > 0 /\ current_file = opened[Len(opened)]

\* A write takes the next number, whatever becomes of it.
LEMMA WriteNumbers ==
  ASSUME TypeOK, NEW r \in Record, Write(r)
  PROVE  /\ writes \in Nat /\ writes' = writes + 1 /\ r.id = writes + 1
         /\ UNCHANGED runs
<1>1. Call(r)
  BY DEF Write, WriteInPlace, WriteRotated, CreateFails, RotateFlushFails, Rotate
<1> QED
  BY <1>1, FileStorageAssumption DEF Call, TypeOK

\* One more segment leaves the list of those before it as it is.
LEMMA OneMoreSegment ==
  ASSUME TypeOK, NEW index \in Indices, opened' = Append(opened, index)
  PROVE  /\ Len(opened) \in Nat /\ Len(opened') = Len(opened) + 1
         /\ opened'[Len(opened) + 1] = index
         /\ \A k \in 1 .. Len(opened) : opened'[k] = opened[k] /\ opened[k] \in Nat
<1>1. opened \in Seq(Indices) /\ Len(opened) \in Nat
      /\ \A k \in 1 .. Len(opened) : opened[k] \in Nat
  BY Types DEF TypeOK
<1> QED
  BY <1>1, AppendProperties

LEMMA OpenIsLastKept ==
  ASSUME TypeOK, OpenedInv, OpenIsLast, [Next]_vars
  PROVE  OpenIsLast'
<1>1. ASSUME NEW r \in Record, Write(r)
      PROVE  OpenIsLast'
  <2>1. CASE UNCHANGED <<current_file, opened>>
    BY <2>1 DEF OpenIsLast
  <2>2. CASE /\ segment_index' \in Indices /\ segment_index' = segment_index + 1
             /\ current_file' = segment_index'
             /\ opened' = Append(opened, segment_index')
    <3> DEFINE index == segment_index'
    <3>1. /\ Len(opened) \in Nat /\ Len(opened') = Len(opened) + 1
          /\ opened'[Len(opened) + 1] = index
          /\ \A k \in 1 .. Len(opened) : opened'[k] = opened[k] /\ opened[k] \in Nat
      BY <2>2, OneMoreSegment
    <3>2. \A k \in 1 .. Len(opened) : opened[k] < index
      BY <2>2, <3>1, Types DEF OpenedInv
    <3>3. ASSUME NEW k \in 1 .. Len(opened'), NEW l \in 1 .. Len(opened'), k < l
          PROVE  opened'[k] < opened'[l]
      <4>1. k \in 1 .. Len(opened) /\ (l \in 1 .. Len(opened) \/ l = Len(opened) + 1)
        BY <3>1, <3>3
      <4> QED
        BY <3>1, <3>2, <3>3, <4>1 DEF OpenIsLast
    <3>4. Len(opened') > 0 /\ current_file' = opened'[Len(opened')]
      BY <2>2, <3>1
    <3> QED
      BY <3>3, <3>4 DEF OpenIsLast
  <2> QED
    BY <1>1, <2>1, <2>2, WriteShape
<1>2. CASE Restart
  <2>1. Len(opened') = 0 /\ current_file' = NoFile
    BY <1>2, EmptySeq DEF Restart
  <2> QED
    BY <2>1 DEF OpenIsLast
<1>3. CASE UNCHANGED vars
  BY <1>3 DEF vars, OpenIsLast
<1> QED
  BY <1>1, <1>2, <1>3 DEF Next

\* An acknowledgement shows.
LEMMA AppendIsNew ==
  ASSUME NEW S, NEW s \in Seq(S), NEW x \in S
  PROVE  Append(s, x) # s /\ Len(s) \in Nat /\ Len(Append(s, x)) = Len(s) + 1
<1>1. Len(s) \in Nat /\ Len(Append(s, x)) = Len(s) + 1
  BY AppendProperties, LenProperties
<1> QED
  BY <1>1

\* A piece that a write leaves in this run's segments was there before, or is
\* the very last of them and carries the number of that call.
LEMMA PlaceAfterWrite ==
  ASSUME TypeOK, OpenedInv, OpenIsLast, NEW r \in Record, Write(r),
         NEW k \in 1 .. Len(opened'), NEW j \in 1 .. Len(disk'[opened'[k]])
  PROVE  \/ /\ k \in 1 .. Len(opened) /\ j \in 1 .. Len(disk[opened[k]])
            /\ PieceAt(k, j)' = PieceAt(k, j)
         \/ /\ k = Len(opened') /\ j = Len(disk'[opened'[k]])
            /\ PieceAt(k, j)'.id = writes + 1
            /\ acked' = Append(acked, r) => Whole(PieceAt(k, j)')
<1>0. /\ DirOK(disk) /\ DOMAIN disk = Indices /\ segment_index \in Nat /\ Len(opened) \in Nat
      /\ \A n \in 1 .. Len(opened) : opened[n] \in Indices /\ opened[n] \in Nat
  BY Types, FileStorageAssumption DEF TypeOK, DirOK
<1>1. ASSUME NEW got, NEW size, Outcome(r, got, size)
      PROVE  /\ Piece(r, got).id = writes + 1
             /\ acked' = Append(acked, r) => Whole(Piece(r, got))
  <2>1. Append(acked, r) # acked
    BY AppendIsNew DEF TypeOK
  <2> QED
    BY <1>1, <2>1, WriteNumbers DEF Piece, Whole, Outcome, Failed
<1>2. CASE UNCHANGED <<disk, opened>>
  BY <1>2 DEF PieceAt
<1>3. CASE /\ current_file \in Indices /\ UNCHANGED <<current_file, opened>>
           /\ \E got \in 0 .. r.size : /\ disk' = Wrote(disk, current_file, r, got)
                                       /\ Outcome(r, got, current_size)
  <2>1. PICK got \in 0 .. r.size : /\ disk' = Wrote(disk, current_file, r, got)
                                   /\ Outcome(r, got, current_size)
    BY <1>3
  <2>2. IsFile(disk[current_file]) /\ current_file # NoFile
    BY <1>3, FileStorageAssumption DEF OpenedInv
  <2>3. CASE opened[k] = current_file
    <3>1. /\ current_file \in Indices /\ opened' = opened
          /\ j \in 1 .. Len(Wrote(disk, current_file, r, got)[current_file])
      BY <1>3, <2>1, <2>3
    <3>2. \/ /\ j \in 1 .. Len(disk[current_file])
             /\ Wrote(disk, current_file, r, got)[current_file][j] = disk[current_file][j]
          \/ /\ j = Len(Wrote(disk, current_file, r, got)[current_file])
             /\ Wrote(disk, current_file, r, got)[current_file][j] = Piece(r, got)
      BY <1>0, <2>2, <3>1, PieceWritten
    <3>3. k = Len(opened)
      <4>1. Len(opened) > 0 /\ opened[Len(opened)] = opened[k]
        BY <2>2, <2>3 DEF OpenIsLast
      <4>2. k < Len(opened) => opened[k] < opened[Len(opened)]
        BY <1>0, <3>1, <4>1 DEF OpenIsLast
      <4>3. k \in 1 .. Len(opened) /\ opened[k] \in Nat 
        BY <1>0, <3>1
      <4>4. Len(opened) \in Nat
        BY <1>0
      <4> QED
        <5>1. ~(k < Len(opened))
          BY <4>1, <4>2, <4>3
        <5>2. \A m \in Nat : \A i \in 1 .. m : ~(i < m) => i = m
          OBVIOUS
        <5> QED
          BY <4>3, <4>4, <5>1, <5>2
    <3> QED
      BY <1>1, <2>1, <2>3, <3>1, <3>2, <3>3 DEF PieceAt
  <2>4. CASE opened[k] # current_file
    <3>1. disk'[opened[k]] = disk[opened[k]]
      BY <1>0, <1>3, <2>1, <2>2, <2>4, WroteFile
    <3> QED
      BY <1>3, <3>1 DEF PieceAt
  <2> QED
    BY <2>3, <2>4
<1>4. CASE /\ segment_index' \in Indices /\ segment_index' = segment_index + 1
           /\ opened' = Append(opened, segment_index')
           /\ \E got \in 0 .. r.size :
                /\ disk' = Wrote(Created(disk, segment_index'), segment_index', r, got)
                /\ Outcome(r, got, 0)
  <2> DEFINE index == segment_index + 1
             dir == Created(disk, index)
  <2>1. PICK got \in 0 .. r.size : disk' = Wrote(dir, index, r, got) /\ Outcome(r, got, 0)
    BY <1>4
  <2>2. index \in Indices /\ index \in Nat /\ opened' = Append(opened, index)
    BY <1>0, <1>4
  <2>3. DirOK(dir) /\ IsFile(dir[index]) /\ \A i \in Indices : i # index => dir[i] = disk[i]
    BY <1>0, <2>2, CreatedFile
  <2>4. DOMAIN dir = Indices /\ Len(dir[index]) = 0
    BY <1>0, <2>2, EmptySeq DEF Created
  <2>5. \A n \in 1 .. Len(opened) : opened[n] # index
    BY <1>0 DEF OpenedInv
  <2> HIDE DEF index, dir
  <2>6. /\ Len(opened') = Len(opened) + 1 /\ opened'[Len(opened) + 1] = index
        /\ \A n \in 1 .. Len(opened) : opened'[n] = opened[n]
    BY <2>2, OneMoreSegment
  <2>7. CASE k \in 1 .. Len(opened)
    <3>1. opened[k] \in Indices /\ opened[k] # index /\ opened'[k] = opened[k]
      BY <1>0, <2>5, <2>6, <2>7
    <3>2. \A i \in Indices : i # index => disk'[i] = dir[i]
      BY <2>1, <2>2, <2>3, <2>4, WroteFile
    <3>3. disk'[opened[k]] = disk[opened[k]]
      BY <2>3, <3>1, <3>2
    <3> QED
      BY <2>7, <3>1, <3>3 DEF PieceAt
  <2>8. CASE k = Len(opened) + 1
    <3>1. j \in 1 .. Len(Wrote(dir, index, r, got)[index]) /\ opened'[k] = index
      BY <2>1, <2>6, <2>8
    <3>2. \/ j \in 1 .. Len(dir[index])
          \/ /\ j = Len(Wrote(dir, index, r, got)[index])
             /\ Wrote(dir, index, r, got)[index][j] = Piece(r, got)
      BY <2>2, <2>3, <2>4, <3>1, PieceWritten
    <3>3. j \notin 1 .. Len(dir[index])
      BY <2>4
    <3> QED
      BY <1>1, <2>1, <2>6, <2>8, <3>1, <3>2, <3>3 DEF PieceAt
  <2> QED
    BY <1>0, <2>6, <2>7, <2>8
<1> QED
  BY <1>2, <1>3, <1>4, WriteShape

LEMMA CallOrderKept ==
  ASSUME TypeOK, OpenedInv, OpenIsLast, CallOrder, [Next]_vars, TypeOK', OpenedInv'
  PROVE  CallOrder'
<1>1. ASSUME NEW r \in Record, Write(r)
      PROVE  CallOrder'
  <2>0. /\ writes \in Nat /\ writes' = writes + 1 /\ Len(opened') \in Nat
        /\ \A k \in 1 .. Len(opened') : Len(disk'[opened'[k]]) \in Nat
    BY <1>1, WriteNumbers, LenProperties DEF OpenedInv, IsFile, TypeOK
  <2>1. ASSUME NEW k \in 1 .. Len(opened'), NEW j \in 1 .. Len(disk'[opened'[k]])
        PROVE  PieceAt(k, j)'.id \in 1 .. writes'
    BY <1>1, <2>0, PlaceAfterWrite DEF CallOrder
  <2>2. ASSUME NEW k \in 1 .. Len(opened'), NEW l \in 1 .. Len(opened'),
               NEW i \in 1 .. Len(disk'[opened'[k]]), NEW j \in 1 .. Len(disk'[opened'[l]]),
               k < l \/ (k = l /\ i < j)
        PROVE  PieceAt(k, i)'.id < PieceAt(l, j)'.id
    <3>1. ~(k = Len(opened') /\ i = Len(disk'[opened'[k]]))
      BY <2>0, <2>2
    <3>2. /\ k \in 1 .. Len(opened) /\ i \in 1 .. Len(disk[opened[k]])
          /\ PieceAt(k, i)' = PieceAt(k, i)
      BY <1>1, <3>1, PlaceAfterWrite
    <3>3. PieceAt(k, i).id \in 1 .. writes
      BY <3>2 DEF CallOrder
    <3>4. CASE /\ l \in 1 .. Len(opened) /\ j \in 1 .. Len(disk[opened[l]])
               /\ PieceAt(l, j)' = PieceAt(l, j)
      BY <2>2, <3>2, <3>4 DEF CallOrder
    <3>5. CASE PieceAt(l, j)'.id = writes + 1
      BY <2>0, <3>2, <3>3, <3>5
    <3> QED
      BY <1>1, <3>4, <3>5, PlaceAfterWrite
  <2> QED
    BY <2>1, <2>2 DEF CallOrder, PieceAt
<1>2. CASE Restart
  <2>1. Len(opened') = 0
    BY <1>2, EmptySeq DEF Restart
  <2> QED
    BY <2>1 DEF CallOrder
<1>3. CASE UNCHANGED vars
  <2>1. UNCHANGED <<disk, opened, writes>>
    BY <1>3 DEF vars
  <2>2. \A k, j : PieceAt(k, j)' = PieceAt(k, j)
    BY <2>1 DEF PieceAt
  <2> QED
    BY <2>1, <2>2 DEF CallOrder
<1> QED
  BY <1>1, <1>2, <1>3 DEF Next

\* The segments of a run, read one after the other, hold the records in the
\* order of the calls of write, through rotations, failed ones and torn
\* writes: segment_index is bumped before every File::create.
THEOREM SegmentsInCallOrder == Spec => []CallOrder
<1>1. Init => OpenIsLast /\ CallOrder
  <2> SUFFICES ASSUME Init PROVE OpenIsLast /\ CallOrder
    OBVIOUS
  <2>1. Len(opened) = 0 /\ current_file = NoFile
    BY EmptySeq DEF Init
  <2> QED
    BY <2>1 DEF OpenIsLast, CallOrder
<1>2. TypeOK /\ OpenedInv /\ OpenIsLast /\ CallOrder /\ [Next]_vars /\ TypeOK' /\ OpenedInv'
        => OpenIsLast' /\ CallOrder'
  BY OpenIsLastKept, CallOrderKept
<1> QED
  BY <1>1, <1>2, StorageTypes, PTL DEF Spec

-----------------------------------------------------------------------------
\* write_all leaves what was in the file, and puts its piece behind.
LEMMA PieceAdded ==
  ASSUME NEW dir, DOMAIN dir = Indices, NEW file \in Indices, IsFile(dir[file]),
         NEW r \in Record, NEW got \in 0 .. r.size
  PROVE  /\ \A j \in 1 .. Len(dir[file]) : /\ j \in 1 .. Len(Wrote(dir, file, r, got)[file])
                                           /\ Wrote(dir, file, r, got)[file][j] = dir[file][j]
         /\ got # 0 => \E j \in 1 .. Len(Wrote(dir, file, r, got)[file]) :
                         Wrote(dir, file, r, got)[file][j] = Piece(r, got)
<1>1. CASE got = 0
  BY <1>1 DEF Wrote
<1>2. CASE got # 0
  <2>1. Wrote(dir, file, r, got)[file] = Append(dir[file], Piece(r, got))
    BY <1>2 DEF Wrote
  <2>2. Piece(r, got) \in Pieces
    <3>1. r.size \in Nat /\ r.size \in Sizes /\ r.id \in 1 .. MaxWrites
      BY FileStorageAssumption DEF Record
    <3> QED
      BY <3>1 DEF Piece, Pieces
  <2>3. /\ Len(dir[file]) \in Nat
        /\ Len(Append(dir[file], Piece(r, got))) = Len(dir[file]) + 1
        /\ Append(dir[file], Piece(r, got))[Len(dir[file]) + 1] = Piece(r, got)
        /\ \A n \in 1 .. Len(dir[file]) : Append(dir[file], Piece(r, got))[n] = dir[file][n]
    BY <2>2, AppendProperties, LenProperties DEF IsFile
  <2>4. Len(dir[file]) + 1 \in 1 .. Len(Append(dir[file], Piece(r, got)))
    BY <2>3
  <2> QED
    BY <2>1, <2>3, <2>4
<1> QED
  BY <1>1, <1>2

\* No write takes a piece away, and an acknowledged one adds its own.
LEMMA PlacesKept ==
  ASSUME TypeOK, OpenedInv, OpenIsLast, NEW r \in Record, Write(r)
  PROVE  /\ \A k \in 1 .. Len(opened) : \A j \in 1 .. Len(disk[opened[k]]) :
              /\ k \in 1 .. Len(opened') /\ j \in 1 .. Len(disk'[opened'[k]])
              /\ PieceAt(k, j)' = PieceAt(k, j)
         /\ \/ acked' = acked
            \/ /\ acked' = Append(acked, r)
               /\ \E k \in 1 .. Len(opened') : \E j \in 1 .. Len(disk'[opened'[k]]) :
                    PieceAt(k, j)' = Piece(r, r.size)
<1>0. /\ DirOK(disk) /\ DOMAIN disk = Indices /\ segment_index \in Nat /\ Len(opened) \in Nat
      /\ \A n \in 1 .. Len(opened) : opened[n] \in Indices /\ opened[n] \in Nat
      /\ r.size # 0 /\ r.size \in Nat
  BY Types, FileStorageAssumption DEF TypeOK, DirOK, Record
<1>1. ASSUME NEW got, NEW size, Outcome(r, got, size)
      PROVE  acked' = acked \/ (acked' = Append(acked, r) /\ got = r.size)
  BY <1>1 DEF Outcome, Done, Failed
<1>2. CASE UNCHANGED <<disk, opened, acked>>
  BY <1>2 DEF PieceAt
<1>3. CASE /\ current_file \in Indices /\ UNCHANGED <<current_file, opened>>
           /\ \E got \in 0 .. r.size : /\ disk' = Wrote(disk, current_file, r, got)
                                       /\ Outcome(r, got, current_size)
  <2>1. PICK got \in 0 .. r.size : /\ disk' = Wrote(disk, current_file, r, got)
                                   /\ Outcome(r, got, current_size)
    BY <1>3
  <2>2. IsFile(disk[current_file]) /\ current_file # NoFile
    BY <1>3, FileStorageAssumption DEF OpenedInv
  <2>3. /\ \A j \in 1 .. Len(disk[current_file]) :
             /\ j \in 1 .. Len(disk'[current_file])
             /\ disk'[current_file][j] = disk[current_file][j]
        /\ got # 0 => \E j \in 1 .. Len(disk'[current_file]) :
                        disk'[current_file][j] = Piece(r, got)
    BY <1>0, <1>3, <2>1, <2>2, PieceAdded
  <2>4. \A i \in Indices : i # current_file => disk'[i] = disk[i]
    BY <1>0, <1>3, <2>1, <2>2, WroteFile
  <2>5. \A k \in 1 .. Len(opened) : \A j \in 1 .. Len(disk[opened[k]]) :
          /\ k \in 1 .. Len(opened') /\ j \in 1 .. Len(disk'[opened'[k]])
          /\ PieceAt(k, j)' = PieceAt(k, j)
    BY <1>0, <1>3, <2>3, <2>4 DEF PieceAt
  <2>6. got # 0 => \E k \in 1 .. Len(opened') : \E j \in 1 .. Len(disk'[opened'[k]]) :
                     PieceAt(k, j)' = Piece(r, got)
    <3>1. /\ Len(opened) \in 1 .. Len(opened') /\ opened'[Len(opened)] = current_file
      BY <1>0, <1>3, <2>2 DEF OpenIsLast
    <3> QED
      BY <2>3, <3>1 DEF PieceAt
  <2>7. acked' = acked \/ (acked' = Append(acked, r) /\ got = r.size)
    BY <1>1, <2>1
  <2> QED
    BY <1>0, <2>5, <2>6, <2>7
<1>4. CASE /\ segment_index' \in Indices /\ segment_index' = segment_index + 1
           /\ opened' = Append(opened, segment_index')
           /\ \E got \in 0 .. r.size :
                /\ disk' = Wrote(Created(disk, segment_index'), segment_index', r, got)
                /\ Outcome(r, got, 0)
  <2> DEFINE index == segment_index + 1
             dir == Created(disk, index)
  <2>1. PICK got \in 0 .. r.size : disk' = Wrote(dir, index, r, got) /\ Outcome(r, got, 0)
    BY <1>4
  <2>2. index \in Indices /\ index \in Nat /\ opened' = Append(opened, index)
    BY <1>0, <1>4
  <2>3. DirOK(dir) /\ IsFile(dir[index]) /\ \A i \in Indices : i # index => dir[i] = disk[i]
    BY <1>0, <2>2, CreatedFile
  <2>4. DOMAIN dir = Indices
    BY <2>3 DEF DirOK
  <2>5. \A n \in 1 .. Len(opened) : opened[n] # index
    BY <1>0 DEF OpenedInv
  <2> HIDE DEF index, dir
  <2>6. /\ Len(opened') = Len(opened) + 1 /\ opened'[Len(opened) + 1] = index
        /\ \A n \in 1 .. Len(opened) : opened'[n] = opened[n]
    BY <2>2, OneMoreSegment
  <2>7. \A i \in Indices : i # index => disk'[i] = disk[i]
    BY <2>1, <2>2, <2>3, <2>4, WroteFile
  <2>8. \A k \in 1 .. Len(opened) : disk'[opened'[k]] = disk[opened[k]] /\ k \in 1 .. Len(opened')
    BY <1>0, <2>5, <2>6, <2>7
  <2>9. \A k \in 1 .. Len(opened) : \A j \in 1 .. Len(disk[opened[k]]) :
          /\ k \in 1 .. Len(opened') /\ j \in 1 .. Len(disk'[opened'[k]])
          /\ PieceAt(k, j)' = PieceAt(k, j)
    BY <2>8 DEF PieceAt
  <2>10. got # 0 => \E j \in 1 .. Len(disk'[index]) : disk'[index][j] = Piece(r, got)
    BY <2>1, <2>2, <2>3, <2>4, PieceAdded
  <2>11. got # 0 => \E k \in 1 .. Len(opened') : \E j \in 1 .. Len(disk'[opened'[k]]) :
                      PieceAt(k, j)' = Piece(r, got)
    <3>1. Len(opened) + 1 \in 1 .. Len(opened')
      BY <1>0, <2>6
    <3> QED
      BY <2>6, <2>10, <3>1 DEF PieceAt
  <2>12. acked' = acked \/ (acked' = Append(acked, r) /\ got = r.size)
    BY <1>1, <2>1
  <2> QED
    BY <1>0, <2>9, <2>11, <2>12
<1> QED
  BY <1>2, <1>3, <1>4, WriteShape

\* While every call of write has been acknowledged, every call has its piece,
\* and all of them are complete.
AllThere ==
  /\ Len(acked) <= writes
  /\ Len(acked) = writes =>
       /\ \A k \in 1 .. Len(opened) : \A j \in 1 .. Len(disk[opened[k]]) : Whole(PieceAt(k, j))
       /\ \A n \in 1 .. writes :
            \E k \in 1 .. Len(opened) : \E j \in 1 .. Len(disk[opened[k]]) : PieceAt(k, j).id = n

\* A segment has no more pieces than there were calls.
ShortFiles ==
  \A k \in 1 .. Len(opened) : \A j \in 1 .. Len(disk[opened[k]]) : j <= PieceAt(k, j).id

LEMMA AllThereKept ==
  ASSUME TypeOK, OpenedInv, OpenIsLast, AllThere, [Next]_vars
  PROVE  AllThere'
<1>1. ASSUME NEW r \in Record, Write(r)
      PROVE  AllThere'
  <2>0. /\ writes \in Nat /\ writes' = writes + 1 /\ r.id = writes + 1
        /\ acked \in Seq(Record) /\ Len(acked) \in Nat
        /\ Len(Append(acked, r)) = Len(acked) + 1 /\ Append(acked, r) # acked
        /\ Len(acked) <= writes
    BY <1>1, WriteNumbers, AppendIsNew DEF TypeOK, AllThere
  <2>1. CASE acked' = acked
    BY <2>0, <2>1 DEF AllThere
  <2>2. CASE acked' = Append(acked, r)
    <3>1. Len(acked') <= writes' /\ (Len(acked') = writes' => Len(acked) = writes)
      BY <2>0, <2>2
    <3> SUFFICES ASSUME Len(acked) = writes
                 PROVE  /\ \A k \in 1 .. Len(opened') : \A j \in 1 .. Len(disk'[opened'[k]]) :
                             Whole(PieceAt(k, j)')
                        /\ \A n \in 1 .. writes' :
                             \E k \in 1 .. Len(opened') : \E j \in 1 .. Len(disk'[opened'[k]]) :
                               PieceAt(k, j)'.id = n
      BY <3>1 DEF AllThere, PieceAt, Whole
    <3>2. ASSUME NEW k \in 1 .. Len(opened'), NEW j \in 1 .. Len(disk'[opened'[k]])
          PROVE  Whole(PieceAt(k, j)')
      BY <1>1, <2>2, PlaceAfterWrite DEF AllThere
    <3>3. ASSUME NEW n \in 1 .. writes'
          PROVE  \E k \in 1 .. Len(opened') : \E j \in 1 .. Len(disk'[opened'[k]]) :
                   PieceAt(k, j)'.id = n
      <4>1. CASE n \in 1 .. writes
        <5>0. PICK k \in 1 .. Len(opened) : \E j \in 1 .. Len(disk[opened[k]]) : PieceAt(k, j).id = n
          BY <4>1 DEF AllThere
        <5>1. PICK j \in 1 .. Len(disk[opened[k]]) : PieceAt(k, j).id = n
          BY <5>0
        <5>2. /\ k \in 1 .. Len(opened') /\ j \in 1 .. Len(disk'[opened'[k]])
              /\ PieceAt(k, j)' = PieceAt(k, j)
          BY <1>1, PlacesKept
        <5> QED
          BY <5>1, <5>2
      <4>2. CASE n = writes + 1
        <5>0. PICK k \in 1 .. Len(opened') : \E j \in 1 .. Len(disk'[opened'[k]]) :
                PieceAt(k, j)' = Piece(r, r.size)
          BY <1>1, <2>0, <2>2, PlacesKept
        <5>1. PICK j \in 1 .. Len(disk'[opened'[k]]) : PieceAt(k, j)' = Piece(r, r.size)
          BY <5>0
        <5>2. PieceAt(k, j)'.id = n
          BY <2>0, <4>2, <5>1 DEF Piece
        <5> QED
          BY <5>2
      <4> QED
        BY <2>0, <4>1, <4>2
    <3> QED
      BY <3>2, <3>3
  <2> QED
    BY <1>1, <2>1, <2>2, PlacesKept
<1>2. CASE Restart
  <2>1. /\ Len(opened') = 0 /\ Len(acked') = 0 /\ writes' = writes /\ writes \in Nat
    BY <1>2, EmptySeq, FileStorageAssumption DEF Restart, TypeOK
  <2>2. \A n \in 1 .. writes' : writes' # 0
    BY <2>1
  <2> QED
    BY <2>1, <2>2 DEF AllThere
<1>3. CASE UNCHANGED vars
  <2>1. UNCHANGED <<disk, opened, writes, acked>> /\ \A k, j : PieceAt(k, j)' = PieceAt(k, j)
    BY <1>3 DEF vars, PieceAt
  <2> QED
    BY <2>1 DEF AllThere, Whole
<1> QED
  BY <1>1, <1>2, <1>3 DEF Next

LEMMA ShortFilesKept ==
  ASSUME TypeOK, OpenedInv, OpenIsLast, CallOrder, ShortFiles, [Next]_vars, OpenedInv'
  PROVE  ShortFiles'
<1>1. ASSUME NEW r \in Record, Write(r)
      PROVE  ShortFiles'
  <2> SUFFICES ASSUME NEW k \in 1 .. Len(opened'), NEW j \in 1 .. Len(disk'[opened'[k]])
               PROVE  j <= PieceAt(k, j)'.id
    BY DEF ShortFiles, PieceAt
  <2>1. /\ writes \in Nat /\ Len(disk'[opened'[k]]) \in Nat
    BY <1>1, WriteNumbers, LenProperties DEF OpenedInv, IsFile
  <2>2. CASE /\ k \in 1 .. Len(opened) /\ j \in 1 .. Len(disk[opened[k]])
             /\ PieceAt(k, j)' = PieceAt(k, j)
    BY <2>2 DEF ShortFiles
  <2>3. CASE /\ k = Len(opened') /\ j = Len(disk'[opened'[k]])
             /\ PieceAt(k, j)'.id = writes + 1
    <3>1. CASE j = 1
      BY <2>1, <2>3, <3>1
    <3>2. CASE j # 1
      <4>1. j - 1 \in 1 .. Len(disk'[opened'[k]]) /\ j - 1 # Len(disk'[opened'[k]])
        <5>1. \A m \in Nat : \A i \in 1 .. m : i = m /\ i # 1 => i - 1 \in 1 .. m /\ i - 1 # m
          OBVIOUS
        <5> QED
          BY <2>1, <2>3, <3>2, <5>1
      <4>2. /\ k \in 1 .. Len(opened) /\ j - 1 \in 1 .. Len(disk[opened[k]])
        BY <1>1, <4>1, PlaceAfterWrite
      <4>3. j - 1 <= PieceAt(k, j - 1).id /\ PieceAt(k, j - 1).id \in 1 .. writes
        BY <4>2 DEF ShortFiles, CallOrder
      <4> QED
        BY <2>1, <2>3, <4>3
    <3> QED
      BY <3>1, <3>2
  <2> QED
    BY <1>1, <2>2, <2>3, PlaceAfterWrite
<1>2. CASE Restart
  <2>1. Len(opened') = 0
    BY <1>2, EmptySeq DEF Restart
  <2> QED
    BY <2>1 DEF ShortFiles
<1>3. CASE UNCHANGED vars
  <2>1. UNCHANGED <<disk, opened>> /\ \A k, j : PieceAt(k, j)' = PieceAt(k, j)
    BY <1>3 DEF vars, PieceAt
  <2> QED
    BY <2>1 DEF ShortFiles
<1> QED
  BY <1>1, <1>2, <1>3 DEF Next

\* If no call of write failed, all of them can be found in the segments, each
\* complete: rotation neither skips nor truncates.
THEOREM CleanFilesComplete == Spec => [](AllThere /\ ShortFiles)
<1>1. Init => OpenIsLast /\ AllThere /\ ShortFiles
  <2> SUFFICES ASSUME Init PROVE OpenIsLast /\ AllThere /\ ShortFiles
    OBVIOUS
  <2>1. Len(opened) = 0 /\ Len(acked) = 0 /\ current_file = NoFile /\ writes = 0
    BY EmptySeq DEF Init
  <2> QED
    BY <2>1 DEF OpenIsLast, AllThere, ShortFiles
<1>2. TypeOK /\ OpenedInv /\ CallOrder /\ OpenedInv'
        /\ OpenIsLast /\ AllThere /\ ShortFiles /\ [Next]_vars
        => OpenIsLast' /\ AllThere' /\ ShortFiles'
  BY OpenIsLastKept, AllThereKept, ShortFilesKept
<1> QED
  BY <1>1, <1>2, StorageTypes, SegmentsInCallOrder, PTL DEF Spec

-----------------------------------------------------------------------------
\* What the recursive functions of WholeRecords, SizeOfWhole and RecordsIn
\* give for each prefix.
WholeUpto(u, p) ==
  /\ u \in [0 .. Len(p) -> Seq(Record)]
  /\ u[0] = <<>> /\ WholeRecords(p) = u[Len(p)]
  /\ \A n \in 1 .. Len(p) :
       u[n] = IF Whole(p[n]) THEN Append(u[n - 1], RecordIn(p[n])) ELSE u[n - 1]

SizeUpto(u, p) ==
  /\ u \in [0 .. Len(p) -> Nat]
  /\ u[0] = 0 /\ SizeOfWhole(p) = u[Len(p)]
  /\ \A n \in 1 .. Len(p) : u[n] = IF Whole(p[n]) THEN u[n - 1] + p[n].size ELSE u[n - 1]

RecordsUpto(u, dir, segments) ==
  /\ u \in [0 .. Len(segments) -> Seq(Record)]
  /\ u[0] = <<>> /\ RecordsIn(dir, segments) = u[Len(segments)]
  /\ \A n \in 1 .. Len(segments) : u[n] = u[n - 1] \o WholeRecords(dir[segments[n]])

\* The recursive function in WholeRecords exists, and gives each prefix of the
\* pieces its complete records.
LEMMA WholeRecordsSteps ==
  ASSUME NEW p \in Seq(Pieces)
  PROVE  \E u : WholeUpto(u, p)
<1> DEFINE N == Len(p)
           Go(n, v) == IF Whole(p[n]) THEN Append(v, RecordIn(p[n])) ELSE v
           Def(g) == [n \in 0 .. N |-> IF n = 0 THEN <<>> ELSE Go(n, g[n - 1])]
           u == CHOOSE g : g = Def(g)
<1>1. N \in Nat /\ \A n \in 1 .. N : p[n] \in Pieces
  BY LenProperties, ElementOfSeq
<1>2. WholeRecords(p) = u[N]
  BY Zenon DEF WholeRecords
<1> HIDE DEF N
<1>3. \A n \in 1 .. N : \A v \in Seq(Record) : Go(n, v) \in Seq(Record)
  <2>1. \A n \in 1 .. N : RecordIn(p[n]) \in Record
    BY <1>1 DEF RecordIn, Record, Pieces
  <2> QED
    BY <2>1, AppendProperties
<1> DEFINE T == Seq(Record)
           e == <<>>
           step == [a \in (1 .. N) \X T |-> Go(a[1], a[2])]
<1>4. N \in Nat /\ e \in T
  BY <1>1, EmptySeq
<1>5. \A n, v : Go(n, v) = IF Whole(p[n]) THEN Append(v, RecordIn(p[n])) ELSE v
  OBVIOUS
<1> HIDE DEF Go, T, e
<1>6. \A n \in 1 .. N : \A v \in T : Go(n, v) \in T
  BY <1>3 DEF T
<1>7. step \in StepFunctions(N, T)
  BY <1>6 DEF StepFunctions
<1>8. \A n \in 1 .. N : \A v \in T : step[<<n, v>>] = Go(n, v)
  OBVIOUS
<1> HIDE DEF step
<1>9. PICK f : Recurs(f, N, T, e, step)
  BY <1>4, <1>7, Recursion
<1>10. /\ f \in [0 .. N -> T] /\ f[0] = e
      /\ \A n \in 1 .. N : f[n] = Go(n, f[n - 1])
  <2>1. /\ f \in [0 .. N -> T] /\ f[0] = e
        /\ \A n \in 1 .. N : f[n] = step[<<n, f[n - 1]>>]
    BY <1>9 DEF Recurs
  <2>2. \A n \in 1 .. N : f[n - 1] \in T
    BY <1>4, <2>1
  <2> QED
    BY <1>8, <2>1, <2>2
<1>11. f = Def(f)
  <2>1. \A n \in 0 .. N : f[n] = Def(f)[n]
    BY <1>4, <1>10 DEF e
  <2> QED
    BY <1>10, <2>1
<1>12. u = Def(u)
  <2> HIDE DEF Def
  <2> QED
    BY <1>11, Zenon
<1>13. /\ u = [n \in 0 .. N |-> u[n]] /\ u[0] = e
       /\ \A n \in 1 .. N : u[n] = Go(n, u[n - 1])
  <2>1. /\ DOMAIN Def(u) = 0 .. N /\ Def(u) = [n \in 0 .. N |-> Def(u)[n]]
        /\ \A n \in 0 .. N : Def(u)[n] = IF n = 0 THEN e ELSE Go(n, u[n - 1])
    BY DEF e
  <2> HIDE DEF Def, u
  <2> QED
    BY <1>4, <1>12, <2>1
<1> HIDE DEF u
<1>14. \A n \in 0 .. N : u[n] \in T
  <2> DEFINE S == {n \in 0 .. N : u[n] \in T}
  <2>1. u[0] = e /\ \A n \in 1 .. N : u[n] = Go(n, u[n - 1])
    BY <1>13
  <2>2. 0 \in S
    BY <1>4, <2>1
  <2>3. ASSUME NEW n \in 1 .. N, n - 1 \in S
        PROVE  n \in S
    BY <1>6, <2>1, <2>3
  <2> HIDE DEF S
  <2>4. 0 .. N \subseteq S
    BY <1>4, <2>2, <2>3, IntervalInduction
  <2> QED
    BY <2>4 DEF S
<1>15. u \in [0 .. N -> T]
  BY <1>13, <1>14
<1> QED
  BY <1>2, <1>5, <1>13, <1>15, Zenon DEF WholeUpto, N, T, e

\* The same for their size.
LEMMA SizeOfWholeSteps ==
  ASSUME NEW p \in Seq(Pieces)
  PROVE  \E u : SizeUpto(u, p)
<1> DEFINE N == Len(p)
           Go(n, v) == IF Whole(p[n]) THEN v + p[n].size ELSE v
           Def(g) == [n \in 0 .. N |-> IF n = 0 THEN 0 ELSE Go(n, g[n - 1])]
           u == CHOOSE g : g = Def(g)
<1>1. N \in Nat /\ \A n \in 1 .. N : p[n] \in Pieces
  BY LenProperties, ElementOfSeq
<1>2. SizeOfWhole(p) = u[N]
  BY Zenon DEF SizeOfWhole
<1> HIDE DEF N
<1>3. \A n \in 1 .. N : \A v \in Nat : Go(n, v) \in Nat
  <2>1. \A n \in 1 .. N : p[n].size \in Nat
    BY <1>1, FileStorageAssumption DEF Pieces
  <2> QED
    BY <2>1
<1> DEFINE T == Nat
           e == 0
           step == [a \in (1 .. N) \X T |-> Go(a[1], a[2])]
<1>4. N \in Nat /\ e \in T
  BY <1>1
<1>5. \A n, v : Go(n, v) = IF Whole(p[n]) THEN v + p[n].size ELSE v
  OBVIOUS
<1> HIDE DEF Go, T, e
<1>6. \A n \in 1 .. N : \A v \in T : Go(n, v) \in T
  BY <1>3 DEF T
<1>7. step \in StepFunctions(N, T)
  BY <1>6 DEF StepFunctions
<1>8. \A n \in 1 .. N : \A v \in T : step[<<n, v>>] = Go(n, v)
  OBVIOUS
<1> HIDE DEF step
<1>9. PICK f : Recurs(f, N, T, e, step)
  BY <1>4, <1>7, Recursion
<1>10. /\ f \in [0 .. N -> T] /\ f[0] = e
      /\ \A n \in 1 .. N : f[n] = Go(n, f[n - 1])
  <2>1. /\ f \in [0 .. N -> T] /\ f[0] = e
        /\ \A n \in 1 .. N : f[n] = step[<<n, f[n - 1]>>]
    BY <1>9 DEF Recurs
  <2>2. \A n \in 1 .. N : f[n - 1] \in T
    BY <1>4, <2>1
  <2> QED
    BY <1>8, <2>1, <2>2
<1>11. f = Def(f)
  <2>1. \A n \in 0 .. N : f[n] = Def(f)[n]
    BY <1>4, <1>10 DEF e
  <2> QED
    BY <1>10, <2>1
<1>12. u = Def(u)
  <2> HIDE DEF Def
  <2> QED
    BY <1>11, Zenon
<1>13. /\ u = [n \in 0 .. N |-> u[n]] /\ u[0] = e
       /\ \A n \in 1 .. N : u[n] = Go(n, u[n - 1])
  <2>1. /\ DOMAIN Def(u) = 0 .. N /\ Def(u) = [n \in 0 .. N |-> Def(u)[n]]
        /\ \A n \in 0 .. N : Def(u)[n] = IF n = 0 THEN e ELSE Go(n, u[n - 1])
    BY DEF e
  <2> HIDE DEF Def, u
  <2> QED
    BY <1>4, <1>12, <2>1
<1> HIDE DEF u
<1>14. \A n \in 0 .. N : u[n] \in T
  <2> DEFINE S == {n \in 0 .. N : u[n] \in T}
  <2>1. u[0] = e /\ \A n \in 1 .. N : u[n] = Go(n, u[n - 1])
    BY <1>13
  <2>2. 0 \in S
    BY <1>4, <2>1
  <2>3. ASSUME NEW n \in 1 .. N, n - 1 \in S
        PROVE  n \in S
    BY <1>6, <2>1, <2>3
  <2> HIDE DEF S
  <2>4. 0 .. N \subseteq S
    BY <1>4, <2>2, <2>3, IntervalInduction
  <2> QED
    BY <2>4 DEF S
<1>15. u \in [0 .. N -> T]
  BY <1>13, <1>14
<1> QED
  BY <1>2, <1>5, <1>13, <1>15, Zenon DEF SizeUpto, N, T, e

\* And for the records of several files.
LEMMA RecordsInSteps ==
  ASSUME NEW dir, NEW segments \in Seq(Indices),
         \A k \in 1 .. Len(segments) : WholeRecords(dir[segments[k]]) \in Seq(Record)
  PROVE  \E u : RecordsUpto(u, dir, segments)
<1> DEFINE N == Len(segments)
           Go(n, v) == v \o WholeRecords(dir[segments[n]])
           Def(g) == [n \in 0 .. N |-> IF n = 0 THEN <<>> ELSE Go(n, g[n - 1])]
           u == CHOOSE g : g = Def(g)
<1>1. N \in Nat
  BY LenProperties
<1>2. RecordsIn(dir, segments) = u[N]
  BY Zenon DEF RecordsIn
<1> HIDE DEF N
<1>3. \A n \in 1 .. N : \A v \in Seq(Record) : Go(n, v) \in Seq(Record)
  BY ConcatProperties DEF N
<1> DEFINE T == Seq(Record)
           e == <<>>
           step == [a \in (1 .. N) \X T |-> Go(a[1], a[2])]
<1>4. N \in Nat /\ e \in T
  BY <1>1, EmptySeq
<1>5. \A n, v : Go(n, v) = v \o WholeRecords(dir[segments[n]])
  OBVIOUS
<1> HIDE DEF Go, T, e
<1>6. \A n \in 1 .. N : \A v \in T : Go(n, v) \in T
  BY <1>3 DEF T
<1>7. step \in StepFunctions(N, T)
  BY <1>6 DEF StepFunctions
<1>8. \A n \in 1 .. N : \A v \in T : step[<<n, v>>] = Go(n, v)
  OBVIOUS
<1> HIDE DEF step
<1>9. PICK f : Recurs(f, N, T, e, step)
  BY <1>4, <1>7, Recursion
<1>10. /\ f \in [0 .. N -> T] /\ f[0] = e
      /\ \A n \in 1 .. N : f[n] = Go(n, f[n - 1])
  <2>1. /\ f \in [0 .. N -> T] /\ f[0] = e
        /\ \A n \in 1 .. N : f[n] = step[<<n, f[n - 1]>>]
    BY <1>9 DEF Recurs
  <2>2. \A n \in 1 .. N : f[n - 1] \in T
    BY <1>4, <2>1
  <2> QED
    BY <1>8, <2>1, <2>2
<1>11. f = Def(f)
  <2>1. \A n \in 0 .. N : f[n] = Def(f)[n]
    BY <1>4, <1>10 DEF e
  <2> QED
    BY <1>10, <2>1
<1>12. u = Def(u)
  <2> HIDE DEF Def
  <2> QED
    BY <1>11, Zenon
<1>13. /\ u = [n \in 0 .. N |-> u[n]] /\ u[0] = e
       /\ \A n \in 1 .. N : u[n] = Go(n, u[n - 1])
  <2>1. /\ DOMAIN Def(u) = 0 .. N /\ Def(u) = [n \in 0 .. N |-> Def(u)[n]]
        /\ \A n \in 0 .. N : Def(u)[n] = IF n = 0 THEN e ELSE Go(n, u[n - 1])
    BY DEF e
  <2> HIDE DEF Def, u
  <2> QED
    BY <1>4, <1>12, <2>1
<1> HIDE DEF u
<1>14. \A n \in 0 .. N : u[n] \in T
  <2> DEFINE S == {n \in 0 .. N : u[n] \in T}
  <2>1. u[0] = e /\ \A n \in 1 .. N : u[n] = Go(n, u[n - 1])
    BY <1>13
  <2>2. 0 \in S
    BY <1>4, <2>1
  <2>3. ASSUME NEW n \in 1 .. N, n - 1 \in S
        PROVE  n \in S
    BY <1>6, <2>1, <2>3
  <2> HIDE DEF S
  <2>4. 0 .. N \subseteq S
    BY <1>4, <2>2, <2>3, IntervalInduction
  <2> QED
    BY <2>4 DEF S
<1>15. u \in [0 .. N -> T]
  BY <1>13, <1>14
<1> QED
  BY <1>2, <1>5, <1>13, <1>15, Zenon DEF RecordsUpto, N, T, e


\* One more piece is one more complete record, or none.
LEMMA WholeRecordsAppend ==
  ASSUME NEW p \in Seq(Pieces), NEW x \in Pieces
  PROVE  /\ WholeRecords(p) \in Seq(Record)
         /\ WholeRecords(Append(p, x)) =
              IF Whole(x) THEN Append(WholeRecords(p), RecordIn(x)) ELSE WholeRecords(p)
<1> DEFINE N == Len(p)
           q == Append(p, x)
<1>1. /\ N \in Nat /\ q \in Seq(Pieces) /\ Len(q) = N + 1
      /\ q[N + 1] = x /\ \A n \in 1 .. N : q[n] = p[n]
  BY LenProperties, AppendProperties
<1>2. PICK u : WholeUpto(u, p)
  BY WholeRecordsSteps
<1> HIDE DEF N, q
<1>3. PICK w : WholeUpto(w, q)
  BY <1>1, WholeRecordsSteps
<1>4. /\ u \in [0 .. N -> Seq(Record)] /\ u[0] = <<>> /\ WholeRecords(p) = u[N]
      /\ \A n \in 1 .. N :
           u[n] = IF Whole(p[n]) THEN Append(u[n - 1], RecordIn(p[n])) ELSE u[n - 1]
  BY <1>2 DEF WholeUpto, N
<1>5. /\ w \in [0 .. N + 1 -> Seq(Record)] /\ w[0] = <<>> /\ WholeRecords(q) = w[N + 1]
      /\ \A n \in 1 .. N + 1 :
           w[n] = IF Whole(q[n]) THEN Append(w[n - 1], RecordIn(q[n])) ELSE w[n - 1]
  BY <1>1, <1>3 DEF WholeUpto
<1>6. \A n \in 0 .. N : u[n] = w[n]
  <2>1. u[0] = w[0]
    BY <1>4, <1>5
  <2>2. ASSUME NEW n \in 1 .. N, u[n - 1] = w[n - 1]
        PROVE  u[n] = w[n]
    <3>1. n \in 1 .. N + 1 /\ q[n] = p[n]
      BY <1>1
    <3> QED
      BY <1>4, <1>5, <2>2, <3>1
  <2>3. GoOnAlike(N, u, w)
    BY <2>2 DEF GoOnAlike
  <2> QED
    BY <1>1, <2>1, <2>3, Agreement DEF Alike
<1>7. w[N] = u[N] /\ u[N] \in Seq(Record)
  <2>1. N \in 0 .. N
    BY <1>1
  <2>2. u \in [0 .. N -> Seq(Record)]
    BY <1>4
  <2> QED
    BY <1>6, <2>1, <2>2
<1>8. N + 1 \in 1 .. N + 1 /\ N + 1 - 1 = N
  BY <1>1
<1>9. WholeRecords(q) = IF Whole(x) THEN Append(w[N], RecordIn(x)) ELSE w[N]
  BY <1>1, <1>5, <1>8
<1> QED
  BY <1>4, <1>7, <1>9 DEF q

\* Its size counts if it is complete.
LEMMA SizeOfWholeAppend ==
  ASSUME NEW p \in Seq(Pieces), NEW x \in Pieces
  PROVE  /\ SizeOfWhole(p) \in Nat
         /\ SizeOfWhole(Append(p, x)) =
              IF Whole(x) THEN SizeOfWhole(p) + x.size ELSE SizeOfWhole(p)
<1> DEFINE N == Len(p)
           q == Append(p, x)
<1>1. /\ N \in Nat /\ q \in Seq(Pieces) /\ Len(q) = N + 1
      /\ q[N + 1] = x /\ \A n \in 1 .. N : q[n] = p[n]
  BY LenProperties, AppendProperties
<1>2. PICK u : SizeUpto(u, p)
  BY SizeOfWholeSteps
<1> HIDE DEF N, q
<1>3. PICK w : SizeUpto(w, q)
  BY <1>1, SizeOfWholeSteps
<1>4. /\ u \in [0 .. N -> Nat] /\ u[0] = 0 /\ SizeOfWhole(p) = u[N]
      /\ \A n \in 1 .. N : u[n] = IF Whole(p[n]) THEN u[n - 1] + p[n].size ELSE u[n - 1]
  BY <1>2 DEF SizeUpto, N
<1>5. /\ w \in [0 .. N + 1 -> Nat] /\ w[0] = 0 /\ SizeOfWhole(q) = w[N + 1]
      /\ \A n \in 1 .. N + 1 : w[n] = IF Whole(q[n]) THEN w[n - 1] + q[n].size ELSE w[n - 1]
  BY <1>1, <1>3 DEF SizeUpto
<1>6. \A n \in 0 .. N : u[n] = w[n]
  <2>1. u[0] = w[0]
    BY <1>4, <1>5
  <2>2. ASSUME NEW n \in 1 .. N, u[n - 1] = w[n - 1]
        PROVE  u[n] = w[n]
    <3>1. n \in 1 .. N + 1 /\ q[n] = p[n]
      BY <1>1
    <3> QED
      BY <1>4, <1>5, <2>2, <3>1
  <2>3. GoOnAlike(N, u, w)
    BY <2>2 DEF GoOnAlike
  <2> QED
    BY <1>1, <2>1, <2>3, Agreement DEF Alike
<1>7. w[N] = u[N] /\ u[N] \in Nat
  <2>1. N \in 0 .. N
    BY <1>1
  <2>2. u \in [0 .. N -> Nat]
    BY <1>4
  <2> QED
    BY <1>6, <2>1, <2>2
<1>8. N + 1 \in 1 .. N + 1 /\ N + 1 - 1 = N
  BY <1>1
<1>9. SizeOfWhole(q) = IF Whole(x) THEN w[N] + x.size ELSE w[N]
  BY <1>1, <1>5, <1>8
<1> QED
  BY <1>4, <1>7, <1>9 DEF q

\* An empty file has neither.
LEMMA NothingWhole ==
  WholeRecords(<<>>) = <<>> /\ SizeOfWhole(<<>>) = 0
<1>1. <<>> \in Seq(Pieces) /\ Len(<<>>) = 0
  BY EmptySeq
<1>2. PICK u : WholeUpto(u, <<>>)
  BY <1>1, WholeRecordsSteps
<1>3. PICK w : SizeUpto(w, <<>>)
  BY <1>1, SizeOfWholeSteps
<1>4. u[0] = <<>> /\ WholeRecords(<<>>) = u[0]
  BY <1>1, <1>2 DEF WholeUpto
<1>5. w[0] = 0 /\ SizeOfWhole(<<>>) = w[0]
  BY <1>1, <1>3 DEF SizeUpto
<1> QED
  BY <1>4, <1>5

\* What the last of some segments adds stands behind what the others hold.
Typed(dir, segments) ==
  \A k \in 1 .. Len(segments) : WholeRecords(dir[segments[k]]) \in Seq(Record)
SameBefore(last, dir, dir2, segments) ==
  \A k \in 1 .. last - 1 : WholeRecords(dir2[segments[k]]) = WholeRecords(dir[segments[k]])
Behind(front, last, dir, segments) ==
  RecordsIn(dir, segments) = front \o WholeRecords(dir[segments[last]])

LEMMA LastSegment ==
  ASSUME NEW dir, NEW dir2, NEW segments \in Seq(Indices),
         NEW last, last = Len(segments), last # 0,
         Typed(dir, segments), Typed(dir2, segments), SameBefore(last, dir, dir2, segments)
  PROVE  \E front \in Seq(Record) :
           Behind(front, last, dir, segments) /\ Behind(front, last, dir2, segments)
<1> USE DEF Typed, SameBefore, Behind
<1>1. last \in Nat /\ last - 1 \in Nat /\ last \in 1 .. last /\ last - 1 \in 0 .. last - 1
  BY LenProperties
<1>2. PICK u : RecordsUpto(u, dir, segments)
  BY RecordsInSteps
<1>3. PICK w : RecordsUpto(w, dir2, segments)
  BY RecordsInSteps
<1>4. /\ u \in [0 .. last -> Seq(Record)] /\ u[0] = <<>> /\ RecordsIn(dir, segments) = u[last]
      /\ \A n \in 1 .. last : u[n] = u[n - 1] \o WholeRecords(dir[segments[n]])
  BY <1>2 DEF RecordsUpto
<1>5. /\ w[0] = <<>> /\ RecordsIn(dir2, segments) = w[last]
      /\ \A n \in 1 .. last : w[n] = w[n - 1] \o WholeRecords(dir2[segments[n]])
  BY <1>3 DEF RecordsUpto
<1>6. \A n \in 0 .. last - 1 : u[n] = w[n]
  <2>1. u[0] = w[0]
    BY <1>4, <1>5
  <2>2. ASSUME NEW n \in 1 .. last - 1, u[n - 1] = w[n - 1]
        PROVE  u[n] = w[n]
    <3>1. n \in 1 .. last
      BY <1>1
    <3> QED
      BY <1>4, <1>5, <2>2, <3>1
  <2>3. GoOnAlike(last - 1, u, w)
    BY <2>2 DEF GoOnAlike
  <2> QED
    BY <1>1, <2>1, <2>3, Agreement DEF Alike
<1>7. u[last - 1] = w[last - 1]
  BY <1>1, <1>6
<1>8. /\ u[last] = u[last - 1] \o WholeRecords(dir[segments[last]])
      /\ w[last] = w[last - 1] \o WholeRecords(dir2[segments[last]])
  BY <1>1, <1>4, <1>5, Zenon
<1>9. u[last - 1] \in Seq(Record)
  <2>1. u \in [0 .. last -> Seq(Record)] /\ last - 1 \in 0 .. last
    BY <1>1, <1>4
  <2> QED
    BY <2>1
<1> QED
  BY <1>4, <1>5, <1>7, <1>8, <1>9

\* Segments whose complete records did not change hold what they held.
LEMMA SameSegments ==
  ASSUME NEW dir, NEW dir2, NEW segments \in Seq(Indices),
         \A k \in 1 .. Len(segments) :
           /\ WholeRecords(dir[segments[k]]) \in Seq(Record)
           /\ WholeRecords(dir2[segments[k]]) = WholeRecords(dir[segments[k]])
  PROVE  /\ RecordsIn(dir, segments) \in Seq(Record)
         /\ RecordsIn(dir2, segments) = RecordsIn(dir, segments)
<1> DEFINE N == Len(segments)
<1>1. N \in Nat
  BY LenProperties
<1>2. PICK u : RecordsUpto(u, dir, segments)
  BY RecordsInSteps
<1>3. PICK w : RecordsUpto(w, dir2, segments)
  BY RecordsInSteps
<1>4. /\ u \in [0 .. N -> Seq(Record)] /\ u[0] = <<>> /\ RecordsIn(dir, segments) = u[N]
      /\ \A n \in 1 .. N : u[n] = u[n - 1] \o WholeRecords(dir[segments[n]])
  BY <1>2 DEF RecordsUpto
<1>5. /\ w[0] = <<>> /\ RecordsIn(dir2, segments) = w[N]
      /\ \A n \in 1 .. N : w[n] = w[n - 1] \o WholeRecords(dir2[segments[n]])
  BY <1>3 DEF RecordsUpto
<1>6. \A n \in 1 .. N : WholeRecords(dir2[segments[n]]) = WholeRecords(dir[segments[n]])
  OBVIOUS
<1> HIDE DEF N
<1>7. \A n \in 0 .. N : u[n] = w[n]
  <2>1. u[0] = w[0]
    BY <1>4, <1>5
  <2>2. GoOnAlike(N, u, w)
    BY <1>4, <1>5, <1>6 DEF GoOnAlike
  <2> QED
    BY <1>1, <2>1, <2>2, Agreement DEF Alike
<1>8. N \in 0 .. N /\ u \in [0 .. N -> Seq(Record)]
  BY <1>1, <1>4
<1>9. u[N] \in Seq(Record) /\ u[N] = w[N]
  BY <1>7, <1>8
<1> QED
  BY <1>4, <1>5, <1>9

\* A new segment is read behind the others.
LEMMA OneSegmentMore ==
  ASSUME NEW dir, NEW segments \in Seq(Indices), NEW index \in Indices,
         \A k \in 1 .. Len(segments) : WholeRecords(dir[segments[k]]) \in Seq(Record),
         WholeRecords(dir[index]) \in Seq(Record)
  PROVE  RecordsIn(dir, Append(segments, index)) = RecordsIn(dir, segments) \o WholeRecords(dir[index])
<1> DEFINE N == Len(segments)
           more == Append(segments, index)
           last == Len(more)
<1>1. /\ N \in Nat /\ last \in Nat /\ more \in Seq(Indices) /\ last - 1 = N /\ last \in 1 .. last
      /\ N \in 0 .. N /\ more[last] = index
      /\ \A n \in 1 .. N : more[n] = segments[n] /\ n \in 1 .. last
  BY LenProperties, AppendProperties
<1>2. \A k \in 1 .. last : k \in 1 .. N \/ k = last
  BY <1>1
<1> HIDE DEF more
<1>3. PICK u : RecordsUpto(u, dir, segments)
  BY RecordsInSteps
<1>4. PICK w : RecordsUpto(w, dir, more)
  <2>1. \A k \in 1 .. Len(more) : WholeRecords(dir[more[k]]) \in Seq(Record)
    BY <1>1, <1>2
  <2> QED
    BY <1>1, <2>1, RecordsInSteps
<1>5. /\ u[0] = <<>> /\ RecordsIn(dir, segments) = u[N]
      /\ \A n \in 1 .. N : u[n] = u[n - 1] \o WholeRecords(dir[segments[n]])
  BY <1>3 DEF RecordsUpto
<1>6. /\ RecordsIn(dir, more) = w[last] /\ w[0] = <<>>
      /\ \A n \in 1 .. last : w[n] = w[n - 1] \o WholeRecords(dir[more[n]])
  BY <1>4 DEF RecordsUpto
<1> HIDE DEF N, last
<1>7. \A n \in 0 .. N : u[n] = w[n]
  <2>1. u[0] = w[0]
    BY <1>5, <1>6
  <2>2. GoOnAlike(N, u, w)
    BY <1>1, <1>5, <1>6 DEF GoOnAlike
  <2> QED
    BY <1>1, <2>1, <2>2, Agreement DEF Alike
<1>8. u[N] = w[N]
  BY <1>1, <1>7
<1>9. w[last] = w[last - 1] \o WholeRecords(dir[more[last]])
  BY <1>1, <1>6, Zenon
<1> QED
  BY <1>1, <1>5, <1>6, <1>8, <1>9 DEF more

\* Behind the last of several sequences is behind all of them.
LEMMA AppendToLast ==
  ASSUME NEW S, NEW s \in Seq(S), NEW t \in Seq(S), NEW x \in S
  PROVE  s \o Append(t, x) = Append(s \o t, x)
<1>1. Append(t, x) = t \o <<x>> /\ <<x>> \in Seq(S)
  BY AppendIsConcat
<1>2. s \o t \in Seq(S)
  BY ConcatProperties
<1>3. Append(s \o t, x) = (s \o t) \o <<x>>
  BY <1>2, AppendIsConcat
<1> QED
  BY <1>1, <1>3, ConcatAssociative

LEMMA WholeRecordsTyped ==
  ASSUME NEW p \in Seq(Pieces)
  PROVE  WholeRecords(p) \in Seq(Record) /\ SizeOfWhole(p) \in Nat
<1>1. PICK u : WholeUpto(u, p)
  BY WholeRecordsSteps
<1>2. PICK w : SizeUpto(w, p)
  BY SizeOfWholeSteps
<1>3. Len(p) \in 0 .. Len(p)
  BY LenProperties
<1>4. u[Len(p)] \in Seq(Record)
  BY <1>1, <1>3 DEF WholeUpto
<1>5. w[Len(p)] \in Nat
  BY <1>2, <1>3 DEF SizeUpto
<1> QED
  BY <1>1, <1>2, <1>4, <1>5 DEF WholeUpto, SizeUpto

LEMMA NoSegments == \A dir : RecordsIn(dir, <<>>) = <<>>
<1> SUFFICES ASSUME NEW dir PROVE RecordsIn(dir, <<>>) = <<>>
  OBVIOUS
<1>1. <<>> \in Seq(Indices) /\ Len(<<>>) = 0
  BY EmptySeq
<1>2. \A k \in 1 .. Len(<<>>) : WholeRecords(dir[<<>>[k]]) \in Seq(Record)
  BY <1>1
<1>3. PICK u : RecordsUpto(u, dir, <<>>)
  BY <1>1, <1>2, RecordsInSteps
<1>4. u[0] = <<>> /\ RecordsIn(dir, <<>>) = u[0]
  BY <1>1, <1>3 DEF RecordsUpto
<1> QED
  BY <1>4

\* write_all adds the record to the complete ones if and only if it passed all
\* of it on.
LEMMA WroteWhole ==
  ASSUME NEW dir, DOMAIN dir = Indices, NEW file \in Indices, IsFile(dir[file]),
         NEW r \in Record, NEW got \in 0 .. r.size
  PROVE  /\ WholeRecords(dir[file]) \in Seq(Record) /\ SizeOfWhole(dir[file]) \in Nat
         /\ got = r.size =>
              /\ WholeRecords(Wrote(dir, file, r, got)[file]) = Append(WholeRecords(dir[file]), r)
              /\ SizeOfWhole(Wrote(dir, file, r, got)[file]) = SizeOfWhole(dir[file]) + r.size
         /\ got # r.size =>
              /\ WholeRecords(Wrote(dir, file, r, got)[file]) = WholeRecords(dir[file])
              /\ SizeOfWhole(Wrote(dir, file, r, got)[file]) = SizeOfWhole(dir[file])
<1> DEFINE piece == Piece(r, got)
           p == dir[file]
<1>1. r.size \in Nat \ {0} /\ r.size \in Sizes /\ r.id \in 1 .. MaxWrites
  BY FileStorageAssumption DEF Record
<1>2. /\ piece \in Pieces /\ piece.size = r.size
      /\ RecordIn(piece) = r /\ (Whole(piece) <=> got = r.size)
  BY <1>1 DEF Piece, Pieces, Whole, RecordIn, Record
<1>3. p \in Seq(Pieces)
  BY DEF IsFile
<1>4. Wrote(dir, file, r, got)[file] = IF got = 0 THEN p ELSE Append(p, piece)
  BY DEF Wrote
<1> HIDE DEF p, piece
<1>5. /\ WholeRecords(p) \in Seq(Record) /\ SizeOfWhole(p) \in Nat
      /\ WholeRecords(Append(p, piece)) =
           IF Whole(piece) THEN Append(WholeRecords(p), RecordIn(piece)) ELSE WholeRecords(p)
      /\ SizeOfWhole(Append(p, piece)) =
           IF Whole(piece) THEN SizeOfWhole(p) + piece.size ELSE SizeOfWhole(p)
  BY <1>2, <1>3, WholeRecordsAppend, SizeOfWholeAppend
<1>6. CASE got = 0
  <2>1. Wrote(dir, file, r, got)[file] = p /\ got # r.size
    BY <1>1, <1>4, <1>6
  <2> QED
    BY <1>5, <2>1 DEF p
<1>7. CASE got # 0
  <2>1. Wrote(dir, file, r, got)[file] = Append(p, piece)
    BY <1>4, <1>7
  <2> QED
    BY <1>2, <1>5, <2>1 DEF p
<1> QED
  BY <1>6, <1>7

\* The same for a file that was just created.
LEMMA WroteCreated ==
  ASSUME NEW dir, DirOK(dir), NEW index \in Indices, NEW r \in Record, NEW got \in 0 .. r.size
  PROVE  LET file == Wrote(Created(dir, index), index, r, got)[index] IN
         /\ got = r.size => WholeRecords(file) = <<r>> /\ SizeOfWhole(file) = r.size
         /\ got # r.size => WholeRecords(file) = <<>> /\ SizeOfWhole(file) = 0
<1> DEFINE new == Created(dir, index)
<1>1. /\ DOMAIN new = Indices /\ IsFile(new[index]) /\ new[index] = <<>>
  <2>1. DirOK(new) /\ IsFile(new[index])
    BY CreatedFile
  <2>2. new[index] = <<>>
    BY DEF Created, DirOK
  <2> QED
    BY <2>1, <2>2 DEF DirOK
<1>2. WholeRecords(new[index]) = <<>> /\ SizeOfWhole(new[index]) = 0
  BY <1>1, NothingWhole
<1>3. r.size \in Nat
  BY FileStorageAssumption DEF Record
<1>4. Append(<<>>, r) = <<r>>
  OBVIOUS
<1> HIDE DEF new
<1>5. /\ got = r.size =>
           /\ WholeRecords(Wrote(new, index, r, got)[index]) = Append(<<>>, r)
           /\ SizeOfWhole(Wrote(new, index, r, got)[index]) = 0 + r.size
      /\ got # r.size =>
           /\ WholeRecords(Wrote(new, index, r, got)[index]) = <<>>
           /\ SizeOfWhole(Wrote(new, index, r, got)[index]) = 0
  <2>1. /\ got = r.size =>
             /\ WholeRecords(Wrote(new, index, r, got)[index]) = Append(WholeRecords(new[index]), r)
             /\ SizeOfWhole(Wrote(new, index, r, got)[index]) = SizeOfWhole(new[index]) + r.size
        /\ got # r.size =>
             /\ WholeRecords(Wrote(new, index, r, got)[index]) = WholeRecords(new[index])
             /\ SizeOfWhole(Wrote(new, index, r, got)[index]) = SizeOfWhole(new[index])
    BY <1>1, WroteWhole
  <2> QED
    BY <1>2, <2>1
<1> QED
  BY <1>3, <1>4, <1>5 DEF new

-----------------------------------------------------------------------------
\* What a call of write does to the complete records in this run's segments:
\* one more at the end of the last if it is acknowledged, else nothing.
LEMMA OnDiskAfterWrite ==
  ASSUME TypeOK, OpenedInv, OpenIsLast, NEW r \in Record, Write(r)
  PROVE  /\ OnDisk \in Seq(Record)
         /\ \/ acked' = acked /\ OnDisk' = OnDisk
            \/ acked' = Append(acked, r) /\ OnDisk' = Append(OnDisk, r)
<1>0. /\ DirOK(disk) /\ DOMAIN disk = Indices /\ segment_index \in Nat /\ Len(opened) \in Nat
      /\ opened \in Seq(Indices)
      /\ \A n \in 1 .. Len(opened) : opened[n] \in Indices /\ opened[n] \in Nat /\ IsFile(disk[opened[n]])
  BY Types DEF TypeOK, DirOK, OpenedInv
<1>1. \A n \in 1 .. Len(opened) : WholeRecords(disk[opened[n]]) \in Seq(Record)
  <2> SUFFICES ASSUME NEW n \in 1 .. Len(opened) PROVE WholeRecords(disk[opened[n]]) \in Seq(Record)
    OBVIOUS
  <2>1. disk[opened[n]] \in Seq(Pieces)
    BY <1>0 DEF IsFile
  <2> QED
    BY <2>1, WholeRecordsTyped
<1>2. OnDisk \in Seq(Record)
  BY <1>0, <1>1, SameSegments DEF OnDisk
<1>3. ASSUME NEW got, NEW size, Outcome(r, got, size)
      PROVE  acked' = IF got = r.size THEN Append(acked, r) ELSE acked
  BY <1>3 DEF Outcome, Done, Failed
<1>4. CASE UNCHANGED <<disk, opened, acked>>
  BY <1>2, <1>4 DEF OnDisk
<1>5. CASE /\ current_file \in Indices /\ UNCHANGED <<current_file, opened>>
           /\ \E got \in 0 .. r.size : /\ disk' = Wrote(disk, current_file, r, got)
                                       /\ Outcome(r, got, current_size)
  <2> DEFINE last == Len(opened)
  <2>1. PICK got \in 0 .. r.size : /\ disk' = Wrote(disk, current_file, r, got)
                                   /\ Outcome(r, got, current_size)
    BY <1>5
  <2>2. IsFile(disk[current_file]) /\ current_file # NoFile
    BY <1>5, FileStorageAssumption DEF OpenedInv
  <2>3. last # 0 /\ last \in 1 .. last /\ current_file = opened[last]
    BY <1>0, <2>2 DEF OpenIsLast
  <2>4. /\ WholeRecords(disk[current_file]) \in Seq(Record)
        /\ WholeRecords(disk'[current_file]) =
             IF got = r.size THEN Append(WholeRecords(disk[current_file]), r)
             ELSE WholeRecords(disk[current_file])
    BY <1>0, <1>5, <2>1, <2>2, WroteWhole
  <2>5. WholeRecords(disk'[current_file]) \in Seq(Record)
    BY <2>4, AppendProperties
  <2>6. ASSUME NEW k \in 1 .. last - 1
        PROVE  disk'[opened[k]] = disk[opened[k]]
    <3>1. k \in 1 .. last /\ k < last
      BY <1>0, <2>3
    <3>2. opened[k] \in DOMAIN disk /\ opened[k] # current_file
      BY <1>0, <2>3, <3>1 DEF OpenIsLast
    <3> QED
      BY <2>1, <3>2, WroteElsewhere
  <2>7. \A k \in 1 .. last : k \in 1 .. last - 1 \/ k = last
    BY <1>0
  <2>8. \A k \in 1 .. last : /\ WholeRecords(disk[opened[k]]) \in Seq(Record)
                             /\ WholeRecords(disk'[opened[k]]) \in Seq(Record)
    BY <1>1, <2>3, <2>5, <2>6, <2>7
  <2>9. \A k \in 1 .. last - 1 : WholeRecords(disk'[opened[k]]) = WholeRecords(disk[opened[k]])
    BY <2>6
  <2>10. PICK front \in Seq(Record) :
           /\ RecordsIn(disk, opened) = front \o WholeRecords(disk[opened[last]])
           /\ RecordsIn(disk', opened) = front \o WholeRecords(disk'[opened[last]])
    <3> HIDE DEF last
    <3>1. last = Len(opened)
      BY DEF last
    <3>2. opened \in Seq(Indices) /\ last # 0
      BY <1>0, <2>3
    <3>3. Typed(disk, opened) /\ Typed(disk', opened) /\ SameBefore(last, disk, disk', opened)
      BY <2>8, <2>9, <3>1 DEF Typed, SameBefore
    <3>4. \E front \in Seq(Record) :
            Behind(front, last, disk, opened) /\ Behind(front, last, disk', opened)
      BY <3>1, <3>2, <3>3, LastSegment
    <3> QED
      BY <3>4 DEF Behind
  <2> HIDE DEF last
  <2>11. /\ OnDisk = front \o WholeRecords(disk[current_file])
         /\ OnDisk' = front \o WholeRecords(disk'[current_file])
    BY <1>5, <2>3, <2>10 DEF OnDisk
  <2>12. CASE got = r.size
    <3>1. OnDisk' = front \o Append(WholeRecords(disk[current_file]), r)
      BY <2>4, <2>11, <2>12
    <3>2. front \o Append(WholeRecords(disk[current_file]), r)
            = Append(front \o WholeRecords(disk[current_file]), r)
      BY <2>4, AppendToLast
    <3> QED
      BY <1>2, <1>3, <2>1, <2>11, <2>12, <3>1, <3>2
  <2>13. CASE got # r.size
    BY <1>2, <1>3, <2>1, <2>4, <2>11, <2>13
  <2> QED
    BY <2>12, <2>13
<1>6. CASE /\ segment_index' \in Indices /\ segment_index' = segment_index + 1
           /\ opened' = Append(opened, segment_index')
           /\ \E got \in 0 .. r.size :
                /\ disk' = Wrote(Created(disk, segment_index'), segment_index', r, got)
                /\ Outcome(r, got, 0)
  <2> DEFINE index == segment_index + 1
             dir == Created(disk, index)
  <2>1. PICK got \in 0 .. r.size : disk' = Wrote(dir, index, r, got) /\ Outcome(r, got, 0)
    BY <1>6
  <2>2. index \in Indices /\ opened' = Append(opened, index)
    BY <1>6
  <2>3. /\ got = r.size => WholeRecords(disk'[index]) = <<r>>
        /\ got # r.size => WholeRecords(disk'[index]) = <<>>
    <3> HIDE DEF index
    <3> QED
      BY <1>0, <2>1, <2>2, WroteCreated
  <2>4. <<r>> \in Seq(Record) /\ <<>> \in Seq(Record)
    BY EmptySeq
  <2>5. \A n \in 1 .. Len(opened) : opened[n] # index
    BY <1>0 DEF OpenedInv
  <2>6. DirOK(dir) /\ DOMAIN dir = Indices /\ \A i \in Indices : i # index => dir[i] = disk[i]
    BY <1>0, <2>2, CreatedFile DEF DirOK
  <2> HIDE DEF index, dir
  <2>7. \A n \in 1 .. Len(opened) : disk'[opened[n]] = disk[opened[n]]
    <3> SUFFICES ASSUME NEW n \in 1 .. Len(opened) PROVE disk'[opened[n]] = disk[opened[n]]
      OBVIOUS
    <3>1. opened[n] \in DOMAIN dir /\ opened[n] # index /\ dir[opened[n]] = disk[opened[n]]
      BY <1>0, <2>5, <2>6
    <3> QED
      BY <2>1, <3>1, WroteElsewhere
  <2>8. RecordsIn(disk', opened) = OnDisk
    <3>1. \A n \in 1 .. Len(opened) :
            /\ WholeRecords(disk[opened[n]]) \in Seq(Record)
            /\ WholeRecords(disk'[opened[n]]) = WholeRecords(disk[opened[n]])
      BY <1>1, <2>7
    <3> QED
      BY <1>0, <3>1, SameSegments DEF OnDisk
  <2>9. WholeRecords(disk'[index]) \in Seq(Record)
    BY <2>3, <2>4
  <2>10. OnDisk' = OnDisk \o WholeRecords(disk'[index])
    <3>1. \A n \in 1 .. Len(opened) : WholeRecords(disk'[opened[n]]) \in Seq(Record)
      BY <1>1, <2>7
    <3>2. RecordsIn(disk', Append(opened, index))
            = RecordsIn(disk', opened) \o WholeRecords(disk'[index])
      BY <1>0, <2>2, <2>9, <3>1, OneSegmentMore
    <3> QED
      BY <2>2, <2>8, <3>2 DEF OnDisk
  <2>11. CASE got = r.size
    <3>1. OnDisk \o <<r>> = Append(OnDisk, r)
      BY <1>2, AppendIsConcat
    <3> QED
      BY <1>2, <1>3, <2>1, <2>3, <2>10, <2>11, <3>1
  <2>12. CASE got # r.size
    <3>1. OnDisk \o <<>> = OnDisk
      BY <1>2, ConcatEmptySeq
    <3> QED
      BY <1>2, <1>3, <2>1, <2>3, <2>10, <2>12, <3>1
  <2> QED
    BY <2>11, <2>12
<1> QED
  BY <1>4, <1>5, <1>6, WriteShape

\* In any sequence of writes, rotations and failures of write_all, flush and
\* File::create, the complete records in the segments of this run are exactly
\* those whose write returned Ok, in order: no failed write leaves a complete
\* record, none overwrites one, and no rotation goes back to a segment of the
\* same run.
THEOREM ExactlyTheAcknowledged == Spec => []AckedOnDisk
<1>1. Init => OpenIsLast /\ AckedOnDisk
  <2> SUFFICES ASSUME Init PROVE OpenIsLast /\ AckedOnDisk
    OBVIOUS
  <2>1. opened = <<>> /\ acked = <<>> /\ Len(opened) = 0 /\ current_file = NoFile
    BY EmptySeq DEF Init
  <2>2. OnDisk = <<>>
    BY <2>1, NoSegments DEF OnDisk
  <2> QED
    BY <2>1, <2>2 DEF OpenIsLast, AckedOnDisk
<1>2. TypeOK /\ OpenedInv /\ OpenIsLast /\ AckedOnDisk /\ [Next]_vars => OpenIsLast' /\ AckedOnDisk'
  <2> SUFFICES ASSUME TypeOK, OpenedInv, OpenIsLast, AckedOnDisk, [Next]_vars
               PROVE  OpenIsLast' /\ AckedOnDisk'
    OBVIOUS
  <2>1. ASSUME NEW r \in Record, Write(r)
        PROVE  AckedOnDisk'
    BY <2>1, OnDiskAfterWrite DEF AckedOnDisk
  <2>2. ASSUME Restart
        PROVE  AckedOnDisk'
    <3>1. opened' = <<>> /\ acked' = <<>>
      BY <2>2 DEF Restart
    <3>2. OnDisk' = <<>>
      BY <3>1, NoSegments DEF OnDisk
    <3> QED
      BY <3>1, <3>2 DEF AckedOnDisk
  <2>3. ASSUME UNCHANGED vars
        PROVE  AckedOnDisk'
    BY <2>3 DEF vars, AckedOnDisk, OnDisk
  <2> QED
    BY <2>1, <2>2, <2>3, OpenIsLastKept DEF Next
<1> QED
  BY <1>1, <1>2, StorageTypes, PTL DEF Spec

\* The size of the complete records of each segment of this run.
Bounded(p) ==
  SizeOfWhole(p) <= max_segment_bytes \/ Len(WholeRecords(p)) = 1

SegmentsBounded == \A k \in 1 .. Len(opened) : Bounded(disk[opened[k]])

LEMMA SegmentsBoundedKept ==
  ASSUME TypeOK, OpenedInv, SizeTracked, SegmentsBounded, [Next]_vars
  PROVE  SizeTracked' /\ SegmentsBounded'
<1> USE FileStorageAssumption
<1>0. /\ DirOK(disk) /\ DOMAIN disk = Indices /\ segment_index \in Nat /\ Len(opened) \in Nat
      /\ opened \in Seq(Indices)
      /\ \A n \in 1 .. Len(opened) : opened[n] \in Indices /\ opened[n] \in Nat
  BY Types DEF TypeOK, DirOK
<1>1. ASSUME NEW r \in Record, Write(r)
      PROVE  SizeTracked' /\ SegmentsBounded'
  <2>0. r.size \in Nat /\ r.size # 0
    BY DEF Record
  <2>1. CASE WriteInPlace(r)
    <3>1. PICK got \in 0 .. r.size : /\ disk' = Wrote(disk, current_file, r, got)
                                     /\ Outcome(r, got, current_size)
      BY <2>1 DEF WriteInPlace
    <3>2. /\ current_file \in Indices /\ current_file # NoFile /\ IsFile(disk[current_file])
          /\ current_size + r.size <= max_segment_bytes /\ current_size \in Nat
          /\ UNCHANGED <<current_file, opened>>
      BY <2>0, <2>1 DEF WriteInPlace, NeedsRotate, TypeOK, OpenedInv
    <3>3. current_size = SizeOfWhole(disk[current_file])
      BY <3>2 DEF SizeTracked
    <3>4. /\ got = r.size => SizeOfWhole(disk'[current_file]) = current_size + r.size
          /\ got # r.size => /\ SizeOfWhole(disk'[current_file]) = SizeOfWhole(disk[current_file])
                             /\ WholeRecords(disk'[current_file]) = WholeRecords(disk[current_file])
      <4>1. /\ got = r.size =>
                 SizeOfWhole(Wrote(disk, current_file, r, got)[current_file])
                   = SizeOfWhole(disk[current_file]) + r.size
            /\ got # r.size =>
                 /\ SizeOfWhole(Wrote(disk, current_file, r, got)[current_file])
                      = SizeOfWhole(disk[current_file])
                 /\ WholeRecords(Wrote(disk, current_file, r, got)[current_file])
                      = WholeRecords(disk[current_file])
        BY <1>0, <3>2, WroteWhole
      <4> QED
        BY <3>1, <3>3, <4>1
    <3>5. current_size' = SizeOfWhole(disk'[current_file])
      BY <3>1, <3>3, <3>4 DEF Outcome, Done, Failed
    <3>6. ASSUME NEW k \in 1 .. Len(opened)
          PROVE  Bounded(disk'[opened[k]])
      <4>1. CASE opened[k] = current_file /\ got = r.size
        BY <3>2, <3>4, <4>1 DEF Bounded
      <4>2. CASE opened[k] = current_file /\ got # r.size
        BY <3>4, <4>2 DEF Bounded, SegmentsBounded
      <4>3. CASE opened[k] # current_file
        <5>1. disk'[opened[k]] = disk[opened[k]]
          BY <1>0, <3>1, <4>3, WroteElsewhere
        <5> QED
          BY <5>1 DEF SegmentsBounded
      <4> QED
        BY <4>1, <4>2, <4>3
    <3> QED
      BY <3>2, <3>5, <3>6 DEF SizeTracked, SegmentsBounded
  <2>2. CASE WriteRotated(r)
    <3> DEFINE index == segment_index + 1
               dir == Created(disk, index)
    <3>1. PICK got \in 0 .. r.size : disk' = Wrote(dir, index, r, got) /\ Outcome(r, got, 0)
      BY <2>2 DEF WriteRotated, Rotate, NextIndex
    <3>2. /\ index \in Indices /\ current_file' = index /\ opened' = Append(opened, index)
      BY <2>2 DEF WriteRotated, Rotate, NextIndex
    <3>3. /\ got = r.size => WholeRecords(disk'[index]) = <<r>> /\ SizeOfWhole(disk'[index]) = r.size
          /\ got # r.size => WholeRecords(disk'[index]) = <<>> /\ SizeOfWhole(disk'[index]) = 0
      <4> HIDE DEF index
      <4> QED
        BY <1>0, <3>1, <3>2, WroteCreated
    <3>4. current_size' = SizeOfWhole(disk'[index])
      BY <2>0, <3>1, <3>3 DEF Outcome, Done, Failed
    <3>5. \A n \in 1 .. Len(opened) : opened[n] # index
      BY <1>0 DEF OpenedInv
    <3>6. DOMAIN dir = Indices /\ \A i \in Indices : i # index => dir[i] = disk[i]
      BY <1>0, <3>2, CreatedFile DEF DirOK
    <3>7. Bounded(disk'[index])
      <4>1. CASE got = r.size
        <5>1. Len(<<r>>) = 1
          OBVIOUS
        <5> QED
          BY <3>3, <4>1, <5>1 DEF Bounded
      <4>2. CASE got # r.size
        BY <3>3, <4>2 DEF Bounded
      <4> QED
        BY <4>1, <4>2
    <3> HIDE DEF index, dir
    <3>8. /\ Len(opened') = Len(opened) + 1 /\ opened'[Len(opened) + 1] = index
          /\ \A n \in 1 .. Len(opened) : opened'[n] = opened[n]
      BY <3>2, OneMoreSegment
    <3>9. ASSUME NEW k \in 1 .. Len(opened')
          PROVE  Bounded(disk'[opened'[k]])
      <4>1. CASE k \in 1 .. Len(opened)
        <5>1. opened'[k] = opened[k] /\ opened[k] \in DOMAIN dir /\ opened[k] # index
          BY <1>0, <3>5, <3>6, <3>8, <4>1
        <5>2. disk'[opened[k]] = disk[opened[k]]
          <6>1. Wrote(dir, index, r, got)[opened[k]] = dir[opened[k]]
            BY <5>1, WroteElsewhere
          <6> QED
            BY <3>1, <3>6, <5>1, <6>1
        <5> QED
          BY <4>1, <5>1, <5>2 DEF SegmentsBounded
      <4>2. CASE k = Len(opened) + 1
        BY <3>7, <3>8, <4>2
      <4> QED
        BY <1>0, <3>8, <4>1, <4>2
    <3> QED
      BY <3>2, <3>4, <3>9 DEF SizeTracked, SegmentsBounded
  <2>3. CASE CreateFails(r) \/ RotateFlushFails(r)
    BY <2>3 DEF CreateFails, RotateFlushFails, SizeTracked, SegmentsBounded
  <2> QED
    BY <1>1, <2>1, <2>2, <2>3 DEF Write
<1>2. CASE Restart
  <2>1. Len(opened') = 0 /\ current_file' = NoFile
    BY <1>2, EmptySeq DEF Restart
  <2> QED
    BY <2>1 DEF SizeTracked, SegmentsBounded
<1>3. CASE UNCHANGED vars
  BY <1>3 DEF vars, SizeTracked, SegmentsBounded
<1> QED
  BY <1>1, <1>2, <1>3 DEF Next

\* current_size is what the complete records of the open segment take up, also
\* after failed writes and rotations; so no segment holds more than
\* max_segment_bytes of them, but for a single record that is larger.
THEOREM SegmentsStayBounded == Spec => []SegmentBound
<1>1. Init => SizeTracked /\ SegmentsBounded
  BY EmptySeq DEF Init, SizeTracked, SegmentsBounded
<1>2. TypeOK /\ OpenedInv /\ SizeTracked /\ SegmentsBounded /\ [Next]_vars
        => SizeTracked' /\ SegmentsBounded'
  BY SegmentsBoundedKept
<1>3. TypeOK /\ SizeTracked /\ SegmentsBounded => SegmentBound
  <2> SUFFICES ASSUME TypeOK, SizeTracked, SegmentsBounded, NEW i \in ToSet(opened)
               PROVE  Bounded(disk[i])
    BY DEF SegmentBound, Bounded
  <2>1. PICK k \in 1 .. Len(opened) : i = opened[k]
    BY LenProperties DEF ToSet, TypeOK
  <2> QED
    BY <2>1 DEF SegmentsBounded
<1> QED
  BY <1>1, <1>2, <1>3, StorageTypes, PTL DEF Spec
-----------------------------------------------------------------------------
(* How much of a run can be read back, whichever calls failed.             *)

\* The acknowledged records have the numbers of their calls, and each is
\* complete at some place.
AckedThere ==
  /\ \A n \in 1 .. Len(acked) : acked[n].id \in 1 .. writes
  /\ \A m, n \in 1 .. Len(acked) : m < n => acked[m].id < acked[n].id
  /\ \A n \in 1 .. Len(acked) :
       \E k \in 1 .. Len(opened) : \E j \in 1 .. Len(disk[opened[k]]) :
         PieceAt(k, j).id = acked[n].id /\ Whole(PieceAt(k, j))

LEMMA AckedThereKept ==
  ASSUME TypeOK, OpenedInv, OpenIsLast, AckedThere, [Next]_vars
  PROVE  AckedThere'
<1>1. ASSUME NEW r \in Record, Write(r)
      PROVE  AckedThere'
  <2>0. /\ writes \in Nat /\ writes' = writes + 1 /\ r.id = writes + 1
        /\ acked \in Seq(Record) /\ Len(acked) \in Nat
    BY <1>1, WriteNumbers, AppendIsNew DEF TypeOK
  <2>1. ASSUME NEW n \in 1 .. Len(acked)
        PROVE  \E k \in 1 .. Len(opened') : \E j \in 1 .. Len(disk'[opened'[k]]) :
                 PieceAt(k, j)'.id = acked[n].id /\ Whole(PieceAt(k, j)')
    <3>1. PICK k \in 1 .. Len(opened) : \E j \in 1 .. Len(disk[opened[k]]) :
            PieceAt(k, j).id = acked[n].id /\ Whole(PieceAt(k, j))
      BY DEF AckedThere
    <3>2. PICK j \in 1 .. Len(disk[opened[k]]) :
            PieceAt(k, j).id = acked[n].id /\ Whole(PieceAt(k, j))
      BY <3>1
    <3>3. /\ k \in 1 .. Len(opened') /\ j \in 1 .. Len(disk'[opened'[k]])
          /\ PieceAt(k, j)' = PieceAt(k, j)
      BY <1>1, PlacesKept
    <3> QED
      BY <3>2, <3>3
  <2>2. \A n \in 1 .. Len(acked) : acked[n].id \in 1 .. writes'
    BY <2>0 DEF AckedThere
  <2>3. CASE acked' = acked
    BY <2>1, <2>2, <2>3 DEF AckedThere, PieceAt, Whole
  <2>4. CASE acked' = Append(acked, r)
    <3>0. \A m, n \in 1 .. Len(acked) : m < n => acked[m].id < acked[n].id
      BY DEF AckedThere
    <3>1. /\ Len(acked') = Len(acked) + 1 /\ acked'[Len(acked) + 1] = r
          /\ \A n \in 1 .. Len(acked) : acked'[n] = acked[n]
      BY <2>0, <2>4, AppendProperties
    <3>2. \A n \in 1 .. Len(acked') : n \in 1 .. Len(acked) \/ n = Len(acked) + 1
      BY <2>0, <3>1
    <3>3. \A n \in 1 .. Len(acked') : acked'[n].id \in 1 .. writes'
      BY <2>0, <2>2, <3>1, <3>2
    <3>4. ASSUME NEW m \in 1 .. Len(acked'), NEW n \in 1 .. Len(acked'), m < n
          PROVE  acked'[m].id < acked'[n].id
      <4>1. m \in 1 .. Len(acked)
        BY <2>0, <3>1, <3>4
      <4>2. acked'[m] = acked[m] /\ acked[m].id \in 1 .. writes
        BY <3>1, <4>1 DEF AckedThere
      <4>3. CASE n \in 1 .. Len(acked)
        <5>1. acked[m].id < acked[n].id
          BY <3>0, <3>4, <4>1, <4>3
        <5> QED
          BY <3>1, <4>2, <4>3, <5>1
      <4>4. CASE n = Len(acked) + 1
        BY <2>0, <3>1, <4>1, <4>2, <4>4
      <4> QED
        BY <3>2, <4>3, <4>4
    <3>5. \E k \in 1 .. Len(opened') : \E j \in 1 .. Len(disk'[opened'[k]]) :
            PieceAt(k, j)'.id = r.id /\ Whole(PieceAt(k, j)')
      <4>1. \E k \in 1 .. Len(opened') : \E j \in 1 .. Len(disk'[opened'[k]]) :
              PieceAt(k, j)' = Piece(r, r.size)
        <5>1. Append(acked, r) # acked
          BY <2>0, AppendIsNew
        <5> QED
          BY <1>1, <2>4, <5>1, PlacesKept
      <4> QED
        BY <4>1 DEF Piece, Whole
    <3>6. ASSUME NEW n \in 1 .. Len(acked')
          PROVE  \E k \in 1 .. Len(opened') : \E j \in 1 .. Len(disk'[opened'[k]]) :
                   PieceAt(k, j)'.id = acked'[n].id /\ Whole(PieceAt(k, j)')
      BY <2>1, <3>1, <3>2, <3>5
    <3> QED
      BY <3>3, <3>4, <3>6 DEF AckedThere, PieceAt, Whole
  <2> QED
    BY <1>1, <2>3, <2>4, PlacesKept
<1>2. CASE Restart
  <2>1. Len(acked') = 0
    BY <1>2, EmptySeq DEF Restart
  <2> QED
    BY <2>1 DEF AckedThere
<1>3. CASE UNCHANGED vars
  <2>1. UNCHANGED <<disk, opened, writes, acked>> /\ \A k, j : PieceAt(k, j)' = PieceAt(k, j)
    BY <1>3 DEF vars, PieceAt
  <2> QED
    BY <2>1 DEF AckedThere, Whole
<1> QED
  BY <1>1, <1>2, <1>3 DEF Next

\* Nothing acknowledged is ever missing from this run's segments.
THEOREM AcknowledgedIsThere == Spec => []AckedThere
<1>1. Init => OpenIsLast /\ AckedThere
  <2> SUFFICES ASSUME Init PROVE OpenIsLast /\ AckedThere
    OBVIOUS
  <2>1. Len(opened) = 0 /\ Len(acked) = 0 /\ current_file = NoFile
    BY EmptySeq DEF Init
  <2> QED
    BY <2>1 DEF OpenIsLast, AckedThere
<1>2. TypeOK /\ OpenedInv /\ OpenIsLast /\ AckedThere /\ [Next]_vars
        => OpenIsLast' /\ AckedThere'
  BY OpenIsLastKept, AckedThereKept
<1> QED
  BY <1>1, <1>2, StorageTypes, PTL DEF Spec

\* The calls of write whose record the reader finds.
ReadBack ==
  {n \in 1 .. writes : \E k \in 1 .. Len(opened) : \E j \in Read(opened[k]) : PieceAt(k, j).id = n}

\* A call that was not acknowledged hides at most its own record and that of
\* the acknowledged call whose bytes follow its torn remains.
LEMMA ReadBackBounds ==
  ASSUME TypeOK, OpenedInv, CallOrder, AckedThere
  PROVE  /\ writes \in Nat /\ Len(acked) \in Nat
         /\ IsFiniteSet(ReadBack) /\ Cardinality(ReadBack) \in Nat
         /\ Cardinality(ReadBack) <= writes
         /\ Cardinality(ReadBack) >= 2 * Len(acked) - writes
<1> DEFINE num == [n \in 1 .. Len(acked) |-> acked[n].id]
           A == {acked[n].id : n \in 1 .. Len(acked)}
           hidden == A \ ReadBack
           refused == (1 .. writes) \ A
<1>1. writes \in Nat /\ Len(acked) \in Nat
  BY Types, FileStorageAssumption DEF TypeOK
<1>2. IsFiniteSet(1 .. writes) /\ Cardinality(1 .. writes) = writes
  BY <1>1, FS_Interval
<1>3. A \subseteq 1 .. writes
  BY DEF AckedThere
<1>4. IsFiniteSet(A) /\ Cardinality(A) = Len(acked)
  <2>1. \A m, n \in 1 .. Len(acked) : num[m] = num[n] => m = n
    <3> SUFFICES ASSUME NEW m \in 1 .. Len(acked), NEW n \in 1 .. Len(acked), num[m] = num[n]
                 PROVE  m = n
      OBVIOUS
    <3>1. acked[m].id \in 1 .. writes /\ acked[n].id \in 1 .. writes
      BY DEF AckedThere
    <3>2. ~(m < n) /\ ~(n < m)
      BY <1>1, <3>1 DEF AckedThere
    <3> QED
      BY <1>1, <3>2
  <2>2. num \in [1 .. Len(acked) -> A] /\ \A a \in A : \E n \in 1 .. Len(acked) : num[n] = a
    OBVIOUS
  <2> HIDE DEF num, A
  <2>3. num \in Bijection(1 .. Len(acked), A)
    BY <2>1, <2>2 DEF Bijection, Injection, Surjection, IsInjective
  <2>4. ExistsBijection(1 .. Len(acked), A)
    BY <2>3, Zenon DEF ExistsBijection
  <2>5. \A m \in Nat : IsFiniteSet(1 .. m) /\ Cardinality(1 .. m) = m
    BY FS_Interval
  <2> QED
    BY <1>1, <2>4, <2>5, FS_Bijection
<1>5. /\ IsFiniteSet(ReadBack) /\ Cardinality(ReadBack) <= writes
      /\ Cardinality(ReadBack) \in Nat
  <2>1. ReadBack \in SUBSET (1 .. writes)
    BY DEF ReadBack
  <2> QED
    BY <1>2, <2>1, FS_Subset, FS_CardinalityType
<1>6. /\ IsFiniteSet(refused) /\ Cardinality(refused) = writes - Len(acked)
  <2>1. (1 .. writes) \cap A = A
    BY <1>3
  <2> HIDE DEF A
  <2>2. /\ IsFiniteSet((1 .. writes) \ A)
        /\ Cardinality((1 .. writes) \ A)
             = Cardinality(1 .. writes) - Cardinality((1 .. writes) \cap A)
    BY <1>2, FS_Difference, Zenon
  <2> QED
    BY <1>2, <1>4, <2>1, <2>2
\* The piece before that of a hidden acknowledged record is torn.
<1>7. ASSUME NEW n \in hidden
      PROVE  \E k \in 1 .. Len(opened) : \E j \in 1 .. Len(disk[opened[k]]) :
               /\ j - 1 \in 1 .. Len(disk[opened[k]])
               /\ PieceAt(k, j).id = n /\ PieceAt(k, j - 1).id \in refused
  <2>1. PICK k \in 1 .. Len(opened) : \E j \in 1 .. Len(disk[opened[k]]) :
          PieceAt(k, j).id = n /\ Whole(PieceAt(k, j))
    BY DEF AckedThere
  <2>2. PICK j \in 1 .. Len(disk[opened[k]]) : PieceAt(k, j).id = n /\ Whole(PieceAt(k, j))
    BY <2>1
  <2>3. j \notin Read(opened[k])
    BY <1>3, <2>2 DEF ReadBack
  <2>4. j # 1 /\ ~Whole(PieceAt(k, j - 1))
    <3>1. IsFile(disk[opened[k]])
      BY DEF OpenedInv
    <3>2. PieceAt(k, j).size \in Nat
      <4>1. disk[opened[k]][j] \in Pieces
        BY <3>1, ElementOfSeq DEF IsFile
      <4> QED
        BY <4>1, FileStorageAssumption DEF Pieces, PieceAt
    <3>3. EndsChunk(disk[opened[k]], j) /\ Decodes(disk[opened[k]][j])
      BY <2>2, <3>2 DEF EndsChunk, Decodes, Whole, PieceAt
    <3> QED
      BY <2>3, <3>3 DEF Read, Readable, StartsChunk, PieceAt
  <2>5. Len(disk[opened[k]]) \in Nat
    BY LenProperties DEF OpenedInv, IsFile
  <2>6. j - 1 \in 1 .. Len(disk[opened[k]])
    BY <2>4, <2>5
  <2>7. PieceAt(k, j - 1).id \in 1 .. writes
    BY <2>6 DEF CallOrder
  <2>8. ASSUME NEW m \in 1 .. Len(acked)
        PROVE  PieceAt(k, j - 1).id # acked[m].id
    <3>1. PICK l \in 1 .. Len(opened) : \E i \in 1 .. Len(disk[opened[l]]) :
            PieceAt(l, i).id = acked[m].id /\ Whole(PieceAt(l, i))
      BY DEF AckedThere
    <3>2. PICK i \in 1 .. Len(disk[opened[l]]) : PieceAt(l, i).id = acked[m].id /\ Whole(PieceAt(l, i))
      BY <3>1
    <3>3. ~(k = l /\ i = j - 1)
      BY <2>4, <3>2
    <3>4. Len(disk[opened[l]]) \in Nat /\ Len(opened) \in Nat
      BY Types, LenProperties DEF OpenedInv, IsFile
    <3>5. \/ k < l \/ (k = l /\ j - 1 < i) 
          \/ l < k \/ (l = k /\ i < j - 1)
      BY <2>5, <2>6, <3>3, <3>4
    <3>6. PieceAt(k, j - 1).id # PieceAt(l, i).id
      <4>1. PieceAt(l, i).id \in 1 .. writes
        BY DEF CallOrder
      <4>2. PieceAt(k, j - 1).id < PieceAt(l, i).id \/ PieceAt(l, i).id < PieceAt(k, j - 1).id
        BY <2>6, <3>5 DEF CallOrder
      <4> QED
        BY <1>1, <2>7, <4>1, <4>2
    <3> QED
      BY <3>2, <3>6
  <2> QED
    BY <2>2, <2>6, <2>7, <2>8
<1> DEFINE Before(n, m) ==
             \E k \in 1 .. Len(opened) : \E j \in 1 .. Len(disk[opened[k]]) :
               /\ j - 1 \in 1 .. Len(disk[opened[k]])
               /\ PieceAt(k, j).id = n /\ PieceAt(k, j - 1).id = m
           back == [n \in hidden |-> CHOOSE m \in refused : Before(n, m)]
<1>8. ASSUME NEW n \in hidden
      PROVE  back[n] \in refused /\ Before(n, back[n])
  <2>1. \E m \in refused : Before(n, m)
    BY <1>7
  <2> HIDE DEF Before, refused, hidden
  <2> QED
    BY <2>1
\* Two pieces behind the same one are one.
<1>9. ASSUME NEW a \in hidden, NEW b \in hidden, NEW m, Before(a, m), Before(b, m)
      PROVE  a = b
  <2>1. PICK k \in 1 .. Len(opened) : \E j \in 1 .. Len(disk[opened[k]]) :
          /\ j - 1 \in 1 .. Len(disk[opened[k]])
          /\ PieceAt(k, j).id = a /\ PieceAt(k, j - 1).id = m
    BY <1>9
  <2>2. PICK j \in 1 .. Len(disk[opened[k]]) :
          /\ j - 1 \in 1 .. Len(disk[opened[k]])
          /\ PieceAt(k, j).id = a /\ PieceAt(k, j - 1).id = m
    BY <2>1
  <2>3. PICK l \in 1 .. Len(opened) : \E i \in 1 .. Len(disk[opened[l]]) :
          /\ i - 1 \in 1 .. Len(disk[opened[l]])
          /\ PieceAt(l, i).id = b /\ PieceAt(l, i - 1).id = m
    BY <1>9
  <2>4. PICK i \in 1 .. Len(disk[opened[l]]) :
          /\ i - 1 \in 1 .. Len(disk[opened[l]])
          /\ PieceAt(l, i).id = b /\ PieceAt(l, i - 1).id = m
    BY <2>3
  <2>5. /\ Len(disk[opened[l]]) \in Nat /\ Len(disk[opened[k]]) \in Nat /\ Len(opened) \in Nat
    BY Types, LenProperties DEF OpenedInv, IsFile
  <2>6. m \in 1 .. writes
    BY <2>2 DEF CallOrder
  <2>7. ~(k < l \/ (k = l /\ j - 1 < i - 1)) /\ ~(l < k \/ (l = k /\ i - 1 < j - 1))
    <3>1. k < l \/ (k = l /\ j - 1 < i - 1) => m < m
      BY <2>2, <2>4 DEF CallOrder
    <3>2. l < k \/ (l = k /\ i - 1 < j - 1) => m < m
      BY <2>2, <2>4 DEF CallOrder
    <3> QED
      BY <1>1, <2>6, <3>1, <3>2
  <2>8. k = l /\ i = j
    BY <2>5, <2>7
  <2> QED
    BY <2>2, <2>4, <2>8
<1>10. back \in Injection(hidden, refused)
  <2> HIDE DEF hidden, refused, Before
  <2>1. back \in [hidden -> refused]
    BY <1>8
  <2>2. \A a, b \in hidden : back[a] = back[b] => a = b
    BY <1>8, <1>9
  <2> HIDE DEF back
  <2> QED
    BY <2>1, <2>2 DEF Injection, IsInjective
<1> HIDE DEF A, refused, back
<1>11. Cardinality(hidden) <= Cardinality(refused)
  <2> HIDE DEF hidden
  <2> QED
    BY <1>6, <1>10, FS_Injection
<1>12. Cardinality(hidden) = Len(acked) - Cardinality(A \cap ReadBack)
  BY <1>4, FS_Difference
<1>13. /\ Cardinality(A \cap ReadBack) <= Cardinality(ReadBack)
       /\ Cardinality(A \cap ReadBack) \in Nat
  BY <1>5, FS_Intersection, FS_CardinalityType
<1> HIDE DEF hidden
<1> QED
  BY <1>1, <1>5, <1>6, <1>11, <1>12, <1>13
=============================================================================
