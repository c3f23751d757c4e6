---------------------------- MODULE SystemProofs -----------------------------
(***************************************************************************)
(* Proofs about the pipeline, the host process and the whole program, one  *)
(* on top of the other: the first part is about Pipeline alone, the second *)
(* about Host, which extends it, the third about System, which extends     *)
(* Host.                                                                   *)
(***************************************************************************)
EXTENDS System, SequenceTheorems, FiniteSetTheorems, FunctionTheorems, TLAPS

-----------------------------------------------------------------------------
(***************************************************************************)
(* Proofs about ingest and drain, for every queue depth, sequence width,   *)
(* filter policy and number of frames.  The theorems that count need       *)
(* counters that do not wrap within the run (NoWrap); TypeCorrect and the  *)
(* refinement do not.                                                      *)
(***************************************************************************)

\* The counters are wide enough for the run: 2^64 frames do not arrive.
NoWrap == MaxFrames <= CounterMax /\ MaxFailures <= CounterMax

LEMMA IncType ==
  ASSUME NEW x \in Count
  PROVE  Inc(x) \in Count
BY RingBufAssumption DEF Inc, Count

LEMMA RecordType ==
  ASSUME TypeOK, NEW frame \in Frame, frames < MaxFrames, Track(frame)
  PROVE  /\ tracked' \in Seq(SeqNumber)
         /\ Len(tracked') = Len(tracked) + 1
         /\ RecordOf(frame, Len(tracked')) \in Record
<1>1. frame.sequence \in SeqNumber
  BY DEF Frame
<1>2. tracked' \in Seq(SeqNumber) /\ Len(tracked') = Len(tracked) + 1
  BY <1>1, AppendProperties DEF TypeOK, Track
<1>3. Len(tracked') \in 1 .. MaxFrames
  BY <1>2, PipelineAssumption DEF TypeOK
<1> QED
  BY <1>2, <1>3 DEF RecordOf, Record, Frame

\* What a push into a queue with room does, and one into a full queue.
LEMMA PushProperties ==
  ASSUME TypeOK, NEW record \in Record
  PROVE  /\ ~IsFull(ringbuf) =>
              /\ Push(ringbuf, record).queue = Append(ringbuf.queue, record)
              /\ Push(ringbuf, record).overflow_count = ringbuf.overflow_count
              /\ Push(ringbuf, record).high_water =
                   HighWater(ringbuf, Append(ringbuf.queue, record))
              /\ Len(Append(ringbuf.queue, record)) = Len(ringbuf.queue) + 1
         /\ IsFull(ringbuf) =>
              /\ Push(ringbuf, record).queue = ringbuf.queue
              /\ Push(ringbuf, record).overflow_count = Inc(ringbuf.overflow_count)
              /\ Push(ringbuf, record).high_water = ringbuf.high_water
         /\ Push(ringbuf, record) \in RingType
<1>1. Append(ringbuf.queue, record) \in Seq(Record)
      /\ Len(Append(ringbuf.queue, record)) = Len(ringbuf.queue) + 1
  BY AppendProperties DEF TypeOK, RingType
<1>2. HighWater(ringbuf, Append(ringbuf.queue, record)) \in Nat
  BY <1>1 DEF HighWater, TypeOK, RingType
<1>3. Inc(ringbuf.overflow_count) \in Count
  BY IncType DEF TypeOK, RingType
<1> QED
  BY <1>1, <1>2, <1>3 DEF Push, Refuse, TypeOK, RingType

\* What a pop of a queue that is not empty does.
LEMMA PopProperties ==
  ASSUME TypeOK, ringbuf.queue # <<>>
  PROVE  /\ Pop(ringbuf).queue = Tail(ringbuf.queue)
         /\ Pop(ringbuf).overflow_count = ringbuf.overflow_count
         /\ Pop(ringbuf).high_water = ringbuf.high_water
         /\ Len(Tail(ringbuf.queue)) = Len(ringbuf.queue) - 1
         /\ Oldest(ringbuf) \in Record
         /\ Pop(ringbuf) \in RingType
<1>1. /\ Head(ringbuf.queue) \in Record
      /\ Tail(ringbuf.queue) \in Seq(Record)
      /\ Len(Tail(ringbuf.queue)) = Len(ringbuf.queue) - 1
  BY HeadTailProperties DEF TypeOK, RingType
<1> QED
  BY <1>1 DEF Pop, Oldest, TypeOK, RingType

\* One counter bumped leaves the statistics well-typed.
LEMMA StatsTypes ==
  ASSUME stats \in StatsType
  PROVE  /\ [stats EXCEPT !.crc_fail = Inc(@)] \in StatsType
         /\ [stats EXCEPT !.seq_gap = Inc(@)] \in StatsType
         /\ [stats EXCEPT !.filtered = Inc(@)] \in StatsType
         /\ [stats EXCEPT !.dropped = Inc(@)] \in StatsType
         /\ [stats EXCEPT !.write_fail = Inc(@)] \in StatsType
         /\ \A rb \in RingType : CountPush(rb) \in StatsType
<1>1. \A x \in Count : Inc(x) \in Count
  BY IncType
<1>2. \A rb \in RingType : CountPush(rb) \in StatsType
  BY <1>1 DEF StatsType, CountPush, RingType
<1> QED
  BY <1>1, <1>2 DEF StatsType

-----------------------------------------------------------------------------
\* Every field of the pipeline stays within its type, for any sequence of
\* ingest and drain (Pipeline::ingest, Pipeline::drain).
THEOREM TypeCorrect == Spec => []TypeOK
<1> USE RingBufAssumption, PipelineAssumption, ValidatorAssumption
<1>1. Init => TypeOK
  <2>1. EmptyRing \in RingType
    BY DEF EmptyRing, RingType, Count
  <2>2. ZeroStats \in StatsType
    BY DEF ZeroStats, StatsType, Count
  <2> SUFFICES ASSUME Init PROVE TypeOK
    OBVIOUS
  <2>3. last_seq \in SeqNumber \cup {None} /\ draining \in BOOLEAN
    BY DEF Init
  <2>4. frames \in 0 .. MaxFrames /\ Len(tracked) <= frames /\ lost \in Nat /\ flushed \in Nat
    BY DEF Init
  <2>5. tracked \in Seq(SeqNumber) /\ stored \in Seq(Record)
    BY DEF Init
  <2> QED
    BY <2>1, <2>2, <2>3, <2>4, <2>5 DEF Init, TypeOK
<1>2. TypeOK /\ [Next]_vars => TypeOK'
  <2> SUFFICES ASSUME TypeOK, [Next]_vars
               PROVE  TypeOK'
    OBVIOUS
  <2>0. ASSUME NEW frame \in Frame, NEW o, Checked(frame, o)
        PROVE  last_seq' \in SeqNumber \cup {None} /\ frames' \in 0 .. MaxFrames
    BY <2>0 DEF Checked, Arrival, LastSeqAfter, TypeOK, Frame
  <2>1. CASE FramerError
    BY <2>1, StatsTypes DEF FramerError, Arrival, TypeOK
  <2>2. ASSUME NEW frame \in Frame, RejectCrc(frame)
        PROVE  TypeOK'
    BY <2>2, <2>0, StatsTypes DEF RejectCrc, Checked, Arrival, TypeOK
  <2>3. ASSUME NEW frame \in Frame, RejectUnknown(frame)
        PROVE  TypeOK'
    BY <2>3, <2>0, StatsTypes DEF RejectUnknown, Checked, Arrival, TypeOK
  <2>4. ASSUME NEW frame \in Frame, RejectGap(frame)
        PROVE  TypeOK'
    <3>1. tracked' \in Seq(SeqNumber) /\ Len(tracked') = Len(tracked) + 1
      BY <2>4, RecordType DEF RejectGap, Checked, Arrival
    <3> QED
      BY <2>4, <2>0, <3>1, StatsTypes DEF RejectGap, Checked, Arrival, TypeOK
  <2>5. ASSUME NEW frame \in Frame, FilterOut(frame)
        PROVE  TypeOK'
    <3>1. tracked' \in Seq(SeqNumber) /\ Len(tracked') = Len(tracked) + 1
      BY <2>5, RecordType DEF FilterOut, Checked, Arrival
    <3> QED
      BY <2>5, <2>0, <3>1, StatsTypes DEF FilterOut, Checked, Arrival, TypeOK
  <2>6. ASSUME NEW frame \in Frame, Enqueue(frame)
        PROVE  TypeOK'
    <3>1. /\ tracked' \in Seq(SeqNumber) /\ Len(tracked') = Len(tracked) + 1
          /\ RecordOf(frame, Len(tracked')) \in Record
      BY <2>6, RecordType DEF Enqueue, Checked, Arrival
    <3>2. ringbuf' \in RingType
      BY <2>6, <3>1, PushProperties DEF Enqueue
    <3>3. stats' \in StatsType
      BY <2>6, <3>2, StatsTypes DEF Enqueue, TypeOK
    <3> QED
      BY <2>6, <2>0, <3>1, <3>2, <3>3 DEF Enqueue, Checked, Arrival, TypeOK
  <2>7. ASSUME NEW frame \in Frame, QueueFull(frame)
        PROVE  TypeOK'
    <3>1. /\ tracked' \in Seq(SeqNumber) /\ Len(tracked') = Len(tracked) + 1
          /\ RecordOf(frame, Len(tracked')) \in Record
      BY <2>7, RecordType DEF QueueFull, Checked, Arrival
    <3>2. ringbuf' \in RingType
      BY <2>7, <3>1, PushProperties DEF QueueFull
    <3> QED
      BY <2>7, <2>0, <3>1, <3>2, StatsTypes DEF QueueFull, CountDrop, Checked, Arrival, TypeOK
  <2>8. CASE DrainBegin
    BY <2>8 DEF DrainBegin, TypeOK
  <2>9. CASE WriteOk
    <3>1. stored' \in Seq(Record)
      BY <2>9, PopProperties, AppendProperties DEF WriteOk, TypeOK
    <3> QED
      BY <2>9, <3>1, PopProperties DEF WriteOk, TypeOK
  <2>10. CASE WriteFails
    <3>1. ringbuf' \in RingType /\ stats' \in StatsType
      BY <2>10, PopProperties, StatsTypes DEF WriteFails, CountFailure, TypeOK
    <3>2. lost' \in Nat
      BY <2>10 DEF WriteFails, TypeOK
    <3> QED
      BY <2>10, <3>1, <3>2 DEF WriteFails, CountFailure, TypeOK
  <2>11. CASE FlushOk
    <3>1. Len(stored) \in Nat
      BY LenProperties DEF TypeOK
    <3> QED
      BY <2>11, <3>1 DEF FlushOk, TypeOK
  <2>12. CASE FlushFails
    BY <2>12, StatsTypes DEF FlushFails, CountFailure, TypeOK
  <2>13. CASE UNCHANGED vars
    BY <2>13 DEF vars, TypeOK
  <2> QED
    BY <2>1, <2>2, <2>3, <2>4, <2>5, <2>6, <2>7, <2>8, <2>9, <2>10, <2>11,
       <2>12, <2>13 DEF Next, Ingest, Drain
<1> QED
  BY <1>1, <1>2, PTL DEF Spec

-----------------------------------------------------------------------------
(* What bumping one counter does to each of the fields.                    *)

\* `crc_fail += 1` changes that field only.
LEMMA CrcCounted ==
  ASSUME stats \in StatsType, stats' = [stats EXCEPT !.crc_fail = Inc(@)]
  PROVE  /\ stats'.ok = stats.ok
         /\ stats'.dropped = stats.dropped
         /\ stats'.crc_fail = Inc(stats.crc_fail)
         /\ stats'.seq_gap = stats.seq_gap
         /\ stats'.filtered = stats.filtered
         /\ stats'.write_fail = stats.write_fail
         /\ stats'.queue_high_water = stats.queue_high_water
BY DEF StatsType

\* `seq_gap += 1` changes that field only.
LEMMA GapCounted ==
  ASSUME stats \in StatsType, stats' = [stats EXCEPT !.seq_gap = Inc(@)]
  PROVE  /\ stats'.ok = stats.ok
         /\ stats'.dropped = stats.dropped
         /\ stats'.crc_fail = stats.crc_fail
         /\ stats'.seq_gap = Inc(stats.seq_gap)
         /\ stats'.filtered = stats.filtered
         /\ stats'.write_fail = stats.write_fail
         /\ stats'.queue_high_water = stats.queue_high_water
BY DEF StatsType

\* `filtered += 1` changes that field only.
LEMMA FilterCounted ==
  ASSUME stats \in StatsType, stats' = [stats EXCEPT !.filtered = Inc(@)]
  PROVE  /\ stats'.ok = stats.ok
         /\ stats'.dropped = stats.dropped
         /\ stats'.crc_fail = stats.crc_fail
         /\ stats'.seq_gap = stats.seq_gap
         /\ stats'.filtered = Inc(stats.filtered)
         /\ stats'.write_fail = stats.write_fail
         /\ stats'.queue_high_water = stats.queue_high_water
BY DEF StatsType

\* `dropped += 1` changes that field only.
LEMMA DropCounted ==
  ASSUME stats \in StatsType, stats' = [stats EXCEPT !.dropped = Inc(@)]
  PROVE  /\ stats'.ok = stats.ok
         /\ stats'.dropped = Inc(stats.dropped)
         /\ stats'.crc_fail = stats.crc_fail
         /\ stats'.seq_gap = stats.seq_gap
         /\ stats'.filtered = stats.filtered
         /\ stats'.write_fail = stats.write_fail
         /\ stats'.queue_high_water = stats.queue_high_water
BY DEF StatsType

\* `write_fail += 1` changes that field only.
LEMMA WriteCounted ==
  ASSUME stats \in StatsType, stats' = [stats EXCEPT !.write_fail = Inc(@)]
  PROVE  /\ stats'.ok = stats.ok
         /\ stats'.dropped = stats.dropped
         /\ stats'.crc_fail = stats.crc_fail
         /\ stats'.seq_gap = stats.seq_gap
         /\ stats'.filtered = stats.filtered
         /\ stats'.write_fail = Inc(stats.write_fail)
         /\ stats'.queue_high_water = stats.queue_high_water
BY DEF StatsType

\* Moving one unit from one part of a sum to another keeps the sum.
LEMMA MoveOne ==
  ASSUME NEW b \in Nat, NEW c \in Nat, NEW d \in Nat
  PROVE  /\ b + c + d = (b - 1) + (c + 1) + d
         /\ b + c + d = (b - 1) + c + (d + 1)
OBVIOUS

\* A successful push moves `ok` and, if the peak went up, the high-water mark.
LEMMA PushCounted ==
  ASSUME stats \in StatsType, NEW rb, stats' = CountPush(rb)
  PROVE  /\ stats'.ok = Inc(stats.ok)
         /\ stats'.dropped = stats.dropped
         /\ stats'.crc_fail = stats.crc_fail
         /\ stats'.seq_gap = stats.seq_gap
         /\ stats'.filtered = stats.filtered
         /\ stats'.write_fail = stats.write_fail
         /\ stats'.queue_high_water =
              IF rb.high_water > stats.queue_high_water
              THEN rb.high_water ELSE stats.queue_high_water
BY DEF StatsType, CountPush

-----------------------------------------------------------------------------
\* While counters do not wrap, every answer of the framer is in exactly one
\* of the five counters, and `ok` is what is waiting, written or lost: the
\* statistics can be audited against the log (Pipeline::ingest and drain).
\* The two invariants are proved together, because `ok` and `dropped` only
\* stay below CounterMax for being parts of the total.
THEOREM Accounting ==
  ASSUME NoWrap
  PROVE  Spec => [](Conservation /\ QueueAccounting)
<1> DEFINE Accounts == Conservation /\ QueueAccounting
<1> USE RingBufAssumption, PipelineAssumption DEF NoWrap
<1>1. Init => Accounts
  BY DEF Init, Conservation, QueueAccounting, total_frames_seen, EmptyRing, ZeroStats
<1>2. TypeOK /\ Accounts /\ [Next]_vars => Accounts'
  <2> SUFFICES ASSUME TypeOK, Accounts, [Next]_vars
               PROVE  Accounts'
    OBVIOUS
  <2>0. /\ stats \in StatsType
        /\ stats.ok \in Nat /\ stats.dropped \in Nat /\ stats.crc_fail \in Nat
        /\ stats.seq_gap \in Nat /\ stats.filtered \in Nat /\ stats.write_fail \in Nat
        /\ frames \in 0 .. MaxFrames /\ lost \in Nat
        /\ Len(ringbuf.queue) \in Nat /\ Len(stored) \in Nat
    BY LenProperties DEF TypeOK, StatsType, RingType, Count
  \* The total, and what one more in any of its parts makes of it.
  <2>total. /\ stats.ok <= frames /\ stats.dropped <= frames /\ stats.crc_fail <= frames
        /\ stats.seq_gap <= frames /\ stats.filtered <= frames
        /\ (stats.ok + 1) + stats.dropped + stats.crc_fail + stats.seq_gap + stats.filtered = frames + 1
        /\ stats.ok + (stats.dropped + 1) + stats.crc_fail + stats.seq_gap + stats.filtered = frames + 1
        /\ stats.ok + stats.dropped + (stats.crc_fail + 1) + stats.seq_gap + stats.filtered = frames + 1
        /\ stats.ok + stats.dropped + stats.crc_fail + (stats.seq_gap + 1) + stats.filtered = frames + 1
        /\ stats.ok + stats.dropped + stats.crc_fail + stats.seq_gap + (stats.filtered + 1) = frames + 1
    <3>1. stats.ok + stats.dropped + stats.crc_fail + stats.seq_gap + stats.filtered = frames
      BY DEF Conservation, total_frames_seen
    <3>2. frames \in Nat
      BY <2>0
    <3>3. /\ stats.ok \in Nat /\ stats.dropped \in Nat /\ stats.crc_fail \in Nat
          /\ stats.seq_gap \in Nat /\ stats.filtered \in Nat
      BY <2>0
    <3> QED
      BY ONLY <3>3, <3>2, <3>1
  \* A record that leaves the queue is written or lost.
  <2>audit. /\ stats.ok = (Len(ringbuf.queue) - 1) + (Len(stored) + 1) + lost
            /\ stats.ok = (Len(ringbuf.queue) - 1) + Len(stored) + (lost + 1)
    <3>1. stats.ok = Len(ringbuf.queue) + Len(stored) + lost
      BY DEF QueueAccounting
    <3>2. /\ stats.ok \in Nat /\ Len(ringbuf.queue) \in Nat
          /\ Len(stored) \in Nat /\ lost \in Nat
      BY <2>0
    <3> QED
      BY ONLY <3>1, <3>2, MoveOne, Zenon
  \* An arrival leaves every one of the five counters below its maximum.
  <2>arrival. ASSUME Arrival
         PROVE  /\ Inc(stats.ok) = stats.ok + 1
                /\ Inc(stats.dropped) = stats.dropped + 1
                /\ Inc(stats.crc_fail) = stats.crc_fail + 1
                /\ Inc(stats.seq_gap) = stats.seq_gap + 1
                /\ Inc(stats.filtered) = stats.filtered + 1
                /\ frames' = frames + 1 /\ stored' = stored /\ lost' = lost
    <3>1. frames < CounterMax
      BY <2>0, <2>arrival DEF Arrival
    <3>2. /\ stats.ok <= frames /\ stats.dropped <= frames /\ stats.crc_fail <= frames
          /\ stats.seq_gap <= frames /\ stats.filtered <= frames
      BY <2>0, <2>total
    <3>3. \A x \in Nat : x <= frames => Inc(x) = x + 1
      BY <3>1, <2>0 DEF Inc
    <3> QED
      BY <2>0, <2>arrival, <3>2, <3>3 DEF Arrival
  <2> USE DEF Conservation, QueueAccounting, total_frames_seen
  <2>1. CASE FramerError
    <3>1. Arrival /\ stats' = [stats EXCEPT !.crc_fail = Inc(@)] /\ ringbuf' = ringbuf
      BY <2>1 DEF FramerError
    <3> QED
      BY <2>0, <2>total, <2>arrival, <3>1, CrcCounted
  <2>2. ASSUME NEW frame \in Frame, RejectCrc(frame)
        PROVE  Accounts'
    <3>1. Arrival /\ stats' = [stats EXCEPT !.crc_fail = Inc(@)] /\ ringbuf' = ringbuf
      BY <2>2 DEF RejectCrc, Checked
    <3> QED
      BY <2>0, <2>total, <2>arrival, <3>1, CrcCounted
  <2>3. ASSUME NEW frame \in Frame, RejectUnknown(frame) \/ FilterOut(frame)
        PROVE  Accounts'
    <3>1. Arrival /\ stats' = [stats EXCEPT !.filtered = Inc(@)] /\ ringbuf' = ringbuf
      BY <2>3 DEF RejectUnknown, FilterOut, Checked
    <3> QED
      BY <2>0, <2>total, <2>arrival, <3>1, FilterCounted
  <2>4. ASSUME NEW frame \in Frame, RejectGap(frame)
        PROVE  Accounts'
    <3>1. Arrival /\ stats' = [stats EXCEPT !.seq_gap = Inc(@)] /\ ringbuf' = ringbuf
      BY <2>4 DEF RejectGap, Checked
    <3> QED
      BY <2>0, <2>total, <2>arrival, <3>1, GapCounted
  <2>6. ASSUME NEW frame \in Frame, Enqueue(frame)
        PROVE  Accounts'
    <3>1. RecordOf(frame, Len(tracked')) \in Record
      BY <2>6, RecordType DEF Enqueue, Checked, Arrival
    <3>2. /\ Len(ringbuf'.queue) = Len(ringbuf.queue) + 1
          /\ ringbuf'.overflow_count = ringbuf.overflow_count
      BY <2>6, <3>1, PushProperties DEF Enqueue
    <3>3. Arrival /\ stats' = CountPush(ringbuf')
      BY <2>6 DEF Enqueue, Checked
    <3>4. Conservation'
      BY <2>0, <2>total, <2>arrival, <3>3, PushCounted
    <3>5. stats.ok + 1 = (Len(ringbuf.queue) + 1) + Len(stored) + lost
      BY <2>0
    <3>6. QueueAccounting'
      BY <2>0, <2>arrival, <3>2, <3>3, <3>5, PushCounted
    <3> QED
      BY <3>4, <3>6
  <2>7. ASSUME NEW frame \in Frame, QueueFull(frame)
        PROVE  Accounts'
    <3>1. RecordOf(frame, Len(tracked')) \in Record
      BY <2>7, RecordType DEF QueueFull, Checked, Arrival
    <3>2. /\ ringbuf'.queue = ringbuf.queue
          /\ ringbuf'.overflow_count = Inc(ringbuf.overflow_count)
      BY <2>7, <3>1, PushProperties DEF QueueFull
    <3>3. Arrival /\ stats' = [stats EXCEPT !.dropped = Inc(@)]
      BY <2>7 DEF QueueFull, CountDrop, Checked
    <3> QED
      BY <2>0, <2>total, <2>arrival, <3>2, <3>3, DropCounted
  <2>8. CASE DrainBegin
    BY <2>8 DEF DrainBegin
  <2>9. CASE WriteOk
    <3>1. Len(stored') = Len(stored) + 1
      BY <2>9, PopProperties, AppendProperties DEF WriteOk, TypeOK
    <3>2. stats' = stats /\ lost' = lost /\ frames' = frames /\ ringbuf' = Pop(ringbuf)
      BY <2>9 DEF WriteOk
    <3>3. /\ Len(ringbuf'.queue) = Len(ringbuf.queue) - 1
          /\ ringbuf'.overflow_count = ringbuf.overflow_count
      BY <2>9, <3>2, PopProperties DEF WriteOk
    <3> QED
      BY <2>0, <2>audit, <3>1, <3>2, <3>3
  <2>10. ASSUME stats.write_fail < MaxFailures
         PROVE  Inc(stats.write_fail) = stats.write_fail + 1
    BY <2>0, <2>10 DEF Inc
  <2>11. CASE WriteFails
    <3>1. /\ stats' = [stats EXCEPT !.write_fail = Inc(@)] /\ stats.write_fail < MaxFailures
          /\ lost' = lost + 1 /\ frames' = frames /\ stored' = stored
      BY <2>11 DEF WriteFails, CountFailure
    <3>2. /\ Len(ringbuf'.queue) = Len(ringbuf.queue) - 1
          /\ ringbuf'.overflow_count = ringbuf.overflow_count
      BY <2>11, PopProperties DEF WriteFails
    <3>3. Conservation'
      BY <2>0, <3>1, WriteCounted
    <3>5. lost + 1 <= stats'.write_fail
      BY <2>0, <2>10, <3>1, WriteCounted
    <3>6. stats'.ok = stats.ok /\ stats'.dropped = stats.dropped
      BY <2>0, <3>1, WriteCounted
    <3>7. QueueAccounting'
      BY <2>audit, <3>1, <3>2, <3>5, <3>6
    <3> QED
      BY <3>3, <3>7
  <2>12. CASE FlushFails
    <3>1. /\ stats' = [stats EXCEPT !.write_fail = Inc(@)] /\ stats.write_fail < MaxFailures
          /\ UNCHANGED <<ringbuf, lost, frames, stored>>
      BY <2>12 DEF FlushFails, CountFailure
    <3>2. Conservation'
      BY <2>0, <3>1, WriteCounted
    <3>3. lost' <= stats'.write_fail
      BY <2>0, <2>10, <3>1, WriteCounted
    <3>4. stats'.ok = stats.ok /\ stats'.dropped = stats.dropped
      BY <2>0, <3>1, WriteCounted
    <3>5. QueueAccounting'
      BY <3>1, <3>3, <3>4
    <3> QED
      BY <3>2, <3>5
  <2>13. CASE FlushOk \/ UNCHANGED vars
    BY <2>13 DEF FlushOk, vars
  <2> QED
    BY <2>1, <2>2, <2>3, <2>4, <2>6, <2>7, <2>8, <2>9, <2>11, <2>12, <2>13
       DEF Next, Ingest, Drain
<1> QED
  BY <1>1, <1>2, TypeCorrect, PTL DEF Spec

\* The same under the one name the runs check it by.
THEOREM StatisticsAudit ==
  ASSUME NoWrap
  PROVE  Spec => []Accounted
<1>1. Conservation /\ QueueAccounting => Accounted
  BY DEF Accounted
<1> QED
  BY <1>1, Accounting, PTL

\* The high-water mark in the statistics is the ring buffer's own, and
\* bounds the occupancy (RingBuf::push and the copy made by ingest).
THEOREM HighWaterMark == Spec => []HighWaterAgrees
<1> USE RingBufAssumption
<1>1. Init => HighWaterAgrees
  BY DEF Init, HighWaterAgrees, EmptyRing, ZeroStats
<1>2. TypeOK /\ HighWaterAgrees /\ [Next]_vars => HighWaterAgrees'
  <2> SUFFICES ASSUME TypeOK, HighWaterAgrees, [Next]_vars
               PROVE  HighWaterAgrees'
    OBVIOUS
  <2>0. /\ stats \in StatsType /\ ringbuf.high_water \in Nat
        /\ Len(ringbuf.queue) \in Nat
    BY LenProperties DEF TypeOK, RingType
  <2>1. ASSUME stats'.queue_high_water = stats.queue_high_water, ringbuf' = ringbuf
        PROVE  HighWaterAgrees'
    BY <2>1 DEF HighWaterAgrees
  <2>2. CASE FramerError
    BY <2>2, <2>0, <2>1 DEF FramerError, StatsType
  <2>3. ASSUME NEW frame \in Frame,
               RejectCrc(frame) \/ RejectUnknown(frame) \/ RejectGap(frame) \/ FilterOut(frame)
        PROVE  HighWaterAgrees'
    BY <2>3, <2>0, <2>1 DEF RejectCrc, RejectUnknown, RejectGap, FilterOut, StatsType
  <2>4. ASSUME NEW frame \in Frame, Enqueue(frame)
        PROVE  HighWaterAgrees'
    <3>1. RecordOf(frame, Len(tracked')) \in Record
      BY <2>4, RecordType DEF Enqueue, Checked, Arrival
    <3>2. /\ Len(ringbuf'.queue) = Len(ringbuf.queue) + 1
          /\ ringbuf'.high_water = IF Len(ringbuf'.queue) > ringbuf.high_water
                                   THEN Len(ringbuf'.queue) ELSE ringbuf.high_water
      BY <2>4, <3>1, PushProperties DEF Enqueue, HighWater
    <3>3. Len(ringbuf.queue) < QUEUE_DEPTH
      BY <2>4, <2>0 DEF Enqueue, IsFull
    <3>4. stats'.queue_high_water =
            IF ringbuf'.high_water > stats.queue_high_water
            THEN ringbuf'.high_water ELSE stats.queue_high_water
      BY <2>4, <2>0 DEF Enqueue, CountPush, StatsType
    <3> QED
      BY <2>0, <3>2, <3>3, <3>4 DEF HighWaterAgrees
  <2>5. ASSUME NEW frame \in Frame, QueueFull(frame)
        PROVE  HighWaterAgrees'
    <3>1. RecordOf(frame, Len(tracked')) \in Record
      BY <2>5, RecordType DEF QueueFull, Checked, Arrival
    <3> QED
      BY <2>5, <2>0, <3>1, PushProperties DEF QueueFull, CountDrop, StatsType, HighWaterAgrees
  <2>6. CASE DrainBegin \/ FlushOk \/ UNCHANGED vars
    BY <2>6, <2>1 DEF DrainBegin, FlushOk, vars
  <2>7. CASE WriteOk \/ WriteFails
    <3>1. /\ ringbuf'.high_water = ringbuf.high_water
          /\ Len(ringbuf'.queue) = Len(ringbuf.queue) - 1
      BY <2>7, PopProperties DEF WriteOk, WriteFails
    <3>2. stats'.queue_high_water = stats.queue_high_water
      BY <2>7, <2>0, WriteCounted DEF WriteOk, WriteFails, CountFailure
    <3> QED
      BY <2>0, <3>1, <3>2 DEF HighWaterAgrees
  <2>9. CASE FlushFails
    BY <2>9, <2>0, <2>1, WriteCounted DEF FlushFails, CountFailure
  <2> QED
    BY <2>2, <2>3, <2>4, <2>5, <2>6, <2>7, <2>9 DEF Next, Ingest, Drain
<1> QED
  BY <1>1, <1>2, TypeCorrect, PTL DEF Spec

\* A drain that counted no failure left the queue empty and everything that
\* was ever written flushed (Pipeline::drain).
THEOREM DrainDurable == Spec => DrainMeansDurable
<1>1. TypeOK /\ [Next]_vars =>
        [draining /\ ~draining' /\ stats'.write_fail = stats.write_fail =>
           ringbuf'.queue = <<>> /\ flushed' = Len(stored')]_vars
  <2> SUFFICES ASSUME TypeOK, Next, draining, ~draining',
                      stats'.write_fail = stats.write_fail
               PROVE  ringbuf'.queue = <<>> /\ flushed' = Len(stored')
    OBVIOUS
  <2>1. /\ stats.write_fail \in Count /\ stats \in StatsType
        /\ Inc(stats.write_fail) # stats.write_fail
    BY RingBufAssumption DEF TypeOK, StatsType, Inc, Count
  <2>2. ~FramerError /\ ~DrainBegin /\ ~WriteOk /\ \A frame \in Frame : ~Ingest(frame)
    BY DEF FramerError, DrainBegin, WriteOk, Ingest, RejectCrc, RejectUnknown, RejectGap,
           FilterOut, Enqueue, QueueFull, Checked, Arrival
  <2>3. ~WriteFails /\ ~FlushFails
    BY <2>1 DEF WriteFails, CountFailure, FlushFails, StatsType
  <2>4. FlushOk
    BY <2>2, <2>3 DEF Next, Drain
  <2> QED
    BY <2>4 DEF FlushOk
<1> QED
  BY <1>1, TypeCorrect, PTL DEF Spec, DrainMeansDurable

\* ingest and drain implement the bounded first-in first-out line: records
\* leave only from the front, and a full queue refuses the newcomer.
THEOREM Refinement == Spec => ImplementsLossyFifo
<1>1. Init => Fifo!Init
  BY DEF Init, Fifo!Init, EmptyRing
<1>2. TypeOK /\ [Next]_vars => [Fifo!Next]_Fifo!vars
  <2> SUFFICES ASSUME TypeOK, [Next]_vars
               PROVE  [Fifo!Next]_Fifo!vars
    OBVIOUS
  <2> USE DEF Fifo!vars
  <2>1. CASE FramerError
    BY <2>1 DEF FramerError, Arrival
  <2>2. ASSUME NEW frame \in Frame,
               RejectCrc(frame) \/ RejectUnknown(frame) \/ RejectGap(frame) \/ FilterOut(frame)
        PROVE  UNCHANGED Fifo!vars
    BY <2>2 DEF RejectCrc, RejectUnknown, RejectGap, FilterOut, Checked, Arrival
  <2>3. ASSUME NEW frame \in Frame, Enqueue(frame)
        PROVE  Fifo!Join
    <3>1. RecordOf(frame, Len(tracked')) \in Record
      BY <2>3, RecordType DEF Enqueue, Checked, Arrival
    <3>2. ringbuf'.queue = Append(ringbuf.queue, RecordOf(frame, Len(tracked')))
      BY <2>3, <3>1, PushProperties DEF Enqueue
    <3>3. Len(ringbuf.queue) < QUEUE_DEPTH
      BY <2>3, LenProperties, RingBufAssumption DEF Enqueue, IsFull, TypeOK, RingType
    <3> QED
      BY <2>3, <3>1, <3>2, <3>3 DEF Enqueue, Checked, Arrival, Fifo!Join
  <2>4. ASSUME NEW frame \in Frame, QueueFull(frame)
        PROVE  UNCHANGED Fifo!vars
    <3>1. RecordOf(frame, Len(tracked')) \in Record
      BY <2>4, RecordType DEF QueueFull, Checked, Arrival
    <3> QED
      BY <2>4, <3>1, PushProperties DEF QueueFull, Checked, Arrival
  <2>5. CASE DrainBegin \/ FlushOk \/ FlushFails \/ UNCHANGED vars
    BY <2>5 DEF DrainBegin, FlushOk, FlushFails, vars
  <2>6. CASE WriteOk
    BY <2>6, PopProperties DEF WriteOk, Oldest, Fifo!Leave, Fifo!Next
  <2>7. CASE WriteFails
    BY <2>7, PopProperties DEF WriteFails, Fifo!Leave, Fifo!Next
  <2> QED
    BY <2>1, <2>2, <2>3, <2>4, <2>5, <2>6, <2>7 DEF Next, Ingest, Drain, Fifo!Next
<1> QED
  BY <1>1, <1>2, TypeCorrect, PTL DEF Spec, ImplementsLossyFifo, Fifo!Spec

-----------------------------------------------------------------------------
\* What each step does to `tracked` and to the two ends of the line.
LEMMA Steps ==
  ASSUME TypeOK, [Next]_vars
  PROVE  \/ \E frame \in Frame :
              /\ Check(last_seq, frame) = "Accepted"
              /\ tracked' = Append(tracked, frame.sequence)
              /\ last_seq' = frame.sequence
              /\ stored' = stored
              /\ ringbuf'.queue = Append(ringbuf.queue, RecordOf(frame, Len(tracked) + 1))
         \/ \E frame \in Frame :
              /\ tracked' = Append(tracked, frame.sequence)
              /\ last_seq' = frame.sequence
              /\ stored' = stored /\ ringbuf'.queue = ringbuf.queue
         \/ /\ tracked' = tracked /\ last_seq' = last_seq
            /\ stored' = stored /\ ringbuf'.queue = ringbuf.queue
         \/ /\ tracked' = tracked /\ last_seq' = last_seq
            /\ ringbuf.queue # <<>>
            /\ ringbuf'.queue = Tail(ringbuf.queue)
            /\ stored' = stored \/ stored' = Append(stored, Head(ringbuf.queue))
<1>1. ASSUME NEW frame \in Frame, Track(frame), Arrival
      PROVE  /\ Len(tracked') = Len(tracked) + 1
             /\ RecordOf(frame, Len(tracked')) \in Record
  BY <1>1, RecordType DEF Arrival
<1>2. ASSUME NEW frame \in Frame, RejectCrc(frame) \/ RejectUnknown(frame)
      PROVE  /\ tracked' = tracked /\ last_seq' = last_seq
             /\ stored' = stored /\ ringbuf'.queue = ringbuf.queue
  BY <1>2 DEF RejectCrc, RejectUnknown, Checked, Arrival, LastSeqAfter
<1>3. ASSUME NEW frame \in Frame, RejectGap(frame) \/ FilterOut(frame)
      PROVE  /\ tracked' = Append(tracked, frame.sequence)
             /\ last_seq' = frame.sequence
             /\ stored' = stored /\ ringbuf'.queue = ringbuf.queue
  BY <1>3 DEF RejectGap, FilterOut, Checked, Arrival, LastSeqAfter, Track
<1>4. ASSUME NEW frame \in Frame, Enqueue(frame)
      PROVE  /\ Check(last_seq, frame) = "Accepted"
             /\ tracked' = Append(tracked, frame.sequence)
             /\ last_seq' = frame.sequence
             /\ stored' = stored
             /\ ringbuf'.queue = Append(ringbuf.queue, RecordOf(frame, Len(tracked) + 1))
  <2>1. /\ Arrival /\ Track(frame) /\ Check(last_seq, frame) = "Accepted"
        /\ last_seq' = frame.sequence
    BY <1>4 DEF Enqueue, Checked, LastSeqAfter
  <2>2. ringbuf'.queue = Append(ringbuf.queue, RecordOf(frame, Len(tracked')))
    BY <1>4, <1>1, <2>1, PushProperties DEF Enqueue
  <2> QED
    BY <1>1, <2>1, <2>2 DEF Arrival, Track
<1>5. ASSUME NEW frame \in Frame, QueueFull(frame)
      PROVE  /\ tracked' = Append(tracked, frame.sequence)
             /\ last_seq' = frame.sequence
             /\ stored' = stored /\ ringbuf'.queue = ringbuf.queue
  <2>1. /\ Arrival /\ Track(frame) /\ last_seq' = frame.sequence
    BY <1>5 DEF QueueFull, Checked, LastSeqAfter
  <2>2. ringbuf'.queue = ringbuf.queue
    BY <1>5, <1>1, <2>1, PushProperties DEF QueueFull
  <2> QED
    BY <2>1, <2>2 DEF Arrival, Track
<1>6. CASE FramerError \/ DrainBegin \/ FlushOk \/ FlushFails \/ UNCHANGED vars
  BY <1>6 DEF FramerError, Arrival, DrainBegin, FlushOk, FlushFails, vars
<1>7. CASE WriteOk \/ WriteFails
  BY <1>7, PopProperties DEF WriteOk, WriteFails, Oldest
<1> QED
  BY <1>2, <1>3, <1>4, <1>5, <1>6, <1>7 DEF Next, Ingest, Drain

\* The validator's last_seq is the number of the last frame that reached the
\* sequence check (Validator::check, step 5).
LEMMA AlwaysSynced == Spec => []Synced
<1>1. Init => Synced
  BY DEF Init, Synced
<1>2. TypeOK /\ Synced /\ [Next]_vars => Synced'
  <2> SUFFICES ASSUME TypeOK, Synced, [Next]_vars
               PROVE  Synced'
    OBVIOUS
  <2>1. CASE UNCHANGED <<tracked, last_seq>>
    BY <2>1 DEF Synced
  <2>2. ASSUME NEW frame \in Frame, tracked' = Append(tracked, frame.sequence),
               last_seq' = frame.sequence
        PROVE  Synced'
    <3>1. frame.sequence \in SeqNumber /\ tracked \in Seq(SeqNumber)
      BY DEF Frame, TypeOK
    <3> QED
      BY <2>2, <3>1, AppendProperties DEF Synced
  <2> QED
    BY <2>1, <2>2, Steps
<1> QED
  BY <1>1, <1>2, TypeCorrect, PTL DEF Spec

\* Only RejectGap moves seq_gap, and only for a frame that breaks the row.
LEMMA GapSteps ==
  ASSUME TypeOK, [Next]_vars
  PROVE  \/ /\ tracked' = tracked /\ stats'.seq_gap = stats.seq_gap
         \/ /\ frames < MaxFrames
            /\ \E frame \in Frame :
                 /\ tracked' = Append(tracked, frame.sequence)
                 /\ stats'.seq_gap = IF InSequence(last_seq, frame)
                                       THEN stats.seq_gap ELSE Inc(stats.seq_gap)
<1>0. stats \in StatsType
  BY DEF TypeOK
<1>1. ASSUME NEW frame \in Frame, RejectCrc(frame)
      PROVE  tracked' = tracked /\ stats'.seq_gap = stats.seq_gap
  BY <1>0, <1>1, CrcCounted DEF RejectCrc
<1>2. ASSUME NEW frame \in Frame, RejectUnknown(frame)
      PROVE  tracked' = tracked /\ stats'.seq_gap = stats.seq_gap
  BY <1>0, <1>2, FilterCounted DEF RejectUnknown
<1> DEFINE Seen(frame) ==
             /\ frames < MaxFrames
             /\ tracked' = Append(tracked, frame.sequence)
             /\ stats'.seq_gap = IF InSequence(last_seq, frame)
                                   THEN stats.seq_gap ELSE Inc(stats.seq_gap)
<1>3. ASSUME NEW frame \in Frame, RejectGap(frame)
      PROVE  Seen(frame)
  <2>1. stats'.seq_gap = Inc(stats.seq_gap)
    BY <1>0, <1>3, GapCounted DEF RejectGap
  <2>2. ~InSequence(last_seq, frame) /\ frames < MaxFrames
    BY <1>3 DEF RejectGap, Checked, Check, Arrival
  <2> QED
    BY <1>3, <2>1, <2>2 DEF RejectGap, Track
<1>4. ASSUME NEW frame \in Frame, Checked(frame, "Accepted"), Track(frame),
             stats'.seq_gap = stats.seq_gap
      PROVE  Seen(frame)
  BY <1>4 DEF Checked, Check, Arrival, Track
<1>5. ASSUME NEW frame \in Frame, FilterOut(frame)
      PROVE  Seen(frame)
  BY <1>0, <1>4, <1>5, FilterCounted DEF FilterOut
<1>6. ASSUME NEW frame \in Frame, Enqueue(frame)
      PROVE  Seen(frame)
  BY <1>0, <1>4, <1>6, PushCounted DEF Enqueue
<1>7. ASSUME NEW frame \in Frame, QueueFull(frame)
      PROVE  Seen(frame)
  BY <1>0, <1>4, <1>7, DropCounted DEF QueueFull, CountDrop
<1>8. CASE FramerError
  BY <1>0, <1>8, CrcCounted DEF FramerError
<1>9. CASE DrainBegin \/ WriteOk \/ FlushOk \/ UNCHANGED vars
  BY <1>9 DEF DrainBegin, WriteOk, FlushOk, vars
<1>10. CASE WriteFails \/ FlushFails
  BY <1>0, <1>10, WriteCounted DEF WriteFails, FlushFails, CountFailure
<1> QED
  BY <1>1, <1>2, <1>3, <1>5, <1>6, <1>7, <1>8, <1>9, <1>10 DEF Next, Ingest, Drain

\* seq_gap counts the breaks in the row of numbers that reached the check,
\* each once, however long the run and whatever else happens between
\* (Validator::check re-synchronises to the frame it rejects).
THEOREM GapCount ==
  ASSUME NoWrap
  PROVE  Spec => []GapsCounted
<1> USE PipelineAssumption, RingBufAssumption DEF NoWrap
<1> DEFINE Counted == /\ IsFiniteSet(Breaks)
                      /\ stats.seq_gap = Cardinality(Breaks)
<1>1. Init => Counted
  <2> SUFFICES ASSUME Init PROVE Counted
    OBVIOUS
  <2>1. Breaks = {}
    BY DEF Init, Breaks
  <2>2. stats.seq_gap = 0
    BY DEF Init, ZeroStats
  <2> QED
    BY <2>1, <2>2, FS_EmptySet
<1>2. TypeOK /\ Synced /\ Counted /\ Conservation /\ [Next]_vars => Counted'
  <2> SUFFICES ASSUME TypeOK, Synced, Counted, Conservation, [Next]_vars
               PROVE  Counted'
    OBVIOUS
  <2>1. CASE tracked' = tracked /\ stats'.seq_gap = stats.seq_gap
    <3>1. Breaks' = Breaks
      BY <2>1 DEF Breaks
    <3> QED
      BY <2>1, <3>1
  <2>2. ASSUME NEW frame \in Frame, frames < MaxFrames,
               tracked' = Append(tracked, frame.sequence),
               stats'.seq_gap = IF InSequence(last_seq, frame)
                                 THEN stats.seq_gap ELSE Inc(stats.seq_gap)
        PROVE  Counted'
    <3> DEFINE n == Len(tracked) + 1
    <3>1. frame.sequence \in SeqNumber /\ tracked \in Seq(SeqNumber) /\ Len(tracked) \in Nat
      BY LenProperties DEF Frame, TypeOK
    <3>2. /\ Len(tracked') = n /\ tracked'[n] = frame.sequence
          /\ \A i \in 1 .. Len(tracked) : tracked'[i] = tracked[i]
      BY <2>2, <3>1, AppendProperties
    <3>3. /\ tracked = <<>> => Len(tracked) = 0
          /\ tracked # <<>> => Len(tracked) > 0
      BY <3>1, EmptySeq
    <3>4. \A i \in 2 .. Len(tracked) :
            (tracked'[i] # Successor(tracked'[i - 1])) <=> (tracked[i] # Successor(tracked[i - 1]))
      BY <3>1, <3>2
    <3>5. n \notin Breaks
      BY <3>1 DEF Breaks
    <3>6. InSequence(last_seq, frame) => Breaks' = Breaks
      <4> SUFFICES ASSUME InSequence(last_seq, frame) PROVE Breaks' = Breaks
        OBVIOUS
      <4>1. CASE Len(tracked) = 0
        BY <4>1, <3>1, <3>2 DEF Breaks
      <4>2. CASE Len(tracked) > 0
        <5>1. last_seq = tracked[Len(tracked)] /\ last_seq \in SeqNumber
          BY <4>2, <3>1, <3>3, ElementOfSeq DEF Synced
        <5>2. frame.sequence = Successor(last_seq)
          BY <5>1, ValidatorAssumption DEF InSequence, SeqNumber
        <5> HIDE DEF n
        <5>3. tracked'[n] = Successor(tracked'[n - 1])
          BY <4>2, <3>1, <3>2, <5>1, <5>2 DEF n
        <5> QED
          BY <3>1, <3>2, <3>4, <5>3 DEF Breaks, n
      <4> QED
        BY <3>1, <4>1, <4>2
    <3>7. ~InSequence(last_seq, frame) => Breaks' = Breaks \cup {n}
      <4> SUFFICES ASSUME ~InSequence(last_seq, frame) PROVE Breaks' = Breaks \cup {n}
        OBVIOUS
      <4>1. Len(tracked) > 0 /\ last_seq = tracked[Len(tracked)]
        BY <3>1, <3>3 DEF Synced, InSequence
      <4>2. frame.sequence # Successor(last_seq)
        BY DEF InSequence
      <4>3. tracked'[n] # Successor(tracked'[n - 1])
        BY <3>1, <3>2, <4>1, <4>2
      <4> QED
        BY <3>1, <3>2, <3>4, <4>1, <4>3 DEF Breaks
    <3>8. Inc(stats.seq_gap) = stats.seq_gap + 1
      <4>1. /\ stats.ok \in Nat /\ stats.dropped \in Nat /\ stats.crc_fail \in Nat
            /\ stats.seq_gap \in Nat /\ stats.filtered \in Nat /\ frames \in Nat
        BY DEF TypeOK, StatsType, Count
      <4>2. stats.seq_gap <= frames
        BY <4>1 DEF Conservation, total_frames_seen
      <4> QED
        BY <2>2, <4>1, <4>2 DEF Inc
    <3>9. IsFiniteSet(Breaks') /\ (~InSequence(last_seq, frame) =>
                                     Cardinality(Breaks') = Cardinality(Breaks) + 1)
      BY <3>5, <3>6, <3>7, FS_AddElement
    <3> QED
      BY <2>2, <3>6, <3>8, <3>9
  <2> QED
    BY <2>1, <2>2, GapSteps
<1>3. Counted /\ Synced => GapsCounted
  BY DEF GapsCounted
<1> QED
  BY <1>1, <1>2, <1>3, TypeCorrect, AlwaysSynced, Accounting, PTL DEF Spec

\* Growing `tracked` does not change what is known of a record that arrived.
LEMMA TrackedGrows ==
  ASSUME TypeOK, NEW seq \in SeqNumber, tracked' = Append(tracked, seq),
         NEW r \in Record
  PROVE  /\ Len(tracked') = Len(tracked) + 1
         /\ tracked'[Len(tracked) + 1] = seq
         /\ \A i \in 1 .. Len(tracked) : tracked'[i] = tracked[i]
         /\ r.nth <= Len(tracked) => r.nth <= Len(tracked')
         /\ r.nth <= Len(tracked) => tracked'[r.nth] = tracked[r.nth]
         /\ r.nth <= Len(tracked) /\ r.nth > 1 =>
              tracked'[r.nth - 1] = tracked[r.nth - 1]
<1>1. tracked \in Seq(SeqNumber) /\ r.nth \in Nat /\ r.nth >= 1
  BY PipelineAssumption DEF TypeOK, Record
<1>2. Len(tracked) \in Nat
  BY <1>1, LenProperties
<1>3. /\ Len(tracked') = Len(tracked) + 1
      /\ tracked'[Len(tracked) + 1] = seq
      /\ \A i \in 1 .. Len(tracked) : tracked'[i] = tracked[i]
  BY <1>1, AppendProperties
<1> QED
  BY <1>1, <1>2, <1>3

\* Stored and queued records, as long as they live, stay in the order of
\* arrival and under the number they arrived with (ingest and drain).
THEOREM ArrivalOrder == Spec => []InOrder
<1>1. Init => InOrder
  BY DEF Init, InOrder, Ascending, EmptyRing
<1>2. TypeOK /\ InOrder /\ [Next]_vars => InOrder'
  <2> SUFFICES ASSUME TypeOK, InOrder, [Next]_vars
               PROVE  InOrder'
    OBVIOUS
  <2> DEFINE q == ringbuf.queue
  <2>0. /\ q \in Seq(Record) /\ stored \in Seq(Record)
        /\ \A i \in 1 .. Len(q) : q[i] \in Record
        /\ \A i \in 1 .. Len(stored) : stored[i] \in Record
        /\ Len(tracked) \in Nat /\ Len(q) \in Nat /\ Len(stored) \in Nat
    BY ElementOfSeq, LenProperties DEF TypeOK, RingType
  <2>num. \A r \in Record : r.nth \in Nat
    BY DEF Record
  \* When `tracked` grows, what arrived has still arrived.
  <2>1. ASSUME NEW frame \in Frame, tracked' = Append(tracked, frame.sequence)
        PROVE  /\ Len(tracked') = Len(tracked) + 1
               /\ tracked'[Len(tracked) + 1] = frame.sequence
               /\ \A r \in Record : Arrived(r) => Arrived(r)'
    <3>1. frame.sequence \in SeqNumber
      BY DEF Frame
    <3>3. \A r \in Record : Arrived(r) => r.nth <= Len(tracked')  /\ r.sequence = tracked'[r.nth]
      BY <2>1, <3>1, TrackedGrows DEF Arrived
    <3> QED
      BY <2>1, <3>1, <3>3, AppendProperties DEF Arrived, TypeOK
  <2>2. ASSUME NEW frame \in Frame, tracked' = Append(tracked, frame.sequence),
               stored' = stored, q' = Append(q, RecordOf(frame, Len(tracked) + 1))
        PROVE  InOrder'
    <3> DEFINE new == RecordOf(frame, Len(tracked) + 1)
    <3>1. /\ new.nth = Len(tracked) + 1 /\ new.sequence = frame.sequence
      BY DEF RecordOf
    <3>2. /\ Len(q') = Len(q) + 1 /\ q'[Len(q) + 1] = new
          /\ \A i \in 1 .. Len(q) : q'[i] = q[i]
      BY <2>2, <2>0, AppendProperties
    <3> HIDE DEF new
    <3>3. \A i \in 1 .. Len(q') : i \in 1 .. Len(q) \/ i = Len(q) + 1
      BY <3>2, <2>0
    <3>a. \A i \in 1 .. Len(q) : q[i].nth \in Nat /\ q[i].nth <= Len(tracked)
      BY <2>0, <2>num DEF InOrder, Arrived
    <3>4. Ascending(q)'
      <4> SUFFICES ASSUME NEW i \in 1 .. Len(q'), NEW j \in 1 .. Len(q'), i < j
                   PROVE  q'[i].nth < q'[j].nth
        BY DEF Ascending
      <4>1. i \in 1 .. Len(q)
        BY <3>2, <2>0
      <4>2. CASE j \in 1 .. Len(q)
        BY <4>1, <4>2, <3>2 DEF InOrder, Ascending
      <4>3. CASE j = Len(q) + 1
        <5>1. q'[i] = q[i] /\ q'[j] = new
          BY <4>1, <4>3, <3>2
        <5>2. q[i].nth \in Nat /\ q[i].nth <= Len(tracked) /\ Len(tracked) \in Nat
          BY <4>1, <3>a, <2>0
        <5>3. q[i].nth < new.nth
          BY <5>2, <3>1
        <5> QED
          BY <5>1, <5>3
      <4> QED
        BY <3>3, <4>2, <4>3
    <3>5. \A i \in 1 .. Len(stored), j \in 1 .. Len(q') : stored[i].nth < q'[j].nth
      <4> SUFFICES ASSUME NEW i \in 1 .. Len(stored), NEW j \in 1 .. Len(q')
                   PROVE  stored[i].nth < q'[j].nth
        OBVIOUS
      <4>2. CASE j \in 1 .. Len(q)
        BY <4>2, <3>2 DEF InOrder
      <4>3. CASE j = Len(q) + 1
        BY <4>3, <3>1, <3>2, <2>0, <2>num DEF InOrder, Arrived
      <4> QED
        BY <3>3, <4>2, <4>3
    <3>6. \A i \in 1 .. Len(stored) : Arrived(stored[i])'
      BY <2>0, <2>1, <2>2 DEF InOrder
    <3>7. \A i \in 1 .. Len(q') : Arrived(q[i])'
      <4>1. new.nth <= Len(tracked') /\ new.sequence = tracked'[new.nth]
        BY <2>1, <2>2, <2>0, <3>1
      <4>2. \A i \in 1 .. Len(q) :
              q[i].nth <= Len(tracked') /\ q[i].sequence = tracked'[q[i].nth]
        <5>1. \A r \in Record : Arrived(r) =>
                r.nth <= Len(tracked') /\ r.sequence = tracked'[r.nth]
          BY <2>1, <2>2 DEF Arrived
        <5> QED
          BY <5>1, <2>0 DEF InOrder
      <4> QED
        BY <3>2, <3>3, <4>1, <4>2 DEF Arrived
    <3> QED
      BY <2>2, <3>4, <3>5, <3>6, <3>7 DEF InOrder, Ascending, Arrived
  <2>3. ASSUME NEW frame \in Frame, tracked' = Append(tracked, frame.sequence),
               stored' = stored, q' = q
        PROVE  InOrder'
    BY <2>0, <2>1, <2>3 DEF InOrder, Ascending
  <2>4. CASE tracked' = tracked /\ stored' = stored /\ q' = q
    BY <2>4 DEF InOrder, Ascending, Arrived
  \* The queue without its head keeps its order and stays behind `stored`.
  <2>tail. ASSUME tracked' = tracked, q # <<>>, q' = Tail(q)
           PROVE  /\ \A i \in 1 .. Len(q') : i + 1 \in 1 .. Len(q) /\ q'[i] = q[i + 1]
                  /\ 1 \in 1 .. Len(q) /\ Head(q) = q[1]
                  /\ Ascending(q)'
                  /\ \A i \in 1 .. Len(stored), j \in 1 .. Len(q') : stored[i].nth < q'[j].nth
                  /\ \A i \in 1 .. Len(q') : Arrived(q[i])'
    <3>1. /\ Len(q') = Len(q) - 1 /\ \A i \in 1 .. Len(q') : q'[i] = q[i + 1]
          /\ Head(q) = q[1]
      BY <2>0, <2>tail, HeadTailProperties
    <3>2. /\ \A i \in 1 .. Len(q') : i + 1 \in 1 .. Len(q)
          /\ 1 \in 1 .. Len(q)
      BY <3>1, <2>0, <2>tail, EmptySeq
    <3>3. \A i, j \in 1 .. Len(q') : i < j => i + 1 < j + 1
      OBVIOUS
    <3>4. Ascending(q)'
      BY <3>1, <3>2, <3>3 DEF InOrder, Ascending
    <3> QED
      BY <2>tail, <3>1, <3>2, <3>4 DEF InOrder, Arrived
  <2>5. CASE /\ tracked' = tracked /\ q # <<>> /\ q' = Tail(q)
             /\ stored' = stored
    BY <2>5, <2>tail DEF InOrder, Ascending, Arrived
  <2>6. CASE /\ tracked' = tracked /\ q # <<>> /\ q' = Tail(q)
             /\ stored' = Append(stored, Head(q))
    <3>1. /\ Len(stored') = Len(stored) + 1 /\ stored'[Len(stored) + 1] = q[1]
          /\ \A i \in 1 .. Len(stored) : stored'[i] = stored[i]
      BY <2>6, <2>0, <2>tail, AppendProperties
    <3>2. \A i \in 1 .. Len(stored') : i \in 1 .. Len(stored) \/ i = Len(stored) + 1
      BY <3>1, <2>0
    <3>3. Ascending(stored)'
      <4> SUFFICES ASSUME NEW i \in 1 .. Len(stored'), NEW j \in 1 .. Len(stored'), i < j
                   PROVE  stored'[i].nth < stored'[j].nth
        BY DEF Ascending
      <4>1. i \in 1 .. Len(stored)
        BY <3>1, <2>0
      <4>2. CASE j \in 1 .. Len(stored)
        BY <4>1, <4>2, <3>1 DEF InOrder, Ascending
      <4>3. CASE j = Len(stored) + 1
        BY <4>1, <4>3, <3>1, <2>6, <2>tail DEF InOrder
      <4> QED
        BY <3>2, <4>2, <4>3
    <3>4. \A i \in 1 .. Len(stored'), j \in 1 .. Len(q') : stored'[i].nth < q'[j].nth
      <4> SUFFICES ASSUME NEW i \in 1 .. Len(stored'), NEW j \in 1 .. Len(q')
                   PROVE  stored'[i].nth < q'[j].nth
        OBVIOUS
      <4>1. CASE i \in 1 .. Len(stored)
        BY <4>1, <3>1, <2>6, <2>tail
      <4>2. CASE i = Len(stored) + 1
        <5>1. 1 < j + 1 /\ j + 1 \in 1 .. Len(q) /\ 1 \in 1 .. Len(q) /\ q'[j] = q[j + 1]
          BY <2>6, <2>tail
        <5> QED
          BY <4>2, <5>1, <3>1 DEF InOrder, Ascending
      <4> QED
        BY <3>2, <4>1, <4>2
    <3>5. \A i \in 1 .. Len(stored') : Arrived(stored[i])'
      BY <2>6, <2>tail, <3>1, <3>2 DEF InOrder, Arrived
    <3> QED
      BY <2>6, <2>tail, <3>3, <3>4, <3>5 DEF InOrder, Ascending, Arrived
  <2> QED
    BY <2>2, <2>3, <2>4, <2>5, <2>6, Steps
<1> QED
  BY <1>1, <1>2, TypeCorrect, PTL DEF Spec

\* Nothing is ever stored or queued unless the frame that arrived just
\* before it carried the previous number (Validator::check, step 5): no
\* duplicate, no reordered frame and no frame right after a gap.
THEOREM PredecessorArrived == Spec => []FollowsPredecessor
<1>1. Init => FollowsPredecessor
  BY DEF Init, FollowsPredecessor, EmptyRing
<1>2. TypeOK /\ Synced /\ InOrder /\ FollowsPredecessor /\ [Next]_vars => FollowsPredecessor'
  <2> SUFFICES ASSUME TypeOK, Synced, InOrder, FollowsPredecessor, [Next]_vars
               PROVE  FollowsPredecessor'
    OBVIOUS
  <2> DEFINE q == ringbuf.queue
  <2>0. /\ q \in Seq(Record) /\ stored \in Seq(Record) /\ tracked \in Seq(SeqNumber)
        /\ \A i \in 1 .. Len(q) : q[i] \in Record
        /\ \A i \in 1 .. Len(stored) : stored[i] \in Record
        /\ Len(tracked) \in Nat /\ Len(q) \in Nat /\ Len(stored) \in Nat
    BY ElementOfSeq, LenProperties DEF TypeOK, RingType
  <2>1. ASSUME NEW frame \in Frame, tracked' = Append(tracked, frame.sequence)
        PROVE  \A r \in Record : Arrived(r) /\ Vouched(r) =>
                 (r.nth > 1 => r.sequence = Successor(tracked'[r.nth - 1]))
    <3>1. frame.sequence \in SeqNumber
      BY DEF Frame
    <3> QED
      BY <2>1, <3>1, TrackedGrows DEF Arrived, Vouched
  <2>2. ASSUME NEW frame \in Frame, tracked' = Append(tracked, frame.sequence),
               stored' = stored, Check(last_seq, frame) = "Accepted",
               q' = Append(q, RecordOf(frame, Len(tracked) + 1))
        PROVE  FollowsPredecessor'
    <3> DEFINE new == RecordOf(frame, Len(tracked) + 1)
    <3>1. /\ new.nth = Len(tracked) + 1 /\ new.sequence = frame.sequence
      BY DEF RecordOf
    <3>2. /\ Len(q') = Len(q) + 1 /\ q'[Len(q) + 1] = new
          /\ \A i \in 1 .. Len(q) : q'[i] = q[i]
      BY <2>2, <2>0, AppendProperties
    <3> HIDE DEF new
    <3>3. \A i \in 1 .. Len(q') : i \in 1 .. Len(q) \/ i = Len(q) + 1
      BY <3>2, <2>0
    <3>4. new.nth > 1 => new.sequence = Successor(tracked'[new.nth - 1])
      <4>1. InSequence(last_seq, frame)
        BY <2>2 DEF Check
      <4>2. SUFFICES ASSUME new.nth > 1
                     PROVE  frame.sequence = Successor(tracked'[Len(tracked)])
        BY <3>1, <2>0
      <4>3. Len(tracked) \in 1 .. Len(tracked) /\ tracked # <<>>
        BY <3>1, <4>2, <2>0
      <4>4. tracked'[Len(tracked)] = tracked[Len(tracked)]
            /\ tracked[Len(tracked)] \in SeqNumber
        BY <4>3, <2>0, <2>2, AppendProperties, ElementOfSeq DEF Frame
      <4>5. last_seq = tracked[Len(tracked)] /\ last_seq # None
        BY <4>3, <4>4, ValidatorAssumption DEF Synced, SeqNumber
      <4> QED
        BY <4>1, <4>4, <4>5 DEF InSequence
    <3>5. \A i \in 1 .. Len(q) :
            q[i].nth > 1 => q[i].sequence = Successor(tracked'[q[i].nth - 1])
      BY <2>0, <2>1, <2>2 DEF InOrder, FollowsPredecessor
    <3>6. \A i \in 1 .. Len(stored) :
            stored[i].nth > 1 => stored[i].sequence = Successor(tracked'[stored[i].nth - 1])
      BY <2>0, <2>1, <2>2 DEF InOrder, FollowsPredecessor
    <3> QED
      BY <2>2, <3>2, <3>3, <3>4, <3>5, <3>6 DEF FollowsPredecessor, Vouched
  <2>3. ASSUME NEW frame \in Frame, tracked' = Append(tracked, frame.sequence),
               stored' = stored, q' = q
        PROVE  FollowsPredecessor'
    BY <2>0, <2>1, <2>3 DEF InOrder, FollowsPredecessor, Vouched
  <2>4. CASE tracked' = tracked /\ stored' = stored /\ q' = q
    BY <2>4 DEF FollowsPredecessor, Vouched
  <2>tail. ASSUME q # <<>>, q' = Tail(q)
           PROVE  /\ \A i \in 1 .. Len(q') : i + 1 \in 1 .. Len(q) /\ q'[i] = q[i + 1]
                  /\ Head(q) = q[1] /\ 1 \in 1 .. Len(q)
    <3>1. /\ Len(q') = Len(q) - 1 /\ \A i \in 1 .. Len(q') : q'[i] = q[i + 1]
          /\ Head(q) = q[1]
      BY <2>0, <2>tail, HeadTailProperties
    <3> QED
      BY <3>1, <2>0, <2>tail, EmptySeq
  <2>5. CASE tracked' = tracked /\ q # <<>> /\ q' = Tail(q) /\ stored' = stored
    BY <2>5, <2>tail DEF FollowsPredecessor, Vouched
  <2>6. CASE /\ tracked' = tracked /\ q # <<>> /\ q' = Tail(q)
             /\ stored' = Append(stored, Head(q))
    <3>1. /\ Len(stored') = Len(stored) + 1 /\ stored'[Len(stored) + 1] = q[1]
          /\ \A i \in 1 .. Len(stored) : stored'[i] = stored[i]
      BY <2>6, <2>0, <2>tail, AppendProperties
    <3>2. \A i \in 1 .. Len(stored') : i \in 1 .. Len(stored) \/ i = Len(stored) + 1
      BY <3>1, <2>0
    <3> QED
      BY <2>6, <2>tail, <3>1, <3>2 DEF FollowsPredecessor, Vouched
  <2> QED
    BY <2>2, <2>3, <2>4, <2>5, <2>6, Steps
<1> QED
  BY <1>1, <1>2, TypeCorrect, AlwaysSynced, ArrivalOrder, PTL DEF Spec

-----------------------------------------------------------------------------
(***************************************************************************)
(* Proofs about run_loop: it uses the pipeline as module Pipeline allows,  *)
(* so that everything proved there holds of the process, and what it adds  *)
(* (read, drain every round, flush at the end) makes a clean run complete. *)
(***************************************************************************)

\* What holds of every behaviour of the loop holds under its fairness too.
LEMMA Safe == HostSpec => HostSafety
  BY PTL DEF HostSpec

\* run_loop takes only steps of the pipeline: ingest and drain never overlap
\* and are called as Pipeline says, whatever the source does.
THEOREM HostUsesPipeline == HostSafety => Spec
<1>1. HostInit => Init
  BY DEF HostInit
<1>2. [HostNext]_hvars => [Next]_vars
  BY DEF HostNext, hvars, Read, Eof, ReadFails, Finish, Work, IngestOne, NextAnswer, DrainCall,
         DrainWrites, DrainReturns, DrainErrs, FinalFlushOk, FinalFlushFails, Exited,
         Next, Drain
<1> QED
  BY <1>1, <1>2, PTL DEF HostSafety, Spec

\* The pipeline only ever adds to `stored` and flushes what it has: one step.
LEMMA StoredGrows ==
  ASSUME TypeOK, [Next]_vars
  PROVE  Len(stored') \in Nat /\ Len(stored) <= Len(stored')
<1>0. stored \in Seq(Record) /\ Len(stored) \in Nat
  BY LenProperties DEF TypeOK
<1>1. CASE WriteOk
  <2>1. Oldest(ringbuf) \in Record /\ stored' = Append(stored, Oldest(ringbuf))
    BY <1>1, PopProperties DEF WriteOk
  <2> QED
    BY <1>0, <2>1, AppendProperties
<1>2. CASE stored' = stored
  BY <1>0, <1>2
<1>3. WriteOk \/ stored' = stored
  BY DEF Next, FramerError, Ingest, RejectCrc, RejectUnknown, RejectGap, FilterOut, Enqueue,
         QueueFull, Checked, Arrival, DrainBegin, Drain, WriteFails, FlushOk, FlushFails, vars
<1> QED
  BY <1>1, <1>2, <1>3

\* Type correctness of the loop: what a flush covers never exceeds what was
\* written, on whichever path the loop goes.
THEOREM HostTypeCorrect == HostSafety => []HostTypeOK
<1> USE PipelineAssumption, HostAssumption DEF Places
<1>1. HostInit /\ TypeOK => HostTypeOK
  <2>1. TypeOK => Len(stored) \in Nat
    BY LenProperties DEF TypeOK
  <2>2. 0 \in 0 .. MaxChunk /\ \A n \in Nat : 0 \in 0 .. n
    OBVIOUS
  <2>3. "read" \in Places /\ FALSE \in BOOLEAN
    OBVIOUS
  <2> QED
    BY <2>1, <2>2, <2>3, Zenon DEF HostInit, HostTypeOK
<1>2. HostTypeOK /\ TypeOK' /\ [HostNext]_hvars => HostTypeOK'
  <2> SUFFICES ASSUME HostTypeOK, TypeOK', [HostNext]_hvars
               PROVE  HostTypeOK'
    OBVIOUS
  <2>0. /\ Len(stored) \in Nat /\ Len(stored') \in Nat /\ frames \in Nat
        /\ TypeOK /\ synced \in Nat /\ synced <= Len(stored)
        /\ left \in 0 .. MaxChunk /\ largest \in 0 .. MaxChunk /\ pc \in Places
        /\ failing \in BOOLEAN
    BY LenProperties DEF HostTypeOK, TypeOK
  <2>1. Len(stored) <= Len(stored')
    <3>1. [Next]_vars
      BY DEF HostNext, hvars, Read, Eof, ReadFails, Finish, Work, IngestOne, NextAnswer,
             DrainCall, DrainWrites, DrainReturns, DrainErrs, FinalFlushOk, FinalFlushFails,
             Exited, Next, Drain
    <3> QED
      BY <2>0, <3>1, StoredGrows
  <2>2. synced' = synced =>  synced' \in 0 .. Len(stored')
    BY <2>0, <2>1
  <2>3. CASE Read
    BY <2>0, <2>2, <2>3 DEF Read, HostTypeOK
  <2>4. CASE Eof \/ ReadFails \/ FinalFlushFails
    BY <2>0, <2>2, <2>4 DEF Eof, Finish, ReadFails, FinalFlushFails, HostTypeOK
  <2>5. CASE FinalFlushOk
    <3>1. synced' = Len(stored') /\ pc' = "done" /\ UNCHANGED <<left, largest, failing>>
      BY <2>5 DEF FinalFlushOk, EverythingWritten, vars
    <3> QED
      BY <2>0, <3>1 DEF HostTypeOK
  <2>6. CASE IngestOne
    <3>1. left' \in 0 .. MaxChunk /\ UNCHANGED <<pc, synced, largest, failing>>
      BY <2>0, <2>6 DEF IngestOne, NextAnswer
    <3> QED
      BY <2>0, <2>2, <3>1 DEF HostTypeOK
  <2>7. CASE DrainCall \/ DrainWrites \/ DrainErrs
    <3>1. /\ pc' \in Places /\ failing' \in BOOLEAN /\ UNCHANGED <<left, synced, largest>>
      BY <2>0, <2>7 DEF DrainCall, DrainWrites, DrainErrs
    <3> QED
      BY <2>0, <2>2, <3>1 DEF HostTypeOK
  <2>8. CASE DrainReturns
    <3>1. /\ flushed' = Len(stored) /\ stored' = stored /\ synced' = flushed'
          /\ pc' = "read" /\ UNCHANGED <<left, failing, largest>>
      BY <2>8 DEF DrainReturns, FlushOk
    <3> QED
      BY <2>0, <3>1 DEF HostTypeOK
  <2>9. CASE UNCHANGED hvars
    BY <2>0, <2>2, <2>9 DEF hvars, HostTypeOK
  <2> QED
    BY <2>3, <2>4, <2>5, <2>6, <2>7, <2>8, <2>9 DEF HostNext, Work, Exited
<1> QED
  BY <1>1, <1>2, HostUsesPipeline, TypeCorrect, PTL DEF HostSafety

\* Between two rounds, and after the loop.
Resting == pc \notin {"ingest", "drain"}

\* What a round of the loop establishes, and what it may count on.
RoundInv ==
  /\ pc \in Places
  /\ left \in Nat /\ largest \in Nat
  /\ draining <=> pc = "drain"
  /\ failing => Resting /\ stats.write_fail > 0
  \* Only a drain that failed leaves records behind.
  /\ Resting /\ ringbuf.queue # <<>> => failing
  /\ Resting /\ stats.write_fail = 0 => synced = Len(stored)
  /\ pc = "done" => synced = Len(stored)
  \* Without failures a round starts with an empty queue.
  /\ pc = "ingest" /\ stats.write_fail = 0 => Len(ringbuf.queue) + left <= largest
  /\ NoDropWithoutCause

\* What the pipeline's part of an ingest step does to what RoundInv reads.
LEMMA IngestStep ==
  ASSUME TypeOK, FramerError \/ \E frame \in Frame : Ingest(frame)
  PROVE  /\ UNCHANGED <<draining, stored>>
         /\ stats'.write_fail = stats.write_fail
         /\ Len(ringbuf'.queue) \in {Len(ringbuf.queue), Len(ringbuf.queue) + 1}
         /\ stats'.dropped # stats.dropped => Len(ringbuf.queue) >= QUEUE_DEPTH
<1>0. stats \in StatsType
  BY DEF TypeOK
<1>1. CASE FramerError
  BY <1>0, <1>1, CrcCounted DEF FramerError, Arrival
<1>2. ASSUME NEW frame \in Frame, RejectCrc(frame)
      PROVE  /\ Arrival /\ ringbuf' = ringbuf
             /\ stats'.write_fail = stats.write_fail /\ stats'.dropped = stats.dropped
  BY <1>0, <1>2, CrcCounted DEF RejectCrc, Checked
<1>3. ASSUME NEW frame \in Frame, RejectUnknown(frame) \/ FilterOut(frame)
      PROVE  /\ Arrival /\ ringbuf' = ringbuf
             /\ stats'.write_fail = stats.write_fail /\ stats'.dropped = stats.dropped
  BY <1>0, <1>3, FilterCounted DEF RejectUnknown, FilterOut, Checked
<1>4. ASSUME NEW frame \in Frame, RejectGap(frame)
      PROVE  /\ Arrival /\ ringbuf' = ringbuf
             /\ stats'.write_fail = stats.write_fail /\ stats'.dropped = stats.dropped
  BY <1>0, <1>4, GapCounted DEF RejectGap, Checked
<1>5. ASSUME NEW frame \in Frame, Enqueue(frame)
      PROVE  /\ Arrival /\ Len(ringbuf'.queue) = Len(ringbuf.queue) + 1
             /\ stats'.write_fail = stats.write_fail /\ stats'.dropped = stats.dropped
  <2>1. RecordOf(frame, Len(tracked')) \in Record
    BY <1>5, RecordType DEF Enqueue, Checked, Arrival
  <2>2. Len(ringbuf'.queue) = Len(ringbuf.queue) + 1
    BY <1>5, <2>1, PushProperties DEF Enqueue
  <2>3. Arrival /\ stats' = CountPush(ringbuf')
    BY <1>5 DEF Enqueue, Checked
  <2> QED
    BY <1>0, <2>2, <2>3, PushCounted
<1>6. ASSUME NEW frame \in Frame, QueueFull(frame)
      PROVE  /\ Arrival /\ ringbuf'.queue = ringbuf.queue
             /\ stats'.write_fail = stats.write_fail
             /\ Len(ringbuf.queue) >= QUEUE_DEPTH
  <2>1. RecordOf(frame, Len(tracked')) \in Record
    BY <1>6, RecordType DEF QueueFull, Checked, Arrival
  <2>2. ringbuf'.queue = ringbuf.queue
    BY <1>6, <2>1, PushProperties DEF QueueFull
  <2>3. Arrival /\ stats' = [stats EXCEPT !.dropped = Inc(@)]
    BY <1>6 DEF QueueFull, CountDrop, Checked
  <2>4. Len(ringbuf.queue) >= QUEUE_DEPTH
    BY <1>6 DEF QueueFull, IsFull
  <2> QED
    BY <1>0, <2>2, <2>3, <2>4, DropCounted
<1> QED
  BY <1>1, <1>2, <1>3, <1>4, <1>5, <1>6 DEF Ingest, Arrival

\* A failing storage call is counted, and the count does not wrap.
LEMMA DrainErrStep ==
  ASSUME NoWrap, TypeOK, WriteFails \/ FlushFails
  PROVE  /\ stats'.write_fail = stats.write_fail + 1 /\ stats'.write_fail > 0
         /\ stats'.dropped = stats.dropped
         /\ ~draining'
<1>1. /\ stats \in StatsType /\ stats.write_fail \in Nat
      /\ stats.write_fail < MaxFailures /\ MaxFailures \in Nat /\ CounterMax \in Nat
  BY PipelineAssumption, RingBufAssumption DEF TypeOK, StatsType, Count, WriteFails, FlushFails
<1>2. Inc(stats.write_fail) = stats.write_fail + 1
  BY <1>1 DEF Inc, NoWrap
<1>3. stats' = [stats EXCEPT !.write_fail = Inc(@)] /\ ~draining'
  BY DEF WriteFails, FlushFails, CountFailure
<1> QED
  BY <1>1, <1>2, <1>3, WriteCounted

\* RoundInv holds throughout: one step per action of run_loop.
THEOREM Rounds ==
  ASSUME NoWrap
  PROVE  HostSafety => []RoundInv
<1> USE RingBufAssumption, PipelineAssumption, HostAssumption DEF Places, Resting
<1>1. HostInit => RoundInv
  BY DEF HostInit, Init, EmptyRing, ZeroStats, RoundInv, NoDropWithoutCause
<1>2. TypeOK /\ RoundInv /\ [HostNext]_hvars => RoundInv'
  <2> SUFFICES ASSUME TypeOK, RoundInv, [HostNext]_hvars
               PROVE  RoundInv'
    OBVIOUS
  <2>0. /\ Len(ringbuf.queue) \in Nat /\ Len(stored) \in Nat
        /\ stats.write_fail \in Nat /\ stats.dropped \in Nat /\ frames \in Nat
        /\ left \in Nat /\ largest \in Nat
        /\ ringbuf.queue = <<>> => Len(ringbuf.queue) = 0
    BY LenProperties DEF TypeOK, RingType, StatsType, Count, RoundInv
  <2> USE DEF RoundInv, NoDropWithoutCause
  <2>1. CASE Read
    <3>1. PICK n \in 0 .. MaxChunk :
                 left' = n /\ largest' = IF n > largest THEN n ELSE largest
      BY <2>1 DEF Read
    <3>2. /\ pc = "read" /\ pc' = "ingest" /\ failing' = FALSE
          /\ UNCHANGED <<draining, stats, ringbuf, stored, synced>>
      BY <2>1 DEF Read, vars
    <3>3. left' \in Nat /\ largest' \in Nat /\ largest' >= largest /\ left' <= largest'
      BY <3>1, <2>0
    <3>4. stats.write_fail = 0 => Len(ringbuf.queue) = 0
      BY <2>0, <3>2
    <3> QED
      BY <2>0, <3>2, <3>3, <3>4
  <2>2. CASE Eof \/ ReadFails \/ FinalFlushFails
    BY <2>2 DEF Eof, Finish, ReadFails, FinalFlushFails, vars
  <2>3. CASE FinalFlushOk
    BY <2>3 DEF FinalFlushOk, EverythingWritten, vars
  <2>4. CASE IngestOne
    <3>1. /\ pc = "ingest" /\ pc' = pc /\ left > 0 /\ left' = left - 1
          /\ UNCHANGED <<synced, failing, largest>>
      BY <2>4 DEF IngestOne, NextAnswer
    <3>2. /\ UNCHANGED <<draining, stored>>
          /\ stats'.write_fail = stats.write_fail
          /\ Len(ringbuf'.queue) \in {Len(ringbuf.queue), Len(ringbuf.queue) + 1}
          /\ stats'.dropped # stats.dropped => Len(ringbuf.queue) >= QUEUE_DEPTH
      BY <2>4, IngestStep DEF IngestOne
    <3>3. stats.write_fail = 0 => Len(ringbuf'.queue) + left' <= largest'
      BY <2>0, <3>1, <3>2
    <3>4. NoDropWithoutCause'
      BY <2>0, <3>1, <3>2
    <3> QED
      BY <2>0, <3>1, <3>2, <3>3, <3>4
  <2>5. CASE DrainCall
    BY <2>0, <2>5 DEF DrainCall, DrainBegin
  <2>6. CASE DrainWrites
    BY <2>0, <2>6 DEF DrainWrites, WriteOk
  <2>7. CASE DrainReturns
    BY <2>0, <2>7 DEF DrainReturns, FlushOk
  <2>8. CASE DrainErrs
    <3>1. /\ pc' = "read" /\ failing' = TRUE /\ UNCHANGED <<left, synced, largest>>
          /\ stats'.write_fail > 0 /\ ~draining'
      BY <2>8, DrainErrStep DEF DrainErrs
    <3>2. ~(stats'.write_fail = 0)
      BY <2>0, <2>8, DrainErrStep DEF DrainErrs
    <3> QED
      BY <2>0, <3>1, <3>2
  <2>9. CASE UNCHANGED hvars
    BY <2>9 DEF hvars, vars
  <2> QED
    BY <2>1, <2>2, <2>3, <2>4, <2>5, <2>6, <2>7, <2>8, <2>9 DEF HostNext, Work, Exited
<1>3. HostSafety => []TypeOK
  BY HostUsesPipeline, TypeCorrect, PTL
<1> QED
  BY <1>1, <1>2, <1>3, PTL DEF HostSafety

\* A process that has seen no storage failure has flushed every record that
\* `ok` counts whenever it waits for its source or has ended (run_loop drains
\* after every read, Pipeline::drain flushes after every drain).
THEOREM CleanRun ==
  ASSUME NoWrap
  PROVE  HostSafety => []CleanRunIsComplete
<1>1. TypeOK /\ QueueAccounting /\ RoundInv => CleanRunIsComplete
  <2> SUFFICES ASSUME TypeOK, QueueAccounting, RoundInv, Resting, stats.write_fail = 0
               PROVE  synced = stats.ok
    BY DEF CleanRunIsComplete, Resting
  <2>1. ~failing /\ ringbuf.queue = <<>> /\ synced = Len(stored)
    BY DEF RoundInv
  <2>2. lost = 0 /\ Len(stored) \in Nat
    BY LenProperties DEF TypeOK, QueueAccounting
  <2> QED
    BY <2>1, <2>2 DEF QueueAccounting
<1> QED
  BY <1>1, Rounds, HostUsesPipeline, TypeCorrect, Accounting, PTL

\* What exit code 0 says of the records `ok` counts: flushed, taken by a
\* failed write, or left queued by a failure of the last drain (run_loop
\* prints drain errors and ends with a flush of the storage alone).
THEOREM Exit ==
  ASSUME NoWrap
  PROVE  HostSafety => []ExitAccounting
<1>1. TypeOK /\ QueueAccounting /\ RoundInv => ExitAccounting
  <2> SUFFICES ASSUME TypeOK, QueueAccounting, RoundInv, pc = "done"
               PROVE  stats.ok = synced + lost + (IF failing THEN Len(ringbuf.queue) ELSE 0)
    BY DEF ExitAccounting
  <2>1. synced = Len(stored) /\ (failing \/ ringbuf.queue = <<>>)
    BY DEF RoundInv, Resting
  <2>2. /\ Len(stored) \in Nat /\ Len(ringbuf.queue) \in Nat /\ lost \in Nat
        /\ ringbuf.queue = <<>> => Len(ringbuf.queue) = 0
    BY LenProperties DEF TypeOK, RingType
  <2>3. stats.ok = Len(ringbuf.queue) + Len(stored) + lost
    BY DEF QueueAccounting
  <2>4. CASE failing
    <3>1. (IF failing THEN Len(ringbuf.queue) ELSE 0) = Len(ringbuf.queue)
      BY <2>4, Zenon
    <3>2. \A a, b, c \in Nat : a + b + c = b + c + a
      OBVIOUS
    <3>3. stats.ok = synced + lost + Len(ringbuf.queue)
      BY <2>1, <2>2, <2>3, <3>2, Zenon
    <3> QED
      BY <3>1, <3>3, Zenon
  <2>5. CASE ~failing
    BY <2>1, <2>2, <2>3, <2>5
  <2> QED
    BY <2>4, <2>5
<1> QED
  BY <1>1, Rounds, HostUsesPipeline, TypeCorrect, Accounting, PTL

\* The loop drops a record only for a read larger than the queue, or after a
\* storage failure (run_loop drains between any two reads).
THEOREM DropsHaveCause ==
  ASSUME NoWrap
  PROVE  HostSafety => []NoDropWithoutCause
<1>1. RoundInv => NoDropWithoutCause
  BY DEF RoundInv
<1> QED
  BY <1>1, Rounds, PTL

-----------------------------------------------------------------------------
(***************************************************************************)
(* Proofs about the whole program: with a sender, a source and a storage   *)
(* that can fail, its loop takes only the steps of module Host, so that    *)
(* what is proved there holds of it; its gaps can be explained; and the    *)
(* log that can be read back is in order, and complete as far as counted.  *)
(***************************************************************************)

\* What is under way, and the part of it the loop has read.
PathInv ==
  /\ under_way \in Seq(Frame \cup {Empty})
  /\ next \in SeqNumber /\ mishaps \in Nat
  /\ left \in Nat /\ left <= Len(under_way)
  /\ \A i \in 1 .. left : under_way[i] # Empty
  /\ pc # "ingest" => left = 0
  /\ peer = "reset" => under_way = <<>>

\* A number is followed by a number.
LEMMA SuccessorType ==
  ASSUME NEW seq \in SeqNumber
  PROVE  Successor(seq) \in SeqNumber
BY ValidatorAssumption DEF Successor, SeqNumber

\* The frame an ingest step works on.
LEMMA HeadIsFrame ==
  ASSUME PathInv, NextAnswer
  PROVE  /\ Head(under_way) \in Frame
         /\ Head(under_way) = under_way[1] /\ Len(under_way) > 0
         /\ Tail(under_way) \in Seq(Frame \cup {Empty})
         /\ Len(Tail(under_way)) = Len(under_way) - 1
         /\ \A i \in 1 .. Len(under_way) - 1 : Tail(under_way)[i] = under_way[i + 1]
<1>1. left > 0 /\ left \in Nat /\ left <= Len(under_way) /\ Len(under_way) \in Nat
  BY LenProperties DEF PathInv, NextAnswer
<1>2. under_way # <<>> /\ under_way \in Seq(Frame \cup {Empty})
  BY <1>1, EmptySeq DEF PathInv
<1>3. /\ Head(under_way) = under_way[1]
      /\ Tail(under_way) \in Seq(Frame \cup {Empty})
      /\ Len(Tail(under_way)) = Len(under_way) - 1
      /\ \A i \in 1 .. Len(under_way) - 1 : Tail(under_way)[i] = under_way[i + 1]
  BY <1>1, <1>2, HeadTailProperties
<1>4. under_way[1] # Empty
  BY <1>1 DEF PathInv
<1>5. under_way[1] \in Frame \cup {Empty}
  BY <1>1, <1>2, ElementOfSeq
<1> QED
  BY <1>1, <1>3, <1>4, <1>5

\* A step of the program is a step of the loop, or leaves the loop alone.
LEMMA HostStep ==
  ASSUME PathInv, [SystemNext]_sysvars
  PROVE  [HostNext]_hvars
<1>1. CASE Sender
  BY <1>1 DEF Sender, Send, Skip, Reboot, SendEmpty, Close, Reset, SenderSteps
<1>2. CASE IngestNext
  BY <1>2, HeadIsFrame DEF IngestNext, IngestOne, HostNext, Work
<1>3. CASE ReadSome \/ ReadEnds \/ ReadErrs
  BY <1>3 DEF ReadSome, ReadEnds, ReadErrs, HostNext
<1>4. CASE StoreRecord \/ StorageErrs \/ Quietly \/ FinalErrs
  BY <1>4 DEF StoreRecord, StorageErrs, Quietly, FinalErrs, HostNext, Work
<1>5. CASE UNCHANGED sysvars
  BY <1>5 DEF sysvars
<1> QED
  BY <1>1, <1>2, <1>3, <1>4, <1>5 DEF SystemNext, Running

\* The loop never takes more than it has read, nor an empty datagram for a
\* frame (run_loop passes on exactly the bytes of the last read).
THEOREM PathKept == SystemSafety => []PathInv
<1>1. SystemInit => PathInv
  <2>1. 0 \in SeqNumber
    BY ValidatorAssumption DEF SeqNumber
  <2>2. <<>> \in Seq(Frame \cup {Empty}) /\ Len(<<>>) = 0
    BY EmptySeq
  <2> QED
    BY <2>1, <2>2 DEF SystemInit, HostInit, PathInv
<1>2. PathInv /\ [SystemNext]_sysvars => PathInv'
  <2> SUFFICES ASSUME PathInv, [SystemNext]_sysvars
               PROVE  PathInv'
    OBVIOUS
  <2>0. /\ under_way \in Seq(Frame \cup {Empty}) /\ Len(under_way) \in Nat
        /\ left \in Nat /\ next \in SeqNumber /\ Successor(next) \in SeqNumber
        /\ mishaps \in Nat
    BY LenProperties, SuccessorType DEF PathInv
  <2>1. CASE SenderSteps /\ UNCHANGED <<under_way, next, mishaps>> /\ peer' = "closed"
    BY <2>1 DEF SenderSteps, hvars, PathInv
  <2>2. ASSUME NEW x \in Frame \cup {Empty}, SenderSteps, UNCHANGED peer,
               under_way' = Append(under_way, x), next' \in SeqNumber, mishaps' \in Nat
        PROVE  PathInv'
    <3>1. under_way' \in Seq(Frame \cup {Empty}) /\ Len(under_way') = Len(under_way) + 1
      BY <2>0, <2>2, AppendProperties
    <3>2. left = 0 /\ left' = left /\ pc' = pc /\ pc # "ingest" /\ peer = "up"
      BY <2>2 DEF SenderSteps, hvars, PathInv
    <3> QED
      BY <2>0, <2>2, <3>1, <3>2 DEF PathInv
  <2>3. ASSUME NEW frame \in Frame, Send(frame)
        PROVE  PathInv'
    BY <2>0, <2>2, <2>3 DEF Send
  <2>4. CASE SendEmpty
    BY <2>0, <2>2, <2>4 DEF SendEmpty, Mishap
  <2>5. CASE Skip \/ Reboot
    <3>1. next' \in SeqNumber
      BY <2>0, <2>5, ValidatorAssumption DEF Skip, Reboot, SeqNumber
    <3>2. mishaps' \in Nat /\ UNCHANGED <<peer, under_way, left, pc>>
      BY <2>0, <2>5 DEF Skip, Reboot, Mishap, SenderSteps, hvars
    <3> QED
      BY <3>1, <3>2 DEF PathInv
  <2>6. CASE Close
    BY <2>1, <2>6 DEF Close
  <2>7. CASE Reset
    <3>1. left' = 0 /\ under_way' = <<>> /\ UNCHANGED <<next, mishaps, pc>> /\ pc = "read"
      BY <2>7 DEF Reset, SenderSteps, hvars, PathInv
    <3>2. <<>> \in Seq(Frame \cup {Empty}) /\ Len(<<>>) = 0
      BY EmptySeq
    <3> QED
      BY <2>0, <3>1, <3>2 DEF PathInv
  <2>8. CASE ReadSome
    <3>1. /\ left' \in Nat /\ left' <= Len(under_way) /\ pc' = "ingest"
          /\ \A i \in 1 .. left' : under_way[i] # Empty
          /\ UNCHANGED <<under_way, next, mishaps, peer>>
      BY <2>0, <2>8 DEF ReadSome, Read, Others, svars
    <3> QED
      BY <2>0, <3>1 DEF PathInv
  <2>9. CASE IngestNext
    <3>1. /\ left > 0 /\ left' = left - 1 /\ pc' = pc /\ pc = "ingest"
          /\ under_way' = Tail(under_way) /\ UNCHANGED <<peer, next, mishaps>>
          /\ NextAnswer
      BY <2>9 DEF IngestNext, NextAnswer
    <3>2. /\ under_way' \in Seq(Frame \cup {Empty}) /\ Len(under_way') = Len(under_way) - 1
          /\ \A i \in 1 .. Len(under_way) - 1 : under_way'[i] = under_way[i + 1]
          /\ under_way # <<>>
      BY <3>1, HeadIsFrame, EmptySeq
    <3>3. left' \in Nat /\ left' <= Len(under_way')
      BY <2>0, <3>1, <3>2 DEF PathInv
    <3>4. \A i \in 1 .. left' : i + 1 \in 1 .. left /\ i \in 1 .. Len(under_way) - 1
      BY <2>0, <3>1, <3>2, <3>3
    <3>5. \A i \in 1 .. left' : under_way'[i] # Empty
      BY <3>2, <3>4 DEF PathInv
    <3> QED
      BY <2>0, <3>1, <3>2, <3>3, <3>5 DEF PathInv
  <2>10. CASE ReadEnds \/ ReadErrs \/ StoreRecord \/ StorageErrs \/ Quietly \/ FinalErrs
    <3>1. UNCHANGED <<under_way, next, mishaps, peer, left>>
      BY <2>10 DEF ReadEnds, Eof, Finish, ReadErrs, ReadFails, StoreRecord, DrainWrites,
                   StorageErrs, DrainErrs, Quietly, DrainCall, DrainReturns, FinalFlushOk,
                   FinalErrs, FinalFlushFails, Others, svars
    <3>2. left = 0
      BY <2>10 DEF ReadEnds, Eof, ReadErrs, ReadFails, StoreRecord, DrainWrites,
                   StorageErrs, DrainErrs, Quietly, DrainCall, DrainReturns, FinalFlushOk,
                   FinalErrs, FinalFlushFails, PathInv
    <3> QED
      BY <3>1, <3>2 DEF PathInv
  <2>11. CASE UNCHANGED sysvars
    BY <2>11 DEF sysvars, hvars, svars, PathInv
  <2> QED
    BY <2>3, <2>4, <2>5, <2>6, <2>7, <2>8, <2>9, <2>10, <2>11 DEF SystemNext, Sender, Running
<1> QED
  BY <1>1, <1>2, PTL DEF SystemSafety

\* The program runs the loop of module Host: what is proved of that for an
\* arbitrary source and an arbitrary storage holds here, and so does what is
\* proved of the pipeline.
THEOREM SystemUsesHost == SystemSafety => HostSafety
<1>1. SystemInit => HostInit
  BY DEF SystemInit
<1> QED
  BY <1>1, HostStep, PathKept, PTL DEF SystemSafety, HostSafety

-----------------------------------------------------------------------------
\* Two numbers that will meet at the sequence check, or would if no frame
\* were refused before it, and do not fit: junction i is between what is
\* under way at i and what follows it, from last_seq to the sender's next.
Before(i) == IF i = 0 THEN last_seq ELSE under_way[i].sequence
After(i)  == IF i = Len(under_way) THEN next ELSE under_way[i + 1].sequence

Broken(i) ==
  /\ i = 0 => last_seq # None
  /\ i > 0 => under_way[i] # Empty
  /\ i < Len(under_way) => under_way[i + 1] # Empty
  /\ After(i) # Successor(Before(i))

\* Numbered by the frames that came before, so that a junction keeps its
\* number while the frames in front of it are ingested.
Junctions == {frames + i : i \in {j \in 0 .. Len(under_way) : Broken(j)}}

Causes == mishaps + stats.crc_fail + stats.filtered

\* The gaps counted so far and those already under way all have a cause.
Explained ==
  /\ IsFiniteSet(Junctions)
  /\ IF peer = "reset" THEN stats.seq_gap <= Causes
     ELSE stats.seq_gap + Cardinality(Junctions) <= Causes

\* What an ingest step does to the sequence check and to its counters.
LEMMA IngestSequence ==
  ASSUME TypeOK, NEW frame \in Frame, Ingest(frame)
  PROVE  /\ frames < MaxFrames /\ frames' = frames + 1
         /\ \/ /\ last_seq' = frame.sequence
               /\ stats'.seq_gap = IF InSequence(last_seq, frame)
                                     THEN stats.seq_gap ELSE Inc(stats.seq_gap)
               /\ stats'.crc_fail = stats.crc_fail
               /\ stats'.filtered \in {stats.filtered, Inc(stats.filtered)}
            \/ /\ last_seq' = last_seq
               /\ stats'.seq_gap = stats.seq_gap
               /\ \/ stats'.crc_fail = Inc(stats.crc_fail) /\ stats'.filtered = stats.filtered
                  \/ stats'.crc_fail = stats.crc_fail /\ stats'.filtered = Inc(stats.filtered)
<1>0. stats \in StatsType
  BY DEF TypeOK
<1>1. CASE RejectCrc(frame)
  BY <1>0, <1>1, CrcCounted DEF RejectCrc, Checked, LastSeqAfter, Arrival
<1>2. CASE RejectUnknown(frame)
  BY <1>0, <1>2, FilterCounted DEF RejectUnknown, Checked, LastSeqAfter, Arrival
<1>3. CASE RejectGap(frame)
  <2>1. /\ frames < MaxFrames /\ frames' = frames + 1 /\ last_seq' = frame.sequence
        /\ ~InSequence(last_seq, frame)
    BY <1>3 DEF RejectGap, Checked, Check, LastSeqAfter, Arrival
  <2> QED
    BY <1>0, <1>3, <2>1, GapCounted DEF RejectGap
<1>4. ASSUME Checked(frame, "Accepted")
      PROVE  /\ frames < MaxFrames /\ frames' = frames + 1 /\ last_seq' = frame.sequence
             /\ InSequence(last_seq, frame)
  BY <1>4 DEF Checked, Check, LastSeqAfter, Arrival
<1>5. CASE FilterOut(frame)
  BY <1>0, <1>4, <1>5, FilterCounted DEF FilterOut
<1>6. CASE Enqueue(frame)
  BY <1>0, <1>4, <1>6, PushCounted DEF Enqueue
<1>7. CASE QueueFull(frame)
  BY <1>0, <1>4, <1>7, DropCounted DEF QueueFull, CountDrop
<1> QED
  BY <1>1, <1>2, <1>3, <1>5, <1>6, <1>7 DEF Ingest

\* Every other step of the loop leaves them alone.
LEMMA OtherSequence ==
  ASSUME TypeOK,
         ReadSome \/ ReadEnds \/ ReadErrs \/ StoreRecord \/ StorageErrs \/ Quietly \/ FinalErrs
  PROVE  /\ UNCHANGED <<frames, last_seq, under_way, next, mishaps, peer>>
         /\ stats'.seq_gap = stats.seq_gap /\ stats'.crc_fail = stats.crc_fail
         /\ stats'.filtered = stats.filtered
<1>0. stats \in StatsType
  BY DEF TypeOK
<1>1. CASE ReadSome \/ ReadEnds \/ ReadErrs \/ FinalErrs
  BY <1>1 DEF ReadSome, Read, ReadEnds, Eof, Finish, ReadErrs, ReadFails, FinalErrs,
              FinalFlushFails, Others, svars, vars
<1>2. CASE StoreRecord
  BY <1>2 DEF StoreRecord, DrainWrites, WriteOk, svars
<1>3. CASE Quietly
  BY <1>3 DEF Quietly, DrainCall, DrainBegin, DrainReturns, FlushOk, FinalFlushOk, Others,
              svars, vars
<1>4. CASE StorageErrs
  BY <1>0, <1>4, WriteCounted DEF StorageErrs, DrainErrs, WriteFails, FlushFails,
                                  CountFailure, svars
<1> QED
  BY <1>1, <1>2, <1>3, <1>4

\* A counter that counts answers does not wrap at the next one.
LEMMA CountsUp ==
  ASSUME NoWrap, TypeOK, Conservation, frames < MaxFrames
  PROVE  /\ stats.seq_gap \in Nat /\ stats.crc_fail \in Nat /\ stats.filtered \in Nat
         /\ Inc(stats.seq_gap) = stats.seq_gap + 1
         /\ Inc(stats.crc_fail) = stats.crc_fail + 1
         /\ Inc(stats.filtered) = stats.filtered + 1
<1>1. /\ stats.ok \in Nat /\ stats.dropped \in Nat /\ stats.crc_fail \in Nat
      /\ stats.seq_gap \in Nat /\ stats.filtered \in Nat /\ frames \in Nat
  BY DEF TypeOK, StatsType, Count
<1>2. /\ frames < CounterMax /\ CounterMax \in Nat
  BY <1>1, PipelineAssumption, RingBufAssumption DEF NoWrap
<1>3. stats.seq_gap <= frames /\ stats.crc_fail <= frames /\ stats.filtered <= frames
  BY <1>1 DEF Conservation, total_frames_seen
<1> QED
  BY <1>1, <1>2, <1>3 DEF Inc

\* The junctions after a frame is sent: the same, as it carries the number
\* the sender had announced and announces the next.
LEMMA SendKeepsJunctions ==
  ASSUME PathInv, TypeOK, NEW frame \in Frame, Send(frame)
  PROVE  Junctions' = Junctions
<1> DEFINE n == Len(under_way)
<1>1. n \in Nat /\ frames \in Nat /\ frame # Empty /\ under_way \in Seq(Frame \cup {Empty})
  BY LenProperties, SystemAssumption DEF PathInv, TypeOK
<1>2. /\ Len(under_way') = n + 1 /\ under_way'[n + 1] = frame
      /\ \A i \in 1 .. n : under_way'[i] = under_way[i]
  BY <1>1, AppendProperties DEF Send
<1>3. /\ frames' = frames /\ last_seq' = last_seq
      /\ frame.sequence = next /\ next' = Successor(next)
  BY DEF Send, SenderSteps, hvars, vars
<1>4. \A i \in 0 .. n : Broken(i)' <=> Broken(i)
  <2> SUFFICES ASSUME NEW i \in 0 .. n
               PROVE  Broken(i)' <=> Broken(i)
    OBVIOUS
  <2>1. Before(i)' = Before(i)
    BY <1>1, <1>2, <1>3 DEF Before
  <2>2. After(i)' = After(i)
    BY <1>1, <1>2, <1>3 DEF After
  <2>3. i > 0 => under_way'[i] = under_way[i]
    BY <1>1, <1>2
  <2>4. CASE i < n
    BY <1>1, <1>2, <1>3, <2>1, <2>2, <2>3, <2>4 DEF Broken
  <2>5. CASE i = n
    BY <1>1, <1>2, <1>3, <2>1, <2>2, <2>3, <2>5 DEF Broken
  <2> QED
    BY <1>1, <2>4, <2>5
<1>5. \A i \in Nat : i = n + 1 => ~Broken(i)'
  BY <1>1, <1>2, <1>3 DEF Broken, Before, After
<1>6. \A i \in 0 .. n + 1 : i \in 0 .. n \/ (i \in Nat /\ i = n + 1)
  BY <1>1
<1>7. 0 .. n \subseteq 0 .. n + 1
  BY <1>1
<1> HIDE DEF n
<1>8. {j \in 0 .. n : Broken(j)} = {j \in 0 .. n + 1 : Broken(j)'}
  BY <1>4, <1>5, <1>6, <1>7, Zenon
<1> QED
  BY <1>2, <1>3, <1>8 DEF Junctions, n

\* A number that is lost, or a sender that starts again, can break the one
\* junction behind everything under way.
LEMMA MishapBreaksOne ==
  ASSUME PathInv, TypeOK, Skip \/ Reboot
  PROVE  Junctions' \subseteq Junctions \cup {frames + Len(under_way)}
<1> DEFINE n == Len(under_way)
<1>1. n \in Nat /\ frames \in Nat
  BY LenProperties DEF PathInv, TypeOK
<1>2. UNCHANGED <<frames, last_seq, under_way>>
  BY DEF Skip, Reboot, SenderSteps, hvars, vars
<1>3. ASSUME NEW i \in 0 .. n, i # n
      PROVE  Broken(i)' <=> Broken(i)
  BY <1>1, <1>2, <1>3 DEF Broken, Before, After
<1> QED
  BY <1>2, <1>3 DEF Junctions

\* An empty datagram breaks none: what is behind it is never ingested.
LEMMA EmptyBreaksNone ==
  ASSUME PathInv, TypeOK, SendEmpty
  PROVE  Junctions' \subseteq Junctions
<1> DEFINE n == Len(under_way)
<1>1. n \in Nat /\ frames \in Nat /\ under_way \in Seq(Frame \cup {Empty})
  BY LenProperties DEF PathInv, TypeOK
<1>2. /\ Len(under_way') = n + 1 /\ under_way'[n + 1] = Empty
      /\ \A i \in 1 .. n : under_way'[i] = under_way[i]
  BY <1>1, AppendProperties DEF SendEmpty
<1>3. UNCHANGED <<frames, last_seq, next>>
  BY DEF SendEmpty, SenderSteps, hvars, vars
<1>4. ASSUME NEW i \in 0 .. n + 1, Broken(i)'
      PROVE  i \in 0 .. n /\ Broken(i)
  <2>1. i # n + 1 /\ i # n
    BY <1>1, <1>2, <1>4 DEF Broken
  <2>2. i \in 0 .. n /\ i < n
    BY <1>1, <2>1
  <2>3. Before(i)' = Before(i) /\ After(i)' = After(i)
    BY <1>1, <1>2, <1>3, <2>2 DEF Before, After
  <2> QED
    BY <1>1, <1>2, <1>3, <1>4, <2>2, <2>3 DEF Broken
<1> HIDE DEF n
<1>5. {j \in 0 .. n + 1 : Broken(j)'} \subseteq {j \in 0 .. n : Broken(j)}
  BY <1>4
<1>6. Junctions' = {frames + i : i \in {j \in 0 .. n + 1 : Broken(j)'}}
  BY <1>2, <1>3 DEF Junctions
<1> QED
  BY <1>5, <1>6 DEF Junctions, n

\* Taking the first frame removes the first junction.  If the frame reached
\* the sequence check, the others stay as they are; if not, last_seq stays
\* in front of the next one, which may break.
LEMMA TakeOne ==
  ASSUME PathInv, TypeOK, NEW frame \in Frame, NextAnswer, frame = Head(under_way),
         under_way' = Tail(under_way), frames' = frames + 1, next' = next,
         last_seq' \in {last_seq, frame.sequence}
  PROVE  /\ frames \notin Junctions'
         /\ Junctions' \subseteq Junctions \cup {frames + 1}
         /\ last_seq' = frame.sequence => Junctions' \subseteq Junctions
<1> DEFINE n == Len(under_way)
<1>1. /\ n \in Nat /\ n > 0 /\ frames \in Nat
      /\ frame = under_way[1] /\ Len(under_way') = n - 1
      /\ \A i \in 1 .. n - 1 : under_way'[i] = under_way[i + 1]
  BY HeadIsFrame, LenProperties DEF PathInv, TypeOK
<1>2. frame # Empty /\ frame.sequence \in SeqNumber /\ frame.sequence # None
  BY SystemAssumption, ValidatorAssumption DEF Frame, SeqNumber
<1>3. ASSUME NEW i \in 0 .. n - 1, Broken(i)'
      PROVE  /\ i + 1 \in 0 .. n
             /\ i > 0 \/ last_seq' = frame.sequence => Broken(i + 1)
  <2>1. i + 1 \in 0 .. n /\ i + 1 > 0 /\ i \in Nat
    BY <1>1
  <2>2. After(i)' = After(i + 1)
    <3>1. i = Len(under_way') <=> i + 1 = Len(under_way)
      BY <1>1, <2>1
    <3>2. CASE i = Len(under_way')
      BY <1>3, <3>1, <3>2 DEF After
    <3>3. CASE i # Len(under_way')
      <4>1. i + 1 \in 1 .. n - 1
        <5>1. i \in 0 .. n - 1 /\ i # n - 1
          BY <1>1, <3>3
        <5> HIDE DEF n
        <5> QED
          BY <1>1, <5>1
      <4>2. under_way'[i + 1] = under_way[i + 1 + 1]
        BY <1>1, <4>1
      <4> QED
        BY <3>1, <3>3, <4>2 DEF After
    <3> QED
      BY <3>2, <3>3
  <2>3. i > 0 \/ last_seq' = frame.sequence => Before(i)' = Before(i + 1)
    <3>1. Before(i + 1) = under_way[i + 1].sequence
      BY <2>1 DEF Before
    <3>2. i > 0 => Before(i)' = under_way'[i].sequence /\ under_way'[i] = under_way[i + 1]
      BY <1>1, <2>1 DEF Before
    <3>3. i = 0 => Before(i)' = last_seq' /\ under_way[i + 1] = frame
      BY <1>1 DEF Before
    <3> QED
      BY <2>1, <3>1, <3>2, <3>3
  <2>4. i > 0 => under_way[i + 1] = under_way'[i]
    BY <1>1, <2>1
  <2>5. under_way[i + 1] # Empty
    BY <1>1, <1>2, <1>3, <2>1, <2>4 DEF Broken
  <2>6. i + 1 < n => under_way[i + 1 + 1] # Empty
    <3> SUFFICES ASSUME i + 1 < n PROVE under_way[i + 1 + 1] # Empty
      OBVIOUS
    <3>1. i < Len(under_way') /\ i + 1 \in 1 .. n - 1
      BY <1>1, <2>1
    <3>2. under_way'[i + 1] = under_way[i + 1 + 1]
      BY <1>1, <3>1
    <3> QED
      BY <1>3, <3>1, <3>2 DEF Broken
  <2>7. After(i)' # Successor(Before(i)')
    BY <1>3 DEF Broken, Successor
  <2> QED
    BY <2>1, <2>2, <2>3, <2>5, <2>6, <2>7 DEF Broken
<1> HIDE DEF n
<1>4. Junctions' = {(frames + 1) + i : i \in {j \in 0 .. n - 1 : Broken(j)'}}
  BY <1>1 DEF Junctions
<1>5. Junctions = {frames + i : i \in {j \in 0 .. n : Broken(j)}}
  BY DEF Junctions, n
<1>6. ASSUME NEW k \in Junctions'
      PROVE  /\ k # frames
             /\ k \in Junctions \/ k = frames + 1
             /\ last_seq' = frame.sequence => k \in Junctions
  <2>1. PICK i \in 0 .. n - 1 : k = (frames + 1) + i /\ Broken(i)'
    BY <1>4, <1>6
  <2>2. k = frames + (i + 1) /\ k # frames /\ (i = 0 => k = frames + 1)
    BY <1>1, <2>1
  <2>3. i > 0 \/ last_seq' = frame.sequence => k \in Junctions
    BY <1>3, <1>5, <2>1, <2>2
  <2> QED
    BY <1>1, <2>1, <2>2, <2>3
<1> QED
  BY <1>6

\* The first junction is broken exactly when the sequence check will say so.
LEMMA FirstJunction ==
  ASSUME PathInv, TypeOK, NextAnswer, ~InSequence(last_seq, Head(under_way))
  PROVE  frames \in Junctions
<1>1. /\ Len(under_way) \in Nat /\ Len(under_way) > 0 /\ frames \in Nat
      /\ Head(under_way) = under_way[1] /\ Head(under_way) # Empty
  BY HeadIsFrame, LenProperties, SystemAssumption DEF PathInv, TypeOK
<1>2. last_seq # None /\ under_way[1].sequence # Successor(last_seq)
  BY <1>1 DEF InSequence
<1>3. Broken(0)
  BY <1>1, <1>2 DEF Broken, Before, After
<1>4. 0 \in 0 .. Len(under_way) /\ frames = frames + 0
  BY <1>1
<1> QED
  BY <1>3, <1>4 DEF Junctions

\* seq_gap can be explained, for every sequence width, queue, filter and
\* storage: it never exceeds the numbers lost, the sender's restarts, and the
\* frames refused before the sequence check (Validator::check returns early
\* for those and leaves last_seq alone; a gap re-synchronises it).
THEOREM GapsHaveCauses ==
  ASSUME NoWrap
  PROVE  SystemSafety => []GapsExplained
<1>1. SystemInit => Explained
  <2> SUFFICES ASSUME SystemInit PROVE Explained
    OBVIOUS
  <2>1. last_seq = None /\ under_way = <<>> /\ Len(under_way) = 0 /\ peer = "up"
    BY EmptySeq DEF SystemInit, HostInit, Init
  <2>2. \A i \in 0 .. Len(under_way) : ~Broken(i)
    BY <2>1 DEF Broken
  <2>3. Junctions = {}
    BY <2>2 DEF Junctions
  <2>4. stats.seq_gap = 0 /\ Causes = 0
    BY DEF SystemInit, HostInit, Init, ZeroStats, Causes
  <2> QED
    BY <2>1, <2>3, <2>4, FS_EmptySet DEF Explained
<1>2. TypeOK /\ Conservation /\ PathInv /\ Explained /\ [SystemNext]_sysvars => Explained'
  <2> SUFFICES ASSUME TypeOK, Conservation, PathInv, Explained, [SystemNext]_sysvars
               PROVE  Explained'
    OBVIOUS
  <2>0. /\ stats.seq_gap \in Nat /\ stats.crc_fail \in Nat /\ stats.filtered \in Nat
        /\ mishaps \in Nat /\ IsFiniteSet(Junctions) /\ Cardinality(Junctions) \in Nat
        /\ Causes \in Nat
    BY FS_CardinalityType DEF TypeOK, StatsType, Count, PathInv, Explained, Causes
  \* No more junctions, and the counts unchanged.
  <2>1. ASSUME Junctions' \subseteq Junctions, UNCHANGED peer,
               stats'.seq_gap = stats.seq_gap, Causes' \in Nat, Causes' >= Causes
        PROVE  Explained'
    <3>1. IsFiniteSet(Junctions') /\ Cardinality(Junctions') <= Cardinality(Junctions)
          /\ Cardinality(Junctions') \in Nat
      BY <2>0, <2>1, FS_Subset, FS_CardinalityType
    <3> QED
      BY <2>0, <2>1, <3>1 DEF Explained
  \* One more junction at most, for one more cause.
  <2>2. ASSUME NEW k, Junctions' \subseteq Junctions \cup {k}, UNCHANGED peer,
               stats'.seq_gap = stats.seq_gap, Causes' = Causes + 1
        PROVE  Explained'
    <3>1. /\ IsFiniteSet(Junctions \cup {k})
          /\ Cardinality(Junctions \cup {k}) <= Cardinality(Junctions) + 1
          /\ Cardinality(Junctions \cup {k}) \in Nat
      <4>1. /\ IsFiniteSet(Junctions \cup {k})
            /\ Cardinality(Junctions \cup {k}) =
                 IF k \in Junctions THEN Cardinality(Junctions) ELSE Cardinality(Junctions) + 1
        BY <2>0, FS_AddElement
      <4> QED
        BY <2>0, <4>1
    <3>2. IsFiniteSet(Junctions') /\ Cardinality(Junctions') <= Cardinality(Junctions \cup {k})
          /\ Cardinality(Junctions') \in Nat
      BY <2>2, <3>1, FS_Subset, FS_CardinalityType
    <3> QED
      BY <2>0, <2>2, <3>1, <3>2 DEF Explained
  <2>3. ASSUME SenderSteps
        PROVE  UNCHANGED <<frames, last_seq, stats>> /\ peer = "up"
    BY <2>3 DEF SenderSteps, hvars, vars
  <2>4. ASSUME NEW frame \in Frame, Send(frame)
        PROVE  Explained'
    <3>1. Causes' = Causes /\ UNCHANGED <<peer, stats>>
      BY <2>3, <2>4 DEF Send, Causes
    <3>2. Causes' \in Nat /\ Causes' >= Causes
      BY <2>0, <3>1
    <3>3. Junctions' \subseteq Junctions
      BY <2>4, SendKeepsJunctions
    <3> QED
      BY <2>1, <3>1, <3>2, <3>3
  <2>5. CASE Skip \/ Reboot
    <3>1. Causes' = Causes + 1 /\ UNCHANGED <<peer, stats>>
      BY <2>0, <2>3, <2>5 DEF Skip, Reboot, Mishap, Causes
    <3> QED
      BY <2>2, <2>5, <3>1, MishapBreaksOne
  <2>6. CASE SendEmpty
    <3>1. Causes' \in Nat /\ Causes' >= Causes /\ UNCHANGED <<peer, stats>>
      BY <2>0, <2>3, <2>6 DEF SendEmpty, Mishap, Causes
    <3> QED
      BY <2>1, <2>6, <3>1, EmptyBreaksNone
  <2>7. CASE Close
    <3>1. /\ UNCHANGED <<frames, last_seq, stats, under_way, next, mishaps>>
          /\ peer = "up" /\ peer' = "closed"
      BY <2>3, <2>7 DEF Close
    <3>2. Junctions' = Junctions /\ Causes' = Causes
      BY <3>1 DEF Junctions, Broken, Before, After, Causes
    <3> QED
      BY <3>1, <3>2 DEF Explained
  <2>8. CASE Reset
    <3>1. /\ peer = "up" /\ peer' = "reset" /\ UNCHANGED <<stats, mishaps, frames>>
          /\ under_way' = <<>> /\ Len(under_way') = 0 /\ frames \in Nat
      BY <2>3, <2>8, EmptySeq DEF Reset, TypeOK
    <3>2. Causes' = Causes /\ stats.seq_gap <= Causes
      BY <2>0, <3>1 DEF Causes, Explained
    <3>3. IsFiniteSet(Junctions')
      <4>1. Junctions' \subseteq {frames}
        BY <3>1 DEF Junctions
      <4> QED
        BY <4>1, FS_Singleton, FS_Subset
    <3> QED
      BY <3>1, <3>2, <3>3 DEF Explained
  <2>9. CASE IngestNext
    <3> DEFINE frame == Head(under_way)
    <3>1. /\ frame \in Frame /\ NextAnswer /\ Ingest(frame)
          /\ under_way' = Tail(under_way) /\ UNCHANGED <<peer, next, mishaps>>
      BY <2>9, HeadIsFrame DEF IngestNext
    <3>2. peer # "reset"
      BY <3>1, HeadIsFrame, EmptySeq DEF PathInv
    <3> HIDE DEF frame
    <3>3. /\ frames < MaxFrames /\ frames' = frames + 1
          /\ last_seq' \in {last_seq, frame.sequence}
      BY <3>1, IngestSequence
    <3>4. /\ frames \notin Junctions'
          /\ Junctions' \subseteq Junctions \cup {frames + 1}
          /\ last_seq' = frame.sequence => Junctions' \subseteq Junctions
      BY <3>1, <3>3, TakeOne DEF frame
    <3>5. /\ Inc(stats.seq_gap) = stats.seq_gap + 1
          /\ Inc(stats.crc_fail) = stats.crc_fail + 1
          /\ Inc(stats.filtered) = stats.filtered + 1
      BY <3>3, CountsUp
    <3>6. CASE /\ last_seq' = last_seq
               /\ stats'.seq_gap = stats.seq_gap
               /\ \/ stats'.crc_fail = Inc(stats.crc_fail) /\ stats'.filtered = stats.filtered
                  \/ stats'.crc_fail = stats.crc_fail /\ stats'.filtered = Inc(stats.filtered)
      <4>1. Causes' = Causes + 1
        <5>1. \/ stats'.crc_fail = stats.crc_fail + 1 /\ stats'.filtered = stats.filtered
              \/ stats'.crc_fail = stats.crc_fail /\ stats'.filtered = stats.filtered + 1
          BY <3>5, <3>6
        <5>2. mishaps' = mishaps
          BY <3>1
        <5> QED
          BY <2>0, <5>1, <5>2 DEF Causes
      <4>2. Junctions' \subseteq Junctions \cup {frames + 1} /\ UNCHANGED peer
        BY <3>1, <3>4
      <4>3. stats'.seq_gap = stats.seq_gap
        BY <3>6
      <4> HIDE DEF Explained
      <4> QED
        BY <2>2, <4>1, <4>2, <4>3, Zenon
    <3>7. ASSUME last_seq' = frame.sequence,
                 stats'.crc_fail = stats.crc_fail,
                 stats'.filtered \in {stats.filtered, Inc(stats.filtered)}
          PROVE  Causes' \in Nat /\ Causes' >= Causes /\ Junctions' \subseteq Junctions
      <4>1. stats'.filtered \in {stats.filtered, stats.filtered + 1}
        BY <3>5, <3>7
      <4>2. mishaps' = mishaps
        BY <3>1
      <4>3. Causes' \in Nat /\ Causes' >= Causes
        BY <2>0, <3>7, <4>1, <4>2 DEF Causes
      <4> QED
        BY <3>4, <3>7, <4>3
    <3>8. CASE /\ last_seq' = frame.sequence
               /\ InSequence(last_seq, frame) /\ stats'.seq_gap = stats.seq_gap
               /\ stats'.crc_fail = stats.crc_fail
               /\ stats'.filtered \in {stats.filtered, Inc(stats.filtered)}
      BY <2>1, <3>1, <3>7, <3>8
    <3>9. CASE /\ last_seq' = frame.sequence
               /\ ~InSequence(last_seq, frame) /\ stats'.seq_gap = Inc(stats.seq_gap)
               /\ stats'.crc_fail = stats.crc_fail
               /\ stats'.filtered \in {stats.filtered, Inc(stats.filtered)}
      <4>1. frames \in Junctions
        BY <3>1, <3>9, FirstJunction DEF frame
      <4>2. Junctions' \subseteq Junctions \ {frames}
        BY <3>4, <3>7, <3>9
      <4>3. /\ IsFiniteSet(Junctions \ {frames})
            /\ Cardinality(Junctions \ {frames}) = Cardinality(Junctions) - 1
            /\ Cardinality(Junctions \ {frames}) \in Nat
        BY <2>0, <4>1, FS_RemoveElement, FS_CardinalityType
      <4>4. /\ IsFiniteSet(Junctions') /\ Cardinality(Junctions') \in Nat
            /\ Cardinality(Junctions') <= Cardinality(Junctions) - 1
        BY <4>2, <4>3, FS_Subset, FS_CardinalityType
      <4>5. stats'.seq_gap = stats.seq_gap + 1 /\ Causes' \in Nat /\ Causes' >= Causes
        BY <3>5, <3>7, <3>9
      <4>6. stats.seq_gap + Cardinality(Junctions) <= Causes /\ peer' = peer
        BY <3>1, <3>2 DEF Explained
      <4>7. stats'.seq_gap + Cardinality(Junctions') <= Causes'
        <5>1. \A a, b, c, d, e \in Nat : a + b <= c /\ d <= b - 1 /\ e >= c => (a + 1) + d <= e
          OBVIOUS
        <5>2. stats.seq_gap \in Nat /\ Cardinality(Junctions) \in Nat /\ Causes \in Nat
          BY <2>0
        <5> QED
          BY <4>4, <4>5, <4>6, <5>1, <5>2, Zenon
      <4> QED
        BY <3>2, <4>4, <4>6, <4>7 DEF Explained
    <3> QED
      BY <3>1, <3>6, <3>8, <3>9, IngestSequence
  <2>10. CASE ReadSome \/ ReadEnds \/ ReadErrs \/ StoreRecord \/ StorageErrs \/ Quietly
              \/ FinalErrs \/ UNCHANGED sysvars
    <3>1. /\ UNCHANGED <<frames, last_seq, under_way, next, mishaps, peer>>
          /\ stats'.seq_gap = stats.seq_gap /\ stats'.crc_fail = stats.crc_fail
          /\ stats'.filtered = stats.filtered
      BY <2>10, OtherSequence DEF sysvars, hvars, svars, vars
    <3>2. Junctions' = Junctions /\ Causes' = Causes
      BY <3>1 DEF Junctions, Broken, Before, After, Causes
    <3> QED
      BY <3>1, <3>2 DEF Explained
  <2> QED
    BY <2>4, <2>5, <2>6, <2>7, <2>8, <2>9, <2>10 DEF SystemNext, Sender, Running
<1>3. TypeOK /\ PathInv /\ Explained => GapsExplained
  <2> SUFFICES ASSUME TypeOK, PathInv, Explained PROVE GapsExplained
    OBVIOUS
  <2>1. /\ stats.seq_gap \in Nat /\ stats.crc_fail \in Nat /\ stats.filtered \in Nat
        /\ mishaps \in Nat /\ Cardinality(Junctions) \in Nat
    BY FS_CardinalityType DEF TypeOK, StatsType, Count, PathInv, Explained
  <2> QED
    BY <2>1 DEF Explained, Causes, GapsExplained
<1> QED
  BY <1>1, <1>2, <1>3, PathKept, SystemUsesHost, HostUsesPipeline, TypeCorrect, Accounting,
     PTL DEF SystemSafety

-----------------------------------------------------------------------------
(* The log keeps the order of arrival from end to end.  This puts together  *)
(* what is proved of the queue (Pipeline, above) and of the segment files   *)
(* (FileStorageProofs) with the clock and the calls of storage.write in     *)
(* between.                                                                 *)

Store == INSTANCE FileStorageProofs

\* The instance of FileStorage in System is the one the proofs are about.
LEMMA SameWrite ==
  ASSUME NEW r
  PROVE  Files!Write(r) <=> Store!Write(r)
BY DEF Files!Write, Files!WriteInPlace, Files!WriteRotated, Files!CreateFails,
       Files!RotateFlushFails, Files!Call, Files!NeedsRotate, Files!Wrote, Files!Outcome,
       Files!Done, Files!Failed, Files!Created, Files!NextIndex, Files!Rotate, Files!Piece,
       Store!Write, Store!WriteInPlace, Store!WriteRotated, Store!CreateFails,
       Store!RotateFlushFails, Store!Call, Store!NeedsRotate, Store!Wrote, Store!Outcome,
       Store!Done, Store!Failed, Store!Created, Store!NextIndex, Store!Rotate, Store!Piece

\* The program calls the storage as module FileStorage allows (drain's writes
\* and flushes, one after the other), so that what is proved of the segment
\* files holds of the program's.
THEOREM SystemUsesStorage == SystemSafety => Store!Spec
<1>1. SystemInit => Store!Init
  BY DEF SystemInit, Files!Init, Store!Init
<1>2. [SystemNext]_sysvars => [Store!Next]_(Store!vars)
  <2> SUFFICES ASSUME [SystemNext]_sysvars
               PROVE  Store!Next \/ UNCHANGED fvars
    BY DEF fvars, Store!vars
  <2>1. CASE StorageWrite
    BY <2>1, SameWrite DEF StorageWrite, Store!Next, Files!Record, Store!Record
  <2>2. CASE ~StorageWrite
    BY <2>2 DEF SystemNext, Sender, Send, Skip, Reboot, SendEmpty, Close, Reset, SenderSteps,
       Running, ReadSome, ReadEnds, ReadErrs, IngestNext, StoreRecord, StorageErrs, Quietly,
       FinalErrs, Others, sysvars
  <2> QED
    BY <2>1, <2>2
<1> QED
  BY <1>1, <1>2, PTL DEF SystemSafety, Store!Spec

-----------------------------------------------------------------------------
\* Every step of the program is one of the pipeline.
LEMMA PipelineStep ==
  ASSUME PathInv, [SystemNext]_sysvars
  PROVE  [Next]_vars
BY HostStep DEF HostNext, hvars, Read, Eof, ReadFails, Finish, Work, IngestOne, NextAnswer,
   DrainCall, DrainWrites, DrainReturns, DrainErrs, FinalFlushOk, FinalFlushFails, Exited,
   Next, Drain

\* The clock never runs backwards, and each frame has the time at which it
\* was ingested.
ClockInv ==
  /\ elapsed \in Nat
  /\ stamps \in Seq(Nat) /\ Len(stamps) = Len(tracked)
  /\ \A i \in 1 .. Len(stamps) : stamps[i] <= Now(elapsed)
  /\ \A i, j \in 1 .. Len(stamps) : i < j => stamps[i] <= stamps[j]

\* Saturation keeps the order of two times.
LEMMA NowMonotone ==
  ASSUME NEW s \in Nat, NEW t \in Nat, s <= t
  PROVE  Now(s) \in Nat /\ Now(t) \in Nat /\ Now(s) <= Now(t)
BY SystemAssumption DEF Now

\* Only ingest stamps, and only a frame that reaches the sequence check.
LEMMA ClockKept ==
  ASSUME PathInv, TypeOK, ClockInv, [SystemNext]_sysvars
  PROVE  ClockInv'
<1>1. CASE UNCHANGED <<tracked, stamps, elapsed>>
  BY <1>1 DEF ClockInv, Now
<1>2. CASE IngestNext /\ tracked' # tracked
  <2>1. /\ elapsed' \in elapsed .. MaxElapsed /\ stamps' = Append(stamps, Now(elapsed'))
        /\ elapsed \in Nat
    BY <1>2 DEF IngestNext, ClockInv
  <2>2. elapsed' \in Nat /\ elapsed <= elapsed'
    BY <2>1, SystemAssumption
  <2>3. Now(elapsed) \in Nat /\ Now(elapsed') \in Nat /\ Now(elapsed) <= Now(elapsed')
    BY <2>1, <2>2, NowMonotone
  <2>4. Len(tracked') = Len(tracked) + 1
    <3>1. \E frame \in Frame : tracked' = Append(tracked, frame.sequence)
      BY <1>2, PipelineStep, Steps
    <3> QED
      BY <3>1, AppendProperties DEF TypeOK, Frame
  <2>5. /\ Len(stamps) \in Nat /\ stamps' \in Seq(Nat) /\ Len(stamps') = Len(stamps) + 1
        /\ stamps'[Len(stamps) + 1] = Now(elapsed')
        /\ \A i \in 1 .. Len(stamps) : stamps'[i] = stamps[i] /\ stamps[i] \in Nat
    BY <2>1, <2>3, AppendProperties, LenProperties, ElementOfSeq DEF ClockInv
  <2>6. \A i \in 1 .. Len(stamps) : stamps[i] <= Now(elapsed')
    BY <2>3, <2>5 DEF ClockInv
  <2>7. \A i \in 1 .. Len(stamps') : i \in 1 .. Len(stamps) \/ i = Len(stamps) + 1
    BY <2>5
  <2>8. \A i \in 1 .. Len(stamps') : stamps'[i] <= Now(elapsed')
    BY <2>3, <2>5, <2>6, <2>7
  <2>9. ASSUME NEW i \in 1 .. Len(stamps'), NEW j \in 1 .. Len(stamps'), i < j
        PROVE  stamps'[i] <= stamps'[j]
    <3>1. i \in 1 .. Len(stamps)
      BY <2>5, <2>9
    <3> QED
      BY <2>5, <2>6, <2>7, <2>9, <3>1 DEF ClockInv
  <2>10. Len(stamps') = Len(tracked') /\ Now(elapsed)' = Now(elapsed')
    BY <2>4, <2>5 DEF ClockInv, Now
  <2> QED
    BY <2>2, <2>5, <2>8, <2>9, <2>10 DEF ClockInv
<1>3. CASE IngestNext /\ tracked' = tracked
  BY <1>1, <1>3 DEF IngestNext
<1>4. CASE ~IngestNext
  <2>1. UNCHANGED <<stamps, elapsed>>
    BY <1>4 DEF SystemNext, Sender, Send, Skip, Reboot, SendEmpty, Close, Reset, SenderSteps,
       Running, ReadSome, ReadEnds, ReadErrs, StoreRecord, StorageErrs, Quietly, FinalErrs,
       Read, ReadFails, Eof, DrainWrites, DrainErrs, cvars, sysvars, Others
  <2>2. tracked' = tracked
    <3>1. CASE Sender \/ UNCHANGED sysvars
      BY <3>1 DEF Sender, Send, Skip, Reboot, SendEmpty, Close, Reset, SenderSteps, sysvars,
         hvars, vars
    <3>2. CASE ReadSome \/ ReadEnds \/ ReadErrs \/ FinalErrs
      BY <3>2 DEF ReadSome, Read, ReadEnds, Eof, Finish, ReadErrs, ReadFails, FinalErrs,
         FinalFlushFails, vars
    <3>3. CASE StoreRecord \/ StorageErrs
      BY <3>3 DEF StoreRecord, DrainWrites, WriteOk, StorageErrs, DrainErrs, WriteFails,
         FlushFails
    <3>4. CASE Quietly
      BY <3>4 DEF Quietly, DrainCall, DrainBegin, DrainReturns, FlushOk, FinalFlushOk, vars
    <3> QED
      BY <1>4, <3>1, <3>2, <3>3, <3>4 DEF SystemNext, Running
  <2> QED
    BY <1>1, <2>1, <2>2
<1> QED
  BY <1>2, <1>3, <1>4
-----------------------------------------------------------------------------
\* The calls of storage.write take the records out of the queue, in order.
LoggedInv ==
  /\ logged \in Seq(Record) /\ Len(logged) = writes
  /\ Ascending(logged)
  /\ \A i \in 1 .. Len(logged) : logged[i].nth <= Len(tracked)
  /\ \A i \in 1 .. Len(logged), j \in 1 .. Len(ringbuf.queue) :
       logged[i].nth < ringbuf.queue[j].nth

\* What a call of storage.write takes, and what leaves `logged` alone.
LEMMA LogSteps ==
  ASSUME TypeOK, [SystemNext]_sysvars
  PROVE  \/ UNCHANGED <<logged, writes>>
         \/ /\ ringbuf.queue # <<>> /\ tracked' = tracked
            /\ ringbuf'.queue = Tail(ringbuf.queue)
            /\ logged' = Append(logged, Head(ringbuf.queue))
            /\ writes' = writes + 1
<1>1. ASSUME StorageWrite, WriteOk \/ WriteFails
      PROVE  /\ ringbuf.queue # <<>> /\ tracked' = tracked
             /\ ringbuf'.queue = Tail(ringbuf.queue)
             /\ logged' = Append(logged, Head(ringbuf.queue))
             /\ writes' = writes + 1
  <2>1. writes' = writes + 1
    BY <1>1 DEF StorageWrite, Files!Write, Files!WriteInPlace, Files!WriteRotated,
       Files!CreateFails, Files!RotateFlushFails, Files!Rotate, Files!Call
  <2>2. /\ ringbuf.queue # <<>> /\ tracked' = tracked /\ ringbuf' = Pop(ringbuf)
    BY <1>1 DEF WriteOk, WriteFails
  <2>3. logged' = Append(logged, Head(ringbuf.queue))
    BY <1>1 DEF StorageWrite, Oldest
  <2> QED
    BY <2>1, <2>2, <2>3, PopProperties
<1>2. CASE StoreRecord
  BY <1>1, <1>2 DEF StoreRecord, DrainWrites
<1>3. CASE StorageErrs /\ ringbuf.queue # <<>> /\ StorageWrite
  BY <1>1, <1>3 DEF StorageErrs, DrainErrs, FlushFails
<1>4. CASE StorageErrs /\ UNCHANGED <<fvars, logged>>
  BY <1>4 DEF fvars
<1>5. CASE ~StoreRecord /\ ~StorageErrs
  BY <1>5 DEF SystemNext, Sender, Send, Skip, Reboot, SendEmpty, Close, Reset, SenderSteps,
     Running, ReadSome, ReadEnds, ReadErrs, IngestNext, Quietly, FinalErrs, Others, fvars,
     sysvars
<1> QED
  BY <1>2, <1>3, <1>4, <1>5 DEF StorageErrs

\* The queue is ascending, so what drain takes out of it is too.
LEMMA LoggedKept ==
  ASSUME PathInv, TypeOK, InOrder, LoggedInv, [SystemNext]_sysvars
  PROVE  LoggedInv'
<1> DEFINE q == ringbuf.queue
<1>0. /\ q \in Seq(Record) /\ Len(q) \in Nat /\ \A j \in 1 .. Len(q) : q[j] \in Record
      /\ Len(tracked) \in Nat /\ Len(logged) \in Nat
      /\ \A i \in 1 .. Len(logged) : logged[i] \in Record
      /\ \A r \in Record : r.nth \in Nat
      /\ \A j \in 1 .. Len(q) : q[j].nth <= Len(tracked)
  <2>1. q \in Seq(Record) /\ tracked \in Seq(SeqNumber) /\ logged \in Seq(Record)
    BY DEF TypeOK, RingType, LoggedInv
  <2>2. \A r \in Record : r.nth \in Nat
    BY DEF Record
  <2> HIDE DEF q
  <2>3. /\ Len(q) \in Nat /\ \A j \in 1 .. Len(q) : q[j] \in Record
        /\ Len(tracked) \in Nat /\ Len(logged) \in Nat
        /\ \A i \in 1 .. Len(logged) : logged[i] \in Record
    BY <2>1, LenProperties, ElementOfSeq
  <2>4. \A j \in 1 .. Len(q) : q[j].nth <= Len(tracked)
    BY DEF q, InOrder, Arrived
  <2> QED
    BY <2>1, <2>2, <2>3, <2>4
<1>1. [Next]_vars
  BY PipelineStep
\* storage.write is called with the oldest record of the queue.
<1>2. CASE /\ q # <<>> /\ tracked' = tracked /\ q' = Tail(q)
           /\ logged' = Append(logged, Head(q)) /\ writes' = writes + 1
  <2>1. /\ Len(q) > 0 /\ Head(q) = q[1] /\ Len(q') = Len(q) - 1
        /\ \A j \in 1 .. Len(q') : q'[j] = q[j + 1]
    BY <1>0, <1>2, EmptySeq, HeadTailProperties
  <2>2. /\ q[1] \in Record /\ logged' \in Seq(Record) /\ Len(logged') = Len(logged) + 1
        /\ logged'[Len(logged) + 1] = q[1]
        /\ \A i \in 1 .. Len(logged) : logged'[i] = logged[i]
    BY <1>0, <1>2, <2>1, AppendProperties DEF LoggedInv
  <2>3. \A i \in 1 .. Len(logged') : i \in 1 .. Len(logged) \/ i = Len(logged) + 1
    BY <1>0, <2>2
  <2>4. 1 \in 1 .. Len(q) /\ \A i \in 1 .. Len(logged) : logged[i].nth < q[1].nth
    BY <1>0, <2>1 DEF LoggedInv
  <2>5. Ascending(logged)'
    <3> SUFFICES ASSUME NEW i \in 1 .. Len(logged'), NEW j \in 1 .. Len(logged'), i < j
                 PROVE  logged'[i].nth < logged'[j].nth
      BY DEF Ascending
    <3>1. i \in 1 .. Len(logged)
      BY <1>0, <2>2
    <3> QED
      BY <2>2, <2>3, <2>4, <3>1 DEF LoggedInv, Ascending
  <2>6. \A i \in 1 .. Len(logged') : logged'[i].nth <= Len(tracked')
    BY <1>0, <1>2, <2>2, <2>3, <2>4 DEF LoggedInv
  <2>7. ASSUME NEW i \in 1 .. Len(logged'), NEW j \in 1 .. Len(q')
        PROVE  logged'[i].nth < q'[j].nth
    <3>1. j + 1 \in 1 .. Len(q) /\ 1 < j + 1 /\ q'[j] = q[j + 1]
      BY <1>0, <2>1, <2>7
    <3>2. q[1].nth < q[j + 1].nth
      BY <2>4, <3>1 DEF InOrder, Ascending
    <3> QED
      BY <2>2, <2>3, <3>1, <3>2 DEF LoggedInv
  <2> QED
    BY <1>2, <2>2, <2>5, <2>6, <2>7 DEF LoggedInv
<1>3. CASE UNCHANGED <<logged, writes>>
  <2>1. CASE tracked' = tracked /\ q' = q
    BY <1>3, <2>1 DEF LoggedInv, Ascending
  <2>2. CASE tracked' = tracked /\ q # <<>> /\ q' = Tail(q)
    <3>1. /\ Len(q') = Len(q) - 1 /\ \A j \in 1 .. Len(q') : q'[j] = q[j + 1]
      BY <1>0, <2>2, HeadTailProperties
    <3>2. \A j \in 1 .. Len(q') : j + 1 \in 1 .. Len(q)
      BY <1>0, <3>1
    <3> QED
      BY <1>3, <2>2, <3>1, <3>2 DEF LoggedInv, Ascending
  <2>3. ASSUME NEW frame \in Frame, tracked' = Append(tracked, frame.sequence)
        PROVE  Len(tracked') = Len(tracked) + 1
    BY <2>3, AppendProperties DEF TypeOK, Frame
  <2>4. ASSUME NEW frame \in Frame, tracked' = Append(tracked, frame.sequence),
               q' = q \/ q' = Append(q, RecordOf(frame, Len(tracked) + 1))
        PROVE  LoggedInv'
    <3>1. \A i \in 1 .. Len(logged) : logged[i].nth <= Len(tracked')
      BY <1>0, <2>3, <2>4 DEF LoggedInv
    <3>2. ASSUME NEW i \in 1 .. Len(logged), NEW j \in 1 .. Len(q')
          PROVE  logged[i].nth < q'[j].nth
      <4>1. CASE j \in 1 .. Len(q) /\ q'[j] = q[j]
        BY <3>2, <4>1 DEF LoggedInv
      <4>2. CASE q'[j].nth = Len(tracked) + 1
        BY <1>0, <3>2, <4>2 DEF LoggedInv
      <4>3. CASE q' = Append(q, RecordOf(frame, Len(tracked) + 1))
        <5>1. RecordOf(frame, Len(tracked) + 1).nth = Len(tracked) + 1
          BY DEF RecordOf
        <5>2. /\ Len(q') = Len(q) + 1
              /\ q'[Len(q) + 1] = RecordOf(frame, Len(tracked) + 1)
              /\ \A n \in 1 .. Len(q) : q'[n] = q[n]
          BY <1>0, <4>3, AppendProperties
        <5> QED
          BY <1>0, <3>2, <4>1, <4>2, <5>1, <5>2
      <4> QED
        BY <2>4, <3>2, <4>1, <4>3
    <3> QED
      BY <1>3, <3>1, <3>2 DEF LoggedInv, Ascending
  <2> QED
    BY <1>1, <2>1, <2>2, <2>4, Steps
<1> QED
  BY <1>2, <1>3, LogSteps
-----------------------------------------------------------------------------
\* What holds of the segment files under every caller holds here.
LEMMA StorageHolds ==
  SystemSafety => [](Store!TypeOK /\ Store!OpenedInv /\ Store!CallOrder
                       /\ Store!AllThere /\ Store!ShortFiles /\ Store!AckedThere)
<1>1. Store!FileStorageAssumption
  BY SystemAssumption DEF Store!FileStorageAssumption
<1>2. Store!Spec => [](Store!TypeOK /\ Store!OpenedInv)
  BY <1>1, Store!StorageTypes
<1>3. Store!Spec => []Store!CallOrder
  BY <1>1, Store!SegmentsInCallOrder
<1>4. Store!Spec => [](Store!AllThere /\ Store!ShortFiles)
  BY <1>1, Store!CleanFilesComplete
<1>5. Store!Spec => []Store!AckedThere
  BY <1>1, Store!AcknowledgedIsThere
<1> QED
  BY SystemUsesStorage, <1>2, <1>3, <1>4, <1>5, PTL

\* LogInOrder, for every source, every sender, every chunk and queue size and
\* every failure of the storage: run_loop's drain passes the records on in
\* the order of the queue, and FileStorage::write keeps that order over all
\* segments of the run.
THEOREM LogKeepsOrder == SystemSafety => []LogInOrder
<1>1. SystemInit => ClockInv /\ LoggedInv
  <2> SUFFICES ASSUME SystemInit PROVE ClockInv /\ LoggedInv
    OBVIOUS
  <2>1. /\ elapsed = 0 /\ stamps = <<>> /\ logged = <<>> /\ tracked = <<>> /\ writes = 0
    BY DEF SystemInit, HostInit, Init, Files!Init
  <2>2. /\ Len(stamps) = 0 /\ Len(logged) = 0 /\ Len(tracked) = 0
        /\ stamps \in Seq(Nat) /\ logged \in Seq(Record)
    BY <2>1, EmptySeq
  <2> QED
    BY <2>1, <2>2 DEF ClockInv, LoggedInv, Ascending
<1>2. PathInv /\ TypeOK /\ InOrder /\ ClockInv /\ LoggedInv /\ [SystemNext]_sysvars
        => ClockInv' /\ LoggedInv'
  BY ClockKept, LoggedKept
<1>3. ClockInv /\ LoggedInv /\ TypeOK /\ Store!CallOrder => LogInOrder
  <2> SUFFICES ASSUME ClockInv, LoggedInv, TypeOK, Store!CallOrder,
                      NEW a \in LogPlaces, NEW b \in LogPlaces, Earlier(a, b)
               PROVE  /\ RecordAt(a).nth < RecordAt(b).nth
                      /\ stamps[RecordAt(a).nth] <= stamps[RecordAt(b).nth]
    BY DEF LogInOrder
  <2> DEFINE id(c) == disk[opened[c[1]]][c[2]].id
  <2>1. \A c \in LogPlaces : /\ c[1] \in 1 .. Len(opened)
                             /\ c[2] \in 1 .. Len(disk[opened[c[1]]])
    BY DEF LogPlaces, Files!Read
  <2>2. \A c \in LogPlaces : id(c) \in 1 .. Len(logged)
    BY <2>1 DEF Store!CallOrder, Store!PieceAt, LoggedInv
  <2>3. id(a) < id(b)
    BY <2>1 DEF Store!CallOrder, Store!PieceAt, Earlier
  <2>4. \A c \in LogPlaces : RecordAt(c) = logged[id(c)]
    BY DEF RecordAt
  <2> HIDE DEF id
  <2>5. RecordAt(a).nth < RecordAt(b).nth
    BY <2>2, <2>3, <2>4 DEF LoggedInv, Ascending
  <2>6. \A c \in LogPlaces : RecordAt(c).nth \in 1 .. Len(stamps)
    <3>1. \A i \in 1 .. Len(logged) : logged[i].nth \in Nat /\ logged[i].nth >= 1
      <4>1. \A r \in Record : r.nth \in Nat /\ r.nth >= 1
        BY DEF Record
      <4> QED
        BY <4>1, ElementOfSeq DEF LoggedInv
    <3>2. Len(tracked) \in Nat
      BY LenProperties DEF TypeOK
    <3> QED
      BY <2>2, <2>4, <3>1, <3>2 DEF LoggedInv, ClockInv
  <2> QED
    BY <2>5, <2>6 DEF ClockInv
<1> QED
  BY <1>1, <1>2, <1>3, StorageHolds, PathKept, SystemUsesHost, HostUsesPipeline, TypeCorrect,
     ArrivalOrder, PTL DEF SystemSafety

-----------------------------------------------------------------------------
\* The loop is left only when the source has nothing more to give, and while
\* no storage call has failed each has been acknowledged.
WayOut ==
  /\ pc \in {"final", "done"} => under_way = <<>> \/ Head(under_way) = Empty
  /\ stats.write_fail = 0 => Len(acked) = writes /\ Len(stored) = writes

\* A call of storage.write that returns Ok adds a record to either end.
LEMMA StoreStep ==
  ASSUME TypeOK, Store!TypeOK, StoreRecord
  PROVE  /\ Len(acked') = Len(acked) + 1 /\ Len(stored') = Len(stored) + 1
         /\ writes' = writes + 1 /\ stats' = stats
         /\ pc = "drain" /\ pc' = "drain"
<1>1. PICK r \in Files!Record : Files!Write(r) /\ acked' # acked
  BY DEF StoreRecord, StorageWrite
<1>2. acked' = Append(acked, r) /\ writes' = writes + 1
  BY <1>1 DEF Files!Write, Files!WriteInPlace, Files!WriteRotated, Files!CreateFails,
     Files!RotateFlushFails, Files!Rotate, Files!Call, Files!Outcome, Files!Done, Files!Failed
<1>3. Len(acked') = Len(acked) + 1
  BY <1>1, <1>2, AppendProperties DEF Store!TypeOK, Files!Record, Store!Record
<1>4. /\ stored' = Append(stored, Oldest(ringbuf)) /\ ringbuf.queue # <<>> /\ stats' = stats
      /\ pc = "drain" /\ pc' = "drain"
  BY DEF StoreRecord, DrainWrites, WriteOk
<1>5. Len(stored') = Len(stored) + 1
  BY <1>4, PopProperties, AppendProperties DEF TypeOK
<1> QED
  BY <1>2, <1>3, <1>4, <1>5

LEMMA WayOutKept ==
  ASSUME NoWrap, TypeOK, PathInv, Store!TypeOK, WayOut, [SystemNext]_sysvars
  PROVE  WayOut'
<1>1. CASE Sender
  <2>1. pc = "read" /\ UNCHANGED <<pc, stats, stored, acked, writes>>
    BY <1>1 DEF Sender, Send, Skip, Reboot, SendEmpty, Close, Reset, SenderSteps, hvars, vars,
       fvars
  <2> QED
    BY <2>1 DEF WayOut
<1>2. CASE ReadSome \/ ReadErrs \/ FinalErrs
  <2>1. pc' \in {"ingest", "failed"} /\ UNCHANGED <<stats, stored, acked, writes>>
    BY <1>2 DEF ReadSome, Read, ReadErrs, ReadFails, FinalErrs, FinalFlushFails, Others,
       fvars, vars
  <2> QED
    BY <2>1 DEF WayOut
<1>3. CASE ReadEnds
  <2>1. UNCHANGED <<stats, stored, acked, writes, under_way>> /\ SourceEnds
    BY <1>3 DEF ReadEnds, Eof, Finish, Others, fvars, svars, vars
  <2> QED
    BY <2>1 DEF WayOut, SourceEnds
<1>4. CASE IngestNext
  <2>1. pc = "ingest" /\ pc' = pc /\ UNCHANGED <<acked, writes>>
    BY <1>4 DEF IngestNext, NextAnswer, fvars
  <2>2. stored' = stored /\ stats'.write_fail = stats.write_fail
    BY <1>4, HeadIsFrame, IngestStep DEF IngestNext
  <2> QED
    BY <2>1, <2>2 DEF WayOut
<1>5. CASE StoreRecord
  BY <1>5, StoreStep DEF WayOut
<1>6. CASE StorageErrs
  <2>1. pc' = "read" /\ stats'.write_fail > 0 /\ stats'.write_fail \in Nat
    BY <1>6, DrainErrStep DEF StorageErrs, DrainErrs, TypeOK, StatsType, Count
  <2> QED
    BY <2>1 DEF WayOut
<1>7. CASE Quietly
  <2>1. UNCHANGED <<stats, stored, acked, writes, under_way>>
    BY <1>7 DEF Quietly, DrainCall, DrainBegin, DrainReturns, FlushOk, FinalFlushOk, Others,
       fvars, svars, vars
  <2>2. pc' \in {"final", "done"} => pc = "final"
    BY <1>7 DEF Quietly, DrainCall, DrainReturns, FinalFlushOk
  <2> QED
    BY <2>1, <2>2 DEF WayOut
<1>8. CASE UNCHANGED sysvars
  BY <1>8 DEF sysvars, hvars, vars, fvars, svars, WayOut
<1> QED
  BY <1>1, <1>2, <1>3, <1>4, <1>5, <1>6, <1>7, <1>8 DEF SystemNext, Running

\* If every call of storage.write was acknowledged, each has one place in the
\* segments, and the reader finds it.
LEMMA PlaceOfEachCall ==
  ASSUME Store!TypeOK, Store!OpenedInv, Store!CallOrder, Store!AllThere, Store!ShortFiles,
         Len(acked) = writes
  PROVE  Cardinality(LogPlaces) = writes
<1> DEFINE id == [c \in LogPlaces |-> disk[opened[c[1]]][c[2]].id]
<1>0. writes \in Nat /\ writes <= MaxWrites /\ MaxWrites \in Nat
  BY SystemAssumption DEF Store!TypeOK
<1>1. ASSUME NEW k \in 1 .. Len(opened), NEW j \in 1 .. Len(disk[opened[k]])
      PROVE  <<k, j>> \in LogPlaces
  <2>1. \A i \in 1 .. Len(disk[opened[k]]) : Files!Whole(disk[opened[k]][i])
    BY DEF Store!AllThere, Store!PieceAt, Store!Whole, Files!Whole
  <2>2. disk[opened[k]][j].size \in Nat /\ Len(disk[opened[k]]) \in Nat
    <3>1. disk[opened[k]] \in Seq(Store!Pieces)
      BY DEF Store!OpenedInv, Store!IsFile
    <3>2. disk[opened[k]][j] \in Store!Pieces /\ Len(disk[opened[k]]) \in Nat
      BY <3>1, ElementOfSeq, LenProperties
    <3> QED
      BY <3>2, SystemAssumption DEF Store!Pieces
  <2>3. j = 1 \/ j - 1 \in 1 .. Len(disk[opened[k]])
    BY <2>2
  <2>4. Files!Readable(disk[opened[k]], j)
    BY <2>1, <2>2, <2>3 DEF Files!Readable, Files!StartsChunk, Files!EndsChunk, Files!Decodes,
                            Files!Whole
  <2>5. j \in 1 .. MaxWrites
    <3>1. disk[opened[k]][j].id \in 1 .. writes /\ j <= disk[opened[k]][j].id
      BY DEF Store!CallOrder, Store!ShortFiles, Store!PieceAt
    <3> QED
      BY <1>0, <2>2, <3>1
  <2> QED
    BY <2>4, <2>5 DEF LogPlaces, Files!Read
<1>2. ASSUME NEW c \in LogPlaces
      PROVE  /\ c = <<c[1], c[2]>> /\ c[1] \in 1 .. Len(opened)
             /\ c[2] \in 1 .. Len(disk[opened[c[1]]]) /\ c[1] \in Nat /\ c[2] \in Nat
             /\ id[c] = Store!PieceAt(c[1], c[2]).id /\ id[c] \in 1 .. writes
  <2>1. /\ c = <<c[1], c[2]>> /\ c[1] \in 1 .. Len(opened) /\ c[2] \in 1 .. MaxWrites
        /\ c[2] \in 1 .. Len(disk[opened[c[1]]])
    BY DEF LogPlaces, Files!Read
  <2>2. id[c] = Store!PieceAt(c[1], c[2]).id
    BY DEF Store!PieceAt
  <2> QED
    BY <2>1, <2>2 DEF Store!CallOrder
<1> HIDE DEF id
<1>3. id \in [LogPlaces -> 1 .. writes]
  <2>1. id = [c \in LogPlaces |-> id[c]]
    BY DEF id
  <2> QED
    BY <1>2, <2>1
<1>4. ASSUME NEW a \in LogPlaces, NEW b \in LogPlaces, id[a] = id[b]
      PROVE  a = b
  <2>1. ~Earlier(a, b) /\ ~Earlier(b, a)
    <3>1. Earlier(a, b) => id[a] < id[b]
      BY <1>2 DEF Earlier, Store!CallOrder
    <3>2. Earlier(b, a) => id[b] < id[a]
      BY <1>2 DEF Earlier, Store!CallOrder
    <3> QED
      BY <1>2, <1>4, <3>1, <3>2
  <2>2. a[1] = b[1] /\ a[2] = b[2]
    BY <1>2, <2>1 DEF Earlier
  <2> QED
    BY <1>2, <2>2
<1>5. ASSUME NEW n \in 1 .. writes
      PROVE  \E c \in LogPlaces : id[c] = n
  <2>1. PICK k \in 1 .. Len(opened) :
               \E j \in 1 .. Len(disk[opened[k]]) : Store!PieceAt(k, j).id = n
    BY DEF Store!AllThere
  <2>2. PICK j \in 1 .. Len(disk[opened[k]]) : Store!PieceAt(k, j).id = n
    BY <2>1
  <2>3. <<k, j>> \in LogPlaces /\ id[<<k, j>>] = Store!PieceAt(k, j).id
    BY <1>1, <1>2
  <2> QED
    BY <2>2, <2>3
<1>6. id \in Bijection(LogPlaces, 1 .. writes)
  BY <1>3, <1>4, <1>5 DEF Bijection, Injection, Surjection, IsInjective
<1>7. ExistsBijection(1 .. writes, LogPlaces)
  BY <1>6, Fun_ExistsBij, Fun_ExistsBijSymmetric
<1> QED
  BY <1>0, <1>7, FS_CountingElements

\* CompleteAtExit, for every sender, source, queue and segment size: exit code
\* 0 means that everything sent was read, up to an empty datagram, and that
\* without storage failures all of `ok` can be read back from the segments.
THEOREM CompleteExit ==
  ASSUME NoWrap
  PROVE  SystemSafety => []CompleteAtExit
<1>1. SystemInit => WayOut
  <2> SUFFICES ASSUME SystemInit PROVE WayOut
    OBVIOUS
  <2>1. pc = "read" /\ Len(acked) = 0 /\ Len(stored) = 0 /\ writes = 0
    BY EmptySeq DEF SystemInit, HostInit, Init, Files!Init
  <2> QED
    BY <2>1 DEF WayOut
<1>2. TypeOK /\ PathInv /\ Store!TypeOK /\ WayOut /\ [SystemNext]_sysvars => WayOut'
  BY WayOutKept
<1>3. TypeOK /\ QueueAccounting /\ RoundInv /\ WayOut /\ Store!TypeOK /\ Store!OpenedInv
        /\ Store!CallOrder /\ Store!AllThere /\ Store!ShortFiles => CompleteAtExit
  <2> SUFFICES ASSUME TypeOK, QueueAccounting, RoundInv, WayOut, Store!TypeOK, Store!OpenedInv,
                      Store!CallOrder, Store!AllThere, Store!ShortFiles, pc = "done"
               PROVE  /\ under_way # <<>> => Head(under_way) = Empty
                      /\ stats.write_fail = 0 => Cardinality(LogPlaces) = stats.ok
    BY DEF CompleteAtExit
  <2>1. under_way # <<>> => Head(under_way) = Empty
    BY DEF WayOut
  <2>2. ASSUME stats.write_fail = 0
        PROVE  Cardinality(LogPlaces) = stats.ok
    <3>1. ringbuf.queue = <<>> /\ Len(ringbuf.queue) = 0
      BY <2>2, EmptySeq DEF RoundInv, Resting
    <3>2. lost = 0 /\ Len(stored) \in Nat
      BY <2>2, LenProperties DEF TypeOK, QueueAccounting
    <3>3. stats.ok = Len(stored) /\ Len(stored) = writes /\ Len(acked) = writes
      BY <2>2, <3>1, <3>2 DEF QueueAccounting, WayOut
    <3> QED
      BY <3>3, PlaceOfEachCall
  <2> QED
    BY <2>1, <2>2
<1> QED
  BY <1>1, <1>2, <1>3, StorageHolds, PathKept, SystemUsesHost, HostUsesPipeline, TypeCorrect,
     Accounting, Rounds, PTL DEF SystemSafety
-----------------------------------------------------------------------------
\* Every call of storage.write was acknowledged and its record counted as
\* stored, or failed and its record was counted as lost.
CallsSplit == Len(acked) = Len(stored) /\ writes = Len(stored) + lost

LEMMA CallsSplitKept ==
  ASSUME TypeOK, PathInv, Store!TypeOK, CallsSplit, [SystemNext]_sysvars
  PROVE  CallsSplit'
<1>0. Len(stored) \in Nat /\ lost \in Nat
  BY LenProperties DEF TypeOK
<1>1. CASE UNCHANGED <<acked, stored, writes, lost>>
  BY <1>1 DEF CallsSplit
<1>2. CASE StoreRecord
  <2>1. lost' = lost
    BY <1>2 DEF StoreRecord, DrainWrites, WriteOk
  <2> QED
    BY <1>0, <1>2, <2>1, StoreStep DEF CallsSplit
<1>3. CASE StorageErrs
  <2>1. CASE ringbuf.queue # <<>> /\ StorageWrite /\ acked' = acked
    <3>1. writes' = writes + 1
      BY <2>1 DEF StorageWrite, Files!Write, Files!WriteInPlace, Files!WriteRotated,
         Files!CreateFails, Files!RotateFlushFails, Files!Rotate, Files!Call
    <3>2. lost' = lost + 1 /\ stored' = stored
      BY <1>3, <2>1 DEF StorageErrs, DrainErrs, WriteFails, FlushFails
    <3> QED
      BY <1>0, <2>1, <3>1, <3>2 DEF CallsSplit
  <2>2. CASE ringbuf.queue = <<>> /\ UNCHANGED <<fvars, logged>>
    <3>1. UNCHANGED <<stored, lost>>
      BY <1>3, <2>2 DEF StorageErrs, DrainErrs, WriteFails, FlushFails
    <3> QED
      BY <1>1, <2>2, <3>1 DEF fvars
  <2> QED
    BY <1>3, <2>1, <2>2 DEF StorageErrs
<1>4. CASE Sender \/ UNCHANGED sysvars
  BY <1>1, <1>4 DEF Sender, Send, Skip, Reboot, SendEmpty, Close, Reset, SenderSteps, sysvars,
     hvars, vars, fvars
<1>5. CASE ReadSome \/ ReadEnds \/ ReadErrs \/ FinalErrs
  BY <1>1, <1>5 DEF ReadSome, Read, ReadEnds, Eof, Finish, ReadErrs, ReadFails, FinalErrs,
     FinalFlushFails, Others, fvars, vars
<1>6. CASE Quietly
  BY <1>1, <1>6 DEF Quietly, DrainCall, DrainBegin, DrainReturns, FlushOk, FinalFlushOk, vars,
     Others, fvars
<1>7. CASE IngestNext
  BY <1>1, <1>7 DEF IngestNext, Ingest, RejectCrc, RejectUnknown, RejectGap, FilterOut, Enqueue,
     QueueFull, Checked, Arrival, fvars
<1> QED
  BY <1>2, <1>3, <1>4, <1>5, <1>6, <1>7 DEF SystemNext, Running

\* A readable place for each call of storage.write whose record can be read,
\* and no other.
LEMMA PlacesAreCalls ==
  ASSUME Store!TypeOK, Store!OpenedInv, Store!CallOrder, Store!ShortFiles,
         IsFiniteSet(Store!ReadBack)
  PROVE  Cardinality(LogPlaces) = Cardinality(Store!ReadBack)
<1> DEFINE id == [c \in LogPlaces |-> disk[opened[c[1]]][c[2]].id]
<1>0. writes \in Nat /\ writes <= MaxWrites /\ MaxWrites \in Nat
  BY SystemAssumption DEF Store!TypeOK
<1>1. ASSUME NEW c \in LogPlaces
      PROVE  /\ c = <<c[1], c[2]>> /\ c[1] \in 1 .. Len(opened)
             /\ c[2] \in 1 .. Len(disk[opened[c[1]]]) /\ c[1] \in Nat /\ c[2] \in Nat
             /\ id[c] = Store!PieceAt(c[1], c[2]).id /\ id[c] \in Store!ReadBack
             /\ id[c] \in 1 .. writes
  <2>1. /\ c = <<c[1], c[2]>> /\ c[1] \in 1 .. Len(opened) /\ c[2] \in 1 .. MaxWrites
        /\ c[2] \in 1 .. Len(disk[opened[c[1]]])
        /\ c[2] \in Store!Read(opened[c[1]])
    BY DEF LogPlaces, Files!Read, Store!Read, Files!Readable, Store!Readable, Files!StartsChunk,
       Store!StartsChunk, Files!EndsChunk, Store!EndsChunk, Files!Decodes, Store!Decodes,
       Files!Whole, Store!Whole
  <2>2. id[c] = Store!PieceAt(c[1], c[2]).id
    BY DEF Store!PieceAt
  <2>3. id[c] \in 1 .. writes
    BY <2>1, <2>2 DEF Store!CallOrder
  <2> QED
    BY <2>1, <2>2, <2>3 DEF Store!ReadBack
<1> HIDE DEF id
<1>2. id \in [LogPlaces -> Store!ReadBack]
  <2>1. id = [c \in LogPlaces |-> id[c]]
    BY DEF id
  <2> QED
    BY <1>1, <2>1
<1>3. ASSUME NEW a \in LogPlaces, NEW b \in LogPlaces, id[a] = id[b]
      PROVE  a = b
  <2>1. ~Earlier(a, b) /\ ~Earlier(b, a)
    <3>1. Earlier(a, b) => id[a] < id[b]
      BY <1>1 DEF Earlier, Store!CallOrder
    <3>2. Earlier(b, a) => id[b] < id[a]
      BY <1>1 DEF Earlier, Store!CallOrder
    <3> QED
      BY <1>1, <1>3, <3>1, <3>2
  <2>2. a[1] = b[1] /\ a[2] = b[2]
    BY <1>1, <2>1 DEF Earlier
  <2> QED
    BY <1>1, <2>2
<1>4. ASSUME NEW n \in Store!ReadBack
      PROVE  \E c \in LogPlaces : id[c] = n
  <2>1. PICK k \in 1 .. Len(opened) :
               \E j \in Store!Read(opened[k]) : Store!PieceAt(k, j).id = n
    BY DEF Store!ReadBack
  <2>2. PICK j \in Store!Read(opened[k]) : Store!PieceAt(k, j).id = n
    BY <2>1
  <2>3. j \in 1 .. Len(disk[opened[k]]) /\ Len(disk[opened[k]]) \in Nat
    <3>1. disk[opened[k]] \in Seq(Store!Pieces)
      BY DEF Store!OpenedInv, Store!IsFile
    <3> QED
      BY <3>1, LenProperties DEF Store!Read
  <2>4. j \in 1 .. MaxWrites
    <3>1. Store!PieceAt(k, j).id \in 1 .. writes /\ j <= Store!PieceAt(k, j).id
      BY <2>3 DEF Store!CallOrder, Store!ShortFiles
    <3> QED
      BY <1>0, <2>3, <3>1
  <2>5. <<k, j>> \in LogPlaces
    BY <2>4 DEF LogPlaces, Files!Read, Store!Read, Files!Readable, Store!Readable,
       Files!StartsChunk, Store!StartsChunk, Files!EndsChunk, Store!EndsChunk, Files!Decodes,
       Store!Decodes, Files!Whole, Store!Whole
  <2>6. id[<<k, j>>] = Store!PieceAt(k, j).id
    BY <1>1, <2>5
  <2> QED
    BY <2>2, <2>5, <2>6
<1>5. id \in Bijection(LogPlaces, Store!ReadBack)
  BY <1>2, <1>3, <1>4 DEF Bijection, Injection, Surjection, IsInjective
<1>6. ExistsBijection(Store!ReadBack, LogPlaces)
  BY <1>5, Fun_ExistsBij, Fun_ExistsBijSymmetric
<1> QED
  BY <1>6, FS_Bijection

\* The instance counts as the module itself does.
LEMMA SameCount ==
  /\ \A S : Store!IsFiniteSet(S) <=> IsFiniteSet(S)
  /\ \A S : Store!Cardinality(S) = Cardinality(S)
BY DEF Store!IsFiniteSet, IsFiniteSet, Store!Cardinality, Cardinality

\* LogMatchesStats, for every sender, source, queue and segment size, and every
\* failure of the storage: what can be read back from the segments is what
\* the statistics line says, but for the queue and for two records at most
\* for each counted failure.
THEOREM LogMatchesTheStats ==
  ASSUME NoWrap
  PROVE  SystemSafety => []LogMatchesStats
<1>1. SystemInit => CallsSplit
  <2> SUFFICES ASSUME SystemInit PROVE CallsSplit
    OBVIOUS
  <2>1. Len(acked) = 0 /\ Len(stored) = 0 /\ writes = 0 /\ lost = 0
    BY EmptySeq DEF SystemInit, HostInit, Init, Files!Init
  <2> QED
    BY <2>1 DEF CallsSplit
<1>2. TypeOK /\ PathInv /\ Store!TypeOK /\ CallsSplit /\ [SystemNext]_sysvars => CallsSplit'
  BY CallsSplitKept
<1>3. TypeOK /\ QueueAccounting /\ CallsSplit /\ Store!TypeOK /\ Store!OpenedInv
        /\ Store!CallOrder /\ Store!ShortFiles /\ Store!AckedThere => LogMatchesStats
  <2> SUFFICES ASSUME TypeOK, QueueAccounting, CallsSplit, Store!TypeOK, Store!OpenedInv,
                      Store!CallOrder, Store!ShortFiles, Store!AckedThere
               PROVE  Cardinality(LogPlaces) + Len(ringbuf.queue)
                        \in (stats.ok - 2 * stats.write_fail) .. stats.ok
    BY DEF LogMatchesStats
  <2>1. Store!FileStorageAssumption
    BY SystemAssumption DEF Store!FileStorageAssumption
  <2>2. /\ writes \in Nat /\ Len(acked) \in Nat /\ IsFiniteSet(Store!ReadBack)
        /\ Cardinality(Store!ReadBack) \in Nat
        /\ Cardinality(Store!ReadBack) <= writes
        /\ Cardinality(Store!ReadBack) >= 2 * Len(acked) - writes
    BY <2>1, Store!ReadBackBounds, SameCount
  <2>3. Cardinality(LogPlaces) = Cardinality(Store!ReadBack)
    BY <2>2, PlacesAreCalls
  <2>4. /\ Len(stored) \in Nat /\ lost \in Nat /\ stats.write_fail \in Nat
        /\ Len(ringbuf.queue) \in Nat /\ stats.ok \in Nat
    BY LenProperties DEF TypeOK, RingType, StatsType, Count
  <2>5. /\ stats.ok = Len(ringbuf.queue) + Len(stored) + lost /\ lost <= stats.write_fail
        /\ Len(acked) = Len(stored) /\ writes = Len(stored) + lost
    BY DEF QueueAccounting, CallsSplit
  <2>6. \A a, b, q, s, l, w, k, c \in Nat :
          /\ k = q + s + l /\ l <= w /\ a = s /\ b = s + l /\ c <= b /\ c >= 2 * a - b
          => c + q \in (k - 2 * w) .. k
    OBVIOUS
  <2> QED
    BY <2>2, <2>3, <2>4, <2>5, <2>6
<1> QED
  BY <1>1, <1>2, <1>3, StorageHolds, PathKept, SystemUsesHost, HostUsesPipeline, TypeCorrect,
     Accounting, PTL DEF SystemSafety

=============================================================================
