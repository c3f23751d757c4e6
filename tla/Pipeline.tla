------------------------------ MODULE Pipeline ------------------------------
(***************************************************************************)
(* telemetry-core/src/pipeline.rs: ingest and drain, over the validator,   *)
(* the filter, the ring buffer and the statistics.                         *)
(*                                                                         *)
(* ingest is modelled frame by frame: an action takes one answer of the    *)
(* framer other than Incomplete (module Framer says which answers there    *)
(* can be) and does everything ingest does with it.  drain is modelled     *)
(* storage call by storage call, because each of them can fail; while a    *)
(* drain runs there is no ingest, both take &mut self.                     *)
(*                                                                         *)
(* record::encode has no failing branch here: a record of MAX_PAYLOAD      *)
(* bytes encodes to at most 507 bytes and the buffer has 512.              *)
(***************************************************************************)
EXTENDS Validator, RingBuf, Protocol, FiniteSets

CONSTANTS MaxFrames,    \* bound of the model: answers of the framer
          MaxFailures   \* bound of the model: failing storage calls

ASSUME PipelineAssumption == MaxFrames \in Nat /\ MaxFailures \in Nat

VARIABLES last_seq,   \* Validator.last_seq
          ringbuf,    \* Pipeline.ringbuf
          stats,      \* Pipeline.stats
          draining,   \* TRUE inside a call of drain
          \* auxiliary, what an observer of both ends would know:
          frames,     \* answers of the framer so far
          tracked,    \* sequence numbers of the frames that reached the sequence check
          stored,     \* records storage.write returned Ok for, in order
          flushed,    \* how many of those the last successful flush covered
          lost        \* records popped whose write failed

vars == <<last_seq, ringbuf, stats, draining, frames, tracked, stored, flushed, lost>>

\* A queued record; nth is auxiliary, its place in `tracked`, and version
\* is auxiliary too: the wire version is not part of RecordV1.
Record == [sequence : SeqNumber, packet_type : RawTypes, severity : RawSeverities,
           version : Versions, nth : 1 .. MaxFrames]

SwappedFields(frame, n) ==   \* mutant
  [sequence |-> frame.sequence, packet_type |-> frame.severity,
   severity |-> frame.packet_type, version |-> frame.version, nth |-> n]

RecordOf(frame, n) ==
  [sequence |-> frame.sequence, packet_type |-> frame.packet_type,
   severity |-> frame.severity, version |-> frame.version, nth |-> n]

ZeroStats == [ok |-> 0, dropped |-> 0, crc_fail |-> 0, seq_gap |-> 0,
              filtered |-> 0, write_fail |-> 0, queue_high_water |-> 0]

\* Stats::total_frames_seen, of counters that have not wrapped
total_frames_seen ==
  stats.ok + stats.dropped + stats.crc_fail + stats.seq_gap + stats.filtered

Init ==
  /\ last_seq = None
  /\ ringbuf = EmptyRing
  /\ stats = ZeroStats
  /\ draining = FALSE
  /\ frames = 0
  /\ tracked = <<>>
  /\ stored = <<>>
  /\ flushed = 0
  /\ lost = 0

-----------------------------------------------------------------------------
\* ingest

\* One more answer of the framer reaches ingest.
Arrival ==
  /\ ~draining
  /\ frames < MaxFrames
  /\ frames' = frames + 1
  /\ UNCHANGED <<draining, stored, flushed, lost>>

\* Overflow, CobsError and ParseError are one counter.
FramerError ==
  /\ Arrival
  /\ stats' = [stats EXCEPT !.crc_fail = Inc(@)]
  /\ UNCHANGED <<last_seq, ringbuf, tracked>>

\* Validator::check of a complete frame, with the outcome it must have.
Checked(frame, outcome) ==
  /\ Arrival
  /\ Check(last_seq, frame) = outcome
  /\ last_seq' = LastSeqAfter(last_seq, frame)

\* The observer's note that the frame reached the sequence check.
Track(frame) == tracked' = Append(tracked, frame.sequence)

RejectCrc(frame) ==
  /\ Checked(frame, "Crc")
  /\ stats' = [stats EXCEPT !.crc_fail = Inc(@)]
  /\ UNCHANGED <<ringbuf, tracked>>

RejectUnknown(frame) ==
  /\ Checked(frame, "Filtered")
  /\ stats' = [stats EXCEPT !.filtered = Inc(@)]
  /\ UNCHANGED <<ringbuf, tracked>>

RejectGap(frame) ==
  /\ Checked(frame, "SequenceGap")
  /\ Track(frame)
  /\ stats' = [stats EXCEPT !.seq_gap = Inc(@)]
  /\ UNCHANGED ringbuf

\* Accepted by the validator, refused by the filter policy.
FilterOut(frame) ==
  /\ Checked(frame, "Accepted")
  /\ Track(frame)
  /\ ~Allow(frame)
  /\ stats' = [stats EXCEPT !.filtered = Inc(@)]
  /\ UNCHANGED ringbuf

\* After a successful push: ok, and the high-water mark if it went up.
CountPush(rb) ==
  [stats EXCEPT
     !.ok = Inc(@),
     !.queue_high_water = IF rb.high_water > @ THEN rb.high_water ELSE @]

\* Accepted, allowed, and there is room in the queue.
Enqueue(frame) ==
  /\ Checked(frame, "Accepted")
  /\ Track(frame)
  /\ Allow(frame)
  /\ ~IsFull(ringbuf)
  /\ ringbuf' = Push(ringbuf, RecordOf(frame, Len(tracked')))
  /\ stats' = CountPush(ringbuf')

\* After a failed push.
CountedBeforePush == [stats EXCEPT !.dropped = Inc(@), !.ok = Inc(@)]   \* mutant
CountDrop == [stats EXCEPT !.dropped = Inc(@)]

\* Accepted, allowed, and the queue is full.
QueueFull(frame) ==
  /\ Checked(frame, "Accepted")
  /\ Track(frame)
  /\ Allow(frame)
  /\ IsFull(ringbuf)
  /\ ringbuf' = Push(ringbuf, RecordOf(frame, Len(tracked')))
  /\ stats' = CountDrop

Ingest(frame) ==
  \/ RejectCrc(frame)
  \/ RejectUnknown(frame)
  \/ RejectGap(frame)
  \/ FilterOut(frame)
  \/ Enqueue(frame)
  \/ QueueFull(frame)

-----------------------------------------------------------------------------
\* drain

DrainBegin ==
  /\ ~draining
  /\ draining' = TRUE
  /\ UNCHANGED <<last_seq, ringbuf, stats, frames, tracked, stored, flushed, lost>>

\* Popped, encoded, written.
WriteOk ==
  /\ draining
  /\ ringbuf.queue # <<>>
  /\ ringbuf' = Pop(ringbuf)
  /\ stored' = Append(stored, Oldest(ringbuf))
  /\ UNCHANGED <<last_seq, stats, draining, frames, tracked, flushed, lost>>

\* A storage call returned an error.
ErrorSwallowed == stats   \* mutant
CountFailure == [stats EXCEPT !.write_fail = Inc(@)]

\* Popped, and write returned an error: drain returns, without a flush.
WriteFails ==
  /\ draining
  /\ ringbuf.queue # <<>>
  /\ stats.write_fail < MaxFailures
  /\ ringbuf' = Pop(ringbuf)
  /\ stats' = CountFailure
  /\ lost' = lost + 1
  /\ draining' = FALSE
  /\ UNCHANGED <<last_seq, frames, tracked, stored, flushed>>

\* Nothing left to pop: one flush for the whole call.
FlushOk ==
  /\ draining
  /\ ringbuf.queue = <<>>
  /\ draining' = FALSE
  /\ flushed' = Len(stored)
  /\ UNCHANGED <<last_seq, ringbuf, stats, frames, tracked, stored, lost>>

FlushFails ==
  /\ draining
  /\ ringbuf.queue = <<>>
  /\ stats.write_fail < MaxFailures
  /\ stats' = CountFailure
  /\ draining' = FALSE
  /\ UNCHANGED <<last_seq, ringbuf, frames, tracked, stored, flushed, lost>>

Drain == WriteOk \/ WriteFails \/ FlushOk \/ FlushFails

Next ==
  \/ FramerError
  \/ \E frame \in Frame : Ingest(frame)
  \/ DrainBegin
  \/ Drain

Spec == Init /\ [][Next]_vars

-----------------------------------------------------------------------------
Count == 0 .. CounterMax

RingType == [queue : Seq(Record), overflow_count : Count, high_water : Nat]

StatsType == [ok : Count, dropped : Count, crc_fail : Count, seq_gap : Count,
              filtered : Count, write_fail : Count, queue_high_water : Nat]

\* Type invariant.
TypeOK ==
  /\ last_seq \in SeqNumber \cup {None}
  /\ ringbuf \in RingType
  /\ stats \in StatsType
  /\ draining \in BOOLEAN
  /\ frames \in 0 .. MaxFrames
  /\ tracked \in Seq(SeqNumber) /\ Len(tracked) <= frames
  /\ stored \in Seq(Record)
  /\ flushed \in Nat /\ lost \in Nat

\* Every answer of the framer ends in exactly one of the five counters that
\* total_frames_seen adds up, on every path through ingest, and drain moves
\* none of them.
Conservation == total_frames_seen = frames

\* `ok` can be audited against the other end: every record it counts is
\* waiting, was written, or was lost to a write error that write_fail
\* counts too; and the ring buffer's own overflow count, which nothing
\* prints, tells the same number of refused records as `dropped`.
QueueAccounting ==
  /\ stats.ok = Len(ringbuf.queue) + Len(stored) + lost
  /\ stats.dropped = ringbuf.overflow_count
  /\ lost <= stats.write_fail

\* The statistics can be audited: of every answer of the framer, and of every
\* record that was queued or refused.
Accounted == Conservation /\ QueueAccounting

\* The two copies of the high-water mark agree, and bound the occupancy.
HighWaterAgrees ==
  /\ stats.queue_high_water = ringbuf.high_water
  /\ Len(ringbuf.queue) <= ringbuf.high_water
  /\ ringbuf.high_water <= QUEUE_DEPTH

Ascending(s) == \A i, j \in 1 .. Len(s) : i < j => s[i].nth < s[j].nth

Arrived(r) == r.nth <= Len(tracked) /\ r.sequence = tracked[r.nth]

\* The log is in arrival order without duplicates: across drains that fail
\* half way, records are written and wait in the order their frames arrived,
\* each at most once, under the sequence number it arrived with.
InOrder ==
  /\ Ascending(stored) /\ Ascending(ringbuf.queue)
  /\ \A i \in 1 .. Len(stored), j \in 1 .. Len(ringbuf.queue) :
       stored[i].nth < ringbuf.queue[j].nth
  /\ \A i \in 1 .. Len(stored) : Arrived(stored[i])
  /\ \A i \in 1 .. Len(ringbuf.queue) : Arrived(ringbuf.queue[i])

\* The frame that arrived just before r's had the number just before r's.
Vouched(r) == r.nth > 1 => r.sequence = Successor(tracked[r.nth - 1])

\* A stored record vouches for its predecessor: among the frames of known
\* type and severity, the one that arrived just before it had the number
\* just before its own, wrap-around included.  So no duplicate, no reordered
\* frame and no frame right after a gap is ever stored.
FollowsPredecessor ==
  /\ \A i \in 1 .. Len(stored) : Vouched(stored[i])
  /\ \A i \in 1 .. Len(ringbuf.queue) : Vouched(ringbuf.queue[i])

\* The places where two frames that reached the sequence check one after
\* the other were not consecutive.
Breaks == {i \in 2 .. Len(tracked) : tracked[i] # Successor(tracked[i - 1])}

\* last_seq is the number of the latest frame that reached the check.
Synced == last_seq = IF tracked = <<>> THEN None ELSE tracked[Len(tracked)]

\* seq_gap counts exactly those places: one gap costs one frame, however
\* wide it is, and re-synchronising forgives nothing else.
GapsCounted == stats.seq_gap = Cardinality(Breaks) /\ Synced

\* A drain that counted no failure left nothing behind: the queue is empty
\* and everything ever written, earlier failed drains included, is flushed.
DrainMeansDurable ==
  [][draining /\ ~draining' /\ stats'.write_fail = stats.write_fail =>
       ringbuf'.queue = <<>> /\ flushed' = Len(stored')]_vars

\* The pipeline is the bounded first-in first-out line of LossyFifo.
Fifo == INSTANCE LossyFifo WITH Capacity <- QUEUE_DEPTH,
                                waiting <- ringbuf.queue, delivered <- stored
ImplementsLossyFifo == Fifo!Spec

-----------------------------------------------------------------------------
(* What the documents say and the code does not do.                        *)

\* docs/protocol.md:216: "Receivers reject unknown versions".
UnknownVersionRejected ==
  \A i \in 1 .. Len(ringbuf.queue) : ringbuf.queue[i].version = PROTOCOL_VERSION

\* stats.rs:3: the counters "saturate gracefully", so none ever falls.
CountersNeverFall ==
  [][\A field \in DOMAIN ZeroStats : stats'[field] >= stats[field]]_vars
=============================================================================
