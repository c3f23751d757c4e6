------------------------------- MODULE RingBuf ------------------------------
(***************************************************************************)
(* telemetry-core/src/ringbuf.rs: the bounded queue between ingest and     *)
(* drain, as operators on its state [queue, overflow_count, high_water].   *)
(***************************************************************************)
EXTENDS Integers, Sequences

CONSTANTS QUEUE_DEPTH,   \* N in RingBuf<N>, 64 on the host, 8 in the tests
          CounterMax     \* u64::MAX, the width of the counters

ASSUME RingBufAssumption ==
  QUEUE_DEPTH \in Nat /\ CounterMax \in Nat /\ CounterMax > 0

\* `x += 1` on a u64.  A release build wraps; a debug build panics instead,
\* and then there is no next state to speak of.
Inc(x) == IF x = CounterMax THEN 0 ELSE x + 1

EmptyRing == [queue |-> <<>>, overflow_count |-> 0, high_water |-> 0]

IsFull(rb) == Len(rb.queue) >= QUEUE_DEPTH

\* The high-water mark after a push that left q in the queue.
PeakBeforePush(rb, q) == IF Len(rb.queue) > rb.high_water THEN Len(rb.queue) ELSE rb.high_water   \* mutant
HighWater(rb, q) == IF Len(q) > rb.high_water THEN Len(q) ELSE rb.high_water

\* A full queue refuses the newcomer and counts it.
Refuse(rb) == [rb EXCEPT !.overflow_count = Inc(@)]

PushEvicting(rb, record) ==   \* mutant
  [rb EXCEPT !.queue = Append(IF IsFull(rb) THEN Tail(@) ELSE @, record),
             !.overflow_count = IF IsFull(rb) THEN Inc(@) ELSE @]

\* RingBuf::push
Push(rb, record) ==
  IF IsFull(rb)
  THEN Refuse(rb)
  ELSE LET q == Append(rb.queue, record)
       IN  [rb EXCEPT !.queue = q, !.high_water = HighWater(rb, q)]

\* RingBuf::pop, of a queue that is not empty.
Newest(rb) == rb.queue[Len(rb.queue)]   \* mutant
Oldest(rb) == Head(rb.queue)
Pop(rb) == [rb EXCEPT !.queue = Tail(@)]
=============================================================================
