-------------------------------- MODULE Host --------------------------------
(***************************************************************************)
(* telemetry-host/src/main.rs: run_loop, the process that reads a source,  *)
(* feeds the pipeline and drains it into storage, until the source ends.   *)
(*                                                                         *)
(* A read delivers a chunk of bytes; what matters of it is how many        *)
(* answers of the framer it completes.  A chunk can complete more frames   *)
(* than the queue holds (4096 bytes against 64 records), or none.          *)
(* The loop is sequential: a step is either the pipeline's (module         *)
(* Pipeline) or a call of the source or of the storage's final flush.      *)
(***************************************************************************)
EXTENDS Pipeline

CONSTANT MaxChunk   \* most answers a single read completes

ASSUME HostAssumption == MaxChunk \in Nat

\* main: the allowlist of the arguments --allow-type, None if there are none.
\* A list beyond its capacity is cut off, with a warning; a value given twice
\* takes two places.
AllowlistOf(allow_types, max_types) ==
  IF allow_types = <<>> THEN None
  ELSE {allow_types[i] : i \in {i \in 1 .. Len(allow_types) : i <= max_types}}

VARIABLES pc,        \* where run_loop is
          left,      \* answers still to come from the bytes of the last read
          \* auxiliary:
          synced,    \* records covered by the last successful flush of any kind
          failing,   \* the drain of the current round returned an error
          largest    \* answers completed by the largest chunk so far

hvars == <<vars, pc, left, synced, failing, largest>>

\* "read": in source.read; "ingest" and "drain": in those calls; "final": in
\* the flush after the loop; "done": returned Ok; "failed": returned Err.
Places == {"read", "ingest", "drain", "final", "done", "failed"}

HostInit ==
  /\ Init
  /\ pc = "read" /\ left = 0
  /\ synced = 0 /\ failing = FALSE /\ largest = 0

\* source.read returned a non-empty chunk.
Read ==
  /\ pc = "read"
  /\ \E n \in 0 .. MaxChunk :
       /\ n <= MaxFrames - frames
       /\ left' = n
       /\ largest' = IF n > largest THEN n ELSE largest
  /\ pc' = "ingest"
  /\ failing' = FALSE
  /\ UNCHANGED <<vars, synced>>

\* The loop is left for the final flush.
Finish ==
  /\ pc' = "final"
  /\ UNCHANGED <<vars, left, synced, failing, largest>>

\* Ok(0), ConnectionReset or UnexpectedEof.
EofBeforeDrain == pc = "ingest" /\ left = 0 /\ Finish   \* mutant
Eof == pc = "read" /\ Finish

\* Any other error: run_loop returns it at once.
ReadFails ==
  /\ pc = "read"
  /\ pc' = "failed"
  /\ UNCHANGED <<vars, left, synced, failing, largest>>

\* ingest goes on to the next answer in the chunk.
NextAnswer ==
  /\ pc = "ingest" /\ left > 0
  /\ left' = left - 1
  /\ UNCHANGED <<pc, synced, failing, largest>>

IngestOne ==
  /\ NextAnswer
  /\ FramerError \/ \E frame \in Frame : Ingest(frame)

\* The chunk is used up: drain is called, whatever the queue holds.
DrainWhenFull ==   \* mutant
  /\ pc = "ingest" /\ left = 0
  /\ IF IsFull(ringbuf) THEN DrainBegin /\ pc' = "drain"
                        ELSE UNCHANGED vars /\ pc' = "read"
  /\ UNCHANGED <<left, synced, failing, largest>>

DrainCall ==
  /\ pc = "ingest" /\ left = 0
  /\ DrainBegin
  /\ pc' = "drain"
  /\ UNCHANGED <<left, synced, failing, largest>>

DrainWrites ==
  /\ pc = "drain"
  /\ WriteOk
  /\ UNCHANGED <<pc, left, synced, failing, largest>>

DrainReturns ==
  /\ pc = "drain"
  /\ FlushOk
  /\ pc' = "read"
  /\ synced' = flushed'
  /\ UNCHANGED <<left, failing, largest>>

\* An error of drain is printed, and the loop goes on.
DrainErrs ==
  /\ pc = "drain"
  /\ WriteFails \/ FlushFails
  /\ pc' = "read"
  /\ failing' = TRUE
  /\ UNCHANGED <<left, synced, largest>>

\* What a successful flush of the storage covers.
EverythingCounted == stats.ok   \* mutant
EverythingWritten == Len(stored)

FinalFlushOk ==
  /\ pc = "final"
  /\ pc' = "done"
  /\ synced' = EverythingWritten
  /\ UNCHANGED <<vars, left, failing, largest>>

FinalFlushIgnored ==   \* mutant
  /\ pc = "final"
  /\ pc' = "done"
  /\ UNCHANGED <<vars, left, synced, failing, largest>>

FinalFlushFails ==
  /\ pc = "final"
  /\ pc' = "failed"
  /\ UNCHANGED <<vars, left, synced, failing, largest>>

\* The process has exited.
Exited == pc \in {"done", "failed"} /\ UNCHANGED hvars

Work ==
  \/ IngestOne
  \/ DrainCall \/ DrainWrites \/ DrainReturns \/ DrainErrs
  \/ FinalFlushOk \/ FinalFlushFails

HostNext == Read \/ Eof \/ ReadFails \/ Work \/ Exited

HostSafety == HostInit /\ [][HostNext]_hvars

\* The loop never waits for anything but its source, and the source owes it
\* nothing: a TCP peer may stay silent for ever.
HostSpec == HostSafety /\ WF_hvars(Work)

-----------------------------------------------------------------------------
\* Type invariant.
HostTypeOK ==
  /\ TypeOK
  /\ pc \in Places
  /\ left \in 0 .. MaxChunk /\ largest \in 0 .. MaxChunk
  /\ synced \in 0 .. Len(stored)
  /\ failing \in BOOLEAN

\* As long as no storage call has failed, nothing is at risk while run_loop
\* waits for its source, or after it has ended in whatever way, a read error
\* that skips the final flush included: all records `ok` counts are flushed.
CleanRunIsComplete ==
  pc \notin {"ingest", "drain"} /\ stats.write_fail = 0 => synced = stats.ok

\* When run_loop returns Ok, every record `ok` counts is flushed, but for
\* those that failed writes took, and those still queued; and records are
\* still queued only if the very last drain failed.
ExitAccounting ==
  pc = "done" =>
    stats.ok = synced + lost + (IF failing THEN Len(ringbuf.queue) ELSE 0)

\* A record is only dropped for want of room if a single read completed more
\* frames than the queue holds, or a drain failed before: the loop itself
\* never lets records of one read crowd out those of the next.
NoDropWithoutCause ==
  stats.dropped > 0 => largest > QUEUE_DEPTH \/ stats.write_fail > 0

\* What is queued while a chunk is ingested leaves the queue without waiting
\* for more input, unless the drain of that round fails.
BurstDrained ==
  pc = "ingest" /\ ringbuf.queue # <<>> ~> ringbuf.queue = <<>> \/ failing
=============================================================================
