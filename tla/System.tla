------------------------------- MODULE System -------------------------------
(***************************************************************************)
(* The host program from end to end: a sender, the source run_loop reads,  *)
(* the loop and its pipeline (module Host), the storage behind drain       *)
(* (module FileStorage, with all its failures), and the clock that stamps  *)
(* the records.                                                            *)
(*                                                                         *)
(* A read completes at least one frame here; Host has those that complete  *)
(* none, FileStorage the restarts.  As every property is an invariant of   *)
(* the files as they stand, it holds for a crash at any step as well.      *)
(***************************************************************************)
EXTENDS Host

CONSTANTS max_segment_bytes, Sizes, Indices, NoFile, MaxWrites, MaxRuns,   \* FileStorage
          Sources,      \* the sources chosen from: "stream" (stdin, file, TCP), "udp"
          Empty,        \* a datagram without bytes
          TimestampMax, \* u64::MAX
          MaxElapsed,   \* bound of the model: microseconds that pass
          MaxMishaps    \* bound of the model: numbers lost, restarts of the sender

ASSUME SystemAssumption ==
  /\ max_segment_bytes \in Nat /\ Sizes \subseteq Nat \ {0, 1}
  /\ Indices \subseteq Nat \ {0} /\ NoFile \notin Indices
  /\ MaxWrites \in Nat /\ MaxRuns \in Nat \ {0}
  /\ Sources \subseteq {"stream", "udp"}
  /\ Empty \notin Frame
  /\ TimestampMax \in Nat /\ MaxElapsed \in Nat /\ MaxMishaps \in Nat

VARIABLES disk, current_file, segment_index, current_size,   \* FileStorage
          writes, acked, opened, runs,
          source,      \* which PacketSource run_with_source made
          peer,        \* the sender: "up", "closed", "reset"
          next,        \* the sender's next sequence number
          under_way,   \* sent, and not yet ingested
          elapsed,     \* Instant::elapsed of SystemClock.base
          \* auxiliary:
          mishaps,     \* numbers lost before the host, and restarts of the sender
          stamps,      \* clock.now() at each frame of `tracked`
          logged       \* the record of each call of storage.write

fvars == <<disk, current_file, segment_index, current_size, writes, acked, opened, runs>>
svars == <<source, peer, next, under_way, mishaps>>
cvars == <<elapsed, stamps>>

Files == INSTANCE FileStorage

SystemInit ==
  /\ HostInit /\ Files!Init
  /\ source \in Sources
  /\ peer = "up" /\ next = 0 /\ under_way = <<>> /\ mishaps = 0
  /\ elapsed = 0 /\ stamps = <<>>
  /\ logged = <<>>

-----------------------------------------------------------------------------
(* The sender and the transport.  The sender shares nothing with the host  *)
(* but what is under way, so it is enough that it steps between two reads. *)

SenderSteps ==
  /\ pc = "read" /\ peer = "up"
  /\ UNCHANGED <<hvars, fvars, cvars, source, logged>>

\* A frame, damaged or of an unknown kind perhaps, with the next number.
\* Nothing but the CRC is looked at in a damaged one, so one kind of those
\* will do.
Send(frame) ==
  /\ SenderSteps
  /\ frames + Len(under_way) < MaxFrames
  /\ frame.sequence = next
  /\ frame.crc_ok \/ KnownKind(frame)
  /\ under_way' = Append(under_way, frame)
  /\ next' = Successor(next)
  /\ UNCHANGED <<peer, mishaps>>

Mishap == mishaps < MaxMishaps /\ mishaps' = mishaps + 1

\* A number that never arrives; a sender that starts again from zero.
Skip ==
  /\ SenderSteps /\ Mishap
  /\ next' = Successor(next)
  /\ UNCHANGED <<peer, under_way>>

Reboot ==
  /\ SenderSteps /\ Mishap
  /\ next' = 0
  /\ UNCHANGED <<peer, under_way>>

SendEmpty ==
  /\ SenderSteps /\ Mishap
  /\ source = "udp"
  /\ under_way' = Append(under_way, Empty)
  /\ UNCHANGED <<peer, next>>

Close ==
  /\ SenderSteps
  /\ source = "stream"
  /\ peer' = "closed"
  /\ UNCHANGED <<next, under_way, mishaps>>

\* The connection is reset, and what the host had not read is gone.
Reset ==
  /\ SenderSteps
  /\ source = "stream"
  /\ peer' = "reset" /\ under_way' = <<>>
  /\ UNCHANGED <<next, mishaps>>

Sender == (\E frame \in Frame : Send(frame)) \/ Skip \/ Reboot \/ SendEmpty \/ Close \/ Reset

-----------------------------------------------------------------------------
(* The host                                                                *)

Others == <<fvars, svars, cvars, logged>>

\* PacketSource::read: a stream returns any number of the bytes under way,
\* a socket one datagram.
ReadSome ==
  /\ Read
  /\ left' \in 1 .. (IF source = "udp" THEN 1 ELSE Len(under_way))
  /\ left' <= Len(under_way)
  /\ \A i \in 1 .. left' : under_way[i] # Empty
  /\ UNCHANGED Others

\* read returns Ok(0) or an error run_loop takes for the end.
ShortRead == source = "stream" /\ Len(under_way) <= 1   \* mutant
NeverOnStream == source = "udp" /\ under_way # <<>> /\ Head(under_way) = Empty   \* mutant
SourceEnds ==
  \/ source = "stream" /\ peer # "up" /\ under_way = <<>>
  \/ source = "udp" /\ under_way # <<>> /\ Head(under_way) = Empty

ReadEnds == Eof /\ SourceEnds /\ UNCHANGED Others

ReadErrs == ReadFails /\ UNCHANGED Others

\* SystemClock::now: microseconds as u64, saturated.
Truncated(micros) == micros % (TimestampMax + 1)   \* mutant
Now(micros) == IF micros < TimestampMax THEN micros ELSE TimestampMax

\* ingest of the next frame of the chunk, stamped with the time it is by then.
IngestNext ==
  /\ NextAnswer
  /\ Ingest(Head(under_way))
  /\ under_way' = Tail(under_way)
  /\ elapsed' \in elapsed .. MaxElapsed
  /\ IF tracked' = tracked THEN elapsed' = elapsed /\ UNCHANGED stamps
                           ELSE stamps' = Append(stamps, Now(elapsed'))
  /\ UNCHANGED <<fvars, source, peer, next, mishaps, logged>>

\* storage.write of the record drain has just popped.
StorageWrite ==
  /\ \E r \in Files!Record : Files!Write(r)
  /\ logged' = Append(logged, Oldest(ringbuf))

StoreRecord ==
  /\ DrainWrites
  /\ StorageWrite /\ acked' # acked
  /\ UNCHANGED <<svars, cvars>>

\* storage.write failed in one of its ways, or flush did on an open file.
StorageErrs ==
  /\ DrainErrs
  /\ \/ ringbuf.queue # <<>> /\ StorageWrite /\ acked' = acked
     \/ ringbuf.queue = <<>> /\ current_file # NoFile /\ UNCHANGED <<fvars, logged>>
  /\ UNCHANGED <<svars, cvars>>

Quietly == (DrainCall \/ DrainReturns \/ FinalFlushOk) /\ UNCHANGED Others

FinalErrs == FinalFlushFails /\ current_file # NoFile /\ UNCHANGED Others

Running == ReadSome \/ ReadEnds \/ IngestNext \/ StoreRecord \/ StorageErrs \/ Quietly \/ FinalErrs

SystemNext == Sender \/ Running \/ ReadErrs

sysvars == <<hvars, fvars, svars, cvars, logged>>

SystemSafety == SystemInit /\ [][SystemNext]_sysvars

\* A read returns once there is something to return, and the loop then does
\* its work; the sender owes nothing.
SystemSpec == SystemSafety /\ WF_sysvars(Running)

-----------------------------------------------------------------------------
\* Places of the readable records: which segment, and where in it.
LogPlaces ==
  {a \in (1 .. Len(opened)) \X (1 .. MaxWrites) : a[2] \in Files!Read(opened[a[1]])}

Earlier(a, b) == a[1] < b[1] \/ (a[1] = b[1] /\ a[2] < b[2])

RecordAt(a) == logged[disk[opened[a[1]]][a[2]].id]

\* Whoever reads the segments one after the other, at whatever moment and
\* after whatever failures, gets the records in the order their frames came
\* in, none twice, with time stamps that never fall.
LogInOrder ==
  \A a, b \in LogPlaces : Earlier(a, b) =>
    /\ RecordAt(a).nth < RecordAt(b).nth
    /\ stamps[RecordAt(a).nth] <= stamps[RecordAt(b).nth]

\* The statistics line bounds the log: what can be read is what `ok` counts
\* except for what is queued, and except for at most two records for each
\* failure write_fail counts: the one lost, and the one appended to its torn
\* remains.
LogMatchesStats ==
  Cardinality(LogPlaces) + Len(ringbuf.queue) \in (stats.ok - 2 * stats.write_fail) .. stats.ok

\* seq_gap can be explained: it never exceeds the numbers lost on the way,
\* the sender's restarts, and the frames refused before the sequence check
\* (which the other counters show), however these follow on each other and
\* wherever the numbers wrap.
GapsExplained ==
  stats.seq_gap <= mishaps + stats.crc_fail + stats.filtered

\* If the program ends well, nothing the sender managed to send is left
\* unread, unless the connection was reset or an empty datagram passed for
\* the end; and if no storage call failed, all `ok` records can be read.
CompleteAtExit ==
  pc = "done" =>
    /\ under_way # <<>> => Head(under_way) = Empty
    /\ stats.write_fail = 0 => Cardinality(LogPlaces) = stats.ok

\* A stream that ends ends the program, whatever fails meanwhile.
EndsWithStream ==
  source = "stream" /\ peer # "up" ~> pc \in {"done", "failed"}
=============================================================================
