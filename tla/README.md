# Verification of the telemetry logger

TLA+ models, model-checking configurations and machine-checked proofs for the
pipeline of this repository: bytes come in from a noisy link, are cut into
frames, validated, filtered, queued, and written to rotating segment files,
which a decoder reads back.

## 1. The system

    source ──bytes──▶ Framer ──frames──▶ Validator ──▶ FilterConfig ──▶ RingBuf
                                                                          │ pop
    run_loop: read, ingest, drain, … flush        record::encode ◀────────┘
                                                        │ write, flush
    telemetry-decode ◀── seg-00001.bin, seg-00002.bin ◀── FileStorage

Each program runs in one thread; the decoder may read what the host is still
writing, and between sender and host there may be a datagram network. What makes
the host hard is not interleaving but sequences: an arbitrary byte stream that
must be re-synchronised, a bounded queue between two loops, and a storage every
call of which can fail, whose errors are counted and otherwise ignored.

| Component (source) | State | Operations | Interacts with |
|---|---|---|---|
| Framer (`telemetry-core/src/framer.rs`, `frame.rs`) | buffer, mode, `resync_count` | `feed`, `process` | called per byte by `Pipeline::ingest`; decodes with the crate `cobs` |
| Validator (`validator.rs`) | `last_seq` | `check` | called per complete frame |
| Filter (`filter.rs`) | none (a policy) | `allow` | called per accepted frame |
| Ring buffer (`ringbuf.rs`) | queue, `overflow_count`, `high_water` | `push`, `pop` | between ingest and drain |
| Pipeline, statistics (`pipeline.rs`, `stats.rs`) | the above, seven counters | `ingest`, `drain`, `stats_mut` | owns the components; calls a `Storage` and a `Clock` |
| Record codec (`record.rs`) | none | `encode`, `decode` | drain encodes, the segment reader decodes |
| File storage (`telemetry-std/src/lib.rs`) | open file, segment index, size | `write` (with rotation), `flush` | drain; the file system |
| Segment reader (`telemetry-std/src/lib.rs`) | none | `read_segment` | the files, the record codec |
| Clock, source, storage (`traits.rs`, `SystemClock`) | the clock's base | `now`; `read`; `write`, `flush` | stamps records; between the loop and the system |
| Host (`telemetry-host/src/main.rs`) | `run_loop` | read, ingest, drain, final flush | the source, the pipeline, the storage |
| Packet generator (`tools/packet-generator`) | RNG, sequence, statistics | fault-injecting sender | the source of the tests |
| Decoder (`tools/telemetry-decode`) | statistics | sort segments, filter, print | the segment reader |
| Firmware and Linux binaries | none | stubs | none |

What makes each correct, and hard:

* **Framer.** It must never lose a valid frame that arrives whole, whatever came
  before it, never invent one, and after an overflow must not let the tail of
  the oversized segment become the head of the next frame.
* **Validator and filter.** One comparison decides over loss, duplication,
  reordering and wrap-around, and re-synchronises as it rejects.
* **Ring buffer and pipeline.** Every frame must be accounted for in exactly one
  counter; a full queue must not disturb what is queued; a drain that fails
  half way must leave the rest in order for the next one.
* **File storage.** Partial writes, failing rotations and restarts must not cost
  acknowledged records; what the reader returns must have been written.
* **Generator and link.** Damage to one frame must not cost another, and each
  fault of the link must have a bounded price in rejected frames.
* **Record codec.** Every record a frame can carry must fit its buffer and come
  back as itself; of what is cut, merged, damaged or newer, no other record.
* **Decoder.** Read beside a writer, the log must come out in order and without
  holes.
* **Host.** The loop must leave no record waiting for input that may never
  come, and its exit must mean something for what was accepted. From the sender
  to the log, what is read back must be explained by what was sent and counted.

`PROJECT.json` lists the hazards one by one, each at its line with the
properties that cover it.

## 2. The modules

| Module | What it is |
|---|---|
| `Cobs` | byte stuffing, the external crate `cobs` |
| `Protocol` | version, packet types, severities |
| `Frame` | the wire frame, `Frame::encode_raw`, `Framer::process` |
| `Framer` | `Framer::feed`, one action per branch |
| `FramerSpec` | abstract: a stateless splitter of the stream |
| `Validator` | `Validator::check`, `FilterConfig::allow` as operators |
| `RingBuf` | `RingBuf::push`, `pop` as operators on its state |
| `Pipeline` | `ingest` and `drain`, composed of the two modules above |
| `LossyFifo` | abstract: a bounded first-in first-out line |
| `Host` | `run_loop`, composed over `Pipeline` |
| `Segment` | a segment file as a sequence of pieces, and what the reader makes of it |
| `FileStorage` | segments, rotation, failures, restart |
| `RecordCodec` | `record::encode`, `record::decode`, `read_segment`, to the byte |
| `SegmentBytes` | one segment file byte by byte, beside its pieces |
| `System` | sender, source, `Host`, clock and `FileStorage` together |
| `Generator` | the packet generator with its corruption modes |
| `Link` | generator, stream or UDP, framer and sequence check, byte by byte |
| `Decoder` | `telemetry-decode`, beside the writer of `FileStorage` |
| `MCFramer`, `MCPipeline`, `MCHost`, `MCFileStorage`, `MCLink`, `MCDecoder`, `MCRecord`, `MCSystem` | the instances for TLC, with their reasons |
| `DataInduction` | induction and recursion over the naturals, with sets and functions as parameters |
| `CobsProofs`, `FramerProofs`, `FileStorageProofs`, `DecoderProofs`, `RecordProofs`, `LinkProofs` | theorems and proofs about the module of that name |
| `SystemProofs` | theorems and proofs about `Pipeline`, `Host` and `System`, each on top of the one before |

### Framer

State: `buf`, `state` and `resync_count` are the fields of the struct, `out` is
the value the last call returned, and the auxiliary `seg` is what the stream
held since its last delimiter, which the code does not know. The six actions
are the six paths through `feed`. `EndOfFrame` includes the whole of `process`:
COBS decoding, the three length checks, cutting the fields. COBS is modelled by
what it does, on bytes `0..MaxByte` where the code has `0..255`; `MaxByte` is
also the length of a full block, so a small one exercises full blocks with
short inputs. Of the header only `payload_len` matters to the framer; the seven
bytes before it are carried as `id`.

### Pipeline

State: `last_seq`, `ringbuf` and `stats` are the fields of the components.
`draining` is being inside a call of `drain`. The auxiliary variables are what
an observer of both ends would write down: the number of answers of the framer,
the sequence numbers that reached the sequence check, the records acknowledged
by the storage, how many of them the last flush covered, and how many were lost.
An ingest step takes one answer of the framer and runs the whole path of
`ingest` for it; the six disjuncts of `Ingest` and `FramerError` are the seven
ways it can end. A drain is one step per storage call, since each can fail.
The framer appears through its answers only; its own module shows which there
are (`CompleteIsFaithful` is why `Reason::BadLength` has no branch here).
`record::encode` cannot fail here: the largest record needs 507 of 512 bytes, and
`EncodeFits` of `SegmentBytes` checks the bounds that make it so.
A counter wraps, as `+=` does in a release build.

### Host

`pc` is the place in `run_loop`; `left` counts the answers the bytes of the
last read still complete, from none (the chunk ends inside a frame) to more
than the queue holds. Every step inside `ingest` and `drain` is a step of
`Pipeline`. `synced` (what any flush, the final one included, has covered),
`failing` and `largest` are auxiliary. A read may return a chunk, an end of the
source (`Ok(0)`, `ConnectionReset`, `UnexpectedEof`) or another error, which
skips the final flush. `AllowlistOf` is the filter policy `main` makes of the
arguments.

### File storage

A file is the sequence of pieces that were written to it, a piece being the
first `got` bytes of a record of `size` bytes. `write_all` may stop at any byte;
a flush or a creation may fail. `WriteRotated`, `CreateFails` and
`RotateFlushFails` are the ways a write that needs a rotation can go, `Restart`
is the end of the process, by crash or not, and a new one on the same directory.
Files are unbuffered, so bytes passed to `write_all` outlive the process; the
loss of the operating system's cache in a power failure is not modelled.
The reader (`Segment`) splits at delimiters: a piece that lost its delimiter is
merged with the next one, and the CRC-32 refuses the result. A piece that lacks
only the delimiter decodes.

### Record codec

`RecordCodec` translates `encode` and `decode` with every length check, and
`read_segment` over them; postcard and COBS, which are libraries, are modelled by
what they do to the bytes. A byte has 16 values where the code has 256, so that
a COBS block is full after 14 bytes and a varint carries three bits a byte; the
CRC-32 is a polynomial remainder of as many bytes. `SegmentBytes` writes encoded
records to a file, whole or cut at any byte, then changes bytes of it, and keeps
the pieces of `Segment` beside it: `BytesMatchPieces` is the ground on which
`FileStorage` and `Decoder` speak of pieces. One case is coarser there: a torn
record followed by another torn one may be completed by the bytes of the second,
since all records of this version begin alike (`Completable`); the pieces call
both unreadable.

### System

`System` puts the parts together. The sender numbers its frames, some damaged or
of an unknown kind; numbers are lost and it may restart. `ReadSome` returns any
part of what a stream has under way, or one datagram; `ReadEnds` is what the loop
takes for the end, an empty datagram included. `IngestNext` is the pipeline's
`Ingest` of the next frame, stamped by `Now`; `StoreRecord` and `StorageErrs` join
each call of the storage in drain with an action of `FileStorage`, which can fail
in each of its ways. `logged` ties the pieces on disk to the records they hold.
There is no action for a crash: every invariant about the log is one of the files
as they stand at any step.

### Generator and link

`MakeFrame` is one turn of the loop in `main`, with `apply_corruption`: the
random numbers become choices. Its bytes wait in `outbox` until `write_all` takes
them, which may fail and leave part of a frame on a stream. `wire` holds what is
under way: a stream delivers its head, UDP any of its members, and may lose or
repeat one. The stream of a generator that failed ends anywhere (`Break`), also
within a frame: `write_all` to standard output fills a buffer, and when a later
write or the flush at the end of `main` fails, some of it was not written; a
connection may be reset. `Receive` is one turn of the loop in `ingest`: it feeds one byte to
the action of module `Framer` and judges the answer with the operators of
`Validator`. As the two programs share nothing but the wire, the generator is
only interleaved between pieces. CRC-16 is replaced by a sum, which keeps the
property that a change of one byte is always noticed.

### Decoder

`List` collects and sorts the paths, `CannotList` is the exit when the directory
cannot be read, `ReadFile` reads one file whole and prints and counts what passes
the filter, `CannotRead` is the warning. Between any two of them the actions of
`FileStorage` go on (`Writer`), restarts included. A listing of the directory, a
write of a record and a read of a file are atomic. For the listing that is an
assumption about the operating system: `collect_segments_in_dir` takes the entries
one by one, and a segment created meanwhile may be listed or not; if two are, the
second may be listed without the first. `NoHoles`, the half of `ViewComplete` about
what is written while the decoder reads, holds only of a listing in which that does
not happen. The files that were there before the listing began are listed
in any case, and `ShownInOrder` does not depend on which are. `origin` is, of each record shown, the
path it came from, and `started` where the writer's runs begin. Segment names are compared as text:
`NameBefore` says what that means for the numbers in them.

## 3. What is checked

| Run | States | Bounds |
|---|---|---|
| `framer` | 187,232 | bytes 0..3, frames of 4 or 5 bytes, buffer of 8, segments up to 10 bytes |
| `pipeline` | 176,850 | queue of 2, sequence numbers modulo 3, 5 answers of the framer, 2 failing storage calls |
| `host` | 305,406 | queue of 2, reads of 0 to 3 frames, 5 frames, 2 failing storage calls |
| `file_storage` | 49,751 | 3 segments of 5 bytes, records of 2 and 3 bytes, 5 writes over 2 runs |
| `link_stream` | 634,854 | 3 turns, all four modes, bursts of 2, a skip of 5, two payloads, bytes 0..15 |
| `link_datagrams` | 4,067,553 | 3 turns, flips, skips and bursts, two datagrams under way, 2 faults of the network |
| `decoder` | 1,521,665 | 3 segments, 4 writes over 2 runs; the directory, two files in the wrong order, or the directory and a file that is in it already or comes later |
| `record` | 282,819 | bytes 0..15, payloads of up to 9, four records (smallest, largest, one with zeros, one of a newer version), 2 pieces, 1 changed byte |
| `system` | 1,361,674 | 4 frames, queue of 2, sequence numbers modulo 3, segments of 2 records, 1 failing storage call, 1 mishap of the sender, a clock that saturates at 1 |

Why the bounds are enough. *Framer*: its state is one segment, so the stream
length is unbounded and the state space is complete for the alphabet; the buffer
holds the longest valid frame exactly, segments reach the overflow at 9 bytes
and go on after it, and `resync_count` saturates at 2. *Pipeline*: with five
frames modulo three the sequence wraps, and duplicates, gaps, reordering and a
wrapped gap occur; a queue of two is filled, overflows, is drained in part and
filled again. *Host*: one read can overflow the queue by itself, and a read
after a failed drain can do so together with what that left behind. *File
storage*: two records of mixed size fill a segment exactly, every write can be
cut at each of its bytes, and the second run meets the files of the first.
*Link*: a third frame shows whether the receiver recovered from what happened to
the first two. The mask 10 on four bits does to a short frame what 0xAA does in
the code: a flipped code byte points past the end, and a data byte (the payload
10) becomes a delimiter. *Decoder*: all ways in which four writes are spread over
three files meet all places between two reads. *Record*: the largest record fills
a COBS block without a zero in it but the first, needs the last byte of its
buffer, and has varints of one, two and three bytes; two pieces, each cut at any
byte, are all a merge needs. *System*: one failure is enough to tear, merge or
rotate, as `file_storage` and `host` combine several; four frames modulo three wrap.

| Property | What it says |
|---|---|
| `InStep` | the buffer is everything since the last delimiter, or the framer discards and that has outgrown the buffer |
| `ValidFrameDelivered` | an encoded frame that arrives whole comes out as itself |
| `CompleteIsFaithful` | a completed frame is a valid one, and encodes to the bytes received |
| `ImplementsFramerSpec` | every segment's verdict is a function of that segment alone |
| `Accounted` | each answer of the framer is in exactly one counter (`Conservation`); `ok` is queued, written or lost, and `dropped` is the ring's own count (`QueueAccounting`) |
| `HighWaterAgrees` | the two copies of the mark agree and bound the occupancy |
| `InOrder` | the log and the queue are in arrival order, without duplicates |
| `FollowsPredecessor` | a stored frame's predecessor in sequence arrived just before it |
| `GapsCounted` | `seq_gap` counts exactly the breaks in the sequence |
| `DrainMeansDurable` | a drain without a counted failure emptied the queue and flushed all |
| `ImplementsLossyFifo` | the pipeline is a bounded first-in first-out line |
| `CleanRunIsComplete` | without failures, all of `ok` is flushed whenever the process waits or has ended |
| `ExitAccounting` | what exit code 0 says of `ok` when there were failures |
| `NoDropWithoutCause` | drops need a read larger than the queue, or a failure |
| `BurstDrained` | what a read queued is drained without further input, unless that drain fails (liveness) |
| `SegmentBound` | `current_size` is the size of the complete records in the open file (`SizeTracked`), and those of a segment stay within the limit, or are one |
| `AckedOnDisk` | the acknowledged records, and only they, are complete on disk, in order |
| `AppendOnly` | what a run wrote it never takes back |
| `TornCostsOne` | a torn write makes at most one acknowledged record unreadable |
| `ReadIsWritten` | the reader yields acknowledged records, or a last one that lacks only its delimiter |
| `FramesJudged` | every intact frame that arrives is recognised, whatever was damaged before it (`IntactAccounted`); a damaged one never passes, and is counted once or twice (`DamageCounted`) |
| `StreamInOrder` | over a stream nothing is accepted twice or out of order |
| `FaultsBounded` | over UDP too intact frames are recognised, and each fault costs a bounded number of gaps (`GapsBounded`) |
| `StoredTwiceTakesTwo` | over UDP a frame is stored again only if it arrived again and, besides, before its predecessor once: at most as often as either happened |
| `FinishedRunArrives` | what a generator reports that ended well arrives (liveness) |
| `StatisticsAgree` | the decoder's totals and every row of its tables count what it shows |
| `ShownInOrder` | the records of each run of the writer are shown in the order written, each once; only a file given twice is shown twice |
| `ViewComplete` | what the current run had acknowledged at the listing is shown (`ShowsAllBefore`), and with a record every earlier readable one (`NoHoles`) |
| `RoundTrip` | no record a frame can carry is refused by `encode` or outgrows the space asked for (`EncodeFits`), and `decode` undoes it, with and without the delimiter; a newer version is an error |
| `BytesMatchPieces` | the reader's results over the bytes are those the pieces say |
| `DamageContained` | a changed byte makes up no record and costs only what it touched |
| `LogInOrder` | the readable log is in the order of arrival, without duplicates, its stamps never fall |
| `LogMatchesStats` | what can be read is `ok` less the queue, and less two for each counted failure |
| `GapsExplained` | `seq_gap` is at most numbers lost, restarts of the sender, and frames refused earlier |
| `CompleteAtExit` | after a good end nothing sent is unread, and without failures all of `ok` is readable |
| `EndsWithStream` | a stream that ends ends the program (liveness) |

Every property is broken by at least one plausible bug in a definition it
depends on; these mutants are the definitions marked `\* mutant`, and
`PROJECT.json` pairs them.

**Fairness.** `BurstDrained` needs weak fairness of `Work`, the steps
of the loop that do not wait for the source. The loop is sequential, each call
of `ingest` and `drain` is bounded by the chunk and the queue, and storage calls
are assumed to return, successfully or not. Nothing is assumed of the source: a
TCP peer may stay silent for ever. `DrainWrites` may be followed by a failure at
any point, which the property allows for. `FinishedRunArrives` needs it of the
generator's own steps, of delivery by the stream, which TCP and pipes promise as
long as both ends live, and of the receiving loop; none is assumed of UDP.
`EndsWithStream` needs it of `Running`, the steps of the loop that can be taken:
a read that has something to return, or an end, returns. The sender owes
nothing, and a read error is always possible and never due.

**Deadlock** is checked except in `MCFileStorage.cfg`, `MCDecoder.cfg`,
`MCRecord.cfg` and `BootScan.cfg`, where the bounds on writes, runs and damage end a
behaviour, and in `MCSystem.cfg`, where the sender may stay silent or the bounds
on frames and time be reached. `Host` and `Link` have a stuttering step for exited processes.

### Disagreements between documents and code

Three configurations check a sentence of the documents and find it violated.

| Configuration | Sentence | Code |
|---|---|---|
| `UnknownVersion.cfg` | protocol.md:216, unknown versions are rejected | `check` never reads the version |
| `CountersFall.cfg` | stats.rs:3, counters saturate | `+= 1` wraps or panics (pipeline.rs:82) |
| `BootScan.cfg` | protocol.md:158, the boot scan only truncates partial records | there is no scan; files of the last run are emptied (lib.rs:146) |

`CountersFall.cfg` sets `CounterMax` to 2 so that the width is reached.

More disagreements show in the models without a run of their own:

* failure-modes.md:12 says that a full queue drops the oldest record; `push`
  refuses the newest (ringbuf.rs:48), as its own comment says (`Refuse`, and
  `ImplementsLossyFifo`).
* lib.rs:122 calls `segment_count` the number of segment files created; it counts
  failed creations too (lib.rs:145, `CreateFails`).
* record.rs:46 calls the timestamp microseconds since boot; its epoch is the
  start of the host process (`Now`), so that it starts again with every run.
* lib.rs:191 says that a record without its delimiter is `Err`; it decodes as
  `Ok` if nothing else is missing (`Decodes`, and the exception in
  `ReadIsWritten`).
* protocol.md:193 says there is no partial last record after a clean shutdown; a
  failed `write_all` leaves its bytes (`Wrote`).
* lib.rs:84 says a segment is closed before it passes the limit; the bytes of
  partial writes are not counted (`Failed`).
* packet-generator main.rs:22 says the frames of a burst are monotonic; they are
  copies (`Burst`). They make error.rs:33, that a gap means frames dropped
  upstream, false over a perfect stream.
* telemetry-decode main.rs:241 wants segments in the order of their numbers; from
  `seg-100000.bin` on the order of names is another (`NameBefore`).
* After a restart a concurrent decoder may show records of both runs mixed, and
  with holes if the directory held segments of an earlier run; a file given by
  name and with its directory is shown twice, and one given by name before it
  exists can be shown without those before it; over UDP a repeated datagram can be
  stored twice, when its predecessor comes late (`StoredTwiceTakesTwo`). No document promises otherwise; the properties are
  limited accordingly.
* Values of `--allow-type` that are repeated each take one of the eight places
  (`AllowlistOf`), and later ones are cut off with the warning that there are too
  many.
* `cobs::max_encoding_length` is one short for data of full blocks without any
  zero; `encode` (record.rs:107) is safe because the discriminant of V1 is a zero
  byte (`EncodeFits`). A second version would lose that.

## 4. What is proved

All proofs are checked by TLAPS for every value of the constants, under the
named assumptions of the modules (naturals where the code has sizes, `None` not
a sequence number, and so on).

* `DataInduction`: the principles the other modules use for recursive functions.
  The induction theorems of the library take a predicate as a parameter, which the
  provers cannot instantiate; these take a set of numbers or a function instead.
  They rest on `WFMin`, that a set of naturals that is not empty has a least
  element.
* `CobsProofs`: `CobsRoundTrip`, that decoding an encoded sequence of bytes gives
  it back, that the encoding holds no delimiter, and that it is longer by one byte
  and one for each full block at most. `RankRecursion` makes one-step equations of
  the recursive definitions (`DecodeSteps`, `EncodeSteps`); the round trip is then
  proved from the end of the input backwards, a block at a time (`DecodeBlock`).
* `FramerProofs`: `TypeCorrect`, `StaysInStep`, `Refinement`. `InStep` is
  inductive together with `TypeOK`; the refinement uses it to see that the
  buffer the code judges is the segment the specification judges.
  `FramesAreDelivered` proves `ValidFrameDelivered`: the encoding has no delimiter
  and fits the buffer, so by `InStep` the whole of it is judged, and
  `CobsRoundTrip` and the layout of the fields (`IntoDigits`, `FramesAre`) make the
  frame of it again. It has two hypotheses. `TwoBytes` is that the largest payload
  can be written in two bytes (480 and 65536 in the code); `WireFits` is that the
  buffer holds the encoding of the largest frame (493 bytes in 512 in the code;
  the instance for TLC has no byte to spare). `NothingInvented` proves
  `CompleteIsFaithful` without them: what the parser accepts is, byte by byte,
  `Frame::encode_raw` of what it returns.
* `SystemProofs`, first part (`Pipeline`): `TypeCorrect` and `Refinement` need no assumption about the
  run. `Accounting` and `StatisticsAudit` (`Accounted`) assume `NoWrap`,
  counters at least as wide as the number of frames and failures, without which
  it is false: counters wrap. `HighWaterMark` and `DrainDurable` do not count,
  and do not need it. `ArrivalOrder` and `PredecessorArrived` rest on the lemma
  `Steps`, which reduces each action to what it does to the arrivals, the queue
  and the log, and on `AlwaysSynced`, that `last_seq` is the number of the last
  arrival; order is inductive only over stored and queued records together,
  because a drain moves a record from one to the other. `GapCount` adds one to a
  cardinality exactly when the newest arrival breaks the sequence (`GapSteps`).
* `SystemProofs`, second part (`Host`): `HostUsesPipeline` shows every step of the loop to be a step of
  `Pipeline` or none, so the theorems above hold of the process; `HostTypeCorrect`
  adds the loop's own state. `CleanRun`, `Exit` and `DropsHaveCause` follow from
  `RoundInv` and `Accounting`. None of the three is inductive: `RoundInv` adds that
  a drain is in progress exactly when the loop is in it, that only a failed drain
  leaves records behind, and that in a round that began with an empty queue the
  queue and the rest of the chunk together are no larger than the chunk was.
* `SystemProofs`, third part (`System`): `SystemUsesHost` shows every step of the composed system to be a
  step of `Host` or none, so that what is proved of the process holds with any
  sender and with files behind the storage. `GapsHaveCauses` proves
  `GapsExplained` for any number of frames, mishaps and any width of the sequence
  number. The count of gaps alone is not inductive. The sender's numbers that are
  still to be judged form a path from `last_seq` to `next`, whose jumps each have a
  cause; a rejected frame is either a jump of that path or leaves a new one
  behind, and `GapCount` turns the counter into the number of jumps passed.
* `FileStorageProofs`: `StorageTypes` is inductive with `OpenedInv`, that the
  segments of this run exist and are numbered up to `segment_index`, which grows
  also when a creation fails: so `File::create` never empties a segment of its own
  run, which is `SegmentsOnlyGrow`. `TornWritesCostOne` maps each unreadable
  complete record to the torn one before it, an injection. `ReaderYieldsWritten`
  adds `WholeAcked`, that complete pieces were acknowledged. `SegmentsInCallOrder`
  needs `OpenIsLast`, that the open file is the newest segment of the run: so a new
  piece comes behind all others, under the number of its call. `CleanFilesComplete`
  adds that no write takes a place away (`PlacesKept`), so that as long as every
  call was acknowledged each has its complete piece. `ExactlyTheAcknowledged`
  (`AckedOnDisk`) and `SegmentsStayBounded` (`SegmentBound`) are about recursive
  functions over a file, its complete pieces and their total size: a write appends
  one piece, so the value over the longer file is that over the shorter one and one
  step (`WholeRecordsAppend`, `SizeOfWholeAppend`), which needs that the open file is the last.
  `AcknowledgedIsThere` gives each acknowledged record its complete piece, and
  `ReadBackBounds` counts the pieces that can be read.
* `SystemProofs`, third part, the log: `SystemUsesStorage` shows every step of the composed
  system to be a step of `FileStorage` or none, for an instance of
  `FileStorageProofs` whose assumptions follow from `SystemAssumption`. `LogKeepsOrder` proves `LogInOrder`
  out of three orders: of the pieces on disk (`SegmentsInCallOrder`), of the calls
  of `storage.write` against the queue (`LoggedInv`, inductive because the queue is
  ascending: `ArrivalOrder`), and of the stamps against the clock (`ClockInv`).
  `CompleteExit` proves `CompleteAtExit` under `NoWrap`: `WayOut` ties the end of the
  loop to the end of the source and the counted failures to the acknowledgements;
  the places of the log are then in bijection with the calls of `storage.write`
  (`PlaceOfEachCall`), and those are what `ok` counts (`Accounting`, `Rounds`).
  `LogMatchesTheStats` proves `LogMatchesStats` at every step, also after failures:
  every call was acknowledged or is counted as lost (`CallsSplit`), a lost one makes
  at most one other unreadable (`ReadBackBounds`), and the readable places of the log
  are as many as those calls (`PlacesAreCalls`).
* `DecoderProofs`: `DecoderUsesStorage` shows that the writer beside the decoder is
  that of `FileStorage`, so that the theorems above hold between any two of its
  reads. The others have the hypothesis `NamesInOrder`, that the names of the
  segments sort like their numbers: it holds up to `seg-99999.bin`, it is false
  beyond, and TLC evaluates it on the instance. `DecoderStatistics`
  (`StatisticsAgree`) makes a count over the results of a file one over what is
  printed of it (`CountPrinted`), and that a part of the count over all that is
  shown (`CountConcat`). `DecoderShowsInOrder` (`ShownInOrder`) needs to know where
  records have been, as a restarted writer empties files that were shown: `Placed`
  says that a record stands in a segment or was shown from it, and `PlacesInv` that
  of the places of one run those in higher segments are later. Each file is in
  order by itself, and `ReadingOrder` adds the sorted paths. `DecoderViewComplete`
  (`ViewComplete`): `BeforeFound` follows each record acknowledged at the listing to
  a piece in a segment that is still to be read or has been read with it;
  `FirstRunView` is the induction for the part without holes: a segment before a
  listed one was complete when it was read, and in a segment that was read the
  pieces before a shown one were there. A piece that was not readable does not
  become so by what is written behind it (`ReadableBefore`).

* `RecordProofs`: `RecordsReturn` is about `encode` and `decode` alone, for every
  record a frame can carry: `encode` does not refuse it and writes no more than it
  asked for, and `decode` gives it back with its delimiter and without it, or the
  error of an unknown version. `RecordsRoundTrip` makes `RoundTrip` of it. The
  hypothesis `RecordsFit` is the sum in the comment on `MAX_STORED_RECORD_BYTES`: the
  longest record of its version, with checksum, stuffed and delimited, fits the
  buffer (507 of 512 bytes in the code; TLC evaluates it on the instance, which has
  no byte to spare). A varint ends at the first byte below the radix and its digits
  make the number again (`VarintEnds`, `ReadingUndoes`, `TakeUndoes`), so each field
  is found where the one before it ends (`SerializedParts`, `DeserializeUndoes`);
  `CobsRoundTrip` does the stuffing. That `encode` asks for enough needs `ZeroFirst`:
  a record of V1 begins with a zero, without which one byte would be missing
  (`EncodingLength`). Of the checksum only its length and its range matter
  (`CrcTyped`), so that this holds of CRC-32 as well.
* `LinkProofs`: `LinkJudgesFrames` (`FramesJudged`), `LinkKeepsOrder`
  (`StreamInOrder`) and `LinkBoundsGaps` (`FaultsBounded`), for every alphabet, set of
  payloads and of skips, length of burst and number of turns and faults. Besides
  `TwoBytes` and `WireFits` they have the hypothesis `DamageShows`: no frame passes
  that was cut short or had a byte flipped, nor the half that a flip to a delimiter
  splits off. The length check refuses cut frames, a CRC-16 notices every changed
  byte; only that no half looks like a frame depends on the payloads, and by chance
  one in 65536 would. TLC evaluates it on the instances. The
  inductive invariant has three parts. `LinkInv` says what a piece can be (`Sound`,
  `Torn`: the encoding of the frame of its turn, or what one of the damages leaves
  of it) and how far the receiver has got with the one that is arriving: between two
  pieces (`Idle`), within an intact frame (`GoodDue`), within a damaged one that is
  still to be counted once, twice or not at all (`BadDue`), at the end of a stream
  that broke off (`BrokenOff`). What a break leaves of a frame is a prefix of it, and
  so is what a second break leaves of that (`BrokenWire`, `SeveredAgain`). It does not mention the bytes before: that
  `push_byte` is back at an empty buffer after each delimiter (`ZeroArrives`) is
  what makes damage stay with its frame. `InOrder` says that the turns of what is
  under way on a stream ascend, and that what was accepted lies before them, or is
  the frame in `last_seq` (`AcceptedOnce`), of which a copy is refused
  (`SuccDiffers`). `GapsPaid` bounds more than the gaps
  counted: together with the breaks still to come they are paid for by the faults so
  far. Those breaks are in one chain of numbers (`Chain`): `last_seq`, the frame in the
  receiver, what is on the wire and in the outbox, and the generator's next one; each
  action takes a piece out, puts one in or moves one (`BreaksJoin`,
  `BreaksAround`), and a gap that is counted is a break that leaves the chain
  (`HeardBreaks`). The number of each turn is in no variable, so the invariant asks
  for a function of the turns that fits (`LinkIsSound`), which each turn extends.

Model-checked only: `BytesMatchPieces` and `DamageContained` of the record codec,
which say that the checksum refuses what is merged or changed, and are decided by the
stand-in for the CRC-32 and the records of the instance, not by the code around it;
`StoredTwiceTakesTwo`, which needs a run so short that the sequence numbers do not
come round to a copy while it is under way (there are 2^32 in the code; the instance
has three frames), as the copy then fits in again; and the liveness properties `BurstDrained`, `FinishedRunArrives` and
`EndsWithStream`, since liveness under fairness is beyond the provers.

## 5. What is not modelled

The computation of CRC-16 and CRC-32 (a damaged frame is assumed to be noticed,
or is by definition not damaged; the record's checksum is another one); opening the
source and the output directory, which either succeeds or ends the program; the
arguments but for the allowlist, and the formats of all output; `stats_mut`, which
only a test calls, and the in-memory test doubles of `traits.rs`; the firmware and
Linux binaries, which are stubs; loss of the operating system's file cache.

## 6. Plan

Done: `Framer`, `Pipeline`, `Host` and `FileStorage`, each with its specification
and proofs; `Generator` and `Link`; `Decoder`; `RecordCodec` and `SegmentBytes`;
`System` with the proofs that compose those of its parts.

Proved: every property of the framer, the pipeline, the host, the file storage, the
decoder, the link and the composed system but for liveness and
`StoredTwiceTakesTwo`, and the round trip of the record codec.

Left: a proof of `StoredTwiceTakesTwo` for runs short enough, a listing of the
directory entry by entry, `System` with the decoder in place of the reader, and
with the host's restart.
