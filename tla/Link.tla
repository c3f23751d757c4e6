-------------------------------- MODULE Link --------------------------------
(***************************************************************************)
(* The generator, a transport, and the receiving end of the pipeline down  *)
(* to the sequence check, byte by byte: the code path of the end-to-end    *)
(* tests, packet-generator | telemetry-host.                               *)
(*                                                                         *)
(* A stream (pipe, file, TCP) delivers in order, and may break off when    *)
(* its sender failed.  UDP may lose, repeat and reorder datagrams; the     *)
(* buffer of run_loop is larger than any datagram of the generator, and    *)
(* the framer goes on from one datagram to the next.                       *)
(*                                                                         *)
(* The filter admits all and the queue does not fill (modules Pipeline and *)
(* Host are about those), so an accepted frame is counted ok.              *)
(***************************************************************************)
EXTENDS Generator, Framer

CONSTANTS None,       \* last_seq before the first frame
          MaxFaults   \* bound of the model: datagrams lost, repeated or overtaking

ASSUME LinkAssumption == None \notin Byte /\ MaxFaults \in Nat

VARIABLES arriving,   \* bytes of the piece under reception that ingest has not seen
          from,       \* auxiliary: the turn that made that piece
          last_seq,   \* Validator.last_seq
          stats,      \* the counters ok, crc_fail and seq_gap
          accepted,   \* auxiliary: the turns of the frames counted ok, in order
          channel     \* auxiliary: what the transport did

rvars == <<arriving, from, last_seq, stats, accepted>>
lvars == <<gvars, vars, rvars, channel>>

V == INSTANCE Validator WITH
       SeqMod <- MaxByte + 1, Versions <- {1}, RawTypes <- {1}, KnownTypes <- {1},
       RawSeverities <- {0}, KnownSeverities <- {0}, MinSeverity <- 0, Allowlist <- None

LinkInit ==
  /\ GeneratorInit /\ Init
  /\ arriving = <<>>
  /\ from = 0
  /\ last_seq = None
  /\ stats = [ok |-> 0, crc_fail |-> 0, seq_gap |-> 0]
  /\ accepted = <<>>
  /\ channel = [intact |-> 0, damaged |-> 0, lost |-> 0, repeated |-> 0, overtook |-> 0]

-----------------------------------------------------------------------------
(* The transport                                                           *)

Faults == channel.lost + channel.repeated + channel.overtook

Without(i) == SubSeq(wire, 1, i - 1) \o SubSeq(wire, i + 1, Len(wire))

\* read returns the i-th piece under way; when `again`, a copy stays behind.
Deliver(i, again) ==
  /\ arriving = <<>>
  /\ i \in 1 .. Len(wire)
  /\ i > 1 \/ again => sink = "udp" /\ Faults < MaxFaults
  /\ arriving' = wire[i].bytes
  /\ from' = wire[i].made_in
  /\ wire' = IF again THEN wire ELSE Without(i)
  /\ channel' = [channel EXCEPT
       !.intact   = IF wire[i].intact THEN @ + 1 ELSE @,
       !.damaged  = IF wire[i].intact THEN @ ELSE @ + 1,
       !.repeated = IF again THEN @ + 1 ELSE @,
       !.overtook = IF i > 1 THEN @ + 1 ELSE @]
  /\ UNCHANGED <<seq, gstats, turn, outbox, gen, sink, vars, last_seq, stats, accepted>>

Lose(i) ==
  /\ sink = "udp" /\ Faults < MaxFaults
  /\ i \in 1 .. Len(wire)
  /\ wire' = Without(i)
  /\ channel' = [channel EXCEPT !.lost = @ + 1]
  /\ UNCHANGED <<seq, gstats, turn, outbox, gen, sink, vars, rvars>>

\* The stream of a sender that died ends anywhere: its connection is reset, or
\* the flush failed with bytes still in the sender's buffer.
Break ==
  /\ sink = "stream" /\ gen = "failed" /\ wire # <<>>
  /\ \E k \in 1 .. Len(wire) :
       \/ wire' = SubSeq(wire, 1, k - 1)
       \/ \E n \in 1 .. Len(wire[k].bytes) - 1 :
            wire' = Append(SubSeq(wire, 1, k - 1), Part(wire[k], n))
  /\ UNCHANGED <<seq, gstats, turn, outbox, gen, sink, vars, rvars, channel>>

-----------------------------------------------------------------------------
(* The receiver                                                            *)

\* What the validator looks at in a completed frame.
Seen(f) == [crc_ok |-> CrcOk(f), version |-> 1, packet_type |-> 1, severity |-> 0,
            sequence |-> f.id[1]]

\* ingest, one byte of it: the framer's answer goes to the validator and the
\* outcome to a counter.
Ignored == stats   \* mutant
CountError == [stats EXCEPT !.crc_fail = @ + 1]

Judge(answer) ==
  \/ /\ answer.kind = "Incomplete"
     /\ UNCHANGED <<last_seq, stats, accepted>>
  \/ /\ answer.kind \in {"Overflow", "CobsError", "ParseError"}
     /\ stats' = CountError
     /\ UNCHANGED <<last_seq, accepted>>
  \/ /\ answer.kind = "Complete"
     /\ LET frame == Seen(answer.frame)
            outcome == V!Check(last_seq, frame)
        IN  /\ last_seq' = V!LastSeqAfter(last_seq, frame)
            /\ \/ /\ outcome = "Accepted"
                  /\ stats' = [stats EXCEPT !.ok = @ + 1]
                  /\ accepted' = Append(accepted, from)
               \/ /\ outcome = "SequenceGap"
                  /\ stats' = [stats EXCEPT !.seq_gap = @ + 1]
                  /\ UNCHANGED accepted
               \/ /\ outcome = "Crc"
                  /\ stats' = CountError
                  /\ UNCHANGED accepted

Receive ==
  /\ arriving # <<>>
  /\ Feed(Head(arriving))
  /\ Judge(out')
  /\ arriving' = Tail(arriving)
  /\ UNCHANGED <<gvars, from, channel>>

\* The generator has ended, and so has the reception.
Quiet ==
  /\ gen # "running" /\ wire = <<>> /\ arriving = <<>>
  /\ UNCHANGED lvars

\* The two processes share nothing but the wire, so no outcome is lost by
\* letting the generator step only between two pieces under reception.
Sending(A) == arriving = <<>> /\ A /\ UNCHANGED <<vars, rvars, channel>>

LinkNext ==
  \/ Sending(Generate)
  \/ \E i \in 1 .. MaxWire, again \in BOOLEAN : Deliver(i, again)
  \/ \E i \in 1 .. MaxWire : Lose(i)
  \/ Break
  \/ Receive
  \/ Quiet

\* A sender that can write does, a stream delivers what is under way, and
\* the receiver works through what it has read.
LinkSpec ==
  /\ LinkInit /\ [][LinkNext]_lvars
  /\ WF_lvars(Sending(MakeFrame \/ Emit \/ Finish))
  /\ WF_lvars(Deliver(1, FALSE))
  /\ WF_lvars(Receive)

-----------------------------------------------------------------------------
\* The framer and the checksum take these bytes for a good frame.
Passes(segment) ==
  LET answer == Process(segment)
  IN  answer.kind = "Complete" /\ CrcOk(answer.frame)

\* What the CRC is there for, and the structural checks before it: no frame
\* passes that was cut short or that has a byte flipped, nor does a half of
\* one that the flip split.  The code byte at its start does not flip to a
\* delimiter: the generator's frames are shorter than the block it would have
\* to announce.  (A condition on the constants.)
DamageShows ==
  \A s \in Byte, payload \in Payloads :
    LET w == EncodeCobs(NewFrame(s, payload))
        Flipped(i) == Flip[w[i]]
    IN  /\ Flipped(1) # 0
        /\ \A n \in 1 .. Len(w) - 1 : ~Passes(SubSeq(w, 1, n))
        /\ \A i \in 1 .. Len(w) :
             IF Flipped(i) = 0 THEN ~Passes(SubSeq(w, i + 1, Len(w)))
             ELSE ~Passes([w EXCEPT ![i] = Flipped(i)])

\* Damage to one frame is never paid for by another: whatever was flipped,
\* cut, lost or repeated before it, every intact frame that arrives whole is
\* recognised as a frame with a good CRC, and is counted ok or as a gap.
IntactAccounted == arriving = <<>> => stats.ok + stats.seq_gap = channel.intact

\* A damaged frame never passes, and is counted: once, or twice when the flip
\* made a delimiter and split it.  Only the last piece of a broken stream
\* can go uncounted, as it never meets a delimiter.
DamageCounted ==
  arriving = <<>> =>
    /\ channel.damaged - (IF buf = <<>> THEN 0 ELSE 1) <= stats.crc_fail
    /\ stats.crc_fail <= 2 * channel.damaged

\* The two sides of it for a stream, where a frame cannot hide among others.
FramesJudged == IntactAccounted /\ DamageCounted

\* Gaps have causes, and each cause a price: a skipped, damaged or lost frame
\* or a copy sent by a burst costs one frame at most, a repeated datagram
\* two, an overtaking one three.  The sequence check does not run away.
GapsBounded ==
  stats.seq_gap <= gstats.seq_gap + gstats.burst_extra + channel.damaged
                     + channel.lost + 2 * channel.repeated + 3 * channel.overtook

\* Over UDP too every intact datagram that arrives is recognised, and what the
\* sequence check makes of them is bounded by what went wrong.
FaultsBounded == IntactAccounted /\ GapsBounded

\* Over a stream what is accepted is in the order it was made, and no frame
\* is accepted twice, copies of a burst included.
StreamInOrder ==
  sink = "stream" =>
    \A i, j \in 1 .. Len(accepted) : i < j => accepted[i] < accepted[j]

\* The places at which `accepted` names a turn again.
Again == {j \in 1 .. Len(accepted) : \E i \in 1 .. j - 1 : accepted[i] = accepted[j]}

\* Over UDP a frame can be stored twice, but one fault is not enough for that:
\* the frame must have arrived twice, and before the one that precedes it in
\* sequence did, which sets the check back to let the copy through.
StoredTwiceTakesTwo ==
  /\ Cardinality(Again) <= channel.repeated + gstats.burst_extra
  /\ Cardinality(Again) <= channel.overtook

\* Over a stream, once the generator has ended well, every intact frame it
\* reports sooner or later shows in the receiver's counters.
FinishedRunArrives ==
  (sink = "stream" /\ gen = "done")
     ~> (stats.ok + stats.seq_gap = gstats.valid + gstats.burst_extra)

=============================================================================
