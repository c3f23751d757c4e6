----------------------------- MODULE Generator ------------------------------
(***************************************************************************)
(* tools/packet-generator/src/main.rs: the sender with fault injection.    *)
(* An action makes one turn of the loop in main, up to the bytes it hands  *)
(* to emit; emitting them is one step per write_all, since each can fail.  *)
(* The random numbers are choices: with a rate strictly between 0 and 1    *)
(* every mode may or may not strike.                                       *)
(*                                                                         *)
(* Of the header a frame carries the sequence number, one byte here, and   *)
(* payload_len; the generator only picks known types and severities.  The  *)
(* CRC is one byte too, with the property of CRC-16 that matters: it       *)
(* changes whenever a single byte of the frame does.                       *)
(***************************************************************************)
EXTENDS Frame, FiniteSets

CONSTANTS Modes,        \* --corrupt
          burst_size,   \* --burst-size
          count,        \* --count
          Payloads,     \* payloads that occur, sequences of bytes
          Skips,        \* what rng.random_range(2..6) can yield
          Flip,         \* b ^ 0xAA, as a function of the byte
          Sinks,        \* kinds of sink, of "stream" (stdout, file, TCP) and "udp"
          MaxWire       \* bound of the model: pieces under way at once

ASSUME GeneratorAssumption ==
  /\ HEADER_LEN = 3 /\ CRC16_LEN = 1
  /\ Modes \subseteq {"bad-crc", "truncate", "seq-gap", "burst"}
  /\ burst_size \in Nat /\ count \in Nat /\ MaxWire \in Nat
  /\ \A p \in Payloads : p \in Seq(Byte) /\ Len(p) <= MAX_PAYLOAD
  /\ Skips \subseteq 2 .. 5
  /\ Flip \in [Byte -> Byte] /\ \A b \in Byte : Flip[b] # b
  /\ Sinks \subseteq {"stream", "udp"}

VARIABLES seq,      \* main's seq
          gstats,   \* GenStats
          turn,     \* turns of the loop so far
          outbox,   \* what is still to be emitted in this turn
          gen,      \* running, done or failed (exit code 1)
          sink,     \* the kind of sink
          wire      \* pieces that left the generator and were not yet received

gvars == <<seq, gstats, turn, outbox, gen, sink, wire>>

\* A piece is what one write_all emits; made_in, the turn, and intact, that it
\* is an encoded frame with its delimiter, are auxiliary.
Piece == [bytes : Seq(Byte), made_in : Nat, intact : BOOLEAN]

Sum(bytes) ==
  LET first[n \in 0 .. Len(bytes)] == IF n = 0 THEN 0 ELSE first[n - 1] + bytes[n]
  IN  first[Len(bytes)]
Crc(f) == Sum(f.id) + Sum(f.payload) + f.payload_len
CrcOk(f) == f.crc_bytes[1] = Crc(f) % (MaxByte + 1)

\* Frame::new
NewFrame(s, payload) ==
  LET f == [id |-> <<s>>, payload_len |-> Len(payload), payload |-> payload]
  IN  [id |-> f.id, payload_len |-> f.payload_len, payload |-> payload,
       crc_bytes |-> <<Crc(f) % (MaxByte + 1)>>]

\* frame_buf[..n]: the encoded frame, delimiter included
Encoded(s, payload) == Append(EncodeCobs(NewFrame(s, payload)), 0)

GeneratorInit ==
  /\ seq = 0
  /\ gstats = [valid |-> 0, bad_crc |-> 0, truncated |-> 0, seq_gap |-> 0, burst_extra |-> 0]
  /\ turn = 0
  /\ outbox = <<>>
  /\ gen = "running"
  /\ sink \in Sinks
  /\ wire = <<>>

-----------------------------------------------------------------------------
(* apply_corruption                                                        *)

Bump(stats, field, n) == [stats EXCEPT ![field] = @ + n]

PieceOf(bytes, intact) == [bytes |-> bytes, made_in |-> turn + 1, intact |-> intact]

\* What a turn may emit for an encoded frame, with the statistics after it.
Original(encoded, stats) ==
  {[pieces |-> <<PieceOf(encoded, TRUE)>>, stats |-> Bump(stats, "valid", 1)]}

\* A byte before the delimiter is flipped.
FlipPositions(encoded) == 1 .. Len(encoded) - 1

BadCrc(encoded, stats) ==
  {[pieces |-> <<PieceOf([encoded EXCEPT ![i] = Flip[@]], FALSE)>>,
    stats  |-> Bump(stats, "bad_crc", 1)] : i \in FlipPositions(encoded)}

\* At least one byte of the frame is left, at least one is cut off.
CutOnly(encoded, n) == SubSeq(encoded, 1, n)   \* mutant
CutAndClosed(encoded, n) == Append(SubSeq(encoded, 1, n), 0)

Truncate(encoded, stats) ==
  {[pieces |-> <<PieceOf(CutAndClosed(encoded, n), FALSE)>>,
    stats  |-> Bump(stats, "truncated", 1)] : n \in 1 .. Len(encoded) - 2}

\* The frame, and burst_size copies of it.
Burst(encoded, stats) ==
  {[pieces |-> [k \in 1 .. burst_size + 1 |-> PieceOf(encoded, TRUE)],
    stats  |-> Bump(Bump(stats, "valid", 1), "burst_extra", burst_size)]}

\* At most one mode strikes; seq-gap does nothing here.
Corrupted(encoded, stats) ==
  UNION {Original(encoded, stats),
         IF "bad-crc"  \in Modes THEN BadCrc(encoded, stats) ELSE {},
         IF "truncate" \in Modes THEN Truncate(encoded, stats) ELSE {},
         IF "burst"    \in Modes THEN Burst(encoded, stats) ELSE {}}

-----------------------------------------------------------------------------
\* One turn of the loop; skip = 0 is a turn that seq-gap does not strike.
Turn(skip, payload) ==
  /\ gen = "running" /\ outbox = <<>> /\ turn < count
  /\ turn' = turn + 1
  /\ LET s     == (seq + skip) % (MaxByte + 1)
         stats == IF skip = 0 THEN gstats ELSE Bump(gstats, "seq_gap", 1)
     IN  /\ seq' = (s + 1) % (MaxByte + 1)
         /\ \E frame_buf \in {Encoded(s, payload)} :
              \E c \in Corrupted(frame_buf, stats) :
                /\ outbox' = c.pieces
                /\ gstats' = c.stats
  /\ UNCHANGED <<gen, sink, wire>>

MakeFrame ==
  \E skip \in {0} \cup (IF "seq-gap" \in Modes THEN Skips ELSE {}), payload \in Payloads :
    Turn(skip, payload)

\* emit: write_all takes the whole piece.
Emit ==
  /\ gen = "running" /\ outbox # <<>>
  /\ Len(wire) < MaxWire
  /\ wire' = Append(wire, Head(outbox))
  /\ outbox' = Tail(outbox)
  /\ UNCHANGED <<seq, gstats, turn, gen, sink>>

\* The first n bytes of a piece.
Part(piece, n) == [piece EXCEPT !.bytes = SubSeq(@, 1, n), !.intact = FALSE]

\* emit: write_all fails, with a part of the piece written to a stream; a
\* datagram is sent whole or not at all.  The process exits.
EmitFails ==
  /\ gen = "running" /\ outbox # <<>>
  /\ gen' = "failed"
  /\ outbox' = <<>>
  /\ \/ wire' = wire
     \/ /\ sink = "stream" /\ Len(wire) < MaxWire
        /\ \E n \in 1 .. Len(Head(outbox).bytes) - 1 :
             wire' = Append(wire, Part(Head(outbox), n))
  /\ UNCHANGED <<seq, gstats, turn, sink>>

\* The final flush, and its failure: what then stays in the buffer is cut off
\* the stream by Break of module Link.
Finish ==
  /\ gen = "running" /\ outbox = <<>> /\ turn = count
  /\ gen' \in {"done", "failed"}
  /\ UNCHANGED <<seq, gstats, turn, outbox, sink, wire>>

Generate == MakeFrame \/ Emit \/ EmitFails \/ Finish

=============================================================================
