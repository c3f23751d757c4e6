------------------------------- MODULE Framer -------------------------------
(***************************************************************************)
(* telemetry-core/src/framer.rs: the byte-at-a-time framer.  One action    *)
(* per branch of Framer::feed; the input byte is chosen by \E, so the      *)
(* stream is arbitrary: valid frames, noise, and any mixture of the two.   *)
(***************************************************************************)
EXTENDS Frame

CONSTANTS N,           \* capacity of the framer's buffer, MAX_FRAME in Pipeline
          MaxCount,    \* u32::MAX, where resync_count saturates
          MaxSegment   \* bound of the model: longest run of non-zero bytes

ASSUME FramerAssumption ==
  /\ N \in Nat /\ MaxCount \in Nat /\ MaxSegment \in Nat

VARIABLES buf,           \* Framer.buf
          state,         \* Framer.state
          resync_count,  \* Framer.resync_count
          out,           \* what the last call of feed returned
          seg            \* auxiliary: every byte since the last delimiter

vars == <<buf, state, resync_count, out, seg>>

States == {"Collecting", "Discarding"}

PlainInc(n) == n + 1   \* mutant
SaturatingInc(n) == IF n < MaxCount THEN n + 1 ELSE n

Init ==
  /\ buf = <<>>
  /\ state = "Collecting"
  /\ resync_count = 0
  /\ out = Incomplete
  /\ seg = <<>>

\* The auxiliary segment grows with every non-zero byte.
Extend(byte) ==
  /\ Len(seg) < MaxSegment
  /\ seg' = Append(seg, byte)

\* buf.push fails.
AlmostFull == Len(buf) + 1 >= N   \* mutant
Full == Len(buf) >= N

\* The mode after a failed push: the rest of the segment is not a frame.
StayCollecting == "Collecting"   \* mutant
AfterOverflow == "Discarding"

-----------------------------------------------------------------------------
\* Discarding, byte != 0: dropped.
Discard(byte) ==
  /\ state = "Discarding" /\ byte # 0
  /\ out' = Incomplete
  /\ Extend(byte)
  /\ UNCHANGED <<buf, state, resync_count>>

\* Discarding, byte == 0: the stream is in step again.
Resync(byte) ==
  /\ state = "Discarding" /\ byte = 0
  /\ buf' = <<>>
  /\ state' = "Collecting"
  /\ out' = Incomplete
  /\ seg' = <<>>
  /\ UNCHANGED resync_count

\* Collecting, byte != 0 and buf.push succeeds.
Push(byte) ==
  /\ state = "Collecting" /\ byte # 0
  /\ ~Full
  /\ buf' = Append(buf, byte)
  /\ out' = Incomplete
  /\ Extend(byte)
  /\ UNCHANGED <<state, resync_count>>

\* Collecting, byte != 0 and the buffer is full.
PushFails(byte) ==
  /\ state = "Collecting" /\ byte # 0
  /\ Full
  /\ state' = AfterOverflow
  /\ resync_count' = SaturatingInc(resync_count)
  /\ buf' = <<>>
  /\ out' = Overflow
  /\ Extend(byte)

\* Collecting, byte == 0 with nothing collected: skipped silently.
SkipDelimiter(byte) ==
  /\ state = "Collecting" /\ byte = 0
  /\ buf = <<>>
  /\ out' = Incomplete
  /\ seg' = <<>>
  /\ UNCHANGED <<buf, state, resync_count>>

\* Collecting, byte == 0 after at least one byte: process(), then clear.
EndOfFrame(byte) ==
  /\ state = "Collecting" /\ byte = 0
  /\ buf # <<>>
  /\ out' = Process(buf)
  /\ resync_count' = IF out'.kind = "CobsError"
                       THEN SaturatingInc(resync_count) ELSE resync_count
  /\ buf' = <<>>
  /\ seg' = <<>>
  /\ UNCHANGED state

Feed(byte) ==
  \/ Discard(byte)
  \/ Resync(byte)
  \/ Push(byte)
  \/ PushFails(byte)
  \/ SkipDelimiter(byte)
  \/ EndOfFrame(byte)

Next == \E byte \in Byte : Feed(byte)

Spec == Init /\ [][Next]_vars

-----------------------------------------------------------------------------
\* Type invariant: the buffer never exceeds its capacity and holds no
\* delimiter, and the counter never passes its maximum.
TypeOK ==
  /\ buf \in Seq(Byte \ {0}) /\ Len(buf) <= N
  /\ state \in States
  /\ resync_count \in 0 .. MaxCount
  /\ out.kind \in {"Incomplete", "Overflow", "CobsError", "ParseError", "Complete"}
  /\ seg \in Seq(Byte \ {0})

\* The two modes in terms of the stream: while collecting, the buffer is
\* everything since the last delimiter; the framer discards exactly when
\* that has outgrown the buffer, and then remembers none of it, so that
\* nothing of an oversized segment can leak into the next frame.
InStep ==
  /\ state = "Collecting" => buf = seg
  /\ state = "Discarding" => buf = <<>> /\ Len(seg) > N

\* A frame a sender encoded, arriving whole between two delimiters, always
\* comes out as that very frame: whatever noise, overflow or error went
\* before it, no limit of the framer refuses it.
Wire == [f \in Frames |-> EncodeCobs(f)]

ValidFrameDelivered ==
  [][seg # <<>> /\ seg' = <<>> =>
       \A f \in Frames : seg = Wire[f] => out' = Complete(f)]_vars

\* The framer invents nothing: a Complete frame has a payload within the
\* limit, its length field agrees with it (so that BadLength in the
\* validator cannot happen), and laying it out again gives exactly the bytes
\* that were received.
CompleteIsFaithful ==
  [][out'.kind = "Complete" /\ seg # <<>> /\ seg' = <<>> =>
       /\ out'.frame \in Frames
       /\ EncodeRaw(out'.frame) = CobsDecode(seg).data]_vars

\* Two conditions on the constants that delivery rests on: payload_len is a
\* u16, two bytes, and the buffer holds a frame of the greatest length with
\* the overhead of its byte stuffing (MAX_COBS_FRAME_BYTES).
TwoBytes == MAX_PAYLOAD < (MaxByte + 1) * (MaxByte + 1)

WireFits ==
  LET M == HEADER_LEN + MAX_PAYLOAD + CRC16_LEN
  IN  (MaxByte - 1) * (N - M) > M

\* The framer implements the stateless splitter of FramerSpec.
Abstract == INSTANCE FramerSpec
ImplementsFramerSpec == Abstract!Spec
=============================================================================
