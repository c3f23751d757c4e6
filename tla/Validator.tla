------------------------------ MODULE Validator -----------------------------
(***************************************************************************)
(* telemetry-core/src/validator.rs and filter.rs: the checks a complete    *)
(* frame passes, in the order the code makes them.  A frame is what the    *)
(* checks look at: whether its CRC-16 agrees, the raw type and severity    *)
(* bytes, the sequence number, and the version (which nothing looks at).   *)
(*                                                                         *)
(* The length check of Validator::check has no disjunct here: the framer   *)
(* only completes frames whose payload_len is the payload's length         *)
(* (CompleteIsFaithful in module Framer).                                  *)
(***************************************************************************)
EXTENDS Integers

CONSTANTS SeqMod,            \* sequence numbers are modulo this, 2^32 in the code
          None,              \* last_seq before the first frame
          RawTypes,          \* packet_type bytes that occur
          KnownTypes,        \* those PacketType::try_from accepts
          RawSeverities,     \* severity bytes that occur
          KnownSeverities,   \* those Severity::try_from accepts
          Versions,          \* version bytes that occur
          MinSeverity,       \* FilterConfig.min_severity
          Allowlist          \* FilterConfig.type_allowlist, or None

ASSUME ValidatorAssumption ==
  /\ SeqMod \in Nat /\ SeqMod > 0
  /\ None \notin 0 .. SeqMod - 1
  /\ RawSeverities \subseteq Nat /\ MinSeverity \in Nat

SeqNumber == 0 .. SeqMod - 1

Frame == [crc_ok : BOOLEAN, version : Versions, packet_type : RawTypes,
          severity : RawSeverities, sequence : SeqNumber]

\* u32::wrapping_add(1)
Successor(seq) == (seq + 1) % SeqMod

\* Steps 2 and 3 of Validator::check
KnownKind(frame) ==
  /\ frame.packet_type \in KnownTypes
  /\ frame.severity \in KnownSeverities

\* Step 5 of Validator::check
InSequenceNoWrap(last_seq, frame) ==   \* mutant
  last_seq = None \/ frame.sequence = last_seq + 1
InSequenceOrRepeat(last_seq, frame) ==   \* mutant
  last_seq = None \/ frame.sequence \in {last_seq, Successor(last_seq)}
InSequence(last_seq, frame) ==
  last_seq = None \/ frame.sequence = Successor(last_seq)

\* Validator::check: the outcome, and the last_seq it leaves behind.  The
\* early returns for CRC and kind leave last_seq alone; a gap updates it.
Check(last_seq, frame) ==
  IF ~frame.crc_ok                           THEN "Crc"
  ELSE IF ~KnownKind(frame)                  THEN "Filtered"
  ELSE IF ~InSequence(last_seq, frame)       THEN "SequenceGap"
  ELSE "Accepted"

KeptOnGap(last_seq, frame) ==   \* mutant
  IF Check(last_seq, frame) = "Accepted" THEN frame.sequence ELSE last_seq

LastSeqAfter(last_seq, frame) ==
  IF Check(last_seq, frame) \in {"SequenceGap", "Accepted"}
  THEN frame.sequence ELSE last_seq

\* FilterConfig::allow
Allow(frame) ==
  /\ frame.severity >= MinSeverity
  /\ Allowlist # None => frame.packet_type \in Allowlist
=============================================================================
