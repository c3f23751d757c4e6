----------------------------- MODULE FramerSpec -----------------------------
(***************************************************************************)
(* What the framer promises, with no buffer and no mode: the stream is cut *)
(* at zero bytes, and every non-empty piece (a segment) gets exactly one   *)
(* verdict, a function of that segment alone.  A segment of more than N    *)
(* bytes is reported as Overflow as soon as it is too long, and never      *)
(* again; every other segment is judged at the delimiter that ends it.     *)
(***************************************************************************)
EXTENDS Frame

CONSTANTS N,            \* longest segment that is judged
          MaxCount,     \* where resync_count saturates (u32::MAX in the code)
          MaxSegment    \* bound on the length of a segment

VARIABLES seg,           \* the bytes since the last delimiter
          out,           \* what the last byte was answered with
          resync_count

vars == <<seg, out, resync_count>>

Fits(s) == Len(s) <= N

\* The answer to byte b when the bytes since the last delimiter are s.
Answer(s, b) ==
  IF b # 0 THEN IF Len(s) = N THEN Overflow ELSE Incomplete
  ELSE IF s # <<>> /\ Fits(s) THEN Process(s)
  ELSE Incomplete

\* The answers after which the stream had to be re-synchronised.
Resyncs(o) == o.kind \in {"Overflow", "CobsError"}

Init == seg = <<>> /\ out = Incomplete /\ resync_count = 0

Take(b) ==
  /\ b # 0 => Len(seg) < MaxSegment
  /\ seg' = IF b = 0 THEN <<>> ELSE Append(seg, b)
  /\ out' = Answer(seg, b)
  /\ resync_count' = IF Resyncs(out') /\ resync_count < MaxCount
                       THEN resync_count + 1 ELSE resync_count

Next == \E b \in Byte : Take(b)

Spec == Init /\ [][Next]_vars
=============================================================================
