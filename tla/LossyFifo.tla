------------------------------ MODULE LossyFifo -----------------------------
(***************************************************************************)
(* What the pipeline promises the reader of the log about accepted         *)
(* records: a bounded first-in first-out line in front of the storage.  A  *)
(* record joins at the back while there is room, and leaves only from the  *)
(* front, either into storage or, if a write fails, for good.  A record    *)
(* that finds no room is never seen again, and those already waiting are   *)
(* not disturbed by it.                                                    *)
(***************************************************************************)
EXTENDS Integers, Sequences

CONSTANTS Record, Capacity

VARIABLES waiting, delivered

vars == <<waiting, delivered>>

Init == waiting = <<>> /\ delivered = <<>>

Join == \E r \in Record :
  /\ Len(waiting) < Capacity
  /\ waiting' = Append(waiting, r)
  /\ UNCHANGED delivered

Leave ==
  /\ waiting # <<>>
  /\ waiting' = Tail(waiting)
  /\ delivered' \in {delivered, Append(delivered, Head(waiting))}

Next == Join \/ Leave

Spec == Init /\ [][Next]_vars
=============================================================================
