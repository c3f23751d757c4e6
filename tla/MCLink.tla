------------------------------- MODULE MCLink -------------------------------
(***************************************************************************)
(* Bytes are 0..15.  As with 0xAA in the code, the flipped code byte of a  *)
(* short frame always points past its end, and one data byte (10 here)     *)
(* flips to a delimiter, as payload, as CRC or, after skips, as sequence   *)
(* number.                                                                 *)
(***************************************************************************)
EXTENDS Link

Xor10 == [b \in 0 .. 15 |-> <<10, 11, 8, 9, 14, 15, 12, 13, 2, 3, 0, 1, 6, 7, 4, 5>>[b + 1]]
OnePayload == {<<10>>}
TwoPayloads == {<<>>, <<10>>}

\* The conditions of the theorems about the link.
ASSUME ConditionsHold == TwoBytes /\ WireFits /\ DamageShows
=============================================================================
