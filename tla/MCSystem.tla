------------------------------ MODULE MCSystem ------------------------------
(***************************************************************************)
(* Four frames through a queue of two into segments of one or two records; *)
(* one mishap and one failing storage call.  Three sequence numbers, so  *)
(* that they wrap; a clock that saturates after its second microsecond.    *)
(* The allowlist comes from the arguments of the program.                  *)
(***************************************************************************)
EXTENDS System

Allowed == AllowlistOf(<<1, 1, 2>>, 2)
=============================================================================
