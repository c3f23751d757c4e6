------------------------------- MODULE MCHost -------------------------------
(***************************************************************************)
(* A queue of two records and reads that complete up to three frames, so   *)
(* that one read can overflow the queue, and so can a read after a drain   *)
(* that failed and left a record behind.  Five frames make two or more     *)
(* rounds; two storage calls may fail.                                     *)
(***************************************************************************)
EXTENDS Host
=============================================================================
