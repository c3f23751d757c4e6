----------------------------- MODULE MCPipeline -----------------------------
(***************************************************************************)
(* The values the .cfg files give: two known types of which one is         *)
(* allowed, two known severities of which one passes the threshold, and an *)
(* unknown byte of each; sequence numbers modulo 3 tell a successor, a     *)
(* duplicate and any other number apart, and the frames wrap them; a queue *)
(* of two, which a burst overflows; two failing storage calls.             *)
(***************************************************************************)
EXTENDS Pipeline
=============================================================================
