------------------------------ MODULE MCFramer ------------------------------
(***************************************************************************)
(* The framer over bytes 0..3: a full COBS block holds two bytes, so full  *)
(* blocks, implied zeros and code bytes that run past the end all occur.   *)
(* Frames are 4 or 5 bytes, at most 8 once encoded; N holds them exactly   *)
(* and segments reach N + 1, the length that overflows, and beyond.        *)
(***************************************************************************)
EXTENDS Framer

ASSUME ConditionsHold == TwoBytes /\ WireFits
=============================================================================
