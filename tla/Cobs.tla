-------------------------------- MODULE Cobs --------------------------------
(***************************************************************************)
(* Consistent overhead byte stuffing, as the external crate `cobs` (0.3)   *)
(* does it for src/: frame.rs and record.rs encode, framer.rs and          *)
(* record.rs decode in place.  A byte is a number in 0..MaxByte; the code  *)
(* byte MaxByte (0xFF in the crate) announces a full block, which is not   *)
(* followed by an implied zero.  Small values of MaxByte exercise the full *)
(* block with short inputs.                                                *)
(*                                                                         *)
(* Both directions are recursive functions over positions (not RECURSIVE   *)
(* operators), so that modules with proofs can use this one.               *)
(***************************************************************************)
EXTENDS Integers, Sequences

CONSTANT MaxByte   \* 255 in the code

ASSUME MaxByteAssumption == MaxByte \in Nat /\ MaxByte >= 2

Byte == 0 .. MaxByte

(***************************************************************************)
(* cobs::encode.  A block is the bytes up to the next zero, up to the end  *)
(* of the input, or as many as fill it, whichever comes first.  After a    *)
(* full block a new one is begun at once, even at the end of the input.    *)
(***************************************************************************)
BlockEnds(s, i, n) == n = MaxByte - 1 \/ i + n = Len(s) + 1 \/ s[i + n] = 0

\* The length of the block that starts at position i of s.
BlockLength(s, i) ==
  CHOOSE n \in 0 .. MaxByte - 1 :
    BlockEnds(s, i, n) /\ \A m \in 0 .. n - 1 : ~BlockEnds(s, i, m)

CobsEncode(s) ==
  LET From[i \in 1 .. Len(s) + 1] ==
        LET n     == BlockLength(s, i)
            block == <<n + 1>> \o SubSeq(s, i, i + n - 1)
        IN  IF n = MaxByte - 1       THEN block \o From[i + n]
            ELSE IF i + n = Len(s) + 1 THEN block
            ELSE block \o From[i + n + 1]
  IN  From[1]

(***************************************************************************)
(* cobs::decode_in_place.  A code byte c is followed by c - 1 data bytes;  *)
(* a code that runs past the end of the input is an error; a zero is       *)
(* implied after every block that is neither full nor last.                *)
(***************************************************************************)
BadCobs == [ok |-> FALSE, data |-> <<>>]

CobsDecode(s) ==
  LET From[i \in 1 .. Len(s) + 1] ==
        IF i = Len(s) + 1 THEN [ok |-> TRUE, data |-> <<>>]
        ELSE LET next == i + s[i]
             IN  IF s[i] = 0 \/ next > Len(s) + 1 THEN BadCobs
                 ELSE LET rest    == From[next]
                          implied == IF s[i] = MaxByte \/ next = Len(s) + 1
                                       THEN <<>> ELSE <<0>>
                      IN  IF rest.ok
                            THEN [ok   |-> TRUE,
                                  data |-> SubSeq(s, i + 1, next - 1)
                                             \o implied \o rest.data]
                            ELSE BadCobs
  IN  From[1]
=============================================================================
