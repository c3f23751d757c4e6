----------------------------- MODULE MCDecoder ------------------------------
(***************************************************************************)
(* A decoder beside a writer of four records in segments of two or one:    *)
(* it reads the directory, two files given in the wrong order, or the      *)
(* directory and a file by name, which may be in it already, or come to be *)
(* there later.  Records of two types and two severities; the filter drops *)
(* the second record.                                                      *)
(***************************************************************************)
EXTENDS Decoder

CommandLines == {[files |-> <<>>, in_dir |-> TRUE], [files |-> <<2, 1>>, in_dir |-> FALSE],
                 [files |-> <<1>>, in_dir |-> TRUE], [files |-> <<3>>, in_dir |-> TRUE]}

\* The hypothesis of the theorems in DecoderProofs.
ASSUME NamesInOrder

TypesGiven      == [id \in 1 .. MaxWrites |-> IF id % 2 = 0 THEN 1 ELSE 2]
SeveritiesGiven == [id \in 1 .. MaxWrites |-> IF id = 2 THEN 0 ELSE 1]
=============================================================================
