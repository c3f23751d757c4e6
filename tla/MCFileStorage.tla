--------------------------- MODULE MCFileStorage ----------------------------
(***************************************************************************)
(* Segments of five bytes and records of two and three: two records of     *)
(* mixed size fill a segment exactly, two long ones overflow it.  Five     *)
(* writes over two runs, each of which may fail at every byte, and three   *)
(* segments, so that the second run meets files of the first.              *)
(***************************************************************************)
EXTENDS FileStorage
=============================================================================
