--------------------------- MODULE MCFileMapping ---------------------------
(***************************************************************************)
(* Instances of FileMapping for TLC.                                       *)
(***************************************************************************)
EXTENDS FileMapping, TLC

Symmetry == Permutations(Names) \cup Permutations(Slots)
=============================================================================
