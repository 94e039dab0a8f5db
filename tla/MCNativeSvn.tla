---------------------------- MODULE MCNativeSvn ----------------------------
(***************************************************************************)
(* Instances of NativeSvn for TLC.                                         *)
(***************************************************************************)
EXTENDS NativeSvn, TLC

\* Symmetry of the requests, for the run that checks an invariant alone.
Symmetry == Permutations(Reqs)
=============================================================================
