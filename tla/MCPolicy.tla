------------------------------ MODULE MCPolicy ------------------------------
(* Instances of SimpleLoadAvg for TLC.                                     *)
EXTENDS SimpleLoadAvg, TLC

PairSymmetry == Permutations(SrcGlobs)
=============================================================================
