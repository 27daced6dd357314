----------------------------- MODULE MCNethadone -----------------------------
(* Instances of Nethadone for TLC.                                         *)
EXTENDS Nethadone, TLC

GroupSymmetry == Permutations(Groups)
=============================================================================
