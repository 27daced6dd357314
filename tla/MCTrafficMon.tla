---------------------------- MODULE MCTrafficMon ----------------------------
(* Instances of TrafficMon for TLC.                                        *)
EXTENDS TrafficMon, TLC

Symmetry == Permutations(Pairs) \union Permutations(Cpus) \union Permutations(Labels)
=============================================================================
