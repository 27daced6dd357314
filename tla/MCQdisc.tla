------------------------------- MODULE MCQdisc -------------------------------
(* Instances of Qdisc for TLC.                                             *)
EXTENDS Qdisc

(* With the shipped configuration, (1 - 0.8) * 950 + 50 is 239.99999999999997 *)
(* in float64; nothing else falls short.                                   *)
MCShort == {<<4, "rate">>}
=============================================================================
