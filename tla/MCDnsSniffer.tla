---------------------------- MODULE MCDnsSniffer ----------------------------
(* Instances of DnsSniffer for TLC.                                        *)
EXTENDS DnsSniffer

CONSTANTS i, x, y     \* an ip and two domains that share it

(* An answer, too short to fill a buffer of three records, and two messages *)
(* of four records, cut between two records and inside the last.           *)
MCTorn == {<<Other, <<i, y>>, Other, Other>>}
MCMessages == {<<<<i, x>>>>, <<Other, <<i, y>>, Other, <<i, x>>>>} \union MCTorn
=============================================================================
