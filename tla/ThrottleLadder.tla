--------------------------- MODULE ThrottleLadder ---------------------------
(***************************************************************************)
(* What the SimpleLoadAverage policy promises, without how it is computed. *)
(* policy/README.md describes a map f from (source, destination) pairs to  *)
(* the bandwidth classes B_0 .. B_n and the two moves f(s,d) = B_(c+1) and *)
(* f(s,d) = B_(c-1).  Here the map is rung, and one policy check hands out *)
(* verdicts, all in the same direction; a verdict moves its pair by at     *)
(* most one rung, once, and never past either end of the ladder.  Where    *)
(* the map can be misread, a pair to be moved up may start over instead.   *)
(***************************************************************************)
EXTENDS Integers

CONSTANTS
  SrcGlobs,     \* the (source ip, glob group) pairs
  TopRung,      \* index of the slowest bandwidth class
  Forgetful     \* may a pair's rung be misread as 0?

VARIABLES
  rung,         \* rung[sg]: 0 is unrestricted
  verdict       \* verdict[sg]: what the running check has decided for sg

vars == <<rung, verdict>>

NoVerdicts == [sg \in SrcGlobs |-> "stay"]

Init ==
  /\ rung = [sg \in SrcGlobs |-> 0]
  /\ verdict = NoVerdicts

(* A check decides once the previous verdicts are used up.                 *)
Check ==
  /\ verdict = NoVerdicts
  /\ \E direction \in {"up", "down"} :
       verdict' \in [SrcGlobs -> {direction, "stay"}]
  /\ UNCHANGED rung

(* A verdict is used once.  It may turn out to be void: the pair is at the *)
(* end of the ladder, or the change could not be stored.                   *)
Move(sg) ==
  /\ verdict[sg] # "stay"
  /\ verdict' = [verdict EXCEPT ![sg] = "stay"]
  /\ \/ UNCHANGED rung
     \/ /\ verdict[sg] = "up" /\ rung[sg] < TopRung
        /\ rung' = [rung EXCEPT ![sg] = @ + 1]
     \/ /\ Forgetful /\ verdict[sg] = "up"
        /\ rung' = [rung EXCEPT ![sg] = 1]
     \/ /\ verdict[sg] = "down" /\ rung[sg] > 0
        /\ rung' = [rung EXCEPT ![sg] = @ - 1]

(* The router goes down in the middle of a check.                          *)
Abandon ==
  /\ verdict' = NoVerdicts
  /\ UNCHANGED rung

Next == Check \/ Abandon \/ \E sg \in SrcGlobs : Move(sg)

Spec == Init /\ [][Next]_vars
=============================================================================
