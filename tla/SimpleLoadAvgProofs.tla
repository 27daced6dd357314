------------------------- MODULE SimpleLoadAvgProofs -------------------------
(***************************************************************************)
(* Proofs about the policy loop, for any set of pairs, any number of       *)
(* classes and any number of faults.                                       *)
(***************************************************************************)
EXTENDS SimpleLoadAvg, TLAPS

(* Errs keeps the count of faults within its bound.                        *)
LEMMA ErrsTyped ==
  ASSUME faults \in 0 .. MaxFaults, NEW e \in 0 .. 2, Errs(e)
  PROVE  faults' \in 0 .. MaxFaults
BY ConfigAssumption DEF Errs

(* A row as the table stores it, or nil.                                   *)
LEMMA GetPolicyTyped ==
  ASSUME TypeOK, NEW sg \in SrcGlobs, NEW r \in {0, 1}
  PROVE  /\ GetPolicy(sg, r) \in [class : Nat, tstamp : Nat]
         /\ GetPolicy(sg, r) # NoRow => GetPolicy(sg, r) = policy[sg]
BY DEF TypeOK, GetPolicy, NoRow

(* A write leaves the table well formed if the class it writes is.         *)
LEMMA UpdatePolicyTyped ==
  ASSUME TypeOK, NEW sg \in SrcGlobs, NEW w \in {0, 1}, NEW class \in Nat,
         UpdatePolicy(sg, class, w)
  PROVE  policy' \in [SrcGlobs -> [class : Nat, tstamp : Nat]]
BY DEF TypeOK, UpdatePolicy

LEMMA DeletePolicyTyped ==
  ASSUME TypeOK, NEW sg \in SrcGlobs, NEW w \in {0, 1}, DeletePolicy(sg, w)
  PROVE  policy' \in [SrcGlobs -> [class : Nat, tstamp : Nat]]
BY DEF TypeOK, DeletePolicy, NoRow

-----------------------------------------------------------------------------
(* Type correctness of the loop, its table and its clock: in particular a  *)
(* decrement in decreasingThrottling never takes a class below zero, and   *)
(* the fault budget is kept.                                               *)
THEOREM Typed == Spec => []TypeOK
<1>1. Init => TypeOK
  <2> SUFFICES ASSUME Init PROVE TypeOK
    OBVIOUS
  <2>1. changed \in BOOLEAN
    BY Zenon DEF Init
  <2> QED BY <2>1, ConfigAssumption DEF Init, TypeOK, NoRow, Usage
<1>2. TypeOK /\ [Next]_vars => TypeOK'
  <2> SUFFICES ASSUME TypeOK, [Next]_vars PROVE TypeOK'
    OBVIOUS
  <2>1. ASSUME NEW sg \in SrcGlobs, increaseThrottling(sg) PROVE TypeOK'
    <3>1. PICK r \in {0, 1}, w \in {0, 1} :
            LET p == GetPolicy(sg, r) IN
            /\ Errs(r + w)
            /\ \/ UpdatePolicy(sg, 10, w) /\ changed' = (changed \/ w = 0)
               \/ UNCHANGED <<policy, changed>>
               \/ p # NoRow /\ UpdatePolicy(sg, p.class + 10, w) /\ changed' = TRUE
      BY <2>1 DEF increaseThrottling
    <3>2. faults' \in 0 .. MaxFaults
      <4>1. r + w \in 0 .. 2
        OBVIOUS
      <4> QED BY <3>1, <4>1, ErrsTyped DEF TypeOK
    <3>3. GetPolicy(sg, r).class + 10 \in Nat /\ 10 \in Nat
      BY GetPolicyTyped
    <3>4. policy' \in [SrcGlobs -> [class : Nat, tstamp : Nat]]
      BY <3>1, <3>3, UpdatePolicyTyped DEF TypeOK
    <3>5. changed' \in BOOLEAN
      BY <3>1, Zenon DEF TypeOK
    <3>6. todo' \in SUBSET SrcGlobs
      BY <2>1 DEF increaseThrottling, TypeOK
    <3> QED BY <2>1, <3>2, <3>4, <3>5, <3>6 DEF increaseThrottling, TypeOK
  <2>2. ASSUME NEW sg \in SrcGlobs, decreasingThrottling(sg) PROVE TypeOK'
    <3>1. PICK r \in {0, 1}, w \in {0, 1} :
            LET p == GetPolicy(sg, r) IN
            /\ Errs(r + w)
            /\ \/ UNCHANGED <<policy, changed>>
               \/ DeletePolicy(sg, w) /\ changed' = TRUE
               \/ /\ p # NoRow /\ ~AtMinimum(p)
                  /\ UpdatePolicy(sg, p.class - 10, w) /\ changed' = TRUE
      BY <2>2 DEF decreasingThrottling
    <3>2. faults' \in 0 .. MaxFaults
      <4>1. r + w \in 0 .. 2
        OBVIOUS
      <4> QED BY <3>1, <4>1, ErrsTyped DEF TypeOK
    <3>3. ~AtMinimum(GetPolicy(sg, r)) => GetPolicy(sg, r).class - 10 \in Nat
      BY GetPolicyTyped DEF AtMinimum
    <3>4. policy' \in [SrcGlobs -> [class : Nat, tstamp : Nat]]
      BY <3>1, <3>3, UpdatePolicyTyped, DeletePolicyTyped DEF TypeOK
    <3>5. changed' \in BOOLEAN
      BY <3>1, Zenon DEF TypeOK
    <3>6. todo' \in SUBSET SrcGlobs
      BY <2>2 DEF decreasingThrottling, TypeOK
    <3> QED BY <2>2, <3>2, <3>4, <3>5, <3>6 DEF decreasingThrottling, TypeOK
  <2>3. CASE startCheck
    <3>1. PICK e \in {0, 1} :
            Errs(e) /\ todo' = IF e = 1 THEN {} ELSE getActiveGlobGroups
      BY <2>3 DEF startCheck
    <3>2. faults' \in 0 .. MaxFaults
      BY <3>1, ErrsTyped DEF TypeOK
    <3>3. todo' \in SUBSET SrcGlobs
      BY <3>1 DEF getActiveGlobGroups
    <3>4. now' \in Nat
      BY <2>3, ConfigAssumption DEF startCheck, TypeOK
    <3> QED BY <2>3, <3>2, <3>3, <3>4 DEF startCheck, changedAtStart, TypeOK
  <2>4. CASE increaseDone
    <3>1. faults' \in 0 .. MaxFaults /\ todo' \in SUBSET SrcGlobs
      BY <2>4, ErrsTyped DEF increaseDone, idleGlobGroups, TypeOK
    <3> QED BY <2>4, <3>1 DEF increaseDone, TypeOK
  <2>5. CASE decreaseDone
    BY <2>5 DEF decreaseDone, TypeOK
  <2>6. CASE applyPolicies
    BY <2>6 DEF applyPolicies, TypeOK
  <2>7. ASSUME NEW sg \in SrcGlobs, Traffic(sg) PROVE TypeOK'
    BY <2>7 DEF Traffic, TypeOK, Usage
  <2>8. ASSUME NEW sg \in SrcGlobs, Expire(sg) PROVE TypeOK'
    BY <2>8 DEF Expire, TypeOK, Usage
  <2>9. CASE ClockStepsBack
    BY <2>9, ConfigAssumption DEF ClockStepsBack, TypeOK
  <2>10. CASE Restart
    <3>1. changed' \in BOOLEAN
      BY <2>10, Zenon DEF Restart
    <3> QED BY <2>10, <3>1, ConfigAssumption DEF Restart, TypeOK
  <2>11. CASE UNCHANGED vars
    BY <2>11 DEF vars, TypeOK
  <2> QED
    BY <2>1, <2>2, <2>3, <2>4, <2>5, <2>6, <2>7, <2>8, <2>9, <2>10, <2>11
    DEF Next, pollPolicyCheck, check
<1> QED BY <1>1, <1>2, PTL DEF Spec

-----------------------------------------------------------------------------
(* One match of increaseThrottling: a new row has class 10, and a row      *)
(* below the limit stays below it when it is raised.                       *)
LEMMA IncreaseKeepsLeaf ==
  ASSUME TypeOK, ClassHasLeaf, NEW sg \in SrcGlobs, increaseThrottling(sg)
  PROVE  ClassHasLeaf'
<1>1. PICK r \in {0, 1}, w \in {0, 1} :
        LET p == GetPolicy(sg, r) IN
        \/ UpdatePolicy(sg, 10, w)
        \/ UNCHANGED policy
        \/ p # NoRow /\ ~AtMaximum(p) /\ UpdatePolicy(sg, p.class + 10, w)
  BY DEF increaseThrottling
<1>2. CASE UpdatePolicy(sg, 10, w)
  <2>1. 1 \in 1 .. (NumQdiscClasses + 1) /\ 10 = 10 * 1
    BY ConfigAssumption
  <2> QED BY <1>2, <2>1 DEF UpdatePolicy, ClassHasLeaf, TypeOK
<1>3. CASE UNCHANGED policy
  BY <1>3 DEF ClassHasLeaf
<1>4. CASE /\ GetPolicy(sg, r) # NoRow /\ ~AtMaximum(GetPolicy(sg, r))
           /\ UpdatePolicy(sg, GetPolicy(sg, r).class + 10, w)
  <2>1. GetPolicy(sg, r) = policy[sg] /\ policy[sg] # NoRow
    BY <1>4, GetPolicyTyped
  <2>2. PICK i \in 1 .. (NumQdiscClasses + 1) : policy[sg].class = 10 * i
    BY <2>1 DEF ClassHasLeaf
  <2>3. i + 1 \in 1 .. (NumQdiscClasses + 1) /\ policy[sg].class + 10 = 10 * (i + 1)
    BY <1>4, <2>1, <2>2, ConfigAssumption DEF AtMaximum
  <2> QED BY <1>4, <2>1, <2>3 DEF UpdatePolicy, ClassHasLeaf, TypeOK
<1> QED BY <1>1, <1>2, <1>3, <1>4

(* One match of decreasingThrottling: class 10 is deleted, the others go   *)
(* down to a class that exists.                                            *)
LEMMA DecreaseKeepsLeaf ==
  ASSUME TypeOK, ClassHasLeaf, NEW sg \in SrcGlobs, decreasingThrottling(sg)
  PROVE  ClassHasLeaf'
<1>1. PICK r \in {0, 1}, w \in {0, 1} :
        LET p == GetPolicy(sg, r) IN
        \/ DeletePolicy(sg, w)
        \/ UNCHANGED policy
        \/ p # NoRow /\ ~AtMinimum(p) /\ UpdatePolicy(sg, p.class - 10, w)
  BY DEF decreasingThrottling
<1>2. CASE DeletePolicy(sg, w)
  BY <1>2 DEF DeletePolicy, ClassHasLeaf, TypeOK
<1>3. CASE UNCHANGED policy
  BY <1>3 DEF ClassHasLeaf
<1>4. CASE /\ GetPolicy(sg, r) # NoRow /\ ~AtMinimum(GetPolicy(sg, r))
           /\ UpdatePolicy(sg, GetPolicy(sg, r).class - 10, w)
  <2>1. GetPolicy(sg, r) = policy[sg] /\ policy[sg] # NoRow
    BY <1>4, GetPolicyTyped
  <2>2. PICK i \in 1 .. (NumQdiscClasses + 1) : policy[sg].class = 10 * i
    BY <2>1 DEF ClassHasLeaf
  <2>3. i - 1 \in 1 .. (NumQdiscClasses + 1) /\ policy[sg].class - 10 = 10 * (i - 1)
    BY <1>4, <2>1, <2>2, ConfigAssumption DEF AtMinimum
  <2> QED BY <1>4, <2>1, <2>3 DEF UpdatePolicy, ClassHasLeaf, TypeOK
<1> QED BY <1>1, <1>2, <1>3, <1>4

(* Every class in the policy table is one of the NumQdiscClasses + 1 that  *)
(* have a leaf, whatever fails and whenever the process dies.  The limit   *)
(* of increaseThrottling is tested before the increment and against        *)
(* NumQdiscClasses rather than NumQdiscClasses + 1: the proof rests on     *)
(* the two cancelling out.                                                 *)
THEOREM ClassesHaveLeaves == Spec => []ClassHasLeaf
<1>1. Init => ClassHasLeaf
  BY DEF Init, ClassHasLeaf
<1>2. TypeOK /\ ClassHasLeaf /\ [Next]_vars => ClassHasLeaf'
  <2> SUFFICES ASSUME TypeOK, ClassHasLeaf, [Next]_vars PROVE ClassHasLeaf'
    OBVIOUS
  <2>1. ASSUME NEW sg \in SrcGlobs, increaseThrottling(sg) PROVE ClassHasLeaf'
    BY <2>1, IncreaseKeepsLeaf
  <2>2. ASSUME NEW sg \in SrcGlobs, decreasingThrottling(sg) PROVE ClassHasLeaf'
    BY <2>2, DecreaseKeepsLeaf
  <2>3. ASSUME UNCHANGED policy PROVE ClassHasLeaf'
    BY <2>3 DEF ClassHasLeaf
  <2> QED
    BY <2>1, <2>2, <2>3
    DEF Next, pollPolicyCheck, check, startCheck, increaseDone, decreaseDone,
        applyPolicies, Traffic, Expire, ClockStepsBack, Restart, vars
<1> QED BY <1>1, <1>2, Typed, PTL DEF Spec
=============================================================================
