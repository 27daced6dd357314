----------------------------- MODULE LadderProofs -----------------------------
(***************************************************************************)
(* The policy loop implements ThrottleLadder, for all constants.           *)
(***************************************************************************)
EXTENDS SimpleLoadAvgProofs

(* Matches are left over only inside the two loops; a check therefore      *)
(* starts with every verdict of the last one used up.                      *)
MatchesUsedUp == pc \in {"idle", "apply"} => todo = {}

LEMMA AlwaysUsedUp == Spec => []MatchesUsedUp
<1>1. Init => MatchesUsedUp
  BY DEF Init, MatchesUsedUp
<1>2. MatchesUsedUp /\ [Next]_vars => MatchesUsedUp'
  BY DEF MatchesUsedUp, Next, pollPolicyCheck, check, startCheck, increaseDone,
         decreaseDone, applyPolicies, increaseThrottling, decreasingThrottling,
         Traffic, Expire, ClockStepsBack, Restart, vars
<1> QED BY <1>1, <1>2, PTL DEF Spec

-----------------------------------------------------------------------------
(* A write of class 10 * i puts the pair on rung i.                        *)
LEMMA RungAfterWrite ==
  ASSUME TypeOK, NEW sg \in SrcGlobs, NEW w \in {0, 1}, NEW i \in Nat,
         UpdatePolicy(sg, 10 * i, w)
  PROVE  rungs' = rungs \/ rungs' = [rungs EXCEPT ![sg] = i]
<1>1. CASE w = 1
  BY <1>1 DEF UpdatePolicy, rungs
<1>2. CASE w = 0
  <2>1. policy' = [policy EXCEPT ![sg] = [class |-> 10 * i, tstamp |-> now]]
    BY <1>2 DEF UpdatePolicy
  <2>2. (10 * i) \div 10 = i
    OBVIOUS
  <2> QED BY <2>1, <2>2 DEF TypeOK, rungs
<1> QED BY <1>1, <1>2

LEMMA RungAfterDelete ==
  ASSUME TypeOK, NEW sg \in SrcGlobs, NEW w \in {0, 1}, DeletePolicy(sg, w)
  PROVE  rungs' = rungs \/ rungs' = [rungs EXCEPT ![sg] = 0]
<1>1. CASE w = 1
  BY <1>1 DEF DeletePolicy, rungs
<1>2. CASE w = 0
  <2>1. policy' = [policy EXCEPT ![sg] = NoRow] /\ NoRow.class \div 10 = 0
    BY <1>2 DEF DeletePolicy, NoRow
  <2> QED BY <2>1 DEF TypeOK, rungs
<1> QED BY <1>1, <1>2

(* A pair without a row is on rung 0, one of class 10 * i on rung i.       *)
LEMMA RungOfRow ==
  ASSUME TypeOK, NEW sg \in SrcGlobs
  PROVE  /\ policy[sg] = NoRow => rungs[sg] = 0
         /\ \A i \in Nat : policy[sg].class = 10 * i => rungs[sg] = i
BY DEF TypeOK, rungs, NoRow

(* A visited match is a used verdict.                                      *)
LEMMA VerdictUsed ==
  ASSUME NEW sg \in SrcGlobs, sg \in todo, todo' = todo \ {sg}, pc' = pc
  PROVE  /\ verdicts[sg] = IF pc = "increase" THEN "up" ELSE "down"
         /\ verdicts' = [verdicts EXCEPT ![sg] = "stay"]
BY DEF verdicts

-----------------------------------------------------------------------------
LEMMA IncreaseIsMove ==
  ASSUME TypeOK, ClassHasLeaf, NEW sg \in SrcGlobs, increaseThrottling(sg)
  PROVE  Ladder!Move(sg)
<1>1. /\ verdicts[sg] = "up"
      /\ verdicts' = [verdicts EXCEPT ![sg] = "stay"]
  BY VerdictUsed DEF increaseThrottling
<1>2. \/ rungs' = rungs
      \/ /\ rungs[sg] < NumQdiscClasses + 1
         /\ rungs' = [rungs EXCEPT ![sg] = @ + 1]
      \/ ReadErrors /\ rungs' = [rungs EXCEPT ![sg] = 1]
  <2>1. PICK w \in {0, 1} :
          \/ (policy[sg] = NoRow \/ ReadErrors) /\ UpdatePolicy(sg, 10, w)
          \/ UNCHANGED policy
          \/ /\ policy[sg] # NoRow /\ ~AtMaximum(policy[sg])
             /\ UpdatePolicy(sg, policy[sg].class + 10, w)
    BY DEF increaseThrottling, GetPolicy
  <2>2. CASE (policy[sg] = NoRow \/ ReadErrors) /\ UpdatePolicy(sg, 10, w)
    <3>1. rungs' = rungs \/ rungs' = [rungs EXCEPT ![sg] = 1]
      <4>1. UpdatePolicy(sg, 10 * 1, w)
        BY <2>2
      <4> QED BY <4>1, RungAfterWrite
    <3>2. policy[sg] = NoRow => rungs[sg] = 0
      BY <2>2, RungOfRow
    <3> QED BY <2>2, <3>1, <3>2, ConfigAssumption
  <2>3. CASE UNCHANGED policy
    BY <2>3 DEF rungs
  <2>4. CASE /\ policy[sg] # NoRow /\ ~AtMaximum(policy[sg])
             /\ UpdatePolicy(sg, policy[sg].class + 10, w)
    <3>1. PICK i \in 1 .. (NumQdiscClasses + 1) : policy[sg].class = 10 * i
      BY <2>4 DEF ClassHasLeaf
    <3>2. i <= NumQdiscClasses /\ policy[sg].class + 10 = 10 * (i + 1)
      BY <2>4, <3>1, ConfigAssumption DEF AtMaximum
    <3>3. rungs' = rungs \/ rungs' = [rungs EXCEPT ![sg] = i + 1]
      <4>1. i + 1 \in Nat /\ UpdatePolicy(sg, 10 * (i + 1), w)
        BY <2>4, <3>1, <3>2, ConfigAssumption
      <4> QED BY <4>1, RungAfterWrite
    <3>4. rungs[sg] = i
      BY <3>1, RungOfRow
    <3> QED BY <3>1, <3>2, <3>3, <3>4, ConfigAssumption
  <2> QED BY <2>1, <2>2, <2>3, <2>4
<1> QED BY <1>1, <1>2 DEF Ladder!Move

LEMMA DecreaseIsMove ==
  ASSUME TypeOK, ClassHasLeaf, NEW sg \in SrcGlobs, decreasingThrottling(sg)
  PROVE  Ladder!Move(sg)
<1>1. /\ verdicts[sg] = "down"
      /\ verdicts' = [verdicts EXCEPT ![sg] = "stay"]
  BY VerdictUsed DEF decreasingThrottling
<1>2. \/ rungs' = rungs
      \/ rungs[sg] > 0 /\ rungs' = [rungs EXCEPT ![sg] = @ - 1]
  <2>1. PICK w \in {0, 1} :
          \/ UNCHANGED policy
          \/ /\ policy[sg] # NoRow /\ AtMinimum(policy[sg])
             /\ DeletePolicy(sg, w)
          \/ /\ policy[sg] # NoRow /\ ~AtMinimum(policy[sg])
             /\ UpdatePolicy(sg, policy[sg].class - 10, w)
    BY DEF decreasingThrottling, GetPolicy
  <2>2. CASE UNCHANGED policy
    BY <2>2 DEF rungs
  <2>3. CASE policy[sg] # NoRow
    <3>1. PICK i \in 1 .. (NumQdiscClasses + 1) : policy[sg].class = 10 * i
      BY <2>3 DEF ClassHasLeaf
    <3>2. rungs[sg] = i
      BY <3>1, RungOfRow
    <3>3. CASE AtMinimum(policy[sg]) /\ DeletePolicy(sg, w)
      <4>1. i = 1
        BY <3>1, <3>3, ConfigAssumption DEF AtMinimum
      <4>2. rungs' = rungs \/ rungs' = [rungs EXCEPT ![sg] = 0]
        BY <3>3, RungAfterDelete
      <4> QED BY <3>2, <4>1, <4>2
    <3>4. CASE ~AtMinimum(policy[sg]) /\ UpdatePolicy(sg, policy[sg].class - 10, w)
      <4>1. i - 1 \in Nat /\ policy[sg].class - 10 = 10 * (i - 1)
        BY <3>1, ConfigAssumption
      <4>2. rungs' = rungs \/ rungs' = [rungs EXCEPT ![sg] = i - 1]
        BY <3>4, <4>1, RungAfterWrite
      <4> QED BY <3>1, <3>2, <4>2, ConfigAssumption
    <3> QED BY <2>1, <2>2, <3>3, <3>4
  <2> QED BY <2>1, <2>2, <2>3
<1> QED BY <1>1, <1>2 DEF Ladder!Move

-----------------------------------------------------------------------------
(* The loop implements the abstract policy: a check moves pairs in one     *)
(* direction only, each by one class and at most once, never off the       *)
(* ladder, and nothing else moves a pair, whatever fails.  Only where      *)
(* SELECTs may fail, a pair to be raised may start over, since GetPolicy   *)
(* then reports that there is no row.                                      *)
THEOREM LoopRefinesLadder == Spec => LadderRefined
<1>1. Init => Ladder!Init
  BY DEF Init, Ladder!Init, Ladder!NoVerdicts, rungs, verdicts, NoRow
<1>2. TypeOK /\ ClassHasLeaf /\ MatchesUsedUp /\ [Next]_vars
        => [Ladder!Next]_(Ladder!vars)
  <2> SUFFICES ASSUME TypeOK, ClassHasLeaf, MatchesUsedUp, [Next]_vars
               PROVE  Ladder!Next \/ UNCHANGED <<rungs, verdicts>>
    BY DEF Ladder!vars
  <2>1. ASSUME NEW sg \in SrcGlobs, increaseThrottling(sg) PROVE Ladder!Next
    BY <2>1, IncreaseIsMove DEF Ladder!Next
  <2>2. ASSUME NEW sg \in SrcGlobs, decreasingThrottling(sg) PROVE Ladder!Next
    BY <2>2, DecreaseIsMove DEF Ladder!Next
  <2>3. CASE startCheck
    <3>1. verdicts = Ladder!NoVerdicts
      BY <2>3 DEF startCheck, MatchesUsedUp, verdicts, Ladder!NoVerdicts
    <3>2. verdicts' \in [SrcGlobs -> {"up", "stay"}]
      BY <2>3 DEF startCheck, verdicts
    <3>3. rungs' = rungs
      BY <2>3 DEF startCheck, rungs
    <3> QED BY <3>1, <3>2, <3>3 DEF Ladder!Next, Ladder!Check
  <2>4. CASE increaseDone
    <3>1. verdicts = Ladder!NoVerdicts
      BY <2>4 DEF increaseDone, verdicts, Ladder!NoVerdicts
    <3>2. verdicts' \in [SrcGlobs -> {"down", "stay"}]
      BY <2>4 DEF increaseDone, verdicts
    <3>3. rungs' = rungs
      BY <2>4 DEF increaseDone, rungs
    <3> QED BY <3>1, <3>2, <3>3 DEF Ladder!Next, Ladder!Check
  <2>5. CASE decreaseDone \/ applyPolicies
    BY <2>5 DEF decreaseDone, applyPolicies, MatchesUsedUp, rungs, verdicts
  <2>6. CASE Restart
    <3>1. verdicts' = Ladder!NoVerdicts /\ rungs' = rungs
      BY <2>6 DEF Restart, rungs, verdicts, Ladder!NoVerdicts
    <3> QED BY <3>1 DEF Ladder!Next, Ladder!Abandon
  <2>7. ASSUME UNCHANGED <<policy, pc, todo>> PROVE UNCHANGED <<rungs, verdicts>>
    BY <2>7 DEF rungs, verdicts
  <2> QED
    BY <2>1, <2>2, <2>3, <2>4, <2>5, <2>6, <2>7
    DEF Next, pollPolicyCheck, check, Traffic, Expire, ClockStepsBack, vars
<1> QED BY <1>1, <1>2, Typed, ClassesHaveLeaves, AlwaysUsedUp, PTL
        DEF Spec, LadderRefined, Ladder!Spec
=============================================================================
