--------------------------- MODULE NethadoneProofs ---------------------------
(***************************************************************************)
(* Proofs about the composed router, for any clients, groups and ips: what *)
(* the glob table covers, what the proofs about the parts say of the whole *)
(* and that the policy table and the attached throttler agree.             *)
(***************************************************************************)
EXTENDS Nethadone, FiniteSetTheorems, TLAPS

(* Both tables are functions on the pairs.                                 *)
TablesAreFunctions ==
  /\ policy = [sg \in SrcGlobs |-> policy[sg]]
  /\ usage = [sg \in SrcGlobs |-> usage[sg]]

(* Whatever a pair has left a trace in, its group is in the glob table:    *)
(* Prometheus, the matches being visited, the policy table.                *)
TracesHaveGroups ==
  \A sg \in SrcGlobs :
    usage[sg] # "absent" \/ sg \in todo \/ policy[sg] # Loop!NoRow
      => sg[2] \in globs

GroupInv == TablesAreFunctions /\ TracesHaveGroups

(* A step that writes at most sg's row.                                    *)
LEMMA RowWritten ==
  ASSUME GroupInv, NEW sg \in SrcGlobs, sg \in todo, globs' = globs,
         usage' = usage, todo' = todo \ {sg},
         \/ policy' = policy
         \/ \E row : policy' = [policy EXCEPT ![sg] = row]
  PROVE  GroupInv'
<1>1. TablesAreFunctions'
  BY DEF GroupInv, TablesAreFunctions
<1>2. ASSUME NEW s \in SrcGlobs, usage'[s] # "absent" \/ s \in todo' \/ policy'[s] # Loop!NoRow
      PROVE  s[2] \in globs'
  <2>1. CASE s = sg
    BY <2>1 DEF GroupInv, TracesHaveGroups
  <2>2. CASE s # sg
    <3>1. policy'[s] = policy[s]
      BY <2>2 DEF GroupInv, TablesAreFunctions
    <3> QED BY <1>2, <3>1 DEF GroupInv, TracesHaveGroups
  <2> QED BY <2>1, <2>2
<1> QED BY <1>1, <1>2 DEF GroupInv, TracesHaveGroups

LEMMA CheckKeepsGroups ==
  ASSUME GroupInv, check
  PROVE  GroupInv'
<1>1. ASSUME NEW sg \in SrcGlobs, Loop!increaseThrottling(sg) \/ Loop!decreasingThrottling(sg)
      PROVE  GroupInv'
  <2>1. /\ sg \in todo /\ usage' = usage /\ todo' = todo \ {sg}
        /\ \/ policy' = policy
           \/ \E row : policy' = [policy EXCEPT ![sg] = row]
    BY <1>1 DEF Loop!increaseThrottling, Loop!decreasingThrottling,
                Loop!UpdatePolicy, Loop!DeletePolicy
  <2>2. globs' = globs
    BY DEF check, tables
  <2> QED BY <2>1, <2>2, RowWritten
<1>2. CASE Loop!startCheck \/ Loop!increaseDone \/ Loop!decreaseDone
  <2>1. policy' = policy /\ usage' = usage /\ globs' = globs
    BY <1>2 DEF check, tables, Loop!startCheck, Loop!increaseDone, Loop!decreaseDone
  <2>2. \A sg \in todo' : sg \in SrcGlobs => sg \in todo \/ usage[sg] # "absent"
    BY <1>2 DEF Loop!startCheck, Loop!increaseDone, Loop!decreaseDone,
                Loop!getActiveGlobGroups, Loop!idleGlobGroups
  <2> QED BY <2>1, <2>2 DEF GroupInv, TablesAreFunctions, TracesHaveGroups
<1> QED BY <1>1, <1>2 DEF check, Loop!check

(* applyPolicies dereferences the result of GetIpPolicies unchecked; no    *)
(* row names a group GetGlob would not find, across crashes, failed reads  *)
(* and writes, and web requests at any point.                              *)
THEOREM NoOrphanRows == Spec => []RowsHaveGroups
<1>1. Init => GroupInv
  BY DEF Init, Loop!Init, GroupInv, TablesAreFunctions, TracesHaveGroups
<1>2. GroupInv /\ [Next]_vars => GroupInv'
  <2> SUFFICES ASSUME GroupInv, [Next]_vars PROVE GroupInv'
    OBVIOUS
  <2>1. CASE check
    BY <2>1, CheckKeepsGroups
  <2>2. ASSUME UNCHANGED <<policy, usage, todo>>, globs \subseteq globs' PROVE GroupInv'
    BY <2>2 DEF GroupInv, TablesAreFunctions, TracesHaveGroups
  <2>3. CASE applyPolicies \/ throttlerStep
    <3>1. UNCHANGED <<policy, usage, todo, globs>>
      BY <2>3 DEF applyPolicies, throttlerStep, GetAllPolicies, GetIpPolicies,
                  callApplyPolicies, applyReturns, Loop!applyPolicies, loopVars, tables
    <3> QED BY <2>2, <3>1
  <2>4. ASSUME NEW g \in Groups, GlobAdd(g) PROVE GroupInv'
    BY <2>2, <2>4 DEF GlobAdd, loopVars
  <2>5. ASSUME NEW ip \in Ips, NEW g \in Groups, AddDns(ip, g) \/ DnsAges(ip, g) PROVE GroupInv'
    BY <2>2, <2>5 DEF AddDns, DnsAges, loopVars
  <2>6. ASSUME NEW sg \in SrcGlobs, Traffic(sg) PROVE GroupInv'
    <3>1. /\ sg[2] \in globs /\ UNCHANGED <<policy, todo, globs>>
          /\ \E u : usage' = [usage EXCEPT ![sg] = u]
      BY <2>6 DEF Traffic, Labelled, Loop!Traffic, tables
    <3> QED BY <3>1 DEF GroupInv, TablesAreFunctions, TracesHaveGroups
  <2>7. ASSUME NEW sg \in SrcGlobs, Expire(sg) PROVE GroupInv'
    <3>1. /\ UNCHANGED <<policy, todo, globs>>
          /\ usage' = [usage EXCEPT ![sg] = "absent"]
      BY <2>7 DEF Expire, Loop!Expire, tables
    <3> QED BY <3>1 DEF GroupInv, TablesAreFunctions, TracesHaveGroups
  <2>8. CASE ClockStepsBack
    BY <2>2, <2>8 DEF ClockStepsBack, Loop!ClockStepsBack, tables
  <2>9. CASE Crash
    <3>1. UNCHANGED <<policy, usage, globs>> /\ todo' = {}
      BY <2>9 DEF Crash, Loop!Restart, tables
    <3> QED BY <3>1 DEF GroupInv, TablesAreFunctions, TracesHaveGroups
  <2>10. CASE UNCHANGED vars
    BY <2>2, <2>10 DEF vars, loopVars, tables
  <2> QED
    BY <2>1, <2>3, <2>4, <2>5, <2>6, <2>7, <2>8, <2>9, <2>10
    DEF Next, Process, Environment
<1>3. GroupInv => RowsHaveGroups
  BY DEF GroupInv, TracesHaveGroups, RowsHaveGroups
<1> QED BY <1>1, <1>2, <1>3, PTL DEF Spec

-----------------------------------------------------------------------------
(* The composed router implements the policy loop of SimpleLoadAvg: while  *)
(* applyPolicies translates and the throttler is rebuilt, reattached or    *)
(* started, nothing the loop depends on changes, and a crash of the router *)
(* is a restart of the loop.  What is proved of the loop holds for the     *)
(* router.                                                                 *)
THEOREM RouterImplementsLoop == Spec => Loop!Spec
<1>1. Init => Loop!Init
  BY DEF Init
<1>2. [Next]_vars => [Loop!Next]_(Loop!vars)
  <2> SUFFICES ASSUME [Next]_vars PROVE Loop!Next \/ UNCHANGED Loop!vars
    OBVIOUS
  <2>1. CASE check
    BY <2>1 DEF check, Loop!Next, Loop!pollPolicyCheck
  <2>2. CASE applyPolicies
    <3>1. CASE applyReturns
      BY <3>1 DEF applyReturns, Loop!Next, Loop!pollPolicyCheck
    <3>2. CASE callApplyPolicies
      BY <3>2 DEF callApplyPolicies, loopVars, Loop!vars
    <3>3. CASE GetAllPolicies \/ \E sg \in SrcGlobs : GetIpPolicies(sg)
      BY <3>3 DEF GetAllPolicies, GetIpPolicies, loopVars, Loop!vars
    <3> QED BY <2>2, <3>1, <3>2, <3>3 DEF applyPolicies
  <2>3. CASE throttlerStep
    BY <2>3 DEF throttlerStep, loopVars, Loop!vars
  <2>4. CASE \E g \in Groups : GlobAdd(g)
    BY <2>4 DEF GlobAdd, loopVars, Loop!vars
  <2>5. CASE \E ip \in Ips, g \in Groups : AddDns(ip, g) \/ DnsAges(ip, g)
    BY <2>5 DEF AddDns, DnsAges, loopVars, Loop!vars
  <2>6. CASE \E sg \in SrcGlobs : Traffic(sg) \/ Expire(sg)
    BY <2>6 DEF Traffic, Expire, Loop!Next
  <2>7. CASE ClockStepsBack \/ Crash
    BY <2>7 DEF ClockStepsBack, Crash, Loop!Next
  <2>8. CASE UNCHANGED vars
    BY <2>8 DEF vars, loopVars, Loop!vars
  <2> QED
    BY <2>1, <2>2, <2>3, <2>4, <2>5, <2>6, <2>7, <2>8
    DEF Next, Process, Environment
<1> QED BY <1>1, <1>2, PTL DEF Spec, Loop!Spec
-----------------------------------------------------------------------------
(* The parts.                                                              *)

LoopP == INSTANCE LadderProofs
ThrottleP == INSTANCE ThrottlerProofs WITH
  Default <- DefaultProgram,
  NoProgram <- Program("nobody", <<>>),
  MaxFailures <- MaxFaults

-----------------------------------------------------------------------------
(* The instances of the proof modules speak of the same specifications.    *)

LEMMA SameLoop == Loop!Spec => LoopP!Spec
<1>1. Loop!Init => LoopP!Init
  BY DEF Loop!Init, LoopP!Init, Loop!NoRow, LoopP!NoRow
<1>2. [Loop!Next]_(Loop!vars) => [LoopP!Next]_(LoopP!vars)
  <2> SUFFICES ASSUME [Loop!Next]_(Loop!vars)
               PROVE  LoopP!Next \/ UNCHANGED LoopP!vars
    OBVIOUS
  <2>1. CASE Loop!startCheck
    BY <2>1 DEF Loop!startCheck, LoopP!startCheck, Loop!Errs, LoopP!Errs,
                Loop!getActiveGlobGroups, LoopP!getActiveGlobGroups,
                Loop!changedAtStart, LoopP!changedAtStart,
                LoopP!Next, LoopP!pollPolicyCheck, LoopP!check
  <2>2. ASSUME NEW sg \in SrcGlobs, Loop!increaseThrottling(sg) PROVE LoopP!Next
    <3>1. LoopP!increaseThrottling(sg)
      BY <2>2 DEF Loop!increaseThrottling, LoopP!increaseThrottling, Loop!Errs, LoopP!Errs,
                Loop!GetPolicy, LoopP!GetPolicy, Loop!UpdatePolicy, LoopP!UpdatePolicy,
                Loop!NoRow, LoopP!NoRow, Loop!TooSoon, LoopP!TooSoon,
                Loop!AtMaximum, LoopP!AtMaximum
    <3> QED BY <3>1 DEF LoopP!Next, LoopP!pollPolicyCheck, LoopP!check
  <2>3. ASSUME NEW sg \in SrcGlobs, Loop!decreasingThrottling(sg) PROVE LoopP!Next
    <3>1. LoopP!decreasingThrottling(sg)
      BY <2>3 DEF Loop!decreasingThrottling, LoopP!decreasingThrottling,
                Loop!Errs, LoopP!Errs, Loop!GetPolicy, LoopP!GetPolicy,
                Loop!UpdatePolicy, LoopP!UpdatePolicy,
                Loop!DeletePolicy, LoopP!DeletePolicy,
                Loop!NoRow, LoopP!NoRow, Loop!TooSoon, LoopP!TooSoon,
                Loop!AtMinimum, LoopP!AtMinimum
    <3> QED BY <3>1 DEF LoopP!Next, LoopP!pollPolicyCheck, LoopP!check
  <2>4. CASE Loop!increaseDone \/ Loop!decreaseDone \/ Loop!applyPolicies
    BY <2>4 DEF Loop!increaseDone, LoopP!increaseDone, Loop!Errs, LoopP!Errs,
                Loop!idleGlobGroups, LoopP!idleGlobGroups,
                Loop!decreaseDone, LoopP!decreaseDone,
                Loop!applyPolicies, LoopP!applyPolicies,
                LoopP!Next, LoopP!pollPolicyCheck, LoopP!check
  <2>5. CASE \E sg \in SrcGlobs : Loop!Traffic(sg) \/ Loop!Expire(sg)
    BY <2>5 DEF Loop!Traffic, LoopP!Traffic, Loop!Usage, LoopP!Usage,
                Loop!Expire, LoopP!Expire, LoopP!Next
  <2>6. CASE Loop!ClockStepsBack \/ Loop!Restart
    BY <2>6 DEF Loop!ClockStepsBack, LoopP!ClockStepsBack,
                Loop!Restart, LoopP!Restart, LoopP!Next
  <2>7. CASE UNCHANGED Loop!vars
    BY <2>7 DEF Loop!vars, LoopP!vars
  <2> QED
    BY <2>1, <2>2, <2>3, <2>4, <2>5, <2>6, <2>7
    DEF Loop!Next, Loop!pollPolicyCheck, Loop!check
<1> QED BY <1>1, <1>2, PTL DEF Loop!Spec, LoopP!Spec

LEMMA SameThrottler == Throttle!Spec => ThrottleP!Spec
<1>1. Throttle!Init => ThrottleP!Init
  BY DEF Throttle!Init, ThrottleP!Init
<1>2. [Throttle!Next]_(Throttle!vars) => [ThrottleP!Next]_(ThrottleP!vars)
  <2> SUFFICES ASSUME [Throttle!Next]_(Throttle!vars)
               PROVE  ThrottleP!Next \/ UNCHANGED ThrottleP!vars
    OBVIOUS
  <2>1. ASSUME NEW p \in Programs, Throttle!ApplyPolicies(p) PROVE ThrottleP!Next
    BY <2>1 DEF Throttle!ApplyPolicies, ThrottleP!ApplyPolicies,
                Throttle!createTemp, ThrottleP!createTemp, ThrottleP!Next
  <2>2. CASE Throttle!Initialize \/ Throttle!Die
    BY <2>2 DEF Throttle!Initialize, ThrottleP!Initialize,
                Throttle!Die, ThrottleP!Die, ThrottleP!Next
  <2>3. CASE Throttle!applyDefault
    BY <2>3 DEF Throttle!applyDefault, ThrottleP!applyDefault,
                Throttle!createTemp, ThrottleP!createTemp, ThrottleP!Next, ThrottleP!Step
  <2>4. CASE Throttle!rebuildBpf \/ Throttle!removeTempFiles
    BY <2>4 DEF Throttle!rebuildBpf, ThrottleP!rebuildBpf,
                Throttle!removeTempFiles, ThrottleP!removeTempFiles,
                Throttle!removeBoth, ThrottleP!removeBoth,
                ThrottleP!Next, ThrottleP!Step
  <2>5. CASE Throttle!cleanupThrottler
    BY <2>5 DEF Throttle!cleanupThrottler, ThrottleP!cleanupThrottler,
                Throttle!FilterDelete, ThrottleP!FilterDelete,
                Throttle!RemoveAt, ThrottleP!RemoveAt,
                ThrottleP!Next, ThrottleP!Step, ThrottleP!reattachThrottler
  <2>6. CASE Throttle!closeObjects \/ Throttle!loadObjects \/ Throttle!attachFilter
    BY <2>6 DEF Throttle!closeObjects, ThrottleP!closeObjects,
                Throttle!loadObjects, ThrottleP!loadObjects,
                Throttle!attachFilter, ThrottleP!attachFilter,
                Throttle!FilterAdd, ThrottleP!FilterAdd,
                ThrottleP!Next, ThrottleP!Step, ThrottleP!reattachThrottler
  <2>7. CASE UNCHANGED Throttle!vars
    BY <2>7 DEF Throttle!vars, ThrottleP!vars
  <2> QED
    BY <2>1, <2>2, <2>3, <2>4, <2>5, <2>6, <2>7
    DEF Throttle!Next, Throttle!Step, Throttle!reattachThrottler
<1> QED BY <1>1, <1>2, PTL DEF Throttle!Spec, ThrottleP!Spec

-----------------------------------------------------------------------------
(* The policy loop's invariants hold in the router.                        *)

LEMMA LoopInRouter ==
  Spec => [](Loop!TypeOK /\ Loop!ClassHasLeaf)
<1>1. LoopP!Spec => []LoopP!TypeOK
  BY LoopP!Typed, RouterAssumption
<1>2. LoopP!Spec => []LoopP!ClassHasLeaf
  BY LoopP!ClassesHaveLeaves, RouterAssumption
<1>3. LoopP!TypeOK => Loop!TypeOK
  BY DEF LoopP!TypeOK, Loop!TypeOK, LoopP!Usage, Loop!Usage
<1>4. LoopP!ClassHasLeaf => Loop!ClassHasLeaf
  BY DEF LoopP!ClassHasLeaf, Loop!ClassHasLeaf, LoopP!NoRow, Loop!NoRow
<1> QED BY <1>1, <1>2, <1>3, <1>4, RouterImplementsLoop, SameLoop, PTL

(* With DNS, glob groups and the throttler at work, the rows of the policy *)
(* table still move as the abstract policy says: one class at a time, the  *)
(* matches of a check all the same way, and each of them at most once.     *)
THEOREM RouterRefinesLadder == Spec => LoopP!LadderRefined
<1>1. LoopP!Spec => LoopP!LadderRefined
  BY LoopP!LoopRefinesLadder, RouterAssumption
<1> QED BY <1>1, RouterImplementsLoop, SameLoop, PTL

-----------------------------------------------------------------------------
(* Types of what the router adds to its parts.                             *)

ApplyTyped ==
  /\ globs \subseteq Groups
  /\ dns \in [Ips \X Groups -> {"never", "recent", "old"}]
  /\ phase \in {"start", "gather", "wait"}
  /\ left \subseteq SrcGlobs
  /\ rules \in Seq(Block)

(* A row makes one block.                                                  *)
LEMMA BlockTyped ==
  ASSUME Loop!TypeOK, NEW sg \in SrcGlobs
  PROVE  [sg |-> sg, class |-> policy[sg].class, ips |-> GetIPsMatchingGlob(sg[2])]
           \in Block
<1>1. policy[sg].class \in Nat
  BY DEF Loop!TypeOK
<1>2. GetIPsMatchingGlob(sg[2]) \in SUBSET Ips
  BY DEF GetIPsMatchingGlob
<1> QED BY <1>1, <1>2 DEF Block

LEMMA ApplyTypedStep ==
  ASSUME Loop!TypeOK, ApplyTyped, [Next]_vars
  PROVE  ApplyTyped'
<1>1. CASE check \/ throttlerStep \/ ClockStepsBack
  BY <1>1 DEF check, throttlerStep, ClockStepsBack, tables, applyVars, ApplyTyped
<1>2. CASE GetAllPolicies
  BY <1>2 DEF GetAllPolicies, tables, ApplyTyped
<1>3. ASSUME NEW sg \in SrcGlobs, GetIpPolicies(sg) PROVE ApplyTyped'
  <2>1. rules' \in Seq(Block)
    BY <1>3, BlockTyped DEF GetIpPolicies, ApplyTyped
  <2> QED BY <1>3, <2>1 DEF GetIpPolicies, tables, ApplyTyped
<1>4. CASE callApplyPolicies \/ applyReturns
  BY <1>4 DEF callApplyPolicies, applyReturns, tables, ApplyTyped
<1>5. ASSUME NEW g \in Groups, GlobAdd(g) PROVE ApplyTyped'
  BY <1>5 DEF GlobAdd, applyVars, ApplyTyped
<1>6. ASSUME NEW ip \in Ips, NEW g \in Groups, AddDns(ip, g) \/ DnsAges(ip, g)
      PROVE  ApplyTyped'
  BY <1>6 DEF AddDns, DnsAges, applyVars, ApplyTyped
<1>7. ASSUME NEW sg \in SrcGlobs, Traffic(sg) \/ Expire(sg) PROVE ApplyTyped'
  BY <1>7 DEF Traffic, Expire, tables, applyVars, ApplyTyped
<1>8. CASE Crash
  BY <1>8 DEF Crash, tables, ApplyTyped
<1>9. CASE UNCHANGED vars
  BY <1>9 DEF vars, tables, applyVars, ApplyTyped
<1> QED
  BY <1>1, <1>2, <1>3, <1>4, <1>5, <1>6, <1>7, <1>8, <1>9
  DEF Next, Process, Environment, applyPolicies

LEMMA RouterApplyTyped == Spec => []ApplyTyped
<1>1. Init => ApplyTyped
  BY DEF Init, ApplyTyped
<1>2. Loop!TypeOK /\ ApplyTyped /\ [Next]_vars => ApplyTyped'
  BY ApplyTypedStep
<1> QED BY <1>1, <1>2, LoopInRouter, PTL DEF Spec

-----------------------------------------------------------------------------
(* The router drives ApplyPolicies the way the throttler's model allows:   *)
(* what applyPolicies and a crash do to it are steps of that model, and    *)
(* what it is asked to install is a program.  What is proved of the        *)
(* throttler holds for the router.                                         *)
THEOREM RouterImplementsThrottler == Spec => Throttle!Spec
<1>1. Init => Throttle!Init
  BY DEF Init
<1>2. ApplyTyped /\ [Next]_vars => [Throttle!Next]_(Throttle!vars)
  <2> SUFFICES ASSUME ApplyTyped, [Next]_vars
               PROVE  Throttle!Next \/ UNCHANGED Throttle!vars
    OBVIOUS
  <2>1. CASE callApplyPolicies
    <3>1. Program("loop", rules) \in Programs
      BY DEF ApplyTyped, Programs
    <3> QED BY <2>1, <3>1 DEF callApplyPolicies, Throttle!Next
  <2>2. CASE throttlerStep \/ Crash
    BY <2>2 DEF throttlerStep, Crash, Throttle!Next
  <2>3. ASSUME UNCHANGED throttlerVars PROVE UNCHANGED Throttle!vars
    BY <2>3 DEF throttlerVars, Throttle!vars
  <2>4. CASE check \/ GetAllPolicies \/ applyReturns \/ ClockStepsBack
    BY <2>3, <2>4 DEF check, GetAllPolicies, applyReturns, ClockStepsBack
  <2>5. CASE \E sg \in SrcGlobs : GetIpPolicies(sg) \/ Traffic(sg) \/ Expire(sg)
    BY <2>3, <2>5 DEF GetIpPolicies, Traffic, Expire
  <2>6. CASE \E g \in Groups : GlobAdd(g)
    BY <2>3, <2>6 DEF GlobAdd
  <2>7. CASE \E ip \in Ips, g \in Groups : AddDns(ip, g) \/ DnsAges(ip, g)
    BY <2>3, <2>7 DEF AddDns, DnsAges
  <2>8. CASE UNCHANGED vars
    BY <2>3, <2>8 DEF vars
  <2> QED
    BY <2>1, <2>2, <2>4, <2>5, <2>6, <2>7, <2>8
    DEF Next, Process, Environment, applyPolicies
<1> QED BY <1>1, <1>2, RouterApplyTyped, PTL DEF Spec, Throttle!Spec

LEMMA ThrottlerInRouter ==
  Spec => [](Throttle!TypeOK /\ Throttle!ReturnedEnforces)
<1>0. /\ DefaultProgram \in Programs /\ Program("nobody", <<>>) \notin Programs
      /\ MaxFaults \in Nat /\ MaxFilters \in Nat \ {0}
  BY RouterAssumption DEF Programs, DefaultProgram, Program
<1>1. ThrottleP!Spec => []ThrottleP!TypeOK
  BY <1>0, ThrottleP!ThrottlerTyped
<1>2. ThrottleP!Spec => []ThrottleP!ReturnedEnforces
  BY <1>0, ThrottleP!ReturnedCallEnforces
<1>3. ThrottleP!TypeOK => Throttle!TypeOK
  BY DEF ThrottleP!TypeOK, Throttle!TypeOK, ThrottleP!Stages, Throttle!Stages
<1>4. ThrottleP!ReturnedEnforces => Throttle!ReturnedEnforces
  BY DEF ThrottleP!ReturnedEnforces, Throttle!ReturnedEnforces,
         ThrottleP!Attached, Throttle!Attached
<1> QED BY <1>1, <1>2, <1>3, <1>4, RouterImplementsThrottler, SameThrottler, PTL

(* The router's state stays well formed: the table and the loop's state,   *)
(* the throttler's stage, the rules applyPolicies collects.                *)
THEOREM RouterTyped == Spec => []TypeOK
<1>1. Loop!TypeOK /\ Throttle!TypeOK /\ ApplyTyped => TypeOK
  BY DEF TypeOK, ApplyTyped, Throttle!TypeOK
<1> QED BY <1>1, LoopInRouter, ThrottlerInRouter, RouterApplyTyped, PTL

-----------------------------------------------------------------------------
(* The table and the attached program.                                     *)

Rows(table) == {sg \in SrcGlobs : table[sg] # Loop!NoRow}

(* r has one block for each of the table's pairs in S, in its class.       *)
Translates(r, S, table) ==
  /\ IsFiniteSet(S)
  /\ Len(r) = Cardinality(S)
  /\ {<<b.sg, b.class>> : b \in ToSet(r)} = {<<sg, table[sg].class>> : sg \in S}

(* applyPolicies collects the rows it has visited, and waits for what it   *)
(* collected; the throttler starts with a program that is not the loop's;  *)
(* as long as a check has changed nothing, the loop's last program is the  *)
(* translation of the table.                                               *)
SyncInv ==
  /\ phase = "gather" =>
       /\ pc = "apply" /\ stage = "returned"
       /\ left \subseteq Rows(policy)
       /\ Translates(rules, Rows(policy) \ left, policy)
  /\ phase = "wait" =>
       /\ pc = "apply" /\ stage \notin {"dead", "starting"}
       /\ Translates(rules, Rows(policy), policy)
       /\ want = Program("loop", rules)
  /\ phase # "wait" /\ stage # "returned" => pc = "idle" /\ want.by # "loop"
  /\ pc = "idle" \/ (pc \in {"increase", "decrease"} /\ ~changed) =>
       (want.by = "loop" => Translates(want.rules, Rows(policy), policy))

LEMMA NothingTranslated ==
  ASSUME NEW table
  PROVE  Translates(<<>>, {}, table)
<1>1. IsFiniteSet({}) /\ Cardinality({}) = 0
  BY FS_EmptySet
<1>2. ToSet(<<>>) = {}
  BY DEF ToSet
<1> QED BY <1>1, <1>2 DEF Translates

LEMMA RowTranslated ==
  ASSUME NEW table, NEW S, NEW sg, sg \notin S, NEW r \in Seq(Block), NEW b \in Block,
         b.sg = sg, b.class = table[sg].class, Translates(r, S, table)
  PROVE  Translates(Append(r, b), S \union {sg}, table)
<1>1. IsFiniteSet(S \union {sg}) /\ Cardinality(S \union {sg}) = Cardinality(S) + 1
  BY FS_AddElement DEF Translates
<1>2. Len(Append(r, b)) = Len(r) + 1
  OBVIOUS
<1>3. ToSet(Append(r, b)) = ToSet(r) \union {b}
  <2>1. ASSUME NEW x \in ToSet(Append(r, b)) PROVE x \in ToSet(r) \union {b}
    <3>1. PICK i \in 1 .. (Len(r) + 1) : x = Append(r, b)[i]
      BY <2>1 DEF ToSet
    <3>2. CASE i = Len(r) + 1
      BY <3>1, <3>2
    <3>3. CASE i # Len(r) + 1
      <4>1. i \in DOMAIN r /\ x = r[i]
        BY <3>1, <3>3
      <4> QED BY <4>1 DEF ToSet
    <3> QED BY <3>2, <3>3
  <2>2. ASSUME NEW x \in ToSet(r) PROVE x \in ToSet(Append(r, b))
    <3>1. PICK i \in DOMAIN r : x = r[i]
      BY <2>2 DEF ToSet
    <3>2. i \in DOMAIN Append(r, b) /\ x = Append(r, b)[i]
      BY <3>1
    <3> QED BY <3>2 DEF ToSet
  <2>3. b \in ToSet(Append(r, b))
    <3>1. Len(r) + 1 \in DOMAIN Append(r, b) /\ b = Append(r, b)[Len(r) + 1]
      OBVIOUS
    <3> QED BY <3>1 DEF ToSet
  <2> QED BY <2>1, <2>2, <2>3
<1>4. {<<c.sg, c.class>> : c \in ToSet(r) \union {b}}
        = {<<c.sg, c.class>> : c \in ToSet(r)} \union {<<sg, table[sg].class>>}
  OBVIOUS
<1>5. {<<s, table[s].class>> : s \in S \union {sg}}
        = {<<s, table[s].class>> : s \in S} \union {<<sg, table[sg].class>>}
  OBVIOUS
<1>6. {<<c.sg, c.class>> : c \in ToSet(Append(r, b))}
        = {<<s, table[s].class>> : s \in S \union {sg}}
  BY <1>3, <1>4, <1>5 DEF Translates
<1> QED BY <1>1, <1>2, <1>6 DEF Translates

(* A check that has not set changed has not written to the table.          *)
LEMMA UnchangedTable ==
  ASSUME NEW sg \in SrcGlobs, Loop!TypeOK,
         Loop!increaseThrottling(sg) \/ Loop!decreasingThrottling(sg)
  PROVE  /\ pc \in {"increase", "decrease"} /\ pc' = pc
         /\ ~changed' => ~changed /\ policy' = policy
<1>1. CASE Loop!increaseThrottling(sg)
  <2>1. PICK w \in {0, 1} :
          \/ Loop!UpdatePolicy(sg, 10, w) /\ changed' = (changed \/ w = 0)
          \/ UNCHANGED <<policy, changed>>
          \/ changed' = TRUE
    BY <1>1 DEF Loop!increaseThrottling
  <2>2. ~changed' => ~changed /\ policy' = policy
    <3>1. CASE Loop!UpdatePolicy(sg, 10, w) /\ changed' = (changed \/ w = 0)
      <4>1. w = 1 => policy' = policy
        BY <3>1 DEF Loop!UpdatePolicy
      <4> QED BY <3>1, <4>1
    <3> QED BY <2>1, <3>1
  <2> QED BY <1>1, <2>2 DEF Loop!increaseThrottling
<1>2. CASE Loop!decreasingThrottling(sg)
  BY <1>2 DEF Loop!decreasingThrottling
<1> QED BY <1>1, <1>2

LEMMA CheckKeepsSync ==
  ASSUME Loop!TypeOK, ApplyTyped, SyncInv, check
  PROVE  SyncInv'
<1>1. stage = "returned" /\ UNCHANGED <<stage, want, phase, left, rules>>
  BY DEF check, throttlerVars, applyVars
<1>2. phase = "start"
  <2>1. pc # "apply"
    BY DEF check, Loop!check, Loop!startCheck, Loop!increaseThrottling,
           Loop!decreasingThrottling, Loop!increaseDone, Loop!decreaseDone
  <2> QED BY <2>1 DEF ApplyTyped, SyncInv
<1>3. ASSUME pc' = "idle" \/ (pc' \in {"increase", "decrease"} /\ ~changed')
      PROVE  /\ policy' = policy
             /\ pc = "idle" \/ (pc \in {"increase", "decrease"} /\ ~changed)
  <2>1. ASSUME NEW sg \in SrcGlobs, Loop!increaseThrottling(sg) \/ Loop!decreasingThrottling(sg)
        PROVE  /\ policy' = policy
               /\ pc \in {"increase", "decrease"} /\ ~changed
    BY <1>3, <2>1, UnchangedTable
  <2>2. CASE Loop!startCheck
    BY <2>2 DEF Loop!startCheck
  <2>3. CASE Loop!increaseDone
    BY <1>3, <2>3 DEF Loop!increaseDone
  <2>4. CASE Loop!decreaseDone
    BY <1>3, <2>4 DEF Loop!decreaseDone
  <2> QED BY <2>1, <2>2, <2>3, <2>4 DEF check, Loop!check
<1> QED BY <1>1, <1>2, <1>3 DEF SyncInv

LEMMA ApplyKeepsSync ==
  ASSUME Loop!TypeOK, ApplyTyped, SyncInv, applyPolicies
  PROVE  SyncInv'
<1>1. CASE GetAllPolicies
  <2>1. /\ pc = "apply" /\ phase = "start" /\ phase' = "gather" /\ rules' = <<>>
        /\ left' = Rows(policy) /\ UNCHANGED <<pc, policy, stage, want, changed>>
    BY <1>1 DEF GetAllPolicies, Rows, loopVars, throttlerVars
  <2>2. stage = "returned"
    BY <2>1 DEF SyncInv
  <2>3. Rows(policy) \ left' = {}
    BY <2>1
  <2>4. Translates(rules', Rows(policy') \ left', policy')
    BY <2>1, <2>3, NothingTranslated
  <2> QED BY <2>1, <2>2, <2>4 DEF SyncInv
<1>2. ASSUME NEW sg \in SrcGlobs, GetIpPolicies(sg) PROVE SyncInv'
  <2> DEFINE b == [sg |-> sg, class |-> policy[sg].class, ips |-> GetIPsMatchingGlob(sg[2])]
  <2>1. /\ phase = "gather" /\ phase' = "gather" /\ sg \in left /\ left' = left \ {sg}
        /\ rules' = Append(rules, b) /\ UNCHANGED <<pc, policy, stage, want, changed>>
    BY <1>2 DEF GetIpPolicies, loopVars, throttlerVars
  <2>2. b \in Block /\ b.sg = sg /\ b.class = policy[sg].class
    BY BlockTyped
  <2> HIDE DEF b
  <2>3. /\ pc = "apply" /\ stage = "returned" /\ left \subseteq Rows(policy)
        /\ Translates(rules, Rows(policy) \ left, policy) /\ rules \in Seq(Block)
    BY <2>1 DEF SyncInv, ApplyTyped
  <2>4. /\ sg \notin Rows(policy) \ left
        /\ Rows(policy) \ left' = (Rows(policy) \ left) \union {sg}
    BY <2>1, <2>3
  <2>5. Translates(rules', Rows(policy') \ left', policy')
    <3>1. Translates(Append(rules, b), (Rows(policy) \ left) \union {sg}, policy)
      BY <2>2, <2>3, <2>4, RowTranslated
    <3> QED BY <2>1, <2>4, <3>1
  <2> QED BY <2>1, <2>3, <2>5 DEF SyncInv
<1>3. CASE callApplyPolicies
  <2>1. /\ phase = "gather" /\ phase' = "wait" /\ left = {} /\ stage' = "rebuild"
        /\ want' = Program("loop", rules) /\ UNCHANGED <<pc, policy, changed, rules>>
    BY <1>3 DEF callApplyPolicies, Throttle!ApplyPolicies, Throttle!createTemp, loopVars
  <2>2. pc = "apply" /\ Translates(rules, Rows(policy) \ left, policy)
    BY <2>1 DEF SyncInv
  <2>3. Rows(policy) \ left = Rows(policy)
    BY <2>1
  <2> QED BY <2>1, <2>2, <2>3 DEF SyncInv
<1>4. CASE applyReturns
  <2>1. /\ phase = "wait" /\ phase' = "start" /\ stage = "returned" /\ pc' = "idle"
        /\ UNCHANGED <<policy, stage, want, changed>>
    BY <1>4 DEF applyReturns, Loop!applyPolicies, throttlerVars
  <2>2. Translates(rules, Rows(policy), policy) /\ want.rules = rules
    BY <2>1 DEF SyncInv, Program
  <2> QED BY <2>1, <2>2 DEF SyncInv
<1> QED BY <1>1, <1>2, <1>3, <1>4 DEF applyPolicies

LEMMA ThrottlerKeepsSync ==
  ASSUME SyncInv, throttlerStep
  PROVE  SyncInv'
<1>1. UNCHANGED <<pc, policy, changed, phase, left, rules>>
  BY DEF throttlerStep, loopVars, applyVars
<1>2. CASE Throttle!applyDefault
  <2>1. stage = "starting" /\ stage' = "rebuild" /\ want' = DefaultProgram
    BY <1>2 DEF Throttle!applyDefault, Throttle!createTemp
  <2>2. want'.by # "loop"
    BY <2>1 DEF DefaultProgram, Program
  <2> QED BY <1>1, <2>1, <2>2 DEF SyncInv
<1>3. CASE Throttle!Initialize
  <2>1. stage = "dead" /\ stage' = "starting" /\ want' = want
    BY <1>3 DEF Throttle!Initialize
  <2> QED BY <1>1, <2>1 DEF SyncInv
<1>4. CASE Throttle!rebuildBpf \/ Throttle!reattachThrottler \/ Throttle!removeTempFiles
  <2>1. /\ stage \in {"rebuild", "cleanup", "load", "attach", "remove"} /\ want' = want
        /\ stage' \in {"cleanup", "load", "attach", "remove", "returned"}
    BY <1>4 DEF Throttle!rebuildBpf, Throttle!reattachThrottler, Throttle!cleanupThrottler,
                Throttle!closeObjects, Throttle!loadObjects, Throttle!attachFilter,
                Throttle!removeTempFiles
  <2> QED BY <1>1, <2>1 DEF SyncInv
<1> QED BY <1>2, <1>3, <1>4 DEF throttlerStep, Throttle!Step

LEMMA SyncHolds == Spec => []SyncInv
<1>1. Init => SyncInv
  BY DEF Init, Loop!Init, Throttle!Init, SyncInv, Program
<1>2. Loop!TypeOK /\ ApplyTyped /\ SyncInv /\ [Next]_vars => SyncInv'
  <2> SUFFICES ASSUME Loop!TypeOK, ApplyTyped, SyncInv, [Next]_vars PROVE SyncInv'
    OBVIOUS
  <2>1. CASE check
    BY <2>1, CheckKeepsSync
  <2>2. CASE applyPolicies
    BY <2>2, ApplyKeepsSync
  <2>3. CASE throttlerStep
    BY <2>3, ThrottlerKeepsSync
  <2>4. ASSUME UNCHANGED <<pc, policy, changed, phase, left, rules, stage, want>>
        PROVE  SyncInv'
    BY <2>4 DEF SyncInv
  <2>5. CASE \E g \in Groups : GlobAdd(g)
    BY <2>4, <2>5 DEF GlobAdd, loopVars, throttlerVars, applyVars
  <2>6. CASE \E ip \in Ips, g \in Groups : AddDns(ip, g) \/ DnsAges(ip, g)
    BY <2>4, <2>6 DEF AddDns, DnsAges, loopVars, throttlerVars, applyVars
  <2>7. CASE \E sg \in SrcGlobs : Traffic(sg) \/ Expire(sg)
    BY <2>4, <2>7 DEF Traffic, Expire, Loop!Traffic, Loop!Expire, throttlerVars, applyVars
  <2>8. CASE ClockStepsBack
    BY <2>4, <2>8 DEF ClockStepsBack, Loop!ClockStepsBack, throttlerVars, applyVars
  <2>9. CASE Crash
    <3>1. /\ phase' = "start" /\ pc' = "idle" /\ stage' = "dead"
          /\ want' = Program("nobody", <<>>)
      BY <2>9 DEF Crash, Loop!Restart, Throttle!Die
    <3>2. want'.by # "loop"
      BY <3>1 DEF Program
    <3> QED BY <3>1, <3>2 DEF SyncInv
  <2>10. CASE UNCHANGED vars
    BY <2>4, <2>10 DEF vars, loopVars, throttlerVars, applyVars
  <2> QED
    BY <2>1, <2>2, <2>3, <2>5, <2>6, <2>7, <2>8, <2>9, <2>10
    DEF Next, Process, Environment
<1> QED BY <1>1, <1>2, LoopInRouter, RouterApplyTyped, PTL DEF Spec

(* Between two checks the attached throttler is the translation of the     *)
(* policy table, one block a row and in the row's class, once the loop has *)
(* applied anything: whatever failed on the way, whenever the process      *)
(* died, however many old filters linger.                                  *)
THEOREM TableIsAttached == Spec => []InSync
<1>1. SyncInv /\ Throttle!ReturnedEnforces => InSync
  <2> SUFFICES ASSUME SyncInv, Throttle!ReturnedEnforces,
                      pc = "idle", stage = "returned", Attached.by = "loop"
               PROVE  /\ Len(Attached.rules) = Cardinality(Rows(policy))
                      /\ {<<b.sg, b.class>> : b \in ToSet(Attached.rules)}
                           = {<<sg, policy[sg].class>> : sg \in Rows(policy)}
    BY DEF InSync, Rows
  <2>1. Attached = want
    BY DEF Throttle!ReturnedEnforces, Attached
  <2>2. Translates(want.rules, Rows(policy), policy)
    BY <2>1 DEF SyncInv
  <2> QED BY <2>1, <2>2 DEF Translates
<1> QED BY <1>1, SyncHolds, ThrottlerInRouter, PTL
=============================================================================
