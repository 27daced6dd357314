---------------------------- MODULE SimpleLoadAvg ----------------------------
(***************************************************************************)
(* The SimpleLoadAverage policy loop, policy/simpleloadavg.go, together    *)
(* with the policy table it reads and writes, database/database.go.        *)
(*                                                                         *)
(* One goroutine runs pollPolicyCheck.  Every PolicyCheckInterval it asks  *)
(* Prometheus which (source ip, glob group) pairs are active, moves their  *)
(* rows of the policy table up by one class (increaseThrottling), and, if  *)
(* that changed nothing, asks which pairs are idle and moves those down    *)
(* (decreasingThrottling).  If anything changed it rebuilds the throttler  *)
(* from the table (applyPolicies; module Nethadone models that call in     *)
(* detail).  Each match of a loop is a step of its own, so that traffic,   *)
(* the clock and a crash can come between any two of them.                 *)
(***************************************************************************)
EXTENDS Integers

CONSTANTS
  SrcGlobs,               \* (source ip, glob group) pairs that may be seen
  NumQdiscClasses,        \* config: netem classes below the open one
  PolicyCheckInterval,    \* config: minutes between two checks
  PolicyBackoffInterval,  \* config: minutes a row is to be left alone
  ActivityThresholdBytes, \* config: k, the rate of bytes that counts as use
  ReadErrors,             \* may SELECTs on the policy table fail?
  MaxFaults,              \* bound: failed calls, clock steps, crashes
  MaxTime                 \* bound: the clock stops advancing here

ASSUME ConfigAssumption ==
  /\ NumQdiscClasses \in Nat
  /\ PolicyCheckInterval \in Nat \ {0}
  /\ PolicyBackoffInterval \in Nat
  /\ ActivityThresholdBytes \in Nat
  /\ ReadErrors \in BOOLEAN
  /\ MaxFaults \in Nat
  /\ MaxTime \in Nat

VARIABLES
  policy,   \* the policy table: policy[sg] is sg's row, or NoRow
  usage,    \* what Prometheus knows of each pair
  series,   \* pairs the running process exports a counter for
  now,      \* wall clock, in minutes
  pc,       \* where pollPolicyCheck is
  todo,     \* matches the current loop still has to visit
  changed,  \* pollPolicyCheck's flag of the same name
  faults    \* faults so far

vars == <<policy, usage, series, now, pc, todo, changed, faults>>

(* GetPolicy's nil.  No row ever has class 0: a row is created with class  *)
(* 10 and deleted rather than lowered from class 10.                       *)
NoRow == [class |-> 0, tstamp |-> 0]

(* The slowest class: config.Cfg.NumQdiscClasses netem leaves follow the   *)
(* open one, and the table counts them in tens.                            *)
TopClass == (NumQdiscClasses + 1) * 10

(***************************************************************************)
(* A pair's usage is the answer to the queries of GetSrcGlobUsage taken    *)
(* together, as far as the policy tells answers apart:                     *)
(*   active  the 2m rate now, the 2m rate 5m ago and the 5m rate are > k   *)
(*   idle    the 5m rate is < k; for k = 0, it is 0                        *)
(*   mixed   neither                                                       *)
(*   absent  Prometheus has no samples of the pair in its window           *)
(***************************************************************************)
Usage == {"absent", "idle", "mixed", "active"}

(* The intersection of the three queries' answers.                         *)
getActiveGlobGroups == {sg \in SrcGlobs : usage[sg] = "active"}

(* createSrcGlobSet(GetSrcGlobUsage(5, 0, k, false)).  The comparison is   *)
(* strict, and no rate is below 0.                                         *)
idleGlobGroups ==
  {sg \in SrcGlobs : usage[sg] = "idle" /\ ActivityThresholdBytes > 0}

Init ==
  /\ policy = [sg \in SrcGlobs |-> NoRow]
  /\ usage = [sg \in SrcGlobs |-> "absent"]
  /\ series = {}
  /\ now = 0
  /\ pc = "idle"
  /\ todo = {}
  /\ changed = FALSE
  /\ faults = 0

(* e of the calls a step makes return an error.                            *)
Errs(e) ==
  /\ faults + e <= MaxFaults
  /\ faults' = faults + e

-----------------------------------------------------------------------------
(* The policy table.                                                       *)

(* The row GetPolicy hands back: nil also when the SELECT fails.           *)
GetPolicy(sg, e) == IF e = 1 THEN NoRow ELSE policy[sg]

UpdatePolicy(sg, class, e) ==
  policy' = IF e = 1 THEN policy
            ELSE [policy EXCEPT ![sg] = [class |-> class, tstamp |-> now]]

DeletePolicy(sg, e) ==
  policy' = IF e = 1 THEN policy ELSE [policy EXCEPT ![sg] = NoRow]

-----------------------------------------------------------------------------
(* Conditions of the two loops.                                            *)

(* p.Tstamp.After(time.Now().Add(PolicyBackoffInterval))                   *)
TooSoonSwapped(p) == p.tstamp <= now + PolicyBackoffInterval
TooSoon(p) == p.tstamp > now + PolicyBackoffInterval

AtMaximumOffByOne(p) == p.class > (NumQdiscClasses + 1) * 10
AtMaximum(p) == p.class > NumQdiscClasses * 10

AtMinimumOffByOne(p) == p.class <= 20
AtMinimumBelowZero(p) == p.class < 0
AtMinimum(p) == p.class <= 10

(* One match of increaseThrottling's loop.                                 *)
increaseThrottling(sg) ==
  /\ pc = "increase"
  /\ sg \in todo
  /\ todo' = todo \ {sg}
  /\ \E r, w \in {0, 1} :
       LET p == GetPolicy(sg, r) IN
       /\ r = 1 => ReadErrors
       /\ Errs(r + w)
       /\ \/ /\ p = NoRow
             /\ UpdatePolicy(sg, 10, w)
             /\ changed' = (changed \/ w = 0)
          \/ /\ p # NoRow /\ (TooSoon(p) \/ AtMaximum(p))
             /\ w = 0
             /\ UNCHANGED <<policy, changed>>
          \/ /\ p # NoRow /\ ~TooSoon(p) /\ ~AtMaximum(p)
             /\ UpdatePolicy(sg, p.class + 10, w)
             /\ changed' = TRUE
  /\ UNCHANGED <<usage, series, now, pc>>

(* One match of decreasingThrottling's loop.                               *)
decreasingThrottling(sg) ==
  /\ pc = "decrease"
  /\ sg \in todo
  /\ todo' = todo \ {sg}
  /\ \E r, w \in {0, 1} :
       LET p == GetPolicy(sg, r) IN
       /\ r = 1 => ReadErrors
       /\ Errs(r + w)
       /\ \/ /\ p = NoRow \/ TooSoon(p)
             /\ w = 0
             /\ UNCHANGED <<policy, changed>>
          \/ /\ p # NoRow /\ ~TooSoon(p) /\ AtMinimum(p)
             /\ DeletePolicy(sg, w)
             /\ changed' = TRUE
          \/ /\ p # NoRow /\ ~TooSoon(p) /\ ~AtMinimum(p)
             /\ UpdatePolicy(sg, p.class - 10, w)
             /\ changed' = TRUE
  /\ UNCHANGED <<usage, series, now, pc>>

-----------------------------------------------------------------------------
(* pollPolicyCheck around the two loops.                                   *)

(* changed := false, at the top of increaseThrottling.                     *)
changedKept == changed
changedAtStart == FALSE

(* The ticker fires: ask for the active pairs.  A failed query gives an    *)
(* empty vector, and then so does the intersection.                        *)
startCheck ==
  /\ pc = "idle"
  /\ now' = IF now + PolicyCheckInterval > MaxTime
            THEN MaxTime ELSE now + PolicyCheckInterval
  /\ pc' = "increase"
  /\ \E e \in {0, 1} :
       /\ Errs(e)
       /\ todo' = IF e = 1 THEN {} ELSE getActiveGlobGroups
  /\ changed' = changedAtStart
  /\ UNCHANGED <<policy, usage, series>>

(* changed = changed || decreasingThrottling(): the second operand is only *)
(* evaluated, and its query only sent, if the first is false.              *)
increaseDone ==
  /\ pc = "increase" /\ todo = {}
  /\ \/ /\ changed
        /\ pc' = "apply"
        /\ UNCHANGED <<todo, faults>>
     \/ /\ ~changed
        /\ pc' = "decrease"
        /\ \E e \in {0, 1} :
             /\ Errs(e)
             /\ todo' = IF e = 1 THEN {} ELSE idleGlobGroups
  /\ UNCHANGED <<policy, usage, series, now, changed>>

decreaseDoneForgets ==
  /\ pc = "decrease" /\ todo = {}
  /\ pc' = "idle"
  /\ UNCHANGED <<policy, usage, series, now, todo, changed, faults>>

decreaseDone ==
  /\ pc = "decrease" /\ todo = {}
  /\ pc' = IF changed THEN "apply" ELSE "idle"
  /\ UNCHANGED <<policy, usage, series, now, todo, changed, faults>>

(* applyPolicies() returns; it writes nothing this module knows of.        *)
applyPolicies ==
  /\ pc = "apply"
  /\ pc' = "idle"
  /\ UNCHANGED <<policy, usage, series, now, todo, changed, faults>>

(* All of a check but the call of applyPolicies.                           *)
check ==
  \/ startCheck
  \/ \E sg \in SrcGlobs : increaseThrottling(sg) \/ decreasingThrottling(sg)
  \/ increaseDone
  \/ decreaseDone

pollPolicyCheck == check \/ applyPolicies

-----------------------------------------------------------------------------
(* The surroundings.                                                       *)

(* The client's traffic to the group changes what the queries see; the     *)
(* metrics collector exports a counter for the pair from then on.          *)
Traffic(sg) ==
  /\ \E u \in Usage \ {"absent"} : usage' = [usage EXCEPT ![sg] = u]
  /\ series' = series \union {sg}
  /\ UNCHANGED <<policy, now, pc, todo, changed, faults>>

(* The last samples of a counter no process exports leave the window.      *)
Expire(sg) ==
  /\ sg \notin series
  /\ usage[sg] # "absent"
  /\ usage' = [usage EXCEPT ![sg] = "absent"]
  /\ UNCHANGED <<policy, series, now, pc, todo, changed, faults>>

(* The wall clock is set back, as on a board without a battery-backed one. *)
ClockStepsBack ==
  /\ faults < MaxFaults
  /\ faults' = faults + 1
  /\ \E t \in 0 .. (now - 1) : now' = t
  /\ UNCHANGED <<policy, usage, series, pc, todo, changed>>

(* The process dies (log.Fatal, a panic, RuntimeMaxSec) and systemd starts *)
(* it again: the tables persist, the counters and the loop start afresh.   *)
Restart ==
  /\ faults < MaxFaults
  /\ faults' = faults + 1
  /\ series' = {}
  /\ pc' = "idle"
  /\ todo' = {}
  /\ changed' = FALSE
  /\ UNCHANGED <<policy, usage, now>>

Next ==
  \/ pollPolicyCheck
  \/ \E sg \in SrcGlobs : Traffic(sg) \/ Expire(sg)
  \/ ClockStepsBack
  \/ Restart

(* The goroutine never blocks for good: each of its calls returns or kills *)
(* the process.  Prometheus' window slides whether or not anyone looks.    *)
(* Nothing is assumed of clients, faults or restarts.                      *)
Fairness ==
  /\ WF_vars(pollPolicyCheck)
  /\ \A sg \in SrcGlobs : WF_vars(Expire(sg))

Spec == Init /\ [][Next]_vars

FairSpec == Spec /\ Fairness

-----------------------------------------------------------------------------
(* Properties.                                                             *)

TypeOK ==
  /\ policy \in [SrcGlobs -> [class : Nat, tstamp : Nat]]
  /\ usage \in [SrcGlobs -> Usage]
  /\ series \in SUBSET SrcGlobs
  /\ now \in Nat
  /\ pc \in {"idle", "increase", "decrease", "apply"}
  /\ todo \in SUBSET SrcGlobs
  /\ changed \in BOOLEAN
  /\ faults \in 0 .. MaxFaults

(* Every row of the policy table names one of the NumQdiscClasses + 1      *)
(* leaves createLeafQdiscs makes, whatever fails and whenever the process  *)
(* dies: the guard of increaseThrottling, which compares with              *)
(* NumQdiscClasses * 10, lets a row reach the last leaf and no further,    *)
(* and decreasingThrottling deletes a row rather than lower it to class 0. *)
ClassHasLeaf ==
  \A sg \in SrcGlobs :
    \/ policy[sg] = NoRow
    \/ \E i \in 1 .. (NumQdiscClasses + 1) : policy[sg].class = 10 * i

(* The abstract policy's state: a row's class counts rungs in tens, and a  *)
(* match still to be visited is a verdict.                                 *)
rungs == [sg \in SrcGlobs |-> policy[sg].class \div 10]
verdicts ==
  [sg \in SrcGlobs |-> IF sg \notin todo THEN "stay"
                       ELSE IF pc = "increase" THEN "up" ELSE "down"]

Ladder == INSTANCE ThrottleLadder WITH
  TopRung <- NumQdiscClasses + 1, Forgetful <- ReadErrors,
  rung <- rungs, verdict <- verdicts

(* Every behaviour of the loop is one of the abstract policy: a check's    *)
(* matches all move the same way, each by one class and at most once, and  *)
(* nothing else moves a row, even across crashes, failed writes and failed *)
(* queries.  A failed SELECT costs at most this: a match to be raised      *)
(* starts over in the first class.                                         *)
LadderRefined == Ladder!Spec

(* A pair that stays idle loses its row for good: the short-circuit in     *)
(* pollPolicyCheck that skips decreasingThrottling whenever another pair   *)
(* was raised only delays it, because raising stops at the top class.  The *)
(* threshold must not be 0: then no rate is below it.                      *)
IdleReleased ==
  \A sg \in SrcGlobs :
    ActivityThresholdBytes > 0 /\ <>[](usage[sg] = "idle") => <>[](policy[sg] = NoRow)

(* A pair that stays active ends up, and stays, in the slowest class.      *)
ActiveReachesTop ==
  \A sg \in SrcGlobs :
    <>[](usage[sg] = "active") => <>[](policy[sg].class = TopClass)

-----------------------------------------------------------------------------
(* Statements of the repository's documents that the code contradicts.     *)

(* config.go calls PolicyBackoffInterval "How long before we'll consider a *)
(* change to policy": a row is left alone for that long after a change.    *)
BackoffRespected ==
  [][\A sg \in SrcGlobs :
       policy[sg] # NoRow /\ policy'[sg] # policy[sg]
         => now >= policy[sg].tstamp + PolicyBackoffInterval]_vars

(* policy/README.md, Decreasing throttling: traffic below the threshold    *)
(* brings the class down, so a client that stays away is released.         *)
QuietReleased ==
  \A sg \in SrcGlobs :
    <>[](usage[sg] \in {"idle", "absent"}) => <>[](policy[sg] = NoRow)
=============================================================================
