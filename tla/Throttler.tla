------------------------------ MODULE Throttler ------------------------------
(***************************************************************************)
(* The life of the throttler program: handlers/bpf.go, from ApplyPolicies  *)
(* down to the tc filter it leaves on the LAN interface.                   *)
(*                                                                         *)
(* ApplyPolicies renders the rules it is given into C, compiles the file   *)
(* with clang, deletes every filter called "throttle" from the HTB root,   *)
(* loads the new object and attaches it.  Packets are classified by the    *)
(* kernel all the while, so every intermediate state is visible to them.   *)
(* The filters and the temporary files outlive the process; its open       *)
(* handles do not.                                                         *)
(***************************************************************************)
EXTENDS Integers, SequencesExt

CONSTANTS
  Programs,     \* what ApplyPolicies may be asked to install
  Default,      \* the program Initialize installs on startup
  NoProgram,    \* no program
  MaxFilters,   \* bound: filters left behind by failed deletions
  MaxFailures   \* bound: deaths, and calls with a file left

ASSUME ThrottlerAssumption ==
  /\ Default \in Programs
  /\ NoProgram \notin Programs
  /\ MaxFilters \in Nat \ {0}
  /\ MaxFailures \in Nat

VARIABLES
  stage,    \* where ApplyPolicies is; "returned" outside it
  want,     \* the rules it was called with
  objFile,  \* what the compiled object file holds
  objs,     \* BpfCtx.ThrottleObjs: the program whose handles are open
  filters,  \* kernel: the "throttle" filters under 1:0, first to run first
  at,       \* cleanupThrottler's place in the list of filters
  tmpFiles, \* throttle-* files in the temporary directory
  failures  \* deaths so far, and calls that left a file behind

vars == <<stage, want, objFile, objs, filters, at, tmpFiles, failures>>

-----------------------------------------------------------------------------
(* The kernel's side (external).  A filter added without a priority gets   *)
(* one that puts it before all that exist; the first one's program runs    *)
(* first, and as a direct-action program it returns TC_ACT_OK, which ends  *)
(* the walk.  So filters is the list in the order of the walk.             *)

AddedBehind(p) == filters' = Append(filters, p)
FilterAdd(p) == filters' = <<p>> \o filters

FilterDelete(i) == filters' = RemoveAt(filters, i)

(* The program that classifies a packet leaving on the LAN side now.       *)
Attached == IF filters = <<>> THEN NoProgram ELSE Head(filters)

-----------------------------------------------------------------------------
Init ==
  /\ stage = "dead"
  /\ want = NoProgram
  /\ objFile = NoProgram
  /\ objs = NoProgram
  /\ filters = <<>>
  /\ at = 1
  /\ tmpFiles = 0
  /\ failures = 0

(* The call's beginning: CreateTemp, twice.                                *)
createTemp(rules) ==
  /\ stage' = "rebuild"
  /\ want' = rules
  /\ tmpFiles' = tmpFiles + 2
  /\ UNCHANGED <<objFile, objs, filters, at, failures>>

(* applyPolicies of package policy calls it.                               *)
ApplyPolicies(rules) ==
  /\ stage = "returned"
  /\ createTemp(rules)

(* Render the template and run clang.                                      *)
rebuildBpf ==
  /\ stage = "rebuild"
  /\ stage' = "cleanup"
  /\ objFile' = want
  /\ UNCHANGED <<want, objs, filters, at, tmpFiles, failures>>

(* List the filters and delete them one by one.  The result of Delete is  *)
(* not looked at, so any of them may stay.                                 *)
cleanupThrottler ==
  /\ stage = "cleanup"
  /\ at <= Len(filters)
  /\ \/ FilterDelete(at) /\ UNCHANGED at
     \/ at < MaxFilters /\ at' = at + 1 /\ UNCHANGED filters
  /\ UNCHANGED <<stage, want, objFile, objs, tmpFiles, failures>>

(* After the loop: close the handles of the old program.                   *)
closeObjects ==
  /\ stage = "cleanup"
  /\ at > Len(filters)
  /\ stage' = "load"
  /\ at' = 1
  /\ objs' = NoProgram
  /\ UNCHANGED <<want, objFile, filters, tmpFiles, failures>>

loadThenClose ==
  /\ stage = "load"
  /\ stage' = "attach"
  /\ objs' = NoProgram
  /\ UNCHANGED <<want, objFile, filters, at, tmpFiles, failures>>

(* LoadCollectionSpec and LoadAndAssign.                                   *)
loadObjects ==
  /\ stage = "load"
  /\ stage' = "attach"
  /\ objs' = objFile
  /\ UNCHANGED <<want, objFile, filters, at, tmpFiles, failures>>

(* A variant that logs a failure of Filter().Add and carries on.           *)
attachTolerant ==
  /\ stage = "attach"
  /\ stage' = "remove"
  /\ FilterAdd(objs) \/ UNCHANGED filters
  /\ UNCHANGED <<want, objFile, objs, at, tmpFiles, failures>>

attachFilter ==
  /\ stage = "attach"
  /\ stage' = "remove"
  /\ FilterAdd(objs)
  /\ UNCHANGED <<want, objFile, objs, at, tmpFiles, failures>>

removeOne == tmpFiles' = tmpFiles - 1 /\ UNCHANGED failures

(* Twice os.Remove.  The results are not looked at: either file may stay.  *)
removeBoth ==
  \/ tmpFiles' = tmpFiles - 2 /\ UNCHANGED failures
  \/ /\ failures < MaxFailures
     /\ failures' = failures + 1
     /\ \E left \in {1, 2} : tmpFiles' = tmpFiles - 2 + left

(* Both files are removed, and ApplyPolicies returns.                      *)
removeTempFiles ==
  /\ stage = "remove"
  /\ stage' = "returned"
  /\ removeBoth
  /\ UNCHANGED <<want, objFile, objs, filters, at>>

(* Any of the calls above may end in log.Fatal, and the process may be     *)
(* killed: its handles close, what it gave to the kernel stays.            *)
Die ==
  /\ stage # "dead"
  /\ failures < MaxFailures
  /\ failures' = failures + 1
  /\ stage' = "dead"
  /\ want' = NoProgram
  /\ objFile' = NoProgram
  /\ objs' = NoProgram
  /\ at' = 1
  /\ UNCHANGED <<filters, tmpFiles>>

(* systemd starts the process.  Initialize first lets createQdiscs replace *)
(* the root qdisc, which takes its filters along (module Qdisc) ...        *)
Initialize ==
  /\ stage = "dead"
  /\ stage' = "starting"
  /\ filters' = <<>>
  /\ UNCHANGED <<want, objFile, objs, at, tmpFiles, failures>>

(* ... and, the static programs being attached, calls ApplyPolicies with   *)
(* the default target.                                                     *)
applyDefault ==
  /\ stage = "starting"
  /\ createTemp(Default)

(* Clean up, load, attach.                                                 *)
reattachThrottler ==
  cleanupThrottler \/ closeObjects \/ loadObjects \/ attachFilter

Step == applyDefault \/ rebuildBpf \/ reattachThrottler \/ removeTempFiles

Next ==
  \/ \E rules \in Programs : ApplyPolicies(rules)
  \/ Step
  \/ Initialize
  \/ Die

Spec == Init /\ [][Next]_vars

(* Once called, ApplyPolicies runs on; a dead process is started again     *)
(* (Restart=on-failure).  Nobody has to call ApplyPolicies.                *)
FairSpec == Spec /\ WF_vars(Step \/ Initialize)

-----------------------------------------------------------------------------
Stages ==
  {"dead", "starting", "rebuild", "cleanup", "load", "attach", "remove",
   "returned"}

TypeOK ==
  /\ stage \in Stages
  /\ want \in Programs \union {NoProgram}
  /\ objFile \in Programs \union {NoProgram}
  /\ objs \in Programs \union {NoProgram}
  /\ filters \in Seq(Programs)
  /\ at \in 1 .. MaxFilters
  /\ tmpFiles \in Nat
  /\ failures \in 0 .. MaxFailures

(* When ApplyPolicies has returned, packets are classified by the program  *)
(* it was asked for, and that is the one whose handles the process holds,  *)
(* even if deletions of earlier filters failed in this call or before it.  *)
ReturnedEnforces ==
  stage = "returned" => Attached = want /\ objs = want

(* Outside ApplyPolicies no temporary file is around but those of calls    *)
(* the process died in or could not remove them in.                        *)
TempFilesRemoved ==
  stage = "returned" => tmpFiles <= 2 * failures

(* The gap between deleting the old filter and attaching the new one, and  *)
(* the one startup makes, are closed again.                                *)
GapCloses == (filters = <<>>) ~> (filters # <<>>)
=============================================================================
