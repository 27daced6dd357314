--------------------------- MODULE ThrottlerProofs ---------------------------
(***************************************************************************)
(* Proofs about the throttler's life cycle, for any set of programs, any   *)
(* number of failures and any number of filters left behind.               *)
(***************************************************************************)
EXTENDS Throttler, TLAPS

(* FilterDelete leaves a list of programs.                                 *)
LEMMA DeleteTyped ==
  ASSUME filters \in Seq(Programs), NEW i \in 1 .. Len(filters), FilterDelete(i)
  PROVE  filters' \in Seq(Programs)
<1>1. /\ SubSeq(filters, 1, i - 1) \in Seq(Programs)
      /\ SubSeq(filters, i + 1, Len(filters)) \in Seq(Programs)
  OBVIOUS
<1> QED BY <1>1 DEF FilterDelete, RemoveAt

(* FilterAdd puts the program where the kernel looks first.                *)
LEMMA AddedFirst ==
  ASSUME filters \in Seq(Programs), NEW p \in Programs, FilterAdd(p)
  PROVE  /\ filters' \in Seq(Programs)
         /\ filters' # <<>>
         /\ Head(filters') = p
BY DEF FilterAdd

(* The inductive strengthening: what each stage may rely on.               *)
ApplyInv ==
  /\ stage \in {"cleanup", "load"} => objFile = want
  /\ stage \in {"rebuild", "cleanup", "load", "attach", "remove", "returned"}
       => want \in Programs
  /\ stage \in {"attach", "remove", "returned"} => objs = want
  /\ stage \in {"remove", "returned"} => filters # <<>> /\ Head(filters) = want

(* The files of the running call, besides those of calls that failed.      *)
Files ==
  IF stage \in {"dead", "starting", "returned"} THEN tmpFiles <= 2 * failures
  ELSE 2 <= tmpFiles /\ tmpFiles <= 2 * failures + 2

LEMMA ThrottlerInv == Spec => [](TypeOK /\ ApplyInv /\ Files)
<1> DEFINE Inv == TypeOK /\ ApplyInv /\ Files
<1>1. Init => Inv
  BY ThrottlerAssumption DEF Init, TypeOK, ApplyInv, Files, Stages
<1>2. Inv /\ [Next]_vars => Inv'
  <2> SUFFICES ASSUME TypeOK, ApplyInv, Files, [Next]_vars PROVE Inv'
    OBVIOUS
  <2> USE ThrottlerAssumption DEF Stages
  <2>1. ASSUME NEW p \in Programs, ApplyPolicies(p) PROVE Inv'
    BY <2>1 DEF ApplyPolicies, createTemp, TypeOK, ApplyInv, Files
  <2>2. CASE rebuildBpf
    BY <2>2 DEF rebuildBpf, TypeOK, ApplyInv, Files
  <2>3. CASE cleanupThrottler
    <3>1. filters' \in Seq(Programs)
      BY <2>3, DeleteTyped DEF cleanupThrottler, TypeOK
    <3>2. at' \in 1 .. MaxFilters
      BY <2>3 DEF cleanupThrottler, TypeOK
    <3> QED BY <2>3, <3>1, <3>2 DEF cleanupThrottler, TypeOK, ApplyInv, Files
  <2>4. CASE closeObjects
    BY <2>4 DEF closeObjects, TypeOK, ApplyInv, Files
  <2>5. CASE loadObjects
    BY <2>5 DEF loadObjects, TypeOK, ApplyInv, Files
  <2>6. CASE attachFilter
    <3>1. objs = want /\ objs \in Programs
      BY <2>6 DEF attachFilter, ApplyInv
    <3>2. filters' \in Seq(Programs) /\ filters' # <<>> /\ Head(filters') = want
      BY <2>6, <3>1, AddedFirst DEF attachFilter, TypeOK
    <3> QED BY <2>6, <3>1, <3>2 DEF attachFilter, TypeOK, ApplyInv, Files
  <2>7. CASE removeTempFiles
    BY <2>7 DEF removeTempFiles, removeBoth, TypeOK, ApplyInv, Files
  <2>8. CASE applyDefault
    BY <2>8 DEF applyDefault, createTemp, TypeOK, ApplyInv, Files
  <2>9. CASE Initialize
    BY <2>9 DEF Initialize, TypeOK, ApplyInv, Files
  <2>10. CASE Die
    BY <2>10 DEF Die, TypeOK, ApplyInv, Files
  <2>11. CASE UNCHANGED vars
    BY <2>11 DEF vars, TypeOK, ApplyInv, Files
  <2> QED
    BY <2>1, <2>2, <2>3, <2>4, <2>5, <2>6, <2>7, <2>8, <2>9, <2>10, <2>11
    DEF Next, Step, reattachThrottler
<1> QED BY <1>1, <1>2, PTL DEF Spec

(* ApplyPolicies keeps its state well formed, and the kernel's list holds  *)
(* throttler programs only, whichever deletions fail.                      *)
THEOREM ThrottlerTyped == Spec => []TypeOK
BY ThrottlerInv, PTL

(* When ApplyPolicies has returned, packets are classified by the program  *)
(* it was called with, however many filters of earlier calls could not be  *)
(* deleted and whenever the process died before.                           *)
THEOREM ReturnedCallEnforces == Spec => []ReturnedEnforces
<1>1. ApplyInv => ReturnedEnforces
  BY DEF ApplyInv, ReturnedEnforces, Attached
<1> QED BY <1>1, ThrottlerInv, PTL

(* ApplyPolicies leaves no temporary file behind unless the process dies   *)
(* in it or a file cannot be removed.                                      *)
THEOREM TempFilesAccounted == Spec => []TempFilesRemoved
<1>1. Files => TempFilesRemoved
  BY DEF Files, TempFilesRemoved
<1> QED BY <1>1, ThrottlerInv, PTL
=============================================================================
