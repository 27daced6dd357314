------------------------------ MODULE Nethadone ------------------------------
(***************************************************************************)
(* The router as a whole: the policy loop (SimpleLoadAvg), the throttler   *)
(* it rebuilds (Throttler) and the two tables that stand between them, the *)
(* glob groups the web form adds (handlers.GlobAdd) and the DNS answers    *)
(* the sniffer records (database.AddDns).                                  *)
(*                                                                         *)
(* The loop throttles (client, group) pairs, the throttler classifies      *)
(* (client, destination ip) packets.  applyPolicies translates: it reads   *)
(* the policy table, turns each row into one rule per destination ip the   *)
(* DNS table has for the row's group at that moment, and hands the rules   *)
(* to ApplyPolicies.  Nothing tells it when the DNS table changes later.   *)
(***************************************************************************)
EXTENDS Integers, SequencesExt

CONSTANTS
  Clients, Groups, Ips,
  NumQdiscClasses, PolicyCheckInterval, PolicyBackoffInterval,
  ActivityThresholdBytes, ReadErrors, MaxFaults, MaxTime, MaxFilters

ASSUME RouterAssumption ==
  /\ NumQdiscClasses \in Nat
  /\ PolicyCheckInterval \in Nat \ {0}
  /\ {PolicyBackoffInterval, ActivityThresholdBytes, MaxFaults, MaxTime} \subseteq Nat
  /\ ReadErrors \in BOOLEAN
  /\ MaxFilters \in Nat \ {0}

SrcGlobs == Clients \X Groups

VARIABLES
  policy, usage, series, now, pc, todo, changed, faults,      \* SimpleLoadAvg
  stage, want, objFile, objs, filters, at, tmpFiles, failures, \* Throttler
  globs,      \* glob_group table: names of the groups in it
  dns,        \* dns table: what it has for an ip and a group's pattern
  phase,      \* where applyPolicies is
  left,       \* rows it has not translated yet
  rules       \* allPolicies: rules collected so far

loopVars == <<policy, usage, series, now, pc, todo, changed, faults>>
throttlerVars == <<stage, want, objFile, objs, filters, at, tmpFiles, failures>>
applyVars == <<phase, left, rules>>
tables == <<globs, dns>>
vars == <<loopVars, throttlerVars, tables, applyVars>>

(* A program by its rules, in order: a block stands for the rules made     *)
(* from one row.  Initialize's rule concerns no client; "nobody" is no     *)
(* program.                                                                *)
Block == [sg : SrcGlobs, class : Nat, ips : SUBSET Ips]
Program(by, r) == [by |-> by, rules |-> r]
DefaultProgram == Program("Initialize", <<>>)
Programs == {DefaultProgram} \union {Program("loop", r) : r \in Seq(Block)}

Loop == INSTANCE SimpleLoadAvg
Throttle == INSTANCE Throttler WITH
  Default <- DefaultProgram,
  NoProgram <- Program("nobody", <<>>),
  MaxFailures <- MaxFaults

Init ==
  /\ Loop!Init
  /\ Throttle!Init
  /\ globs = {}
  /\ dns = [ig \in Ips \X Groups |-> "never"]
  /\ phase = "start"
  /\ left = {}
  /\ rules = <<>>

-----------------------------------------------------------------------------
(* The policy goroutine.  main starts it after Initialize has returned.    *)

check ==
  /\ stage = "returned"
  /\ Loop!check
  /\ UNCHANGED <<throttlerVars, tables, applyVars>>

GetAllPolicies ==
  /\ pc = "apply" /\ phase = "start"
  /\ phase' = "gather"
  /\ left' = {sg \in SrcGlobs : policy[sg] # Loop!NoRow}
  /\ rules' = <<>>
  /\ UNCHANGED <<loopVars, throttlerVars, tables>>

(* The ips of answers for the group's pattern of the last five days.       *)
GetIPsMatchingOld(g) == {ip \in Ips : dns[<<ip, g>>] = "old"}
GetIPsMatchingGlob(g) == {ip \in Ips : dns[<<ip, g>>] = "recent"}

(* One row, in whatever order the table gives them.  A group that is not   *)
(* in its table, or a SELECT that fails, yields nil, which applyPolicies   *)
(* dereferences: the process panics, one of the ways to Crash.             *)
GetIpPolicies(sg) ==
  /\ phase = "gather"
  /\ sg \in left
  /\ sg[2] \in globs
  /\ left' = left \ {sg}
  /\ rules' = Append(rules,
       [sg |-> sg, class |-> policy[sg].class, ips |-> GetIPsMatchingGlob(sg[2])])
  /\ UNCHANGED <<loopVars, throttlerVars, tables, phase>>

callApplyPolicies ==
  /\ phase = "gather"
  /\ left = {}
  /\ Throttle!ApplyPolicies(Program("loop", rules))
  /\ phase' = "wait"
  /\ UNCHANGED <<loopVars, tables, left, rules>>

throttlerStep ==
  /\ Throttle!Step \/ Throttle!Initialize
  /\ UNCHANGED <<loopVars, tables, applyVars>>

applyReturns ==
  /\ phase = "wait"
  /\ stage = "returned"
  /\ Loop!applyPolicies
  /\ phase' = "start"
  /\ UNCHANGED <<throttlerVars, tables, left, rules>>

applyPolicies ==
  \/ GetAllPolicies
  \/ \E sg \in SrcGlobs : GetIpPolicies(sg)
  \/ callApplyPolicies
  \/ applyReturns

-----------------------------------------------------------------------------
(* The other goroutines, and the world.                                    *)

(* The web form; inserting a name that is there fails and changes nothing. *)
GlobAdd(g) ==
  /\ globs' = globs \union {g}
  /\ UNCHANGED <<loopVars, throttlerVars, dns, applyVars>>

(* A DNS answer maps a name that matches g's pattern to ip.                *)
AddDns(ip, g) ==
  /\ dns' = [dns EXCEPT ![<<ip, g>>] = "recent"]
  /\ UNCHANGED <<loopVars, throttlerVars, globs, applyVars>>

(* Five days without such an answer.                                       *)
DnsAges(ip, g) ==
  /\ dns[<<ip, g>>] = "recent"
  /\ dns' = [dns EXCEPT ![<<ip, g>>] = "old"]
  /\ UNCHANGED <<loopVars, throttlerVars, globs, applyVars>>

(* Traffic is counted for a group if getBandwidthList labels it with one:  *)
(* the destination's domain is known, however old the answer is, and the   *)
(* group is in the table.  The queries ask for glob!="".                   *)
LabelledLoosely(g) == \E ip \in Ips : dns[<<ip, g>>] # "never"
Labelled(g) == g \in globs /\ \E ip \in Ips : dns[<<ip, g>>] # "never"

Traffic(sg) ==
  /\ stage # "dead"
  /\ Labelled(sg[2])
  /\ Loop!Traffic(sg)
  /\ UNCHANGED <<throttlerVars, tables, applyVars>>

Expire(sg) ==
  /\ Loop!Expire(sg)
  /\ UNCHANGED <<throttlerVars, tables, applyVars>>

ClockStepsBack ==
  /\ Loop!ClockStepsBack
  /\ UNCHANGED <<throttlerVars, tables, applyVars>>

(* The process dies: Fatal anywhere below Initialize and ApplyPolicies, a  *)
(* nil in applyPolicies, a kill.  The tables and the kernel's state stay.  *)
Crash ==
  /\ Loop!Restart
  /\ Throttle!Die
  /\ phase' = "start"
  /\ left' = {}
  /\ rules' = <<>>
  /\ UNCHANGED tables

Environment ==
  \/ \E g \in Groups : GlobAdd(g)
  \/ \E ip \in Ips, g \in Groups : AddDns(ip, g) \/ DnsAges(ip, g)
  \/ \E sg \in SrcGlobs : Traffic(sg) \/ Expire(sg)
  \/ ClockStepsBack
  \/ Crash

Process == check \/ applyPolicies \/ throttlerStep

Next == Process \/ Environment

Spec == Init /\ [][Next]_vars

(* The goroutine and, when it is down, the process itself keep going.      *)
FairSpec ==
  /\ Spec
  /\ WF_vars(Process)
  /\ \A sg \in SrcGlobs : WF_vars(Expire(sg))

-----------------------------------------------------------------------------
(* The blocks of the attached program that match a packet from ip to       *)
(* client.  Each match overwrites the class the one before gave it.        *)
matching(r, client, ip) ==
  SelectSeq(r, LAMBDA b : b.sg[1] = client /\ ip \in b.ips)

-----------------------------------------------------------------------------
(* Properties.                                                             *)

TypeOK ==
  /\ Loop!TypeOK
  /\ stage \in Throttle!Stages
  /\ globs \subseteq Groups
  /\ dns \in [Ips \X Groups -> {"never", "recent", "old"}]
  /\ phase \in {"start", "gather", "wait"}
  /\ left \subseteq SrcGlobs
  /\ rules \in Seq(Block)

(* applyPolicies dereferences what GetIpPolicies returns without a check,  *)
(* and GetGlob returns nil for a group it does not find.  No row makes it  *)
(* do so: a row is only made for a labelled pair, a label is only given    *)
(* from the glob table, and no group ever leaves that table.               *)
RowsHaveGroups ==
  \A sg \in SrcGlobs : policy[sg] # Loop!NoRow => sg[2] \in globs

Attached == Throttle!Attached

(* Between two checks the attached throttler has one block for each pair   *)
(* with a row, in the row's class, and none for any other, once the loop   *)
(* has applied anything: also if a write failed and the loop only believes *)
(* it changed the table, if earlier filters could not be deleted, or if    *)
(* the process died between the table write and the rebuild.               *)
InSync ==
  pc = "idle" /\ stage = "returned" /\ Attached.by = "loop" =>
    LET rows == {sg \in SrcGlobs : policy[sg] # Loop!NoRow} IN
    /\ Len(Attached.rules) = Cardinality(rows)
    /\ {<<b.sg, b.class>> : b \in ToSet(Attached.rules)}
         = {<<sg, policy[sg].class>> : sg \in rows}

Ruled(sg) == \E b \in ToSet(Attached.rules) : b.sg = sg

(* A pair that stays idle ends up without rules in the kernel, across      *)
(* crashes, failed writes and failed queries.                              *)
IdleUnthrottled ==
  \A sg \in SrcGlobs :
    ActivityThresholdBytes > 0 /\ <>[](usage[sg] = "idle") => <>[]~Ruled(sg)

(* The attached program has a rule that puts packets from ip to the pair's *)
(* client into the slowest class, except while it is being replaced, and   *)
(* only a rule of another group the ip belongs to may overrule it.  Such a *)
(* rule decides whatever its class, and class 10 frees the packets; but no *)
(* group without a row does so.                                            *)
Slowest(sg, ip) ==
  stage = "returned" =>
    LET hits == matching(Attached.rules, sg[1], ip) IN
    /\ \E b \in ToSet(hits) : b.sg = sg /\ b.class = Loop!TopClass
    /\ Last(hits).sg = sg => Last(hits).class = Loop!TopClass

(* If the ips of a group are known whenever one of its pairs has a row, a  *)
(* pair that stays active ends up with all of them in the slowest class.   *)
CompulsiveUseThrottled ==
  \A sg \in SrcGlobs, ip \in Ips :
    /\ [](policy[sg] # Loop!NoRow => dns[<<ip, sg[2]>>] = "recent")
    /\ <>[](usage[sg] = "active")
    => <>[]Slowest(sg, ip)

-----------------------------------------------------------------------------
(* Statements of the repository's documents that the code contradicts.     *)

(* views/policies.tpl lists the rows of the policy table as the "Active    *)
(* Throttling Policies": a row that stays in the slowest class has its     *)
(* rules in the kernel.                                                    *)
ListedIsActive ==
  \A sg \in SrcGlobs :
    <>[](policy[sg].class = Loop!TopClass)
    => <>[](stage = "returned" => Ruled(sg))

(* policy/README.md: the class of the pair (s, d) is set "for d in G", for *)
(* every destination of the group; so also for an ip that is resolved for  *)
(* the first time when the pair is already in the slowest class.  (No      *)
(* answer for it is five days old before.)                                 *)
EveryDestinationThrottled ==
  \A sg \in SrcGlobs, ip \in Ips :
    /\ [](dns[<<ip, sg[2]>>] # "old")
    /\ <>[](usage[sg] = "active" /\ dns[<<ip, sg[2]>>] = "recent")
    => <>[]Slowest(sg, ip)
=============================================================================
