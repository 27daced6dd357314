----------------------------- MODULE TrafficMon -----------------------------
(***************************************************************************)
(* How bytes become a rate: the traffic monitor (ebpf/trafficmon.bpf.c)    *)
(* counts them per (client, destination) pair in a map of limited size,    *)
(* the collector (handlers/prom.go) copies the counts into exported        *)
(* counters, and Prometheus adds up the increases between samples.         *)
(*                                                                         *)
(* A counter is named after its pair and a label: the destination's domain *)
(* and the group of the domain, as the tables have them at the moment.     *)
(* When the label changes, another counter of the pair takes over; the old *)
(* one keeps its value, and goes on from there if the label comes back.    *)
(*                                                                         *)
(* traffic_mon runs on every CPU that sends a packet to the LAN.  It looks *)
(* a count up and stores the sum in two steps without a lock.              *)
(***************************************************************************)
EXTENDS Integers, FiniteSets, Functions

CONSTANTS
  Pairs,        \* (client, destination) pairs
  Cpus,
  Labels,       \* (domain, group) labels
  Lengths,      \* lengths of packets
  MaxEntries,   \* max_entries of src_dest_bytes
  MaxBytes,     \* bound: bytes sent per pair
  MaxRestarts   \* bound: restarts of the process

ASSUME TrafficMonAssumption ==
  /\ Lengths \subseteq Nat \ {0}
  /\ MaxEntries \in Nat
  /\ MaxBytes \in Nat
  /\ MaxRestarts \in Nat

VARIABLES
  map,       \* src_dest_bytes: pair -> bytes
  cpu,       \* cpu[c]: the update c is about to make, or Idle
  sample,    \* last sample of each counter, or none
  measured,  \* the increase Prometheus has computed for each counter
  label,     \* history: the label each pair had last, or none
  left,      \* history: labels each pair has had before
  returned,  \* history: pairs that came back to a label they had left
  seen,      \* bytes of each pair the running monitor has been given
  sent,      \* bytes of each pair since the beginning
  raced,     \* pairs two CPUs have been busy with at the same time
  restarts   \* restarts so far

prometheus == <<sample, measured>>
labels == <<label, left, returned>>
vars == <<map, cpu, prometheus, labels, seen, sent, raced, restarts>>

Idle == [pair |-> {}, val |-> 0]
None == -1

Zero == [p \in Pairs |-> 0]

Counters == Pairs \X Labels

Init ==
  /\ map = [p \in {} |-> 0]
  /\ cpu = [c \in Cpus |-> Idle]
  /\ sample = [s \in Counters |-> None]
  /\ measured = [s \in Counters |-> 0]
  /\ label = [p \in Pairs |-> {}]
  /\ left = [p \in Pairs |-> {}]
  /\ returned = {}
  /\ seen = Zero
  /\ sent = Zero
  /\ raced = {}
  /\ restarts = 0

-----------------------------------------------------------------------------
(* traffic_mon.                                                            *)

Busy(p) == {c \in Cpus : cpu[c].pair = {p}}

(* val = tot_len, or *p + tot_len                                          *)
sumTwice(p, len) == IF p \in DOMAIN map THEN map[p] + 2 * len ELSE len
sum(p, len) == IF p \in DOMAIN map THEN map[p] + len ELSE len

(* A packet of pair p arrives on CPU c, which reads the count.             *)
lookup(c, p, len) ==
  /\ cpu[c] = Idle
  /\ sent[p] + len <= MaxBytes
  /\ cpu' = [cpu EXCEPT ![c] = [pair |-> {p}, val |-> sum(p, len)]]
  /\ seen' = [seen EXCEPT ![p] = @ + len]
  /\ sent' = [sent EXCEPT ![p] = @ + len]
  /\ raced' = IF Busy(p) = {} THEN raced ELSE raced \union {p}
  /\ UNCHANGED <<map, prometheus, labels, restarts>>

(* The map after an update with BPF_ANY; with BPF_NOEXIST; without limit.  *)
Stored(p, val) == [q \in DOMAIN map \union {p} |-> IF q = p THEN val ELSE map[q]]

updatedUnlimited(p, val) == Stored(p, val)

updatedNoExist(p, val) ==
  IF p \notin DOMAIN map /\ Cardinality(DOMAIN map) < MaxEntries
  THEN Stored(p, val) ELSE map

(* A new pair does not fit into a full map; the error is not looked at.    *)
updated(p, val) ==
  IF p \in DOMAIN map \/ Cardinality(DOMAIN map) < MaxEntries
  THEN Stored(p, val) ELSE map

update(c) ==
  /\ \E p \in cpu[c].pair : map' = updated(p, cpu[c].val)
  /\ cpu' = [cpu EXCEPT ![c] = Idle]
  /\ UNCHANGED <<prometheus, labels, seen, sent, raced, restarts>>

traffic_mon(c) == update(c) \/ \E p \in Pairs, len \in Lengths : lookup(c, p, len)

-----------------------------------------------------------------------------
(* Prometheus (external): a first sample adds nothing, a value below the   *)
(* last one is a counter that started again at 0.                          *)
increase(s, val) ==
  IF sample[s] = None THEN 0 ELSE IF val >= sample[s] THEN val - sample[s] ELSE val

(* The counters of p that metrics.GetOrCreateFloatCounter(...).Set writes. *)
(* The variant keeps those of earlier labels up to date as well.           *)
setAll(p, l) == {p} \X (left[p] \union label[p] \union {l})
set(p, l) == {<<p, l>>}

Relabel(p, l) ==
  /\ label' = [label EXCEPT ![p] = {l}]
  /\ left' = [left EXCEPT ![p] = @ \union (label[p] \ {l})]
  /\ returned' = IF l \in left[p] \ label[p] THEN returned \union {p} ELSE returned

(* One entry of getBandwidthList's walk over the map, exported by          *)
(* pollMetrics and sampled.  GetDomainForIP and getMatchingGlobGroup may   *)
(* yield another label every time: answers arrive, groups are added, and a *)
(* query that fails counts as no domain or no group.                       *)
collect(p, l) ==
  /\ p \in DOMAIN map
  /\ sample' = [s \in Counters |-> IF s \in set(p, l) THEN map[p] ELSE sample[s]]
  /\ measured' = [s \in Counters |->
       IF s \in set(p, l) THEN measured[s] + increase(s, map[p]) ELSE measured[s]]
  /\ Relabel(p, l)
  /\ UNCHANGED <<map, cpu, seen, sent, raced, restarts>>

(* Initialize loads a new map and replaces the monitor; Prometheus goes on *)
(* with the samples it has.                                                *)
Restart ==
  /\ restarts < MaxRestarts
  /\ restarts' = restarts + 1
  /\ map' = [p \in {} |-> 0]
  /\ cpu' = [c \in Cpus |-> Idle]
  /\ seen' = Zero
  /\ UNCHANGED <<prometheus, labels, sent, raced>>

Next ==
  \/ \E c \in Cpus : traffic_mon(c)
  \/ \E p \in Pairs, l \in Labels : collect(p, l)
  \/ Restart

Spec == Init /\ [][Next]_vars

-----------------------------------------------------------------------------
(* Properties.                                                             *)

Updates == [pair : {{p} : p \in Pairs}, val : Nat]

TypeOK ==
  /\ map \in [DOMAIN map -> Nat]
  /\ DOMAIN map \subseteq Pairs /\ Cardinality(DOMAIN map) <= MaxEntries
  /\ cpu \in [Cpus -> Updates \union {Idle}]
  /\ sample \in [Counters -> Nat \union {None}]
  /\ measured \in [Counters -> Nat]
  /\ label \in [Pairs -> SUBSET Labels]
  /\ left \in [Pairs -> SUBSET Labels]
  /\ returned \subseteq Pairs
  /\ seen \in [Pairs -> 0 .. MaxBytes]
  /\ sent \in [Pairs -> 0 .. MaxBytes]
  /\ raced \subseteq Pairs
  /\ restarts \in 0 .. MaxRestarts

(* Whatever two CPUs do to each other's updates, a count never exceeds the *)
(* bytes the monitor was given.                                            *)
NeverOvercounts == \A p \in DOMAIN map : map[p] <= seen[p]

(* Bytes are missing from a count only if two CPUs were busy with the pair *)
(* at the same time, or if the pair is not in the map at all because the   *)
(* map is full.                                                            *)
LossAccounted ==
  \A p \in Pairs :
    Busy(p) = {} /\ seen[p] > 0 =>
      IF p \in DOMAIN map THEN p \in raced \/ map[p] = seen[p]
      ELSE Cardinality(DOMAIN map) = MaxEntries

(* The increase Prometheus computes for a counter, on which the policy's   *)
(* rates rest, exceeds the bytes that were sent only if two CPUs were busy *)
(* with the pair at the same time: then a late update may take its counter *)
(* back, which counts as a reset.  Restarts of the monitor, which do reset *)
(* it, do no harm, and neither do labels that come and go.                 *)
RateAccounted ==
  \A s \in Counters : measured[s] <= sent[s[1]] \/ s[1] \in raced

(* The policy adds the counters of a pair up.  The sum exceeds the bytes   *)
(* that were sent, two CPUs aside, only if the pair came back to a label   *)
(* it had left: then the counter of the old label catches up on bytes that *)
(* others were credited with in between.  A label that changes for good    *)
(* makes no byte count twice, even across restarts.                        *)
CountedOnce ==
  \A p \in Pairs \ (raced \union returned) :
    SumFunctionOnSet(measured, {p} \X Labels) <= sent[p]
=============================================================================
