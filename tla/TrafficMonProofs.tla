-------------------------- MODULE TrafficMonProofs --------------------------
(***************************************************************************)
(* Proofs for TrafficMon: for any number of CPUs, pairs and labels, any    *)
(* size of the map and any packets, the counts never exceed the traffic,   *)
(* what they miss is accounted for, and so is what Prometheus makes of     *)
(* them.                                                                   *)
(***************************************************************************)
EXTENDS TrafficMon, DataLemmas

Full == Cardinality(DOMAIN map) = MaxEntries

(* Neither a count nor an update on its way exceeds the traffic.           *)
PendingBounded ==
  \A c \in Cpus, p \in Pairs : cpu[c].pair = {p} => cpu[c].val <= seen[p]

(* A pair is on two CPUs only if that has been noted.                      *)
OneBusy ==
  \A p \in Pairs \ raced : \A c, d \in Busy(p) : c = d

(* As long as no two CPUs met on a pair, the count of it, or the update a  *)
(* CPU is about to make to it, is exact; or there is no room for it.       *)
Exact ==
  \A p \in Pairs :
    IF p \in DOMAIN map
    THEN \/ p \in raced
         \/ Busy(p) = {} /\ map[p] = seen[p]
         \/ Busy(p) # {} /\ \A c \in Busy(p) : cpu[c].val = seen[p] /\ map[p] <= seen[p]
    ELSE \/ Full
         \/ Busy(p) = {} /\ seen[p] = 0
         \/ Busy(p) # {} /\ (p \in raced \/ \A c \in Busy(p) : cpu[c].val = seen[p])

(* What a counter has been credited with is what earlier runs of the       *)
(* monitor were given and, if it has been sampled in this one, the sample. *)
Credited(s) ==
  \/ measured[s] <= sent[s[1]] - seen[s[1]]
  \/ /\ s[1] \in DOMAIN map
     /\ sample[s] \in Nat /\ sample[s] <= map[s[1]]
     /\ measured[s] <= sent[s[1]] - seen[s[1]] + sample[s]

CreditBounded ==
  /\ \A p \in Pairs : seen[p] <= sent[p]
  /\ \A s \in Counters : s[1] \in raced \/ Credited(s)

(* The inductive invariant.                                                *)
Inv ==
  /\ TypeOK
  /\ IsFiniteSet(DOMAIN map)
  /\ NeverOvercounts
  /\ PendingBounded
  /\ OneBusy
  /\ Exact
  /\ CreditBounded
-----------------------------------------------------------------------------
(* What updated does to the map: it keeps what is there, adds the pair if  *)
(* there is room, and never takes the map over its size.                   *)
LEMMA UpdatedMap ==
  ASSUME Inv, NEW p \in Pairs, NEW val \in Nat
  PROVE  /\ updated(p, val) \in [DOMAIN updated(p, val) -> Nat]
         /\ DOMAIN updated(p, val) \subseteq Pairs
         /\ IsFiniteSet(DOMAIN updated(p, val))
         /\ Cardinality(DOMAIN updated(p, val)) <= MaxEntries
         /\ p \in DOMAIN map \/ ~Full => updated(p, val) = Stored(p, val)
         /\ p \notin DOMAIN map /\ Full => updated(p, val) = map
         /\ Full => DOMAIN updated(p, val) = DOMAIN map
<1>1. /\ Cardinality(DOMAIN map) \in Nat
      /\ IsFiniteSet(DOMAIN map \union {p})
      /\ Cardinality(DOMAIN map \union {p}) =
           IF p \in DOMAIN map THEN Cardinality(DOMAIN map) ELSE Cardinality(DOMAIN map) + 1
  BY FS_CardinalityType, FS_AddElement DEF Inv
<1>2. DOMAIN Stored(p, val) = DOMAIN map \union {p}
  BY DEF Stored
<1>3. Stored(p, val) \in [DOMAIN map \union {p} -> Nat]
  BY DEF Stored, Inv, TypeOK
<1>4. p \in DOMAIN map \/ ~Full <=> p \in DOMAIN map \/ Cardinality(DOMAIN map) < MaxEntries
  BY <1>1, TrafficMonAssumption DEF Full, Inv, TypeOK
<1>5. CASE p \in DOMAIN map \/ ~Full
  <2>1. updated(p, val) = Stored(p, val)
    BY <1>4, <1>5 DEF updated
  <2>2. Cardinality(DOMAIN map \union {p}) <= MaxEntries
    BY <1>1, <1>4, <1>5, TrafficMonAssumption DEF Inv, TypeOK
  <2>3. Full => DOMAIN map \union {p} = DOMAIN map
    BY <1>5
  <2> QED BY <1>1, <1>2, <1>3, <1>5, <2>1, <2>2, <2>3 DEF Inv, TypeOK
<1>6. CASE ~(p \in DOMAIN map \/ ~Full)
  <2>1. updated(p, val) = map
    BY <1>4, <1>6 DEF updated
  <2> QED BY <1>6, <2>1 DEF Inv, TypeOK
<1> QED BY <1>5, <1>6

-----------------------------------------------------------------------------
(* A CPU takes a packet and reads the count.                               *)
LEMMA LookupStep ==
  ASSUME Inv, NEW c \in Cpus, NEW p \in Pairs, NEW len \in Lengths, lookup(c, p, len)
  PROVE  Inv'
<1> USE TrafficMonAssumption
<1>0. /\ len \in Nat /\ len > 0
      /\ sum(p, len) \in Nat
      /\ sum(p, len) <= seen[p] + len
      /\ p \in DOMAIN map => sum(p, len) = map[p] + len
      /\ p \notin DOMAIN map => sum(p, len) = len
  BY DEF Inv, TypeOK, sum, NeverOvercounts
<1>1. /\ map' = map /\ sample' = sample /\ measured' = measured
      /\ cpu' = [cpu EXCEPT ![c] = [pair |-> {p}, val |-> sum(p, len)]]
      /\ seen' = [seen EXCEPT ![p] = @ + len]
      /\ sent' = [sent EXCEPT ![p] = @ + len]
      /\ raced' = IF Busy(p) = {} THEN raced ELSE raced \union {p}
      /\ cpu[c] = Idle
  BY DEF lookup, prometheus
<1>2. TypeOK'
  <2>1. cpu' \in [Cpus -> Updates \union {Idle}]
    BY <1>0, <1>1 DEF Inv, TypeOK, Updates
  <2>2. seen' \in [Pairs -> 0 .. MaxBytes] /\ sent' \in [Pairs -> 0 .. MaxBytes]
    BY <1>0, <1>1 DEF lookup, Inv, TypeOK, CreditBounded
  <2> QED BY <1>1, <2>1, <2>2 DEF lookup, prometheus, labels, Inv, TypeOK
<1>3. \A q \in Pairs : Busy(q)' = IF q = p THEN Busy(q) \union {c} ELSE Busy(q)
  <2> SUFFICES ASSUME NEW q \in Pairs, NEW d
               PROVE  d \in Busy(q)' <=> IF q = p THEN d \in Busy(q) \/ d = c ELSE d \in Busy(q)
    BY DEF Busy
  <2>1. CASE d = c
    <3>1. cpu'[c].pair = {p} /\ cpu[c].pair = {}
      BY <1>1 DEF Idle, Inv, TypeOK
    <3>2. {p} = {q} <=> p = q
      OBVIOUS
    <3> QED BY <2>1, <3>1, <3>2 DEF Busy
  <2>2. CASE d # c
    <3>1. d \in Cpus => cpu'[d] = cpu[d]
      BY <1>1, <2>2 DEF Inv, TypeOK
    <3> QED BY <2>2, <3>1 DEF Busy
  <2> QED BY <2>1, <2>2
<1>4. NeverOvercounts' /\ IsFiniteSet(DOMAIN map)'
  BY <1>0, <1>1 DEF Inv, TypeOK, NeverOvercounts
<1>5. PendingBounded'
  <2> SUFFICES ASSUME NEW d \in Cpus, NEW q \in Pairs, cpu'[d].pair = {q}
               PROVE  cpu'[d].val <= seen'[q]
    BY DEF PendingBounded
  <2>1. CASE d = c
    BY <1>0, <1>1, <2>1 DEF Inv, TypeOK
  <2>2. CASE d # c
    <3>1. cpu'[d] = cpu[d] /\ cpu[d].val \in Nat
      BY <1>1, <2>2 DEF Inv, TypeOK, Updates, Idle
    <3> QED BY <1>0, <1>1, <3>1 DEF Inv, TypeOK, PendingBounded
  <2> QED BY <2>1, <2>2
<1>6. OneBusy'
  <2> SUFFICES ASSUME NEW q \in Pairs, q \notin raced', NEW d \in Busy(q)', NEW e \in Busy(q)'
               PROVE  d = e
    BY DEF OneBusy
  <2>1. q \notin raced
    BY <1>1
  <2>2. CASE q = p
    BY <1>1, <1>3, <2>2
  <2>3. CASE q # p
    BY <1>3, <2>1, <2>3 DEF Inv, OneBusy
  <2> QED BY <2>2, <2>3
<1>7. Exact'
  <2> SUFFICES ASSUME NEW q \in Pairs
               PROVE  IF q \in DOMAIN map
                      THEN \/ q \in raced'
                           \/ Busy(q)' = {} /\ map[q] = seen'[q]
                           \/ /\ Busy(q)' # {}
                              /\ \A d \in Busy(q)' : cpu'[d].val = seen'[q] /\ map[q] <= seen'[q]
                      ELSE \/ Full
                           \/ Busy(q)' = {} /\ seen'[q] = 0
                           \/ /\ Busy(q)' # {}
                              /\ q \in raced' \/ \A d \in Busy(q)' : cpu'[d].val = seen'[q]
    BY <1>1 DEF Exact, Full
  <2>1. CASE q = p
    <3>1. CASE Busy(p) # {}
      BY <1>1, <1>3, <2>1, <3>1
    <3>2. CASE Busy(p) = {}
      <4>1. Busy(p)' = {c}
        BY <1>3, <3>2
      <4>2. cpu'[c].val = sum(p, len) /\ seen'[p] = seen[p] + len
        BY <1>1 DEF Inv, TypeOK
      <4>3. p \in DOMAIN map => map[p] \in Nat
        BY DEF Inv, TypeOK
      <4>4. seen[p] \in Nat
        BY DEF Inv, TypeOK
      <4> QED BY <1>0, <1>1, <2>1, <3>2, <4>1, <4>2, <4>3, <4>4 DEF Inv, Exact
    <3> QED BY <3>1, <3>2
  <2>2. CASE q # p
    <3>1. seen'[q] = seen[q] /\ Busy(q)' = Busy(q)
      BY <1>1, <1>3, <2>2 DEF Inv, TypeOK
    <3>2. ASSUME NEW d \in Busy(q) PROVE cpu'[d] = cpu[d]
      <4>1. d \in Cpus /\ cpu[d].pair = {q} /\ cpu[c].pair = {}
        BY <1>1 DEF Busy, Idle
      <4> QED BY <1>1, <4>1 DEF Inv, TypeOK
    <3>3. q \in raced => q \in raced'
      BY <1>1
    <3> QED BY <3>1, <3>2, <3>3 DEF Inv, Exact
  <2> QED BY <2>1, <2>2
<1>8. CreditBounded'
  <2>1. \A q \in Pairs : sent'[q] - seen'[q] = sent[q] - seen[q]
    BY <1>0, <1>1 DEF Inv, TypeOK
  <2>2. \A q \in Pairs : seen'[q] <= sent'[q]
    BY <1>0, <1>1 DEF Inv, TypeOK, CreditBounded
  <2>3. ASSUME NEW s \in Counters PROVE s[1] \in raced' \/ Credited(s)'
    <3>1. s[1] \in Pairs
      BY DEF Counters
    <3> QED BY <1>1, <2>1, <3>1 DEF Inv, CreditBounded, Credited
  <2> QED BY <2>2, <2>3 DEF CreditBounded
<1> QED BY <1>2, <1>4, <1>5, <1>6, <1>7, <1>8 DEF Inv

(* A CPU stores the count.  No count goes down, but where two CPUs met.    *)
LEMMA UpdateStep ==
  ASSUME Inv, NEW c \in Cpus, update(c)
  PROVE  /\ Inv'
         /\ DOMAIN map \subseteq DOMAIN map'
         /\ \A q \in DOMAIN map : q \in raced \/ map[q] <= map'[q]
<1> USE TrafficMonAssumption
<1>1. PICK p \in cpu[c].pair : map' = updated(p, cpu[c].val)
  BY DEF update
<1>2. /\ p \in Pairs /\ cpu[c].pair = {p} /\ cpu[c].val \in Nat
      /\ cpu[c].val <= seen[p]
  BY <1>1 DEF Inv, TypeOK, Updates, Idle, PendingBounded
<1>3. /\ cpu' = [cpu EXCEPT ![c] = Idle]
      /\ sample' = sample /\ measured' = measured /\ seen' = seen /\ sent' = sent
      /\ raced' = raced
  BY DEF update, prometheus
<1>4. /\ map' \in [DOMAIN map' -> Nat]
      /\ DOMAIN map' \subseteq Pairs
      /\ IsFiniteSet(DOMAIN map')
      /\ Cardinality(DOMAIN map') <= MaxEntries
      /\ p \in DOMAIN map \/ ~Full => map' = Stored(p, cpu[c].val)
      /\ p \notin DOMAIN map /\ Full => map' = map
      /\ Full => Full'
  BY <1>1, <1>2, UpdatedMap DEF Full
<1>5. /\ \A q \in Pairs \ {p} : q \in DOMAIN map' <=> q \in DOMAIN map
      /\ \A q \in DOMAIN map : q # p => map'[q] = map[q]
      /\ DOMAIN map \subseteq DOMAIN map'
      /\ p \in DOMAIN map' => map'[p] = cpu[c].val
      /\ p \in DOMAIN map' \/ (Full /\ Full')
  <2>1. CASE p \in DOMAIN map \/ ~Full
    <3>1. map' = [q \in DOMAIN map \union {p} |-> IF q = p THEN cpu[c].val ELSE map[q]]
      BY <1>4, <2>1 DEF Stored
    <3> QED BY <3>1
  <2>2. CASE p \notin DOMAIN map /\ Full
    BY <1>4, <2>2
  <2> QED BY <2>1, <2>2
<1>6. TypeOK'
  <2>1. cpu' \in [Cpus -> Updates \union {Idle}]
    BY <1>3 DEF Inv, TypeOK
  <2> QED BY <1>3, <1>4, <2>1 DEF update, prometheus, labels, Inv, TypeOK
<1>7. \A q \in Pairs : Busy(q)' = Busy(q) \ {c}
  <2> SUFFICES ASSUME NEW q \in Pairs, NEW d
               PROVE  d \in Busy(q)' <=> d \in Busy(q) /\ d # c
    BY DEF Busy
  <2>1. CASE d = c
    <3>1. cpu'[c].pair = {}
      BY <1>3 DEF Idle, Inv, TypeOK
    <3> QED BY <2>1, <3>1 DEF Busy
  <2>2. CASE d # c
    <3>1. d \in Cpus => cpu'[d] = cpu[d]
      BY <1>3, <2>2 DEF Inv, TypeOK
    <3> QED BY <2>2, <3>1 DEF Busy
  <2> QED BY <2>1, <2>2
<1>8. \A d \in Cpus : d # c => cpu'[d] = cpu[d]
  BY <1>3 DEF Inv, TypeOK
<1>9. NeverOvercounts'
  BY <1>2, <1>3, <1>4, <1>5 DEF Inv, NeverOvercounts
<1>10. PendingBounded'
  <2> SUFFICES ASSUME NEW d \in Cpus, NEW q \in Pairs, cpu'[d].pair = {q}
               PROVE  cpu'[d].val <= seen'[q]
    BY DEF PendingBounded
  <2>1. d \in Busy(q)'
    BY DEF Busy
  <2> QED BY <1>3, <1>7, <1>8, <2>1 DEF Inv, PendingBounded
<1>11. OneBusy'
  BY <1>3, <1>7 DEF Inv, OneBusy
<1>12. p \notin raced => Busy(p) = {c} /\ Busy(p)' = {}
  <2>1. c \in Busy(p)
    BY <1>2 DEF Busy
  <2> QED BY <1>2, <1>7, <2>1 DEF Inv, OneBusy
<1>13. p \notin raced /\ p \in DOMAIN map' => map'[p] = seen[p] \/ Full
  <2> SUFFICES ASSUME p \notin raced, p \in DOMAIN map', ~Full PROVE cpu[c].val = seen[p]
    BY <1>5
  <2> QED BY <1>2, <1>12 DEF Inv, Exact
<1>14. p \notin raced /\ p \in DOMAIN map => map'[p] = seen[p]
  BY <1>2, <1>5, <1>12 DEF Inv, Exact
<1>15. Exact'
  <2> SUFFICES ASSUME NEW q \in Pairs
               PROVE  IF q \in DOMAIN map'
                      THEN \/ q \in raced
                           \/ Busy(q)' = {} /\ map'[q] = seen[q]
                           \/ /\ Busy(q)' # {}
                              /\ \A d \in Busy(q)' : cpu'[d].val = seen[q] /\ map'[q] <= seen[q]
                      ELSE \/ Full'
                           \/ Busy(q)' = {} /\ seen[q] = 0
                           \/ /\ Busy(q)' # {}
                              /\ q \in raced \/ \A d \in Busy(q)' : cpu'[d].val = seen[q]
    BY <1>3 DEF Exact
  <2>1. CASE q = p
    <3>1. p \in DOMAIN map' /\ p \notin DOMAIN map => ~Full
      BY <1>4
    <3> QED BY <1>5, <1>12, <1>13, <1>14, <2>1, <3>1
  <2>2. CASE q # p
    <3>1. Busy(q)' = Busy(q)
      <4>1. c \notin Busy(q)
        BY <1>2, <2>2 DEF Busy
      <4> QED BY <1>7, <4>1
    <3>2. \A d \in Busy(q) : cpu'[d] = cpu[d]
      BY <1>7, <1>8, <3>1 DEF Busy
    <3>3. q \in DOMAIN map' <=> q \in DOMAIN map
      BY <1>5, <2>2
    <3>4. q \in DOMAIN map => map'[q] = map[q]
      BY <1>5, <2>2
    <3> QED BY <1>4, <3>1, <3>2, <3>3, <3>4 DEF Inv, Exact
  <2> QED BY <2>1, <2>2
<1>16. \A q \in DOMAIN map : q \in raced \/ map[q] <= map'[q]
  <2> SUFFICES ASSUME NEW q \in DOMAIN map, q \notin raced PROVE map[q] <= map'[q]
    OBVIOUS
  <2>1. map[q] \in Nat /\ q \in Pairs /\ map[q] <= seen[q]
    BY DEF Inv, TypeOK, NeverOvercounts
  <2> QED BY <1>5, <1>14, <2>1
<1>17. CreditBounded'
  <2>2. ASSUME NEW s \in Counters, s[1] \notin raced PROVE Credited(s)'
    <3>1. s[1] \in Pairs /\ Credited(s)
      BY <2>2 DEF Counters, Inv, CreditBounded
    <3>2. s[1] \in DOMAIN map => /\ map[s[1]] \in Nat /\ map'[s[1]] \in Nat
                                /\ map[s[1]] <= map'[s[1]] /\ s[1] \in DOMAIN map'
      BY <1>4, <1>5, <1>16, <2>2 DEF Inv, TypeOK
    <3> QED BY <1>3, <3>1, <3>2 DEF Credited
  <2> QED BY <1>3, <2>2 DEF Inv, CreditBounded
<1> QED BY <1>4, <1>5, <1>6, <1>9, <1>10, <1>11, <1>15, <1>16, <1>17 DEF Inv

(* The collector exports a count and Prometheus samples it.                *)
LEMMA CollectStep ==
  ASSUME Inv, NEW p \in Pairs, NEW l \in Labels, collect(p, l)
  PROVE  Inv'
<1> USE TrafficMonAssumption
<1>1. /\ map' = map /\ cpu' = cpu /\ seen' = seen /\ sent' = sent /\ raced' = raced
      /\ restarts' = restarts
      /\ p \in DOMAIN map /\ map[p] \in Nat
  BY DEF collect, Inv, TypeOK
<1>2. /\ sample' = [s \in Counters |-> IF s = <<p, l>> THEN map[p] ELSE sample[s]]
      /\ measured' = [s \in Counters |->
           IF s = <<p, l>> THEN measured[s] + increase(s, map[p]) ELSE measured[s]]
  BY DEF collect, set
<1>3. \A s \in Counters : /\ increase(s, map[p]) \in 0 .. map[p]
                          /\ sample[s] \in Nat /\ sample[s] <= map[p] =>
                               increase(s, map[p]) = map[p] - sample[s]
  BY <1>1 DEF increase, Inv, TypeOK, None
<1>4. TypeOK'
  <2>1. sample' \in [Counters -> Nat \union {None}] /\ measured' \in [Counters -> Nat]
    BY <1>1, <1>2, <1>3 DEF Inv, TypeOK
  <2>2. /\ label' \in [Pairs -> SUBSET Labels] /\ left' \in [Pairs -> SUBSET Labels]
        /\ returned' \subseteq Pairs
    BY DEF collect, Relabel, Inv, TypeOK
  <2> QED BY <1>1, <2>1, <2>2 DEF Inv, TypeOK
<1>5. CreditBounded'
  <2>1. ASSUME NEW s \in Counters, s[1] \notin raced PROVE Credited(s)'
    <3>1. s[1] \in Pairs /\ Credited(s)
      BY <2>1 DEF Counters, Inv, CreditBounded
    <3>2. measured[s] \in Nat /\ sent[s[1]] \in Nat /\ seen[s[1]] \in Nat
      BY <3>1 DEF Inv, TypeOK
    <3>3. CASE s = <<p, l>>
      <4>1. s[1] = p
        BY <3>3
      <4>2. sample'[s] = map[p] /\ measured'[s] = measured[s] + increase(s, map[p])
        BY <1>2, <3>3
      <4>3. measured'[s] <= sent[p] - seen[p] + map[p]
        BY <1>1, <1>3, <3>1, <3>2, <4>1, <4>2 DEF Credited
      <4> QED BY <1>1, <4>1, <4>2, <4>3 DEF Credited
    <3>4. CASE s # <<p, l>>
      BY <1>1, <1>2, <3>1, <3>4 DEF Credited
    <3> QED BY <3>3, <3>4
  <2> QED BY <1>1, <2>1 DEF Inv, CreditBounded
<1>6. /\ IsFiniteSet(DOMAIN map)' /\ NeverOvercounts' /\ PendingBounded'
      /\ OneBusy' /\ Exact'
  BY <1>1 DEF Inv, NeverOvercounts, PendingBounded, OneBusy, Exact, Busy, Full
<1> QED BY <1>4, <1>5, <1>6 DEF Inv

(* The process is started again.                                           *)
LEMMA RestartStep ==
  ASSUME Inv, Restart
  PROVE  Inv'
<1> USE TrafficMonAssumption
<1>1. /\ map' = [p \in {} |-> 0] /\ DOMAIN map' = {}
      /\ cpu' = [c \in Cpus |-> Idle]
      /\ seen' = [p \in Pairs |-> 0]
      /\ sample' = sample /\ measured' = measured /\ sent' = sent /\ raced' = raced
      /\ restarts' \in 0 .. MaxRestarts
  BY DEF Restart, Zero, prometheus, Inv, TypeOK
<1>2. IsFiniteSet(DOMAIN map') /\ Cardinality(DOMAIN map') = 0
  BY <1>1, FS_EmptySet
<1>3. TypeOK'
  BY <1>1, <1>2 DEF Restart, prometheus, labels, Inv, TypeOK
<1>4. \A p \in Pairs : Busy(p)' = {}
  BY <1>1 DEF Busy, Idle
<1>5. NeverOvercounts' /\ OneBusy' /\ Exact'
  BY <1>1, <1>4 DEF NeverOvercounts, OneBusy, Exact
<1>6. PendingBounded'
  BY <1>1 DEF PendingBounded, Idle
<1>7. CreditBounded'
  <2>1. \A p \in Pairs : seen'[p] <= sent'[p]
    BY <1>1 DEF Inv, TypeOK
  <2>2. ASSUME NEW s \in Counters, s[1] \notin raced PROVE Credited(s)'
    <3>1. s[1] \in Pairs /\ Credited(s)
      BY <2>2 DEF Counters, Inv, CreditBounded
    <3>2. /\ measured[s] \in Nat /\ sent[s[1]] \in Nat /\ seen[s[1]] \in Nat
          /\ seen'[s[1]] = 0
      BY <1>1, <3>1 DEF Inv, TypeOK
    <3>3. s[1] \in DOMAIN map => map[s[1]] \in Nat /\ map[s[1]] <= seen[s[1]]
      BY DEF Inv, TypeOK, NeverOvercounts
    <3>4. measured[s] <= sent[s[1]]
      BY <3>1, <3>2, <3>3 DEF Credited
    <3> QED BY <1>1, <3>2, <3>4 DEF Credited
  <2> QED BY <1>1, <2>1, <2>2 DEF CreditBounded
<1> QED BY <1>2, <1>3, <1>5, <1>6, <1>7 DEF Inv

LEMMA InitInv == Init => Inv
<1> SUFFICES ASSUME Init PROVE Inv
  OBVIOUS
<1> USE TrafficMonAssumption
<1>1. DOMAIN map = {} /\ IsFiniteSet(DOMAIN map) /\ Cardinality(DOMAIN map) = 0
  BY FS_EmptySet DEF Init
<1>2. TypeOK
  BY <1>1 DEF Init, TypeOK, Zero, None
<1>3. \A p \in Pairs : Busy(p) = {}
  BY DEF Init, Busy, Idle
<1>4. NeverOvercounts /\ OneBusy /\ Exact
  BY <1>1, <1>3 DEF Init, Zero, NeverOvercounts, OneBusy, Exact
<1>5. PendingBounded
  BY DEF Init, PendingBounded, Idle
<1>6. CreditBounded
  BY DEF Init, Zero, CreditBounded, Credited, Counters
<1> QED BY <1>1, <1>2, <1>4, <1>5, <1>6 DEF Inv

LEMMA InvHolds == Spec => []Inv
<1>1. Inv /\ [Next]_vars => Inv'
  <2> SUFFICES ASSUME Inv, [Next]_vars PROVE Inv'
    OBVIOUS
  <2>1. ASSUME NEW c \in Cpus, traffic_mon(c) PROVE Inv'
    BY <2>1, UpdateStep, LookupStep DEF traffic_mon
  <2>2. ASSUME NEW p \in Pairs, NEW l \in Labels, collect(p, l) PROVE Inv'
    BY <2>2, CollectStep
  <2>3. CASE Restart
    BY <2>3, RestartStep
  <2>4. CASE UNCHANGED vars
    BY <2>4 DEF vars, prometheus, labels, Inv, TypeOK, NeverOvercounts, PendingBounded,
       OneBusy, Exact, Busy, Full, CreditBounded, Credited
  <2> QED BY <2>1, <2>2, <2>3, <2>4 DEF Next
<1> QED BY <1>1, InitInv, PTL DEF Spec

-----------------------------------------------------------------------------
(* The map of the traffic monitor never outgrows its size, and counts are  *)
(* numbers.                                                                *)
THEOREM TypeCorrect == Spec => []TypeOK
<1>1. Inv => TypeOK
  BY DEF Inv
<1> QED BY <1>1, InvHolds, PTL

(* The unlocked read-modify-write of traffic_mon never makes a count       *)
(* exceed the traffic.                                                     *)
THEOREM CountsNeverExceedTraffic == Spec => []NeverOvercounts
<1>1. Inv => NeverOvercounts
  BY DEF Inv
<1> QED BY <1>1, InvHolds, PTL

(* A count lacks bytes only where two CPUs met on the pair or the map was  *)
(* full.                                                                   *)
THEOREM LossIsAccounted == Spec => []LossAccounted
<1>1. Inv => LossAccounted
  BY DEF Inv, Exact, Full, LossAccounted, TypeOK
<1> QED BY <1>1, InvHolds, PTL

(* No counter makes Prometheus see more than was sent, whatever restarts   *)
(* and changes of label there are, unless two CPUs met on the pair.        *)
THEOREM RateIsAccounted == Spec => []RateAccounted
<1>1. ASSUME Inv PROVE RateAccounted
  <2> SUFFICES ASSUME NEW s \in Counters, s[1] \notin raced PROVE measured[s] <= sent[s[1]]
    BY DEF RateAccounted
  <2>1. s[1] \in Pairs /\ Credited(s)
    BY <1>1 DEF Counters, Inv, CreditBounded
  <2>2. measured[s] \in Nat /\ sent[s[1]] \in Nat /\ seen[s[1]] \in Nat
    BY <1>1, <2>1 DEF Inv, TypeOK
  <2>3. s[1] \in DOMAIN map => map[s[1]] \in Nat /\ map[s[1]] <= seen[s[1]]
    BY <1>1 DEF Inv, TypeOK, NeverOvercounts
  <2> QED BY <2>1, <2>2, <2>3 DEF Credited
<1> QED BY <1>1, InvHolds, PTL
-----------------------------------------------------------------------------
(* The counters of a pair, added up.                                       *)
Total(p) == SumFunctionOnSet(measured, {p} \X Labels)

(* A counter has a sample only if the pair has, or had, its label.         *)
Fresh ==
  \A p \in Pairs, l \in Labels :
    l \notin left[p] \union label[p] => sample[<<p, l>>] = None

(* What the counters of a pair have been credited with is what earlier     *)
(* runs of the monitor were given and, if its counter has been sampled in  *)
(* this one, the sample of the label it has now.                           *)
TotalCredited(p) ==
  \/ Total(p) <= sent[p] - seen[p]
  \/ /\ p \in DOMAIN map
     /\ \E l \in Labels :
          /\ label[p] = {l}
          /\ sample[<<p, l>>] \in Nat /\ sample[<<p, l>>] <= map[p]
          /\ Total(p) <= sent[p] - seen[p] + sample[<<p, l>>]

TotalBounded == \A p \in Pairs \ (raced \union returned) : TotalCredited(p)

LEMMA TotalTyped ==
  ASSUME Inv, IsFiniteSet(Labels), NEW p \in Pairs
  PROVE  Total(p) \in Int
<1>1. PICK S : S = {p} \X Labels
  OBVIOUS
<1>2. IsFiniteSet(S)
  BY <1>1, FS_Singleton, FS_Product
<1>3. PICK f : f = measured
  OBVIOUS
<1>4. \A s \in S : f[s] \in Int
  BY <1>1, <1>3 DEF Inv, TypeOK, Counters
<1>5. SumFunctionOnSet(f, S) \in Int
  BY <1>2, <1>4, SumTyped
<1> QED BY <1>1, <1>3, <1>5 DEF Total

(* The collector adds to the total of its pair what it adds to a counter.  *)
LEMMA TotalCollected ==
  ASSUME Inv, IsFiniteSet(Labels), NEW p \in Pairs, NEW l \in Labels, collect(p, l),
         NEW q \in Pairs
  PROVE  Total(q)' = IF q = p THEN Total(q) + increase(<<p, l>>, map[p]) ELSE Total(q)
<1>1. PICK d : d = increase(<<p, l>>, map[p])
  OBVIOUS
<1>2. d \in Int
  BY <1>1 DEF collect, increase, Inv, TypeOK, Counters, None
<1>3. PICK f : f = measured
  OBVIOUS
<1>4. PICK h : h = measured'
  OBVIOUS
<1>5. h = [s \in Counters |-> IF s = <<p, l>> THEN f[s] + d ELSE f[s]]
  BY <1>1, <1>3, <1>4 DEF collect, set
<1>6. PICK S : S = {q} \X Labels
  OBVIOUS
<1>7. IsFiniteSet(S)
  BY <1>6, FS_Singleton, FS_Product
<1>8. \A s \in S : f[s] \in Int
  BY <1>3, <1>6 DEF Inv, TypeOK, Counters
<1>9. \A s \in S : h[s] = IF s = <<p, l>> THEN f[s] + d ELSE f[s]
  BY <1>5, <1>6 DEF Counters
<1>10. SumFunctionOnSet(h, S) =
         IF <<p, l>> \in S THEN SumFunctionOnSet(f, S) + d ELSE SumFunctionOnSet(f, S)
  <2>1. PICK x : x = <<p, l>>
    OBVIOUS
  <2>2. \A s \in S : h[s] = IF s = x THEN f[s] + d ELSE f[s]
    BY <1>9, <2>1
  <2>3. SumFunctionOnSet(h, S) =
          IF x \in S THEN SumFunctionOnSet(f, S) + d ELSE SumFunctionOnSet(f, S)
    BY <1>2, <1>7, <1>8, <2>2, SumOfChanged
  <2> QED BY <2>1, <2>3
<1>11. <<p, l>> \in S <=> q = p
  BY <1>6
<1>12. Total(q)' = SumFunctionOnSet(h, S) /\ Total(q) = SumFunctionOnSet(f, S)
  BY <1>3, <1>4, <1>6 DEF Total
<1> QED BY <1>1, <1>10, <1>11, <1>12

LEMMA TotalWithinSent ==
  ASSUME Inv, IsFiniteSet(Labels), NEW p \in Pairs, TotalCredited(p)
  PROVE  Total(p) <= sent[p]
<1>1. Total(p) \in Int /\ sent[p] \in Nat /\ seen[p] \in Nat
  BY TotalTyped DEF Inv, TypeOK
<1>2. p \in DOMAIN map => map[p] \in Nat /\ map[p] <= seen[p]
  BY DEF Inv, TypeOK, NeverOvercounts
<1>3. CASE Total(p) <= sent[p] - seen[p]
  BY <1>1, <1>3
<1>4. ASSUME p \in DOMAIN map, NEW l \in Labels,
             sample[<<p, l>>] \in Nat, sample[<<p, l>>] <= map[p],
             Total(p) <= sent[p] - seen[p] + sample[<<p, l>>]
      PROVE  Total(p) <= sent[p]
  BY <1>1, <1>2, <1>4
<1> QED BY <1>3, <1>4 DEF TotalCredited

LEMMA CollectTotal ==
  ASSUME Inv, IsFiniteSet(Labels), Fresh, TotalBounded,
         NEW p \in Pairs, NEW l \in Labels, collect(p, l)
  PROVE  Fresh' /\ TotalBounded'
<1>1. /\ UNCHANGED <<map, seen, sent, raced>> /\ p \in DOMAIN map /\ map[p] \in Nat
      /\ Relabel(p, l)
  BY DEF collect, Inv, TypeOK
<1>2. sample' = [s \in Counters |-> IF s = <<p, l>> THEN map[p] ELSE sample[s]]
  BY DEF collect, set
<1>3. \A q \in Pairs, k \in Labels :
        sample'[<<q, k>>] = IF q = p /\ k = l THEN map[p] ELSE sample[<<q, k>>]
  BY <1>2 DEF Counters
<1>4. \A q \in Pairs :
        /\ label'[q] = IF q = p THEN {l} ELSE label[q]
        /\ left'[q] = IF q = p THEN left[p] \union (label[p] \ {l}) ELSE left[q]
  BY <1>1 DEF Relabel, Inv, TypeOK
<1>5. Fresh'
  BY <1>3, <1>4 DEF Fresh
<1>6. returned \subseteq returned'
  BY <1>1 DEF Relabel
<1>7. ASSUME NEW q \in Pairs \ (raced \union returned'), q # p PROVE TotalCredited(q)'
  <2>1. Total(q)' = Total(q) /\ label'[q] = label[q]
    BY <1>4, <1>7, TotalCollected
  <2>2. \A k \in Labels : sample'[<<q, k>>] = sample[<<q, k>>]
    BY <1>3, <1>7
  <2>3. TotalCredited(q)
    BY <1>6, <1>7 DEF TotalBounded
  <2> QED BY <1>1, <2>1, <2>2, <2>3 DEF TotalCredited
<1>8. ASSUME p \notin raced, p \notin returned' PROVE TotalCredited(p)'
  <2> DEFINE d == increase(<<p, l>>, map[p])
             x == sample[<<p, l>>]
  <2>1. Total(p)' = Total(p) + d
    BY TotalCollected
  <2>2. /\ d \in Int /\ 0 <= d /\ d <= map[p]
        /\ x \in Nat /\ x <= map[p] => d = map[p] - x
        /\ x = None => d = 0
    BY <1>1 DEF increase, Inv, TypeOK, None, Counters
  <2>3. Total(p) \in Int /\ sent[p] \in Nat /\ seen[p] \in Nat
    BY TotalTyped DEF Inv, TypeOK
  <2>4. TotalCredited(p)
    BY <1>6, <1>8 DEF TotalBounded
  <2>5. l \in label[p] \/ l \notin left[p] \union label[p]
    BY <1>1, <1>8 DEF Relabel
  <2> HIDE DEF d
  <2>6. Total(p) + d <= sent[p] - seen[p] + map[p]
    <3>1. CASE Total(p) <= sent[p] - seen[p]
      BY <1>1, <2>2, <2>3, <3>1
    <3>2. ASSUME NEW k \in Labels, label[p] = {k}, sample[<<p, k>>] \in Nat,
                 sample[<<p, k>>] <= map[p],
                 Total(p) <= sent[p] - seen[p] + sample[<<p, k>>]
          PROVE  Total(p) + d <= sent[p] - seen[p] + map[p]
      <4>1. CASE l = k
        BY <1>1, <2>2, <2>3, <3>2, <4>1
      <4>2. CASE l # k
        <5>1. x = None
          BY <2>5, <3>2, <4>2 DEF Fresh
        <5> QED BY <1>1, <2>2, <2>3, <3>2, <5>1
      <4> QED BY <4>1, <4>2
    <3> QED BY <2>4, <3>1, <3>2 DEF TotalCredited
  <2>7. label'[p] = {l} /\ sample'[<<p, l>>] = map[p]
    BY <1>3, <1>4
  <2>8. map[p] <= map[p]
    BY <1>1
  <2> QED BY <1>1, <2>1, <2>6, <2>7, <2>8 DEF TotalCredited
<1>9. raced' = raced
  BY <1>1
<1> QED BY <1>5, <1>7, <1>8, <1>9 DEF TotalBounded

LEMMA TotalHolds == IsFiniteSet(Labels) => (Spec => [](Fresh /\ TotalBounded))
<1> SUFFICES ASSUME IsFiniteSet(Labels) PROVE Spec => [](Fresh /\ TotalBounded)
  OBVIOUS
<1> DEFINE I == Fresh /\ TotalBounded
<1>1. Init => I
  <2> SUFFICES ASSUME Init PROVE I
    OBVIOUS
  <2>1. Fresh
    BY DEF Init, Fresh, Counters
  <2>2. \A p \in Pairs : Total(p) = 0
    <3> SUFFICES ASSUME NEW p \in Pairs PROVE Total(p) = 0
      OBVIOUS
    <3>1. PICK S : S = {p} \X Labels
      OBVIOUS
    <3>2. IsFiniteSet(S)
      BY <3>1, FS_Singleton, FS_Product
    <3>3. PICK f : f = measured
      OBVIOUS
    <3>4. \A s \in S : f[s] = 0
      BY <3>1, <3>3 DEF Init, Counters
    <3>5. SumFunctionOnSet(f, S) = 0
      BY <3>2, <3>4, SumOfZeros
    <3> QED BY <3>1, <3>3, <3>5 DEF Total
  <2>3. TotalBounded
    BY <2>2 DEF Init, Zero, TotalBounded, TotalCredited
  <2> QED BY <2>1, <2>3
<1>2. Inv /\ Inv' /\ I /\ [Next]_vars => I'
  <2> SUFFICES ASSUME Inv, Inv', Fresh, TotalBounded, [Next]_vars PROVE Fresh' /\ TotalBounded'
    OBVIOUS
  <2>1. ASSUME UNCHANGED <<sample, measured, label, left, returned>>,
               raced \subseteq raced',
               \A p \in Pairs \ (raced' \union returned) :
                 /\ sent'[p] - seen'[p] = sent[p] - seen[p]
                 /\ p \in DOMAIN map => p \in DOMAIN map' /\ map[p] <= map'[p]
        PROVE  Fresh' /\ TotalBounded'
    <3>1. Fresh'
      BY <2>1 DEF Fresh
    <3>2. \A p \in Pairs : Total(p)' = Total(p)
      BY <2>1 DEF Total
    <3>3. ASSUME NEW p \in Pairs \ (raced' \union returned) PROVE TotalCredited(p)'
      <4>1. TotalCredited(p)
        BY <2>1, <3>3 DEF TotalBounded
      <4>2. CASE Total(p) <= sent[p] - seen[p]
        BY <2>1, <3>2, <3>3, <4>2 DEF TotalCredited
      <4>3. ASSUME p \in DOMAIN map,
                   NEW l \in Labels, label[p] = {l},
                   sample[<<p, l>>] \in Nat, sample[<<p, l>>] <= map[p],
                   Total(p) <= sent[p] - seen[p] + sample[<<p, l>>]
            PROVE  TotalCredited(p)'
        <5>1. p \in DOMAIN map' /\ sample[<<p, l>>] <= map'[p]
          <6>1. p \in DOMAIN map' /\ map[p] <= map'[p]
            BY <2>1, <3>3, <4>3
          <6>2. map[p] \in Nat /\ map'[p] \in Nat
            BY <4>3, <6>1 DEF Inv, TypeOK
          <6> QED BY <4>3, <6>1, <6>2
        <5>2. Total(p)' <= sent'[p] - seen'[p] + sample'[<<p, l>>]
          BY <2>1, <3>2, <3>3, <4>3
        <5> QED BY <2>1, <4>3, <5>1, <5>2 DEF TotalCredited
      <4> QED BY <4>1, <4>2, <4>3 DEF TotalCredited
    <3> QED BY <2>1, <3>1, <3>3 DEF TotalBounded
  <2>2. \A p \in DOMAIN map : map[p] \in Nat /\ map[p] <= map[p]
    BY DEF Inv, TypeOK
  <2>3. ASSUME NEW c \in Cpus, NEW p \in Pairs, NEW len \in Lengths, lookup(c, p, len)
        PROVE  Fresh' /\ TotalBounded'
    <3>1. \A q \in Pairs : sent'[q] - seen'[q] = sent[q] - seen[q]
      BY <2>3, TrafficMonAssumption DEF lookup, Inv, TypeOK
    <3>2. UNCHANGED <<map, sample, measured, label, left, returned>> /\ raced \subseteq raced'
      BY <2>3 DEF lookup, prometheus, labels
    <3> QED BY <2>1, <2>2, <3>1, <3>2
  <2>4. ASSUME NEW c \in Cpus, update(c) PROVE Fresh' /\ TotalBounded'
    <3>1. UNCHANGED <<sample, measured, label, left, returned, seen, sent, raced>>
      BY <2>4 DEF update, prometheus, labels
    <3>2. /\ DOMAIN map \subseteq DOMAIN map'
          /\ \A q \in DOMAIN map : q \in raced \/ map[q] <= map'[q]
      BY <2>4, UpdateStep
    <3> QED BY <2>1, <3>1, <3>2
  <2>5. ASSUME NEW p \in Pairs, NEW l \in Labels, collect(p, l) PROVE Fresh' /\ TotalBounded'
    BY <2>5, CollectTotal
  <2>6. CASE Restart
    <3>1. /\ UNCHANGED <<sample, measured, label, left, returned, sent, raced>>
          /\ seen' = [p \in Pairs |-> 0]
      BY <2>6 DEF Restart, Zero, prometheus, labels
    <3>2. Fresh'
      BY <3>1 DEF Fresh
    <3>3. ASSUME NEW p \in Pairs \ (raced \union returned) PROVE TotalCredited(p)'
      <4>1. Total(p)' = Total(p)
        BY <3>1 DEF Total
      <4>2. Total(p) <= sent[p]
        BY <3>3, TotalWithinSent DEF TotalBounded
      <4>3. sent'[p] - seen'[p] = sent[p]
        BY <3>1 DEF Inv, TypeOK
      <4> QED BY <4>1, <4>2, <4>3 DEF TotalCredited
    <3> QED BY <3>1, <3>2, <3>3 DEF TotalBounded
  <2>7. CASE UNCHANGED vars
    BY <2>1, <2>2, <2>7 DEF vars, prometheus, labels
  <2> QED BY <2>3, <2>4, <2>5, <2>6, <2>7 DEF Next, traffic_mon
<1> QED BY <1>1, <1>2, InvHolds, PTL DEF Spec

(* The counters of a pair together never make Prometheus see more than was *)
(* sent, unless two CPUs met on the pair or it came back to a label it had *)
(* left: no change of label for good, and no restart, counts a byte twice. *)
THEOREM BytesCountOnce == IsFiniteSet(Labels) => (Spec => []CountedOnce)
<1> SUFFICES ASSUME IsFiniteSet(Labels) PROVE Spec => []CountedOnce
  OBVIOUS
<1>1. Inv /\ TotalBounded => CountedOnce
  BY TotalWithinSent DEF TotalBounded, CountedOnce, Total
<1> QED BY <1>1, InvHolds, TotalHolds, PTL
=============================================================================
