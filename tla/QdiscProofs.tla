----------------------------- MODULE QdiscProofs -----------------------------
(***************************************************************************)
(* Proofs about the startup of the traffic control tree, for every         *)
(* configuration QdiscAssumption allows (up to 98 netem classes, rates up  *)
(* to that of the open leaf, delays that fit uint32), every way its float  *)
(* arithmetic may fall short of a whole number, and any number of faults.  *)
(***************************************************************************)
EXTENDS Qdisc, FiniteSetTheorems, TLAPS

-----------------------------------------------------------------------------
(* Arithmetic of generateQdiscLeafNodes: its float division, truncated, as *)
(* a function of the numerator.                                            *)

LEMMA DivBounds ==
  ASSUME NEW a \in Nat, NEW d \in Nat \ {0}
  PROVE  a \div d \in Nat /\ (a \div d) * d <= a /\ a < (a \div d) * d + d
OBVIOUS

LEMMA TimesMonotone ==
  ASSUME NEW p \in Nat, NEW q \in Nat, NEW d \in Nat, p <= q
  PROVE  p * d <= q * d
OBVIOUS

LEMMA DivMonotone ==
  ASSUME NEW a \in Nat, NEW b \in Nat, NEW d \in Nat \ {0}, a <= b
  PROVE  a \div d <= b \div d
<1> DEFINE p == a \div d
           q == b \div d
<1>1. p \in Nat /\ q \in Nat /\ p * d <= a /\ b < q * d + d
  BY DivBounds
<1> HIDE DEF p, q
<1>2. ASSUME q < p PROVE FALSE
  <2>1. (q + 1) * d <= p * d
    BY <1>1, <1>2, TimesMonotone
  <2>2. (q + 1) * d = q * d + d
    BY <1>1
  <2>3. p * d \in Int /\ q * d \in Int
    BY <1>1
  <2> QED BY <1>1, <2>1, <2>2, <2>3
<1>3. p <= q
  BY <1>1, <1>2
<1> QED BY <1>3 DEF p, q

(* Numerators at least a divisor apart stay apart when truncated.          *)
LEMMA DivStrict ==
  ASSUME NEW a \in Nat, NEW b \in Nat, NEW d \in Nat \ {0}, a + d <= b
  PROVE  a \div d < b \div d
<1> DEFINE p == a \div d
           q == b \div d
<1>1. p \in Nat /\ q \in Nat /\ p * d <= a /\ b < q * d + d
  BY DivBounds
<1> HIDE DEF p, q
<1>2. ASSUME q <= p PROVE FALSE
  <2>1. q * d <= p * d
    BY <1>1, <1>2, TimesMonotone
  <2>2. p * d \in Int /\ q * d \in Int
    BY <1>1
  <2> QED BY <1>1, <2>1, <2>2
<1>3. p < q
  BY <1>1, <1>2
<1> QED BY <1>3 DEF p, q

LEMMA DivExact ==
  ASSUME NEW a \in Nat, NEW d \in Nat \ {0}
  PROVE  (a * d) \div d = a
<1> DEFINE q == (a * d) \div d
<1>1. a * d \in Nat
  OBVIOUS
<1>2. q \in Nat /\ q * d <= a * d /\ a * d < q * d + d
  BY <1>1, DivBounds
<1> HIDE DEF q
<1>3. q * d \in Int /\ a * d \in Int
  BY <1>2
<1>4. ASSUME q < a PROVE FALSE
  <2>1. (q + 1) * d <= a * d
    BY <1>2, <1>4, TimesMonotone
  <2>2. (q + 1) * d = q * d + d
    BY <1>2
  <2> QED BY <1>2, <1>3, <2>1, <2>2
<1>5. ASSUME a < q PROVE FALSE
  <2>1. (a + 1) * d <= q * d
    BY <1>2, <1>5, TimesMonotone
  <2>2. (a + 1) * d = a * d + d
    OBVIOUS
  <2> QED BY <1>2, <1>3, <2>1, <2>2
<1>6. q = a
  BY <1>2, <1>4, <1>5
<1> QED BY <1>6 DEF q

-----------------------------------------------------------------------------
(* The leaves of generateQdiscLeafNodes.                                   *)

(* The numerators of leaf n, exact and as the float arithmetic has them.   *)
RateExact(n) ==
  KBit * ((NumQdiscClasses - n) * (StartRateKbs - MinRateKbs)
            + NumQdiscClasses * MinRateKbs)
DelayExact(n) == n * MaxDelayMs * Ms

Less(n, field) == IF <<n, field>> \in Short THEN 1 ELSE 0

RateOver(n) == RateExact(n) - Less(n, "rate")
DelayOver(n) == DelayExact(n) - Less(n, "delay")
VarianceOver(n) == DelayExact(n) - Less(n, "variance")

(* Where something may be lost, there is something to lose it from.        *)
LEMMA LessThan ==
  ASSUME NEW n, NEW field \in {"rate", "delay", "variance"}
  PROVE  /\ Less(n, field) \in {0, 1}
         /\ Less(n, field) = 1 =>
              /\ n \in 1 .. (NumQdiscClasses - 1)
              /\ IF field = "rate" THEN StartRateKbs > MinRateKbs ELSE MaxDelayMs > 0
<1>1. Less(n, field) \in {0, 1}
  BY DEF Less
<1>2. ASSUME Less(n, field) = 1
      PROVE  /\ n \in 1 .. (NumQdiscClasses - 1)
             /\ IF field = "rate" THEN StartRateKbs > MinRateKbs ELSE MaxDelayMs > 0
  <2>1. <<n, field>> \in Short
    BY <1>2 DEF Less
  <2>2. <<n, field>> \in (1 .. (NumQdiscClasses - 1)) \X {"rate", "delay", "variance"}
    BY <2>1, QdiscAssumption
  <2>3. IF <<n, field>>[2] = "rate" THEN StartRateKbs > MinRateKbs ELSE MaxDelayMs > 0
    BY <2>1, QdiscAssumption
  <2> QED BY <2>2, <2>3
<1> QED BY <1>1, <1>2

LEMMA Numerators ==
  ASSUME NEW n \in 1 .. NumQdiscClasses
  PROVE  /\ RateExact(n) \in Nat /\ DelayExact(n) \in Nat
         /\ RateOver(n) \in Nat /\ DelayOver(n) \in Nat /\ VarianceOver(n) \in Nat
<1> DEFINE left == NumQdiscClasses - n
           span == StartRateKbs - MinRateKbs
<1>1. /\ left \in Nat /\ span \in Nat /\ n \in Nat \ {0} /\ MaxDelayMs \in Nat
      /\ NumQdiscClasses \in Nat \ {0} /\ MinRateKbs \in Nat \ {0}
  BY QdiscAssumption
<1>2. RateExact(n) = KBit * (left * span + NumQdiscClasses * MinRateKbs)
  BY DEF RateExact
<1> HIDE DEF left, span
<1>3. left * span \in Nat /\ NumQdiscClasses * MinRateKbs \in Nat
  BY <1>1
<1>4. 1 * MinRateKbs <= NumQdiscClasses * MinRateKbs
  BY <1>1, TimesMonotone
<1>5. RateExact(n) \in Nat /\ RateExact(n) >= 1
  BY <1>1, <1>2, <1>3, <1>4 DEF KBit
<1>6. n * MaxDelayMs \in Nat /\ 1 * MaxDelayMs <= n * MaxDelayMs
  BY <1>1, TimesMonotone
<1>7. DelayExact(n) \in Nat /\ (MaxDelayMs > 0 => DelayExact(n) >= 1)
  BY <1>1, <1>6 DEF DelayExact, Ms
<1>8. RateOver(n) \in Nat
  BY <1>5, LessThan DEF RateOver
<1>9. DelayOver(n) \in Nat
  <2>1. Less(n, "delay") \in {0, 1} /\ (Less(n, "delay") = 1 => MaxDelayMs > 0)
    BY LessThan
  <2> QED BY <2>1, <1>7 DEF DelayOver
<1>10. VarianceOver(n) \in Nat
  <2>1. Less(n, "variance") \in {0, 1} /\ (Less(n, "variance") = 1 => MaxDelayMs > 0)
    BY LessThan
  <2> QED BY <2>1, <1>7 DEF VarianceOver
<1> QED BY <1>5, <1>7, <1>8, <1>9, <1>10

LEMMA LeafFields ==
  ASSUME NEW n \in 1 .. NumQdiscClasses
  PROVE  /\ generateQdiscLeafNodes[n] \in LeafConfig
         /\ generateQdiscLeafNodes[n].rate = RateOver(n) \div NumQdiscClasses
         /\ generateQdiscLeafNodes[n].delay = DelayOver(n) \div NumQdiscClasses
         /\ generateQdiscLeafNodes[n].kind = "netem"
<1> DEFINE rate == RateOver(n) \div NumQdiscClasses
<1>1. n \in 0 .. NumQdiscClasses /\ n # 0 /\ NumQdiscClasses \in Nat \ {0}
  BY QdiscAssumption
<1>2. generateQdiscLeafNodes[n] = netemLeaf(n)
  BY <1>1 DEF generateQdiscLeafNodes
<1>3. netemLeaf(n) = [rate |-> rate, ceil |-> rate, kind |-> "netem",
                      delay |-> DelayOver(n) \div NumQdiscClasses,
                      variance |-> VarianceOver(n) \div (10 * NumQdiscClasses)]
  BY DEF netemLeaf, netemAt, Truncated, Less, RateExact, DelayExact,
         RateOver, DelayOver, VarianceOver
<1>4. 10 * NumQdiscClasses \in Nat \ {0}
  BY <1>1
<1>5. /\ RateOver(n) \div NumQdiscClasses \in Nat
      /\ DelayOver(n) \div NumQdiscClasses \in Nat
      /\ VarianceOver(n) \div (10 * NumQdiscClasses) \in Nat
  BY <1>1, <1>4, Numerators, DivBounds
<1> QED BY <1>2, <1>3, <1>5 DEF LeafConfig

LEMMA LeafTyped ==
  ASSUME NEW n \in 0 .. NumQdiscClasses
  PROVE  /\ generateQdiscLeafNodes[n] \in LeafConfig
         /\ generateQdiscLeafNodes[n].rate \in Nat
         /\ generateQdiscLeafNodes[n].kind = IF n = 0 THEN "prio" ELSE "netem"
<1>1. CASE n = 0
  BY <1>1 DEF generateQdiscLeafNodes, LeafConfig, MBit
<1>2. CASE n # 0
  <2>1. n \in 1 .. NumQdiscClasses
    BY <1>2, QdiscAssumption
  <2>2. generateQdiscLeafNodes[n] \in LeafConfig /\ generateQdiscLeafNodes[n].kind = "netem"
    BY <2>1, LeafFields
  <2> QED BY <1>2, <2>2 DEF LeafConfig
<1> QED BY <1>1, <1>2

(* One step down the ladder takes a thousand times the span of the rates   *)
(* from the numerator, and truncation gives one of it back, which leaves   *)
(* more than the divisor: the ladder stays strict in whole bits per second.*)
LEMMA RateStep ==
  ASSUME NEW n \in 1 .. NumQdiscClasses, NumQdiscClasses > 0
  PROVE  LET rate(m) == generateQdiscLeafNodes[m].rate IN
         /\ rate(n) <= rate(n - 1)
         /\ StartRateKbs > MinRateKbs => rate(n) < rate(n - 1)
<1> DEFINE d == NumQdiscClasses
           span == StartRateKbs - MinRateKbs
           exact(m) == IF m = 0 THEN (95 * MBit) * d ELSE RateExact(m)
           over(m) == IF m = 0 THEN (95 * MBit) * d ELSE RateOver(m)
<1>0. d \in Nat \ {0} /\ d <= 98 /\ span \in Nat /\ n \in 0 .. d /\ n - 1 \in 0 .. d
  BY QdiscAssumption
<1>1. over(n) \in Nat /\ over(n - 1) \in Nat /\ exact(n) \in Nat /\ exact(n - 1) \in Nat
  BY <1>0, Numerators DEF MBit
<1>2. exact(n) + KBit * span <= exact(n - 1)
  <2>1. CASE n = 1
    <3>1. RateExact(1) = KBit * (d * StartRateKbs - span)
      <4>1. (d - 1) * span = d * span - span /\ d * span + d * MinRateKbs = d * StartRateKbs
        BY QdiscAssumption
      <4>2. d * span \in Int /\ d * MinRateKbs \in Int /\ d * StartRateKbs \in Int
        BY QdiscAssumption
      <4> QED BY <4>1, <4>2, <1>0 DEF RateExact, KBit
    <3>2. StartRateKbs * d <= 95000 * d
      BY QdiscAssumption, TimesMonotone
    <3>3. d * StartRateKbs = StartRateKbs * d /\ StartRateKbs * d \in Int
      BY QdiscAssumption
    <3> QED BY <2>1, <3>1, <3>2, <3>3, <1>0 DEF KBit, MBit
  <2>2. CASE n # 1
    <3>1. exact(n) = RateExact(n) /\ exact(n - 1) = RateExact(n - 1)
      BY <2>2, <1>0
    <3>2. (d - (n - 1)) * span = (d - n) * span + span
      BY <1>0
    <3>3. (d - n) * span \in Int /\ d * MinRateKbs \in Int
      BY <1>0, QdiscAssumption
    <3> QED BY <1>0, <3>1, <3>2, <3>3 DEF RateExact, KBit
  <2> QED BY <2>1, <2>2
<1>3. ASSUME NEW m \in {n - 1, n}
      PROVE  generateQdiscLeafNodes[m].rate = over(m) \div d
  <2>1. CASE m = 0
    <3>1. over(m) \div d = 95 * MBit
      BY <2>1, <1>0, DivExact DEF MBit
    <3>2. generateQdiscLeafNodes[m].rate = 95 * MBit
      BY <2>1, <1>0 DEF generateQdiscLeafNodes
    <3> QED BY <3>1, <3>2
  <2>2. CASE m # 0
    BY <2>2, <1>0, LeafFields
  <2> QED BY <2>1, <2>2
<1>6. over(n) <= exact(n) /\ exact(n - 1) <= over(n - 1) + 1
      /\ (span = 0 => exact(n - 1) = over(n - 1))
  <2>1. ASSUME NEW m \in {n - 1, n}
        PROVE  /\ exact(m) - 1 <= over(m) /\ over(m) <= exact(m)
               /\ span = 0 => over(m) = exact(m)
    <3>1. Less(m, "rate") \in {0, 1} /\ (Less(m, "rate") = 1 => span # 0)
      BY LessThan, QdiscAssumption
    <3>2. exact(m) \in Nat /\ (over(m) = exact(m) \/ over(m) = exact(m) - Less(m, "rate"))
      BY <1>1 DEF RateOver
    <3> HIDE DEF over, exact, span
    <3> QED BY <3>1, <3>2
  <2> HIDE DEF over, exact, span
  <2> QED BY <2>1, <1>1, <1>0
<1> HIDE DEF exact, over, d, span
<1>4. over(n) \div d <= over(n - 1) \div d
  <2>1. over(n) <= over(n - 1)
    BY <1>0, <1>1, <1>2, <1>6 DEF KBit
  <2> QED BY <1>0, <1>1, <2>1, DivMonotone
<1>5. ASSUME StartRateKbs > MinRateKbs PROVE over(n) \div d < over(n - 1) \div d
  <2>1. span >= 1
    BY <1>5, QdiscAssumption DEF span
  <2>2. over(n) + d <= over(n - 1)
    BY <1>0, <1>1, <1>2, <1>6, <2>1 DEF KBit
  <2> QED BY <1>0, <1>1, <2>2, DivStrict
<1> QED BY <1>3, <1>4, <1>5

LEMMA DelayStep ==
  ASSUME NEW n \in 1 .. NumQdiscClasses
  PROVE  generateQdiscLeafNodes[n].delay >= generateQdiscLeafNodes[n - 1].delay
<1>0. /\ NumQdiscClasses \in Nat \ {0} /\ MaxDelayMs \in Nat
      /\ n \in 0 .. NumQdiscClasses /\ n - 1 \in 0 .. NumQdiscClasses
  BY QdiscAssumption
<1>1. DelayOver(n) \in Nat /\ DelayOver(n) \div NumQdiscClasses \in Nat
  BY <1>0, Numerators, DivBounds
<1>2. generateQdiscLeafNodes[n].delay = DelayOver(n) \div NumQdiscClasses
  BY LeafFields
<1>3. CASE n = 1
  <2>1. generateQdiscLeafNodes[n - 1].delay = 0
    BY <1>0, <1>3 DEF generateQdiscLeafNodes
  <2> QED BY <1>1, <1>2, <2>1
<1>4. CASE n # 1
  <2>1. n - 1 \in 1 .. NumQdiscClasses
    BY <1>0, <1>4
  <2>2. DelayOver(n - 1) \in Nat
    BY <2>1, Numerators
  <2>3. DelayOver(n - 1) <= DelayOver(n)
    <3>1. DelayExact(n) = DelayExact(n - 1) + MaxDelayMs * Ms
      <4>1. n * MaxDelayMs = (n - 1) * MaxDelayMs + MaxDelayMs
        BY <1>0
      <4>2. (n - 1) * MaxDelayMs \in Int
        BY <1>0
      <4> QED BY <4>1, <4>2, <1>0 DEF DelayExact, Ms
    <3>2. /\ Less(n, "delay") \in {0, 1} /\ (Less(n, "delay") = 1 => MaxDelayMs > 0)
          /\ Less(n - 1, "delay") \in {0, 1}
      BY LessThan
    <3>3. DelayExact(n - 1) \in Nat
      BY <2>1, Numerators
    <3>4. Less(n, "delay") <= MaxDelayMs * Ms
      BY <1>0, <3>2 DEF Ms
    <3>5. MaxDelayMs * Ms \in Nat
      BY <1>0 DEF Ms
    <3> QED BY <3>1, <3>2, <3>3, <3>4, <3>5 DEF DelayOver
  <2>4. DelayOver(n - 1) \div NumQdiscClasses <= DelayOver(n) \div NumQdiscClasses
    BY <1>0, <1>1, <2>2, <2>3, DivMonotone
  <2>5. generateQdiscLeafNodes[n - 1].delay = DelayOver(n - 1) \div NumQdiscClasses
    BY <2>1, LeafFields
  <2>6. DelayOver(n - 1) \div NumQdiscClasses \in Nat
    BY <1>0, <2>2, DivBounds
  <2> QED BY <1>1, <1>2, <2>4, <2>5, <2>6
<1> QED BY <1>3, <1>4

(* The last leaf has the configured minimum rate and maximum delay.        *)
LEMMA LastLeaf ==
  ASSUME NumQdiscClasses > 0
  PROVE  /\ generateQdiscLeafNodes[NumQdiscClasses].rate = MinRateKbs * KBit
         /\ generateQdiscLeafNodes[NumQdiscClasses].delay = MaxDelayMs * Ms
<1> DEFINE d == NumQdiscClasses
<1>1. d \in Nat \ {0} /\ d \in 1 .. NumQdiscClasses
  BY QdiscAssumption
<1>7. Less(d, "rate") = 0 /\ Less(d, "delay") = 0
  <2>1. d \notin 1 .. (NumQdiscClasses - 1)
    BY <1>1
  <2> QED BY <2>1, LessThan
<1>2. RateOver(d) = (MinRateKbs * KBit) * d
  <2>1. (d - d) * (StartRateKbs - MinRateKbs) = 0
    BY <1>1, QdiscAssumption
  <2>2. KBit * (d * MinRateKbs) = (MinRateKbs * KBit) * d
    BY <1>1, QdiscAssumption DEF KBit
  <2>3. d * MinRateKbs \in Int
    BY <1>1, QdiscAssumption
  <2>4. (MinRateKbs * KBit) * d \in Int
    BY <1>1, QdiscAssumption DEF KBit
  <2>5. RateExact(d) = (MinRateKbs * KBit) * d
    BY <2>1, <2>2, <2>3 DEF RateExact
  <2> QED BY <2>4, <2>5, <1>7 DEF RateOver
<1>3. DelayOver(d) = (MaxDelayMs * Ms) * d
  <2>1. DelayExact(d) = (MaxDelayMs * Ms) * d /\ (MaxDelayMs * Ms) * d \in Int
    BY <1>1, QdiscAssumption DEF DelayExact, Ms
  <2> QED BY <2>1, <1>7 DEF DelayOver
<1>4. MinRateKbs * KBit \in Nat /\ MaxDelayMs * Ms \in Nat
  BY QdiscAssumption DEF KBit, Ms
<1>5. generateQdiscLeafNodes[d].rate = RateOver(d) \div d
  BY <1>1, LeafFields
<1>6. generateQdiscLeafNodes[d].delay = DelayOver(d) \div d
  BY <1>1, LeafFields
<1> QED BY <1>1, <1>2, <1>3, <1>4, <1>5, <1>6, DivExact

-----------------------------------------------------------------------------
(* The inductive invariant: what is in the kernel at each step of startup. *)

Handles(n) == {16 * i : i \in 1 .. n}

(* f holds the class of each of the first n leaves, or the qdisc.          *)
ClassFor(n) == HtbClass(generateQdiscLeafNodes[n].rate, generateQdiscLeafNodes[n].rate)
ClassesOf(f, n) ==
  /\ DOMAIN f = {1} \union Handles(n)
  /\ \A i \in 1 .. n : f[16 * i] = ClassFor(i - 1)
QdiscsOf(f, n) ==
  /\ DOMAIN f = Handles(n)
  /\ \A i \in 1 .. n : f[16 * i] = generateQdiscLeafNodes[i - 1]

Built(c, l) == root /\ ClassesOf(classes, c) /\ QdiscsOf(leaves, l)

Bare == DOMAIN classes = {} /\ DOMAIN leaves = {}

AfterTree ==
  {"delLan", "addLan", "delWan", "addWan", "snifferEgress", "snifferIngress",
   "monitor", "ready"}

(* Nothing hangs below a root that is not there, so a start that gets past *)
(* addRoot begins with a bare tree and knows every object in it.           *)
TreeInv ==
  /\ ~root => Bare
  /\ pc \in {"delRoot", "addRoot", "addRootClass"} => idx = 0
  /\ pc = "addRootClass" => root /\ Bare
  /\ pc = "leafClass" => idx <= NumQdiscClasses /\ Built(idx, idx)
  /\ pc = "leafQdisc" => idx <= NumQdiscClasses /\ Built(idx + 1, idx)
  /\ pc \in AfterTree => Built(NumQdiscClasses + 1, NumQdiscClasses + 1)

Hook(iface, direction, program) ==
  [iface |-> iface, direction |-> direction, program |-> program, own |-> TRUE]

SnifferEgress == Hook("wan", "egress", "sniffer")
SnifferIngress == Hook("wan", "ingress", "sniffer")
Monitor == Hook("lan", "egress", "monitor")

(* A new clsact qdisc has empty hooks: once both are replaced, only this   *)
(* process has programs there.                                             *)
HookInv ==
  /\ pc \in {"delWan", "addWan"} => \A p \in hooks : p.iface # "lan"
  /\ pc = "snifferEgress" => hooks = {}
  /\ pc = "snifferIngress" => hooks = {SnifferEgress}
  /\ pc = "monitor" => hooks = {SnifferEgress, SnifferIngress}
  /\ pc = "ready" => hooks = {SnifferEgress, SnifferIngress, Monitor}

QdiscInv == TypeOK /\ TreeInv /\ HookInv

(* Class ids of 16 bits do not wrap.                                       *)
LEMMA HandleIs ==
  ASSUME NEW n \in 0 .. NumQdiscClasses
  PROVE  handleId(n) = 16 * (n + 1) /\ Uint16(handleId(n))
BY QdiscAssumption DEF handleId, Uint16

(* One more handle; it is new and is not the root class's.                 *)
LEMMA HandleAdded ==
  ASSUME NEW n \in Nat
  PROVE  /\ Handles(n + 1) = Handles(n) \union {16 * (n + 1)}
         /\ \A i \in 1 .. n : 16 * i # 16 * (n + 1) /\ 16 * i \in Handles(n)
         /\ 16 * (n + 1) # 1 /\ 16 * (n + 1) \notin Handles(n)
BY DEF Handles

LEMMA ExtendTyped ==
  ASSUME NEW S, NEW f, NEW h, NEW v \in S, Uint16(h),
         \A x \in DOMAIN f : Uint16(x) /\ f[x] \in S
  PROVE  \A x \in DOMAIN Extend(f, h, v) : Uint16(x) /\ Extend(f, h, v)[x] \in S
BY DEF Extend

(* createLeafQdiscs adds leaf n to what it made for the n before it.       *)
LEMMA ClassAdded ==
  ASSUME NEW n \in 0 .. NumQdiscClasses, NEW f, ClassesOf(f, n)
  PROVE  ClassesOf(Extend(f, handleId(n), ClassFor(n)), n + 1)
<1> DEFINE h == 16 * (n + 1)
           v == ClassFor(n)
           g == Extend(f, h, v)
<1>0. handleId(n) = h /\ n \in Nat
  BY HandleIs
<1>1. DOMAIN g = DOMAIN f \union {h} /\ g[h] = v
  BY DEF Extend
<1>2. \A x \in DOMAIN f : x # h => g[x] = f[x]
  BY DEF Extend
<1> HIDE DEF g, v
<1>3. DOMAIN g = {1} \union Handles(n + 1)
  BY <1>0, <1>1, HandleAdded DEF ClassesOf
<1>4. ASSUME NEW i \in 1 .. (n + 1) PROVE g[16 * i] = ClassFor(i - 1)
  <2>1. CASE i = n + 1
    BY <1>0, <1>1, <2>1 DEF v
  <2>2. CASE i # n + 1
    <3>1. i \in 1 .. n
      BY <1>0, <2>2
    <3>2. 16 * i \in DOMAIN f /\ 16 * i # h
      BY <1>0, <3>1, HandleAdded DEF ClassesOf
    <3> QED BY <1>2, <3>1, <3>2 DEF ClassesOf
  <2> QED BY <2>1, <2>2
<1>5. ClassesOf(g, n + 1)
  BY <1>3, <1>4 DEF ClassesOf
<1> QED BY <1>0, <1>5 DEF g, v

LEMMA QdiscAdded ==
  ASSUME NEW n \in 0 .. NumQdiscClasses, NEW f, QdiscsOf(f, n)
  PROVE  QdiscsOf(Extend(f, handleId(n), generateQdiscLeafNodes[n]), n + 1)
<1> DEFINE h == 16 * (n + 1)
           v == generateQdiscLeafNodes[n]
           g == Extend(f, h, v)
<1>0. handleId(n) = h /\ n \in Nat
  BY HandleIs
<1>1. DOMAIN g = DOMAIN f \union {h} /\ g[h] = v
  BY DEF Extend
<1>2. \A x \in DOMAIN f : x # h => g[x] = f[x]
  BY DEF Extend
<1> HIDE DEF g, v
<1>3. DOMAIN g = Handles(n + 1)
  BY <1>0, <1>1, HandleAdded DEF QdiscsOf
<1>4. ASSUME NEW i \in 1 .. (n + 1) PROVE g[16 * i] = generateQdiscLeafNodes[i - 1]
  <2>1. CASE i = n + 1
    BY <1>0, <1>1, <2>1 DEF v
  <2>2. CASE i # n + 1
    <3>1. i \in 1 .. n
      BY <1>0, <2>2
    <3>2. 16 * i \in DOMAIN f /\ 16 * i # h
      BY <1>0, <3>1, HandleAdded DEF QdiscsOf
    <3> QED BY <1>2, <3>1, <3>2 DEF QdiscsOf
  <2> QED BY <2>1, <2>2
<1>5. QdiscsOf(g, n + 1)
  BY <1>3, <1>4 DEF QdiscsOf
<1> QED BY <1>0, <1>5 DEF g, v

(* TypeOK by parts: startup's own state, the tree, the hooks.              *)
ProcTyped ==
  pc \in Steps /\ idx \in 0 .. (NumQdiscClasses + 1) /\ faults \in 0 .. MaxFaults
AnyClass == [rate : Nat, ceil : Nat]
ClassesTyped == \A h \in DOMAIN classes : Uint16(h) /\ classes[h] \in AnyClass
LeavesTyped == \A h \in DOMAIN leaves : Uint16(h) /\ leaves[h] \in LeafConfig
AnyHook ==
  [iface : Interfaces, direction : {"egress", "ingress"},
   program : {"sniffer", "monitor"}, own : BOOLEAN]
HooksTyped == clsact \subseteq Interfaces /\ hooks \subseteq AnyHook

LEMMA TypeParts ==
  TypeOK <=> /\ ProcTyped /\ root \in BOOLEAN
             /\ ClassesTyped /\ LeavesTyped /\ HooksTyped
BY DEF TypeOK, ProcTyped, ClassesTyped, AnyClass, LeavesTyped, HooksTyped, AnyHook

LEMMA ProcStep ==
  ASSUME ProcTyped, TreeInv, [Next]_vars
  PROVE  ProcTyped'
<1> USE DEF ProcTyped, Steps
<1>1. CASE Start
  BY <1>1, QdiscAssumption DEF Start, Goto
<1>2. CASE delRoot
  BY <1>2, QdiscAssumption DEF delRoot, Goto, Fails
<1>3. CASE addRoot
  BY <1>3 DEF addRoot, Add, Goto
<1>4. CASE addRootClass
  BY <1>4 DEF addRootClass, Add, Goto
<1>5. CASE leafClass
  BY <1>5 DEF leafClass, Add, Goto
<1>6. CASE leafQdisc
  <2>1. /\ pc = "leafQdisc" /\ pc' \in {"delLan", "leafClass"}
        /\ idx' = idx + 1 /\ faults' = faults
    BY <1>6 DEF leafQdisc, Add, Goto
  <2>2. idx <= NumQdiscClasses
    BY <2>1 DEF TreeInv
  <2> QED BY <2>1, <2>2, QdiscAssumption
<1>7. ASSUME NEW iface \in Interfaces, delClsact(iface) PROVE ProcTyped'
  <2>1. pc' \in {"addLan", "addWan"} /\ idx' = idx
    BY <1>7 DEF delClsact, Goto
  <2>2. faults' \in 0 .. MaxFaults
    <3>1. faults' = faults \/ Fails
      BY <1>7 DEF delClsact
    <3> QED BY <3>1, QdiscAssumption DEF Fails
  <2> QED BY <2>1, <2>2
<1>8. ASSUME NEW iface \in Interfaces, addClsact(iface) PROVE ProcTyped'
  BY <1>8 DEF addClsact, Add, Goto
<1>9. CASE attachDnsSniffer \/ attachTrafficMonitor
  BY <1>9 DEF attachDnsSniffer, attachTrafficMonitor, Attach, Goto
<1>10. CASE Fatal
  BY <1>10 DEF Fatal
<1>11. CASE Die
  BY <1>11, QdiscAssumption DEF Die, Fails
<1>12. CASE UNCHANGED vars
  BY <1>12 DEF vars
<1> QED
  BY <1>1, <1>2, <1>3, <1>4, <1>5, <1>6, <1>7, <1>8, <1>9, <1>10, <1>11, <1>12
  DEF Next, Step, Initialize, createQdiscs

(* The tree only changes where createQdiscs deletes or adds.               *)
LEMMA TreeChanges ==
  ASSUME [Next]_vars
  PROVE  \/ UNCHANGED <<root, classes, leaves>>
         \/ root' = FALSE /\ classes' = Empty /\ leaves' = Empty
         \/ root' = TRUE /\ UNCHANGED <<classes, leaves>>
         \/ addRootClass \/ leafClass \/ leafQdisc
<1>1. CASE Start \/ addRoot
  BY <1>1 DEF Start, addRoot
<1>2. CASE delRoot
  BY <1>2 DEF delRoot, kernel
<1>3. CASE attachDnsSniffer \/ attachTrafficMonitor
  BY <1>3 DEF attachDnsSniffer, attachTrafficMonitor, Attach
<1>4. CASE \E iface \in Interfaces : delClsact(iface) \/ addClsact(iface)
  BY <1>4 DEF delClsact, addClsact
<1>5. CASE Fatal \/ Die \/ UNCHANGED vars
  BY <1>5 DEF Fatal, Die, kernel, vars
<1> QED BY <1>1, <1>2, <1>3, <1>4, <1>5 DEF Next, Step, Initialize, createQdiscs

LEMMA KernelTreeTyped ==
  ASSUME ProcTyped, root \in BOOLEAN, ClassesTyped, LeavesTyped, TreeInv, [Next]_vars
  PROVE  root' \in BOOLEAN /\ ClassesTyped' /\ LeavesTyped'
<1>1. CASE UNCHANGED <<root, classes, leaves>>
  BY <1>1 DEF ClassesTyped, LeavesTyped
<1>2. CASE root' = FALSE /\ classes' = Empty /\ leaves' = Empty
  BY <1>2 DEF ClassesTyped, LeavesTyped, Empty
<1>3. CASE root' = TRUE /\ UNCHANGED <<classes, leaves>>
  BY <1>3 DEF ClassesTyped, LeavesTyped
<1>4. CASE addRootClass
  <2>1. /\ classes' = Extend(classes, 1, HtbClass(100 * MBit, 100 * MBit))
        /\ UNCHANGED <<root, leaves>>
    BY <1>4 DEF addRootClass
  <2>2. HtbClass(100 * MBit, 100 * MBit) \in AnyClass /\ Uint16(1)
    BY DEF MBit, Uint16, HtbClass, AnyClass
  <2>3. ClassesTyped'
    BY <2>1, <2>2, ExtendTyped DEF ClassesTyped
  <2> QED BY <2>1, <2>3 DEF LeavesTyped
<1>5. CASE leafClass
  <2>1. /\ classes' = Extend(classes, handleId(idx), ClassFor(idx))
        /\ UNCHANGED <<root, leaves>> /\ pc = "leafClass"
    BY <1>5 DEF leafClass, Add, Goto, ClassFor
  <2>2. idx \in 0 .. NumQdiscClasses
    BY <2>1, QdiscAssumption DEF TreeInv, ProcTyped
  <2>3. ClassFor(idx) \in AnyClass /\ Uint16(handleId(idx))
    BY <2>2, LeafTyped, HandleIs DEF ClassFor, HtbClass, AnyClass
  <2>4. ClassesTyped'
    BY <2>1, <2>3, ExtendTyped DEF ClassesTyped
  <2> QED BY <2>1, <2>4 DEF LeavesTyped
<1>6. CASE leafQdisc
  <2>1. /\ leaves' = Extend(leaves, handleId(idx), generateQdiscLeafNodes[idx])
        /\ UNCHANGED <<root, classes>> /\ pc = "leafQdisc"
    BY <1>6 DEF leafQdisc, Add, Goto
  <2>2. idx \in 0 .. NumQdiscClasses
    BY <2>1, QdiscAssumption DEF TreeInv, ProcTyped
  <2>3. generateQdiscLeafNodes[idx] \in LeafConfig /\ Uint16(handleId(idx))
    BY <2>2, LeafTyped, HandleIs
  <2>4. LeavesTyped'
    BY <2>1, <2>3, ExtendTyped DEF LeavesTyped
  <2> QED BY <2>1, <2>4 DEF ClassesTyped
<1> QED BY <1>1, <1>2, <1>3, <1>4, <1>5, <1>6, TreeChanges

LEMMA HooksTypedStep ==
  ASSUME HooksTyped, [Next]_vars
  PROVE  HooksTyped'
<1>1. CASE Start
  <2>1. ASSUME NEW p \in hooks PROVE [p EXCEPT !.own = FALSE] \in AnyHook
    BY DEF HooksTyped, AnyHook
  <2> QED BY <1>1, <2>1 DEF Start, HooksTyped
<1>2. ASSUME NEW iface \in Interfaces, NEW b \in BOOLEAN, Clsact(iface, b)
      PROVE  HooksTyped'
  BY <1>2 DEF Clsact, HooksTyped
<1>3. ASSUME UNCHANGED <<clsact, hooks>> PROVE HooksTyped'
  BY <1>3 DEF HooksTyped
<1>4. CASE \E iface \in Interfaces : delClsact(iface) \/ addClsact(iface)
  BY <1>2, <1>3, <1>4 DEF delClsact, addClsact
<1>5. ASSUME NEW i \in Interfaces, NEW d \in {"egress", "ingress"},
             NEW p \in {"sniffer", "monitor"}, Attach(i, d, p)
      PROVE  HooksTyped'
  <2>1. [iface |-> i, direction |-> d, program |-> p, own |-> TRUE] \in AnyHook
    BY DEF AnyHook
  <2> QED BY <1>5, <2>1 DEF Attach, HooksTyped
<1>6. CASE attachDnsSniffer \/ attachTrafficMonitor
  BY <1>5, <1>6 DEF attachDnsSniffer, attachTrafficMonitor, Interfaces
<1>7. CASE delRoot \/ addRoot \/ addRootClass \/ leafClass \/ leafQdisc
  BY <1>3, <1>7 DEF delRoot, addRoot, addRootClass, leafClass, leafQdisc, kernel
<1>8. CASE Fatal \/ Die \/ UNCHANGED vars
  BY <1>3, <1>8 DEF Fatal, Die, kernel, vars
<1> QED BY <1>1, <1>4, <1>6, <1>7, <1>8 DEF Next, Step, Initialize, createQdiscs

LEMMA TypeStep ==
  ASSUME TypeOK, TreeInv, [Next]_vars
  PROVE  TypeOK'
<1>1. ProcTyped /\ root \in BOOLEAN /\ ClassesTyped /\ LeavesTyped /\ HooksTyped
  BY TypeParts
<1>2. ProcTyped' /\ (root' \in BOOLEAN /\ ClassesTyped' /\ LeavesTyped') /\ HooksTyped'
  BY <1>1, ProcStep, KernelTreeTyped, HooksTypedStep
<1> QED
  BY <1>2 DEF TypeOK, ProcTyped, ClassesTyped, AnyClass, LeavesTyped, HooksTyped, AnyHook

(* A step that leaves the tree alone.                                      *)
LEMMA TreeKept ==
  ASSUME TreeInv, UNCHANGED <<root, classes, leaves>>, UNCHANGED idx \/ pc = "dead",
         \/ pc' = "dead"
         \/ pc = "dead" /\ pc' = "delRoot" /\ idx' = 0
         \/ pc = "delRoot" /\ pc' = "addRoot"
         \/ pc \in AfterTree /\ pc' \in AfterTree
         \/ pc' = pc /\ idx' = idx
  PROVE  TreeInv'
<1>1. Bare' = Bare /\ \A c, l : Built(c, l)' = Built(c, l)
  BY DEF Bare, Built
<1> QED BY <1>1 DEF TreeInv, AfterTree

LEMMA TreeStep ==
  ASSUME ProcTyped, TreeInv, [Next]_vars
  PROVE  TreeInv'
<1> USE QdiscAssumption
<1>1. CASE Start
  BY <1>1, TreeKept DEF Start, Goto
<1>2. CASE delRoot
  <2>1. pc = "delRoot" /\ pc' = "addRoot" /\ idx' = idx
    BY <1>2 DEF delRoot, Goto
  <2>2. UNCHANGED <<root, classes, leaves>> \/ (classes' = Empty /\ leaves' = Empty)
    BY <1>2 DEF delRoot, kernel
  <2>3. CASE UNCHANGED <<root, classes, leaves>>
    BY <2>1, <2>3, TreeKept
  <2>4. CASE classes' = Empty /\ leaves' = Empty
    BY <2>1, <2>4 DEF Empty, TreeInv, Bare, AfterTree
  <2> QED BY <2>2, <2>3, <2>4
<1>3. CASE addRoot
  <2>1. ~root /\ pc = "addRoot"
    BY <1>3 DEF addRoot, Add, Goto, Exists
  <2> QED BY <1>3, <2>1 DEF addRoot, Add, Goto, TreeInv, Bare, AfterTree
<1>4. CASE addRootClass
  <2>1. pc = "addRootClass" /\ pc' = "leafClass" /\ idx' = 0 /\ root' /\ Bare
    BY <1>4 DEF addRootClass, Add, Goto, TreeInv
  <2>2. DOMAIN classes' = {1} /\ DOMAIN leaves' = {}
    BY <1>4, <2>1 DEF addRootClass, Extend, Bare
  <2>3. Handles(0) = {} /\ 1 .. 0 = {}
    BY DEF Handles
  <2>4. ClassesOf(classes', 0) /\ QdiscsOf(leaves', 0)
    BY <2>2, <2>3 DEF ClassesOf, QdiscsOf
  <2>5. Built(0, 0)'
    BY <2>1, <2>4 DEF Built
  <2> QED BY <2>1, <2>5 DEF TreeInv, Built, AfterTree
<1>5. CASE leafClass
  <2>1. /\ pc = "leafClass" /\ pc' = "leafQdisc" /\ idx' = idx /\ UNCHANGED <<root, leaves>>
        /\ classes' = Extend(classes, handleId(idx), ClassFor(idx))
    BY <1>5 DEF leafClass, Add, Goto, ClassFor
  <2>2. idx \in 0 .. NumQdiscClasses /\ Built(idx, idx)
    BY <2>1 DEF TreeInv, ProcTyped
  <2>3. ClassesOf(classes', idx + 1)
    BY <2>1, <2>2, ClassAdded DEF Built
  <2>4. root' /\ ClassesOf(classes', idx' + 1) /\ QdiscsOf(leaves', idx')
    BY <2>1, <2>2, <2>3 DEF Built
  <2> QED BY <2>1, <2>2, <2>4 DEF TreeInv, Built, AfterTree
<1>6. CASE leafQdisc
  <2>1. /\ pc = "leafQdisc" /\ idx' = idx + 1 /\ UNCHANGED <<root, classes>>
        /\ pc' = IF idx = NumQdiscClasses THEN "delLan" ELSE "leafClass"
        /\ leaves' = Extend(leaves, handleId(idx), generateQdiscLeafNodes[idx])
    BY <1>6 DEF leafQdisc, Add, Goto
  <2>2. idx \in 0 .. NumQdiscClasses /\ Built(idx + 1, idx)
    BY <2>1 DEF TreeInv, ProcTyped
  <2>3. QdiscsOf(leaves', idx + 1)
    BY <2>1, <2>2, QdiscAdded DEF Built
  <2>4. root' /\ ClassesOf(classes', idx + 1) /\ QdiscsOf(leaves', idx + 1)
    BY <2>1, <2>2, <2>3 DEF Built
  <2>5. CASE idx = NumQdiscClasses
    BY <2>1, <2>4, <2>5 DEF TreeInv, Built, AfterTree
  <2>6. CASE idx # NumQdiscClasses
    <3>1. idx' <= NumQdiscClasses /\ pc' = "leafClass"
      BY <2>1, <2>2, <2>6
    <3> QED BY <2>1, <2>4, <3>1 DEF TreeInv, Built, AfterTree
  <2> QED BY <2>5, <2>6
<1>7. ASSUME NEW iface \in Interfaces, delClsact(iface) \/ addClsact(iface) PROVE TreeInv'
  <2>1. UNCHANGED <<idx, root, classes, leaves>> /\ pc \in AfterTree /\ pc' \in AfterTree
    <3>1. CASE delClsact(iface)
      BY <3>1 DEF delClsact, Goto, AfterTree
    <3>2. CASE addClsact(iface)
      BY <3>2 DEF addClsact, Add, Goto, AfterTree
    <3> QED BY <1>7, <3>1, <3>2
  <2> QED BY <2>1, TreeKept
<1>8. CASE attachDnsSniffer \/ attachTrafficMonitor
  <2>1. UNCHANGED <<idx, root, classes, leaves>> /\ pc \in AfterTree /\ pc' \in AfterTree
    BY <1>8 DEF attachDnsSniffer, attachTrafficMonitor, Attach, Goto, AfterTree
  <2> QED BY <2>1, TreeKept
<1>9. CASE Fatal \/ Die
  BY <1>9, TreeKept DEF Fatal, Die, kernel
<1>10. CASE UNCHANGED vars
  BY <1>10, TreeKept DEF vars, kernel
<1> QED
  BY <1>1, <1>2, <1>3, <1>4, <1>5, <1>6, <1>7, <1>8, <1>9, <1>10
  DEF Next, Step, Initialize, createQdiscs

LEMMA HookStep ==
  ASSUME HooksTyped, HookInv, [Next]_vars
  PROVE  HookInv'
<1>1. ASSUME pc' \notin {"delWan", "addWan", "snifferEgress", "snifferIngress", "monitor", "ready"}
      PROVE  HookInv'
  BY <1>1 DEF HookInv
<1>2. CASE Start \/ delRoot \/ addRoot \/ addRootClass \/ leafClass \/ leafQdisc
  <2>1. pc' \in {"delRoot", "addRoot", "addRootClass", "leafClass", "leafQdisc", "delLan"}
    <3>1. CASE Start \/ delRoot
      BY <3>1 DEF Start, delRoot, Goto
    <3>2. CASE addRoot \/ addRootClass \/ leafClass
      BY <3>2 DEF addRoot, addRootClass, leafClass, Add, Goto
    <3>3. CASE leafQdisc
      BY <3>3 DEF leafQdisc, Add, Goto
    <3> QED BY <1>2, <3>1, <3>2, <3>3
  <2> QED BY <1>1, <2>1
<1>3. CASE Fatal \/ Die
  <2>1. pc' = "dead"
    BY <1>3 DEF Fatal, Die
  <2> QED BY <1>1, <2>1
<1>4. CASE delClsact("lan")
  <2>1. pc' = "addLan"
    BY <1>4 DEF delClsact, Goto
  <2> QED BY <1>1, <2>1
<1>5. CASE delClsact("wan")
  <2>1. pc = "delWan" /\ pc' = "addWan" /\ hooks' \subseteq hooks
    BY <1>5 DEF delClsact, Clsact, Goto
  <2> QED BY <2>1 DEF HookInv
<1>6. CASE addClsact("lan")
  <2>1. pc' = "delWan" /\ hooks' = {p \in hooks : p.iface # "lan"}
    BY <1>6 DEF addClsact, Clsact, Add, Goto
  <2> QED BY <2>1 DEF HookInv
<1>7. CASE addClsact("wan")
  <2>1. pc = "addWan" /\ pc' = "snifferEgress" /\ hooks' = {p \in hooks : p.iface # "wan"}
    BY <1>7 DEF addClsact, Clsact, Add, Goto
  <2>2. \A p \in hooks : p.iface # "lan" /\ p.iface \in {"lan", "wan"}
    BY <2>1 DEF HookInv, HooksTyped, AnyHook, Interfaces
  <2>3. hooks' = {}
    BY <2>1, <2>2
  <2> QED BY <2>1, <2>3 DEF HookInv
<1>8. CASE attachDnsSniffer
  <2>1. \/ pc = "snifferEgress" /\ pc' = "snifferIngress" /\ hooks' = hooks \union {SnifferEgress}
        \/ pc = "snifferIngress" /\ pc' = "monitor" /\ hooks' = hooks \union {SnifferIngress}
    BY <1>8 DEF attachDnsSniffer, Attach, Goto, SnifferEgress, SnifferIngress, Hook
  <2> QED BY <2>1 DEF HookInv
<1>9. CASE attachTrafficMonitor
  <2>1. pc = "monitor" /\ pc' = "ready" /\ hooks' = hooks \union {Monitor}
    BY <1>9 DEF attachTrafficMonitor, Attach, Goto, Monitor, Hook
  <2> QED BY <2>1 DEF HookInv
<1>10. CASE UNCHANGED vars
  BY <1>10 DEF vars, kernel, HookInv
<1> QED
  BY <1>2, <1>3, <1>4, <1>5, <1>6, <1>7, <1>8, <1>9, <1>10
  DEF Next, Step, Initialize, createQdiscs, Interfaces

LEMMA QdiscInvariant == Spec => []QdiscInv
<1>1. Init => QdiscInv
  <2> SUFFICES ASSUME Init PROVE QdiscInv
    OBVIOUS
  <2>1. TypeOK
    <3>1. ProcTyped
      BY QdiscAssumption DEF Init, ProcTyped, Steps
    <3>2. root \in BOOLEAN /\ ClassesTyped /\ LeavesTyped
      BY DEF Init, ClassesTyped, LeavesTyped, Empty
    <3>3. HooksTyped
      BY DEF Init, HooksTyped
    <3> QED BY <3>1, <3>2, <3>3, TypeParts
  <2>2. TreeInv
    BY DEF Init, TreeInv, Bare, Empty, AfterTree
  <2>3. HookInv
    BY DEF Init, HookInv
  <2> QED BY <2>1, <2>2, <2>3 DEF QdiscInv
<1>2. QdiscInv /\ [Next]_vars => QdiscInv'
  <2> SUFFICES ASSUME QdiscInv, [Next]_vars PROVE QdiscInv'
    OBVIOUS
  <2>1. TypeOK /\ TreeInv /\ HookInv /\ ProcTyped /\ HooksTyped
    BY TypeParts DEF QdiscInv
  <2>2. TypeOK' /\ TreeInv' /\ HookInv'
    BY <2>1, TypeStep, TreeStep, HookStep
  <2> QED BY <2>2 DEF QdiscInv
<1> QED BY <1>1, <1>2, PTL DEF Spec

-----------------------------------------------------------------------------
(* createQdiscs keeps the kernel's tree well formed: handles of 16 bits,   *)
(* rates and delays that are never negative, programs on known hooks only; *)
(* for configurations QdiscAssumption allows, which config.go does not     *)
(* check: up to 98 netem classes, a start rate up to that of the open      *)
(* leaf, a minimum rate from 1 to the start rate, a delay that fits.       *)
THEOREM TreeTyped == Spec => []TypeOK
<1>1. QdiscInv => TypeOK
  BY DEF QdiscInv
<1> QED BY <1>1, QdiscInvariant, PTL

(* When startup is through, the tree is complete.                          *)
LEMMA ReadyIsBuilt ==
  ASSUME QdiscInv, pc = "ready"
  PROVE  /\ root
         /\ DOMAIN classes = {1} \union Handles(NumQdiscClasses + 1)
         /\ DOMAIN leaves = Handles(NumQdiscClasses + 1)
         /\ \A i \in 1 .. (NumQdiscClasses + 1) :
              /\ classes[16 * i] = ClassFor(i - 1)
              /\ leaves[16 * i] = generateQdiscLeafNodes[i - 1]
BY DEF QdiscInv, TreeInv, AfterTree, Built, ClassesOf, QdiscsOf

(* createQdiscs builds one class and one qdisc for each leaf it computed,  *)
(* and nothing else, whatever an earlier process left behind and whichever *)
(* ignored QdiscDel failed: a leftover root makes QdiscAdd fail, so no     *)
(* start mixes its classes with old ones.  Each class has its leaf's rate, *)
(* as its ceiling too: the open leaf's ceiling of 100 MBit is lost.        *)
THEOREM CompletedStartIsComplete == Spec => []ReadyIsComplete
<1>1. QdiscInv => ReadyIsComplete
  <2> SUFFICES ASSUME QdiscInv, pc = "ready"
               PROVE  /\ root
                      /\ DOMAIN classes = {1} \union Handles(NumQdiscClasses + 1)
                      /\ DOMAIN leaves = DOMAIN classes \ {1}
                      /\ \A i \in 1 .. (NumQdiscClasses + 1) :
                           /\ classes[16 * i] = HtbClass(leaves[16 * i].rate,
                                                         leaves[16 * i].rate)
                           /\ leaves[16 * i].kind = IF i = 1 THEN "prio" ELSE "netem"
                      /\ classes[16].ceil < leaves[16].ceil
    BY DEF ReadyIsComplete, Handles
  <2>1. 1 \notin Handles(NumQdiscClasses + 1)
    BY QdiscAssumption DEF Handles
  <2>2. ASSUME NEW i \in 1 .. (NumQdiscClasses + 1)
        PROVE  /\ classes[16 * i] = HtbClass(leaves[16 * i].rate, leaves[16 * i].rate)
               /\ leaves[16 * i].kind = IF i = 1 THEN "prio" ELSE "netem"
    <3>1. i - 1 \in 0 .. NumQdiscClasses /\ (i - 1 = 0 <=> i = 1)
      BY QdiscAssumption
    <3>2. generateQdiscLeafNodes[i - 1].kind = IF i = 1 THEN "prio" ELSE "netem"
      BY <3>1, LeafTyped
    <3> QED BY <3>2, ReadyIsBuilt DEF ClassFor
  <2>3. classes[16].ceil < leaves[16].ceil
    <3>1. 1 \in 1 .. (NumQdiscClasses + 1) /\ 0 \in 0 .. NumQdiscClasses /\ 16 * 1 = 16
      BY QdiscAssumption
    <3>2. classes[16] = ClassFor(0) /\ leaves[16] = generateQdiscLeafNodes[0]
      <4>1. classes[16 * 1] = ClassFor(1 - 1) /\ leaves[16 * 1] = generateQdiscLeafNodes[1 - 1]
        BY <3>1, ReadyIsBuilt
      <4> QED BY <4>1
    <3>3. /\ generateQdiscLeafNodes[0].rate = 95 * MBit
          /\ generateQdiscLeafNodes[0].ceil = 100 * MBit
      BY <3>1 DEF generateQdiscLeafNodes
    <3> QED BY <3>2, <3>3 DEF ClassFor, HtbClass, MBit
  <2> QED BY <2>1, <2>2, <2>3, ReadyIsBuilt
<1> QED BY <1>1, QdiscInvariant, PTL

(* The sniffer's two hooks and the monitor's one hold one program each,    *)
(* attached by the running process, however many processes died before it  *)
(* at whatever step of Initialize.                                         *)
THEOREM NoStaleProgram == Spec => []OneProgramPerHook
<1>1. QdiscInv => OneProgramPerHook
  <2> SUFFICES ASSUME QdiscInv, pc = "ready"
               PROVE  Cardinality(hooks) = 3 /\ \A p \in hooks : p.own
    BY DEF OneProgramPerHook
  <2>1. hooks = {SnifferEgress, SnifferIngress, Monitor}
    BY DEF QdiscInv, HookInv
  <2>2. /\ SnifferEgress # SnifferIngress /\ SnifferEgress # Monitor
        /\ SnifferIngress # Monitor
    BY DEF SnifferEgress, SnifferIngress, Monitor, Hook
  <2>3. Cardinality({SnifferEgress, SnifferIngress, Monitor}) = 3
    <3>1. IsFiniteSet({SnifferEgress}) /\ Cardinality({SnifferEgress}) = 1
      BY FS_Singleton
    <3> DEFINE S == {SnifferEgress} \union {SnifferIngress}
    <3>2. IsFiniteSet(S) /\ Cardinality(S) = 2 /\ Monitor \notin S
      BY <2>2, <3>1, FS_AddElement
    <3>3. {SnifferEgress, SnifferIngress, Monitor} = S \union {Monitor}
      OBVIOUS
    <3> HIDE DEF S
    <3>4. Cardinality(S \union {Monitor}) = 3
      BY <3>2, FS_AddElement
    <3> QED BY <3>3, <3>4
  <2>4. SnifferEgress.own /\ SnifferIngress.own /\ Monitor.own
    BY DEF SnifferEgress, SnifferIngress, Monitor, Hook
  <2> QED BY <2>1, <2>3, <2>4
<1> QED BY <1>1, QdiscInvariant, PTL

(* generateQdiscLeafNodes makes a ladder for every configuration that      *)
(* QdiscAssumption allows (up to 98 netem classes, start rate up to 95000  *)
(* kbit/s, delays that fit uint32): each leaf is slower than the one       *)
(* before, strictly unless the two configured rates are equal, and delays  *)
(* at least as much.  Truncation, which may also lose one bit per second   *)
(* or microsecond to the float arithmetic, never makes two rungs equal,    *)
(* and the last rung is exactly the configured one.                        *)
THEOREM LadderDescends == Spec => []SlowerDownTheLadder
<1>1. QdiscInv => SlowerDownTheLadder
  <2> SUFFICES ASSUME QdiscInv, pc = "ready" PROVE SlowerDownTheLadder
    BY DEF SlowerDownTheLadder
  <2>1. ASSUME NEW i \in 1 .. NumQdiscClasses
        PROVE  /\ leaves[16 * (i + 1)].rate <= leaves[16 * i].rate
               /\ StartRateKbs > MinRateKbs
                    => leaves[16 * (i + 1)].rate < leaves[16 * i].rate
               /\ leaves[16 * (i + 1)].delay >= leaves[16 * i].delay
    <3>1. /\ i \in 1 .. (NumQdiscClasses + 1) /\ i + 1 \in 1 .. (NumQdiscClasses + 1)
          /\ (i + 1) - 1 = i /\ NumQdiscClasses > 0
      BY QdiscAssumption
    <3>2. leaves[16 * i] = generateQdiscLeafNodes[i - 1]
      BY <3>1, ReadyIsBuilt
    <3>3. leaves[16 * (i + 1)] = generateQdiscLeafNodes[i]
      BY <3>1, ReadyIsBuilt
    <3> QED BY <3>1, <3>2, <3>3, RateStep, DelayStep
  <2>2. ASSUME NumQdiscClasses > 0
        PROVE  /\ leaves[16 * (NumQdiscClasses + 1)].rate = MinRateKbs * KBit
               /\ leaves[16 * (NumQdiscClasses + 1)].delay = MaxDelayMs * Ms
    <3>1. /\ NumQdiscClasses + 1 \in 1 .. (NumQdiscClasses + 1)
          /\ (NumQdiscClasses + 1) - 1 = NumQdiscClasses
      BY QdiscAssumption
    <3>2. leaves[16 * (NumQdiscClasses + 1)] = generateQdiscLeafNodes[NumQdiscClasses]
      BY <3>1, ReadyIsBuilt
    <3> QED BY <2>2, <3>2, LastLeaf
  <2> QED BY <2>1, <2>2 DEF SlowerDownTheLadder
<1> QED BY <1>1, QdiscInvariant, PTL

(* The decimal digits of the throttler's class ids, read as hexadecimal.   *)
LEMMA HexOfTens ==
  ASSUME NEW i \in 1 .. 9
  PROVE  HexOf(10 * i) = 16 * i
BY DEF HexOf

(* With up to nine leaves, two-digit class ids, every class id of the      *)
(* policy table names the leaf of its rank in the finished tree.           *)
THEOREM TwoDigitClassesNameTheirLeaves ==
  NumQdiscClasses <= 8 => (Spec => []ClassNamesItsLeaf)
<1> SUFFICES ASSUME NumQdiscClasses <= 8 PROVE Spec => []ClassNamesItsLeaf
  OBVIOUS
<1>1. QdiscInv => ClassNamesItsLeaf
  <2> SUFFICES ASSUME QdiscInv, pc = "ready", NEW i \in 1 .. (NumQdiscClasses + 1)
               PROVE  classify(10 * i) = handleId(i - 1)
    BY DEF ClassNamesItsLeaf
  <2>1. i \in 1 .. 9 /\ i - 1 \in 0 .. NumQdiscClasses
    BY QdiscAssumption
  <2>2. HexOf(10 * i) = 16 * i
    BY <2>1, HexOfTens
  <2>3. 16 * i \in DOMAIN classes
    BY ReadyIsBuilt DEF Handles
  <2>4. handleId(i - 1) = 16 * i
    BY <2>1, HandleIs
  <2> QED BY <2>2, <2>3, <2>4 DEF classify
<1> QED BY <1>1, QdiscInvariant, PTL

(* With more, class id 100 reads as 0x100 and names another leaf than the  *)
(* tenth, the sixteenth or the open one: the bound above is exact.         *)
THEOREM ThreeDigitClassesDoNot ==
  NumQdiscClasses >= 9 => (Spec => [](pc = "ready" => ~ClassNamesItsLeaf))
<1> SUFFICES ASSUME NumQdiscClasses >= 9
             PROVE  Spec => [](pc = "ready" => ~ClassNamesItsLeaf)
  OBVIOUS
<1>1. QdiscInv => (pc = "ready" => ~ClassNamesItsLeaf)
  <2>1. 10 \in 1 .. (NumQdiscClasses + 1) /\ 9 \in 0 .. NumQdiscClasses
    BY QdiscAssumption
  <2>2. HexOf(100) = 256 /\ handleId(9) = 160
    BY DEF HexOf, handleId
  <2>3. classify(100) # handleId(9)
    BY <2>2 DEF classify
  <2>4. 10 * 10 = 100 /\ 10 - 1 = 9
    OBVIOUS
  <2> QED BY <2>1, <2>3, <2>4 DEF ClassNamesItsLeaf
<1> QED BY <1>1, QdiscInvariant, PTL
=============================================================================
