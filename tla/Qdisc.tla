-------------------------------- MODULE Qdisc --------------------------------
(***************************************************************************)
(* Startup of the traffic control tree: handlers/qdisc.go and the part of  *)
(* handlers/bpf.go's Initialize that attaches the static programs.         *)
(*                                                                         *)
(* createQdiscs builds, on the LAN interface, an HTB root 1:0 with a class *)
(* 1:1 and one leaf class per bandwidth class, each with a qdisc of its    *)
(* own, and a clsact qdisc on both interfaces; the DNS sniffer (twice) and *)
(* the traffic monitor are then attached to the clsact hooks.  All of it   *)
(* lives in the kernel and outlasts the process, so every start works on   *)
(* what an earlier one left, however far that one got.                     *)
(***************************************************************************)
EXTENDS Integers, FiniteSets

CONSTANTS
  NumQdiscClasses, StartRateKbs, MinRateKbs, MaxDelayMs,   \* config.Cfg
  Short,     \* numbers of leaves that fall just below a whole one (Truncated)
  MaxFaults  \* bound: deaths and failed deletions

(* A configuration that makes sense; config.go checks none of this.  Three *)
(* decimal digits are enough for a class (see HexOf), no leaf is faster    *)
(* than the open one, and a delay in microseconds fits uint32.  Floating   *)
(* point is exact where the factor is 1 or what it scales is 0.            *)
ASSUME QdiscAssumption ==
  /\ NumQdiscClasses \in Nat /\ NumQdiscClasses <= 98
  /\ StartRateKbs \in Nat \ {0} /\ StartRateKbs <= 95000
  /\ MinRateKbs \in 1 .. StartRateKbs
  /\ MaxDelayMs \in Nat /\ MaxDelayMs <= 4294967
  /\ Short \subseteq (1 .. (NumQdiscClasses - 1)) \X {"rate", "delay", "variance"}
  /\ \A s \in Short : IF s[2] = "rate" THEN StartRateKbs > MinRateKbs ELSE MaxDelayMs > 0
  /\ MaxFaults \in Nat

VARIABLES
  pc,       \* where Initialize is
  idx,      \* leaf createLeafQdiscs is at
  root,     \* kernel: is there an HTB root on the LAN interface?
  classes,  \* kernel: HTB classes under it, handle -> [rate, ceil]
  leaves,   \* kernel: leaf qdiscs, handle -> the leafConfig they are made for
  clsact,   \* kernel: interfaces with a clsact qdisc
  hooks,    \* kernel: programs on clsact hooks; own: by the running process
  faults    \* faults so far

kernel == <<root, classes, leaves, clsact, hooks>>
vars == <<pc, idx, kernel, faults>>

KBit == 1000
MBit == 1000000
Ms == 1000

-----------------------------------------------------------------------------
(* generateQdiscLeafNodes.                                                 *)

LeafConfig ==
  [rate : Nat, ceil : Nat, kind : {"prio", "netem"}, delay : Nat, variance : Nat]

(* uint64 or uint32 of the float64 quotient a / b: the whole part, or one  *)
(* less where the quotient is whole and its float64 just below.            *)
Truncated(a, b, short) == (a - (IF short THEN 1 ELSE 0)) \div b

(* The rate `down' of NumQdiscClasses steps above MinRateKbs, and the      *)
(* delay n steps above none.                                               *)
netemAt(n, down) ==
  LET rate == Truncated(KBit * (down * (StartRateKbs - MinRateKbs)
                                  + NumQdiscClasses * MinRateKbs),
                        NumQdiscClasses, <<n, "rate">> \in Short)
      delay == n * MaxDelayMs * Ms
  IN  [rate |-> rate, ceil |-> rate, kind |-> "netem",
       delay |-> Truncated(delay, NumQdiscClasses, <<n, "delay">> \in Short),
       variance |-> Truncated(delay, 10 * NumQdiscClasses, <<n, "variance">> \in Short)]

netemNegative(n) == netemAt(n, n - NumQdiscClasses)
netemInverted(n) == netemAt(n, n)

(* The n-th netem leaf: the rate falls linearly from StartRateKbs, which   *)
(* no leaf has, to MinRateKbs; the delay grows to MaxDelayMs.              *)
netemLeaf(n) == netemAt(n, NumQdiscClasses - n)

(* The open leaf's rates are fixed: wan_mbps does not enter.               *)
generateQdiscLeafNodes ==
  [n \in 0 .. NumQdiscClasses |->
     IF n = 0 THEN [rate |-> 95 * MBit, ceil |-> 100 * MBit, kind |-> "prio",
                    delay |-> 0, variance |-> 0]
     ELSE netemLeaf(n)]

(* (uint16)(idx+1) * 16                                                    *)
handleId(n) == ((n + 1) * 16) % 65536

-----------------------------------------------------------------------------
(* netlink (external): adding an object that exists fails with EEXIST,     *)
(* deleting a qdisc takes everything below it along, deleting one that is  *)
(* not there fails.                                                        *)

Empty == [h \in {} |-> 0]

Extend(f, h, v) == [x \in DOMAIN f \union {h} |-> IF x = h THEN v ELSE f[x]]

HtbClass(rate, ceil) == [rate |-> rate, ceil |-> ceil]

Interfaces == {"lan", "wan"}

Clsact(iface, present) ==
  /\ clsact' = IF present THEN clsact \union {iface} ELSE clsact \ {iface}
  /\ hooks' = {p \in hooks : p.iface # iface}

-----------------------------------------------------------------------------
Init ==
  /\ pc = "dead"
  /\ idx = 0
  /\ root = FALSE
  /\ classes = Empty
  /\ leaves = Empty
  /\ clsact = {}
  /\ hooks = {}
  /\ faults = 0

Goto(from, to) == pc = from /\ pc' = to

(* What each Add would collide with.                                       *)
Exists ==
  [addRoot |-> root,
   addRootClass |-> 1 \in DOMAIN classes,
   leafClass |-> handleId(idx) \in DOMAIN classes,
   leafQdisc |-> handleId(idx) \in DOMAIN leaves,
   addLan |-> "lan" \in clsact,
   addWan |-> "wan" \in clsact]

Add(from, to) == Goto(from, to) /\ ~Exists[from]

(* An ignored failure: the deletion may also fail with the object there.   *)
Fails ==
  /\ faults < MaxFaults
  /\ faults' = faults + 1

Start ==
  /\ Goto("dead", "delRoot")
  /\ idx' = 0
  /\ hooks' = {[p EXCEPT !.own = FALSE] : p \in hooks}
  /\ UNCHANGED <<root, classes, leaves, clsact, faults>>

delRootForgotten ==
  /\ Goto("delRoot", "addRoot")
  /\ UNCHANGED <<idx, kernel, faults>>

(* QdiscDel of the root: an error is only logged.                          *)
delRoot ==
  /\ Goto("delRoot", "addRoot")
  /\ \/ /\ root' = FALSE /\ classes' = Empty /\ leaves' = Empty
        /\ UNCHANGED <<clsact, hooks, faults>>
     \/ root /\ Fails /\ UNCHANGED kernel
  /\ UNCHANGED idx

addRoot ==
  /\ Add("addRoot", "addRootClass")
  /\ root' = TRUE
  /\ UNCHANGED <<idx, classes, leaves, clsact, hooks, faults>>

addRootClass ==
  /\ Add("addRootClass", "leafClass")
  /\ classes' = Extend(classes, 1, HtbClass(100 * MBit, 100 * MBit))
  /\ UNCHANGED <<idx, root, leaves, clsact, hooks, faults>>

(* createLeafQdiscs, the class of leaf idx.  Its ceiling is leaf.Rate too, *)
(* not leaf.Ceil.                                                          *)
leafClass ==
  /\ Add("leafClass", "leafQdisc")
  /\ LET leaf == generateQdiscLeafNodes[idx]
     IN  classes' = Extend(classes, handleId(idx), HtbClass(leaf.rate, leaf.rate))
  /\ UNCHANGED <<idx, root, leaves, clsact, hooks, faults>>

(* A loop that ends one leaf early.                                        *)
leafQdiscShort ==
  /\ Add("leafQdisc", IF idx + 1 >= NumQdiscClasses THEN "delLan" ELSE "leafClass")
  /\ idx' = idx + 1
  /\ leaves' = Extend(leaves, handleId(idx), generateQdiscLeafNodes[idx])
  /\ UNCHANGED <<root, classes, clsact, hooks, faults>>

(* createLeafQdiscs, the qdisc of leaf idx.                                *)
leafQdisc ==
  /\ Add("leafQdisc", IF idx = NumQdiscClasses THEN "delLan" ELSE "leafClass")
  /\ idx' = idx + 1
  /\ leaves' = Extend(leaves, handleId(idx), generateQdiscLeafNodes[idx])
  /\ UNCHANGED <<root, classes, clsact, hooks, faults>>

(* recreateBpfQdisc, first half: QdiscDel, its result ignored.             *)
delClsact(iface) ==
  /\ Goto(IF iface = "lan" THEN "delLan" ELSE "delWan",
          IF iface = "lan" THEN "addLan" ELSE "addWan")
  /\ \/ Clsact(iface, FALSE) /\ UNCHANGED faults
     \/ iface \in clsact /\ Fails /\ UNCHANGED <<clsact, hooks>>
  /\ UNCHANGED <<idx, root, classes, leaves>>

addTolerant(iface) ==
  /\ Goto(IF iface = "lan" THEN "addLan" ELSE "addWan",
          IF iface = "lan" THEN "delWan" ELSE "snifferEgress")
  /\ clsact' = clsact \union {iface}
  /\ UNCHANGED <<idx, root, classes, leaves, hooks, faults>>

(* recreateBpfQdisc, second half.                                          *)
addClsact(iface) ==
  /\ Add(IF iface = "lan" THEN "addLan" ELSE "addWan",
         IF iface = "lan" THEN "delWan" ELSE "snifferEgress")
  /\ Clsact(iface, TRUE)
  /\ UNCHANGED <<idx, root, classes, leaves, faults>>

(* A program of this process is attached to a clsact hook.                 *)
Attach(iface, direction, program) ==
  /\ iface \in clsact
  /\ hooks' = hooks \union {[iface |-> iface, direction |-> direction,
                             program |-> program, own |-> TRUE]}
  /\ UNCHANGED <<idx, root, classes, leaves, clsact, faults>>

attachDnsSniffer ==
  \/ Goto("snifferEgress", "snifferIngress") /\ Attach("wan", "egress", "sniffer")
  \/ Goto("snifferIngress", "monitor") /\ Attach("wan", "ingress", "sniffer")

attachTrafficMonitor ==
  Goto("monitor", "ready") /\ Attach("lan", "egress", "monitor")

(* log.Fatal where an object is in the way.                                *)
Fatal ==
  /\ pc \in DOMAIN Exists /\ Exists[pc]
  /\ pc' = "dead"
  /\ UNCHANGED <<idx, kernel, faults>>

(* Any other call fails, or the process is killed.                         *)
Die ==
  /\ pc # "dead"
  /\ Fails
  /\ pc' = "dead"
  /\ UNCHANGED <<idx, kernel>>

createQdiscs ==
  \/ delRoot \/ addRoot \/ addRootClass \/ leafClass \/ leafQdisc
  \/ \E iface \in Interfaces : delClsact(iface) \/ addClsact(iface)

Initialize == createQdiscs \/ attachDnsSniffer \/ attachTrafficMonitor

Step == Start \/ Initialize \/ Fatal

Next == Step \/ Die

Spec == Init /\ [][Next]_vars

(* Startup runs on, and systemd starts a process that failed again.        *)
FairSpec == Spec /\ WF_vars(Step)

-----------------------------------------------------------------------------
(* What a packet meets.                                                    *)

(* The template writes a class in decimal after "0x": its digits are read  *)
(* as hexadecimal ones.                                                    *)
HexOfDecimal(class) == class
HexOf(class) == (class \div 100) * 256 + ((class \div 10) % 10) * 16 + (class % 10)

(* HTB (external): the leaf class a packet is queued in.  An id without a  *)
(* class falls to the default class 0x10.                                  *)
classify(class) == IF HexOf(class) \in DOMAIN classes THEN HexOf(class) ELSE 16

-----------------------------------------------------------------------------
(* Properties.                                                             *)

Steps ==
  {"dead", "delRoot", "addRoot", "addRootClass", "leafClass", "leafQdisc",
   "delLan", "addLan", "delWan", "addWan", "snifferEgress", "snifferIngress",
   "monitor", "ready"}

Uint16(h) == h \in Nat /\ h < 65536

TypeOK ==
  /\ pc \in Steps
  /\ idx \in 0 .. (NumQdiscClasses + 1)
  /\ root \in BOOLEAN
  /\ \A h \in DOMAIN classes : Uint16(h) /\ classes[h] \in [rate : Nat, ceil : Nat]
  /\ \A h \in DOMAIN leaves : Uint16(h) /\ leaves[h] \in LeafConfig
  /\ clsact \subseteq Interfaces
  /\ hooks \subseteq [iface : Interfaces, direction : {"egress", "ingress"},
                      program : {"sniffer", "monitor"}, own : BOOLEAN]
  /\ faults \in 0 .. MaxFaults

(* Whatever an earlier process left behind, and whichever ignored deletion *)
(* failed, a startup that completes has built a class and a qdisc for each *)
(* leaf of generateQdiscLeafNodes, and nothing else.  The ceiling of each  *)
(* class is its rate: the open leaf asks for 100 MBit, its class stops at  *)
(* 95 all the same.                                                        *)
ReadyIsComplete ==
  pc = "ready" =>
    /\ root
    /\ DOMAIN classes = {1} \union {16 * i : i \in 1 .. (NumQdiscClasses + 1)}
    /\ DOMAIN leaves = DOMAIN classes \ {1}
    /\ \A i \in 1 .. (NumQdiscClasses + 1) :
         /\ classes[16 * i] = HtbClass(leaves[16 * i].rate, leaves[16 * i].rate)
         /\ leaves[16 * i].kind = IF i = 1 THEN "prio" ELSE "netem"
    /\ classes[16].ceil < leaves[16].ceil

(* ... and exactly one program on each of its hooks, all of them its own:  *)
(* no packet is counted, and no DNS answer reported, by a program of a     *)
(* process that is gone.                                                   *)
OneProgramPerHook ==
  pc = "ready" =>
    /\ Cardinality(hooks) = 3
    /\ \A p \in hooks : p.own

(* Each class is slower than the one before it and delays at least as      *)
(* much; the last has the configured minimum rate and maximum delay.       *)
SlowerDownTheLadder ==
  pc = "ready" =>
    /\ \A i \in 1 .. NumQdiscClasses :
         /\ leaves[16 * (i + 1)].rate <= leaves[16 * i].rate
         /\ StartRateKbs > MinRateKbs
              => leaves[16 * (i + 1)].rate < leaves[16 * i].rate
         /\ leaves[16 * (i + 1)].delay >= leaves[16 * i].delay
    /\ NumQdiscClasses > 0 =>
         /\ leaves[16 * (NumQdiscClasses + 1)].rate = MinRateKbs * KBit
         /\ leaves[16 * (NumQdiscClasses + 1)].delay = MaxDelayMs * Ms

(* The throttler's class ids, decimal in the policy table and hexadecimal  *)
(* in the program, name the leaf of the same rank that createLeafQdiscs    *)
(* made: a pair k steps down the ladder is queued in the k-th leaf.        *)
ClassNamesItsLeaf ==
  pc = "ready" =>
    \A i \in 1 .. (NumQdiscClasses + 1) : classify(10 * i) = handleId(i - 1)

(* However often the process dies on the way, and with every deletion      *)
(* allowed to fail, the tree is ready in the end: a leftover object makes  *)
(* a start fail, but never all of them.                                    *)
EventuallyReady == <>[](pc = "ready")
=============================================================================
