-------------------------- MODULE DnsSnifferProofs --------------------------
(***************************************************************************)
(* Proofs about the DNS sniffer: for any CPUs, messages, and sizes of      *)
(* buffers and rings, a sample shows its reader nothing but its packet, no *)
(* answer is lost between the rings and the table, and the label of an ip  *)
(* is the newest answer of some ring, if the clock was not set back.       *)
(***************************************************************************)
EXTENDS DnsSniffer, SequenceTheorems, DataLemmas

(* What the rings hold: a record of losses, or a buffer that starts with   *)
(* the records of its message, as far as there is room for them.           *)
Whole(e) ==
  /\ e.ancount = Len(e.msg)
  /\ e.torn = (e.msg \in Torn)
  /\ Len(e.data) = DataLen
  /\ \A i \in 1 .. DataLen : i <= Len(e.msg) => e.data[i] = e.msg[i]

Proper == {e \in Entries : e = LostRecord \/ Whole(e)}

Shape ==
  /\ tmp \in [Cpus -> [1 .. DataLen -> Records \union {Junk}]]
  /\ dnsArr \in [Cpus -> Readers \union {Nobody}]
  /\ ring \in [Readers -> [Cpus -> Seq(Proper)]]

(* The copy reaches at least to the end of the message or of the buffer.   *)
LEMMA PayloadShape ==
  ASSUME Shape, NEW c \in Cpus, NEW m \in Messages
  PROVE  /\ payload(c, m) \in [1 .. DataLen -> Records \union {Junk}]
         /\ \A i \in 1 .. DataLen : i <= Len(m) => payload(c, m)[i] = m[i]
<1> USE DnsSnifferAssumption
<1>1. m \in Seq(Records) /\ Len(m) \in Nat /\ DataLen \in Nat /\ HeaderLen \in Nat
  OBVIOUS
<1>2. \A i \in 1 .. DataLen : i <= Len(m) => i <= copied(m)
  BY <1>1 DEF copied
<1>3. ASSUME NEW i \in 1 .. DataLen
      PROVE  /\ payload(c, m)[i] \in Records \union {Junk}
             /\ i <= Len(m) => payload(c, m)[i] = m[i]
  <2>1. payload(c, m)[i] =
          IF i > copied(m) THEN tmp[c][i] ELSE IF i <= Len(m) THEN m[i] ELSE Junk
    BY DEF payload
  <2>2. i <= Len(m) => m[i] \in Records
    BY <1>1
  <2>3. tmp[c][i] \in Records \union {Junk}
    BY DEF Shape
  <2>4. copied(m) \in Int
    BY <1>1 DEF copied
  <2> QED BY <1>1, <1>2, <2>1, <2>2, <2>3, <2>4
<1> QED BY <1>3 DEF payload

LEMMA SampleProper ==
  ASSUME Shape, NEW c \in Cpus, NEW m \in Messages
  PROVE  Sample(c, m) \in Proper
<1>1. m \in Seq(Records) /\ Len(m) \in Nat /\ DataLen \in Nat
  BY DnsSnifferAssumption
<1>2. /\ payload(c, m) \in Seq(Records \union {Junk})
      /\ Len(payload(c, m)) = DataLen
  <2>1. payload(c, m) \in [1 .. DataLen -> Records \union {Junk}]
    BY PayloadShape
  <2> QED BY <1>1, <2>1
<1>3. \A i \in 1 .. DataLen : i <= Len(m) => payload(c, m)[i] = m[i]
  BY PayloadShape
<1>4. Sample(c, m) \in Entries
  BY <1>1, <1>2 DEF Sample, Entries
<1>5. Whole(Sample(c, m))
  BY <1>2, <1>3 DEF Whole, Sample
<1> QED BY <1>4, <1>5 DEF Proper

LEMMA LostProper == LostRecord \in Proper
BY DEF Proper, Entries, LostRecord

LEMMA ReadableTyped ==
  ASSUME NEW m \in Seq(Records)
  PROVE  Readable(m) \in Seq(Records)
<1>1. CASE Len(m) <= DataLen
  BY <1>1 DEF Readable
<1>2. CASE ~(Len(m) <= DataLen)
  <2>1. DataLen \in Nat /\ DataLen > 0 /\ Len(m) \in Nat /\ DataLen < Len(m)
    BY <1>2, DnsSnifferAssumption
  <2>2. SubSeq(m, 1, DataLen) \in Seq(Records) /\ <<>> \in Seq(Records)
    BY <2>1
  <2> QED BY <1>2, <2>2 DEF Readable
<1> QED BY <1>1, <1>2

(* A proper entry unpacks to its message, or to what a cut left of it.     *)
LEMMA ProperUnpacks ==
  ASSUME NEW e \in Proper
  PROVE  Unpack(e) = Readable(e.msg)
<1>1. /\ e.ancount \in Nat /\ e.data \in Seq(Records \union {Junk}) /\ e.msg \in Seq(Records)
      /\ DataLen \in Nat
  BY DnsSnifferAssumption DEF Proper, Entries
<1>2. CASE e = LostRecord
  <2>1. Unpack(e) = <<>> /\ e.msg = <<>>
    BY <1>2 DEF LostRecord, Unpack
  <2>2. Readable(<<>>) = <<>>
    BY <1>1 DEF Readable
  <2> QED BY <2>1, <2>2
<1>3. CASE Whole(e) /\ e.ancount > Len(e.data)
  <2>1. /\ Len(e.data) = DataLen /\ Len(e.msg) > DataLen
        /\ \A i \in 1 .. DataLen : e.data[i] = e.msg[i]
    BY <1>1, <1>3 DEF Whole
  <2>2. e.data = [i \in 1 .. DataLen |-> e.data[i]]
    BY <1>1, <2>1
  <2>3. SubSeq(e.msg, 1, DataLen) = [i \in 1 .. DataLen |-> e.msg[i]]
    BY <1>1, <2>1
  <2>4. e.data = SubSeq(e.msg, 1, DataLen)
    BY <2>1, <2>2, <2>3
  <2>5. /\ Unpack(e) = IF e.torn THEN <<>> ELSE e.data
        /\ Readable(e.msg) = IF e.msg \in Torn THEN <<>> ELSE SubSeq(e.msg, 1, DataLen)
    BY <1>1, <1>3, <2>1 DEF Unpack, Readable
  <2> QED BY <1>3, <2>4, <2>5 DEF Whole
<1>4. CASE Whole(e) /\ ~(e.ancount > Len(e.data))
  <2>1. e.ancount = Len(e.msg) /\ Len(e.data) = DataLen /\ e.ancount <= DataLen
    BY <1>1, <1>4 DEF Whole
  <2>2. Unpack(e) = SubSeq(e.data, 1, e.ancount) /\ Readable(e.msg) = e.msg
    BY <1>1, <1>4, <2>1 DEF Unpack, Readable
  <2>3. SubSeq(e.data, 1, e.ancount) = [i \in 1 .. e.ancount |-> e.data[i]]
    BY <1>1, <2>1
  <2>4. e.msg = [i \in 1 .. e.ancount |-> e.msg[i]]
    BY <1>1, <2>1
  <2>5. \A i \in 1 .. e.ancount : e.data[i] = e.msg[i]
    BY <1>1, <1>4, <2>1 DEF Whole
  <2> QED BY <2>2, <2>3, <2>4, <2>5
<1> QED BY <1>2, <1>3, <1>4 DEF Proper

LEMMA ShapeHolds == Spec => []Shape
<1>1. Init => Shape
  BY DEF Init, Shape, Blank, NoRings
<1>2. Shape /\ [Next]_vars => Shape'
  <2> SUFFICES ASSUME Shape, [Next]_vars PROVE Shape'
    OBVIOUS
  <2>1. ASSUME NEW c \in Cpus, NEW m \in Messages, udp_dns_sniff(c, m) PROVE Shape'
    <3>1. tmp' = [tmp EXCEPT ![c] = payload(c, m)] /\ dnsArr' = dnsArr
      BY <2>1 DEF udp_dns_sniff
    <3>2. tmp' \in [Cpus -> [1 .. DataLen -> Records \union {Junk}]]
      BY <3>1, PayloadShape DEF Shape
    <3>3. ring' \in [Readers -> [Cpus -> Seq(Proper)]]
      <4> DEFINE s == Sample(c, m)
                 r == dnsArr[c]
      <4>1. s \in Proper /\ LostRecord \in Proper
        BY SampleProper, LostProper
      <4>2. CASE ring' = ring
        BY <4>2 DEF Shape
      <4>3. CASE /\ r # Nobody
                 /\ ring' = [ring EXCEPT ![r][c] =
                      @ \o (IF lost[r][c] > 0 THEN <<LostRecord, s>> ELSE <<s>>)]
        <5>1. r \in Readers /\ ring[r][c] \in Seq(Proper)
          BY <4>3 DEF Shape
        <5>2. <<LostRecord, s>> \in Seq(Proper) /\ <<s>> \in Seq(Proper)
          BY <4>1
        <5> HIDE DEF s, r
        <5>3. ring[r][c] \o (IF lost[r][c] > 0 THEN <<LostRecord, s>> ELSE <<s>>) \in Seq(Proper)
          BY <5>1, <5>2
        <5> QED BY <4>3, <5>1, <5>3 DEF Shape
      <4> QED BY <2>1, <4>2, <4>3 DEF udp_dns_sniff, bpf_perf_event_output
    <3> QED BY <3>1, <3>2, <3>3 DEF Shape
  <2>2. ASSUME NEW r \in Readers, attachDnsSniffer(r) PROVE Shape'
    BY <2>2 DEF attachDnsSniffer, Shape
  <2>3. ASSUME NEW r \in Readers, NEW c \in Cpus, NewReader(r, c) PROVE Shape'
    BY <2>3 DEF NewReader, Shape
  <2>4. ASSUME NEW r \in Readers, NEW c \in Cpus, Read(r, c) PROVE Shape'
    <3>1. ring[r][c] \in Seq(Proper) /\ ring[r][c] # <<>>
      BY <2>4 DEF Read, Shape
    <3>2. Tail(ring[r][c]) \in Seq(Proper)
      BY <3>1
    <3> QED BY <2>4, <3>2 DEF Read, TakesEntry, Shape
  <2>5. ASSUME NEW r \in Readers, addAnswer(r) PROVE Shape'
    BY <2>5 DEF addAnswer, kernel, Shape
  <2>6. CASE Restart
    BY <2>6 DEF Restart, Shape, Blank, NoRings
  <2>7. CASE Tick \/ ClockStepsBack
    BY <2>7 DEF Tick, ClockStepsBack, kernel, Shape
  <2>8. CASE UNCHANGED vars
    BY <2>8 DEF vars, kernel, Shape
  <2> QED BY <2>1, <2>2, <2>3, <2>4, <2>5, <2>6, <2>7, <2>8 DEF Next, pollDnsResponses
<1> QED BY <1>1, <1>2, PTL DEF Spec

(* Whatever a scratch buffer held before and however far the copy goes, a  *)
(* sample unpacks to the answers of its own packet; if that was cut, to    *)
(* those before the cut, or to none if the cut is inside a record.         *)
THEOREM SamplesAreTheirPackets == Spec => []SampleIsItsPacket
<1>1. ASSUME Shape PROVE SampleIsItsPacket
  <2> SUFFICES ASSUME NEW r \in Readers, NEW c \in Cpus, NEW i \in DOMAIN ring[r][c]
               PROVE  Unpack(ring[r][c][i]) = Readable(ring[r][c][i].msg)
    BY DEF SampleIsItsPacket
  <2>1. ring[r][c] \in Seq(Proper)
    BY <1>1 DEF Shape
  <2>2. ring[r][c][i] \in Proper
    BY <2>1
  <2> QED BY <2>2, ProperUnpacks
<1> QED BY <1>1, ShapeHolds, PTL
-----------------------------------------------------------------------------
(* What becomes of the answers.                                            *)

Holds(t) == UNION {AnswersOf(Unpack(t[i])) : i \in DOMAIN t}

LEMMA HoldsAppend ==
  ASSUME NEW t \in Seq(Proper), NEW u \in Seq(Proper)
  PROVE  Holds(t \o u) = Holds(t) \union Holds(u)
<1>1. /\ DOMAIN t = 1 .. Len(t) /\ DOMAIN u = 1 .. Len(u)
      /\ DOMAIN (t \o u) = 1 .. Len(t) + Len(u) /\ Len(t) \in Nat /\ Len(u) \in Nat
  OBVIOUS
<1>2. /\ \A i \in 1 .. Len(t) : (t \o u)[i] = t[i]
      /\ \A i \in 1 .. Len(u) : (t \o u)[Len(t) + i] = u[i]
  OBVIOUS
<1>3. ASSUME NEW k \in Holds(t \o u) PROVE k \in Holds(t) \union Holds(u)
  <2>1. PICK i \in 1 .. Len(t) + Len(u) : k \in AnswersOf(Unpack((t \o u)[i]))
    BY <1>1 DEF Holds
  <2>2. CASE i <= Len(t)
    BY <1>1, <1>2, <2>1, <2>2 DEF Holds
  <2>3. CASE i > Len(t)
    <3>1. i - Len(t) \in 1 .. Len(u) /\ Len(t) + (i - Len(t)) = i
      BY <1>1, <2>3
    <3> QED BY <1>1, <1>2, <2>1, <3>1 DEF Holds
  <2> QED BY <1>1, <2>2, <2>3
<1>4. ASSUME NEW k \in Holds(t) PROVE k \in Holds(t \o u)
  <2>1. PICK i \in 1 .. Len(t) : k \in AnswersOf(Unpack(t[i]))
    BY <1>1 DEF Holds
  <2> QED BY <1>1, <1>2, <2>1 DEF Holds
<1>5. ASSUME NEW k \in Holds(u) PROVE k \in Holds(t \o u)
  <2>1. PICK i \in 1 .. Len(u) : k \in AnswersOf(Unpack(u[i]))
    BY <1>1 DEF Holds
  <2>2. Len(t) + i \in DOMAIN (t \o u)
    BY <1>1
  <2> QED BY <1>2, <2>1, <2>2 DEF Holds
<1> QED BY <1>3, <1>4, <1>5

LEMMA HoldsTail ==
  ASSUME NEW t \in Seq(Proper), t # <<>>
  PROVE  Holds(t) = AnswersOf(Unpack(Head(t))) \union Holds(Tail(t))
<1>1. /\ DOMAIN t = 1 .. Len(t) /\ DOMAIN Tail(t) = 1 .. Len(t) - 1
      /\ Len(t) \in Nat /\ Len(t) > 0 /\ Head(t) = t[1]
  OBVIOUS
<1>2. \A i \in 1 .. Len(t) - 1 : Tail(t)[i] = t[i + 1]
  OBVIOUS
<1>3. ASSUME NEW k \in Holds(t)
      PROVE  k \in AnswersOf(Unpack(Head(t))) \union Holds(Tail(t))
  <2>1. PICK i \in 1 .. Len(t) : k \in AnswersOf(Unpack(t[i]))
    BY <1>1 DEF Holds
  <2>2. CASE i = 1
    BY <1>1, <2>1, <2>2
  <2>3. CASE i # 1
    <3>1. i - 1 \in 1 .. Len(t) - 1 /\ (i - 1) + 1 = i
      BY <1>1, <2>3
    <3> QED BY <1>1, <1>2, <2>1, <3>1 DEF Holds
  <2> QED BY <2>2, <2>3
<1>4. AnswersOf(Unpack(Head(t))) \subseteq Holds(t)
  BY <1>1 DEF Holds
<1>5. ASSUME NEW k \in Holds(Tail(t)) PROVE k \in Holds(t)
  <2>1. PICK i \in 1 .. Len(t) - 1 : k \in AnswersOf(Unpack(Tail(t)[i]))
    BY <1>1 DEF Holds
  <2>2. i + 1 \in DOMAIN t
    BY <1>1
  <2> QED BY <1>2, <2>1, <2>2 DEF Holds
<1> QED BY <1>3, <1>4, <1>5

LEMMA AnswersTail ==
  ASSUME NEW m \in Seq(Records), m # <<>>
  PROVE  AnswersOf(m) = ({Head(m)} \ {Other}) \union AnswersOf(Tail(m))
<1>1. /\ DOMAIN m = 1 .. Len(m) /\ DOMAIN Tail(m) = 1 .. Len(m) - 1
      /\ Len(m) \in Nat /\ Len(m) > 0 /\ Head(m) = m[1]
  OBVIOUS
<1>2. \A i \in 1 .. Len(m) - 1 : Tail(m)[i] = m[i + 1]
  OBVIOUS
<1>3. ASSUME NEW k \in ToSet(m) PROVE k = Head(m) \/ k \in ToSet(Tail(m))
  <2>1. PICK i \in 1 .. Len(m) : k = m[i]
    BY <1>1 DEF ToSet
  <2>2. CASE i # 1
    <3>1. i - 1 \in 1 .. Len(m) - 1 /\ (i - 1) + 1 = i
      BY <1>1, <2>2
    <3> QED BY <1>1, <1>2, <2>1, <3>1 DEF ToSet
  <2> QED BY <1>1, <2>1, <2>2
<1>4. ASSUME NEW k \in ToSet(Tail(m)) PROVE k \in ToSet(m)
  <2>1. PICK i \in 1 .. Len(m) - 1 : k = Tail(m)[i]
    BY <1>1 DEF ToSet
  <2>2. i + 1 \in DOMAIN m
    BY <1>1
  <2> QED BY <1>2, <2>1, <2>2 DEF ToSet
<1>5. Head(m) \in ToSet(m)
  BY <1>1 DEF ToSet
<1> QED BY <1>3, <1>4, <1>5 DEF AnswersOf

LEMMA NothingHeld ==
  /\ AnswersOf(<<>>) = {}
  /\ Holds(<<>>) = {}
  /\ \A e : Holds(<<e>>) = AnswersOf(Unpack(e))
  /\ \A e : Holds(<<LostRecord, e>>) = AnswersOf(Unpack(e))
<1>1. AnswersOf(<<>>) = {} /\ Holds(<<>>) = {}
  BY DEF AnswersOf, ToSet, Holds
<1>2. Unpack(LostRecord) = <<>>
  BY DEF Unpack, LostRecord
<1>3. ASSUME NEW e PROVE Holds(<<e>>) = AnswersOf(Unpack(e))
  BY DEF Holds
<1>4. ASSUME NEW e PROVE Holds(<<LostRecord, e>>) = AnswersOf(Unpack(e))
  <2>1. /\ DOMAIN <<LostRecord, e>> = {1, 2}
        /\ <<LostRecord, e>>[1] = LostRecord /\ <<LostRecord, e>>[2] = e
    OBVIOUS
  <2> QED BY <1>1, <1>2, <2>1 DEF Holds
<1> QED BY <1>1, <1>3, <1>4

(* Nothing is on its way, or recorded, that no ring took; and what a ring  *)
(* took is on its way, recorded, or accounted for as forgotten.            *)
Flow ==
  /\ hand \in [Readers -> Seq(Records)]
  /\ OnTheWay \subseteq accepted
  /\ DOMAIN dns \subseteq accepted
  /\ accepted \subseteq DOMAIN dns \union OnTheWay \union forgotten

(* OnTheWay, element by element.                                           *)
LEMMA OnTheWayIff ==
  \A k : k \in OnTheWay <=>
    \E r \in Readers : k \in AnswersOf(hand[r]) \/ \E c \in Cpus : k \in Holds(ring[r][c])
BY DEF OnTheWay, InRing, Holds

LEMMA OnTheWayIffPrimed ==
  \A k : k \in OnTheWay' <=>
    \E r \in Readers : k \in AnswersOf(hand'[r]) \/ \E c \in Cpus : k \in Holds(ring'[r][c])
BY DEF OnTheWay, InRing, Holds, AnswersOf, Unpack

(* What the sample of m unpacks to.                                        *)
LEMMA SampleUnpacks ==
  ASSUME Shape, NEW c \in Cpus, NEW m \in Messages
  PROVE  Unpack(Sample(c, m)) = Readable(m) /\ Readable(m) \in Seq(Records)
<1>1. Sample(c, m) \in Proper
  BY SampleProper
<1>2. Sample(c, m).msg = m
  BY DEF Sample
<1>3. Readable(m) \in Seq(Records)
  BY ReadableTyped, DnsSnifferAssumption
<1> QED BY <1>1, <1>2, <1>3, ProperUnpacks

(* The sniffer adds to a ring, and to what is accepted, the answers that   *)
(* can be read of a message.  Either no ring takes the sample or that of   *)
(* some reader q does.                                                     *)
Takes(q, c, m) ==
  /\ ring' = [ring EXCEPT ![q][c] =
                @ \o (IF lost[q][c] > 0 THEN <<LostRecord, Sample(c, m)>> ELSE <<Sample(c, m)>>)]
  /\ accepted' = accepted \union AnswersOf(Readable(m))
  /\ latest' = [latest EXCEPT ![q][c] =
       [ip \in Ips |-> LastDomain(Readable(m), ip, @[ip])]]

LEMMA SniffCases ==
  ASSUME Shape, NEW c \in Cpus, NEW m \in Messages, udp_dns_sniff(c, m)
  PROVE  /\ UNCHANGED <<hand, dns, forgotten, behind, now, opened, hooks, faults>>
         /\ UNCHANGED <<ring, accepted, latest>> \/ \E q \in Readers : Takes(q, c, m)
<1>1. UNCHANGED <<hand, dns, forgotten, behind, now, opened, hooks, faults>>
  BY DEF udp_dns_sniff, process
<1>2. dnsArr[c] \in Readers \union {Nobody}
  BY DEF Shape
<1>3. Sample(c, m).ancount = Len(m) /\ Sample(c, m).msg = m
  BY DEF Sample
<1>4. bpf_perf_event_output(c, Sample(c, m))
  BY DEF udp_dns_sniff
<1>5. \/ UNCHANGED <<ring, accepted, latest>>
      \/ dnsArr[c] # Nobody /\ Takes(dnsArr[c], c, m)
  BY <1>3, <1>4 DEF bpf_perf_event_output, Takes
<1> QED BY <1>1, <1>2, <1>5

LEMMA TakesOnTheWay ==
  ASSUME Shape, NEW c \in Cpus, NEW m \in Messages, NEW q \in Readers, Takes(q, c, m),
         UNCHANGED hand
  PROVE  OnTheWay' = OnTheWay \union AnswersOf(Unpack(Sample(c, m)))
<1> DEFINE s == Sample(c, m)
           new == AnswersOf(Unpack(s))
           more == IF lost[q][c] > 0 THEN <<LostRecord, s>> ELSE <<s>>
<1>1. s \in Proper /\ LostRecord \in Proper /\ ring[q][c] \in Seq(Proper)
  BY SampleProper, LostProper DEF Shape
<1>2. ring' = [ring EXCEPT ![q][c] = @ \o more]
  BY DEF Takes
<1> HIDE DEF s
<1>3. more \in Seq(Proper) /\ Holds(more) = new
  BY <1>1, NothingHeld
<1> HIDE DEF more, new
<1>4. \A r \in Readers, d \in Cpus :
        ring'[r][d] = IF r = q /\ d = c THEN ring[q][c] \o more ELSE ring[r][d]
  BY <1>2 DEF Shape
<1>5. Holds(ring[q][c] \o more) = Holds(ring[q][c]) \union new
  BY <1>1, <1>3, HoldsAppend
<1>6. \A r \in Readers, d \in Cpus :
        Holds(ring'[r][d]) = IF r = q /\ d = c THEN Holds(ring[r][d]) \union new
                             ELSE Holds(ring[r][d])
  BY <1>4, <1>5
<1>7. ASSUME NEW k \in OnTheWay' PROVE k \in OnTheWay \union new
  <2>1. PICK r \in Readers :
          k \in AnswersOf(hand[r]) \/ \E d \in Cpus : k \in Holds(ring'[r][d])
    BY <1>7, OnTheWayIffPrimed
  <2> QED BY <1>6, <2>1, OnTheWayIff
<1>8. ASSUME NEW k \in OnTheWay PROVE k \in OnTheWay'
  <2>1. PICK r \in Readers :
          k \in AnswersOf(hand[r]) \/ \E d \in Cpus : k \in Holds(ring[r][d])
    BY <1>8, OnTheWayIff
  <2> QED BY <1>6, <2>1, OnTheWayIffPrimed
<1>9. ASSUME NEW k \in new PROVE k \in OnTheWay'
  <2>1. k \in Holds(ring'[q][c])
    BY <1>6
  <2> QED BY <2>1, OnTheWayIffPrimed
<1>10. OnTheWay' = OnTheWay \union new
  BY <1>7, <1>8, <1>9
<1> QED BY <1>10 DEF new, s

LEMMA SniffFlow ==
  ASSUME Shape, Flow, NEW c \in Cpus, NEW m \in Messages, udp_dns_sniff(c, m)
  PROVE  Flow'
<1>1. UNCHANGED <<hand, dns, forgotten>>
  BY SniffCases
<1>2. CASE UNCHANGED <<ring, accepted, latest>>
  <2>1. OnTheWay' = OnTheWay
    BY <1>1, <1>2, OnTheWayIff, OnTheWayIffPrimed
  <2> QED BY <1>1, <1>2, <2>1 DEF Flow
<1>3. ASSUME NEW q \in Readers, Takes(q, c, m) PROVE Flow'
  <2>1. accepted' = accepted \union AnswersOf(Unpack(Sample(c, m)))
    BY <1>3, SampleUnpacks DEF Takes
  <2>2. OnTheWay' = OnTheWay \union AnswersOf(Unpack(Sample(c, m)))
    BY <1>1, <1>3, TakesOnTheWay
  <2> QED BY <1>1, <2>1, <2>2 DEF Flow
<1> QED BY <1>2, <1>3, SniffCases

(* A reader takes an entry from a ring into its empty hand.                *)
LEMMA ReadFlow ==
  ASSUME Shape, Flow, NEW r \in Readers, NEW c \in Cpus, Read(r, c)
  PROVE  Flow' /\ OnTheWay' = OnTheWay
<1>1. /\ hand[r] = <<>> /\ ring[r][c] # <<>>
      /\ ring' = [ring EXCEPT ![r][c] = Tail(@)]
      /\ hand' = [hand EXCEPT ![r] = Unpack(Head(ring[r][c]))]
      /\ accepted' = accepted /\ dns' = dns /\ forgotten' = forgotten
  BY DEF Read, TakesEntry, history
<1>2. ring[r][c] \in Seq(Proper) /\ Head(ring[r][c]) \in Proper
  BY <1>1 DEF Shape
<1>3. hand' \in [Readers -> Seq(Records)]
  <2>1. Unpack(Head(ring[r][c])) = Readable(Head(ring[r][c]).msg)
    BY <1>2, ProperUnpacks
  <2>2. Head(ring[r][c]).msg \in Seq(Records)
    BY <1>2 DEF Proper, Entries
  <2>3. Unpack(Head(ring[r][c])) \in Seq(Records)
    BY <2>1, <2>2, ReadableTyped
  <2> QED BY <1>1, <2>3 DEF Flow
<1>4. Holds(ring[r][c]) = AnswersOf(Unpack(Head(ring[r][c]))) \union Holds(Tail(ring[r][c]))
  BY <1>1, <1>2, HoldsTail
<1>5. /\ \A q \in Readers, d \in Cpus :
           ring'[q][d] = IF q = r /\ d = c THEN Tail(ring[r][c]) ELSE ring[q][d]
      /\ \A q \in Readers :
           hand'[q] = IF q = r THEN Unpack(Head(ring[r][c])) ELSE hand[q]
  BY <1>1 DEF Shape, Flow
<1>6. OnTheWay' = OnTheWay
  <2>1. ASSUME NEW k PROVE k \in OnTheWay <=> k \in OnTheWay'
    BY <1>1, <1>4, <1>5, OnTheWayIff, OnTheWayIffPrimed, NothingHeld
  <2> QED BY <2>1
<1> QED BY <1>1, <1>3, <1>6 DEF Flow

(* A reader works a record off: it is recorded, forgotten, or no answer.   *)
LEMMA AddOnTheWay ==
  ASSUME Flow, NEW r \in Readers, addAnswer(r)
  PROVE  /\ OnTheWay' \subseteq OnTheWay
         /\ OnTheWay \subseteq OnTheWay' \union ({Head(hand[r])} \ {Other})
<1>1. /\ hand[r] # <<>> /\ hand' = [hand EXCEPT ![r] = Tail(hand[r])]
      /\ ring' = ring
  BY DEF addAnswer, rest, kernel
<1>2. hand[r] \in Seq(Records)
  BY DEF Flow
<1>3. AnswersOf(hand[r]) = ({Head(hand[r])} \ {Other}) \union AnswersOf(Tail(hand[r]))
  BY <1>1, <1>2, AnswersTail
<1>4. \A q \in Readers : hand'[q] = IF q = r THEN Tail(hand[r]) ELSE hand[q]
  BY <1>1 DEF Flow
<1> QED BY <1>1, <1>3, <1>4, OnTheWayIff, OnTheWayIffPrimed

LEMMA AddFlow ==
  ASSUME Flow, NEW r \in Readers, addAnswer(r)
  PROVE  Flow'
<1>1. /\ hand[r] # <<>> /\ hand' = [hand EXCEPT ![r] = Tail(hand[r])]
      /\ ring' = ring /\ accepted' = accepted
  BY DEF addAnswer, rest, kernel
<1>2. hand[r] \in Seq(Records) /\ Tail(hand[r]) \in Seq(Records)
  BY <1>1 DEF Flow
<1>3. hand' \in [Readers -> Seq(Records)]
  BY <1>1, <1>2 DEF Flow
<1>4. AnswersOf(hand[r]) = ({Head(hand[r])} \ {Other}) \union AnswersOf(Tail(hand[r]))
  BY <1>1, <1>2, AnswersTail
<1>6. OnTheWay' \subseteq OnTheWay /\ OnTheWay \subseteq OnTheWay' \union ({Head(hand[r])} \ {Other})
  BY AddOnTheWay
<1>7. Head(hand[r]) # Other => Head(hand[r]) \in accepted
  <2>1. Head(hand[r]) # Other => Head(hand[r]) \in OnTheWay
    BY <1>4, OnTheWayIff
  <2> QED BY <2>1 DEF Flow
<1>8. CASE Head(hand[r]) = Other /\ dns' = dns /\ forgotten' = forgotten
  BY <1>1, <1>3, <1>6, <1>8 DEF Flow
<1>9. CASE /\ Head(hand[r]) # Other /\ dns' = AddDns(dns, Head(hand[r]), now)
           /\ forgotten' = forgotten
  <2>1. DOMAIN dns' = DOMAIN dns \union {Head(hand[r])}
    BY <1>9 DEF AddDns
  <2> QED BY <1>1, <1>3, <1>6, <1>7, <1>9, <2>1 DEF Flow
<1>10. CASE /\ Head(hand[r]) # Other /\ dns' = dns
            /\ forgotten' = forgotten \union {Head(hand[r])}
  BY <1>1, <1>3, <1>6, <1>10 DEF Flow
<1> QED BY <1>8, <1>9, <1>10 DEF addAnswer

(* The process dies with what is on its way.                               *)
LEMMA RestartFlow ==
  ASSUME Flow, Restart
  PROVE  Flow'
<1>1. /\ hand' = [r \in Readers |-> <<>>]
      /\ ring' = [r \in Readers |-> [c \in Cpus |-> <<>>]]
      /\ forgotten' = forgotten \union OnTheWay
      /\ dns' = dns /\ accepted' = accepted
  BY DEF Restart, NoRings
<1>2. OnTheWay' = {}
  BY <1>1, OnTheWayIffPrimed, NothingHeld
<1> QED BY <1>1, <1>2 DEF Flow

LEMMA FlowHolds == Spec => []Flow
<1>1. Init => Flow
  <2> SUFFICES ASSUME Init PROVE Flow
    OBVIOUS
  <2>1. OnTheWay = {}
    BY OnTheWayIff, NothingHeld DEF Init, NoRings
  <2> QED BY <2>1 DEF Init, Flow, NoRows
<1>2. Shape /\ Flow /\ [Next]_vars => Flow'
  <2> SUFFICES ASSUME Shape, Flow, [Next]_vars PROVE Flow'
    OBVIOUS
  <2>1. ASSUME UNCHANGED <<hand, ring, dns, accepted, forgotten>> PROVE Flow'
    <3>1. OnTheWay' = OnTheWay
      BY <2>1, OnTheWayIff, OnTheWayIffPrimed
    <3> QED BY <2>1, <3>1 DEF Flow
  <2>2. ASSUME NEW c \in Cpus, NEW m \in Messages, udp_dns_sniff(c, m) PROVE Flow'
    BY <2>2, SniffFlow
  <2>3. ASSUME NEW r \in Readers, attachDnsSniffer(r) PROVE Flow'
    BY <2>1, <2>3 DEF attachDnsSniffer, process, history
  <2>4. ASSUME NEW r \in Readers, NEW c \in Cpus, NewReader(r, c) PROVE Flow'
    BY <2>1, <2>4 DEF NewReader, history
  <2>5. ASSUME NEW r \in Readers, NEW c \in Cpus, Read(r, c) PROVE Flow'
    BY <2>5, ReadFlow
  <2>6. ASSUME NEW r \in Readers, addAnswer(r) PROVE Flow'
    BY <2>6, AddFlow
  <2>7. CASE Restart
    BY <2>7, RestartFlow
  <2>8. CASE Tick \/ ClockStepsBack
    BY <2>1, <2>8 DEF Tick, ClockStepsBack, kernel, process, history
  <2>9. CASE UNCHANGED vars
    BY <2>1, <2>9 DEF vars, kernel, process, history
  <2> QED BY <2>2, <2>3, <2>4, <2>5, <2>6, <2>7, <2>8, <2>9 DEF Next, pollDnsResponses
<1> QED BY <1>1, <1>2, ShapeHolds, PTL DEF Spec

(* Between the rings and the DNS table nothing is invented and nothing     *)
(* lost, but for deaths of the process and failed inserts.                 *)
THEOREM AnswersAreAccounted == Spec => []RingsReachTable
<1>1. Flow => RingsReachTable
  BY DEF Flow, RingsReachTable
<1> QED BY <1>1, FlowHolds, PTL
-----------------------------------------------------------------------------
(* Answers for an ip in a message, and the last of them.                   *)
IsFor(rec, ip) == rec # Other /\ rec[1] = ip
Mentions(m, ip) == \E i \in DOMAIN m : IsFor(m[i], ip)
LastIs(m, ip, d) ==
  \A i \in DOMAIN m :
    IsFor(m[i], ip) /\ (\A j \in DOMAIN m : j > i => ~IsFor(m[j], ip)) => m[i][2] = d

(* LastDomain finds it, if there is one.                                   *)
LEMMA LastDomainIs ==
  ASSUME NEW m \in Seq(Records), NEW ip, NEW d
  PROVE  /\ LastIs(m, ip, LastDomain(m, ip, d))
         /\ ~Mentions(m, ip) => LastDomain(m, ip, d) = d
         /\ Mentions(m, ip) => LastDomain(m, ip, d) \in Domains
<1> DEFINE hits == {i \in DOMAIN m : IsFor(m[i], ip)}
<1>1. LastDomain(m, ip, d) = IF hits = {} THEN d ELSE m[Max(hits)][2]
  BY DEF LastDomain, IsFor
<1>2. Len(m) \in Nat /\ DOMAIN m = 1 .. Len(m) /\ hits \subseteq 1 .. Len(m)
  OBVIOUS
<1>3. Mentions(m, ip) <=> hits # {}
  BY DEF Mentions
<1>4. ASSUME hits # {}
      PROVE  Max(hits) \in hits /\ \A y \in hits : Max(hits) >= y
  <2> HIDE DEF hits
  <2>1. \E x \in hits : \A y \in hits : x >= y
    BY <1>2, <1>4, LargestExists
  <2> QED BY <2>1 DEF Max
<1>5. ASSUME NEW i \in DOMAIN m, IsFor(m[i], ip), \A j \in DOMAIN m : j > i => ~IsFor(m[j], ip)
      PROVE  m[i][2] = LastDomain(m, ip, d)
  <2>1. i \in hits /\ Max(hits) \in hits /\ Max(hits) >= i
    BY <1>4, <1>5
  <2>2. i = Max(hits)
    BY <1>2, <1>5, <2>1
  <2> QED BY <1>1, <2>1, <2>2
<1>6. ASSUME hits # {} PROVE m[Max(hits)][2] \in Domains
  <2>1. m[Max(hits)] \in Records /\ m[Max(hits)] # Other
    BY <1>2, <1>4, <1>6 DEF IsFor
  <2> QED BY <2>1 DEF Records, Answers
<1> HIDE DEF hits
<1> QED BY <1>1, <1>3, <1>5, <1>6 DEF LastIs
-----------------------------------------------------------------------------
(* Types of what Shape and Flow leave out.                                 *)
Rest ==
  /\ hooks \subseteq Readers
  /\ lost \in [Readers -> [Cpus -> Nat]]
  /\ opened \in [Readers -> SUBSET Cpus]
  /\ now \in 0 .. MaxTime
  /\ \A k \in DOMAIN dns : dns[k] \in 0 .. MaxTime
  /\ packets \in 0 .. MaxPackets
  /\ faults \in 0 .. MaxFaults
  /\ accepted \subseteq Answers
  /\ forgotten \subseteq Answers
  /\ latest \in [Readers -> [Cpus -> [Ips -> Domains \union {Nobody}]]]
  /\ behind \subseteq Ips

LEMMA AnswersTyped ==
  ASSUME NEW m \in Seq(Records)
  PROVE  AnswersOf(m) \subseteq Answers
BY DEF AnswersOf, ToSet, Records

LEMMA SniffRest ==
  ASSUME Shape, Rest, NEW c \in Cpus, NEW m \in Messages, udp_dns_sniff(c, m)
  PROVE  Rest'
<1>1. Readable(m) \in Seq(Records)
  BY ReadableTyped, DnsSnifferAssumption
<1>2. UNCHANGED <<hand, dns, forgotten, behind, now, opened, hooks, faults>>
  BY SniffCases
<1>3. packets' \in 0 .. MaxPackets
  BY DnsSnifferAssumption DEF udp_dns_sniff, Rest
<1>4. lost' \in [Readers -> [Cpus -> Nat]]
  <2>1. \/ lost' = lost
        \/ /\ dnsArr[c] # Nobody
           /\ \/ lost' = [lost EXCEPT ![dnsArr[c]][c] = @ + 1]
              \/ lost' = [lost EXCEPT ![dnsArr[c]][c] = 0]
    BY DEF udp_dns_sniff, bpf_perf_event_output
  <2>2. dnsArr[c] \in Readers \union {Nobody}
    BY DEF Shape
  <2>3. ASSUME NEW q \in Readers, lost' = [lost EXCEPT ![q][c] = @ + 1]
        PROVE  lost' \in [Readers -> [Cpus -> Nat]]
    BY <2>3 DEF Rest
  <2>4. ASSUME NEW q \in Readers, lost' = [lost EXCEPT ![q][c] = 0]
        PROVE  lost' \in [Readers -> [Cpus -> Nat]]
    BY <2>4 DEF Rest
  <2> QED BY <2>1, <2>2, <2>3, <2>4 DEF Rest
<1>5. CASE UNCHANGED <<ring, accepted, latest>>
  BY <1>2, <1>3, <1>4, <1>5 DEF Rest
<1>6. ASSUME NEW q \in Readers, Takes(q, c, m) PROVE Rest'
  <2>1. accepted' \subseteq Answers
    BY <1>1, <1>6, AnswersTyped DEF Takes, Rest
  <2>2. latest' = [latest EXCEPT ![q][c] =
                     [ip \in Ips |-> LastDomain(Readable(m), ip, latest[q][c][ip])]]
    BY <1>6 DEF Takes, Rest
  <2>3. \A ip \in Ips : LastDomain(Readable(m), ip, latest[q][c][ip]) \in Domains \union {Nobody}
    BY <1>1, LastDomainIs DEF Rest
  <2>4. latest' \in [Readers -> [Cpus -> [Ips -> Domains \union {Nobody}]]]
    BY <2>2, <2>3 DEF Rest
  <2> QED BY <1>2, <1>3, <1>4, <2>1, <2>4 DEF Rest
<1> QED BY <1>5, <1>6, SniffCases

LEMMA AddRest ==
  ASSUME Flow, Rest, NEW r \in Readers, addAnswer(r)
  PROVE  Rest'
<1>1. UNCHANGED <<hooks, lost, opened, now, packets, accepted, latest>>
  BY DEF addAnswer, kernel
<1>2. hand[r] # <<>> /\ Head(hand[r]) \in Records
  BY DEF addAnswer, Flow
<1>3. CASE Head(hand[r]) = Other /\ UNCHANGED <<dns, faults, forgotten, behind>>
  BY <1>1, <1>3 DEF Rest
<1>4. CASE /\ Head(hand[r]) # Other /\ dns' = AddDns(dns, Head(hand[r]), now)
           /\ behind' \subseteq behind \union {Head(hand[r])[1]}
           /\ UNCHANGED <<faults, forgotten>>
  <2>1. \A k \in DOMAIN dns' : dns'[k] \in 0 .. MaxTime
    BY <1>4 DEF AddDns, Rest
  <2>2. Head(hand[r])[1] \in Ips
    BY <1>2, <1>4 DEF Records, Answers
  <2> QED BY <1>1, <1>4, <2>1, <2>2 DEF Rest
<1>5. CASE /\ Head(hand[r]) # Other /\ faults < MaxFaults /\ faults' = faults + 1
           /\ forgotten' = forgotten \union {Head(hand[r])} /\ UNCHANGED <<dns, behind>>
  <2>1. Head(hand[r]) \in Answers
    BY <1>2, <1>5 DEF Records
  <2>2. faults' \in 0 .. MaxFaults
    BY <1>5, DnsSnifferAssumption DEF Rest
  <2> QED BY <1>1, <1>5, <2>1, <2>2 DEF Rest
<1>6. ASSUME NEW b PROVE behind \ {b} \subseteq behind \union {b}
  OBVIOUS
<1> QED BY <1>3, <1>4, <1>5, <1>6 DEF addAnswer

LEMMA RestHolds == Spec => []Rest
<1>1. Init => Rest
  BY DnsSnifferAssumption DEF Init, Rest, NoLosses, NoRows, Nobody
<1>2. Shape /\ Flow /\ Rest /\ [Next]_vars => Rest'
  <2> SUFFICES ASSUME Shape, Flow, Rest, [Next]_vars PROVE Rest'
    OBVIOUS
  <2>1. ASSUME NEW c \in Cpus, NEW m \in Messages, udp_dns_sniff(c, m) PROVE Rest'
    BY <2>1, SniffRest
  <2>2. ASSUME NEW r \in Readers, attachDnsSniffer(r) PROVE Rest'
    BY <2>2 DEF attachDnsSniffer, Rest, process, history
  <2>3. ASSUME NEW r \in Readers, NEW c \in Cpus, NewReader(r, c) PROVE Rest'
    BY <2>3 DEF NewReader, Rest, history
  <2>4. ASSUME NEW r \in Readers, NEW c \in Cpus, Read(r, c) PROVE Rest'
    BY <2>4 DEF Read, Rest, history
  <2>5. ASSUME NEW r \in Readers, addAnswer(r) PROVE Rest'
    BY <2>5, AddRest
  <2>6. CASE Restart
    <3>1. faults' \in 0 .. MaxFaults
      BY <2>6, DnsSnifferAssumption DEF Restart, Rest
    <3>2. forgotten' \subseteq Answers
      BY <2>6 DEF Restart, Rest, Flow
    <3> QED BY <2>6, <3>1, <3>2 DEF Restart, Rest, NoLosses
  <2>7. CASE Tick
    <3>1. now' \in 0 .. MaxTime
      BY <2>7, DnsSnifferAssumption DEF Tick, Rest
    <3> QED BY <2>7, <3>1 DEF Tick, Rest, kernel, process, history
  <2>8. CASE ClockStepsBack
    <3>1. now' \in 0 .. MaxTime /\ faults' \in 0 .. MaxFaults
      BY <2>8, DnsSnifferAssumption DEF ClockStepsBack, Rest
    <3> QED BY <2>8, <3>1 DEF ClockStepsBack, Rest, kernel, process, history
  <2>9. CASE UNCHANGED vars
    BY <2>9 DEF vars, kernel, process, history, Rest
  <2> QED BY <2>1, <2>2, <2>3, <2>4, <2>5, <2>6, <2>7, <2>8, <2>9 DEF Next, pollDnsResponses
<1> QED BY <1>1, <1>2, ShapeHolds, FlowHolds, PTL DEF Spec

(* Buffers, rings, the table and the clock keep their types: a reader      *)
(* never has anything but records in hand, no memory from past a packet.   *)
THEOREM SnifferTyped == Spec => []TypeOK
<1>1. Shape /\ Flow /\ Rest => TypeOK
  <2> SUFFICES ASSUME Shape, Flow, Rest PROVE TypeOK
    OBVIOUS
  <2>1. ring \in [Readers -> [Cpus -> Seq(Entries)]]
    <3>1. \A r \in Readers, c \in Cpus : ring[r][c] \in Seq(Entries)
      <4>1. Proper \subseteq Entries
        BY DEF Proper
      <4> QED BY <4>1 DEF Shape
    <3> QED BY <3>1 DEF Shape
  <2>2. DOMAIN dns \subseteq Answers
    BY DEF Flow, Rest
  <2> QED BY <2>1, <2>2 DEF TypeOK, Shape, Flow, Rest
<1> QED BY <1>1, ShapeHolds, FlowHolds, RestHolds, PTL
-----------------------------------------------------------------------------
(* The order of the answers.                                               *)

(* No entry of ring t after the n-th has an answer for ip.                 *)
NoneAfter(t, n, ip) == \A k \in DOMAIN t : k > n => ~Mentions(Unpack(t[k]), ip)

(* The last answer for an ip in ring t, and that of a message h taken from *)
(* it, if there is no more in the ring, is the domain l has for the ip.    *)
NewestLast(t, l) ==
  \A ip \in Ips, i \in DOMAIN t : NoneAfter(t, i, ip) => LastIs(Unpack(t[i]), ip, l[ip])

NewestInHand(h, t, l) ==
  \A ip \in Ips : NoneAfter(t, 0, ip) => LastIs(h, ip, l[ip])

Order ==
  /\ \A r \in Readers, c \in Cpus : NewestLast(ring[r][c], latest[r][c])
  /\ \A r \in Readers : hand[r] # <<>> =>
       \E c \in Cpus : NewestInHand(hand[r], ring[r][c], latest[r][c])

LEMMA NothingMentioned ==
  /\ \A ip : ~Mentions(<<>>, ip)
  /\ \A ip, d : LastIs(<<>>, ip, d)
  /\ Unpack(LostRecord) = <<>>
BY DEF Mentions, LastIs, Unpack, LostRecord

(* A ring takes a sample, after a record of losses perhaps.                *)
LEMMA NewestAppend ==
  ASSUME NEW t \in Seq(Proper), NEW s \in Proper, Unpack(s) \in Seq(Records),
         NEW u \in Seq(Proper), u = <<s>> \/ u = <<LostRecord, s>>,
         NEW l, NEW k, \A ip \in Ips : k[ip] = LastDomain(Unpack(s), ip, l[ip])
  PROVE  /\ NewestLast(t, l) => NewestLast(t \o u, k)
         /\ \A h : NewestInHand(h, t, l) => NewestInHand(h, t \o u, k)
<1>1. /\ Len(t) \in Nat /\ DOMAIN t = 1 .. Len(t) /\ Len(u) \in Nat /\ Len(u) >= 1
      /\ DOMAIN (t \o u) = 1 .. Len(t) + Len(u)
      /\ u[Len(u)] = s /\ \A i \in 1 .. Len(u) : i # Len(u) => u[i] = LostRecord
  <2>1. /\ Len(t) \in Nat /\ DOMAIN t = 1 .. Len(t) /\ Len(u) \in Nat
        /\ DOMAIN (t \o u) = 1 .. Len(t) + Len(u)
    OBVIOUS
  <2>2. CASE u = <<s>>
    BY <2>1, <2>2
  <2>3. CASE u = <<LostRecord, s>>
    <3>1. Len(u) = 2 /\ u[1] = LostRecord /\ u[2] = s
      BY <2>3
    <3> QED BY <2>1, <3>1
  <2> QED BY <2>2, <2>3
<1>2. /\ \A i \in 1 .. Len(t) : (t \o u)[i] = t[i]
      /\ \A i \in 1 .. Len(u) : (t \o u)[Len(t) + i] = u[i]
  OBVIOUS
<1>3. (t \o u)[Len(t) + Len(u)] = s /\ Len(t) + Len(u) \in DOMAIN (t \o u)
  BY <1>1, <1>2
<1>4. ASSUME NEW i \in 0 .. Len(t), NEW ip \in Ips, NoneAfter(t \o u, i, ip)
      PROVE  NoneAfter(t, i, ip) /\ k[ip] = l[ip]
  <2>1. NoneAfter(t, i, ip)
    BY <1>1, <1>2, <1>4 DEF NoneAfter
  <2>2. ~Mentions(Unpack(s), ip)
    <3>1. Len(t) + Len(u) > i
      BY <1>1
    <3> QED BY <1>3, <1>4, <3>1 DEF NoneAfter
  <2> QED BY <2>1, <2>2, LastDomainIs
<1>5. ASSUME NewestLast(t, l) PROVE NewestLast(t \o u, k)
  <2> SUFFICES ASSUME NEW ip \in Ips, NEW i \in DOMAIN (t \o u), NoneAfter(t \o u, i, ip)
               PROVE  LastIs(Unpack((t \o u)[i]), ip, k[ip])
    BY DEF NewestLast
  <2>1. CASE i <= Len(t)
    <3>1. i \in 0 .. Len(t) /\ i \in DOMAIN t /\ (t \o u)[i] = t[i]
      BY <1>1, <1>2, <2>1
    <3>2. NoneAfter(t, i, ip) /\ k[ip] = l[ip]
      BY <1>4, <3>1
    <3> QED BY <1>5, <3>1, <3>2 DEF NewestLast
  <2>2. CASE i = Len(t) + Len(u)
    BY <1>3, <2>2, LastDomainIs
  <2>3. CASE i > Len(t) /\ i # Len(t) + Len(u)
    <3>1. i - Len(t) \in 1 .. Len(u) /\ i - Len(t) # Len(u) /\ Len(t) + (i - Len(t)) = i
      BY <1>1, <2>3
    <3>2. (t \o u)[i] = LostRecord
      BY <1>1, <1>2, <3>1
    <3> QED BY <3>2, NothingMentioned
  <2> QED BY <1>1, <2>1, <2>2, <2>3
<1>6. ASSUME NEW h, NewestInHand(h, t, l) PROVE NewestInHand(h, t \o u, k)
  BY <1>1, <1>4, <1>6 DEF NewestInHand
<1> QED BY <1>5, <1>6

(* A reader takes the first entry of a ring.                               *)
LEMMA NewestTail ==
  ASSUME NEW t \in Seq(Proper), t # <<>>, NEW l, NewestLast(t, l)
  PROVE  NewestLast(Tail(t), l) /\ NewestInHand(Unpack(Head(t)), Tail(t), l)
<1>1. /\ DOMAIN t = 1 .. Len(t) /\ DOMAIN Tail(t) = 1 .. Len(t) - 1
      /\ Len(t) \in Nat /\ Len(t) > 0 /\ Head(t) = t[1]
  OBVIOUS
<1>2. \A i \in 1 .. Len(t) - 1 : Tail(t)[i] = t[i + 1]
  OBVIOUS
<1>3. ASSUME NEW i \in 0 .. Len(t) - 1, NEW ip \in Ips, NoneAfter(Tail(t), i, ip)
      PROVE  NoneAfter(t, i + 1, ip)
  <2> SUFFICES ASSUME NEW n \in DOMAIN t, n > i + 1 PROVE ~Mentions(Unpack(t[n]), ip)
    BY DEF NoneAfter
  <2>1. n - 1 \in DOMAIN Tail(t) /\ n - 1 > i /\ (n - 1) + 1 = n
    BY <1>1
  <2>2. Tail(t)[n - 1] = t[n]
    BY <1>1, <1>2, <2>1
  <2> QED BY <1>3, <2>1, <2>2 DEF NoneAfter
<1>4. ASSUME NEW ip \in Ips, NEW i \in DOMAIN Tail(t), NoneAfter(Tail(t), i, ip)
      PROVE  LastIs(Unpack(Tail(t)[i]), ip, l[ip])
  <2>1. i \in 0 .. Len(t) - 1 /\ i + 1 \in DOMAIN t /\ Tail(t)[i] = t[i + 1]
    BY <1>1, <1>2
  <2>2. NoneAfter(t, i + 1, ip)
    BY <1>3, <1>4, <2>1
  <2> QED BY <2>1, <2>2 DEF NewestLast
<1>5. ASSUME NEW ip \in Ips, NoneAfter(Tail(t), 0, ip)
      PROVE  LastIs(Unpack(Head(t)), ip, l[ip])
  <2>1. 0 \in 0 .. Len(t) - 1 /\ 0 + 1 = 1 /\ 1 \in DOMAIN t
    BY <1>1
  <2>2. NoneAfter(t, 1, ip)
    BY <1>3, <1>5, <2>1
  <2> QED BY <1>1, <2>1, <2>2 DEF NewestLast
<1> QED BY <1>4, <1>5 DEF NewestLast, NewestInHand

(* A reader works off the first record of its message.                     *)
LEMMA LastTail ==
  ASSUME NEW h \in Seq(Records), h # <<>>, NEW ip, NEW d, LastIs(h, ip, d)
  PROVE  /\ LastIs(Tail(h), ip, d)
         /\ IsFor(Head(h), ip) /\ ~Mentions(Tail(h), ip) => Head(h)[2] = d
<1>1. /\ DOMAIN h = 1 .. Len(h) /\ DOMAIN Tail(h) = 1 .. Len(h) - 1
      /\ Len(h) \in Nat /\ Len(h) > 0 /\ Head(h) = h[1]
  OBVIOUS
<1>2. \A i \in 1 .. Len(h) - 1 : Tail(h)[i] = h[i + 1]
  OBVIOUS
<1>3. \A n \in DOMAIN h : n > 1 => n - 1 \in DOMAIN Tail(h) /\ Tail(h)[n - 1] = h[n]
  BY <1>1, <1>2
<1>4. ASSUME NEW i \in DOMAIN Tail(h), IsFor(Tail(h)[i], ip),
             \A j \in DOMAIN Tail(h) : j > i => ~IsFor(Tail(h)[j], ip)
      PROVE  Tail(h)[i][2] = d
  <2>1. i + 1 \in DOMAIN h /\ Tail(h)[i] = h[i + 1] /\ i \in Nat /\ i >= 1
    BY <1>1, <1>2
  <2>2. ASSUME NEW n \in DOMAIN h, n > i + 1 PROVE ~IsFor(h[n], ip)
    <3>1. n > 1 /\ n - 1 > i
      BY <1>1, <2>1, <2>2
    <3> QED BY <1>3, <1>4, <3>1
  <2> QED BY <1>4, <2>1, <2>2 DEF LastIs
<1>5. ASSUME IsFor(Head(h), ip), ~Mentions(Tail(h), ip) PROVE Head(h)[2] = d
  <2>1. 1 \in DOMAIN h
    BY <1>1
  <2>2. ASSUME NEW n \in DOMAIN h, n > 1 PROVE ~IsFor(h[n], ip)
    BY <1>3, <1>5, <2>2 DEF Mentions
  <2> QED BY <1>1, <1>5, <2>1, <2>2 DEF LastIs
<1> QED BY <1>4, <1>5 DEF LastIs

LEMMA MentionedIff ==
  /\ \A m, ip : Mentions(m, ip) <=> \E k \in AnswersOf(m) : k[1] = ip
  /\ \A t, ip : (\E i \in DOMAIN t : Mentions(Unpack(t[i]), ip)) <=> \E k \in Holds(t) : k[1] = ip
<1>1. \A m, ip : Mentions(m, ip) <=> \E k \in AnswersOf(m) : k[1] = ip
  BY DEF Mentions, IsFor, AnswersOf, ToSet
<1>2. ASSUME NEW t, NEW ip
      PROVE  (\E i \in DOMAIN t : Mentions(Unpack(t[i]), ip)) <=> \E k \in Holds(t) : k[1] = ip
  <2>1. \A k : k \in Holds(t) <=> \E i \in DOMAIN t : k \in AnswersOf(Unpack(t[i]))
    BY DEF Holds
  <2> QED BY <1>1, <2>1
<1> QED BY <1>1, <1>2

LEMMA SniffOrder ==
  ASSUME Shape, Rest, Order, NEW c \in Cpus, NEW m \in Messages, udp_dns_sniff(c, m)
  PROVE  Order'
<1>1. hand' = hand
  BY SniffCases
<1>2. CASE UNCHANGED <<ring, accepted, latest>>
  BY <1>1, <1>2 DEF Order
<1>3. ASSUME NEW q \in Readers, Takes(q, c, m) PROVE Order'
  <2> DEFINE s == Sample(c, m)
             u == IF lost[q][c] > 0 THEN <<LostRecord, s>> ELSE <<s>>
             t == ring[q][c]
             l == latest[q][c]
             k == latest'[q][c]
  <2>1. s \in Proper /\ LostRecord \in Proper /\ t \in Seq(Proper)
    BY SampleProper, LostProper DEF Shape
  <2>2. Unpack(s) = Readable(m) /\ Unpack(s) \in Seq(Records)
    BY SampleUnpacks
  <2>3. \A ip \in Ips : k[ip] = LastDomain(Unpack(s), ip, l[ip])
    <3>1. k = [ip \in Ips |-> LastDomain(Readable(m), ip, latest[q][c][ip])]
      BY <1>3 DEF Takes, Rest
    <3> QED BY <2>2, <3>1
  <2>4. \A r \in Readers, d \in Cpus :
          /\ ring'[r][d] = IF r = q /\ d = c THEN t \o u ELSE ring[r][d]
          /\ ~(r = q /\ d = c) => latest'[r][d] = latest[r][d]
    <3>1. ring' = [ring EXCEPT ![q][c] = @ \o u]
      BY <1>3 DEF Takes
    <3>2. \A r \in Readers, d \in Cpus : ~(r = q /\ d = c) => latest'[r][d] = latest[r][d]
      BY <1>3 DEF Takes, Rest
    <3> HIDE DEF u, s
    <3>3. \A r \in Readers, d \in Cpus :
            ring'[r][d] = IF r = q /\ d = c THEN t \o u ELSE ring[r][d]
      BY <3>1 DEF Shape
    <3> QED BY <3>2, <3>3
  <2> HIDE DEF s, t, l, k
  <2>5. u \in Seq(Proper) /\ (u = <<s>> \/ u = <<LostRecord, s>>)
    BY <2>1
  <2> HIDE DEF u
  <2>6. /\ NewestLast(t, l) => NewestLast(t \o u, k)
        /\ \A h : NewestInHand(h, t, l) => NewestInHand(h, t \o u, k)
    BY <2>1, <2>2, <2>3, <2>5, NewestAppend
  <2>7. ASSUME NEW r \in Readers, NEW d \in Cpus PROVE NewestLast(ring'[r][d], latest'[r][d])
    <3>1. NewestLast(ring[r][d], latest[r][d])
      BY DEF Order
    <3> QED BY <2>4, <2>6, <3>1 DEF t, l, k
  <2>8. ASSUME NEW r \in Readers, hand'[r] # <<>>
        PROVE  \E d \in Cpus : NewestInHand(hand'[r], ring'[r][d], latest'[r][d])
    <3>1. PICK d \in Cpus : NewestInHand(hand[r], ring[r][d], latest[r][d])
      BY <1>1, <2>8 DEF Order
    <3>2. NewestInHand(hand[r], ring'[r][d], latest'[r][d])
      BY <2>4, <2>6, <3>1 DEF t, l, k
    <3> QED BY <1>1, <3>2
  <2> QED BY <2>7, <2>8 DEF Order
<1> QED BY <1>2, <1>3, SniffCases

LEMMA ReadOrder ==
  ASSUME Shape, Flow, Order, NEW r \in Readers, NEW c \in Cpus, Read(r, c)
  PROVE  Order'
<1>1. /\ ring[r][c] # <<>> /\ latest' = latest
      /\ ring' = [ring EXCEPT ![r][c] = Tail(@)]
      /\ hand' = [hand EXCEPT ![r] = Unpack(Head(ring[r][c]))]
  BY DEF Read, TakesEntry, history
<1>2. ring[r][c] \in Seq(Proper)
  BY DEF Shape
<1>3. /\ \A q \in Readers, d \in Cpus :
           ring'[q][d] = IF q = r /\ d = c THEN Tail(ring[r][c]) ELSE ring[q][d]
      /\ \A q \in Readers :
           hand'[q] = IF q = r THEN Unpack(Head(ring[r][c])) ELSE hand[q]
  BY <1>1 DEF Shape, Flow
<1>4. NewestLast(ring[r][c], latest[r][c])
  BY DEF Order
<1>5. /\ NewestLast(Tail(ring[r][c]), latest[r][c])
      /\ NewestInHand(Unpack(Head(ring[r][c])), Tail(ring[r][c]), latest[r][c])
  BY <1>1, <1>2, <1>4, NewestTail
<1>6. ASSUME NEW q \in Readers, NEW d \in Cpus PROVE NewestLast(ring'[q][d], latest'[q][d])
  BY <1>1, <1>3, <1>5 DEF Order
<1>7. ASSUME NEW q \in Readers, hand'[q] # <<>>
      PROVE  \E d \in Cpus : NewestInHand(hand'[q], ring'[q][d], latest'[q][d])
  <2>1. CASE q = r
    BY <1>1, <1>3, <1>5, <2>1
  <2>2. CASE q # r
    BY <1>1, <1>3, <1>7, <2>2 DEF Order
  <2> QED BY <2>1, <2>2
<1> QED BY <1>6, <1>7 DEF Order

LEMMA AddOrder ==
  ASSUME Flow, Order, NEW r \in Readers, addAnswer(r)
  PROVE  Order'
<1>1. /\ hand[r] # <<>> /\ hand' = [hand EXCEPT ![r] = Tail(hand[r])]
      /\ ring' = ring /\ latest' = latest
  BY DEF addAnswer, rest, kernel
<1>2. \A q \in Readers : hand'[q] = IF q = r THEN Tail(hand[r]) ELSE hand[q]
  BY <1>1 DEF Flow
<1>3. PICK c \in Cpus : NewestInHand(hand[r], ring[r][c], latest[r][c])
  BY <1>1 DEF Order
<1>4. hand[r] \in Seq(Records)
  BY DEF Flow
<1>5. NewestInHand(Tail(hand[r]), ring[r][c], latest[r][c])
  BY <1>1, <1>3, <1>4, LastTail DEF NewestInHand
<1>6. ASSUME NEW q \in Readers, hand'[q] # <<>>
      PROVE  \E d \in Cpus : NewestInHand(hand'[q], ring'[q][d], latest'[q][d])
  <2>1. CASE q = r
    BY <1>1, <1>2, <1>5, <2>1
  <2>2. CASE q # r
    BY <1>1, <1>2, <1>6, <2>2 DEF Order
  <2> QED BY <2>1, <2>2
<1> QED BY <1>1, <1>6 DEF Order

LEMMA OrderHolds == Spec => []Order
<1>1. ASSUME NEW l PROVE NewestLast(<<>>, l)
  BY DEF NewestLast
<1>2. Init => Order
  BY <1>1 DEF Init, NoRings, Order
<1>3. Shape /\ Flow /\ Rest /\ Order /\ [Next]_vars => Order'
  <2> SUFFICES ASSUME Shape, Flow, Rest, Order, [Next]_vars PROVE Order'
    OBVIOUS
  <2>1. ASSUME UNCHANGED <<hand, ring, latest>> PROVE Order'
    BY <2>1 DEF Order
  <2>2. ASSUME NEW c \in Cpus, NEW m \in Messages, udp_dns_sniff(c, m) PROVE Order'
    BY <2>2, SniffOrder
  <2>3. ASSUME NEW r \in Readers, attachDnsSniffer(r) PROVE Order'
    BY <2>1, <2>3 DEF attachDnsSniffer, process, history
  <2>4. ASSUME NEW r \in Readers, NEW c \in Cpus, NewReader(r, c) PROVE Order'
    BY <2>1, <2>4 DEF NewReader, history
  <2>5. ASSUME NEW r \in Readers, NEW c \in Cpus, Read(r, c) PROVE Order'
    BY <2>5, ReadOrder
  <2>6. ASSUME NEW r \in Readers, addAnswer(r) PROVE Order'
    BY <2>6, AddOrder
  <2>7. CASE Restart
    BY <1>1, <2>7 DEF Restart, NoRings, Order
  <2>8. CASE Tick \/ ClockStepsBack
    BY <2>1, <2>8 DEF Tick, ClockStepsBack, kernel, process, history
  <2>9. CASE UNCHANGED vars
    BY <2>1, <2>9 DEF vars, kernel, process, history
  <2> QED BY <2>2, <2>3, <2>4, <2>5, <2>6, <2>7, <2>8, <2>9 DEF Next, pollDnsResponses
<1> QED BY <1>2, <1>3, ShapeHolds, FlowHolds, RestHolds, PTL DEF Spec
-----------------------------------------------------------------------------
(* The labels.                                                             *)

(* What AddDns does to the answers of GetDomainForIP, if no other row of   *)
(* the ip is stamped later.                                                *)
LEMMA LabelAdded ==
  ASSUME NEW table, NEW k, NEW n \in Nat, \A j \in DOMAIN table : table[j] \in Nat
  PROVE  /\ \/ \E j \in DOMAIN table : j # k /\ j[1] = k[1] /\ table[j] > n
            \/ k[2] \in GetDomainForIP(AddDns(table, k, n), k[1])
         /\ \A ip : ip # k[1] =>
              GetDomainForIP(AddDns(table, k, n), ip) = GetDomainForIP(table, ip)
<1> DEFINE new == AddDns(table, k, n)
           later == \E j \in DOMAIN table : j # k /\ j[1] = k[1] /\ table[j] > n
<1>1. DOMAIN new = DOMAIN table \union {k}
  BY DEF AddDns
<1>2. new[k] = n /\ \A j \in DOMAIN table : j # k => new[j] = table[j]
  BY DEF AddDns
<1> HIDE DEF new
<1>3. ASSUME ~later, NEW j \in DOMAIN new, j[1] = k[1] PROVE new[j] <= new[k]
  <2>1. CASE j = k
    BY <1>2, <2>1
  <2>2. CASE j # k
    <3>1. j \in DOMAIN table /\ new[j] = table[j] /\ table[j] \in Nat /\ ~(table[j] > n)
      BY <1>1, <1>2, <1>3, <2>2
    <3> QED BY <1>2, <3>1
  <2> QED BY <2>1, <2>2
<1>4. later \/ k[2] \in GetDomainForIP(new, k[1])
  BY <1>1, <1>3 DEF GetDomainForIP
<1>5. ASSUME NEW ip, ip # k[1] PROVE GetDomainForIP(new, ip) = GetDomainForIP(table, ip)
  <2>1. {j \in DOMAIN new : j[1] = ip} = {j \in DOMAIN table : j[1] = ip}
    BY <1>1, <1>5
  <2>2. \A j \in {i \in DOMAIN table : i[1] = ip} : new[j] = table[j]
    BY <1>2, <1>5
  <2> DEFINE rows == {j \in DOMAIN table : j[1] = ip}
  <2>3. {j \in rows : \A i \in rows : new[i] <= new[j]} =
          {j \in rows : \A i \in rows : table[i] <= table[j]}
    BY <2>2
  <2> QED BY <2>1, <2>3 DEF GetDomainForIP
<1> QED BY <1>4, <1>5 DEF new

Pending(ip) == \E k \in OnTheWay \union forgotten : k[1] = ip
FromLatest(ip) ==
  \E r \in Readers, c \in Cpus : latest[r][c][ip] \in GetDomainForIP(dns, ip)

(* An ip that has a label has that of some ring, or answers for it are on  *)
(* their way or forgotten, or another row of it bears a later stamp.       *)
Labels == \A k \in DOMAIN dns : Pending(k[1]) \/ FromLatest(k[1]) \/ k[1] \in behind

LEMMA SniffLabels ==
  ASSUME Shape, Flow, Rest, Labels, NEW c \in Cpus, NEW m \in Messages, udp_dns_sniff(c, m)
  PROVE  Labels'
<1>1. UNCHANGED <<hand, dns, forgotten, behind>>
  BY SniffCases
<1>2. CASE UNCHANGED <<ring, accepted, latest>>
  <2>1. OnTheWay' = OnTheWay
    BY <1>1, <1>2, OnTheWayIff, OnTheWayIffPrimed
  <2> QED BY <1>1, <1>2, <2>1 DEF Labels, Pending, FromLatest
<1>3. ASSUME NEW q \in Readers, Takes(q, c, m) PROVE Labels'
  <2>1. OnTheWay' = OnTheWay \union AnswersOf(Unpack(Sample(c, m)))
    BY <1>1, <1>3, TakesOnTheWay
  <2>2. OnTheWay' = OnTheWay \union AnswersOf(Readable(m)) /\ Readable(m) \in Seq(Records)
    BY <2>1, SampleUnpacks
  <2>3. latest' = [latest EXCEPT ![q][c] =
                     [ip \in Ips |-> LastDomain(Readable(m), ip, latest[q][c][ip])]]
    BY <1>3 DEF Takes, Rest
  <2>4. ASSUME NEW ip \in Ips, ~Mentions(Readable(m), ip), NEW r \in Readers, NEW d \in Cpus
        PROVE  latest'[r][d][ip] = latest[r][d][ip]
    <3>1. LastDomain(Readable(m), ip, latest[q][c][ip]) = latest[q][c][ip]
      BY <2>2, <2>4, LastDomainIs
    <3> QED BY <2>3, <3>1 DEF Rest
  <2>5. ASSUME NEW k \in DOMAIN dns, k[1] \notin behind
        PROVE  Pending(k[1])' \/ FromLatest(k[1])'
    <3>1. k[1] \in Ips
      BY DEF Flow, Rest, Answers
    <3>2. CASE Mentions(Readable(m), k[1])
      <4>1. PICK j \in AnswersOf(Readable(m)) : j[1] = k[1]
        BY <3>2, MentionedIff
      <4> QED BY <2>2, <4>1 DEF Pending
    <3>3. CASE Pending(k[1])
      BY <1>1, <2>2, <3>3 DEF Pending
    <3>4. CASE ~Mentions(Readable(m), k[1]) /\ FromLatest(k[1])
      BY <1>1, <2>4, <3>1, <3>4 DEF FromLatest
    <3> QED BY <2>5, <3>2, <3>3, <3>4 DEF Labels
  <2> QED BY <1>1, <2>5 DEF Labels
<1> QED BY <1>2, <1>3, SniffCases

LEMMA AddLabels ==
  ASSUME Shape, Flow, Rest, Order, Labels, NEW r \in Readers, addAnswer(r)
  PROVE  Labels'
<1>0. PICK rec : rec = Head(hand[r])
  OBVIOUS
<1>1. /\ hand[r] # <<>> /\ hand' = [hand EXCEPT ![r] = Tail(hand[r])]
      /\ ring' = ring /\ latest' = latest
  BY DEF addAnswer, rest, kernel
<1>2. hand[r] \in Seq(Records) /\ rec \in Records
  BY <1>0, <1>1 DEF Flow
<1>3. OnTheWay \subseteq OnTheWay' \union ({rec} \ {Other})
  BY <1>0, AddOnTheWay
<1>4. CASE rec = Other /\ UNCHANGED <<dns, forgotten, behind>>
  <2>1. OnTheWay \subseteq OnTheWay'
    BY <1>3, <1>4
  <2> QED BY <1>1, <1>4, <2>1 DEF Labels, Pending, FromLatest
<1>5. CASE rec # Other /\ forgotten' = forgotten \union {rec} /\ UNCHANGED <<dns, behind>>
  <2>1. OnTheWay \union forgotten \subseteq OnTheWay' \union forgotten'
    BY <1>3, <1>5
  <2> QED BY <1>1, <1>5, <2>1 DEF Labels, Pending, FromLatest
<1>6. CASE /\ rec # Other /\ dns' = AddDns(dns, rec, now) /\ forgotten' = forgotten
           /\ behind' = IF \E k \in DOMAIN dns : k # rec /\ k[1] = rec[1] /\ dns[k] > now
                        THEN behind \union {rec[1]} ELSE behind \ {rec[1]}
  <2>1. now \in Nat /\ \A j \in DOMAIN dns : dns[j] \in Nat
    BY DnsSnifferAssumption DEF Rest
  <2>2. /\ rec[1] \in behind' \/ rec[2] \in GetDomainForIP(dns', rec[1])
        /\ \A ip : ip # rec[1] => GetDomainForIP(dns', ip) = GetDomainForIP(dns, ip)
        /\ behind \subseteq behind' \union {rec[1]}
    <3>1. \/ \E k \in DOMAIN dns : k # rec /\ k[1] = rec[1] /\ dns[k] > now
          \/ rec[2] \in GetDomainForIP(dns', rec[1])
      BY <1>6, <2>1, LabelAdded
    <3>2. \A ip : ip # rec[1] => GetDomainForIP(dns', ip) = GetDomainForIP(dns, ip)
      BY <1>6, <2>1, LabelAdded
    <3> QED BY <1>6, <3>1, <3>2
  <2>3. DOMAIN dns' = DOMAIN dns \union {rec}
    BY <1>6 DEF AddDns
  <2>4. rec[1] \in Ips
    BY <1>2, <1>6 DEF Records, Answers
  <2>5. Pending(rec[1])' \/ FromLatest(rec[1])' \/ rec[1] \in behind'
    <3>1. PICK c \in Cpus : NewestInHand(hand[r], ring[r][c], latest[r][c])
      BY <1>1 DEF Order
    <3>2. CASE NoneAfter(ring[r][c], 0, rec[1]) /\ ~Mentions(Tail(hand[r]), rec[1])
      <4>1. LastIs(hand[r], rec[1], latest[r][c][rec[1]])
        BY <2>4, <3>1, <3>2 DEF NewestInHand
      <4>2. IsFor(rec, rec[1])
        BY <1>6 DEF IsFor
      <4>3. rec[2] = latest[r][c][rec[1]]
        BY <1>0, <1>1, <1>2, <3>2, <4>1, <4>2, LastTail
      <4> QED BY <1>1, <2>2, <4>3 DEF FromLatest
    <3>3. CASE Mentions(Tail(hand[r]), rec[1])
      <4>1. PICK k \in AnswersOf(Tail(hand[r])) : k[1] = rec[1]
        BY <3>3, MentionedIff
      <4>2. hand'[r] = Tail(hand[r])
        BY <1>1 DEF Flow
      <4>3. k \in OnTheWay'
        BY <4>1, <4>2, OnTheWayIffPrimed
      <4> QED BY <4>1, <4>3 DEF Pending
    <3>4. CASE ~NoneAfter(ring[r][c], 0, rec[1])
      <4>1. \E i \in DOMAIN ring[r][c] : Mentions(Unpack(ring[r][c][i]), rec[1])
        BY <3>4 DEF NoneAfter
      <4>2. PICK k \in Holds(ring[r][c]) : k[1] = rec[1]
        BY <4>1, MentionedIff
      <4>3. k \in OnTheWay'
        BY <1>1, <4>2, OnTheWayIffPrimed
      <4> QED BY <4>2, <4>3 DEF Pending
    <3> QED BY <3>2, <3>3, <3>4
  <2>6. ASSUME NEW k \in DOMAIN dns, k[1] # rec[1]
        PROVE  Pending(k[1])' \/ FromLatest(k[1])' \/ k[1] \in behind'
    <3>1. CASE Pending(k[1])
      BY <1>3, <1>6, <2>6, <3>1 DEF Pending
    <3>2. CASE FromLatest(k[1])
      BY <1>1, <2>2, <2>6, <3>2 DEF FromLatest
    <3> QED BY <2>2, <2>6, <3>1, <3>2 DEF Labels
  <2> QED BY <2>3, <2>5, <2>6 DEF Labels
<1> QED BY <1>0, <1>4, <1>5, <1>6 DEF addAnswer

LEMMA LabelsHold == Spec => []Labels
<1>1. Init => Labels
  BY DEF Init, Labels, NoRows
<1>2. Shape /\ Flow /\ Rest /\ Order /\ Labels /\ [Next]_vars => Labels'
  <2> SUFFICES ASSUME Shape, Flow, Rest, Order, Labels, [Next]_vars PROVE Labels'
    OBVIOUS
  <2>1. ASSUME UNCHANGED <<latest, dns, behind>>,
               OnTheWay \union forgotten \subseteq OnTheWay' \union forgotten'
        PROVE  Labels'
    BY <2>1 DEF Labels, Pending, FromLatest
  <2>2. ASSUME UNCHANGED <<hand, ring, dns, forgotten, latest, behind>> PROVE Labels'
    <3>1. OnTheWay' = OnTheWay
      BY <2>2, OnTheWayIff, OnTheWayIffPrimed
    <3> QED BY <2>1, <2>2, <3>1
  <2>3. ASSUME NEW c \in Cpus, NEW m \in Messages, udp_dns_sniff(c, m) PROVE Labels'
    BY <2>3, SniffLabels
  <2>4. ASSUME NEW r \in Readers, attachDnsSniffer(r) PROVE Labels'
    BY <2>2, <2>4 DEF attachDnsSniffer, process, history
  <2>5. ASSUME NEW r \in Readers, NEW c \in Cpus, NewReader(r, c) PROVE Labels'
    BY <2>2, <2>5 DEF NewReader, history
  <2>6. ASSUME NEW r \in Readers, NEW c \in Cpus, Read(r, c) PROVE Labels'
    <3>1. OnTheWay' = OnTheWay
      BY <2>6, ReadFlow
    <3>2. UNCHANGED <<dns, forgotten, latest, behind>>
      BY <2>6 DEF Read, history
    <3> QED BY <2>1, <3>1, <3>2
  <2>7. ASSUME NEW r \in Readers, addAnswer(r) PROVE Labels'
    BY <2>7, AddLabels
  <2>8. CASE Restart
    <3>1. UNCHANGED <<dns, latest, behind>> /\ forgotten' = forgotten \union OnTheWay
      BY <2>8 DEF Restart
    <3> QED BY <2>1, <3>1
  <2>9. CASE Tick \/ ClockStepsBack
    BY <2>2, <2>9 DEF Tick, ClockStepsBack, kernel, process, history
  <2>10. CASE UNCHANGED vars
    BY <2>2, <2>10 DEF vars, kernel, process, history
  <2> QED BY <2>3, <2>4, <2>5, <2>6, <2>7, <2>8, <2>9, <2>10 DEF Next, pollDnsResponses
<1> QED BY <1>1, <1>2, ShapeHolds, FlowHolds, RestHolds, OrderHolds, PTL DEF Spec

(* When nothing is on its way, the label GetDomainForIP gives an ip is the *)
(* newest answer of some CPU's ring, unless one for it was forgotten or    *)
(* another row of it bore a later stamp when the last was inserted.        *)
THEOREM LabelsAreNewest == Spec => []LabelFromLatest
<1>1. Labels => LabelFromLatest
  BY DEF Labels, Pending, FromLatest, LabelFromLatest
<1> QED BY <1>1, LabelsHold, PTL
=============================================================================
