----------------------------- MODULE DnsSniffer -----------------------------
(***************************************************************************)
(* How DNS answers get into the dns table: the sniffer of                  *)
(* ebpf/dnspkt.bpf.c and the goroutines of handlers/bpf.go that read what  *)
(* it reports.                                                             *)
(*                                                                         *)
(* The sniffer runs on every CPU, on both hooks of the WAN interface.  It  *)
(* copies a packet into a scratch buffer of its CPU that still holds parts *)
(* of earlier packets, and hands all of the buffer to the perf ring that   *)
(* dns_arr holds for the CPU.  attachDnsSniffer is called once per hook    *)
(* and starts a reader each time; each reader makes rings of its own and   *)
(* puts them into the one dns_arr, CPU by CPU, over those of the other.    *)
(*                                                                         *)
(* Lengths are counted in answer records.  The DNS header, the question    *)
(* and the sections after the answers are left out.  A message that is too *)
(* long for the buffer is cut between two records or inside one.           *)
(***************************************************************************)
EXTENDS DnsTable, SequencesExt

CONSTANTS
  Cpus,
  Ips, Domains,
  Messages,     \* DNS messages, each the sequence of its answer records
  Torn,         \* those with a record across the end of the buffer
  Other,        \* a record that is no A record (CNAME, AAAA, ...)
  Junk,         \* memory past the end of a packet, or never written
  DataLen,      \* DATA_LEN, size of the buffer
  HeaderLen,    \* what Ethernet, IP and UDP headers add to skb->len
  RingSize,     \* samples a ring has room for
  MaxPackets,   \* bound: DNS packets
  MaxTime,      \* bound: seconds
  MaxFaults     \* bound: deaths, failed inserts, clock steps

Answers == Ips \X Domains          \* A records
Records == Answers \union {Other}

ASSUME DnsSnifferAssumption ==
  /\ Messages \subseteq Seq(Records)
  /\ Torn \subseteq Messages
  /\ Other \notin Answers
  /\ Junk \notin Records
  /\ {DataLen, HeaderLen, RingSize} \subseteq Nat \ {0}
  /\ {MaxPackets, MaxTime, MaxFaults} \subseteq Nat

(* A reader is named after the hook whose attachment started it.           *)
Readers == {"egress", "ingress"}
Nobody == "nobody"

VARIABLES
  hooks,      \* kernel: hooks of the WAN interface the sniffer is on
  tmp,        \* tmp_map: the scratch buffer of each CPU
  dnsArr,     \* dns_arr: whose ring each CPU writes to
  ring,       \* ring[r][c]: the ring reader r made for CPU c
  lost,       \* lost[r][c]: samples it had no room for, not yet reported
  opened,     \* opened[r]: CPUs whose ring r has put into dns_arr
  hand,       \* hand[r]: records of the message r is working on
  dns,        \* the dns table
  now,        \* wall clock, in seconds
  packets,    \* DNS packets so far
  faults,     \* faults so far
  accepted,   \* history: readable answers of the packets a ring took
  forgotten,  \* history: those of them that died with the process or in SQL
  latest,     \* history: latest[r][c]: per ip, the domain accepted last
  behind      \* history: ips with a row stamped later than their last insert

kernel == <<hooks, tmp, dnsArr, ring, lost>>
process == <<opened, hand>>
history == <<accepted, forgotten, latest, behind>>
vars == <<kernel, process, dns, now, packets, faults, history>>

Blank == [i \in 1 .. DataLen |-> Junk]
NoRings == [r \in Readers |-> [c \in Cpus |-> <<>>]]
NoLosses == [r \in Readers |-> [c \in Cpus |-> 0]]

Init ==
  /\ hooks = {}
  /\ tmp = [c \in Cpus |-> Blank]
  /\ dnsArr = [c \in Cpus |-> Nobody]
  /\ ring = NoRings
  /\ lost = NoLosses
  /\ opened = [r \in Readers |-> {}]
  /\ hand = [r \in Readers |-> <<>>]
  /\ dns = NoRows
  /\ now = 0
  /\ packets = 0
  /\ faults = 0
  /\ accepted = {}
  /\ forgotten = {}
  /\ latest = [r \in Readers |-> [c \in Cpus |-> [ip \in Ips |-> Nobody]]]
  /\ behind = {}

-----------------------------------------------------------------------------
(* udp_dns_sniff, for a packet that is IPv4 over UDP from or to port 53;   *)
(* all others change nothing.                                              *)

copiedShort(m) == Len(m) - 1
(* len = skb->len < DATA_LEN ? skb->len : DATA_LEN.  It is applied from    *)
(* the payload on, so it reaches past the end of a short packet.           *)
copied(m) == IF HeaderLen + Len(m) < DataLen THEN HeaderLen + Len(m) ELSE DataLen

(* bpf_probe_read_kernel of so much of m over what the buffer held.        *)
payload(c, m) ==
  [i \in 1 .. DataLen |->
     IF i > copied(m) THEN tmp[c][i] ELSE IF i <= Len(m) THEN m[i] ELSE Junk]

(* A sample is all of the buffer; the message's header says how many       *)
(* answers there are.  torn: the buffer ends with a part of a record.      *)
(* msg, the message itself, is history.                                    *)
Sample(c, m) ==
  [ancount |-> Len(m), data |-> payload(c, m), torn |-> m \in Torn, msg |-> m]

(* A record the kernel writes before the next sample it has room for.      *)
LostRecord == [ancount |-> 0, data |-> <<>>, torn |-> FALSE, msg |-> <<>>]

IsSample(e) == e.data # <<>>

AnswersOf(m) == ToSet(m) \ {Other}

(* History: what of a message can be read from its sample, all of it if    *)
(* the buffer has room.  Of a message cut between two records those before *)
(* the cut can be, of one cut inside a record nothing.                     *)
Readable(m) ==
  IF Len(m) <= DataLen THEN m
  ELSE IF m \in Torn THEN <<>> ELSE SubSeq(m, 1, DataLen)

(* The last of m's answers for ip, if there is one.                        *)
LastDomain(m, ip, default) ==
  LET hits == {i \in DOMAIN m : m[i] # Other /\ m[i][1] = ip}
  IN  IF hits = {} THEN default ELSE m[Max(hits)][2]

(* bpf_perf_event_output (external): fails without a ring, counts the      *)
(* sample as lost if the ring is full.                                     *)
bpf_perf_event_output(c, s) ==
  LET r == dnsArr[c] IN
  \/ /\ r = Nobody
     /\ UNCHANGED <<ring, lost, accepted, latest>>
  \/ /\ r # Nobody
     /\ Len(SelectSeq(ring[r][c], IsSample)) >= RingSize
     /\ lost' = [lost EXCEPT ![r][c] = @ + 1]
     /\ UNCHANGED <<ring, accepted, latest>>
  \/ /\ r # Nobody
     /\ Len(SelectSeq(ring[r][c], IsSample)) < RingSize
     /\ ring' = [ring EXCEPT ![r][c] =
                   @ \o (IF lost[r][c] > 0 THEN <<LostRecord, s>> ELSE <<s>>)]
     /\ lost' = [lost EXCEPT ![r][c] = 0]
     /\ accepted' = accepted \union AnswersOf(Readable(s.msg))
     /\ latest' = [latest EXCEPT ![r][c] =
          [ip \in Ips |-> LastDomain(Readable(s.msg), ip, @[ip])]]

(* A DNS message passes the WAN interface, in a direction that is hooked.  *)
udp_dns_sniff(c, m) ==
  /\ packets < MaxPackets
  /\ packets' = packets + 1
  /\ hooks # {}
  /\ tmp' = [tmp EXCEPT ![c] = payload(c, m)]
  /\ bpf_perf_event_output(c, Sample(c, m))
  /\ UNCHANGED <<hooks, dnsArr, process, dns, now, faults, forgotten, behind>>

-----------------------------------------------------------------------------
(* Initialize calls attachDnsSniffer for the egress hook, then for the     *)
(* ingress hook; each call ends with go pollDnsResponses().                *)
attachDnsSniffer(r) ==
  /\ r \notin hooks
  /\ r = "ingress" => "egress" \in hooks
  /\ hooks' = hooks \union {r}
  /\ UNCHANGED <<tmp, dnsArr, ring, lost, process, dns, now, packets, faults,
                 history>>

(* perf.NewReader, one CPU (external: it puts a ring of its own into the   *)
(* array).                                                                 *)
NewReader(r, c) ==
  /\ r \in hooks
  /\ c \notin opened[r]
  /\ opened' = [opened EXCEPT ![r] = @ \union {c}]
  /\ dnsArr' = [dnsArr EXCEPT ![c] = r]
  /\ UNCHANGED <<hooks, tmp, ring, lost, hand, dns, now, packets, faults, history>>

(* dns.Msg.Unpack (external): as many answers as the header says.  If the  *)
(* sample ends before they do, its end is taken for theirs, unless it is   *)
(* inside a record: that is an error, and leaves msg.Answer empty.  A lost *)
(* record unpacks to none.                                                 *)
Unpack(s) ==
  IF s.ancount <= Len(s.data) THEN SubSeq(s.data, 1, s.ancount)
  ELSE IF s.torn THEN <<>> ELSE s.data

TakesEntry(r, c) == ring' = [ring EXCEPT ![r][c] = Tail(@)]

(* A variant that does not get past a record it cannot decode.             *)
ReadRetries(r, c) ==
  /\ opened[r] = Cpus /\ hand[r] = <<>> /\ ring[r][c] # <<>>
  /\ Unpack(Head(ring[r][c])) # <<>>
  /\ TakesEntry(r, c)
  /\ hand' = [hand EXCEPT ![r] = Unpack(Head(ring[r][c]))]
  /\ UNCHANGED <<hooks, tmp, dnsArr, lost, opened, dns, now, packets, faults,
                 history>>

(* reader.Read() and Unpack.  An error of Unpack is only logged.           *)
Read(r, c) ==
  /\ opened[r] = Cpus /\ hand[r] = <<>> /\ ring[r][c] # <<>>
  /\ TakesEntry(r, c)
  /\ hand' = [hand EXCEPT ![r] = Unpack(Head(ring[r][c]))]
  /\ UNCHANGED <<hooks, tmp, dnsArr, lost, opened, dns, now, packets, faults,
                 history>>

(* What is left of the message after a turn.  The variant leaves the loop  *)
(* at the first record that is no A record.                                *)
restUntilOther(r) == IF Head(hand[r]) = Other THEN <<>> ELSE Tail(hand[r])
rest(r) == Tail(hand[r])

(* One turn of the loop over msg.Answer: an A record goes into the table,  *)
(* stamped with the wall clock.  If the insert fails, that is logged and   *)
(* the record is gone.                                                     *)
addAnswer(r) ==
  /\ hand[r] # <<>>
  /\ hand' = [hand EXCEPT ![r] = rest(r)]
  /\ LET rec == Head(hand[r]) IN
     \/ rec = Other /\ UNCHANGED <<dns, faults, forgotten, behind>>
     \/ /\ rec # Other
        /\ dns' = AddDns(dns, rec, now)
        /\ behind' = IF \E k \in DOMAIN dns : k # rec /\ k[1] = rec[1] /\ dns[k] > now
                     THEN behind \union {rec[1]} ELSE behind \ {rec[1]}
        /\ UNCHANGED <<faults, forgotten>>
     \/ /\ rec # Other /\ faults < MaxFaults
        /\ faults' = faults + 1
        /\ forgotten' = forgotten \union {rec}
        /\ UNCHANGED <<dns, behind>>
  /\ UNCHANGED <<kernel, opened, now, packets, accepted, latest>>

pollDnsResponses(r) == addAnswer(r) \/ \E c \in Cpus : NewReader(r, c) \/ Read(r, c)

-----------------------------------------------------------------------------
(* Answers on their way from a ring to the table.                          *)
InRing(r, c) == UNION {AnswersOf(Unpack(ring[r][c][i])) : i \in DOMAIN ring[r][c]}
OnTheWay ==
  UNION {AnswersOf(hand[r]) \union UNION {InRing(r, c) : c \in Cpus} : r \in Readers}

(* The process dies and is started again: createQdiscs replaces the clsact *)
(* qdisc and with it the hooks, and the maps are made anew.                *)
Restart ==
  /\ faults < MaxFaults
  /\ faults' = faults + 1
  /\ hooks' = {}
  /\ tmp' = [c \in Cpus |-> Blank]
  /\ dnsArr' = [c \in Cpus |-> Nobody]
  /\ ring' = NoRings
  /\ lost' = NoLosses
  /\ opened' = [r \in Readers |-> {}]
  /\ hand' = [r \in Readers |-> <<>>]
  /\ forgotten' = forgotten \union OnTheWay
  /\ UNCHANGED <<dns, now, packets, accepted, latest, behind>>

Tick ==
  /\ now < MaxTime
  /\ now' = now + 1
  /\ UNCHANGED <<kernel, process, dns, packets, faults, history>>

(* The wall clock is set back, as on a board without a battery-backed one; *)
(* the rows keep their stamps.                                             *)
ClockStepsBack ==
  /\ faults < MaxFaults
  /\ faults' = faults + 1
  /\ \E t \in 0 .. (now - 1) : now' = t
  /\ UNCHANGED <<kernel, process, dns, packets, history>>

Next ==
  \/ \E c \in Cpus, m \in Messages : udp_dns_sniff(c, m)
  \/ \E r \in Readers : attachDnsSniffer(r) \/ pollDnsResponses(r)
  \/ Restart
  \/ Tick
  \/ ClockStepsBack

Spec == Init /\ [][Next]_vars

(* The goroutines run on: Read returns when there is something to read.    *)
FairSpec ==
  /\ Spec
  /\ \A r \in Readers : WF_vars(attachDnsSniffer(r)) /\ WF_vars(pollDnsResponses(r))

-----------------------------------------------------------------------------
(* Properties.                                                             *)

Entries ==
  [ancount : Nat, data : Seq(Records \union {Junk}), torn : BOOLEAN, msg : Seq(Records)]

TypeOK ==
  /\ hooks \subseteq Readers
  /\ tmp \in [Cpus -> [1 .. DataLen -> Records \union {Junk}]]
  /\ dnsArr \in [Cpus -> Readers \union {Nobody}]
  /\ ring \in [Readers -> [Cpus -> Seq(Entries)]]
  /\ lost \in [Readers -> [Cpus -> Nat]]
  /\ opened \in [Readers -> SUBSET Cpus]
  /\ hand \in [Readers -> Seq(Records)]
  /\ DOMAIN dns \subseteq Answers /\ \A k \in DOMAIN dns : dns[k] \in 0 .. MaxTime
  /\ now \in 0 .. MaxTime
  /\ packets \in 0 .. MaxPackets
  /\ faults \in 0 .. MaxFaults
  /\ accepted \subseteq Answers
  /\ forgotten \subseteq Answers
  /\ latest \in [Readers -> [Cpus -> [Ips -> Domains \union {Nobody}]]]
  /\ behind \subseteq Ips

(* The buffer is neither cleared nor cut to the packet: its end holds      *)
(* memory past the packet and pieces of earlier ones.  A reader sees none  *)
(* of that: a sample unpacks to all answers of its own packet or, where    *)
(* that was too long for the buffer, to those before the cut or to none.   *)
SampleIsItsPacket ==
  \A r \in Readers, c \in Cpus : \A i \in DOMAIN ring[r][c] :
    Unpack(ring[r][c][i]) = Readable(ring[r][c][i].msg)

(* Nothing is invented, and nothing lost, between a ring and the table:    *)
(* not when the second reader takes the CPUs over while the first still    *)
(* works, not when both write, not when lost records lie between samples.  *)
(* Only a death or a failed insert forgets an answer.                      *)
RingsReachTable ==
  /\ DOMAIN dns \subseteq accepted
  /\ accepted \subseteq DOMAIN dns \union OnTheWay \union forgotten

(* Every answer a ring has taken gets into the table, also one that waits  *)
(* in a ring of the first reader when no CPU writes to it any more.        *)
AnswersRecorded ==
  \A k \in Answers : k \in OnTheWay ~> k \in DOMAIN dns \union forgotten

(* Answers of different rings are recorded in any order, so the label of   *)
(* an ip need not be the newest answer on the wire.  But when all is read, *)
(* it is (within a second) the newest of some ring: no ring is read out of *)
(* order and a repeated answer counts as new.  This depends on the clock:  *)
(* an answer inserted while another row of the ip bears a later time, as   *)
(* one from before the clock was set back, does not become the label, and  *)
(* such ips are excepted until an insert is the latest again.              *)
LabelFromLatest ==
  OnTheWay = {} =>
    \A ip \in {k[1] : k \in DOMAIN dns} :
      \/ ip \in {k[1] : k \in forgotten} \union behind
      \/ \E r \in Readers, c \in Cpus : latest[r][c][ip] \in GetDomainForIP(dns, ip)
=============================================================================
