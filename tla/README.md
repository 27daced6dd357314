# A TLA+ model of nethadone

nethadone is a router that slows down compulsive use of chosen sites. It watches
which client talks to which destination, learns from sniffed DNS answers which
destinations belong to which group of sites, and moves a (client, group) pair step
by step into slower bandwidth classes while the client keeps at it, and back when it
stops. This directory models that control loop, the kernel objects it steers and the
tables in between; TLC checks small instances and TLAPS proves the central
invariants for all of them. All paths below are relative to `src/`.

## Inventory of the system

| Component | State it keeps | Operations | Interacts with |
|---|---|---|---|
| policy loop, `policy/simpleloadavg.go` | none besides its stack | every `PolicyCheckInterval`: raise active pairs, else lower idle ones, then rebuild the throttler | Prometheus (queries), policy table, throttler |
| policy table, `database/database.go` | (source ip, group) -> class, time stamp; survives restarts | GetPolicy, GetAllPolicies, UpdatePolicy, DeletePolicy | written by the loop only, read by a web page |
| glob groups, `database/database.go`, `handlers/handlers.go` | name -> pattern | AddGlob (web form), GetGlob(s) | read by the loop (ips of a group) and the collector (label of a domain) |
| DNS table, `database/dns.go`, `database.go` | (ip, domain) -> time of the last answer | AddDns, GetDomainForIP, GetIPsMatchingGlob | written by the sniffer's goroutines |
| throttler life cycle, `handlers/bpf.go` | open handles, temporary files, the kernel's filter list | ApplyPolicies: render, compile, delete old filters, load, attach | called by Initialize and the loop |
| throttler program, `handlers/throttle.bpf.c.tpl` | counters | puts a packet into the class of the last rule that matches | classes of the qdisc tree |
| qdisc tree, `handlers/qdisc.go` | kernel: HTB root, classes, leaf qdiscs, clsact | createQdiscs, on every start | everything attached below it |
| traffic monitor, `ebpf/trafficmon.bpf.c` | map of at most 25000 pairs -> bytes | one lookup and one update per packet, on any CPU | read by the collector |
| metrics collector, `handlers/prom.go` | exported counters, never removed | every `MapCollectionInterval`: label each pair with a domain and group, export | Prometheus |
| usage queries, `database/prom.go` | none | three rates above the threshold; one below | Prometheus |
| DNS sniffer, `ebpf/dnspkt.bpf.c`, `handlers/bpf.go` | per-CPU scratch buffers and rings | copies DNS packets to user space, where two goroutines read them | DNS table |
| startup, `cmd/nethadone.go`, `handlers.Initialize` | - | qdiscs, static programs, default throttler, then the goroutines | systemd restarts it on failure and at least daily (`scripts/customize-image.sh:45-46`) |
| web pages, `handlers/handlers.go`, `views/` | - | render; GlobAdd is the only one that writes | tables |

What is hard here: the process may die anywhere (`log.Fatal` follows most failures)
while the kernel's state and the tables stay; the loop acts on answers of Prometheus
that are minutes old, and on rows whose read and write errors it mostly ignores; the
rules in the kernel are a snapshot of two tables that go on changing; the same count
is updated by several CPUs without a lock; two readers share one array of rings; the
name of a counter changes whenever the DNS table says something new about an ip;
numbers change base between the policy table (tens) and the class ids (sixteens).

Correct means: every row names a class that exists and the class that exists is the
one meant; a pair moves one class at a time, down the ladder when it is active and up
when it is idle, and in the end reaches either end; the rules in the kernel are those
of the table; a start always ends in a complete tree; counts are not invented;
an answer that was sniffed is recorded, as itself.

## Modules

| Module | Models | Uses |
|---|---|---|
| `ThrottleLadder` | abstract policy: rungs and verdicts | |
| `SimpleLoadAvg` | policy loop and policy table | `ThrottleLadder` (refinement) |
| `Throttler` | ApplyPolicies and the kernel's filter list | |
| `Qdisc` | startup of the qdisc tree and the clsact programs; class ids | |
| `Nethadone` | the composition: loop, throttler, glob and DNS tables | `SimpleLoadAvg`, `Throttler` |
| `TrafficMon` | byte counting on several CPUs, collection under changing labels, Prometheus' increase | |
| `DnsTable` | the DNS table's insert and lookup, as operators | |
| `DnsSniffer` | the sniffer program, the perf rings, the two readers, the DNS table | `DnsTable` |
| `MC*` | instances for TLC (symmetry sets; the messages of `DnsSniffer`) | |
| `SimpleLoadAvgProofs`, `LadderProofs`, `ThrottlerProofs`, `QdiscProofs`, `TrafficMonProofs`, `DnsSnifferProofs` | theorems about one component | its module |
| `NethadoneProofs` | theorems about the router | `LadderProofs`, `ThrottlerProofs` (instances) |
| `DataLemmas` | induction over numbers, largest elements, sums | |

Operators whose names say so (`TooSoonSwapped`, `AtMaximumOffByOne`, `addTolerant`,
`removeOne`, ...) are wrong versions of the definition that follows them. They are
used by no specification; putting one in place of the right one shows that a property
notices the mistake.

### SimpleLoadAvg

`policy[sg]` is the row of the pair `sg`, `NoRow` standing for GetPolicy's nil.
`usage[sg]` is what the queries of `GetSrcGlobUsage` say about it, reduced to what
the policy distinguishes: *active* (all three rates above the threshold), *idle*
(five-minute rate below it), *mixed* (neither), *absent* (no samples). `pc`, `todo`
and `changed` are the goroutine: `startCheck` is the tick and the query for active
pairs, `increaseThrottling(sg)` and `decreasingThrottling(sg)` are one turn of each
loop in any order (the code iterates over a set), `increaseDone` is
`changed || decreasingThrottling()` with its short-circuit, `decreaseDone` and
`applyPolicies` are the end of the check. Each SELECT and each write may fail, with
the consequences the code draws: a failed SELECT is a missing row; a failed write
still counts as a change, except when the row is new. `Traffic` and `Expire` are the
client and Prometheus; `series` are the pairs the running process exports, which a
`Restart` empties. The clock may be set back (the boards the program targets have no
battery-backed clock). The three queries of a check are answered at one instant.
With `ActivityThresholdBytes = 0` the query for idle pairs asks for rates below 0 and
yields nothing; IdleReleased is claimed for larger thresholds only.

`LadderRefined` says that the loop implements `ThrottleLadder`: rungs change one at a
time, down while the verdict is active and up while it is idle. Where SELECTs can fail
(`ReadErrors`) the ladder is `Forgetful`: a pair that is active may also find itself
back on the first rung.

### Throttler

`filters` is the kernel's list of filters called "throttle" in the order they are
tried; a filter added without a priority goes to the front. `cleanupThrottler`
deletes one filter at a time and may fail to, since the result is ignored. `Die` may
happen between any two calls and leaves filters and temporary files; `Initialize`
replaces the root qdisc, so the filters are gone. Removing the files may fail too
(`removeBoth`), which nobody looks at either. `failures` counts these and the deaths.

### Qdisc

One action per netlink call of createQdiscs, createLeafQdiscs and recreateBpfQdisc, then
the three attachments of Initialize. Additions collide with what exists (`Exists`,
EEXIST) and are then fatal; deletions may fail and are ignored. A class is its rate and
its ceiling, and createLeafQdiscs sets both from `leaf.Rate`, though the open leaf asks
for a ceiling of its own. `netemLeaf` computes rates and delays as the code does, except
that the code divides in floating point: where a value is a whole number of bits or
microseconds, the truncated float64 may be one less (`Truncated`). `Short` lists the
leaves and fields for which it is; with the shipped configuration that is the rate of
leaf 4, 239999 instead of 240000. Other errors are impossible at these sizes: a value
that is not whole is at least 1/980 from the next whole one. `QdiscAssumption` describes
the configurations for which the tree makes sense (at most 98 netem classes, rates 1 <=
min <= start <= 95000 kbit/s, a delay whose microseconds fit uint32); the program checks
none of this. `HexOf` is the template's `0x{{ .ClassId }}` applied to a decimal number,
`classify` what HTB makes of it.

### Nethadone

`Loop` and `Throttle` are instances; each counts its own faults, `faults` and
`failures`, both up to `MaxFaults`. `applyPolicies` is refined into reading the rows,
translating them one by one (`GetIpPolicies`, in any order, against the glob and DNS
tables as they are at that moment), the call of ApplyPolicies and its return. A program
is the list of its blocks, a block being the rules of one row; `matching` are the blocks
a packet meets, of which the last gives it its class. `Slowest` is what a pair that
stays active gets for an ip: a block in the slowest class, which only a later block of
another group with the ip can overrule; that one then decides whatever its class, and
class 10 is the open one. `dns` says for an ip and a group whether an answer matching
the group's pattern was seen recently, longer than five days ago, or never: the rules
need the first, the label of a counter only one of the first two. The loop runs only
after Initialize has returned, as in main. A nil that applyPolicies dereferences is one
of the ways to `Crash`.

### TrafficMon

`lookup` and `update` are the two halves of traffic_mon, so updates of two CPUs
interleave; `collect(p, l)` is one entry of the collector's walk together with its
scrape; `increase` is Prometheus' treatment of counters. Export and scrape are one
step: a counter that is scraped later, or twice, is credited with no more, and by
then more has been sent. `seen`, `sent`, `raced`, `label`, `left` and `returned` are
history.

A counter is named after its pair and a label, the destination's domain and the
domain's group. The label is a free choice at every collection, since
GetDomainForIP follows the newest answer for the ip, groups are added, and a query
that fails counts as "no domain" or "no group". Counters of labels a pair has left
stay in the registry with their last value until the process ends.

Not modelled: the kernel may reuse the memory of a replaced element while another CPU
still reads it.

### DnsSniffer

A DNS message is the sequence of its answer records; lengths (`DataLen`, `HeaderLen`)
are counted in records. `payload` is the copy into the CPU's scratch buffer: it
takes `skb->len` bytes from the payload on, so it reads past a short packet
(`Junk`), cuts a long one, and leaves the rest of the buffer as it was.
`bpf_perf_event_output` puts the whole buffer into the ring that `dns_arr` names for
the CPU, or counts a loss, which precedes the next sample as a record without data.
`Unpack` reads as many answers as the header announces. If the sample ends before
them, the library stops there without an error where the sample ends between two
records, and fails, leaving no answer, where it ends inside one (`Torn` are the
messages whose record lies across the end of the buffer). `Readable` is what of a
message can be read at all, and the measure for what must reach the table.

Rows are stamped with the wall clock, which `ClockStepsBack` sets back as in the policy
loop. `behind` are the ips whose last insert met a row of another domain with a later
stamp: their label is the older one.

`attachDnsSniffer` runs for the egress hook, then for the ingress hook, and each time
starts a `pollDnsResponses` goroutine. `NewReader` installs one ring per CPU, so the
second goroutine takes the CPUs over one at a time, in either order of the two; a
reader reads once all its rings are installed. `addAnswer` is one turn of the loop
over the answers. `accepted`, `forgotten`, `latest` and `behind` are history: what can
be read of the samples rings took, what died with the process or in a failed insert,
each ring's newest answer for each ip, and the ips just described.

## Runs

| Run | Checks | Shows |
|---|---|---|
| `policy` | TypeOK, ClassHasLeaf, LadderRefined, IdleReleased, ActiveReachesTop | two pairs competing for the checks, classes 10 to 30, any two of crash, failed read, write or query, clock set back: rows name existing leaves, the loop implements the ladder, skipping the lowering only delays it, and the slowest class is reached |
| `throttler` | TypeOK, ReturnedEnforces, TempFilesRemoved, GapCloses | two programs, up to three filters at once, two deaths or calls that leave a file |
| `qdisc` | TypeOK, ReadyIsComplete, OneProgramPerHook, SlowerDownTheLadder, ClassNamesItsLeaf, EventuallyReady | the shipped configuration, its one short rate, three deaths or failed deletions |
| `nethadone_idle` | TypeOK, InSync, IdleUnthrottled | one pair, two faults, an undeletable filter |
| `nethadone_active` | RowsHaveGroups, InSync, CompulsiveUseThrottled | two groups that may share their ip, no faults |
| `trafficmon` | TypeOK, NeverOvercounts, LossAccounted, RateAccounted, CountedOnce | two CPUs, two pairs, room for one, two labels, a restart |
| `dnssniffer` | TypeOK, SampleIsItsPacket, RingsReachTable, LabelFromLatest, AnswersRecorded | two CPUs, two readers, rings of one sample, two domains sharing an ip; a short message, which leaves the end of the buffer to earlier ones, and two that are too long, cut between records and inside one; a restart, a failed insert or a clock set back |
| `policy_backoff` | BackoffRespected | **violated** |
| `policy_quiet_after_restart` | QuietReleased | **violated** |
| `qdisc_ten_classes` | ClassNamesItsLeaf | **violated** |
| `nethadone_restart` | ListedIsActive | **violated** |
| `nethadone_late_answer` | EveryDestinationThrottled | **violated** |

The violated ones state what a document of the repository says:

* The backoff test asks whether a row was written *after now plus* the interval,
  which is true only when the clock was set back. Rows change at every check, and
  `policy_backoff_interval` has no effect (`config/config.go:70-72`).
* Only pairs Prometheus still has samples of are lowered. After a restart nobody
  exports the counters of a client that stays away, so its row stays
  (`policy/README.md:75`).
* Classes are written in decimal and read as hexadecimal. With nine netem classes
  the slowest is `0x100`, which names no class; its packets go to the open default
  (`doc/qdisc.md:14`). With eight or fewer the ids agree.
* A restart attaches the default rule only, and the loop reapplies the table only
  after changing a row. In the slowest class no row of an active pair changes any
  more: it is listed as active (`views/policies.tpl:3`) and not enforced.
* Rules hold the ips known when they were made. An ip first resolved when the pair is
  already in the slowest class, where another ip of the group brought it, is never
  throttled (`policy/README.md:64`).

Noticed while modelling, covered by the models but without a run of their own:
a check that raises any pair does not lower any (`simpleloadavg.go:133`);
a failed SELECT resets a pair to class 10 or keeps it from being lowered
(`database.go:122`, `ReadErrors`);
class 10, the first step of every policy, is the open class (`qdisc.go:125`);
where two groups share an ip the rule of the row read later wins, even if it is the
lighter one, and with class 10 it frees the ip, against `policy/README.md:64` (`Slowest`
allows exactly this);
the class of the open leaf has a ceiling of 95 MBit, where the leaf asks for 100
(`qdisc.go:113`, `125`, `156`; the last conjunct of `ReadyIsComplete`);
that leaf does not follow `wan_mbps`, which nothing reads, though `qdisc.go:122` and
`config.go:53` say so;
after the clock was set back an older answer stays the label of an ip until the clock
has caught up (`database.go:101-103`, `behind`);
with a threshold of 0, which `config/nethadone.yml` offers, nothing is ever lowered;
where the label of a destination alternates, as for an ip two sites share, the counter
that comes back catches up on bytes the other was credited with: the same bytes count
for both (`CountedOnce` excepts such pairs; without the exception it is violated with
three bytes and two labels);
a DNS message longer than the buffer contributes the answers before the cut, but if
the cut is inside a record none at all, not even the complete ones;
two CPUs can take a counter back, which Prometheus counts as a reset
(`RateAccounted` excepts raced pairs; without the exception it is violated by two
CPUs and six bytes).

### Bounds

Rows reach both ends of the ladder and every class between with one or two netem
classes; two pairs suffice for one check to raise one and pass over the other. A fault
(failed call, crash, clock step) counts against `MaxFaults`; two allow a crash after a
failed write. `MaxTime` caps the clock, three minutes being enough for a time stamp to
lie behind and ahead of a clock set back; where it is 0 (Nethadone) time plays no part.
`MaxFilters` caps filters that could not be deleted, `MaxBytes` the traffic,
`MaxRestarts` the restarts of the monitor; four bytes let a label change, come back and
change again. `MaxPackets` caps DNS packets: three are an answer for x, one for y, and x
again, and with rings of one sample a loss, a loss record and the sample behind it. A
buffer of three records with headers of one (`DataLen`, `HeaderLen`) is the smallest in
which a short message leaves something of an earlier one and a message of four is cut.
Two seconds (`MaxTime = 1` in `dnssniffer`) are enough for answers with the same and
with different time stamps. The runs of Nethadone keep one client: clients share nothing
but the checks, which `policy` covers. Deadlock is checked except in `qdisc*` (a started
tree is left alone), `trafficmon` and `dnssniffer` (traffic is bounded).

### Fairness

Weak fairness of the goroutine (`pollPolicyCheck`, `Step`, `Process`): each call it
makes returns or ends the process, and systemd starts the process again. Weak
fairness of `Expire`: Prometheus' windows move on. Weak fairness of
`attachDnsSniffer` and of each `pollDnsResponses` goroutine: Read blocks only while
the reader's rings are empty, and an insert waits at most the database's busy timeout
before it fails. No client, DNS answer, web
request, fault or crash is ever assumed to happen.

## Proofs

Checked by TLAPS for every value of the constants:

* `Typed`, `ClassesHaveLeaves` (`SimpleLoadAvgProofs`): type correctness, and every
  row has one of the `NumQdiscClasses + 1` classes. ClassHasLeaf is inductive with
  TypeOK: an increment is made only from a class of at most `NumQdiscClasses * 10`,
  a decrement only from above 10. One lemma per loop, the other actions leave the
  table alone.
* `LoopRefinesLadder` (`LadderProofs`): `Spec => LadderRefined`, with failing SELECTs
  or without. Needs ClassHasLeaf (so that tens of a class are rungs) and
  `MatchesUsedUp`: outside the two loops no match is left over, so a check starts
  with no verdict pending.
* `ThrottlerTyped`, `ReturnedCallEnforces`, `TempFilesAccounted` (`ThrottlerProofs`):
  from `ApplyInv`, what each stage of ApplyPolicies may rely on, and `Files`, the files
  of the call under way. Any number of programs, failures and stale filters.
* `CompletedStartIsComplete`, `NoStaleProgram`, `LadderDescends`, `TreeTyped`
  (`QdiscProofs`), for the configurations of `QdiscAssumption`: up to 98 netem classes
  (class ids of three digits), start rates up to that of the open class, minimum rates
  from 1 to the start rate, delays that fit uint32; and for any deaths, failed deletions
  and leftovers. The inductive invariant `QdiscInv` says for every step of createQdiscs
  what is in the tree then: `TreeInv` counts the classes and leaves the loop has made so
  far, each with the rate and delay its index gives, and `HookInv` names the programs on
  each hook. Without it ReadyIsComplete is not inductive: a leftover root would be
  invisible until the last step. The ladder needs arithmetic of its own: truncated
  quotients descend strictly because rates a kilobit apart are further apart than the
  number of steps, even if the float arithmetic makes one of them a bit less
  (`DivStrict`, `RateStep`, `DelayStep`); the last leaf's factor is 1, so its rate and
  delay are exact (`LastLeaf`).
* `TwoDigitClassesNameTheirLeaves` and `ThreeDigitClassesDoNot` (`QdiscProofs`): with
  eight or fewer netem classes every class names its leaf, and with nine or more a
  completed start never has them all named. The run `qdisc_ten_classes` is one case
  of the second; together they say that eight is the exact bound.
* `NoOrphanRows` (`NethadoneProofs`): no row names a group GetGlob would not find,
  because whatever a pair leaves a trace in (Prometheus, matches, table), its group is
  in the glob table.
* `RouterImplementsLoop`, `RouterImplementsThrottler`, `RouterRefinesLadder`
  (`NethadoneProofs`): every behaviour of the router is one of the policy loop, one of
  the throttler, and one of the abstract policy. What is proved of the parts then
  holds in the router: the proof modules of the parts are instantiated and their
  assumptions follow from `RouterAssumption`. `RouterTyped` combines the parts' type
  invariants with that of what the router adds.
* `TableIsAttached` (`NethadoneProofs`): InSync, for any clients, groups and ips. The
  inductive invariant `SyncInv` follows the rules from the table to the kernel: as
  long as a check has changed nothing, the program asked for last is the table's; while
  applyPolicies gathers, the rules collected and the rows left make up the table
  (`Translates`); then the program it asks for is the table's again. That the program asked
  for is the one attached comes from ReturnedEnforces through the refinement.
* `TypeCorrect`, `CountsNeverExceedTraffic`, `LossIsAccounted`, `RateIsAccounted`
  (`TrafficMonProofs`), for any CPUs, pairs, labels, packet lengths and map size. The
  inductive invariant `Inv` adds: an update on its way is no larger than the traffic
  (`PendingBounded`); pairs not in `raced` are on one CPU at most (`OneBusy`), and
  their count, or the update on its way to it, is exact unless there is no room
  (`Exact`, which is why a full map must stay full); and `Credited`: what a counter
  has been credited with is at most what earlier runs of the monitor were given plus,
  if it was sampled in this run, the sample, which the count has not fallen below.
* `BytesCountOnce` (`TrafficMonProofs`): CountedOnce, for any finite set of labels. The
  sum over the labels satisfies what `Credited` says of one counter, with the sample
  of the pair's present label (`TotalCredited`); a label that is new has no sample, so
  its counter starts without credit (`Fresh`). `SumOfChanged` says what a change of
  one counter does to the sum.
* `SamplesAreTheirPackets`, `AnswersAreAccounted` (`DnsSnifferProofs`), for any CPUs,
  messages and sizes. `Shape`: every entry of a ring is a loss record or a buffer that
  starts with the records of its message as far as there is room, since the copy
  reaches at least to the end of the message or of the buffer. So what unpacks is
  `Readable`, also where the message was cut. `Flow`: what is on its
  way or in the table was accepted by a ring, and what was accepted is on its way, in
  the table or forgotten; each action moves answers along or forgets them, which the
  lemmas on `Holds` (what a ring holds) and `AnswersOf` turn into set equations.
* `SnifferTyped`, `LabelsAreNewest` (`DnsSnifferProofs`): the type invariant, from
  `Shape`, `Flow` and `Rest`; and LabelFromLatest. `Order`: the last answer for an ip in
  a ring, or in the message last taken from it if the ring has no more, is the ring's
  newest. So a reader that records the last answer for an ip it has, with no other on
  its way from there, records the newest of that ring, and stamps it no earlier than any
  other row (`Rest`) unless the clock was set back (`behind`); that is what `Labels`
  keeps.

Induction. The library states it for predicates, which the provers cannot instantiate.
`DataLemmas` restates it for sets, from the theorem that a set without a minimal
element cannot be in a well-founded order (`WFMin`): a set with 0 and the successor of
each of its numbers contains all naturals (`SetInduction`). That is enough for the
sum of a function over a finite set, whose defining fold is shown to exist
(`SumsExist`) and to change with the function (`SumOfChanged`).

The assumptions are those on the constants (`ConfigAssumption`,
`ThrottlerAssumption`, `QdiscAssumption`, `RouterAssumption`, `TrafficMonAssumption`,
`DnsSnifferAssumption`), evaluated by TLC in every run of the module, and the
hypotheses in the statements (finitely many labels; the number of classes). Each
inductive invariant was checked by TLC on the component's run before it was proved.

Every invariant of a passing run is proved. Only model-checked are the liveness
properties (fairness is beyond the prover): IdleReleased, ActiveReachesTop, GapCloses,
EventuallyReady, IdleUnthrottled, CompulsiveUseThrottled and AnswersRecorded; and the
five violations.

## Plan

1. The safety part of the liveness arguments: that a check of an active pair raises it
   or leaves it in the slowest class, that the gap without a filter has a successor
   stage, as step properties.
2. A property across `Nethadone` and `Qdisc`: every rule in the kernel names a leaf of
   the tree that Initialize built.

## Not modelled

Configuration parsing (its values are constants), the data types, the pages that only
render, the loaders bpf2go generates, `ebpf/dnsprobe.py` (a predecessor of the sniffer
that is no longer used), `ebpf/vmlinux.h` (the kernel's types, generated from its BTF;
it declares and does nothing), the image scripts, the packet counters of the
throttler, and `attachQdiscToIface`, which nothing calls.

The windows of the usage queries (two and five minutes, five minutes ago) are not
modelled either: `usage` lets every answer of Prometheus follow every other, so what
is shown of the loop holds whatever the windows are. Which of several matching groups
a domain counts for (the first in the table) is left open for the same reason.
