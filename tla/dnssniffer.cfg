\* Two CPUs, two domains sharing an ip, rings of one sample, one fault.
SPECIFICATION FairSpec
CONSTANTS
  Cpus = {c, d}
  i = i
  x = x
  y = y
  Ips = {i}
  Domains = {x, y}
  Messages <- MCMessages
  Torn <- MCTorn
  Other = other
  Junk = junk
  DataLen = 3
  HeaderLen = 1
  RingSize = 1
  MaxPackets = 3
  MaxTime = 1
  MaxFaults = 1
INVARIANTS TypeOK SampleIsItsPacket RingsReachTable LabelFromLatest
PROPERTIES AnswersRecorded
CHECK_DEADLOCK FALSE
