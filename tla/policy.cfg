\* Two pairs competing for the checks, three classes, two faults of any kind
\* at any point; a threshold of one byte, as in config/nethadone.yml.
SPECIFICATION FairSpec
CONSTANTS
  SrcGlobs = {a, b}
  NumQdiscClasses = 2
  PolicyCheckInterval = 1
  PolicyBackoffInterval = 1
  ActivityThresholdBytes = 1
  ReadErrors = TRUE
  MaxFaults = 2
  MaxTime = 2
INVARIANTS TypeOK ClassHasLeaf
PROPERTIES LadderRefined IdleReleased ActiveReachesTop
