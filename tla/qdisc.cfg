\* The five classes, rates and delay of nethadone.yml; three faults.
SPECIFICATION FairSpec
CONSTANTS
  NumQdiscClasses = 5
  StartRateKbs = 1000
  MinRateKbs = 50
  MaxDelayMs = 50
  Short <- MCShort
  MaxFaults = 3
INVARIANTS TypeOK ReadyIsComplete OneProgramPerHook SlowerDownTheLadder ClassNamesItsLeaf
PROPERTIES EventuallyReady
CHECK_DEADLOCK FALSE
