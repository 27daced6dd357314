\* num_qdisc_classes: 9, ten leaves with the open one; no faults.
SPECIFICATION Spec
CONSTANTS
  NumQdiscClasses = 9
  StartRateKbs = 1000
  MinRateKbs = 50
  MaxDelayMs = 50
  Short = {}
  MaxFaults = 0
INVARIANTS ClassNamesItsLeaf
CHECK_DEADLOCK FALSE
