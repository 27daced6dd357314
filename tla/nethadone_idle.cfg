\* One pair; crashes, failed calls and filters left behind at any point.
SPECIFICATION FairSpec
CONSTANTS
  Clients = {c}
  Groups = {g}
  Ips = {i}
  NumQdiscClasses = 1
  PolicyCheckInterval = 1
  PolicyBackoffInterval = 0
  ActivityThresholdBytes = 1
  ReadErrors = TRUE
  MaxFaults = 2
  MaxTime = 1
  MaxFilters = 2
INVARIANTS TypeOK InSync
PROPERTIES IdleUnthrottled
