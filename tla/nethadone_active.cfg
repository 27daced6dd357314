\* Two groups that may share their ip; nothing fails.
SPECIFICATION FairSpec
CONSTANTS
  Clients = {c}
  Groups = {g, h}
  Ips = {i}
  NumQdiscClasses = 1
  PolicyCheckInterval = 1
  PolicyBackoffInterval = 0
  ActivityThresholdBytes = 1
  ReadErrors = FALSE
  MaxFaults = 0
  MaxTime = 0
  MaxFilters = 1
INVARIANTS RowsHaveGroups InSync
PROPERTIES CompulsiveUseThrottled
