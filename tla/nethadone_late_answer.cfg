\* Two ips of one group; nothing fails.
SPECIFICATION FairSpec
CONSTANTS
  Clients = {c}
  Groups = {g}
  Ips = {i, j}
  NumQdiscClasses = 1
  PolicyCheckInterval = 1
  PolicyBackoffInterval = 0
  ActivityThresholdBytes = 1
  ReadErrors = FALSE
  MaxFaults = 0
  MaxTime = 0
  MaxFilters = 1
PROPERTIES EveryDestinationThrottled
