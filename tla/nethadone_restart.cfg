\* One crash.
SPECIFICATION FairSpec
CONSTANTS
  Clients = {c}
  Groups = {g}
  Ips = {i}
  NumQdiscClasses = 1
  PolicyCheckInterval = 1
  PolicyBackoffInterval = 0
  ActivityThresholdBytes = 1
  ReadErrors = FALSE
  MaxFaults = 1
  MaxTime = 0
  MaxFilters = 1
PROPERTIES ListedIsActive
