\* One restart; the client does not come back.
SPECIFICATION FairSpec
CONSTANTS
  SrcGlobs = {a}
  NumQdiscClasses = 1
  PolicyCheckInterval = 1
  PolicyBackoffInterval = 0
  ActivityThresholdBytes = 1
  ReadErrors = FALSE
  MaxFaults = 1
  MaxTime = 1
PROPERTIES QuietReleased
