\* Default ratio of the intervals: a check every minute, a backoff of three.
SPECIFICATION Spec
CONSTANTS
  SrcGlobs = {a}
  NumQdiscClasses = 2
  PolicyCheckInterval = 1
  PolicyBackoffInterval = 3
  ActivityThresholdBytes = 1
  ReadErrors = FALSE
  MaxFaults = 0
  MaxTime = 6
PROPERTIES BackoffRespected
