\* Two programs besides the default, deletions failing, two deaths or
\* calls that leave a file.
SPECIFICATION FairSpec
CONSTANTS
  Programs = {p0, p1, p2}
  Default = p0
  NoProgram = none
  MaxFilters = 3
  MaxFailures = 2
INVARIANTS TypeOK ReturnedEnforces TempFilesRemoved
PROPERTIES GapCloses
