SPECIFICATION Spec
CONSTANTS
  SLACount = 2
  Demo = 2
  Jobs = {j1, j2}
  Puts = {p1}
  Frequency <- MCFrequency
  JobMax = 1
  Edited = {2}
  Reliable = {2}
  None = None
INVARIANT TypeOK
PROPERTIES DeletedStaysDeleted NewestNeverOlder DueIsChecked
