SPECIFICATION Spec
CONSTANTS
  s1 = s1
  s2 = s2
  SLAs <- MCSLAs
  Loops = {l1, l2}
  Stoppers = {k1, k2}
  Frequency <- MCFrequency
  PassMax = 1
  Channels = 1
  AlertsMax = 2
  AlertsKeep = 1
  Sequential = TRUE
  Never = Never
  None = None
INVARIANTS TypeOK OneLoop StopStops
PROPERTIES CheckSpacing DueIsChecked
