SPECIFICATION Spec
CONSTANTS
  r1 = r1
  r2 = r2
  JobCount = 3
  Regions <- MCRegions
  Region <- MCRegion
  Cap <- MCCap
  MaxDefer <- MCMaxDefer
  Signals <- MCSignals
  Reliable <- MCReliable
  BackoffLimit = 1
  Deadline = 5
  None = None
INVARIANT TypeOK
PROPERTIES NoSuspendOverdue BackstopReached
