SPECIFICATION Spec
CONSTANTS
  clean = clean
  dirty = dirty
  Requests = {q1, q2, q3}
  Tasks = {t1, t2}
  Signals <- MCSignals
  Good <- MCGood
  Refresh = 2
  FetchMax = 2
  None = None
INVARIANTS TypeOK OneFetch OnlyFirstAwaits
PROPERTIES SignalNeverOlder FetchSpacing RefreshEnds
