SPECIFICATION Spec
CONSTANTS
  Zones = {z1, z2}
  Callers = {c1, c2}
  Tasks = {t1, t2}
  TTL = 1
  FetchMax = 1
  RefreshTimeout = 1
  Absent = Absent
INVARIANTS TypeOK RefreshExclusive ServedAgeBound
PROPERTIES StaleServedRevalidates RefreshReleased
