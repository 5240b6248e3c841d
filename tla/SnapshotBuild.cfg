SPECIFICATION Spec
CONSTANTS
  k1 = k1
  k2 = k2
  z1 = z1
  z2 = z2
  Regions = {k1, k2}
  Zones = {z1, z2}
  ZoneOf <- MCZoneOf
  MaxStale = 1
  Lag = 0
  MaxPoints = 2
  MinLive = 1
  BuildMax = 1
  Horizon = 4
  None = None
INVARIANTS TypeOK LiveIsRecent HistorySound
PROPERTY BlipsBridged
