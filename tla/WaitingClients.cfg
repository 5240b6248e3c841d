SPECIFICATION ClientsSpec
CONSTANTS
    j1 = j1
    j2 = j2
    Jobs = {j1, j2}
    Clients <- MCClients
    MaxWait = 3
    Poll = 2
    SdkTTL = 2
    ServerTTL = 1
    CacheTTL = 1
    RequestTime = 1
    MaxRestarts = 1
    Forecasts <- MCForecasts
    MinSavings = 25
INVARIANTS ActedOnRecent
PROPERTIES Promise AlwaysEnds
CHECK_DEADLOCK FALSE
