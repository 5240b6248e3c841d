SPECIFICATION ComplianceSpec
CONSTANTS
    o1 = o1
    c1 = c1
    c2 = c2
    Orgs = {o1}
    Callers = {c1, c2}
    Feeds <- MCFeeds
    RegionMap <- MCRegionMap
    Intensities <- MCIntensities
    Coefficient <- MCCoefficient
    PUE <- MCPUE
    Periods <- MCPeriods
    Managed = {"lambda"}
    MaxUsage = 3
    MaxCalculations = 3
    MaxReports = 1
PROPERTY RegionWholeOrAbsent
CHECK_DEADLOCK FALSE
