SPECIFICATION QuestionsSpec
CONSTANTS
    ForecastTopK = 1
    HoursPerDay = 2
    MinHistory = 3
    MinHourSamples = 2
    MinRecentSamples = 3
    Factor <- MCFactor
    Renewables <- MCRenewables
    Storage <- MCStorage
    MeritOrder <- MCMeritOrder
    Asked <- MCAsked
INVARIANTS
    ScheduleSound
    ClientsAgree
    PlanSound
    PatternsSound
    RouteSound
    LedgerAgrees
    ReadingsSound
    FiguresSound
    SLASound
CHECK_DEADLOCK FALSE
