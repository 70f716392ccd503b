CONSTANTS
    Paths = {p1}
    Changes = {c1}
    MaxVersion = 1
    MaxTraces = 3
    DayLimit = 1
    ErrorLimit = 2
    MaxActs = 1
    MaxCrashes = 1
    MaxPasses = 1
SPECIFICATION MCSpec
CHECK_DEADLOCK FALSE
PROPERTIES
    PersonWins
