CONSTANTS
    Requests = {r1, r2}
    Answers = {"ok", "limited", "rejected"}
    Elsewhere = {"limited"}
    Good = {"ok"}
    Accounts <- MCAccounts
    Sessions = {s1, s2}
    AffinityMax = 1
    Order <- MCOrder
    Leveled = {"b"}
    MaxSwitches = 1
SYMMETRY MCAlike
SPECIFICATION RoutingSpec
CHECK_DEADLOCK FALSE
INVARIANTS
    StandbyTriedLast
PROPERTIES
    SessionReturns
    NobodyPassedOver
