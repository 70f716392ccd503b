CONSTANTS
    r1 = r1
    r2 = r2
    u1 = u1
    u2 = u2
    t1 = t1
    t2 = t2
    k1 = k1
    v1 = v1
    Requests = {r1}
    Uploads = {u1}
    Ids = {t1}
    Keys = {k1}
    Versions = {v1}
    MaxSlots = 1
    KeySlots = 1
    KeyQueue = 1
    GoldenSlots = 1
    GoldenSamples = 1
    GoldenVersions = 1
    QueueSize = 1
    MaxTrustChanges = 0
    MaxCrashes = 0
SPECIFICATION TraceSpec
CHECK_DEADLOCK FALSE
INVARIANT ToolLoopSurvives
