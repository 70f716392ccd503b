CONSTANTS
    r1 = r1
    r2 = r2
    t1 = t1
    t2 = t2
    k1 = k1
    v1 = v1
    u1 = u1
    u2 = u2
    Requests = {r1, r2}
    Uploads = {u1, u2}
    Ids = {t1, t2}
    Keys = {k1}
    Versions = {v1}
    MaxSlots = 1
    KeySlots = 1
    KeyQueue = 1
    GoldenSlots = 1
    GoldenSamples = 1
    GoldenVersions = 1
    QueueSize = 1
    MaxTrustChanges = 1
    MaxCrashes = 1
SYMMETRY Symmetric
SPECIFICATION TraceSpec
CHECK_DEADLOCK FALSE
INVARIANTS
    SlotsMatchCaptures
    
    OnlyTrustedLearned
    NoTraceForgotten
