CONSTANTS
    Groups = {g1}
    Rules = {r1}
    MinErrors = 2
    MaxErrors = 2
    Batch = 1
    MaxActs = 1
    NSentences = 4
    NWords = 7
    BisectReplays = 7
    MinWords = 3
    Fields = {f1}
    Values = {{string}, {number}}
    Learn = 1
    GoneAfter = 3
    GoneMinSeen = 1
    GoneRatio = 60
    MaxObs = 5
    MaxRestarts = 1
SPECIFICATION MCErrorSpec
CHECK_DEADLOCK FALSE
INVARIANTS
    FoundIsRefused
    RemovedMeansAbsent
PROPERTIES
    JudgedOnNews
    RecurringJudged
