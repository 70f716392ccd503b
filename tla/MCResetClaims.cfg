CONSTANTS
    Readers = {}
    Claimers = {t1, t2}
    Clicks = {q1, q2, q3}
    MaxSeq = 7
    MaxLeft = 2
    MaxRestarts = 1
SYMMETRY MCAlike
SPECIFICATION ResetSpec
CHECK_DEADLOCK FALSE
INVARIANTS
    DoubtCanBeSettled
PROPERTIES
    DoubtBlocks
    
