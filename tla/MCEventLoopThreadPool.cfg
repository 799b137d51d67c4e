SPECIFICATION FairPoolSpec
CONSTANTS
    Callers = {c1, c2}
    MaxFunctors = 2
    MaxQuits = 1
    MaxThreads = 3
    Detail = 2
    MaxGiven = 4
INVARIANTS PoolTypeOK LoopOutlivesUse NoOrphan Balanced
PROPERTIES PoolStarts DestructorReturns
CHECK_DEADLOCK FALSE
