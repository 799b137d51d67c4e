SPECIFICATION FairSpec
CONSTANTS
    Callers = {c1, c2}
    MaxFunctors = 3
    MaxQuits = 2
INVARIANTS TypeOK OnceInOrder FirstWakeup
PROPERTIES EventuallyRuns QuitEndsLoop
CHECK_DEADLOCK FALSE
