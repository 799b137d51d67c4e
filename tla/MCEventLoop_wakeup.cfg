SPECIFICATION Spec
CONSTANTS
    Callers = {c1, c2}
    MaxFunctors = 3
    MaxQuits = 1
SYMMETRY Symmetry
INVARIANT WakeupEndsPoll
CHECK_DEADLOCK FALSE
