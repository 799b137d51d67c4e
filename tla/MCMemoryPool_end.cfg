SPECIFICATION Spec
CONSTANTS
    Threads = {t1, t2}
    N = 2
    MaxBlocks = 2
SYMMETRY Symmetry
INVARIANT InBlock
CHECK_DEADLOCK FALSE
