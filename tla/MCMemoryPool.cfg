SPECIFICATION Spec
CONSTANTS
    Threads = {t1, t2, t3}
    N = 1
    MaxBlocks = 2
SYMMETRY Symmetry
INVARIANTS TypeOK SlotsDistinct OverrunBounded
CHECK_DEADLOCK FALSE
