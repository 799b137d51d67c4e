SPECIFICATION Spec
CONSTANTS
    Keys = {a, b, c, d}
    Threads = {t1, t2}
    Nodes = {n1, n2, n3, n4}
    capacity_ = 2
    MaxFreq = 2
    None = None
SYMMETRY Symmetry
INVARIANT Bounded
CHECK_DEADLOCK FALSE
