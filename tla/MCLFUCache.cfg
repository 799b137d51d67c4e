SPECIFICATION Spec
CONSTANTS
    Keys = {a, b, c}
    Threads = {t1, t2}
    Nodes = {n1, n2, n3, n4}
    capacity_ = 2
    MaxFreq = 3
    None = None
SYMMETRY Symmetry
INVARIANTS TypeOK Lists MapsAgree NoStrayNode
PROPERTY FollowsPolicy
CHECK_DEADLOCK FALSE
