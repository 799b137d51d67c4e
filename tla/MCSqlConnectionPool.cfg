SPECIFICATION FairSpec
CONSTANTS
    Workers = {w1, w2}
    MaxConn = 2
    NULL = NULL
PROPERTY GetReturns
CHECK_DEADLOCK FALSE
