SPECIFICATION FairSpec
CONSTANTS
    Buffers = {b1, b2, b3, b4, b5, b6}
    NULL = NULL
    Size = 3
    MaxLine = 2
    DropAbove = 2
    MaxLines = 4
INVARIANTS TypeOK AssertsHold ExclusiveOwnership InOrderOnce NoSleepOnFullBuffer
PROPERTIES AppendNeverDrops ImplementsPipe EventuallyOnDisk StopReturns
CHECK_DEADLOCK FALSE
