SPECIFICATION Spec
CONSTANTS
    Buffers = {b1, b2, b3, b4, b5, b6}
    NULL = NULL
    Size = 3
    MaxLine = 2
    DropAbove = 2
    MaxLines = 2
INVARIANT ShutdownDrains
CHECK_DEADLOCK FALSE
