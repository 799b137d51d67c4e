SPECIFICATION FairSpec
CONSTANTS
    kCheapPrepend = 1
    kInitialSize = 1
    MaxAnswer = 2
    MaxUnread = 3
    Chunks <- Pieces
    Timeout = 1
    MaxTimers = 2
    Garbage <- SomeGarbage
    MaxBacklog = 1
    kInitEventListSize = 1
PROPERTY NextClientAccepted
CHECK_DEADLOCK FALSE
