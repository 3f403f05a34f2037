SPECIFICATION FairSpec
CONSTANTS
    e1 = e1
    b1 = b1
    NoEvent = NoEvent
    Events = {e1, b1}
    BadEvents = {b1}
    MaxSize = 2
    BatchSize = 2
    WriteBufferSize = 1
    DeadLetterQueueSize = 1
    MaxLives = 2
    MayCrash = TRUE
PROPERTIES
    FlushedEventually
    ShutdownTerminates
    UsesLog
CHECK_DEADLOCK FALSE
