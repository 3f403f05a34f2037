SPECIFICATION Spec
CONSTANTS
    e1 = e1
    e2 = e2
    NoEvent = NoEvent
    Events = {e1, e2}
    BadEvents = {}
    MaxSize = 2
    BatchSize = 1
    WriteBufferSize = 2
    DeadLetterQueueSize = 2
    MaxLives = 1
    MayCrash = FALSE
SYMMETRY Symmetry
INVARIANTS
    ShutdownFlushes
CHECK_DEADLOCK FALSE
