SPECIFICATION Spec
CONSTANTS
    e1 = e1
    b1 = b1
    b2 = b2
    NoEvent = NoEvent
    Events = {e1, b1, b2}
    BadEvents = {b1, b2}
    MaxSize = 2
    BatchSize = 1
    WriteBufferSize = 2
    DeadLetterQueueSize = 1
    MaxLives = 1
    MayCrash = FALSE
SYMMETRY Symmetry
PROPERTIES
    RemovedOnlyIfStored
CHECK_DEADLOCK FALSE
