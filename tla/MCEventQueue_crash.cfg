SPECIFICATION Spec
CONSTANTS
    e1 = e1
    e2 = e2
    e3 = e3
    NoEvent = NoEvent
    Events = {e1, e2, e3}
    BadEvents = {}
    MaxSize = 2
    BatchSize = 2
    WriteBufferSize = 1
    DeadLetterQueueSize = 1
    MaxLives = 2
    MayCrash = TRUE
SYMMETRY Symmetry
INVARIANTS
    TypeOK
    Accounting
    DepthMatchesChannel
    AcceptedTracked
    ShutdownDrains
    RefusedNotQueued
PROPERTIES
    LogDropsOnlyStored
CHECK_DEADLOCK FALSE
