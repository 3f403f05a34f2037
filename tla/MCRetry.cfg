SPECIFICATION FairSpec
CONSTANTS
    e1 = e1
    e2 = e2
    e3 = e3
    Batch = Batch
    Items = {e1, e2, e3}
    BadItems = {}
    MaxAttempts = 4
    BaseDelay = 1
    MaxDelay = 4
    Multiplier = 3
    MaxParallel = 2
INVARIANTS
    TypeOK
    EveryItemSettledOnce
    CancelStopsRetries
    WaitBounded
PROPERTIES
    ImplementsOutcome
    Terminates
CHECK_DEADLOCK FALSE
