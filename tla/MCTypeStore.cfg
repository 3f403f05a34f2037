SPECIFICATION Spec
CONSTANTS
    n1 = n1
    n2 = n2
    b = b
    c = c
    f = f
    Names = {n1, n2}
    SeedNames <- MCSeedNames
    Batches = {b}
    Creates = {c}
    Fallbacks = {f}
    Wanted <- MCWanted
    Attempts = 3
    ToolsMayRun = TRUE
    MaxID = 5
VIEW TypesView
INVARIANTS
    TypeOK
    CachesAgree
    StoredAsOwnTypeUntilCleaned
    RacesAloneNeverFail
    SequenceAhead
    SeedFailsOnlyByIntrusion
    OnceIsReleased
CHECK_DEADLOCK FALSE
