SPECIFICATION Spec
CONSTANTS
    n1 = n1
    n2 = n2
    b = b
    c = c
    f = f
    Names = {n1, n2}
    SeedNames <- MCSeedNames
    Batches = {b}
    Creates = {c}
    Fallbacks = {f}
    Wanted <- MCWanted
    Attempts = 1
    ToolsMayRun = TRUE
    MaxID = 5
INVARIANTS
    StoredAsOwnType
CHECK_DEADLOCK FALSE
