SPECIFICATION Spec
CONSTANTS
    api = api
    replica = replica
    NoID = NoID
    Generators = {api, replica}
    NodeID <- TwoNodes
    MaxNodeID = 1
    MaxSequence = 1
    MaxTimestamp = 1
    Epoch = 2
    MaxClock = 4
    ClockKept = TRUE
INVARIANTS
    TypeOK
    NoDuplicates
    ParseRecovers
PROPERTIES
    Increasing
CHECK_DEADLOCK FALSE
