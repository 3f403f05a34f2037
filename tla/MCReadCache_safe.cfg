SPECIFICATION Spec
CONSTANTS
    r1 = r1
    r2 = r2
    p1 = p1
    s1 = s1
    e1 = e1
    a1 = a1
    NoReader = NoReader
    NoPage = NoPage
    Readers = {r1, r2}
    EventKeys = {p1}
    StatsKeys = {s1}
    SyncEvents = {e1}
    AsyncEvents = {a1}
    ScanBatch = 2
SYMMETRY Symmetry
VIEW SafeView
INVARIANTS
    TypeOK
    NoStampede
    TotalCoversPage
    StaleOnlyByOverlap
