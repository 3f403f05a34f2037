SPECIFICATION Spec
CONSTANTS
    r1 = r1
    r2 = r2
    p1 = p1
    p2 = p2
    s1 = s1
    a1 = a1
    NoReader = NoReader
    NoPage = NoPage
    Readers = {r1, r2}
    EventKeys = {p1, p2}
    StatsKeys = {s1}
    SyncEvents = {}
    AsyncEvents = {a1}
    ScanBatch = 2
SYMMETRY Symmetry
INVARIANTS
    StoredIsVisible
