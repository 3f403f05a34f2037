SPECIFICATION FairSpec
CONSTANTS
    r1 = r1
    r2 = r2
    p1 = p1
    s1 = s1
    a1 = a1
    NoReader = NoReader
    NoPage = NoPage
    Readers = {r1, r2}
    EventKeys = {p1}
    StatsKeys = {s1}
    SyncEvents = {}
    AsyncEvents = {a1}
    ScanBatch = 1
PROPERTIES
    CacheCatchesUp
    ReadersAnswered
