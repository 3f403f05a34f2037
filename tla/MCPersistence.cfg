SPECIFICATION FairSpec
CONSTANTS
    e1 = e1
    e2 = e2
    c1 = c1
    c2 = c2
    NoEvent = NoEvent
    NoProc = NoProc
    Loop = Loop
    Flusher = Flusher
    Counter = Counter
    Events = {e1, e2}
    Closers = {c1, c2}
    WriteBufferSize = 1
INVARIANTS
    TypeOK
    NoPanic
    NoUseAfterClose
    CloseSettles
PROPERTIES
    ImplementsLog
    Answered
    CloseReturns
CHECK_DEADLOCK FALSE
