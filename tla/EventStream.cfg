SPECIFICATION Spec
CONSTANTS
    Publishers = {p1, p2}
    Clients = {c1}
    NoEvent = NoEvent
    History = 3
    Buffer = 2
    MaxEvents = 5
INVARIANTS
    EveryEventOnce
    OrderWithinEachStream
PROPERTIES
    PublishReturns
    ReplayGoroutineEnds
    ReaderSeesEverything
CHECK_DEADLOCK FALSE
