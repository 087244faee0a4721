\* A connection on each listener, one slot in the queue.
SPECIFICATION Spec
CONSTANTS
    c1 = c1
    c2 = c2
    Conns = {c1, c2}
    TlsConns = {c2}
    Enabled = {"http", "https"}
    QueueCapacity = 1
    ArgLists <- MCArgLists
    FileAt <- MCFileAt
    Empty = Empty
    Rejected = Rejected
    Malformed = Malformed
    Invalid = Invalid
    None = None
INVARIANTS TypeOK StatusTellsWhy OrderlyExit LateOnlyAfterTimeout
PROPERTIES ServesOnlyUsable NextSignalStops
CHECK_DEADLOCK FALSE
