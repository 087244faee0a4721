\* One connection; a signal arrives while main is about to block.
SPECIFICATION Spec
CONSTANTS
    c1 = c1
    c2 = c2
    Conns = {c1}
    TlsConns = {}
    Enabled = {"http", "https"}
    QueueCapacity = 1
    ArgLists <- JustServe
    FileAt <- MCFileAt
    Empty = Empty
    Rejected = Rejected
    Malformed = Malformed
    Invalid = Invalid
    None = None
PROPERTY SignalEndsProcess
CHECK_DEADLOCK FALSE
