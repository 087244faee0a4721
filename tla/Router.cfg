\* Any request against a reader or deleter and a writer, one slot in the queue.
SPECIFICATION Spec
CONSTANTS
    a = a
    b = b
    c = c
    bad = bad
    r1 = r1
    r2 = r2
    r3 = r3
    None = None
    Sessions = {r1, r2, r3}
    Requests <- MCRequests
    QueueCapacity = 1
    Values = {a, b, c, bad}
    Invalid = {bad}
    First = a
    Failures = TRUE
INVARIANTS TypeOK TablesAgree StatusTellsEffect RepliesAreCurrent NothingLeftBehind
PROPERTY EveryRequestAnswered
CHECK_DEADLOCK FALSE
