\* One connection that meets one Stop.
SPECIFICATION SafeSpec
CONSTANTS
    h1 = h1
    t1 = t1
    t2 = t2
    NoConn = NoConn
    Conns = {h1}
    TlsConns <- MCTlsConns
    Enabled = {"http", "https"}
    MaxStarts = 1
    AcceptErrors = FALSE
INVARIANT StopClosesSockets
CHECK_DEADLOCK FALSE
