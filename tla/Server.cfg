\* Two connections over TLS, across a restart, with failing accepts.
SPECIFICATION Spec
CONSTANTS
    h1 = h1
    t1 = t1
    t2 = t2
    NoConn = NoConn
    Conns = {t1, t2}
    TlsConns <- MCTlsConns
    Enabled = {"http", "https"}
    MaxStarts = 2
    AcceptErrors = TRUE
INVARIANTS TypeOK RegistryExact SocketsOwned QuietWhenStopped
PROPERTIES NothingOpensAfterStop StopReturns BacklogServed ClosedSessionsEnd
CHECK_DEADLOCK FALSE
