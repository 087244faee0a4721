\* What was written last is lost when the stream is closed.
SPECIFICATION Spec
CONSTANTS
    Settings <- MCSettings
    FileOf <- MCFileOf
    Empty = Empty
    None = None
INVARIANT FailedWriteReported
CHECK_DEADLOCK FALSE
