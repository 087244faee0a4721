\* Both functions, any outputs, any failure.
SPECIFICATION Spec
CONSTANTS
    Settings <- MCSettings
    FileOf <- MCFileOf
    Empty = Empty
    None = None
INVARIANTS TypeOK ReportTells FailureConfined
CHECK_DEADLOCK FALSE
