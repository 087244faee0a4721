\* A report that is switched off.
SPECIFICATION Spec
CONSTANTS
    Settings <- MCSettings
    FileOf <- MCFileOf
    Empty = Empty
    None = None
INVARIANT DisabledUntouched
CHECK_DEADLOCK FALSE
