\* Products, and recipes that need them, storage failures and crashes.
SPECIFICATION Spec
CONSTANTS
    Requests <- PantryRequests
    NoCall = NoCall
    MaxRows = 2
    MaxFailed = 1
    Failures = TRUE
INVARIANTS TypeOK TransactionsEnd
PROPERTIES ImplementsBook IdsNotRecycled ServesRouter
