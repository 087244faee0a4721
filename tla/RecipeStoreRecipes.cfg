\* Recipe calls, storage failures and crashes.
SPECIFICATION Spec
CONSTANTS
    Requests <- RecipeRequests
    NoCall = NoCall
    MaxRows = 3
    MaxFailed = 20
    Failures = TRUE
INVARIANT ConsistentTables
PROPERTIES ImplementsBook ServesRouter
