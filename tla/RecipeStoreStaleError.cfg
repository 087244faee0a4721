\* A reliable storage, and still a valid product is refused.
SPECIFICATION Spec
CONSTANTS
    Requests <- ProductRequests
    NoCall = NoCall
    MaxRows = 3
    MaxFailed = 20
    Failures = FALSE
PROPERTIES FreshProductIsPersisted
