\* Requests of every kind, answered in any order, on a ring that wraps.
SPECIFICATION Spec
CONSTANTS
    Handlers = {h1, h2}
    Requests <- MCRequests
    BearerToken = "secret"
    Entries <- Entry
    Zero <- NoEntry
    Capacity = 2
    MaxRequests = 3
SYMMETRY HandlerSymmetry
CHECK_DEADLOCK FALSE
INVARIANTS
    UnauthorizedStaysOut
    RecordsAreTruthful
    RecordedOnce
PROPERTIES
    RingIsLog
