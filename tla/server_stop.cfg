SPECIFICATION StopSpec
CONSTANTS
    Handlers = {"h1", "h2"}
    Databases = {"accounts", "data-stores", "auth-requests"}
    MaxSweep = 1
INVARIANTS
    NoIteratorOnClosed
    OnlyLateOnesFail
    CutOffLeavesUsable
PROPERTIES
    StopsInTheEnd
CHECK_DEADLOCK FALSE
