SPECIFICATION LiveSpec
CHECK_DEADLOCK FALSE
CONSTANTS
    c1 = c1
    c2 = c2
    c3 = c3
    Conns = {c1, c2, c3}
    Requests <- AllRequests
INVARIANTS
    EarlyInsertsSaved
PROPERTIES
    Stops
    Answered
