SPECIFICATION Spec
CHECK_DEADLOCK FALSE
CONSTANTS
    c1 = c1
    c2 = c2
    c3 = c3
    Conns = {c1}
    Requests <- AllRequests
INVARIANTS
    ExitWaits
