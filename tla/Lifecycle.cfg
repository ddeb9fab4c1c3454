SPECIFICATION LiveSpec
CONSTANTS
    a = a
    b = b
    Operators = {a, b}
    Uses <- AllUses
INVARIANTS
    OneServer
    ReportsTrue
    NothingLeft
PROPERTIES
    Returns
