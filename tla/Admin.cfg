SPECIFICATION LiveSpec
CONSTANTS
    Clients = {c1, c2}
    Names = {m, k}
    Null = Null
    Uses <- AllUses
INVARIANTS
    ClosedOnce
    Kept
PROPERTIES
    Released
