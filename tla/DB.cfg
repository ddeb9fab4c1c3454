SPECIFICATION Spec
SYMMETRY Symmetry
CONSTANTS
    p = p
    q = q
    t = t
    u = u
    Null = Null
    Clients = {p, q}
    Names = {t, u}
    Uses <- BothUses
INVARIANTS
    CreatedStays
    OwnRows
    IndexOfHeap
PROPERTIES
    RowsKept
