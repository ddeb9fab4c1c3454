SPECIFICATION Spec
SYMMETRY Symmetry
CONSTANTS
    p = p
    q = q
    a = a
    b = b
    v = v
    w = w
    Null = Null
    Clients = {p, q}
    Values = {v, w}
    Uses <- AllUses
INVARIANTS
    Findable
    EntriesTrue
    UniqueRows
    FlushDurable
