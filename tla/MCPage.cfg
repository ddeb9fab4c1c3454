SPECIFICATION Spec
CONSTANTS
    b0 = b0
    b1 = b1
    b2 = b2
    Deleted = Deleted
    Zero = b0
    PageSize <- MCPageSize
    Byte <- MCByte
    Data <- MCData
INVARIANTS
    InSync
    NoOverlap
    ReadsBack
PROPERTIES
    SlotIDsStable
