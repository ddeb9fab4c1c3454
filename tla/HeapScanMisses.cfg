SPECIFICATION Spec
CONSTANTS
    PageCap = 12
    SlotSize = 1
    LinkSize = 1
    Uses <- OnlyLoose
INVARIANT ScanExact
