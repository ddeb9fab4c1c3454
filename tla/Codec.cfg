CONSTANTS
    Byte = 8
    BitsPerByte = 3
    MaxTupleSize = 38
    RIDs = {1, 2}
    Uses <- MCUses
    Schemas <- MCSchemas
    ValuesOf <- MCValuesOf
    LongKeys <- MCLongKeys
SPECIFICATION Spec
INVARIANTS
    FileIsSaved
    SearchExact
    RoundTrip
    SpillsToFit
    KeysExact
