CONSTANTS
    CellRange = 5
    RamSize = 17
    heap_start = 2
    heap_limit = 11
    Sizes <- MCSizes
    Payloads <- MCPayloads
    FreesStale = TRUE
SPECIFICATION Spec
CHECK_DEADLOCK FALSE
PROPERTY
    FreesOnlyOwned
