CONSTANTS
    CellRange = 5
    RamSize = 17
    heap_start = 2
    heap_limit = 11
    Sizes <- MCSizes
    Payloads <- MCPayloads
    FreesStale = FALSE
SPECIFICATION Spec
CHECK_DEADLOCK FALSE
INVARIANTS
    TypeOK
    Tiled
    Coalesced
PROPERTIES
    DataUntouched
    LoopsEnd
    ImplementsRegions
