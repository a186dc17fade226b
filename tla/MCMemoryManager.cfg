CONSTANTS
    ArenaSize = 8
    AddrRange = 8
    Requests <- MCRequests
SPECIFICATION Spec
INVARIANTS
    TypeOK
    Separated
    Accounted
PROPERTY
    ImplementsRegions
