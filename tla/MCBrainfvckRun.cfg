CONSTANTS
    CellRange = 4
    Header <- MCHeader
    Sources <- MCSources
SPECIFICATION Spec
CHECK_DEADLOCK FALSE
INVARIANTS
    TypeOK
    RejectsUnbalanced
    SameAtIO
PROPERTY
    WaitTogether
