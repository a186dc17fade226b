CONSTANTS
    CellRange = 256
    RamSize = 49
    first_sector = 6
    heap_start = 27
    heap_limit = 35
    stack_top = 42
    FbSize = 4
    Colors = 8
    RegCount = 5
    Images <- MCImages
    Inputs <- MCInputs
SPECIFICATION Spec
CHECK_DEADLOCK FALSE
PROPERTY
    StaysInItsSandbox
