CONSTANTS
    CellRange = 4
    RamSize = 16
    FbSize = 0
    HeapSize = 4
    StackSize = 1
    Binaries <- MCBinaries
    Stored = {1}
    Touched <- MCTouched
SPECIFICATION Spec
INVARIANTS
    TypeOK
    RegionsOwned
    ReadyToRun
PROPERTY
    ImplementsIsolation
