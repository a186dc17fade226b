CONSTANTS
    CellRange = 256
    Programs <- MCPrograms
SPECIFICATION Spec
CHECK_DEADLOCK FALSE
INVARIANTS
    TypeOK
    LabelsMeetCode
    ProcessorReadsBack
    EntryIsStart
