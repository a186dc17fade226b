CONSTANTS
    Pixels <- MCPixels
    Colors = 2
    MaxPresses = 2
    MaxRuns = 2
SPECIFICATION Spec
CHECK_DEADLOCK FALSE
INVARIANT
    DestroyedNotUsed
