CONSTANTS
    MaxBars = 3
    MaxRaises = 2
    Headers <- MCHeaders
SPECIFICATION Spec
INVARIANT NoIsrAfterFree
CHECK_DEADLOCK FALSE
