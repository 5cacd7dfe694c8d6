CONSTANTS
    MaxBars = 3
    MaxRaises = 2
    Headers <- MCHeaders
SPECIFICATION Spec
INVARIANTS TypeOK BarsDecoded BarResourcesBalanced NoMaskedWait
PROPERTIES IrqDelivered IsrTerminates
CHECK_DEADLOCK FALSE
