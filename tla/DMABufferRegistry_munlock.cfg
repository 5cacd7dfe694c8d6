\* One process: after munlock fails in DMABuffer_free of a USER buffer, can
\* a retried delete destroy a buffer the list still holds?
CONSTANTS
    p1 = p1
    p2 = p2
    Procs = {p1}
    Indices = {0, 1}
    Undefined = Undefined
    Nil = Nil
    MaxCreates = 3
    MaxFds = 3
SPECIFICATION SpecNoFreeAll
PROPERTY ImplementsLifecycle
VIEW ReachableView
