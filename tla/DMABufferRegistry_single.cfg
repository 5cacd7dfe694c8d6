\* One process, which may exit or crash at any point and start again, using
\* every library call except PciDevice_freeAllBuffers.
CONSTANTS
    p1 = p1
    p2 = p2
    Procs = {p1}
    Indices = {0, 1}
    Undefined = Undefined
    Nil = Nil
    MaxCreates = 3
    MaxFds = 3
SPECIFICATION SpecNoFreeAll
INVARIANTS
    
    ListSound
VIEW ReachableView
