\* Two processes sharing the device: can a buffer that one of them holds be
\* freed by the other?
CONSTANTS
    p1 = p1
    p2 = p2
    Procs = {p1, p2}
    Indices = {0, 1}
    Undefined = Undefined
    Nil = Nil
    MaxCreates = 3
    MaxFds = 3
SPECIFICATION SpecNoFreeAll
INVARIANT HandleBacked
SYMMETRY ProcSymmetry
VIEW ReachableView
