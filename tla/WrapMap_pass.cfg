\* Kernel and user buffers of 2 pages, wrap-mapped once, while another
\* thread maps up to three runs of 2 pages.  The process stops after
\* DMABuffer_free, so deadlock is not checked.
CONSTANTS
    L = 2
    MinAddr = 2
    MaxAddr = 11
    HeapPages = {2, 3, 4, 5}
    Starts = {6}
    Types = {"kernel", "user"}
    OtherLen = 2
    MaxOther = 3
    MaxWraps = 1
SPECIFICATION Spec
INVARIANTS
    TypeOK
    WrapContiguous
    NoStrayView
CHECK_DEADLOCK FALSE
