\* A user buffer wrap-mapped once: mremap with MREMAP_FIXED onto the memalign hint replaces malloc arena pages.
CONSTANTS
    L = 2
    MinAddr = 2
    MaxAddr = 11
    HeapPages = {2, 3, 4, 5}
    Starts = {6}
    Types = {"user"}
    OtherLen = 2
    MaxOther = 3
    MaxWraps = 1
SPECIFICATION Spec
PROPERTIES
    NoClobber
CHECK_DEADLOCK FALSE
