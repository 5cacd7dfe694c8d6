\* probe of one device with two resources, every failure outcome, then remove.
CONSTANTS
    NRes = 2
    UintBits = 2
SPECIFICATION Spec
INVARIANT ProbeRemoveBalanced
\* A failed probe, a removed device and a kernel oops are ends; the
\* exit_bars loop never ends.
CHECK_DEADLOCK FALSE
