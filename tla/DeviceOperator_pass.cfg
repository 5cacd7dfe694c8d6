\* DeviceOperator_new over every outcome of its file operations, then the
\* application's use and DeviceOperator_delete with either mode.
CONSTANTS
    NIds = 2
    e1 = e1
    e2 = e2
    e3 = e3
    Entries <- MCEntries
    Match <- MCMatch
    MaxDevices = 3
SPECIFICATION Spec
INVARIANTS
    TypeOK
    NewRollsBack
    DeletedWhenReturned
PROPERTIES
    Terminates
\* The program ends after DeviceOperator_new fails or the operator is
\* deleted; those final states have no successor.
CHECK_DEADLOCK FALSE
