SPECIFICATION Spec
CONSTANTS
    Keys = {k1, k2}
    Cap = 1
    BatchSize = 2
    MaxRecords = 2
    MaxFaults = 1
CHECK_DEADLOCK FALSE
INVARIANTS NothingLost
