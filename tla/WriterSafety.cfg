SPECIFICATION FairSpec
CONSTANTS
    Keys = {k1, k2}
    Cap = 1
    BatchSize = 2
    MaxRecords = 3
    MaxFaults = 2
CHECK_DEADLOCK FALSE
INVARIANTS TypeOK Kept
PROPERTIES NeverBackwards Delivered
