SPECIFICATION FairSpec
CONSTANTS
    Other = Other
    Cap = 1
    BatchSize = 2
    Keep = 1
    Horizon = 2
    MaxFaults = 1
    MaxMessages = 2
    MaxOther = 1
CHECK_DEADLOCK FALSE
INVARIANTS TypeOK SamplesAccounted WindowsAreStored
PROPERTY StopCompletes
