SPECIFICATION FairSpec
CONSTANTS
    Insts = {i1}
    Threads = {t1, t2}
    Nobody = Nobody
    DayBars = 2
    PageSize = 1
    MergeRows = 3
    Listing = 1
    ListTime = {}
    Starts = {0, 2}
    BulkRows = 2
    MaxPages = 2
    QueueSize = 1
    DbBatch = 2
    MaxAttempts = 1
    LagBars = 0
    Since = 3
    Horizon = 4
    MaxLaunches = 2
    MaxFaults = 1
CHECK_DEADLOCK FALSE
INVARIANTS TypeOK WatermarkIsStored PutIsDurable
PROPERTIES StopMeansStored AdvanceIsChecked StagesEnd
