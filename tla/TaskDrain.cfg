SPECIFICATION Spec
CONSTANTS
    NumJobs = 2
    Workers = {w1}
    NoWorker = NoWorker
    Clients = {c1}
    NameOf <- DistinctNames
    Mortal = {}
    CanRun <- AnyJob
    Priority <- LaterFirst
    RetryCap = 1
    MaxRetry <- FirstRetries
    MaxFaults = 0
CHECK_DEADLOCK FALSE
INVARIANT DrainIsCancelled
