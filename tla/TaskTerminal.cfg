SPECIFICATION Spec
CONSTANTS
    NumJobs = 1
    Workers = {w1, w2}
    NoWorker = NoWorker
    Clients = {c1}
    NameOf <- SameName
    Mortal = {}
    CanRun <- AnyJob
    Priority <- EqualPriority
    RetryCap = 1
    MaxRetry <- FirstRetries
    MaxFaults = 0
CHECK_DEADLOCK FALSE
PROPERTY TerminalIsFinal
