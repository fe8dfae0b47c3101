SPECIFICATION FairSpec
CONSTANTS
    NumJobs = 1
    Workers = {w1, w2}
    NoWorker = NoWorker
    Clients = {c1}
    NameOf <- SameName
    Mortal = {w1, w2}
    CanRun <- AnyJob
    Priority <- EqualPriority
    RetryCap = 1
    MaxRetry <- FirstRetries
    MaxFaults = 1
CHECK_DEADLOCK FALSE
INVARIANTS TypeOK OneRunnerPerJob OneChildPerJob AttemptAccounting SuccessIsRecorded ActiveHasRunner
PROPERTIES LegalTransitions ImplementsLifecycle OnlyErrorsStrand CancelTakesEffect CancelledNeverRestarts
