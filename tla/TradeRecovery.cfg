\* One trade stored before the start and two made while nobody listens; every
\* request and transaction succeeds.
CONSTANTS
    MaxBreaks = 1
    MaxTrades = 3
    Odd = {}
    BatchSize = 2
    Bulk = 1
    MaxFaults = 0
    Before = 1
    Past = 0
    Page = 1
    MaxPages = 2

SPECIFICATION Spec
INVARIANT RecoveredIsFilled
CHECK_DEADLOCK FALSE
