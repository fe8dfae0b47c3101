\* Two trades before the start and one after it, one break, one failing
\* transaction or request.
CONSTANTS
    MaxBreaks = 1
    MaxTrades = 2
    Odd = {1, 2}
    BatchSize = 2
    Bulk = 1
    MaxFaults = 1
    Before = 1
    Past = 0
    Page = 1
    MaxPages = 2

SPECIFICATION FairSpec
INVARIANTS TypeOK RecoveredIsFetched
PROPERTIES RawIsKept Reconnects
CHECK_DEADLOCK FALSE
