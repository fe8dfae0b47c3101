SPECIFICATION FairSpec
CONSTANTS
    Bids = {b1, b2}
    Asks = {a1, a2}
    Start = 5
    ResetBelow = 3
    MaxChanges = 2
    MaxResets = 1
    MaxLost = 1
    MaxDrops = 1
    MaxRestarts = 1
    MaxFaults = 1
CHECK_DEADLOCK FALSE
INVARIANTS TypeOK TrustedBookIsMirror SampleIsReal GapsFollowState
PROPERTIES ImplementsFeed ReconnectHeals SyncCatchesUp
