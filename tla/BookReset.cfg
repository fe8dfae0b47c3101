SPECIFICATION Spec
CONSTANTS
    Bids = {b1}
    Asks = {a1}
    Start = 5
    ResetBelow = 3
    MaxChanges = 3
    MaxResets = 1
    MaxLost = 1
    MaxDrops = 0
    MaxRestarts = 0
    MaxFaults = 0
CHECK_DEADLOCK FALSE
INVARIANTS BookIsMirror
