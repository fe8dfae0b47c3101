\* Two threads on at most two proxies, or on the shared bucket, one call each
\* with up to three attempts.
CONSTANTS
    Keys = {k1, k2}
    Ports = {1, 2}
    None = None
    Slot = 1
    Cool429 = 2
    DisableFail = 3
    DisableShort = 1
    NumNodes = 2
    Ips = {a, b}
    PoolSize = 2
    Normal = 2
    Cool = 2
    MaxRetries = 3
    Pause429 = 2
    PauseFail = 2
    PoolPause = 1
    NonePause = 1
    StallMax = 2

SPECIFICATION FairSpec
INVARIANTS TypeOK MergeRestored
PROPERTIES Paced CallsEnd
