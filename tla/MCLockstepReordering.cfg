SPECIFICATION LiveSpec
CONSTANTS
    p1 = p1
    p2 = p2
    NoLimit = NoLimit
    Peers <- MCPeers
    Transport = "reordering"
    Delays <- MCNoDelay
    Limits <- MCNoLimits
    MaxPackets = 4
    MaxFuture = 1
    KeepReleased = 1
    MaxAttempts = 1
    MaxTick = 2
    MaxRepeats = 0
    MaxFailures = 0
    MaxWaits = 1
CHECK_DEADLOCK FALSE
PROPERTY EveryTickSimulated
