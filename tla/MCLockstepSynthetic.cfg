SPECIFICATION Spec
CONSTANTS
    p1 = p1
    p2 = p2
    NoLimit = NoLimit
    Peers <- MCPeers
    Transport = "stream"
    Delays <- MCNoDelay
    Limits <- MCLimits
    MaxPackets = 4
    MaxFuture = 1
    KeepReleased = 1
    MaxAttempts = 1
    MaxTick = 2
    MaxRepeats = 0
    MaxFailures = 1
    MaxWaits = 1
CHECK_DEADLOCK FALSE
INVARIANT FramesComplete
