SPECIFICATION Spec
CONSTANTS
    p1 = p1
    p2 = p2
    NoLimit = NoLimit
    Peers <- MCPeers
    Transport = "datagram"
    Delays <- MCDelays
    Limits <- MCLimits
    MaxPackets = 1
    MaxFuture = 1
    KeepReleased = 1
    MaxAttempts = 2
    MaxTick = 1
    MaxRepeats = 0
    MaxFailures = 1
    MaxWaits = 1
CHECK_DEADLOCK FALSE
INVARIANT TypeOK
INVARIANT NoDeadPackets
INVARIANT FramesInSequence
PROPERTY UndelayedTicksSimulated
