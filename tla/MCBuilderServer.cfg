SPECIFICATION Spec
CONSTANTS
    s1 = s1
    s2 = s2
    a = a
    b = b
    v = v
    l = l
    k = k
    None = None
    Sessions <- MCSessions
    TypedEdits = {a, b}
    ValueEdits = {}
    LiveEdits = {l}
    LinkEdits = {k}
    SystemEdits = {a}
    MaxEdits = 2
    MaxRequests = 4
    MaxFaults = 1
INVARIANTS
    TypeOK
    HistoryIsLinear
    MemoryFollowsDisk
    IndexMatchesFiles
    AppliedEditIsDurable
PROPERTIES
    CommitIsThePreview
    RestoreMovesOneEdit
    RecoveryIsRunnable
    JobsEnd
    ImplementsEditTrail
