SPECIFICATION Spec
CONSTANTS
    s1 = s1
    s2 = s2
    a = a
    b = b
    v = v
    l = l
    k = k
    None = None
    Sessions <- MCSessions
    TypedEdits = {a, b}
    ValueEdits = {}
    LiveEdits = {}
    LinkEdits = {k}
    SystemEdits = {a}
    MaxEdits = 2
    MaxRequests = 4
    MaxFaults = 0
PROPERTY CommitReplacesItsParent
