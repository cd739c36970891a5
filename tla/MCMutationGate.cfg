SPECIFICATION Spec
CONSTANTS
    t1 = t1
    t2 = t2
    unregistered = unregistered
    v1 = v1
    v2 = v2
    malformed = malformed
    NoRow = NoRow
    NoImage = NoImage
    Types <- MCTypes
    Registered <- MCRegistered
    Payloads <- MCPayloads
    Malformed <- MCMalformed
    MaxId = 2
    MaxPending = 3
    MaxWrites = 5
SYMMETRY MCSymmetry
INVARIANT TypeOK
INVARIANT RowsOfPresentEntities
INVARIANT IdentityLedger
INVARIANT DeltaReplaysBatch
PROPERTY OnlyConflictsFail
PROPERTY ImplementsAtomicGate
