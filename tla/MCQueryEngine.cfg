SPECIFICATION QSpec
CONSTANTS
    t1 = t1
    t2 = t2
    v1 = v1
    malformed = malformed
    NoRow = NoRow
    NoImage = NoImage
    NoEntry = NoEntry
    Types <- MCTypes
    Registered <- MCRegistered
    Payloads <- MCPayloads
    Malformed <- MCMalformed
    Keys <- MCKeys
    MaxId = 2
    MaxPending = 2
    MaxWrites = 4
INVARIANT HitEqualsMiss
