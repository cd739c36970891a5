SPECIFICATION Spec
CONSTANTS
    t1 = t1
    t2 = t2
    p1 = p1
    p2 = p2
    c1 = c1
    c2 = c2
    Prompt = Prompt
    None = None
    Turns <- MCTurns
    Proposals <- MCProposals
    Reused <- MCReused
    CGSs <- MCCGSs
INVARIANTS
    TypeOK
    PreviewIsOfPending
    PendingIsUndecided
    AppliedMeansCommitted
    LiveTurnIsActive
PROPERTIES
    CancelledTurnEnds
    ImplementsApprovals
