--------------------------- MODULE MCLockstepInput ---------------------------
(***************************************************************************)
(* TLC instances of LockstepInput: two peers, three ticks.                 *)
(***************************************************************************)
EXTENDS LockstepInput

CONSTANTS p1, p2

MCPeers == {p1, p2}
MCNoDelay == {0}
MCDelays == {0, 1}
MCNoLimits == {NoLimit}
MCLimits == {1}
=============================================================================
