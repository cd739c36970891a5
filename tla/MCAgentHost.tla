----------------------------- MODULE MCAgentHost -----------------------------
(* A small instance of AgentHost for TLC. *)
EXTENDS AgentHost

CONSTANTS t1, t2, p1, p2, c1, c2

MCTurns == {t1, t2}
MCProposals == {p1, p2}
MCReused == {p2}
MCCGSs == {c1, c2}
=============================================================================
