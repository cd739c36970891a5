--------------------------- MODULE MCMutationGate ---------------------------
(***************************************************************************)
(* TLC instance of MutationGate: two registered component types and one    *)
(* that has no table, two payloads that parse and one that does not.       *)
(***************************************************************************)
EXTENDS MutationGate, TLC

CONSTANTS t1, t2, unregistered, v1, v2, malformed

MCTypes == {t1, t2, unregistered}
MCRegistered == {t1, t2}
MCPayloads == {v1, v2, malformed}
MCMalformed == {malformed}

MCSymmetry == Permutations({t1, t2}) \cup Permutations({v1, v2})
=============================================================================
