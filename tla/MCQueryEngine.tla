--------------------------- MODULE MCQueryEngine ----------------------------
(***************************************************************************)
(* TLC instance of QueryEngine.                                            *)
(***************************************************************************)
EXTENDS QueryEngine, TLC

CONSTANTS t1, t2, v1, malformed

MCTypes == {t1, t2}
MCRegistered == {t1, t2}
MCPayloads == {v1, malformed}
MCMalformed == {malformed}
MCKeys == {{t1}, {t1, t2}}
=============================================================================
