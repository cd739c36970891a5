--------------------------- MODULE MCBuilderServer ---------------------------
(* Small instances of BuilderServer for TLC. *)
EXTENDS BuilderServer

CONSTANTS s1, s2, a, b, v, l, k

MCSessions == {s1, s2}
OneSession == {s1}
=============================================================================
