---------------------------- MODULE QueryEngine -----------------------------
(***************************************************************************)
(* The query engine and its cache (packages/runtime-core/src/query_engine) *)
(* beside the gate that changes the tables they read.  A cached result is  *)
(* reused while the sum of the tables' write counters is the number it was *)
(* stored under.  That sum is not unique, and a rolled-back batch takes it *)
(* down again, so that later writes reuse numbers already given out.       *)
(***************************************************************************)
EXTENDS MutationGate

CONSTANTS
    Keys,      \* component type sets that are queried, sorted by the engine
    NoEntry

ASSUME QueryKeys == \A k \in Keys : k \subseteq Types /\ k # {}

\* The table store is a map from type ids to tables.
ASSUME FiniteTypes == IsFiniteSet(Types)

VARIABLE cache   \* QueryCache.entries

qvars == <<vars, cache>>

QInit == Init /\ cache = [k \in Keys |-> NoEntry]

\* entities_with_all_components: the intersection of the tables, empty when a
\* type has no table.  Lifecycle states play no part in it.
EntitiesWithAllComponents(k) ==
    IF k \subseteq Registered
    THEN {e \in Ids : \A t \in k : HasComponent(e, t)}
    ELSE {}

CacheHit(k) == cache[k] # NoEntry /\ cache[k].stamp = CombinedVersion

QueryResult(k) ==
    IF CacheHit(k) THEN cache[k].ids ELSE EntitiesWithAllComponents(k)

Query ==
    \E k \in Keys :
        /\ ~transaction
        /\ ~CacheHit(k)
        /\ cache' = [cache EXCEPT ![k] =
                        [ids |-> EntitiesWithAllComponents(k),
                         stamp |-> CombinedVersion]]
        /\ UNCHANGED vars

QNext == Query \/ (Next /\ UNCHANGED cache)

QSpec == QInit /\ [][QNext]_qvars

-----------------------------------------------------------------------------
(* Properties *)

\* "A cache miss produces the same result as a cache hit": whatever batches
\* were committed or rolled back since an entry was stored, a query answered
\* from it gives what a scan of the tables would give.
HitEqualsMiss ==
    ~transaction =>
        \A k \in Keys : QueryResult(k) = EntitiesWithAllComponents(k)

\* EntityState documents that only Active entities appear in query results;
\* a disabled entity keeps its rows and is still found.
OnlyActiveInResults ==
    ~transaction =>
        \A k \in Keys : QueryResult(k) \subseteq {e \in Ids : state[e] = "Active"}
=============================================================================
