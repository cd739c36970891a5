----------------------------- MODULE AtomicGate -----------------------------
(***************************************************************************)
(* What the mutation gate promises its callers: a request changes nothing  *)
(* but the queues, and a batch takes effect as one step or not at all.     *)
(* The effect is stated as a function of the queues, without the order in  *)
(* which the gate works through them; MutationGate, which does work        *)
(* through them one operation at a time, implements this specification.    *)
(***************************************************************************)
EXTENDS GateTypes

VARIABLES
    state,    \* lifecycle state of each entity id
    nextId,   \* the id the next spawn receives
    archive,  \* ids that may never be used again
    rows,     \* component tables
    queues    \* pending requests

world == <<state, nextId, archive, rows>>
vars == <<state, nextId, archive, rows, queues>>

Init ==
    /\ state = [e \in Ids |-> "Unused"]
    /\ nextId = 1
    /\ archive = {}
    /\ rows = NoRows
    /\ queues = EmptyQueues

-----------------------------------------------------------------------------
(* The effect of a batch on one world, queue by queue. *)

Destroyed(q) == Entries(q.destroy)

Spawned(q) == nextId .. nextId + Len(q.spawn) - 1

StateAfter(q) ==
    [e \in Ids |-> IF e \in Destroyed(q) THEN "Archived"
                   ELSE IF e \in Spawned(q) THEN "Active"
                   ELSE state[e]]

\* The payload of the last request of s for the cell: a batch may modify one
\* cell several times and the last request wins.
LastPayload(s, e, t) ==
    LET At == {i \in DOMAIN s : s[i].entity = e /\ s[i].type = t}
        last == CHOOSE i \in At : \A j \in At : j <= i
    IN  s[last].payload

Names(s, e, t) == \E r \in Entries(s) : r.entity = e /\ r.type = t

CellAfter(q, t, e) ==
    CASE e \in Destroyed(q) \/ Names(q.remove, e, t) -> NoRow
      [] OTHER ->
           IF Names(q.modify, e, t) THEN LastPayload(q.modify, e, t)
           ELSE IF Names(q.add, e, t) THEN LastPayload(q.add, e, t)
           ELSE IF e \in Spawned(q) THEN q.spawn[e - nextId + 1][t]
           ELSE rows[t][e]

-----------------------------------------------------------------------------
(* A caller's request, or the decision to drop the queues: the world that   *)
(* systems and queries see stays as it is.                                  *)
Request ==
    /\ UNCHANGED world
    /\ Pending(queues') = Pending(queues) + 1

Discard ==
    /\ UNCHANGED world
    /\ queues' = EmptyQueues

\* The whole batch, which only a batch free of conflicts can have.
Commit ==
    /\ ~Conflicted(queues)
    /\ state' = StateAfter(queues)
    /\ nextId' = nextId + Len(queues.spawn)
    /\ archive' = archive \cup Destroyed(queues)
    /\ rows' = [t \in Types |-> [e \in Ids |-> CellAfter(queues, t, e)]]
    /\ queues' = EmptyQueues

\* Disabling and enabling an entity, outside any batch.
Toggle ==
    \E e \in Ids :
        /\ state[e] \in Present
        /\ state' = [state EXCEPT ![e] =
                        IF @ = "Active" THEN "Disabled" ELSE "Active"]
        /\ UNCHANGED <<nextId, archive, rows, queues>>

Next == Request \/ Discard \/ Commit \/ Toggle

Spec == Init /\ [][Next]_vars
=============================================================================
