----------------------------- MODULE GateTypes -----------------------------
(***************************************************************************)
(* What the runtime core's entity store, component tables and mutation     *)
(* queues hold.  The modules that describe the mutation gate, its promise  *)
(* and its readers all extend this one.                                    *)
(*                                                                         *)
(* A payload is the component JSON of a row; the ones in Malformed are the *)
(* strings serde_json cannot parse.  A component type is registered when   *)
(* the table store has a table for it.                                     *)
(***************************************************************************)
EXTENDS Naturals, Sequences, FiniteSets

CONSTANTS
    Types,        \* component type ids a request can name
    Registered,   \* those with a ComponentTable
    Payloads,     \* component JSON strings
    Malformed,    \* those that do not parse
    NoRow,        \* "this entity has no row in this table"
    MaxId         \* bound: entity ids are 1..MaxId

ASSUME GateConstants ==
    /\ Registered \subseteq Types
    /\ Malformed \subseteq Payloads
    /\ NoRow \notin Payloads
    /\ MaxId \in Nat

Ids == 1..MaxId

Cells == Payloads \cup {NoRow}

\* Lifecycle states a record can be seen in between two operations.
\* DestroyRequested and Destroyed occur only inside the destroy operation.
Present == {"Active", "Disabled"}
Lifecycle == Present \cup {"Archived", "Unused"}

NoRows == [t \in Types |-> [e \in Ids |-> NoRow]]
Rows == [Types -> [Ids -> Cells]]

SpawnRequests == [Types -> Cells]
WriteRequests == [entity : Ids, type : Types, payload : Payloads]
RemoveRequests == [entity : Ids, type : Types]
DestroyRequests == Ids

Queues == [spawn   : Seq(SpawnRequests),
           add     : Seq(WriteRequests),
           modify  : Seq(WriteRequests),
           remove  : Seq(RemoveRequests),
           destroy : Seq(DestroyRequests)]

EmptyQueues == [spawn   |-> << >>,
                add     |-> << >>,
                modify  |-> << >>,
                remove  |-> << >>,
                destroy |-> << >>]

Pending(q) == Len(q.spawn) + Len(q.add) + Len(q.modify)
                + Len(q.remove) + Len(q.destroy)

Entries(s) == {s[i] : i \in DOMAIN s}

\* Two requests of one batch that ask the same thing of the same cell or entity.
Repeats(s, Same(_, _)) ==
    \E i, j \in DOMAIN s : i # j /\ Same(s[i], s[j])

SameCell(a, b) == a.entity = b.entity /\ a.type = b.type

(***************************************************************************)
(* The batches that validation at request time cannot exclude: a second    *)
(* add of one cell, a second remove of one cell, a second destroy of one   *)
(* entity, or a payload that does not parse.                               *)
(***************************************************************************)
Conflicted(q) ==
    \/ Repeats(q.add, SameCell)
    \/ Repeats(q.remove, SameCell)
    \/ Repeats(q.destroy, LAMBDA a, b : a = b)
    \/ \E init \in Entries(q.spawn), t \in Types : init[t] \in Malformed
    \/ \E r \in Entries(q.add) \cup Entries(q.modify) : r.payload \in Malformed
=============================================================================
