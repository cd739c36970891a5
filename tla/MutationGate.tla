---------------------------- MODULE MutationGate ----------------------------
(***************************************************************************)
(* The entity store, the component tables and the mutation gate in front   *)
(* of them (packages/runtime-core/src/entity_store, component_tables and   *)
(* mutation_gate).  Systems queue requests, each validated against the     *)
(* world of that moment; apply_all then takes the queues in the order      *)
(* spawn, add, modify, remove, destroy, one operation at a time, and the   *)
(* first operation that fails restores the image of the world and of the   *)
(* queues captured when the batch began.                                   *)
(*                                                                         *)
(* apply_all holds the gate exclusively, so nothing is requested, queried  *)
(* or toggled while `transaction` is TRUE.                                 *)
(***************************************************************************)
EXTENDS GateTypes, Functions


CONSTANTS
    NoImage,      \* no rollback image: no batch is running
    MaxPending,   \* bound: requests queued at one time
    MaxWrites     \* bound: table writes over a behaviour

ASSUME GateBounds == MaxPending \in Nat /\ MaxWrites \in Nat

VARIABLES
    state,        \* EntityStore.entities: lifecycle state of each id
    nextId,       \* EntityIdGenerator: the next id
    archive,      \* EntityArchive: permanently reserved ids
    rows,         \* ComponentTableStore: rows[t][e], a payload or NoRow
    version,      \* write counter of each table
    queues,       \* MutationQueues
    transaction,  \* transaction_in_progress
    image,        \* the batch's MutationGateRollbackSnapshot
    delta,        \* the batch's StateDelta
    failure       \* last_failure_diagnostic: the operation that failed, or "none"

store == <<state, nextId, archive>>
tables == <<rows, version>>
batch == <<transaction, image, delta, failure>>
vars == <<store, tables, queues, batch>>

-----------------------------------------------------------------------------
(* Rollback images and deltas. *)

Images == [state : [Ids -> Lifecycle], nextId : 1..MaxId + 1,
           archive : SUBSET Ids, rows : Rows, version : [Types -> Nat],
           queues : Queues]

Deltas == [spawned : SUBSET Ids, initial : Rows, added : Rows, updated : Rows,
           removed : SUBSET (Types \X Ids), destroyed : SUBSET Ids]

EmptyDelta == [spawned |-> {}, initial |-> NoRows, added |-> NoRows,
               updated |-> NoRows, removed |-> {}, destroyed |-> {}]

\* rollback_snapshot() of both stores, with a clone of the queues.
RollbackSnapshot ==
    [state |-> state, nextId |-> nextId, archive |-> archive,
     rows |-> rows, version |-> version, queues |-> queues]

-----------------------------------------------------------------------------
Init ==
    /\ state = [e \in Ids |-> "Unused"]
    /\ nextId = 1
    /\ archive = {}
    /\ rows = NoRows
    /\ version = [t \in Types |-> 0]
    /\ queues = EmptyQueues
    /\ transaction = FALSE
    /\ image = NoImage
    /\ delta = EmptyDelta
    /\ failure = "none"

-----------------------------------------------------------------------------
(* Requests.  MutationValidator reads the world as it is before the batch;  *)
(* what two requests of one batch do to each other is left to apply_all.    *)

HasComponent(e, t) == rows[t][e] # NoRow

EntityExists(e) == state[e] \in Present

\* The sum of the tables' write counters, which stamps cached query results.
CombinedVersion == SumFunction(version)

\* Room for one more request within the bounds of the model.
Accepting ==
    /\ ~transaction
    /\ Pending(queues) < MaxPending
    /\ CombinedVersion + Pending(queues) < MaxWrites

Queue(q, request) ==
    /\ queues' = [queues EXCEPT ![q] = Append(@, request)]
    /\ UNCHANGED <<store, tables, batch>>

ValidateSpawn(init) == \A t \in Types : init[t] # NoRow => t \in Registered

RequestSpawn ==
    \E init \in SpawnRequests :
        /\ Accepting
        /\ nextId + Len(queues.spawn) <= MaxId
        /\ ValidateSpawn(init)
        /\ Queue("spawn", init)

\* Bug: the duplicate check left to the table.
AddValidatedByEntityOnly(e, t) == EntityExists(e) /\ t \in Registered

ValidateAddComponent(e, t) ==
    EntityExists(e) /\ t \in Registered /\ ~HasComponent(e, t)

RequestAddComponent ==
    \E r \in WriteRequests :
        /\ Accepting
        /\ ValidateAddComponent(r.entity, r.type)
        /\ Queue("add", r)

ValidateExistingComponent(e, t) ==
    EntityExists(e) /\ t \in Registered /\ HasComponent(e, t)

RequestModifyComponent ==
    \E r \in WriteRequests :
        /\ Accepting
        /\ ValidateExistingComponent(r.entity, r.type)
        /\ Queue("modify", r)

RequestRemoveComponent ==
    \E r \in RemoveRequests :
        /\ Accepting
        /\ ValidateExistingComponent(r.entity, r.type)
        /\ Queue("remove", r)

ValidateDestroy(e) == EntityExists(e)

RequestDestroy ==
    \E e \in DestroyRequests :
        /\ Accepting
        /\ ValidateDestroy(e)
        /\ Queue("destroy", e)

DiscardAll ==
    /\ ~transaction
    /\ queues # EmptyQueues
    /\ queues' = EmptyQueues
    /\ UNCHANGED <<store, tables, batch>>

-----------------------------------------------------------------------------
(* EntityStore's own state changes, which need no request. *)

DisableEntity ==
    \E e \in Ids :
        /\ ~transaction
        /\ state[e] = "Active"
        /\ state' = [state EXCEPT ![e] = "Disabled"]
        /\ UNCHANGED <<nextId, archive, tables, queues, batch>>

EnableEntity ==
    \E e \in Ids :
        /\ ~transaction
        /\ state[e] = "Disabled"
        /\ state' = [state EXCEPT ![e] = "Active"]
        /\ UNCHANGED <<nextId, archive, tables, queues, batch>>

-----------------------------------------------------------------------------
(* apply_all: capture the rollback image, then drain the queues. *)

BeginBatch ==
    /\ ~transaction
    /\ transaction' = TRUE
    /\ image' = RollbackSnapshot
    /\ delta' = EmptyDelta
    /\ UNCHANGED <<store, tables, queues, failure>>

EndBatch ==
    /\ transaction' = FALSE
    /\ image' = NoImage
    /\ delta' = EmptyDelta

\* restore_from_snapshot rebuilds the archive from the archived records and
\* from the entries the image carries.
ArchiveRebuilt(i) == i.archive \cup {e \in Ids : i.state[e] = "Archived"}

\* Bug: the id counter is not part of the image.
RestoreKeepsNextId(i) ==
    /\ state' = i.state
    /\ nextId' = nextId
    /\ archive' = ArchiveRebuilt(i)
    /\ rows' = i.rows
    /\ version' = i.version
    /\ queues' = i.queues

\* Bug: the queues stay drained up to the failed operation.
RestoreForgetsQueues(i) ==
    /\ state' = i.state
    /\ nextId' = i.nextId
    /\ archive' = ArchiveRebuilt(i)
    /\ rows' = i.rows
    /\ version' = i.version
    /\ queues' = queues

RestoreRollbackSnapshot(i) ==
    /\ state' = i.state
    /\ nextId' = i.nextId
    /\ archive' = ArchiveRebuilt(i)
    /\ rows' = i.rows
    /\ version' = i.version
    /\ queues' = i.queues

RollbackAfterFailure(operation) ==
    /\ RestoreRollbackSnapshot(image)
    /\ failure' = operation
    /\ EndBatch

(* The guards below spell out D4: a queue is drained once the queues before *)
(* it are empty.                                                            *)

\* The operation is done: its request leaves the queue.
Drain(q) ==
    /\ queues' = [queues EXCEPT ![q] = Tail(@)]
    /\ UNCHANGED <<transaction, image, failure>>

-----------------------------------------------------------------------------
CanSpawn(init) == \A t \in Types : init[t] \notin Malformed

ApplySpawn ==
    /\ transaction
    /\ queues.spawn # << >>
    /\ LET init == Head(queues.spawn) IN
       \/ ~CanSpawn(init) /\ RollbackAfterFailure("spawn")
       \/ /\ CanSpawn(init)
          /\ state' = [state EXCEPT ![nextId] = "Active"]
          /\ nextId' = nextId + 1
          /\ rows' = [t \in Types |-> [rows[t] EXCEPT ![nextId] =
                         IF init[t] = NoRow THEN @ ELSE init[t]]]
          /\ version' = [t \in Types |-> IF init[t] = NoRow THEN version[t]
                                         ELSE version[t] + 1]
          /\ delta' = [delta EXCEPT !.spawned = @ \cup {nextId},
                                    !.initial = [t \in Types |->
                                        [@[t] EXCEPT ![nextId] = init[t]]]]
          /\ Drain("spawn")
          /\ UNCHANGED archive

CanAdd(r) ==
    /\ EntityExists(r.entity)
    /\ r.payload \notin Malformed
    /\ ~HasComponent(r.entity, r.type)

\* One write of a table: the row and the table's version.
WriteRow(e, t, cell) ==
    /\ rows' = [rows EXCEPT ![t][e] = cell]
    /\ version' = [version EXCEPT ![t] = @ + 1]

ApplyAdd ==
    /\ transaction
    /\ queues.spawn = << >>
    /\ queues.add # << >>
    /\ LET r == Head(queues.add) IN
       \/ ~CanAdd(r) /\ RollbackAfterFailure("add_component")
       \/ /\ CanAdd(r)
          /\ WriteRow(r.entity, r.type, r.payload)
          /\ delta' = [delta EXCEPT !.added[r.type][r.entity] = r.payload]
          /\ Drain("add")
          /\ UNCHANGED store

\* Bug: the first change of a cell stays in the delta.
RecordFirstUpdate(d, r) ==
    [d EXCEPT !.updated[r.type][r.entity] = IF @ = NoRow THEN r.payload ELSE @]

\* record_component_update: the last change of a cell replaces the earlier ones.
RecordComponentUpdate(d, r) ==
    [d EXCEPT !.updated[r.type][r.entity] = r.payload]

CanModify(r) ==
    /\ EntityExists(r.entity)
    /\ r.payload \notin Malformed
    /\ HasComponent(r.entity, r.type)

ApplyModify ==
    /\ transaction
    /\ queues.spawn = << >> /\ queues.add = << >>
    /\ queues.modify # << >>
    /\ LET r == Head(queues.modify) IN
       \/ ~CanModify(r) /\ RollbackAfterFailure("modify_component")
       \/ /\ CanModify(r)
          /\ WriteRow(r.entity, r.type, r.payload)
          /\ delta' = RecordComponentUpdate(delta, r)
          /\ Drain("modify")
          /\ UNCHANGED store

CanRemove(r) == EntityExists(r.entity) /\ HasComponent(r.entity, r.type)

ApplyRemove ==
    /\ transaction
    /\ queues.spawn = << >> /\ queues.add = << >> /\ queues.modify = << >>
    /\ queues.remove # << >>
    /\ LET r == Head(queues.remove) IN
       \/ ~CanRemove(r) /\ RollbackAfterFailure("remove_component")
       \/ /\ CanRemove(r)
          /\ WriteRow(r.entity, r.type, NoRow)
          /\ delta' = [delta EXCEPT !.removed = @ \cup {<<r.type, r.entity>>}]
          /\ Drain("remove")
          /\ UNCHANGED store

\* Bug: destruction leaves the entity's rows behind.
KeepRows(e) == UNCHANGED tables

\* Bug: rows go but the tables' versions do not move.
RemoveRowsSilently(e) ==
    /\ rows' = [t \in Types |-> [rows[t] EXCEPT ![e] = NoRow]]
    /\ UNCHANGED version

RemoveAllForEntity(e) ==
    /\ rows' = [t \in Types |-> [rows[t] EXCEPT ![e] = NoRow]]
    /\ version' = [t \in Types |-> IF HasComponent(e, t) THEN version[t] + 1
                                   ELSE version[t]]

\* request_destroy then complete_destroy, which archives the id.
ApplyDestroy ==
    /\ transaction
    /\ queues.spawn = << >> /\ queues.add = << >> /\ queues.modify = << >>
    /\ queues.remove = << >>
    /\ queues.destroy # << >>
    /\ LET e == Head(queues.destroy) IN
       \/ ~EntityExists(e) /\ RollbackAfterFailure("destroy_entity")
       \/ /\ EntityExists(e)
          /\ RemoveAllForEntity(e)
          /\ state' = [state EXCEPT ![e] = "Archived"]
          /\ archive' = archive \cup {e}
          /\ delta' = [delta EXCEPT !.destroyed = @ \cup {e}]
          /\ Drain("destroy")
          /\ UNCHANGED nextId

CommitBatch ==
    /\ transaction
    /\ queues = EmptyQueues
    /\ failure' = "none"
    /\ EndBatch
    /\ UNCHANGED <<store, tables, queues>>

-----------------------------------------------------------------------------
Request ==
    \/ RequestSpawn
    \/ RequestAddComponent
    \/ RequestModifyComponent
    \/ RequestRemoveComponent
    \/ RequestDestroy
    \/ DiscardAll

Apply ==
    \/ BeginBatch
    \/ ApplySpawn
    \/ ApplyAdd
    \/ ApplyModify
    \/ ApplyRemove
    \/ ApplyDestroy
    \/ CommitBatch

Next == Request \/ DisableEntity \/ EnableEntity \/ Apply

Spec == Init /\ [][Next]_vars
-----------------------------------------------------------------------------
(* Properties *)

TypeOK ==
    /\ state \in [Ids -> Lifecycle]
    /\ nextId \in 1..MaxId + 1
    /\ archive \in SUBSET Ids
    /\ rows \in Rows
    /\ version \in [Types -> Nat]
    /\ queues \in Queues
    /\ nextId + Len(queues.spawn) <= MaxId + 1
    /\ transaction \in BOOLEAN
    /\ transaction => image \in Images
    /\ delta \in Deltas
    /\ failure \in {"none", "spawn", "add_component", "modify_component",
                    "remove_component", "destroy_entity"}

\* Invariant I1: at every point of every batch, a row belongs to an entity that
\* is present and to a type that has a table.  Destruction must clear all
\* tables, no write may reach an entity destroyed by an earlier batch, and a
\* rollback must take entities and rows back together.
RowsOfPresentEntities ==
    \A t \in Types, e \in Ids :
        rows[t][e] # NoRow => state[e] \in Present /\ t \in Registered

\* Invariant D2: the archive, the lifecycle records and the id counter are
\* three separately restored pieces of state, and they tell one story: an id is
\* archived exactly when its record says so, and unused exactly from the
\* counter on, so that no later spawn can be given an id that has a past.
IdentityLedger ==
    /\ archive = {e \in Ids : state[e] = "Archived"}
    /\ \A e \in Ids : state[e] = "Unused" <=> e >= nextId

\* What a replica that applies the delta in D4 order makes of the world the
\* batch began with.
ReplayedPresent(d) ==
    ({e \in Ids : image.state[e] \in Present} \cup d.spawned) \ d.destroyed

ReplayedCell(d, t, e) ==
    CASE e \in d.destroyed \/ <<t, e>> \in d.removed -> NoRow
      [] OTHER ->
           IF d.updated[t][e] # NoRow THEN d.updated[t][e]
           ELSE IF d.added[t][e] # NoRow THEN d.added[t][e]
           ELSE IF d.initial[t][e] # NoRow THEN d.initial[t][e]
           ELSE image.rows[t][e]

\* The delta that apply_all accumulates describes the batch exactly at every
\* operation: replayed from the world before the batch it gives the entities
\* and the rows of the world now, although it merges the modifications of one
\* cell into one record and keeps no order between its lists.
DeltaReplaysBatch ==
    transaction =>
        /\ ReplayedPresent(delta) = {e \in Ids : state[e] \in Present}
        /\ \A t \in Types, e \in Ids : ReplayedCell(delta, t, e) = rows[t][e]

\* Validation at request time plus the D4 order is enough: an operation can
\* fail only in a batch that asks twice for the same add, remove or destroy or
\* carries a payload that does not parse.  In particular a request validated
\* before other requests of its batch were queued is never invalidated by them.
OnlyConflictsFail ==
    [][failure' # failure /\ failure' # "none" => Conflicted(image.queues)]_vars

\* The gate as its callers see it: while a batch runs, the world of the image.
Promised == INSTANCE AtomicGate WITH
    state   <- IF transaction THEN image.state ELSE state,
    nextId  <- IF transaction THEN image.nextId ELSE nextId,
    archive <- IF transaction THEN image.archive ELSE archive,
    rows    <- IF transaction THEN image.rows ELSE rows,
    queues  <- IF transaction THEN image.queues ELSE queues

\* All or nothing: a batch, applied operation by operation, is one step that has
\* the effect of every queued request, or it leaves entities, counter, archive,
\* rows and queues exactly as they were.
ImplementsAtomicGate == Promised!Spec
=============================================================================
