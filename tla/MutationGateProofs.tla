------------------------- MODULE MutationGateProofs -------------------------
(***************************************************************************)
(* Proofs about MutationGate, for every value of its constants.            *)
(*                                                                         *)
(* The type invariant, I1 and the identity ledger are not inductive: a     *)
(* rollback copies the image into the world, so the image must satisfy     *)
(* them too, and an operation trusts its request, so queued requests must  *)
(* name registered types.  WorldOK collects what the world and the image   *)
(* have in common, IInv asks it of both.                                   *)
(***************************************************************************)
EXTENDS MutationGate, TLAPS

\* Queued writes name types that have a table.
RegisteredQueues(q) ==
    /\ \A i \in DOMAIN q.spawn, t \in Types :
          q.spawn[i][t] # NoRow => t \in Registered
    /\ \A i \in DOMAIN q.add : q.add[i].type \in Registered

WorldTyped(st, n, ar, rw, v, q) ==
    /\ st \in [Ids -> Lifecycle]
    /\ n \in 1..MaxId + 1
    /\ ar \in SUBSET Ids
    /\ rw \in Rows
    /\ v \in [Types -> Nat]
    /\ q \in Queues
    /\ n + Len(q.spawn) <= MaxId + 1

RowsOK(st, rw) ==
    \A t \in Types, e \in Ids :
        rw[t][e] # NoRow => st[e] \in Present /\ t \in Registered

LedgerOK(st, n, ar) ==
    /\ ar = {e \in Ids : st[e] = "Archived"}
    /\ \A e \in Ids : st[e] = "Unused" <=> e >= n

WorldOK(st, n, ar, rw, v, q) ==
    /\ WorldTyped(st, n, ar, rw, v, q)
    /\ RegisteredQueues(q)
    /\ RowsOK(st, rw)
    /\ LedgerOK(st, n, ar)

ImageOK ==
    /\ image \in Images
    /\ WorldOK(image.state, image.nextId, image.archive, image.rows,
               image.version, image.queues)

Operations == {"none", "spawn", "add_component", "modify_component",
               "remove_component", "destroy_entity"}

IInv ==
    /\ WorldOK(state, nextId, archive, rows, version, queues)
    /\ transaction \in BOOLEAN
    /\ transaction => ImageOK
    /\ delta \in Deltas
    /\ failure \in Operations

-----------------------------------------------------------------------------
(* A queue with one more request at its end, or one less at its front. *)

LEMMA AppendEntries ==
    ASSUME NEW S, NEW s \in Seq(S), NEW x \in S
    PROVE  /\ Append(s, x) \in Seq(S)
           /\ Len(Append(s, x)) = Len(s) + 1
           /\ \A i \in DOMAIN Append(s, x) :
                 (i \in DOMAIN s /\ Append(s, x)[i] = s[i]) \/ Append(s, x)[i] = x
  OBVIOUS

LEMMA TailEntries ==
    ASSUME NEW S, NEW s \in Seq(S), s # << >>
    PROVE  /\ Tail(s) \in Seq(S)
           /\ Len(Tail(s)) = Len(s) - 1
           /\ Len(s) \in Nat /\ Len(s) >= 1
           /\ Head(s) \in S /\ 1 \in DOMAIN s /\ Head(s) = s[1]
           /\ \A i \in DOMAIN Tail(s) : i + 1 \in DOMAIN s /\ Tail(s)[i] = s[i + 1]
  OBVIOUS

-----------------------------------------------------------------------------
(* Types of the values the initial state and a new batch are built from. *)

LEMMA EmptyValues ==
    NoRows \in Rows /\ EmptyQueues \in Queues /\ EmptyDelta \in Deltas
  BY DEF NoRows, Rows, Cells, EmptyQueues, Queues, EmptyDelta, Deltas

\* The initial world is empty, and has no image.
LEMMA InitIInv == Init => IInv
<1> SUFFICES ASSUME Init PROVE IInv
  OBVIOUS
<1>1. WorldTyped(state, nextId, archive, rows, version, queues)
  <2>1. nextId \in 1..MaxId + 1 /\ nextId + Len(queues.spawn) <= MaxId + 1
    BY GateConstants DEF Init, EmptyQueues
  <2> QED
    BY <2>1, EmptyValues DEF Init, WorldTyped, Lifecycle
<1>2. RegisteredQueues(queues)
  BY DEF Init, RegisteredQueues, EmptyQueues
<1>3. RowsOK(state, rows)
  BY DEF Init, RowsOK, NoRows
<1>4. LedgerOK(state, nextId, archive)
  BY DEF Init, LedgerOK, Ids
<1> QED
  BY <1>1, <1>2, <1>3, <1>4, EmptyValues
     DEF IInv, Init, WorldOK, Operations

-----------------------------------------------------------------------------
(* Requests extend one queue, outside any batch. *)

\* A step that touches only the queues, and leaves them well-formed.
LEMMA QueuesStep ==
    ASSUME IInv, UNCHANGED <<store, tables, batch>>, queues' \in Queues,
           nextId + Len(queues'.spawn) <= MaxId + 1, RegisteredQueues(queues')
    PROVE  IInv'
<1> USE DEF store, tables, batch
<1>1. WorldOK(state, nextId, archive, rows, version, queues)'
  BY DEF IInv, WorldOK, WorldTyped, RowsOK, LedgerOK
<1>2. ImageOK' <=> ImageOK
  BY DEF ImageOK
<1> QED
  BY <1>1, <1>2 DEF IInv

LEMMA RequestIInv == IInv /\ Request => IInv'
<1> SUFFICES ASSUME IInv, Request PROVE IInv'
  OBVIOUS
<1> USE DEF Queues
<1>0. /\ queues \in Queues
      /\ nextId \in Nat
      /\ nextId + Len(queues.spawn) <= MaxId + 1
      /\ RegisteredQueues(queues)
  BY DEF IInv, WorldOK, WorldTyped
<1>1. CASE RequestSpawn
  <2> PICK init \in SpawnRequests :
           /\ nextId + Len(queues.spawn) <= MaxId
           /\ ValidateSpawn(init)
           /\ Queue("spawn", init)
    BY <1>1 DEF RequestSpawn
  <2> DEFINE s == queues.spawn
  <2>1. /\ Append(s, init) \in Seq(SpawnRequests)
        /\ Len(Append(s, init)) = Len(s) + 1
        /\ \A i \in DOMAIN Append(s, init) :
              (i \in DOMAIN s /\ Append(s, init)[i] = s[i])
                \/ Append(s, init)[i] = init
    BY <1>0, AppendEntries
  <2>2. /\ queues' = [queues EXCEPT !.spawn = Append(s, init)]
        /\ UNCHANGED <<store, tables, batch>>
    BY DEF Queue
  <2>3. queues' \in Queues
    BY <1>0, <2>1, <2>2
  <2>4. nextId + Len(queues'.spawn) <= MaxId + 1
    BY <1>0, <2>1, <2>2, GateConstants
  <2>5. RegisteredQueues(queues')
    BY <1>0, <2>1, <2>2 DEF RegisteredQueues, ValidateSpawn
  <2> QED
    BY <2>2, <2>3, <2>4, <2>5, QueuesStep
<1>2. CASE RequestAddComponent
  <2> PICK r \in WriteRequests :
           ValidateAddComponent(r.entity, r.type) /\ Queue("add", r)
    BY <1>2 DEF RequestAddComponent
  <2> DEFINE s == queues.add
  <2>1. /\ Append(s, r) \in Seq(WriteRequests)
        /\ \A i \in DOMAIN Append(s, r) :
              (i \in DOMAIN s /\ Append(s, r)[i] = s[i]) \/ Append(s, r)[i] = r
    BY <1>0, AppendEntries
  <2>2. /\ queues' = [queues EXCEPT !.add = Append(s, r)]
        /\ UNCHANGED <<store, tables, batch>>
    BY DEF Queue
  <2>3. queues' \in Queues /\ queues'.spawn = queues.spawn
    BY <1>0, <2>1, <2>2
  <2>4. RegisteredQueues(queues')
    BY <1>0, <2>1, <2>2 DEF RegisteredQueues, ValidateAddComponent
  <2> QED
    BY <1>0, <2>2, <2>3, <2>4, QueuesStep
<1>3. CASE RequestModifyComponent
  <2> PICK r \in WriteRequests : Queue("modify", r)
    BY <1>3 DEF RequestModifyComponent
  <2>1. Append(queues.modify, r) \in Seq(WriteRequests)
    BY <1>0, AppendEntries
  <2>2. /\ queues' = [queues EXCEPT !.modify = Append(queues.modify, r)]
        /\ UNCHANGED <<store, tables, batch>>
    BY DEF Queue
  <2>3. /\ queues' \in Queues
        /\ queues'.spawn = queues.spawn /\ queues'.add = queues.add
    BY <1>0, <2>1, <2>2
  <2> QED
    BY <1>0, <2>2, <2>3, QueuesStep DEF RegisteredQueues
<1>4. CASE RequestRemoveComponent
  <2> PICK r \in RemoveRequests : Queue("remove", r)
    BY <1>4 DEF RequestRemoveComponent
  <2>1. Append(queues.remove, r) \in Seq(RemoveRequests)
    BY <1>0, AppendEntries
  <2>2. /\ queues' = [queues EXCEPT !.remove = Append(queues.remove, r)]
        /\ UNCHANGED <<store, tables, batch>>
    BY DEF Queue
  <2>3. /\ queues' \in Queues
        /\ queues'.spawn = queues.spawn /\ queues'.add = queues.add
    BY <1>0, <2>1, <2>2
  <2> QED
    BY <1>0, <2>2, <2>3, QueuesStep DEF RegisteredQueues
<1>5. CASE RequestDestroy
  <2> PICK e \in DestroyRequests : Queue("destroy", e)
    BY <1>5 DEF RequestDestroy
  <2>1. Append(queues.destroy, e) \in Seq(DestroyRequests)
    BY <1>0, AppendEntries
  <2>2. /\ queues' = [queues EXCEPT !.destroy = Append(queues.destroy, e)]
        /\ UNCHANGED <<store, tables, batch>>
    BY DEF Queue
  <2>3. /\ queues' \in Queues
        /\ queues'.spawn = queues.spawn /\ queues'.add = queues.add
    BY <1>0, <2>1, <2>2
  <2> QED
    BY <1>0, <2>2, <2>3, QueuesStep DEF RegisteredQueues
<1>6. CASE DiscardAll
  <2>1. queues' = EmptyQueues /\ UNCHANGED <<store, tables, batch>>
    BY <1>6 DEF DiscardAll
  <2>2. nextId + Len(queues'.spawn) <= MaxId + 1
    BY <2>1 DEF EmptyQueues, IInv, WorldOK, WorldTyped
  <2>3. RegisteredQueues(queues')
    BY <2>1 DEF EmptyQueues, RegisteredQueues
  <2> QED
    BY <2>1, <2>2, <2>3, EmptyValues, QueuesStep
<1> QED
  BY <1>1, <1>2, <1>3, <1>4, <1>5, <1>6 DEF Request

-----------------------------------------------------------------------------
(* Disabling and enabling keep an entity present. *)

LEMMA ToggleIInv == IInv /\ (DisableEntity \/ EnableEntity) => IInv'
<1> SUFFICES ASSUME IInv, DisableEntity \/ EnableEntity PROVE IInv'
  OBVIOUS
<1>0. PICK e \in Ids, st \in Present :
         /\ state[e] \in Present
         /\ state' = [state EXCEPT ![e] = st]
         /\ UNCHANGED <<nextId, archive, tables, queues, batch>>
  BY DEF DisableEntity, EnableEntity, Present
<1>1. WorldTyped(state, nextId, archive, rows, version, queues)'
  BY <1>0 DEF IInv, WorldOK, WorldTyped, Lifecycle, tables
<1>2. RegisteredQueues(queues)'
  BY <1>0 DEF IInv, WorldOK, RegisteredQueues
<1>3. RowsOK(state, rows)'
  BY <1>0 DEF IInv, WorldOK, WorldTyped, RowsOK, tables
<1>4. LedgerOK(state, nextId, archive)'
  <2>1. \A x \in Ids : (state'[x] = "Unused") <=> (state[x] = "Unused")
    BY <1>0 DEF IInv, WorldOK, WorldTyped, Present
  <2>2. \A x \in Ids : (state'[x] = "Archived") <=> (state[x] = "Archived")
    BY <1>0 DEF IInv, WorldOK, WorldTyped, Present
  <2> QED
    BY <1>0, <2>1, <2>2 DEF IInv, WorldOK, LedgerOK
<1>5. ImageOK' <=> ImageOK
  BY <1>0 DEF ImageOK, batch
<1> QED
  BY <1>0, <1>1, <1>2, <1>3, <1>4, <1>5 DEF IInv, WorldOK, batch

-----------------------------------------------------------------------------
(* The frame of a batch: capture, rollback, commit. *)

LEMMA BeginIInv == IInv /\ BeginBatch => IInv'
<1> SUFFICES ASSUME IInv, BeginBatch PROVE IInv'
  OBVIOUS
<1> USE DEF BeginBatch, store, tables
<1>1. WorldOK(state, nextId, archive, rows, version, queues)'
  BY DEF IInv, WorldOK, WorldTyped, RowsOK, LedgerOK
<1>2. RollbackSnapshot \in Images
  BY DEF RollbackSnapshot, Images, IInv, WorldOK, WorldTyped
<1>3. WorldOK(image'.state, image'.nextId, image'.archive, image'.rows,
              image'.version, image'.queues)
  BY DEF RollbackSnapshot, IInv
<1> QED
  BY <1>1, <1>2, <1>3, EmptyValues DEF IInv, ImageOK

\* What rollback_after_failure restores is the image: the rebuilt archive adds
\* nothing to the one the image carries.
LEMMA RollbackIInv ==
    ASSUME IInv, transaction, NEW op \in Operations, RollbackAfterFailure(op)
    PROVE  IInv'
<1> USE DEF RollbackAfterFailure, RestoreRollbackSnapshot, EndBatch
<1>1. ImageOK
  BY DEF IInv
<1>2. ArchiveRebuilt(image) = image.archive
  BY <1>1 DEF ImageOK, WorldOK, LedgerOK, ArchiveRebuilt
<1>3. WorldOK(state, nextId, archive, rows, version, queues)'
  BY <1>1, <1>2 DEF ImageOK
<1> QED
  BY <1>3, EmptyValues DEF IInv

LEMMA CommitIInv == IInv /\ CommitBatch => IInv'
<1> SUFFICES ASSUME IInv, CommitBatch PROVE IInv'
  OBVIOUS
<1> USE DEF CommitBatch, store, tables, EndBatch
<1>1. WorldOK(state, nextId, archive, rows, version, queues)'
  BY DEF IInv, WorldOK, WorldTyped, RowsOK, LedgerOK
<1> QED
  BY <1>1, EmptyValues DEF IInv, Operations

-----------------------------------------------------------------------------
(* The operations of a batch. *)

\* An operation that succeeds leaves the image as it is.
LEMMA OperationIInv ==
    ASSUME IInv, UNCHANGED <<transaction, image, failure>>, delta' \in Deltas,
           WorldOK(state, nextId, archive, rows, version, queues)'
    PROVE  IInv'
<1>1. ImageOK' <=> ImageOK
  BY DEF ImageOK
<1> QED
  BY <1>1 DEF IInv

LEMMA SpawnIInv == IInv /\ ApplySpawn => IInv'
<1> SUFFICES ASSUME IInv, ApplySpawn PROVE IInv'
  OBVIOUS
<1> DEFINE init == Head(queues.spawn)
<1>0. /\ transaction /\ queues.spawn # << >>
      /\ queues \in Queues /\ RegisteredQueues(queues)
      /\ nextId \in 1..MaxId + 1 /\ nextId + Len(queues.spawn) <= MaxId + 1
  BY DEF ApplySpawn, IInv, WorldOK, WorldTyped
<1>a. /\ Tail(queues.spawn) \in Seq(SpawnRequests)
      /\ Len(Tail(queues.spawn)) = Len(queues.spawn) - 1
      /\ Len(queues.spawn) \in Nat /\ Len(queues.spawn) >= 1
      /\ init \in SpawnRequests /\ 1 \in DOMAIN queues.spawn
      /\ init = queues.spawn[1]
      /\ \A i \in DOMAIN Tail(queues.spawn) :
            /\ i + 1 \in DOMAIN queues.spawn
            /\ Tail(queues.spawn)[i] = queues.spawn[i + 1]
  <2> HIDE DEF init
  <2>1. queues.spawn \in Seq(SpawnRequests)
    BY <1>0 DEF Queues
  <2> QED
    BY <1>0, <2>1, TailEntries DEF init
<1>b. \A t \in Types : init[t] # NoRow => t \in Registered
  BY <1>0, <1>a DEF RegisteredQueues
<1> HIDE DEF init
<1>1. CASE RollbackAfterFailure("spawn")
  BY <1>0, <1>1, RollbackIInv DEF Operations
<1>2. CASE ~RollbackAfterFailure("spawn")
  <2>0. /\ state' = [state EXCEPT ![nextId] = "Active"]
        /\ nextId' = nextId + 1
        /\ rows' = [t \in Types |-> [rows[t] EXCEPT ![nextId] =
                       IF init[t] = NoRow THEN @ ELSE init[t]]]
        /\ version' = [t \in Types |-> IF init[t] = NoRow THEN version[t]
                                       ELSE version[t] + 1]
        /\ delta' = [delta EXCEPT !.spawned = @ \cup {nextId},
                                  !.initial = [t \in Types |->
                                      [@[t] EXCEPT ![nextId] = init[t]]]]
        /\ queues' = [queues EXCEPT !.spawn = Tail(queues.spawn)]
        /\ UNCHANGED <<transaction, image, failure>>
        /\ archive' = archive
    BY <1>2 DEF ApplySpawn, Drain, init
  <2>1. nextId \in Ids
    BY <1>0, <1>a, GateConstants DEF Ids
  <2>2. WorldTyped(state, nextId, archive, rows, version, queues)'
    <3>1. rows' \in Rows
      BY <2>0, <2>1, <1>a DEF IInv, WorldOK, WorldTyped, Rows, Cells, SpawnRequests
    <3>2. version' \in [Types -> Nat]
      BY <2>0 DEF IInv, WorldOK, WorldTyped
    <3>3. queues' \in Queues /\ queues'.spawn = Tail(queues.spawn)
      BY <2>0, <1>0, <1>a DEF Queues
    <3>4. state' \in [Ids -> Lifecycle] /\ archive' \in SUBSET Ids
      BY <2>0 DEF IInv, WorldOK, WorldTyped, Lifecycle, Present
    <3>5. nextId' \in 1..MaxId + 1 /\ nextId' + Len(queues'.spawn) <= MaxId + 1
      BY <2>0, <2>1, <3>3, <1>0, <1>a, GateConstants DEF Ids
    <3> QED
      BY <3>1, <3>2, <3>3, <3>4, <3>5 DEF WorldTyped
  <2>3. RegisteredQueues(queues)'
    BY <2>0, <1>0, <1>a DEF RegisteredQueues, Queues
  <2>4. RowsOK(state, rows)'
    BY <2>0, <2>1, <1>b DEF IInv, WorldOK, WorldTyped, RowsOK, Rows, Present
  <2>5. LedgerOK(state, nextId, archive)'
    <3>1. state[nextId] = "Unused"
      BY <2>1 DEF IInv, WorldOK, LedgerOK, Ids
    <3> QED
      BY <2>0, <2>1, <3>1 DEF IInv, WorldOK, WorldTyped, LedgerOK, Ids
  <2>6. delta' \in Deltas
    BY <2>0, <2>1, <1>a DEF IInv, Deltas, Rows, SpawnRequests
  <2> QED
    BY <2>0, <2>2, <2>3, <2>4, <2>5, <2>6, OperationIInv DEF WorldOK
<1> QED
  BY <1>1, <1>2

\* Adds, modifications and removals write one cell.
LEMMA WriteIInv ==
    ASSUME IInv, NEW e \in Ids, NEW t \in Types, NEW cell \in Cells,
           cell # NoRow => state[e] \in Present /\ t \in Registered,
           WriteRow(e, t, cell),
           queues' \in Queues, queues'.spawn = queues.spawn,
           RegisteredQueues(queues'), delta' \in Deltas,
           UNCHANGED <<store, transaction, image, failure>>
    PROVE  IInv'
<1>1. WorldTyped(state, nextId, archive, rows, version, queues)'
  <2>1. rows' \in Rows /\ version' \in [Types -> Nat]
    BY DEF WriteRow, IInv, WorldOK, WorldTyped, Rows
  <2> QED
    BY <2>1 DEF IInv, WorldOK, WorldTyped, store
<1>2. RowsOK(state, rows)'
  BY DEF WriteRow, IInv, WorldOK, WorldTyped, RowsOK, Rows, store
<1>3. LedgerOK(state, nextId, archive)'
  BY DEF IInv, WorldOK, LedgerOK, store
<1> QED
  BY <1>1, <1>2, <1>3, OperationIInv DEF WorldOK

LEMMA AddIInv == IInv /\ ApplyAdd => IInv'
<1> SUFFICES ASSUME IInv, ApplyAdd PROVE IInv'
  OBVIOUS
<1> DEFINE r == Head(queues.add)
<1>0. /\ transaction /\ queues.add # << >>
      /\ queues \in Queues /\ RegisteredQueues(queues)
  BY DEF ApplyAdd, IInv, WorldOK, WorldTyped
<1>1. /\ Tail(queues.add) \in Seq(WriteRequests)
      /\ r \in WriteRequests /\ 1 \in DOMAIN queues.add
      /\ r = queues.add[1]
      /\ \A i \in DOMAIN Tail(queues.add) :
            /\ i + 1 \in DOMAIN queues.add
            /\ Tail(queues.add)[i] = queues.add[i + 1]
  <2>1. queues.add \in Seq(WriteRequests)
    BY <1>0 DEF Queues
  <2> HIDE DEF r
  <2> QED
    BY <1>0, <2>1, TailEntries DEF r
<1>2. r.type \in Registered
  BY <1>0, <1>1 DEF RegisteredQueues
<1> HIDE DEF r
<1>3. CASE ~CanAdd(r) /\ RollbackAfterFailure("add_component")
  BY <1>0, <1>3, RollbackIInv DEF Operations
<1>4. CASE /\ CanAdd(r)
           /\ WriteRow(r.entity, r.type, r.payload)
           /\ delta' = [delta EXCEPT !.added[r.type][r.entity] = r.payload]
           /\ Drain("add")
           /\ UNCHANGED store
  <2>1. queues' \in Queues /\ queues'.spawn = queues.spawn
    BY <1>0, <1>1, <1>4 DEF Queues, Drain
  <2>2. RegisteredQueues(queues')
    BY <1>0, <1>1, <1>4 DEF RegisteredQueues, Queues, Drain
  <2>3. delta' \in Deltas
    BY <1>1, <1>4 DEF IInv, Deltas, Rows, Cells, WriteRequests
  <2> QED
    BY <1>1, <1>2, <1>4, <2>1, <2>2, <2>3, WriteIInv
       DEF CanAdd, EntityExists, Cells, WriteRequests, Drain
<1> QED
  BY <1>3, <1>4 DEF ApplyAdd, r

LEMMA ModifyIInv == IInv /\ ApplyModify => IInv'
<1> SUFFICES ASSUME IInv, ApplyModify PROVE IInv'
  OBVIOUS
<1> DEFINE r == Head(queues.modify)
<1>0. /\ transaction /\ queues.modify # << >>
      /\ queues \in Queues /\ RegisteredQueues(queues)
  BY DEF ApplyModify, IInv, WorldOK, WorldTyped
<1>1. Tail(queues.modify) \in Seq(WriteRequests) /\ r \in WriteRequests
  BY <1>0 DEF Queues
<1> HIDE DEF r
<1>3. CASE ~CanModify(r) /\ RollbackAfterFailure("modify_component")
  BY <1>0, <1>3, RollbackIInv DEF Operations
<1>4. CASE /\ CanModify(r)
           /\ WriteRow(r.entity, r.type, r.payload)
           /\ delta' = RecordComponentUpdate(delta, r)
           /\ Drain("modify")
           /\ UNCHANGED store
  <2>1. queues' \in Queues /\ queues'.spawn = queues.spawn
        /\ queues'.add = queues.add
    BY <1>0, <1>1, <1>4 DEF Queues, Drain
  <2>2. delta' \in Deltas
    BY <1>1, <1>4
       DEF IInv, Deltas, Rows, Cells, WriteRequests, RecordComponentUpdate
  <2>3. r.type \in Registered
    BY <1>1, <1>4
       DEF CanModify, HasComponent, IInv, WorldOK, RowsOK, WriteRequests
  <2> QED
    BY <1>0, <1>1, <1>4, <2>1, <2>2, <2>3, WriteIInv
       DEF CanModify, EntityExists, Cells, WriteRequests, Drain, RegisteredQueues
<1> QED
  BY <1>3, <1>4 DEF ApplyModify, r

LEMMA RemoveIInv == IInv /\ ApplyRemove => IInv'
<1> SUFFICES ASSUME IInv, ApplyRemove PROVE IInv'
  OBVIOUS
<1> DEFINE r == Head(queues.remove)
<1>0. /\ transaction /\ queues.remove # << >>
      /\ queues \in Queues /\ RegisteredQueues(queues)
  BY DEF ApplyRemove, IInv, WorldOK, WorldTyped
<1>1. Tail(queues.remove) \in Seq(RemoveRequests) /\ r \in RemoveRequests
  BY <1>0 DEF Queues
<1> HIDE DEF r
<1>3. CASE ~CanRemove(r) /\ RollbackAfterFailure("remove_component")
  BY <1>0, <1>3, RollbackIInv DEF Operations
<1>4. CASE /\ CanRemove(r)
           /\ WriteRow(r.entity, r.type, NoRow)
           /\ delta' = [delta EXCEPT !.removed = @ \cup {<<r.type, r.entity>>}]
           /\ Drain("remove")
           /\ UNCHANGED store
  <2>1. queues' \in Queues /\ queues'.spawn = queues.spawn
        /\ queues'.add = queues.add
    BY <1>0, <1>1, <1>4 DEF Queues, Drain
  <2>2. delta' \in Deltas
    BY <1>1, <1>4 DEF IInv, Deltas, RemoveRequests
  <2> QED
    BY <1>0, <1>1, <1>4, <2>1, <2>2, WriteIInv
       DEF Cells, RemoveRequests, Drain, RegisteredQueues
<1> QED
  BY <1>3, <1>4 DEF ApplyRemove, r

LEMMA DestroyIInv == IInv /\ ApplyDestroy => IInv'
<1> SUFFICES ASSUME IInv, ApplyDestroy PROVE IInv'
  OBVIOUS
<1> DEFINE e == Head(queues.destroy)
<1>0. /\ transaction /\ queues.destroy # << >>
      /\ queues \in Queues /\ RegisteredQueues(queues)
  BY DEF ApplyDestroy, IInv, WorldOK, WorldTyped
<1>1. Tail(queues.destroy) \in Seq(DestroyRequests) /\ e \in Ids
  BY <1>0 DEF Queues, DestroyRequests
<1> HIDE DEF e
<1>3. CASE ~EntityExists(e) /\ RollbackAfterFailure("destroy_entity")
  BY <1>0, <1>3, RollbackIInv DEF Operations
<1>4. CASE /\ EntityExists(e)
           /\ RemoveAllForEntity(e)
           /\ state' = [state EXCEPT ![e] = "Archived"]
           /\ archive' = archive \cup {e}
           /\ delta' = [delta EXCEPT !.destroyed = @ \cup {e}]
           /\ Drain("destroy")
           /\ UNCHANGED nextId
  <2>1. /\ queues' \in Queues
        /\ queues'.spawn = queues.spawn /\ queues'.add = queues.add
    BY <1>0, <1>1, <1>4 DEF Queues, Drain
  <2>2. delta' \in Deltas
    BY <1>1, <1>4 DEF IInv, Deltas
  <2>3. WorldTyped(state, nextId, archive, rows, version, queues)'
    <3>1. rows' \in Rows /\ version' \in [Types -> Nat]
      BY <1>1, <1>4
         DEF RemoveAllForEntity, IInv, WorldOK, WorldTyped, Rows, Cells
    <3>2. state' \in [Ids -> Lifecycle] /\ archive' \in SUBSET Ids
      BY <1>1, <1>4 DEF IInv, WorldOK, WorldTyped, Lifecycle
    <3> QED
      BY <1>4, <2>1, <3>1, <3>2 DEF IInv, WorldOK, WorldTyped
  <2>4. RowsOK(state, rows)'
    BY <1>1, <1>4
       DEF RemoveAllForEntity, IInv, WorldOK, WorldTyped, RowsOK, Rows
  <2>5. LedgerOK(state, nextId, archive)'
    <3>1. state[e] # "Unused"
      BY <1>4 DEF EntityExists, Present
    <3> QED
      BY <1>1, <1>4, <3>1 DEF IInv, WorldOK, WorldTyped, LedgerOK
  <2>6. RegisteredQueues(queues')
    BY <1>0, <2>1 DEF RegisteredQueues
  <2> QED
    BY <1>4, <2>2, <2>3, <2>4, <2>5, <2>6, OperationIInv DEF WorldOK, Drain
<1> QED
  BY <1>3, <1>4 DEF ApplyDestroy, e

-----------------------------------------------------------------------------
(* The theorems. *)

LEMMA StepIInv == IInv /\ [Next]_vars => IInv'
<1> SUFFICES ASSUME IInv, [Next]_vars PROVE IInv'
  OBVIOUS
<1>1. CASE Request
  BY <1>1, RequestIInv
<1>2. CASE DisableEntity \/ EnableEntity
  BY <1>2, ToggleIInv
<1>3. CASE Apply
  BY <1>3, BeginIInv, SpawnIInv, AddIInv, ModifyIInv, RemoveIInv, DestroyIInv,
     CommitIInv DEF Apply
<1>4. CASE UNCHANGED vars
  BY <1>4 DEF vars, store, tables, batch, IInv, ImageOK, WorldOK, WorldTyped,
     RowsOK, LedgerOK, RegisteredQueues
<1> QED
  BY <1>1, <1>2, <1>3, <1>4 DEF Next

\* The inductive invariant, for every number of ids, types and payloads.
THEOREM Inductive == Spec => []IInv
  BY InitIInv, StepIInv, PTL DEF Spec

\* Type correctness of the gate's state, with room left for queued spawns.
THEOREM TypeCorrect == Spec => []TypeOK
<1>1. IInv => TypeOK
  BY DEF IInv, TypeOK, WorldOK, WorldTyped, ImageOK, Operations
<1> QED
  BY <1>1, Inductive, PTL

\* I1: between any two operations of any batch, committed or rolled back, rows
\* belong to present entities and registered types.
THEOREM RowsNeverOrphaned == Spec => []RowsOfPresentEntities
<1>1. IInv => RowsOfPresentEntities
  BY DEF IInv, WorldOK, RowsOK, RowsOfPresentEntities
<1> QED
  BY <1>1, Inductive, PTL

\* D2: archive, lifecycle records and id counter always agree, so no spawn is
\* ever given an id that was used before.
THEOREM IdentityPermanent == Spec => []IdentityLedger
<1>1. IInv => IdentityLedger
  BY DEF IInv, WorldOK, LedgerOK, IdentityLedger
<1> QED
  BY <1>1, Inductive, PTL
=============================================================================
