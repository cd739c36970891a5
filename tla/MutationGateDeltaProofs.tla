----------------------- MODULE MutationGateDeltaProofs ----------------------
(***************************************************************************)
(* The delta of a batch, replayed in D4 order on the world before the      *)
(* batch, gives the world after every operation.  The delta keeps no order *)
(* between its lists; what makes the replay right is that the gate works   *)
(* queue by queue, so that while one list grows the lists replayed after   *)
(* it are still empty (Staged).                                            *)
(***************************************************************************)
EXTENDS MutationGateProofs

Staged ==
    /\ queues.spawn # << >> => delta.added = NoRows
    /\ queues.spawn # << >> \/ queues.add # << >> => delta.updated = NoRows
    /\ queues.spawn # << >> \/ queues.add # << >> \/ queues.modify # << >>
          => delta.removed = {}
    /\ queues.spawn # << >> \/ queues.add # << >> \/ queues.modify # << >>
          \/ queues.remove # << >>
          => delta.destroyed = {}

Replayed ==
    /\ ReplayedPresent(delta) = {e \in Ids : state[e] \in Present}
    /\ \A t \in Types, e \in Ids : ReplayedCell(delta, t, e) = rows[t][e]

DInv == transaction => Staged /\ Replayed

\* The definition of ReplayedCell by cases, as the proofs use it.
LEMMA CellByCases ==
    ASSUME NEW d, NEW t \in Types, NEW e \in Ids
    PROVE  /\ e \in d.destroyed \/ <<t, e>> \in d.removed
                => ReplayedCell(d, t, e) = NoRow
           /\ ~(e \in d.destroyed \/ <<t, e>> \in d.removed)
                => ReplayedCell(d, t, e) =
                     IF d.updated[t][e] # NoRow THEN d.updated[t][e]
                     ELSE IF d.added[t][e] # NoRow THEN d.added[t][e]
                     ELSE IF d.initial[t][e] # NoRow THEN d.initial[t][e]
                     ELSE image.rows[t][e]
  BY DEF ReplayedCell

\* The facts every operation starts from.
Operating ==
    /\ transaction /\ Staged /\ Replayed
    /\ state \in [Ids -> Lifecycle] /\ rows \in Rows
    /\ queues \in Queues /\ delta \in Deltas

LEMMA Operate == IInv /\ DInv /\ transaction => Operating
  BY DEF IInv, DInv, Operating, WorldOK, WorldTyped

LEMMA BeginDInv == IInv /\ BeginBatch => DInv'
<1> SUFFICES ASSUME IInv, BeginBatch PROVE Staged' /\ Replayed'
  BY DEF DInv
<1>0. /\ image' = RollbackSnapshot /\ delta' = EmptyDelta
      /\ UNCHANGED <<state, rows, queues>>
  BY DEF BeginBatch, store, tables
<1>1. Staged'
  BY <1>0 DEF Staged, EmptyDelta
<1>2. ReplayedPresent(delta)' = {e \in Ids : state'[e] \in Present}
  BY <1>0 DEF ReplayedPresent, EmptyDelta, RollbackSnapshot
<1>3. ASSUME NEW t \in Types, NEW e \in Ids
      PROVE  ReplayedCell(delta, t, e)' = rows'[t][e]
  BY <1>0 DEF ReplayedCell, EmptyDelta, RollbackSnapshot, NoRows
<1> QED
  BY <1>1, <1>2, <1>3 DEF Replayed

LEMMA SpawnDInv == IInv /\ DInv /\ ApplySpawn /\ transaction' => DInv'
<1> SUFFICES ASSUME IInv, DInv, ApplySpawn, transaction' PROVE Staged' /\ Replayed'
  BY DEF DInv
<1> DEFINE init == Head(queues.spawn)
<1>0. Operating /\ queues.spawn # << >>
  BY Operate DEF ApplySpawn
<1>1. init \in SpawnRequests /\ Tail(queues.spawn) \in Seq(SpawnRequests)
  BY <1>0 DEF Operating, Queues
<1> HIDE DEF init
<1>2. /\ state' = [state EXCEPT ![nextId] = "Active"]
      /\ rows' = [t \in Types |-> [rows[t] EXCEPT ![nextId] =
                     IF init[t] = NoRow THEN @ ELSE init[t]]]
      /\ delta' = [delta EXCEPT !.spawned = @ \cup {nextId},
                                !.initial = [t \in Types |->
                                    [@[t] EXCEPT ![nextId] = init[t]]]]
      /\ queues' = [queues EXCEPT !.spawn = Tail(queues.spawn)]
      /\ image' = image
  BY DEF ApplySpawn, RollbackAfterFailure, EndBatch, Drain, init
<1>3. /\ delta.added = NoRows /\ delta.updated = NoRows
      /\ delta.removed = {} /\ delta.destroyed = {}
  BY <1>0 DEF Operating, Staged
<1>4. nextId \in Ids /\ state[nextId] = "Unused"
  <2>1. nextId \in 1..MaxId + 1 /\ nextId + Len(queues.spawn) <= MaxId + 1
    BY DEF IInv, WorldOK, WorldTyped
  <2>2. Len(queues.spawn) \in Nat /\ Len(queues.spawn) >= 1
    BY <1>0, TailEntries DEF Operating, Queues
  <2>3. nextId \in Ids
    BY <2>1, <2>2, GateConstants DEF Ids
  <2> QED
    BY <2>3 DEF IInv, WorldOK, LedgerOK, Ids
<1>5. delta'.added = NoRows /\ delta'.updated = NoRows
      /\ delta'.removed = {} /\ delta'.destroyed = {}
      /\ delta'.spawned = delta.spawned \cup {nextId}
      /\ delta'.initial = [t \in Types |->
                             [delta.initial[t] EXCEPT ![nextId] = init[t]]]
  BY <1>0, <1>2, <1>3 DEF Operating, Deltas
<1>6. Staged'
  BY <1>5 DEF Staged
<1>7. ReplayedPresent(delta)' = {e \in Ids : state'[e] \in Present}
  BY <1>0, <1>2, <1>3, <1>4, <1>5
     DEF Operating, Replayed, ReplayedPresent, Present
<1>8. ASSUME NEW t \in Types, NEW e \in Ids
      PROVE  ReplayedCell(delta, t, e)' = rows'[t][e]
  <2>1. ReplayedCell(delta, t, e) = IF delta.initial[t][e] # NoRow
                                    THEN delta.initial[t][e]
                                    ELSE image.rows[t][e]
    BY <1>3 DEF ReplayedCell, NoRows
  <2>2. ReplayedCell(delta, t, e)' = IF delta'.initial[t][e] # NoRow
                                     THEN delta'.initial[t][e]
                                     ELSE image.rows[t][e]
    BY <1>5, <1>2 DEF ReplayedCell, NoRows
  <2>3. ReplayedCell(delta, t, e) = rows[t][e]
    BY <1>0 DEF Operating, Replayed
  <2>4. delta.initial \in Rows
    BY <1>0 DEF Operating, Deltas
  <2>5. CASE e # nextId
    BY <1>0, <1>2, <1>4, <1>5, <2>1, <2>2, <2>3, <2>4, <2>5 DEF Operating, Rows
  <2>6. CASE e = nextId
    <3>1. rows[t][e] = NoRow
      BY <1>4, <2>6 DEF IInv, WorldOK, RowsOK, Present
    <3>2. image.rows[t][e] = NoRow
      BY <2>1, <2>3, <3>1
    <3> QED
      BY <1>0, <1>1, <1>2, <1>4, <1>5, <2>2, <2>4, <2>6, <3>1, <3>2
         DEF Operating, Rows, SpawnRequests
  <2> QED
    BY <2>5, <2>6
<1> QED
  BY <1>6, <1>7, <1>8 DEF Replayed

\* One cell written, one list of the delta extended: the replay of every other
\* cell and the entities stay as they are.
LEMMA CellDInv ==
    ASSUME Operating, NEW e \in Ids, NEW t \in Types, NEW cell \in Cells,
           WriteRow(e, t, cell), state' = state,
           ReplayedPresent(delta)' = ReplayedPresent(delta),
           ReplayedCell(delta, t, e)' = cell,
           \A u \in Types, x \in Ids : u # t \/ x # e =>
               ReplayedCell(delta, u, x)' = ReplayedCell(delta, u, x)
    PROVE  Replayed'
<1>1. ASSUME NEW u \in Types, NEW x \in Ids
      PROVE  ReplayedCell(delta, u, x)' = rows'[u][x]
  <2>1. CASE u = t /\ x = e
    BY <2>1 DEF WriteRow, Operating, Rows
  <2>2. CASE u # t \/ x # e
    BY <2>2 DEF WriteRow, Operating, Rows, Replayed
  <2> QED
    BY <2>1, <2>2
<1> QED
  BY <1>1 DEF Operating, Replayed

LEMMA AddDInv == IInv /\ DInv /\ ApplyAdd /\ transaction' => DInv'
<1> SUFFICES ASSUME IInv, DInv, ApplyAdd, transaction' PROVE Staged' /\ Replayed'
  BY DEF DInv
<1>0. Operating /\ queues.add # << >> /\ queues.spawn = << >>
  BY Operate DEF ApplyAdd
<1>r. PICK r \in WriteRequests : r = Head(queues.add)
  BY <1>0 DEF Operating, Queues
<1>1. r.entity \in Ids /\ r.type \in Types /\ r.payload \in Payloads
  BY <1>r DEF WriteRequests
<1>2. /\ WriteRow(r.entity, r.type, r.payload)
      /\ delta' = [delta EXCEPT !.added[r.type][r.entity] = r.payload]
      /\ queues' = [queues EXCEPT !.add = Tail(queues.add)]
      /\ state' = state /\ image' = image
  BY <1>r DEF ApplyAdd, RollbackAfterFailure, EndBatch, Drain, store
<1>3. delta.updated = NoRows /\ delta.removed = {} /\ delta.destroyed = {}
  BY <1>0 DEF Operating, Staged
<1>4. /\ delta'.updated = NoRows /\ delta'.removed = {} /\ delta'.destroyed = {}
      /\ delta'.spawned = delta.spawned /\ delta'.initial = delta.initial
      /\ delta'.added = [delta.added EXCEPT ![r.type][r.entity] = r.payload]
  BY <1>0, <1>2, <1>3 DEF Operating, Deltas
<1>5. Staged'
  BY <1>0, <1>2, <1>4 DEF Staged, Operating, Queues
<1>6. ReplayedPresent(delta)' = ReplayedPresent(delta)
  BY <1>2, <1>3, <1>4 DEF ReplayedPresent
<1>7. delta.added \in Rows /\ r.payload # NoRow
  BY <1>0, <1>1, GateConstants DEF Operating, Deltas
<1>8. ReplayedCell(delta, r.type, r.entity)' = r.payload
  BY <1>1, <1>4, <1>7 DEF ReplayedCell, NoRows, Rows
<1>9. ASSUME NEW u \in Types, NEW x \in Ids, u # r.type \/ x # r.entity
      PROVE  ReplayedCell(delta, u, x)' = ReplayedCell(delta, u, x)
  BY <1>1, <1>2, <1>3, <1>4, <1>7, <1>9 DEF ReplayedCell, NoRows, Rows
<1> QED
  BY <1>0, <1>1, <1>2, <1>5, <1>6, <1>8, <1>9, CellDInv DEF Cells

LEMMA ModifyDInv == IInv /\ DInv /\ ApplyModify /\ transaction' => DInv'
<1> SUFFICES ASSUME IInv, DInv, ApplyModify, transaction'
             PROVE  Staged' /\ Replayed'
  BY DEF DInv
<1>0. /\ Operating /\ queues.modify # << >>
      /\ queues.spawn = << >> /\ queues.add = << >>
  BY Operate DEF ApplyModify
<1>r. PICK r \in WriteRequests : r = Head(queues.modify)
  BY <1>0 DEF Operating, Queues
<1>1. r.entity \in Ids /\ r.type \in Types /\ r.payload \in Payloads
  BY <1>r DEF WriteRequests
<1>2. /\ WriteRow(r.entity, r.type, r.payload)
      /\ delta' = [delta EXCEPT !.updated[r.type][r.entity] = r.payload]
      /\ queues' = [queues EXCEPT !.modify = Tail(queues.modify)]
      /\ state' = state /\ image' = image
  BY <1>r DEF ApplyModify, RollbackAfterFailure, EndBatch, Drain, store,
     RecordComponentUpdate
<1>3. delta.removed = {} /\ delta.destroyed = {}
  BY <1>0 DEF Operating, Staged
<1>4. /\ delta'.removed = {} /\ delta'.destroyed = {}
      /\ delta'.spawned = delta.spawned /\ delta'.initial = delta.initial
      /\ delta'.added = delta.added
      /\ delta'.updated = [delta.updated EXCEPT ![r.type][r.entity] = r.payload]
  BY <1>0, <1>2, <1>3 DEF Operating, Deltas
<1>5. Staged'
  BY <1>0, <1>2, <1>4 DEF Staged, Operating, Queues
<1>6. ReplayedPresent(delta)' = ReplayedPresent(delta)
  BY <1>2, <1>3, <1>4 DEF ReplayedPresent
<1>7. delta.updated \in Rows /\ r.payload # NoRow
  BY <1>0, <1>1, GateConstants DEF Operating, Deltas
<1>8. ReplayedCell(delta, r.type, r.entity)' = r.payload
  BY <1>1, <1>4, <1>7 DEF ReplayedCell, Rows
<1>9. ASSUME NEW u \in Types, NEW x \in Ids, u # r.type \/ x # r.entity
      PROVE  ReplayedCell(delta, u, x)' = ReplayedCell(delta, u, x)
  BY <1>1, <1>2, <1>3, <1>4, <1>7, <1>9 DEF ReplayedCell, Rows
<1> QED
  BY <1>0, <1>1, <1>2, <1>5, <1>6, <1>8, <1>9, CellDInv DEF Cells

LEMMA RemoveDInv == IInv /\ DInv /\ ApplyRemove /\ transaction' => DInv'
<1> SUFFICES ASSUME IInv, DInv, ApplyRemove, transaction'
             PROVE  Staged' /\ Replayed'
  BY DEF DInv
<1>0. /\ Operating /\ queues.remove # << >>
      /\ queues.spawn = << >> /\ queues.add = << >> /\ queues.modify = << >>
  BY Operate DEF ApplyRemove
<1>r. PICK r \in RemoveRequests : r = Head(queues.remove)
  BY <1>0 DEF Operating, Queues
<1>1. r.entity \in Ids /\ r.type \in Types
  BY <1>r DEF RemoveRequests
<1>2. /\ WriteRow(r.entity, r.type, NoRow)
      /\ delta' = [delta EXCEPT !.removed = @ \cup {<<r.type, r.entity>>}]
      /\ queues' = [queues EXCEPT !.remove = Tail(queues.remove)]
      /\ state' = state /\ image' = image
  BY <1>r DEF ApplyRemove, RollbackAfterFailure, EndBatch, Drain, store
<1>3. delta.destroyed = {}
  BY <1>0 DEF Operating, Staged
<1>4. /\ delta'.destroyed = {}
      /\ delta'.removed = delta.removed \cup {<<r.type, r.entity>>}
      /\ delta'.spawned = delta.spawned /\ delta'.initial = delta.initial
      /\ delta'.added = delta.added /\ delta'.updated = delta.updated
  BY <1>0, <1>2, <1>3 DEF Operating, Deltas
<1>5. Staged'
  BY <1>0, <1>2, <1>4 DEF Staged, Operating, Queues
<1>6. ReplayedPresent(delta)' = ReplayedPresent(delta)
  BY <1>2, <1>3, <1>4 DEF ReplayedPresent
<1>8. ReplayedCell(delta, r.type, r.entity)' = NoRow
  BY <1>1, <1>4 DEF ReplayedCell
<1>9. ASSUME NEW u \in Types, NEW x \in Ids, u # r.type \/ x # r.entity
      PROVE  ReplayedCell(delta, u, x)' = ReplayedCell(delta, u, x)
  BY <1>1, <1>2, <1>3, <1>4, <1>9 DEF ReplayedCell
<1> QED
  BY <1>0, <1>1, <1>2, <1>5, <1>6, <1>8, <1>9, CellDInv DEF Cells

LEMMA DestroyDInv == IInv /\ DInv /\ ApplyDestroy /\ transaction' => DInv'
<1> SUFFICES ASSUME IInv, DInv, ApplyDestroy, transaction'
             PROVE  Staged' /\ Replayed'
  BY DEF DInv
<1>0. /\ Operating /\ queues.destroy # << >>
      /\ queues.spawn = << >> /\ queues.add = << >> /\ queues.modify = << >>
      /\ queues.remove = << >>
  BY Operate DEF ApplyDestroy
<1>1. PICK e \in Ids : e = Head(queues.destroy)
  BY <1>0 DEF Operating, Queues, DestroyRequests
<1>2. /\ rows' = [t \in Types |-> [rows[t] EXCEPT ![e] = NoRow]]
      /\ state' = [state EXCEPT ![e] = "Archived"]
      /\ delta' = [delta EXCEPT !.destroyed = @ \cup {e}]
      /\ queues' = [queues EXCEPT !.destroy = Tail(queues.destroy)]
      /\ image' = image
  BY <1>1 DEF ApplyDestroy, RollbackAfterFailure, EndBatch, Drain,
     RemoveAllForEntity
<1>3. /\ delta'.destroyed = delta.destroyed \cup {e}
      /\ delta'.removed = delta.removed
      /\ delta'.spawned = delta.spawned /\ delta'.initial = delta.initial
      /\ delta'.added = delta.added /\ delta'.updated = delta.updated
  BY <1>0, <1>2 DEF Operating, Deltas
<1>4. Staged'
  BY <1>0, <1>2, <1>3 DEF Staged, Operating, Queues
<1>5. ReplayedPresent(delta)' = {x \in Ids : state'[x] \in Present}
  BY <1>0, <1>1, <1>2, <1>3
     DEF Operating, Replayed, ReplayedPresent, Present
<1>6. ASSUME NEW t \in Types, NEW x \in Ids
      PROVE  ReplayedCell(delta, t, x)' = rows'[t][x]
  <2>1. CASE x = e
    BY <1>0, <1>1, <1>2, <1>3, <2>1 DEF ReplayedCell, Operating, Rows
  <2>2. CASE x # e
    <3>1. ReplayedCell(delta, t, x)' = ReplayedCell(delta, t, x)
      BY <1>1, <1>2, <1>3, <2>2 DEF ReplayedCell
    <3> QED
      BY <1>0, <1>1, <1>2, <2>2, <3>1 DEF Operating, Rows, Replayed
  <2> QED
    BY <2>1, <2>2
<1> QED
  BY <1>4, <1>5, <1>6 DEF Replayed

-----------------------------------------------------------------------------

LEMMA StepDInv == IInv /\ DInv /\ [Next]_vars => DInv'
<1> SUFFICES ASSUME IInv, DInv, [Next]_vars, transaction' PROVE DInv'
  BY DEF DInv
<1>1. CASE Request \/ DisableEntity \/ EnableEntity
  BY <1>1 DEF Request, RequestSpawn, RequestAddComponent, RequestModifyComponent,
     RequestRemoveComponent, RequestDestroy, DiscardAll, DisableEntity,
     EnableEntity, Accepting, Queue, batch
<1>2. CASE Apply
  BY <1>2, BeginDInv, SpawnDInv, AddDInv, ModifyDInv, RemoveDInv, DestroyDInv
     DEF Apply, CommitBatch, EndBatch
<1>3. CASE UNCHANGED vars
  BY <1>3 DEF vars, store, tables, batch, DInv, Staged, Replayed,
     ReplayedPresent, ReplayedCell
<1> QED
  BY <1>1, <1>2, <1>3 DEF Next

\* The delta is exact: at every operation of every batch, whatever the numbers
\* of entities, types and requests, a replica that applies it in D4 order to
\* the world before the batch holds the entities and the rows of the gate.
THEOREM DeltaExact == Spec => []DeltaReplaysBatch
<1>1. Init => DInv
  BY DEF Init, DInv
<1>2. DInv => DeltaReplaysBatch
  BY DEF DInv, Replayed, DeltaReplaysBatch
<1> QED
  BY <1>1, <1>2, Inductive, StepDInv, PTL DEF Spec
=============================================================================
