--------------------- MODULE MutationGateConflictProofs ---------------------
(***************************************************************************)
(* A batch fails only if its queues conflict.  Requests are validated one  *)
(* by one against the world before the batch; the proof shows that what    *)
(* validation established (Valid) survives every request, every toggle and *)
(* every operation of a batch whose queues have no conflict.               *)
(***************************************************************************)
EXTENDS MutationGateProofs

Valid(st, rw, q) ==
    /\ \A i \in DOMAIN q.add : LET r == q.add[i] IN
          st[r.entity] \in Present /\ rw[r.type][r.entity] = NoRow
    /\ \A i \in DOMAIN q.modify : LET r == q.modify[i] IN
          st[r.entity] \in Present /\ rw[r.type][r.entity] # NoRow
    /\ \A i \in DOMAIN q.remove : LET r == q.remove[i] IN
          st[r.entity] \in Present /\ rw[r.type][r.entity] # NoRow
    /\ \A i \in DOMAIN q.destroy : st[q.destroy[i]] \in Present

\* ~Conflicted(q), queue by queue.
Clean(q) ==
    /\ \A i, j \in DOMAIN q.add : i # j => ~SameCell(q.add[i], q.add[j])
    /\ \A i, j \in DOMAIN q.remove : i # j => ~SameCell(q.remove[i], q.remove[j])
    /\ \A i, j \in DOMAIN q.destroy : i # j => q.destroy[i] # q.destroy[j]
    /\ \A i \in DOMAIN q.spawn, t \in Types : q.spawn[i][t] \notin Malformed
    /\ \A i \in DOMAIN q.add : q.add[i].payload \notin Malformed
    /\ \A i \in DOMAIN q.modify : q.modify[i].payload \notin Malformed

LEMMA CleanIffNoConflict == ASSUME NEW q PROVE ~Conflicted(q) <=> Clean(q)
  BY DEF Conflicted, Clean, Repeats, Entries

\* Nothing is asked for in an empty batch.
LEMMA EmptyValid == ASSUME NEW st, NEW rw PROVE Valid(st, rw, EmptyQueues)
<1>1. /\ EmptyQueues.add = << >> /\ EmptyQueues.modify = << >>
      /\ EmptyQueues.remove = << >> /\ EmptyQueues.destroy = << >>
  BY DEF EmptyQueues
<1> QED
  BY <1>1 DEF Valid

CInv ==
    /\ ~transaction => Valid(state, rows, queues)
    /\ transaction => Valid(image.state, image.rows, image.queues)
    /\ transaction /\ Clean(image.queues) =>
          Valid(state, rows, queues) /\ Clean(queues)

\* What the operations of a batch without conflicts start from.
Sound ==
    /\ transaction /\ Valid(state, rows, queues) /\ Clean(queues)
    /\ state \in [Ids -> Lifecycle] /\ rows \in Rows /\ queues \in Queues

LEMMA SoundBatch == IInv /\ CInv /\ transaction /\ Clean(image.queues) => Sound
  BY DEF IInv, CInv, Sound, WorldOK, WorldTyped

-----------------------------------------------------------------------------
(* Requests and toggles: what a validation saw stays true. *)

LEMMA RequestCInv == IInv /\ CInv /\ Request => CInv'
<1> SUFFICES ASSUME IInv, CInv, Request PROVE CInv'
  OBVIOUS
<1>0. /\ ~transaction /\ UNCHANGED <<state, rows, transaction>>
      /\ Valid(state, rows, queues) /\ queues \in Queues
  BY DEF CInv, Request, RequestSpawn, RequestAddComponent,
     RequestModifyComponent, RequestRemoveComponent, RequestDestroy, DiscardAll,
     Accepting, Queue, store, tables, batch, IInv, WorldOK, WorldTyped
<1> SUFFICES Valid(state, rows, queues')
  BY <1>0 DEF CInv, Valid
<1>1. CASE RequestSpawn
  BY <1>0, <1>1 DEF RequestSpawn, Queue, Valid, Queues
<1>2. CASE RequestAddComponent
  <2> PICK r \in WriteRequests :
           ValidateAddComponent(r.entity, r.type) /\ Queue("add", r)
    BY <1>2 DEF RequestAddComponent
  <2>1. queues' = [queues EXCEPT !.add = Append(queues.add, r)]
    BY DEF Queue
  <2>2. \A i \in DOMAIN Append(queues.add, r) :
           \/ i \in DOMAIN queues.add /\ Append(queues.add, r)[i] = queues.add[i]
           \/ Append(queues.add, r)[i] = r
    BY <1>0, AppendEntries DEF Queues
  <2> QED
    BY <1>0, <2>1, <2>2
       DEF Valid, Queues, ValidateAddComponent, EntityExists, HasComponent
<1>3. CASE RequestModifyComponent
  <2> PICK r \in WriteRequests :
           ValidateExistingComponent(r.entity, r.type) /\ Queue("modify", r)
    BY <1>3 DEF RequestModifyComponent
  <2>1. queues' = [queues EXCEPT !.modify = Append(queues.modify, r)]
    BY DEF Queue
  <2>2. \A i \in DOMAIN Append(queues.modify, r) :
           \/ /\ i \in DOMAIN queues.modify
              /\ Append(queues.modify, r)[i] = queues.modify[i]
           \/ Append(queues.modify, r)[i] = r
    BY <1>0, AppendEntries DEF Queues
  <2> QED
    BY <1>0, <2>1, <2>2
       DEF Valid, Queues, ValidateExistingComponent, EntityExists, HasComponent
<1>4. CASE RequestRemoveComponent
  <2> PICK r \in RemoveRequests :
           ValidateExistingComponent(r.entity, r.type) /\ Queue("remove", r)
    BY <1>4 DEF RequestRemoveComponent
  <2>1. queues' = [queues EXCEPT !.remove = Append(queues.remove, r)]
    BY DEF Queue
  <2>2. \A i \in DOMAIN Append(queues.remove, r) :
           \/ /\ i \in DOMAIN queues.remove
              /\ Append(queues.remove, r)[i] = queues.remove[i]
           \/ Append(queues.remove, r)[i] = r
    BY <1>0, AppendEntries DEF Queues
  <2> QED
    BY <1>0, <2>1, <2>2
       DEF Valid, Queues, ValidateExistingComponent, EntityExists, HasComponent
<1>5. CASE RequestDestroy
  <2> PICK e \in DestroyRequests : ValidateDestroy(e) /\ Queue("destroy", e)
    BY <1>5 DEF RequestDestroy
  <2>1. queues' = [queues EXCEPT !.destroy = Append(queues.destroy, e)]
    BY DEF Queue
  <2>2. \A i \in DOMAIN Append(queues.destroy, e) :
           \/ /\ i \in DOMAIN queues.destroy
              /\ Append(queues.destroy, e)[i] = queues.destroy[i]
           \/ Append(queues.destroy, e)[i] = e
    BY <1>0, AppendEntries DEF Queues
  <2> QED
    BY <1>0, <2>1, <2>2 DEF Valid, Queues, ValidateDestroy, EntityExists
<1>6. CASE DiscardAll
  BY <1>6 DEF DiscardAll, EmptyQueues, Valid
<1> QED
  BY <1>1, <1>2, <1>3, <1>4, <1>5, <1>6 DEF Request

\* The entries of typed queues.
LEMMA QueueEntries ==
    ASSUME NEW q \in Queues
    PROVE  /\ \A i \in DOMAIN q.add : q.add[i] \in WriteRequests
           /\ \A i \in DOMAIN q.modify : q.modify[i] \in WriteRequests
           /\ \A i \in DOMAIN q.remove : q.remove[i] \in RemoveRequests
           /\ \A i \in DOMAIN q.destroy : q.destroy[i] \in Ids
<1>1. /\ q.add \in Seq(WriteRequests) /\ q.modify \in Seq(WriteRequests)
      /\ q.remove \in Seq(RemoveRequests) /\ q.destroy \in Seq(Ids)
  BY DEF Queues, DestroyRequests
<1> QED
  BY <1>1

LEMMA ToggleCInv == IInv /\ CInv /\ (DisableEntity \/ EnableEntity) => CInv'
<1> SUFFICES ASSUME IInv, CInv, DisableEntity \/ EnableEntity PROVE CInv'
  OBVIOUS
<1>1. \A e \in Ids : state[e] \in Present => state'[e] \in Present
  BY DEF DisableEntity, EnableEntity, Present, IInv, WorldOK, WorldTyped
<1>2. /\ ~transaction /\ UNCHANGED <<rows, queues, transaction>>
      /\ queues \in Queues
  BY DEF DisableEntity, EnableEntity, tables, batch, IInv, WorldOK, WorldTyped
<1>3. /\ \A i \in DOMAIN queues.add : queues.add[i].entity \in Ids
      /\ \A i \in DOMAIN queues.modify : queues.modify[i].entity \in Ids
      /\ \A i \in DOMAIN queues.remove : queues.remove[i].entity \in Ids
      /\ \A i \in DOMAIN queues.destroy : queues.destroy[i] \in Ids
  BY <1>2, QueueEntries DEF WriteRequests, RemoveRequests
<1> QED
  BY <1>1, <1>2, <1>3 DEF CInv, Valid

-----------------------------------------------------------------------------
(* A batch begins, fails or ends. *)

LEMMA BeginCInv == IInv /\ CInv /\ BeginBatch => CInv'
<1> SUFFICES ASSUME IInv, CInv, BeginBatch PROVE CInv'
  OBVIOUS
<1>1. /\ ~transaction /\ transaction' /\ UNCHANGED <<state, rows, queues>>
      /\ image'.state = state /\ image'.rows = rows /\ image'.queues = queues
  BY DEF BeginBatch, RollbackSnapshot, store, tables
<1> QED
  BY <1>1 DEF CInv

LEMMA RollbackCInv ==
    ASSUME CInv, transaction, NEW op, RollbackAfterFailure(op)
    PROVE  CInv'
  BY DEF CInv, RollbackAfterFailure, RestoreRollbackSnapshot, EndBatch

LEMMA CommitCInv == IInv /\ CInv /\ CommitBatch => CInv'
<1> SUFFICES ASSUME IInv, CInv, CommitBatch PROVE CInv'
  OBVIOUS
<1>1. ~transaction' /\ queues' = EmptyQueues
  BY DEF CommitBatch, EndBatch
<1>2. Valid(state', rows', queues')
  BY <1>1, EmptyValid
<1> QED
  BY <1>1, <1>2 DEF CInv

-----------------------------------------------------------------------------
(* The operations.  Each lemma says that in a sound batch the operation     *)
(* cannot fail and that its step leaves the rest of the batch sound.        *)

Continues == Valid(state', rows', queues') /\ Clean(queues')

LEMMA SpawnSound == IInv /\ Sound /\ ApplySpawn =>
                      CanSpawn(Head(queues.spawn)) /\ Continues
<1> SUFFICES ASSUME IInv, Sound, ApplySpawn
             PROVE  CanSpawn(Head(queues.spawn)) /\ Continues
  OBVIOUS
<1>0. queues \in Queues /\ queues.spawn # << >>
  BY DEF Sound, ApplySpawn
<1>1. /\ 1 \in DOMAIN queues.spawn /\ Head(queues.spawn) = queues.spawn[1]
      /\ \A i \in DOMAIN Tail(queues.spawn) :
            /\ i + 1 \in DOMAIN queues.spawn
            /\ Tail(queues.spawn)[i] = queues.spawn[i + 1]
  <2>1. queues.spawn \in Seq(SpawnRequests)
    BY <1>0 DEF Queues
  <2> QED
    BY <1>0, <2>1, TailEntries
<1>2. CanSpawn(Head(queues.spawn))
  BY <1>1 DEF Sound, Clean, CanSpawn
<1> PICK init : init = Head(queues.spawn)
  OBVIOUS
<1>3. /\ state' = [state EXCEPT ![nextId] = "Active"]
      /\ rows' = [t \in Types |-> [rows[t] EXCEPT ![nextId] =
                     IF init[t] = NoRow THEN @ ELSE init[t]]]
      /\ queues' = [queues EXCEPT !.spawn = Tail(queues.spawn)]
  BY <1>2 DEF ApplySpawn, Drain
<1>4. /\ queues'.spawn = Tail(queues.spawn) /\ queues'.add = queues.add
      /\ queues'.modify = queues.modify /\ queues'.remove = queues.remove
      /\ queues'.destroy = queues.destroy
  BY <1>0, <1>3 DEF Queues
<1>5. \A e \in Ids : state[e] \in Present =>
         /\ e # nextId /\ state'[e] \in Present
         /\ \A t \in Types : rows'[t][e] = rows[t][e]
  BY <1>3 DEF IInv, WorldOK, WorldTyped, LedgerOK, Sound, Rows, Present
<1>6. Valid(state', rows', queues')
  <2>0. Valid(state, rows, queues)
    BY DEF Sound
  <2>1. \A i \in DOMAIN queues.add :
           LET q == queues.add[i]
           IN  state'[q.entity] \in Present /\ rows'[q.type][q.entity] = NoRow
    BY <1>0, <1>5, <2>0, QueueEntries DEF Valid, WriteRequests
  <2>2. \A i \in DOMAIN queues.modify :
           LET q == queues.modify[i]
           IN  state'[q.entity] \in Present /\ rows'[q.type][q.entity] # NoRow
    BY <1>0, <1>5, <2>0, QueueEntries DEF Valid, WriteRequests
  <2>3. \A i \in DOMAIN queues.remove :
           LET q == queues.remove[i]
           IN  state'[q.entity] \in Present /\ rows'[q.type][q.entity] # NoRow
    BY <1>0, <1>5, <2>0, QueueEntries DEF Valid, RemoveRequests
  <2>4. \A i \in DOMAIN queues.destroy : state'[queues.destroy[i]] \in Present
    BY <1>0, <1>5, <2>0, QueueEntries DEF Valid
  <2> QED
    BY <1>4, <2>1, <2>2, <2>3, <2>4 DEF Valid
<1>7. Clean(queues')
  <2>1. \A i \in DOMAIN Tail(queues.spawn), t \in Types :
           Tail(queues.spawn)[i][t] \notin Malformed
    BY <1>1 DEF Sound, Clean
  <2>2. Clean(queues)
    BY DEF Sound
  <2> QED
    BY <1>4, <2>1, <2>2 DEF Clean
<1> QED
  BY <1>2, <1>6, <1>7 DEF Continues

LEMMA AddSound == Sound /\ ApplyAdd => CanAdd(Head(queues.add)) /\ Continues
<1> SUFFICES ASSUME Sound, ApplyAdd
             PROVE  CanAdd(Head(queues.add)) /\ Continues
  OBVIOUS
<1>0. queues \in Queues /\ queues.add # << >> /\ queues.spawn = << >>
  BY DEF Sound, ApplyAdd
<1>r. PICK r \in WriteRequests : r = Head(queues.add)
  BY <1>0 DEF Queues
<1>1. /\ 1 \in DOMAIN queues.add /\ r = queues.add[1]
      /\ \A i \in DOMAIN Tail(queues.add) :
            /\ i \in Nat /\ i # 0 /\ i + 1 \in DOMAIN queues.add
            /\ Tail(queues.add)[i] = queues.add[i + 1]
  <2>1. queues.add \in Seq(WriteRequests)
    BY <1>0 DEF Queues
  <2> QED
    BY <1>0, <1>r, <2>1, TailEntries
<1>2. CanAdd(r)
  BY <1>1 DEF Sound, Clean, Valid, CanAdd, EntityExists, HasComponent
<1>3. /\ WriteRow(r.entity, r.type, r.payload) /\ state' = state
      /\ queues' = [queues EXCEPT !.add = Tail(queues.add)]
  BY <1>2, <1>r DEF ApplyAdd, Drain, store
<1>4. /\ queues'.add = Tail(queues.add) /\ queues'.spawn = queues.spawn
      /\ queues'.modify = queues.modify /\ queues'.remove = queues.remove
      /\ queues'.destroy = queues.destroy
  BY <1>0, <1>3 DEF Queues
<1>5. \A i \in DOMAIN Tail(queues.add) : ~SameCell(r, Tail(queues.add)[i])
  BY <1>1 DEF Sound, Clean
<1>6. r.payload # NoRow
  BY <1>r, GateConstants DEF WriteRequests
<1>7. \A t \in Types, e \in Ids :
         rows'[t][e] = IF t = r.type /\ e = r.entity THEN r.payload
                       ELSE rows[t][e]
  BY <1>r, <1>3 DEF WriteRow, Sound, Rows, WriteRequests
<1>8. Valid(state', rows', queues')
  <2>0. Valid(state, rows, queues)
    BY DEF Sound
  <2>1. \A i \in DOMAIN Tail(queues.add) :
           LET q == Tail(queues.add)[i]
           IN  state[q.entity] \in Present /\ rows'[q.type][q.entity] = NoRow
    <3> TAKE i \in DOMAIN Tail(queues.add)
    <3> DEFINE q == Tail(queues.add)[i]
    <3>1. i + 1 \in DOMAIN queues.add /\ q = queues.add[i + 1]
      BY <1>1
    <3>2. q.type \in Types /\ q.entity \in Ids
      BY <1>0, <3>1, QueueEntries DEF WriteRequests
    <3>3. state[q.entity] \in Present /\ rows[q.type][q.entity] = NoRow
      BY <2>0, <3>1 DEF Valid
    <3>4. ~(q.type = r.type /\ q.entity = r.entity)
      BY <1>5 DEF SameCell
    <3> QED
      BY <1>7, <3>2, <3>3, <3>4
  <2>2. \A i \in DOMAIN queues.modify :
           LET q == queues.modify[i]
           IN  state[q.entity] \in Present /\ rows'[q.type][q.entity] # NoRow
    BY <1>0, <1>6, <1>7, <2>0, QueueEntries DEF Valid, WriteRequests
  <2>3. \A i \in DOMAIN queues.remove :
           LET q == queues.remove[i]
           IN  state[q.entity] \in Present /\ rows'[q.type][q.entity] # NoRow
    BY <1>0, <1>6, <1>7, <2>0, QueueEntries DEF Valid, RemoveRequests
  <2>4. \A i \in DOMAIN queues.destroy : state[queues.destroy[i]] \in Present
    BY <2>0 DEF Valid
  <2>5. state' = state
    BY <1>3
  <2> QED
    BY <1>4, <2>1, <2>2, <2>3, <2>4, <2>5 DEF Valid
<1>9. Clean(queues')
  <2>1. Clean(queues)
    BY DEF Sound
  <2>2. ASSUME NEW i \in DOMAIN Tail(queues.add), NEW j \in DOMAIN Tail(queues.add),
               i # j
        PROVE  ~SameCell(Tail(queues.add)[i], Tail(queues.add)[j])
    <3>1. i + 1 # j + 1
      BY <1>1, <2>2
    <3> QED
      BY <1>1, <2>1, <3>1 DEF Clean
  <2>3. \A i \in DOMAIN Tail(queues.add) : Tail(queues.add)[i].payload \notin Malformed
    BY <1>1, <2>1 DEF Clean
  <2> QED
    BY <1>4, <2>1, <2>2, <2>3 DEF Clean
<1> QED
  BY <1>r, <1>2, <1>8, <1>9 DEF Continues

LEMMA ModifySound == Sound /\ ApplyModify =>
                       CanModify(Head(queues.modify)) /\ Continues
<1> SUFFICES ASSUME Sound, ApplyModify
             PROVE  CanModify(Head(queues.modify)) /\ Continues
  OBVIOUS
<1>0. /\ queues \in Queues /\ queues.modify # << >>
      /\ queues.spawn = << >> /\ queues.add = << >>
  BY DEF Sound, ApplyModify
<1>r. PICK r \in WriteRequests : r = Head(queues.modify)
  BY <1>0 DEF Queues
<1>1. /\ 1 \in DOMAIN queues.modify /\ r = queues.modify[1]
      /\ \A i \in DOMAIN Tail(queues.modify) :
            /\ i + 1 \in DOMAIN queues.modify
            /\ Tail(queues.modify)[i] = queues.modify[i + 1]
  <2>1. queues.modify \in Seq(WriteRequests)
    BY <1>0 DEF Queues
  <2> QED
    BY <1>0, <1>r, <2>1, TailEntries
<1>2. CanModify(r)
  BY <1>1 DEF Sound, Clean, Valid, CanModify, EntityExists, HasComponent
<1>3. /\ WriteRow(r.entity, r.type, r.payload) /\ state' = state
      /\ queues' = [queues EXCEPT !.modify = Tail(queues.modify)]
  BY <1>2, <1>r DEF ApplyModify, Drain, store
<1>4. /\ queues'.add = queues.add /\ queues'.spawn = queues.spawn
      /\ queues'.modify = Tail(queues.modify) /\ queues'.remove = queues.remove
      /\ queues'.destroy = queues.destroy
  BY <1>0, <1>3 DEF Queues
<1>6. r.payload # NoRow
  BY <1>r, GateConstants DEF WriteRequests
<1>7. \A t \in Types, e \in Ids :
         rows'[t][e] = IF t = r.type /\ e = r.entity THEN r.payload
                       ELSE rows[t][e]
  BY <1>r, <1>3 DEF WriteRow, Sound, Rows, WriteRequests
<1>8. Valid(state', rows', queues')
  <2>0. Valid(state, rows, queues)
    BY DEF Sound
  <2>2. \A i \in DOMAIN queues.modify :
           LET q == queues.modify[i]
           IN  state[q.entity] \in Present /\ rows'[q.type][q.entity] # NoRow
    BY <1>0, <1>6, <1>7, <2>0, QueueEntries DEF Valid, WriteRequests
  <2>3. \A i \in DOMAIN queues.remove :
           LET q == queues.remove[i]
           IN  state[q.entity] \in Present /\ rows'[q.type][q.entity] # NoRow
    BY <1>0, <1>6, <1>7, <2>0, QueueEntries DEF Valid, RemoveRequests
  <2>4. \A i \in DOMAIN Tail(queues.modify) :
           LET q == Tail(queues.modify)[i]
           IN  state[q.entity] \in Present /\ rows'[q.type][q.entity] # NoRow
    BY <1>1, <2>2
  <2>5. queues'.add = << >>
    BY <1>0, <1>4
  <2>6. \A i \in DOMAIN queues.destroy : state[queues.destroy[i]] \in Present
    BY <2>0 DEF Valid
  <2>7. state' = state
    BY <1>3
  <2> QED
    BY <1>4, <2>3, <2>4, <2>5, <2>6, <2>7 DEF Valid
<1>9. Clean(queues')
  BY <1>1, <1>4 DEF Sound, Clean
<1> QED
  BY <1>r, <1>2, <1>8, <1>9 DEF Continues

LEMMA RemoveSound == Sound /\ ApplyRemove =>
                       CanRemove(Head(queues.remove)) /\ Continues
<1> SUFFICES ASSUME Sound, ApplyRemove
             PROVE  CanRemove(Head(queues.remove)) /\ Continues
  OBVIOUS
<1>0. /\ queues \in Queues /\ queues.remove # << >> /\ queues.spawn = << >>
      /\ queues.add = << >> /\ queues.modify = << >>
  BY DEF Sound, ApplyRemove
<1>r. PICK r \in RemoveRequests : r = Head(queues.remove)
  BY <1>0 DEF Queues
<1>1. /\ 1 \in DOMAIN queues.remove /\ r = queues.remove[1]
      /\ \A i \in DOMAIN Tail(queues.remove) :
            /\ i \in Nat /\ i # 0 /\ i + 1 \in DOMAIN queues.remove
            /\ Tail(queues.remove)[i] = queues.remove[i + 1]
  <2>1. queues.remove \in Seq(RemoveRequests)
    BY <1>0 DEF Queues
  <2> QED
    BY <1>0, <1>r, <2>1, TailEntries
<1>2. CanRemove(r)
  BY <1>1 DEF Sound, Valid, CanRemove, EntityExists, HasComponent
<1>3. /\ WriteRow(r.entity, r.type, NoRow) /\ state' = state
      /\ queues' = [queues EXCEPT !.remove = Tail(queues.remove)]
  BY <1>2, <1>r DEF ApplyRemove, Drain, store
<1>4. /\ queues'.add = queues.add /\ queues'.spawn = queues.spawn
      /\ queues'.modify = queues.modify /\ queues'.remove = Tail(queues.remove)
      /\ queues'.destroy = queues.destroy
  BY <1>0, <1>3 DEF Queues
<1>5. \A i \in DOMAIN Tail(queues.remove) : ~SameCell(r, Tail(queues.remove)[i])
  BY <1>1 DEF Sound, Clean
<1>7. \A t \in Types, e \in Ids :
         rows'[t][e] = IF t = r.type /\ e = r.entity THEN NoRow ELSE rows[t][e]
  BY <1>r, <1>3 DEF WriteRow, Sound, Rows, RemoveRequests
<1>8. Valid(state', rows', queues')
  <2>0. Valid(state, rows, queues)
    BY DEF Sound
  <2>1. \A i \in DOMAIN Tail(queues.remove) :
           LET q == Tail(queues.remove)[i]
           IN  state[q.entity] \in Present /\ rows'[q.type][q.entity] # NoRow
    <3> TAKE i \in DOMAIN Tail(queues.remove)
    <3> DEFINE q == Tail(queues.remove)[i]
    <3>1. i + 1 \in DOMAIN queues.remove /\ q = queues.remove[i + 1]
      BY <1>1
    <3>2. q.type \in Types /\ q.entity \in Ids
      BY <1>0, <3>1, QueueEntries DEF RemoveRequests
    <3>3. state[q.entity] \in Present /\ rows[q.type][q.entity] # NoRow
      BY <2>0, <3>1 DEF Valid
    <3>4. ~(q.type = r.type /\ q.entity = r.entity)
      BY <1>5 DEF SameCell
    <3> QED
      BY <1>7, <3>2, <3>3, <3>4
  <2>2. queues'.add = << >> /\ queues'.modify = << >> /\ state' = state
    BY <1>0, <1>3, <1>4
  <2>3. \A i \in DOMAIN queues.destroy : state[queues.destroy[i]] \in Present
    BY <2>0 DEF Valid
  <2> QED
    BY <1>4, <2>1, <2>2, <2>3 DEF Valid
<1>9. Clean(queues')
  BY <1>1, <1>4 DEF Sound, Clean
<1> QED
  BY <1>r, <1>2, <1>8, <1>9 DEF Continues

LEMMA DestroySound == Sound /\ ApplyDestroy =>
                        EntityExists(Head(queues.destroy)) /\ Continues
<1> SUFFICES ASSUME Sound, ApplyDestroy
             PROVE  EntityExists(Head(queues.destroy)) /\ Continues
  OBVIOUS
<1>0. /\ queues \in Queues /\ queues.destroy # << >> /\ queues.spawn = << >>
      /\ queues.add = << >> /\ queues.modify = << >> /\ queues.remove = << >>
  BY DEF Sound, ApplyDestroy
<1>r. PICK x \in Ids : x = Head(queues.destroy)
  BY <1>0 DEF Queues, DestroyRequests
<1>1. /\ 1 \in DOMAIN queues.destroy /\ x = queues.destroy[1]
      /\ \A i \in DOMAIN Tail(queues.destroy) :
            /\ i \in Nat /\ i # 0 /\ i + 1 \in DOMAIN queues.destroy
            /\ Tail(queues.destroy)[i] = queues.destroy[i + 1]
  <2>1. queues.destroy \in Seq(DestroyRequests)
    BY <1>0 DEF Queues
  <2> QED
    BY <1>0, <1>r, <2>1, TailEntries
<1>2. EntityExists(x)
  BY <1>1 DEF Sound, Valid, EntityExists
<1>3. /\ state' = [state EXCEPT ![x] = "Archived"]
      /\ queues' = [queues EXCEPT !.destroy = Tail(queues.destroy)]
  BY <1>2, <1>r DEF ApplyDestroy, Drain
<1>4. /\ queues'.add = queues.add /\ queues'.spawn = queues.spawn
      /\ queues'.modify = queues.modify /\ queues'.remove = queues.remove
      /\ queues'.destroy = Tail(queues.destroy)
  BY <1>0, <1>3 DEF Queues
<1>5. \A i \in DOMAIN Tail(queues.destroy) : Tail(queues.destroy)[i] # x
  BY <1>1 DEF Sound, Clean
<1>8. Valid(state', rows', queues')
  BY <1>0, <1>1, <1>3, <1>4, <1>5, QueueEntries DEF Sound, Valid
<1>9. Clean(queues')
  BY <1>1, <1>4 DEF Sound, Clean
<1> QED
  BY <1>r, <1>2, <1>8, <1>9 DEF Continues

-----------------------------------------------------------------------------
(* The invariant and the theorem. *)

LEMMA ApplyCInv == IInv /\ CInv /\ Apply => CInv'
<1> SUFFICES ASSUME IInv, CInv, Apply PROVE CInv'
  OBVIOUS
<1>1. CASE BeginBatch \/ CommitBatch
  BY <1>1, BeginCInv, CommitCInv
<1>2. CASE ApplySpawn \/ ApplyAdd \/ ApplyModify \/ ApplyRemove \/ ApplyDestroy
  <2>0. transaction
    BY <1>2 DEF ApplySpawn, ApplyAdd, ApplyModify, ApplyRemove, ApplyDestroy
  <2>1. CASE \E op : RollbackAfterFailure(op)
    BY <2>0, <2>1, RollbackCInv
  <2>2. CASE ~\E op : RollbackAfterFailure(op)
    <3>1. transaction' /\ image' = image
      BY <1>2, <2>0, <2>2 DEF ApplySpawn, ApplyAdd, ApplyModify, ApplyRemove,
         ApplyDestroy, Drain
    <3>2. Clean(image.queues) => Continues
      BY <1>2, <2>0, SoundBatch, SpawnSound, AddSound, ModifySound, RemoveSound,
         DestroySound
    <3> QED
      BY <2>0, <3>1, <3>2 DEF CInv, Continues
  <2> QED
    BY <2>1, <2>2
<1> QED
  BY <1>1, <1>2 DEF Apply

LEMMA StepCInv == IInv /\ CInv /\ [Next]_vars => CInv'
<1>1. IInv /\ CInv /\ UNCHANGED vars => CInv'
  BY DEF vars, store, tables, batch, CInv
<1> QED
  BY <1>1, RequestCInv, ToggleCInv, ApplyCInv DEF Next

\* A step that reports a failure is an operation of a batch with a conflict.
LEMMA FailureStep ==
    IInv /\ CInv /\ [Next]_vars =>
        (failure' # failure /\ failure' # "none" => Conflicted(image.queues))
<1> SUFFICES ASSUME IInv, CInv, Next, failure' # failure, failure' # "none"
             PROVE  Conflicted(image.queues)
  BY DEF vars, batch
<1>1. ApplySpawn \/ ApplyAdd \/ ApplyModify \/ ApplyRemove \/ ApplyDestroy
  BY DEF Next, Request, Apply, RequestSpawn, RequestAddComponent,
     RequestModifyComponent, RequestRemoveComponent, RequestDestroy, DiscardAll,
     Queue, DisableEntity, EnableEntity, BeginBatch, CommitBatch, batch
<1>2. transaction
  BY <1>1 DEF ApplySpawn, ApplyAdd, ApplyModify, ApplyRemove, ApplyDestroy
<1>3. ~Clean(image.queues)
  <2> SUFFICES ASSUME Clean(image.queues) PROVE FALSE
    OBVIOUS
  <2>1. Sound
    BY <1>2, SoundBatch
  <2>2. CASE ApplySpawn
    BY <2>1, <2>2, SpawnSound DEF ApplySpawn, Drain
  <2>3. CASE ApplyAdd
    BY <2>1, <2>3, AddSound DEF ApplyAdd, Drain
  <2>4. CASE ApplyModify
    BY <2>1, <2>4, ModifySound DEF ApplyModify, Drain
  <2>5. CASE ApplyRemove
    BY <2>1, <2>5, RemoveSound DEF ApplyRemove, Drain
  <2>6. CASE ApplyDestroy
    BY <2>1, <2>6, DestroySound DEF ApplyDestroy, Drain
  <2> QED
    BY <1>1, <2>2, <2>3, <2>4, <2>5, <2>6
<1> QED
  BY <1>3, CleanIffNoConflict

\* Requests validated against the world before the batch, applied in D4 order,
\* can only fail on a repeated add, remove or destroy or a payload that does not
\* parse: for every batch, of every length, over every world.
THEOREM FailuresAreConflicts == Spec => OnlyConflictsFail
<1>1. Init => CInv
  BY EmptyValid DEF Init, CInv
<1>2. Spec => []CInv
  BY <1>1, Inductive, StepCInv, PTL DEF Spec
<1> QED
  BY <1>2, Inductive, FailureStep, PTL DEF Spec, OnlyConflictsFail
=============================================================================
