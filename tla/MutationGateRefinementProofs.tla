--------------------- MODULE MutationGateRefinementProofs --------------------
(***************************************************************************)
(* MutationGate implements AtomicGate, for every value of the constants:   *)
(* a batch worked through one operation at a time is one atomic step with  *)
(* the effect AtomicGate states as a function of the queues, or it is a    *)
(* stutter.                                                                *)
(*                                                                         *)
(* The effect of the queues that are left on the world as it is stays the  *)
(* same while operations take requests off the queues and put them into    *)
(* the world (KeepsEffect), so when the queues are empty the world is the  *)
(* effect of the whole batch on the image.  And a batch with a conflict    *)
(* does not get there: what an operation's success rules out (Remaining)   *)
(* is passed back to the requests before it.                               *)
(***************************************************************************)
EXTENDS MutationGateConflictProofs, WellFoundedInduction

-----------------------------------------------------------------------------
(* Queues and the cells they name. *)

\* The places of s that name the cell.
At(s, e, t) == {i \in DOMAIN s : s[i].entity = e /\ s[i].type = t}

\* A queue that names a cell names it at a last place.
LEMMA SomeLast ==
    ASSUME NEW S, NEW s \in Seq(S), NEW e, NEW t, At(s, e, t) # {}
    PROVE  \E i \in At(s, e, t) : \A j \in At(s, e, t) : j <= i
<1> DEFINE T == {n \in Nat : \E i \in At(s, e, t) : n = Len(s) - i}
<1>1. \A i \in At(s, e, t) : i \in Int /\ Len(s) - i \in Nat
  BY DEF At
<1>2. T \subseteq Nat /\ T # {}
  BY <1>1
<1>3. IsWellFoundedOn(OpToRel(<, Nat), Nat)
  BY NatLessThanWellFounded
<1>4. PICK n \in T : \A m \in T : ~(<<m, n>> \in OpToRel(<, Nat))
  <2> HIDE DEF T
  <2> QED
    BY <1>2, <1>3, WFMin
<1>5. \A m \in T : ~(m < n)
  BY <1>4 DEF OpToRel
<1>6. PICK i \in At(s, e, t) : n = Len(s) - i
  OBVIOUS
<1>7. \A j \in At(s, e, t) : Len(s) - j \in T
  BY <1>1
<1>8. ASSUME NEW j \in At(s, e, t) PROVE j <= i
  <2>1. ~(Len(s) - j < Len(s) - i)
    BY <1>5, <1>6, <1>7
  <2> QED
    BY <1>1, <2>1
<1> QED
  BY <1>8

\* The payload at that place is the one LastPayload gives.
LEMMA LastPayloadIs ==
    ASSUME NEW S, NEW s \in Seq(S), NEW e, NEW t, NEW i \in At(s, e, t),
           \A j \in At(s, e, t) : j <= i
    PROVE  Promised!LastPayload(s, e, t) = s[i].payload
<1>1. \A j \in At(s, e, t) : j \in Int
  BY DEF At
<1>2. (CHOOSE k \in At(s, e, t) : \A j \in At(s, e, t) : j <= k) = i
  BY <1>1
<1> QED
  BY <1>2 DEF Promised!LastPayload, At

\* Taking the first request off a queue takes its cell off the named ones,
\* unless a later request names it too, and then that one has the last word.
LEMMA TailNames ==
    ASSUME NEW S, NEW s \in Seq(S), s # << >>
    PROVE  /\ Entries(s) = {Head(s)} \cup Entries(Tail(s))
           /\ \A e, t : Promised!Names(s, e, t) <=>
                            \/ Head(s).entity = e /\ Head(s).type = t
                            \/ Promised!Names(Tail(s), e, t)
<1>1. PICK tl : tl = Tail(s)
  OBVIOUS
<1>2. \A i \in DOMAIN s : i = 1 \/ (i - 1 \in DOMAIN tl /\ tl[i - 1] = s[i])
  BY <1>1
<1>3. /\ 1 \in DOMAIN s /\ Head(s) = s[1]
      /\ \A i \in DOMAIN tl : i + 1 \in DOMAIN s /\ tl[i] = s[i + 1]
  BY <1>1, TailEntries
<1>4. \A x \in Entries(s) : x = Head(s) \/ x \in Entries(tl)
  BY <1>2, <1>3 DEF Entries
<1>5. Head(s) \in Entries(s) /\ \A x \in Entries(tl) : x \in Entries(s)
  BY <1>3 DEF Entries
<1>6. Entries(s) = {Head(s)} \cup Entries(tl)
  BY <1>4, <1>5
<1>7. ASSUME NEW e, NEW t
      PROVE  Promised!Names(s, e, t) <=>
                 \/ Head(s).entity = e /\ Head(s).type = t
                 \/ Promised!Names(tl, e, t)
  BY <1>6 DEF Promised!Names, Promised!Entries, Entries
<1> QED
  BY <1>1, <1>6, <1>7

LEMMA TailLast ==
    ASSUME NEW S, NEW s \in Seq(S), s # << >>, NEW e, NEW t
    PROVE  /\ Promised!Names(Tail(s), e, t) =>
                  Promised!LastPayload(s, e, t) = Promised!LastPayload(Tail(s), e, t)
           /\ ~Promised!Names(Tail(s), e, t) /\ Head(s).entity = e /\ Head(s).type = t =>
                  Promised!LastPayload(s, e, t) = Head(s).payload
<1>1. PICK tl \in Seq(S) : tl = Tail(s)
  BY TailEntries
<1>2. \A i \in DOMAIN s : i \in Int /\ i >= 1 /\
         (i = 1 \/ (i - 1 \in DOMAIN tl /\ tl[i - 1] = s[i]))
  BY <1>1
<1>3. /\ 1 \in DOMAIN s /\ Head(s) = s[1]
      /\ \A i \in DOMAIN tl : /\ i + 1 \in DOMAIN s /\ tl[i] = s[i + 1]
                              /\ i \in Int /\ i >= 1
  BY <1>1, TailEntries
<1>4. ASSUME Promised!Names(tl, e, t)
      PROVE  Promised!LastPayload(s, e, t) = Promised!LastPayload(tl, e, t)
  <2>1. At(tl, e, t) # {}
    BY <1>4 DEF Promised!Names, Promised!Entries, At
  <2>2. PICK i \in At(tl, e, t) : \A j \in At(tl, e, t) : j <= i
    BY <2>1, SomeLast
  <2>3. i + 1 \in At(s, e, t) /\ tl[i] = s[i + 1] /\ i \in Int /\ i >= 1
    BY <1>3 DEF At
  <2>4. ASSUME NEW j \in At(s, e, t) PROVE j <= i + 1
    <3>1. j \in Int /\ (j = 1 \/ j - 1 \in At(tl, e, t))
      BY <1>2 DEF At
    <3> QED
      BY <2>2, <2>3, <3>1
  <2>5. Promised!LastPayload(s, e, t) = s[i + 1].payload
    BY <2>3, <2>4, LastPayloadIs
  <2>6. Promised!LastPayload(tl, e, t) = tl[i].payload
    BY <2>2, LastPayloadIs
  <2> QED
    BY <2>3, <2>5, <2>6
<1>5. ASSUME ~Promised!Names(tl, e, t), Head(s).entity = e, Head(s).type = t
      PROVE  Promised!LastPayload(s, e, t) = Head(s).payload
  <2>1. 1 \in At(s, e, t)
    BY <1>3, <1>5 DEF At
  <2>2. \A j \in At(s, e, t) : j <= 1
    BY <1>2, <1>5 DEF At, Promised!Names, Promised!Entries
  <2> QED
    BY <1>3, <2>1, <2>2, LastPayloadIs
<1> QED
  BY <1>1, <1>4, <1>5

\* h is the first request of s and tl are the others.
Splits(s, h, tl) ==
    /\ h = Head(s) /\ tl = Tail(s)
    /\ 1 \in DOMAIN s /\ h = s[1] /\ Len(s) = Len(tl) + 1
    /\ \A i \in DOMAIN s : i \in Int /\
          (i = 1 \/ (i - 1 \in DOMAIN tl /\ tl[i - 1] = s[i]))

LEMMA SplitQueue ==
    ASSUME NEW S, NEW s \in Seq(S), s # << >>
    PROVE  \E h \in S, tl \in Seq(S) : Splits(s, h, tl)
<1>1. PICK tl : tl = Tail(s)
  OBVIOUS
<1>2. /\ tl \in Seq(S) /\ Head(s) \in S /\ 1 \in DOMAIN s /\ Head(s) = s[1]
      /\ Len(s) = Len(tl) + 1
  BY <1>1, TailEntries
<1>3. \A i \in DOMAIN s : i \in Int /\
         (i = 1 \/ (i - 1 \in DOMAIN tl /\ tl[i - 1] = s[i]))
  BY <1>1
<1> QED
  BY <1>1, <1>2, <1>3 DEF Splits

LEMMA EmptyNames ==
    /\ \A e, t : ~Promised!Names(<< >>, e, t)
    /\ Entries(<< >>) = {}
    /\ Len(<< >>) = 0
  BY DEF Promised!Names, Promised!Entries, Entries

-----------------------------------------------------------------------------
(* What the queues q make of a world, as AtomicGate has it. *)

SpawnedBy(n, q) == n .. n + Len(q.spawn) - 1

StateEffect(st, n, q, e) ==
    IF e \in Entries(q.destroy) THEN "Archived"
    ELSE IF e \in SpawnedBy(n, q) THEN "Active"
    ELSE st[e]

CellEffect(rw, n, q, t, e) ==
    IF e \in Entries(q.destroy) \/ Promised!Names(q.remove, e, t) THEN NoRow
    ELSE IF Promised!Names(q.modify, e, t) THEN Promised!LastPayload(q.modify, e, t)
    ELSE IF Promised!Names(q.add, e, t) THEN Promised!LastPayload(q.add, e, t)
    ELSE IF e \in SpawnedBy(n, q) THEN q.spawn[e - n + 1][t]
    ELSE rw[t][e]

\* What must hold for the requests that are left to succeed: of each queue,
\* once it is that queue's turn.
Remaining(st, rw, q) ==
    /\ Clean(q)
    /\ q.spawn = << >> =>
           \A i \in DOMAIN q.add : rw[q.add[i].type][q.add[i].entity] = NoRow
    /\ q.spawn = << >> /\ q.add = << >> /\ q.modify = << >> =>
           \A i \in DOMAIN q.remove : rw[q.remove[i].type][q.remove[i].entity] # NoRow
    /\ q.spawn = << >> /\ q.add = << >> /\ q.modify = << >> /\ q.remove = << >> =>
           \A i \in DOMAIN q.destroy : st[q.destroy[i]] \in Present

KeepsEffect ==
    /\ \A e \in Ids :
           StateEffect(state', nextId', queues', e) = StateEffect(state, nextId, queues, e)
    /\ nextId' + Len(queues'.spawn) = nextId + Len(queues.spawn)
    /\ archive' \cup Entries(queues'.destroy) = archive \cup Entries(queues.destroy)
    /\ \A t \in Types, e \in Ids :
           CellEffect(rows', nextId', queues', t, e)
               = CellEffect(rows, nextId, queues, t, e)
    /\ Remaining(state', rows', queues') => Remaining(state, rows, queues)

\* What the operations of a batch start from.
Running ==
    /\ state \in [Ids -> Lifecycle] /\ nextId \in Nat /\ nextId # 0
    /\ rows \in Rows
    /\ queues \in Queues
    /\ nextId + Len(queues.spawn) <= MaxId + 1
    /\ RowsOK(state, rows) /\ LedgerOK(state, nextId, archive)

LEMMA RunningBatch == IInv => Running
  BY GateConstants DEF IInv, WorldOK, WorldTyped, Running

LEMMA AddKeeps == Running /\ ApplyAdd /\ transaction' => KeepsEffect
<1> SUFFICES ASSUME Running, ApplyAdd, transaction' PROVE KeepsEffect
  OBVIOUS
<1>0. /\ queues \in Queues /\ queues.add # << >> /\ queues.spawn = << >>
      /\ queues.add \in Seq(WriteRequests) /\ rows \in Rows /\ nextId \in Nat
  BY DEF Running, ApplyAdd, Queues
<1>1. PICK r \in WriteRequests, tl \in Seq(WriteRequests) :
           Splits(queues.add, r, tl)
  BY <1>0, SplitQueue
<1>2. /\ CanAdd(r) /\ WriteRow(r.entity, r.type, r.payload)
      /\ UNCHANGED <<state, nextId, archive>>
      /\ queues' = [queues EXCEPT !.add = tl]
  BY <1>1 DEF Splits, ApplyAdd, RollbackAfterFailure, EndBatch, Drain, store
<1>3. /\ queues'.add = tl /\ queues'.spawn = << >>
      /\ queues'.modify = queues.modify /\ queues'.remove = queues.remove
      /\ queues'.destroy = queues.destroy
  BY <1>0, <1>2 DEF Queues
<1>4. \A t \in Types, e \in Ids :
         rows'[t][e] = IF t = r.type /\ e = r.entity THEN r.payload ELSE rows[t][e]
  BY <1>0, <1>2 DEF WriteRow, Rows, WriteRequests
<1>5. \A e, t : /\ Promised!Names(queues.add, e, t) <=>
                       (r.entity = e /\ r.type = t) \/ Promised!Names(tl, e, t)
                /\ Promised!Names(tl, e, t) =>
                       Promised!LastPayload(queues.add, e, t)
                           = Promised!LastPayload(tl, e, t)
                /\ ~Promised!Names(tl, e, t) /\ r.entity = e /\ r.type = t =>
                       Promised!LastPayload(queues.add, e, t) = r.payload
  BY <1>0, <1>1, TailNames, TailLast DEF Splits
<1>6. SpawnedBy(nextId, queues) = {} /\ SpawnedBy(nextId', queues') = {}
  BY <1>0, <1>2, <1>3, EmptyNames DEF SpawnedBy
<1>7. ASSUME NEW t \in Types, NEW e \in Ids
      PROVE  CellEffect(rows', nextId', queues', t, e)
                 = CellEffect(rows, nextId, queues, t, e)
  BY <1>3, <1>4, <1>5, <1>6 DEF CellEffect
<1>8. \A e \in Ids : StateEffect(state', nextId', queues', e)
                         = StateEffect(state, nextId, queues, e)
  BY <1>2, <1>3, <1>6 DEF StateEffect
<1>9. ASSUME Remaining(state', rows', queues') PROVE Remaining(state, rows, queues)
  <2>1. r.payload # NoRow /\ r.payload \notin Malformed
        /\ rows[r.type][r.entity] = NoRow
    BY <1>2, GateConstants DEF CanAdd, HasComponent, WriteRequests
  <2>2. /\ \A i \in DOMAIN tl : /\ rows'[tl[i].type][tl[i].entity] = NoRow
                                /\ tl[i].payload \notin Malformed
                                /\ tl[i] \in WriteRequests
        /\ \A i, j \in DOMAIN tl : i # j => ~SameCell(tl[i], tl[j])
    BY <1>3, <1>9 DEF Remaining, Clean
  <2>3. \A i \in DOMAIN tl : ~SameCell(r, tl[i]) /\ ~SameCell(tl[i], r)
                             /\ rows[tl[i].type][tl[i].entity] = NoRow
    BY <1>4, <2>1, <2>2 DEF SameCell, WriteRequests
  <2>4. \A i, j \in DOMAIN queues.add :
            i # j => ~SameCell(queues.add[i], queues.add[j])
    <3> TAKE i, j \in DOMAIN queues.add
    <3> HAVE i # j
    <3>1. CASE i = 1
      BY <1>1, <2>3, <3>1 DEF Splits
    <3>2. CASE j = 1
      BY <1>1, <2>3, <3>2 DEF Splits
    <3>3. CASE i # 1 /\ j # 1
      <4>1. i - 1 \in DOMAIN tl /\ j - 1 \in DOMAIN tl /\ i - 1 # j - 1
        BY <1>1, <3>3 DEF Splits
      <4> QED
        BY <1>1, <2>2, <3>3, <4>1 DEF Splits
    <3> QED
      BY <3>1, <3>2, <3>3
  <2>5. \A i \in DOMAIN queues.add :
            /\ queues.add[i].payload \notin Malformed
            /\ rows[queues.add[i].type][queues.add[i].entity] = NoRow
    <3> TAKE i \in DOMAIN queues.add
    <3>1. queues.add[i] = r \/ \E j \in DOMAIN tl : queues.add[i] = tl[j]
      BY <1>1 DEF Splits
    <3> QED
      BY <2>1, <2>2, <2>3, <3>1
  <2>6. Clean(queues)
    BY <1>0, <1>3, <1>9, <2>4, <2>5 DEF Remaining, Clean
  <2> QED
    BY <1>0, <2>5, <2>6 DEF Remaining
<1> QED
  BY <1>0, <1>2, <1>3, <1>7, <1>8, <1>9 DEF KeepsEffect

LEMMA ModifyKeeps == Running /\ ApplyModify /\ transaction' => KeepsEffect
<1> SUFFICES ASSUME Running, ApplyModify, transaction' PROVE KeepsEffect
  OBVIOUS
<1>0. /\ queues \in Queues /\ queues.modify # << >>
      /\ queues.spawn = << >> /\ queues.add = << >>
      /\ queues.modify \in Seq(WriteRequests) /\ rows \in Rows /\ nextId \in Nat
  BY DEF Running, ApplyModify, Queues
<1>1. PICK r \in WriteRequests, tl \in Seq(WriteRequests) :
           Splits(queues.modify, r, tl)
  BY <1>0, SplitQueue
<1>2. /\ CanModify(r) /\ WriteRow(r.entity, r.type, r.payload)
      /\ UNCHANGED <<state, nextId, archive>>
      /\ queues' = [queues EXCEPT !.modify = tl]
  BY <1>1 DEF Splits, ApplyModify, RollbackAfterFailure, EndBatch, Drain, store
<1>3. /\ queues'.add = << >> /\ queues'.spawn = << >>
      /\ queues'.modify = tl /\ queues'.remove = queues.remove
      /\ queues'.destroy = queues.destroy
  BY <1>0, <1>2 DEF Queues
<1>4. \A t \in Types, e \in Ids :
         rows'[t][e] = IF t = r.type /\ e = r.entity THEN r.payload ELSE rows[t][e]
  BY <1>0, <1>2 DEF WriteRow, Rows, WriteRequests
<1>5. \A e, t : /\ Promised!Names(queues.modify, e, t) <=>
                       (r.entity = e /\ r.type = t) \/ Promised!Names(tl, e, t)
                /\ Promised!Names(tl, e, t) =>
                       Promised!LastPayload(queues.modify, e, t)
                           = Promised!LastPayload(tl, e, t)
                /\ ~Promised!Names(tl, e, t) /\ r.entity = e /\ r.type = t =>
                       Promised!LastPayload(queues.modify, e, t) = r.payload
  BY <1>0, <1>1, TailNames, TailLast DEF Splits
<1>6. SpawnedBy(nextId, queues) = {} /\ SpawnedBy(nextId', queues') = {}
  BY <1>0, <1>2, <1>3, EmptyNames DEF SpawnedBy
<1>7. ASSUME NEW t \in Types, NEW e \in Ids
      PROVE  CellEffect(rows', nextId', queues', t, e)
                 = CellEffect(rows, nextId, queues, t, e)
  BY <1>0, <1>3, <1>4, <1>5, <1>6, EmptyNames DEF CellEffect
<1>8. \A e \in Ids : StateEffect(state', nextId', queues', e)
                         = StateEffect(state, nextId, queues, e)
  BY <1>2, <1>3, <1>6 DEF StateEffect
<1>9. ASSUME Remaining(state', rows', queues') PROVE Remaining(state, rows, queues)
  <2>1. r.payload \notin Malformed
    BY <1>2 DEF CanModify
  <2>2. \A i \in DOMAIN tl : tl[i].payload \notin Malformed
    BY <1>3, <1>9 DEF Remaining, Clean
  <2>3. \A i \in DOMAIN queues.modify : queues.modify[i].payload \notin Malformed
    BY <1>1, <2>1, <2>2 DEF Splits
  <2>4. Clean(queues)
    BY <1>0, <1>3, <1>9, <2>3 DEF Remaining, Clean
  <2> QED
    BY <1>0, <2>4 DEF Remaining
<1> QED
  BY <1>0, <1>2, <1>3, <1>7, <1>8, <1>9 DEF KeepsEffect

LEMMA RemoveKeeps == Running /\ ApplyRemove /\ transaction' => KeepsEffect
<1> SUFFICES ASSUME Running, ApplyRemove, transaction' PROVE KeepsEffect
  OBVIOUS
<1>0. /\ queues \in Queues /\ queues.remove # << >> /\ queues.spawn = << >>
      /\ queues.add = << >> /\ queues.modify = << >>
      /\ queues.remove \in Seq(RemoveRequests) /\ rows \in Rows /\ nextId \in Nat
  BY DEF Running, ApplyRemove, Queues
<1>1. PICK r \in RemoveRequests, tl \in Seq(RemoveRequests) :
           Splits(queues.remove, r, tl)
  BY <1>0, SplitQueue
<1>2. /\ CanRemove(r) /\ WriteRow(r.entity, r.type, NoRow)
      /\ UNCHANGED <<state, nextId, archive>>
      /\ queues' = [queues EXCEPT !.remove = tl]
  BY <1>1 DEF Splits, ApplyRemove, RollbackAfterFailure, EndBatch, Drain, store
<1>3. /\ queues'.add = << >> /\ queues'.spawn = << >>
      /\ queues'.modify = << >> /\ queues'.remove = tl
      /\ queues'.destroy = queues.destroy
  BY <1>0, <1>2 DEF Queues
<1>4. \A t \in Types, e \in Ids :
         rows'[t][e] = IF t = r.type /\ e = r.entity THEN NoRow ELSE rows[t][e]
  BY <1>0, <1>2 DEF WriteRow, Rows, RemoveRequests
<1>5. \A e, t : Promised!Names(queues.remove, e, t) <=>
                    (r.entity = e /\ r.type = t) \/ Promised!Names(tl, e, t)
  BY <1>0, <1>1, TailNames DEF Splits
<1>6. SpawnedBy(nextId, queues) = {} /\ SpawnedBy(nextId', queues') = {}
  BY <1>0, <1>2, <1>3, EmptyNames DEF SpawnedBy
<1>7. ASSUME NEW t \in Types, NEW e \in Ids
      PROVE  CellEffect(rows', nextId', queues', t, e)
                 = CellEffect(rows, nextId, queues, t, e)
  BY <1>0, <1>3, <1>4, <1>5, <1>6, EmptyNames DEF CellEffect
<1>8. \A e \in Ids : StateEffect(state', nextId', queues', e)
                         = StateEffect(state, nextId, queues, e)
  BY <1>2, <1>3, <1>6 DEF StateEffect
<1>9. ASSUME Remaining(state', rows', queues') PROVE Remaining(state, rows, queues)
  <2>1. rows[r.type][r.entity] # NoRow
    BY <1>2 DEF CanRemove, HasComponent
  <2>2. /\ \A i \in DOMAIN tl : /\ rows'[tl[i].type][tl[i].entity] # NoRow
                                /\ tl[i] \in RemoveRequests
        /\ \A i, j \in DOMAIN tl : i # j => ~SameCell(tl[i], tl[j])
    BY <1>3, <1>9 DEF Remaining, Clean
  <2>3. \A i \in DOMAIN tl : ~SameCell(r, tl[i]) /\ ~SameCell(tl[i], r)
                             /\ rows[tl[i].type][tl[i].entity] # NoRow
    BY <1>4, <2>1, <2>2 DEF SameCell, RemoveRequests
  <2>4. \A i, j \in DOMAIN queues.remove :
            i # j => ~SameCell(queues.remove[i], queues.remove[j])
    <3> TAKE i, j \in DOMAIN queues.remove
    <3> HAVE i # j
    <3>1. CASE i = 1
      BY <1>1, <2>3, <3>1 DEF Splits
    <3>2. CASE j = 1
      BY <1>1, <2>3, <3>2 DEF Splits
    <3>3. CASE i # 1 /\ j # 1
      <4>1. i - 1 \in DOMAIN tl /\ j - 1 \in DOMAIN tl /\ i - 1 # j - 1
        BY <1>1, <3>3 DEF Splits
      <4> QED
        BY <1>1, <2>2, <3>3, <4>1 DEF Splits
    <3> QED
      BY <3>1, <3>2, <3>3
  <2>5. \A i \in DOMAIN queues.remove :
            rows[queues.remove[i].type][queues.remove[i].entity] # NoRow
    <3> TAKE i \in DOMAIN queues.remove
    <3>1. queues.remove[i] = r \/ \E j \in DOMAIN tl : queues.remove[i] = tl[j]
      BY <1>1 DEF Splits
    <3> QED
      BY <2>1, <2>3, <3>1
  <2>6. Clean(queues)
    BY <1>0, <1>3, <1>9, <2>4 DEF Remaining, Clean
  <2> QED
    BY <1>0, <2>5, <2>6 DEF Remaining
<1> QED
  BY <1>0, <1>2, <1>3, <1>7, <1>8, <1>9 DEF KeepsEffect

LEMMA DestroyKeeps == Running /\ ApplyDestroy /\ transaction' => KeepsEffect
<1> SUFFICES ASSUME Running, ApplyDestroy, transaction' PROVE KeepsEffect
  OBVIOUS
<1>0. /\ queues \in Queues /\ queues.destroy # << >> /\ queues.spawn = << >>
      /\ queues.add = << >> /\ queues.modify = << >> /\ queues.remove = << >>
      /\ queues.destroy \in Seq(Ids) /\ rows \in Rows /\ nextId \in Nat
      /\ state \in [Ids -> Lifecycle]
  BY DEF Running, ApplyDestroy, Queues, DestroyRequests
<1>1. PICK x \in Ids, tl \in Seq(Ids) : Splits(queues.destroy, x, tl)
  BY <1>0, SplitQueue
<1>2. /\ EntityExists(x) /\ RemoveAllForEntity(x)
      /\ state' = [state EXCEPT ![x] = "Archived"]
      /\ archive' = archive \cup {x} /\ nextId' = nextId
      /\ queues' = [queues EXCEPT !.destroy = tl]
  BY <1>1 DEF Splits, ApplyDestroy, RollbackAfterFailure, EndBatch, Drain
<1>3. /\ queues'.add = << >> /\ queues'.spawn = << >>
      /\ queues'.modify = << >> /\ queues'.remove = << >>
      /\ queues'.destroy = tl
  BY <1>0, <1>2 DEF Queues
<1>4. \A t \in Types, e \in Ids :
         rows'[t][e] = IF e = x THEN NoRow ELSE rows[t][e]
  BY <1>0, <1>1, <1>2 DEF RemoveAllForEntity, Rows
<1>5. Entries(queues.destroy) = {x} \cup Entries(tl)
  BY <1>0, <1>1, TailNames DEF Splits
<1>6. SpawnedBy(nextId, queues) = {} /\ SpawnedBy(nextId', queues') = {}
  BY <1>0, <1>2, <1>3, EmptyNames DEF SpawnedBy
<1>7. ASSUME NEW t \in Types, NEW e \in Ids
      PROVE  CellEffect(rows', nextId', queues', t, e)
                 = CellEffect(rows, nextId, queues, t, e)
  BY <1>0, <1>3, <1>4, <1>5, <1>6, EmptyNames DEF CellEffect
<1>8. \A e \in Ids : StateEffect(state', nextId', queues', e)
                         = StateEffect(state, nextId, queues, e)
  BY <1>0, <1>2, <1>3, <1>5, <1>6 DEF StateEffect
<1>9. ASSUME Remaining(state', rows', queues') PROVE Remaining(state, rows, queues)
  <2>1. state[x] \in Present /\ "Archived" \notin Present
    BY <1>2 DEF EntityExists, Present
  <2>2. /\ \A i \in DOMAIN tl : state'[tl[i]] \in Present /\ tl[i] \in Ids
        /\ \A i, j \in DOMAIN tl : i # j => tl[i] # tl[j]
    BY <1>3, <1>9 DEF Remaining, Clean
  <2>3. \A i \in DOMAIN tl : tl[i] # x /\ state[tl[i]] \in Present
    BY <1>0, <1>2, <2>1, <2>2
  <2>4. \A i, j \in DOMAIN queues.destroy :
            i # j => queues.destroy[i] # queues.destroy[j]
    <3> TAKE i, j \in DOMAIN queues.destroy
    <3> HAVE i # j
    <3>1. CASE i = 1
      BY <1>1, <2>3, <3>1 DEF Splits
    <3>2. CASE j = 1
      BY <1>1, <2>3, <3>2 DEF Splits
    <3>3. CASE i # 1 /\ j # 1
      <4>1. i - 1 \in DOMAIN tl /\ j - 1 \in DOMAIN tl /\ i - 1 # j - 1
        BY <1>1, <3>3 DEF Splits
      <4>2. queues.destroy[i] = tl[i - 1] /\ queues.destroy[j] = tl[j - 1]
        BY <1>1, <3>3 DEF Splits
      <4> QED
        BY <2>2, <4>1, <4>2
    <3> QED
      BY <3>1, <3>2, <3>3
  <2>5. \A i \in DOMAIN queues.destroy : state[queues.destroy[i]] \in Present
    <3> TAKE i \in DOMAIN queues.destroy
    <3>1. queues.destroy[i] = x \/ \E j \in DOMAIN tl : queues.destroy[i] = tl[j]
      BY <1>1 DEF Splits
    <3> QED
      BY <2>1, <2>3, <3>1
  <2>6. Clean(queues)
    BY <1>0, <1>3, <1>9, <2>4 DEF Remaining, Clean
  <2> QED
    BY <1>0, <2>5, <2>6 DEF Remaining
<1> QED
  BY <1>0, <1>2, <1>3, <1>5, <1>7, <1>8, <1>9 DEF KeepsEffect

LEMMA SpawnKeeps == Running /\ ApplySpawn /\ transaction' => KeepsEffect
<1> SUFFICES ASSUME Running, ApplySpawn, transaction' PROVE KeepsEffect
  OBVIOUS
<1>0. /\ queues \in Queues /\ queues.spawn # << >>
      /\ queues.spawn \in Seq(SpawnRequests) /\ rows \in Rows /\ nextId \in Nat
      /\ state \in [Ids -> Lifecycle]
      /\ \A t \in Types, e \in Ids : rows[t][e] # NoRow => state[e] \in Present
      /\ \A e \in Ids : state[e] = "Unused" <=> e >= nextId
  BY DEF Running, ApplySpawn, Queues, RowsOK, LedgerOK
<1>1. PICK init \in SpawnRequests, tl \in Seq(SpawnRequests) :
           Splits(queues.spawn, init, tl)
  BY <1>0, SplitQueue
<1>2. /\ CanSpawn(init)
      /\ state' = [state EXCEPT ![nextId] = "Active"]
      /\ nextId' = nextId + 1
      /\ rows' = [t \in Types |-> [rows[t] EXCEPT ![nextId] =
                     IF init[t] = NoRow THEN @ ELSE init[t]]]
      /\ archive' = archive
      /\ queues' = [queues EXCEPT !.spawn = tl]
  BY <1>1 DEF Splits, ApplySpawn, RollbackAfterFailure, EndBatch, Drain
<1>3. /\ queues'.add = queues.add /\ queues'.spawn = tl
      /\ queues'.modify = queues.modify /\ queues'.remove = queues.remove
      /\ queues'.destroy = queues.destroy
  BY <1>0, <1>2 DEF Queues
<1>4. /\ Len(tl) \in Nat /\ Len(queues.spawn) = Len(tl) + 1
      /\ nextId \in Ids
  <2>1. Len(tl) \in Nat /\ Len(queues.spawn) = Len(tl) + 1
    BY <1>1 DEF Splits
  <2>2. nextId >= 1
    <3>1. nextId # 0
      BY DEF Running
    <3> QED
      BY <1>0, <3>1
  <2> QED
    BY <1>0, <2>1, <2>2, GateConstants DEF Running, Ids
<1>5. \A t \in Types, e \in Ids :
         rows'[t][e] = IF e = nextId /\ init[t] # NoRow THEN init[t] ELSE rows[t][e]
  BY <1>0, <1>2, <1>4 DEF Rows
<1>6. \A e \in Ids : /\ e \in SpawnedBy(nextId, queues)
                           <=> e = nextId \/ e \in SpawnedBy(nextId', queues')
                     /\ nextId \notin SpawnedBy(nextId', queues')
  BY <1>0, <1>2, <1>3, <1>4 DEF SpawnedBy, Ids
<1>7. \A t \in Types : rows[t][nextId] = NoRow
  BY <1>0, <1>4 DEF Present
<1>8. ASSUME NEW t \in Types, NEW e \in Ids
      PROVE  CellEffect(rows', nextId', queues', t, e)
                 = CellEffect(rows, nextId, queues, t, e)
  <2>1. CASE e = nextId
    <3>1. queues.spawn[e - nextId + 1][t] = init[t]
      BY <1>0, <1>1, <2>1 DEF Splits
    <3>2. rows'[t][e] = init[t]
      BY <1>4, <1>5, <1>7, <2>1
    <3> QED
      BY <1>3, <1>6, <2>1, <3>1, <3>2 DEF CellEffect
  <2>2. CASE e # nextId
    <3>1. rows'[t][e] = rows[t][e]
      BY <1>5, <2>2
    <3>2. e \in SpawnedBy(nextId', queues') =>
              tl[e - nextId' + 1] = queues.spawn[e - nextId + 1]
      <4> SUFFICES ASSUME e \in SpawnedBy(nextId', queues')
                   PROVE  tl[e - nextId' + 1] = queues.spawn[e - nextId + 1]
        OBVIOUS
      <4>1. e \in Int /\ e - nextId + 1 \in 2..Len(queues.spawn)
        BY <1>0, <1>2, <1>3, <1>4 DEF SpawnedBy, Ids
      <4>2. e - nextId + 1 \in DOMAIN queues.spawn /\ e - nextId + 1 # 1
        BY <1>0, <4>1
      <4>3. tl[(e - nextId + 1) - 1] = queues.spawn[e - nextId + 1]
        BY <1>1, <4>2 DEF Splits
      <4>4. e - nextId' + 1 = (e - nextId + 1) - 1
        BY <1>0, <1>2, <4>1
      <4> QED
        BY <4>3, <4>4
    <3> QED
      BY <1>3, <1>6, <2>2, <3>1, <3>2 DEF CellEffect
  <2> QED
    BY <2>1, <2>2
<1>9. ASSUME NEW e \in Ids
      PROVE  StateEffect(state', nextId', queues', e)
                 = StateEffect(state, nextId, queues, e)
  <2>1. state'[e] = IF e = nextId THEN "Active" ELSE state[e]
    BY <1>0, <1>2
  <2> QED
    BY <1>3, <1>6, <2>1 DEF StateEffect
<1>10. ASSUME Remaining(state', rows', queues') PROVE Remaining(state, rows, queues)
  <2>1. \A i \in DOMAIN queues.spawn, t \in Types : queues.spawn[i][t] \notin Malformed
    <3>1. \A i \in DOMAIN tl, t \in Types : tl[i][t] \notin Malformed
      BY <1>3, <1>10 DEF Remaining, Clean
    <3> QED
      BY <1>1, <1>2, <3>1 DEF Splits, CanSpawn
  <2>2. Clean(queues)
    BY <1>3, <1>10, <2>1 DEF Remaining, Clean
  <2> QED
    BY <1>0, <2>2 DEF Remaining
<1>11. nextId' + Len(queues'.spawn) = nextId + Len(queues.spawn)
  BY <1>0, <1>2, <1>3, <1>4
<1> QED
  BY <1>2, <1>3, <1>8, <1>9, <1>10, <1>11 DEF KeepsEffect

-----------------------------------------------------------------------------
(* The invariant of a running batch. *)

EInv ==
    transaction =>
        /\ \A e \in Ids : StateEffect(state, nextId, queues, e)
                              = StateEffect(image.state, image.nextId, image.queues, e)
        /\ nextId + Len(queues.spawn) = image.nextId + Len(image.queues.spawn)
        /\ archive \cup Entries(queues.destroy)
               = image.archive \cup Entries(image.queues.destroy)
        /\ \A t \in Types, e \in Ids :
               CellEffect(rows, nextId, queues, t, e)
                   = CellEffect(image.rows, image.nextId, image.queues, t, e)
        /\ Remaining(state, rows, queues) => Clean(image.queues)

Operation == ApplySpawn \/ ApplyAdd \/ ApplyModify \/ ApplyRemove \/ ApplyDestroy

\* An operation goes on with its batch or takes all of it back.
LEMMA OperationOutcome ==
    ASSUME IInv, Operation
    PROVE  /\ transaction
           /\ \/ transaction' /\ image' = image /\ KeepsEffect
              \/ ~transaction' /\ RestoreRollbackSnapshot(image)
<1>1. transaction
  BY DEF Operation, ApplySpawn, ApplyAdd, ApplyModify, ApplyRemove, ApplyDestroy
<1>2. CASE transaction'
  <2>1. KeepsEffect
    BY <1>2, RunningBatch, SpawnKeeps, AddKeeps, ModifyKeeps, RemoveKeeps,
       DestroyKeeps DEF Operation
  <2>2. image' = image
    BY <1>2 DEF Operation, ApplySpawn, ApplyAdd, ApplyModify, ApplyRemove,
       ApplyDestroy, RollbackAfterFailure, EndBatch, Drain
  <2> QED
    BY <1>1, <1>2, <2>1, <2>2
<1>3. CASE ~transaction'
  <2>1. RestoreRollbackSnapshot(image)
    BY <1>1, <1>3 DEF Operation, ApplySpawn, ApplyAdd, ApplyModify, ApplyRemove,
       ApplyDestroy, RollbackAfterFailure, Drain
  <2> QED
    BY <1>1, <1>3, <2>1
<1> QED
  BY <1>2, <1>3

LEMMA StepEInv == IInv /\ EInv /\ [Next]_vars => EInv'
<1> SUFFICES ASSUME IInv, EInv, [Next]_vars, transaction' PROVE EInv'
  BY DEF EInv
<1>1. CASE Request \/ DisableEntity \/ EnableEntity
  BY <1>1 DEF Request, RequestSpawn, RequestAddComponent, RequestModifyComponent,
     RequestRemoveComponent, RequestDestroy, DiscardAll, DisableEntity,
     EnableEntity, Accepting, Queue, batch
<1>2. CASE BeginBatch
  <2>1. /\ image'.state = state /\ image'.nextId = nextId
        /\ image'.archive = archive /\ image'.rows = rows
        /\ image'.queues = queues
        /\ UNCHANGED <<state, nextId, archive, rows, queues>>
    BY <1>2 DEF BeginBatch, RollbackSnapshot, store, tables
  <2> QED
    BY <2>1 DEF EInv, Remaining
<1>3. CASE Operation
  <2>1. transaction /\ image' = image /\ KeepsEffect
    BY <1>3, OperationOutcome
  <2> QED
    BY <2>1 DEF EInv, KeepsEffect
<1>4. CASE CommitBatch
  BY <1>4 DEF CommitBatch, EndBatch
<1>5. CASE UNCHANGED vars
  BY <1>5 DEF vars, store, tables, batch, EInv
<1> QED
  BY <1>1, <1>2, <1>3, <1>4, <1>5 DEF Next, Apply, Operation

-----------------------------------------------------------------------------
(* The refinement, step by step. *)

LEMMA InitRefines == Init => Promised!Init
<1> SUFFICES ASSUME Init PROVE Promised!Init
  OBVIOUS
<1>1. ~transaction
  BY DEF Init
<1> QED
  BY <1>1 DEF Init, Promised!Init, Promised!Ids, Ids, Promised!NoRows, NoRows,
     Promised!EmptyQueues, EmptyQueues

\* One request more, or all of them dropped.
LEMMA RequestRefines == IInv /\ Request => Promised!Next
<1> SUFFICES ASSUME IInv, Request PROVE Promised!Next
  OBVIOUS
<1>0. /\ ~transaction /\ ~transaction' /\ queues \in Queues
      /\ UNCHANGED <<state, nextId, archive, rows>>
  BY DEF Request, RequestSpawn, RequestAddComponent, RequestModifyComponent,
     RequestRemoveComponent, RequestDestroy, DiscardAll, Accepting, Queue,
     store, tables, batch, IInv, WorldOK, WorldTyped
<1>1. CASE DiscardAll
  <2>1. queues' = EmptyQueues
    BY <1>1 DEF DiscardAll
  <2>2. Promised!Discard
    BY <1>0, <2>1 DEF Promised!Discard, Promised!world, Promised!EmptyQueues,
       EmptyQueues
  <2> QED
    BY <2>2 DEF Promised!Next
<1>2. CASE ~DiscardAll
  <2>1. Pending(queues') = Pending(queues) + 1
    <3>1. \A S : \A s \in Seq(S), x \in S : Len(s) \in Nat /\ Len(Append(s, x)) = Len(s) + 1
      OBVIOUS
    <3>2. \/ \E x \in SpawnRequests : Queue("spawn", x)
          \/ \E x \in WriteRequests : Queue("add", x) \/ Queue("modify", x)
          \/ \E x \in RemoveRequests : Queue("remove", x)
          \/ \E x \in DestroyRequests : Queue("destroy", x)
      BY <1>2 DEF Request, RequestSpawn, RequestAddComponent,
         RequestModifyComponent, RequestRemoveComponent, RequestDestroy
    <3>3. CASE \E x \in SpawnRequests : Queue("spawn", x)
      BY <1>0, <3>1, <3>3 DEF Queue, Queues, Pending
    <3>4. CASE \E x \in WriteRequests : Queue("add", x)
      BY <1>0, <3>1, <3>4 DEF Queue, Queues, Pending
    <3>5. CASE \E x \in WriteRequests : Queue("modify", x)
      BY <1>0, <3>1, <3>5 DEF Queue, Queues, Pending
    <3>6. CASE \E x \in RemoveRequests : Queue("remove", x)
      BY <1>0, <3>1, <3>6 DEF Queue, Queues, Pending
    <3>7. CASE \E x \in DestroyRequests : Queue("destroy", x)
      BY <1>0, <3>1, <3>7 DEF Queue, Queues, Pending
    <3> QED
      BY <3>2, <3>3, <3>4, <3>5, <3>6, <3>7
  <2>2. Promised!Request
    BY <1>0, <2>1 DEF Promised!Request, Promised!world, Promised!Pending, Pending
  <2> QED
    BY <2>2 DEF Promised!Next
<1> QED
  BY <1>1, <1>2

LEMMA ToggleRefines == IInv /\ (DisableEntity \/ EnableEntity) => Promised!Next
<1> SUFFICES ASSUME IInv, DisableEntity \/ EnableEntity PROVE Promised!Next
  OBVIOUS
<1>1. PICK e \in Ids :
         /\ state[e] \in Present
         /\ state' = [state EXCEPT ![e] =
                         IF @ = "Active" THEN "Disabled" ELSE "Active"]
         /\ ~transaction
         /\ UNCHANGED <<nextId, archive, tables, queues, batch>>
  BY DEF DisableEntity, EnableEntity, Present
<1>2. ~transaction' /\ UNCHANGED rows
  BY <1>1 DEF tables, batch
<1>3. Promised!Toggle
  BY <1>1, <1>2 DEF Promised!Toggle, Promised!Ids, Ids, Promised!Present, Present
<1> QED
  BY <1>3 DEF Promised!Next

\* Nothing is seen of a batch that begins, of its operations, or of one that
\* is taken back.
LEMMA BeginRefines == BeginBatch => UNCHANGED Promised!vars
  BY DEF BeginBatch, RollbackSnapshot, store, tables, Promised!vars

LEMMA OperationRefines == IInv /\ Operation => UNCHANGED Promised!vars
<1> SUFFICES ASSUME IInv, Operation PROVE UNCHANGED Promised!vars
  OBVIOUS
<1>1. transaction
  BY OperationOutcome
<1>2. CASE transaction' /\ image' = image
  BY <1>1, <1>2 DEF Promised!vars
<1>3. CASE ~transaction' /\ RestoreRollbackSnapshot(image)
  <2>1. ArchiveRebuilt(image) = image.archive
    BY <1>1 DEF IInv, ImageOK, WorldOK, LedgerOK, ArchiveRebuilt
  <2> QED
    BY <1>1, <1>3, <2>1 DEF Promised!vars, RestoreRollbackSnapshot
<1> QED
  BY <1>2, <1>3, OperationOutcome

\* A batch that ends shows all its effect at once.
LEMMA CommitRefines == IInv /\ EInv /\ CommitBatch => Promised!Next
<1> SUFFICES ASSUME IInv, EInv, CommitBatch PROVE Promised!Next
  OBVIOUS
<1>0. /\ transaction /\ ~transaction' /\ queues = EmptyQueues
      /\ UNCHANGED <<state, nextId, archive, rows, queues>>
  BY DEF CommitBatch, EndBatch, store, tables
<1>1. /\ queues.spawn = << >> /\ queues.add = << >> /\ queues.modify = << >>
      /\ queues.remove = << >> /\ queues.destroy = << >>
  BY <1>0 DEF EmptyQueues
<1>2. nextId \in Nat /\ state \in [Ids -> Lifecycle] /\ rows \in Rows
  BY RunningBatch DEF Running
<1>3. SpawnedBy(nextId, queues) = {}
  BY <1>1, <1>2, EmptyNames DEF SpawnedBy
<1>4. \A e \in Ids : StateEffect(state, nextId, queues, e) = state[e]
  BY <1>1, <1>3, EmptyNames DEF StateEffect
<1>5. \A t \in Types, e \in Ids : CellEffect(rows, nextId, queues, t, e) = rows[t][e]
  BY <1>1, <1>3, EmptyNames DEF CellEffect
<1>6. Clean(image.queues)
  <2>1. Remaining(state, rows, queues)
    BY <1>1 DEF Remaining, Clean
  <2> QED
    BY <1>0, <2>1 DEF EInv
<1>7. ~Promised!Conflicted(image.queues)
  BY <1>6, CleanIffNoConflict DEF Promised!Conflicted, Conflicted, Promised!Repeats,
     Repeats, Promised!SameCell, SameCell, Promised!Entries, Entries
<1>8. state' = [e \in Ids |-> StateEffect(image.state, image.nextId, image.queues, e)]
  BY <1>0, <1>2, <1>4 DEF EInv
<1>9. rows' = [t \in Types |-> [e \in Ids |->
                  CellEffect(image.rows, image.nextId, image.queues, t, e)]]
  BY <1>0, <1>2, <1>5 DEF EInv, Rows
<1>10. nextId' = image.nextId + Len(image.queues.spawn)
  BY <1>0, <1>1, <1>2, EmptyNames DEF EInv
<1>11. archive' = image.archive \cup Entries(image.queues.destroy)
  BY <1>0, <1>1, EmptyNames DEF EInv
<1>12. \A e \in Ids : StateEffect(image.state, image.nextId, image.queues, e)
                          = IF e \in Entries(image.queues.destroy) THEN "Archived"
                            ELSE IF e \in SpawnedBy(image.nextId, image.queues)
                                 THEN "Active"
                            ELSE image.state[e]
  BY DEF StateEffect
<1>13. Promised!StateAfter(image.queues)
           = [e \in Ids |-> StateEffect(image.state, image.nextId, image.queues, e)]
  BY <1>0, <1>12 DEF Promised!StateAfter, Promised!Destroyed, Promised!Spawned,
     Promised!Ids, Ids, Promised!Entries, Entries, SpawnedBy
<1>14. ASSUME NEW t \in Types, NEW e \in Ids
       PROVE  Promised!CellAfter(image.queues, t, e)
                  = CellEffect(image.rows, image.nextId, image.queues, t, e)
  BY <1>0 DEF Promised!CellAfter, CellEffect, Promised!Destroyed, Promised!Spawned,
     Promised!Entries, Entries, SpawnedBy
<1>15. Promised!Commit
  BY <1>0, <1>1, <1>7, <1>8, <1>9, <1>10, <1>11, <1>13, <1>14
     DEF Promised!Commit, Promised!Destroyed, Promised!Entries, Entries,
         Promised!Ids, Ids, Promised!EmptyQueues, EmptyQueues
<1> QED
  BY <1>15 DEF Promised!Next

LEMMA StepRefines == IInv /\ EInv /\ [Next]_vars => [Promised!Next]_(Promised!vars)
<1> SUFFICES ASSUME IInv, EInv, [Next]_vars
             PROVE  Promised!Next \/ UNCHANGED Promised!vars
  OBVIOUS
<1>1. CASE UNCHANGED vars
  BY <1>1 DEF vars, store, tables, batch, Promised!vars
<1> QED
  BY <1>1, RequestRefines, ToggleRefines, BeginRefines, OperationRefines,
     CommitRefines DEF Next, Apply, Operation

\* All or nothing, for any types, payloads, queues and worlds: apply_all, which
\* works through its queues one operation at a time and restores its rollback
\* image on a failure, is seen by its callers as one step that has the effect of
\* every queued request, or as no step at all.
THEOREM GateImplementsAtomicGate == Spec => ImplementsAtomicGate
<1>1. Init => EInv
  BY DEF Init, EInv
<1>2. Spec => [](IInv /\ EInv)
  BY <1>1, Inductive, StepEInv, PTL DEF Spec
<1> QED
  BY <1>2, InitRefines, StepRefines, PTL
     DEF Spec, ImplementsAtomicGate, Promised!Spec
=============================================================================
