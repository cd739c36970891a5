-------------------------- MODULE QueryEngineProofs --------------------------
(***************************************************************************)
(* Proofs about QueryEngine, for any tables, any queries and any bounds.   *)
(*                                                                         *)
(* A stamp is the sum of the tables' write counters, so two different sets *)
(* of counters can have one sum, and a rolled-back batch gives its numbers *)
(* out again.  The argument: of the world queries are answered from (the   *)
(* image's, while a batch runs) every counter only grows, a table whose    *)
(* counter stays has the rows it had, and a sum of counters that only grew *)
(* is the same only when all of them are.  So when the sum is again the    *)
(* one an entry was stored under, nothing has changed in between.          *)
(*                                                                         *)
(* The first part is about SumFunction itself.  What a recursive function  *)
(* gives for every finite set is proved from the least cardinality of a    *)
(* set for which it would not.                                             *)
(***************************************************************************)
EXTENDS QueryEngine, MutationGateProofs, FiniteSetTheorems, WellFoundedInduction

\* The element of a set that a fold takes next.
Pick(s) == CHOOSE x \in s : TRUE

\* The equation of the function by which SumFunction adds up the values of f at
\* the members of a set, for the sets in D.
Sums(f, D, iter) ==
    iter = [s \in D |-> IF s = {} THEN 0
                        ELSE f[Pick(s)] + iter[s \ {Pick(s)}]]

SmallSubsets(S, n) == {s \in SUBSET S : Cardinality(s) <= n}

\* The next element is one of the set.
LEMMA PickIsMember == ASSUME NEW s, s # {} PROVE Pick(s) \in s
  BY DEF Pick

\* A set of numbers has a least member.
LEMMA LeastMember ==
    ASSUME NEW N, N \subseteq Nat, N # {}
    PROVE  \E n \in N : \A m \in N : n <= m
<1>1. IsWellFoundedOn(OpToRel(<, Nat), Nat)
  BY NatLessThanWellFounded
<1>2. PICK n \in N : \A m \in N : ~(<<m, n>> \in OpToRel(<, Nat))
  BY <1>1, WFMin
<1>3. \A m \in N : ~(m < n)
  BY <1>2 DEF OpToRel
<1> QED
  BY <1>3

\* A function that obeys the equation of the sum exists, for the sets of up to
\* n elements, by adding one layer to that of the sets of up to n - 1.
LEMMA SumsUpTo ==
    ASSUME NEW S, IsFiniteSet(S), NEW f, NEW n \in Nat
    PROVE  \E iter : Sums(f, SmallSubsets(S, n), iter)
<1> DEFINE Bad == {m \in Nat : ~ \E iter : Sums(f, SmallSubsets(S, m), iter)}
<1> SUFFICES ASSUME Bad # {} PROVE FALSE
  OBVIOUS
<1>1. PICK m \in Bad : \A k \in Bad : m <= k
  BY LeastMember
<1>2. CASE m = 0
  <2>1. SmallSubsets(S, 0) = {{}}
    <3>1. \A s \in SUBSET S : IsFiniteSet(s) /\ Cardinality(s) \in Nat
      BY FS_Subset, FS_CardinalityType
    <3> QED
      BY <3>1, FS_EmptySet DEF SmallSubsets
  <2>2. Sums(f, {{}}, [s \in {{}} |-> 0])
    BY DEF Sums
  <2> QED
    BY <1>2, <2>1, <2>2
<1>3. CASE m # 0
  <2>1. m - 1 \in Nat /\ m - 1 \notin Bad
    BY <1>1, <1>3
  <2>2. PICK g : Sums(f, SmallSubsets(S, m - 1), g)
    BY <2>1
  <2> DEFINE h == [s \in SmallSubsets(S, m) |->
                      IF s = {} THEN 0 ELSE f[Pick(s)] + g[s \ {Pick(s)}]]
  <2>3. \A s \in SmallSubsets(S, m - 1) : s \in SmallSubsets(S, m) /\ h[s] = g[s]
    <3> TAKE s \in SmallSubsets(S, m - 1)
    <3>1. s \in SmallSubsets(S, m)
      <4>1. IsFiniteSet(s) /\ Cardinality(s) \in Nat
        BY FS_Subset, FS_CardinalityType DEF SmallSubsets
      <4> QED
        BY <2>1, <4>1 DEF SmallSubsets
    <3> QED
      BY <2>2, <3>1 DEF Sums
  <2>4. \A s \in SmallSubsets(S, m) :
           s # {} => s \ {Pick(s)} \in SmallSubsets(S, m - 1)
    <3> SUFFICES ASSUME NEW s \in SmallSubsets(S, m), s # {}
                 PROVE  s \ {Pick(s)} \in SmallSubsets(S, m - 1)
      OBVIOUS
    <3>1. IsFiniteSet(s) /\ Cardinality(s) \in Nat
      BY FS_Subset, FS_CardinalityType DEF SmallSubsets
    <3>2. Cardinality(s \ {Pick(s)}) = Cardinality(s) - 1
      BY <3>1, PickIsMember, FS_RemoveElement
    <3> QED
      BY <2>1, <3>1, <3>2 DEF SmallSubsets
  <2>5. \A s \in SmallSubsets(S, m) :
           s # {} => h[s \ {Pick(s)}] = g[s \ {Pick(s)}]
    BY <2>3, <2>4
  <2>6. Sums(f, SmallSubsets(S, m), h)
    <3> DEFINE u == [s \in SmallSubsets(S, m) |->
                        IF s = {} THEN 0 ELSE f[Pick(s)] + h[s \ {Pick(s)}]]
    <3>1. \A s \in SmallSubsets(S, m) : u[s] = h[s]
      <4> HIDE DEF h
      <4> SUFFICES ASSUME NEW s \in SmallSubsets(S, m) PROVE u[s] = h[s]
        OBVIOUS
      <4>1. h[s] = IF s = {} THEN 0 ELSE f[Pick(s)] + g[s \ {Pick(s)}]
        BY DEF h
      <4> QED
        BY <4>1, <2>5
    <3>2. h = u
      BY <3>1
    <3> QED
      BY <3>2 DEF Sums
  <2> QED
    BY <2>6
<1> QED
  BY <1>2, <1>3

\* What SumFunction computes: there is a function of the subsets of a finite
\* domain that obeys the equation of the sum.
LEMMA SumObeysItsEquation ==
    ASSUME NEW S, IsFiniteSet(S), NEW f, DOMAIN f = S
    PROVE  \E iter : Sums(f, SUBSET S, iter) /\ SumFunction(f) = iter[S]
<1>1. SmallSubsets(S, Cardinality(S)) = SUBSET S /\ Cardinality(S) \in Nat
  BY FS_Subset, FS_CardinalityType DEF SmallSubsets
<1>2. \E iter : Sums(f, SUBSET S, iter)
  <2>1. \E iter : Sums(f, SmallSubsets(S, Cardinality(S)), iter)
    BY <1>1, SumsUpTo
  <2> QED
    BY <1>1, <2>1
<1> DEFINE it == CHOOSE iter : Sums(f, SUBSET S, iter)
<1>3. Sums(f, SUBSET S, it)
  BY <1>2
<1>4. SumFunction(f) = it[S]
  BY DEF SumFunction, SumFunctionOnSet, FoldFunctionOnSet, MapThenFoldSet, Sums, Pick
<1> QED
  BY <1>3, <1>4

\* A sum grows with its terms, and two sums of terms that only grew are the
\* same only when every term is.
LEMMA SumMonotone ==
    ASSUME NEW S, IsFiniteSet(S), NEW f \in [S -> Nat], NEW g \in [S -> Nat],
           \A x \in S : f[x] <= g[x]
    PROVE  /\ SumFunction(f) \in Nat /\ SumFunction(g) \in Nat
           /\ SumFunction(f) <= SumFunction(g)
           /\ SumFunction(f) = SumFunction(g) => f = g
<1>1. PICK i : Sums(f, SUBSET S, i) /\ SumFunction(f) = i[S]
  BY SumObeysItsEquation
<1>2. PICK j : Sums(g, SUBSET S, j) /\ SumFunction(g) = j[S]
  BY SumObeysItsEquation
<1> DEFINE Good(s) == /\ i[s] \in Nat /\ j[s] \in Nat
                      /\ i[s] <= j[s]
                      /\ i[s] = j[s] => \A x \in s : f[x] = g[x]
           Bad == {n \in Nat : \E s \in SUBSET S : Cardinality(s) = n /\ ~Good(s)}
<1>3. Bad = {}
  <2> SUFFICES ASSUME Bad # {} PROVE FALSE
    OBVIOUS
  <2>1. PICK n \in Bad : \A k \in Bad : n <= k
    BY LeastMember
  <2>2. PICK s \in SUBSET S : Cardinality(s) = n /\ ~Good(s)
    BY <2>1
  <2>3. CASE s = {}
    <3>1. i[s] = 0 /\ j[s] = 0
      BY <1>1, <1>2, <2>3 DEF Sums
    <3> QED
      BY <2>2, <2>3, <3>1
  <2>4. CASE s # {}
    <3> DEFINE x == Pick(s)
               r == s \ {x}
    <3>1. x \in s /\ x \in S /\ r \in SUBSET S
      BY <2>4, PickIsMember
    <3>2. Cardinality(r) = n - 1 /\ n - 1 \in Nat
      <4>1. IsFiniteSet(s) /\ IsFiniteSet(r)
        BY FS_Subset, <3>1
      <4>2. Cardinality(r) = Cardinality(s) - 1 /\ Cardinality(r) \in Nat
        BY <4>1, <3>1, FS_RemoveElement, FS_CardinalityType
      <4> QED
        BY <4>2, <2>2
    <3>3. Good(r)
      BY <2>1, <3>1, <3>2
    <3>4. i[s] = f[x] + i[r] /\ j[s] = g[x] + j[r]
      BY <1>1, <1>2, <2>4, <3>1 DEF Sums
    <3>5. f[x] \in Nat /\ g[x] \in Nat /\ f[x] <= g[x]
      BY <3>1
    <3>6. i[s] \in Nat /\ j[s] \in Nat /\ i[s] <= j[s]
             /\ (i[s] = j[s] => i[r] = j[r] /\ f[x] = g[x])
      BY <3>3, <3>4, <3>5
    <3>7. Good(s)
      BY <3>3, <3>6
    <3> QED
      BY <2>2, <3>7
  <2> QED
    BY <2>3, <2>4
<1>4. Good(S)
  <2>1. Cardinality(S) \in Nat
    BY FS_CardinalityType
  <2> QED
    BY <1>3, <2>1
<1> QED
  BY <1>1, <1>2, <1>4
-----------------------------------------------------------------------------
(* The invariant. *)

\* The world queries are answered from: during a batch, the one of its image.
CommittedVersion == IF transaction THEN image.version ELSE version
CommittedRows == IF transaction THEN image.rows ELSE rows

\* What a scan of the tables rw finds.
Scan(rw, k) ==
    IF k \subseteq Registered
    THEN {e \in Ids : \A t \in k : rw[t][e] # NoRow}
    ELSE {}

\* Since the image was taken no counter went back, and a table whose counter
\* did not move has the rows it had.
WritesAreCounted ==
    transaction =>
        \A t \in Types :
            /\ image.version[t] <= version[t]
            /\ image.version[t] = version[t] => rows[t] = image.rows[t]

\* An entry's stamp is no sum yet to come, and an entry whose stamp is the sum
\* of the committed counters is what a scan of the committed tables finds.
StampsAreHonest ==
    /\ cache = [k \in Keys |-> cache[k]]
    /\ \A k \in Keys :
          cache[k] # NoEntry =>
              /\ cache[k].stamp \in Nat
              /\ cache[k].stamp <= SumFunction(CommittedVersion)
              /\ cache[k].stamp = SumFunction(CommittedVersion) =>
                    cache[k].ids = Scan(CommittedRows, k)

CacheInv == IInv /\ WritesAreCounted /\ StampsAreHonest

\* An empty cache is honest.
LEMMA InitCacheInv == QInit => CacheInv
<1> SUFFICES ASSUME QInit PROVE CacheInv
  OBVIOUS
<1>1. IInv
  BY InitIInv DEF QInit
<1>2. WritesAreCounted
  BY DEF QInit, Init, WritesAreCounted
<1>3. StampsAreHonest
  BY DEF QInit, StampsAreHonest
<1> QED
  BY <1>1, <1>2, <1>3 DEF CacheInv

\* A step counts what it writes.
StepCounts ==
    \A t \in Types : /\ version'[t] \in Nat
                     /\ version[t] <= version'[t]
                     /\ version[t] = version'[t] => rows'[t] = rows[t]

\* A counting step of a batch keeps what was counted since its image.
LEMMA OperationCounts ==
    ASSUME IInv, transaction, WritesAreCounted,
           UNCHANGED <<transaction, image>>, StepCounts
    PROVE  WritesAreCounted'
<1>1. \A t \in Types : version[t] \in Nat /\ image.version[t] \in Nat
  BY DEF IInv, WorldOK, WorldTyped, ImageOK
<1> QED
  BY <1>1 DEF WritesAreCounted, StepCounts

\* The write of one row counts.
LEMMA WriteRowCounts ==
    ASSUME IInv, NEW e \in Ids, NEW t \in Types, NEW cell, WriteRow(e, t, cell)
    PROVE  StepCounts
<1>1. version \in [Types -> Nat] /\ rows \in [Types -> [Ids -> Cells]]
  BY DEF IInv, WorldOK, WorldTyped, Rows
<1> QED
  BY <1>1 DEF WriteRow, StepCounts

\* A step inside a batch keeps the count.
LEMMA BatchCounts ==
    ASSUME IInv, WritesAreCounted, [Next]_vars, transaction, transaction'
    PROVE  WritesAreCounted' /\ image' = image
<1>0. /\ version \in [Types -> Nat] /\ rows \in [Types -> [Ids -> Cells]]
      /\ queues \in Queues /\ nextId \in 1..MaxId + 1
  BY DEF IInv, WorldOK, WorldTyped, Rows
<1>1. CASE UNCHANGED vars
  BY <1>1 DEF vars, store, tables, batch, WritesAreCounted
<1>2. CASE Request \/ DisableEntity \/ EnableEntity \/ BeginBatch \/ CommitBatch
  BY <1>2 DEF Request, RequestSpawn, RequestAddComponent, RequestModifyComponent,
      RequestRemoveComponent, RequestDestroy, DiscardAll, Accepting,
      DisableEntity, EnableEntity, BeginBatch, CommitBatch, EndBatch
<1>3. CASE ApplySpawn
  <2> DEFINE init == Head(queues.spawn)
  <2>1. /\ rows' = [t \in Types |-> [rows[t] EXCEPT ![nextId] =
                         IF init[t] = NoRow THEN @ ELSE init[t]]]
        /\ version' = [t \in Types |-> IF init[t] = NoRow THEN version[t]
                                         ELSE version[t] + 1]
        /\ UNCHANGED <<transaction, image>>
    BY <1>3 DEF ApplySpawn, RollbackAfterFailure, EndBatch, Drain
  <2>2. StepCounts
    BY <1>0, <2>1 DEF StepCounts
  <2> QED
    BY <2>1, <2>2, OperationCounts
<1>4. CASE ApplyAdd
  <2> DEFINE r == Head(queues.add)
  <2>1. /\ WriteRow(r.entity, r.type, r.payload)
        /\ UNCHANGED <<transaction, image>>
    BY <1>4 DEF ApplyAdd, RollbackAfterFailure, EndBatch, Drain
  <2>2. r \in WriteRequests
    BY <1>0, <1>4 DEF ApplyAdd, Queues
  <2> QED
    BY <2>1, <2>2, WriteRowCounts, OperationCounts DEF WriteRequests
<1>5. CASE ApplyModify
  <2> DEFINE r == Head(queues.modify)
  <2>1. /\ WriteRow(r.entity, r.type, r.payload)
        /\ UNCHANGED <<transaction, image>>
    BY <1>5 DEF ApplyModify, RollbackAfterFailure, EndBatch, Drain
  <2>2. r \in WriteRequests
    BY <1>0, <1>5 DEF ApplyModify, Queues
  <2> QED
    BY <2>1, <2>2, WriteRowCounts, OperationCounts DEF WriteRequests
<1>6. CASE ApplyRemove
  <2> DEFINE r == Head(queues.remove)
  <2>1. /\ WriteRow(r.entity, r.type, NoRow)
        /\ UNCHANGED <<transaction, image>>
    BY <1>6 DEF ApplyRemove, RollbackAfterFailure, EndBatch, Drain
  <2>2. r \in RemoveRequests
    BY <1>0, <1>6 DEF ApplyRemove, Queues
  <2> QED
    BY <2>1, <2>2, WriteRowCounts, OperationCounts DEF RemoveRequests
<1>7. CASE ApplyDestroy
  <2> DEFINE e == Head(queues.destroy)
  <2>1. /\ RemoveAllForEntity(e)
        /\ UNCHANGED <<transaction, image>>
    BY <1>7 DEF ApplyDestroy, RollbackAfterFailure, EndBatch, Drain
  <2>2. StepCounts
    BY <1>0, <2>1 DEF RemoveAllForEntity, HasComponent, StepCounts
  <2> QED
    BY <2>1, <2>2, OperationCounts
<1> QED
  BY <1>1, <1>2, <1>3, <1>4, <1>5, <1>6, <1>7 DEF Next, Apply

\* A step of the gate takes the committed counters forward, and a table whose
\* counter stays keeps its rows.
CommitsForward ==
    \A t \in Types :
        /\ CommittedVersion[t] <= CommittedVersion'[t]
        /\ CommittedVersion[t] = CommittedVersion'[t] =>
              CommittedRows'[t] = CommittedRows[t]

\* Beginning, committing and rolling back a batch included.
LEMMA GateStep ==
    ASSUME IInv, WritesAreCounted, [Next]_vars
    PROVE  WritesAreCounted' /\ CommitsForward
<1>0. /\ version \in [Types -> Nat]
      /\ transaction \in BOOLEAN
      /\ transaction => image.version \in [Types -> Nat]
  BY DEF IInv, WorldOK, WorldTyped, ImageOK
<1>1. CASE transaction /\ transaction'
  <2>1. WritesAreCounted' /\ image' = image
    BY <1>1, BatchCounts
  <2> QED
    BY <1>0, <1>1, <2>1 DEF CommitsForward, CommittedVersion, CommittedRows
<1>2. CASE transaction /\ ~transaction'
  <2>1. WritesAreCounted'
    BY <1>2 DEF WritesAreCounted
  <2>2. \/ UNCHANGED <<version, rows>>
        \/ version' = image.version /\ rows' = image.rows
    BY <1>2 DEF vars, store, tables, batch, Next, Request, RequestSpawn,
        RequestAddComponent, RequestModifyComponent, RequestRemoveComponent,
        RequestDestroy, DiscardAll, Accepting, DisableEntity, EnableEntity,
        Apply, BeginBatch, CommitBatch, EndBatch, ApplySpawn, ApplyAdd, ApplyModify,
        ApplyRemove, ApplyDestroy, RollbackAfterFailure, RestoreRollbackSnapshot,
        Drain
  <2> QED
    BY <1>0, <1>2, <2>1, <2>2
    DEF WritesAreCounted, CommitsForward, CommittedVersion, CommittedRows
<1>3. CASE ~transaction
  <2>1. UNCHANGED <<version, rows>> /\ (transaction' => image' = RollbackSnapshot)
    BY <1>3 DEF vars, store, tables, batch, Next, Request, RequestSpawn,
        RequestAddComponent, RequestModifyComponent, RequestRemoveComponent,
        RequestDestroy, DiscardAll, Queue, DisableEntity, EnableEntity,
        Apply, BeginBatch, CommitBatch, ApplySpawn, ApplyAdd, ApplyModify,
        ApplyRemove, ApplyDestroy
  <2>2. transaction' => image'.version = version /\ image'.rows = rows
    BY <2>1 DEF RollbackSnapshot
  <2> QED
    BY <1>0, <1>3, <2>1, <2>2
    DEF WritesAreCounted, CommitsForward, CommittedVersion, CommittedRows
<1> QED
  BY <1>0, <1>1, <1>2, <1>3

\* Whatever the gate does, honest stamps stay honest: when the sum comes back to
\* a stamp that was given out, all counters have come back with it.
LEMMA GateKeepsStamps ==
    ASSUME CacheInv, [Next]_vars, UNCHANGED cache
    PROVE  StampsAreHonest'
<1> DEFINE V == CommittedVersion
           W == CommittedVersion'
<1>1. IInv' /\ CommitsForward
  BY StepIInv, GateStep DEF CacheInv
<1>2. V \in [Types -> Nat] /\ W \in [Types -> Nat]
  BY <1>1 DEF CacheInv, IInv, WorldOK, WorldTyped, ImageOK, CommittedVersion
<1>3. /\ SumFunction(V) \in Nat /\ SumFunction(W) \in Nat
      /\ SumFunction(V) <= SumFunction(W)
      /\ SumFunction(V) = SumFunction(W) => V = W
  <2> HIDE DEF V, W
  <2>1. \A t \in Types : V[t] <= W[t]
    BY <1>1 DEF CommitsForward, V, W
  <2> QED
    BY <1>2, <2>1, FiniteTypes, SumMonotone
<1>4. ASSUME NEW k \in Keys, cache[k] # NoEntry
      PROVE  /\ cache[k].stamp \in Nat
             /\ cache[k].stamp <= SumFunction(W)
             /\ cache[k].stamp = SumFunction(W) =>
                    cache[k].ids = Scan(CommittedRows', k)
  <2>1. /\ cache[k].stamp \in Nat
        /\ cache[k].stamp <= SumFunction(V)
        /\ cache[k].stamp = SumFunction(V) =>
              cache[k].ids = Scan(CommittedRows, k)
    BY <1>4 DEF CacheInv, StampsAreHonest
  <2>2. V = W => Scan(CommittedRows, k) = Scan(CommittedRows', k)
    BY <1>1, QueryKeys DEF CommitsForward, Scan
  <2> QED
    BY <1>3, <2>1, <2>2
<1> QED
  BY <1>4 DEF CacheInv, StampsAreHonest

\* A query stores the scan it made under the sum it read.
LEMMA QueryKeepsStamps ==
    ASSUME CacheInv, Query
    PROVE  StampsAreHonest'
<1>1. ~transaction /\ UNCHANGED <<version, rows, transaction>>
  BY DEF Query, vars, tables, batch
<1>2. /\ CommittedVersion = version /\ CommittedVersion' = version
      /\ CommittedRows = rows /\ CommittedRows' = rows
  BY <1>1 DEF CommittedVersion, CommittedRows
<1>3. PICK q \in Keys :
        cache' = [cache EXCEPT ![q] = [ids |-> EntitiesWithAllComponents(q),
                                       stamp |-> CombinedVersion]]
  BY DEF Query
<1>4. EntitiesWithAllComponents(q) = Scan(rows, q)
  BY DEF EntitiesWithAllComponents, HasComponent, Scan
<1>5. CombinedVersion = SumFunction(version) /\ CombinedVersion \in Nat
  <2>1. version \in [Types -> Nat]
    BY DEF CacheInv, IInv, WorldOK, WorldTyped
  <2>2. \A t \in Types : version[t] <= version[t]
    BY <2>1
  <2> QED
    BY <2>1, <2>2, FiniteTypes, SumMonotone DEF CombinedVersion
<1>6. cache = [k \in Keys |-> cache[k]]
  BY DEF CacheInv, StampsAreHonest
<1>7. \A k \in Keys : cache'[k] = IF k = q
            THEN [ids |-> Scan(rows, q), stamp |-> SumFunction(version)]
            ELSE cache[k]
  BY <1>3, <1>4, <1>5, <1>6
<1>8. cache' = [k \in Keys |-> cache'[k]]
  BY <1>3, <1>6
<1>9. ASSUME NEW k \in Keys, cache'[k] # NoEntry
      PROVE  /\ cache'[k].stamp \in Nat
             /\ cache'[k].stamp <= SumFunction(version)
             /\ cache'[k].stamp = SumFunction(version) =>
                    cache'[k].ids = Scan(rows, k)
  <2>1. CASE k = q
    BY <1>5, <1>7, <2>1
  <2>2. CASE k # q
    <3>1. cache'[k] = cache[k]
      BY <1>7, <2>2
    <3> QED
      BY <1>2, <1>9, <3>1 DEF CacheInv, StampsAreHonest
  <2> QED
    BY <2>1, <2>2
<1> QED
  BY <1>2, <1>8, <1>9 DEF StampsAreHonest

\* The invariant is inductive.
LEMMA StepCacheInv == CacheInv /\ [QNext]_qvars => CacheInv'
<1> SUFFICES ASSUME CacheInv, [QNext]_qvars PROVE CacheInv'
  OBVIOUS
<1>1. [Next]_vars /\ (Query \/ UNCHANGED cache)
  BY DEF QNext, qvars, Query
<1>2. IInv' /\ WritesAreCounted'
  BY <1>1, StepIInv, GateStep DEF CacheInv
<1>3. StampsAreHonest'
  BY <1>1, GateKeepsStamps, QueryKeepsStamps
<1> QED
  BY <1>2, <1>3 DEF CacheInv

\* "A cache miss produces the same result as a cache hit": for any tables,
\* queries, batches and rollbacks, a query answered from the cache gives what a
\* scan of the tables gives, although the stamp is only a sum and a rolled-back
\* batch gives its numbers out again.
THEOREM CacheIsTransparent == QSpec => []HitEqualsMiss
<1>1. QInit => CacheInv
  BY InitCacheInv
<1>2. CacheInv /\ [QNext]_qvars => CacheInv'
  BY StepCacheInv
<1>3. CacheInv => HitEqualsMiss
  <2> SUFFICES ASSUME CacheInv, ~transaction, NEW k \in Keys
               PROVE  QueryResult(k) = EntitiesWithAllComponents(k)
    BY DEF HitEqualsMiss
  <2>1. CommittedVersion = version /\ CommittedRows = rows
    BY DEF CommittedVersion, CommittedRows
  <2>2. CacheHit(k) => cache[k].ids = Scan(rows, k)
    BY <2>1 DEF CacheInv, StampsAreHonest, CacheHit, CombinedVersion
  <2>3. EntitiesWithAllComponents(k) = Scan(rows, k)
    BY DEF EntitiesWithAllComponents, HasComponent, Scan
  <2> QED
    BY <2>2, <2>3 DEF QueryResult
<1> QED
  BY <1>1, <1>2, <1>3, PTL DEF QSpec

\* Under the cache the gate is the gate: each step of the engine is a step of
\* the gate or leaves it alone.
THEOREM EngineRunsTheGate == QSpec => Spec
<1>1. QInit => Init
  BY DEF QInit
<1>2. [QNext]_qvars => [Next]_vars
  BY DEF QNext, qvars, Query
<1> QED
  BY <1>1, <1>2, PTL DEF QSpec, Spec

\* What a query finds is there: no id that was destroyed, archived, never given
\* out or taken back by a rollback is in a result, not even in one from the
\* cache.  Whether it is Active is another matter (run query_engine_active).
THEOREM ResultsArePresent ==
    QSpec => [](~transaction =>
                   \A k \in Keys :
                       QueryResult(k) \subseteq {e \in Ids : state[e] \in Present})
<1>1. ASSUME HitEqualsMiss, RowsOfPresentEntities, ~transaction, NEW k \in Keys
      PROVE  QueryResult(k) \subseteq {e \in Ids : state[e] \in Present}
  <2>1. QueryResult(k) = EntitiesWithAllComponents(k)
    BY <1>1 DEF HitEqualsMiss
  <2>2. PICK t \in k : t \in Types
    BY QueryKeys
  <2>3. \A e \in EntitiesWithAllComponents(k) : e \in Ids /\ rows[t][e] # NoRow
    BY <2>2 DEF EntitiesWithAllComponents, HasComponent
  <2> QED
    BY <1>1, <2>1, <2>2, <2>3 DEF RowsOfPresentEntities
<1>2. HitEqualsMiss /\ RowsOfPresentEntities =>
         (~transaction =>
             \A k \in Keys :
                 QueryResult(k) \subseteq {e \in Ids : state[e] \in Present})
  BY <1>1
<1> QED
  BY <1>2, CacheIsTransparent, EngineRunsTheGate, RowsNeverOrphaned, PTL
=============================================================================
