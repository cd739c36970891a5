-------------------------- MODULE BuilderServerProofs --------------------------
(***************************************************************************)
(* Proofs about BuilderServer, for any sessions, any edits and any bounds. *)
(*                                                                         *)
(* The argument: the handler that keeps the event loop is alone            *)
(* (LoopIsExclusive), so what it has written is still there at its next    *)
(* step (Written), and the history it was begun on has not moved (Jobs).   *)
(* Hence its last step makes memory and file the same CGS, reports an edit *)
(* whose plan is on disk, and moves the cursor within the history.  That   *)
(* recording a prompt keeps the history a chain is a fact about            *)
(* RecordApply alone (RecordingKeepsTheChain); so is that it extends the   *)
(* trail of EditTrail, which only Accept and MoveCursor touch.  How far    *)
(* the index may be from the snapshots at each write is a second invariant *)
(* on top of the first (IndexInv).                                         *)
(***************************************************************************)
EXTENDS BuilderServer, FiniteSetTheorems, WellFoundedInduction,
        SequenceTheorems, TLAPS

-----------------------------------------------------------------------------
(* What the list operators of the index return.  Kept is a fold over the    *)
(* positions of a list; that the fold is what its equation says, for every  *)
(* list, is proved from the least number of positions for which it would    *)
(* not be.                                                                  *)

\* The equation of the fold, for the sets of positions in D.
Keeps(seq, S, D, iter) ==
    iter = [p \in D |->
              IF p = {} THEN <<>>
              ELSE IF seq[Max(p)] \in S THEN Append(iter[p \ {Max(p)}], seq[Max(p)])
                   ELSE iter[p \ {Max(p)}]]

\* A set of numbers has a least member.
LEMMA LeastMember ==
    ASSUME NEW N, N \subseteq Nat, N # {}
    PROVE  \E n \in N : \A m \in N : n <= m
<1>1. IsWellFoundedOn(OpToRel(<, Nat), Nat)
  BY NatLessThanWellFounded
<1>2. PICK n \in N : \A m \in N : ~(<<m, n>> \in OpToRel(<, Nat))
  BY <1>1, WFMin
<1>3. \A m \in N : ~(m < n)
  BY <1>2 DEF OpToRel
<1> QED
  BY <1>3

\* A set of positions that is not empty has a last one.
LEMMA MaxIsMember ==
    ASSUME NEW n \in Nat, NEW p \in SUBSET (1..n), p # {}
    PROVE  Max(p) \in p /\ \A i \in p : i <= Max(p)
<1> DEFINE N == {m \in Nat : \E i \in p : m = n - i}
<1>0. \A i \in p : i \in Int /\ n - i \in Nat
  OBVIOUS
<1>1. N \subseteq Nat /\ N # {}
  BY <1>0
<1>2. PICK m \in N : \A k \in N : m <= k
  <2> HIDE DEF N
  <2> QED
    BY <1>1, LeastMember
<1>3. PICK i \in p : m = n - i
  OBVIOUS
<1>4. ASSUME NEW j \in p PROVE i >= j
  <2>1. n - j \in N
    BY <1>0
  <2>2. n - i <= n - j
    BY <1>2, <1>3, <2>1
  <2> QED
    BY <1>0, <2>2
<1>5. \A j \in p : j <= i
  BY <1>0, <1>4
<1> QED
  BY <1>0, <1>4, <1>5 DEF Max

SmallSubsets(S, n) == {s \in SUBSET S : Cardinality(s) <= n}

\* Sets of positions are finite.
LEMMA PositionsFinite ==
    ASSUME NEW n \in Nat, NEW p \in SUBSET (1..n)
    PROVE  IsFiniteSet(p) /\ Cardinality(p) \in Nat /\ Cardinality(p) <= n
<1>1. IsFiniteSet(1..n) /\ Cardinality(1..n) = n
  BY FS_Interval
<1>2. IsFiniteSet(p) /\ Cardinality(p) <= n
  BY <1>1, FS_Subset
<1> QED
  BY <1>2, FS_CardinalityType

\* A function that obeys the equation exists, for the sets of up to c positions.
LEMMA KeepsUpTo ==
    ASSUME NEW n \in Nat, NEW seq, NEW S, NEW c \in Nat
    PROVE  \E iter : Keeps(seq, S, SmallSubsets(1..n, c), iter)
<1> DEFINE D(m) == SmallSubsets(1..n, m)
           Bad == {m \in Nat : ~ \E iter : Keeps(seq, S, D(m), iter)}
<1>0. \A p \in SUBSET (1..n) : IsFiniteSet(p) /\ Cardinality(p) \in Nat
  BY PositionsFinite
<1> SUFFICES ASSUME Bad # {} PROVE FALSE
  OBVIOUS
<1>1. PICK m \in Bad : \A k \in Bad : m <= k
  BY LeastMember
<1>2. CASE m = 0
  <2>1. D(0) = {{}}
    BY <1>0, FS_EmptySet DEF SmallSubsets
  <2>2. Keeps(seq, S, {{}}, [p \in {{}} |-> <<>>])
    BY DEF Keeps
  <2> QED
    BY <1>2, <2>1, <2>2
<1>3. CASE m # 0
  <2>1. m - 1 \in Nat /\ m - 1 \notin Bad
    BY <1>1, <1>3
  <2>2. PICK g : Keeps(seq, S, D(m - 1), g)
    BY <2>1
  <2> DEFINE Layer(k) == [p \in D(m) |->
                 IF p = {} THEN <<>>
                 ELSE IF seq[Max(p)] \in S THEN Append(k[p \ {Max(p)}], seq[Max(p)])
                      ELSE k[p \ {Max(p)}]]
             h == Layer(g)
  <2>3. \A p \in D(m - 1) : p \in D(m) /\ h[p] = g[p]
    <3> TAKE p \in D(m - 1)
    <3>1. p \in D(m)
      BY <1>0, <2>1 DEF SmallSubsets
    <3> QED
      BY <2>2, <3>1 DEF Keeps
  <2>4. ASSUME NEW p \in D(m), p # {}
        PROVE  p \ {Max(p)} \in D(m - 1)
    <3>1. p \in SUBSET (1..n) /\ IsFiniteSet(p) /\ Cardinality(p) \in Nat
      BY <1>0 DEF SmallSubsets
    <3>2. Max(p) \in p
      BY <2>4, <3>1, MaxIsMember
    <3>3. Cardinality(p \ {Max(p)}) = Cardinality(p) - 1
      BY <3>1, <3>2, FS_RemoveElement
    <3>4. Cardinality(p) <= m
      BY DEF SmallSubsets
    <3>5. Cardinality(p \ {Max(p)}) <= m - 1
      BY <2>1, <3>1, <3>3, <3>4
    <3> QED
      BY <3>1, <3>5 DEF SmallSubsets
  <2>5. \A p \in D(m) : p # {} => h[p \ {Max(p)}] = g[p \ {Max(p)}]
    BY <2>3, <2>4
  <2>6. Keeps(seq, S, D(m), h)
    <3>1. \A p \in D(m) : h[p] = Layer(h)[p]
      <4> SUFFICES ASSUME NEW p \in D(m) PROVE h[p] = Layer(h)[p]
        OBVIOUS
      <4> DEFINE hh == h
      <4>1. h[p] = Layer(g)[p]
        OBVIOUS
      <4>2. p # {} => hh[p \ {Max(p)}] = g[p \ {Max(p)}]
        BY <2>5
      <4> HIDE DEF hh
      <4>3. Layer(hh)[p] = Layer(g)[p]
        BY <4>2
      <4> QED
        BY <4>1, <4>3 DEF hh
    <3>2. h = Layer(h)
      BY <3>1
    <3> QED
      BY <3>2 DEF Keeps
  <2> QED
    BY <2>6
<1> QED
  BY <1>2, <1>3

\* The fold is such a function, at all positions.
LEMMA KeptObeysItsEquation ==
    ASSUME NEW T, NEW seq \in Seq(T), NEW S
    PROVE  \E iter : /\ Keeps(seq, S, SUBSET (1..Len(seq)), iter)
                     /\ Kept(seq, S) = iter[1..Len(seq)]
<1> DEFINE n == Len(seq)
<1>1. n \in Nat /\ DOMAIN seq = 1..n
  OBVIOUS
<1>2. SmallSubsets(1..n, n) = SUBSET (1..n)
  BY <1>1, PositionsFinite DEF SmallSubsets
<1>3. \E iter : Keeps(seq, S, SUBSET (1..n), iter)
  <2> HIDE DEF n
  <2>1. \E iter : Keeps(seq, S, SmallSubsets(1..n, n), iter)
    BY <1>1, KeepsUpTo
  <2> QED
    BY <1>2, <2>1
<1> DEFINE it == CHOOSE iter : Keeps(seq, S, SUBSET (DOMAIN seq), iter)
<1>4. Keeps(seq, S, SUBSET (DOMAIN seq), it)
  BY <1>1, <1>3
<1>5. Kept(seq, S) = it[DOMAIN seq]
  BY DEF Kept, FoldLeft, MapThenFoldSet, Keeps
<1> QED
  BY <1>1, <1>4, <1>5

LEMMA AppendToSet ==
    ASSUME NEW T, NEW s \in Seq(T), NEW x \in T
    PROVE  Append(s, x) \in Seq(T) /\ ToSet(Append(s, x)) = ToSet(s) \cup {x}
<1>1. /\ Append(s, x) \in Seq(T)
      /\ DOMAIN s = 1..Len(s) /\ Len(s) \in Nat
      /\ DOMAIN Append(s, x) = 1..Len(s) + 1
      /\ \A i \in 1..Len(s) : Append(s, x)[i] = s[i]
      /\ Append(s, x)[Len(s) + 1] = x
  OBVIOUS
<1>2. 1..Len(s) + 1 = (1..Len(s)) \cup {Len(s) + 1}
  BY <1>1
<1> QED
  BY <1>1, <1>2 DEF ToSet

\* What is kept of a sequence are its elements in S.
LEMMA KeptElements ==
    ASSUME NEW T, NEW seq \in Seq(T), NEW S
    PROVE  Kept(seq, S) \in Seq(T) /\ ToSet(Kept(seq, S)) = ToSet(seq) \cap S
<1> DEFINE n == Len(seq)
           Firsts(m) == {seq[i] : i \in 1..m}
<1>1. PICK iter : /\ Keeps(seq, S, SUBSET (1..n), iter)
                  /\ Kept(seq, S) = iter[1..n]
  BY KeptObeysItsEquation
<1>2. n \in Nat /\ DOMAIN seq = 1..n /\ \A i \in 1..n : seq[i] \in T
  OBVIOUS
<1> DEFINE Good(m) == iter[1..m] \in Seq(T) /\ ToSet(iter[1..m]) = Firsts(m) \cap S
           Bad == {m \in Nat : m <= n /\ ~Good(m)}
<1> HIDE DEF n, Good
<1>3. Bad = {}
  <2> SUFFICES ASSUME Bad # {} PROVE FALSE
    OBVIOUS
  <2>1. PICK m \in Bad : \A k \in Bad : m <= k
    BY LeastMember
  <2>4. m \in Nat /\ m <= n /\ ~Good(m) /\ \A k \in 0..n : ~Good(k) => m <= k
    BY <1>2, <2>1
  <2>2. CASE m = 0
    <3>1. 1..m = {} /\ Firsts(m) = {}
      BY <2>2
    <3>2. iter[1..m] = <<>>
      BY <1>1, <3>1 DEF Keeps
    <3>3. <<>> \in Seq(T) /\ ToSet(<<>>) = {}
      BY DEF ToSet
    <3> QED
      BY <2>4, <3>1, <3>2, <3>3 DEF Good
  <2>3. CASE m # 0
    <3>1. /\ m \in 1..n /\ m \in Nat /\ m - 1 \in Nat
          /\ 1..m \in SUBSET (1..n) /\ 1..m # {} /\ seq[m] \in T
      <4>1. m \in 1..n /\ m \in Nat /\ m - 1 \in Nat
        BY <1>2, <2>4, <2>3
      <4>2. 1..m \subseteq 1..n /\ m \in 1..m
        BY <1>2, <4>1
      <4> QED
        BY <1>2, <4>1, <4>2
    <3>2. Good(m - 1)
      <4>1. m - 1 \in 0..n /\ ~(m <= m - 1)
        BY <1>2, <3>1
      <4> QED
        BY <2>4, <4>1
    <3>3. Max(1..m) = m
      <4>1. Max(1..m) \in 1..m /\ \A i \in 1..m : i <= Max(1..m)
        BY <3>1, MaxIsMember
      <4>2. m <= Max(1..m)
        BY <3>1, <4>1
      <4> QED
        BY <3>1, <4>1, <4>2
    <3>4. (1..m) \ {m} = 1..(m - 1) /\ Firsts(m) = Firsts(m - 1) \cup {seq[m]}
      BY <3>1
    <3>5. iter[1..m] = IF seq[m] \in S THEN Append(iter[1..(m - 1)], seq[m])
                       ELSE iter[1..(m - 1)]
      BY <1>1, <3>1, <3>3, <3>4 DEF Keeps
    <3>6. CASE seq[m] \in S
      <4>1. /\ iter[1..m] \in Seq(T)
            /\ ToSet(iter[1..m]) = ToSet(iter[1..(m - 1)]) \cup {seq[m]}
        BY <3>1, <3>2, <3>5, <3>6, AppendToSet DEF Good
      <4> QED
        BY <2>4, <3>2, <3>4, <3>6, <4>1 DEF Good
    <3>7. CASE seq[m] \notin S
      BY <2>4, <3>2, <3>4, <3>5, <3>7 DEF Good
    <3> QED
      BY <3>6, <3>7
  <2> QED
    BY <2>2, <2>3
<1>4. Good(n)
  <2>1. n \in Nat /\ n <= n
    BY <1>2
  <2> QED
    BY <1>3, <2>1
<1>5. Firsts(n) = ToSet(seq)
  BY <1>2 DEF ToSet
<1> QED
  BY <1>1, <1>4, <1>5 DEF Good

\* A finite set, listed, is a sequence of its elements.
LEMMA SetListed ==
    ASSUME NEW S, IsFiniteSet(S)
    PROVE  SetToSeq(S) \in Seq(S) /\ ToSet(SetToSeq(S)) = S
<1> DEFINE n == Cardinality(S)
           f == SetToSeq(S)
<1>1. n \in Nat /\ ExistsBijection(1..n, S)
  BY FS_CardinalityType
<1>2. PICK g \in [1..n -> S] : IsInjective(g)
  BY <1>1 DEF ExistsBijection, Bijection, Injection, IsInjective
<1>3. f \in [1..n -> S] /\ IsInjective(f)
  BY <1>2 DEF SetToSeq
<1> HIDE DEF f
<1>4. f \in Injection(1..n, S)
  BY <1>3 DEF Injection, IsInjective
<1>5. IsFiniteSet(1..n) /\ Cardinality(1..n) = n
  BY <1>1, FS_Interval
<1>6. f \in Surjection(1..n, S)
  BY <1>4, <1>5, FS_Injection
<1>7. f \in Seq(S) /\ DOMAIN f = 1..n
  BY <1>1, <1>3
<1>8. ToSet(f) = S
  BY <1>3, <1>6, <1>7 DEF ToSet, Surjection
<1> QED
  BY <1>7, <1>8 DEF f

LEMMA ConcatToSet ==
    ASSUME NEW T, NEW a \in Seq(T), NEW b \in Seq(T)
    PROVE  a \o b \in Seq(T) /\ ToSet(a \o b) = ToSet(a) \cup ToSet(b)
<1>1. /\ a \o b \in Seq(T)
      /\ Len(a) \in Nat /\ Len(b) \in Nat
      /\ DOMAIN a = 1..Len(a) /\ DOMAIN b = 1..Len(b)
      /\ DOMAIN (a \o b) = 1..Len(a) + Len(b)
      /\ \A i \in 1..Len(a) + Len(b) :
            (a \o b)[i] = IF i <= Len(a) THEN a[i] ELSE b[i - Len(a)]
  OBVIOUS
<1>2. ToSet(a \o b) \subseteq ToSet(a) \cup ToSet(b)
  <2> SUFFICES ASSUME NEW i \in 1..Len(a) + Len(b)
               PROVE  (a \o b)[i] \in ToSet(a) \cup ToSet(b)
    BY <1>1 DEF ToSet
  <2> QED
    BY <1>1 DEF ToSet
<1>3. ToSet(a) \subseteq ToSet(a \o b)
  <2>1. ASSUME NEW i \in 1..Len(a) PROVE a[i] \in ToSet(a \o b)
    <3>1. i \in DOMAIN (a \o b) /\ (a \o b)[i] = a[i]
      BY <1>1
    <3> QED
      BY <3>1 DEF ToSet
  <2> QED
    BY <1>1, <2>1 DEF ToSet
<1>4. ToSet(b) \subseteq ToSet(a \o b)
  <2>1. ASSUME NEW i \in 1..Len(b) PROVE b[i] \in ToSet(a \o b)
    <3>1. i + Len(a) \in DOMAIN (a \o b) /\ (a \o b)[i + Len(a)] = b[i]
      BY <1>1
    <3> QED
      BY <3>1 DEF ToSet
  <2> QED
    BY <1>1, <2>1 DEF ToSet
<1> QED
  BY <1>1, <1>2, <1>3, <1>4

\* Dropping one record, and putting one first.
LEMMA WithoutElements ==
    ASSUME NEW T, NEW records \in Seq(T), NEW cgs
    PROVE  /\ Without(records, cgs) \in Seq(T)
           /\ ToSet(Without(records, cgs)) = ToSet(records) \ {cgs}
  BY KeptElements DEF Without

LEMMA IndexedElements ==
    ASSUME index \in Seq(CGSs), NEW cgs \in CGSs
    PROVE  Indexed(cgs) \in Seq(CGSs) /\ ToSet(Indexed(cgs)) = ToSet(index) \cup {cgs}
<1> DEFINE head == <<cgs>>
           tail == Without(index, cgs)
<1>1. head \in Seq(CGSs) /\ ToSet(head) = {cgs}
  BY DEF ToSet
<1>2. tail \in Seq(CGSs) /\ ToSet(tail) = ToSet(index) \ {cgs}
  BY WithoutElements
<1>3. Indexed(cgs) = head \o tail
  BY DEF Indexed
<1> HIDE DEF head, tail
<1>4. head \o tail \in Seq(CGSs) /\ ToSet(head \o tail) = ToSet(head) \cup ToSet(tail)
  BY <1>1, <1>2, ConcatToSet
<1> QED
  BY <1>1, <1>2, <1>3, <1>4

\* The verified index lists exactly the snapshots there are.
LEMMA VerifiedElements ==
    ASSUME index \in Seq(CGSs), snapshots \subseteq CGSs, IsFiniteSet(snapshots)
    PROVE  VerifiedIndex \in Seq(CGSs) /\ ToSet(VerifiedIndex) = snapshots
<1>1. IsFiniteSet(Strays) /\ Strays \subseteq CGSs
  BY FS_Subset DEF Strays
<1>2. SetToSeq(Strays) \in Seq(CGSs) /\ ToSet(SetToSeq(Strays)) = Strays
  <2>1. SetToSeq(Strays) \in Seq(Strays)
    BY <1>1, SetListed
  <2> QED
    BY <1>1, <2>1, SetListed
<1>3. /\ Kept(index, snapshots) \in Seq(CGSs)
      /\ ToSet(Kept(index, snapshots)) = ToSet(index) \cap snapshots
  BY KeptElements
<1>4. /\ VerifiedIndex \in Seq(CGSs)
      /\ ToSet(VerifiedIndex) = Strays \cup (ToSet(index) \cap snapshots)
  BY <1>2, <1>3, ConcatToSet DEF VerifiedIndex
<1> QED
  BY <1>4 DEF Strays

-----------------------------------------------------------------------------
(* CGSs and the history. *)

LEMMA FreshIsCGS == Fresh \in CGSs
  <1>1. Fresh \in [1..0 -> Edits]
    BY DEF Fresh
  <1>2. 0 \in 0..MaxEdits
    BY StoreConstants
  <1> QED
    BY <1>1, <1>2 DEF CGSs

LEMMA CGSIsSequence ==
    ASSUME NEW c \in CGSs
    PROVE  c \in Seq(Edits) /\ Len(c) \in 0..MaxEdits
  <1>1. PICK n \in 0..MaxEdits : c \in [1..n -> Edits]
    BY DEF CGSs
  <1>2. n \in Nat
    BY StoreConstants
  <1> QED
    BY <1>1, <1>2

LEMMA AppendIsCGS ==
    ASSUME NEW c \in CGSs, NEW e \in Edits, Len(c) < MaxEdits
    PROVE  Append(c, e) \in CGSs
  <1>1. c \in Seq(Edits) /\ Len(c) \in 0..MaxEdits
    BY CGSIsSequence
  <1>2. Append(c, e) \in Seq(Edits) /\ Len(Append(c, e)) = Len(c) + 1
    BY <1>1
  <1>3. Len(c) + 1 \in 0..MaxEdits
    BY <1>1, StoreConstants
  <1>4. Append(c, e) \in [1..(Len(c) + 1) -> Edits]
    BY <1>2, LenProperties
  <1> QED
    BY <1>3, <1>4 DEF CGSs

\* A set of numbers that is not empty has a minimum.
LEMMA MinIsMember ==
    ASSUME NEW S, S \subseteq Nat, S # {}
    PROVE  Min(S) \in S
  BY LeastMember DEF Min

\* A sequence cut off after n elements, and one more element.
LEMMA CutAndAppend ==
    ASSUME NEW R, NEW q \in Seq(R), NEW n \in 0..Len(q), NEW e \in R
    PROVE  /\ Append(SubSeq(q, 1, n), e) \in Seq(R)
           /\ Len(Append(SubSeq(q, 1, n), e)) = n + 1
           /\ \A k \in 1..n : Append(SubSeq(q, 1, n), e)[k] = q[k]
           /\ Append(SubSeq(q, 1, n), e)[n + 1] = e
  <1>1. /\ Len(q) \in Nat
        /\ \A k \in 1..Len(q) : q[k] \in R
    BY LenProperties
  <1>2. n \in Nat /\ n \in Int /\ 1 \in Int /\ \A k \in 1..n : q[k] \in R
    BY <1>1
  <1>3. /\ SubSeq(q, 1, n) \in Seq(R)
        /\ Len(SubSeq(q, 1, n)) = n
        /\ \A k \in 1..n : SubSeq(q, 1, n)[k] = q[k]
    BY <1>2, SubSeqProperties, Z3
  <1> DEFINE front == SubSeq(q, 1, n)
  <1> HIDE DEF front
  <1>4. /\ front \in Seq(R)
        /\ Len(front) = n
        /\ \A k \in 1..n : front[k] = q[k]
    BY <1>3 DEF front
  <1>5. /\ Append(front, e) \in Seq(R)
        /\ Len(Append(front, e)) = n + 1
        /\ \A k \in 1..n : Append(front, e)[k] = q[k]
        /\ Append(front, e)[n + 1] = e
    BY <1>4, <1>2, AppendProperties
  <1> QED
    BY <1>5 DEF front

\* Recording an applied prompt keeps the history a chain.
LEMMA RecordingKeepsTheChain ==
    ASSUME NEW h \in Histories, h.cursor <= Len(h.entries),
           h.entries # <<>> => h.origin # None,
           Linear(h),
           NEW pre \in CGSs, NEW edit \in PromptEdits, NEW post \in CGSs,
           post = Append(pre, edit)
    PROVE  /\ RecordApply(h, pre, post) \in Histories
           /\ RecordApply(h, pre, post).cursor <= Len(RecordApply(h, pre, post).entries)
           /\ RecordApply(h, pre, post).origin # None
           /\ Linear(RecordApply(h, pre, post))
  <1> DEFINE based == [h EXCEPT !.origin = IF @ = None THEN pre ELSE @]
             places == {k \in 0..Len(h.entries) : HashAt(based, k) = pre}
             kept == IF h.cursor \in places THEN h.cursor ELSE Min(places)
             entry == [pre |-> pre, post |-> post]
             Records == [pre : CGSs, post : CGSs]
             new == RecordApply(h, pre, post)
  <1>1. /\ h = [origin |-> h.origin, entries |-> h.entries, cursor |-> h.cursor]
        /\ h.origin \in CGSs \cup {None}
        /\ h.entries \in Seq(Records)
        /\ h.cursor \in Nat
    BY DEF Histories
  <1>2. pre # None /\ entry \in Records
    BY StoreConstants
  <1>3. CASE places = {}
    <2>1. new = [origin |-> pre, entries |-> <<entry>>, cursor |-> 1]
      BY <1>3 DEF RecordApply
    <2>2. <<entry>> \in Seq(Records) /\ Len(<<entry>>) = 1
      BY <1>2
    <2>3. new \in Histories
      BY <2>1, <2>2 DEF Histories
    <2>4. Linear(new)
      BY <2>1 DEF Linear, HashAt
    <2> QED
      BY <2>1, <2>2, <2>3, <2>4, <1>2
  <1>4. CASE places # {}
    <2>1. kept \in places
      <3>1. Len(h.entries) \in Nat
        BY <1>1, LenProperties
      <3>2. places \subseteq Nat
        BY <3>1
      <3>3. Min(places) \in places
        <4> HIDE DEF places
        <4> QED
          BY <3>2, <1>4, MinIsMember
      <3> QED
        BY <3>3
    <2>2. kept \in 0..Len(h.entries) /\ HashAt(based, kept) = pre
      BY <2>1
    <2> DEFINE front == SubSeq(h.entries, 1, kept)
    <2>3. new = [origin |-> based.origin, entries |-> Append(front, entry),
                 cursor |-> kept + 1]
      BY <1>4 DEF RecordApply
    <2>5. /\ Append(front, entry) \in Seq(Records)
          /\ Len(Append(front, entry)) = kept + 1
          /\ \A k \in 1..kept : Append(front, entry)[k] = h.entries[k]
          /\ Append(front, entry)[kept + 1] = entry
      <3> HIDE DEF kept, entry, Records
      <3> QED
        BY <1>1, <1>2, <2>2, CutAndAppend
    <2> HIDE DEF kept, places, front
    <2>6. /\ based.origin \in CGSs /\ based.origin # None
          /\ based.entries = h.entries
          /\ h.entries # <<>> => based.origin = h.origin
      BY <1>1, <1>2
    <2>7. new \in Histories
      BY <2>3, <2>5, <2>6, <2>2 DEF Histories
    <2>8. \A k \in 0..kept : HashAt(new, k) = HashAt(based, k)
      BY <2>3, <2>5, <2>6, <2>2 DEF HashAt
    <2>9. ASSUME NEW k \in 1..(kept + 1)
          PROVE  /\ new.entries[k].pre = HashAt(new, k - 1)
                 /\ \E e \in PromptEdits :
                       new.entries[k].post = Append(new.entries[k].pre, e)
      <3>1. CASE k = kept + 1
        <4>1. new.entries[k] = entry
          BY <3>1, <2>3, <2>5
        <4>2. HashAt(new, k - 1) = pre
          BY <3>1, <2>2, <2>8
        <4> QED
          BY <4>1, <4>2
      <3>2. CASE k \in 1..kept
        <4>1. k \in DOMAIN h.entries /\ new.entries[k] = h.entries[k]
          BY <3>2, <2>2, <2>3, <2>5, <1>1
        <4>2. h.entries[k].pre = HashAt(h, k - 1)
          BY <4>1 DEF Linear
        <4>3. h.entries # <<>>
          BY <4>1, <1>1
        <4>4. HashAt(h, k - 1) = HashAt(based, k - 1)
          BY <4>3, <2>6 DEF HashAt
        <4>5. HashAt(new, k - 1) = HashAt(based, k - 1)
          BY <3>2, <2>8, <2>2
        <4> QED
          BY <4>1, <4>2, <4>4, <4>5 DEF Linear
      <3> QED
        BY <3>1, <3>2, <2>2
    <2>10. DOMAIN new.entries = 1..(kept + 1)
      BY <2>3, <2>5
    <2>11. Linear(new)
      BY <2>9, <2>10 DEF Linear
    <2> QED
      BY <2>3, <2>5, <2>6, <2>7, <2>11, <2>2
  <1> QED
    BY <1>3, <1>4

-----------------------------------------------------------------------------
(* The inductive invariant. *)

\* What a handler that is under way carries with it.  The previewed edit of a
\* prompt stays pending until the handler accepts it.
Jobs ==
    \A s \in Sessions :
        /\ pending[s] # None => Len(pending[s].base) < MaxEdits
        /\ pc[s] # "idle" => up
        /\ pc[s] = "gde" =>
               job[s].edit \in Edits /\ Len(job[s].pre) < MaxEdits
        /\ pc[s] \in {"sgc", "failed", "commit"} \cup Committing =>
               job[s].post = Append(job[s].pre, job[s].edit)
        /\ /\ pc[s] \in {"gde", "sgc", "failed", "commit"} \cup Committing
           /\ job[s].kind = "prompt"
           => /\ pending[s] # None
              /\ job[s].edit = pending[s].edit
              /\ job[s].pre = pending[s].base
        /\ pc[s] = "cursor" =>
               /\ job[s].kind \in {"undo", "redo"}
               /\ CursorAfter(history, job[s].kind) \in 0..Len(history.entries)
               /\ HashAt(history, CursorAfter(history, job[s].kind)) = job[s].post

\* What a handler has written so far, and that nothing is reported as applied
\* while it writes.
Written ==
    \A s \in Sessions :
        /\ pc[s] \in Committing \cup {"cursor"} =>
               main = job[s].post /\ acked = None
        /\ pc[s] \in Restoring \ {"restore"} =>
               main = job[s].pre /\ acked = None
        /\ \/ pc[s] = "proof"
           \/ pc[s] = "adopt" /\ job[s].edit \in TypedEdits
           => job[s].post \in plans

IInv ==
    /\ Types
    /\ LoopIsExclusive
    /\ Jobs
    /\ Written
    /\ HistoryIsLinear
    /\ MemoryFollowsDisk
    /\ AppliedEditIsDurable

\* What a handler that is not under way holds.
LEMMA NoJobIsJob ==
    NoJob \in [kind : Kinds, edit : Edits \cup {None}, pre : CGSs, post : CGSs]
  BY FreshIsCGS DEF NoJob, Kinds

-----------------------------------------------------------------------------
(* Prompts, threads and the start of a commit. *)

LEMMA GenerateKeeps ==
    ASSUME IInv, NEW s \in Sessions, NEW edit \in PromptEdits, Generate(s, edit)
    PROVE  IInv'
  <1>1. Types'
    BY DEF IInv, Generate, MayRequest, bounds, store, Applicable, Types,
       PromptEdits
  <1>2. LoopIsExclusive'
    BY DEF IInv, Generate, Ready, LoopIsExclusive, LoopFree, HoldsLoop,
       Committing, Restoring, Types
  <1>3. Jobs'
    BY DEF IInv, Generate, Ready, store, Applicable, Jobs, Types, Committing,
       Restoring
  <1>4. Written'
    BY DEF IInv, Generate, Ready, store, Written, LoopIsExclusive, Types,
       LoopFree, HoldsLoop, Committing, Restoring
  <1>5. HistoryIsLinear'
    BY DEF IInv, Generate, store, HistoryIsLinear
  <1>6. MemoryFollowsDisk'
    BY DEF IInv, Generate, Ready, store, MemoryFollowsDisk, Written,
       LoopIsExclusive, Types, LoopFree, HoldsLoop, Committing, Restoring
  <1>7. AppliedEditIsDurable'
    BY DEF IInv, Generate, store, AppliedEditIsDurable, Runnable
  <1> QED
    BY <1>1, <1>2, <1>3, <1>4, <1>5, <1>6, <1>7 DEF IInv

LEMMA DiscardKeeps ==
    ASSUME IInv, NEW s \in Sessions, Discard(s)
    PROVE  IInv'
  <1>1. Types'
    BY DEF IInv, Discard, bounds, store, Types
  <1>2. LoopIsExclusive'
    BY DEF IInv, Discard, Ready, LoopIsExclusive, LoopFree, HoldsLoop,
       Committing, Restoring, Types
  <1>3. Jobs'
    BY DEF IInv, Discard, Ready, store, Jobs, Types, Committing, Restoring
  <1>4. Written'
    BY DEF IInv, Discard, Ready, store, Written, LoopIsExclusive, Types,
       LoopFree, HoldsLoop, Committing, Restoring
  <1>5. HistoryIsLinear'
    BY DEF IInv, Discard, store, HistoryIsLinear
  <1>6. MemoryFollowsDisk'
    BY DEF IInv, Discard, Ready, store, MemoryFollowsDisk, Written,
       LoopIsExclusive, Types, LoopFree, HoldsLoop, Committing, Restoring
  <1>7. AppliedEditIsDurable'
    BY DEF IInv, Discard, store, AppliedEditIsDurable, Runnable
  <1> QED
    BY <1>1, <1>2, <1>3, <1>4, <1>5, <1>6, <1>7 DEF IInv

LEMMA BeginApplyKeeps ==
    ASSUME IInv, NEW s \in Sessions, BeginApply(s)
    PROVE  IInv'
  <1>1. Types'
    BY ServerConstants DEF IInv, BeginApply, Authorized, Begin, Goto,
       Counted, MayRequest, store, Types, Places, Kinds, Committing,
       Restoring, PromptEdits, Edits
  <1>2. LoopIsExclusive'
    BY DEF IInv, BeginApply, Ready, Begin, Goto, LoopIsExclusive, LoopFree,
       HoldsLoop, Committing, Restoring, Types
  <1>3. Jobs'
    BY DEF IInv, BeginApply, Ready, Authorized, Begin, Goto, store, Jobs,
       Types, Committing, Restoring, Edits
  <1>4. Written'
    BY DEF IInv, BeginApply, Ready, Begin, Goto, store, Written,
       LoopIsExclusive, Types, LoopFree, HoldsLoop, Committing, Restoring
  <1>5. HistoryIsLinear'
    BY DEF IInv, BeginApply, Begin, store, HistoryIsLinear
  <1>6. MemoryFollowsDisk'
    BY DEF IInv, BeginApply, Ready, Authorized, Begin, Goto, store,
       MemoryFollowsDisk, Written, LoopIsExclusive, Types, LoopFree,
       HoldsLoop, Committing, Restoring
  <1>7. AppliedEditIsDurable'
    BY DEF IInv, BeginApply, Begin, store, AppliedEditIsDurable, Runnable
  <1> QED
    BY <1>1, <1>2, <1>3, <1>4, <1>5, <1>6, <1>7 DEF IInv

LEMMA BeginLiveKeeps ==
    ASSUME IInv, NEW s \in Sessions, NEW edit \in LiveEdits, BeginLive(s, edit)
    PROVE  IInv'
  <1>1. Types'
    BY ServerConstants DEF IInv, BeginLive, Authorized, Begin, Goto, Counted,
       MayRequest, store, Applicable, Types, Places, Kinds, Committing,
       Restoring, Edits
  <1>2. LoopIsExclusive'
    BY DEF IInv, BeginLive, Ready, Begin, Goto, LoopIsExclusive, LoopFree,
       HoldsLoop, Committing, Restoring, Types
  <1>3. Jobs'
    BY DEF IInv, BeginLive, Ready, Authorized, Begin, Goto, store,
       Applicable, Jobs, Types, Committing, Restoring, Edits
  <1>4. Written'
    BY DEF IInv, BeginLive, Ready, Begin, Goto, store, Written,
       LoopIsExclusive, Types, LoopFree, HoldsLoop, Committing, Restoring
  <1>5. HistoryIsLinear'
    BY DEF IInv, BeginLive, Begin, store, HistoryIsLinear
  <1>6. MemoryFollowsDisk'
    BY DEF IInv, BeginLive, Ready, Authorized, Begin, Goto, store,
       MemoryFollowsDisk, Written, LoopIsExclusive, Types, LoopFree,
       HoldsLoop, Committing, Restoring
  <1>7. AppliedEditIsDurable'
    BY DEF IInv, BeginLive, Begin, store, AppliedEditIsDurable, Runnable
  <1> QED
    BY <1>1, <1>2, <1>3, <1>4, <1>5, <1>6, <1>7 DEF IInv

LEMMA GdeCommitsKeeps ==
    ASSUME IInv, NEW s \in Sessions, GdeCommits(s)
    PROVE  IInv'
  <1>1. Types'
    <2>1. /\ memory = job[s].pre /\ memory \in CGSs
          /\ Len(memory) < MaxEdits /\ job[s].edit \in Edits
      BY DEF IInv, GdeCommits, Jobs, Types
    <2>2. Append(memory, job[s].edit) \in CGSs
      BY <2>1, AppendIsCGS
    <2>3. job' \in [Sessions -> [kind : Kinds, edit : Edits \cup {None},
                                pre : CGSs, post : CGSs]]
      BY <2>2 DEF IInv, GdeCommits, Types
    <2> QED
      BY <2>3 DEF IInv, GdeCommits, Goto, bounds, store, Types, Places
  <1>2. LoopIsExclusive'
    BY DEF IInv, GdeCommits, Goto, LoopIsExclusive, HoldsLoop, Committing,
       Restoring, Types
  <1>3. Jobs'
    BY DEF IInv, GdeCommits, Goto, store, Jobs, Types, Committing, Restoring
  <1>4. Written'
    BY DEF IInv, GdeCommits, Goto, store, Written, LoopIsExclusive, Types,
       HoldsLoop, Committing, Restoring
  <1>5. HistoryIsLinear'
    BY DEF IInv, GdeCommits, store, HistoryIsLinear
  <1>6. MemoryFollowsDisk'
    BY DEF IInv, GdeCommits, Goto, store, MemoryFollowsDisk, Written,
       LoopIsExclusive, Types, LoopFree, HoldsLoop, Committing, Restoring
  <1>7. AppliedEditIsDurable'
    BY DEF IInv, GdeCommits, store, AppliedEditIsDurable, Runnable
  <1> QED
    BY <1>1, <1>2, <1>3, <1>4, <1>5, <1>6, <1>7 DEF IInv

LEMMA GdeRefusesKeeps ==
    ASSUME IInv, NEW s \in Sessions, GdeRefuses(s)
    PROVE  IInv'
  <1>1. Types'
    BY NoJobIsJob DEF IInv, GdeRefuses, Finish, Goto, bounds, store, Types,
       Places, Committing, Restoring
  <1>2. LoopIsExclusive'
    BY DEF IInv, GdeRefuses, Finish, Goto, LoopIsExclusive, HoldsLoop,
       Committing, Restoring, Types
  <1>3. Jobs'
    BY DEF IInv, GdeRefuses, Finish, Goto, store, Jobs, Types, Committing,
       Restoring, NoJob
  <1>4. Written'
    BY DEF IInv, GdeRefuses, Finish, Goto, store, Written, LoopIsExclusive,
       Types, HoldsLoop, Committing, Restoring
  <1>5. HistoryIsLinear'
    BY DEF IInv, GdeRefuses, store, HistoryIsLinear
  <1>6. MemoryFollowsDisk'
    BY DEF IInv, GdeRefuses, Finish, Goto, store, MemoryFollowsDisk, Written,
       LoopIsExclusive, Types, LoopFree, HoldsLoop, Committing, Restoring
  <1>7. AppliedEditIsDurable'
    BY DEF IInv, GdeRefuses, store, AppliedEditIsDurable, Runnable
  <1> QED
    BY <1>1, <1>2, <1>3, <1>4, <1>5, <1>6, <1>7 DEF IInv

LEMMA SgcEndsKeeps ==
    ASSUME IInv, NEW s \in Sessions, NEW outcome \in {"commit", "failed"}, SgcEnds(s, outcome)
    PROVE  IInv'
  <1>1. Types'
    BY DEF IInv, SgcEnds, Goto, bounds, store, Types, Places, Committing,
       Restoring
  <1>2. LoopIsExclusive'
    BY DEF IInv, SgcEnds, Goto, LoopIsExclusive, HoldsLoop, Committing,
       Restoring, Types
  <1>3. Jobs'
    BY DEF IInv, SgcEnds, Goto, store, Jobs, Types, Committing, Restoring
  <1>4. Written'
    BY DEF IInv, SgcEnds, Goto, store, Written, LoopIsExclusive, Types,
       HoldsLoop, Committing, Restoring
  <1>5. HistoryIsLinear'
    BY DEF IInv, SgcEnds, store, HistoryIsLinear
  <1>6. MemoryFollowsDisk'
    BY DEF IInv, SgcEnds, Goto, store, MemoryFollowsDisk, Written,
       LoopIsExclusive, Types, LoopFree, HoldsLoop, Committing, Restoring
  <1>7. AppliedEditIsDurable'
    BY DEF IInv, SgcEnds, store, AppliedEditIsDurable, Runnable
  <1> QED
    BY <1>1, <1>2, <1>3, <1>4, <1>5, <1>6, <1>7 DEF IInv

-----------------------------------------------------------------------------
(* The writes of a commit. *)

LEMMA CommitKeeps ==
    ASSUME IInv, NEW s \in Sessions, Commit(s)
    PROVE  IInv'
  <1>1. Types'
    BY DEF IInv, Commit, Goto, bounds, Types, Places, Committing, Restoring
  <1>2. LoopIsExclusive'
    BY DEF IInv, Commit, Goto, LoopIsExclusive, LoopFree, HoldsLoop,
       Committing, Restoring, Types
  <1>3. Jobs'
    BY DEF IInv, Commit, Goto, Jobs, Types, Committing, Restoring
  <1>4. Written'
    BY DEF IInv, Commit, Goto, Written, LoopIsExclusive, Types, LoopFree,
       HoldsLoop, Committing, Restoring
  <1>5. HistoryIsLinear'
    BY DEF IInv, Commit, HistoryIsLinear
  <1>6. MemoryFollowsDisk'
    BY DEF IInv, Commit, Goto, MemoryFollowsDisk, Written, LoopIsExclusive,
       Types, LoopFree, HoldsLoop, Committing, Restoring
  <1>7. AppliedEditIsDurable'
    BY DEF IInv, Commit, AppliedEditIsDurable, Written, LoopFree, HoldsLoop,
       Types, Runnable, Committing, Restoring
  <1> QED
    BY <1>1, <1>2, <1>3, <1>4, <1>5, <1>6, <1>7 DEF IInv

LEMMA WriteSnapshotKeeps ==
    ASSUME IInv, NEW s \in Sessions, WriteSnapshot(s)
    PROVE  IInv'
  <1>1. Types'
    BY DEF IInv, WriteSnapshot, Goto, bounds, Types, Places, Committing,
       Restoring
  <1>2. LoopIsExclusive'
    BY DEF IInv, WriteSnapshot, Goto, LoopIsExclusive, HoldsLoop, Committing,
       Restoring, Types
  <1>3. Jobs'
    BY DEF IInv, WriteSnapshot, Goto, Jobs, Types, Committing, Restoring
  <1>4. Written'
    BY DEF IInv, WriteSnapshot, Goto, Written, LoopIsExclusive, Types,
       HoldsLoop, Committing, Restoring
  <1>5. HistoryIsLinear'
    BY DEF IInv, WriteSnapshot, HistoryIsLinear
  <1>6. MemoryFollowsDisk'
    BY DEF IInv, WriteSnapshot, Goto, MemoryFollowsDisk, Written,
       LoopIsExclusive, Types, LoopFree, HoldsLoop, Committing, Restoring
  <1>7. AppliedEditIsDurable'
    BY DEF IInv, WriteSnapshot, AppliedEditIsDurable, Runnable
  <1> QED
    BY <1>1, <1>2, <1>3, <1>4, <1>5, <1>6, <1>7 DEF IInv

LEMMA WriteIndexKeeps ==
    ASSUME IInv, NEW s \in Sessions, WriteIndex(s)
    PROVE  IInv'
  <1>1. Types'
    BY DEF IInv, WriteIndex, Goto, bounds, Types, Places, Committing,
       Restoring
  <1>2. LoopIsExclusive'
    BY DEF IInv, WriteIndex, Goto, LoopIsExclusive, HoldsLoop, Committing,
       Restoring, Types
  <1>3. Jobs'
    BY DEF IInv, WriteIndex, Goto, Jobs, Types, Committing, Restoring
  <1>4. Written'
    BY DEF IInv, WriteIndex, Goto, Written, LoopIsExclusive, Types,
       HoldsLoop, Committing, Restoring
  <1>5. HistoryIsLinear'
    BY DEF IInv, WriteIndex, HistoryIsLinear
  <1>6. MemoryFollowsDisk'
    BY DEF IInv, WriteIndex, Goto, MemoryFollowsDisk, Written,
       LoopIsExclusive, Types, LoopFree, HoldsLoop, Committing, Restoring
  <1>7. AppliedEditIsDurable'
    BY DEF IInv, WriteIndex, AppliedEditIsDurable, Runnable
  <1> QED
    BY <1>1, <1>2, <1>3, <1>4, <1>5, <1>6, <1>7 DEF IInv

LEMMA WritePlanKeeps ==
    ASSUME IInv, NEW s \in Sessions, WritePlan(s)
    PROVE  IInv'
  <1>1. Types'
    BY DEF IInv, WritePlan, Goto, bounds, Types, Places, Committing, Restoring
  <1>2. LoopIsExclusive'
    BY DEF IInv, WritePlan, Goto, LoopIsExclusive, HoldsLoop, Committing,
       Restoring, Types
  <1>3. Jobs'
    BY DEF IInv, WritePlan, Goto, Jobs, Types, Committing, Restoring
  <1>4. Written'
    BY DEF IInv, WritePlan, Goto, Written, LoopIsExclusive, Types, HoldsLoop,
       Committing, Restoring
  <1>5. HistoryIsLinear'
    BY DEF IInv, WritePlan, HistoryIsLinear
  <1>6. MemoryFollowsDisk'
    BY DEF IInv, WritePlan, Goto, MemoryFollowsDisk, Written,
       LoopIsExclusive, Types, LoopFree, HoldsLoop, Committing, Restoring
  <1>7. AppliedEditIsDurable'
    BY DEF IInv, WritePlan, AppliedEditIsDurable, Written, LoopFree,
       HoldsLoop, Types, Runnable, Committing, Restoring
  <1> QED
    BY <1>1, <1>2, <1>3, <1>4, <1>5, <1>6, <1>7 DEF IInv

LEMMA WriteProofKeeps ==
    ASSUME IInv, NEW s \in Sessions, WriteProof(s)
    PROVE  IInv'
  <1>1. Types'
    BY DEF IInv, WriteProof, Goto, bounds, Types, Places, Committing,
       Restoring
  <1>2. LoopIsExclusive'
    BY DEF IInv, WriteProof, Goto, LoopIsExclusive, HoldsLoop, Committing,
       Restoring, Types
  <1>3. Jobs'
    BY DEF IInv, WriteProof, Goto, Jobs, Types, Committing, Restoring
  <1>4. Written'
    BY DEF IInv, WriteProof, Goto, Written, LoopIsExclusive, Types,
       HoldsLoop, Committing, Restoring
  <1>5. HistoryIsLinear'
    BY DEF IInv, WriteProof, HistoryIsLinear
  <1>6. MemoryFollowsDisk'
    BY DEF IInv, WriteProof, Goto, MemoryFollowsDisk, Written,
       LoopIsExclusive, Types, LoopFree, HoldsLoop, Committing, Restoring
  <1>7. AppliedEditIsDurable'
    BY DEF IInv, WriteProof, AppliedEditIsDurable, Runnable
  <1> QED
    BY <1>1, <1>2, <1>3, <1>4, <1>5, <1>6, <1>7 DEF IInv

LEMMA WriteFailsKeeps ==
    ASSUME IInv, NEW s \in Sessions, WriteFails(s)
    PROVE  IInv'
  <1>1. Types'
    BY ServerConstants DEF IInv, WriteFails, Goto, Fault, store, Types,
       Places, Committing, Restoring
  <1>2. LoopIsExclusive'
    BY DEF IInv, WriteFails, Goto, LoopIsExclusive, LoopFree, HoldsLoop,
       Committing, Restoring, Types
  <1>3. Jobs'
    BY DEF IInv, WriteFails, Goto, store, Jobs, Types, Committing, Restoring
  <1>4. Written'
    BY DEF IInv, WriteFails, Goto, store, Written, LoopIsExclusive, Types,
       LoopFree, HoldsLoop, Committing, Restoring
  <1>5. HistoryIsLinear'
    BY DEF IInv, WriteFails, store, HistoryIsLinear
  <1>6. MemoryFollowsDisk'
    BY DEF IInv, WriteFails, Goto, store, MemoryFollowsDisk, Written,
       LoopIsExclusive, Types, LoopFree, HoldsLoop, Committing, Restoring
  <1>7. AppliedEditIsDurable'
    BY DEF IInv, WriteFails, store, AppliedEditIsDurable, Runnable
  <1> QED
    BY <1>1, <1>2, <1>3, <1>4, <1>5, <1>6, <1>7 DEF IInv

LEMMA LiveWriteFailsKeeps ==
    ASSUME IInv, NEW s \in Sessions, LiveWriteFails(s)
    PROVE  IInv'
  <1>1. Types'
    BY ServerConstants, NoJobIsJob DEF IInv, LiveWriteFails, Finish, Goto,
       Fault, store, Types, Places, Committing, Restoring
  <1>2. LoopIsExclusive'
    BY DEF IInv, LiveWriteFails, Finish, Goto, LoopIsExclusive, LoopFree,
       HoldsLoop, Committing, Restoring, Types
  <1>3. Jobs'
    BY DEF IInv, LiveWriteFails, Finish, Goto, store, Jobs, Types,
       Committing, Restoring, NoJob
  <1>4. Written'
    BY DEF IInv, LiveWriteFails, Finish, Goto, store, Written,
       LoopIsExclusive, Types, LoopFree, HoldsLoop, Committing, Restoring
  <1>5. HistoryIsLinear'
    BY DEF IInv, LiveWriteFails, store, HistoryIsLinear
  <1>6. MemoryFollowsDisk'
    BY DEF IInv, LiveWriteFails, Finish, Goto, store, MemoryFollowsDisk,
       Written, LoopIsExclusive, Types, LoopFree, HoldsLoop, Committing,
       Restoring
  <1>7. AppliedEditIsDurable'
    BY DEF IInv, LiveWriteFails, store, AppliedEditIsDurable, Runnable
  <1> QED
    BY <1>1, <1>2, <1>3, <1>4, <1>5, <1>6, <1>7 DEF IInv

\* What Accept does to the history.
LEMMA AcceptRecords ==
    ASSUME Types, Jobs, HistoryIsLinear, NEW s \in Sessions, Accept(s)
    PROVE  LET h == RecordApply(history, job[s].pre, job[s].post)
           IN  /\ h \in Histories
               /\ h.cursor <= Len(h.entries)
               /\ h.origin # None
               /\ Linear(h)
  <1>1. /\ job[s].edit \in PromptEdits
        /\ job[s].post = Append(job[s].pre, job[s].edit)
        /\ job[s].pre \in CGSs /\ job[s].post \in CGSs
    BY DEF Accept, Jobs, Types, Committing
  <1>2. /\ history \in Histories
        /\ history.cursor <= Len(history.entries)
        /\ history.entries # <<>> => history.origin # None
        /\ Linear(history)
    BY DEF Types, HistoryIsLinear
  <1> QED
    BY <1>1, <1>2, RecordingKeepsTheChain

LEMMA AcceptKeeps ==
    ASSUME IInv, NEW s \in Sessions, Accept(s)
    PROVE  IInv'
  <1>1. Types'
    <2>1. CASE UNCHANGED history
      BY <2>1, NoJobIsJob, ServerConstants DEF IInv, Accept, Finish, Goto, Fault, bounds,
         Types, Places
    <2>2. CASE history' = RecordApply(history, job[s].pre, job[s].post) /\ UNCHANGED bounds
      <3>1. /\ history' \in Histories
            /\ history'.cursor <= Len(history'.entries)
            /\ history'.origin # None
        BY <2>2, AcceptRecords DEF IInv
      <3> QED
        BY <3>1, <2>2, NoJobIsJob DEF IInv, Accept, Finish, Goto, bounds, Types, Places
    <2> QED
      BY <2>1, <2>2 DEF Accept, Fault
  <1>2. LoopIsExclusive'
    BY DEF IInv, Accept, Finish, Goto, LoopIsExclusive, HoldsLoop,
       Committing, Restoring, Types
  <1>3. Jobs'
    BY DEF IInv, Accept, Finish, Goto, Jobs, Types, Committing, Restoring,
       NoJob, LoopIsExclusive, HoldsLoop
  <1>4. Written'
    BY DEF IInv, Accept, Finish, Goto, Written, LoopIsExclusive, Types,
       HoldsLoop, Committing, Restoring
  <1>5. HistoryIsLinear'
    <2>1. CASE UNCHANGED history
      BY <2>1 DEF IInv, HistoryIsLinear
    <2>2. CASE history' = RecordApply(history, job[s].pre, job[s].post)
      BY <2>2, AcceptRecords DEF IInv, HistoryIsLinear
    <2> QED
      BY <2>1, <2>2 DEF Accept
  <1>6. MemoryFollowsDisk'
    BY DEF IInv, Accept, Finish, Goto, MemoryFollowsDisk, Written,
       LoopIsExclusive, Types, LoopFree, HoldsLoop, Committing, Restoring
  <1>7. AppliedEditIsDurable'
    BY StoreConstants DEF IInv, Accept, AppliedEditIsDurable, Written,
       LoopFree, HoldsLoop, Types, Runnable, Committing, Restoring
  <1> QED
    BY <1>1, <1>2, <1>3, <1>4, <1>5, <1>6, <1>7 DEF IInv

LEMMA RejectKeeps ==
    ASSUME IInv, NEW s \in Sessions, Reject(s)
    PROVE  IInv'
  <1>1. Types'
    BY DEF IInv, Reject, Goto, bounds, store, Types, Places, Committing,
       Restoring
  <1>2. LoopIsExclusive'
    BY DEF IInv, Reject, Goto, LoopIsExclusive, HoldsLoop, Committing,
       Restoring, Types
  <1>3. Jobs'
    BY DEF IInv, Reject, Goto, store, Jobs, Types, Committing, Restoring
  <1>4. Written'
    BY DEF IInv, Reject, Goto, store, Written, LoopIsExclusive, Types,
       HoldsLoop, Committing, Restoring
  <1>5. HistoryIsLinear'
    BY DEF IInv, Reject, store, HistoryIsLinear
  <1>6. MemoryFollowsDisk'
    BY DEF IInv, Reject, Goto, store, MemoryFollowsDisk, Written,
       LoopIsExclusive, Types, LoopFree, HoldsLoop, Committing, Restoring
  <1>7. AppliedEditIsDurable'
    BY DEF IInv, Reject, store, AppliedEditIsDurable, Runnable
  <1> QED
    BY <1>1, <1>2, <1>3, <1>4, <1>5, <1>6, <1>7 DEF IInv

LEMMA AdoptLiveKeeps ==
    ASSUME IInv, NEW s \in Sessions, AdoptLive(s)
    PROVE  IInv'
  <1>1. Types'
    BY NoJobIsJob DEF IInv, AdoptLive, Finish, Goto, bounds, store, Types,
       Places, Committing, Restoring
  <1>2. LoopIsExclusive'
    BY DEF IInv, AdoptLive, Finish, Goto, LoopIsExclusive, HoldsLoop,
       Committing, Restoring, Types
  <1>3. Jobs'
    BY DEF IInv, AdoptLive, Finish, Goto, store, Jobs, Types, Committing,
       Restoring, NoJob
  <1>4. Written'
    BY DEF IInv, AdoptLive, Finish, Goto, store, Written, LoopIsExclusive,
       Types, HoldsLoop, Committing, Restoring
  <1>5. HistoryIsLinear'
    BY DEF IInv, AdoptLive, store, HistoryIsLinear
  <1>6. MemoryFollowsDisk'
    BY DEF IInv, AdoptLive, Finish, Goto, store, MemoryFollowsDisk, Written,
       LoopIsExclusive, Types, LoopFree, HoldsLoop, Committing, Restoring
  <1>7. AppliedEditIsDurable'
    BY DEF IInv, AdoptLive, store, AppliedEditIsDurable, Runnable
  <1> QED
    BY <1>1, <1>2, <1>3, <1>4, <1>5, <1>6, <1>7 DEF IInv

-----------------------------------------------------------------------------
(* The restore after a failed apply. *)

LEMMA RestoreMainKeeps ==
    ASSUME IInv, NEW s \in Sessions, RestoreMain(s)
    PROVE  IInv'
  <1>1. Types'
    BY DEF IInv, RestoreMain, Goto, bounds, StartsRestore, Types, Places,
       Committing, Restoring
  <1>2. LoopIsExclusive'
    BY DEF IInv, RestoreMain, Goto, StartsRestore, LoopIsExclusive, LoopFree,
       HoldsLoop, Committing, Restoring, Types
  <1>3. Jobs'
    BY DEF IInv, RestoreMain, Goto, StartsRestore, Jobs, Types, Committing,
       Restoring
  <1>4. Written'
    BY DEF IInv, RestoreMain, Goto, StartsRestore, Written, LoopIsExclusive,
       Types, LoopFree, HoldsLoop, Committing, Restoring
  <1>5. HistoryIsLinear'
    BY DEF IInv, RestoreMain, HistoryIsLinear
  <1>6. MemoryFollowsDisk'
    BY DEF IInv, RestoreMain, Goto, StartsRestore, MemoryFollowsDisk,
       Written, LoopIsExclusive, Types, LoopFree, HoldsLoop, Committing,
       Restoring
  <1>7. AppliedEditIsDurable'
    BY DEF IInv, RestoreMain, StartsRestore, AppliedEditIsDurable, Written,
       LoopFree, HoldsLoop, Types, Runnable, Committing, Restoring
  <1> QED
    BY <1>1, <1>2, <1>3, <1>4, <1>5, <1>6, <1>7 DEF IInv

LEMMA RestoreMainFailsKeeps ==
    ASSUME IInv, NEW s \in Sessions, RestoreMainFails(s)
    PROVE  IInv'
  <1>1. Types'
    BY ServerConstants, NoJobIsJob DEF IInv, RestoreMainFails, Finish, Goto,
       Fault, store, StartsRestore, Types, Places, Committing, Restoring
  <1>2. LoopIsExclusive'
    BY DEF IInv, RestoreMainFails, Finish, Goto, StartsRestore,
       LoopIsExclusive, LoopFree, HoldsLoop, Committing, Restoring, Types
  <1>3. Jobs'
    BY DEF IInv, RestoreMainFails, Finish, Goto, store, StartsRestore, Jobs,
       Types, Committing, Restoring, NoJob
  <1>4. Written'
    BY DEF IInv, RestoreMainFails, Finish, Goto, store, StartsRestore,
       Written, LoopIsExclusive, Types, LoopFree, HoldsLoop, Committing,
       Restoring
  <1>5. HistoryIsLinear'
    BY DEF IInv, RestoreMainFails, store, HistoryIsLinear
  <1>6. MemoryFollowsDisk'
    BY DEF IInv, RestoreMainFails, Finish, Goto, store, StartsRestore,
       MemoryFollowsDisk, Written, LoopIsExclusive, Types, LoopFree,
       HoldsLoop, Committing, Restoring
  <1>7. AppliedEditIsDurable'
    BY DEF IInv, RestoreMainFails, store, StartsRestore,
       AppliedEditIsDurable, Runnable
  <1> QED
    BY <1>1, <1>2, <1>3, <1>4, <1>5, <1>6, <1>7 DEF IInv

LEMMA RemoveSnapshotKeeps ==
    ASSUME IInv, NEW s \in Sessions, RemoveSnapshot(s)
    PROVE  IInv'
  <1>1. Types'
    BY DEF IInv, RemoveSnapshot, Goto, bounds, Types, Places, Committing,
       Restoring
  <1>2. LoopIsExclusive'
    BY DEF IInv, RemoveSnapshot, Goto, LoopIsExclusive, HoldsLoop,
       Committing, Restoring, Types
  <1>3. Jobs'
    BY DEF IInv, RemoveSnapshot, Goto, Jobs, Types, Committing, Restoring
  <1>4. Written'
    BY DEF IInv, RemoveSnapshot, Goto, Written, LoopIsExclusive, Types,
       HoldsLoop, Committing, Restoring
  <1>5. HistoryIsLinear'
    BY DEF IInv, RemoveSnapshot, HistoryIsLinear
  <1>6. MemoryFollowsDisk'
    BY DEF IInv, RemoveSnapshot, Goto, MemoryFollowsDisk, Written,
       LoopIsExclusive, Types, LoopFree, HoldsLoop, Committing, Restoring
  <1>7. AppliedEditIsDurable'
    BY DEF IInv, RemoveSnapshot, AppliedEditIsDurable, Runnable
  <1> QED
    BY <1>1, <1>2, <1>3, <1>4, <1>5, <1>6, <1>7 DEF IInv

LEMMA RemoveRecordKeeps ==
    ASSUME IInv, NEW s \in Sessions, RemoveRecord(s)
    PROVE  IInv'
  <1>1. Types'
    BY DEF IInv, RemoveRecord, Goto, bounds, Types, Places, Committing,
       Restoring
  <1>2. LoopIsExclusive'
    BY DEF IInv, RemoveRecord, Goto, LoopIsExclusive, HoldsLoop, Committing,
       Restoring, Types
  <1>3. Jobs'
    BY DEF IInv, RemoveRecord, Goto, Jobs, Types, Committing, Restoring
  <1>4. Written'
    BY DEF IInv, RemoveRecord, Goto, Written, LoopIsExclusive, Types,
       HoldsLoop, Committing, Restoring
  <1>5. HistoryIsLinear'
    BY DEF IInv, RemoveRecord, HistoryIsLinear
  <1>6. MemoryFollowsDisk'
    BY DEF IInv, RemoveRecord, Goto, MemoryFollowsDisk, Written,
       LoopIsExclusive, Types, LoopFree, HoldsLoop, Committing, Restoring
  <1>7. AppliedEditIsDurable'
    BY DEF IInv, RemoveRecord, AppliedEditIsDurable, Runnable
  <1> QED
    BY <1>1, <1>2, <1>3, <1>4, <1>5, <1>6, <1>7 DEF IInv

LEMMA RemovePlanKeeps ==
    ASSUME IInv, NEW s \in Sessions, RemovePlan(s)
    PROVE  IInv'
  <1>1. Types'
    BY DEF IInv, RemovePlan, Goto, bounds, Types, Places, Committing,
       Restoring
  <1>2. LoopIsExclusive'
    BY DEF IInv, RemovePlan, Goto, LoopIsExclusive, HoldsLoop, Committing,
       Restoring, Types
  <1>3. Jobs'
    BY DEF IInv, RemovePlan, Goto, Jobs, Types, Committing, Restoring
  <1>4. Written'
    BY DEF IInv, RemovePlan, Goto, Written, LoopIsExclusive, Types,
       HoldsLoop, Committing, Restoring
  <1>5. HistoryIsLinear'
    BY DEF IInv, RemovePlan, HistoryIsLinear
  <1>6. MemoryFollowsDisk'
    BY DEF IInv, RemovePlan, Goto, MemoryFollowsDisk, Written,
       LoopIsExclusive, Types, LoopFree, HoldsLoop, Committing, Restoring
  <1>7. AppliedEditIsDurable'
    BY DEF IInv, RemovePlan, AppliedEditIsDurable, Written, LoopFree,
       HoldsLoop, Types, Runnable, Committing, Restoring
  <1> QED
    BY <1>1, <1>2, <1>3, <1>4, <1>5, <1>6, <1>7 DEF IInv

LEMMA RemoveProofKeeps ==
    ASSUME IInv, NEW s \in Sessions, RemoveProof(s)
    PROVE  IInv'
  <1>1. Types'
    BY NoJobIsJob DEF IInv, RemoveProof, Finish, Goto, bounds, Types, Places,
       Committing, Restoring
  <1>2. LoopIsExclusive'
    BY DEF IInv, RemoveProof, Finish, Goto, LoopIsExclusive, HoldsLoop,
       Committing, Restoring, Types
  <1>3. Jobs'
    BY DEF IInv, RemoveProof, Finish, Goto, Jobs, Types, Committing,
       Restoring, NoJob
  <1>4. Written'
    BY DEF IInv, RemoveProof, Finish, Goto, Written, LoopIsExclusive, Types,
       HoldsLoop, Committing, Restoring
  <1>5. HistoryIsLinear'
    BY DEF IInv, RemoveProof, HistoryIsLinear
  <1>6. MemoryFollowsDisk'
    BY DEF IInv, RemoveProof, Finish, Goto, MemoryFollowsDisk, Written,
       LoopIsExclusive, Types, LoopFree, HoldsLoop, Committing, Restoring
  <1>7. AppliedEditIsDurable'
    BY DEF IInv, RemoveProof, AppliedEditIsDurable, Runnable
  <1> QED
    BY <1>1, <1>2, <1>3, <1>4, <1>5, <1>6, <1>7 DEF IInv

-----------------------------------------------------------------------------
(* Links, rollbacks, undo and redo. *)

LEMMA LinkKeeps ==
    ASSUME IInv, NEW s \in Sessions, NEW edit \in LinkEdits, Link(s, edit)
    PROVE  IInv'
  <1>1. Types'
    BY ServerConstants, AppendIsCGS DEF IInv, Link, Counted, MayRequest,
       Authorized, Applicable, Types, Edits
  <1>2. LoopIsExclusive'
    BY DEF IInv, Link, Ready, LoopIsExclusive, LoopFree, HoldsLoop,
       Committing, Restoring, Types
  <1>3. Jobs'
    BY DEF IInv, Link, Ready, Authorized, Applicable, Jobs, Types,
       Committing, Restoring
  <1>4. Written'
    BY DEF IInv, Link, Ready, Written, LoopIsExclusive, Types, LoopFree,
       HoldsLoop, Committing, Restoring
  <1>5. HistoryIsLinear'
    BY DEF IInv, Link, HistoryIsLinear
  <1>6. MemoryFollowsDisk'
    BY DEF IInv, Link, Ready, Authorized, MemoryFollowsDisk, Written,
       LoopIsExclusive, Types, LoopFree, HoldsLoop, Committing, Restoring
  <1>7. AppliedEditIsDurable'
    BY DEF IInv, Link, AppliedEditIsDurable, Written, LoopFree, HoldsLoop,
       Types, Runnable, Committing, Restoring
  <1> QED
    BY <1>1, <1>2, <1>3, <1>4, <1>5, <1>6, <1>7 DEF IInv

LEMMA RollbackKeeps ==
    ASSUME IInv, NEW s \in Sessions, NEW cgs \in snapshots, Rollback(s, cgs)
    PROVE  IInv'
  <1>1. Types'
    BY ServerConstants DEF IInv, Rollback, Counted, MayRequest, Authorized,
       Types
  <1>2. LoopIsExclusive'
    BY DEF IInv, Rollback, Ready, LoopIsExclusive, LoopFree, HoldsLoop,
       Committing, Restoring, Types
  <1>3. Jobs'
    BY DEF IInv, Rollback, Ready, Authorized, Jobs, Types, Committing,
       Restoring
  <1>4. Written'
    BY DEF IInv, Rollback, Ready, Written, LoopIsExclusive, Types, LoopFree,
       HoldsLoop, Committing, Restoring
  <1>5. HistoryIsLinear'
    BY DEF IInv, Rollback, HistoryIsLinear
  <1>6. MemoryFollowsDisk'
    BY DEF IInv, Rollback, Ready, Authorized, MemoryFollowsDisk, Written,
       LoopIsExclusive, Types, LoopFree, HoldsLoop, Committing, Restoring
  <1>7. AppliedEditIsDurable'
    BY DEF IInv, Rollback, AppliedEditIsDurable, Written, LoopFree,
       HoldsLoop, Types, Runnable, Committing, Restoring
  <1> QED
    BY <1>1, <1>2, <1>3, <1>4, <1>5, <1>6, <1>7 DEF IInv

\* What an undo or a redo restores is the CGS the cursor moves to.
LEMMA TargetIsNextToTheCursor ==
    ASSUME Types, HistoryIsLinear, NEW action \in {"undo", "redo"},
           RestoreAllowed(action, memory)
    PROVE  LET k == CursorAfter(history, action)
           IN  /\ k \in 0..Len(history.entries)
               /\ k = history.cursor + 1 \/ history.cursor = k + 1
               /\ HashAt(history, k) = RestoreTarget(history, action)
  <1>1. /\ history.entries \in Seq([pre : CGSs, post : CGSs])
        /\ history.cursor \in 0..Len(history.entries)
        /\ Len(history.entries) \in Nat
    BY LenProperties DEF Types, Histories
  <1>2. CASE action = "undo"
    <2>1. history.cursor \in 1..Len(history.entries)
      BY <1>1, <1>2 DEF RestoreAllowed
    <2>2. history.entries[history.cursor].pre = HashAt(history, history.cursor - 1)
      BY <1>1, <2>1 DEF HistoryIsLinear, Linear
    <2> QED
      BY <1>1, <1>2, <2>1, <2>2 DEF CursorAfter, RestoreTarget
  <1>3. CASE action = "redo"
    <2>1. history.cursor + 1 \in 1..Len(history.entries)
      BY <1>1, <1>3 DEF RestoreAllowed
    <2> QED
      BY <1>1, <1>3, <2>1 DEF CursorAfter, RestoreTarget, HashAt
  <1> QED
    BY <1>2, <1>3

LEMMA BeginRestoreKeeps ==
    ASSUME IInv, NEW s \in Sessions, NEW action \in {"undo", "redo"}, BeginRestore(s, action)
    PROVE  IInv'
  <1>1. Types'
    BY ServerConstants DEF IInv, BeginRestore, Goto, Counted, MayRequest,
       Authorized, Types, Places, Kinds, Committing, Restoring, RestoreAllowed
  <1>2. LoopIsExclusive'
    BY DEF IInv, BeginRestore, Ready, Goto, LoopIsExclusive, LoopFree,
       HoldsLoop, Committing, Restoring, Types
  <1>3. Jobs'
    <2>1. /\ CursorAfter(history, action) \in 0..Len(history.entries)
          /\ HashAt(history, CursorAfter(history, action)) = main'
      BY TargetIsNextToTheCursor DEF IInv, BeginRestore
    <2> QED
      BY <2>1 DEF IInv, BeginRestore, Ready, Goto, Authorized, Jobs, Types,
         Committing, Restoring
  <1>4. Written'
    BY DEF IInv, BeginRestore, Ready, Goto, Written, LoopIsExclusive, Types,
       LoopFree, HoldsLoop, Committing, Restoring
  <1>5. HistoryIsLinear'
    BY DEF IInv, BeginRestore, HistoryIsLinear
  <1>6. MemoryFollowsDisk'
    BY DEF IInv, BeginRestore, Ready, Goto, Authorized, MemoryFollowsDisk,
       Written, LoopIsExclusive, Types, LoopFree, HoldsLoop, Committing,
       Restoring
  <1>7. AppliedEditIsDurable'
    BY DEF IInv, BeginRestore, AppliedEditIsDurable, Written, LoopFree,
       HoldsLoop, Types, Runnable, Committing, Restoring
  <1> QED
    BY <1>1, <1>2, <1>3, <1>4, <1>5, <1>6, <1>7 DEF IInv

LEMMA MoveCursorKeeps ==
    ASSUME IInv, NEW s \in Sessions, MoveCursor(s)
    PROVE  IInv'
  <1>1. Types'
    <2>1. CursorAfter(history, job[s].kind) \in 0..Len(history.entries)
      BY DEF IInv, MoveCursor, Jobs
    <2>2. Len(history.entries) \in Nat
      BY LenProperties DEF IInv, Types, Histories
    <2>3. /\ history' \in Histories
          /\ history'.entries = history.entries /\ history'.origin = history.origin
          /\ history'.cursor <= Len(history'.entries)
      BY <2>1, <2>2 DEF IInv, MoveCursor, Types, Histories
    <2> QED
      BY <2>3, NoJobIsJob DEF IInv, MoveCursor, Finish, Goto, bounds, Types, Places
  <1>2. LoopIsExclusive'
    BY DEF IInv, MoveCursor, Finish, Goto, LoopIsExclusive, HoldsLoop,
       Committing, Restoring, Types
  <1>3. Jobs'
    BY DEF IInv, MoveCursor, Finish, Goto, Jobs, Types, Committing,
       Restoring, NoJob, LoopIsExclusive, HoldsLoop
  <1>4. Written'
    BY DEF IInv, MoveCursor, Finish, Goto, Written, LoopIsExclusive, Types,
       HoldsLoop, Committing, Restoring
  <1>5. HistoryIsLinear'
    BY DEF IInv, MoveCursor, HistoryIsLinear, Linear, HashAt, Types, Histories
  <1>6. MemoryFollowsDisk'
    BY DEF IInv, MoveCursor, Finish, Goto, MemoryFollowsDisk, Written,
       LoopIsExclusive, Types, LoopFree, HoldsLoop, Committing, Restoring
  <1>7. AppliedEditIsDurable'
    BY DEF IInv, MoveCursor, AppliedEditIsDurable, Runnable
  <1> QED
    BY <1>1, <1>2, <1>3, <1>4, <1>5, <1>6, <1>7 DEF IInv

LEMMA MoveCursorFailsKeeps ==
    ASSUME IInv, NEW s \in Sessions, MoveCursorFails(s)
    PROVE  IInv'
  <1>1. Types'
    BY ServerConstants, NoJobIsJob DEF IInv, MoveCursorFails, Finish, Goto,
       Fault, store, Types, Places, Committing, Restoring
  <1>2. LoopIsExclusive'
    BY DEF IInv, MoveCursorFails, Finish, Goto, LoopIsExclusive, HoldsLoop,
       Committing, Restoring, Types
  <1>3. Jobs'
    BY DEF IInv, MoveCursorFails, Finish, Goto, store, Jobs, Types,
       Committing, Restoring, NoJob
  <1>4. Written'
    BY DEF IInv, MoveCursorFails, Finish, Goto, store, Written,
       LoopIsExclusive, Types, HoldsLoop, Committing, Restoring
  <1>5. HistoryIsLinear'
    BY DEF IInv, MoveCursorFails, store, HistoryIsLinear
  <1>6. MemoryFollowsDisk'
    BY DEF IInv, MoveCursorFails, Finish, Goto, store, MemoryFollowsDisk,
       Written, LoopIsExclusive, Types, LoopFree, HoldsLoop, Committing,
       Restoring
  <1>7. AppliedEditIsDurable'
    BY DEF IInv, MoveCursorFails, store, AppliedEditIsDurable, Runnable
  <1> QED
    BY <1>1, <1>2, <1>3, <1>4, <1>5, <1>6, <1>7 DEF IInv

-----------------------------------------------------------------------------
(* Recovery, crash and restart. *)

LEMMA ReloadKeeps ==
    ASSUME IInv, NEW s \in Sessions, Reload(s)
    PROVE  IInv'
  <1>1. Types'
    BY DEF IInv, Reload, bounds, Types, Recover, RecoveredMain,
       RunnableSnapshots
  <1>2. LoopIsExclusive'
    BY DEF IInv, Reload, Ready, LoopIsExclusive, LoopFree, HoldsLoop,
       Committing, Restoring, Types
  <1>3. Jobs'
    BY DEF IInv, Reload, Ready, Jobs, Types, Committing, Restoring, Recover
  <1>4. Written'
    BY DEF IInv, Reload, Ready, Written, LoopIsExclusive, Types, LoopFree,
       HoldsLoop, Committing, Restoring, Recover
  <1>5. HistoryIsLinear'
    BY DEF IInv, Reload, HistoryIsLinear, Recover
  <1>6. MemoryFollowsDisk'
    BY DEF IInv, Reload, Ready, MemoryFollowsDisk, Written, LoopIsExclusive,
       Types, LoopFree, HoldsLoop, Committing, Restoring, Recover
  <1>7. AppliedEditIsDurable'
    BY DEF IInv, Reload, AppliedEditIsDurable, Written, LoopFree, HoldsLoop,
       Types, Runnable, Committing, Restoring, Recover, RecoveredMain
  <1> QED
    BY <1>1, <1>2, <1>3, <1>4, <1>5, <1>6, <1>7 DEF IInv

LEMMA CrashKeeps ==
    ASSUME IInv, Crash
    PROVE  IInv'
  <1>1. Types'
    <2>1. memory' \in CGSs
      BY FreshIsCGS DEF Crash
    <2>2. job' \in [Sessions -> [kind : Kinds, edit : Edits \cup {None},
                                pre : CGSs, post : CGSs]]
      BY NoJobIsJob DEF Crash
    <2>3. /\ pending' \in [Sessions -> [edit : PromptEdits, base : CGSs] \cup {None}]
          /\ pc' \in [Sessions -> Places]
      BY DEF Crash, Places
    <2>4. requests' \in 0..MaxRequests /\ faults' \in 0..MaxFaults
      BY ServerConstants DEF IInv, Crash, Fault, Types
    <2> QED
      BY <2>1, <2>2, <2>3, <2>4 DEF IInv, Crash, store, Types
  <1>2. LoopIsExclusive'
    BY DEF IInv, Crash, LoopIsExclusive, HoldsLoop, Committing, Restoring,
       Types
  <1>3. Jobs'
    BY DEF IInv, Crash, Jobs, Types, Committing, Restoring, NoJob
  <1>4. Written'
    BY DEF IInv, Crash, store, Written, LoopIsExclusive, Types, HoldsLoop,
       Committing, Restoring
  <1>5. HistoryIsLinear'
    BY DEF IInv, Crash, store, HistoryIsLinear
  <1>6. MemoryFollowsDisk'
    BY DEF IInv, Crash, store, MemoryFollowsDisk, Written, LoopIsExclusive,
       Types, LoopFree, HoldsLoop, Committing, Restoring
  <1>7. AppliedEditIsDurable'
    BY DEF IInv, Crash, store, AppliedEditIsDurable, Runnable
  <1> QED
    BY <1>1, <1>2, <1>3, <1>4, <1>5, <1>6, <1>7 DEF IInv

LEMMA RestartKeeps ==
    ASSUME IInv, Restart
    PROVE  IInv'
  <1>1. Types'
    BY DEF IInv, Restart, bounds, Types, Recover, RecoveredMain,
       RunnableSnapshots
  <1>2. LoopIsExclusive'
    BY DEF IInv, Restart, LoopIsExclusive, HoldsLoop, Committing, Restoring,
       Types
  <1>3. Jobs'
    BY DEF IInv, Restart, Jobs, Types, Committing, Restoring, Recover
  <1>4. Written'
    BY DEF IInv, Restart, Written, LoopIsExclusive, Types, HoldsLoop,
       Committing, Restoring, Recover, Jobs
  <1>5. HistoryIsLinear'
    BY DEF IInv, Restart, HistoryIsLinear, Recover
  <1>6. MemoryFollowsDisk'
    BY DEF IInv, Restart, MemoryFollowsDisk, Written, LoopIsExclusive, Types,
       LoopFree, HoldsLoop, Committing, Restoring, Recover
  <1>7. AppliedEditIsDurable'
    BY DEF IInv, Restart, AppliedEditIsDurable, Written, LoopFree, HoldsLoop,
       Types, Runnable, Committing, Restoring, Recover, RecoveredMain
  <1> QED
    BY <1>1, <1>2, <1>3, <1>4, <1>5, <1>6, <1>7 DEF IInv

-----------------------------------------------------------------------------
(* The invariant. *)

LEMMA InitIInv == Init => IInv
  <1> SUFFICES ASSUME Init PROVE IInv
    OBVIOUS
  <1>1. Types
    <2>1. NoHistory \in Histories /\ NoHistory.entries = <<>> /\ NoHistory.cursor = 0
      BY DEF NoHistory, Histories
    <2>2. Len(NoHistory.entries) = 0
      BY <2>1
    <2>3. Fresh \in CGSs
      BY FreshIsCGS
    <2>4. job \in [Sessions -> [kind : Kinds, edit : Edits \cup {None},
                               pre : CGSs, post : CGSs]]
      BY NoJobIsJob DEF Init
    <2>5. /\ pending \in [Sessions -> [edit : PromptEdits, base : CGSs] \cup {None}]
          /\ pc \in [Sessions -> Places]
      BY DEF Init, Places
    <2>6. /\ history \in Histories
          /\ history.cursor <= Len(history.entries)
          /\ history.entries # <<>> => history.origin # None
      BY <2>1, <2>2 DEF Init, StoreInit
    <2>7. /\ main \in CGSs /\ memory \in CGSs
          /\ snapshots \subseteq CGSs /\ plans \subseteq CGSs /\ proofs \subseteq CGSs
      BY <2>3 DEF Init, StoreInit
    <2>8. requests \in 0..MaxRequests /\ faults \in 0..MaxFaults
      BY ServerConstants DEF Init
    <2> QED
      BY <2>4, <2>5, <2>6, <2>7, <2>8 DEF Init, Types
  <1>2. LoopIsExclusive
    BY DEF Init, LoopIsExclusive, HoldsLoop, Committing, Restoring
  <1>3. Jobs
    BY DEF Init, Jobs, Committing
  <1>4. Written
    BY DEF Init, Written, Committing, Restoring
  <1>5. HistoryIsLinear
    BY DEF Init, StoreInit, NoHistory, HistoryIsLinear, Linear
  <1>6. MemoryFollowsDisk
    BY DEF Init, MemoryFollowsDisk
  <1>7. AppliedEditIsDurable
    BY DEF Init, AppliedEditIsDurable
  <1> QED
    BY <1>1, <1>2, <1>3, <1>4, <1>5, <1>6, <1>7 DEF IInv

LEMMA RequestKeeps ==
    ASSUME IInv, NEW s \in Sessions, Request(s)
    PROVE  IInv'
  <1>1. ASSUME NEW edit \in PromptEdits, Generate(s, edit) PROVE IInv'
    BY <1>1, GenerateKeeps
  <1>2. CASE Discard(s)
    BY <1>2, DiscardKeeps
  <1>3. CASE BeginApply(s)
    BY <1>3, BeginApplyKeeps
  <1>4. ASSUME NEW edit \in LiveEdits, BeginLive(s, edit) PROVE IInv'
    BY <1>4, BeginLiveKeeps
  <1>5. ASSUME NEW edit \in LinkEdits, Link(s, edit) PROVE IInv'
    BY <1>5, LinkKeeps
  <1>6. ASSUME NEW cgs \in snapshots, Rollback(s, cgs) PROVE IInv'
    BY <1>6, RollbackKeeps
  <1>7. ASSUME NEW action \in {"undo", "redo"}, BeginRestore(s, action) PROVE IInv'
    BY <1>7, BeginRestoreKeeps
  <1>8. CASE Reload(s)
    BY <1>8, ReloadKeeps
  <1> QED
    BY <1>1, <1>2, <1>3, <1>4, <1>5, <1>6, <1>7, <1>8 DEF Request

LEMMA ThreadsKeep ==
    ASSUME IInv, NEW s \in Sessions, Threads(s)
    PROVE  IInv'
  BY GdeCommitsKeeps, GdeRefusesKeeps, SgcEndsKeeps DEF Threads

LEMMA HandlerKeeps ==
    ASSUME IInv, NEW s \in Sessions, Handler(s)
    PROVE  IInv'
  BY CommitKeeps, WriteSnapshotKeeps, WriteIndexKeeps, WritePlanKeeps,
     WriteProofKeeps, WriteFailsKeeps, LiveWriteFailsKeeps, AcceptKeeps,
     RejectKeeps, AdoptLiveKeeps, RestoreMainKeeps, RestoreMainFailsKeeps,
     RemoveSnapshotKeeps, RemoveRecordKeeps, RemovePlanKeeps,
     RemoveProofKeeps, MoveCursorKeeps, MoveCursorFailsKeeps DEF Handler

LEMMA StutterKeeps ==
    ASSUME IInv, UNCHANGED vars
    PROVE  IInv'
  <1> USE DEF vars, store, volatile, bounds
  <1>1. Types'
    BY DEF IInv, Types
  <1>2. LoopIsExclusive' /\ MemoryFollowsDisk'
    BY DEF IInv, LoopIsExclusive, MemoryFollowsDisk, LoopFree, HoldsLoop
  <1>3. Jobs' /\ Written'
    BY DEF IInv, Jobs, Written
  <1>4. HistoryIsLinear' /\ AppliedEditIsDurable'
    BY DEF IInv, HistoryIsLinear, AppliedEditIsDurable, Runnable
  <1> QED
    BY <1>1, <1>2, <1>3, <1>4 DEF IInv

LEMMA NextIInv == IInv /\ [Next]_vars => IInv'
  <1> SUFFICES ASSUME IInv, [Next]_vars PROVE IInv'
    OBVIOUS
  <1>1. ASSUME NEW s \in Sessions, Request(s) PROVE IInv'
    BY <1>1, RequestKeeps
  <1>2. ASSUME NEW s \in Sessions, Threads(s) PROVE IInv'
    BY <1>2, ThreadsKeep
  <1>3. ASSUME NEW s \in Sessions, Handler(s) PROVE IInv'
    BY <1>3, HandlerKeeps
  <1>4. CASE Crash
    BY <1>4, CrashKeeps
  <1>5. CASE Restart
    BY <1>5, RestartKeeps
  <1>6. CASE UNCHANGED vars
    BY <1>6, StutterKeeps
  <1> QED
    BY <1>1, <1>2, <1>3, <1>4, <1>5, <1>6 DEF Next

LEMMA Inductive == Spec => []IInv
  BY InitIInv, NextIInv, PTL DEF Spec

-----------------------------------------------------------------------------
(* The index of the snapshots. *)

\* The order of the index is left to its code; what it lists is not.
IndexTyped == index \in Seq(CGSs) /\ IsFiniteSet(snapshots)

\* How far the index may be from the snapshots while a handler writes.
IndexFollows(s) ==
    /\ pc[s] \in {"snapshot", "plan", "proof", "adopt", "cursor",
                  "unplan", "unproof"} => ToSet(index) = snapshots
    /\ pc[s] = "index" => ToSet(index) \cup {job[s].post} = snapshots
    /\ pc[s] \in {"restore", "unsnapshot"} =>
          ToSet(index) \ {job[s].post} = snapshots \ {job[s].post}
    /\ pc[s] = "unindex" => ToSet(index) \ {job[s].post} = snapshots

IndexAlong ==
    up /\ ~torn =>
        /\ LoopFree => ToSet(index) = snapshots
        /\ \A s \in Sessions : HoldsLoop(s) => IndexFollows(s)

IndexInv == IndexTyped /\ IndexAlong

LEMMA RequestKeepsIndex ==
    ASSUME IInv, IndexInv, NEW s \in Sessions, Request(s)
    PROVE  IndexInv'
  <1> USE DEF IInv, Types, LoopIsExclusive, IndexInv, IndexTyped, IndexAlong,
          IndexFollows, LoopFree, HoldsLoop, Committing, Restoring
  <1>1. ASSUME NEW edit \in PromptEdits, Generate(s, edit) PROVE IndexInv'
    BY <1>1 DEF Generate, Ready, store
  <1>2. CASE Discard(s)
    BY <1>2 DEF Discard, Ready, store
  <1>3. CASE BeginApply(s)
    BY <1>3 DEF BeginApply, Ready, Begin, Goto, store
  <1>4. ASSUME NEW edit \in LiveEdits, BeginLive(s, edit) PROVE IndexInv'
    BY <1>4 DEF BeginLive, Ready, Begin, Goto, store
  <1>5. ASSUME NEW edit \in LinkEdits, Link(s, edit) PROVE IndexInv'
    BY <1>5 DEF Link, Ready
  <1>6. ASSUME NEW cgs \in snapshots, Rollback(s, cgs) PROVE IndexInv'
    BY <1>6 DEF Rollback, Ready
  <1>7. ASSUME NEW action \in {"undo", "redo"}, BeginRestore(s, action) PROVE IndexInv'
    BY <1>7 DEF BeginRestore, Ready, Goto
  <1>8. CASE Reload(s)
    <2>1. /\ index' = VerifiedIndex /\ snapshots' = snapshots
          /\ UNCHANGED <<pc, job>> /\ LoopFree
      BY <1>8 DEF Reload, Ready, Recover
    <2>2. index' \in Seq(CGSs) /\ ToSet(index') = snapshots'
      BY <2>1, VerifiedElements
    <2> QED
      BY <2>1, <2>2
  <1> QED
    BY <1>1, <1>2, <1>3, <1>4, <1>5, <1>6, <1>7, <1>8 DEF Request

LEMMA ThreadsKeepIndex ==
    ASSUME IInv, IndexInv, NEW s \in Sessions, Threads(s)
    PROVE  IndexInv'
  <1> USE DEF IInv, Types, LoopIsExclusive, IndexInv, IndexTyped, IndexAlong,
          IndexFollows, LoopFree, HoldsLoop, Committing, Restoring
  <1>1. CASE GdeCommits(s)
    BY <1>1 DEF GdeCommits, Goto, store
  <1>2. CASE GdeRefuses(s)
    BY <1>2 DEF GdeRefuses, Finish, Goto, store
  <1>3. ASSUME NEW outcome \in {"commit", "failed"}, SgcEnds(s, outcome) PROVE IndexInv'
    BY <1>3 DEF SgcEnds, Goto, store
  <1> QED
    BY <1>1, <1>2, <1>3 DEF Threads

LEMMA HandlerKeepsIndex ==
    ASSUME IInv, IndexInv, NEW s \in Sessions, Handler(s)
    PROVE  IndexInv'
  <1> USE DEF IInv, Types, LoopIsExclusive, IndexInv, IndexTyped, IndexAlong,
          IndexFollows, LoopFree, HoldsLoop, Committing, Restoring
  <1>1. CASE Commit(s)
    BY <1>1 DEF Commit, Goto
  <1>2. CASE WriteSnapshot(s)
    <2>1. IsFiniteSet(snapshots')
      BY <1>2, FS_AddElement DEF WriteSnapshot
    <2> QED
      BY <1>2, <2>1 DEF WriteSnapshot, Goto
  <1>3. CASE WriteIndex(s)
    <2>1. job[s].post \in CGSs
      OBVIOUS
    <2>2. /\ index' \in Seq(CGSs)
          /\ ToSet(index') = ToSet(index) \cup {job[s].post}
      BY <1>3, <2>1, IndexedElements DEF WriteIndex
    <2> QED
      BY <1>3, <2>2 DEF WriteIndex, Goto
  <1>4. CASE WritePlan(s)
    BY <1>4 DEF WritePlan, Goto
  <1>5. CASE WriteProof(s)
    BY <1>5 DEF WriteProof, Goto
  <1>6. CASE WriteFails(s)
    BY <1>6 DEF WriteFails, Goto, store
  <1>7. CASE LiveWriteFails(s)
    BY <1>7 DEF LiveWriteFails, Finish, Goto, store
  <1>8. CASE Accept(s)
    BY <1>8 DEF Accept, Finish, Goto
  <1>9. CASE Reject(s)
    BY <1>9 DEF Reject, Goto, store
  <1>10. CASE AdoptLive(s)
    BY <1>10 DEF AdoptLive, Finish, Goto, store
  <1>11. CASE RestoreMain(s)
    BY <1>11 DEF RestoreMain, StartsRestore, Goto
  <1>12. CASE RestoreMainFails(s)
    BY <1>12 DEF RestoreMainFails, StartsRestore, Finish, Goto, store
  <1>13. CASE RemoveSnapshot(s)
    <2>1. IsFiniteSet(snapshots')
      BY <1>13, FS_RemoveElement DEF RemoveSnapshot
    <2> QED
      BY <1>13, <2>1 DEF RemoveSnapshot, Goto
  <1>14. CASE RemoveRecord(s)
    <2>1. /\ index' \in Seq(CGSs)
          /\ ToSet(index') = ToSet(index) \ {job[s].post}
      BY <1>14, WithoutElements DEF RemoveRecord
    <2> QED
      BY <1>14, <2>1 DEF RemoveRecord, Goto
  <1>15. CASE RemovePlan(s)
    BY <1>15 DEF RemovePlan, Goto
  <1>16. CASE RemoveProof(s)
    BY <1>16 DEF RemoveProof, Finish, Goto
  <1>17. CASE MoveCursor(s)
    BY <1>17 DEF MoveCursor, Finish, Goto
  <1>18. CASE MoveCursorFails(s)
    BY <1>18 DEF MoveCursorFails, Finish, Goto, store
  <1> QED
    BY <1>1, <1>2, <1>3, <1>4, <1>5, <1>6, <1>7, <1>8, <1>9, <1>10, <1>11,
       <1>12, <1>13, <1>14, <1>15, <1>16, <1>17, <1>18 DEF Handler

\* After a crash the index may lack the last snapshot, or list one that is
\* gone: the recovery of the restart puts that right.
LEMMA CrashKeepsIndex ==
    ASSUME IInv, IndexInv, Crash
    PROVE  IndexInv'
  BY DEF IndexInv, IndexTyped, IndexAlong, Crash, store

LEMMA RestartKeepsIndex ==
    ASSUME IInv, IndexInv, Restart
    PROVE  IndexInv'
  <1>1. index' = VerifiedIndex /\ snapshots' = snapshots /\ pc' = pc
    BY DEF Restart, Recover
  <1>2. index' \in Seq(CGSs) /\ ToSet(index') = snapshots'
    BY <1>1, VerifiedElements DEF IInv, Types, IndexInv, IndexTyped
  <1>3. \A s \in Sessions : pc[s] = "idle"
    BY DEF IInv, Jobs, Restart
  <1> QED
    BY <1>1, <1>2, <1>3 DEF IndexInv, IndexTyped, IndexAlong, HoldsLoop,
       Committing, Restoring

LEMMA InitIndex == Init => IndexInv
  <1> SUFFICES ASSUME Init PROVE IndexInv
    OBVIOUS
  <1>1. index = <<>> /\ snapshots = {}
    BY DEF Init, StoreInit
  <1>2. IndexTyped
    BY <1>1, FS_EmptySet DEF IndexTyped
  <1>3. ToSet(index) = {}
    BY <1>1 DEF ToSet
  <1>4. \A s \in Sessions : ~HoldsLoop(s)
    BY DEF Init, HoldsLoop, Committing, Restoring
  <1> QED
    BY <1>1, <1>2, <1>3, <1>4 DEF IndexInv, IndexAlong

LEMMA NextIndex == IInv /\ IndexInv /\ [Next]_vars => IndexInv'
  <1> SUFFICES ASSUME IInv, IndexInv, [Next]_vars PROVE IndexInv'
    OBVIOUS
  <1>1. ASSUME NEW s \in Sessions, Request(s) PROVE IndexInv'
    BY <1>1, RequestKeepsIndex
  <1>2. ASSUME NEW s \in Sessions, Threads(s) PROVE IndexInv'
    BY <1>2, ThreadsKeepIndex
  <1>3. ASSUME NEW s \in Sessions, Handler(s) PROVE IndexInv'
    BY <1>3, HandlerKeepsIndex
  <1>4. CASE Crash
    BY <1>4, CrashKeepsIndex
  <1>5. CASE Restart
    BY <1>5, RestartKeepsIndex
  <1>6. CASE UNCHANGED vars
    BY <1>6 DEF vars, store, volatile, IndexInv, IndexTyped, IndexAlong,
       IndexFollows, LoopFree, HoldsLoop
  <1> QED
    BY <1>1, <1>2, <1>3, <1>4, <1>5, <1>6 DEF Next

LEMMA IndexInductive == Spec => []IndexInv
  BY Inductive, InitIndex, NextIndex, PTL DEF Spec

-----------------------------------------------------------------------------
(* The trail of the history. *)

LEMMA TrailOfHistory ==
    ASSUME NEW h \in Histories
    PROVE  /\ Trail(h) \in Seq(CGSs \cup {None})
           /\ DOMAIN Trail(h) = 1..Len(h.entries) + 1
           /\ Len(Trail(h)) = Len(h.entries) + 1
           /\ \A k \in 0..Len(h.entries) : Trail(h)[k + 1] = HashAt(h, k)
  <1>1. h.entries \in Seq([pre : CGSs, post : CGSs]) /\ Len(h.entries) \in Nat
    BY LenProperties DEF Histories
  <1>2. ASSUME NEW k \in 0..Len(h.entries)
        PROVE  HashAt(h, k) \in CGSs \cup {None}
    <2>1. CASE k = 0
      BY <2>1 DEF HashAt, Histories
    <2>2. CASE k # 0
      <3>1. k \in 1..Len(h.entries)
        BY <1>1, <2>2
      <3>2. h.entries[k] \in [pre : CGSs, post : CGSs]
        BY <1>1, <3>1, ElementOfSeq
      <3> QED
        BY <2>2, <3>2 DEF HashAt
    <2> QED
      BY <2>1, <2>2
  <1>3. Trail(h) \in [1..Len(h.entries) + 1 -> CGSs \cup {None}]
    BY <1>1, <1>2 DEF Trail
  <1>4. /\ Trail(h) \in Seq(CGSs \cup {None})
        /\ Len(Trail(h)) = Len(h.entries) + 1
    BY <1>1, <1>3
  <1> QED
    BY <1>1, <1>3, <1>4 DEF Trail

\* A history of one entry leads from its origin to the entry's result.
LEMMA TrailOfOneEntry ==
    ASSUME NEW pre \in CGSs, NEW post \in CGSs
    PROVE  Trail([origin |-> pre, entries |-> <<[pre |-> pre, post |-> post]>>,
                  cursor |-> 1]) = <<pre, post>>
  <1> DEFINE h == [origin |-> pre, entries |-> <<[pre |-> pre, post |-> post]>>,
                   cursor |-> 1]
  <1>1. Len(h.entries) = 1 /\ h.entries[1].post = post
    OBVIOUS
  <1>2. HashAt(h, 0) = pre /\ HashAt(h, 1) = post
    BY <1>1 DEF HashAt
  <1>3. Trail(h) = [k \in 1..2 |-> HashAt(h, k - 1)]
    BY <1>1 DEF Trail
  <1> QED
    BY <1>2, <1>3

\* Recording an applied prompt extends the trail where the CGS it was made from
\* lies on it, and starts a new one when it lies nowhere on it.
LEMMA RecordingExtendsTheTrail ==
    ASSUME NEW h \in Histories, h.cursor <= Len(h.entries),
           h.entries # <<>> => h.origin # None,
           NEW pre \in CGSs, NEW post \in CGSs,
           NEW new, new = RecordApply(h, pre, post)
    PROVE  \/ \E k \in DOMAIN Trail(h) :
                 /\ Trail(h)[k] = pre
                 /\ Trail(h)[h.cursor + 1] = pre => k = h.cursor + 1
                 /\ Trail(new) = Append(SubSeq(Trail(h), 1, k), post)
                 /\ new.cursor + 1 = k + 1
           \/ /\ \A k \in DOMAIN Trail(h) : Trail(h)[k] # pre
              /\ Trail(new) = <<pre, post>>
              /\ new.cursor + 1 = 2
  <1> DEFINE based == [h EXCEPT !.origin = IF @ = None THEN pre ELSE @]
             n == Len(h.entries)
             places == {k \in 0..n : HashAt(based, k) = pre}
             kept == IF h.cursor \in places THEN h.cursor ELSE Min(places)
             entry == [pre |-> pre, post |-> post]
             Records == [pre : CGSs, post : CGSs]
  <1>1. /\ h = [origin |-> h.origin, entries |-> h.entries, cursor |-> h.cursor]
        /\ h.origin \in CGSs \cup {None}
        /\ h.entries \in Seq(Records)
        /\ h.cursor \in 0..n
        /\ n \in Nat
        /\ pre # None
        /\ entry \in Records
    BY StoreConstants, LenProperties DEF Histories
  <1>2. /\ Trail(h) \in Seq(CGSs \cup {None})
        /\ DOMAIN Trail(h) = 1..n + 1
        /\ Len(Trail(h)) = n + 1
        /\ \A k \in 0..n : Trail(h)[k + 1] = HashAt(h, k)
    BY TrailOfHistory
  <1>3. CASE h.origin = None
    <2>1. h.entries = <<>> /\ n = 0 /\ h.cursor = 0
      BY <1>1, <1>3
    <2>2. HashAt(based, 0) = pre /\ based.origin = pre
      BY <1>1, <1>3 DEF HashAt
    <2>3. places = {0}
      BY <2>1, <2>2
    <2>4. new = [origin |-> pre,
                 entries |-> Append(SubSeq(h.entries, 1, 0), entry),
                 cursor |-> 1]
      BY <1>1, <2>1, <2>2, <2>3 DEF RecordApply
    <2>5. Append(SubSeq(h.entries, 1, 0), entry) = <<entry>>
      <3>1. /\ Append(SubSeq(h.entries, 1, 0), entry) \in Seq(Records)
            /\ Len(Append(SubSeq(h.entries, 1, 0), entry)) = 0 + 1
            /\ Append(SubSeq(h.entries, 1, 0), entry)[0 + 1] = entry
        <4>1. 0 \in 0..Len(h.entries)
          BY <2>1
        <4> HIDE DEF entry, Records
        <4> QED
          BY <1>1, <4>1, CutAndAppend
      <3> DEFINE one == Append(SubSeq(h.entries, 1, 0), entry)
      <3> HIDE DEF one, entry, Records
      <3>2. one \in Seq(Records) /\ Len(one) = 1 /\ one[1] = entry
        BY <3>1 DEF one
      <3>3. one = <<entry>>
        BY <3>2
      <3> QED
        BY <3>3 DEF one
    <2>6. Trail(new) = <<pre, post>>
      BY <2>4, <2>5, TrailOfOneEntry
    <2>7. \A k \in DOMAIN Trail(h) : Trail(h)[k] = None
      BY <1>2, <1>3, <2>1 DEF HashAt
    <2> QED
      BY <1>1, <2>4, <2>6, <2>7
  <1>4. CASE h.origin # None
    <2>1. based = h
      BY <1>1, <1>4
    <2>2. places = {k \in 0..n : HashAt(h, k) = pre}
      BY <2>1
    <2>3. CASE places = {}
      <3>1. new = [origin |-> pre, entries |-> <<entry>>, cursor |-> 1]
        BY <2>3 DEF RecordApply
      <3>2. Trail(new) = <<pre, post>>
        BY <3>1, TrailOfOneEntry
      <3>3. ASSUME NEW k \in 1..n + 1 PROVE Trail(h)[k] # pre
        <4>1. k - 1 \in 0..n /\ Trail(h)[(k - 1) + 1] = HashAt(h, k - 1)
          BY <1>1, <1>2
        <4>2. (k - 1) + 1 = k
          BY <1>1
        <4> QED
          BY <2>2, <2>3, <4>1, <4>2
      <3> QED
        BY <1>2, <3>1, <3>2, <3>3
    <2>4. CASE places # {}
      <3>1. kept \in places
        <4>1. places \subseteq Nat
          BY <1>1
        <4>2. Min(places) \in places
          <5> HIDE DEF places
          <5> QED
            BY <4>1, <2>4, MinIsMember
        <4> QED
          BY <4>2
      <3>2. /\ kept \in 0..n /\ HashAt(h, kept) = pre
            /\ HashAt(h, h.cursor) = pre => kept = h.cursor
        BY <1>1, <2>2, <3>1
      <3>3. new = [origin |-> h.origin,
                   entries |-> Append(SubSeq(h.entries, 1, kept), entry),
                   cursor |-> kept + 1]
        BY <2>1, <2>4 DEF RecordApply
      <3> HIDE DEF kept, places, based
      <3>4. /\ Append(SubSeq(h.entries, 1, kept), entry) \in Seq(Records)
            /\ Len(Append(SubSeq(h.entries, 1, kept), entry)) = kept + 1
            /\ \A k \in 1..kept :
                  Append(SubSeq(h.entries, 1, kept), entry)[k] = h.entries[k]
            /\ Append(SubSeq(h.entries, 1, kept), entry)[kept + 1] = entry
        <4> HIDE DEF entry, Records, n
        <4> QED
          BY <1>1, <3>2, CutAndAppend DEF n
      <3>5. new \in Histories /\ Len(new.entries) = kept + 1
        BY <1>1, <3>2, <3>3, <3>4 DEF Histories
      <3>6. /\ Trail(new) \in Seq(CGSs \cup {None})
            /\ Len(Trail(new)) = kept + 2
            /\ \A k \in 0..kept + 1 : Trail(new)[k + 1] = HashAt(new, k)
        BY <3>2, <3>5, TrailOfHistory
      <3> DEFINE cut == Append(SubSeq(Trail(h), 1, kept + 1), post)
      <3>7. /\ cut \in Seq(CGSs \cup {None})
            /\ Len(cut) = kept + 2
            /\ \A k \in 1..kept + 1 : cut[k] = Trail(h)[k]
            /\ cut[kept + 2] = post
        <4>1. kept + 1 \in 0..Len(Trail(h)) /\ (kept + 1) + 1 = kept + 2
          BY <1>1, <1>2, <3>2
        <4> DEFINE m == kept + 1
        <4>2. m \in 0..Len(Trail(h)) /\ m + 1 = kept + 2
          BY <4>1
        <4> HIDE DEF m
        <4>3. /\ Append(SubSeq(Trail(h), 1, m), post) \in Seq(CGSs \cup {None})
              /\ Len(Append(SubSeq(Trail(h), 1, m), post)) = m + 1
              /\ \A k \in 1..m : Append(SubSeq(Trail(h), 1, m), post)[k] = Trail(h)[k]
              /\ Append(SubSeq(Trail(h), 1, m), post)[m + 1] = post
          BY <1>2, <4>2, CutAndAppend
        <4> QED
          BY <4>2, <4>3 DEF m
      <3> HIDE DEF cut
      <3>8. ASSUME NEW k \in 0..kept + 1
            PROVE  Trail(new)[k + 1] = cut[k + 1]
        <4>1. CASE k = kept + 1
          <5>1. new.entries[kept + 1] = entry /\ kept + 1 # 0
            BY <3>2, <3>3, <3>4
          <5>2. HashAt(new, kept + 1) = post
            BY <5>1 DEF HashAt
          <5>3. kept + 1 \in 0..kept + 1 /\ (kept + 1) + 1 = kept + 2
            BY <3>2
          <5>4. Trail(new)[(kept + 1) + 1] = HashAt(new, kept + 1)
            BY <3>6, <5>3
          <5> QED
            BY <3>7, <4>1, <5>2, <5>3, <5>4
        <4>2. CASE k \in 0..kept
          <5>1. HashAt(new, k) = HashAt(h, k)
            BY <3>2, <3>3, <3>4, <4>2 DEF HashAt
          <5>2. k \in 0..n /\ k + 1 \in 1..kept + 1
            BY <1>1, <3>2, <4>2
          <5> QED
            BY <1>2, <3>6, <3>7, <5>1, <5>2
        <4> QED
          BY <3>2, <4>1, <4>2
      <3>9. Trail(new) = cut
        <4>1. ASSUME NEW i \in 1..kept + 2 PROVE Trail(new)[i] = cut[i]
          <5>1. i - 1 \in 0..kept + 1 /\ (i - 1) + 1 = i
            BY <3>2
          <5> QED
            BY <3>8, <5>1
        <4> QED
          BY <3>6, <3>7, <4>1, SeqEqual
      <3>10. /\ kept + 1 \in DOMAIN Trail(h)
             /\ Trail(h)[kept + 1] = pre
             /\ Trail(h)[h.cursor + 1] = HashAt(h, h.cursor)
        BY <1>1, <1>2, <3>2
      <3>11. /\ Trail(new) = Append(SubSeq(Trail(h), 1, kept + 1), post)
             /\ new.cursor = kept + 1
        <4>1. Trail(new) = Append(SubSeq(Trail(h), 1, kept + 1), post)
          BY <3>9 DEF cut
        <4>2. new.cursor = kept + 1
          BY <3>3
        <4> QED
          BY <4>1, <4>2
      <3>12. Trail(h)[h.cursor + 1] = pre => kept + 1 = h.cursor + 1
        BY <3>2, <3>10
      <3> QED
        BY <3>10, <3>11, <3>12
    <2> QED
      BY <2>3, <2>4
  <1> QED
    BY <1>3, <1>4

\* Whatever leaves the history alone leaves the trail alone.
LEMMA OthersMapToReplace ==
    ASSUME IInv', UNCHANGED history
    PROVE  E!Next
  <1>1. main' \in CGSs
    BY DEF IInv, Types
  <1>2. Trail(history)' = Trail(history) /\ (history.cursor + 1)' = history.cursor + 1
    BY DEF Trail, HashAt
  <1>3. E!Replace
    BY <1>1, <1>2 DEF E!Replace
  <1> QED
    BY <1>3 DEF E!Next

\* Requests and threads do.
LEMMA RequestsLeaveHistory ==
    ASSUME NEW s \in Sessions, Request(s) \/ Threads(s)
    PROVE  UNCHANGED history
  <1>1. CASE Request(s)
    BY <1>1 DEF Request, Generate, Discard, BeginApply, BeginLive, Begin, Link,
       Rollback, BeginRestore, Reload, Recover, store
  <1>2. CASE Threads(s)
    BY <1>2 DEF Threads, GdeCommits, GdeRefuses, SgcEnds, store
  <1> QED
    BY <1>1, <1>2

LEMMA AcceptMaps ==
    ASSUME IInv, IInv', NEW s \in Sessions, Accept(s)
    PROVE  E!Next
  <1>1. CASE UNCHANGED history
    BY <1>1, OthersMapToReplace
  <1>2. CASE history' = RecordApply(history, job[s].pre, job[s].post)
    <2> DEFINE pre == job[s].pre
               post == job[s].post
               new == RecordApply(history, pre, post)
               ExtendedAt(h, k) ==
                   /\ Trail(history)[k] = pre
                   /\ Trail(history)[history.cursor + 1] = pre => k = history.cursor + 1
                   /\ Trail(h) = Append(SubSeq(Trail(history), 1, k), post)
                   /\ h.cursor + 1 = k + 1
               Anew(h) ==
                   /\ \A k \in DOMAIN Trail(history) : Trail(history)[k] # pre
                   /\ Trail(h) = <<pre, post>>
                   /\ h.cursor + 1 = 2
    <2>1. /\ history \in Histories
          /\ history.cursor <= Len(history.entries)
          /\ history.entries # <<>> => history.origin # None
          /\ pre \in CGSs /\ post \in CGSs /\ pre # None
      BY StoreConstants DEF IInv, Types
    <2>2. /\ job[s].edit \in PromptEdits
          /\ post = Append(pre, job[s].edit)
          /\ main = post /\ main' = main
      BY DEF IInv, Accept, Jobs, Written, Types, Committing
    <2>3. (\E k \in DOMAIN Trail(history) : ExtendedAt(new, k)) \/ Anew(new)
      <3> HIDE DEF pre, post
      <3> QED
        BY <2>1, RecordingExtendsTheTrail
    <2>4. (\E k \in DOMAIN Trail(history) : ExtendedAt(history', k)) \/ Anew(history')
      <3> HIDE DEF ExtendedAt, Anew
      <3> QED
        BY <1>2, <2>3
    <2>5. ASSUME NEW k \in DOMAIN Trail(history), ExtendedAt(history', k)
          PROVE  E!Next
      <3>1. E!Extend(k, job[s].edit)
        BY <2>1, <2>2, <2>5 DEF E!Extend
      <3> QED
        BY <2>2, <3>1 DEF E!Next
    <2>6. CASE Anew(history')
      <3>1. E!StartAnew(pre, job[s].edit)
        BY <2>2, <2>6 DEF E!StartAnew
      <3> QED
        BY <2>1, <2>2, <3>1 DEF E!Next
    <2> QED
      <3> HIDE DEF ExtendedAt, Anew
      <3> QED
        BY <2>4, <2>5, <2>6
  <1> QED
    BY <1>1, <1>2 DEF Accept

LEMMA MoveCursorMaps ==
    ASSUME IInv, NEW s \in Sessions, MoveCursor(s)
    PROVE  E!Next
  <1> DEFINE k == CursorAfter(history, job[s].kind)
  <1>1. /\ history' = [history EXCEPT !.cursor = k]
        /\ k \in 0..Len(history.entries)
        /\ job[s].kind \in {"undo", "redo"}
        /\ HashAt(history, k) = job[s].post
        /\ main = job[s].post /\ main' = main
    BY DEF IInv, MoveCursor, Jobs, Written
  <1>2. /\ history \in Histories
        /\ history.cursor \in Nat
        /\ Len(history.entries) \in Nat
    BY LenProperties DEF IInv, Types, Histories
  <1>3. k = history.cursor + 1 \/ history.cursor = k + 1
    BY <1>1, <1>2 DEF CursorAfter
  <1>4. Trail(history') = Trail(history) /\ history'.cursor = k
    BY <1>1, <1>2 DEF Trail, HashAt, Histories
  <1>5. /\ k + 1 \in DOMAIN Trail(history)
        /\ Trail(history)[k + 1] = main
    BY <1>1, <1>2, TrailOfHistory
  <1>6. E!Move(k + 1)
    BY <1>1, <1>2, <1>3, <1>4, <1>5 DEF E!Move
  <1> QED
    BY <1>5, <1>6 DEF E!Next

LEMMA StepsMap == IInv /\ IInv' /\ [Next]_vars => [E!Next]_(E!vars)
  <1> SUFFICES ASSUME IInv, IInv', [Next]_vars PROVE [E!Next]_(E!vars)
    OBVIOUS
  <1>1. ASSUME NEW s \in Sessions, Request(s) \/ Threads(s) PROVE E!Next
    BY <1>1, RequestsLeaveHistory, OthersMapToReplace
  <1>2. ASSUME NEW s \in Sessions, Handler(s) PROVE E!Next
    <2>1. CASE Accept(s)
      BY <2>1, AcceptMaps
    <2>2. CASE MoveCursor(s)
      BY <2>2, MoveCursorMaps
    <2>3. CASE ~(Accept(s) \/ MoveCursor(s))
      <3>1. UNCHANGED history
        BY <1>2, <2>3 DEF Handler, Commit, WriteSnapshot, WriteIndex, WritePlan,
           WriteProof, WriteFails, LiveWriteFails, Reject, AdoptLive,
           RestoreMain, RestoreMainFails, RemoveSnapshot, RemoveRecord,
           RemovePlan, RemoveProof, MoveCursorFails, store
      <3> QED
        BY <3>1, OthersMapToReplace
    <2> QED
      BY <2>1, <2>2, <2>3
  <1>3. CASE Crash \/ Restart \/ UNCHANGED vars
    BY <1>3, OthersMapToReplace DEF Crash, Restart, Recover, vars, store
  <1> QED
    BY <1>1, <1>2, <1>3 DEF Next

-----------------------------------------------------------------------------
(* The theorems. *)

\* Every variable stays within its type, whatever sessions, threads, failing
\* writes and crashes do; the cursor stays in the history.
THEOREM ServerTypes == Spec => []TypeOK
  BY Inductive, IndexInductive, PTL DEF IInv, IndexInv, IndexTyped, TypeOK

\* Two handlers are never between their first and their last write together,
\* although each awaits its threads in the middle.
THEOREM OneWriter == Spec => []LoopIsExclusive
  BY Inductive, PTL DEF IInv

\* The prompt history is one chain of single edits, through undos, branches,
\* other writers, failed applies, crashes and recoveries.
THEOREM HistoryStaysLinear == Spec => []HistoryIsLinear
  BY Inductive, PTL DEF IInv

\* While no handler writes, the CGS in memory is that of game.cgs.json.
THEOREM MemoryOnDisk == Spec => []MemoryFollowsDisk
  BY Inductive, PTL DEF IInv

\* While no handler writes, the index lists exactly the snapshots there are:
\* a failed commit takes its record and its file back, and a recovery repairs
\* what a crash left between the two.
THEOREM IndexFollowsFiles == Spec => []IndexMatchesFiles
  BY IndexInductive, PTL DEF IndexInv, IndexAlong, IndexMatchesFiles

\* A structural edit that was reported as applied stays the active CGS, with
\* its plan, until another write replaces it; no recovery takes it back.
THEOREM AppliedEditSurvives == Spec => []AppliedEditIsDurable
  BY Inductive, PTL DEF IInv

\* What a prompt commit writes is the edit of the preview on the preview's CGS.
THEOREM PreviewIsCommitted == Spec => CommitIsThePreview
  <1>1. IInv =>
            \A s \in Sessions : Commit(s) /\ job[s].kind = "prompt" =>
                main' = Append(pending[s].base, pending[s].edit)
    BY DEF IInv, Jobs, Commit
  <1> QED
    BY <1>1, Inductive, PTL DEF CommitIsThePreview

\* An undo takes one prompt edit back, a redo puts one back.
THEOREM RestoresMoveOneEdit == Spec => RestoreMovesOneEdit
  <1>1. ASSUME IInv, NEW s \in Sessions, BeginRestore(s, "undo")
        PROVE  \E edit \in PromptEdits : main = Append(main', edit)
    <2>1. /\ memory = main /\ main' = history.entries[history.cursor].pre
          /\ HashAt(history, history.cursor) = memory
          /\ history.cursor > 0
      BY <1>1 DEF BeginRestore, Authorized, RestoreAllowed, RestoreTarget
    <2>2. history.cursor \in DOMAIN history.entries
      BY <1>1, <2>1, LenProperties DEF IInv, Types, Histories
    <2>3. history.entries[history.cursor].post = main
      BY <2>1 DEF HashAt
    <2> QED
      BY <1>1, <2>1, <2>2, <2>3 DEF IInv, HistoryIsLinear, Linear
  <1>2. ASSUME IInv, NEW s \in Sessions, BeginRestore(s, "redo")
        PROVE  \E edit \in PromptEdits : main' = Append(main, edit)
    <2> DEFINE k == history.cursor + 1
    <2>1. /\ memory = main /\ main' = history.entries[k].post
          /\ HashAt(history, history.cursor) = memory
          /\ history.cursor < Len(history.entries)
      BY <1>2 DEF BeginRestore, Authorized, RestoreAllowed, RestoreTarget
    <2>2. k \in DOMAIN history.entries /\ k - 1 = history.cursor
      BY <1>2, <2>1, LenProperties DEF IInv, Types, Histories
    <2>3. history.entries[k].pre = main
      BY <1>2, <2>1, <2>2 DEF IInv, HistoryIsLinear, Linear
    <2> QED
      BY <1>2, <2>1, <2>2, <2>3 DEF IInv, HistoryIsLinear, Linear
  <1>3. IInv =>
            \A s \in Sessions :
                /\ BeginRestore(s, "undo") =>
                      \E edit \in PromptEdits : main = Append(main', edit)
                /\ BeginRestore(s, "redo") =>
                      \E edit \in PromptEdits : main' = Append(main, edit)
    BY <1>1, <1>2
  <1> QED
    BY <1>3, Inductive, PTL DEF RestoreMovesOneEdit

\* The prompt history is a trail with a place on it, as EditTrail has it,
\* although CGS, history and cursor are three writes and each of them may fail
\* or be the last before a crash.
THEOREM ServerImplementsEditTrail == Spec => ImplementsEditTrail
  <1>1. Init => E!Init
    <2> SUFFICES ASSUME Init PROVE E!Init
      OBVIOUS
    <2>1. main = Fresh /\ history = NoHistory
      BY DEF Init, StoreInit
    <2>2. Trail(NoHistory) = <<None>>
      BY DEF Trail, HashAt, NoHistory
    <2> QED
      BY <2>1, <2>2, FreshIsCGS DEF E!Init, NoHistory
  <1> QED
    BY <1>1, StepsMap, Inductive, PTL DEF Spec, ImplementsEditTrail, E!Spec

\* A recovery ends with a CGS that can run, unless no snapshot can.
THEOREM RecoveriesRunnable == Spec => RecoveryIsRunnable
  <1>1. ASSUME Recover
        PROVE  Runnable(main)' \/ \A cgs \in snapshots : ~Runnable(cgs)
    <2>1. plans' = plans
      BY <1>1 DEF Recover
    <2>2. CASE Runnable(main) \/ RunnableSnapshots = {}
      BY <1>1, <2>1, <2>2 DEF Recover, RecoveredMain, RunnableSnapshots, Runnable
    <2>3. CASE ~(Runnable(main) \/ RunnableSnapshots = {})
      <3>1. main' \in RunnableSnapshots
        BY <1>1, <2>3 DEF Recover, RecoveredMain
      <3> QED
        BY <3>1, <2>1 DEF RunnableSnapshots, Runnable
    <2> QED
      BY <2>2, <2>3
  <1>2. Restart \/ (\E s \in Sessions : Reload(s)) =>
            Runnable(main)' \/ \A cgs \in snapshots : ~Runnable(cgs)
    BY <1>1 DEF Restart, Reload
  <1> QED
    BY <1>2, PTL DEF RecoveryIsRunnable

-----------------------------------------------------------------------------
(* CommitReplacesItsParent fails with two sessions (run builder_parent).  It  *)
(* holds for a user who is alone.                                            *)

\* The CGS a job was begun on is the active one until its commit.
OnItsParent ==
    \A s \in Sessions :
        pc[s] \in {"gde", "sgc", "failed", "commit"} => main = job[s].pre

\* What a session alone does: it is idle, or under way with its one job.
LEMMA AloneStaysOnItsParent ==
    ASSUME \A r, s \in Sessions : r = s, IInv, OnItsParent, [Next]_vars
    PROVE  OnItsParent'
  <1>1. pc = [s \in Sessions |-> pc[s]] /\ job = [s \in Sessions |-> job[s]]
    BY DEF IInv, Types
  <1>2. ASSUME NEW s \in Sessions, Request(s) PROVE OnItsParent'
    <2>1. pc[s] = "idle"
      BY <1>2 DEF Request, Generate, Discard, BeginApply, BeginLive, Link, Rollback,
                  BeginRestore, Reload, Ready
    <2>2. \/ pc' = pc
          \/ pc' = [pc EXCEPT ![s] = "cursor"]
          \/ main' = memory /\ job'[s].pre = memory
      BY <1>1, <1>2 DEF Request, Generate, Discard, BeginApply, BeginLive, Begin, Link,
                        Rollback, BeginRestore, Reload, Authorized, Goto, store
    <2> QED
      BY <1>1, <2>1, <2>2 DEF OnItsParent
  <1>3. ASSUME NEW s \in Sessions, Threads(s) PROVE OnItsParent'
    <2>1. pc[s] \in {"gde", "sgc"} /\ main' = main
      BY <1>3 DEF Threads, GdeCommits, GdeRefuses, SgcEnds, store
    <2>2. job[s] = [kind |-> job[s].kind, edit |-> job[s].edit,
                    pre |-> job[s].pre, post |-> job[s].post]
      BY DEF IInv, Types
    <2>3. job'[s].pre = job[s].pre \/ pc'[s] = "idle"
      BY <1>1, <1>3, <2>2 DEF Threads, GdeCommits, GdeRefuses, SgcEnds, Finish, Goto
    <2> QED
      BY <2>1, <2>3 DEF OnItsParent
  <1>4. ASSUME NEW s \in Sessions, Handler(s) PROVE OnItsParent'
    <2>1. pc'[s] \notin {"gde", "sgc", "failed", "commit"}
      BY <1>1, <1>4
         DEF Handler, Commit, WriteSnapshot, WriteIndex, WritePlan, WriteProof,
             WriteFails, LiveWriteFails, Accept, Reject, AdoptLive, RestoreMain,
             RestoreMainFails, RemoveSnapshot, RemoveRecord, RemovePlan,
             RemoveProof, MoveCursor, MoveCursorFails, Goto, Finish
    <2> QED
      BY <2>1 DEF OnItsParent
  <1>5. CASE Crash
    BY <1>5 DEF Crash, OnItsParent
  <1>6. CASE Restart
    <2>1. \A s \in Sessions : pc'[s] = pc[s] /\ pc[s] = "idle"
      BY <1>6 DEF Restart, IInv, Jobs, Types
    <2> QED
      BY <2>1 DEF OnItsParent
  <1>7. CASE UNCHANGED vars
    BY <1>7 DEF vars, store, volatile, OnItsParent
  <1> QED
    BY <1>2, <1>3, <1>4, <1>5, <1>6, <1>7 DEF Next

\* A session that is alone never overwrites a CGS its commit was not made
\* for, whatever fails and wherever the server crashes: only a second session
\* can come between the check of the parent and the write.
THEOREM AloneCommitsReplaceTheirParent ==
    ASSUME \A r, s \in Sessions : r = s
    PROVE  Spec => CommitReplacesItsParent
  <1>1. Init => OnItsParent
    BY DEF Init, OnItsParent
  <1>2. IInv /\ OnItsParent /\ [Next]_vars => OnItsParent'
    BY AloneStaysOnItsParent
  <1>3. OnItsParent => \A s \in Sessions : Commit(s) => main = job[s].pre
    BY DEF OnItsParent, Commit
  <1> QED
    BY <1>1, <1>2, <1>3, Inductive, PTL DEF Spec, CommitReplacesItsParent
=============================================================================
