----------------------------- MODULE ProjectStore -----------------------------
(***************************************************************************)
(* What a Builder project keeps on disk, and the pure part of              *)
(* CGSPersistence (packages/builder-workspace/server/cgs_persistence.py):  *)
(* game.cgs.json, the snapshots and their index, the ExecutionPlans, the   *)
(* SGC proof bundles and the prompt history.                               *)
(*                                                                         *)
(* A CGS is the sequence of edits that made it: two CGSs have the same     *)
(* cgs_hash exactly when they are the same sequence, so a CGS stands for   *)
(* its hash too.  A write of one file is atomic (temp file, fsync,         *)
(* rename), and a plan or proof on disk is complete: recover() deletes a   *)
(* partial one before anybody reads it.                                    *)
(*                                                                         *)
(* Left out: the cap of 100 index records, the audit ledger, the           *)
(* transaction counter, and damage to files that nothing interrupted.      *)
(***************************************************************************)
EXTENDS Naturals, SequencesExt

CONSTANTS
    TypedEdits,    \* prompt edits that are compiled by the SGC
    ValueEdits,    \* prompt edits that are not
    LiveEdits,     \* edits made in an engine and committed
    LinkEdits,     \* asset links and semantic bindings
    SystemEdits,   \* the edits that declare an executable system
    MaxEdits,      \* bound: edits in one CGS
    None

PromptEdits == TypedEdits \cup ValueEdits
Edits == PromptEdits \cup LiveEdits \cup LinkEdits

CGSs == UNION {[1..n -> Edits] : n \in 0..MaxEdits}

ASSUME StoreConstants ==
    /\ SystemEdits \subseteq TypedEdits
    /\ MaxEdits \in Nat
    /\ None \notin CGSs \cup Edits

VARIABLES
    main,       \* game.cgs.json
    snapshots,  \* the CGSs with a file under snapshots/
    index,      \* snapshot_index.json, newest first
    plans,      \* the CGSs with an ExecutionPlan
    proofs,     \* the CGSs with an SGC proof bundle
    history     \* prompt_history.json: origin, entries and cursor

store == <<main, snapshots, index, plans, proofs, history>>

Fresh == <<>>

NoHistory == [origin |-> None, entries |-> <<>>, cursor |-> 0]

StoreInit ==
    /\ main = Fresh
    /\ snapshots = {}
    /\ index = <<>>
    /\ plans = {}
    /\ proofs = {}
    /\ history = NoHistory

-----------------------------------------------------------------------------
\* Snapshots and recovery

RequiresPlan(cgs) == ToSet(cgs) \cap SystemEdits # {}

\* A CGS with systems needs the ExecutionPlan of its own hash.
Runnable(cgs) == RequiresPlan(cgs) => cgs \in plans

\* The records of a list that are in S, in their order (SelectSeq says the
\* same, but TLAPS knows nothing of it).
Kept(records, S) ==
    FoldLeft(LAMBDA kept, r : IF r \in S THEN Append(kept, r) ELSE kept,
             <<>>, records)

Without(records, cgs) == Kept(records, ToSet(records) \ {cgs})

\* snapshot() drops a record of the same hash and puts the new one first.
Indexed(cgs) == <<cgs>> \o Without(index, cgs)

\* Records without a file go.  A file without a record counts as the newest
\* one: an interrupted snapshot() left it behind.
Strays == snapshots \ ToSet(index)

VerifiedIndex == SetToSeq(Strays) \o Kept(index, snapshots)

Newer(x, y) ==
    \/ x \in Strays /\ y \notin Strays
    \/ \E i, j \in DOMAIN index : i < j /\ index[i] = x /\ index[j] = y

RunnableSnapshots == {cgs \in snapshots : Runnable(cgs)}

\* Bug: the newest snapshot, runnable or not.
RecoveredToNewest ==
    IF Runnable(main) \/ snapshots = {}
    THEN {main}
    ELSE {cgs \in snapshots : \A other \in snapshots : ~Newer(other, cgs)}

\* The active CGS gives way to the newest runnable snapshot when it has
\* systems and no plan; when no snapshot is runnable it stays.
RecoveredMain ==
    IF Runnable(main) \/ RunnableSnapshots = {}
    THEN {main}
    ELSE {cgs \in RunnableSnapshots :
             \A other \in RunnableSnapshots : ~Newer(other, cgs)}

\* Bug: the index is not repaired.
RecoverMainOnly ==
    /\ main' \in RecoveredMain
    /\ UNCHANGED <<snapshots, index, plans, proofs, history>>

Recover ==
    /\ index' = VerifiedIndex
    /\ main' \in RecoveredMain
    /\ UNCHANGED <<snapshots, plans, proofs, history>>

-----------------------------------------------------------------------------
\* The prompt history

\* The CGS the history says is active when its cursor is at k.
HashAt(h, k) == IF k = 0 THEN h.origin ELSE h.entries[k].post

\* Bug: the redo tail stays.
RecordAtEnd(h, pre, post) ==
    [origin |-> IF h.origin = None THEN pre ELSE h.origin,
     entries |-> Append(h.entries, [pre |-> pre, post |-> post]),
     cursor |-> Len(h.entries) + 1]

\* One applied prompt.  After an undo the redo tail goes; when the CGS was
\* moved elsewhere the history continues at the first place that has it, or
\* starts anew.
RecordApply(h, pre, post) ==
    LET based == [h EXCEPT !.origin = IF @ = None THEN pre ELSE @]
        places == {k \in 0..Len(h.entries) : HashAt(based, k) = pre}
        kept == IF h.cursor \in places THEN h.cursor ELSE Min(places)
        entry == [pre |-> pre, post |-> post]
    IN  IF places = {}
        THEN [origin |-> pre, entries |-> <<entry>>, cursor |-> 1]
        ELSE [origin |-> based.origin,
              entries |-> Append(SubSeq(h.entries, 1, kept), entry),
              cursor |-> kept + 1]

\* Bug: undo moves the cursor the way redo does.
CursorForward(h, action) == h.cursor + 1

\* Where an undo or a redo goes.
CursorAfter(h, action) ==
    IF action = "undo" THEN h.cursor - 1 ELSE h.cursor + 1

RestoreTarget(h, action) ==
    IF action = "undo" THEN h.entries[h.cursor].pre
                       ELSE h.entries[h.cursor + 1].post

\* Bug: whatever is active now.
RestoreAllowedAnywhere(action, current) ==
    /\ IF action = "undo" THEN history.cursor > 0
                          ELSE history.cursor < Len(history.entries)
    /\ RestoreTarget(history, action) \in snapshots \cap plans \cap proofs

\* plan_prompt_history_restore() accepts: the active CGS is the one at the
\* cursor, there is an entry on that side, and its CGS has all its artifacts.
RestoreAllowed(action, current) ==
    /\ history.entries # <<>>
    /\ HashAt(history, history.cursor) = current
    /\ IF action = "undo" THEN history.cursor > 0
                          ELSE history.cursor < Len(history.entries)
    /\ RestoreTarget(history, action) \in snapshots \cap plans \cap proofs
=============================================================================
