---------------------------- MODULE BuilderServer ----------------------------
(***************************************************************************)
(* The Builder server of one project: the handlers of WSMessageRouter that *)
(* change the CGS (packages/builder-workspace/server/ws_message_router.py) *)
(* and the sessions whose messages they handle, over the files of          *)
(* ProjectStore.                                                           *)
(*                                                                         *)
(* All sessions share one cgs_state, the CGS in memory.  The handlers of   *)
(* one session run one after another; those of two sessions interleave on  *)
(* one event loop, and only where a handler awaits: while GDE and SGC work *)
(* in a thread.  From the first write of a commit to its end a handler     *)
(* keeps the loop.  Each of its writes is a step here, because a crash may *)
(* fall between two of them; pc names the write that is next.              *)
(*                                                                         *)
(* GDE's own copy of the CGS is loaded again whenever its hash differs, so *)
(* it is no state; that a thread may see cgs_state half replaced is left   *)
(* out.                                                                    *)
(***************************************************************************)
EXTENDS ProjectStore

CONSTANTS
    Sessions,
    MaxRequests,   \* bound: requests that may change the CGS, and faults
    MaxFaults      \* bound: crashes and failing writes

ASSUME ServerConstants == MaxRequests \in Nat /\ MaxFaults \in Nat

VARIABLES
    up,        \* the server process runs
    memory,    \* cgs_state
    pending,   \* each session's previewed edit and the CGS it was made for
    pc,        \* where each session's handler is
    job,       \* what it commits: kind, edit, and the CGS before and after
    torn,      \* an error path left memory and game.cgs.json different
    acked,     \* the typed edit reported as applied, while nothing replaced it
    requests,  \* requests so far
    faults     \* crashes and failing writes so far

volatile == <<memory, pending, pc, job, torn>>
bounds == <<requests, faults>>
vars == <<store, up, volatile, acked, bounds>>

NoJob == [kind |-> "none", edit |-> None, pre |-> Fresh, post |-> Fresh]

Init ==
    /\ StoreInit
    /\ up = TRUE
    /\ memory = main
    /\ pending = [s \in Sessions |-> None]
    /\ pc = [s \in Sessions |-> "idle"]
    /\ job = [s \in Sessions |-> NoJob]
    /\ torn = FALSE
    /\ acked = None
    /\ requests = 0
    /\ faults = 0

-----------------------------------------------------------------------------
\* Handlers and the event loop

Committing == {"snapshot", "index", "plan", "proof", "adopt"}
Restoring == {"restore", "unsnapshot", "unindex", "unplan", "unproof"}

\* The places at which a handler keeps the event loop.
HoldsLoop(s) == pc[s] \in Committing \cup Restoring \cup {"cursor"}

LoopFree == \A s \in Sessions : ~HoldsLoop(s)

Goto(s, place) == pc' = [pc EXCEPT ![s] = place]

\* The handler returns.
Finish(s) ==
    /\ Goto(s, "idle")
    /\ job' = [job EXCEPT ![s] = NoJob]

Applicable(cgs, edit) == Len(cgs) < MaxEdits /\ edit \notin ToSet(cgs)

\* Bug: the submitted hash is not compared.
AuthorizedByDisk(submitted) == memory = main

\* _prepare_mutation_authority(): the hash the caller submits, the one in
\* memory and the one on disk agree.
Authorized(submitted) == submitted = memory /\ memory = main

\* One more request that may change the CGS; one more fault, which leaves one
\* request less.
MayRequest == requests + faults < MaxRequests
Counted == MayRequest /\ requests' = requests + 1 /\ UNCHANGED faults
Fault == faults < MaxFaults /\ faults' = faults + 1 /\ UNCHANGED requests

\* A new message can be handled.
Ready(s) == up /\ LoopFree /\ pc[s] = "idle"

-----------------------------------------------------------------------------
\* Prompts

\* A prompt yields a transaction for the CGS the session sees.  (None is made
\* once the bound leaves no request to apply it.)
Generate(s, edit) ==
    /\ Ready(s)
    /\ MayRequest
    /\ Applicable(memory, edit)
    /\ pending' = [pending EXCEPT ![s] = [edit |-> edit, base |-> memory]]
    /\ UNCHANGED <<store, up, memory, pc, job, torn, acked, bounds>>

Discard(s) ==
    /\ Ready(s)
    /\ pending[s] # None
    /\ pending' = [pending EXCEPT ![s] = None]
    /\ UNCHANGED <<store, up, memory, pc, job, torn, acked, bounds>>

Begin(s, kind, edit) ==
    /\ Counted
    /\ job' = [job EXCEPT ![s] =
                  [kind |-> kind, edit |-> edit, pre |-> memory, post |-> memory]]
    /\ Goto(s, "gde")
    /\ UNCHANGED <<store, up, memory, pending, torn, acked>>

BeginApply(s) ==
    /\ Ready(s)
    /\ pending[s] # None
    /\ Authorized(pending[s].base)
    /\ Begin(s, "prompt", pending[s].edit)

BeginLive(s, edit) ==
    /\ Ready(s)
    /\ Applicable(memory, edit)
    /\ Authorized(memory)
    /\ Begin(s, "live", edit)

\* The GDE thread.  It compares the parent hash with the CGS in memory once
\* more, and it may refuse for reasons of its own.
GdeCommits(s) ==
    /\ pc[s] = "gde"
    /\ memory = job[s].pre
    /\ job' = [job EXCEPT ![s].post = Append(memory, job[s].edit)]
    /\ Goto(s, IF job[s].edit \in TypedEdits THEN "sgc" ELSE "commit")
    /\ UNCHANGED <<store, up, memory, pending, torn, acked, bounds>>

GdeRefuses(s) ==
    /\ pc[s] = "gde"
    /\ Finish(s)
    /\ UNCHANGED <<store, up, memory, pending, torn, acked, bounds>>

\* The SGC thread.
SgcEnds(s, outcome) ==
    /\ pc[s] = "sgc"
    /\ Goto(s, outcome)
    /\ UNCHANGED <<store, up, memory, pending, job, torn, acked, bounds>>

-----------------------------------------------------------------------------
\* The writes of a commit

Commit(s) ==
    /\ pc[s] = "commit" /\ LoopFree
    /\ main' = job[s].post
    /\ acked' = None
    /\ Goto(s, "snapshot")
    /\ UNCHANGED <<snapshots, index, plans, proofs, history,
                   up, memory, pending, job, torn, bounds>>

WriteSnapshot(s) ==
    /\ pc[s] = "snapshot"
    /\ snapshots' = snapshots \cup {job[s].post}
    /\ Goto(s, "index")
    /\ UNCHANGED <<main, index, plans, proofs, history,
                   up, memory, pending, job, torn, acked, bounds>>

\* Bug: a structural edit's plan is not saved.
WriteIndexOnly(s) ==
    /\ pc[s] = "index"
    /\ index' = Indexed(job[s].post)
    /\ Goto(s, "adopt")
    /\ UNCHANGED <<main, snapshots, plans, proofs, history,
                   up, memory, pending, job, torn, acked, bounds>>

WriteIndex(s) ==
    /\ pc[s] = "index"
    /\ index' = Indexed(job[s].post)
    /\ Goto(s, IF job[s].edit \in TypedEdits THEN "plan" ELSE "adopt")
    /\ UNCHANGED <<main, snapshots, plans, proofs, history,
                   up, memory, pending, job, torn, acked, bounds>>

WritePlan(s) ==
    /\ pc[s] = "plan"
    /\ plans' = plans \cup {job[s].post}
    /\ Goto(s, "proof")
    /\ UNCHANGED <<main, snapshots, index, proofs, history,
                   up, memory, pending, job, torn, acked, bounds>>

WriteProof(s) ==
    /\ pc[s] = "proof"
    /\ proofs' = proofs \cup {job[s].post}
    /\ Goto(s, "adopt")
    /\ UNCHANGED <<main, snapshots, index, plans, history,
                   up, memory, pending, job, torn, acked, bounds>>

\* The write that is next fails: a prompt is rolled back.
WriteFails(s) ==
    /\ Fault
    /\ \/ pc[s] = "commit" /\ LoopFree
       \/ pc[s] \in Committing \ {"adopt"}
    /\ job[s].kind = "prompt"
    /\ Goto(s, "restore")
    /\ UNCHANGED <<store, up, memory, pending, job, torn, acked>>

\* Nothing rolls back a live edit: the exception ends the handler.
LiveWriteFails(s) ==
    /\ Fault
    /\ \/ pc[s] = "commit" /\ LoopFree
       \/ pc[s] \in Committing \ {"adopt"}
    /\ job[s].kind = "live"
    /\ torn' = (torn \/ pc[s] # "commit")
    /\ Finish(s)
    /\ UNCHANGED <<store, up, memory, pending, acked>>

\* The prompt is applied: memory, history, pending.  A history that cannot be
\* written is only logged.
Accept(s) ==
    /\ pc[s] = "adopt" /\ job[s].kind = "prompt"
    /\ memory' = job[s].post
    /\ \/ history' = RecordApply(history, job[s].pre, job[s].post) /\ UNCHANGED bounds
       \/ Fault /\ UNCHANGED history
    /\ pending' = [pending EXCEPT ![s] = None]
    /\ acked' = IF job[s].edit \in TypedEdits THEN job[s].post ELSE None
    /\ Finish(s)
    /\ UNCHANGED <<main, snapshots, index, plans, proofs, up, torn>>

\* The runtime, the replay or the adapter does not accept the new CGS.
Reject(s) ==
    /\ pc[s] = "adopt" /\ job[s].kind = "prompt"
    /\ memory' = job[s].post
    /\ Goto(s, "restore")
    /\ UNCHANGED <<store, up, pending, job, torn, acked, bounds>>

AdoptLive(s) ==
    /\ pc[s] = "adopt" /\ job[s].kind = "live"
    /\ memory' = job[s].post
    /\ Finish(s)
    /\ UNCHANGED <<store, up, pending, torn, acked, bounds>>

-----------------------------------------------------------------------------
\* A failed prompt apply: restore_prompt_apply_failure()

StartsRestore(s) == pc[s] = "restore" \/ (pc[s] = "failed" /\ LoopFree)

RestoreMain(s) ==
    /\ StartsRestore(s)
    /\ main' = job[s].pre
    /\ acked' = None
    /\ Goto(s, "unsnapshot")
    /\ UNCHANGED <<snapshots, index, plans, proofs, history,
                   up, memory, pending, job, torn, bounds>>

\* Memory goes back although the file could not.
RestoreMainFails(s) ==
    /\ Fault
    /\ StartsRestore(s)
    /\ memory' = job[s].pre
    /\ torn' = TRUE
    /\ Finish(s)
    /\ UNCHANGED <<store, up, pending, acked>>

RemoveSnapshot(s) ==
    /\ pc[s] = "unsnapshot"
    /\ snapshots' = snapshots \ {job[s].post}
    /\ Goto(s, "unindex")
    /\ UNCHANGED <<main, index, plans, proofs, history,
                   up, memory, pending, job, torn, acked, bounds>>

RemoveRecord(s) ==
    /\ pc[s] = "unindex"
    /\ index' = Without(index, job[s].post)
    /\ Goto(s, "unplan")
    /\ UNCHANGED <<main, snapshots, plans, proofs, history,
                   up, memory, pending, job, torn, acked, bounds>>

RemovePlan(s) ==
    /\ pc[s] = "unplan"
    /\ plans' = plans \ {job[s].post}
    /\ Goto(s, "unproof")
    /\ UNCHANGED <<main, snapshots, index, proofs, history,
                   up, memory, pending, job, torn, acked, bounds>>

\* Bug: the CGS in memory stays the rejected one.
RemoveProofOnly(s) ==
    /\ pc[s] = "unproof"
    /\ proofs' = proofs \ {job[s].post}
    /\ Finish(s)
    /\ UNCHANGED <<main, snapshots, index, plans, history,
                   up, memory, pending, torn, acked, bounds>>

\* Bug: the restore is repeated as long as the preview is there.
RemoveProofAgain(s) ==
    /\ pc[s] = "unproof"
    /\ proofs' = proofs \ {job[s].post}
    /\ memory' = job[s].pre
    /\ Goto(s, "restore")
    /\ UNCHANGED <<main, snapshots, index, plans, history,
                   up, pending, job, torn, acked, bounds>>

\* The last artifact, then the CGS in memory; the preview is kept.
RemoveProof(s) ==
    /\ pc[s] = "unproof"
    /\ proofs' = proofs \ {job[s].post}
    /\ memory' = job[s].pre
    /\ Finish(s)
    /\ UNCHANGED <<main, snapshots, index, plans, history,
                   up, pending, torn, acked, bounds>>

-----------------------------------------------------------------------------
\* Handlers that never await between their check and their write

\* An asset link or a semantic binding is saved; nothing else is written.
Link(s, edit) ==
    /\ Counted
    /\ Ready(s)
    /\ Applicable(memory, edit)
    /\ Authorized(memory)
    /\ main' = Append(memory, edit)
    /\ memory' = main'
    /\ acked' = None
    /\ UNCHANGED <<snapshots, index, plans, proofs, history,
                   up, pending, pc, job, torn>>

Rollback(s, cgs) ==
    /\ Counted
    /\ Ready(s)
    /\ cgs \in snapshots
    /\ Authorized(memory)
    /\ main' = cgs
    /\ memory' = cgs
    /\ acked' = None
    /\ UNCHANGED <<snapshots, index, plans, proofs, history,
                   up, pending, pc, job, torn>>

\* Bug: only the cursor is moved; the snapshot is not saved as the CGS.
BeginRestoreUnsaved(s, action) ==
    /\ Counted
    /\ Ready(s)
    /\ Authorized(memory)
    /\ RestoreAllowed(action, memory)
    /\ acked' = None
    /\ job' = [job EXCEPT ![s] = [kind |-> action, edit |-> None, pre |-> memory,
                                  post |-> RestoreTarget(history, action)]]
    /\ Goto(s, "cursor")
    /\ UNCHANGED <<main, snapshots, index, plans, proofs, history,
                   up, memory, pending, torn>>

\* Prompt undo and redo: the snapshot is saved, then the cursor is moved.
BeginRestore(s, action) ==
    /\ Counted
    /\ Ready(s)
    /\ Authorized(memory)
    /\ RestoreAllowed(action, memory)
    /\ main' = RestoreTarget(history, action)
    /\ acked' = None
    /\ job' = [job EXCEPT ![s] = [kind |-> action, edit |-> None,
                                  pre |-> memory, post |-> main']]
    /\ Goto(s, "cursor")
    /\ UNCHANGED <<snapshots, index, plans, proofs, history,
                   up, memory, pending, torn>>

MoveCursor(s) ==
    /\ pc[s] = "cursor"
    /\ history' = [history EXCEPT !.cursor = CursorAfter(history, job[s].kind)]
    /\ memory' = job[s].post
    /\ Finish(s)
    /\ UNCHANGED <<main, snapshots, index, plans, proofs,
                   up, pending, torn, acked, bounds>>

\* The exception is answered before cgs_state is replaced.
MoveCursorFails(s) ==
    /\ Fault
    /\ pc[s] = "cursor"
    /\ torn' = TRUE
    /\ Finish(s)
    /\ UNCHANGED <<store, up, memory, pending, acked>>

-----------------------------------------------------------------------------
\* Connections, crashes and restarts

\* A connection or a cgs_request loads the CGS, which recovers it first.
Reload(s) ==
    /\ Ready(s)
    /\ Recover
    /\ memory' = main'
    /\ torn' = FALSE
    /\ UNCHANGED <<up, pending, pc, job, acked, bounds>>

Crash ==
    /\ Fault
    /\ up
    /\ up' = FALSE
    /\ memory' = Fresh
    /\ pending' = [s \in Sessions |-> None]
    /\ pc' = [s \in Sessions |-> "idle"]
    /\ job' = [s \in Sessions |-> NoJob]
    /\ torn' = FALSE
    /\ UNCHANGED <<store, acked>>

Restart ==
    /\ ~up
    /\ up' = TRUE
    /\ Recover
    /\ memory' = main'
    /\ UNCHANGED <<pending, pc, job, torn, acked, bounds>>

-----------------------------------------------------------------------------
\* What a session's user may ask for, and what its handler does by itself

Request(s) ==
    \/ \E edit \in PromptEdits : Generate(s, edit)
    \/ Discard(s)
    \/ BeginApply(s)
    \/ \E edit \in LiveEdits : BeginLive(s, edit)
    \/ \E edit \in LinkEdits : Link(s, edit)
    \/ \E cgs \in snapshots : Rollback(s, cgs)
    \/ \E action \in {"undo", "redo"} : BeginRestore(s, action)
    \/ Reload(s)

Threads(s) ==
    \/ GdeCommits(s)
    \/ GdeRefuses(s)
    \/ \E outcome \in {"commit", "failed"} : SgcEnds(s, outcome)

Handler(s) ==
    \/ Commit(s)
    \/ WriteSnapshot(s) \/ WriteIndex(s) \/ WritePlan(s) \/ WriteProof(s)
    \/ WriteFails(s) \/ LiveWriteFails(s)
    \/ Accept(s) \/ Reject(s) \/ AdoptLive(s)
    \/ RestoreMain(s) \/ RestoreMainFails(s)
    \/ RemoveSnapshot(s) \/ RemoveRecord(s) \/ RemovePlan(s) \/ RemoveProof(s)
    \/ MoveCursor(s) \/ MoveCursorFails(s)

Next ==
    \/ \E s \in Sessions : Request(s) \/ Threads(s) \/ Handler(s)
    \/ Crash
    \/ Restart

\* A thread ends; the event loop runs every handler that is ready, first come
\* first served, so one that is ready again and again runs.
Fairness ==
    /\ \A s \in Sessions : WF_vars(Threads(s)) /\ SF_vars(Handler(s))
    /\ WF_vars(Restart)

Spec == Init /\ [][Next]_vars /\ Fairness

-----------------------------------------------------------------------------
\* Properties

Kinds == {"none", "prompt", "live", "undo", "redo"}
Places == {"idle", "gde", "sgc", "failed", "commit", "cursor"}
              \cup Committing \cup Restoring

Histories == [origin : CGSs \cup {None},
              entries : Seq([pre : CGSs, post : CGSs]),
              cursor : Nat]

\* The types of all but the index.  The cursor is inside the history, and a
\* history has an origin before it has entries.
Types ==
    /\ main \in CGSs
    /\ snapshots \subseteq CGSs
    /\ plans \subseteq CGSs
    /\ proofs \subseteq CGSs
    /\ history \in Histories
    /\ history.cursor <= Len(history.entries)
    /\ history.entries # <<>> => history.origin # None
    /\ up \in BOOLEAN
    /\ memory \in CGSs
    /\ pending \in [Sessions -> [edit : PromptEdits, base : CGSs] \cup {None}]
    /\ pc \in [Sessions -> Places]
    /\ job \in [Sessions -> [kind : Kinds, edit : Edits \cup {None},
                             pre : CGSs, post : CGSs]]
    /\ torn \in BOOLEAN
    /\ acked \in CGSs \cup {None}
    /\ requests \in 0..MaxRequests
    /\ faults \in 0..MaxFaults

\* Types of everything.
TypeOK == Types /\ index \in Seq(CGSs)

\* At most one handler is inside its writes.
LoopIsExclusive ==
    \A r, s \in Sessions : HoldsLoop(r) /\ HoldsLoop(s) => r = s

\* Every entry of a history starts where the one before it ended, the first at
\* the origin, and adds one prompt edit.
Linear(h) ==
    \A k \in DOMAIN h.entries :
        /\ h.entries[k].pre = HashAt(h, k - 1)
        /\ \E edit \in PromptEdits :
              h.entries[k].post = Append(h.entries[k].pre, edit)

\* The prompt history on disk is one chain of prompt edits, whatever undos,
\* other writers, failed applies and recoveries came between them.
HistoryIsLinear == Linear(history)

\* Outside the writes of a handler the CGS in memory is the one on disk,
\* unless one of the three error paths that tear them apart was taken.
MemoryFollowsDisk == up /\ LoopFree /\ ~torn => memory = main

\* Outside the writes of a handler, and but for the same error paths, the
\* index lists exactly the snapshots.  A failed apply is taken back whole:
\* restore_prompt_apply_failure only reports a removal of its snapshot or
\* index record that fails, and that failure, which would leave the two apart,
\* is not modelled.
IndexMatchesFiles == up /\ LoopFree /\ ~torn => ToSet(index) = snapshots

\* A structural edit that was reported as applied stays the active CGS, with
\* the plan that lets recovery keep it, until a later write replaces it.
AppliedEditIsDurable == acked # None => main = acked /\ Runnable(main)

\* What a prompt commit writes is the edit that was previewed, on the CGS it
\* was previewed for.
CommitIsThePreview ==
    [][\A s \in Sessions : Commit(s) /\ job[s].kind = "prompt" =>
          main' = Append(pending[s].base, pending[s].edit)]_vars

\* An undo takes exactly one prompt edit back, a redo puts exactly one back.
RestoreMovesOneEdit ==
    [][\A s \in Sessions :
          /\ BeginRestore(s, "undo") =>
                \E edit \in PromptEdits : main = Append(main', edit)
          /\ BeginRestore(s, "redo") =>
                \E edit \in PromptEdits : main' = Append(main, edit)]_vars

\* After a recovery the active CGS can run, or no snapshot can.
RecoveryIsRunnable ==
    [][Restart \/ (\E s \in Sessions : Reload(s)) =>
          Runnable(main)' \/ \A cgs \in snapshots : ~Runnable(cgs)]_vars

\* Every apply, live edit, undo or redo ends.
JobsEnd == \A s \in Sessions : pc[s] # "idle" ~> pc[s] = "idle"

\* Loading a project does not replace its CGS when that is a valid one.
LoadKeepsMain ==
    [][Restart \/ (\E s \in Sessions : Reload(s)) => main' = main]_vars

\* A commit replaces the CGS it was made for.
CommitReplacesItsParent ==
    [][\A s \in Sessions : Commit(s) => main = job[s].pre]_vars

\* The CGSs a history leads through.
Trail(h) == [k \in 1..Len(h.entries) + 1 |-> HashAt(h, k - 1)]

E == INSTANCE EditTrail WITH
        active <- main, trail <- Trail(history), place <- history.cursor + 1

\* The prompt history is a trail of single edits with a place on it, which
\* moves by one and only onto the active CGS, although the file of the CGS,
\* the history and the cursor are written one after another and any of the
\* writes may fail or be the last before a crash.
ImplementsEditTrail == E!Spec
=============================================================================
