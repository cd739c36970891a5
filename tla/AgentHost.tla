------------------------------ MODULE AgentHost ------------------------------
(***************************************************************************)
(* Agent turns of one Builder session (packages/builder-workspace/server/  *)
(* agent_host): AgentEventStreamManager, which starts, streams and cancels *)
(* them, AgentProposalIngressGate, which turns their proposals into        *)
(* previews, and the proposal rows of AgentSessionStore; with the slot for *)
(* one pending transaction and its preview that agents, prompts, discards  *)
(* and applies of the session share.                                       *)
(*                                                                         *)
(* The session's messages are handled one after another, and handler says  *)
(* where the current handler awaits.  A turn is an asyncio task: it runs   *)
(* whenever the handler awaits, so its proposals arrive in the middle of   *)
(* prompts and applies.  The CGS is shared with the other sessions, whose  *)
(* handlers commit whenever this one awaits; it stands for its hash, which *)
(* an undo or a rollback can bring back.  How an apply writes its files,   *)
(* and what its commit computes, is in BuilderServer.                      *)
(***************************************************************************)
CONSTANTS
    Turns,       \* bound: the turns that can be started
    Proposals,   \* bound: the proposals agents can make
    Reused,      \* those whose identifier a provider gives out again
    CGSs,        \* bound: the CGSs there can be
    Prompt,      \* the transaction of a prompt
    None

ASSUME AgentConstants ==
    /\ Reused \subseteq Proposals
    /\ Prompt \notin Proposals
    /\ None \notin Turns \cup Proposals \cup {Prompt}

VARIABLES
    cgs,        \* the CGS in memory, cgs_state
    pending,    \* pending_txn: what it is and the CGS it was made for
    preview,    \* pending_prompt_preview, with the same identity
    handler,    \* the handler under way: what it awaits and what it holds
    active,     \* _active[session_id]
    turn,       \* the turns: place, the hash they were asked for, the CGS they
                \* copied, and whether their task has a cancellation to take
    row,        \* status of the proposals in the session store
    committed   \* the proposals whose transaction was committed

slot == <<pending, preview>>
vars == <<cgs, slot, handler, active, turn, row, committed>>

Transactions == [id : Proposals \cup {Prompt}, base : CGSs]

Idle == [at |-> "idle", turn |-> None, txn |-> None]

Unused == [at |-> "unused", base |-> None, copy |-> None, cancel |-> FALSE]

Init ==
    /\ cgs \in CGSs
    /\ pending = None /\ preview = None
    /\ handler = Idle
    /\ active = None
    /\ turn = [t \in Turns |-> Unused]
    /\ row = [p \in Proposals |-> "none"]
    /\ committed = {}

IsIdle == handler = Idle
Await(place, t, txn) == handler' = [at |-> place, turn |-> t, txn |-> txn]
Return == handler' = Idle

SetSlot(txn) == pending' = txn /\ preview' = txn

-----------------------------------------------------------------------------
\* agent_turn and agent_cancel

\* A turn whose task is not done.
Live(t) == turn[t].at \in {"scheduled", "running", "ending"}

Move(t, place) == turn' = [turn EXCEPT ![t].at = place]

\* The turn is over and what it was started with forgotten.
Leave(t, place) == turn' = [turn EXCEPT ![t] = [Unused EXCEPT !.at = place]]

\* Bug: a turn that is scheduled, or sends its last status, is not seen.
StartTurnUnlessRunning(t) ==
    /\ IsIdle
    /\ turn[t] = Unused
    /\ active # None => turn[active].at # "running"
    /\ active' = None
    /\ turn' = [turn EXCEPT ![t].at = "opening", ![t].base = cgs]
    /\ Await("provider", t, None)
    /\ UNCHANGED <<cgs, slot, row, committed>>

\* The request names the CGS the session sees; then the provider session is
\* awaited.  A turn that is still running refuses it.
StartTurn(t) ==
    /\ IsIdle
    /\ turn[t] = Unused
    /\ active # None => ~Live(active)
    /\ active' = None
    /\ turn' = [turn EXCEPT ![t].at = "opening", ![t].base = cgs]
    /\ Await("provider", t, None)
    /\ UNCHANGED <<cgs, slot, row, committed>>

ProviderFails(t) ==
    /\ handler.at = "provider" /\ handler.turn = t
    /\ Leave(t, "refused")
    /\ Return
    /\ UNCHANGED <<cgs, slot, active, row, committed>>

\* The turn is installed with a copy of the CGS as it is by now.
InstallTurn(t) ==
    /\ handler.at = "provider" /\ handler.turn = t
    /\ active' = t
    /\ turn' = [turn EXCEPT ![t].at = "installed", ![t].copy = cgs]
    /\ Await("announce", t, None)
    /\ UNCHANGED <<cgs, slot, row, committed>>

\* Its task is created once the session was told that it runs.
LaunchTurn(t) ==
    /\ handler.at = "announce" /\ handler.turn = t
    /\ Move(t, "scheduled")
    /\ Return
    /\ UNCHANGED <<cgs, slot, active, row, committed>>

\* Bug: a cancellation with no turn in _active goes ahead.
RequestAnyCancel ==
    /\ IsIdle
    /\ active # None => Live(active)
    /\ Await("cancel", active, None)
    /\ UNCHANGED <<cgs, slot, active, turn, row, committed>>

RequestCancel ==
    /\ IsIdle
    /\ active # None /\ Live(active)
    /\ Await("cancel", active, None)
    /\ UNCHANGED <<cgs, slot, active, turn, row, committed>>

\* The adapter may refuse; a task that is done ignores the cancellation.
CancelTurn(t) ==
    /\ handler.at = "cancel" /\ handler.turn = t
    /\ \/ Live(t) /\ turn' = [turn EXCEPT ![t].cancel = TRUE]
       \/ UNCHANGED turn
    /\ Return
    /\ UNCHANGED <<cgs, slot, active, row, committed>>

-----------------------------------------------------------------------------
\* The task of a turn

\* A task that is cancelled before its first step never enters its try block:
\* it is done, nothing is reported, and _active keeps it.
FirstStep(t) ==
    /\ turn[t].at = "scheduled"
    /\ IF turn[t].cancel THEN Leave(t, "lost") ELSE Move(t, "running")
    /\ UNCHANGED <<cgs, slot, handler, active, row, committed>>

\* Bug: the turn swallows the cancellation.
TakeCancelSilently(t) ==
    /\ turn[t].at = "running" /\ turn[t].cancel
    /\ turn' = [turn EXCEPT ![t].cancel = FALSE]
    /\ UNCHANGED <<cgs, slot, handler, active, row, committed>>

\* The cancellation reaches the turn at an await.
TakeCancel(t) ==
    /\ turn[t].at = "running" /\ turn[t].cancel
    /\ turn' = [turn EXCEPT ![t].at = "ending", ![t].cancel = FALSE]
    /\ UNCHANGED <<cgs, slot, handler, active, row, committed>>

\* The provider ends the turn, or it fails.
EndTurn(t) ==
    /\ turn[t].at = "running"
    /\ Move(t, "ending")
    /\ UNCHANGED <<cgs, slot, handler, active, row, committed>>

\* The hash of the request and that of the copy agree, and so does the hash
\* the proposal was made for.
Admissible(t, base) == base = turn[t].base /\ turn[t].base = turn[t].copy

\* record_proposal updates the row of an identifier that it knows, whatever
\* was decided under it.
Recordable(p) == row[p] = "none" \/ p \in Reused

\* A valid typed batch becomes the session's preview, whatever was there.
Propose(t, p, base) ==
    /\ turn[t].at = "running" /\ Recordable(p)
    /\ Admissible(t, base)
    /\ row' = [row EXCEPT ![p] = "pending_preview"]
    /\ SetSlot([id |-> p, base |-> base])
    /\ UNCHANGED <<cgs, handler, active, turn, committed>>

ProposeNothing(t, p) ==
    /\ turn[t].at = "running" /\ Recordable(p)
    /\ Admissible(t, turn[t].base)
    /\ row' = [row EXCEPT ![p] = "no_op"]
    /\ UNCHANGED <<cgs, slot, handler, active, turn, committed>>

\* A stale or invalid proposal ends the turn with an error; when the copy is
\* not the CGS of the request the rejection is not even recorded.
ProposalRejected(t, p) ==
    /\ turn[t].at = "running" /\ Recordable(p)
    /\ IF turn[t].base = turn[t].copy
       THEN row' = [row EXCEPT ![p] = "rejected"]
       ELSE UNCHANGED row
    /\ Move(t, "ending")
    /\ UNCHANGED <<cgs, slot, handler, active, committed>>

\* The last status is sent and the turn takes itself out of _active.  When
\* another cancellation arrives during that send, it never does.
FinishTurn(t) ==
    /\ turn[t].at = "ending"
    /\ Leave(t, "done")
    /\ \/ active' = IF active = t THEN None ELSE active
       \/ turn[t].cancel /\ UNCHANGED active
    /\ UNCHANGED <<cgs, slot, handler, row, committed>>

-----------------------------------------------------------------------------
\* Prompts, discards and applies of the session

\* run_pil() forgets the last preview, not the transaction, and awaits PIL.
BeginPrompt ==
    /\ IsIdle
    /\ preview' = None
    /\ Await("pil", None, [id |-> Prompt, base |-> cgs])
    /\ UNCHANGED <<cgs, pending, active, turn, row, committed>>

\* No provider is ready: nothing else happens.
PromptBlocked ==
    /\ IsIdle
    /\ preview' = None
    /\ UNCHANGED <<cgs, pending, handler, active, turn, row, committed>>

PromptEnds ==
    /\ handler.at = "pil"
    /\ \E txn \in {handler.txn, None} : SetSlot(txn)
    /\ Return
    /\ UNCHANGED <<cgs, active, turn, row, committed>>

Decide(status) ==
    row' = IF pending.id \in Proposals
           THEN [row EXCEPT ![pending.id] = status] ELSE row

\* Bug: only the preview is discarded.
DiscardPreview ==
    /\ IsIdle
    /\ pending # None
    /\ Decide("discarded")
    /\ preview' = None
    /\ UNCHANGED <<cgs, pending, handler, active, turn, committed>>

Discard ==
    /\ IsIdle
    /\ pending # None
    /\ Decide("discarded")
    /\ SetSlot(None)
    /\ UNCHANGED <<cgs, handler, active, turn, committed>>

\* Bug: a transaction is applied although no preview is on show.
BeginApplyUnseen ==
    /\ IsIdle
    /\ pending # None
    /\ pending.base = cgs
    /\ Await("gde", None, pending)
    /\ UNCHANGED <<cgs, slot, active, turn, row, committed>>

\* The preview on show is approved while the CGS is the one it was made for;
\* then GDE is awaited.
BeginApply ==
    /\ IsIdle
    /\ pending # None /\ preview # None
    /\ pending.base = cgs
    /\ Await("gde", None, pending)
    /\ UNCHANGED <<cgs, slot, active, turn, row, committed>>

\* The CGS has changed, or GDE refuses: nothing is changed nor restored.
ApplyRefused ==
    /\ handler.at = "gde"
    /\ Return
    /\ UNCHANGED <<cgs, slot, active, turn, row, committed>>

\* GDE's thread compares the parent hash, for the last time, and computes the
\* new CGS.  Until the handler goes on, after SGC if the edit needs it, other
\* sessions may commit.
GdeSucceeds ==
    /\ handler.at = "gde"
    /\ handler.txn.base = cgs
    /\ Await("commit", None, handler.txn)
    /\ UNCHANGED <<cgs, slot, active, turn, row, committed>>

\* Bug: the preview is put back without its transaction.
ApplyRestoresPreview ==
    /\ handler.at = "commit"
    /\ cgs' = handler.txn.base
    /\ preview' = handler.txn
    /\ Return
    /\ UNCHANGED <<pending, active, turn, row, committed>>

\* A later step fails: CGS and slot are put back as they were when the apply
\* began, whatever others made of them meanwhile.
ApplyRolledBack ==
    /\ handler.at = "commit"
    /\ cgs' = handler.txn.base
    /\ SetSlot(handler.txn)
    /\ Return
    /\ UNCHANGED <<active, turn, row, committed>>

\* Bug: the proposal that is in the slot by now is marked.
ApplyMarksSlot ==
    /\ handler.at = "commit"
    /\ cgs' \in CGSs
    /\ committed' = committed \cup ({handler.txn.id} \cap Proposals)
    /\ Decide("applied")
    /\ SetSlot(None)
    /\ Return
    /\ UNCHANGED <<active, turn>>

\* GDE's result becomes the CGS, whatever the CGS is by now; the proposal of
\* the approved transaction is marked, and the slot cleared, whatever is in
\* it by now.
ApplyDone ==
    /\ handler.at = "commit"
    /\ cgs' \in CGSs
    /\ LET id == handler.txn.id
       IN  IF id \in Proposals
           THEN /\ row' = [row EXCEPT ![id] = "applied"]
                /\ committed' = committed \cup {id}
           ELSE UNCHANGED <<row, committed>>
    /\ SetSlot(None)
    /\ Return
    /\ UNCHANGED <<active, turn>>

\* Or undoes, links, rolls back: the CGS becomes any other.
OtherSessionCommits ==
    /\ cgs' \in CGSs \ {cgs}
    /\ UNCHANGED <<slot, handler, active, turn, row, committed>>

-----------------------------------------------------------------------------
Task(t) ==
    \/ FirstStep(t) \/ TakeCancel(t) \/ EndTurn(t) \/ FinishTurn(t)
    \/ \E p \in Proposals, base \in CGSs : Propose(t, p, base)
    \/ \E p \in Proposals : ProposeNothing(t, p) \/ ProposalRejected(t, p)

Next ==
    \/ \E t \in Turns :
          \/ StartTurn(t) \/ ProviderFails(t) \/ InstallTurn(t) \/ LaunchTurn(t)
          \/ CancelTurn(t)
          \/ Task(t)
    \/ RequestCancel
    \/ BeginPrompt \/ PromptBlocked \/ PromptEnds
    \/ Discard
    \/ BeginApply \/ ApplyRefused \/ GdeSucceeds
    \/ ApplyRolledBack \/ ApplyDone
    \/ OtherSessionCommits

\* The event loop runs a task that is ready.  A provider may never end its
\* turn, so a turn that nobody cancels need not end.
Fairness ==
    \A t \in Turns : WF_vars(FirstStep(t)) /\ WF_vars(TakeCancel(t))
                     /\ WF_vars(FinishTurn(t))

Spec == Init /\ [][Next]_vars /\ Fairness

-----------------------------------------------------------------------------
\* Properties

Statuses == {"none", "pending_preview", "no_op", "rejected", "discarded", "applied"}

Places == {"unused", "opening", "refused", "installed", "scheduled",
           "running", "ending", "done", "lost"}

TurnStates == [at : Places, base : CGSs \cup {None}, copy : CGSs \cup {None},
               cancel : BOOLEAN]

\* Types; and whoever awaits knows for whom.
TypeOK ==
    /\ cgs \in CGSs
    /\ pending \in Transactions \cup {None}
    /\ preview \in Transactions \cup {None}
    /\ handler \in {Idle}
          \cup [at : {"provider", "announce", "cancel"}, turn : Turns, txn : {None}]
          \cup [at : {"pil", "gde", "commit"}, turn : {None}, txn : Transactions]
    /\ active \in Turns \cup {None}
    /\ turn \in [Turns -> TurnStates]
    /\ row \in [Proposals -> Statuses]
    /\ committed \subseteq Proposals

\* The preview on show, if there is one, is that of the transaction an apply
\* would take: nobody approves one and applies the other.
PreviewIsOfPending == preview # None => preview = pending

\* The transaction that waits for approval comes from a proposal that was
\* admitted and neither applied nor discarded yet, unless its provider gives
\* out identifiers twice (update_proposal_status, run_pil, clear_pending and
\* the restored slot of a failed apply).
PendingIsUndecided ==
    pending # None /\ pending.id \in Proposals \ Reused =>
        row[pending.id] = "pending_preview"

\* The session store says of a proposal that it was applied exactly when its
\* own transaction was committed, whatever the slot held meanwhile; an
\* identifier that is given out again loses what was decided under it.
AppliedMeansCommitted ==
    \A p \in Proposals \ Reused : row[p] = "applied" <=> p \in committed

\* A turn whose task is not done is the one that agent_status reports and that
\* agent_cancel reaches; so there is never a second one.
LiveTurnIsActive == \A t \in Turns : Live(t) => active = t

\* A turn whose task was cancelled ends, whatever its provider does.
CancelledTurnEnds ==
    \A t \in Turns : turn[t].cancel ~> turn[t].at \in {"done", "lost"}

\* What the user sees and approves: the preview, and the transaction an apply
\* under way took.
Approved == IF handler.at \in {"gde", "commit"} THEN handler.txn ELSE None

A == INSTANCE Approvals WITH shown <- preview, approved <- Approved

\* Approvals keep their promise although tasks propose and other sessions
\* commit in the middle of applies: what is committed was on show when it was
\* approved, on the CGS of that moment, its proposal is marked in the same
\* step, an apply that fails puts back what was approved or nothing, and no
\* proposal is decided twice unless its identifier was given out twice.  On
\* which CGS the commit lands is not promised: CommitReplacesItsParent of
\* BuilderServer is violated.
ImplementsApprovals == A!Spec
=============================================================================
