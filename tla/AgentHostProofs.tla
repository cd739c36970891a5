---------------------------- MODULE AgentHostProofs ----------------------------
(***************************************************************************)
(* Proofs about AgentHost, for any turns, proposals and CGSs.              *)
(*                                                                         *)
(* The argument: what an apply was begun for stays undecided while it      *)
(* awaits, whatever other proposals arrive, because only Discard and       *)
(* ApplyDone decide and neither can run meanwhile; so putting the slot     *)
(* back shows an undecided transaction, and marking it applied marks the   *)
(* one committed.  An identifier that is given out again is excepted.      *)
(* And no task is live from the moment a new turn is admitted to the       *)
(* moment its own task is created.                                         *)
(* With that every step is one of Approvals or changes nothing there.      *)
(***************************************************************************)
EXTENDS AgentHost, TLAPS

Applying == handler.at \in {"gde", "commit"}

\* What the handler under way can rely on while tasks run.
Held ==
    /\ handler.at = "pil" => handler.txn.id = Prompt
    /\ Applying => handler.txn # None
    /\ Applying /\ handler.txn.id \in Proposals \ Reused =>
           row[handler.txn.id] = "pending_preview"
    /\ handler.at \in {"provider", "announce"} => \A t \in Turns : ~Live(t)
    /\ handler.at = "announce" => active = handler.turn

IInv ==
    /\ TypeOK
    /\ Held
    /\ PreviewIsOfPending
    /\ PendingIsUndecided
    /\ AppliedMeansCommitted
    /\ LiveTurnIsActive

-----------------------------------------------------------------------------
(* Every step keeps the invariant. *)

LEMMA StartTurnKeeps ==
    ASSUME IInv, NEW t \in Turns, StartTurn(t)
    PROVE  IInv'
  <1>1. TypeOK'
    BY DEF IInv, StartTurn, Await, slot, Unused, TypeOK, Idle, Places,
       TurnStates, Transactions
  <1>2. Held'
    BY AgentConstants DEF IInv, StartTurn, IsIdle, Await, Live, Unused, Held,
       Applying, Idle, LiveTurnIsActive, TypeOK
  <1>3. PreviewIsOfPending'
    BY DEF IInv, StartTurn, slot, PreviewIsOfPending
  <1>4. PendingIsUndecided'
    BY DEF IInv, StartTurn, slot, PendingIsUndecided
  <1>5. AppliedMeansCommitted'
    BY DEF IInv, StartTurn, IsIdle, AppliedMeansCommitted
  <1>6. LiveTurnIsActive'
    BY DEF IInv, StartTurn, IsIdle, Await, Live, Unused, LiveTurnIsActive,
       Held, Applying, TypeOK
  <1> QED
    BY <1>1, <1>2, <1>3, <1>4, <1>5, <1>6 DEF IInv

LEMMA ProviderFailsKeeps ==
    ASSUME IInv, NEW t \in Turns, ProviderFails(t)
    PROVE  IInv'
  <1>1. TypeOK'
    BY DEF IInv, ProviderFails, Return, slot, Move, Leave, Unused, TypeOK,
       Idle, Places, TurnStates, Transactions
  <1>2. Held'
    BY DEF IInv, ProviderFails, Return, Move, Leave, Unused, Held, Applying,
       Idle, Live, LiveTurnIsActive, TypeOK
  <1>3. PreviewIsOfPending'
    BY DEF IInv, ProviderFails, slot, PreviewIsOfPending
  <1>4. PendingIsUndecided'
    BY DEF IInv, ProviderFails, Return, slot, PendingIsUndecided
  <1>5. AppliedMeansCommitted'
    BY DEF IInv, ProviderFails, Return, AppliedMeansCommitted
  <1>6. LiveTurnIsActive'
    BY DEF IInv, ProviderFails, Return, Move, Leave, Unused, LiveTurnIsActive,
       Live, Held, Applying, TypeOK
  <1> QED
    BY <1>1, <1>2, <1>3, <1>4, <1>5, <1>6 DEF IInv

LEMMA InstallTurnKeeps ==
    ASSUME IInv, NEW t \in Turns, InstallTurn(t)
    PROVE  IInv'
  <1>1. TypeOK'
    <2>1. turn' \in [Turns -> TurnStates]
      <3> DEFINE new == [turn[t] EXCEPT !.at = "installed", !.copy = cgs]
      <3>1. turn \in [Turns -> TurnStates] /\ cgs \in CGSs
        BY DEF IInv, TypeOK
      <3>2. "installed" \in Places
        BY DEF Places
      <3>3. new \in TurnStates
        BY <3>1, <3>2 DEF TurnStates
      <3>4. turn' = [turn EXCEPT ![t] = new]
        BY <3>1 DEF InstallTurn
      <3> QED
        BY <3>1, <3>3, <3>4
    <2>2. handler' \in [at : {"provider", "announce", "cancel"}, turn : Turns,
                        txn : {None}]
      BY DEF InstallTurn, Await
    <2> QED
      BY <2>1, <2>2 DEF IInv, TypeOK, InstallTurn, slot
  <1>2. Held'
    BY DEF IInv, InstallTurn, Await, Held, Applying, Idle, Live,
       LiveTurnIsActive, TypeOK
  <1>3. PreviewIsOfPending'
    BY DEF IInv, InstallTurn, slot, PreviewIsOfPending
  <1>4. PendingIsUndecided'
    BY DEF IInv, InstallTurn, slot, PendingIsUndecided
  <1>5. AppliedMeansCommitted'
    BY DEF IInv, InstallTurn, AppliedMeansCommitted
  <1>6. LiveTurnIsActive'
    BY DEF IInv, InstallTurn, Await, LiveTurnIsActive, Live, Held, Applying,
       TypeOK
  <1> QED
    BY <1>1, <1>2, <1>3, <1>4, <1>5, <1>6 DEF IInv

LEMMA LaunchTurnKeeps ==
    ASSUME IInv, NEW t \in Turns, LaunchTurn(t)
    PROVE  IInv'
  <1>1. TypeOK'
    BY DEF IInv, LaunchTurn, Return, slot, Move, TypeOK, Idle, Places,
       TurnStates, Transactions
  <1>2. Held'
    BY DEF IInv, LaunchTurn, Return, Move, Held, Applying, Idle, Live,
       LiveTurnIsActive, TypeOK
  <1>3. PreviewIsOfPending'
    BY DEF IInv, LaunchTurn, slot, PreviewIsOfPending
  <1>4. PendingIsUndecided'
    BY DEF IInv, LaunchTurn, Return, slot, PendingIsUndecided
  <1>5. AppliedMeansCommitted'
    BY DEF IInv, LaunchTurn, Return, AppliedMeansCommitted
  <1>6. LiveTurnIsActive'
    BY DEF IInv, LaunchTurn, Return, Move, LiveTurnIsActive, Live, Held,
       Applying, TypeOK
  <1> QED
    BY <1>1, <1>2, <1>3, <1>4, <1>5, <1>6 DEF IInv

LEMMA RequestCancelKeeps ==
    ASSUME IInv, RequestCancel
    PROVE  IInv'
  <1>1. TypeOK'
    BY DEF IInv, RequestCancel, Await, slot, TypeOK, Idle, Transactions
  <1>2. Held'
    BY DEF IInv, RequestCancel, IsIdle, Await, Live, Held, Applying, Idle,
       LiveTurnIsActive, TypeOK
  <1>3. PreviewIsOfPending'
    BY DEF IInv, RequestCancel, slot, PreviewIsOfPending
  <1>4. PendingIsUndecided'
    BY DEF IInv, RequestCancel, slot, PendingIsUndecided
  <1>5. AppliedMeansCommitted'
    BY DEF IInv, RequestCancel, IsIdle, AppliedMeansCommitted
  <1>6. LiveTurnIsActive'
    BY DEF IInv, RequestCancel, IsIdle, Await, Live, LiveTurnIsActive, Held,
       Applying, TypeOK
  <1> QED
    BY <1>1, <1>2, <1>3, <1>4, <1>5, <1>6 DEF IInv

LEMMA CancelTurnKeeps ==
    ASSUME IInv, NEW t \in Turns, CancelTurn(t)
    PROVE  IInv'
  <1>1. TypeOK'
    <2>1. turn' \in [Turns -> TurnStates]
      <3>1. CASE turn' = [turn EXCEPT ![t].cancel = TRUE]
        BY <3>1 DEF IInv, TypeOK, TurnStates
      <3>2. CASE UNCHANGED turn
        BY <3>2 DEF IInv, TypeOK
      <3> QED
        BY <3>1, <3>2 DEF CancelTurn
    <2> QED
      BY <2>1 DEF IInv, TypeOK, CancelTurn, Return, slot
  <1>2. Held'
    BY DEF IInv, CancelTurn, Return, Live, Held, Applying, Idle,
       LiveTurnIsActive, TypeOK
  <1>3. PreviewIsOfPending'
    BY DEF IInv, CancelTurn, slot, PreviewIsOfPending
  <1>4. PendingIsUndecided'
    BY DEF IInv, CancelTurn, Return, slot, PendingIsUndecided
  <1>5. AppliedMeansCommitted'
    BY DEF IInv, CancelTurn, Return, AppliedMeansCommitted
  <1>6. LiveTurnIsActive'
    BY DEF IInv, CancelTurn, Return, Live, LiveTurnIsActive, Held, Applying,
       TypeOK
  <1> QED
    BY <1>1, <1>2, <1>3, <1>4, <1>5, <1>6 DEF IInv

LEMMA FirstStepKeeps ==
    ASSUME IInv, NEW t \in Turns, FirstStep(t)
    PROVE  IInv'
  <1>1. TypeOK'
    <2>1. turn' \in [Turns -> TurnStates]
      <3>1. CASE turn[t].cancel
        <4>1. Leave(t, "lost")
          BY <3>1 DEF FirstStep
        <4>2. [Unused EXCEPT !.at = "lost"] \in TurnStates
          BY DEF Unused, TurnStates, Places
        <4> QED
          BY <4>1, <4>2 DEF IInv, TypeOK, Leave
      <3>2. CASE ~turn[t].cancel
        BY <3>2 DEF IInv, FirstStep, Move, TypeOK, Places, TurnStates
      <3> QED
        BY <3>1, <3>2
    <2> QED
      BY <2>1 DEF IInv, FirstStep, slot, TypeOK
  <1>2. Held'
    BY DEF IInv, FirstStep, Move, Leave, Unused, Held, Applying, Idle, Live,
       LiveTurnIsActive, TypeOK
  <1>3. PreviewIsOfPending'
    BY DEF IInv, FirstStep, slot, PreviewIsOfPending
  <1>4. PendingIsUndecided'
    BY DEF IInv, FirstStep, slot, PendingIsUndecided
  <1>5. AppliedMeansCommitted'
    BY DEF IInv, FirstStep, AppliedMeansCommitted
  <1>6. LiveTurnIsActive'
    BY DEF IInv, FirstStep, Move, Leave, Unused, LiveTurnIsActive, Live, Held,
       Applying, TypeOK
  <1> QED
    BY <1>1, <1>2, <1>3, <1>4, <1>5, <1>6 DEF IInv

LEMMA TakeCancelKeeps ==
    ASSUME IInv, NEW t \in Turns, TakeCancel(t)
    PROVE  IInv'
  <1>1. TypeOK'
    BY DEF IInv, TakeCancel, slot, TypeOK, Places, TurnStates, Transactions
  <1>2. Held'
    BY DEF IInv, TakeCancel, Held, Applying, Idle, Live, LiveTurnIsActive,
       TypeOK
  <1>3. PreviewIsOfPending'
    BY DEF IInv, TakeCancel, slot, PreviewIsOfPending
  <1>4. PendingIsUndecided'
    BY DEF IInv, TakeCancel, slot, PendingIsUndecided
  <1>5. AppliedMeansCommitted'
    BY DEF IInv, TakeCancel, AppliedMeansCommitted
  <1>6. LiveTurnIsActive'
    BY DEF IInv, TakeCancel, LiveTurnIsActive, Live, Held, Applying, TypeOK
  <1> QED
    BY <1>1, <1>2, <1>3, <1>4, <1>5, <1>6 DEF IInv

LEMMA EndTurnKeeps ==
    ASSUME IInv, NEW t \in Turns, EndTurn(t)
    PROVE  IInv'
  <1>1. TypeOK'
    BY DEF IInv, EndTurn, slot, Move, TypeOK, Places, TurnStates, Transactions
  <1>2. Held'
    BY DEF IInv, EndTurn, Move, Held, Applying, Idle, Live, LiveTurnIsActive,
       TypeOK
  <1>3. PreviewIsOfPending'
    BY DEF IInv, EndTurn, slot, PreviewIsOfPending
  <1>4. PendingIsUndecided'
    BY DEF IInv, EndTurn, slot, PendingIsUndecided
  <1>5. AppliedMeansCommitted'
    BY DEF IInv, EndTurn, AppliedMeansCommitted
  <1>6. LiveTurnIsActive'
    BY DEF IInv, EndTurn, Move, LiveTurnIsActive, Live, Held, Applying, TypeOK
  <1> QED
    BY <1>1, <1>2, <1>3, <1>4, <1>5, <1>6 DEF IInv

LEMMA ProposeKeeps ==
    ASSUME IInv, NEW t \in Turns, NEW p \in Proposals,
           NEW base \in CGSs, Propose(t, p, base)
    PROVE  IInv'
  <1>1. TypeOK'
    BY DEF IInv, Propose, Recordable, SetSlot, TypeOK, Statuses, Transactions
  <1>2. Held'
    BY DEF IInv, Propose, Recordable, Held, Applying, Idle, Live,
       PendingIsUndecided, TypeOK, Transactions
  <1>3. PreviewIsOfPending'
    BY DEF IInv, Propose, Recordable, SetSlot, PreviewIsOfPending
  <1>4. PendingIsUndecided'
    BY DEF IInv, Propose, Recordable, SetSlot, PendingIsUndecided, Held,
       Applying, TypeOK, Transactions
  <1>5. AppliedMeansCommitted'
    BY DEF IInv, Propose, Recordable, AppliedMeansCommitted,
       PendingIsUndecided, Held, Applying, TypeOK
  <1>6. LiveTurnIsActive'
    BY DEF IInv, Propose, Recordable, LiveTurnIsActive, Live
  <1> QED
    BY <1>1, <1>2, <1>3, <1>4, <1>5, <1>6 DEF IInv

LEMMA ProposeNothingKeeps ==
    ASSUME IInv, NEW t \in Turns, NEW p \in Proposals, ProposeNothing(t, p)
    PROVE  IInv'
  <1>1. TypeOK'
    BY DEF IInv, ProposeNothing, Recordable, slot, TypeOK, Statuses,
       Transactions
  <1>2. Held'
    BY DEF IInv, ProposeNothing, Recordable, Held, Applying, Idle, Live,
       PendingIsUndecided, TypeOK, Transactions
  <1>3. PreviewIsOfPending'
    BY DEF IInv, ProposeNothing, Recordable, slot, PreviewIsOfPending
  <1>4. PendingIsUndecided'
    BY DEF IInv, ProposeNothing, Recordable, slot, PendingIsUndecided, Held,
       Applying, TypeOK, Transactions
  <1>5. AppliedMeansCommitted'
    BY DEF IInv, ProposeNothing, Recordable, AppliedMeansCommitted,
       PendingIsUndecided, Held, Applying, TypeOK
  <1>6. LiveTurnIsActive'
    BY DEF IInv, ProposeNothing, Recordable, LiveTurnIsActive, Live
  <1> QED
    BY <1>1, <1>2, <1>3, <1>4, <1>5, <1>6 DEF IInv

LEMMA ProposalRejectedKeeps ==
    ASSUME IInv, NEW t \in Turns, NEW p \in Proposals, ProposalRejected(t, p)
    PROVE  IInv'
  <1>1. TypeOK'
    BY DEF IInv, ProposalRejected, Recordable, slot, Move, TypeOK, Places,
       TurnStates, Statuses, Transactions
  <1>2. Held'
    BY DEF IInv, ProposalRejected, Recordable, Move, Held, Applying, Idle,
       Live, LiveTurnIsActive, PendingIsUndecided, TypeOK, Transactions
  <1>3. PreviewIsOfPending'
    BY DEF IInv, ProposalRejected, Recordable, slot, PreviewIsOfPending
  <1>4. PendingIsUndecided'
    BY DEF IInv, ProposalRejected, Recordable, slot, PendingIsUndecided, Held,
       Applying, TypeOK, Transactions
  <1>5. AppliedMeansCommitted'
    BY DEF IInv, ProposalRejected, Recordable, AppliedMeansCommitted,
       PendingIsUndecided, Held, Applying, TypeOK
  <1>6. LiveTurnIsActive'
    BY DEF IInv, ProposalRejected, Recordable, Move, LiveTurnIsActive, Live,
       Held, Applying, TypeOK
  <1> QED
    BY <1>1, <1>2, <1>3, <1>4, <1>5, <1>6 DEF IInv

LEMMA FinishTurnKeeps ==
    ASSUME IInv, NEW t \in Turns, FinishTurn(t)
    PROVE  IInv'
  <1>1. TypeOK'
    BY DEF IInv, FinishTurn, slot, Move, Leave, Unused, TypeOK, Places,
       TurnStates, Transactions
  <1>2. Held'
    BY DEF IInv, FinishTurn, Move, Leave, Unused, Held, Applying, Idle, Live,
       LiveTurnIsActive, TypeOK
  <1>3. PreviewIsOfPending'
    BY DEF IInv, FinishTurn, slot, PreviewIsOfPending
  <1>4. PendingIsUndecided'
    BY DEF IInv, FinishTurn, slot, PendingIsUndecided
  <1>5. AppliedMeansCommitted'
    BY DEF IInv, FinishTurn, AppliedMeansCommitted
  <1>6. LiveTurnIsActive'
    BY DEF IInv, FinishTurn, Move, Leave, Unused, LiveTurnIsActive, Live,
       Held, Applying, TypeOK
  <1> QED
    BY <1>1, <1>2, <1>3, <1>4, <1>5, <1>6 DEF IInv

LEMMA BeginPromptKeeps ==
    ASSUME IInv, BeginPrompt
    PROVE  IInv'
  <1>1. TypeOK'
    BY DEF IInv, BeginPrompt, Await, TypeOK, Idle, Transactions
  <1>2. Held'
    BY AgentConstants DEF IInv, BeginPrompt, IsIdle, Await, Held, Applying,
       Idle, Live, PendingIsUndecided, TypeOK, Transactions
  <1>3. PreviewIsOfPending'
    BY DEF IInv, BeginPrompt, PreviewIsOfPending
  <1>4. PendingIsUndecided'
    BY AgentConstants DEF IInv, BeginPrompt, PendingIsUndecided
  <1>5. AppliedMeansCommitted'
    BY DEF IInv, BeginPrompt, IsIdle, AppliedMeansCommitted
  <1>6. LiveTurnIsActive'
    BY DEF IInv, BeginPrompt, IsIdle, Await, LiveTurnIsActive, Live
  <1> QED
    BY <1>1, <1>2, <1>3, <1>4, <1>5, <1>6 DEF IInv

LEMMA PromptBlockedKeeps ==
    ASSUME IInv, PromptBlocked
    PROVE  IInv'
  <1>1. TypeOK'
    BY DEF IInv, PromptBlocked, TypeOK, Transactions
  <1>2. Held'
    BY DEF IInv, PromptBlocked, IsIdle, Held, Applying, Idle, Live, TypeOK
  <1>3. PreviewIsOfPending'
    BY DEF IInv, PromptBlocked, PreviewIsOfPending
  <1>4. PendingIsUndecided'
    BY DEF IInv, PromptBlocked, PendingIsUndecided
  <1>5. AppliedMeansCommitted'
    BY DEF IInv, PromptBlocked, IsIdle, AppliedMeansCommitted
  <1>6. LiveTurnIsActive'
    BY DEF IInv, PromptBlocked, IsIdle, LiveTurnIsActive, Live
  <1> QED
    BY <1>1, <1>2, <1>3, <1>4, <1>5, <1>6 DEF IInv

LEMMA PromptEndsKeeps ==
    ASSUME IInv, PromptEnds
    PROVE  IInv'
  <1>1. TypeOK'
    BY DEF IInv, PromptEnds, Return, SetSlot, TypeOK, Idle, Transactions
  <1>2. Held'
    BY AgentConstants DEF IInv, PromptEnds, Return, Held, Applying, Idle,
       Live, TypeOK
  <1>3. PreviewIsOfPending'
    BY DEF IInv, PromptEnds, SetSlot, PreviewIsOfPending
  <1>4. PendingIsUndecided'
    BY AgentConstants DEF IInv, PromptEnds, Return, SetSlot,
       PendingIsUndecided, Held, Applying, TypeOK, Transactions
  <1>5. AppliedMeansCommitted'
    BY DEF IInv, PromptEnds, Return, AppliedMeansCommitted
  <1>6. LiveTurnIsActive'
    BY DEF IInv, PromptEnds, Return, LiveTurnIsActive, Live
  <1> QED
    BY <1>1, <1>2, <1>3, <1>4, <1>5, <1>6 DEF IInv

LEMMA DiscardKeeps ==
    ASSUME IInv, Discard
    PROVE  IInv'
  <1>1. TypeOK'
    BY DEF IInv, Discard, SetSlot, Decide, TypeOK, Statuses, Transactions
  <1>2. Held'
    BY DEF IInv, Discard, IsIdle, Decide, Held, Applying, Idle, Live,
       PendingIsUndecided, TypeOK, Transactions
  <1>3. PreviewIsOfPending'
    BY DEF IInv, Discard, SetSlot, PreviewIsOfPending
  <1>4. PendingIsUndecided'
    BY DEF IInv, Discard, SetSlot, Decide, PendingIsUndecided, Held, Applying,
       TypeOK, Transactions
  <1>5. AppliedMeansCommitted'
    BY DEF IInv, Discard, IsIdle, Decide, AppliedMeansCommitted,
       PendingIsUndecided, Held, Applying, TypeOK
  <1>6. LiveTurnIsActive'
    BY DEF IInv, Discard, IsIdle, LiveTurnIsActive, Live
  <1> QED
    BY <1>1, <1>2, <1>3, <1>4, <1>5, <1>6 DEF IInv

LEMMA BeginApplyKeeps ==
    ASSUME IInv, BeginApply
    PROVE  IInv'
  <1>1. TypeOK'
    BY DEF IInv, BeginApply, Await, slot, TypeOK, Idle, Transactions
  <1>2. Held'
    BY AgentConstants DEF IInv, BeginApply, IsIdle, Await, Held, Applying,
       Idle, Live, PendingIsUndecided, TypeOK, Transactions
  <1>3. PreviewIsOfPending'
    BY DEF IInv, BeginApply, slot, PreviewIsOfPending
  <1>4. PendingIsUndecided'
    BY AgentConstants DEF IInv, BeginApply, slot, PendingIsUndecided
  <1>5. AppliedMeansCommitted'
    BY DEF IInv, BeginApply, IsIdle, AppliedMeansCommitted
  <1>6. LiveTurnIsActive'
    BY DEF IInv, BeginApply, IsIdle, Await, LiveTurnIsActive, Live
  <1> QED
    BY <1>1, <1>2, <1>3, <1>4, <1>5, <1>6 DEF IInv

LEMMA ApplyRefusedKeeps ==
    ASSUME IInv, ApplyRefused
    PROVE  IInv'
  <1>1. TypeOK'
    BY DEF IInv, ApplyRefused, Return, slot, TypeOK, Idle, Transactions
  <1>2. Held'
    BY DEF IInv, ApplyRefused, Return, Held, Applying, Idle, Live, TypeOK
  <1>3. PreviewIsOfPending'
    BY DEF IInv, ApplyRefused, slot, PreviewIsOfPending
  <1>4. PendingIsUndecided'
    BY DEF IInv, ApplyRefused, Return, slot, PendingIsUndecided
  <1>5. AppliedMeansCommitted'
    BY DEF IInv, ApplyRefused, Return, AppliedMeansCommitted
  <1>6. LiveTurnIsActive'
    BY DEF IInv, ApplyRefused, Return, LiveTurnIsActive, Live
  <1> QED
    BY <1>1, <1>2, <1>3, <1>4, <1>5, <1>6 DEF IInv

LEMMA GdeSucceedsKeeps ==
    ASSUME IInv, GdeSucceeds
    PROVE  IInv'
  <1>1. TypeOK'
    BY DEF IInv, GdeSucceeds, Await, slot, TypeOK, Idle, Transactions
  <1>2. Held'
    BY DEF IInv, GdeSucceeds, Await, Held, Applying, Idle, Live
  <1>3. PreviewIsOfPending'
    BY DEF IInv, GdeSucceeds, slot, PreviewIsOfPending
  <1>4. PendingIsUndecided'
    BY DEF IInv, GdeSucceeds, slot, PendingIsUndecided
  <1>5. AppliedMeansCommitted'
    BY DEF IInv, GdeSucceeds, AppliedMeansCommitted
  <1>6. LiveTurnIsActive'
    BY DEF IInv, GdeSucceeds, LiveTurnIsActive, Live
  <1> QED
    BY <1>1, <1>2, <1>3, <1>4, <1>5, <1>6 DEF IInv

LEMMA ApplyRolledBackKeeps ==
    ASSUME IInv, ApplyRolledBack
    PROVE  IInv'
  <1>1. TypeOK'
    BY DEF IInv, ApplyRolledBack, Return, SetSlot, TypeOK, Idle, Transactions
  <1>2. Held'
    BY AgentConstants DEF IInv, ApplyRolledBack, Return, Held, Applying, Idle,
       Live, TypeOK
  <1>3. PreviewIsOfPending'
    BY DEF IInv, ApplyRolledBack, SetSlot, PreviewIsOfPending
  <1>4. PendingIsUndecided'
    BY AgentConstants DEF IInv, ApplyRolledBack, Return, SetSlot,
       PendingIsUndecided, Held, Applying, TypeOK, Transactions
  <1>5. AppliedMeansCommitted'
    BY DEF IInv, ApplyRolledBack, Return, AppliedMeansCommitted
  <1>6. LiveTurnIsActive'
    BY DEF IInv, ApplyRolledBack, Return, LiveTurnIsActive, Live
  <1> QED
    BY <1>1, <1>2, <1>3, <1>4, <1>5, <1>6 DEF IInv

LEMMA ApplyDoneKeeps ==
    ASSUME IInv, ApplyDone
    PROVE  IInv'
  <1>1. TypeOK'
    BY AgentConstants DEF IInv, ApplyDone, Return, SetSlot, TypeOK, Idle,
       Statuses, Transactions
  <1>2. Held'
    BY AgentConstants DEF IInv, ApplyDone, Return, Held, Applying, Idle, Live,
       PendingIsUndecided, TypeOK, Transactions
  <1>3. PreviewIsOfPending'
    BY DEF IInv, ApplyDone, SetSlot, PreviewIsOfPending
  <1>4. PendingIsUndecided'
    BY AgentConstants DEF IInv, ApplyDone, Return, SetSlot,
       PendingIsUndecided, Held, Applying, TypeOK, Transactions
  <1>5. AppliedMeansCommitted'
    BY DEF IInv, ApplyDone, Return, AppliedMeansCommitted, PendingIsUndecided,
       Held, Applying, TypeOK
  <1>6. LiveTurnIsActive'
    BY DEF IInv, ApplyDone, Return, LiveTurnIsActive, Live
  <1> QED
    BY <1>1, <1>2, <1>3, <1>4, <1>5, <1>6 DEF IInv

LEMMA OtherSessionCommitsKeeps ==
    ASSUME IInv, OtherSessionCommits
    PROVE  IInv'
  <1>1. TypeOK'
    BY AgentConstants DEF IInv, OtherSessionCommits, slot, TypeOK,
       Transactions
  <1>2. Held'
    BY DEF IInv, OtherSessionCommits, Held, Applying, Idle, Live, TypeOK
  <1>3. PreviewIsOfPending'
    BY DEF IInv, OtherSessionCommits, slot, PreviewIsOfPending
  <1>4. PendingIsUndecided'
    BY DEF IInv, OtherSessionCommits, slot, PendingIsUndecided
  <1>5. AppliedMeansCommitted'
    BY DEF IInv, OtherSessionCommits, AppliedMeansCommitted
  <1>6. LiveTurnIsActive'
    BY DEF IInv, OtherSessionCommits, LiveTurnIsActive, Live
  <1> QED
    BY <1>1, <1>2, <1>3, <1>4, <1>5, <1>6 DEF IInv

LEMMA StutterKeeps ==
    ASSUME IInv, UNCHANGED vars
    PROVE  IInv'
  BY DEF IInv, vars, slot, TypeOK, Held, Applying, PreviewIsOfPending,
     PendingIsUndecided, AppliedMeansCommitted, LiveTurnIsActive, Live

LEMMA TaskKeeps ==
    ASSUME IInv, NEW t \in Turns, Task(t)
    PROVE  IInv'
  <1>1. ASSUME NEW p \in Proposals, NEW base \in CGSs, Propose(t, p, base)
        PROVE  IInv'
    BY <1>1, ProposeKeeps
  <1>2. ASSUME NEW p \in Proposals, ProposeNothing(t,
     p) \/ ProposalRejected(t, p)
        PROVE  IInv'
    BY <1>2, ProposeNothingKeeps, ProposalRejectedKeeps
  <1>3. CASE FirstStep(t) \/ TakeCancel(t) \/ EndTurn(t) \/ FinishTurn(t)
    BY <1>3, FirstStepKeeps, TakeCancelKeeps, EndTurnKeeps, FinishTurnKeeps
  <1> QED
    BY <1>1, <1>2, <1>3 DEF Task

-----------------------------------------------------------------------------
(* The invariant. *)

LEMMA InitIInv == Init => IInv
  <1> SUFFICES ASSUME Init PROVE IInv
    OBVIOUS
  <1>1. TypeOK
    BY AgentConstants DEF Init, TypeOK, Idle, Unused, Places, TurnStates,
       Statuses
  <1>2. Held
    BY DEF Init, Held, Applying, Idle
  <1>3. PreviewIsOfPending /\ PendingIsUndecided /\ AppliedMeansCommitted
    BY DEF Init, PreviewIsOfPending, PendingIsUndecided, AppliedMeansCommitted
  <1>4. LiveTurnIsActive
    BY DEF Init, LiveTurnIsActive, Live, Unused
  <1> QED
    BY <1>1, <1>2, <1>3, <1>4 DEF IInv

LEMMA NextIInv == IInv /\ [Next]_vars => IInv'
  <1> SUFFICES ASSUME IInv, [Next]_vars PROVE IInv'
    OBVIOUS
  <1>1. ASSUME NEW t \in Turns,
               StartTurn(t) \/ ProviderFails(t) \/ InstallTurn(t) \/ LaunchTurn(t)
                   \/ CancelTurn(t)
        PROVE  IInv'
    BY <1>1, StartTurnKeeps, ProviderFailsKeeps, InstallTurnKeeps,
       LaunchTurnKeeps, CancelTurnKeeps
  <1>2. ASSUME NEW t \in Turns, Task(t) PROVE IInv'
    BY <1>2, TaskKeeps
  <1>3. CASE RequestCancel \/ BeginPrompt \/ PromptBlocked \/ PromptEnds \/ Discard
    BY <1>3, RequestCancelKeeps, BeginPromptKeeps, PromptBlockedKeeps,
       PromptEndsKeeps, DiscardKeeps
  <1>4. CASE \/ BeginApply \/ ApplyRefused \/ GdeSucceeds
             \/ ApplyRolledBack \/ ApplyDone
    BY <1>4, BeginApplyKeeps, ApplyRefusedKeeps, GdeSucceedsKeeps,
       ApplyRolledBackKeeps, ApplyDoneKeeps
  <1>5. CASE OtherSessionCommits
    BY <1>5, OtherSessionCommitsKeeps
  <1>6. CASE UNCHANGED vars
    BY <1>6, StutterKeeps
  <1> QED
    BY <1>1, <1>2, <1>3, <1>4, <1>5, <1>6 DEF Next

LEMMA Inductive == Spec => []IInv
  BY InitIInv, NextIInv, PTL DEF Spec

-----------------------------------------------------------------------------
(* The theorems. *)

\* Every variable stays within its type, and a handler that awaits knows for
\* which turn or which transaction.
THEOREM AgentTypes == Spec => []TypeOK
  BY Inductive, PTL DEF IInv

\* The preview that can be approved is that of the transaction that would be
\* applied, whatever proposals arrive between an apply's steps.
THEOREM PreviewMatchesPending == Spec => []PreviewIsOfPending
  BY Inductive, PTL DEF IInv

\* Nothing that was applied or discarded waits for approval again, unless its
\* provider gives out its identifier again.
THEOREM PendingUndecided == Spec => []PendingIsUndecided
  BY Inductive, PTL DEF IInv

\* A proposal's row says applied exactly when its transaction was committed,
\* unless its provider gives out its identifier again.
THEOREM AppliedIffCommitted == Spec => []AppliedMeansCommitted
  BY Inductive, PTL DEF IInv

\* A task that is not done belongs to the turn in _active; so there is never
\* a second one, and agent_cancel reaches it.
THEOREM OneLiveTurn == Spec => []LiveTurnIsActive
  BY Inductive, PTL DEF IInv

-----------------------------------------------------------------------------
(* Approvals: every step is a step of A or changes nothing there. *)

\* The steps of a turn that make no proposal.
LEMMA TurnsMapToStutters ==
    ASSUME IInv, NEW t \in Turns,
           \/ StartTurn(t) \/ ProviderFails(t) \/ InstallTurn(t)
           \/ LaunchTurn(t) \/ CancelTurn(t)
           \/ FirstStep(t) \/ TakeCancel(t) \/ EndTurn(t) \/ FinishTurn(t)
    PROVE  UNCHANGED A!vars
  <1> USE DEF A!vars, Approved, slot, IsIdle, Idle, Await, Return
  <1>1. CASE StartTurn(t)
    BY <1>1 DEF StartTurn
  <1>2. CASE ProviderFails(t)
    BY <1>2 DEF ProviderFails
  <1>3. CASE InstallTurn(t)
    BY <1>3 DEF InstallTurn
  <1>4. CASE LaunchTurn(t)
    BY <1>4 DEF LaunchTurn
  <1>5. CASE CancelTurn(t)
    BY <1>5 DEF CancelTurn
  <1>6. CASE FirstStep(t) \/ TakeCancel(t) \/ EndTurn(t) \/ FinishTurn(t)
    BY <1>6 DEF FirstStep, TakeCancel, EndTurn, FinishTurn
  <1> QED
    BY <1>1, <1>2, <1>3, <1>4, <1>5, <1>6

LEMMA ProposalsMap ==
    ASSUME IInv, NEW t \in Turns, NEW p \in Proposals,
           \/ \E base \in CGSs : Propose(t, p, base)
           \/ ProposeNothing(t, p)
           \/ ProposalRejected(t, p)
    PROVE  [A!Next]_(A!vars)
  <1>1. ASSUME NEW base \in CGSs, Propose(t, p, base)
        PROVE  A!Judge(p)
    <2>1. preview' \in {txn \in A!Transactions : txn.id = p}
      BY <1>1 DEF Propose, SetSlot, A!Transactions
    <2> QED
      BY <1>1, <2>1 DEF Propose, Recordable, A!Judge, Approved
  <1>2. CASE ProposeNothing(t, p)
    BY <1>2 DEF ProposeNothing, Recordable, slot, A!Next, A!Judge, Approved
  <1>3. CASE ProposalRejected(t, p)
    BY <1>3 DEF ProposalRejected, Recordable, slot, A!Next, A!Judge, A!vars,
       Approved
  <1> QED
    BY <1>1, <1>2, <1>3 DEF A!Next

\* Prompts, discards and applies.
LEMMA DecisionsMap ==
    ASSUME IInv,
           \/ RequestCancel
           \/ BeginPrompt \/ PromptBlocked \/ PromptEnds
           \/ Discard
           \/ BeginApply \/ ApplyRefused \/ GdeSucceeds
           \/ ApplyRolledBack \/ ApplyDone
           \/ OtherSessionCommits
    PROVE  [A!Next]_(A!vars)
  <1> USE DEF Approved, slot, IsIdle, Idle, Await, Return
  <1>1. CASE RequestCancel
    BY <1>1 DEF RequestCancel, A!vars
  <1>2. CASE BeginPrompt \/ PromptBlocked
    <2>1. A!ShowPrompt
      BY <1>2, AgentConstants DEF BeginPrompt, PromptBlocked, A!ShowPrompt
    <2> QED
      BY <2>1 DEF A!Next
  <1>3. CASE PromptEnds
    <2>1. preview' \in {txn \in A!Transactions : txn.id = Prompt} \cup {None}
      BY <1>3 DEF PromptEnds, SetSlot, IInv, TypeOK, Held, Applying,
         Transactions, A!Transactions
    <2>2. A!ShowPrompt
      BY <1>3, <2>1 DEF PromptEnds, A!ShowPrompt
    <2> QED
      BY <2>2 DEF A!Next
  <1>4. CASE Discard
    <2>1. preview # None => preview = pending
      BY DEF IInv, PreviewIsOfPending
    <2>2. pending \in Transactions
      BY <1>4 DEF Discard, IInv, TypeOK
    <2>3. CASE pending.id \in Proposals
      <3>1. /\ row[pending.id] = "pending_preview" \/ pending.id \in Reused
            /\ row' = [row EXCEPT ![pending.id] = "discarded"]
        BY <1>4, <2>3 DEF Discard, Decide, IInv, PendingIsUndecided
      <3>2. A!Discard
        BY <1>4, <2>1, <2>3, <3>1 DEF Discard, SetSlot, A!Discard, A!Decide
      <3> QED
        BY <3>2 DEF A!Next
    <2>4. CASE pending.id = Prompt
      <3>1. A!Discard
        BY <1>4, <2>1, <2>4, AgentConstants DEF Discard, Decide, SetSlot,
           A!Discard
      <3> QED
        BY <3>1 DEF A!Next
    <2> QED
      BY <2>2, <2>3, <2>4 DEF Transactions
  <1>5. CASE BeginApply
    <2>1. A!Approve
      BY <1>5 DEF BeginApply, IInv, PreviewIsOfPending, A!Approve
    <2> QED
      BY <2>1 DEF A!Next
  <1>6. CASE ApplyRefused \/ ApplyRolledBack
    <2>1. handler.txn # None
      BY <1>6 DEF ApplyRefused, ApplyRolledBack, IInv, Held, Applying
    <2>2. A!Refuse
      BY <1>6, <2>1 DEF ApplyRefused, ApplyRolledBack, SetSlot, A!Refuse
    <2> QED
      BY <2>2 DEF A!Next
  <1>7. CASE ApplyDone
    <2>1. handler.at = "commit" /\ handler.txn \in Transactions
      BY <1>7 DEF ApplyDone, IInv, TypeOK
    <2>2. handler.txn # None
      BY <2>1 DEF IInv, Held, Applying
    <2>3. CASE handler.txn.id \in Proposals
      <3>1. row[handler.txn.id] = "pending_preview" \/ handler.txn.id \in Reused
        BY <2>1, <2>3 DEF IInv, Held, Applying
      <3>2. A!Commit
        BY <1>7, <2>1, <2>2, <2>3, <3>1 DEF ApplyDone, SetSlot, A!Commit,
           A!Decide
      <3> QED
        BY <3>2 DEF A!Next
    <2>4. CASE handler.txn.id = Prompt
      <3>1. A!Commit
        BY <1>7, <2>1, <2>2, <2>4, AgentConstants DEF ApplyDone, SetSlot,
           A!Commit
      <3> QED
        BY <3>1 DEF A!Next
    <2> QED
      BY <2>1, <2>3, <2>4 DEF Transactions
  <1>8. CASE OtherSessionCommits
    BY <1>8 DEF OtherSessionCommits, A!Next, A!OtherSessionCommits
  <1>9. CASE GdeSucceeds
    BY <1>9 DEF GdeSucceeds, A!vars
  <1> QED
    BY <1>1, <1>2, <1>3, <1>4, <1>5, <1>6, <1>7, <1>8, <1>9

LEMMA StepsMap == IInv /\ [Next]_vars => [A!Next]_(A!vars)
  <1> SUFFICES ASSUME IInv, [Next]_vars PROVE [A!Next]_(A!vars)
    OBVIOUS
  <1>1. CASE UNCHANGED vars
    BY <1>1 DEF vars, slot, A!vars, Approved
  <1>2. ASSUME NEW t \in Turns,
               \/ StartTurn(t) \/ ProviderFails(t) \/ InstallTurn(t)
               \/ LaunchTurn(t) \/ CancelTurn(t) \/ Task(t)
        PROVE  [A!Next]_(A!vars)
    BY <1>2, TurnsMapToStutters, ProposalsMap DEF Task
  <1>3. ASSUME \/ RequestCancel
               \/ BeginPrompt \/ PromptBlocked \/ PromptEnds
               \/ Discard
               \/ BeginApply \/ ApplyRefused \/ GdeSucceeds
           \/ ApplyRolledBack \/ ApplyDone
               \/ OtherSessionCommits
        PROVE  [A!Next]_(A!vars)
    BY <1>3, DecisionsMap
  <1> QED
    BY <1>1, <1>2, <1>3 DEF Next

\* The agent host keeps the promise of Approvals, however turns, prompts,
\* applies and other sessions interleave: what is committed was on show when it
\* was approved, on the CGS of that moment; it is marked with the commit; a
\* failed apply puts back what was approved or nothing; and a proposal whose
\* identifier is given out once is decided once.
THEOREM HostImplementsApprovals == Spec => ImplementsApprovals
  <1>1. Init => A!Init
    BY AgentConstants DEF Init, Idle, A!Init, Approved
  <1> QED
    BY <1>1, StepsMap, Inductive, PTL DEF Spec, ImplementsApprovals, A!Spec
=============================================================================
