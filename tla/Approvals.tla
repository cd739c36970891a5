------------------------------ MODULE Approvals ------------------------------
(***************************************************************************)
(* What a Builder session promises the user who approves its transactions, *)
(* whatever agents propose and other sessions commit meanwhile: what is    *)
(* committed is what was on show when the user approved it, and the CGS    *)
(* was then the one it was made for; with the commit its proposal is       *)
(* marked; between approval and commit nothing else is approved, discarded *)
(* or committed; a failed commit puts back what was approved or nothing;   *)
(* and a proposal is decided at most once, unless its provider gives out   *)
(* its identifier again.  It is not promised that the CGS is still the one *)
(* of the approval when the commit lands.  AgentHost, which keeps the      *)
(* transaction and its preview apart and awaits twice in the middle of an  *)
(* apply, implements this.                                                 *)
(***************************************************************************)
CONSTANTS
    Proposals,   \* what agents may propose
    Reused,      \* those whose identifier a provider gives out again
    CGSs,        \* what the CGS can be
    Prompt,      \* the transaction of a prompt
    None

VARIABLES
    cgs,        \* the CGS
    shown,      \* the transaction on show, or None
    approved,   \* the transaction the user approved, until it is decided
    row,        \* what the session store says of each proposal
    committed   \* the proposals that were committed

vars == <<cgs, shown, approved, row, committed>>

Transactions == [id : Proposals \cup {Prompt}, base : CGSs]

Init ==
    /\ cgs \in CGSs
    /\ shown = None
    /\ approved = None
    /\ row = [p \in Proposals |-> "none"]
    /\ committed = {}

-----------------------------------------------------------------------------
\* A word on a proposal that was not heard of, or is heard of again.  One that
\* can be applied is shown at once.
Judge(p) ==
    /\ row[p] = "none" \/ p \in Reused
    /\ \E status \in {"pending_preview", "no_op", "rejected"} :
          /\ row' = [row EXCEPT ![p] = status]
          /\ IF status = "pending_preview"
             THEN shown' \in {txn \in Transactions : txn.id = p}
             ELSE UNCHANGED shown
    /\ UNCHANGED <<cgs, approved, committed>>

\* A prompt hides what is on show and may end with a transaction of its own.
ShowPrompt ==
    /\ approved = None
    /\ shown' \in {txn \in Transactions : txn.id = Prompt} \cup {None}
    /\ UNCHANGED <<cgs, approved, row, committed>>

Approve ==
    /\ approved = None
    /\ shown # None
    /\ shown.base = cgs
    /\ approved' = shown
    /\ UNCHANGED <<cgs, shown, row, committed>>

\* Nothing was changed, or it was all put back: what was approved is on show
\* again, on the CGS it was made for.
Refuse ==
    /\ approved # None
    /\ approved' = None
    /\ \/ UNCHANGED <<cgs, shown>>
       \/ cgs' = approved.base /\ shown' = approved
    /\ UNCHANGED <<row, committed>>

\* The last word on a proposal: nobody said one before.
Decide(p, status) ==
    /\ row[p] = "pending_preview" \/ p \in Reused
    /\ row' = [row EXCEPT ![p] = status]

Commit ==
    /\ approved # None
    /\ cgs' \in CGSs
    /\ \/ approved.id = Prompt /\ UNCHANGED <<row, committed>>
       \/ /\ Decide(approved.id, "applied")
          /\ committed' = committed \cup {approved.id}
    /\ shown' = None
    /\ approved' = None

\* The user discards what is on show, or what a prompt hid.
Discard ==
    /\ approved = None
    /\ \/ (shown # None => shown.id = Prompt) /\ UNCHANGED row
       \/ \E p \in Proposals :
             (shown # None => shown.id = p) /\ Decide(p, "discarded")
    /\ shown' = None
    /\ UNCHANGED <<cgs, approved, committed>>

\* Another session commits, before or after an approval.
OtherSessionCommits ==
    /\ cgs' \in CGSs
    /\ UNCHANGED <<shown, approved, row, committed>>

Next ==
    \/ \E p \in Proposals : Judge(p)
    \/ ShowPrompt
    \/ Approve \/ Refuse \/ Commit \/ Discard
    \/ OtherSessionCommits

Spec == Init /\ [][Next]_vars
=============================================================================
