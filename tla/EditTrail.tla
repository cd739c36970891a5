------------------------------ MODULE EditTrail ------------------------------
(***************************************************************************)
(* What a Builder project promises the user who undoes and redoes prompts: *)
(* a trail of CGSs, each one edit after the one before it, and a place on  *)
(* it.  The place moves by one, and only to the CGS that is active then; a *)
(* new edit continues the trail where it was made and drops what lay       *)
(* beyond.  Everything else that happens to the active CGS, other writers, *)
(* failures and crashes included, leaves the trail alone.  BuilderServer,  *)
(* whose history is a file of entries and a cursor, written after the CGS  *)
(* and never together with it, implements this.                            *)
(***************************************************************************)
EXTENDS Naturals, Sequences

CONSTANTS
    CGSs,
    PromptEdits,
    None          \* no CGS

VARIABLES
    active,  \* the active CGS
    trail,   \* the CGSs on the trail
    place    \* where on it the user is

vars == <<active, trail, place>>

\* No trail yet.
Init ==
    /\ active \in CGSs
    /\ trail = <<None>>
    /\ place = 1

-----------------------------------------------------------------------------
\* The active CGS is replaced.
Replace ==
    /\ active' \in CGSs
    /\ UNCHANGED <<trail, place>>

\* The active CGS is one edit after the CGS at k: where the user is, if that
\* is the CGS it was made from.
Extend(k, edit) ==
    /\ trail[k] # None
    /\ active = Append(trail[k], edit)
    /\ trail[place] = trail[k] => k = place
    /\ trail' = Append(SubSeq(trail, 1, k), active)
    /\ place' = k + 1
    /\ UNCHANGED active

\* It was made from a CGS that is not on the trail.
StartAnew(cgs, edit) ==
    /\ active = Append(cgs, edit)
    /\ \A k \in DOMAIN trail : trail[k] # cgs
    /\ trail' = <<cgs, active>>
    /\ place' = 2
    /\ UNCHANGED active

\* Undo and redo.
Move(to) ==
    /\ to = place + 1 \/ place = to + 1
    /\ active = trail[to]
    /\ place' = to
    /\ UNCHANGED <<active, trail>>

Next ==
    \/ Replace
    \/ \E k \in DOMAIN trail, edit \in PromptEdits : Extend(k, edit)
    \/ \E cgs \in CGSs, edit \in PromptEdits : StartAnew(cgs, edit)
    \/ \E to \in DOMAIN trail : Move(to)

Spec == Init /\ [][Next]_vars
=============================================================================
