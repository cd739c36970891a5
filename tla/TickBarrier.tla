----------------------------- MODULE TickBarrier -----------------------------
(***************************************************************************)
(* What lockstep promises the simulation: the inputs of a tick are decided *)
(* once, ticks are decided in order, and the frame of a tick holds exactly *)
(* one packet of every required peer, one that this peer sent for it.      *)
(* LockstepInput implements this whenever synthetic release is switched    *)
(* off.                                                                    *)
(***************************************************************************)
EXTENDS Naturals

CONSTANTS
    Peers,      \* required peers
    MaxTick,    \* bound: the last tick
    Packets     \* records with fields peer and tick

VARIABLES
    sent,       \* packets the peers have sent
    frames,     \* frames[t]: the packets decided for tick t
    barrier     \* the first tick that is not decided

vars == <<sent, frames, barrier>>

Init ==
    /\ sent = {}
    /\ frames = [t \in 0..MaxTick |-> {}]
    /\ barrier = 0

Submit ==
    /\ \E k \in Packets : sent' = sent \cup {k}
    /\ UNCHANGED <<frames, barrier>>

\* One packet of each peer, among those sent for the tick at the barrier.
CompleteFrames ==
    {{choice[p] : p \in Peers} :
        choice \in {f \in [Peers -> {k \in sent : k.tick = barrier}] :
                       \A p \in Peers : f[p].peer = p}}

Release ==
    /\ barrier <= MaxTick
    /\ \E frame \in CompleteFrames :
           frames' = [frames EXCEPT ![barrier] = frame]
    /\ barrier' = barrier + 1
    /\ UNCHANGED sent

Next == Submit \/ Release

Spec == Init /\ [][Next]_vars
=============================================================================
