---------------------------- MODULE LockstepInput ----------------------------
(***************************************************************************)
(* Lockstep input: the packets of the peers on their way to the host, the  *)
(* host's InputBuffer and InputSynchroniser (packages/network-core/src/    *)
(* input), and the part of RuntimeOrchestrator::tick that holds the tick   *)
(* boundary until they allow it to pass.                                   *)
(*                                                                         *)
(* tick() drains engine_inputs before it decides.  A packet changes        *)
(* nothing while it waits in a bridge or in engine_inputs, and the         *)
(* decision comes after the drain, so everything up to the drain is one    *)
(* set `network`, and Deliver is the drain's treatment of one packet.      *)
(*                                                                         *)
(* While the runtime waits sim_tick stands still, so the time a target     *)
(* tick has waited by the synchroniser's own clock is always 0 and only    *)
(* the default TimeoutPolicy, WaitForever, is modelled; the runtime counts *)
(* its attempts itself.                                                    *)
(***************************************************************************)
EXTENDS Integers, FiniteSets

CONSTANTS
    Peers,         \* required_peers
    Transport,     \* "stream", "reordering" or "datagram"
    Delays,        \* values of fixed_delay_ticks
    Limits,        \* values of synthetic_release_after_wait_ticks
    NoLimit,       \* that option set to None
    MaxPackets,    \* max_packets_per_peer
    MaxFuture,     \* max_future_ticks
    KeepReleased,  \* keep_released_tick_history
    MaxAttempts,   \* max_attempts of the broadcaster
    MaxTick,       \* bound: ticks 0..MaxTick are simulated
    MaxRepeats,    \* bound: times a peer sends again for its current tick
    MaxFailures,   \* bound: ticks that fail after their input was released
    MaxWaits       \* bound: wait attempts are counted up to here

ASSUME LockstepConstants ==
    /\ Transport \in {"stream", "reordering", "datagram"}
    /\ Delays \subseteq Nat
    /\ Limits \subseteq Nat \cup {NoLimit}
    /\ NoLimit \notin Nat
    /\ MaxPackets \in Nat \ {0}
    /\ MaxFuture \in Nat
    /\ KeepReleased \in Nat \ {0}
    /\ MaxAttempts \in Nat \ {0}
    /\ MaxTick \in Nat
    /\ MaxRepeats \in Nat
    /\ MaxFailures \in Nat
    /\ MaxWaits \in Nat

VARIABLES
    config,          \* delay and limit, as the runtime was configured
    client,          \* each peer's last sequence id and tick
    sent,            \* packets sent so far
    network,         \* packets under way, up to the drain of engine_inputs
    attempts,        \* InputBroadcaster.pending: attempts[p][s], 0 if not pending
    buffer,          \* InputBuffer: PeerInputState of each peer
    released,        \* released_ticks
    lastReleased,    \* last_released_tick
    firstWait,       \* keys of first_wait_seen
    inputLog,        \* InputLog.entries
    simTick,         \* current_tick
    waitAttempts,    \* input_sync_wait_attempts
    rollbackInputs,  \* rollback_input_history
    failures         \* ticks that failed after the release

peers == <<client, sent>>
transit == <<network, attempts>>
synchroniser == <<released, lastReleased, firstWait, inputLog>>
runtime == <<simTick, waitAttempts, rollbackInputs, failures>>
vars == <<config, peers, transit, buffer, synchroniser, runtime>>

Ticks == 0..MaxTick
NoTick == -1
Sequences == 1..MaxTick + 1 + MaxRepeats

Packets == [peer : Peers, tick : Ticks, seq : Sequences, synthetic : BOOLEAN]

EmptyPeerState == [packets |-> {}, lastSeq |-> 0, highest |-> NoTick]

Init ==
    /\ config \in [delay : Delays, limit : Limits]
    /\ client = [p \in Peers |-> [seq |-> 0, tick |-> NoTick]]
    /\ sent = {}
    /\ network = {}
    /\ attempts = [p \in Peers |-> [s \in Sequences |-> 0]]
    /\ buffer = [p \in Peers |-> EmptyPeerState]
    /\ released = {}
    /\ lastReleased = NoTick
    /\ firstWait = {}
    /\ inputLog = {}
    /\ simTick = 0
    /\ waitAttempts = [t \in Ticks |-> 0]
    /\ rollbackInputs = [t \in Ticks |-> {}]
    /\ failures = 0

-----------------------------------------------------------------------------
(* Peers.  A peer numbers its packets 1, 2, 3... and never goes back to an  *)
(* earlier tick.  Off a stream, the broadcaster keeps each packet pending   *)
(* and sends it again until it is acknowledged, has expired or has been     *)
(* tried max_attempts times.                                                *)

SendInput(p, t) ==
    LET k == [peer |-> p, tick |-> t, seq |-> client[p].seq + 1,
              synthetic |-> FALSE]
    IN  /\ client' = [client EXCEPT ![p] = [seq |-> k.seq, tick |-> t]]
        /\ sent' = sent \cup {k}
        /\ network' = network \cup {k}
        /\ attempts' = IF Transport = "stream" THEN attempts
                       ELSE [attempts EXCEPT ![p][k.seq] = 1]
        /\ UNCHANGED <<config, buffer, synchroniser, runtime>>

SendNext(p) ==
    /\ client[p].tick < MaxTick
    /\ SendInput(p, client[p].tick + 1)

SendAgain(p) ==
    /\ client[p].tick # NoTick
    /\ client[p].seq - client[p].tick <= MaxRepeats
    /\ SendInput(p, client[p].tick)

\* Bug: one attempt too many.
RetransmitOnceMore(k) ==
    /\ attempts[k.peer][k.seq] \in 1..MaxAttempts
    /\ attempts' = [attempts EXCEPT ![k.peer][k.seq] = @ + 1]
    /\ network' = network \cup {k}
    /\ UNCHANGED <<config, peers, buffer, synchroniser, runtime>>

Retransmit(k) ==
    /\ attempts[k.peer][k.seq] \in 1..MaxAttempts - 1
    /\ attempts' = [attempts EXCEPT ![k.peer][k.seq] = @ + 1]
    /\ network' = network \cup {k}
    /\ UNCHANGED <<config, peers, buffer, synchroniser, runtime>>

\* The packet has expired or has been tried max_attempts times.
GiveUp(k) ==
    /\ attempts[k.peer][k.seq] # 0
    /\ attempts' = [attempts EXCEPT ![k.peer][k.seq] = 0]
    /\ UNCHANGED <<config, peers, network, buffer, synchroniser, runtime>>

Lose(k) ==
    /\ Transport = "datagram"
    /\ k \in network
    /\ network' = network \ {k}
    /\ UNCHANGED <<config, peers, attempts, buffer, synchroniser, runtime>>

-----------------------------------------------------------------------------
(* InputBuffer *)

HeldFor(b, t) == {h \in b.packets : h.tick = t}

TooFarAhead(b, k) == b.highest # NoTick /\ k.tick > b.highest + MaxFuture

\* Bug: the sequence check left out.
AcceptsAnySequence(b, k) ==
    /\ ~TooFarAhead(b, k)
    /\ HeldFor(b, k.tick) = {}
    /\ Cardinality(b.packets) < MaxPackets

\* Bug: the quota is one packet short.
AcceptsBelowQuota(b, k) ==
    /\ ~TooFarAhead(b, k)
    /\ HeldFor(b, k.tick) = {}
    /\ k.seq > b.lastSeq
    /\ Cardinality(b.packets) + 1 < MaxPackets

Accepts(b, k) ==
    /\ ~TooFarAhead(b, k)
    /\ HeldFor(b, k.tick) = {}
    /\ k.seq > b.lastSeq
    /\ Cardinality(b.packets) < MaxPackets

Inserted(b, k) ==
    [packets |-> b.packets \cup {k}, lastSeq |-> k.seq,
     highest |-> IF k.tick > b.highest THEN k.tick ELSE b.highest]

\* Bug: a tick counts as complete once somebody's packet is there.
MissingIfNobody(t) ==
    IF \E p \in Peers : HeldFor(buffer[p], t) # {} THEN {} ELSE Peers

MissingForTick(t) == {p \in Peers : HeldFor(buffer[p], t) = {}}

TakenForTick(buf, t) == UNION {HeldFor(buf[p], t) : p \in Peers}

WithoutTick(buf, t) ==
    [p \in Peers |-> [buf[p] EXCEPT !.packets = @ \ HeldFor(buf[p], t)]]

-----------------------------------------------------------------------------
(* One packet of engine_inputs, as the drain treats it.                     *)

\* A stream hands over a peer's packets in the order they were sent.
Deliverable(k) ==
    /\ k \in network
    /\ Transport = "stream" =>
           \A j \in network : j.peer = k.peer => k.seq <= j.seq

\* The packet arrives, and its acknowledgement reaches the sender or not.
Received(k) ==
    /\ network' = network \ {k}
    /\ \/ attempts' = [attempts EXCEPT ![k.peer][k.seq] = 0]
       \/ Transport = "datagram" /\ UNCHANGED attempts

\* Bug: a packet for the tick released last is not late.
LateAfterNextRelease(k) == k.tick < lastReleased

Late(k) == k.tick <= lastReleased

DeliverAccepted(k) ==
    /\ Deliverable(k)
    /\ ~Late(k)
    /\ Accepts(buffer[k.peer], k)
    /\ Received(k)
    /\ buffer' = [buffer EXCEPT ![k.peer] = Inserted(@, k)]
    /\ UNCHANGED <<config, peers, synchroniser, runtime>>

DeliverRefused(k) ==
    /\ Deliverable(k)
    /\ Late(k) \/ ~Accepts(buffer[k.peer], k)
    /\ Received(k)
    /\ UNCHANGED <<config, peers, buffer, synchroniser, runtime>>

Deliver(k) == DeliverAccepted(k) \/ DeliverRefused(k)

-----------------------------------------------------------------------------
(* InputSynchroniser: the tick whose input is to be released, and what     *)
(* releasing it does.                                                      *)

DelayedTick ==
    IF simTick >= config.delay THEN simTick - config.delay ELSE NoTick

Oldest(S) == CHOOSE t \in S : \A u \in S : t <= u

TargetTick == IF firstWait = {} THEN DelayedTick ELSE Oldest(firstWait)

\* The KeepReleased latest of the ticks.
Pruned(S) ==
    {t \in S : Cardinality({u \in S : u > t}) < KeepReleased}

\* Bug: release_tick forgets to note the tick.
ReleasedForgotten(t, buf) ==
    /\ buffer' = WithoutTick(buf, t)
    /\ inputLog' = inputLog \cup TakenForTick(buf, t)
    /\ released' = released
    /\ lastReleased' = t
    /\ firstWait' = firstWait \ {t}

\* release_tick
ReleaseTick(t, buf) ==
    /\ buffer' = WithoutTick(buf, t)
    /\ inputLog' = inputLog \cup TakenForTick(buf, t)
    /\ released' = Pruned(released \cup {t})
    /\ lastReleased' = t
    /\ firstWait' = firstWait \ {t}

\* synthetic_empty_packets, for one peer.
SyntheticPacket(p, t) ==
    LET before == {k.seq : k \in HeldFor(buffer[p], t - 1)}
    IN  [peer |-> p, tick |-> t,
         seq |-> IF before = {} THEN 1 ELSE Oldest(before) + 1,
         synthetic |-> TRUE]

\* The buffer once a synthetic packet was submitted for each missing peer;
\* the outcome of the submission is ignored.
WithSynthetic(t) ==
    [p \in Peers |->
        IF p \in MissingForTick(t) /\ Accepts(buffer[p], SyntheticPacket(p, t))
        THEN Inserted(buffer[p], SyntheticPacket(p, t))
        ELSE buffer[p]]

-----------------------------------------------------------------------------
(* RuntimeOrchestrator::tick *)

\* Bug: the attempt is not counted.
WaitUncounted(t) == UNCHANGED waitAttempts

\* record_lockstep_wait
RecordWait(t) ==
    waitAttempts' = [waitAttempts EXCEPT ![t] = IF @ < MaxWaits THEN @ + 1 ELSE @]

\* The runtime looks its attempts up by the delayed tick.
LimitReached ==
    /\ config.limit # NoLimit
    /\ waitAttempts[IF DelayedTick = NoTick THEN 0 ELSE DelayedTick]
           >= config.limit

\* The phases run: the tick passes and its input is kept for a rollback, or
\* it fails after its input was taken.
Simulate(packets) ==
    \/ /\ simTick' = simTick + 1
       /\ rollbackInputs' =
              LET own == {k \in packets : k.tick = simTick}
              IN  IF own = {} THEN rollbackInputs
                  ELSE [rollbackInputs EXCEPT ![simTick] = own]
       /\ UNCHANGED failures
    \/ /\ failures < MaxFailures
       /\ failures' = failures + 1
       /\ UNCHANGED <<simTick, rollbackInputs>>

TickWithoutTarget ==
    /\ simTick <= MaxTick
    /\ TargetTick = NoTick
    /\ RecordWait(0)
    /\ UNCHANGED <<config, peers, transit, buffer, synchroniser,
                   simTick, rollbackInputs, failures>>

TickAlreadyReleased ==
    /\ simTick <= MaxTick
    /\ TargetTick \in released
    /\ Simulate({})
    /\ UNCHANGED <<config, peers, transit, buffer, synchroniser, waitAttempts>>

ReleaseAndSimulate(t, buf) ==
    /\ ReleaseTick(t, buf)
    /\ waitAttempts' = [waitAttempts EXCEPT ![t] = 0]
    /\ Simulate(TakenForTick(buf, t))
    /\ UNCHANGED <<config, peers, transit>>

TickRelease ==
    /\ simTick <= MaxTick
    /\ TargetTick \notin released \cup {NoTick}
    /\ MissingForTick(TargetTick) = {}
    /\ ReleaseAndSimulate(TargetTick, buffer)

TickReleaseSynthetic ==
    /\ simTick <= MaxTick
    /\ TargetTick \notin released \cup {NoTick}
    /\ MissingForTick(TargetTick) # {}
    /\ LimitReached
    /\ ReleaseAndSimulate(TargetTick, WithSynthetic(TargetTick))

TickWait ==
    /\ simTick <= MaxTick
    /\ TargetTick \notin released \cup {NoTick}
    /\ MissingForTick(TargetTick) # {}
    /\ ~LimitReached
    /\ firstWait' = firstWait \cup {TargetTick}
    /\ RecordWait(TargetTick)
    /\ UNCHANGED <<config, peers, transit, buffer, released, lastReleased,
                   inputLog, simTick, rollbackInputs, failures>>

Tick ==
    \/ TickWithoutTarget
    \/ TickAlreadyReleased
    \/ TickRelease
    \/ TickReleaseSynthetic
    \/ TickWait

Transit == \E k \in sent : Retransmit(k) \/ GiveUp(k) \/ Lose(k) \/ Deliver(k)

Next ==
    \/ \E p \in Peers : SendNext(p) \/ SendAgain(p)
    \/ Transit
    \/ Tick

\* The caller of tick() tries again after a tick that waited or failed, as
\* the X10-036 tests of runtime_orchestrator.rs do.
Spec == Init /\ [][Next]_vars /\ WF_vars(Tick)

\* The buffer can hold one more tick of p beside all those not yet released.
WithinQuota(p) == client[p].tick < lastReleased + MaxPackets

\* In addition peers go on playing, as far as the host can hold their input,
\* and what they send arrives.  Nothing keeps a peer from running further
\* ahead: SendNext has no such guard.
LiveSpec ==
    /\ Spec
    /\ \A p \in Peers :
           /\ WF_vars(WithinQuota(p) /\ SendNext(p))
           /\ WF_vars(\E k \in sent : k.peer = p /\ Deliver(k))

-----------------------------------------------------------------------------
(* Properties *)

PeerStates == [packets : SUBSET Packets, lastSeq : Nat, highest : Ticks \cup {NoTick}]

\* Every variable stays within its type; in particular the runtime's tick is
\* never more than one past the tick it released last, and everything in
\* flight or in the log was sent, unless the synchroniser made it up.
TypeOK ==
    /\ config \in [delay : Delays, limit : Limits]
    /\ client \in [Peers -> [seq : 0..MaxTick + 1 + MaxRepeats,
                             tick : Ticks \cup {NoTick}]]
    /\ sent \subseteq Packets
    /\ network \subseteq sent
    /\ attempts \in [Peers -> [Sequences -> 0..MaxAttempts]]
    /\ buffer \in [Peers -> PeerStates]
    /\ released \subseteq Ticks
    /\ lastReleased \in Ticks \cup {NoTick}
    /\ firstWait \subseteq Ticks
    /\ inputLog \subseteq Packets
    /\ simTick \in 0..MaxTick + 1
    /\ waitAttempts \in [Ticks -> 0..MaxWaits]
    /\ rollbackInputs \in [Ticks -> SUBSET Packets]
    /\ failures \in 0..MaxFailures

\* What the buffer holds can still be released: no packet of a tick that is
\* over stays behind to fill the peer's quota, whatever is delivered late,
\* twice or out of order (late check of synchronise_lockstep_engine_inputs,
\* take_for_tick).
NoDeadPackets ==
    \A p \in Peers : \A k \in buffer[p].packets :
        k.peer = p /\ k.tick > lastReleased

\* The simulation consumes a peer's packets in the order the peer numbered
\* them, at most one for each tick, real or synthetic: nothing that was
\* delayed, sent again or made up is slipped in behind a later packet
\* (sequence check of insert_with_outcome).
FramesInSequence ==
    \A j, k \in inputLog :
        j.peer = k.peer /\ j # k =>
            (j.tick < k.tick /\ j.seq < k.seq) \/ (k.tick < j.tick /\ k.seq < j.seq)

\* The world never runs ahead of the barrier nor lags more than the one tick
\* whose phases failed, and a release stays on record for as long as its
\* tick may be tried again: a failed tick cannot take input twice.
OneReleasePerTick ==
    config.delay = 0 =>
        /\ lastReleased \in {simTick - 1, simTick}
        /\ lastReleased # NoTick => lastReleased \in released

Frame(t) == {k \in inputLog : k.tick = t}

Barrier == INSTANCE TickBarrier WITH
               frames <- [t \in Ticks |-> Frame(t)],
               barrier <- lastReleased + 1

\* The runtime decides each tick's input once, in order, and from all peers
\* (release_for_sim_tick with synthetic release off).
ImplementsTickBarrier == Barrier!Spec

\* Every tick is simulated in the end (the claim of MASTER_PLAN.md:668, that the
\* boundary is held until all input is there and released then).
EveryTickSimulated == \A t \in Ticks : <>(simTick > t)

\* No peer has run further ahead of the last release than its quota.
PeersPaced == \A p \in Peers : client[p].tick <= lastReleased + MaxPackets

\* Every tick is simulated in the end as long as no peer runs ahead by more
\* than its quota: up to that point a quota that is filled again and again
\* never costs a packet.  Beyond it insert_with_outcome refuses input that a
\* stream does not send again, and the barrier waits for it for ever.
PacedTicksSimulated == []PeersPaced => EveryTickSimulated

\* Without an input delay, every tick is simulated in the end.
UndelayedTicksSimulated == config.delay = 0 => EveryTickSimulated

\* Every required peer has a packet in the frame of a released tick
\* (test_input_synchroniser.rs: a timeout release has both peers' packets).
FramesComplete ==
    \A t \in 0..lastReleased : \A p \in Peers : \E k \in Frame(t) : k.peer = p

\* The released input of every simulated tick is retained for rollback.
RollbackInputsRetained == \A t \in 0..simTick - 1 : rollbackInputs[t] = Frame(t)
=============================================================================
