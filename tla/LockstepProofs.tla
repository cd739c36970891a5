--------------------------- MODULE LockstepProofs ---------------------------
(***************************************************************************)
(* Proofs about LockstepInput, for any set of peers, any transport, any    *)
(* delays and limits and any bounds.                                       *)
(*                                                                         *)
(* The argument: the tick that may be released next is exactly the one     *)
(* after lastReleased (TargetIsNext), so releases leave no packet of an    *)
(* earlier tick in the buffer; the buffer holds only packets that were     *)
(* sent, and peers number their packets in tick order, so taking ticks in  *)
(* order takes sequence ids in order; and a synthetic packet is accepted   *)
(* only from a peer of whom nothing was ever accepted.                     *)
(***************************************************************************)
EXTENDS LockstepInput, FiniteSetTheorems, TLAPS

\* What a peer has sent is numbered in the order of its ticks.
PeersInOrder ==
    /\ \A p \in Peers : client[p].seq <= client[p].tick + 1 + MaxRepeats
    /\ \A k \in sent :
           /\ ~k.synthetic
           /\ k.seq <= client[k.peer].seq
           /\ k.tick <= client[k.peer].tick
    /\ \A j, k \in sent :
           j.peer = k.peer =>
               /\ j.seq < k.seq => j.tick <= k.tick
               /\ j.seq = k.seq => j = k

\* The buffer holds sent packets of ticks to come, one for each tick.
BufferSound ==
    \A p \in Peers :
        /\ \A k \in buffer[p].packets :
               /\ k \in sent
               /\ k.peer = p
               /\ k.tick > lastReleased
               /\ k.seq <= buffer[p].lastSeq
        /\ \A j, k \in buffer[p].packets : j.tick = k.tick => j = k

\* The log holds packets of ticks that are over, numbered below everything
\* that is buffered or may still be accepted.
LogSound ==
    \A j \in inputLog :
        /\ j.tick <= lastReleased
        /\ j.seq <= buffer[j.peer].lastSeq
        /\ \A k \in buffer[j.peer].packets : j.seq < k.seq

\* How far the runtime and the synchroniser may be apart.
InStep ==
    /\ released \subseteq 0..lastReleased
    /\ config.delay = 0 =>
           /\ lastReleased \in {simTick - 1, simTick}
           /\ lastReleased # NoTick => lastReleased \in released
           /\ firstWait \subseteq {simTick}
           /\ lastReleased = simTick => firstWait = {}
    /\ config.delay # 0 =>
           /\ simTick = 0
           /\ lastReleased = NoTick
           /\ firstWait = {}

IInv ==
    /\ TypeOK
    /\ PeersInOrder
    /\ BufferSound
    /\ LogSound
    /\ InStep
    /\ FramesInSequence

-----------------------------------------------------------------------------
(* The release. *)

LEMMA OldestOfOne == \A t : Oldest({t}) = t
  BY DEF Oldest

\* Whatever tick the synchroniser is about to release or to wait for, it is
\* the current one, and the one after the last release.
LEMMA TargetIsNext ==
    ASSUME TypeOK, InStep, simTick <= MaxTick,
           TargetTick \notin released \cup {NoTick}
    PROVE  /\ config.delay = 0
           /\ TargetTick = simTick
           /\ TargetTick = lastReleased + 1
           /\ TargetTick \in Ticks
  <1>1. config.delay \in Nat
    BY LockstepConstants DEF TypeOK
  <1>2. simTick \in Nat /\ lastReleased \in Int
    BY LockstepConstants DEF TypeOK, Ticks, NoTick
  <1>3. config.delay = 0
    <2>1. SUFFICES ASSUME config.delay # 0 PROVE FALSE
      OBVIOUS
    <2>2. simTick = 0 /\ firstWait = {}
      BY <2>1 DEF InStep
    <2>3. TargetTick = NoTick
      BY <1>1, <2>1, <2>2 DEF TargetTick, DelayedTick
    <2>4. QED
      BY <2>3
  <1>4. DelayedTick = simTick
    BY <1>2, <1>3 DEF DelayedTick
  <1>5. firstWait = {} \/ firstWait = {simTick}
    BY <1>3 DEF InStep
  <1>6. TargetTick = simTick
    BY <1>4, <1>5, OldestOfOne DEF TargetTick
  <1>7. lastReleased # simTick
    BY <1>2, <1>3, <1>6 DEF InStep, NoTick
  <1>8. lastReleased = simTick - 1
    BY <1>3, <1>7 DEF InStep
  <1>9. QED
    BY <1>2, <1>3, <1>6, <1>8, LockstepConstants DEF Ticks

\* Pruning the history keeps the latest tick.
LEMMA PrunedKeepsLatest ==
    ASSUME NEW S, NEW t, t \in Int, S \subseteq Int, \A u \in S : u <= t
    PROVE  t \in Pruned(S \cup {t}) /\ Pruned(S \cup {t}) \subseteq S \cup {t}
  <1>1. {u \in S \cup {t} : u > t} = {}
    <2>1. \A u \in S \cup {t} : u \in Int /\ u <= t
      OBVIOUS
    <2>2. \A u \in S \cup {t} : ~(u > t)
      BY <2>1
    <2>3. QED
      BY <2>2
  <1>2. Cardinality({u \in S \cup {t} : u > t}) = 0
    BY <1>1, FS_EmptySet
  <1>3. QED
    BY <1>2, LockstepConstants DEF Pruned

\* A buffer that may be released: as BufferSound, but for the tick at hand
\* it may also hold a synthetic packet, of a peer that holds nothing else.
Releasable(buf, t) ==
    /\ buf \in [Peers -> PeerStates]
    /\ \A p \in Peers :
           /\ buf[p].lastSeq >= buffer[p].lastSeq
           /\ \A k \in buf[p].packets :
                  /\ k.peer = p
                  /\ k.tick >= t
                  /\ k.seq <= buf[p].lastSeq
                  /\ k \in sent \/ (buf[p].packets = {k} /\ k.tick = t)
                  /\ \A j \in inputLog : j.peer = p => j.seq < k.seq
           /\ \A j, k \in buf[p].packets : j.tick = k.tick => j = k

\* The numbers in a packet, and in what the buffer and the log hold.
LEMMA PacketNumbers ==
    ASSUME NEW k \in Packets
    PROVE  /\ k.tick \in Ticks /\ k.tick \in Int
           /\ k.seq \in Sequences /\ k.seq \in Int /\ k.seq >= 1
           /\ k.peer \in Peers
  <1>1. k.tick \in Ticks /\ k.seq \in Sequences /\ k.peer \in Peers
    BY DEF Packets
  <1>2. Ticks \subseteq Int
    BY LockstepConstants DEF Ticks
  <1>3. Sequences \subseteq Int /\ \A s \in Sequences : s >= 1
    BY LockstepConstants DEF Sequences
  <1>4. QED
    BY <1>1, <1>2, <1>3

LEMMA HeldPackets ==
    ASSUME TypeOK
    PROVE  /\ \A p \in Peers : buffer[p] \in PeerStates
           /\ \A p \in Peers : \A k \in buffer[p].packets : k \in Packets
           /\ \A p \in Peers : buffer[p].lastSeq \in Nat
           /\ \A k \in inputLog : k \in Packets
           /\ \A k \in sent : k \in Packets
           /\ lastReleased \in Int
  <1>1. \A p \in Peers : buffer[p] \in PeerStates
    BY DEF TypeOK
  <1>2. \A b \in PeerStates : b.lastSeq \in Nat /\ b.packets \subseteq Packets
    BY DEF PeerStates
  <1>3. lastReleased \in Int
    BY LockstepConstants DEF TypeOK, Ticks, NoTick
  <1>4. inputLog \subseteq Packets /\ sent \subseteq Packets
    BY DEF TypeOK
  <1>5. QED
    BY <1>1, <1>2, <1>3, <1>4

LEMMA BufferReleasable ==
    ASSUME IInv, NEW t, t = lastReleased + 1
    PROVE  Releasable(buffer, t)
  <1>1. lastReleased \in Int
    BY HeldPackets DEF IInv
  <1>2. ASSUME NEW p \in Peers
        PROVE  buffer[p].lastSeq >= buffer[p].lastSeq
    BY HeldPackets DEF IInv
  <1>3. ASSUME NEW p \in Peers, NEW k \in buffer[p].packets
        PROVE  /\ k.peer = p
               /\ k.tick >= t
               /\ k.seq <= buffer[p].lastSeq
               /\ k \in sent
               /\ \A j \in inputLog : j.peer = p => j.seq < k.seq
    <2>1. k.tick \in Int
      BY HeldPackets, PacketNumbers DEF IInv
    <2>2. /\ k.peer = p /\ k \in sent
          /\ k.seq <= buffer[p].lastSeq /\ k.tick > lastReleased
      BY DEF IInv, BufferSound
    <2>3. \A j \in inputLog : j.peer = p => j.seq < k.seq
      BY DEF IInv, LogSound
    <2>4. QED
      BY <1>1, <2>1, <2>2, <2>3
  <1>4. \A p \in Peers : \A j, k \in buffer[p].packets : j.tick = k.tick => j = k
    BY DEF IInv, BufferSound
  <1>5. buffer \in [Peers -> PeerStates]
    BY DEF IInv, TypeOK
  <1>6. QED
    BY <1>2, <1>3, <1>4, <1>5 DEF Releasable

\* A synthetic packet is accepted only from a peer that never got through:
\* it takes the first sequence id.
LEMMA SyntheticIsFirst ==
    ASSUME IInv, NEW t \in Ticks, t = lastReleased + 1, NEW p \in Peers,
           Accepts(buffer[p], SyntheticPacket(p, t))
    PROVE  /\ SyntheticPacket(p, t) \in Packets
           /\ SyntheticPacket(p, t).peer = p
           /\ SyntheticPacket(p, t).tick = t
           /\ SyntheticPacket(p, t).seq = 1
           /\ buffer[p].lastSeq = 0
           /\ buffer[p].packets = {}
           /\ \A j \in inputLog : j.peer # p
  <1> DEFINE syn == SyntheticPacket(p, t)
  <1>1. t \in Int /\ lastReleased \in Int /\ t - 1 = lastReleased
    BY HeldPackets, LockstepConstants DEF IInv, Ticks
  <1>2. HeldFor(buffer[p], t - 1) = {}
    <2>1. \A k \in buffer[p].packets : k.tick \in Int /\ k.tick > lastReleased
      BY HeldPackets, PacketNumbers DEF IInv, BufferSound
    <2>2. QED
      BY <1>1, <2>1 DEF HeldFor
  <1>3. syn = [peer |-> p, tick |-> t, seq |-> 1, synthetic |-> TRUE]
    BY <1>2 DEF SyntheticPacket
  <1>4. 1 \in Sequences
    BY LockstepConstants DEF Sequences
  <1>5. syn \in Packets
    <2>1. [peer |-> p, tick |-> t, seq |-> 1, synthetic |-> TRUE] \in Packets
      BY <1>4 DEF Packets
    <2>2. QED
      BY <1>3, <2>1
  <1>6. buffer[p].lastSeq = 0
    <2>1. 1 > buffer[p].lastSeq
      BY <1>3 DEF Accepts
    <2>2. QED
      BY <2>1, HeldPackets DEF IInv
  <1>7. buffer[p].packets = {}
    <2>1. \A k \in buffer[p].packets : k.seq \in Int /\ k.seq >= 1 /\ k.seq <= 0
      BY <1>6, HeldPackets, PacketNumbers DEF IInv, BufferSound
    <2>2. QED
      BY <2>1
  <1>8. \A j \in inputLog : j.peer # p
    <2>1. \A j \in inputLog : j.peer = p => j.seq \in Int /\ j.seq >= 1 /\ j.seq <= 0
      BY <1>6, HeldPackets, PacketNumbers DEF IInv, LogSound
    <2>2. QED
      BY <2>1
  <1>9. QED
    BY <1>3, <1>5, <1>6, <1>7, <1>8

LEMMA SyntheticReleasable ==
    ASSUME IInv, NEW t \in Ticks, t = lastReleased + 1
    PROVE  Releasable(WithSynthetic(t), t)
  <1> DEFINE buf == WithSynthetic(t)
  <1>1. t \in Int /\ Releasable(buffer, t)
    BY BufferReleasable, LockstepConstants DEF Ticks
  <1>2. ASSUME NEW p \in Peers,
               p \in MissingForTick(t), Accepts(buffer[p], SyntheticPacket(p, t))
        PROVE  /\ buf[p] = Inserted(buffer[p], SyntheticPacket(p, t))
               /\ buf[p].packets = {SyntheticPacket(p, t)}
               /\ buf[p].lastSeq = 1
               /\ buf[p] \in PeerStates
    <2>1. buf[p] = Inserted(buffer[p], SyntheticPacket(p, t))
      BY <1>2 DEF WithSynthetic
    <2>2. PICK k : k = SyntheticPacket(p, t)
      OBVIOUS
    <2>3. k \in Packets /\ k.seq = 1 /\ k.tick = t /\ buffer[p].packets = {}
      BY <1>2, <2>2, SyntheticIsFirst
    <2>4. buffer[p].highest \in Ticks \cup {NoTick}
      BY HeldPackets DEF IInv, PeerStates
    <2>5. Inserted(buffer[p], k).packets = {k} /\ Inserted(buffer[p], k).lastSeq = 1
      BY <2>3 DEF Inserted
    <2>6. Inserted(buffer[p], k) \in PeerStates
      BY <2>3, <2>4 DEF Inserted, PeerStates
    <2>7. QED
      BY <2>1, <2>2, <2>5, <2>6
  <1>3. ASSUME NEW p \in Peers,
               ~(p \in MissingForTick(t) /\ Accepts(buffer[p], SyntheticPacket(p, t)))
        PROVE  buf[p] = buffer[p]
    BY <1>3 DEF WithSynthetic
  <1>4. buf \in [Peers -> PeerStates]
    <2>1. \A p \in Peers : buf[p] \in PeerStates
      BY <1>2, <1>3, HeldPackets DEF IInv
    <2>2. buf = [p \in Peers |-> buf[p]]
      BY DEF WithSynthetic
    <2>3. QED
      BY <2>1, <2>2
  <1>5. ASSUME NEW p \in Peers
        PROVE  /\ buf[p].lastSeq >= buffer[p].lastSeq
               /\ \A k \in buf[p].packets :
                      /\ k.peer = p
                      /\ k.tick >= t
                      /\ k.seq <= buf[p].lastSeq
                      /\ k \in sent \/ (buf[p].packets = {k} /\ k.tick = t)
                      /\ \A j \in inputLog : j.peer = p => j.seq < k.seq
               /\ \A j, k \in buf[p].packets : j.tick = k.tick => j = k
    <2>1. CASE p \in MissingForTick(t) /\ Accepts(buffer[p], SyntheticPacket(p, t))
      <3>1. PICK k : k = SyntheticPacket(p, t)
        OBVIOUS
      <3>2. /\ buf[p].packets = {k}
            /\ buf[p].lastSeq = 1
        BY <1>2, <2>1, <3>1
      <3>3. /\ k.peer = p /\ k.tick = t /\ k.seq = 1
            /\ buffer[p].lastSeq = 0
            /\ \A j \in inputLog : j.peer # p
        BY <2>1, <3>1, SyntheticIsFirst
      <3>4. QED
        BY <1>1, <3>2, <3>3
    <2>2. CASE ~(p \in MissingForTick(t) /\ Accepts(buffer[p], SyntheticPacket(p, t)))
      <3>1. buf[p] = buffer[p]
        BY <1>3, <2>2
      <3>2. QED
        BY <1>1, <3>1 DEF Releasable
    <2>3. QED
      BY <2>1, <2>2
  <1>6. QED
    BY <1>4, <1>5 DEF Releasable

-----------------------------------------------------------------------------
(* A tick whose input is released. *)

LEMMA ReleaseStep ==
    ASSUME IInv, simTick <= MaxTick,
           TargetTick \notin released \cup {NoTick},
           NEW buf, Releasable(buf, TargetTick),
           ReleaseAndSimulate(TargetTick, buf)
    PROVE  IInv'
  <1>1. PICK t : t = TargetTick
    OBVIOUS
  <1>2. /\ config.delay = 0
        /\ t = simTick
        /\ t = lastReleased + 1
        /\ t \in Ticks
    BY <1>1, TargetIsNext DEF IInv
  <1>3. Releasable(buf, t)
    BY <1>1
  <1>4. ReleaseAndSimulate(t, buf)
    BY <1>1
  <1>5. /\ buffer' = WithoutTick(buf, t)
        /\ inputLog' = inputLog \cup TakenForTick(buf, t)
        /\ released' = Pruned(released \cup {t})
        /\ lastReleased' = t
        /\ firstWait' = firstWait \ {t}
    BY <1>4 DEF ReleaseAndSimulate, ReleaseTick
  <1>6. UNCHANGED <<config, client, sent, network, attempts>>
    BY <1>4 DEF ReleaseAndSimulate, peers, transit
  <1>7. /\ t \in Int /\ t \in 0..MaxTick /\ t >= 0
        /\ lastReleased \in Int /\ lastReleased < t
    BY <1>2, HeldPackets, LockstepConstants DEF IInv, Ticks
  <1>8. ASSUME NEW p \in Peers
        PROVE  /\ buffer'[p] \in PeerStates
               /\ buffer'[p].packets = {k \in buf[p].packets : k.tick # t}
               /\ buffer'[p].lastSeq = buf[p].lastSeq
    <2>1. buf[p] \in PeerStates
      BY <1>3 DEF Releasable
    <2>2. buffer'[p] = [buf[p] EXCEPT !.packets = @ \ HeldFor(buf[p], t)]
      BY <1>5 DEF WithoutTick
    <2>3. buf[p].packets \ HeldFor(buf[p], t) = {k \in buf[p].packets : k.tick # t}
      BY DEF HeldFor
    <2>4. QED
      BY <2>1, <2>2, <2>3 DEF PeerStates
  <1>9. \A p \in Peers : \A k \in buf[p].packets : k \in Packets
    BY <1>3 DEF Releasable, PeerStates
  <1>10. \A k \in TakenForTick(buf, t) :
            k \in Packets /\ k.tick = t /\ k \in buf[k.peer].packets /\ k.peer \in Peers
    <2>1. SUFFICES ASSUME NEW p \in Peers, NEW k \in HeldFor(buf[p], t)
                   PROVE  k \in Packets /\ k.tick = t /\ k.peer = p
                          /\ k \in buf[p].packets
      BY DEF TakenForTick
    <2>2. QED
      BY <1>3, <1>9 DEF HeldFor, Releasable
  <1>11. released \subseteq Int /\ \A u \in released : u < t
    BY <1>7 DEF IInv, InStep
  <1>12. t \in released' /\ released' \subseteq released \cup {t}
    <2>1. \A u \in released : u <= t
      BY <1>7, <1>11
    <2>2. t \in Pruned(released \cup {t})
          /\ Pruned(released \cup {t}) \subseteq released \cup {t}
      BY <1>7, <1>11, <2>1, PrunedKeepsLatest
    <2>3. QED
      BY <1>5, <2>2
  <1>13. TypeOK'
    <2>1. buffer' \in [Peers -> PeerStates]
      <3>1. buffer' = [p \in Peers |-> buffer'[p]]
        BY <1>5 DEF WithoutTick
      <3>2. QED
        BY <1>8, <3>1
    <2>2. released' \subseteq Ticks /\ lastReleased' \in Ticks \cup {NoTick}
          /\ firstWait' \subseteq Ticks
      BY <1>2, <1>5, <1>12 DEF IInv, TypeOK
    <2>3. inputLog' \subseteq Packets
      BY <1>5, <1>10 DEF IInv, TypeOK
    <2>4. simTick' \in 0..MaxTick + 1 /\ failures' \in 0..MaxFailures
      <3>1. simTick \in Int /\ simTick >= 0 /\ simTick <= MaxTick /\ failures \in 0..MaxFailures
        BY LockstepConstants DEF IInv, TypeOK
      <3>2. \/ simTick' = simTick + 1 /\ failures' = failures
            \/ simTick' = simTick /\ failures < MaxFailures /\ failures' = failures + 1
        BY <1>4 DEF ReleaseAndSimulate, Simulate
      <3>3. QED
        BY <3>1, <3>2, LockstepConstants
    <2>5. rollbackInputs' \in [Ticks -> SUBSET Packets]
      <3>1. {k \in TakenForTick(buf, t) : k.tick = simTick} \subseteq Packets
        BY <1>10
      <3>2. \/ rollbackInputs' = rollbackInputs
            \/ rollbackInputs' = [rollbackInputs EXCEPT ![simTick] =
                   {k \in TakenForTick(buf, t) : k.tick = simTick}]
        BY <1>4 DEF ReleaseAndSimulate, Simulate
      <3>3. QED
        BY <3>1, <3>2 DEF IInv, TypeOK
    <2>6. waitAttempts' \in [Ticks -> 0..MaxWaits]
      <3>1. waitAttempts' = [waitAttempts EXCEPT ![t] = 0]
        BY <1>4 DEF ReleaseAndSimulate
      <3>2. waitAttempts \in [Ticks -> 0..MaxWaits] /\ 0 \in 0..MaxWaits
        BY LockstepConstants DEF IInv, TypeOK
      <3>3. QED
        BY <3>1, <3>2
    <2>7. QED
      BY <1>6, <2>1, <2>2, <2>3, <2>4, <2>5, <2>6 DEF IInv, TypeOK
  <1>14. PeersInOrder'
    BY <1>6 DEF IInv, PeersInOrder
  <1>15. BufferSound'
    <2>1. SUFFICES ASSUME NEW p \in Peers
                   PROVE  /\ \A k \in buffer'[p].packets :
                                 /\ k \in sent
                                 /\ k.peer = p
                                 /\ k.tick > t
                                 /\ k.seq <= buffer'[p].lastSeq
                          /\ \A j, k \in buffer'[p].packets : j.tick = k.tick => j = k
      BY <1>5, <1>6 DEF BufferSound
    <2>2. ASSUME NEW k \in buffer'[p].packets
          PROVE  /\ k \in sent
                 /\ k.peer = p
                 /\ k.tick > t
                 /\ k.seq <= buffer'[p].lastSeq
      <3>1. k \in buf[p].packets /\ k.tick # t /\ k.tick \in Int
        BY <1>8, <1>9, <2>2, PacketNumbers
      <3>2. k.tick >= t /\ k.peer = p /\ k.seq <= buf[p].lastSeq
            /\ (k \in sent \/ k.tick = t)
        BY <1>3, <3>1 DEF Releasable
      <3>3. QED
        BY <1>7, <1>8, <3>1, <3>2
    <2>3. \A j, k \in buffer'[p].packets : j.tick = k.tick => j = k
      BY <1>3, <1>8 DEF Releasable
    <2>4. QED
      BY <2>2, <2>3
  <1>16. LogSound'
    <2>1. SUFFICES ASSUME NEW j \in inputLog'
                   PROVE  /\ j.tick <= t
                          /\ j.seq <= buffer'[j.peer].lastSeq
                          /\ \A k \in buffer'[j.peer].packets : j.seq < k.seq
      BY <1>5 DEF LogSound
    <2>2. CASE j \in inputLog
      <3>1. j \in Packets /\ j.tick \in Int /\ j.seq \in Int /\ j.peer \in Peers
        BY <2>2, HeldPackets, PacketNumbers DEF IInv
      <3>2. j.tick <= lastReleased /\ j.seq <= buffer[j.peer].lastSeq
        BY <2>2 DEF IInv, LogSound
      <3>3. buf[j.peer].lastSeq >= buffer[j.peer].lastSeq
            /\ \A k \in buf[j.peer].packets : j.seq < k.seq
        BY <1>3, <2>2, <3>1 DEF Releasable
      <3>4. buf[j.peer].lastSeq \in Nat /\ buffer[j.peer].lastSeq \in Nat
        BY <1>3, <3>1, HeldPackets DEF IInv, Releasable, PeerStates
      <3>5. QED
        BY <1>7, <1>8, <3>1, <3>2, <3>3, <3>4
    <2>3. CASE j \in TakenForTick(buf, t)
      <3>1. j \in Packets /\ j.tick = t /\ j.peer \in Peers /\ j \in buf[j.peer].packets
        BY <1>10, <2>3
      <3>2. j.seq <= buf[j.peer].lastSeq
        BY <1>3, <3>1 DEF Releasable
      <3>3. ASSUME NEW k \in buffer'[j.peer].packets
            PROVE  j.seq < k.seq
        <4>1. k \in buf[j.peer].packets /\ k.tick # t
          BY <1>8, <3>1
        <4>2. k # j /\ k.peer = j.peer /\ k.tick >= t
          BY <1>3, <3>1, <4>1 DEF Releasable
        <4>3. j \in sent /\ k \in sent
          BY <1>3, <3>1, <4>1, <4>2 DEF Releasable
        <4>4. /\ j.tick \in Int /\ j.seq \in Int /\ k.tick \in Int /\ k.seq \in Int
          BY <4>3, HeldPackets, PacketNumbers DEF IInv
        <4>5. /\ k.seq < j.seq => k.tick <= j.tick
              /\ j.seq = k.seq => j = k
          BY <4>2, <4>3 DEF IInv, PeersInOrder
        <4>6. QED
          BY <3>1, <4>1, <4>2, <4>4, <4>5
      <3>4. QED
        BY <1>7, <1>8, <3>1, <3>2, <3>3
    <2>4. QED
      BY <1>5, <2>2, <2>3
  <1>17. InStep'
    <2>1. \/ simTick' = simTick + 1
          \/ simTick' = simTick
      BY <1>4 DEF ReleaseAndSimulate, Simulate
    <2>2. firstWait' = {}
      BY <1>2, <1>5 DEF IInv, InStep
    <2>3. released' \subseteq 0..t
      BY <1>7, <1>11, <1>12 DEF IInv, InStep
    <2>4. lastReleased' \in {simTick' - 1, simTick'}
      BY <1>2, <1>5, <1>7, <2>1
    <2>5. QED
      BY <1>2, <1>5, <1>6, <1>12, <2>2, <2>3, <2>4 DEF InStep
  <1>18. FramesInSequence'
    <2>1. ASSUME NEW j \in inputLog, NEW k \in TakenForTick(buf, t), j.peer = k.peer
          PROVE  j.tick < k.tick /\ j.seq < k.seq
      <3>1. k.tick = t /\ k.peer \in Peers /\ k \in buf[k.peer].packets
        BY <1>10
      <3>2. j.tick <= lastReleased /\ j.tick \in Int
        BY HeldPackets, PacketNumbers DEF IInv, LogSound
      <3>3. j.seq < k.seq
        BY <1>3, <2>1, <3>1 DEF Releasable
      <3>4. QED
        BY <1>7, <3>1, <3>2, <3>3
    <2>2. ASSUME NEW j \in TakenForTick(buf, t), NEW k \in TakenForTick(buf, t),
                 j.peer = k.peer
          PROVE  j = k
      <3>1. /\ j.tick = t /\ j \in buf[j.peer].packets /\ j.peer \in Peers
            /\ k.tick = t /\ k \in buf[j.peer].packets
        BY <1>10, <2>2
      <3>2. QED
        BY <1>3, <3>1 DEF Releasable
    <2>3. QED
      BY <1>5, <2>1, <2>2 DEF IInv, FramesInSequence
  <1>19. QED
    BY <1>13, <1>14, <1>15, <1>16, <1>17, <1>18 DEF IInv

-----------------------------------------------------------------------------
(* The other steps. *)

LEMMA SendStep ==
    ASSUME IInv, NEW p \in Peers, SendNext(p) \/ SendAgain(p)
    PROVE  IInv'
  <1>1. PICK t \in {client[p].tick, client[p].tick + 1} :
            /\ SendInput(p, t)
            /\ t \in Ticks
            /\ client[p].seq + 1 <= t + 1 + MaxRepeats
            /\ client[p].tick <= t
            /\ client[p].tick \in Int /\ client[p].seq \in Nat
            /\ client[p].seq + 1 \in Sequences
    <2>1. /\ client[p].tick \in Ticks \cup {NoTick}
          /\ client[p].seq \in 0..MaxTick + 1 + MaxRepeats
          /\ client[p].seq <= client[p].tick + 1 + MaxRepeats
      BY DEF IInv, TypeOK, PeersInOrder
    <2>2. CASE SendNext(p)
      <3>1. client[p].tick < MaxTick /\ SendInput(p, client[p].tick + 1)
        BY <2>2 DEF SendNext
      <3>2. client[p].tick + 1 \in Ticks
        BY <2>1, <3>1, LockstepConstants DEF Ticks, NoTick
      <3>3. QED
        BY <2>1, <3>1, <3>2, LockstepConstants DEF Ticks, NoTick, Sequences
    <2>3. CASE SendAgain(p)
      <3>1. /\ client[p].tick # NoTick /\ SendInput(p, client[p].tick)
            /\ client[p].seq - client[p].tick <= MaxRepeats
        BY <2>3 DEF SendAgain
      <3>2. QED
        BY <2>1, <3>1, LockstepConstants DEF Ticks, NoTick, Sequences
    <2>4. QED
      BY <2>2, <2>3
  <1>2. PICK k : k = [peer |-> p, tick |-> t, seq |-> client[p].seq + 1,
                      synthetic |-> FALSE]
    OBVIOUS
  <1>3. /\ k \in Packets /\ k.peer = p /\ k.tick = t
        /\ k.seq = client[p].seq + 1 /\ ~k.synthetic
    BY <1>1, <1>2 DEF Packets
  <1>4. /\ client' = [client EXCEPT ![p] = [seq |-> k.seq, tick |-> t]]
        /\ sent' = sent \cup {k}
        /\ network' = network \cup {k}
        /\ \/ attempts' = attempts
           \/ attempts' = [attempts EXCEPT ![p][k.seq] = 1]
        /\ UNCHANGED <<config, buffer, synchroniser, runtime>>
    BY <1>1, <1>2, <1>3 DEF SendInput
  <1>5. UNCHANGED <<config, buffer, released, lastReleased, firstWait, inputLog,
                    simTick, waitAttempts, rollbackInputs, failures>>
    BY <1>4 DEF synchroniser, runtime
  <1>6. client \in [Peers -> [seq : 0..MaxTick + 1 + MaxRepeats,
                              tick : Ticks \cup {NoTick}]]
    BY DEF IInv, TypeOK
  <1>7. /\ client'[p].seq = k.seq /\ client'[p].tick = t
        /\ \A q \in Peers : q # p => client'[q] = client[q]
    BY <1>4, <1>6
  <1>8. TypeOK'
    <2>1. k.seq \in 0..MaxTick + 1 + MaxRepeats
      BY <1>1, <1>3, LockstepConstants DEF Sequences
    <2>2. client' \in [Peers -> [seq : 0..MaxTick + 1 + MaxRepeats,
                                 tick : Ticks \cup {NoTick}]]
      BY <1>1, <1>4, <1>6, <2>1
    <2>3. attempts' \in [Peers -> [Sequences -> 0..MaxAttempts]]
      <3>1. attempts \in [Peers -> [Sequences -> 0..MaxAttempts]]
        BY DEF IInv, TypeOK
      <3>2. 1 \in 0..MaxAttempts /\ k.seq \in Sequences
        BY <1>1, <1>3, LockstepConstants
      <3>3. QED
        BY <1>4, <3>1, <3>2
    <2>4. sent' \subseteq Packets /\ network' \subseteq sent'
      BY <1>3, <1>4 DEF IInv, TypeOK
    <2>5. QED
      BY <1>5, <2>2, <2>3, <2>4 DEF IInv, TypeOK
  <1>9. PeersInOrder'
    <2>1. \A q \in Peers : client'[q].seq <= client'[q].tick + 1 + MaxRepeats
      BY <1>1, <1>3, <1>7 DEF IInv, PeersInOrder
    <2>2. ASSUME NEW j \in sent
          PROVE  /\ j.peer \in Peers /\ j.seq \in Int /\ j.tick \in Int
                 /\ ~j.synthetic
                 /\ j.seq <= client[j.peer].seq
                 /\ j.tick <= client[j.peer].tick
                 /\ j.peer = p => j.seq < k.seq /\ j.tick <= t
      <3>1. j.peer \in Peers /\ j.seq \in Int /\ j.tick \in Int
        BY HeldPackets, PacketNumbers DEF IInv
      <3>2. /\ ~j.synthetic
            /\ j.seq <= client[j.peer].seq
            /\ j.tick <= client[j.peer].tick
        BY DEF IInv, PeersInOrder
      <3>3. j.peer = p => j.seq < k.seq /\ j.tick <= t
        BY <1>1, <1>3, <3>1, <3>2, LockstepConstants DEF Ticks
      <3>4. QED
        BY <3>1, <3>2, <3>3
    <2>3. t \in Int /\ k.seq \in Int
      BY <1>1, <1>3, LockstepConstants DEF Ticks
    <2>4. ASSUME NEW j \in sent'
          PROVE  /\ ~j.synthetic
                 /\ j.seq <= client'[j.peer].seq
                 /\ j.tick <= client'[j.peer].tick
      <3>1. CASE j = k
        BY <1>3, <1>7, <2>3, <3>1
      <3>2. CASE j \in sent
        BY <1>7, <2>2, <2>3, <3>2
      <3>3. QED
        BY <1>4, <3>1, <3>2
    <2>5. ASSUME NEW i \in sent', NEW j \in sent', i.peer = j.peer
          PROVE  /\ i.seq < j.seq => i.tick <= j.tick
                 /\ i.seq = j.seq => i = j
      <3>1. CASE i \in sent /\ j \in sent
        BY <2>5, <3>1 DEF IInv, PeersInOrder
      <3>2. CASE i \in sent /\ j = k
        BY <1>3, <2>2, <2>3, <2>5, <3>2
      <3>3. CASE i = k /\ j \in sent
        BY <1>3, <2>2, <2>3, <2>5, <3>3
      <3>4. CASE i = k /\ j = k
        BY <1>3, <2>3, <3>4
      <3>5. QED
        BY <1>4, <3>1, <3>2, <3>3, <3>4
    <2>6. QED
      BY <2>1, <2>4, <2>5 DEF PeersInOrder
  <1>10. BufferSound' /\ LogSound' /\ InStep' /\ FramesInSequence'
    BY <1>4, <1>5 DEF IInv, BufferSound, LogSound, InStep, FramesInSequence
  <1>11. QED
    BY <1>8, <1>9, <1>10 DEF IInv

\* A step that only moves packets about in the network.
LEMMA TransitStep ==
    ASSUME IInv, NEW k \in sent,
           Retransmit(k) \/ GiveUp(k) \/ Lose(k) \/ DeliverRefused(k)
    PROVE  IInv'
  <1>1. k \in Packets /\ k.peer \in Peers /\ k.seq \in Sequences
    BY HeldPackets, PacketNumbers DEF IInv
  <1>2. /\ network' \subseteq network \cup {k}
        /\ \/ attempts' = attempts
           \/ attempts' = [attempts EXCEPT ![k.peer][k.seq] = 0]
           \/ /\ attempts[k.peer][k.seq] \in 1..MaxAttempts - 1
              /\ attempts' = [attempts EXCEPT ![k.peer][k.seq] = @ + 1]
        /\ UNCHANGED <<config, peers, buffer, synchroniser, runtime>>
    BY DEF Retransmit, GiveUp, Lose, DeliverRefused, Received
  <1>3. UNCHANGED <<config, client, sent, buffer, released, lastReleased, firstWait,
                    inputLog, simTick, waitAttempts, rollbackInputs, failures>>
    BY <1>2 DEF peers, synchroniser, runtime
  <1>4. attempts' \in [Peers -> [Sequences -> 0..MaxAttempts]]
    <2>1. attempts \in [Peers -> [Sequences -> 0..MaxAttempts]]
      BY DEF IInv, TypeOK
    <2>2. 0 \in 0..MaxAttempts
      BY LockstepConstants
    <2>3. CASE attempts[k.peer][k.seq] \in 1..MaxAttempts - 1
      <3>1. attempts[k.peer][k.seq] + 1 \in 0..MaxAttempts
        BY <2>3, LockstepConstants
      <3>2. QED
        BY <1>1, <1>2, <2>1, <2>2, <3>1
    <2>4. CASE attempts[k.peer][k.seq] \notin 1..MaxAttempts - 1
      BY <1>1, <1>2, <2>1, <2>2, <2>4
    <2>5. QED
      BY <2>3, <2>4
  <1>5. TypeOK'
    BY <1>2, <1>3, <1>4 DEF IInv, TypeOK
  <1>6. PeersInOrder' /\ BufferSound' /\ LogSound' /\ InStep' /\ FramesInSequence'
    BY <1>3 DEF IInv, PeersInOrder, BufferSound, LogSound, InStep, FramesInSequence
  <1>7. QED
    BY <1>5, <1>6 DEF IInv

LEMMA AcceptStep ==
    ASSUME IInv, NEW k \in sent, DeliverAccepted(k)
    PROVE  IInv'
  <1> DEFINE q == k.peer
  <1>1. k \in Packets /\ q \in Peers /\ k.seq \in Sequences
        /\ k.seq \in Int /\ k.seq >= 1 /\ k.tick \in Int /\ k.tick \in Ticks
    BY HeldPackets, PacketNumbers DEF IInv
  <1>2. /\ network' \subseteq network
        /\ \/ attempts' = attempts
           \/ attempts' = [attempts EXCEPT ![k.peer][k.seq] = 0]
        /\ buffer' = [buffer EXCEPT ![q] = Inserted(@, k)]
        /\ UNCHANGED <<config, client, sent, released, lastReleased, firstWait,
                       inputLog, simTick, waitAttempts, rollbackInputs, failures>>
    BY DEF DeliverAccepted, Received, peers, synchroniser, runtime
  <1>3. ~(k.tick <= lastReleased) /\ HeldFor(buffer[q], k.tick) = {}
        /\ k.seq > buffer[q].lastSeq
    BY DEF DeliverAccepted, Late, Accepts
  <1>4. lastReleased \in Int /\ k.tick > lastReleased
    BY <1>1, <1>3, HeldPackets DEF IInv
  <1>5. /\ buffer[q] \in PeerStates /\ buffer[q].lastSeq \in Nat
        /\ \A h \in buffer[q].packets : h.seq \in Int /\ h.seq <= buffer[q].lastSeq
    BY <1>1, HeldPackets, PacketNumbers DEF IInv, BufferSound
  <1>6. /\ Inserted(buffer[q], k) \in PeerStates
        /\ Inserted(buffer[q], k).packets = buffer[q].packets \cup {k}
        /\ Inserted(buffer[q], k).lastSeq = k.seq
    BY <1>1, <1>5 DEF Inserted, PeerStates
  <1>7. /\ buffer' \in [Peers -> PeerStates]
        /\ buffer'[q] = Inserted(buffer[q], k)
        /\ \A p \in Peers : p # q => buffer'[p] = buffer[p]
    <2>1. buffer \in [Peers -> PeerStates]
      BY DEF IInv, TypeOK
    <2>2. QED
      BY <1>1, <1>2, <1>6, <2>1
  <1>8. TypeOK'
    <2>1. attempts' \in [Peers -> [Sequences -> 0..MaxAttempts]]
      <3>1. attempts \in [Peers -> [Sequences -> 0..MaxAttempts]]
        BY DEF IInv, TypeOK
      <3>2. 0 \in 0..MaxAttempts
        BY LockstepConstants
      <3>3. QED
        BY <1>1, <1>2, <3>1, <3>2
    <2>2. QED
      BY <1>2, <1>7, <2>1 DEF IInv, TypeOK
  <1>9. PeersInOrder' /\ InStep' /\ FramesInSequence'
    BY <1>2 DEF IInv, PeersInOrder, InStep, FramesInSequence
  <1>10. BufferSound'
    <2>1. SUFFICES ASSUME NEW p \in Peers
                   PROVE  /\ \A h \in buffer'[p].packets :
                                 /\ h \in sent
                                 /\ h.peer = p
                                 /\ h.tick > lastReleased
                                 /\ h.seq <= buffer'[p].lastSeq
                          /\ \A j, h \in buffer'[p].packets : j.tick = h.tick => j = h
      BY <1>2 DEF BufferSound
    <2>2. CASE p # q
      BY <1>7, <2>2 DEF IInv, BufferSound
    <2>3. CASE p = q
      <3>1. ASSUME NEW h \in buffer'[q].packets
            PROVE  h \in sent /\ h.peer = q /\ h.tick > lastReleased
                   /\ h.seq <= buffer'[q].lastSeq
        <4>1. CASE h = k
          BY <1>1, <1>4, <1>6, <1>7, <4>1
        <4>2. CASE h \in buffer[q].packets
          <5>1. h \in sent /\ h.peer = q /\ h.tick > lastReleased
            BY <1>1, <4>2 DEF IInv, BufferSound
          <5>2. h.seq <= k.seq
            BY <1>1, <1>3, <1>5, <4>2
          <5>3. QED
            BY <1>6, <1>7, <5>1, <5>2
        <4>3. QED
          BY <1>6, <1>7, <3>1, <4>1, <4>2
      <3>2. ASSUME NEW j \in buffer'[q].packets, NEW h \in buffer'[q].packets,
                   j.tick = h.tick
            PROVE  j = h
        <4>1. \A i \in buffer[q].packets : i.tick # k.tick
          BY <1>3 DEF HeldFor
        <4>2. \A i, l \in buffer[q].packets : i.tick = l.tick => i = l
          BY <1>1 DEF IInv, BufferSound
        <4>3. QED
          BY <1>6, <1>7, <3>2, <4>1, <4>2
      <3>3. QED
        BY <2>3, <3>1, <3>2
    <2>4. QED
      BY <2>2, <2>3
  <1>11. LogSound'
    <2>1. SUFFICES ASSUME NEW j \in inputLog
                   PROVE  /\ j.tick <= lastReleased
                          /\ j.seq <= buffer'[j.peer].lastSeq
                          /\ \A h \in buffer'[j.peer].packets : j.seq < h.seq
      BY <1>2 DEF LogSound
    <2>2. /\ j.tick <= lastReleased
          /\ j.seq <= buffer[j.peer].lastSeq
          /\ \A h \in buffer[j.peer].packets : j.seq < h.seq
      BY DEF IInv, LogSound
    <2>3. j.seq \in Int /\ j.peer \in Peers
      BY HeldPackets, PacketNumbers DEF IInv
    <2>4. CASE j.peer # q
      BY <1>7, <2>2, <2>3, <2>4
    <2>5. CASE j.peer = q
      <3>1. j.seq < k.seq
        BY <1>1, <1>3, <1>5, <2>2, <2>3, <2>5
      <3>2. QED
        BY <1>1, <1>6, <1>7, <2>2, <2>3, <2>5, <3>1
    <2>6. QED
      BY <2>4, <2>5
  <1>12. QED
    BY <1>8, <1>9, <1>10, <1>11 DEF IInv

\* A tick that waits leaves the packets where they are.
LEMMA WaitStep ==
    ASSUME IInv, TickWithoutTarget \/ TickWait
    PROVE  IInv'
  <1>1. UNCHANGED <<config, client, sent, network, attempts, buffer, released,
                    lastReleased, inputLog, simTick, rollbackInputs, failures>>
    BY DEF TickWithoutTarget, TickWait, peers, transit, synchroniser
  <1>2. 0 \in Ticks
    BY LockstepConstants DEF Ticks
  <1>3. ASSUME NEW t \in Ticks, RecordWait(t)
        PROVE  waitAttempts' \in [Ticks -> 0..MaxWaits]
    <2>1. waitAttempts \in [Ticks -> 0..MaxWaits]
      BY DEF IInv, TypeOK
    <2>2. PICK n : n = IF waitAttempts[t] < MaxWaits THEN waitAttempts[t] + 1
                       ELSE waitAttempts[t]
      OBVIOUS
    <2>3. n \in 0..MaxWaits
      <3>1. waitAttempts[t] \in 0..MaxWaits
        BY <2>1
      <3>2. QED
        BY <2>2, <3>1, LockstepConstants
    <2>4. waitAttempts' = [waitAttempts EXCEPT ![t] = n]
      BY <1>3, <2>2 DEF RecordWait
    <2>5. QED
      BY <2>1, <2>3, <2>4
  <1>4. CASE TickWithoutTarget
    <2>1. firstWait' = firstWait /\ RecordWait(0)
      BY <1>4 DEF TickWithoutTarget, synchroniser
    <2>2. TypeOK'
      BY <1>1, <1>2, <1>3, <2>1 DEF IInv, TypeOK
    <2>3. QED
      BY <1>1, <2>1, <2>2
         DEF IInv, PeersInOrder, BufferSound, LogSound, InStep, FramesInSequence
  <1>5. CASE TickWait
    <2>1. /\ simTick <= MaxTick
          /\ TargetTick \notin released \cup {NoTick}
          /\ firstWait' = firstWait \cup {TargetTick}
          /\ RecordWait(TargetTick)
      BY <1>5 DEF TickWait
    <2>2. PICK t : t = TargetTick
      OBVIOUS
    <2>3. config.delay = 0 /\ t = simTick /\ t = lastReleased + 1 /\ t \in Ticks
      BY <2>1, <2>2, TargetIsNext DEF IInv
    <2>4. firstWait' = firstWait \cup {t} /\ RecordWait(t)
      BY <2>1, <2>2
    <2>5. TypeOK'
      <3>1. firstWait' \subseteq Ticks
        BY <2>3, <2>4 DEF IInv, TypeOK
      <3>2. waitAttempts' \in [Ticks -> 0..MaxWaits]
        BY <1>3, <2>3, <2>4
      <3>3. QED
        BY <1>1, <3>1, <3>2 DEF IInv, TypeOK
    <2>6. InStep'
      <3>1. lastReleased # simTick
        BY <2>3, HeldPackets DEF IInv
      <3>2. QED
        BY <1>1, <2>3, <2>4, <3>1 DEF IInv, InStep
    <2>7. PeersInOrder' /\ BufferSound' /\ LogSound' /\ FramesInSequence'
      BY <1>1 DEF IInv, PeersInOrder, BufferSound, LogSound, FramesInSequence
    <2>8. QED
      BY <2>5, <2>6, <2>7 DEF IInv
  <1>6. QED
    BY <1>4, <1>5

\* The tick that may be tried again is the current one, released last.
LEMMA RetryIsOfLastRelease ==
    ASSUME TypeOK, InStep, TargetTick \in released
    PROVE  config.delay = 0 /\ lastReleased = simTick
  <1>1. simTick \in Nat /\ lastReleased \in Int
    BY LockstepConstants DEF TypeOK, Ticks, NoTick
  <1>2. released \subseteq 0..lastReleased
    BY DEF InStep
  <1>3. lastReleased # NoTick
    BY <1>2 DEF NoTick
  <1>4. config.delay = 0 /\ firstWait \subseteq {simTick}
    BY <1>3 DEF InStep
  <1>5. DelayedTick = simTick
    BY <1>1, <1>4 DEF DelayedTick
  <1>6. TargetTick = simTick
    BY <1>4, <1>5, OldestOfOne DEF TargetTick
  <1>7. simTick <= lastReleased
    BY <1>1, <1>2, <1>6
  <1>8. QED
    BY <1>1, <1>4, <1>7 DEF InStep

\* A tick that failed after its release is tried again without input.
LEMMA RetryStep ==
    ASSUME IInv, TickAlreadyReleased
    PROVE  IInv'
  <1>1. UNCHANGED <<config, client, sent, network, attempts, buffer, released,
                    lastReleased, firstWait, inputLog, waitAttempts>>
    BY DEF TickAlreadyReleased, peers, transit, synchroniser
  <1>2. simTick \in Int /\ simTick >= 0 /\ simTick <= MaxTick /\ lastReleased \in Int
    BY HeldPackets, LockstepConstants DEF IInv, TypeOK, TickAlreadyReleased
  <1>3. \/ simTick' = simTick + 1 /\ failures' = failures
        \/ simTick' = simTick /\ failures < MaxFailures /\ failures' = failures + 1
    BY DEF TickAlreadyReleased, Simulate
  <1>4. rollbackInputs' = rollbackInputs
    BY DEF TickAlreadyReleased, Simulate
  <1>5. TargetTick \in released
    BY DEF TickAlreadyReleased
  <1>6. TypeOK'
    <2>1. simTick' \in 0..MaxTick + 1 /\ failures' \in 0..MaxFailures
      BY <1>2, <1>3, LockstepConstants DEF IInv, TypeOK
    <2>2. QED
      BY <1>1, <1>4, <2>1 DEF IInv, TypeOK
  <1>7. config.delay = 0 /\ lastReleased = simTick
    BY <1>5, RetryIsOfLastRelease DEF IInv
  <1>8. InStep'
    <2>1. firstWait = {}
      BY <1>7 DEF IInv, InStep
    <2>2. lastReleased \in {simTick' - 1, simTick'}
      BY <1>2, <1>3, <1>7
    <2>3. QED
      BY <1>1, <1>7, <2>1, <2>2 DEF IInv, InStep
  <1>9. PeersInOrder' /\ BufferSound' /\ LogSound' /\ FramesInSequence'
    BY <1>1 DEF IInv, PeersInOrder, BufferSound, LogSound, FramesInSequence
  <1>10. QED
    BY <1>6, <1>8, <1>9 DEF IInv

-----------------------------------------------------------------------------
(* The invariant and what follows from it. *)

LEMMA InitEstablishes == Init => IInv
  <1> SUFFICES ASSUME Init PROVE IInv
    OBVIOUS
  <1>1. TypeOK
    <2>1. EmptyPeerState \in PeerStates
      BY DEF EmptyPeerState, PeerStates
    <2>2. 0 \in 0..MaxTick + 1 + MaxRepeats /\ 0 \in 0..MaxAttempts
          /\ 0 \in 0..MaxTick + 1 /\ 0 \in 0..MaxWaits /\ 0 \in 0..MaxFailures
      BY LockstepConstants
    <2>3. QED
      BY <2>1, <2>2 DEF Init, TypeOK
  <1>2. PeersInOrder /\ BufferSound /\ LogSound /\ FramesInSequence
    <2>1. \A p \in Peers : client[p].seq = 0 /\ client[p].tick = -1
                           /\ buffer[p].packets = {}
      BY DEF Init, NoTick, EmptyPeerState
    <2>2. sent = {} /\ inputLog = {}
      BY DEF Init
    <2>3. QED
      BY <2>1, <2>2, LockstepConstants
         DEF PeersInOrder, BufferSound, LogSound, FramesInSequence
  <1>3. InStep
    BY DEF Init, InStep, NoTick
  <1>4. QED
    BY <1>1, <1>2, <1>3 DEF IInv

LEMMA NextPreserves == IInv /\ [Next]_vars => IInv'
  <1> SUFFICES ASSUME IInv, [Next]_vars PROVE IInv'
    OBVIOUS
  <1>1. ASSUME NEW p \in Peers, SendNext(p) \/ SendAgain(p) PROVE IInv'
    BY <1>1, SendStep
  <1>2. ASSUME NEW k \in sent,
               Retransmit(k) \/ GiveUp(k) \/ Lose(k) \/ DeliverRefused(k)
        PROVE  IInv'
    BY <1>2, TransitStep
  <1>3. ASSUME NEW k \in sent, DeliverAccepted(k) PROVE IInv'
    BY <1>3, AcceptStep
  <1>4. CASE TickWithoutTarget \/ TickWait
    BY <1>4, WaitStep
  <1>5. CASE TickAlreadyReleased
    BY <1>5, RetryStep
  <1>6. CASE TickRelease
    <2>1. /\ simTick <= MaxTick /\ TargetTick \notin released \cup {NoTick}
          /\ ReleaseAndSimulate(TargetTick, buffer)
      BY <1>6 DEF TickRelease
    <2>2. TargetTick = lastReleased + 1
      BY <2>1, TargetIsNext DEF IInv
    <2>3. Releasable(buffer, TargetTick)
      BY <2>2, BufferReleasable
    <2>4. QED
      BY <2>1, <2>3, ReleaseStep
  <1>7. CASE TickReleaseSynthetic
    <2>1. /\ simTick <= MaxTick /\ TargetTick \notin released \cup {NoTick}
          /\ ReleaseAndSimulate(TargetTick, WithSynthetic(TargetTick))
      BY <1>7 DEF TickReleaseSynthetic
    <2>2. TargetTick = lastReleased + 1 /\ TargetTick \in Ticks
      BY <2>1, TargetIsNext DEF IInv
    <2>3. Releasable(WithSynthetic(TargetTick), TargetTick)
      BY <2>2, SyntheticReleasable
    <2>4. QED
      BY <2>1, <2>3, ReleaseStep
  <1>8. CASE UNCHANGED vars
    <2>1. UNCHANGED <<config, client, sent, network, attempts, buffer, released,
                      lastReleased, firstWait, inputLog, simTick, waitAttempts,
                      rollbackInputs, failures>>
      BY <1>8 DEF vars, peers, transit, synchroniser, runtime
    <2>2. QED
      BY <2>1 DEF IInv, TypeOK, PeersInOrder, BufferSound, LogSound, InStep,
                  FramesInSequence
  <1>9. QED
    BY <1>1, <1>2, <1>3, <1>4, <1>5, <1>6, <1>7, <1>8
       DEF Next, Transit, Deliver, Tick

\* IInv holds in every reachable state of the lockstep model.
THEOREM LockstepInductive == Spec => []IInv
  <1>1. QED
    BY InitEstablishes, NextPreserves, PTL DEF Spec

\* Every variable of the lockstep model stays within its type.
THEOREM LockstepTypeCorrect == Spec => []TypeOK
  <1>1. IInv => TypeOK
    BY DEF IInv
  <1>2. QED
    BY <1>1, LockstepInductive, PTL

\* No packet of a tick that is over is left in the input buffer.
THEOREM BufferStaysLive == Spec => []NoDeadPackets
  <1>1. IInv => NoDeadPackets
    BY DEF IInv, BufferSound, NoDeadPackets
  <1>2. QED
    BY <1>1, LockstepInductive, PTL

\* The simulation consumes every peer's packets in the order of their
\* sequence ids, at most one for each tick, synthetic ones included.
THEOREM InputConsumedInSequence == Spec => []FramesInSequence
  <1>1. IInv => FramesInSequence
    BY DEF IInv
  <1>2. QED
    BY <1>1, LockstepInductive, PTL

\* The runtime and its synchroniser are never more than one tick apart, and
\* the last release is on record for as long as its tick may be tried again.
THEOREM RuntimeInStep == Spec => []OneReleasePerTick
  <1>1. IInv => OneReleasePerTick
    BY DEF IInv, InStep, OneReleasePerTick
  <1>2. QED
    BY <1>1, LockstepInductive, PTL

\* A runtime with an input delay never simulates its first tick: tick 0 has no
\* target tick, the runtime waits for one, and only a simulated tick would make
\* one.  No packet, release or timeout changes that.
THEOREM DelayedRuntimeNeverStarts ==
    Spec => [](config.delay # 0 => simTick = 0 /\ inputLog = {})
  <1>1. IInv => (config.delay # 0 => simTick = 0 /\ inputLog = {})
    <2> SUFFICES ASSUME IInv, config.delay # 0, NEW j \in inputLog PROVE FALSE
      BY DEF IInv, InStep
    <2>1. j.tick <= NoTick
      BY DEF IInv, InStep, LogSound
    <2>2. j.tick \in 0..MaxTick
      BY DEF IInv, TypeOK, Packets, Ticks
    <2> QED
      BY <2>1, <2>2, LockstepConstants DEF NoTick
  <1>2. QED
    BY <1>1, LockstepInductive, PTL

-----------------------------------------------------------------------------
(***************************************************************************)
(* LockstepInput implements TickBarrier, as long as synthetic release is   *)
(* switched off (Limits holds no limit).                                   *)
(*                                                                         *)
(* A packet that is sent is a Submit, a tick whose input is released is a  *)
(* Release, and everything else (transport, drain, waiting, a failed tick  *)
(* tried again) stutters.  That a Release's frame is complete, that it is  *)
(* the first frame of its tick and that no other frame changes with it     *)
(* come from the invariant above.                                          *)
(***************************************************************************)

\* No runtime was configured to release with synthetic packets.
NoSyntheticRelease == config.limit = NoLimit

RInv == IInv /\ NoSyntheticRelease

LEMMA InitRefines ==
    ASSUME Limits \subseteq {NoLimit}, Init
    PROVE  RInv /\ Barrier!Init
  <1>1. IInv
    BY InitEstablishes
  <1>2. NoSyntheticRelease
    BY DEF Init, NoSyntheticRelease
  <1>3. sent = {} /\ inputLog = {} /\ lastReleased + 1 = 0
    BY DEF Init, NoTick
  <1>4. [t \in Ticks |-> Frame(t)] = [t \in 0..MaxTick |-> {}]
    BY <1>3 DEF Ticks, Frame
  <1>5. QED
    BY <1>1, <1>2, <1>3, <1>4 DEF RInv, Barrier!Init

LEMMA ConfigKept == [Next]_vars => config' = config
  BY DEF Next, Transit, Tick, SendNext, SendAgain, SendInput, Retransmit, GiveUp,
         Lose, Deliver, DeliverAccepted, DeliverRefused, TickWithoutTarget,
         TickAlreadyReleased, TickRelease, TickReleaseSynthetic,
         ReleaseAndSimulate, TickWait, vars

LEMMA RInvPreserved == RInv /\ [Next]_vars => RInv'
  <1> SUFFICES ASSUME RInv, [Next]_vars PROVE RInv'
    OBVIOUS
  <1>1. IInv'
    BY NextPreserves DEF RInv
  <1>2. config' = config
    BY ConfigKept
  <1>3. QED
    BY <1>1, <1>2 DEF RInv, NoSyntheticRelease

\* Whatever leaves the log, the last release and the packets sent alone.
LEMMA StutterRefines ==
    ASSUME UNCHANGED <<sent, inputLog, lastReleased>>
    PROVE  UNCHANGED Barrier!vars
  BY DEF Barrier!vars, Frame

\* The packet a peer sends is one more packet submitted for its tick.
LEMMA SendRefines ==
    ASSUME RInv, NEW p \in Peers, SendNext(p) \/ SendAgain(p)
    PROVE  Barrier!Submit
  <1>1. PICK t : SendInput(p, t)
    BY DEF SendNext, SendAgain
  <1>2. PICK k : k = [peer |-> p, tick |-> t, seq |-> client[p].seq + 1,
                      synthetic |-> FALSE]
    OBVIOUS
  <1>3. sent' = sent \cup {k} /\ UNCHANGED <<inputLog, lastReleased>>
    BY <1>1, <1>2 DEF SendInput, synchroniser
  <1>4. k \in Packets
    <2>1. sent' \subseteq Packets
      BY SendStep DEF RInv, IInv, TypeOK
    <2>2. QED
      BY <1>3, <2>1
  <1>5. QED
    BY <1>3, <1>4 DEF Barrier!Submit, Frame

\* The packets that are held for a tick which nobody is missing from: one of
\* each peer, sent by that peer for that tick.
LEMMA HeldIsComplete ==
    ASSUME RInv, NEW t \in Ticks, t = lastReleased + 1, MissingForTick(t) = {}
    PROVE  TakenForTick(buffer, t) \in Barrier!CompleteFrames
  <1> DEFINE chosen == [p \in Peers |-> CHOOSE k \in HeldFor(buffer[p], t) : TRUE]
             packetsOf == {k \in sent : k.tick = lastReleased + 1}
  <1>1. ASSUME NEW p \in Peers
        PROVE  HeldFor(buffer[p], t) = {chosen[p]}
    <2>1. chosen[p] \in HeldFor(buffer[p], t)
      BY DEF MissingForTick
    <2>2. \A j, k \in HeldFor(buffer[p], t) : j = k
      BY DEF HeldFor, RInv, IInv, BufferSound
    <2>3. QED
      BY <2>1, <2>2
  <1>2. ASSUME NEW p \in Peers
        PROVE  chosen[p] \in packetsOf /\ chosen[p].peer = p
    <2>1. chosen[p] \in HeldFor(buffer[p], t)
      BY <1>1
    <2>2. QED
      BY <2>1 DEF HeldFor, RInv, IInv, BufferSound
  <1>3. chosen \in [Peers -> packetsOf] /\ \A p \in Peers : chosen[p].peer = p
    BY <1>2
  <1>4. TakenForTick(buffer, t) = {chosen[p] : p \in Peers}
    <2> HIDE DEF chosen
    <2>1. QED
      BY <1>1 DEF TakenForTick
  <1>5. QED
    <2> HIDE DEF chosen
    <2>1. QED
      BY <1>3, <1>4 DEF Barrier!CompleteFrames

\* A tick that passes with everybody's input decides the frame at the
\* barrier, and no other.
LEMMA ReleaseRefines ==
    ASSUME RInv, TickRelease
    PROVE  Barrier!Release
  <1>1. PICK t : t = TargetTick
    OBVIOUS
  <1>2. /\ simTick <= MaxTick
        /\ t \notin released \cup {NoTick}
        /\ MissingForTick(t) = {}
        /\ ReleaseAndSimulate(t, buffer)
    BY <1>1 DEF TickRelease
  <1>3. t = lastReleased + 1 /\ t \in Ticks
    BY <1>1, <1>2, TargetIsNext DEF RInv, IInv
  <1>4. /\ inputLog' = inputLog \cup TakenForTick(buffer, t)
        /\ lastReleased' = t
        /\ sent' = sent
    BY <1>2 DEF ReleaseAndSimulate, ReleaseTick, peers
  <1>5. \A k \in TakenForTick(buffer, t) : k.tick = t
    BY DEF TakenForTick, HeldFor
  <1>6. \A k \in inputLog : k.tick # t
    <2>1. \A k \in inputLog : k.tick \in Int /\ k.tick <= lastReleased
      BY HeldPackets, PacketNumbers DEF RInv, IInv, LogSound
    <2>2. lastReleased \in Int
      BY HeldPackets DEF RInv, IInv
    <2>3. QED
      BY <1>3, <2>1, <2>2
  <1>7. Frame(t)' = TakenForTick(buffer, t)
    BY <1>4, <1>5, <1>6 DEF Frame
  <1>8. \A u \in Ticks : u # t => Frame(u)' = Frame(u)
    BY <1>4, <1>5 DEF Frame
  <1>9. [u \in Ticks |-> Frame(u)]'
            = [[u \in Ticks |-> Frame(u)] EXCEPT ![t] = TakenForTick(buffer, t)]
    <2>1. [u \in Ticks |-> Frame(u)]' = [u \in Ticks |-> Frame(u)']
      BY DEF Ticks
    <2>2. QED
      BY <1>3, <1>7, <1>8, <2>1
  <1>10. TakenForTick(buffer, t) \in Barrier!CompleteFrames
    BY <1>2, <1>3, HeldIsComplete
  <1>11. lastReleased + 1 <= MaxTick /\ lastReleased' + 1 = (lastReleased + 1) + 1
    BY <1>3, <1>4, LockstepConstants DEF Ticks
  <1>12. QED
    BY <1>3, <1>4, <1>9, <1>10, <1>11 DEF Barrier!Release

LEMMA StepRefines == RInv /\ [Next]_vars => [Barrier!Next]_(Barrier!vars)
  <1> SUFFICES ASSUME RInv, [Next]_vars
               PROVE  Barrier!Next \/ UNCHANGED Barrier!vars
    OBVIOUS
  <1>1. ASSUME NEW p \in Peers, SendNext(p) \/ SendAgain(p) PROVE Barrier!Next
    BY <1>1, SendRefines DEF Barrier!Next
  <1>2. ASSUME NEW k \in sent,
               Retransmit(k) \/ GiveUp(k) \/ Lose(k) \/ Deliver(k)
        PROVE  UNCHANGED Barrier!vars
    <2>1. UNCHANGED <<sent, inputLog, lastReleased>>
      BY <1>2 DEF Retransmit, GiveUp, Lose, Deliver, DeliverAccepted,
                  DeliverRefused, peers, synchroniser
    <2>2. QED
      BY <2>1, StutterRefines
  <1>3. CASE TickWithoutTarget \/ TickAlreadyReleased \/ TickWait
    <2>1. UNCHANGED <<sent, inputLog, lastReleased>>
      BY <1>3 DEF TickWithoutTarget, TickAlreadyReleased, TickWait, peers,
                  synchroniser
    <2>2. QED
      BY <2>1, StutterRefines
  <1>4. CASE TickRelease
    BY <1>4, ReleaseRefines DEF Barrier!Next
  <1>5. CASE TickReleaseSynthetic
    BY <1>5 DEF TickReleaseSynthetic, LimitReached, RInv, NoSyntheticRelease
  <1>6. CASE UNCHANGED vars
    <2>1. UNCHANGED <<sent, inputLog, lastReleased>>
      BY <1>6 DEF vars, peers, synchroniser
    <2>2. QED
      BY <2>1, StutterRefines
  <1>7. QED
    BY <1>1, <1>2, <1>3, <1>4, <1>5, <1>6 DEF Next, Transit, Tick

\* With synthetic release off, the input of every tick is decided once, in
\* tick order, and holds exactly one packet of each required peer, one that
\* this peer sent for the tick: release_for_sim_tick keeps the promise of the
\* lockstep barrier.
THEOREM LockstepImplementsBarrier ==
    ASSUME Limits \subseteq {NoLimit}
    PROVE  Spec => ImplementsTickBarrier
  <1>1. Init => RInv /\ Barrier!Init
    BY InitRefines
  <1>2. RInv /\ [Next]_vars => RInv'
    BY RInvPreserved
  <1>3. RInv /\ [Next]_vars => [Barrier!Next]_(Barrier!vars)
    BY StepRefines
  <1>4. QED
    BY <1>1, <1>2, <1>3, PTL DEF Spec, ImplementsTickBarrier, Barrier!Spec

-----------------------------------------------------------------------------
(***************************************************************************)
(* Two properties fail in general (the runs lockstep_synthetic and         *)
(* lockstep_rollback show how).  Here is when they hold.                   *)
(***************************************************************************)

\* What the barrier decides stays decided, and is complete.
CompleteUnlessSynthetic == NoSyntheticRelease => FramesComplete

\* A frame the barrier may decide has a packet of each peer.
LEMMA CompleteFramesHaveAllPeers ==
    ASSUME NEW frame \in Barrier!CompleteFrames, NEW p \in Peers
    PROVE  \E k \in frame : k.peer = p
  <1>1. PICK choice \in [Peers -> {k \in sent : k.tick = lastReleased + 1}] :
            /\ frame = {choice[q] : q \in Peers}
            /\ \A q \in Peers : choice[q].peer = q
    BY DEF Barrier!CompleteFrames
  <1>2. QED
    BY <1>1

LEMMA SameAfterOneMore == \A a, b \in Int : a + 1 = b + 1 => a = b
  OBVIOUS

LEMMA FramesStayComplete ==
    ASSUME RInv, FramesComplete, [Next]_vars
    PROVE  FramesComplete'
  <1>1. lastReleased \in Int /\ lastReleased <= MaxTick
    BY LockstepConstants DEF RInv, IInv, TypeOK, Ticks, NoTick
  <1>2. Barrier!Submit \/ Barrier!Release \/ UNCHANGED Barrier!vars
    BY StepRefines DEF Barrier!Next
  <1>3. lastReleased' \in Int
    <2>1. TypeOK'
      BY NextPreserves DEF RInv, IInv
    <2>2. QED
      BY <2>1, LockstepConstants DEF TypeOK, Ticks, NoTick
  <1>4. CASE Barrier!Submit \/ UNCHANGED Barrier!vars
    <2>1. [t \in Ticks |-> Frame(t)]' = [t \in Ticks |-> Frame(t)]
      BY <1>4 DEF Barrier!Submit, Barrier!vars
    <2>2. \A t \in Ticks : Frame(t)' = Frame(t)
      BY <2>1 DEF Ticks
    <2>3. lastReleased' + 1 = lastReleased + 1
      BY <1>4 DEF Barrier!Submit, Barrier!vars
    <2>4. lastReleased' = lastReleased
      BY <1>1, <1>3, <2>3, SameAfterOneMore
    <2>5. \A t \in 0..lastReleased : t \in Ticks
      BY <1>1, LockstepConstants DEF Ticks
    <2>6. QED
      BY <2>2, <2>4, <2>5 DEF FramesComplete
  <1>5. CASE Barrier!Release
    <2>1. PICK frame \in Barrier!CompleteFrames :
              [t \in Ticks |-> Frame(t)]'
                  = [[t \in Ticks |-> Frame(t)] EXCEPT ![lastReleased + 1] = frame]
      BY <1>5 DEF Barrier!Release
    <2>2. lastReleased' = lastReleased + 1 /\ lastReleased + 1 <= MaxTick
      <3>1. lastReleased' + 1 = (lastReleased + 1) + 1 /\ lastReleased + 1 <= MaxTick
        BY <1>5 DEF Barrier!Release
      <3>2. lastReleased + 1 \in Int
        BY <1>1
      <3>3. QED
        BY <1>3, <3>1, <3>2, SameAfterOneMore
    <2>3. \A t \in Ticks :
              Frame(t)' = IF t = lastReleased + 1 THEN frame ELSE Frame(t)
      BY <2>1 DEF Ticks
    <2>4. SUFFICES ASSUME NEW t \in 0..lastReleased', NEW p \in Peers
                   PROVE  \E k \in Frame(t)' : k.peer = p
      BY DEF FramesComplete
    <2>5. t \in Ticks /\ (t = lastReleased + 1 \/ t \in 0..lastReleased)
      BY <1>1, <2>2, LockstepConstants DEF Ticks
    <2>6. CASE t = lastReleased + 1
      BY <2>3, <2>5, <2>6, CompleteFramesHaveAllPeers
    <2>7. CASE t # lastReleased + 1
      BY <2>3, <2>5, <2>7 DEF FramesComplete
    <2>8. QED
      BY <2>6, <2>7
  <1>6. QED
    BY <1>2, <1>4, <1>5

\* A runtime that was configured without a wait limit never simulates a tick
\* without a packet of every required peer: only a synthetic release can.
THEOREM FramesCompleteWithoutLimit ==
    Spec => [](config.limit = NoLimit => FramesComplete)
  <1>1. Init => CompleteUnlessSynthetic
    <2>1. Init => 0..lastReleased = {}
      BY DEF Init, NoTick
    <2>2. QED
      BY <2>1 DEF CompleteUnlessSynthetic, FramesComplete
  <1>2. IInv /\ CompleteUnlessSynthetic /\ [Next]_vars => CompleteUnlessSynthetic'
    BY ConfigKept, FramesStayComplete
       DEF CompleteUnlessSynthetic, NoSyntheticRelease, RInv
  <1>3. CompleteUnlessSynthetic <=> (config.limit = NoLimit => FramesComplete)
    BY DEF CompleteUnlessSynthetic, NoSyntheticRelease
  <1>4. QED
    BY <1>1, <1>2, <1>3, LockstepInductive, PTL DEF Spec

\* What is on record for a rollback: nothing, or the tick's frame; and until
\* a tick fails, the runtime is where the synchroniser is, with every frame
\* on record.
RecordSound ==
    /\ \A t \in Ticks :
           rollbackInputs[t] # {} => t < simTick /\ rollbackInputs[t] = Frame(t)
    /\ failures = 0 => RollbackInputsRetained
    /\ failures = 0 /\ config.delay = 0 => lastReleased = simTick - 1

\* The log grows by the frame of the tick that is released.
LEMMA ReleasedFrame ==
    ASSUME IInv, simTick <= MaxTick,
           TargetTick \notin released \cup {NoTick},
           NEW buf, ReleaseAndSimulate(TargetTick, buf)
    PROVE  /\ \A t \in Ticks :
                  Frame(t)' = IF t = simTick THEN TakenForTick(buf, simTick)
                              ELSE Frame(t)
           /\ lastReleased' = simTick
  <1>1. /\ TargetTick = simTick
        /\ simTick = lastReleased + 1
        /\ simTick \in Ticks
    BY TargetIsNext DEF IInv
  <1>2. /\ inputLog' = inputLog \cup TakenForTick(buf, simTick)
        /\ lastReleased' = simTick
    BY <1>1 DEF ReleaseAndSimulate, ReleaseTick
  <1>3. \A k \in TakenForTick(buf, simTick) : k.tick = simTick
    BY DEF TakenForTick, HeldFor
  <1>4. \A k \in inputLog : k.tick # simTick
    <2>1. \A k \in inputLog : k.tick \in Int /\ k.tick <= lastReleased
      BY HeldPackets, PacketNumbers DEF IInv, LogSound
    <2>2. lastReleased \in Int
      BY HeldPackets DEF IInv
    <2>3. QED
      BY <1>1, <2>1, <2>2
  <1>5. QED
    BY <1>2, <1>3, <1>4 DEF Frame

LEMMA ReleaseRecords ==
    ASSUME IInv, RecordSound, simTick <= MaxTick,
           TargetTick \notin released \cup {NoTick},
           NEW buf, ReleaseAndSimulate(TargetTick, buf)
    PROVE  RecordSound'
  <1>1. /\ TargetTick = simTick
        /\ simTick \in Ticks
        /\ simTick \in Nat
    BY TargetIsNext, LockstepConstants DEF IInv, Ticks
  <1>2. \A t \in Ticks :
            Frame(t)' = IF t = simTick THEN TakenForTick(buf, simTick) ELSE Frame(t)
    BY ReleasedFrame
  <1>3. lastReleased' = simTick
    BY ReleasedFrame
  <1>4. {k \in TakenForTick(buf, simTick) : k.tick = simTick}
            = TakenForTick(buf, simTick)
    BY DEF TakenForTick, HeldFor
  <1>5. /\ rollbackInputs \in [Ticks -> SUBSET Packets]
        /\ failures \in Nat
        /\ \A t \in Ticks : t \in Int
    BY LockstepConstants DEF IInv, TypeOK, Ticks
  <1>6. rollbackInputs[simTick] = {}
    BY <1>1 DEF RecordSound
  <1>7. CASE /\ simTick' = simTick + 1
             /\ failures' = failures
             /\ rollbackInputs' = [rollbackInputs EXCEPT
                                     ![simTick] = TakenForTick(buf, simTick)]
    <2>1. \A t \in Ticks :
              rollbackInputs'[t] = IF t = simTick THEN TakenForTick(buf, simTick)
                                   ELSE rollbackInputs[t]
      BY <1>5, <1>7
    <2>2. \A t \in Ticks :
              rollbackInputs'[t] # {} => t < simTick' /\ rollbackInputs'[t] = Frame(t)'
      BY <1>1, <1>2, <1>5, <1>7, <2>1 DEF RecordSound
    <2>3. ASSUME failures = 0, NEW t \in 0..simTick
          PROVE  rollbackInputs'[t] = Frame(t)'
      <3>1. t \in Ticks /\ (t = simTick \/ t \in 0..simTick - 1)
        BY <1>1, LockstepConstants DEF Ticks
      <3>2. QED
        BY <1>2, <2>1, <2>3, <3>1 DEF RecordSound, RollbackInputsRetained
    <2>4. 0..simTick' - 1 = 0..simTick /\ lastReleased' = simTick' - 1
      BY <1>1, <1>3, <1>7
    <2>5. QED
      BY <1>7, <2>2, <2>3, <2>4 DEF RecordSound, RollbackInputsRetained
  <1>8. CASE /\ failures' = failures + 1
             /\ UNCHANGED <<simTick, rollbackInputs>>
    <2>1. failures' # 0
      BY <1>5, <1>8
    <2>2. \A t \in Ticks :
              rollbackInputs[t] # {} => t < simTick /\ rollbackInputs[t] = Frame(t)'
      BY <1>1, <1>2, <1>5 DEF RecordSound
    <2>3. QED
      BY <1>8, <2>1, <2>2 DEF RecordSound
  <1>9. \/ /\ simTick' = simTick + 1
           /\ failures' = failures
           /\ rollbackInputs' = [rollbackInputs EXCEPT
                                   ![simTick] = TakenForTick(buf, simTick)]
        \/ /\ failures' = failures + 1
           /\ UNCHANGED <<simTick, rollbackInputs>>
    <2>1. Simulate(TakenForTick(buf, simTick))
      BY <1>1 DEF ReleaseAndSimulate
    <2>2. TakenForTick(buf, simTick) = {} =>
              rollbackInputs = [rollbackInputs EXCEPT
                                  ![simTick] = TakenForTick(buf, simTick)]
      BY <1>1, <1>5, <1>6
    <2>3. QED
      BY <1>4, <2>1, <2>2 DEF Simulate
  <1>10. QED
    BY <1>7, <1>8, <1>9

\* The retry of a released tick records nothing, which is what goes wrong
\* after a failure; but it takes a failure to get there.
LEMMA RetryRecords ==
    ASSUME IInv, RecordSound, TickAlreadyReleased
    PROVE  RecordSound'
  <1>1. /\ UNCHANGED <<inputLog, lastReleased, config, rollbackInputs>>
        /\ \/ simTick' = simTick + 1
           \/ simTick' = simTick
        /\ simTick <= MaxTick
    BY DEF TickAlreadyReleased, Simulate, synchroniser
  <1>2. simTick \in Nat /\ failures \in Nat /\ lastReleased \in Int
        /\ \A t \in Ticks : t \in Int
    BY LockstepConstants DEF IInv, TypeOK, Ticks, NoTick
  <1>3. failures' \in {failures, failures + 1}
    BY DEF TickAlreadyReleased, Simulate
  <1>4. config.delay = 0 /\ lastReleased = simTick
    BY RetryIsOfLastRelease DEF IInv, TickAlreadyReleased
  <1>5. failures # 0
    BY <1>2, <1>4 DEF RecordSound
  <1>6. failures' # 0
    BY <1>2, <1>3, <1>5
  <1>7. \A t \in Ticks : Frame(t)' = Frame(t)
    BY <1>1 DEF Frame
  <1>8. QED
    BY <1>1, <1>2, <1>6, <1>7 DEF RecordSound

LEMMA RecordKept ==
    ASSUME RecordSound,
           UNCHANGED <<config, inputLog, lastReleased, simTick, rollbackInputs, failures>>
    PROVE  RecordSound'
  BY DEF RecordSound, RollbackInputsRetained, Frame

LEMMA RecordStep == IInv /\ RecordSound /\ [Next]_vars => RecordSound'
  <1> SUFFICES ASSUME IInv, RecordSound, [Next]_vars PROVE RecordSound'
    OBVIOUS
  <1>1. ASSUME NEW p \in Peers, SendNext(p) \/ SendAgain(p) PROVE RecordSound'
    BY <1>1, RecordKept DEF SendNext, SendAgain, SendInput, synchroniser, runtime
  <1>2. ASSUME NEW k \in sent,
               Retransmit(k) \/ GiveUp(k) \/ Lose(k) \/ Deliver(k)
        PROVE  RecordSound'
    BY <1>2, RecordKept DEF Retransmit, GiveUp, Lose, Deliver, DeliverAccepted,
                            DeliverRefused, synchroniser, runtime
  <1>3. CASE TickWithoutTarget \/ TickWait
    BY <1>3, RecordKept DEF TickWithoutTarget, TickWait, synchroniser
  <1>4. CASE TickAlreadyReleased
    BY <1>4, RetryRecords
  <1>5. CASE TickRelease
    BY <1>5, ReleaseRecords DEF TickRelease
  <1>6. CASE TickReleaseSynthetic
    BY <1>6, ReleaseRecords DEF TickReleaseSynthetic
  <1>7. CASE UNCHANGED vars
    BY <1>7, RecordKept DEF vars, synchroniser, runtime
  <1>8. QED
    BY <1>1, <1>2, <1>3, <1>4, <1>5, <1>6, <1>7 DEF Next, Transit, Tick

LEMMA RecordHolds == Spec => []RecordSound
  <1>1. Init => RecordSound
    <2> SUFFICES ASSUME Init PROVE RecordSound
      OBVIOUS
    <2>1. \A t \in Ticks : rollbackInputs[t] = {}
      BY DEF Init
    <2>2. 0..simTick - 1 = {} /\ lastReleased = simTick - 1
      BY DEF Init, NoTick
    <2>3. QED
      BY <2>1, <2>2 DEF RecordSound, RollbackInputsRetained
  <1>2. QED
    BY <1>1, RecordStep, LockstepInductive, PTL DEF Spec

\* As long as no tick has failed after its release, the input of every tick
\* that was simulated is on record, whatever was synthesised, lost or sent
\* again.
THEOREM InputsRetainedUntilAFailure ==
    Spec => [](failures = 0 => RollbackInputsRetained)
  <1>1. RecordSound => (failures = 0 => RollbackInputsRetained)
    BY DEF RecordSound
  <1>2. QED
    BY <1>1, RecordHolds, PTL

\* A failure may leave a tick without a record, but never with a wrong or a
\* partial one: a rollback replays what was released or is refused.
THEOREM RetainedInputsAreTheFrame ==
    Spec => [](\A t \in Ticks : rollbackInputs[t] \in {{}, Frame(t)})
  <1>1. RecordSound => \A t \in Ticks : rollbackInputs[t] \in {{}, Frame(t)}
    BY DEF RecordSound
  <1>2. QED
    BY <1>1, RecordHolds, PTL
=============================================================================
