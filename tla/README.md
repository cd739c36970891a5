# XACE: models and proofs of the runtime and the Builder

XACE is an engine-agnostic game simulation. A deterministic runtime core
(`packages/runtime-core`, Rust) owns the world, advances it tick by tick and
sends each tick's changes to a game engine through an adapter. A network core
(`packages/network-core`) feeds it the input of several peers. Around these
stand the tools that design a game: a builder server, an inference router, a
game design engine, a schema factory, a system graph compiler, registries and
a save engine.

This directory holds TLA+ modules that model the parts of XACE with state that
is shared, restored, retried or reordered; TLC configurations that check them
on small instances; and proofs, checked by TLAPS, of the same properties for
every value of the constants. Paths below are relative to `packages/`.

## 1. Inventory

### Runtime core

| Component | State | Operations | Hard part | Correct when |
|---|---|---|---|---|
| Entity store (`entity_store/`) | lifecycle record per id, id counter, archive | create, request_destroy, complete_destroy, disable, enable, restore | three pieces of state restored by separate code | an id is never given out twice (D2) |
| Component tables (`component_tables/`) | rows per type, write counter per table | add, update, remove, remove_all_for_entity, restore | counters go back in a rollback | a row belongs to a present entity (I1) |
| Mutation gate (`mutation_gate/`) | five request queues, the running batch's rollback image, its delta | request_*, apply_all, discard_all | an operation fails in the middle of a batch | a batch is one step or none; the delta describes it |
| Query engine (`query_engine/`) | cached results with the counter sum they were computed at | query | stale cache after a rollback | a hit equals a miss |
| Phase orchestrator (`phase_orchestrator/`) | current tick, systems per phase, merged delta | tick: phases in order, one gate batch each | a later phase undoes what an earlier one did | the merged delta describes the tick |
| Event bus (`event_bus/`) | phase buffers, pending events per system, static id counter | emit, dispatch, mark_consumed, purge, restore | rollback, growth | an event is delivered once; ids go back with a rollback |
| Lockstep gate of `runtime_orchestrator.rs` | engine_inputs, wait attempts, rollback input history | tick | ticks that fail after taking input | one frame per tick, kept for rollback |
| Rollback and timeline (`runtime_orchestrator.rs`, `snapshot_engine/`) | pre-tick anchors, retained timeline, input history | rollback for late input or desync, restore of a retained tick | replaying history while live input arrives | a resimulated world is the world of the corrected inputs |
| Determinism guard (`determinism_guard/`) | hash log, RNG log | record, compare | restored RNG state | a replay gives the same hashes |
| Shell: loader, built-in systems, control server, bridges, `bin/xace_runtime.rs` | sockets, command queues | poll, drain, tick loop | - | - |

### Network core

| Component | State | Operations | Hard part | Correct when |
|---|---|---|---|---|
| Input buffer (`input/input_buffer.rs`) | packets, last sequence and highest tick of each peer | insert, take_for_tick, missing_for_tick | late, repeated, reordered packets; quota | no packet of a past tick stays; order kept |
| Input synchroniser (`input/input_synchroniser.rs`) | released ticks, first wait, log | submit, release, release with synthetic | retries, silent peers, pruned history | a tick is decided once, from all peers |
| Input broadcaster (`input/input_broadcaster.rs`) | pending deliveries with attempts | queue, ack, nack, due_for_retransmit | a retransmission that races its acknowledgement | a delivery ends acknowledged or given up |
| Prediction (`prediction/`) | predicted frames, rollback plans | predict, reconcile, begin/finish rollback | answers for ticks already rolled back | - |
| Sessions and authority (`session/`, `authority/`) | peers, connection states, owners, transfer locks | join, leave, reconnect, assign, transfer | transfers that cross a disconnect | one owner per entity |
| Synchronisation (`synchronisation/`) | hash reports, join requests, resync cooldowns | report, admit, resync | late joiners against a moving world | - |
| Replication (`replication/`) | zones, relevance, per-peer sequences | select, build | - | - |

### Engine side and tools

| Component | State | Hard part |
|---|---|---|
| Engine adapter delta sync (`engine-adapter/src/delta_sync`) | sequence counters, pending resync, cooldown | dropped deltas, a snapshot against pending requests |
| Engine adapter transport (`engine-adapter/src/transport`) | sequence trackers, shared-memory ring | gaps, wrap-around |
| Engine feedback (`engine-feedback`) | bounded buffers | limits |
| Asset runtime (`asset-runtime`) | load queue, reload gate | a reload at a tick boundary while a load runs |
| Inference (`inference`) | budgets, credits, response cache | retries that pay twice |
| Save engine (`save-engine`) | slots, profiles | crash during a save |
| System graph compiler, schema factory, prompt intelligence, registries, observability, CLI, engine plug-ins, examples | pure functions, catalogues or presentation | - |

### Builder (`builder-workspace/server`, Python)

| Component | State | Operations | Hard part | Correct when |
|---|---|---|---|---|
| Project files (`cgs_persistence.py`) | `game.cgs.json`, snapshots and their index, ExecutionPlans, proof bundles, prompt history | save, snapshot, save plan, save proof, restore after a failed apply, plan and complete an undo or redo, recover | seven files written one by one, a crash between any two | recovery finds a CGS that can run; the history is one chain of edits |
| Handlers (`ws_message_router.py`, `session_manager.py`) | `cgs_state` shared by all sessions, each session's pending transaction and preview | prompt, discard, apply, live edit commit, asset link, semantic binding, rollback, undo, redo, load | state checked before an await and written after it; a rollback in which a step fails | memory is the file; what is committed is what was previewed; an applied edit survives |
| Agent host (`agent_host/`) | one active turn per session, proposal rows, the same pending slot | start, stream, cancel a turn; ingest, apply, discard a proposal | turns run while handlers of their session await | preview, transaction and row tell one story; a cancelled turn ends |
| Game design engine (`gde`) | its copy of the CGS | process a transaction, load a CGS | runs in a thread | its result is the edit on the CGS it was made for |

Every session's messages are handled one after another by its websocket loop;
sessions interleave on one event loop, only at awaits. An apply awaits GDE and
then SGC in threads, and from its first write to its last it keeps the loop.
Agents are tasks beside the loops: they put their proposals into the slot a
session's prompts, discards and applies use.

How the runtime parts interact: an engine or a peer sends input, which bridges put into
`engine_inputs`; `tick()` drains it into the synchroniser, and passes only when
the synchroniser releases a frame. The phase orchestrator runs the systems of
each phase; systems read through the query engine and queue requests with the
mutation gate; after each phase the gate applies its queues. The deltas of the
phases are merged and go to the engine adapter, and the tick's input, snapshot
and hash are kept for rollback and replay. All of this is one thread inside
`tick()`: the interleavings that matter are those of requests within a batch,
of packets on their way, and of ticks that fail and are tried again.

## 2. Modules

| Module | Models | Read with |
|---|---|---|
| `GateTypes` | what the stores, queues and requests hold | `core/src/entity_state.rs`, `mutation_queue.rs` |
| `AtomicGate` | abstract: a batch takes effect in one step or not at all | - |
| `MutationGate` | stores, tables, validator, queues, apply_all, rollback, delta | `mutation_gate.rs`, `mutation_validator.rs`, `entity_store.rs`, `component_table_store.rs`, `state_delta.rs` |
| `QueryEngine` | extends `MutationGate` with the query cache | `query_engine.rs`, `query_cache.rs` |
| `TickBarrier` | abstract: ticks are decided once, in order, from all peers | - |
| `LockstepInput` | peers, network, broadcaster, input buffer, synchroniser, lockstep part of `tick()` | `network-core/src/input/*.rs`, `runtime_orchestrator.rs` |
| `EditTrail` | abstract: undo and redo walk a trail of single edits | - |
| `ProjectStore` | the files of a project, recovery, prompt history | `cgs_persistence.py` |
| `BuilderServer` | extends `ProjectStore` with sessions, handlers, crashes | `ws_message_router.py`, `session_manager.py`, `builder_server.py` |
| `Approvals` | abstract: what is committed is what was on show when it was approved | - |
| `AgentHost` | turns, proposals and the pending slot of one session | `agent_host/event_stream.py`, `proposal_ingress.py`, `session_store.py`, `session_manager.py` |
| `MutationGateProofs`, `MutationGateDeltaProofs`, `MutationGateConflictProofs`, `MutationGateRefinementProofs`, `QueryEngineProofs`, `LockstepProofs`, `BuilderServerProofs`, `AgentHostProofs` | theorems | - |
| `MC*` | TLC instances | - |

### MutationGate

`state`, `nextId` and `archive` are the fields of `EntityStore`; `rows` and
`version` those of the component tables; `queues` is `MutationQueues`;
`transaction`, `image`, `delta` and `failure` are what `apply_all` keeps while
it runs. Every `request_*` of the gate is an action with the validator's check
as its guard; a refused request changes nothing and is not an action.
`apply_all` is a sequence of steps: `BeginBatch` captures the image, `Apply*`
take one request each in the order spawn, add, modify, remove, destroy (D4),
`CommitBatch` ends a batch whose queues are empty, and any `Apply*` whose
operation fails restores the image. Payloads are abstract; `Malformed` ones are
those `serde_json` refuses, which the code finds out only when it applies them.

Not modelled: the event bus and RNG images the gate also restores (no other
part of the model reads them), ticks and timestamps of records, and
`pre_batch_hash`, which only words the error of a failed rollback. A spawn's
initial components are written one by one in the code and can fail half-way; as
the failure restores the image at once, the model decides first whether the
whole spawn is possible.

### QueryEngine

`cache[k]` is the entry for a sorted set of types with the `combined_version`
it was stored under. A hit leaves the cache as it is; a miss stores the scan.

### LockstepInput

`network` holds every packet from the moment it is sent to the moment `tick()`
drains it: bridges and `engine_inputs` do nothing to a packet, and the decision
comes after the drain, so `Deliver` is the drain of one packet. `buffer`,
`released`, `lastReleased`, `firstWait` and `inputLog` are the synchroniser's;
`simTick`, `waitAttempts` and `rollbackInputs` the runtime's. One action stands
for each outcome of `tick()`: no target, already released, release, synthetic
release, wait. A tick whose phases fail keeps what the release did and leaves
`simTick`. The transport is a constant: a stream keeps each peer's order, a
reordering transport only delivers, a datagram transport also loses packets and
acknowledgements.

Not modelled: `TimeoutPolicy` other than `WaitForever` (inside the runtime the
synchroniser's clock is `sim_tick`, which stands still during a wait, so a
timeout of that kind never expires), two different payloads for one tick
(digest conflicts are refused as the repeat is), and the counters of
`input_sync_last_trace`.

### ProjectStore and BuilderServer

A CGS is the sequence of edits that made it, and stands for its hash: GDE is
deterministic, so equal sequences have equal hashes. Edits are typed prompts
(compiled by SGC, so they have a plan and a proof), value prompts, live edits
and links; some typed edits declare an executable system, and from then on the
CGS needs a plan of its own hash to be loaded.

`main`, `snapshots`, `index`, `plans`, `proofs` and `history` are the files;
`memory` is `cgs_state`; `pending[s]` the transaction on preview with the CGS it
was made for. `pc[s]` is where the handler of session `s` is: waiting for `gde`
or `sgc`, or the write that is next. `Commit`, `WriteSnapshot`, `WriteIndex`,
`WritePlan` and `WriteProof` are the writes of `_persist_prompt_apply_artifacts`
in their order, each a step because a crash may fall between two of them and
because each may fail (`WriteFails`, `LiveWriteFails`); `Reject` is a validation
hook that refuses the new CGS; `RestoreMain`, `RemoveSnapshot`, `RemoveRecord`,
`RemovePlan`, `RemoveProof` are `restore_prompt_apply_failure`. Handlers that
never await between check and write (`Link`, `Rollback`) are one step; undo and
redo are two, the save and the cursor. `Reload` is a connection or a
`cgs_request`, `Restart` the start of the server; both run `recover()`.

Left out: the cap of 100 index records; the audit ledger and the transaction
counter, which no decision reads; failures of the removals in a rollback, which
are only reported; failures of a link's or a rollback's single write, which
leave everything as it was; several sockets that share one session id; a GDE
thread that reads `cgs_state` while it is being replaced. A file without a
record counts as newer than every record, which is so when a crash left it; the
modification times of several such files are not compared.

### AgentHost

One session. `handler` says which await its current message handler is in, and
`pending` and `preview` are the slot. A turn goes from `opening` (the provider
session is awaited) over `installed` (in `_active`, its start being announced)
to `scheduled`, `running`, `ending`, `done`; one whose task is cancelled before
its first step is `lost`: it never reports an end, and `_active` keeps it until
the next `agent_turn`. `turn[t].base` is the hash of the request and
`turn[t].copy` the CGS copied after the await; a proposal is admitted only when
they and the proposal's own hash agree. An apply holds the transaction that was
approved (`handler.txn`) while proposals may replace the slot; in the end it
clears the slot or puts the captured one back.

The CGS is one of a small set, since a hash can come back, and other sessions
replace it at any time. An apply awaits twice: in `gde`, whose thread compares
the parent hash for the last time (`GdeSucceeds`), and in `commit`, while SGC
compiles or the handler waits for the loop. `ApplyDone` then makes GDE's result
the CGS without looking at what it is by now, and `ApplyRolledBack` puts back
the CGS from before the apply, as the code does; that both can overwrite the
commit of another session is what `builder_lost_update` shows. The files are
those of `BuilderServer`.

The session store inserts a proposal or, when it knows the identifier, updates
the row. `Reused` are the proposals whose provider gives out the identifier
again, as one that counts from 1 after a restart does. Their row can lose a
decision, so `PendingIsUndecided` and `AppliedMeansCommitted` speak of the
others.

Left out: the session rows and the resume of a provider session, a session store
that fails to write, a crash between commit and row, and two sockets that share
a session id.

## 3. Runs

| Run | Checks | Bounds |
|---|---|---|
| `mutation_gate` | `TypeOK`, `RowsOfPresentEntities`, `IdentityLedger`, `DeltaReplaysBatch`, `OnlyConflictsFail`, `ImplementsAtomicGate` | 2 ids, 2 registered types and 1 without a table, 2 payloads and a malformed one, 3 pending requests, 5 table writes |
| `query_engine` | `HitEqualsMiss` | 2 ids, 2 types, 1 payload and a malformed one, 2 pending requests, 4 table writes, keys {t1} and {t1, t2} |
| `query_engine_active` | `OnlyActiveInResults`, violated | as above |
| `lockstep_stream` | `OneReleasePerTick`, `ImplementsTickBarrier`, `PacedTicksSimulated` | 2 peers, ticks 0..3, quota 2, one repeat of a peer's input, one failed tick |
| `lockstep_datagram` | `TypeOK`, `NoDeadPackets`, `FramesInSequence`, `UndelayedTicksSimulated` | 2 peers, ticks 0..1, quota 1, two attempts per packet, delay 0 or 1, synthetic release after one wait, one failed tick |
| `lockstep_reordering` | `EveryTickSimulated`, violated | 2 peers, ticks 0..2, nothing lost, a quota that cannot fill |
| `lockstep_synthetic` | `FramesComplete`, violated | 2 peers, ticks 0..2, in order |
| `lockstep_rollback` | `RollbackInputsRetained`, violated | 2 peers, ticks 0..2, one failed tick |
| `builder_project` | `TypeOK`, `HistoryIsLinear`, `MemoryFollowsDisk`, `IndexMatchesFiles`, `AppliedEditIsDurable`, `CommitIsThePreview`, `RestoreMovesOneEdit`, `RecoveryIsRunnable`, `JobsEnd`, `ImplementsEditTrail` | 2 sessions, 2 typed edits (one declares a system), 1 live edit, 1 link, CGSs of up to 2 edits, 4 requests and faults together, 1 fault |
| `builder_load` | `LoadKeepsMain`, violated | 1 session, no fault |
| `builder_lost_update` | `CommitReplacesItsParent`, violated | 2 sessions, 2 typed edits and a link, no fault |
| `agent_host` | `TypeOK`, `PreviewIsOfPending`, `PendingIsUndecided`, `AppliedMeansCommitted`, `LiveTurnIsActive`, `CancelledTurnEnds`, `ImplementsApprovals` | 2 turns, 2 proposals, one with an identifier that is given out again, 2 CGSs |

Why these bounds are enough. Gate: every failure needs at most three requests
of one batch (two that conflict, one applied before them), and ids start to
matter with the second spawn; five writes let a batch commit, a second one fail
after writing, and a third one write again. Query: the stamp can repeat only
after a rollback, which needs one committed batch, one failed one and one more;
four writes allow that. Lockstep: each peer's packets are judged against that
peer's own state alone, and the barrier against the set of missing peers, so
two peers show every case; a tick can only be wrong relative to the one before
or after it. The history of 1 released tick is the tightest the code accepts. So
is the quota of 1 in the datagram run, where a refused packet can come again and
a silent peer is replaced; the stream run has a quota of 2 for 4 ticks, so that
peers fill it, empty it and run past it. What the stream run shows of progress
is conditional (`PeersPaced`): `insert_with_outcome` refuses the packet of a peer
that is its whole quota ahead, a stream never sends it again, and lockstep then
waits for its tick for ever. Nothing in `src/` keeps a peer from running ahead
(the default quota is 256), so without the condition the property is violated;
with it, a quota that is used to the last packet costs nothing. Deadlock checking is off in the lockstep runs because a
behaviour ends when tick `MaxTick` has been simulated. Builder: a lost or mixed
update needs two handlers; undo, redo and a new branch need two prompts and two
more requests; a crash may fall at every one of the writes, and a second one
only interrupts recovery, which starts again; one edit with a system and one
without tell apart the CGSs that need a plan. Agents: a second turn and a second
proposal are what can be confused with the first; a CGS is only
ever compared with the one something was made for, so two suffice: the same one,
left and come back to, and another.

### What the violated runs show

* `query_engine_active`: `disable_entity` touches only the entity store, and the
  query engine looks only at tables; `core/src/entity_state.rs:66` says "Only
  Active entities appear in query engine results."
* `lockstep_reordering`: `input_buffer.rs:112` refuses any sequence id that is
  not above the last one, so a packet overtaken by its successor can never fill
  the gap it left, and lockstep waits for ever; the plan says the buffer
  "handles late arrival".
* `lockstep_synthetic`: the packet made up for a silent peer gets sequence 1
  when the previous tick's packet is already taken, the buffer refuses it, the
  refusal is ignored, and the tick is released without that peer.
* `lockstep_rollback`: the released inputs of a tick are recorded only by the
  call of `tick()` that releases them, after the phases succeed; if they fail
  once, the retry records nothing.

* `builder_load`: `recover()`, part of every load, puts the newest snapshot with
  a plan in place of a valid CGS that needs a plan and has none. Links, bindings
  and live edits never write a plan, so on a project with systems the next
  reconnect takes them back, and no snapshot has a link either.
  `cgs_persistence.py:267` says the main CGS is restored "only when it is missing
  or invalid".
* `builder_lost_update`: the hash is checked before GDE and SGC are awaited, and
  the save after them checks nothing, so it overwrites what another session
  committed meanwhile; `state_authority.py:19` names "project cgs.write.lock and
  submitted cgs_hash check" as the guard of that write.

A configuration no run is given to: with `fixed_delay_ticks` above 0 tick 0 has
no target, `tick()` waits, and `sim_tick` would have to advance for a target to
exist. No input leaves that state (theorem `DelayedRuntimeNeverStarts`);
`UndelayedTicksSimulated` is stated for delay 0 for this reason, and the datagram
run includes a delay of 1 for the safety properties.

### Fairness

`Spec` of `LockstepInput` assumes weak fairness of `Tick`: whoever drives
`tick()` calls it again after a wait or a failure, as the lockstep tests of
`runtime_orchestrator.rs` do. (`bin/xace_runtime.rs` never selects lockstep and
ends the process on an error, so this is an assumption about the embedding
program.) Under synthetic release nothing more is needed: the datagram run lets
peers fall silent and packets be lost at will. Without it, lockstep needs the
peers, so `LiveSpec` adds that each peer goes on sending its next input, as long
as its quota leaves room for it (it may send more), and that what it sends
arrives. The gate has no fairness: its properties are safety.

`BuilderServer` assumes that a thread of GDE or SGC ends (weak fairness of
`Threads`; `compile_sgc_plan` has a timeout, GDE is a terminating computation),
that the server is started again after a crash, and strong fairness of
`Handler`: an awaited handler becomes ready when its thread ends, asyncio runs
ready handlers first come first served, and it is strong because another
session's writes keep the loop, and so disable it, again and again. `AgentHost`
assumes weak fairness of the steps that wait only for the event loop: the first
step of a task, the delivery of a cancellation, the last status. Nothing is
assumed of a provider, which may never end its turn, nor of the user.

## 4. Proofs

Checked by TLAPS for every value of the constants, under the assumptions
`GateConstants`, `GateBounds`, `FiniteTypes`, `QueryKeys`, `LockstepConstants`,
`StoreConstants`, `ServerConstants` and `AgentConstants` only (types of the
constants; the registered component types are finitely many and the cache's keys
are sets of them; the quota and the kept history are at least 1; `None` and
`Prompt` are no edit, turn or proposal).

| Theorem | Module | Establishes |
|---|---|---|
| `TypeCorrect` | `MutationGateProofs` | `TypeOK` |
| `RowsNeverOrphaned` | `MutationGateProofs` | `RowsOfPresentEntities` |
| `IdentityPermanent` | `MutationGateProofs` | `IdentityLedger` |
| `DeltaExact` | `MutationGateDeltaProofs` | `DeltaReplaysBatch` |
| `FailuresAreConflicts` | `MutationGateConflictProofs` | `OnlyConflictsFail` |
| `GateImplementsAtomicGate` | `MutationGateRefinementProofs` | `ImplementsAtomicGate` |
| `CacheIsTransparent` | `QueryEngineProofs` | `HitEqualsMiss` |
| `EngineRunsTheGate` | `QueryEngineProofs` | the engine's specification implies the gate's |
| `ResultsArePresent` | `QueryEngineProofs` | every id in a query result is a present entity |
| `LockstepTypeCorrect` | `LockstepProofs` | `TypeOK` |
| `BufferStaysLive` | `LockstepProofs` | `NoDeadPackets` |
| `InputConsumedInSequence` | `LockstepProofs` | `FramesInSequence` |
| `RuntimeInStep` | `LockstepProofs` | `OneReleasePerTick` |
| `LockstepImplementsBarrier` | `LockstepProofs` | `ImplementsTickBarrier`, when `Limits` holds only `NoLimit` |
| `FramesCompleteWithoutLimit` | `LockstepProofs` | `FramesComplete`, while `config.limit` is `NoLimit` |
| `InputsRetainedUntilAFailure` | `LockstepProofs` | `RollbackInputsRetained`, while `failures` is 0 |
| `RetainedInputsAreTheFrame` | `LockstepProofs` | what is retained for a tick is nothing or its frame |
| `DelayedRuntimeNeverStarts` | `LockstepProofs` | with a delay nothing is ever simulated or released |
| `ServerTypes` | `BuilderServerProofs` | `TypeOK` |
| `OneWriter` | `BuilderServerProofs` | `LoopIsExclusive` |
| `IndexFollowsFiles` | `BuilderServerProofs` | `IndexMatchesFiles` |
| `HistoryStaysLinear` | `BuilderServerProofs` | `HistoryIsLinear` |
| `MemoryOnDisk` | `BuilderServerProofs` | `MemoryFollowsDisk` |
| `AppliedEditSurvives` | `BuilderServerProofs` | `AppliedEditIsDurable` |
| `PreviewIsCommitted` | `BuilderServerProofs` | `CommitIsThePreview` |
| `RestoresMoveOneEdit` | `BuilderServerProofs` | `RestoreMovesOneEdit` |
| `RecoveriesRunnable` | `BuilderServerProofs` | `RecoveryIsRunnable` |
| `ServerImplementsEditTrail` | `BuilderServerProofs` | `ImplementsEditTrail` |
| `AloneCommitsReplaceTheirParent` | `BuilderServerProofs` | `CommitReplacesItsParent`, when there is one session |
| `AgentTypes` | `AgentHostProofs` | `TypeOK` |
| `PreviewMatchesPending` | `AgentHostProofs` | `PreviewIsOfPending` |
| `PendingUndecided` | `AgentHostProofs` | `PendingIsUndecided` |
| `AppliedIffCommitted` | `AgentHostProofs` | `AppliedMeansCommitted` |
| `OneLiveTurn` | `AgentHostProofs` | `LiveTurnIsActive` |
| `HostImplementsApprovals` | `AgentHostProofs` | `ImplementsApprovals` |

The arguments.

*Gate.* None of the three invariants is inductive by itself: a rollback makes
the image the world, so the invariant of `MutationGateProofs` says of the image
of a running batch what it says of the world (types, rows of present entities,
the ledger). With that, an `Apply*` step disturbs one cell or one id, and a
failing one is immediate.

*Delta.* On top of it, `MutationGateDeltaProofs` carries what the drain order
gives: while requests of a queue are left, the lists of the delta that later
queues fill are still empty; spawned ids are those from the image's counter on,
so their image rows are empty. Each `Apply*` then changes one cell of the
replay exactly as it changes the table.

*Conflicts.* `MutationGateConflictProofs` shows that outside a batch every
queued request was valid for the world, and still is, because requests change
nothing and toggling an entity keeps it present. During a batch it relates each
remaining request to the image's queue it is a suffix of: an add that finds its
cell taken can only have been preceded, in the same queue, by an add of that
cell, and likewise for removes and destroys.

*Atomic gate.* `MutationGateRefinementProofs` shows that `MutationGate`
implements `AtomicGate`, whose `Commit` gives the effect of a batch as a
function of its queues and of the world before it. The invariant says that the
effect of the queues that are left on the world as it is equals the effect of
the image's queues on the image: each `Apply*` that goes on takes a request off
its queue and puts it into the world, without changing what the two make
together (`KeepsEffect`; for a modify this needs that the last request of a cell
wins, a lemma about sequences). When the queues are empty the world is that
effect. That no batch with a conflict gets there is carried backwards
(`Remaining`): if what is left after an operation is free of conflicts and finds
its cells as it needs them, so was what was left before it. A batch that fails
restores the image and, to its callers, was never there.

*Query cache.* A result is stored under the sum of the write counters of its
types' tables, and a rolled-back batch takes counters back, so the same sum can
come again. `QueryEngineProofs` shows that it then belongs to the same tables.
The invariant says that while a batch runs no counter is below its value in the
image, that a table whose counter is equal to the image's has the image's rows
(`WritesAreCounted`), and that every cached stamp is at most the sum of the
committed counters, those of the image while a batch runs, and where it equals
that sum the result is that of a scan of the committed tables
(`StampsAreHonest`). Counters that only grow and have the same sum are
equal one by one (`SumMonotone`), so equal stamps mean equal tables. A write
that raises no counter breaks the proof where it should.

*Lockstep.* The invariant of `LockstepProofs` joins buffer and log: every packet
of a peer in the log is below every one in its buffer, in tick and in sequence,
and all are at most the peer's last sequence and highest tick; a buffer holds
only ticks above the last release; the first-wait keys are at most the target;
and the tick released last is among the released ticks, being the largest of
them, so that pruning cannot drop it (`KeepReleased` is at least 1).

*Tick barrier.* With that invariant the second half of `LockstepProofs` maps a packet sent
to `TickBarrier`'s `Submit`, `TickRelease` to its `Release` and every other step
to a stutter. The frame of a release is complete because nobody is missing from
it, exact because a buffer holds at most one packet for a tick and only what its
peer sent for it, and new because no packet in the log has a tick after the last
release. A release with synthetic packets cannot happen when no limit is
configured; with one, `FramesComplete` is violated, as the run
`lockstep_synthetic` shows.

*Builder server.* None of the properties is inductive alone. The invariant says
that at most one handler is inside its writes; that what it has written is still
there at its next step (`Written`: the main file is the CGS it commits, and from
the plan's write on the plan is on disk); and what each job was begun for
(`Jobs`: a prompt's result is the previewed edit on the previewed CGS, and an
undo or redo still finds the cursor where it was planned). Then the last step
of a commit makes memory and file one CGS and reports an edit whose plan is on
disk. That `RecordApply` keeps a chain, whichever of its three branches it
takes, is a lemma about sequences without any state
(`RecordingKeepsTheChain`).

*Edit trail.* Only two steps touch the history: `Accept`, which records a prompt,
and `MoveCursor`. The mapped trail is the origin of the history and the results
of its entries. A record extends it at the place of the CGS the prompt was made
from, or begins a new one when that CGS lies nowhere on it, which is again a fact
about `RecordApply` alone (`RecordingExtendsTheTrail`); that the active CGS is
the one recorded is `Written`. The cursor moves by one, because it is still where
the restore was planned, and onto the active CGS, because every entry starts
where the one before it ended.

*Index.* `IndexMatchesFiles` needs a second invariant on top of the first: how
far index and snapshots may be apart before each write of a commit and of its
rollback (`IndexFollows`). A commit that fails between the two leaves one of
them with its hash, which the rollback takes from both; a crash leaves them
apart until the recovery of the next start, whose result is the snapshots
(`VerifiedElements`). What a list filter keeps and what `SetToSeq` lists are
lemmas about the community modules' definitions. The filter is a fold; that it
obeys its recursive equation for every list, and that the sum over tables is
monotone for any number of tables, is proved from the least number of elements
for which it would fail, since the library's induction rules cannot be used.

*Agent host.* The invariant adds what a waiting handler can rely on (`Held`):
the proposal an apply was begun for stays `pending_preview` until the apply
ends, unless its identifier is given out again, because only `Discard` and `ApplyDone` decide and neither can run
meanwhile; and from the check of `agent_turn` to the creation of the task no
turn of the session is alive.

*Approvals.* What the user sees is the preview, what was approved is the
transaction the handler of an apply holds, through both of its awaits; the
pending transaction and the turns are hidden. An approval takes the pending
transaction, which is the one on show by `PreviewIsOfPending`; its commit and a
discard find their proposal undecided by `Held` and `PendingIsUndecided`, or its
identifier among the reused ones. A proposal recorded by a turn is shown in the
same step; every other step of a turn is a stutter, and so is GDE's success.
What is approved was made for the CGS of that moment; the abstract commit may
land on any CGS, because the code's does, and the abstract theorem claims
nothing about proposals whose identifiers come twice but that they too are
committed only after they were shown and approved.

*When the violated properties hold.* Five theorems bound what the runs that
expect a violation show. `FramesComplete` is handed down by the tick barrier: in
a runtime without a wait limit every step is one of the barrier's, which decides
only complete frames and leaves the decided ones alone. For the retained inputs
the invariant `RecordSound` says that, until a tick fails, the last release is
that of the last simulated tick, so the branch of `tick()` that records nothing
(`TickAlreadyReleased`) cannot be taken; and that what is recorded is the frame,
because later releases add nothing to it. A session that is alone is inside its
one job from the check of the parent to the write (`OnItsParent`), so nothing
replaces the CGS in between. `ResultsArePresent` follows from `HitEqualsMiss`,
`RowsOfPresentEntities` and the fact that every query names a type.

Model-checked only: the liveness properties `PacedTicksSimulated`,
`UndelayedTicksSimulated`, `JobsEnd` and `CancelledTurnEnds`, which are out of
the prover's reach, and what the violated runs refute. Every other property that
a run checks is a theorem.

## 5. Plan

In this order; each module is written to be proved about as well as checked.

1. `MutationGate`, `AtomicGate`, `QueryEngine`, with proofs - done.
2. `LockstepInput`, `TickBarrier`, with proofs - done.
3. `ProjectStore`, `BuilderServer`, `AgentHost`, with proofs - done.
4. `DeltaSync`: the engine adapter's delta stream over a lossy transport, the
   engine's sequence tracker, resync requests, cooldown and snapshots; abstract
   specification: the engine shows some earlier world, and never goes back.
5. `RuntimeRollback`: pre-tick anchors, retained timeline, input history,
   rollback for late input and desync, restore; the world is the history of
   executed ticks and inputs; composes with `LockstepInput`'s frames.
6. `PhaseTick`: phases over the gate, event bus, merged delta, failed ticks.
7. `PeerSession`: sessions, authority transfer, late join, resync.
8. `AssetReload`: reload at a tick boundary.
9. Proofs: the rollback and delta-sync invariants.

## 6. Not modelled

Pure functions over one input (hashing, compression, parsing, schema
transformation, graph algorithms), presentation, catalogues, sockets, and the
engine plug-ins. `PROJECT.json` lists every component with the reason.
