# A TLA+ development of Advanced Show Control

Advanced Show Control (`app/`, Rust) puts a native interface beside a Waves
LV1 live console: it recalls scenes on the console by request, by cue list or
when the operator recalls one at the desk, and fades the faders of the recalled
scene over a configured time.  Inside, it is a set of tokio actors with one
mailbox each, an `AppEventBus` (a broadcast channel of 4096 events plus retained
snapshots) and a lifecycle that installs a new LV1/Fade runtime for every
*connection generation*.

This directory holds TLA+ modules that model the program, TLC configurations
that check them on small instances and proofs that TLAPS checks for every
instance.  Source paths below are relative to the repository.

    tlasany M.tla                                       parse a module
    tlc -workers 2 -config X.cfg MC...tla               check a configuration
    tlapm ScenesRecallProofs.tla                        check the proofs (every *Proofs.tla)

`recall_*` configurations belong to `MCScenesRecall`, `fade_*` to `MCFadeEngine`,
`session_show` to `MCShowSession`, `session_guard` to `MCSessionGuard`, `lifecycle*`
to `MCLifecycle`, `library` to `MCCueLists`, and `updates`, `projector` and `lv1` to
`MCUpdates`, `MCProjector` and `MCLv1Actor`; section 6 says which module each
`finding_*` belongs to.

## 1. Inventory

### Parts, their state, operations and hard behaviour

**Scenes actor** (`app/src/scenes/actor.rs`, `commands.rs`).  State: the active
generation, `scene_library_status` (AwaitingPeers, AwaitingSceneList, Ready), a
cached scene list, the scene documents, the policy state, one pending recall
operation, one pending snapshot (store), a pending cue recall, one held command,
a pending lag recovery.  A single `tokio::select!` loop takes bus events, scene
commands, cue-recall commands, the completion of its pending operations, a
readiness channel, three deadlines, the lockout watch and the settling of the
last scene observation.  Hard: every pending operation can be overtaken by
lockout, disconnection, a generation change, lost events or a session
replacement, in every one of its phases; the select order is random.
Correct when: every caller is answered exactly once; nothing canceled is
dispatched; readiness of the library means peers and a list of the active
generation.

**RecallCoordinator** (`app/src/scenes/recall_coordinator.rs`), owned by Scenes.
State: the FIFO of admitted requests, the request in flight with its phase
(observation, readiness, interval), the latest unsettled observation, the
identities of canceled recalls whose observation may still come.  Operations:
admission, dispatch, the exact or independent observation, readiness handoff,
release, cancellation, suppression of late observations.  Correct when: it is a
bounded FIFO with one recall at a time; a canceled recall's observation is not
taken for a desk recall.

**Scene library policy and documents** (`scenes/policy.rs`, `state.rs`,
`scene_alignment.rs`, `capture.rs`).  The arming gate after an operator edit,
the same-scene suppression threshold, the alignment of stored scenes with the
console's list.  Synchronous; hard are the two decisions (before and after the
fresh snapshot) that must agree.

**Fade engine** (`app/src/fade/actor.rs`, `state.rs`, `tick.rs`).  State:
active targets, the readiness barrier (generation, ping baseline, deadline and
waiter), pending zero-duration writes, one timer.  Operations: admission of a
scene recall, ticks, manual override, two newer pings releasing the barrier,
disconnect, lost events, abort.  Hard: facts that arrive while a fresh snapshot
is awaited; two deadlines served by one timer; termination of every fade
reported as started.

**Fade arithmetic** (`fade/curve.rs`, `fader_law.rs`): floating-point curves.

**Lifecycle** (`app/src/lifecycle/mod.rs`, `runtime/generation.rs`).  State: the
authoritative `RuntimeGeneration`, the installed runtime, the connection
transaction.  Operations: begin connecting, install, finalize metadata, hand the
peers to Scenes, abort, clear.  Hard: every await lies between a check of the
generation and its use; facts are published after the lock is released.
Correct when: a superseded transaction changes nothing any more.

**AppEventBus** (`runtime/events.rs`, `state.rs`).  Broadcast with loss, retained
snapshots, the persisted-session-revision gate.

**LV1 actor** (`lv1/actor.rs`, `state.rs`, `connection.rs`, `handle.rs`).  State:
the transport session, mirrored console state, the observation sequence, the
buffer that pairs scene index and name, a writer queue of 64, ping and pong
times.  Hard: reconnection inside a generation, a full writer queue, ping
timeout.  **Wire protocol** (`lv1/osc.rs`, `parsers.rs`, `tcp.rs`,
`discovery.rs`, `probe.rs`): bytes and sockets.

**Cue lists** (`cue_lists/*.rs`).  Cue documents, the cued entry, a GO that
waits for Scenes' reply and advances.  **Show** (`show/*.rs`).  The session
file, dirty tracking, recovery, lockout (a watch channel), guarded replacement.
**Session replacement ticket** (`session.rs`).  Commit against cancellation.
**Settings** (`settings/*.rs`).  Remembered identity, staged publication.
**Updates** (`updates/*.rs`).  Epochs, one pending check or download, a queued
automatic check.  **Projector** (`projector/*.rs`).  Folds events into the view,
recovers from loss with snapshots.  **Native UI** (`native_ui/*.rs`).  Rendering,
input, the guard against discarding a dirty session.  **Assembly, files, logs,
tools** (`application/`, `show_file.rs`, `atomic_file.rs`, `logging.rs`,
`dev-tools/`).

### Interactions

    UI --commands--> Scenes, CueLists, Show, Settings, Updates (mailbox + oneshot reply)
    CueLists --RecallScene--> Scenes (its own mailbox; the reply is awaited by CueLists)
    Scenes --request_checked--> LV1 (snapshot, RecallScene; fenced by generation and lockout)
    Scenes --send_fade_checked--> Fade (admission reply + readiness channel)
    Fade --writes, snapshot--> LV1; LV1 --frames--> console
    LV1, Fade, Lifecycle, ... --facts--> AppEventBus --> every actor (lossy, per receiver)
    Lifecycle --ScenesPeers + RuntimePeersReady--> Scenes (shared slot + mailbox)
    Show --lockout watch--> Scenes, Fade (latest value only)
    Show --ReplaceSession ticket--> Scenes, CueLists, Settings

Two channels between the same two parties are not ordered with respect to each
other.  That, the loss of events and the many cancellation paths are where this
program is hard, so the plan starts there.

## 2. Plan

| # | Module | Models | Status |
|---|--------|--------|--------|
| 1 | `RecallFifo` | what Scenes promises the callers of a recall | done |
| 2 | `ScenesRecall` | Scenes' recall transaction with the coordinator, and its neighbours as it observes them | done |
| 3 | `FadeContract`, `FadeEngine` | what Scenes relies on; admission, readiness barrier, targets, overrides, pending writes | done |
| 4 | `Connections`, `Lifecycle` | what the lifecycle promises; begin, install, finalize, reject, clear and discovery with their awaits and publications | done |
| 5 | `ShowSession`, `SessionGuard` | save, load, dirty tracking, held command, revision gate, replacement ticket; the window's guard and lane over them | done |
| 6 | `Updates` | epochs, pending operation, queued automatic check, plans at exit | done |
| 7 | `Projector` over `Connections` | lag recovery, bounded queue, the view | done |
| 8 | `Lv1Actor` | sessions, writer queue, ping timeout, scene pair buffer | done |
| 9 | `SceneLibrary`, `CueLists` over it | alignment with the desk's list; cue documents and GO | done |
| 10 | `*Proofs` | theorems about 2 to 9, and the refinements of `RecallFifo`, `FadeContract` and `Connections` | section 5 |
| 11 | `SceneGate`, `Settings` | the arming gate and edit suppression; replacing settings and their file | planned |
| 12 | composition | `ScenesRecall` over `FadeEngine` and `Lifecycle` in place of their observed interfaces | planned |

Modules are composed where components interact closely: `SessionGuard` extends
`ShowSession`, `CueLists` extends `SceneLibrary`, and `Projector` runs in the world that
`Connections` promises, which `Lifecycle` is shown to keep.

## 3. `ScenesRecall`: how the model corresponds to the code

One action of the Scenes actor is one turn of `scenes/actor.rs`' select loop,
with everything the handler calls.  The groups are those of the code:

| Model | Code |
|-------|------|
| `ReceiveStale` ... `ReceiveLagged` | the event branch, by event |
| `FinishLagRecovery` | `pending_lag_recovery` completing |
| `HoldCommand`, `RecallCommand`, `StoreCommand`, `PeersReadyCommand`, `ReplaceCommand` | the scene mailbox; the held slot is served first |
| `CueCommand`, `CueComplete` | the cue mailbox and its pending reply |
| `ReadinessLost`, `ReadinessStartsInterval`, `ReadinessReleases` | the in-flight readiness channel |
| `IntervalElapsed`, `SafetyDeadline`, `LateExpires` | the coordinator's deadlines |
| `LockoutChanged` | `lockout.changed()` |
| `SettleIgnored`, `SettleSuppressed`, `SettleObserved` | the settling of an observation |
| `AcceptRecall`, `HandoffSend` | the awaits of a pending operation that change another actor |
| `FinishOutdated`, `Admission*`, `Dispatch*`, `Observation*`, `Handoff*` | `finish_pending_recall` by operation and outcome |
| `FinishStore` | `finish_pending_snapshot` |

State: `op` is `pending_recall` together with the coordinator token it holds;
`waiting`, `inflight`, `pendingObs` and `late` are the coordinator's; `store`,
`cue`, `held`, `active`, `status`, `cached` carry their fields' names.  `reply`
and `chan` are the oneshot channels.  `quiet` is `events.is_empty()`: the code
evaluates this guard when the select is entered and then waits, so an operation
may complete although an event has arrived since.  The model keeps that window:
`quiet` is set at the end of each turn and not changed by `Publish`.

Every neighbour is reduced to what Scenes can tell apart:

* *Lifecycle*: `Connect`, `OfferPeers`, `ClearRuntime`.  `Connect` is
  `begin_connecting` and the installation, which Scenes cannot separate.
  `OfferPeers` writes `ScenesPeers` and sends `RuntimePeersReady`.
* *LV1 and console*: `Lv1Connected`, `Lv1Lost`, acceptance of a recall
  (`AcceptRecall`), and a console that answers each accepted recall
  (`ConsoleEcho`), stays silent (`ConsoleSilent`) or announces a scene on its own
  (`ManualRecall`).  The console is outside the repository.
* *Fade*: a mailbox, an admission answer and the readiness barrier
  (`FadeAdmit`, `FadeRefuse`, `FadeBarrierEnds`).
* *Bus*: an unbounded queue, and `Overrun`, after which the receiver sees
  `Lagged`, resubscribes and has lost the backlog.
* *Show*: `FlipLockout`; the watch keeps only the latest value.

What is abstracted:

* **Time.**  A running deadline may elapse at any moment; the recall interval is
  zero or not, freely, in each release.
* **Data.**  Whether a snapshot arrives, a scene configuration is valid, the
  policy starts a fade or the second policy decision agrees is chosen freely.
* **Two steps in one.**  The snapshot reply is merged with the turn that consumes
  it.  The acceptance by LV1 and its place in LV1's queue are one step.  The old
  runtime's tasks are dropped in one step.
* **An exact observation** that arrives after its deadline is the deadline's own
  action, since both cancel.
* **Left out** because they cannot happen or concern no recall: results of
  `finish_dispatch` and `accept_readiness` that the check at the start of the
  same turn already excludes, shutdown and closed channels, settings events, the
  scene-editing commands.

`RecallFifo` is the abstract specification: a bounded queue, one request
through at a time, "ok" exactly at dispatch, all refused on a cancellation.  The
refinement mapping takes the request being dispatched as the queue's head and the
recall in flight as `current`.

### `FadeEngine`

One engine serves one connection generation; the model is its loop
(`fade/actor.rs`).  A command is served in place (`job.kind = "call"`), in stages:
`asking` for the snapshot while facts go on being processed, `answered`, `draining`
the facts queued at that moment, `admitting` under the generation lock, `announce`.
A write (`"tick"` or `"zero"`) leaves the loop running in the stage `reserving`;
commands are then deferred and ticks held back.  `biased` makes the select's order
a guard: the timer, then commands, then the reservation, then events, then the tick.

| Model | Code |
|-------|------|
| `ReadinessTimeout` | the timer branch, and the elapsed deadlines checked around a snapshot |
| `TakeCommand`, `Defer` | the command branch without and with a pending write |
| `CallEvent`, `TakeAnswer`, `DrainEvent`, `DrainEnd` | `await_snapshot_with_facts`; `DrainEvent` also `drain_ready_app_events` |
| `Refuse`, `ProposeZero`, `Admit`, `Announce` | `handle_recall_scene_fade`, `handle_wait_for_recall_readiness`, `finish_recall_admission` |
| `AdmissionTurn`, `SendTick`, `CommitTick`, `SendZero`, `CommitZero` | `finish_pending_write`, with the lock's awaits between |
| `PingFact` ... `LagFact` | `process_app_event`, by event |
| `Tick`, `EngineStop` | the tick branch and the end of the loop |

Abstracted: values and curves (a running target becomes due at some time, any
target may have moved far enough to be written, a report is beyond the override
threshold or not); the capacity of the mailboxes (a reservation is granted at any
time); reply errors (all are "err"); width, which behaves as balance.  Time is a
clock of a few ticks, because deadlines are compared with each other.  `running`
is history: whether the last of FadeStarted, FadeCompleted and FadeAborted was
FadeStarted.  `fresh` is history: the pings LV1 sent after a command's snapshot in
the same transport session.  `honor` is history: the facts queued when a write's
turn began, less those the receiver lost.  The closing of the event bus, which happens only with
the application, is left out.

`FadeContract` is what Scenes relies on: commands take effect in order, one barrier
at a time, and a readiness channel is never dropped silently.  Its `box` is the
command being decided, those deferred and the mailbox.

### `Connections` and `Lifecycle`

`Lifecycle` runs requests (`tx`) as concurrent tasks; each is a program counter, the
generation it works for and, for a discovery, its probe.  Every await of
`lifecycle/mod.rs` is a step boundary.

| Model | Code |
|-------|------|
| `StartConnect`, `StartAuto`, `StartDisconnect`, `StartDiscover` | the entry points |
| `BeginProbe`, `Discovered`, `DiscoveryFails`, `ChooseTarget` | discovery under its lock; the automatic connect's choice |
| `AbortCurrent`, `BeginConnecting`, `Install`, `Connected` / `NotConnected` | abort, begin, install and wait |
| `ShowAccepts`, `InstallScenePeers`, `ScenesReady`, `StageRemembered`, `PublishRemembered`, `Accept` | acceptance by Show, Scenes and Settings |
| `RejectRuntime`, `RejectShow`, `FailMetadata`, `FailClear` | a candidate that is rejected or does not connect |
| `TakeLock`, `DropMetadata`, `DropRuntime` | disconnect under the transition lock |
| `Announce*` | publications, each a step after the change it announces |

`ClearRuntime` is `clear_runtime_transaction`'s part under the generation lock.  An LV1
actor exists as long as somebody holds a handle (`Running`), which is how a superseded
runtime can still be connected.  What the lifecycle's awaits wait for is free: a probe
finds any systems or fails, a candidate connects or does not.  `Connections` keeps of
this what a follower may rely on: each generation announced once, in any order; a
runtime installed once, after its generation was announced and while it is active.

### `ShowSession` and `SessionGuard`

A document is the last persisted edit in it, 0 for the blank one, and the operation
whose load changed it, if one did (`[edit, load]`): `Imported` is what generated
identities, alignment and cue reconciliation do to a file's document when it is opened, a
document no file holds with no edit of its own.  A file is a document and a lockout.
`Kept` says that no edit of a document is missing from the files, which is less than
that a file holds the document.  The bus carries only the persisted facts, as a counter, since each does the
same to Show: `Publish` advances document, revision and queue in one step, as the gate in
`runtime/events.rs` makes it.  `BusLag` loses any number of facts.

| Model | Code |
|-------|------|
| `ShowRecvFact`, `ShowRecvCommand`, `ShowHoldCommand`, `ShowTakeHeld`, `ShowFinish` | the branches of `show/actor.rs`' loop |
| `ShowQueryRevision`, `ShowQueryDrain`, `ShowQueryReply` | the session-state query: revision, queued facts, answer |
| `OpPrepare`, `OpReplace`, `OpGiveUp`; `OpAskDocument`, `OpWrite`, `OpDocumentTimesOut` | the pending operation, await by await |
| `ScenesReplace`, `ScenesReply`, `ScenesDocument` | Scenes' side, with the ticket and the gate |

`SessionGuard` adds the window: `lane` is the serial lane (a client of Show), `guard` the
pending session action with its phase, `pickers` and `restart` what an admitted action
still waits for.  `Continue` is what the guard does once it admits an action.  Files
start blank, as written by an earlier session.  An open whose load changed the document
ends dirty but does not advance the revision, as in the code: what a revision certifies
is therefore the persisted edits, and `CertificateTruth` and `NoUnsavedLoss` claim no
more.  `CleanIsKept` claims the whole document, and `GuardedCommitIsClean` is where the
difference shows (section 6).

### `Updates`

The loop of `updates/actor.rs`: `turn = "select"` is the select, `turn = "end"` the
code after it, which starts a queued automatic check.  The retained settings (`setting`)
are read wherever the code reads them, so a notification may lag behind.  What a check
finds is free.  A plan is the release and the channel revision of its download; the
window holds it, `Arm` and `Launch` are `updates/mod.rs`' authority over issued plans.

### `Projector`

`cache` is the active generation and whether its LV1 is connected, which stands for
everything derived from LV1; `retained` is the version of the retained state.  A
recovery is a sequence of reads (`SourceAnswers`, `Lv1Answers`, `GenerationRead`), each
of which sees the world of its moment; facts that arrive meanwhile wait in its queue.

### `Lv1Actor`

`phase` is where `run_actor` is; each transport session has a writer task of its own,
which may outlive its session and still deliver and acknowledge what it was given.
Frames arrive undamaged and in order, and the console announces a scene by an index and
a name frame of the same announcement, in either order; both are what TCP and the
console provide, not checks of the code.  Frames of one read are served one at a time,
which adds interleavings only.  `before` is history: the writes accepted by a flush's session
when it was queued.  The values of controls and malformed batches are left out.

### `SceneLibrary` and `CueLists`

A scene of the desk has an identity (`scene`) the protocol does not show, and a
configuration remembers the one it was made for (`of`); the code sees only index and
name.  `Align` is `align_by_current_lv1_order` with its order of preference: exact, by a
name unique on both sides, by a sole rename.  `clear` is history: every edition of the
list was seen, one at a time and with unique names, no linked configuration was deleted
and no session replaced.  Under it `ConfigFollowsScene` says alignment never guesses
wrongly; without it, it may.  One case of that: after a linked configuration is deleted, a scene deleted at the
desk leaves lists of equal length, and the sole-rename rule can match the wrong pair.
The window deletes unlinked configurations only.  `Kept` is the filter that keeps a
configuration's place when others go, a recursive function so that it can be reasoned
about; `edition` counts the desk's lists, `followed` is the one last aligned with.

`CueLists` adds the document of `cue_lists/state.rs` (`Result` is the command
dispatch), the cue mailbox and GO.  The recall behind a GO is a sequence of stages
(admission, queued, snapshot, dispatch, accepted or failed); `ScenesRecall` has the
whole.  A replacement is aligned at its commit; the time between alignment and commit
is `ShowSession`'s.  UUIDs are handed out in order, configurations' by `ids`, those of
lists and entries by `cueIds`.  There is one generation.  An empty list is not announced.
Renaming a list, which changes nothing the model keeps, is left out.

## 4. Runs

The environment is bounded by *scenarios* (`Budgets`, `Scenarios`): each scenario says
which requests are sent and how often each environment event may happen, and a run
starts from any of its scenarios.  That keeps combinations that do not interact apart
and lets one run ask one question of several situations.  Program steps are not
bounded.  Deadlock is not checked because a system with its budget spent and its
callers answered has nothing left to do.

| Run | Instance | Shows |
|-----|----------|-------|
| `recall_safety` | `MCScenesRecall`: three recalls and a lockout; a desk recall and a lockout; two lockouts around late echoes; a store with a cleared runtime, lost events and up to three generations; a recall, two GOs and a replacement | the refinement of `RecallFifo`; lockout drains intent; late answers start no independent fade; nobody is left without an answer; intent crosses neither a generation nor a session |
| `recall_liveness` | two recalls, two generations, clear, lost transport, lockout; fairness | every caller is answered, a recall in flight is always resolved |
| `finding_stranded_fifo` | two recalls and a desk recall; fairness | finding 1 of section 6: a caller is not answered |
| `fade_safety` | `MCFadeEngine`: a recall and a readiness wait with lost transport and events; a fade, a recall that takes over a target and a zero-duration recall, with revocation and a failed request; two reports over fader, pan and balance; one such report with lost transport | everything pauses behind a barrier and is driven without one; waiters are held; release is proved by pings of one session; queued facts come before writes; the refinement of `FadeContract` |
| `fade_liveness` | a recall and a readiness wait, revocation; fairness | commands are answered, barriers and fades end |
| `session_show` | two clients, one file; two operations, a query and a lag, or one operation, a lockout and a changed list; two generations | a clean titled session is what its file holds, changes of its load included; a clean answer certifies the edits up to its revision; a replacement is reported as it was committed |
| `session_guard` | the lane and a second client, one edit submitted and one from elsewhere, lockout, changed list, six operations; fairness | no edit is lost without consent; neither guard nor lane hangs |
| `updates` | two callers, two versions, the channel changes twice, the setting once; fairness | offered and launched plans follow the channel; commands are answered; the channel in force is checked |
| `projector` | two generations, a queue of one, one lag, one timeout, one lost connection; fairness | a settled view is true; it settles again and again |
| `lifecycle` | two requests of any kind, two consoles, one lost connection | a superseded request changes nothing; what is left is consistent; only a connected console is remembered; the refinement of `Connections` |
| `lv1` | two sessions, a queue of one; a read, a batch, a write and two flushes against reset, silence, stall, pings, announcements, dropped handles; fairness | the mirror is the session's; a confirmed flush is true; commands are answered; the actor ends with its handles |
| `library` | up to three scenes, three names; edits and a rename, loss, lag, link and delete; cue edits around one or two GOs with delete, save, replace | a ready library is current; configurations follow their scenes; the cue stays in the active list; a GO is confirmed only for what was recalled |

Further configurations are kept beside these and are checked the same way when the
part they concern changes: `recall_invariants` (the types and the parts of the
inductive invariant), `recall_generations` (generations with the expiry of late
identities), `recall_progress` (a desk recall with fairness) and `lifecycle_discovery`
(an older probe never replaces a newer result), all without error; and the other
`finding_*` of section 6, each of which TLC refutes.

Why the bounds suffice for the question each run asks.

*Recall*: capacity 2 with three requests reaches the full queue with one in flight, one
waiting and one refused; two scenes distinguish the exact observation from any other;
of three generations the first is used, the second is the cleared one without a
runtime and the third is used again, so an old fact can overtake both.  One
environment event of each kind can fall between any two steps of the transaction.
Many desk recalls combined with many losses are not explored.

*Fade*: two pings required and two confirmations are the code's values.  `MaxPing` 2
lets a barrier be released once per session, or fall short by one when a ping precedes
the snapshot.  `Timeout` and `MaxTime` 2 give two commands different deadlines, in
either order, and a moment after both.  Fader, pan and balance of one channel
distinguish an overlap, an override of one of several targets, and the two ways the pan
family is canceled.

*Lifecycle*: two requests meet at every pair of awaits; nothing bounds the
generations, each request makes at most a few of them.  *Session*: one edit
unsaved and one file are enough to tell kept from lost; two operations put a held command
behind a pending one and a late request behind a canceled one.  `MaxJobs` is large
enough never to bind.  *Updates*: two changes bring the channel back to where it was
under an operation of the first revision.  *Projector*: a queue of one overflows with
the second fact; two generations make a snapshot late.  *LV1*: two sessions put an old
writer beside a new session; a queue of one is full with a command or a pong in it.
*Library*: three scenes are the least in which a move is not a swap of all, and two
edits plus a rename reach every order of preference in the alignment.

Fairness.  `ScenesRecall` (`FairSpec`): weak fairness on each branch of the select loop.
tokio's `select!` polls the branches in random order and the guard `quiet` only delays
an operation while events remain, of which there are finitely many.  Timers do
elapse.  The operations' awaits are bounded by request timeouts.  The Fade engine
serves its mailbox and bounds its barrier by a deadline.  No fairness is assumed of
callers, lifecycle, LV1 or console.

`FadeEngine`: the engine's task as a whole is weakly fair, time passes, a running
target comes to its end, LV1 answers a snapshot or the request fails, and a begun
revocation is completed.  That LV1's mailbox gets room is assumed too: LV1 serves it
in every state, while connecting and reconnecting as well (`lv1/actor.rs:360-381`).
The engine is biased towards commands and events; both are finite in an instance.

`SessionGuard`: the lane's task, the window's event loop, the awaited disconnect, Show's
loop, its operation and Scenes are weakly fair, as tasks of a running runtime whose
awaits have timeouts.  The user need not answer.  `Updates`: the end of a turn follows
it, and the branches that receive settings, commands and results are strongly fair, since
the select picks among ready branches at random and the recurring timer is always
another candidate.  `Projector`: each branch is weakly fair; nothing makes the world
move.  `Lv1Actor`: each branch is weakly fair, an attempt ends either way, the delay
ends, a writer goes on unless its socket takes no bytes; nothing is assumed of callers
or console.

## 5. Proofs

Eight modules hold theorems, each about the module whose name it carries
(`ShowSessionProofs` also about `SessionGuard`, `CueListsProofs` about `SceneLibrary`,
`ProjectorProofs` about `Connections`).
Every theorem holds for all values of the constants that satisfy the ASSUMEs of the
module.  Those say that bounds are natural numbers, that null values are none of the
values they stand beside, and what the code fixes: capacities and the pings of a barrier
are positive, commands of the kinds that the mailboxes carry, and desks whose initial
list is not empty.  No proof uses a bound on a counter except to type it.

`ScenesRecallProofs`

| Theorem | Says |
|---------|------|
| `TypeCorrect` | `Spec => []TypeOK`; the late identities stay within their capacity |
| `IntentCorrect`, and from it `CapacityCorrect`, `OneInFlightCorrect`, `LockoutCorrect`, `ProvenanceCorrect` | `IntentInv` = `OneInFlight`, `CapacityBound`, `LockoutDrainsIntent`, `IntentProvenance` |
| `GenerationCorrect`, `SessionCorrect` | nothing is accepted by LV1 for another generation or an earlier session |
| `CallersCorrect` | `NoLostCaller`: no reply channel is dropped |
| `FifoImplemented` | `Spec => ImplementsFifo`, the refinement of `RecallFifo` |
| `ReadinessCorrect` | `Spec => []ReadinessHasOwner`, from `ReadinessInv`: a recall that waits for readiness, which has no deadline of its own, has a channel that is resolved or whose sender the Fade engine holds, in its mailbox or in its barrier |
| `LateEchoCorrect` | `LateEchoSuppressed`, from `EpochInv`, `Accounted`, `EchoInv` and `LateInv` |

The four parts of `IntentInv` are needed together.  Capacity counts the request
being dispatched and the one in flight; that both never exist at once is
`OneInFlight`, and `OneInFlight` is preserved only because a dispatch starts from an
idle operation with no flight.  Provenance of the request being dispatched follows
from that of the queue's head.  Each action either keeps the intent variables
(`KeepIntent`), drops all intent (`DropIntent`), or moves a request along and has
its own proof.  `CallersInv` accounts for the callers on top of it: a caller waits
exactly while its request is held somewhere (`Remembered`), in one place (`Alone`,
`Once`) and under the kind it was sent with (`Kinds`).  `NoLostCaller` alone is not
inductive: a request that were held twice could be answered and still be waited for.
The refinement maps each action to a step of `RecallFifo` or a stutter and needs
`CallersInv` to know that what is answered "ok" is the abstract queue's head.

`LateEchoSuppressed` needs four more invariants.  `EpochInv` keeps the books of
generations: what the actor holds is of its active generation, and an actor behind the
authority has the fact of the new generation still before it.  `Accounted` says that
identities, retained or not, never outnumber the recalls LV1 accepted; so nothing is
evicted while those fit.  `EchoInv` says which announcements are on their way: each is of
one accepted recall, they come in the order of their sequences, and none is of a
generation in which Scenes has had no peers.  `LateInv` then is a matching (`Covered`): an
injection gives every announcement still to come an identity that it will match, one that
is retained or that of the recall in flight.  Counting per scene does not suffice, because
an identity matches only sequences after its own; and since correlation is by scene, an
announcement may use up the identity of another recall of the same scene, upon which the
two change places in the injection.

`FadeEngineProofs`

| Theorem | Says |
|---------|------|
| `TypeCorrect` | no two active targets share a key, and a barrier never holds as many pings as release it |
| `FrozenCorrect` | all targets are paused exactly while a barrier stands; inductive under the types |
| `DrivenCorrect` | no active target without a tick; inductive under the types |
| `WaiterCorrect` | `WaiterHeld`, from `WaiterInv` |
| `QueuedFactsCorrect` | `QueuedFactsFirst`, from `HonorInv` |
| `ContractImplemented` | `Spec => ImplementsContract`, the refinement of `FadeContract`, from `OrderInv` |
| `ReleaseCorrect` | under `ReleaseScope`: `ReleaseProof`, from `ReleaseInv` |

`WaiterHeld` alone is not inductive: `Announce` gives the command up, so its waiter has
to be with the barrier by then, which holds because a command without a completion has no
waiter and `Install` either settles the waiter or makes it the barrier's.  `HonorInv`
says that a fact queued when a write's turn began is still to be taken, or was obeyed.
`OrderInv` says that a command is in one place only and that one is waiting for a reply
as long as it is held.  `ReleaseInv` follows the pings that can still be counted: the
engine counts those it retained while it served a command and those it takes behind the
barrier, and no ping on the way is further from the last one counted than LV1 has sent
since the command's snapshot.  `ReleaseScope` leaves out the one situation in which the
property is false, an owned zero-duration recall sent where the receiver may lose
events: there `finding_zero_lag` shows the engine reporting readiness it has not proved.

`LifecycleProofs`

| Theorem | Says |
|---------|------|
| `OwnershipCorrect` | `ConnectionInv` is an invariant |
| `SupersededCorrect` | `SupersededChangesNothing` |
| `RememberedCorrect` | `RememberedWasConnected` |
| `QuietCorrect` | `QuietIsConsistent` |
| `ConnectionsImplemented` | `Spec => ImplementsConnections`, the refinement of `Connections` |

`ConnectionInv` says that a generation belongs to the one request that made it current,
until that request gives it up, and names nothing beyond the active one.  All the checks
of the code compare generations; the invariant is what makes equal generations mean the
same request.

`ShowSessionProofs`

| Theorem | Says |
|---------|------|
| `TypeCorrect` | `Spec => []TypeOK` |
| `OutcomeCorrect` | `OutcomeMatchesCommit`, from the part `TicketInv` of `SessionInv` |
| `CleanCorrect` | `CleanIsKept`, from the part `DocumentInv`: a clean session has lost no edit, and with a path and no open operation it is exactly what its file holds |
| `CertificateCorrect` | `CertificateTruth`, from the part `DocumentInv`: about edits, not about what a load changed |
| `GuardTyped` | `GuardSpec => []GuardTypeOK` |
| `NothingLost` | `NoUnsavedLoss` of `SessionGuard`, from `SessionInv` and `GuardInv`: no edit is lost |

`TicketInv` relates a ticket to the stage of its operation and to the request in Scenes'
mailbox.  `DocumentInv` says of each thing that may later make Show call the session
clean, a finished operation, a document on its way to a file, a drained query, a clean
answer held by a client, what it is worth: what it speaks of is kept, or an edit fact
not yet taken, a mark on the operation or a newer revision withdraws it.  What a
replacement installs is the document it was made from or, only if the operation knows it,
that document changed by its load (`Source`); so an open that ends clean changed nothing.

The steps of `SessionGuard` are steps of `ShowSession` with any well-formed command
(`Move`), not those of its `Next`: the lane carries a revision longer than a client of
`ShowSession` does.  `SessionInv` is therefore proved for `Move`.  What a revision is good
for is said once: one is *worth* something (`Worthy`) when it is past or, if it is the
current one, no edit is missing from the files.  No step makes a worthy revision worthless
(`BacksStep`): an edit makes every revision past, and what else changes the documents or
the files leaves kept documents.  So it is enough that revisions start worthy, with a clean
answer, and that they are only handed on: client, event, guard, picker or awaited
disconnect, job, command, operation, request (`ShowCarries`, `GuardCarries`).  At the
gate the revision is the current one, and the documents are kept.  For the edits in the
lane `EpochTrue` knows that a job of the current epoch has no edit behind it; what a
query of that epoch reports, it reports with no edit in the lane.

`UpdatesProofs`: `PlanCorrect` (`PlanInv`) and `ChannelCorrect` (`PlansFollowChannel`).
Whatever is bound to the latest channel revision, wherever it is, was found on the channel
now selected; a revision is never used twice, so a channel that comes back does not
bring its old plans back.

`Lv1ActorProofs`

| Theorem | Says |
|---------|------|
| `TypeCorrect` | `Spec => []TypeOK` |
| `MirrorCorrect` | `MirrorOfSession`, from `PairsInv` |
| `FlushCorrect` | `FlushTruth`, from `OrderInv` |

`PairsInv` knows that the half in the scene buffer and the frames still to be read are
neighbouring halves of announcements of the present session.  `OrderInv` knows that what
a flush promises stands before it in the queue of its session, whichever writer, old or
new, works it off.

`CueListsProofs`

| Theorem | Says |
|---------|------|
| `ReadyCorrect` | `ReadyIsCurrent`, from `ReadyInv` |
| `ConfinedCorrect` | `CueConfined`, from `CueInv` |
| `GoCorrect` | `GoTruth`, from `GoInv` |
| `FollowsCorrect` | `ConfigFollowsScene`, from `FollowInv` |

`ReadyInv` knows that the last fact queued tells the truth about LV1, and that a snapshot
of the present revision does once the queue is empty.  `CueInv` knows the shape of the
cue document, above all that its lists have different UUIDs: otherwise deleting one list
could leave a cue that is an entry of another.  `FollowInv` remembers the desk's past,
edition by edition: each edition follows from the one before (`Follows`) with all its
names kept and scenes moved, added or removed (`Carried`), or with one scene renamed in
place (`Renamed`); every list on its way to Scenes is one of them; and the configurations
represent the edition they were last aligned with, under unique UUIDs (`Perfect`).
`AlignPerfect` proves that one alignment turns configurations perfect for one edition
into configurations perfect for the next, by induction over the scenes of the list.

`ProjectorProofs`: `ViewCorrect` (`ViewIsTrue`), from `FollowInv`.  What the projector has
yet to apply, the facts that wait for a recovery followed by those still on the bus, is a
promise (`Trail`): its last fact about the active generation tells whether LV1 is up, and
the generation it ends with may be superseded only while a later one is still to be
announced.  Once nothing to come mentions the active generation, the cache (`Known`) or
what a recovery has read (`Read`) is already right; a recovery that must restart owes
nothing.  A full queue drops the beginning of the promise and a lag all of it, and both
leave a recovery that reads again.  `ReplayKnown` shows by induction that replaying the
queue on what was read keeps the promise for the rest.

Induction.  The library's induction theorems take a predicate as a parameter, which no
installed prover instantiates.  `CueListsProofs` and `ProjectorProofs` therefore state
induction for *sets* of numbers (`LeastNatural`, `SetInduction`) and the existence of a
recursive function for a set of values and a step function (`Recursion`), prove both from
the well-foundedness of `<` on the naturals, and reason with them about the recursive
functions `Kept`, `Aligned` and `Replay` of the models for sequences of every length.

Every invariant that a run checks is stated by a theorem.  Only model-checked is what
must eventually happen: the callers of `ScenesRecall` and `FadeEngine`, `BarrierEnds`,
`EveryFadeEnds`, `GuardResolves`, `EveryJobFinishes`, the requests of `Updates` and
`Lv1Actor`, `PolicyChecked`, `ViewSettles`, `ActorEnds`.  Liveness under fairness is
beyond the prover.

## 6. Where code and documentation disagree

1. `finding_stranded_fifo`: the FIFO stops.  When the post-readiness interval
   elapses while a desk observation is being processed, nothing is started, and the
   completion of that operation starts nothing either (`scenes/actor.rs:752`).
2. `finding_stale_generation`: the fact of an older generation moves Scenes back and
   removes the current peers (`scenes/actor.rs:377`), although consumers are said to
   ignore stale generations.
3. `finding_ready_without_peers`: a disconnect before the handover skips
   AwaitingPeers (`scenes/actor.rs:365`).
4. `finding_dispatched_fails`: a cancellation between LV1's acceptance and the
   actor's next turn fails the caller of a recall the console carries out
   (`scenes/actor.rs:1482`).
5. `finding_zero_lag`: events lost while a zero-duration write waits do not mark the
   barrier it installs (`fade/actor.rs:340`, `:618`); pings of another transport
   session can then report readiness.
6. `finding_unterminated_fade`: the completion of a fade whose last targets a
   zero-duration recall removed is lost, not deferred (`fade/actor.rs:457`).
7. `finding_shared_deadline`: a pending zero-duration write's deadline times out the
   barrier of another recall (`fade/actor.rs:186`).
8. `finding_disconnect_identity`: a disconnect that succeeded can leave Show reporting a
   connected console (`lifecycle/mod.rs:672`), although its contract says an `Ok` result
   has cleared the metadata: a connect of the same generation accepts between its two
   steps.
9. `finding_announcement_order`: a generation is announced after the lock under which it
   advanced is released (`lifecycle/mod.rs:360`), so two can be announced in the opposite
   order and Scenes ends on the older one, with nothing left to correct it.
10. `finding_unsaved_lockout`: a lockout change advances the persisted-session revision and
    is stored in the file, but does not mark the session dirty (`show/actor.rs:437`,
    against `docs/architecture.md:29`, `site/docs/application-shell.md:59`).
11. `finding_stale_alignment`: a replacement is committed although LV1's scene list changed
    between its last validation and the commit (`show/actor.rs:866`: success requires the
    LV1 of the moment to report the list used to construct the replacement).
12. `finding_late_session`: Scenes clears the retained identities when it hears of a lost
    transport session (`scenes/actor.rs:369`), although a canceled recall's identity is said
    to be kept for up to five seconds (`docs/scene-recall.md:121`).  If that news reaches it
    only after the next session has accepted a recall, the announcement of this recall
    counts as one at the desk.  The proof of `LateEchoCorrect` failed on it first;
    `LateEchoSuppressed` therefore leaves out behaviours in which a session is lost.
13. `finding_normalized_open`: a replacement leaves the persisted-session revision alone
    (`runtime/events.rs:93`), although an open whose load changed the document ends dirty
    (`show/actor.rs:790`, `:984`, `:1011`), and a file picker does not block session
    actions (`native_ui/app.rs:822`).  A clean answer given while a picker is open is still
    current when the file picked has been opened and changed, and admits a replacement of
    that dirty session without a question, against `site/docs/application-shell.md:59`.
    What is lost is what the load changed, never an edit (`NothingLost`).

The first is a run of `PROJECT.json`; the others are configurations of the same names, 2
to 4 and 12 for `MCScenesRecall`, 5 to 7 for `MCFadeEngine`, 8 and 9 for `MCLifecycle`, 10
and 11 for `MCShowSession`, 13 for `MCSessionGuard` (two guarded actions, two operations,
one file and no edits).

Read, not run: `begin_connecting` clears nothing, so a connect whose abort was superseded
allocates its generation over an installed runtime (`lifecycle/mod.rs:780`); a candidate rejected in place leaves the identity Show
reports (`lifecycle/mod.rs:376`) until the next connect or disconnect.

Runs avoid what a finding breaks: `fade_liveness` has no zero-duration recalls, the
scenario of `fade_safety` that has one loses no events, and `recall_liveness` has no desk
recalls.

## 7. Not modelled

See `PROJECT.json` for every part.  Floating-point curves, byte encoding, sockets,
multicast, file formats, rendering and logging are outside what these tools
decide: their correctness is about values, not about order.  Of the actors, these are
left out: the commands that edit a configuration's contents, and the policy's arming
gate and edit suppression, which decide freely in `ScenesRecall`; Settings' file;
Show's file list and shutdown; the projector's aggregation of fades.

The share of the source that the models map is low because most lines of `app/` are
tests beside the code, rendering, formats and probes; the loops, handlers and
protocols of the actors, which are the rest, are modelled nearly whole.

Until the composition exists, what `ScenesRecall` says of Fade and the lifecycle is
what Scenes can observe.
