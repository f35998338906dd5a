---------------------------- MODULE ScenesRecall ----------------------------
(***************************************************************************)
(* The Scenes actor (scenes/actor.rs) with the RecallCoordinator it owns   *)
(* (scenes/recall_coordinator.rs): how an explicit scene recall is         *)
(* admitted, queued, dispatched to the LV1 console, correlated with the    *)
(* console's scene observation, handed to the Fade engine and released,    *)
(* while connections come and go, lockout is toggled, events are lost,     *)
(* sessions are replaced and the operator recalls scenes at the console.   *)
(*                                                                         *)
(* One Scenes action is one turn of the actor's select loop.  Everything   *)
(* the actor exchanges messages with is reduced to what it can observe:    *)
(* the lifecycle (generation, peers), the LV1 actor and console            *)
(* (acceptance of a recall, scene observations), the Fade engine (its      *)
(* mailbox and its readiness barrier), Show (lockout) and the callers.     *)
(*                                                                         *)
(* Time is abstract: a deadline that is running may elapse at any moment.  *)
(* Snapshots and stored configurations are abstracted to whether a         *)
(* validation that reads them succeeds, which is chosen freely.            *)
(***************************************************************************)
EXTENDS Integers, Sequences, FiniteSets, SequencesExt

CONSTANTS
    Requests,         \* callers' requests: recalls, GOs, stores, replacements
    CueRequests,      \* those of Requests that are cue-list GOs
    StoreRequests,    \* those that store a scene from the current LV1 state
    ReplaceRequests,  \* those that replace the session document
    Scenes,           \* exact LV1 scene identities (index and name)
    SceneOf,          \* the scene each recall request asks for
    NoReq,            \* "no request"
    Capacity,         \* RECALL_QUEUE_CAPACITY
    LateCapacity,     \* LATE_CANCELED_OBSERVATION_CAPACITY
    MaxGen,           \* bound: connection generations allocated
    Budgets           \* bounds: the scenarios a behaviour may start with

EnvKinds == {"manual", "lost", "lag", "flip", "clear", "expire"}

ASSUME RequestsAssumption ==
    /\ NoReq \notin Requests
    /\ CueRequests \subseteq Requests
    /\ StoreRequests \subseteq Requests \ CueRequests
    /\ ReplaceRequests \subseteq Requests \ (CueRequests \cup StoreRequests)
    /\ SceneOf \in [Requests -> Scenes]
ASSUME CapacityAssumption == Capacity \in Nat \ {0} /\ LateCapacity \in Nat \ {0}
\* A scenario: how often each environment event may happen and has happened, which
\* callers ask and how many generations are allocated.
BudgetRecords == [env : [EnvKinds -> Nat], spent : [EnvKinds -> Nat],
                  callers : SUBSET Requests, gens : 0 .. MaxGen]

ASSUME BoundsAssumption == MaxGen \in Nat /\ Budgets \subseteq BudgetRecords

VARIABLES
    \* lifecycle
    gen,            \* RuntimeGeneration: the authoritative generation
    handover,       \* "none", "connecting" (runtime installed), "offered" (peers given)
    peers,          \* generation of the peers in ScenesPeers, 0 when none
    \* LV1 actor and console
    lv1Up,          \* the LV1 actor of the installed runtime is Connected
    obsSeq,         \* scene_observation_sequence of the transport session
    toConsole,      \* recalls the console has received and not yet announced
    accepted,       \* history: requests whose RecallScene LV1 accepted
    \* Fade engine of the installed runtime
    fadeBox,        \* readiness owners of the commands in its mailbox
    barrier,        \* its readiness barrier: {} or the singleton of its owner
    \* AppEventBus receiver of the Scenes actor
    events,         \* events published and not yet received
    lagged,         \* the receiver has lost events
    quiet,          \* events.is_empty() when the current select was entered
    \* mailboxes
    sceneBox, held, \* ScenesCommand mailbox and held_scene_command
    cueBox,         \* CueListsCommand mailbox (GO only)
    \* Scenes actor
    active,         \* active_generation
    status,         \* scene_library_status
    cached,         \* cached_scene_list is Some
    lagRecovery,    \* generation of a pending_lag_recovery still able to apply, or 0
    op,             \* pending_recall
    store,          \* pending_snapshot
    cue,            \* the cue recall CueLists is waiting for, or NoReq
    lockout,        \* Show's lockout value
    lockoutUnseen,  \* the Scenes actor's watch receiver has an unseen change
    \* RecallCoordinator
    waiting, inflight, pendingObs, late,
    \* oneshot channels
    reply,          \* the caller's (for a GO: CueLists') reply channel
    chan,           \* the readiness channel of a request in flight
    \* history and bounds
    bornGen,        \* generation in which a request entered the FIFO
    bornSession,    \* session in which the request was issued
    session,        \* session replacements committed
    budget

lifecycleVars == <<gen, handover, peers>>
lv1Vars       == <<lv1Up, obsSeq, toConsole, accepted>>
fadeVars      == <<fadeBox, barrier>>
busVars       == <<events, lagged>>
mailVars      == <<sceneBox, held, cueBox>>
libraryVars   == <<active, status, cached, lagRecovery>>
lockVars      == <<lockout, lockoutUnseen>>
coordVars     == <<waiting, inflight, pendingObs, late>>
replyVars     == <<reply, chan>>
historyVars   == <<bornGen, bornSession, session>>
worldVars     == <<lifecycleVars, lv1Vars, fadeVars, budget>>
vars == <<lifecycleVars, lv1Vars, fadeVars, busVars, quiet, mailVars, libraryVars,
          op, store, cue, lockVars, coordVars, replyVars, historyVars, budget>>

-----------------------------------------------------------------------------
(* Shapes of the state                                                     *)

Gens == 0 .. MaxGen
MaybeReq == Requests \cup {NoReq}
RecallRequests == Requests \ (StoreRequests \cup ReplaceRequests)

Msgs == [kind : {"recall", "store", "replace"}, req : Requests \ CueRequests, gen : {0}]
        \cup [kind : {"peersReady"}, req : {NoReq}, gen : Gens]
NoMsg == [kind |-> "none", req |-> NoReq, gen |-> 0]
Observations == [kind : {"scene"}, gen : Gens, seq : Nat, scene : Scenes, from : MaybeReq]
NoObs == [kind |-> "none", gen |-> 0]
Facts == [kind : {"sceneList", "disconnected", "generation"}, gen : Gens]
NoFlight == [req |-> NoReq, gen |-> 0, seq |-> 0, phase |-> "none"]
Flights == {NoFlight} \cup [req : Requests, gen : Gens, seq : Nat,
                            phase : {"observation", "readiness", "interval"}]
DispatchKinds == {"dispatchSnapshot", "dispatchCommand"}
Stages == {"asking", "sent", "accepted", "rejected"}
Ops == [kind : {"admission"} \cup DispatchKinds, req : Requests, gen : Gens, seq : Nat,
        from : MaybeReq, stage : Stages]
       \cup [kind : {"none", "obsSnapshot", "handoff"}, req : MaybeReq, gen : Gens, seq : Nat,
             from : MaybeReq, stage : Stages]
OpOf(kind, r, g) == [kind |-> kind, req |-> r, gen |-> g, seq |-> 0, from |-> NoReq,
                     stage |-> "asking"]
NoOp == OpOf("none", NoReq, 0)
NoStore == [req |-> NoReq, gen |-> 0]
Stores == {NoStore} \cup [req : Requests, gen : Gens]
LateEntries == [gen : Gens, seq : Nat, scene : Scenes]
NoChannels == [r \in Requests |-> "none"]

LifecycleOK ==
    gen \in Gens /\ handover \in {"none", "connecting", "offered"} /\ peers \in Gens
Lv1OK ==
    /\ lv1Up \in BOOLEAN /\ obsSeq \in Nat
    /\ toConsole \in Seq(Requests) /\ accepted \in SUBSET Requests
FadeOK == fadeBox \in Seq(MaybeReq) /\ barrier \in SUBSET MaybeReq
BusOK == events \in Seq(Facts \cup Observations) /\ lagged \in BOOLEAN /\ quiet \in BOOLEAN
MailOK ==
    /\ sceneBox \in Seq(Msgs) /\ held \in Msgs \cup {NoMsg} /\ cueBox \in Seq(CueRequests)
LibraryOK ==
    /\ active \in Gens /\ status \in {"awaitingPeers", "awaitingList", "ready"}
    /\ cached \in BOOLEAN /\ lagRecovery \in Gens
LockOK == lockout \in BOOLEAN /\ lockoutUnseen \in BOOLEAN
OpOK == op \in Ops
TurnOK == store \in Stores /\ cue \in CueRequests \cup {NoReq}
CoordOK ==
    /\ waiting \in Seq(Requests) /\ inflight \in Flights
    /\ pendingObs \in Observations \cup {NoObs}
    /\ late \in Seq(LateEntries) /\ Len(late) <= LateCapacity
ReplyOK ==
    /\ reply \in [Requests -> {"idle", "waiting", "ok", "err"}]
    /\ chan \in [Requests -> {"none", "open", "ok", "err"}]
HistoryOK ==
    /\ bornGen \in [Requests -> Gens] /\ bornSession \in [Requests -> Nat]
    /\ session \in Nat
BudgetOK == budget \in BudgetRecords

\* Every variable of the actor and of its neighbours keeps its shape: whatever
\* is being admitted, dispatched, in flight or in a mailbox names its request,
\* and at most LateCapacity identities of canceled recalls are retained.
TypeOK == /\ LifecycleOK /\ Lv1OK /\ FadeOK /\ BusOK /\ MailOK /\ LibraryOK /\ LockOK
          /\ OpOK /\ TurnOK /\ CoordOK /\ ReplyOK /\ HistoryOK /\ BudgetOK

Init ==
    /\ gen = 0 /\ handover = "none" /\ peers = 0
    /\ lv1Up = FALSE /\ obsSeq = 0 /\ toConsole = <<>> /\ accepted = {}
    /\ fadeBox = <<>> /\ barrier = {}
    /\ events = <<>> /\ lagged = FALSE /\ quiet = TRUE
    /\ sceneBox = <<>> /\ held = NoMsg /\ cueBox = <<>>
    /\ active = 0 /\ status = "awaitingPeers" /\ cached = FALSE /\ lagRecovery = 0
    /\ op = NoOp /\ store = NoStore /\ cue = NoReq
    /\ lockout = FALSE /\ lockoutUnseen = FALSE
    /\ waiting = <<>> /\ inflight = NoFlight /\ pendingObs = NoObs /\ late = <<>>
    /\ reply = [r \in Requests |-> "idle"] /\ chan = NoChannels
    /\ bornGen = [r \in Requests |-> 0] /\ bornSession = [r \in Requests |-> 0]
    /\ session = 0 /\ budget \in Budgets

-----------------------------------------------------------------------------
(* Helpers                                                                 *)

Spend(k) ==
    /\ budget.spent[k] < budget.env[k]
    /\ budget' = [budget EXCEPT !.spent[k] = @ + 1]
Publish(facts) == events' = events \o facts
Fact(k, g) == [kind |-> k, gen |-> g]

\* ScenesPeers::handles: peers are handed out only for their own generation.
HasPeers(g) == g > 0 /\ peers = g
Idle == op.kind = "none"
Busy == ~Idle \/ store # NoStore
\* The coordinator token the pending operation holds, with its caller's reply.
OpToken == IF op.kind \in {"admission"} \cup DispatchKinds THEN {op.req} ELSE {}

\* Mutant of Retained: nothing about the canceled recall is remembered.
RetainedNothing == late

\* LateCanceledObservations::retain and ::record
Retained ==
    IF inflight.phase = "observation"
    THEN Append(IF Len(late) = LateCapacity THEN Tail(late) ELSE late,
                [gen |-> inflight.gen, seq |-> inflight.seq, scene |-> SceneOf[inflight.req]])
    ELSE late

Failing(rs) == [r \in Requests |-> IF r \in rs THEN "err" ELSE reply[r]]
Answering(rs, result) == [r \in Requests |-> IF r \in rs THEN result ELSE reply[r]]

\* cancel_pending_recall followed by RecallCoordinator::cancel: the pending
\* operation and its token, the FIFO, the recall in flight and the unsettled
\* observation all go; the identities in retainedLate stay suppressed; others
\* are further callers refused in the same turn.
AbandonRecall(retainedLate, others) ==
    /\ op' = NoOp
    /\ waiting' = <<>> /\ inflight' = NoFlight /\ pendingObs' = NoObs
    /\ late' = retainedLate
    /\ reply' = Failing(ToSet(waiting) \cup OpToken \cup others)
    /\ chan' = NoChannels

\* Mutant of StartNext: the newest request is dispatched first.
StartNewest(queue, answers) ==
    /\ op' = IF queue = <<>> THEN NoOp
             ELSE OpOf("dispatchSnapshot", Last(queue), active)
    /\ waiting' = IF queue = <<>> THEN <<>> ELSE Front(queue)
    /\ reply' = answers /\ UNCHANGED pendingObs

\* start_next_recall_dispatch on the FIFO queue, answers being the replies
\* after the rest of the turn: the head becomes the pending operation's token.
\* Without peers the head and everything behind it is canceled.
StartNext(queue, answers) ==
    IF queue = <<>> \/ HasPeers(active)
    THEN /\ op' = IF queue = <<>> THEN NoOp
                  ELSE OpOf("dispatchSnapshot", Head(queue), active)
         /\ waiting' = IF queue = <<>> THEN <<>> ELSE Tail(queue)
         /\ reply' = answers
         /\ pendingObs' = IF HasPeers(active) THEN pendingObs ELSE NoObs
    ELSE /\ op' = NoOp /\ waiting' = <<>> /\ pendingObs' = NoObs
         /\ reply' = [r \in Requests |-> IF r \in ToSet(queue) THEN "err" ELSE answers[r]]

\* has_dispatchable_recall, and the dispatch it leads to
StartIfIdle(queue, answers) ==
    IF inflight = NoFlight
    THEN StartNext(queue, answers)
    ELSE op' = NoOp /\ waiting' = queue /\ reply' = answers /\ UNCHANGED pendingObs

\* The end of a turn: the next select evaluates events.is_empty().
EndTurn == UNCHANGED busVars /\ quiet' = (events = <<>> /\ ~lagged)

\* Mutant of Transition: the recalls of the old generation are kept.
TransitionKeepsRecalls(g, others) ==
    /\ active' = g
    /\ peers' = IF active # g /\ peers = active THEN 0 ELSE peers
    /\ reply' = Failing(others)
    /\ UNCHANGED <<op, coordVars, chan>>

\* transition_scene_generation, in a turn where the operations are canceled
\* as well.  The library is unavailable (cached' and status') until the rest of
\* the turn says otherwise.
Transition(g, others) ==
    /\ active' = g
    /\ peers' = IF active # g /\ peers = active THEN 0 ELSE peers
    /\ AbandonRecall(<<>>, others)

-----------------------------------------------------------------------------
(* Callers.  Sending never fails and never touches the actor.              *)

\* A recall, store or session replacement sent to the Scenes mailbox.
SendCommand(r) ==
    /\ r \in budget.callers /\ r \in Requests \ CueRequests /\ reply[r] = "idle"
    /\ reply' = [reply EXCEPT ![r] = "waiting"]
    /\ sceneBox' = Append(sceneBox,
         [kind |-> IF r \in StoreRequests THEN "store"
                   ELSE IF r \in ReplaceRequests THEN "replace" ELSE "recall",
          req |-> r, gen |-> 0])
    /\ UNCHANGED <<worldVars, busVars, quiet, held, cueBox, libraryVars, op, store, cue,
                   lockVars, coordVars, chan, historyVars>>

\* A GO sent to the CueLists mailbox.
PressGo(r) ==
    /\ r \in budget.callers /\ r \in CueRequests /\ reply[r] = "idle"
    /\ reply' = [reply EXCEPT ![r] = "waiting"]
    /\ cueBox' = Append(cueBox, r)
    /\ bornSession' = [bornSession EXCEPT ![r] = session]
    /\ UNCHANGED <<worldVars, busVars, quiet, sceneBox, held, libraryVars, op, store, cue,
                   lockVars, coordVars, chan, bornGen, session>>

\* Show accepts a lockout toggle: the watch channel keeps the latest value only.
FlipLockout ==
    /\ Spend("flip")
    /\ lockout' = ~lockout /\ lockoutUnseen' = TRUE
    /\ UNCHANGED <<lifecycleVars, lv1Vars, fadeVars, busVars, quiet, mailVars, libraryVars,
                   op, store, cue, coordVars, replyVars, historyVars>>

-----------------------------------------------------------------------------
(* Lifecycle                                                               *)

\* The old runtime's LV1 and Fade tasks go: their channels close.
DropRuntime ==
    /\ lv1Up' = FALSE /\ obsSeq' = 0 /\ toConsole' = <<>>
    /\ fadeBox' = <<>> /\ barrier' = {}
    /\ chan' = [r \in Requests |-> IF chan[r] = "open" THEN "err" ELSE chan[r]]
    /\ op' = IF op.kind = "handoff" /\ op.stage = "sent"
             THEN [op EXCEPT !.stage = "rejected"] ELSE op
    /\ UNCHANGED accepted

\* begin_connecting and install_runtime_transaction: a new generation, then its
\* runtime.  Peers of an older generation stay where they are.
Connect ==
    /\ handover = "none" /\ gen < budget.gens
    /\ gen' = gen + 1 /\ handover' = "connecting"
    /\ Publish(<<Fact("generation", gen + 1)>>)
    /\ DropRuntime
    /\ UNCHANGED <<peers, lagged, quiet, mailVars, libraryVars, store, cue, lockVars,
                   coordVars, reply, historyVars, budget>>

\* finalize_connection_metadata: a connected candidate's peers are installed
\* and RuntimePeersReady is sent.
OfferPeers ==
    /\ handover = "connecting" /\ lv1Up
    /\ handover' = "offered" /\ peers' = gen
    /\ sceneBox' = Append(sceneBox, [kind |-> "peersReady", req |-> NoReq, gen |-> gen])
    /\ UNCHANGED <<gen, lv1Vars, fadeVars, busVars, quiet, held, cueBox, libraryVars, op,
                   store, cue, lockVars, coordVars, replyVars, historyVars, budget>>

\* clear_runtime_if_current: abort_current_runtime and a failed connection
\* publish the new generation only; a user's disconnect publishes Disconnected
\* of the cleared generation first.
ClearRuntime(byUser) ==
    /\ Spend("clear") /\ gen < budget.gens
    /\ gen' = gen + 1 /\ handover' = "none"
    /\ peers' = IF peers = gen THEN 0 ELSE peers
    /\ Publish((IF byUser THEN <<Fact("disconnected", gen)>> ELSE <<>>)
               \o <<Fact("generation", gen + 1)>>)
    /\ DropRuntime
    /\ UNCHANGED <<lagged, quiet, mailVars, libraryVars, store, cue, lockVars,
                   coordVars, reply, historyVars>>

-----------------------------------------------------------------------------
(* LV1 actor, console and event bus                                        *)

\* A transport session is up and the console has sent its scene list.
Lv1Connected ==
    /\ handover # "none" /\ ~lv1Up
    /\ lv1Up' = TRUE
    /\ Publish(<<Fact("sceneList", gen)>>)
    /\ UNCHANGED <<lifecycleVars, obsSeq, toConsole, accepted, fadeVars, lagged, quiet,
                   mailVars, libraryVars, op, store, cue, lockVars, coordVars, replyVars,
                   historyVars, budget>>

\* The transport is lost: Disconnected is published within the generation and
\* the next session counts observations from 0 again.
Lv1Lost ==
    /\ Spend("lost") /\ lv1Up
    /\ lv1Up' = FALSE /\ obsSeq' = 0 /\ toConsole' = <<>>
    /\ Publish(<<Fact("disconnected", gen)>>)
    /\ UNCHANGED <<lifecycleVars, accepted, fadeVars, lagged, quiet, mailVars, libraryVars,
                   op, store, cue, lockVars, coordVars, replyVars, historyVars>>

Announce(s, cause) ==
    /\ obsSeq' = obsSeq + 1
    /\ Publish(<<[kind |-> "scene", gen |-> gen, seq |-> obsSeq + 1, scene |-> s,
                  from |-> cause]>>)
    /\ UNCHANGED <<lifecycleVars, lv1Up, accepted, fadeVars, lagged, quiet, mailVars,
                   libraryVars, op, store, cue, lockVars, coordVars, replyVars, historyVars>>

\* The console announces the scene of the oldest recall it received.
ConsoleEcho ==
    /\ lv1Up /\ toConsole # <<>>
    /\ toConsole' = Tail(toConsole)
    /\ Announce(SceneOf[Head(toConsole)], Head(toConsole))
    /\ UNCHANGED budget

\* The console does not announce it.
ConsoleSilent ==
    /\ lv1Up /\ toConsole # <<>>
    /\ toConsole' = Tail(toConsole)
    /\ UNCHANGED <<lifecycleVars, lv1Up, obsSeq, accepted, fadeVars, busVars, quiet, mailVars,
                   libraryVars, op, store, cue, lockVars, coordVars, replyVars, historyVars,
                   budget>>

\* The operator recalls a scene at the console.
ManualRecall(s) ==
    /\ Spend("manual") /\ lv1Up
    /\ Announce(s, NoReq)
    /\ UNCHANGED toConsole

\* The broadcast channel overruns the Scenes receiver.
Overrun ==
    /\ Spend("lag") /\ ~lagged
    /\ lagged' = TRUE
    /\ UNCHANGED <<lifecycleVars, lv1Vars, fadeVars, events, quiet, mailVars, libraryVars, op,
                   store, cue, lockVars, coordVars, replyVars, historyVars>>

-----------------------------------------------------------------------------
(* Fade engine: mailbox, admission and the readiness barrier               *)

\* Resolve the readiness channels of rs that are still open.
Settle(rs, result) == [r \in Requests |-> IF r \in rs /\ chan[r] = "open" THEN result ELSE chan[r]]

\* The pending handoff's command is the last one sent: its admission reply
\* arrives when the mailbox becomes empty.
HandoffAnswered(stage) ==
    IF op.kind = "handoff" /\ op.stage = "sent" /\ Len(fadeBox) = 1
    THEN [op EXCEPT !.stage = stage] ELSE op

\* The engine admits the head of its mailbox.  The new barrier supersedes the
\* previous one; a recall nobody owns may also finish without a barrier.
FadeAdmit ==
    /\ fadeBox # <<>>
    /\ fadeBox' = Tail(fadeBox)
    /\ op' = HandoffAnswered("accepted")
    /\ \/ barrier' = {Head(fadeBox)} /\ chan' = Settle(barrier, "err")
       \/ Head(fadeBox) = NoReq /\ UNCHANGED <<barrier, chan>>
    /\ UNCHANGED <<lifecycleVars, lv1Vars, busVars, quiet, mailVars, libraryVars, store, cue,
                   lockVars, coordVars, reply, historyVars, budget>>

\* It refuses it: deadline passed, LV1 not connected, or a write failed.
FadeRefuse ==
    /\ fadeBox # <<>>
    /\ fadeBox' = Tail(fadeBox)
    /\ op' = HandoffAnswered("rejected")
    /\ chan' = Settle({Head(fadeBox)}, "err")
    /\ UNCHANGED <<lifecycleVars, lv1Vars, barrier, busVars, quiet, mailVars, libraryVars, store,
                   cue, lockVars, coordVars, reply, historyVars, budget>>

\* Two newer pings release the barrier, or its deadline, a disconnect or lost
\* events end it.
FadeBarrierEnds(result) ==
    /\ barrier # {}
    /\ barrier' = {} /\ chan' = Settle(barrier, result)
    /\ UNCHANGED <<lifecycleVars, lv1Vars, fadeBox, busVars, quiet, mailVars, libraryVars, op,
                   store, cue, lockVars, coordVars, reply, historyVars, budget>>

-----------------------------------------------------------------------------
(* Scenes actor: the event branch                                          *)

Receive(kind) ==
    /\ ~lagged /\ events # <<>> /\ Head(events).kind = kind
    /\ events' = Tail(events) /\ UNCHANGED lagged
    /\ quiet' = (Tail(events) = <<>>)

Current == Head(events).gen = active

ReceiveStale ==
    /\ \E kind \in {"sceneList", "scene", "disconnected"} :
         /\ Receive(kind)
         /\ ~Current \/ (kind = "scene" /\ status # "ready")
    /\ UNCHANGED <<worldVars, mailVars, libraryVars, op, store, cue, lockVars, coordVars,
                   replyVars, historyVars>>

\* A scene list makes the library ready, whatever the peers, unless the actor
\* is awaiting them: then it is kept for RuntimePeersReady.
ReceiveSceneList ==
    /\ Receive("sceneList") /\ Current
    /\ lagRecovery' = 0
    /\ IF gen = active
       THEN /\ cached' = (cached \/ status = "awaitingPeers")
            /\ status' = IF status = "awaitingPeers" THEN status ELSE "ready"
       ELSE UNCHANGED <<cached, status>>
    /\ UNCHANGED <<worldVars, mailVars, active, op, store, cue, lockVars, coordVars, replyVars,
                   historyVars>>

ReceiveScene ==
    /\ Receive("scene") /\ Current /\ status = "ready"
    /\ pendingObs' = Head(events)
    /\ UNCHANGED <<worldVars, mailVars, libraryVars, op, store, cue, lockVars, waiting, inflight,
                   late, replyVars, historyVars>>

StoreToken == IF store = NoStore THEN {} ELSE {store.req}

\* Mutant of ReceiveDisconnected: the pending store is dropped unanswered.
ReceiveDisconnectedForgetsStore ==
    /\ Receive("disconnected") /\ Current
    /\ lagRecovery' = 0 /\ cached' = FALSE /\ status' = "awaitingList"
    /\ store' = NoStore
    /\ AbandonRecall(<<>>, {})
    /\ UNCHANGED <<worldVars, mailVars, active, cue, lockVars, historyVars>>

ReceiveDisconnected ==
    /\ Receive("disconnected") /\ Current
    /\ lagRecovery' = 0 /\ cached' = FALSE /\ status' = "awaitingList"
    /\ store' = NoStore
    /\ AbandonRecall(<<>>, StoreToken)
    /\ UNCHANGED <<worldVars, mailVars, active, cue, lockVars, historyVars>>

ReceiveGeneration ==
    /\ Receive("generation")
    /\ IF Current
       THEN UNCHANGED <<libraryVars, peers, store, op, coordVars, replyVars>>
       ELSE /\ lagRecovery' = 0 /\ store' = NoStore
            /\ cached' = FALSE /\ status' = "awaitingPeers"
            /\ Transition(Head(events).gen, StoreToken)
    /\ UNCHANGED <<gen, handover, lv1Vars, fadeVars, mailVars, cue, lockVars, historyVars, budget>>

\* RecvError::Lagged: what is left of the backlog is discarded, the authority
\* is read, and a fresh snapshot is requested from the peers.
ReceiveLagged ==
    /\ lagged /\ lagged' = FALSE /\ events' = <<>> /\ quiet' = TRUE
    /\ active' = gen /\ status' = "awaitingList"
    /\ cached' = (cached /\ active = gen)
    /\ peers' = IF active # gen /\ peers = active THEN 0 ELSE peers
    /\ AbandonRecall(IF active = gen THEN Retained ELSE <<>>, {})
    /\ lagRecovery' = IF gen > 0 /\ peers' = gen THEN gen ELSE 0
    /\ UNCHANGED <<gen, handover, lv1Vars, fadeVars, mailVars, store, cue, lockVars, historyVars,
                   budget>>

\* The lag-recovery snapshot arrives, with or without an authoritative list.
FinishLagRecovery ==
    /\ quiet /\ lagRecovery # 0 /\ lagRecovery' = 0
    /\ \/ /\ lagRecovery = active /\ gen = active /\ HasPeers(active)
          /\ status' = "ready"
       \/ UNCHANGED status
    /\ EndTurn
    /\ UNCHANGED <<worldVars, mailVars, active, cached, op, store, cue, lockVars,
                   coordVars, replyVars, historyVars>>

-----------------------------------------------------------------------------
(* Scenes actor: the command branches                                      *)

HasCommand == held # NoMsg \/ sceneBox # <<>>
Command == IF held # NoMsg THEN held ELSE Head(sceneBox)
TakeCommand ==
    IF held # NoMsg THEN held' = NoMsg /\ UNCHANGED sceneBox
    ELSE sceneBox' = Tail(sceneBox) /\ UNCHANGED held
CanAdmit == status = "ready" /\ HasPeers(active)

\* Begin the admission of r: the pending operation asks LV1 for its state.
BeginAdmission(r) == op' = OpOf("admission", r, active)

\* While an operation is pending a command other than a replacement is held.
HoldCommand ==
    /\ Busy /\ held = NoMsg /\ sceneBox # <<>> /\ Head(sceneBox).kind # "replace"
    /\ held' = Head(sceneBox) /\ sceneBox' = Tail(sceneBox)
    /\ EndTurn
    /\ UNCHANGED <<worldVars, cueBox, libraryVars, op, store, cue, lockVars, coordVars,
                   replyVars, historyVars>>

RecallCommand ==
    /\ ~Busy /\ HasCommand /\ Command.kind = "recall" /\ TakeCommand
    /\ IF CanAdmit
       THEN BeginAdmission(Command.req) /\ UNCHANGED reply
       ELSE reply' = Failing({Command.req}) /\ UNCHANGED op
    /\ EndTurn
    /\ UNCHANGED <<worldVars, cueBox, libraryVars, store, cue, lockVars, coordVars, chan,
                   historyVars>>

StoreCommand ==
    /\ ~Busy /\ HasCommand /\ Command.kind = "store" /\ TakeCommand
    /\ IF CanAdmit
       THEN store' = [req |-> Command.req, gen |-> active] /\ UNCHANGED reply
       ELSE reply' = Failing({Command.req}) /\ UNCHANGED store
    /\ EndTurn
    /\ UNCHANGED <<worldVars, cueBox, libraryVars, op, cue, lockVars, coordVars, chan,
                   historyVars>>

\* RuntimePeersReady, whose initial snapshot may or may not have a scene list.
PeersReadyCommand ==
    /\ ~Busy /\ HasCommand /\ Command.kind = "peersReady" /\ TakeCommand
    /\ IF gen # active THEN Transition(gen, {})
       ELSE UNCHANGED <<active, peers, op, coordVars, replyVars>>
    /\ \E initialList \in BOOLEAN :
         IF Command.gen = gen /\ HasPeers(gen)
         THEN /\ status' = IF (gen = active /\ cached) \/ initialList THEN "ready"
                           ELSE "awaitingList"
              /\ cached' = FALSE
         ELSE IF gen # active THEN cached' = FALSE /\ status' = "awaitingPeers"
              ELSE UNCHANGED <<cached, status>>
    /\ EndTurn
    /\ UNCHANGED <<gen, handover, lv1Vars, fadeVars, budget, cueBox, lagRecovery, store,
                   cue, lockVars, historyVars>>

\* Mutant of ReplaceCommand: queued GOs survive the replacement.
ReplaceKeepsCues ==
    /\ HasCommand /\ (Busy => held = NoMsg) /\ Command.kind = "replace" /\ TakeCommand
    /\ store' = NoStore
    /\ session' = session + 1 /\ cue' = NoReq /\ UNCHANGED cueBox
    /\ op' = NoOp /\ waiting' = <<>> /\ inflight' = NoFlight /\ pendingObs' = NoObs
    /\ late' = Retained /\ chan' = NoChannels
    /\ reply' = [Failing(ToSet(waiting) \cup OpToken \cup StoreToken)
                   EXCEPT ![Command.req] = "ok"]
    /\ EndTurn
    /\ UNCHANGED <<worldVars, libraryVars, lockVars, bornGen, bornSession>>

\* ReplaceSessionDocument, guarded or not.  A pending operation is canceled
\* before the generation, revision and ticket decide whether to commit.
ReplaceCommand ==
    /\ HasCommand /\ (Busy => held = NoMsg) /\ Command.kind = "replace" /\ TakeCommand
    /\ store' = NoStore
    /\ \/ /\ session' = session + 1 /\ cue' = NoReq /\ cueBox' = <<>>
          /\ op' = NoOp /\ waiting' = <<>> /\ inflight' = NoFlight /\ pendingObs' = NoObs
          /\ late' = Retained /\ chan' = NoChannels
          /\ reply' = [Failing(ToSet(waiting) \cup OpToken \cup StoreToken \cup ToSet(cueBox))
                         EXCEPT ![Command.req] = "ok"]
       \/ /\ IF Idle
             THEN /\ reply' = Failing({Command.req} \cup StoreToken)
                  /\ UNCHANGED <<op, coordVars, chan>>
             ELSE AbandonRecall(Retained, {Command.req} \cup StoreToken)
          /\ UNCHANGED <<session, cue, cueBox>>
    /\ EndTurn
    /\ UNCHANGED <<worldVars, libraryVars, lockVars, bornGen, bornSession>>

\* RecallCuedCue: without a cued entry the caller is refused; otherwise CueLists
\* waits for the recall it starts, refused or not.
CueCommand ==
    /\ ~Busy /\ cue = NoReq /\ cueBox # <<>> /\ cueBox' = Tail(cueBox)
    /\ \/ reply' = Failing({Head(cueBox)}) /\ UNCHANGED <<cue, op>>
       \/ /\ cue' = Head(cueBox)
          /\ IF CanAdmit
             THEN BeginAdmission(Head(cueBox)) /\ UNCHANGED reply
             ELSE reply' = Failing({Head(cueBox)}) /\ UNCHANGED op
    /\ EndTurn
    /\ UNCHANGED <<worldVars, sceneBox, held, libraryVars, store, lockVars, coordVars,
                   chan, historyVars>>

CueComplete ==
    /\ quiet /\ cue # NoReq /\ reply[cue] \in {"ok", "err"}
    /\ cue' = NoReq
    /\ EndTurn
    /\ UNCHANGED <<worldVars, mailVars, libraryVars, op, store, lockVars, coordVars,
                   replyVars, historyVars>>

-----------------------------------------------------------------------------
(* Scenes actor: readiness completion and timers                           *)

ReadinessArrived == quiet /\ inflight.phase = "readiness" /\ chan[inflight.req] \in {"ok", "err"}

\* Mutant of ReadinessLost: a failed readiness is ignored.
ReadinessLostIgnoresFailure ==
    /\ ReadinessArrived
    /\ gen # inflight.gen
    /\ AbandonRecall(<<>>, {})
    /\ EndTurn
    /\ UNCHANGED <<worldVars, mailVars, libraryVars, store, cue, lockVars, historyVars>>

\* The generation moved on, or readiness failed: everything is canceled.
ReadinessLost ==
    /\ ReadinessArrived
    /\ gen # inflight.gen \/ chan[inflight.req] = "err"
    /\ AbandonRecall(IF gen # inflight.gen THEN <<>> ELSE late, {})
    /\ EndTurn
    /\ UNCHANGED <<worldVars, mailVars, libraryVars, store, cue, lockVars, historyVars>>

\* Success with a nonzero asc_recall_interval_ms.
ReadinessStartsInterval ==
    /\ ReadinessArrived /\ gen = inflight.gen /\ chan[inflight.req] = "ok"
    /\ inflight' = [inflight EXCEPT !.phase = "interval"]
    /\ chan' = NoChannels
    /\ EndTurn
    /\ UNCHANGED <<worldVars, mailVars, libraryVars, op, store, cue, lockVars, waiting,
                   pendingObs, late, reply, historyVars>>

\* Mutant of ReleaseNext: the next request is never started.
ReleaseOnly ==
    /\ inflight' = NoFlight
    /\ EndTurn
    /\ UNCHANGED <<worldVars, mailVars, libraryVars, op, store, cue, lockVars, waiting,
                   pendingObs, late, reply, historyVars>>

\* The recall in flight is done.  The next one starts only if no operation is
\* pending; otherwise nothing is remembered.
ReleaseNext ==
    /\ inflight' = NoFlight
    /\ IF Idle THEN StartNext(waiting, reply) ELSE UNCHANGED <<op, waiting, pendingObs, reply>>
    /\ EndTurn
    /\ UNCHANGED <<worldVars, mailVars, libraryVars, store, cue, lockVars, late,
                   historyVars>>

\* Success with a zero interval.
ReadinessReleases ==
    /\ ReadinessArrived /\ gen = inflight.gen /\ chan[inflight.req] = "ok"
    /\ chan' = NoChannels
    /\ ReleaseNext

IntervalElapsed ==
    /\ inflight.phase = "interval"
    /\ ReleaseNext
    /\ UNCHANGED chan

SafetyDeadline ==
    /\ inflight.phase = "observation"
    /\ AbandonRecall(Retained, {})
    /\ EndTurn
    /\ UNCHANGED <<worldVars, mailVars, libraryVars, store, cue, lockVars, historyVars>>

\* Mutant of LockoutChanged: only the pending operation is canceled.
LockoutCancelsOperation ==
    /\ lockoutUnseen /\ lockoutUnseen' = FALSE
    /\ IF lockout THEN op' = NoOp /\ reply' = Failing(OpToken) ELSE UNCHANGED <<op, reply>>
    /\ EndTurn
    /\ UNCHANGED <<worldVars, mailVars, libraryVars, store, cue, lockout, coordVars, chan,
                   historyVars>>

\* lockout.changed(): only the latest value is seen.
LockoutChanged ==
    /\ lockoutUnseen /\ lockoutUnseen' = FALSE
    /\ IF lockout THEN AbandonRecall(Retained, {}) ELSE UNCHANGED <<op, coordVars, replyVars>>
    /\ EndTurn
    /\ UNCHANGED <<worldVars, mailVars, libraryVars, store, cue, lockout, historyVars>>

\* The five seconds of the oldest retained identity are over.
LateExpires ==
    /\ Spend("expire") /\ late # <<>> /\ late' = Tail(late)
    /\ UNCHANGED <<lifecycleVars, lv1Vars, fadeVars, busVars, quiet, mailVars, libraryVars, op,
                   store, cue, lockVars, waiting, inflight, pendingObs, replyVars, historyVars>>

-----------------------------------------------------------------------------
(* Scenes actor: a settled observation                                     *)

\* exact_queue_readiness: the observation the recall in flight waits for.
IsExact(obs) ==
    /\ inflight.phase = "observation"
    /\ obs.gen = inflight.gen /\ obs.seq > inflight.seq /\ obs.scene = SceneOf[inflight.req]

Matches(entry, obs) == entry.gen = obs.gen /\ obs.seq > entry.seq /\ entry.scene = obs.scene
Suppressed(obs) == \E i \in DOMAIN late : Matches(late[i], obs)

Settled == quiet /\ Idle /\ pendingObs # NoObs

\* The observation is dropped by policy or for want of peers.
SettleIgnored ==
    /\ Settled /\ pendingObs' = NoObs
    /\ IF IsExact(pendingObs) THEN ~HasPeers(active) ELSE ~Suppressed(pendingObs)
    /\ EndTurn
    /\ UNCHANGED <<worldVars, mailVars, libraryVars, op, store, cue, lockVars, waiting,
                   inflight, late, replyVars, historyVars>>

\* LateCanceledObservations::suppresses: the first matching identity is spent.
SettleSuppressed ==
    /\ Settled /\ pendingObs' = NoObs
    /\ ~IsExact(pendingObs) /\ Suppressed(pendingObs)
    /\ \E i \in DOMAIN late :
         /\ Matches(late[i], pendingObs)
         /\ \A j \in 1 .. i - 1 : ~Matches(late[j], pendingObs)
         /\ late' = RemoveAt(late, i)
    /\ EndTurn
    /\ UNCHANGED <<worldVars, mailVars, libraryVars, op, store, cue, lockVars, waiting,
                   inflight, replyVars, historyVars>>

\* A fresh snapshot is requested, for the recall in flight or independently.
SettleObserved ==
    /\ Settled /\ pendingObs' = NoObs
    /\ IsExact(pendingObs) \/ ~Suppressed(pendingObs)
    /\ HasPeers(active)
    /\ op' = [OpOf("obsSnapshot", IF IsExact(pendingObs) THEN inflight.req ELSE NoReq,
                   pendingObs.gen) EXCEPT !.from = pendingObs.from]
    /\ EndTurn
    /\ UNCHANGED <<worldVars, mailVars, libraryVars, store, cue, lockVars, waiting,
                   inflight, late, replyVars, historyVars>>

-----------------------------------------------------------------------------
(* Scenes actor: the pending operation                                     *)

\* request_checked: the recall reaches LV1 only in the operation's generation
\* and with lockout off; LV1 captures its observation sequence first.
AcceptRecall ==
    /\ quiet /\ op.kind = "dispatchCommand" /\ op.stage = "asking"
    /\ gen = op.gen /\ ~lockout /\ lv1Up
    /\ op' = [op EXCEPT !.stage = "accepted", !.seq = obsSeq]
    /\ toConsole' = Append(toConsole, op.req)
    /\ accepted' = accepted \cup {op.req}
    /\ UNCHANGED <<lifecycleVars, lv1Up, obsSeq, fadeVars, busVars, quiet, mailVars, libraryVars,
                   store, cue, lockVars, coordVars, replyVars, historyVars, budget>>

\* send_fade_checked: with a permit reserved, generation and lockout are
\* checked once more and the command is sent.
HandoffSend ==
    /\ quiet /\ op.kind = "handoff" /\ op.stage = "asking"
    /\ gen = op.gen /\ ~lockout
    /\ op' = [op EXCEPT !.stage = "sent"]
    /\ fadeBox' = Append(fadeBox, op.req)
    /\ UNCHANGED <<lifecycleVars, lv1Vars, barrier, busVars, quiet, mailVars, libraryVars, store,
                   cue, lockVars, coordVars, replyVars, historyVars, budget>>

OpCurrent == op.gen = active /\ gen = op.gen /\ status = "ready" /\ HasPeers(active)
Finishing(kind) == quiet /\ op.kind = kind
FinishFrame == UNCHANGED <<worldVars, mailVars, libraryVars, store, cue, lockVars,
                           bornSession, session>>

\* finish_pending_recall, its first test: the operation is no longer current.
FinishOutdated ==
    /\ quiet /\ ~Idle /\ ~OpCurrent
    /\ AbandonRecall(IF op.gen = active /\ gen = op.gen THEN Retained ELSE <<>>, {})
    /\ EndTurn /\ FinishFrame /\ UNCHANGED bornGen

\* finish_admission: a valid request enters the FIFO unless it is full.
AdmissionAccepted ==
    /\ Finishing("admission") /\ OpCurrent /\ ~lockout
    /\ Len(waiting) + (IF inflight = NoFlight THEN 0 ELSE 1) < Capacity
    /\ bornGen' = [bornGen EXCEPT ![op.req] = active]
    /\ bornSession' = IF op.req \in CueRequests THEN bornSession
                      ELSE [bornSession EXCEPT ![op.req] = session]
    /\ StartIfIdle(Append(waiting, op.req), reply)
    /\ EndTurn
    /\ UNCHANGED <<worldVars, mailVars, libraryVars, store, cue, lockVars, inflight, late,
                   chan, session>>

\* finish_admission of an invalid or over-capacity request, and fail_admission.
AdmissionRefused ==
    /\ Finishing("admission") /\ OpCurrent
    /\ StartIfIdle(waiting, Failing({op.req}))
    /\ EndTurn /\ FinishFrame /\ UNCHANGED <<inflight, late, chan, bornGen>>

\* prepare_dispatch: the request is validated again against a fresh snapshot.
DispatchPrepared ==
    /\ Finishing("dispatchSnapshot") /\ OpCurrent /\ ~lockout
    /\ op' = [op EXCEPT !.kind = "dispatchCommand"]
    /\ EndTurn /\ FinishFrame /\ UNCHANGED <<coordVars, replyVars, bornGen>>

\* An invalid request fails alone and the next one starts.
DispatchInvalid ==
    /\ Finishing("dispatchSnapshot") /\ OpCurrent
    /\ StartNext(waiting, Failing({op.req}))
    /\ EndTurn /\ FinishFrame /\ UNCHANGED <<inflight, late, chan, bornGen>>

\* The snapshot request fails, or LV1 refuses the recall: later intent goes too.
DispatchLost ==
    /\ \/ Finishing("dispatchSnapshot")
       \/ Finishing("dispatchCommand") /\ op.stage = "asking"
    /\ OpCurrent
    /\ AbandonRecall(late, {})
    /\ EndTurn /\ FinishFrame /\ UNCHANGED bornGen

\* finish_dispatch: the recall is in flight and its caller is answered.
DispatchFinished ==
    /\ Finishing("dispatchCommand") /\ op.stage = "accepted" /\ OpCurrent
    /\ inflight' = [req |-> op.req, gen |-> op.gen, seq |-> op.seq, phase |-> "observation"]
    /\ reply' = Answering({op.req}, "ok")
    /\ op' = NoOp
    /\ EndTurn /\ FinishFrame /\ UNCHANGED <<waiting, pendingObs, late, chan, bornGen>>

\* The recall in flight still expects the readiness this operation is for.
StillExpected == inflight.req = op.req /\ inflight.phase = "observation"

\* prepare_observation_handoff: a recall in flight always needs readiness; an
\* independent observation needs the policy to start a fade.
ObservationPrepared ==
    /\ Finishing("obsSnapshot") /\ OpCurrent
    /\ IF op.req = NoReq THEN ~lockout ELSE StillExpected
    /\ op' = [op EXCEPT !.kind = "handoff"]
    /\ chan' = IF op.req = NoReq THEN chan ELSE [chan EXCEPT ![op.req] = "open"]
    /\ EndTurn /\ FinishFrame /\ UNCHANGED <<coordVars, reply, bornGen>>

\* No fresh snapshot, or an independent observation the policy skips or blocks.
ObservationDropped ==
    /\ Finishing("obsSnapshot") /\ OpCurrent
    /\ op' = NoOp
    /\ EndTurn /\ FinishFrame /\ UNCHANGED <<coordVars, replyVars, bornGen>>

\* The deadline has passed, or the second policy decision differs.
ObservationLost ==
    /\ Finishing("obsSnapshot") /\ OpCurrent /\ op.req # NoReq
    /\ AbandonRecall(Retained, {})
    /\ EndTurn /\ FinishFrame /\ UNCHANGED bornGen

\* The handoff completes while lockout is on: its result is dropped.
HandoffDropped ==
    /\ Finishing("handoff") /\ OpCurrent /\ lockout
    /\ op' = NoOp
    /\ chan' = [r \in Requests |-> IF r = op.req THEN "none" ELSE chan[r]]
    /\ EndTurn /\ FinishFrame /\ UNCHANGED <<coordVars, reply, bornGen>>

\* accept_readiness
HandoffAccepted ==
    /\ Finishing("handoff") /\ OpCurrent /\ ~lockout /\ op.stage = "accepted"
    /\ op.req = NoReq \/ StillExpected
    /\ op' = NoOp
    /\ inflight' = IF op.req = NoReq THEN inflight ELSE [inflight EXCEPT !.phase = "readiness"]
    /\ EndTurn /\ FinishFrame /\ UNCHANGED <<waiting, pendingObs, late, replyVars, bornGen>>

\* Refused by a check, by Fade, or unanswered at the deadline.
HandoffFailed ==
    /\ Finishing("handoff") /\ OpCurrent /\ ~lockout /\ op.stage # "accepted"
    /\ IF op.req = NoReq THEN op' = NoOp /\ UNCHANGED <<coordVars, replyVars>>
       ELSE AbandonRecall(Retained, {})
    /\ EndTurn /\ FinishFrame /\ UNCHANGED bornGen

\* finish_pending_snapshot: a store succeeds only in its own, current generation.
FinishStore ==
    /\ quiet /\ store # NoStore /\ store' = NoStore
    /\ \/ /\ store.gen = active /\ gen = active /\ status = "ready"
          /\ reply' = Answering({store.req}, "ok")
       \/ reply' = Failing({store.req})
    /\ EndTurn
    /\ UNCHANGED <<worldVars, mailVars, libraryVars, op, cue, lockVars, coordVars, chan,
                   historyVars>>

-----------------------------------------------------------------------------
(* Specification                                                           *)

Callers == FlipLockout \/ \E r \in Requests : SendCommand(r) \/ PressGo(r)

Lifecycle == Connect \/ OfferPeers \/ \E byUser \in BOOLEAN : ClearRuntime(byUser)

Lv1 == Lv1Connected \/ Lv1Lost \/ ConsoleEcho \/ ConsoleSilent \/ Overrun
       \/ \E s \in Scenes : ManualRecall(s)

Fade == FadeAdmit \/ FadeRefuse \/ \E result \in {"ok", "err"} : FadeBarrierEnds(result)

EventBranch ==
    \/ ReceiveStale \/ ReceiveSceneList \/ ReceiveScene
    \/ ReceiveDisconnected \/ ReceiveGeneration \/ ReceiveLagged

CommandBranch == HoldCommand \/ RecallCommand \/ StoreCommand \/ PeersReadyCommand
                 \/ ReplaceCommand

ReadinessBranch == ReadinessLost \/ ReadinessStartsInterval \/ ReadinessReleases

TimerBranch == IntervalElapsed \/ SafetyDeadline

SettleBranch == SettleIgnored \/ SettleSuppressed \/ SettleObserved

OpBranch ==
    \/ AcceptRecall \/ HandoffSend \/ FinishOutdated
    \/ AdmissionAccepted \/ AdmissionRefused
    \/ DispatchPrepared \/ DispatchInvalid \/ DispatchLost \/ DispatchFinished
    \/ ObservationPrepared \/ ObservationDropped \/ ObservationLost
    \/ HandoffDropped \/ HandoffAccepted \/ HandoffFailed

ScenesActor ==
    \/ EventBranch \/ FinishLagRecovery \/ CommandBranch \/ CueCommand \/ CueComplete
    \/ ReadinessBranch \/ TimerBranch \/ LockoutChanged \/ LateExpires
    \/ SettleBranch \/ OpBranch \/ FinishStore

Next == Callers \/ Lifecycle \/ Lv1 \/ Fade \/ ScenesActor

Spec == Init /\ [][Next]_vars

\* tokio::select! polls every enabled branch in each turn and picks among the
\* ready ones at random, the running deadlines do elapse, and the Fade engine
\* serves its mailbox and bounds its barrier by a deadline.
Fairness ==
    /\ WF_vars(EventBranch) /\ WF_vars(CommandBranch) /\ WF_vars(CueCommand)
    /\ WF_vars(CueComplete) /\ WF_vars(ReadinessBranch) /\ WF_vars(TimerBranch)
    /\ WF_vars(LockoutChanged) /\ WF_vars(SettleBranch) /\ WF_vars(OpBranch)
    /\ WF_vars(FinishStore) /\ WF_vars(FinishLagRecovery) /\ WF_vars(Fade)

FairSpec == Spec /\ Fairness

-----------------------------------------------------------------------------
(* Safety                                                                  *)

InMailbox(r) == \/ \E i \in DOMAIN sceneBox : sceneBox[i].req = r
                \/ held.req = r
                \/ \E i \in DOMAIN cueBox : cueBox[i] = r
Queued(r) == \E i \in DOMAIN waiting : waiting[i] = r

\* Every caller still waiting for an answer is remembered in exactly one place
\* that will answer it: a mailbox, the held slot, the FIFO, the token of the
\* pending operation or the pending store.  No cancellation path drops a reply.
NoLostCaller ==
    \A r \in Requests : reply[r] = "waiting" =>
        LET owners == {k \in 1 .. 4 : \/ k = 1 /\ InMailbox(r)
                                      \/ k = 2 /\ Queued(r)
                                      \/ k = 3 /\ r \in OpToken
                                      \/ k = 4 /\ r \in StoreToken}
        IN \E k \in owners : owners = {k}

\* Admitted intent never exceeds RECALL_QUEUE_CAPACITY, counting the recall in
\* flight and the one being dispatched as well as those waiting.
Dispatching == op.kind \in DispatchKinds
Occupancy == Len(waiting) + (IF inflight = NoFlight THEN 0 ELSE 1)
             + (IF Dispatching THEN 1 ELSE 0)
CapacityBound == Occupancy <= Capacity

\* A recall is being dispatched only while no other recall is in flight.
OneInFlight == Dispatching => inflight = NoFlight

\* Once the actor has seen lockout on, no admitted recall intent survives: the
\* FIFO is empty, nothing is in flight and nothing is being dispatched.
LockoutDrainsIntent ==
    lockout /\ ~lockoutUnseen => waiting = <<>> /\ inflight = NoFlight /\ ~Dispatching

\* Every admitted recall that LV1 has not seen yet was admitted in the active
\* generation, belongs to the current session, and so does every GO that
\* CueLists has not served: neither a reconnection nor a session replacement
\* leaves intent behind that a later turn could dispatch.
IntentProvenance ==
    /\ \A i \in DOMAIN waiting : bornGen[waiting[i]] = active /\ bornSession[waiting[i]] = session
    /\ Dispatching => bornGen[op.req] = op.gen /\ bornSession[op.req] = session
    /\ \A i \in DOMAIN cueBox : bornSession[cueBox[i]] = session
    /\ op.kind = "admission" /\ op.req \in CueRequests => bornSession[op.req] = session

\* A recall reaches LV1 only in the generation in which it entered the FIFO.
NoCrossGenerationRecall ==
    [][\A r \in accepted' \ accepted : bornGen[r] = gen]_vars

\* A GO pressed before a session replacement is never dispatched after it.
NoRecallAcrossReplacement ==
    [][\A r \in accepted' \ accepted : bornSession[r] = session]_vars

\* A recall waiting for readiness has no deadline of its own, so its channel is
\* resolved or its sender is held by the Fade engine, which has one.
ReadinessHasOwner ==
    inflight.phase = "readiness" =>
        \/ chan[inflight.req] \in {"ok", "err"}
        \/ inflight.req \in barrier
        \/ \E i \in DOMAIN fadeBox : fadeBox[i] = inflight.req

\* The caller of a recall that LV1 accepted is never told that it failed.
DispatchedNeverFails == \A r \in accepted : reply[r] # "err"

\* An observation that the console made because of a recall reported as
\* dispatched is never treated as an independent recall, however that recall
\* was canceled since.  Correlation is by scene and by a bounded list, so this is
\* promised only while nobody recalls at the console, no retained identity has
\* expired, been evicted or gone with its transport session, and no recall that the
\* console accepted was reported as failed (then none was retained).
LateEchoSuppressed ==
    /\ Cardinality(accepted) <= LateCapacity
    /\ DispatchedNeverFails
    /\ \A k \in {"manual", "expire", "lost"} : budget.spent[k] = 0
    /\ op.kind \in {"obsSnapshot", "handoff"} /\ op.req = NoReq /\ op.from # NoReq
    => reply[op.from] # "ok"

\* docs/scene-recall.md:121 makes no exception for the end of a transport session, but
\* Scenes forgets all identities when it hears of it, that of a recall which the next
\* session has accepted included.
LateEchoAcrossSessions ==
    /\ Cardinality(accepted) <= LateCapacity
    /\ DispatchedNeverFails
    /\ \A k \in {"manual", "expire"} : budget.spent[k] = 0
    /\ op.kind = "obsSnapshot" /\ op.req = NoReq /\ op.from # NoReq
    => reply[op.from] # "ok"

\* Once the authority is at the generation of the installed peers, Scenes keeps
\* them until the authority itself moves on: an event of an older generation is
\* ignored.
CurrentPeersKept == [][peers = gen /\ gen > 0 /\ gen' = gen => peers' = peers]_vars

\* Ready means that the peers of the active generation were accepted: they are
\* installed, or the authority has moved on.
ReadyHasPeers == status = "ready" /\ active = gen => HasPeers(active)

-----------------------------------------------------------------------------
(* What the actor promises its callers: the abstract FIFO                  *)

FifoQueue == (IF Dispatching THEN <<op.req>> ELSE <<>>) \o waiting
FifoOutcome == [r \in RecallRequests |-> reply[r]]
Fifo == INSTANCE RecallFifo
    WITH Requests <- RecallRequests, queue <- FifoQueue, current <- inflight.req,
         outcome <- FifoOutcome

\* Every behaviour of the actor is one of the bounded FIFO of RecallFifo.
ImplementsFifo == Fifo!Spec

-----------------------------------------------------------------------------
(* Liveness                                                                *)

\* A recall in flight does not block the FIFO for ever.
InFlightResolves == inflight # NoFlight ~> inflight = NoFlight

\* Every caller is answered.
EveryCallerAnswered == \A r \in Requests : reply[r] = "waiting" ~> reply[r] \in {"ok", "err"}
=============================================================================
