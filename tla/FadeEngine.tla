----------------------------- MODULE FadeEngine -----------------------------
(***************************************************************************)
(* The Fade engine of one connection generation (fade/actor.rs and         *)
(* fade/state.rs): how recall commands are admitted against a fresh LV1    *)
(* snapshot, the readiness barrier that pauses every fade until the        *)
(* console has pinged twice, the pending write that waits for room in      *)
(* LV1's mailbox, manual overrides, deadlines and every cancellation.      *)
(*                                                                         *)
(* The engine is one loop.  A command is served in place, while events go  *)
(* on being processed (job.kind = "call"); a write that waits for LV1's    *)
(* mailbox (job.kind = "tick" or "zero") leaves the loop running but holds *)
(* back commands and ticks.                                                *)
(*                                                                         *)
(* Values and curves are abstracted: a target becomes due at some time     *)
(* after it runs, a tick also writes any targets that moved, and a report  *)
(* from the console is beyond the override threshold or not.  Time is a    *)
(* bounded clock, because deadlines are compared with each other.          *)
(***************************************************************************)
EXTENDS Integers, Sequences, FiniteSets, SequencesExt

CONSTANTS
    Commands,          \* commands Scenes sends to this engine
    NoCmd,             \* "no command"
    WaitCommands,      \* those that are WaitForRecallReadiness
    OwnedCommands,     \* those with a readiness completion
    ZeroCommands,      \* recalls with duration zero
    OverrideCommands,  \* recalls with OverrideMatchingTargets
    SceneOf,           \* the scene each command is for
    TargetsOf,         \* the target keys each command configures
    Keys,              \* fade target keys
    ChannelOf,         \* the console channel of a key
    ParamOf,           \* its parameter: "fader", "pan" or "balance"
    PingsRequired,     \* READINESS_PINGS_REQUIRED
    Confirmations,     \* PAN_OVERRIDE_CONFIRMATION_COUNT
    Timeout,           \* RECALL_READINESS_TIMEOUT
    MaxTime, MaxPing,  \* bounds of the clock and of pings per session
    Budgets            \* bounds: the scenarios a behaviour may start with

EnvKinds == {"report", "lost", "lag", "revoke", "fail"}

\* A scenario: how often each environment event happens, which commands are sent
\* and how long the clock runs.  A behaviour spends the one it starts with.
BudgetRecords == [env : [EnvKinds -> Nat], sent : SUBSET Commands, time : 0 .. MaxTime]

ASSUME CommandsAssumption ==
    /\ NoCmd \notin Commands
    /\ WaitCommands \subseteq OwnedCommands /\ OwnedCommands \subseteq Commands
    /\ ZeroCommands \subseteq Commands \ WaitCommands
    /\ OverrideCommands \subseteq Commands \ WaitCommands
    /\ TargetsOf \in [Commands -> SUBSET Keys]
    /\ \A c \in WaitCommands : TargetsOf[c] = {}
    /\ Commands \subseteq DOMAIN SceneOf
ASSUME KeysAssumption ==
    /\ Keys \subseteq DOMAIN ChannelOf
    /\ ParamOf \in [Keys -> {"fader", "pan", "balance"}]
    /\ \A k, l \in Keys : ChannelOf[k] = ChannelOf[l] /\ ParamOf[k] = ParamOf[l] => k = l
ASSUME FadeBoundsAssumption ==
    /\ PingsRequired \in Nat \ {0} /\ Confirmations \in Nat \ {0} /\ Timeout \in Nat \ {0}
    /\ MaxTime \in Nat /\ MaxPing \in Nat /\ Budgets \subseteq BudgetRecords

VARIABLES
    \* environment
    now,        \* the clock
    current,    \* this engine's generation is the authoritative one
    announced,  \* the generation change has been published
    open,       \* some sender of the mailbox is left
    lv1Up, session, pingSeq,    \* LV1: connected, transport sessions, ping_sequence
    events, lagged,             \* the engine's event receiver: the queue, and how many it lost
    \* mailbox and replies
    mailbox, deferred, reply, chan, deadline,
    \* engine
    targets,    \* channels: the active targets
    barrier,    \* readiness_barrier
    ticking,    \* tick_interval is Some
    emitted,    \* fade_completed_emitted
    job,        \* the command being served or pending_write
    stopped,
    \* history and bounds
    running,    \* the last of FadeStarted, FadeCompleted, FadeAborted is FadeStarted
    fresh,      \* pings of the snapshot's session published after a command's snapshot
    honor,      \* facts that were queued when the write's turn began
    budget

envVars    == <<now, current, announced, open, lv1Up, session, pingSeq>>
busVars    == <<events, lagged>>
boxVars    == <<mailbox, deferred>>
replyVars  == <<reply, chan>>
engineVars == <<targets, barrier, ticking, emitted, running>>
vars == <<envVars, busVars, boxVars, replyVars, deadline, engineVars, job, stopped, fresh,
          honor, budget>>

-----------------------------------------------------------------------------
(* Shapes of the state                                                     *)

Channels == {ChannelOf[k] : k \in Keys}
MaybeCmd == Commands \cup {NoCmd}

Facts == [kind : {"ping"}, seq : Nat] \cup [kind : {"fader"}, channel : Channels]
         \cup [kind : {"pan"}, channel : Channels, out : BOOLEAN]
         \cup [kind : {"disconnected", "generation"}]
Targets == [key : Keys, cmd : Commands, paused : BOOLEAN, finish : BOOLEAN, due : BOOLEAN,
            deviations : Nat]
NoBarrier == [cmd |-> NoCmd, last |-> 0, seen |-> 0, missed |-> FALSE]
NoJob == [kind |-> "none", cmd |-> NoCmd, stage |-> "idle", ok |-> TRUE, base |-> 0, up |-> FALSE,
          pings |-> <<>>, lagged |-> FALSE, left |-> 0, props |-> {}, done |-> {}]

Jobs == [kind : {"none", "call", "tick", "zero"}, cmd : MaybeCmd,
         stage : {"idle", "asking", "answered", "stale", "draining", "admitting",
                  "announce", "reserving", "granted", "refused", "written"},
         ok : BOOLEAN, base : Nat, up : BOOLEAN, pings : Seq(Nat), lagged : BOOLEAN,
         left : Nat, props : SUBSET Keys, done : SUBSET Keys]

WorldOK == /\ now \in 0 .. MaxTime /\ current \in BOOLEAN /\ announced \in BOOLEAN
           /\ open \in BOOLEAN /\ lv1Up \in BOOLEAN /\ session \in Nat /\ pingSeq \in 0 .. MaxPing
BusOK   == events \in Seq(Facts) /\ lagged \in Nat
BoxOK   == mailbox \in Seq(Commands) /\ deferred \in Seq(Commands)
ReplyOK == /\ reply \in [Commands -> {"idle", "waiting", "ok", "err"}]
           /\ chan \in [Commands -> {"none", "open", "ok", "err"}]
TargetsOK == /\ targets \in SUBSET Targets
             /\ \A t \in targets, u \in targets : t.key = u.key => t = u
BarrierOK == /\ barrier \in [cmd : MaybeCmd, last : Nat, seen : Nat, missed : BOOLEAN]
             /\ barrier.cmd = NoCmd => barrier = NoBarrier
             /\ barrier.seen < PingsRequired
FlagsOK == ticking \in BOOLEAN /\ emitted \in BOOLEAN /\ running \in BOOLEAN
JobOK   == /\ job \in Jobs /\ Len(job.pings) <= PingsRequired
           /\ job.kind \in {"call", "zero"} <=> job.cmd \in Commands
HistoryOK == /\ fresh \in [Commands -> [session : Nat, pings : Nat]]
             /\ honor \in SUBSET Facts

TypeOK ==
    /\ WorldOK /\ BusOK /\ BoxOK /\ ReplyOK /\ TargetsOK /\ BarrierOK /\ FlagsOK /\ JobOK
    /\ HistoryOK
    /\ deadline \in [Commands -> 0 .. MaxTime]
    /\ stopped \in BOOLEAN
    /\ budget \in BudgetRecords

Init ==
    /\ now = 0 /\ current = TRUE /\ announced = FALSE /\ open = TRUE
    /\ lv1Up = TRUE /\ session = 1 /\ pingSeq = 0
    /\ events = <<>> /\ lagged = 0
    /\ mailbox = <<>> /\ deferred = <<>>
    /\ reply = [c \in Commands |-> "idle"] /\ chan = [c \in Commands |-> "none"]
    /\ deadline = [c \in Commands |-> 0]
    /\ targets = {} /\ barrier = NoBarrier /\ ticking = FALSE /\ emitted = FALSE
    /\ job = NoJob /\ stopped = FALSE /\ running = FALSE
    /\ fresh = [c \in Commands |-> [session |-> 0, pings |-> 0]]
    /\ honor = {} /\ budget \in Budgets

-----------------------------------------------------------------------------
(* Helpers                                                                 *)

Spend(k) == budget.env[k] > 0 /\ budget' = [budget EXCEPT !.env[k] = @ - 1]

\* Resolve the readiness channels of cs that are still open.
Settle(cs, result) == [c \in Commands |-> IF c \in cs /\ chan[c] = "open" THEN result ELSE chan[c]]
Refusing(cs) == [c \in Commands |-> IF c \in cs THEN "err" ELSE reply[c]]

Barrier == barrier # NoBarrier
BarrierDue == Barrier /\ now >= deadline[barrier.cmd]
ActiveKeys == {t.key : t \in targets}
\* No target is paused twice: the first pause boundary stays.
Pause(ts) == {[t EXCEPT !.paused = TRUE] : t \in ts}
Resume(ts) == {[t EXCEPT !.paused = FALSE] : t \in ts}

Serving == job.kind = "call"
Writing == job.kind \in {"tick", "zero"}
\* The command whose reply the job holds.
JobCmd == IF job.kind \in {"call", "zero"} THEN {job.cmd} ELSE {}
\* The loop's select is being polled: no command is served in place, and a
\* pending write is still waiting for, or has just got, its reservation.
Looping == ~stopped /\ (job.kind = "none" \/ job.stage \in {"reserving", "granted", "refused"})
\* The deadline of a zero-duration write shares the timer of the barrier.
ZeroDue == job.kind = "zero" /\ now >= deadline[job.cmd]
\* Mutant of TimerDue: only a write's deadline is part of the select.
TimerDueForWrites == ZeroDue

TimerDue == BarrierDue \/ ZeroDue

\* complete_fade, once no target is left
CompleteIfEmpty(remaining, already) ==
    IF remaining = {} /\ ~already
    THEN emitted' = TRUE /\ ticking' = FALSE /\ running' = FALSE
    ELSE UNCHANGED <<ticking, running>> /\ emitted' = already

\* Every target and the barrier go, and FadeAborted is published; dropped are
\* further commands whose waiters go with them.
AbortWork(dropped) ==
    /\ targets' = {} /\ barrier' = NoBarrier /\ ticking' = FALSE /\ running' = FALSE
    /\ chan' = Settle({barrier.cmd} \cup dropped, "err")

-----------------------------------------------------------------------------
(* Environment: Scenes, the clock, the lifecycle, LV1 and the event bus    *)

\* send_fade_checked: while the generation is current, with a deadline that was
\* fixed up to Timeout before.
Send(c) ==
    /\ c \in budget.sent /\ reply[c] = "idle" /\ current /\ open
    /\ \E d \in now + 1 .. now + Timeout :
          d <= budget.time /\ deadline' = [deadline EXCEPT ![c] = d]
    /\ mailbox' = Append(mailbox, c)
    /\ reply' = [reply EXCEPT ![c] = "waiting"]
    /\ chan' = IF c \in OwnedCommands THEN [chan EXCEPT ![c] = "open"] ELSE chan
    /\ UNCHANGED <<envVars, busVars, deferred, engineVars, job, stopped, fresh, honor, budget>>

Advance ==
    /\ now < budget.time /\ now' = now + 1
    /\ UNCHANGED <<current, announced, open, lv1Up, session, pingSeq, busVars, boxVars, replyVars,
                   deadline, engineVars, job, stopped, fresh, honor, budget>>

\* The generation is revoked; publishing it and dropping the handles follow.
Revoke ==
    /\ Spend("revoke") /\ current /\ current' = FALSE
    /\ UNCHANGED <<now, announced, open, lv1Up, session, pingSeq, busVars, boxVars, replyVars,
                   deadline, engineVars, job, stopped, fresh, honor>>

AnnounceRevoke ==
    /\ ~current /\ ~announced /\ announced' = TRUE
    /\ events' = Append(events, [kind |-> "generation"])
    /\ UNCHANGED <<now, current, open, lv1Up, session, pingSeq, lagged, boxVars, replyVars, deadline,
                   engineVars, job, stopped, fresh, honor, budget>>

DropHandles ==
    /\ ~current /\ open /\ open' = FALSE
    /\ UNCHANGED <<now, current, announced, lv1Up, session, pingSeq, busVars, boxVars, replyVars,
                   deadline, engineVars, job, stopped, fresh, honor, budget>>

Publish(fact) == events' = Append(events, fact) /\ UNCHANGED lagged

\* The console pings: ping_sequence counts within a transport session.  The LV1
\* actor lives as long as the engine holds its connection, current or not.
Ping ==
    /\ lv1Up /\ ~stopped /\ pingSeq < MaxPing
    /\ pingSeq' = pingSeq + 1 /\ Publish([kind |-> "ping", seq |-> pingSeq + 1])
    /\ fresh' = [c \in Commands |-> IF fresh[c].session = session
                                    THEN [fresh[c] EXCEPT !.pings = @ + 1] ELSE fresh[c]]
    /\ UNCHANGED <<now, current, announced, open, lv1Up, session, boxVars, replyVars, deadline,
                   engineVars, job, stopped, honor, budget>>

\* A fader is reported beyond the override threshold, or a pan is reported
\* within or beyond it.
Report ==
    /\ Spend("report") /\ lv1Up /\ ~stopped
    /\ \E ch \in Channels :
         \/ Publish([kind |-> "fader", channel |-> ch])
         \/ \E out \in BOOLEAN : Publish([kind |-> "pan", channel |-> ch, out |-> out])
    /\ UNCHANGED <<envVars, boxVars, replyVars, deadline, engineVars, job, stopped, fresh, honor>>

Lv1Lost ==
    /\ Spend("lost") /\ lv1Up /\ ~stopped
    /\ lv1Up' = FALSE /\ Publish([kind |-> "disconnected"])
    /\ UNCHANGED <<now, current, announced, open, session, pingSeq, boxVars, replyVars, deadline,
                   engineVars, job, stopped, fresh, honor>>

\* The LV1 actor reconnects within the generation: its counters restart.
Lv1Returns ==
    /\ ~lv1Up /\ ~stopped
    /\ lv1Up' = TRUE /\ session' = session + 1 /\ pingSeq' = 0
    /\ UNCHANGED <<now, current, announced, open, busVars, boxVars, replyVars, deadline, engineVars,
                   job, stopped, fresh, honor, budget>>

\* The broadcast channel drops the oldest events of this receiver.
Overrun ==
    /\ Spend("lag") /\ events # <<>>
    /\ \E n \in 1 .. Len(events) :
         /\ events' = SubSeq(events, n + 1, Len(events)) /\ lagged' = lagged + n
         /\ honor' = honor \ {events[i] : i \in 1 .. n}
    /\ UNCHANGED <<envVars, boxVars, replyVars, deadline, engineVars, job, stopped, fresh>>

\* A running target's duration is over.
Elapse ==
    /\ \E t \in targets :
         /\ ~t.paused /\ ~t.due
         /\ targets' = (targets \ {t}) \cup {[t EXCEPT !.due = TRUE]}
    /\ UNCHANGED <<envVars, busVars, boxVars, replyVars, deadline, barrier, ticking, emitted,
                   running, job, stopped, fresh, honor, budget>>

\* LV1 answers GetState with what it knows at this moment.
SnapshotServed ==
    /\ Serving /\ job.stage = "asking" /\ current
    /\ job' = [job EXCEPT !.stage = "answered", !.base = pingSeq, !.up = lv1Up]
    /\ fresh' = [fresh EXCEPT ![job.cmd] = [session |-> session, pings |-> 0]]
    /\ UNCHANGED <<envVars, busVars, boxVars, replyVars, deadline, engineVars, stopped, honor,
                   budget>>

\* The request times out at the command's deadline, or LV1's mailbox is closed.
SnapshotFailed ==
    /\ Serving /\ job.stage = "asking"
    /\ \/ now >= deadline[job.cmd] /\ UNCHANGED budget
       \/ Spend("fail")
    /\ job' = [job EXCEPT !.stage = "answered", !.ok = FALSE]
    /\ UNCHANGED <<envVars, busVars, boxVars, replyVars, deadline, engineVars, stopped, fresh, honor>>

SnapshotStale ==
    /\ Serving /\ job.stage \in {"asking", "answered"} /\ ~current
    /\ job' = [job EXCEPT !.stage = "stale"]
    /\ UNCHANGED <<envVars, busVars, boxVars, replyVars, deadline, engineVars, stopped, fresh, honor,
                   budget>>

\* reserve_owned: LV1's mailbox has room, or the generation is revoked, or the
\* mailbox is closed.
Reserve ==
    /\ Writing /\ job.stage = "reserving"
    /\ \/ job' = [job EXCEPT !.stage = "granted"] /\ UNCHANGED budget
       \/ ~current /\ job' = [job EXCEPT !.stage = "refused"] /\ UNCHANGED budget
       \/ Spend("fail") /\ job' = [job EXCEPT !.stage = "refused"]
    /\ UNCHANGED <<envVars, busVars, boxVars, replyVars, deadline, engineVars, stopped, fresh, honor>>

-----------------------------------------------------------------------------
(* process_app_event: the effect of one event.  dropped are the commands    *)
(* whose reply and waiter the event's cancellation drops.                   *)

Cancels(e) == e.kind \in {"disconnected", "generation"}

\* Mutant of Counts: pings count although events were lost.
CountsAfterLoss(seq) == Barrier /\ now < deadline[barrier.cmd] /\ seq > barrier.last

\* observe_ping: two strictly newer pings before the deadline release the
\* barrier, unless events were lost.
Counts(seq) == Barrier /\ now < deadline[barrier.cmd] /\ ~barrier.missed /\ seq > barrier.last

PingFact(e) ==
    /\ e.kind = "ping"
    /\ IF ~Counts(e.seq) THEN UNCHANGED <<barrier, targets, chan>>
       ELSE IF barrier.seen + 1 < PingsRequired
       THEN /\ barrier' = [barrier EXCEPT !.last = e.seq, !.seen = @ + 1]
            /\ UNCHANGED <<targets, chan>>
       ELSE /\ barrier' = NoBarrier /\ targets' = Resume(targets)
            /\ chan' = Settle({barrier.cmd}, "ok")
    /\ UNCHANGED <<ticking, emitted, running, reply>>

\* A manual override removes the fader's target, paused or not.
FaderFact(e) ==
    /\ e.kind = "fader"
    /\ LET hit == {t \in targets : ChannelOf[t.key] = e.channel /\ ParamOf[t.key] = "fader"}
       IN IF hit = {} THEN UNCHANGED <<targets, ticking, emitted, running>>
          ELSE /\ targets' = targets \ hit
               /\ IF targets = hit THEN CompleteIfEmpty({}, FALSE)
                  ELSE UNCHANGED <<ticking, emitted, running>>
    /\ UNCHANGED <<barrier, replyVars>>

PanFamily(ch) == {t \in targets : ChannelOf[t.key] = ch /\ ParamOf[t.key] # "fader"}

\* handle_pan_family_pan_report: a pan target needs consecutive deviations,
\* without one the rest of the family is canceled at once.
PanFact(e) ==
    /\ e.kind = "pan"
    /\ LET family == PanFamily(e.channel)
           pans == {t \in family : ParamOf[t.key] = "pan"}
           reported == {[t EXCEPT !.deviations = IF e.out THEN @ + 1 ELSE 0] : t \in pans}
           confirmed == IF pans = {} THEN family # {}
                        ELSE e.out /\ \A t \in reported : t.deviations >= Confirmations
           rest == IF confirmed THEN targets \ family ELSE (targets \ pans) \cup reported
       IN /\ targets' = rest
          /\ IF confirmed THEN CompleteIfEmpty(rest, emitted)
             ELSE UNCHANGED <<ticking, emitted, running>>
    /\ UNCHANGED <<barrier, replyVars>>

\* A disconnect or a generation change cancels everything and the job with it.
CancelFact(e, dropped) ==
    /\ Cancels(e)
    /\ reply' = Refusing(dropped)
    /\ IF targets # {} \/ Barrier
       THEN AbortWork(dropped) /\ emitted' = FALSE
       ELSE chan' = Settle(dropped, "err") /\ UNCHANGED engineVars

\* Lagged(count): the barrier cannot tell any more what it missed.
LagFact ==
    /\ barrier' = IF Barrier THEN [barrier EXCEPT !.missed = TRUE] ELSE barrier
    /\ UNCHANGED <<targets, ticking, emitted, running, replyVars>>

ApplyFact(e, dropped) == PingFact(e) \/ FaderFact(e) \/ PanFact(e) \/ CancelFact(e, dropped)

\* Take the next thing the receiver has: the loss first, then the oldest event.
Receive(dropped) ==
    IF lagged > 0
    THEN lagged' = 0 /\ UNCHANGED events /\ LagFact
    ELSE events # <<>> /\ events' = Tail(events) /\ UNCHANGED lagged
         /\ ApplyFact(Head(events), dropped)
Canceled == lagged = 0 /\ Cancels(Head(events))
Backlog == Len(events) + lagged

-----------------------------------------------------------------------------
(* The loop: timer, commands, the pending write's turn, events, tick       *)

\* The timer expires the barrier and then an expired zero-duration write.  It
\* is armed for the earlier of the two deadlines, and clears the barrier
\* whichever it was.
ReadinessTimeout ==
    /\ \/ Looping /\ TimerDue
       \/ Serving /\ job.stage \in {"asking", "answered", "draining"} /\ BarrierDue
    /\ LET dropped == IF ZeroDue THEN JobCmd ELSE {}
       IN /\ reply' = Refusing(dropped)
          /\ IF Barrier THEN AbortWork(dropped) /\ emitted' = FALSE
             ELSE chan' = Settle(dropped, "err") /\ UNCHANGED engineVars
    /\ job' = IF ZeroDue THEN NoJob ELSE job
    /\ UNCHANGED <<envVars, busVars, boxVars, deadline, stopped, fresh, honor, budget>>

\* Commands deferred behind a write come first.
Waiting == deferred \o mailbox

\* Mutant of TakeCommand: the mailbox is read, and what was deferred is not.
TakeMailbox ==
    /\ Looping /\ job = NoJob /\ ~TimerDue /\ mailbox # <<>>
    /\ mailbox' = Tail(mailbox) /\ UNCHANGED deferred
    /\ LET c == Head(mailbox)
       IN IF now >= deadline[c] \/ (c \notin WaitCommands /\ ~current)
          THEN reply' = Refusing({c}) /\ chan' = Settle({c}, "err") /\ UNCHANGED job
          ELSE job' = [NoJob EXCEPT !.kind = "call", !.cmd = c, !.stage = "asking"]
               /\ UNCHANGED replyVars
    /\ UNCHANGED <<envVars, busVars, deadline, engineVars, stopped, fresh, honor, budget>>

TakeCommand ==
    /\ Looping /\ job = NoJob /\ ~TimerDue /\ Waiting # <<>>
    /\ IF deferred # <<>> THEN deferred' = Tail(deferred) /\ UNCHANGED mailbox
       ELSE mailbox' = Tail(mailbox) /\ UNCHANGED deferred
    /\ LET c == Head(Waiting)
           refused == now >= deadline[c] \/ (c \notin WaitCommands /\ ~current)
           skips == TargetsOf[c] = {} /\ c \notin OwnedCommands
       IN IF refused
          THEN reply' = Refusing({c}) /\ chan' = Settle({c}, "err") /\ UNCHANGED job
          ELSE /\ job' = [NoJob EXCEPT !.kind = "call", !.cmd = c,
                                       !.stage = IF skips THEN "announce" ELSE "asking"]
               /\ UNCHANGED replyVars
    /\ UNCHANGED <<envVars, busVars, deadline, engineVars, stopped, fresh, honor, budget>>

\* Mutant of Defer: a deferred command goes to the front of the queue.
DeferNewestFirst ==
    /\ Looping /\ Writing /\ ~TimerDue /\ mailbox # <<>>
    /\ mailbox' = Tail(mailbox) /\ deferred' = <<Head(mailbox)>> \o deferred
    /\ UNCHANGED <<envVars, busVars, replyVars, deadline, engineVars, job, stopped, fresh, honor,
                   budget>>

Defer ==
    /\ Looping /\ Writing /\ ~TimerDue /\ mailbox # <<>>
    /\ mailbox' = Tail(mailbox) /\ deferred' = Append(deferred, Head(mailbox))
    /\ UNCHANGED <<envVars, busVars, replyVars, deadline, engineVars, job, stopped, fresh, honor,
                   budget>>

\* retain_wait_ping: the latest pings seen while the snapshot was awaited.
Retaining(j) ==
    IF lagged > 0 THEN [j EXCEPT !.lagged = TRUE]
    ELSE IF Head(events).kind # "ping" THEN j
    ELSE LET pings == Append(j.pings, Head(events).seq)
         IN [j EXCEPT !.pings = IF Len(pings) > PingsRequired THEN Tail(pings) ELSE pings]

CallEvent ==
    /\ Serving /\ job.stage = "asking" /\ ~BarrierDue
    /\ Receive(JobCmd)
    /\ job' = IF Canceled THEN NoJob ELSE Retaining(job)
    /\ UNCHANGED <<envVars, boxVars, deadline, stopped, fresh, honor, budget>>

\* A stale answer refuses the command; any other one is decided after the
\* facts that are queued now.
TakeAnswer ==
    /\ Serving
    /\ \/ /\ job.stage = "stale" /\ job' = NoJob
          /\ reply' = Refusing(JobCmd) /\ chan' = Settle(JobCmd, "err")
       \/ /\ job.stage = "answered" /\ ~BarrierDue
          /\ job' = [job EXCEPT !.stage = "draining", !.left = Backlog]
          /\ UNCHANGED replyVars
    /\ UNCHANGED <<envVars, busVars, boxVars, deadline, engineVars, stopped, fresh, honor, budget>>

\* drain_ready_app_events, or the same loop of await_snapshot_with_facts: as
\* many facts as were queued, lost ones counted.
DrainEvent ==
    /\ job.stage = "draining" /\ job.left > 0 /\ ~(Serving /\ BarrierDue)
    /\ Receive(JobCmd)
    /\ LET next == [job EXCEPT !.left = IF lagged = 0 THEN @ - 1
                                        ELSE IF @ > lagged THEN @ - lagged ELSE 0]
       IN job' = IF Canceled THEN NoJob ELSE IF Serving THEN Retaining(next) ELSE next
    /\ UNCHANGED <<envVars, boxVars, deadline, stopped, fresh, honor, budget>>

\* The last check of the old barrier's deadline; the decision follows under
\* the generation lock.
DrainEnd ==
    /\ Serving /\ job.stage = "draining" /\ job.left = 0 /\ ~BarrierDue
    /\ job' = [job EXCEPT !.stage = "admitting"]
    /\ UNCHANGED <<envVars, busVars, boxVars, replyVars, deadline, engineVars, stopped, fresh, honor,
                   budget>>

\* Mutant of Install: targets that are already running are not paused.
InstallPausesNew(c, kept) ==
    /\ barrier' = [NoBarrier EXCEPT !.cmd = c, !.last = job.base, !.missed = job.lagged]
    /\ targets' = (kept \cap targets) \cup Pause(kept \ targets)
    /\ chan' = Settle({barrier.cmd}, "err")

\* Mutant of Install: the superseded waiter is not told.
InstallForgetsOwner(c, kept) ==
    /\ barrier' = [NoBarrier EXCEPT !.cmd = c, !.last = job.base, !.missed = job.lagged]
    /\ targets' = Pause(kept) /\ UNCHANGED chan

\* start_readiness_barrier: it replaces the barrier, pauses every target, and
\* counts the retained pings that are newer than the snapshot.  They were
\* received in order, so each of them is newer than the one before.
Install(c, kept) ==
    LET counted == IF job.lagged THEN {}
                   ELSE {i \in DOMAIN job.pings : job.pings[i] > job.base}
        superseded == Settle({barrier.cmd}, "err")
    IN IF Cardinality(counted) >= PingsRequired
       THEN /\ barrier' = NoBarrier /\ targets' = Resume(kept)
            /\ chan' = [superseded EXCEPT ![c] = IF @ = "open" THEN "ok" ELSE @]
       ELSE /\ barrier' = [cmd |-> c, last |-> IF counted = {} THEN job.base ELSE Last(job.pings),
                           seen |-> Cardinality(counted), missed |-> job.lagged]
            /\ targets' = Pause(kept) /\ chan' = superseded

\* Active targets of the same scene are finished, or else each target of the
\* command replaces the active one with its key.
Overlapping(c) ==
    LET same == {t \in targets : SceneOf[t.cmd] = SceneOf[c]}
        installed == {[key |-> k, cmd |-> c, paused |-> FALSE, finish |-> FALSE, due |-> FALSE,
                       deviations |-> 0] : k \in TargetsOf[c]}
    IN IF c \notin OverrideCommands /\ same # {}
       THEN (targets \ same) \cup {[t EXCEPT !.finish = TRUE] : t \in same}
       ELSE {t \in targets : t.key \notin TargetsOf[c]} \cup installed

\* The command is refused, becomes a zero-duration write, or takes effect.
Admissible(c) == job.ok /\ job.up /\ now < deadline[c]
ToZero(c) == c \in ZeroCommands /\ TargetsOf[c] # {}

Refuse ==
    /\ Serving /\ job.stage = "admitting"
    /\ ~Admissible(job.cmd) \/ (~current /\ ~ToZero(job.cmd))
    /\ job' = NoJob /\ reply' = Refusing(JobCmd) /\ chan' = Settle(JobCmd, "err")
    /\ UNCHANGED <<envVars, busVars, boxVars, deadline, engineVars, stopped, fresh, honor, budget>>

ProposeZero ==
    /\ Serving /\ job.stage = "admitting" /\ Admissible(job.cmd) /\ ToZero(job.cmd)
    /\ job' = [job EXCEPT !.kind = "zero", !.stage = "reserving"]
    /\ UNCHANGED <<envVars, busVars, boxVars, replyVars, deadline, engineVars, stopped, fresh, honor,
                   budget>>

Admit ==
    /\ Serving /\ job.stage = "admitting" /\ current
    /\ Admissible(job.cmd) /\ ~ToZero(job.cmd)
    /\ Install(job.cmd, IF TargetsOf[job.cmd] = {} THEN targets ELSE Overlapping(job.cmd))
    /\ IF job.cmd \in WaitCommands
       THEN job' = NoJob /\ reply' = [reply EXCEPT ![job.cmd] = "ok"]
       ELSE job' = [job EXCEPT !.stage = "announce"] /\ UNCHANGED reply
    /\ UNCHANGED <<envVars, busVars, boxVars, deadline, ticking, emitted, running, stopped, fresh,
                   honor, budget>>

\* Mutant of Announce: no tick interval is started behind a barrier.
AnnounceIdle ==
    /\ JobCmd # {} /\ job.stage = "announce" /\ job' = NoJob
    /\ reply' = [reply EXCEPT ![job.cmd] = IF current THEN "ok" ELSE "err"]
    /\ ticking' = (targets # {} /\ ~Barrier)
    /\ running' = (targets # {}) /\ emitted' = (targets = {})
    /\ UNCHANGED <<envVars, busVars, boxVars, chan, deadline, targets, barrier, stopped, fresh, honor,
                   budget>>

\* finish_recall_admission
Announce ==
    /\ JobCmd # {} /\ job.stage = "announce" /\ job' = NoJob
    /\ reply' = [reply EXCEPT ![job.cmd] = IF current THEN "ok" ELSE "err"]
    /\ IF ~current THEN UNCHANGED <<ticking, emitted, running>>
       ELSE IF targets # {} THEN ticking' = TRUE /\ emitted' = FALSE /\ running' = TRUE
       ELSE /\ ticking' = FALSE
            /\ IF Barrier \/ emitted THEN UNCHANGED <<emitted, running>>
               ELSE emitted' = TRUE /\ running' = FALSE
    /\ UNCHANGED <<envVars, busVars, boxVars, chan, deadline, targets, barrier, stopped, fresh, honor,
                   budget>>

\* Mutant of AdmissionTurn: the write does not wait for the queued facts.
AdmissionTurnAtOnce ==
    /\ Writing /\ job.stage \in {"granted", "refused"} /\ ~TimerDue /\ mailbox = <<>>
    /\ job' = [job EXCEPT !.stage = "draining", !.ok = job.stage = "granted", !.left = 0]
    /\ honor' = ToSet(events)
    /\ UNCHANGED <<envVars, busVars, boxVars, replyVars, deadline, engineVars, stopped, fresh, budget>>

\* The reservation is there: the facts that are queued come before the write.
AdmissionTurn ==
    /\ Writing /\ job.stage \in {"granted", "refused"} /\ ~TimerDue /\ mailbox = <<>>
    /\ job' = [job EXCEPT !.stage = "draining", !.ok = job.stage = "granted", !.left = Backlog]
    /\ honor' = ToSet(events)
    /\ UNCHANGED <<envVars, busVars, boxVars, replyVars, deadline, engineVars, stopped, fresh, budget>>

\* abort_after_write_failure
AbortTick == AbortWork({}) /\ UNCHANGED <<emitted, reply>> /\ job' = NoJob

\* finish_pending_write up to the send: targets canceled meanwhile are left out.
SendTick ==
    /\ job.kind = "tick" /\ job.stage = "draining" /\ job.left = 0
    /\ IF job.ok /\ current
       THEN /\ job' = [job EXCEPT !.stage = "written", !.props = @ \cap ActiveKeys]
            /\ UNCHANGED <<engineVars, replyVars>>
       ELSE AbortTick
    /\ honor' = {}
    /\ UNCHANGED <<envVars, busVars, boxVars, deadline, stopped, fresh, budget>>

\* The write is with LV1: finished targets go, and with the last one the fade.
CommitTick ==
    /\ job.kind = "tick" /\ job.stage = "written"
    /\ IF current
       THEN /\ targets' = {t \in targets : t.key \notin job.done}
            /\ CompleteIfEmpty(targets', emitted)
            /\ job' = NoJob /\ UNCHANGED <<barrier, replyVars>>
       ELSE AbortTick
    /\ UNCHANGED <<envVars, busVars, boxVars, deadline, stopped, fresh, honor, budget>>

InTime == current /\ now < deadline[job.cmd]
RefuseZero == job' = NoJob /\ reply' = Refusing(JobCmd) /\ chan' = Settle(JobCmd, "err")

SendZero ==
    /\ job.kind = "zero" /\ job.stage = "draining" /\ job.left = 0
    /\ IF job.ok /\ InTime THEN job' = [job EXCEPT !.stage = "written"] /\ UNCHANGED replyVars
       ELSE RefuseZero
    /\ honor' = {}
    /\ UNCHANGED <<envVars, busVars, boxVars, deadline, engineVars, stopped, fresh, budget>>

\* commit_zero_duration: overlapping targets go; an owned recall installs its
\* barrier with what was known when the snapshot was answered.
CommitZero ==
    /\ job.kind = "zero" /\ job.stage = "written"
    /\ IF ~InTime THEN RefuseZero /\ UNCHANGED <<targets, barrier>>
       ELSE LET kept == {t \in targets : t.key \notin TargetsOf[job.cmd]}
            IN /\ job' = [job EXCEPT !.stage = "announce"] /\ UNCHANGED reply
               /\ IF job.cmd \in OwnedCommands THEN Install(job.cmd, kept)
                  ELSE targets' = kept /\ UNCHANGED <<barrier, chan>>
    /\ UNCHANGED <<envVars, busVars, boxVars, deadline, ticking, emitted, running, stopped, fresh,
                   honor, budget>>

\* An event, when no command can be taken and no reservation is there.
MainEvent ==
    /\ Looping /\ ~TimerDue /\ mailbox = <<>>
    /\ job.stage = "reserving" \/ (job = NoJob /\ deferred = <<>>)
    /\ Receive(JobCmd)
    /\ job' = IF Canceled THEN NoJob ELSE job
    /\ UNCHANGED <<envVars, boxVars, deadline, stopped, fresh, honor, budget>>

\* A tick proposes every finished target and any that moved far enough; with
\* nothing to write it only checks the generation.
Tick ==
    /\ Looping /\ job = NoJob /\ ~TimerDue /\ Waiting = <<>> /\ Backlog = 0
    /\ ticking /\ ~Barrier
    /\ LET done == {t.key : t \in {u \in targets : u.due \/ u.finish}}
       IN \E props \in SUBSET ActiveKeys :
            /\ done \subseteq props
            /\ IF props = {}
               THEN /\ UNCHANGED job
                    /\ IF current THEN UNCHANGED <<engineVars, replyVars>> ELSE AbortTick
               ELSE /\ job' = [NoJob EXCEPT !.kind = "tick", !.stage = "reserving", !.props = props,
                                            !.done = done]
                    /\ UNCHANGED <<engineVars, replyVars>>
    /\ UNCHANGED <<envVars, busVars, boxVars, deadline, stopped, fresh, honor, budget>>

\* The mailbox is closed and empty: the loop ends and drops what it holds.
EngineStop ==
    /\ Looping /\ ~TimerDue /\ ~open /\ mailbox = <<>>
    /\ Writing \/ deferred = <<>>
    /\ LET dropped == JobCmd \cup ToSet(deferred)
       IN /\ reply' = Refusing(dropped)
          /\ chan' = Settle({barrier.cmd} \cup dropped, "err")
    /\ stopped' = TRUE /\ job' = NoJob /\ deferred' = <<>>
    /\ targets' = {} /\ barrier' = NoBarrier /\ ticking' = FALSE
    /\ running' = (running /\ targets = {} /\ ~Barrier)
    /\ events' = <<>> /\ lagged' = 0
    /\ UNCHANGED <<envVars, mailbox, deadline, emitted, fresh, honor, budget>>

-----------------------------------------------------------------------------
(* The specification                                                       *)

Engine ==
    \/ ReadinessTimeout \/ TakeCommand \/ Defer \/ CallEvent \/ TakeAnswer \/ DrainEvent \/ DrainEnd
    \/ Refuse \/ ProposeZero \/ Admit \/ Announce \/ AdmissionTurn \/ SendTick \/ CommitTick
    \/ SendZero \/ CommitZero \/ MainEvent \/ Tick \/ EngineStop

Environment ==
    \/ \E c \in Commands : Send(c)
    \/ Advance \/ Revoke \/ AnnounceRevoke \/ DropHandles \/ Ping \/ Report \/ Lv1Lost \/ Lv1Returns
    \/ Overrun \/ Elapse \/ SnapshotServed \/ SnapshotFailed \/ SnapshotStale \/ Reserve

Next == Engine \/ Environment

Spec == Init /\ [][Next]_vars

\* The engine's task is scheduled, time passes, a running fade gets to its end,
\* LV1 answers or its mailbox closes, and the lifecycle completes a revocation.
\* Nobody is obliged to send, to ping, to report or to reconnect.
FairSpec ==
    /\ Spec
    /\ WF_vars(Engine) /\ WF_vars(Advance) /\ WF_vars(Elapse)
    /\ WF_vars(SnapshotServed \/ SnapshotFailed \/ SnapshotStale) /\ WF_vars(Reserve)
    /\ WF_vars(AnnounceRevoke) /\ WF_vars(DropHandles)

-----------------------------------------------------------------------------
(* Properties                                                              *)

\* While readiness is not proved nothing moves: every target is paused exactly
\* as long as the barrier exists, also one that was installed or kept by a
\* later recall, and no tick is under way (fade/state.rs:62-74,
\* actor.rs:361-363: a tick is refused by the barrier, and a recall by a tick).
Frozen ==
    /\ \A t \in targets : t.paused <=> Barrier
    /\ job.kind = "tick" => ~Barrier

\* No fade is forgotten: between commands, active targets of a current engine
\* are ticked and reported as running, whatever completed, overrode or paused
\* the others (finish_recall_admission, complete_fade).
TargetsDriven == targets # {} /\ current /\ job.stage # "announce" => ticking /\ running

\* Scenes never waits in vain: an open readiness channel is with a command
\* still to be decided or with the barrier.
WaiterHeld ==
    \A c \in Commands : chan[c] = "open" =>
        c \in JobCmd \cup ToSet(Waiting) \cup {barrier.cmd}

\* Readiness is only reported when it was proved: before the deadline, and by
\* as many pings as required that LV1 sent after it answered this command's
\* snapshot, within the same transport session (fade/state.rs:117-120).
ReleaseProof ==
    [][\A c \in Commands : chan[c] = "open" /\ chan'[c] = "ok" =>
          now < deadline[c] /\ fresh[c].pings >= PingsRequired]_vars

\* What was published before a tick's reservation was granted comes before the
\* write: after a disconnect or a generation change nothing is written, and a
\* fader the operator has taken is left out (drain_ready_app_events).
QueuedFactsFirst ==
    [][job.kind = "tick" /\ job.stage = "draining" /\ job'.stage = "written" =>
          \A e \in honor :
              /\ ~Cancels(e)
              /\ e.kind = "fader" => \A k \in job'.props :
                                        ~(ChannelOf[k] = e.channel /\ ParamOf[k] = "fader")]_vars

\* Commands sent and neither admitted nor refused: the one being served, those
\* deferred behind a write, and the mailbox.
Undecided == JobCmd # {} /\ job.stage # "announce"
Box == (IF Undecided THEN <<job.cmd>> ELSE <<>>) \o Waiting
BarrierOwner == {barrier.cmd} \ {NoCmd}
Contract == INSTANCE FadeContract WITH
    box <- Box, barrier <- BarrierOwner, chan <- chan, answer <- reply

\* The engine keeps what Scenes relies on: commands take effect in the order
\* they were sent although writes defer them, a newer barrier supersedes the
\* older and tells its waiter, and every cancellation settles what it drops.
ImplementsContract == Contract!Spec

\* Every command is answered: the snapshot has a deadline, a write that waits
\* for room has one or is canceled, and the loop comes back to the mailbox.
CommandAnswered == \A c \in Commands : reply[c] = "waiting" ~> reply[c] \in {"ok", "err"}

\* No barrier stays: it is released, superseded, timed out or canceled even if
\* the console never pings again.
BarrierEnds == \A c \in Commands : barrier.cmd = c ~> barrier.cmd # c

\* A fade reported as started is reported as completed or aborted.
EveryFadeEnds == running ~> ~running

\* "With no active targets it MUST defer terminal completion while a readiness
\* barrier exists" (fade/actor.rs:148-149): once the barrier is gone and nothing
\* is under way, a fade without targets is no longer running.
StartedTerminates == running => targets # {} \/ Barrier \/ job # NoJob

\* "A readiness timeout therefore means ASC could not prove that the expected
\* scene was followed by a healthy post-recall keepalive cadence within five
\* seconds" (docs/scene-recall.md:123): a barrier times out at its own deadline.
TimeoutMeansDeadline == [][ReadinessTimeout /\ Barrier => BarrierDue]_vars
=============================================================================
