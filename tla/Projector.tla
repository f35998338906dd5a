------------------------------ MODULE Projector ------------------------------
(***************************************************************************)
(* The projector: it follows the event bus, keeps what belongs to one      *)
(* connection generation in a cache, and publishes a view of the cache and *)
(* of the retained state at most once per interval.  When it loses facts   *)
(* it asks the lifecycle for the LV1 of the moment, and facts that arrive  *)
(* meanwhile wait in a bounded queue.  Connections is its world: every     *)
(* step of it that the bus carries appends a fact.                         *)
(***************************************************************************)
EXTENDS Connections, Sequences

CONSTANTS
    MaxGeneration, \* bound: generations
    MaxPending,  \* facts the queue of a recovery holds (4,096 in the code)
    MaxLags,     \* bound: times the bus overtakes the projector
    MaxTimeouts, \* bound: recoveries that time out
    MaxFlaps,    \* bound: connections an LV1 actor loses
    MaxChanges   \* bound: changes of the retained state

ASSUME ProjectorAssumption ==
    /\ MaxGeneration \in Nat /\ MaxPending \in Nat \ {0}
    /\ MaxLags \in Nat /\ MaxTimeouts \in Nat /\ MaxFlaps \in Nat /\ MaxChanges \in Nat

VARIABLES
    events,    \* facts the projector has not received
    retained,  \* version of the retained application state
    flaps,
    cache,     \* active generation, and whether its LV1 is shown connected
    seen,      \* version of the retained state last noticed or borrowed
    dirty,
    view,      \* the latest published view
    recovery,  \* where the recovery is, what it has read and what waits for it
    lags, timeouts

worldVars == <<connectionVars, events, retained, flaps>>
projectorVars == <<cache, seen, dirty, view, recovery, lags, timeouts>>
vars == <<worldVars, projectorVars>>

Generations == 0 .. MaxGeneration
Facts == [kind : {"generation", "connected", "disconnected"}, generation : Generations]
Fact(kind, g) == [kind |-> kind, generation |-> g]
NoRecovery == [at |-> "none", lv1 |-> 0, live |-> FALSE, active |-> 0, queue |-> <<>>,
               restart |-> FALSE]

TypeOK ==
    /\ generation \in Generations /\ runtime \in Generations
    /\ owed \subseteq Generations /\ begun \subseteq Generations
    /\ actors \subseteq Generations /\ up \subseteq actors
    /\ events \in Seq(Facts) /\ retained \in 0 .. MaxChanges /\ flaps \in 0 .. MaxFlaps
    /\ cache \in [generation : Generations, connected : BOOLEAN]
    /\ seen \in 0 .. retained /\ dirty \in BOOLEAN
    /\ view \in [connected : BOOLEAN, retained : 0 .. retained]
    /\ recovery \in [at : {"none", "source", "ask", "generation", "done"}, lv1 : Generations,
                     live : BOOLEAN, active : Generations, queue : Seq(Facts),
                     restart : BOOLEAN]
    /\ Len(recovery.queue) <= MaxPending
    /\ lags \in 0 .. MaxLags /\ timeouts \in 0 .. MaxTimeouts

Init ==
    /\ ConnectionsInit
    /\ events = <<>> /\ retained = 0 /\ flaps = 0
    /\ cache = [generation |-> 0, connected |-> FALSE]
    /\ seen = 0 /\ dirty = TRUE
    /\ view = [connected |-> FALSE, retained |-> 0]
    /\ recovery = NoRecovery /\ lags = 0 /\ timeouts = 0

-----------------------------------------------------------------------------
(* The world *)

Publish(f) == events' = Append(events, f)

Announced(g) == AnnounceGeneration(g) /\ Publish(Fact("generation", g)) /\ UNCHANGED flaps
Connects(g) == ConnectLv1(g) /\ Publish(Fact("connected", g)) /\ UNCHANGED flaps
Drops(g) ==
    /\ flaps < MaxFlaps /\ flaps' = flaps + 1
    /\ DropLv1(g) /\ Publish(Fact("disconnected", g))
Silent ==
    /\ (generation < MaxGeneration /\ Advance) \/ InstallCurrent \/ Release \/ \E g \in begun : Refuse(g)
    /\ UNCHANGED <<events, flaps>>

\* An actor publishes an app-lifetime fact: the retained state has changed.
StateChanges ==
    /\ retained < MaxChanges /\ retained' = retained + 1
    /\ UNCHANGED <<connectionVars, events, flaps>>

World ==
    /\ \/ StateChanges
       \/ /\ UNCHANGED retained
          /\ \/ Silent
             \/ \E g \in Generations : Announced(g) \/ Connects(g) \/ Drops(g)
    /\ UNCHANGED projectorVars

-----------------------------------------------------------------------------
(* The cache *)

ResetFor(g) == [generation |-> g, connected |-> FALSE]

\* Facts of another generation are ignored; a generation fact is not.
Apply(c, f) ==
    IF f.kind = "generation" THEN ResetFor(f.generation)
    ELSE IF f.generation = c.generation THEN [c EXCEPT !.connected = f.kind = "connected"]
    ELSE c

Replay(c, facts) ==
    LET after[n \in 0 .. Len(facts)] ==
            IF n = 0 THEN c ELSE Apply(after[n - 1], facts[n])
    IN  after[Len(facts)]

-----------------------------------------------------------------------------
(* The loop *)

Recovering == recovery.at # "none"
Receive == events # <<>> /\ events' = Tail(events)
KeepWorld == UNCHANGED <<connectionVars, retained, flaps>>

ReadFact ==
    /\ ~Recovering /\ Receive
    /\ LET f == Head(events)
       IN  /\ cache' = Apply(cache, f)
           /\ dirty' = (dirty \/ f.kind = "generation" \/ f.generation = cache.generation)
    /\ UNCHANGED <<seen, view, recovery, lags, timeouts>> /\ KeepWorld

RetainedChanged ==
    /\ seen # retained /\ seen' = retained
    /\ dirty' = TRUE
    /\ UNCHANGED <<cache, view, recovery, lags, timeouts, events>> /\ KeepWorld

Tick ==
    /\ dirty
    /\ view' = [connected |-> cache.connected, retained |-> retained]
    /\ seen' = retained
    /\ dirty' = FALSE
    /\ UNCHANGED <<cache, recovery, lags, timeouts, events>> /\ KeepWorld

StartRecoveryFlagged(queue) == recovery' = [recovery EXCEPT !.at = "source", !.queue = queue]

\* start_projector_recovery, with the facts that wait for it.
StartRecovery(queue) == recovery' = [NoRecovery EXCEPT !.at = "source", !.queue = queue]

\* The bus overtook the projector: what is unread is dropped.  A recovery that
\* is under way must start again.
Lag ==
    /\ events # <<>> /\ lags < MaxLags
    /\ lags' = lags + 1
    /\ events' = <<>>
    /\ IF Recovering
       THEN /\ recovery' = [recovery EXCEPT !.queue = <<>>, !.restart = TRUE]
            /\ UNCHANGED <<cache, dirty>>
       ELSE /\ StartRecovery(<<>>)
            /\ cache' = ResetFor(cache.generation) /\ dirty' = TRUE
    /\ UNCHANGED <<seen, view, timeouts>> /\ KeepWorld

PushEventNoRestart(f) ==
    LET full == Len(recovery.queue) = MaxPending
    IN  [recovery EXCEPT !.queue = Append(IF full THEN <<>> ELSE @, f)]

\* A full queue is a new cutoff: only the fact that did not fit is kept.
PushEvent(f) ==
    LET full == Len(recovery.queue) = MaxPending
    IN  [recovery EXCEPT !.queue = Append(IF full THEN <<>> ELSE @, f),
                         !.restart = @ \/ full]

QueueFact ==
    /\ Recovering /\ Receive
    /\ recovery' = PushEvent(Head(events))
    /\ UNCHANGED <<cache, seen, dirty, view, lags, timeouts>> /\ KeepWorld

RecoveryStep(from, next) ==
    /\ recovery.at = from /\ recovery' = next
    /\ UNCHANGED <<cache, seen, dirty, view, lags, timeouts, events>> /\ KeepWorld

\* connected_lv1: generation and runtime are read under one lock.
SourceAnswers ==
    RecoveryStep("source",
        IF runtime = generation /\ generation # 0
        THEN [recovery EXCEPT !.at = "ask", !.lv1 = generation]
        ELSE [recovery EXCEPT !.at = "generation"])

Lv1Answers ==
    RecoveryStep("ask", [recovery EXCEPT !.at = "generation", !.live = recovery.lv1 \in up])

GenerationRead ==
    RecoveryStep("generation", [recovery EXCEPT !.at = "done", !.active = generation])

\* 500 ms are over: there is no snapshot.
RecoveryTimesOut ==
    /\ recovery.at \in {"source", "ask", "generation"} /\ timeouts < MaxTimeouts
    /\ timeouts' = timeouts + 1
    /\ recovery' = [recovery EXCEPT !.at = "done", !.live = FALSE, !.active = generation]
    /\ UNCHANGED <<cache, seen, dirty, view, lags, events>> /\ KeepWorld

\* apply_recovery_result: what was read for another generation does not count.
Recovered ==
    [generation |-> generation,
     connected |-> recovery.live /\ recovery.active = generation
                   /\ recovery.lv1 = generation]

RecoveryCompletes ==
    /\ recovery.at = "done"
    /\ IF recovery.restart
       THEN StartRecovery(recovery.queue) /\ UNCHANGED cache
       ELSE recovery' = NoRecovery /\ cache' = Replay(Recovered, recovery.queue)
    /\ dirty' = TRUE
    /\ UNCHANGED <<seen, view, lags, timeouts, events>> /\ KeepWorld

Reads == ReadFact \/ QueueFact
Recovers == SourceAnswers \/ Lv1Answers \/ GenerationRead \/ RecoveryCompletes

Next == World \/ Reads \/ RetainedChanged \/ Tick \/ Recovers \/ Lag \/ RecoveryTimesOut

Spec == Init /\ [][Next]_vars

\* The select of the loop is fair to each of its branches, and what a recovery
\* asks answers or times out; nothing makes the world move.
FairSpec ==
    /\ Spec
    /\ WF_vars(Reads) /\ WF_vars(RetainedChanged) /\ WF_vars(Tick) /\ WF_vars(Recovers)

-----------------------------------------------------------------------------
(* Properties *)

\* Everything published was received, applied and shown.
Settled == owed = {} /\ events = <<>> /\ ~Recovering /\ ~dirty /\ seen = retained

\* A quiet view never shows an LV1 connected that was superseded or that is
\* installed and not connected (projector/runtime.rs generation filters, and the
\* recovery that discards what it read for another generation).
NoFalseConnected ==
    Settled /\ view.connected =>
        /\ cache.generation = generation
        /\ runtime = generation => generation \in up

\* Facts lost to lag or to a full queue, and recoveries that raced with
\* reconnects, leave no connected LV1 unseen: only a recovery that timed out may
\* fall back to a disconnected view, and only an announcement out of order may
\* leave the projector on another generation.
ConnectedIsShown ==
    Settled /\ timeouts = 0 /\ cache.generation = generation /\ runtime = generation
    /\ generation \in up
    => view.connected

\* The projector settles on the truth, both ways.
ViewIsTrue == NoFalseConnected /\ ConnectedIsShown

\* Whatever is published or retained, the projector catches up with it and shows
\* it: no recovery restarts forever and no change of the retained state is missed.
ViewSettles == []<>(events = <<>> /\ ~Recovering /\ ~dirty /\ view.retained = retained)
=============================================================================
