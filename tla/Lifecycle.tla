------------------------------ MODULE Lifecycle ------------------------------
(***************************************************************************)
(* AppLifecycle: connects, disconnects and automatic connects are          *)
(* independent tasks that meet at a generation counter, a transition lock  *)
(* and the actors that keep something of a connection (Show its identity   *)
(* and a peer, Scenes its peers, Settings the remembered console).  Every  *)
(* await is a step boundary, and a generation is made current in one step  *)
(* and announced on the event bus in a later one.                          *)
(***************************************************************************)
EXTENDS Integers, Sequences, FiniteSets

CONSTANTS
    Tasks,       \* requests to the lifecycle, each used once
    Kinds,       \* what they may be: a subset of AllKinds
    Systems,     \* LV1 consoles
    None,        \* no system and no task
    Readers,     \* subscribers of the event bus that are modelled
    MaxFlaps     \* bound: connections an LV1 actor loses

AllKinds == {"connect", "auto", "disconnect", "discover"}

ASSUME LifecycleAssumption ==
    /\ Kinds \subseteq AllKinds
    /\ None \notin Systems /\ None \notin Tasks
    /\ Readers \subseteq {"scenes", "projector"}
    /\ MaxFlaps \in Nat

VARIABLES
    generation,  \* the active generation
    runtime,     \* generation of the installed runtime, 0 when there is none
    connecting,
    lock,        \* the task holding the transition lock, or None
    discovery,   \* the task holding the discovery lock, or None
    showPeer, identity,       \* Show: generation of its LV1 peer (0: none), connected system
    scenesPeer, scenesGen,    \* Scenes: generation of its peers (0: none), its own generation
    remembered,  \* Settings: last connected system
    discovered,  \* Show: the systems last discovered and the probe that found them
    probes,      \* probes started so far
    up, flaps,   \* LV1 actors that are connected; losses so far
    bus,         \* facts each reader has not read yet
    tx           \* the tasks

coreVars == <<generation, runtime, connecting, lock>>
peerVars == <<showPeer, scenesPeer, scenesGen>>
discoveryVars == <<discovery, discovered, probes>>
lvVars == <<up, flaps>>
vars == <<coreVars, peerVars, discoveryVars, lvVars, identity, remembered, bus, tx>>

\* Two generations per connect and one per disconnect or failed connect.
Generations == 0 .. 3 * Cardinality(Tasks)
Fact(kind, g) == [kind |-> kind, generation |-> g]
Facts == [kind : {"generation", "connected", "disconnected"}, generation : Generations]
Points == {"idle", "abort", "announceAbort", "begin", "announceBegin", "install", "await",
           "metadata", "peers", "ready", "remember", "publish", "accept",
           "rejectRuntime", "rejectShow", "failMetadata", "failClear", "announceFail",
           "lock", "dropMetadata", "dropRuntime", "announceDown", "announceDrop",
           "discover", "probe", "results", "ok", "failed", "superseded", "unchanged"}
Final == {"ok", "failed", "superseded", "unchanged"}

TypeOK ==
    /\ generation \in Generations /\ runtime \in Generations /\ connecting \in BOOLEAN
    /\ lock \in Tasks \cup {None} /\ discovery \in Tasks \cup {None}
    /\ showPeer \in Generations /\ scenesPeer \in Generations /\ scenesGen \in Generations
    /\ identity \in Systems \cup {None} /\ remembered \in Systems \cup {None}
    /\ discovered \in [probe : Nat, found : SUBSET Systems] /\ probes \in Nat
    /\ up \subseteq Generations /\ flaps \in 0 .. MaxFlaps
    /\ bus \in [Readers -> Seq(Facts)]
    /\ tx \in [Tasks -> [kind : Kinds \cup {None}, at : Points, own : Generations,
                         system : Systems \cup {None}, probe : Nat]]

Init ==
    /\ generation = 0 /\ runtime = 0 /\ connecting = FALSE /\ lock = None /\ discovery = None
    /\ showPeer = 0 /\ identity = None /\ scenesPeer = 0 /\ scenesGen = 0
    /\ remembered \in Systems \cup {None}
    /\ discovered = [probe |-> 0, found |-> {}] /\ probes = 0
    /\ up = {} /\ flaps = 0
    /\ bus = [r \in Readers |-> <<>>]
    /\ tx = [t \in Tasks |-> [kind |-> None, at |-> "idle", own |-> 0, system |-> None,
                              probe |-> 0]]

-----------------------------------------------------------------------------
(* Shared pieces *)

At(t, p) == tx[t].at = p
Own(t) == tx[t].own
Current(t) == Own(t) = generation
Quiet == \A t \in Tasks : tx[t].at \in {"idle"} \cup Final

Go(t, p) == tx' = [tx EXCEPT ![t].at = p]

\* Scenes reacts to generation facts only.
Wants(r, f) == r # "scenes" \/ f.kind = "generation"
Publish(f) == bus' = [r \in Readers |-> IF Wants(r, f) THEN Append(bus[r], f) ELSE bus[r]]

\* Peers are cleared for one generation only.
ClearShowPeer(g) == showPeer' = IF showPeer = g THEN 0 ELSE showPeer
ClearScenesPeer(g) == scenesPeer' = IF scenesPeer = g THEN 0 ELSE scenesPeer

\* Clearing keeps the runtime of a failed candidate.
ClearRuntimeKeepingIt(g) ==
    /\ generation = g
    /\ generation' = generation + 1
    /\ connecting' = FALSE /\ UNCHANGED runtime
    /\ ClearShowPeer(g) /\ ClearScenesPeer(g)

\* clear_runtime_if_current: compare, advance and clear under one lock.
ClearRuntime(g) ==
    /\ generation = g
    /\ generation' = generation + 1
    /\ runtime' = 0 /\ connecting' = FALSE
    /\ ClearShowPeer(g) /\ ClearScenesPeer(g)

\* Show's SetLv1ConnectionIfCurrent, under the generation's lock.
SetIdentity(t, s) == Current(t) /\ identity' = s

\* The metadata of a system that is no longer current is refused.
IdentityRefused(t) == ~Current(t) /\ UNCHANGED identity

-----------------------------------------------------------------------------
(* Requests *)

\* connect_lv1_system reads the generation it aborts.
StartConnect(t) ==
    /\ At(t, "idle") /\ "connect" \in Kinds
    /\ \E s \in Systems :
          tx' = [tx EXCEPT ![t] = [kind |-> "connect", at |-> "abort", own |-> generation,
                                   system |-> s, probe |-> 0]]
    /\ UNCHANGED <<coreVars, peerVars, discoveryVars, lvVars, identity, remembered, bus>>

\* A disconnect reads the generation it is about, then waits for the lock.
StartDisconnect(t) ==
    /\ At(t, "idle") /\ "disconnect" \in Kinds
    /\ tx' = [tx EXCEPT ![t] = [kind |-> "disconnect", at |-> "lock", own |-> generation,
                                system |-> None, probe |-> 0]]
    /\ UNCHANGED <<coreVars, peerVars, discoveryVars, lvVars, identity, remembered, bus>>

\* The automatic connect does nothing without a remembered system.
StartAuto(t) ==
    /\ At(t, "idle") /\ "auto" \in Kinds
    /\ tx' = [tx EXCEPT ![t] = [kind |-> "auto", own |-> generation, probe |-> 0,
                                at |-> IF remembered = None THEN "unchanged" ELSE "discover",
                                system |-> remembered]]
    /\ UNCHANGED <<coreVars, peerVars, discoveryVars, lvVars, identity, remembered, bus>>

StartDiscover(t) ==
    /\ At(t, "idle") /\ "discover" \in Kinds
    /\ tx' = [tx EXCEPT ![t].kind = "discover", ![t].at = "discover"]
    /\ UNCHANGED <<coreVars, peerVars, discoveryVars, lvVars, identity, remembered, bus>>

-----------------------------------------------------------------------------
(* Discovery, one probe at a time *)

DiscoveryFree == discovery = None

BeginProbe(t) ==
    /\ At(t, "discover") /\ DiscoveryFree
    /\ discovery' = t /\ probes' = probes + 1
    /\ tx' = [tx EXCEPT ![t].at = "probe", ![t].probe = probes + 1]
    /\ UNCHANGED <<coreVars, peerVars, discovered, lvVars, identity, remembered, bus>>

\* The worker answers and Show takes the list; the lock is kept until it has.
\* The automatic connect then aborts the generation of that moment.
Discovered(t) ==
    /\ At(t, "probe")
    /\ \E found \in SUBSET Systems :
          /\ discovered' = [probe |-> tx[t].probe, found |-> found]
          /\ tx' = [tx EXCEPT ![t].at =
                        IF tx[t].kind = "auto" THEN "results" ELSE "ok"]
    /\ discovery' = None
    /\ UNCHANGED <<coreVars, peerVars, probes, lvVars, identity, remembered, bus>>

\* A failed probe leaves the list as it was.
DiscoveryFails(t) ==
    /\ At(t, "probe")
    /\ discovery' = None
    /\ Go(t, "failed")
    /\ UNCHANGED <<coreVars, peerVars, discovered, probes, lvVars, identity, remembered, bus>>

\* Only the remembered system, if the list Show has now shows it, is connected to.
ChooseTarget(t) ==
    /\ At(t, "results")
    /\ tx' = [tx EXCEPT ![t].at = IF tx[t].system \in discovered.found THEN "abort"
                                  ELSE "unchanged",
                        ![t].own = generation]
    /\ UNCHANGED <<coreVars, peerVars, discoveryVars, lvVars, identity, remembered, bus>>

-----------------------------------------------------------------------------
(* A connect: abort what is installed, begin, install, wait, accept *)

\* abort_current_runtime holds no transition lock.
AbortCurrent(t) ==
    /\ At(t, "abort")
    /\ \/ /\ ClearRuntime(Own(t))
          /\ tx' = [tx EXCEPT ![t].at = "announceAbort", ![t].own = generation + 1]
       \/ /\ ~Current(t) /\ Go(t, "begin")
          /\ UNCHANGED <<generation, runtime, connecting, showPeer, scenesPeer>>
    /\ UNCHANGED <<lock, scenesGen, discoveryVars, lvVars, identity, remembered, bus>>

Announce(t, from, to) ==
    /\ At(t, from) /\ Publish(Fact("generation", Own(t)))
    /\ Go(t, to)
    /\ UNCHANGED <<coreVars, peerVars, discoveryVars, lvVars, identity, remembered>>

AnnounceAbort(t) == Announce(t, "announceAbort", "begin")

\* begin_connecting advances under both locks and clears nothing.
BeginConnecting(t) ==
    /\ At(t, "begin") /\ lock = None
    /\ lock' = t
    /\ generation' = generation + 1 /\ connecting' = TRUE
    /\ tx' = [tx EXCEPT ![t].at = "announceBegin", ![t].own = generation + 1]
    /\ UNCHANGED <<runtime, peerVars, discoveryVars, lvVars, identity, remembered, bus>>

AnnounceBegin(t) ==
    /\ At(t, "announceBegin") /\ Publish(Fact("generation", Own(t)))
    /\ lock' = None
    /\ Go(t, "install")
    /\ UNCHANGED <<generation, runtime, connecting, peerVars, discoveryVars, lvVars, identity,
                   remembered>>

\* The fence is read before the await and not again.
InstallUnfenced(t) ==
    /\ At(t, "install")
    /\ showPeer' = Own(t) /\ runtime' = Own(t) /\ connecting' = FALSE
    /\ Go(t, "await")
    /\ UNCHANGED <<generation, lock, scenesPeer, scenesGen, discoveryVars, lvVars, identity,
                   remembered, bus>>

\* install_runtime_transaction: both peers and the runtime, or nothing.
Install(t) ==
    /\ At(t, "install")
    /\ \/ /\ Current(t)
          /\ showPeer' = Own(t) /\ runtime' = Own(t) /\ connecting' = FALSE
          /\ Go(t, "await")
       \/ /\ ~Current(t) /\ Go(t, "rejectRuntime")
          /\ UNCHANGED <<showPeer, runtime, connecting>>
    /\ UNCHANGED <<generation, lock, scenesPeer, scenesGen, discoveryVars, lvVars, identity,
                   remembered, bus>>

\* wait_for_connected_snapshot: a connected LV1, or a failure at any time
\* (disconnected, superseded, ten seconds over).
Connected(t) ==
    /\ At(t, "await") /\ Own(t) \in up
    /\ Go(t, "metadata")
    /\ UNCHANGED <<coreVars, peerVars, discoveryVars, lvVars, identity, remembered, bus>>

NotConnected(t) ==
    /\ At(t, "await")
    /\ Go(t, "failMetadata")
    /\ UNCHANGED <<coreVars, peerVars, discoveryVars, lvVars, identity, remembered, bus>>

ShowAccepts(t) ==
    /\ At(t, "metadata")
    /\ \/ SetIdentity(t, tx[t].system) /\ Go(t, "peers")
       \/ IdentityRefused(t) /\ Go(t, "rejectRuntime")
    /\ UNCHANGED <<coreVars, peerVars, discoveryVars, lvVars, remembered, bus>>

InstallScenePeers(t) ==
    /\ At(t, "peers")
    /\ IF Current(t) /\ runtime = Own(t)
       THEN scenesPeer' = Own(t) /\ Go(t, "ready")
       ELSE Go(t, "rejectRuntime") /\ UNCHANGED scenesPeer
    /\ UNCHANGED <<coreVars, showPeer, scenesGen, discoveryVars, lvVars, identity, remembered,
                   bus>>

\* Scenes changes generation: the peers of the one it leaves are dropped.
ScenesTransition(g) ==
    /\ scenesGen' = g
    /\ IF g # scenesGen THEN ClearScenesPeer(scenesGen) ELSE UNCHANGED scenesPeer

\* RuntimePeersReady: Scenes first joins the active generation, then accepts.
ScenesReady(t) ==
    /\ At(t, "ready")
    /\ ScenesTransition(generation)
    /\ Go(t, IF Current(t) /\ scenesPeer' = Own(t) THEN "remember" ELSE "rejectRuntime")
    /\ UNCHANGED <<coreVars, showPeer, discoveryVars, lvVars, identity, remembered, bus>>

\* Settings works on one command at a time; a superseded connection is not staged.
SettingsFree == \A t \in Tasks : ~At(t, "publish")

StageRemembered(t) ==
    /\ At(t, "remember") /\ SettingsFree
    /\ \/ Current(t) /\ Go(t, "publish")
       \/ Go(t, "accept")    \* superseded, unchanged or not staged: the connection goes on
    /\ UNCHANGED <<coreVars, peerVars, discoveryVars, lvVars, identity, remembered, bus>>

\* The generation is only checked before the write is staged.
PublishRememberedUnchecked(t) ==
    /\ At(t, "publish")
    /\ remembered' = tx[t].system
    /\ Go(t, "accept")
    /\ UNCHANGED <<coreVars, peerVars, discoveryVars, lvVars, identity, bus>>

PublishRemembered(t) ==
    /\ At(t, "publish")
    /\ remembered' = IF Current(t) THEN tx[t].system ELSE remembered
    /\ Go(t, "accept")
    /\ UNCHANGED <<coreVars, peerVars, discoveryVars, lvVars, identity, bus>>

Accept(t) ==
    /\ At(t, "accept")
    /\ Go(t, IF Current(t) THEN "ok" ELSE "rejectRuntime")
    /\ UNCHANGED <<coreVars, peerVars, discoveryVars, lvVars, identity, remembered, bus>>

\* A rejected candidate clears whatever runtime is installed.
RejectRuntimeOfAnyone(t) ==
    /\ At(t, "rejectRuntime")
    /\ runtime' = 0 /\ ClearScenesPeer(Own(t))
    /\ Go(t, "rejectShow")
    /\ UNCHANGED <<generation, connecting, lock, showPeer, scenesGen, discoveryVars, lvVars,
                   identity, remembered, bus>>

\* abort_rejected_connection_transaction: only what belongs to the candidate.
RejectRuntime(t) ==
    /\ At(t, "rejectRuntime")
    /\ IF runtime = Own(t) THEN runtime' = 0 /\ ClearScenesPeer(Own(t))
                           ELSE UNCHANGED <<runtime, scenesPeer>>
    /\ Go(t, "rejectShow")
    /\ UNCHANGED <<generation, connecting, lock, showPeer, scenesGen, discoveryVars, lvVars,
                   identity, remembered, bus>>

RejectShow(t) ==
    /\ At(t, "rejectShow")
    /\ ClearShowPeer(Own(t))
    /\ Go(t, "failed")
    /\ UNCHANGED <<coreVars, scenesPeer, scenesGen, discoveryVars, lvVars, identity, remembered,
                   bus>>

\* finalize_failed_connection
FailMetadata(t) ==
    /\ At(t, "failMetadata")
    /\ SetIdentity(t, None) \/ IdentityRefused(t)
    /\ Go(t, "failClear")
    /\ UNCHANGED <<coreVars, peerVars, discoveryVars, lvVars, remembered, bus>>

FailClear(t) ==
    /\ At(t, "failClear")
    /\ \/ /\ ClearRuntime(Own(t))
          /\ tx' = [tx EXCEPT ![t].at = "announceFail", ![t].own = generation + 1]
       \/ /\ ~Current(t) /\ Go(t, "failed")
          /\ UNCHANGED <<generation, runtime, connecting, showPeer, scenesPeer>>
    /\ UNCHANGED <<lock, scenesGen, discoveryVars, lvVars, identity, remembered, bus>>

AnnounceFail(t) == Announce(t, "announceFail", "failed")

-----------------------------------------------------------------------------
(* A disconnect, under the transition lock *)

TakeLock(t) ==
    /\ At(t, "lock") /\ lock = None
    /\ lock' = t
    /\ Go(t, "dropMetadata")
    /\ UNCHANGED <<generation, runtime, connecting, peerVars, discoveryVars, lvVars, identity,
                   remembered, bus>>

DropMetadata(t) ==
    /\ At(t, "dropMetadata")
    /\ \/ SetIdentity(t, None) /\ Go(t, "dropRuntime") /\ UNCHANGED lock
       \/ IdentityRefused(t) /\ Go(t, "superseded") /\ lock' = None
    /\ UNCHANGED <<generation, runtime, connecting, peerVars, discoveryVars, lvVars, remembered,
                   bus>>

DropRuntime(t) ==
    /\ At(t, "dropRuntime")
    /\ \/ ClearRuntime(Own(t)) /\ Go(t, "announceDown") /\ UNCHANGED lock
       \/ /\ ~Current(t) /\ Go(t, "superseded") /\ lock' = None
          /\ UNCHANGED <<generation, runtime, connecting, showPeer, scenesPeer>>
    /\ UNCHANGED <<scenesGen, discoveryVars, lvVars, identity, remembered, bus>>

AnnounceDown(t) ==
    /\ At(t, "announceDown") /\ Publish(Fact("disconnected", Own(t)))
    /\ Go(t, "announceDrop")
    /\ UNCHANGED <<coreVars, peerVars, discoveryVars, lvVars, identity, remembered>>

AnnounceDrop(t) ==
    /\ At(t, "announceDrop") /\ Publish(Fact("generation", Own(t) + 1))
    /\ lock' = None
    /\ Go(t, "ok")
    /\ UNCHANGED <<generation, runtime, connecting, peerVars, discoveryVars, lvVars, identity,
                   remembered>>

-----------------------------------------------------------------------------
(* The actors around it *)

\* An LV1 actor runs while a handle to it exists: the lifecycle's, a peer's or
\* that of the connect that built it.
Holds(t, g) ==
    /\ Own(t) = g
    /\ tx[t].at \in {"await", "metadata", "peers", "ready", "remember", "publish", "accept"}
Running(g) ==
    g > 0 /\ (g \in {runtime, showPeer, scenesPeer} \/ \E t \in Tasks : Holds(t, g))
Actors == {g \in {runtime, showPeer, scenesPeer} \cup {Own(t) : t \in Tasks} : Running(g)}

Lv1Connects(g) ==
    /\ Running(g) /\ g \notin up
    /\ up' = up \cup {g}
    /\ Publish(Fact("connected", g))
    /\ UNCHANGED <<coreVars, peerVars, discoveryVars, flaps, identity, remembered, tx>>

Lv1Drops(g) ==
    /\ Running(g) /\ g \in up /\ flaps < MaxFlaps
    /\ up' = up \ {g} /\ flaps' = flaps + 1
    /\ Publish(Fact("disconnected", g))
    /\ UNCHANGED <<coreVars, peerVars, discoveryVars, identity, remembered, tx>>

\* An actor whose last handle is gone ends.
Lv1Ends(g) ==
    /\ ~Running(g) /\ g \in up
    /\ up' = up \ {g}
    /\ UNCHANGED <<coreVars, peerVars, discoveryVars, flaps, identity, remembered, bus, tx>>

ScenesReads ==
    /\ "scenes" \in Readers /\ bus["scenes"] # <<>>
    /\ bus' = [bus EXCEPT !["scenes"] = Tail(@)]
    /\ ScenesTransition(Head(bus["scenes"]).generation)
    /\ UNCHANGED <<coreVars, showPeer, discoveryVars, lvVars, identity, remembered, tx>>

ConnectStep(t) ==
    \/ AbortCurrent(t) \/ AnnounceAbort(t) \/ BeginConnecting(t) \/ AnnounceBegin(t)
    \/ Install(t) \/ ShowAccepts(t) \/ InstallScenePeers(t) \/ ScenesReady(t)
    \/ StageRemembered(t) \/ PublishRemembered(t) \/ Accept(t)
    \/ RejectRuntime(t) \/ RejectShow(t)
    \/ FailMetadata(t) \/ FailClear(t) \/ AnnounceFail(t)
DisconnectStep(t) ==
    TakeLock(t) \/ DropMetadata(t) \/ DropRuntime(t) \/ AnnounceDown(t) \/ AnnounceDrop(t)
DiscoveryStep(t) == BeginProbe(t) \/ ChooseTarget(t)
Verdict(t) == Connected(t) \/ NotConnected(t)
ProbeAnswer(t) == Discovered(t) \/ DiscoveryFails(t)
TaskStep(t) ==
    ConnectStep(t) \/ DisconnectStep(t) \/ DiscoveryStep(t) \/ Verdict(t) \/ ProbeAnswer(t)
Start(t) == StartConnect(t) \/ StartDisconnect(t) \/ StartAuto(t) \/ StartDiscover(t)

Next ==
    \/ \E t \in Tasks : Start(t) \/ TaskStep(t)
    \/ \E g \in Actors : Lv1Connects(g) \/ Lv1Drops(g)
    \/ \E g \in up : Lv1Ends(g)
    \/ ScenesReads

Spec == Init /\ [][Next]_vars

-----------------------------------------------------------------------------
(* Properties *)

\* A task that was superseded leaves what belongs to the active generation
\* alone: its runtime, its peer, the identity Show reports, the console Settings
\* remembers.  It may only begin anew (every *_if_current of lifecycle/mod.rs).
SupersededChangesNothing ==
    [][\A t \in Tasks :
          tx'[t] # tx[t] /\ ~Current(t) /\ tx[t].at \notin {"idle", "begin"}
          => /\ generation' = generation /\ identity' = identity
             /\ remembered' = remembered
             /\ runtime = generation => runtime' = generation
             /\ showPeer = generation => showPeer' = generation]_vars

\* When every request has ended nothing is half done: no lock is held, nothing
\* is still said to be connecting, and a runtime that is left is the active one,
\* accepted by a connect to the console that Show reports.
QuietIsConsistent ==
    Quiet => /\ ~connecting /\ lock = None /\ discovery = None
             /\ runtime \in {0, generation}
             /\ runtime > 0 => \E t \in Tasks : /\ At(t, "ok") /\ Current(t)
                                                /\ identity = tx[t].system

\* Settings remembers a console only while a connect to it owns the active
\* generation and its installed runtime (settings/actor.rs: the generation is
\* checked before the write is staged and again before it is published).
RememberedWasConnected ==
    [][remembered' # remembered =>
         \E t \in Tasks : /\ tx[t].kind \in {"connect", "auto"} /\ Current(t)
                          /\ remembered' = tx[t].system /\ runtime = Own(t)]_vars

\* Show never replaces the result of a probe by that of an older one
\* (serialized-nonblocking-discovery).
NewestDiscoveryKept == [][discovered'.probe >= discovered.probe]_vars

\* Announcements still to come, and generations begun and not installed.
Owing(t) == IF tx[t].at \in {"announceAbort", "announceBegin", "announceFail"} THEN {Own(t)}
            ELSE IF tx[t].at \in {"announceDown", "announceDrop"} THEN {Own(t) + 1} ELSE {}
Beginning(t) == IF tx[t].at \in {"announceBegin", "install"} THEN {Own(t)} ELSE {}
\* To those who follow it the lifecycle is Connections.
C == INSTANCE Connections WITH
        owed <- UNION {Owing(t) : t \in Tasks}, begun <- UNION {Beginning(t) : t \in Tasks},
        actors <- Actors, up <- up \cap Actors
ImplementsConnections == C!ConnectionsSpec

\* "For an `Ok` result targeting generation `N`, this function MUST clear
\* connection metadata and runtime endpoints" (lifecycle/mod.rs,
\* generation-fenced-disconnect-effects).
DisconnectClearsIdentity ==
    \A t \in Tasks :
        At(t, "ok") /\ tx[t].kind = "disconnect" /\ Own(t) + 1 = generation => identity = None

\* Scenes ends on the active generation once it has read every announcement.
ScenesEndsCurrent == Quiet /\ bus["scenes"] = <<>> => scenesGen = generation
=============================================================================
