--------------------------- MODULE LifecycleProofs ---------------------------
(***************************************************************************)
(* Theorems about Lifecycle, for every number of requests, consoles and    *)
(* readers.  They rest on ConnectionInv: a generation made current belongs *)
(* to the one request that made it so until that request gives it up, so   *)
(* no request is misled by what another did with the same generation.      *)
(***************************************************************************)
EXTENDS Lifecycle, TLAPS

USE DEF coreVars, peerVars, discoveryVars, lvVars, At, Own, Current, Go

-----------------------------------------------------------------------------
(* The inductive invariant *)

Request == [kind : Kinds \cup {None}, at : Points, own : Nat,
            system : Systems \cup {None}, probe : Nat]

\* Nothing names a generation beyond the active one.
GenerationsOK ==
    /\ generation \in Nat
    /\ runtime \in 0 .. generation
    /\ showPeer \in 0 .. generation /\ scenesPeer \in 0 .. generation
    /\ up \subseteq 1 .. generation
    /\ probes \in Nat /\ remembered \in Systems \cup {None}
    /\ tx \in [Tasks -> Request]
    /\ \A t \in Tasks : Own(t) <= generation

\* A request has the generation it made current, until it ends or gives it up.
Owned == {"announceAbort", "announceFail", "announceBegin", "install", "await", "metadata",
          "peers", "ready", "remember", "publish", "accept", "rejectRuntime", "rejectShow",
          "failMetadata", "failClear"}
Has(t, g) ==
    \/ tx[t].at \in Owned /\ Own(t) = g
    \/ tx[t].at \in {"announceDown", "announceDrop"} /\ Own(t) + 1 = g
    \/ At(t, "ok") /\ tx[t].kind \in {"connect", "auto"} /\ Own(t) = g
OwnersOK ==
    \A t \in Tasks, g \in Nat : Has(t, g) =>
        /\ g \in 1 .. generation
        /\ \A u \in Tasks \ {t} : ~Has(u, g)

\* A connect that is not installed yet is known to nobody else.
UnknownOK ==
    \A t \in Tasks : tx[t].at \in {"announceBegin", "install"} =>
        Own(t) \notin {runtime, showPeer, scenesPeer} \cup up

\* What a request is tells what it may be doing.
Connecting == Owned \cup {"abort", "begin"}
Disconnecting == {"lock", "dropMetadata", "dropRuntime", "announceDown", "announceDrop"}
KindsOK ==
    \A t \in Tasks :
        /\ tx[t].at \in Connecting => tx[t].kind \in {"connect", "auto"}
        /\ tx[t].at \in Disconnecting => tx[t].kind = "disconnect"
        /\ tx[t].at \in {"discover", "probe"} => tx[t].kind \in {"auto", "discover"}
        /\ At(t, "results") => tx[t].kind = "auto"

\* An installed connect that is still current has its runtime.
Installed == {"await", "metadata", "peers", "ready", "remember", "publish", "accept"}
InstalledOK ==
    \A t \in Tasks : tx[t].at \in Installed /\ Current(t) => runtime = Own(t)

ConnectionInv == GenerationsOK /\ OwnersOK /\ UnknownOK /\ KindsOK /\ InstalledOK

\* The locks are with the request whose program is inside them.
Locking == {"announceBegin", "dropMetadata", "dropRuntime", "announceDown", "announceDrop"}
LocksOK ==
    /\ lock \in Tasks \cup {None} /\ discovery \in Tasks \cup {None}
    /\ \A t \in Tasks : /\ tx[t].at \in Locking <=> lock = t
                        /\ At(t, "probe") <=> discovery = t

\* A current request is about to install what is being connected, and to replace
\* a runtime that is not the active one.
Begins(t) == tx[t].at \in {"announceBegin", "install"} /\ Current(t)
BeginningOK == connecting \/ runtime \notin {0, generation} => \E t \in Tasks : Begins(t)

\* A current request answers for the active runtime: it will clear or accept it,
\* or accepted it for the console that Show reports.
Answers(t) ==
    /\ Current(t)
    /\ \/ tx[t].at \in {"dropRuntime", "await", "metadata", "rejectRuntime",
                        "failMetadata", "failClear"}
       \/ /\ tx[t].at \in {"peers", "ready", "remember", "publish", "accept", "ok"}
          /\ tx[t].kind \in {"connect", "auto"} /\ identity = tx[t].system
AcceptedOK == runtime = generation /\ runtime > 0 => \E t \in Tasks : Answers(t)

QuietInv == LocksOK /\ BeginningOK /\ AcceptedOK

\* Preservation, one case per action.
LEMMA GenerationsStep ==
  ASSUME GenerationsOK, NEW t \in Tasks, Start(t) \/ TaskStep(t)
  PROVE  GenerationsOK'
<1>1. CASE StartConnect(t)
  BY <1>1 DEF StartConnect, GenerationsOK, Request, Points, Final
<1>2. CASE StartDisconnect(t)
  BY <1>2 DEF StartDisconnect, GenerationsOK, Request, Points, Final
<1>3. CASE StartAuto(t)
  BY <1>3 DEF StartAuto, GenerationsOK, Request, Points, Final
<1>4. CASE StartDiscover(t)
  BY <1>4 DEF StartDiscover, GenerationsOK, Request, Points, Final
<1>5. CASE BeginProbe(t)
  <2>1. tx[t] \in Request /\ probes + 1 \in Nat
    BY DEF GenerationsOK
  <2>2. [tx[t] EXCEPT !.at = "probe", !.probe = probes + 1] \in Request
    BY <2>1 DEF Request, Points
  <2>3. tx' = [tx EXCEPT ![t] = [tx[t] EXCEPT !.at = "probe", !.probe = probes + 1]]
    BY <1>5 DEF BeginProbe
  <2>4. PICK r \in Request : tx' = [tx EXCEPT ![t] = r] /\ r.own = Own(t)
    BY <2>1, <2>2, <2>3 DEF Request
  <2> QED
    BY <1>5, <2>1, <2>4 DEF BeginProbe, GenerationsOK
<1>6. CASE Discovered(t)
  BY <1>6 DEF Discovered, GenerationsOK, Request, Points, Final
<1>7. CASE DiscoveryFails(t)
  BY <1>7 DEF DiscoveryFails, GenerationsOK, Request, Points, Final
<1>8. CASE ChooseTarget(t)
  <2>1. PICK p \in {"abort", "unchanged"} :
           tx' = [tx EXCEPT ![t] = [tx[t] EXCEPT !.at = p, !.own = generation]]
    BY <1>8 DEF ChooseTarget
  <2>2. tx[t] \in Request /\ generation \in Nat
    BY DEF GenerationsOK
  <2>3. [tx[t] EXCEPT !.at = p, !.own = generation] \in Request
    BY <2>2 DEF Request, Points
  <2>4. PICK r \in Request : tx' = [tx EXCEPT ![t] = r] /\ r.own = generation
    BY <2>1, <2>2, <2>3 DEF Request
  <2>5. UNCHANGED <<coreVars, peerVars, discoveryVars, lvVars, remembered>>
    BY <1>8 DEF ChooseTarget
  <2> QED
    BY <2>2, <2>4, <2>5 DEF GenerationsOK
<1>9. CASE AbortCurrent(t)
  BY <1>9
     DEF AbortCurrent, ClearRuntime, ClearShowPeer, ClearScenesPeer, GenerationsOK,
         Request, Points, Final
<1>10. CASE AnnounceAbort(t)
  BY <1>10 DEF AnnounceAbort, Announce, GenerationsOK, Request, Points, Final
<1>11. CASE BeginConnecting(t)
  BY <1>11 DEF BeginConnecting, GenerationsOK, Request, Points, Final
<1>12. CASE AnnounceBegin(t)
  BY <1>12 DEF AnnounceBegin, GenerationsOK, Request, Points, Final
<1>13. CASE Install(t)
  BY <1>13 DEF Install, GenerationsOK, Request, Points, Final
<1>14. CASE Connected(t)
  BY <1>14 DEF Connected, GenerationsOK, Request, Points, Final
<1>15. CASE NotConnected(t)
  BY <1>15 DEF NotConnected, GenerationsOK, Request, Points, Final
<1>16. CASE ShowAccepts(t)
  BY <1>16
     DEF ShowAccepts, SetIdentity, IdentityRefused, GenerationsOK, Request, Points, Final
<1>17. CASE InstallScenePeers(t)
  BY <1>17 DEF InstallScenePeers, GenerationsOK, Request, Points, Final
<1>18. CASE ScenesReady(t)
  BY <1>18
     DEF ScenesReady, ScenesTransition, ClearScenesPeer, GenerationsOK, Request, Points,
         Final
<1>19. CASE StageRemembered(t)
  BY <1>19 DEF StageRemembered, GenerationsOK, Request, Points, Final
<1>20. CASE PublishRemembered(t)
  BY <1>20 DEF PublishRemembered, GenerationsOK, Request, Points, Final
<1>21. CASE Accept(t)
  BY <1>21 DEF Accept, GenerationsOK, Request, Points, Final
<1>22. CASE RejectRuntime(t)
  BY <1>22 DEF RejectRuntime, ClearScenesPeer, GenerationsOK, Request, Points, Final
<1>23. CASE RejectShow(t)
  BY <1>23 DEF RejectShow, ClearShowPeer, GenerationsOK, Request, Points, Final
<1>24. CASE FailMetadata(t)
  BY <1>24
     DEF FailMetadata, SetIdentity, IdentityRefused, GenerationsOK, Request, Points,
         Final
<1>25. CASE FailClear(t)
  BY <1>25
     DEF FailClear, ClearRuntime, ClearShowPeer, ClearScenesPeer, GenerationsOK, Request,
         Points, Final
<1>26. CASE AnnounceFail(t)
  BY <1>26 DEF AnnounceFail, Announce, GenerationsOK, Request, Points, Final
<1>27. CASE TakeLock(t)
  BY <1>27 DEF TakeLock, GenerationsOK, Request, Points, Final
<1>28. CASE DropMetadata(t)
  BY <1>28
     DEF DropMetadata, SetIdentity, IdentityRefused, GenerationsOK, Request, Points,
         Final
<1>29. CASE DropRuntime(t)
  BY <1>29
     DEF DropRuntime, ClearRuntime, ClearShowPeer, ClearScenesPeer, GenerationsOK,
         Request, Points, Final
<1>30. CASE AnnounceDown(t)
  BY <1>30 DEF AnnounceDown, GenerationsOK, Request, Points, Final
<1>31. CASE AnnounceDrop(t)
  BY <1>31 DEF AnnounceDrop, GenerationsOK, Request, Points, Final
<1> QED
  BY <1>1, <1>2, <1>3, <1>4, <1>5, <1>6, <1>7, <1>8, <1>9, <1>10, <1>11, <1>12, <1>13,
     <1>14, <1>15, <1>16, <1>17, <1>18, <1>19, <1>20, <1>21, <1>22, <1>23, <1>24, <1>25,
     <1>26, <1>27, <1>28, <1>29, <1>30, <1>31
     DEF Start, TaskStep, ConnectStep, DisconnectStep, DiscoveryStep, Verdict, ProbeAnswer

\* No two requests come to have the same generation.
LEMMA OwnersStep ==
  ASSUME GenerationsOK, KindsOK, OwnersOK, NEW t \in Tasks, Start(t) \/ TaskStep(t)
  PROVE  OwnersOK'
<1>1. CASE StartConnect(t)
  BY <1>1
     DEF StartConnect, GenerationsOK, Request, OwnersOK, Has, Owned, KindsOK, Connecting,
         Disconnecting
<1>2. CASE StartDisconnect(t)
  BY <1>2
     DEF StartDisconnect, GenerationsOK, Request, OwnersOK, Has, Owned, KindsOK,
         Connecting, Disconnecting
<1>3. CASE StartAuto(t)
  BY <1>3
     DEF StartAuto, GenerationsOK, Request, OwnersOK, Has, Owned, KindsOK, Connecting,
         Disconnecting
<1>4. CASE StartDiscover(t)
  BY <1>4
     DEF StartDiscover, GenerationsOK, Request, OwnersOK, Has, Owned, KindsOK,
         Connecting, Disconnecting
<1>5. CASE BeginProbe(t)
  BY <1>5
     DEF BeginProbe, GenerationsOK, Request, OwnersOK, Has, Owned, KindsOK, Connecting,
         Disconnecting
<1>6. CASE Discovered(t)
  BY <1>6
     DEF Discovered, GenerationsOK, Request, OwnersOK, Has, Owned, KindsOK, Connecting,
         Disconnecting
<1>7. CASE DiscoveryFails(t)
  BY <1>7
     DEF DiscoveryFails, GenerationsOK, Request, OwnersOK, Has, Owned, KindsOK,
         Connecting, Disconnecting
<1>8. CASE ChooseTarget(t)
  <2>1. ASSUME NEW g \in Nat PROVE ~Has(t, g)'
    <3>1. tx'[t].at \in {"abort", "unchanged"}
      BY <1>8 DEF ChooseTarget, GenerationsOK, Request
    <3> QED
      BY <3>1 DEF Has, Owned
  <2>2. ASSUME NEW u \in Tasks \ {t} PROVE tx'[u] = tx[u]
    BY <1>8 DEF ChooseTarget, GenerationsOK, Request
  <2>3. ASSUME NEW u \in Tasks, NEW g \in Nat, Has(u, g)' PROVE u # t /\ Has(u, g)
    BY <2>1, <2>2, <2>3 DEF Has
  <2>4. generation' = generation
    BY <1>8 DEF ChooseTarget
  <2> QED
    BY <2>3, <2>4 DEF OwnersOK
<1>9. CASE AbortCurrent(t)
  BY <1>9
     DEF AbortCurrent, ClearRuntime, ClearShowPeer, ClearScenesPeer, GenerationsOK,
         Request, OwnersOK, Has, Owned, KindsOK, Connecting, Disconnecting
<1>10. CASE AnnounceAbort(t)
  BY <1>10
     DEF AnnounceAbort, Announce, GenerationsOK, Request, OwnersOK, Has, Owned, KindsOK,
         Connecting, Disconnecting
<1>11. CASE BeginConnecting(t)
  BY <1>11
     DEF BeginConnecting, GenerationsOK, Request, OwnersOK, Has, Owned, KindsOK,
         Connecting, Disconnecting
<1>12. CASE AnnounceBegin(t)
  BY <1>12
     DEF AnnounceBegin, GenerationsOK, Request, OwnersOK, Has, Owned, KindsOK,
         Connecting, Disconnecting
<1>13. CASE Install(t)
  BY <1>13
     DEF Install, GenerationsOK, Request, OwnersOK, Has, Owned, KindsOK, Connecting,
         Disconnecting
<1>14. CASE Connected(t)
  BY <1>14
     DEF Connected, GenerationsOK, Request, OwnersOK, Has, Owned, KindsOK, Connecting,
         Disconnecting
<1>15. CASE NotConnected(t)
  BY <1>15
     DEF NotConnected, GenerationsOK, Request, OwnersOK, Has, Owned, KindsOK, Connecting,
         Disconnecting
<1>16. CASE ShowAccepts(t)
  BY <1>16
     DEF ShowAccepts, SetIdentity, IdentityRefused, GenerationsOK, Request, OwnersOK,
         Has, Owned, KindsOK, Connecting, Disconnecting
<1>17. CASE InstallScenePeers(t)
  BY <1>17
     DEF InstallScenePeers, GenerationsOK, Request, OwnersOK, Has, Owned, KindsOK,
         Connecting, Disconnecting
<1>18. CASE ScenesReady(t)
  BY <1>18
     DEF ScenesReady, ScenesTransition, ClearScenesPeer, GenerationsOK, Request,
         OwnersOK, Has, Owned, KindsOK, Connecting, Disconnecting
<1>19. CASE StageRemembered(t)
  BY <1>19
     DEF StageRemembered, GenerationsOK, Request, OwnersOK, Has, Owned, KindsOK,
         Connecting, Disconnecting
<1>20. CASE PublishRemembered(t)
  BY <1>20
     DEF PublishRemembered, GenerationsOK, Request, OwnersOK, Has, Owned, KindsOK,
         Connecting, Disconnecting
<1>21. CASE Accept(t)
  BY <1>21
     DEF Accept, GenerationsOK, Request, OwnersOK, Has, Owned, KindsOK, Connecting,
         Disconnecting
<1>22. CASE RejectRuntime(t)
  BY <1>22
     DEF RejectRuntime, ClearScenesPeer, GenerationsOK, Request, OwnersOK, Has, Owned,
         KindsOK, Connecting, Disconnecting
<1>23. CASE RejectShow(t)
  BY <1>23
     DEF RejectShow, ClearShowPeer, GenerationsOK, Request, OwnersOK, Has, Owned,
         KindsOK, Connecting, Disconnecting
<1>24. CASE FailMetadata(t)
  BY <1>24
     DEF FailMetadata, SetIdentity, IdentityRefused, GenerationsOK, Request, OwnersOK,
         Has, Owned, KindsOK, Connecting, Disconnecting
<1>25. CASE FailClear(t)
  BY <1>25
     DEF FailClear, ClearRuntime, ClearShowPeer, ClearScenesPeer, GenerationsOK, Request,
         OwnersOK, Has, Owned, KindsOK, Connecting, Disconnecting
<1>26. CASE AnnounceFail(t)
  BY <1>26
     DEF AnnounceFail, Announce, GenerationsOK, Request, OwnersOK, Has, Owned, KindsOK,
         Connecting, Disconnecting
<1>27. CASE TakeLock(t)
  BY <1>27
     DEF TakeLock, GenerationsOK, Request, OwnersOK, Has, Owned, KindsOK, Connecting,
         Disconnecting
<1>28. CASE DropMetadata(t)
  BY <1>28
     DEF DropMetadata, SetIdentity, IdentityRefused, GenerationsOK, Request, OwnersOK,
         Has, Owned, KindsOK, Connecting, Disconnecting
<1>29. CASE DropRuntime(t)
  BY <1>29
     DEF DropRuntime, ClearRuntime, ClearShowPeer, ClearScenesPeer, GenerationsOK,
         Request, OwnersOK, Has, Owned, KindsOK, Connecting, Disconnecting
<1>30. CASE AnnounceDown(t)
  BY <1>30
     DEF AnnounceDown, GenerationsOK, Request, OwnersOK, Has, Owned, KindsOK, Connecting,
         Disconnecting
<1>31. CASE AnnounceDrop(t)
  BY <1>31
     DEF AnnounceDrop, GenerationsOK, Request, OwnersOK, Has, Owned, KindsOK, Connecting,
         Disconnecting
<1> QED
  BY <1>1, <1>2, <1>3, <1>4, <1>5, <1>6, <1>7, <1>8, <1>9, <1>10, <1>11, <1>12, <1>13,
     <1>14, <1>15, <1>16, <1>17, <1>18, <1>19, <1>20, <1>21, <1>22, <1>23, <1>24, <1>25,
     <1>26, <1>27, <1>28, <1>29, <1>30, <1>31
     DEF Start, TaskStep, ConnectStep, DisconnectStep, DiscoveryStep, Verdict, ProbeAnswer

\* A request only does what its kind does.
LEMMA KindsStep ==
  ASSUME GenerationsOK, KindsOK, NEW t \in Tasks, Start(t) \/ TaskStep(t)
  PROVE  KindsOK'
<1>1. CASE StartConnect(t)
  BY <1>1
     DEF StartConnect, GenerationsOK, Request, Owned, KindsOK, Connecting, Disconnecting
<1>2. CASE StartDisconnect(t)
  BY <1>2
     DEF StartDisconnect, GenerationsOK, Request, Owned, KindsOK, Connecting,
         Disconnecting
<1>3. CASE StartAuto(t)
  BY <1>3 DEF StartAuto, GenerationsOK, Request, Owned, KindsOK, Connecting, Disconnecting
<1>4. CASE StartDiscover(t)
  BY <1>4
     DEF StartDiscover, GenerationsOK, Request, Owned, KindsOK, Connecting, Disconnecting
<1>5. CASE BeginProbe(t)
  BY <1>5 DEF BeginProbe, GenerationsOK, Request, Owned, KindsOK, Connecting, Disconnecting
<1>6. CASE Discovered(t)
  BY <1>6 DEF Discovered, GenerationsOK, Request, Owned, KindsOK, Connecting, Disconnecting
<1>7. CASE DiscoveryFails(t)
  BY <1>7
     DEF DiscoveryFails, GenerationsOK, Request, Owned, KindsOK, Connecting,
         Disconnecting
<1>8. CASE ChooseTarget(t)
  BY <1>8
     DEF ChooseTarget, GenerationsOK, Request, Owned, KindsOK, Connecting, Disconnecting
<1>9. CASE AbortCurrent(t)
  BY <1>9
     DEF AbortCurrent, ClearRuntime, ClearShowPeer, ClearScenesPeer, GenerationsOK,
         Request, Owned, KindsOK, Connecting, Disconnecting
<1>10. CASE AnnounceAbort(t)
  BY <1>10
     DEF AnnounceAbort, Announce, GenerationsOK, Request, Owned, KindsOK, Connecting,
         Disconnecting
<1>11. CASE BeginConnecting(t)
  BY <1>11
     DEF BeginConnecting, GenerationsOK, Request, Owned, KindsOK, Connecting,
         Disconnecting
<1>12. CASE AnnounceBegin(t)
  BY <1>12
     DEF AnnounceBegin, GenerationsOK, Request, Owned, KindsOK, Connecting, Disconnecting
<1>13. CASE Install(t)
  BY <1>13 DEF Install, GenerationsOK, Request, Owned, KindsOK, Connecting, Disconnecting
<1>14. CASE Connected(t)
  BY <1>14 DEF Connected, GenerationsOK, Request, Owned, KindsOK, Connecting, Disconnecting
<1>15. CASE NotConnected(t)
  BY <1>15
     DEF NotConnected, GenerationsOK, Request, Owned, KindsOK, Connecting, Disconnecting
<1>16. CASE ShowAccepts(t)
  BY <1>16
     DEF ShowAccepts, SetIdentity, IdentityRefused, GenerationsOK, Request, Owned,
         KindsOK, Connecting, Disconnecting
<1>17. CASE InstallScenePeers(t)
  BY <1>17
     DEF InstallScenePeers, GenerationsOK, Request, Owned, KindsOK, Connecting,
         Disconnecting
<1>18. CASE ScenesReady(t)
  BY <1>18
     DEF ScenesReady, ScenesTransition, ClearScenesPeer, GenerationsOK, Request, Owned,
         KindsOK, Connecting, Disconnecting
<1>19. CASE StageRemembered(t)
  BY <1>19
     DEF StageRemembered, GenerationsOK, Request, Owned, KindsOK, Connecting,
         Disconnecting
<1>20. CASE PublishRemembered(t)
  BY <1>20
     DEF PublishRemembered, GenerationsOK, Request, Owned, KindsOK, Connecting,
         Disconnecting
<1>21. CASE Accept(t)
  BY <1>21 DEF Accept, GenerationsOK, Request, Owned, KindsOK, Connecting, Disconnecting
<1>22. CASE RejectRuntime(t)
  BY <1>22
     DEF RejectRuntime, ClearScenesPeer, GenerationsOK, Request, Owned, KindsOK,
         Connecting, Disconnecting
<1>23. CASE RejectShow(t)
  BY <1>23
     DEF RejectShow, ClearShowPeer, GenerationsOK, Request, Owned, KindsOK, Connecting,
         Disconnecting
<1>24. CASE FailMetadata(t)
  BY <1>24
     DEF FailMetadata, SetIdentity, IdentityRefused, GenerationsOK, Request, Owned,
         KindsOK, Connecting, Disconnecting
<1>25. CASE FailClear(t)
  BY <1>25
     DEF FailClear, ClearRuntime, ClearShowPeer, ClearScenesPeer, GenerationsOK, Request,
         Owned, KindsOK, Connecting, Disconnecting
<1>26. CASE AnnounceFail(t)
  BY <1>26
     DEF AnnounceFail, Announce, GenerationsOK, Request, Owned, KindsOK, Connecting,
         Disconnecting
<1>27. CASE TakeLock(t)
  BY <1>27 DEF TakeLock, GenerationsOK, Request, Owned, KindsOK, Connecting, Disconnecting
<1>28. CASE DropMetadata(t)
  BY <1>28
     DEF DropMetadata, SetIdentity, IdentityRefused, GenerationsOK, Request, Owned,
         KindsOK, Connecting, Disconnecting
<1>29. CASE DropRuntime(t)
  BY <1>29
     DEF DropRuntime, ClearRuntime, ClearShowPeer, ClearScenesPeer, GenerationsOK,
         Request, Owned, KindsOK, Connecting, Disconnecting
<1>30. CASE AnnounceDown(t)
  BY <1>30
     DEF AnnounceDown, GenerationsOK, Request, Owned, KindsOK, Connecting, Disconnecting
<1>31. CASE AnnounceDrop(t)
  BY <1>31
     DEF AnnounceDrop, GenerationsOK, Request, Owned, KindsOK, Connecting, Disconnecting
<1> QED
  BY <1>1, <1>2, <1>3, <1>4, <1>5, <1>6, <1>7, <1>8, <1>9, <1>10, <1>11, <1>12, <1>13,
     <1>14, <1>15, <1>16, <1>17, <1>18, <1>19, <1>20, <1>21, <1>22, <1>23, <1>24, <1>25,
     <1>26, <1>27, <1>28, <1>29, <1>30, <1>31
     DEF Start, TaskStep, ConnectStep, DisconnectStep, DiscoveryStep, Verdict, ProbeAnswer

\* What is made current is new, and stays unknown until it is installed.
LEMMA UnknownStep ==
  ASSUME GenerationsOK, KindsOK, OwnersOK, UnknownOK,
         NEW t \in Tasks, Start(t) \/ TaskStep(t)
  PROVE  UnknownOK'
<1>1. CASE StartConnect(t)
  BY <1>1 DEF StartConnect, GenerationsOK, Request, OwnersOK, Has, Owned, UnknownOK
<1>2. CASE StartDisconnect(t)
  BY <1>2 DEF StartDisconnect, GenerationsOK, Request, OwnersOK, Has, Owned, UnknownOK
<1>3. CASE StartAuto(t)
  BY <1>3 DEF StartAuto, GenerationsOK, Request, OwnersOK, Has, Owned, UnknownOK
<1>4. CASE StartDiscover(t)
  BY <1>4 DEF StartDiscover, GenerationsOK, Request, OwnersOK, Has, Owned, UnknownOK
<1>5. CASE BeginProbe(t)
  BY <1>5 DEF BeginProbe, GenerationsOK, Request, OwnersOK, Has, Owned, UnknownOK
<1>6. CASE Discovered(t)
  BY <1>6 DEF Discovered, GenerationsOK, Request, OwnersOK, Has, Owned, UnknownOK
<1>7. CASE DiscoveryFails(t)
  BY <1>7 DEF DiscoveryFails, GenerationsOK, Request, OwnersOK, Has, Owned, UnknownOK
<1>8. CASE ChooseTarget(t)
  BY <1>8 DEF ChooseTarget, GenerationsOK, Request, OwnersOK, Has, Owned, UnknownOK
<1>9. CASE AbortCurrent(t)
  BY <1>9
     DEF AbortCurrent, ClearRuntime, ClearShowPeer, ClearScenesPeer, GenerationsOK,
         Request, OwnersOK, Has, Owned, UnknownOK
<1>10. CASE AnnounceAbort(t)
  BY <1>10
     DEF AnnounceAbort, Announce, GenerationsOK, Request, OwnersOK, Has, Owned, UnknownOK
<1>11. CASE BeginConnecting(t)
  BY <1>11 DEF BeginConnecting, GenerationsOK, Request, OwnersOK, Has, Owned, UnknownOK
<1>12. CASE AnnounceBegin(t)
  BY <1>12 DEF AnnounceBegin, GenerationsOK, Request, OwnersOK, Has, Owned, UnknownOK
<1>13. CASE Install(t)
  BY <1>13 DEF Install, GenerationsOK, Request, OwnersOK, Has, Owned, UnknownOK
<1>14. CASE Connected(t)
  BY <1>14 DEF Connected, GenerationsOK, Request, OwnersOK, Has, Owned, UnknownOK
<1>15. CASE NotConnected(t)
  BY <1>15 DEF NotConnected, GenerationsOK, Request, OwnersOK, Has, Owned, UnknownOK
<1>16. CASE ShowAccepts(t)
  BY <1>16
     DEF ShowAccepts, SetIdentity, IdentityRefused, GenerationsOK, Request, OwnersOK,
         Has, Owned, UnknownOK
<1>17. CASE InstallScenePeers(t)
  BY <1>17 DEF InstallScenePeers, GenerationsOK, Request, OwnersOK, Has, Owned, UnknownOK
<1>18. CASE ScenesReady(t)
  BY <1>18
     DEF ScenesReady, ScenesTransition, ClearScenesPeer, GenerationsOK, Request,
         OwnersOK, Has, Owned, UnknownOK
<1>19. CASE StageRemembered(t)
  BY <1>19 DEF StageRemembered, GenerationsOK, Request, OwnersOK, Has, Owned, UnknownOK
<1>20. CASE PublishRemembered(t)
  BY <1>20 DEF PublishRemembered, GenerationsOK, Request, OwnersOK, Has, Owned, UnknownOK
<1>21. CASE Accept(t)
  BY <1>21 DEF Accept, GenerationsOK, Request, OwnersOK, Has, Owned, UnknownOK
<1>22. CASE RejectRuntime(t)
  BY <1>22
     DEF RejectRuntime, ClearScenesPeer, GenerationsOK, Request, OwnersOK, Has, Owned,
         UnknownOK
<1>23. CASE RejectShow(t)
  BY <1>23
     DEF RejectShow, ClearShowPeer, GenerationsOK, Request, OwnersOK, Has, Owned,
         UnknownOK
<1>24. CASE FailMetadata(t)
  BY <1>24
     DEF FailMetadata, SetIdentity, IdentityRefused, GenerationsOK, Request, OwnersOK,
         Has, Owned, UnknownOK
<1>25. CASE FailClear(t)
  BY <1>25
     DEF FailClear, ClearRuntime, ClearShowPeer, ClearScenesPeer, GenerationsOK, Request,
         OwnersOK, Has, Owned, UnknownOK
<1>26. CASE AnnounceFail(t)
  BY <1>26
     DEF AnnounceFail, Announce, GenerationsOK, Request, OwnersOK, Has, Owned, UnknownOK
<1>27. CASE TakeLock(t)
  BY <1>27 DEF TakeLock, GenerationsOK, Request, OwnersOK, Has, Owned, UnknownOK
<1>28. CASE DropMetadata(t)
  BY <1>28
     DEF DropMetadata, SetIdentity, IdentityRefused, GenerationsOK, Request, OwnersOK,
         Has, Owned, UnknownOK
<1>29. CASE DropRuntime(t)
  BY <1>29
     DEF DropRuntime, ClearRuntime, ClearShowPeer, ClearScenesPeer, GenerationsOK,
         Request, OwnersOK, Has, Owned, UnknownOK
<1>30. CASE AnnounceDown(t)
  BY <1>30 DEF AnnounceDown, GenerationsOK, Request, OwnersOK, Has, Owned, UnknownOK
<1>31. CASE AnnounceDrop(t)
  BY <1>31 DEF AnnounceDrop, GenerationsOK, Request, OwnersOK, Has, Owned, UnknownOK
<1> QED
  BY <1>1, <1>2, <1>3, <1>4, <1>5, <1>6, <1>7, <1>8, <1>9, <1>10, <1>11, <1>12, <1>13,
     <1>14, <1>15, <1>16, <1>17, <1>18, <1>19, <1>20, <1>21, <1>22, <1>23, <1>24, <1>25,
     <1>26, <1>27, <1>28, <1>29, <1>30, <1>31
     DEF Start, TaskStep, ConnectStep, DisconnectStep, DiscoveryStep, Verdict, ProbeAnswer

\* Nobody else touches the runtime of a current connect.
LEMMA InstalledStep ==
  ASSUME GenerationsOK, OwnersOK, InstalledOK, NEW t \in Tasks, Start(t) \/ TaskStep(t)
  PROVE  InstalledOK'
<1>1. CASE StartConnect(t)
  BY <1>1
     DEF StartConnect, GenerationsOK, Request, OwnersOK, Has, Owned, InstalledOK,
         Installed
<1>2. CASE StartDisconnect(t)
  BY <1>2
     DEF StartDisconnect, GenerationsOK, Request, OwnersOK, Has, Owned, InstalledOK,
         Installed
<1>3. CASE StartAuto(t)
  BY <1>3
     DEF StartAuto, GenerationsOK, Request, OwnersOK, Has, Owned, InstalledOK, Installed
<1>4. CASE StartDiscover(t)
  BY <1>4
     DEF StartDiscover, GenerationsOK, Request, OwnersOK, Has, Owned, InstalledOK,
         Installed
<1>5. CASE BeginProbe(t)
  BY <1>5
     DEF BeginProbe, GenerationsOK, Request, OwnersOK, Has, Owned, InstalledOK, Installed
<1>6. CASE Discovered(t)
  BY <1>6
     DEF Discovered, GenerationsOK, Request, OwnersOK, Has, Owned, InstalledOK, Installed
<1>7. CASE DiscoveryFails(t)
  BY <1>7
     DEF DiscoveryFails, GenerationsOK, Request, OwnersOK, Has, Owned, InstalledOK,
         Installed
<1>8. CASE ChooseTarget(t)
  BY <1>8
     DEF ChooseTarget, GenerationsOK, Request, OwnersOK, Has, Owned, InstalledOK,
         Installed
<1>9. CASE AbortCurrent(t)
  BY <1>9
     DEF AbortCurrent, ClearRuntime, ClearShowPeer, ClearScenesPeer, GenerationsOK,
         Request, OwnersOK, Has, Owned, InstalledOK, Installed
<1>10. CASE AnnounceAbort(t)
  BY <1>10
     DEF AnnounceAbort, Announce, GenerationsOK, Request, OwnersOK, Has, Owned,
         InstalledOK, Installed
<1>11. CASE BeginConnecting(t)
  BY <1>11
     DEF BeginConnecting, GenerationsOK, Request, OwnersOK, Has, Owned, InstalledOK,
         Installed
<1>12. CASE AnnounceBegin(t)
  BY <1>12
     DEF AnnounceBegin, GenerationsOK, Request, OwnersOK, Has, Owned, InstalledOK,
         Installed
<1>13. CASE Install(t)
  BY <1>13 DEF Install, GenerationsOK, Request, OwnersOK, Has, Owned, InstalledOK, Installed
<1>14. CASE Connected(t)
  BY <1>14
     DEF Connected, GenerationsOK, Request, OwnersOK, Has, Owned, InstalledOK, Installed
<1>15. CASE NotConnected(t)
  BY <1>15
     DEF NotConnected, GenerationsOK, Request, OwnersOK, Has, Owned, InstalledOK,
         Installed
<1>16. CASE ShowAccepts(t)
  BY <1>16
     DEF ShowAccepts, SetIdentity, IdentityRefused, GenerationsOK, Request, OwnersOK,
         Has, Owned, InstalledOK, Installed
<1>17. CASE InstallScenePeers(t)
  BY <1>17
     DEF InstallScenePeers, GenerationsOK, Request, OwnersOK, Has, Owned, InstalledOK,
         Installed
<1>18. CASE ScenesReady(t)
  BY <1>18
     DEF ScenesReady, ScenesTransition, ClearScenesPeer, GenerationsOK, Request,
         OwnersOK, Has, Owned, InstalledOK, Installed
<1>19. CASE StageRemembered(t)
  BY <1>19
     DEF StageRemembered, GenerationsOK, Request, OwnersOK, Has, Owned, InstalledOK,
         Installed
<1>20. CASE PublishRemembered(t)
  BY <1>20
     DEF PublishRemembered, GenerationsOK, Request, OwnersOK, Has, Owned, InstalledOK,
         Installed
<1>21. CASE Accept(t)
  BY <1>21 DEF Accept, GenerationsOK, Request, OwnersOK, Has, Owned, InstalledOK, Installed
<1>22. CASE RejectRuntime(t)
  BY <1>22
     DEF RejectRuntime, ClearScenesPeer, GenerationsOK, Request, OwnersOK, Has, Owned,
         InstalledOK, Installed
<1>23. CASE RejectShow(t)
  BY <1>23
     DEF RejectShow, ClearShowPeer, GenerationsOK, Request, OwnersOK, Has, Owned,
         InstalledOK, Installed
<1>24. CASE FailMetadata(t)
  BY <1>24
     DEF FailMetadata, SetIdentity, IdentityRefused, GenerationsOK, Request, OwnersOK,
         Has, Owned, InstalledOK, Installed
<1>25. CASE FailClear(t)
  BY <1>25
     DEF FailClear, ClearRuntime, ClearShowPeer, ClearScenesPeer, GenerationsOK, Request,
         OwnersOK, Has, Owned, InstalledOK, Installed
<1>26. CASE AnnounceFail(t)
  BY <1>26
     DEF AnnounceFail, Announce, GenerationsOK, Request, OwnersOK, Has, Owned,
         InstalledOK, Installed
<1>27. CASE TakeLock(t)
  BY <1>27
     DEF TakeLock, GenerationsOK, Request, OwnersOK, Has, Owned, InstalledOK, Installed
<1>28. CASE DropMetadata(t)
  BY <1>28
     DEF DropMetadata, SetIdentity, IdentityRefused, GenerationsOK, Request, OwnersOK,
         Has, Owned, InstalledOK, Installed
<1>29. CASE DropRuntime(t)
  BY <1>29
     DEF DropRuntime, ClearRuntime, ClearShowPeer, ClearScenesPeer, GenerationsOK,
         Request, OwnersOK, Has, Owned, InstalledOK, Installed
<1>30. CASE AnnounceDown(t)
  BY <1>30
     DEF AnnounceDown, GenerationsOK, Request, OwnersOK, Has, Owned, InstalledOK,
         Installed
<1>31. CASE AnnounceDrop(t)
  BY <1>31
     DEF AnnounceDrop, GenerationsOK, Request, OwnersOK, Has, Owned, InstalledOK,
         Installed
<1> QED
  BY <1>1, <1>2, <1>3, <1>4, <1>5, <1>6, <1>7, <1>8, <1>9, <1>10, <1>11, <1>12, <1>13,
     <1>14, <1>15, <1>16, <1>17, <1>18, <1>19, <1>20, <1>21, <1>22, <1>23, <1>24, <1>25,
     <1>26, <1>27, <1>28, <1>29, <1>30, <1>31
     DEF Start, TaskStep, ConnectStep, DisconnectStep, DiscoveryStep, Verdict, ProbeAnswer

\* A step of a request moves no other.
LEMMA OneMoves ==
  ASSUME GenerationsOK, NEW t \in Tasks, Start(t) \/ TaskStep(t)
  PROVE  \A u \in Tasks \ {t} : tx'[u] = tx[u]
<1>1. CASE StartConnect(t)
  BY <1>1 DEF StartConnect, GenerationsOK
<1>2. CASE StartDisconnect(t)
  BY <1>2 DEF StartDisconnect, GenerationsOK
<1>3. CASE StartAuto(t)
  BY <1>3 DEF StartAuto, GenerationsOK
<1>4. CASE StartDiscover(t)
  BY <1>4 DEF StartDiscover, GenerationsOK
<1>5. CASE BeginProbe(t)
  BY <1>5 DEF BeginProbe, GenerationsOK
<1>6. CASE Discovered(t)
  BY <1>6 DEF Discovered, GenerationsOK
<1>7. CASE DiscoveryFails(t)
  BY <1>7 DEF DiscoveryFails, GenerationsOK
<1>8. CASE ChooseTarget(t)
  BY <1>8 DEF ChooseTarget, GenerationsOK
<1>9. CASE AbortCurrent(t)
  BY <1>9 DEF AbortCurrent, ClearRuntime, ClearShowPeer, ClearScenesPeer, GenerationsOK
<1>10. CASE AnnounceAbort(t)
  BY <1>10 DEF AnnounceAbort, Announce, GenerationsOK
<1>11. CASE BeginConnecting(t)
  BY <1>11 DEF BeginConnecting, GenerationsOK
<1>12. CASE AnnounceBegin(t)
  BY <1>12 DEF AnnounceBegin, GenerationsOK
<1>13. CASE Install(t)
  BY <1>13 DEF Install, GenerationsOK
<1>14. CASE Connected(t)
  BY <1>14 DEF Connected, GenerationsOK
<1>15. CASE NotConnected(t)
  BY <1>15 DEF NotConnected, GenerationsOK
<1>16. CASE ShowAccepts(t)
  BY <1>16 DEF ShowAccepts, SetIdentity, IdentityRefused, GenerationsOK
<1>17. CASE InstallScenePeers(t)
  BY <1>17 DEF InstallScenePeers, GenerationsOK
<1>18. CASE ScenesReady(t)
  BY <1>18 DEF ScenesReady, ScenesTransition, ClearScenesPeer, GenerationsOK
<1>19. CASE StageRemembered(t)
  BY <1>19 DEF StageRemembered, GenerationsOK
<1>20. CASE PublishRemembered(t)
  BY <1>20 DEF PublishRemembered, GenerationsOK
<1>21. CASE Accept(t)
  BY <1>21 DEF Accept, GenerationsOK
<1>22. CASE RejectRuntime(t)
  BY <1>22 DEF RejectRuntime, ClearScenesPeer, GenerationsOK
<1>23. CASE RejectShow(t)
  BY <1>23 DEF RejectShow, ClearShowPeer, GenerationsOK
<1>24. CASE FailMetadata(t)
  BY <1>24 DEF FailMetadata, SetIdentity, IdentityRefused, GenerationsOK
<1>25. CASE FailClear(t)
  BY <1>25 DEF FailClear, ClearRuntime, ClearShowPeer, ClearScenesPeer, GenerationsOK
<1>26. CASE AnnounceFail(t)
  BY <1>26 DEF AnnounceFail, Announce, GenerationsOK
<1>27. CASE TakeLock(t)
  BY <1>27 DEF TakeLock, GenerationsOK
<1>28. CASE DropMetadata(t)
  BY <1>28 DEF DropMetadata, SetIdentity, IdentityRefused, GenerationsOK
<1>29. CASE DropRuntime(t)
  BY <1>29 DEF DropRuntime, ClearRuntime, ClearShowPeer, ClearScenesPeer, GenerationsOK
<1>30. CASE AnnounceDown(t)
  BY <1>30 DEF AnnounceDown, GenerationsOK
<1>31. CASE AnnounceDrop(t)
  BY <1>31 DEF AnnounceDrop, GenerationsOK
<1> QED
  BY <1>1, <1>2, <1>3, <1>4, <1>5, <1>6, <1>7, <1>8, <1>9, <1>10, <1>11, <1>12, <1>13,
     <1>14, <1>15, <1>16, <1>17, <1>18, <1>19, <1>20, <1>21, <1>22, <1>23, <1>24, <1>25,
     <1>26, <1>27, <1>28, <1>29, <1>30, <1>31
     DEF Start, TaskStep, ConnectStep, DisconnectStep, DiscoveryStep, Verdict, ProbeAnswer

\* A lock is with the request whose program is inside it.
LEMMA LocksStep ==
  ASSUME GenerationsOK, LocksOK, NEW t \in Tasks, Start(t) \/ TaskStep(t)
  PROVE  LocksOK'
<1>1. CASE StartConnect(t)
  BY <1>1, LifecycleAssumption DEF StartConnect, GenerationsOK, Request, LocksOK, Locking
<1>2. CASE StartDisconnect(t)
  BY <1>2, LifecycleAssumption DEF StartDisconnect, GenerationsOK, Request, LocksOK, Locking
<1>3. CASE StartAuto(t)
  BY <1>3, LifecycleAssumption DEF StartAuto, GenerationsOK, Request, LocksOK, Locking
<1>4. CASE StartDiscover(t)
  BY <1>4, LifecycleAssumption DEF StartDiscover, GenerationsOK, Request, LocksOK, Locking
<1>5. CASE BeginProbe(t)
  BY <1>5, LifecycleAssumption
     DEF BeginProbe, DiscoveryFree, GenerationsOK, Request, LocksOK, Locking
<1>6. CASE Discovered(t)
  BY <1>6, LifecycleAssumption DEF Discovered, GenerationsOK, Request, LocksOK, Locking
<1>7. CASE DiscoveryFails(t)
  BY <1>7, LifecycleAssumption DEF DiscoveryFails, GenerationsOK, Request, LocksOK, Locking
<1>8. CASE ChooseTarget(t)
  BY <1>8, LifecycleAssumption DEF ChooseTarget, GenerationsOK, Request, LocksOK, Locking
<1>9. CASE AbortCurrent(t)
  BY <1>9, LifecycleAssumption
     DEF AbortCurrent, ClearRuntime, ClearShowPeer, ClearScenesPeer, GenerationsOK,
         Request, LocksOK, Locking
<1>10. CASE AnnounceAbort(t)
  BY <1>10, LifecycleAssumption
     DEF AnnounceAbort, Announce, GenerationsOK, Request, LocksOK, Locking
<1>11. CASE BeginConnecting(t)
  BY <1>11, LifecycleAssumption
     DEF BeginConnecting, GenerationsOK, Request, LocksOK, Locking
<1>12. CASE AnnounceBegin(t)
  BY <1>12, LifecycleAssumption DEF AnnounceBegin, GenerationsOK, Request, LocksOK, Locking
<1>13. CASE Install(t)
  BY <1>13, LifecycleAssumption DEF Install, GenerationsOK, Request, LocksOK, Locking
<1>14. CASE Connected(t)
  BY <1>14, LifecycleAssumption DEF Connected, GenerationsOK, Request, LocksOK, Locking
<1>15. CASE NotConnected(t)
  BY <1>15, LifecycleAssumption DEF NotConnected, GenerationsOK, Request, LocksOK, Locking
<1>16. CASE ShowAccepts(t)
  BY <1>16, LifecycleAssumption
     DEF ShowAccepts, SetIdentity, IdentityRefused, GenerationsOK, Request, LocksOK,
         Locking
<1>17. CASE InstallScenePeers(t)
  BY <1>17, LifecycleAssumption
     DEF InstallScenePeers, GenerationsOK, Request, LocksOK, Locking
<1>18. CASE ScenesReady(t)
  BY <1>18, LifecycleAssumption
     DEF ScenesReady, ScenesTransition, ClearScenesPeer, GenerationsOK, Request, LocksOK,
         Locking
<1>19. CASE StageRemembered(t)
  BY <1>19, LifecycleAssumption
     DEF StageRemembered, GenerationsOK, Request, LocksOK, Locking
<1>20. CASE PublishRemembered(t)
  BY <1>20, LifecycleAssumption
     DEF PublishRemembered, GenerationsOK, Request, LocksOK, Locking
<1>21. CASE Accept(t)
  BY <1>21, LifecycleAssumption DEF Accept, GenerationsOK, Request, LocksOK, Locking
<1>22. CASE RejectRuntime(t)
  BY <1>22, LifecycleAssumption
     DEF RejectRuntime, ClearScenesPeer, GenerationsOK, Request, LocksOK, Locking
<1>23. CASE RejectShow(t)
  BY <1>23, LifecycleAssumption
     DEF RejectShow, ClearShowPeer, GenerationsOK, Request, LocksOK, Locking
<1>24. CASE FailMetadata(t)
  BY <1>24, LifecycleAssumption
     DEF FailMetadata, SetIdentity, IdentityRefused, GenerationsOK, Request, LocksOK,
         Locking
<1>25. CASE FailClear(t)
  BY <1>25, LifecycleAssumption
     DEF FailClear, ClearRuntime, ClearShowPeer, ClearScenesPeer, GenerationsOK, Request,
         LocksOK, Locking
<1>26. CASE AnnounceFail(t)
  BY <1>26, LifecycleAssumption
     DEF AnnounceFail, Announce, GenerationsOK, Request, LocksOK, Locking
<1>27. CASE TakeLock(t)
  BY <1>27, LifecycleAssumption DEF TakeLock, GenerationsOK, Request, LocksOK, Locking
<1>28. CASE DropMetadata(t)
  BY <1>28, LifecycleAssumption
     DEF DropMetadata, SetIdentity, IdentityRefused, GenerationsOK, Request, LocksOK,
         Locking
<1>29. CASE DropRuntime(t)
  BY <1>29, LifecycleAssumption
     DEF DropRuntime, ClearRuntime, ClearShowPeer, ClearScenesPeer, GenerationsOK,
         Request, LocksOK, Locking
<1>30. CASE AnnounceDown(t)
  BY <1>30, LifecycleAssumption DEF AnnounceDown, GenerationsOK, Request, LocksOK, Locking
<1>31. CASE AnnounceDrop(t)
  BY <1>31, LifecycleAssumption DEF AnnounceDrop, GenerationsOK, Request, LocksOK, Locking
<1> QED
  BY <1>1, <1>2, <1>3, <1>4, <1>5, <1>6, <1>7, <1>8, <1>9, <1>10, <1>11, <1>12, <1>13,
     <1>14, <1>15, <1>16, <1>17, <1>18, <1>19, <1>20, <1>21, <1>22, <1>23, <1>24, <1>25,
     <1>26, <1>27, <1>28, <1>29, <1>30, <1>31
     DEF Start, TaskStep, ConnectStep, DisconnectStep, DiscoveryStep, Verdict, ProbeAnswer

\* What is being connected is being connected by a current request.
LEMMA BeginningStep ==
  ASSUME GenerationsOK, LocksOK, OwnersOK, BeginningOK,
         NEW t \in Tasks, Start(t) \/ TaskStep(t)
  PROVE  BeginningOK'
<1>1. CASE StartConnect(t)
  BY <1>1 DEF StartConnect, GenerationsOK, Request, BeginningOK, Begins
<1>2. CASE StartDisconnect(t)
  BY <1>2 DEF StartDisconnect, GenerationsOK, Request, BeginningOK, Begins
<1>3. CASE StartAuto(t)
  BY <1>3 DEF StartAuto, GenerationsOK, Request, BeginningOK, Begins
<1>4. CASE StartDiscover(t)
  BY <1>4 DEF StartDiscover, GenerationsOK, Request, BeginningOK, Begins
<1>5. CASE BeginProbe(t)
  BY <1>5 DEF BeginProbe, GenerationsOK, Request, BeginningOK, Begins
<1>6. CASE Discovered(t)
  BY <1>6 DEF Discovered, GenerationsOK, Request, BeginningOK, Begins
<1>7. CASE DiscoveryFails(t)
  BY <1>7 DEF DiscoveryFails, GenerationsOK, Request, BeginningOK, Begins
<1>8. CASE ChooseTarget(t)
  BY <1>8 DEF ChooseTarget, GenerationsOK, Request, BeginningOK, Begins
<1>9. CASE AbortCurrent(t)
  BY <1>9
     DEF AbortCurrent, ClearRuntime, ClearShowPeer, ClearScenesPeer, GenerationsOK,
         Request, BeginningOK, Begins
<1>10. CASE AnnounceAbort(t)
  BY <1>10 DEF AnnounceAbort, Announce, GenerationsOK, Request, BeginningOK, Begins
<1>11. CASE BeginConnecting(t)
  BY <1>11 DEF BeginConnecting, GenerationsOK, Request, BeginningOK, Begins
<1>12. CASE AnnounceBegin(t)
  BY <1>12 DEF AnnounceBegin, GenerationsOK, Request, BeginningOK, Begins
<1>13. CASE Install(t)
  BY <1>13 DEF Install, GenerationsOK, Request, BeginningOK, Begins
<1>14. CASE Connected(t)
  BY <1>14 DEF Connected, GenerationsOK, Request, BeginningOK, Begins
<1>15. CASE NotConnected(t)
  BY <1>15 DEF NotConnected, GenerationsOK, Request, BeginningOK, Begins
<1>16. CASE ShowAccepts(t)
  BY <1>16
     DEF ShowAccepts, SetIdentity, IdentityRefused, GenerationsOK, Request, BeginningOK,
         Begins
<1>17. CASE InstallScenePeers(t)
  BY <1>17 DEF InstallScenePeers, GenerationsOK, Request, BeginningOK, Begins
<1>18. CASE ScenesReady(t)
  BY <1>18
     DEF ScenesReady, ScenesTransition, ClearScenesPeer, GenerationsOK, Request,
         BeginningOK, Begins
<1>19. CASE StageRemembered(t)
  BY <1>19 DEF StageRemembered, GenerationsOK, Request, BeginningOK, Begins
<1>20. CASE PublishRemembered(t)
  BY <1>20 DEF PublishRemembered, GenerationsOK, Request, BeginningOK, Begins
<1>21. CASE Accept(t)
  BY <1>21 DEF Accept, GenerationsOK, Request, BeginningOK, Begins
<1>22. CASE RejectRuntime(t)
  BY <1>22 DEF RejectRuntime, ClearScenesPeer, GenerationsOK, Request, BeginningOK, Begins
<1>23. CASE RejectShow(t)
  BY <1>23 DEF RejectShow, ClearShowPeer, GenerationsOK, Request, BeginningOK, Begins
<1>24. CASE FailMetadata(t)
  BY <1>24
     DEF FailMetadata, SetIdentity, IdentityRefused, GenerationsOK, Request, BeginningOK,
         Begins
<1>25. CASE FailClear(t)
  BY <1>25
     DEF FailClear, ClearRuntime, ClearShowPeer, ClearScenesPeer, GenerationsOK, Request,
         BeginningOK, Begins
<1>26. CASE AnnounceFail(t)
  BY <1>26 DEF AnnounceFail, Announce, GenerationsOK, Request, BeginningOK, Begins
<1>27. CASE TakeLock(t)
  BY <1>27 DEF TakeLock, GenerationsOK, Request, BeginningOK, Begins
<1>28. CASE DropMetadata(t)
  BY <1>28
     DEF DropMetadata, SetIdentity, IdentityRefused, GenerationsOK, Request, BeginningOK,
         Begins
<1>29. CASE DropRuntime(t)
  BY <1>29
     DEF DropRuntime, ClearRuntime, ClearShowPeer, ClearScenesPeer, GenerationsOK,
         Request, BeginningOK, Begins
<1>30. CASE AnnounceDown(t)
  BY <1>30 DEF AnnounceDown, GenerationsOK, Request, BeginningOK, Begins
<1>31. CASE AnnounceDrop(t)
  BY <1>31 DEF AnnounceDrop, GenerationsOK, Request, BeginningOK, Begins
<1> QED
  BY <1>1, <1>2, <1>3, <1>4, <1>5, <1>6, <1>7, <1>8, <1>9, <1>10, <1>11, <1>12, <1>13,
     <1>14, <1>15, <1>16, <1>17, <1>18, <1>19, <1>20, <1>21, <1>22, <1>23, <1>24, <1>25,
     <1>26, <1>27, <1>28, <1>29, <1>30, <1>31
     DEF Start, TaskStep, ConnectStep, DisconnectStep, DiscoveryStep, Verdict, ProbeAnswer

\* A request that answers for the active runtime does until it accepts or clears it.
LEMMA AcceptedStep ==
  ASSUME GenerationsOK, OwnersOK, KindsOK, InstalledOK, BeginningOK, AcceptedOK,
         NEW t \in Tasks, Start(t) \/ TaskStep(t)
  PROVE  AcceptedOK'
<1>1. CASE StartConnect(t)
  BY <1>1
     DEF StartConnect, GenerationsOK, Request, OwnersOK, Has, Owned, KindsOK, Connecting,
         AcceptedOK, Answers, InstalledOK, Installed
<1>2. CASE StartDisconnect(t)
  BY <1>2
     DEF StartDisconnect, GenerationsOK, Request, OwnersOK, Has, Owned, KindsOK,
         Connecting, AcceptedOK, Answers, InstalledOK, Installed
<1>3. CASE StartAuto(t)
  BY <1>3
     DEF StartAuto, GenerationsOK, Request, OwnersOK, Has, Owned, KindsOK, Connecting,
         AcceptedOK, Answers, InstalledOK, Installed
<1>4. CASE StartDiscover(t)
  BY <1>4
     DEF StartDiscover, GenerationsOK, Request, OwnersOK, Has, Owned, KindsOK,
         Connecting, AcceptedOK, Answers, InstalledOK, Installed
<1>5. CASE BeginProbe(t)
  BY <1>5
     DEF BeginProbe, GenerationsOK, Request, OwnersOK, Has, Owned, KindsOK, Connecting,
         AcceptedOK, Answers, InstalledOK, Installed
<1>6. CASE Discovered(t)
  BY <1>6
     DEF Discovered, GenerationsOK, Request, OwnersOK, Has, Owned, KindsOK, Connecting,
         AcceptedOK, Answers, InstalledOK, Installed
<1>7. CASE DiscoveryFails(t)
  BY <1>7
     DEF DiscoveryFails, GenerationsOK, Request, OwnersOK, Has, Owned, KindsOK,
         Connecting, AcceptedOK, Answers, InstalledOK, Installed
<1>8. CASE ChooseTarget(t)
  BY <1>8
     DEF ChooseTarget, GenerationsOK, Request, OwnersOK, Has, Owned, KindsOK, Connecting,
         AcceptedOK, Answers, InstalledOK, Installed
<1>9. CASE AbortCurrent(t)
  BY <1>9
     DEF AbortCurrent, ClearRuntime, ClearShowPeer, ClearScenesPeer, GenerationsOK,
         Request, OwnersOK, Has, Owned, KindsOK, Connecting, AcceptedOK, Answers,
         InstalledOK, Installed
<1>10. CASE AnnounceAbort(t)
  BY <1>10
     DEF AnnounceAbort, Announce, GenerationsOK, Request, OwnersOK, Has, Owned, KindsOK,
         Connecting, AcceptedOK, Answers, InstalledOK, Installed
<1>11. CASE BeginConnecting(t)
  BY <1>11
     DEF BeginConnecting, GenerationsOK, Request, OwnersOK, Has, Owned, KindsOK,
         Connecting, AcceptedOK, Answers, InstalledOK, Installed
<1>12. CASE AnnounceBegin(t)
  BY <1>12
     DEF AnnounceBegin, GenerationsOK, Request, OwnersOK, Has, Owned, KindsOK,
         Connecting, AcceptedOK, Answers, InstalledOK, Installed
<1>13. CASE Install(t)
  BY <1>13
     DEF Install, GenerationsOK, Request, OwnersOK, Has, Owned, KindsOK, Connecting,
         AcceptedOK, Answers, InstalledOK, Installed
<1>14. CASE Connected(t)
  BY <1>14
     DEF Connected, GenerationsOK, Request, OwnersOK, Has, Owned, KindsOK, Connecting,
         AcceptedOK, Answers, InstalledOK, Installed
<1>15. CASE NotConnected(t)
  BY <1>15
     DEF NotConnected, GenerationsOK, Request, OwnersOK, Has, Owned, KindsOK, Connecting,
         AcceptedOK, Answers, InstalledOK, Installed
<1>16. CASE ShowAccepts(t)
  BY <1>16
     DEF ShowAccepts, SetIdentity, IdentityRefused, GenerationsOK, Request, OwnersOK,
         Has, Owned, KindsOK, Connecting, AcceptedOK, Answers, InstalledOK, Installed
<1>17. CASE InstallScenePeers(t)
  BY <1>17
     DEF InstallScenePeers, GenerationsOK, Request, OwnersOK, Has, Owned, KindsOK,
         Connecting, AcceptedOK, Answers, InstalledOK, Installed
<1>18. CASE ScenesReady(t)
  BY <1>18
     DEF ScenesReady, ScenesTransition, ClearScenesPeer, GenerationsOK, Request,
         OwnersOK, Has, Owned, KindsOK, Connecting, AcceptedOK, Answers, InstalledOK,
         Installed
<1>19. CASE StageRemembered(t)
  BY <1>19
     DEF StageRemembered, GenerationsOK, Request, OwnersOK, Has, Owned, KindsOK,
         Connecting, AcceptedOK, Answers, InstalledOK, Installed
<1>20. CASE PublishRemembered(t)
  BY <1>20
     DEF PublishRemembered, GenerationsOK, Request, OwnersOK, Has, Owned, KindsOK,
         Connecting, AcceptedOK, Answers, InstalledOK, Installed
<1>21. CASE Accept(t)
  BY <1>21
     DEF Accept, GenerationsOK, Request, OwnersOK, Has, Owned, KindsOK, Connecting,
         AcceptedOK, Answers, InstalledOK, Installed
<1>22. CASE RejectRuntime(t)
  BY <1>22
     DEF RejectRuntime, ClearScenesPeer, GenerationsOK, Request, OwnersOK, Has, Owned,
         KindsOK, Connecting, AcceptedOK, Answers, InstalledOK, Installed
<1>23. CASE RejectShow(t)
  BY <1>23
     DEF RejectShow, ClearShowPeer, GenerationsOK, Request, OwnersOK, Has, Owned,
         KindsOK, Connecting, AcceptedOK, Answers, InstalledOK, Installed
<1>24. CASE FailMetadata(t)
  BY <1>24
     DEF FailMetadata, SetIdentity, IdentityRefused, GenerationsOK, Request, OwnersOK,
         Has, Owned, KindsOK, Connecting, AcceptedOK, Answers, InstalledOK, Installed
<1>25. CASE FailClear(t)
  BY <1>25
     DEF FailClear, ClearRuntime, ClearShowPeer, ClearScenesPeer, GenerationsOK, Request,
         OwnersOK, Has, Owned, KindsOK, Connecting, AcceptedOK, Answers, InstalledOK,
         Installed
<1>26. CASE AnnounceFail(t)
  BY <1>26
     DEF AnnounceFail, Announce, GenerationsOK, Request, OwnersOK, Has, Owned, KindsOK,
         Connecting, AcceptedOK, Answers, InstalledOK, Installed
<1>27. CASE TakeLock(t)
  BY <1>27
     DEF TakeLock, GenerationsOK, Request, OwnersOK, Has, Owned, KindsOK, Connecting,
         AcceptedOK, Answers, InstalledOK, Installed
<1>28. CASE DropMetadata(t)
  BY <1>28
     DEF DropMetadata, SetIdentity, IdentityRefused, GenerationsOK, Request, OwnersOK,
         Has, Owned, KindsOK, Connecting, AcceptedOK, Answers, InstalledOK, Installed
<1>29. CASE DropRuntime(t)
  BY <1>29
     DEF DropRuntime, ClearRuntime, ClearShowPeer, ClearScenesPeer, GenerationsOK,
         Request, OwnersOK, Has, Owned, KindsOK, Connecting, AcceptedOK, Answers,
         InstalledOK, Installed
<1>30. CASE AnnounceDown(t)
  BY <1>30
     DEF AnnounceDown, GenerationsOK, Request, OwnersOK, Has, Owned, KindsOK, Connecting,
         AcceptedOK, Answers, InstalledOK, Installed
<1>31. CASE AnnounceDrop(t)
  BY <1>31
     DEF AnnounceDrop, GenerationsOK, Request, OwnersOK, Has, Owned, KindsOK, Connecting,
         AcceptedOK, Answers, InstalledOK, Installed
<1> QED
  BY <1>1, <1>2, <1>3, <1>4, <1>5, <1>6, <1>7, <1>8, <1>9, <1>10, <1>11, <1>12, <1>13,
     <1>14, <1>15, <1>16, <1>17, <1>18, <1>19, <1>20, <1>21, <1>22, <1>23, <1>24, <1>25,
     <1>26, <1>27, <1>28, <1>29, <1>30, <1>31
     DEF Start, TaskStep, ConnectStep, DisconnectStep, DiscoveryStep, Verdict, ProbeAnswer

-----------------------------------------------------------------------------
(* The first state and the steps of the actors around the lifecycle *)

LEMMA InitConnection == Init => ConnectionInv
BY LifecycleAssumption
   DEF Init, ConnectionInv, GenerationsOK, Request, Points, OwnersOK, Has, Owned, UnknownOK,
       KindsOK, Connecting, Disconnecting, InstalledOK, Installed

LEMMA InitQuiet == Init => QuietInv
BY LifecycleAssumption
   DEF Init, QuietInv, LocksOK, Locking, BeginningOK, Begins, AcceptedOK, Answers

\* The steps that are not a request's.
Around ==
    \/ \E g \in Actors : Lv1Connects(g) \/ Lv1Drops(g)
    \/ \E g \in up : Lv1Ends(g)
    \/ ScenesReads

LEMMA AroundStep ==
  ASSUME ConnectionInv, Around \/ UNCHANGED vars
  PROVE  ConnectionInv'
<1> USE DEF ConnectionInv
<1>1. UNCHANGED <<generation, runtime, showPeer, tx, probes, remembered>>
  BY DEF Around, Lv1Connects, Lv1Drops, Lv1Ends, ScenesReads, vars
<1>2. scenesPeer' \in {0, scenesPeer}
  BY DEF Around, Lv1Connects, Lv1Drops, Lv1Ends, ScenesReads, ScenesTransition,
         ClearScenesPeer, vars
<1>3. up' \subseteq up \cup Actors
  BY DEF Around, Lv1Connects, Lv1Drops, Lv1Ends, ScenesReads, vars
<1>4. Actors \subseteq 1 .. generation
  BY DEF Actors, Running, GenerationsOK, Request
<1>5. GenerationsOK'
  BY <1>1, <1>2, <1>3, <1>4 DEF GenerationsOK
<1>6. UnknownOK'
  <2> SUFFICES ASSUME NEW t \in Tasks, tx[t].at \in {"announceBegin", "install"}
               PROVE  Own(t) \notin {runtime, showPeer, scenesPeer'} \cup up'
    BY <1>1 DEF UnknownOK
  <2>1. Has(t, Own(t)) /\ Own(t) \in Nat
    BY DEF Has, Owned, GenerationsOK, Request
  <2>2. Own(t) # 0 /\ \A u \in Tasks \ {t} : ~Has(u, Own(t))
    BY <2>1 DEF OwnersOK
  <2>3. Own(t) \notin {runtime, showPeer, scenesPeer, 0} \cup up
    BY <2>2 DEF UnknownOK
  <2>4. Own(t) \notin Actors
    BY <2>2, <2>3 DEF Actors, Running, Holds, Has, Owned
  <2> QED
    BY <2>3, <2>4, <1>2, <1>3
<1>7. OwnersOK' /\ KindsOK' /\ InstalledOK'
  BY <1>1 DEF OwnersOK, Has, KindsOK, InstalledOK
<1> QED
  BY <1>5, <1>6, <1>7

\* Theorem: the inductive invariant ConnectionInv holds in every reachable state
\* (the generation bookkeeping of lifecycle/mod.rs, begin_connecting to
\* finish_disconnect).
THEOREM OwnershipCorrect == Spec => []ConnectionInv
<1>1. ConnectionInv /\ [Next]_vars => ConnectionInv'
  <2> SUFFICES ASSUME ConnectionInv, [Next]_vars PROVE ConnectionInv'
    OBVIOUS
  <2>1. CASE \E t \in Tasks : Start(t) \/ TaskStep(t)
    BY <2>1, GenerationsStep, OwnersStep, UnknownStep, KindsStep, InstalledStep DEF ConnectionInv
  <2>2. CASE Around \/ UNCHANGED vars
    BY <2>2, AroundStep
  <2> QED
    BY <2>1, <2>2 DEF Next, Around
<1> QED
  BY InitConnection, <1>1, PTL DEF Spec

\* Theorem: no request that was superseded changes what belongs to the active
\* generation (SupersededChangesNothing).
THEOREM SupersededCorrect == Spec => SupersededChangesNothing
<1>1. ConnectionInv /\ [Next]_vars =>
        [\A t \in Tasks :
           tx'[t] # tx[t] /\ ~Current(t) /\ tx[t].at \notin {"idle", "begin"}
           => /\ generation' = generation /\ identity' = identity
              /\ remembered' = remembered
              /\ runtime = generation => runtime' = generation
              /\ showPeer = generation => showPeer' = generation]_vars
  <2> SUFFICES ASSUME ConnectionInv, Next,
                      NEW t \in Tasks, tx'[t] # tx[t], ~Current(t),
                      tx[t].at \notin {"idle", "begin"}
               PROVE  /\ generation' = generation /\ identity' = identity
                      /\ remembered' = remembered
                      /\ runtime = generation => runtime' = generation
                      /\ showPeer = generation => showPeer' = generation
    BY DEF vars
  <2>1. TaskStep(t)
    <3>1. ~Around
      BY DEF Around, Lv1Connects, Lv1Drops, Lv1Ends, ScenesReads
    <3>2. ASSUME NEW u \in Tasks, Start(u) \/ TaskStep(u) PROVE u = t
      BY <3>2, OneMoves DEF ConnectionInv
    <3>3. ~Start(t)
      BY DEF Start, StartConnect, StartDisconnect, StartAuto, StartDiscover
    <3> QED
      BY <3>1, <3>2, <3>3 DEF Next, Around
  <2>2. CASE BeginProbe(t)
    BY <2>2
       DEF BeginProbe,
           ConnectionInv, GenerationsOK
  <2>3. CASE Discovered(t)
    BY <2>3
       DEF Discovered,
           ConnectionInv, GenerationsOK
  <2>4. CASE DiscoveryFails(t)
    BY <2>4
       DEF DiscoveryFails,
           ConnectionInv, GenerationsOK
  <2>5. CASE ChooseTarget(t)
    BY <2>5
       DEF ChooseTarget,
           ConnectionInv, GenerationsOK
  <2>6. CASE AbortCurrent(t)
    BY <2>6
       DEF AbortCurrent, ClearRuntime, ClearShowPeer, ClearScenesPeer,
           ConnectionInv, GenerationsOK
  <2>7. CASE AnnounceAbort(t)
    BY <2>7
       DEF AnnounceAbort, Announce,
           ConnectionInv, GenerationsOK
  <2>8. CASE AnnounceBegin(t)
    BY <2>8
       DEF AnnounceBegin,
           ConnectionInv, GenerationsOK
  <2>9. CASE Install(t)
    BY <2>9
       DEF Install,
           ConnectionInv, GenerationsOK
  <2>10. CASE Connected(t)
    BY <2>10
       DEF Connected,
           ConnectionInv, GenerationsOK
  <2>11. CASE NotConnected(t)
    BY <2>11
       DEF NotConnected,
           ConnectionInv, GenerationsOK
  <2>12. CASE ShowAccepts(t)
    BY <2>12
       DEF ShowAccepts, SetIdentity, IdentityRefused,
           ConnectionInv, GenerationsOK
  <2>13. CASE InstallScenePeers(t)
    BY <2>13
       DEF InstallScenePeers,
           ConnectionInv, GenerationsOK
  <2>14. CASE ScenesReady(t)
    BY <2>14
       DEF ScenesReady, ScenesTransition, ClearScenesPeer,
           ConnectionInv, GenerationsOK
  <2>15. CASE StageRemembered(t)
    BY <2>15
       DEF StageRemembered,
           ConnectionInv, GenerationsOK
  <2>16. CASE PublishRemembered(t)
    BY <2>16
       DEF PublishRemembered,
           ConnectionInv, GenerationsOK
  <2>17. CASE Accept(t)
    BY <2>17
       DEF Accept,
           ConnectionInv, GenerationsOK
  <2>18. CASE RejectRuntime(t)
    BY <2>18
       DEF RejectRuntime, ClearScenesPeer,
           ConnectionInv, GenerationsOK
  <2>19. CASE RejectShow(t)
    BY <2>19
       DEF RejectShow, ClearShowPeer,
           ConnectionInv, GenerationsOK
  <2>20. CASE FailMetadata(t)
    BY <2>20
       DEF FailMetadata, SetIdentity, IdentityRefused,
           ConnectionInv, GenerationsOK
  <2>21. CASE FailClear(t)
    BY <2>21
       DEF FailClear, ClearRuntime, ClearShowPeer, ClearScenesPeer,
           ConnectionInv, GenerationsOK
  <2>22. CASE AnnounceFail(t)
    BY <2>22
       DEF AnnounceFail, Announce,
           ConnectionInv, GenerationsOK
  <2>23. CASE TakeLock(t)
    BY <2>23
       DEF TakeLock,
           ConnectionInv, GenerationsOK
  <2>24. CASE DropMetadata(t)
    BY <2>24
       DEF DropMetadata, SetIdentity, IdentityRefused,
           ConnectionInv, GenerationsOK
  <2>25. CASE DropRuntime(t)
    BY <2>25
       DEF DropRuntime, ClearRuntime, ClearShowPeer, ClearScenesPeer,
           ConnectionInv, GenerationsOK
  <2>26. CASE AnnounceDown(t)
    BY <2>26
       DEF AnnounceDown,
           ConnectionInv, GenerationsOK
  <2>27. CASE AnnounceDrop(t)
    BY <2>27
       DEF AnnounceDrop,
           ConnectionInv, GenerationsOK
  <2>28. ~BeginConnecting(t)
    BY DEF BeginConnecting
  <2> QED
    BY <2>1, <2>2, <2>3, <2>4, <2>5, <2>6, <2>7, <2>8, <2>9, <2>10, <2>11, <2>12, <2>13, <2>14,
       <2>15, <2>16, <2>17, <2>18, <2>19, <2>20, <2>21, <2>22, <2>23, <2>24, <2>25, <2>26,
       <2>27, <2>28
       DEF TaskStep, ConnectStep, DisconnectStep, DiscoveryStep, Verdict, ProbeAnswer
<1> QED
  BY <1>1, OwnershipCorrect, PTL DEF Spec, SupersededChangesNothing

\* Only a publication changes what Settings remembers.
LEMMA RemembersStep ==
  ASSUME GenerationsOK, NEW t \in Tasks, Start(t) \/ TaskStep(t)
  PROVE  remembered' = remembered \/ PublishRemembered(t)
<1>1. CASE StartConnect(t)
  BY <1>1 DEF StartConnect, GenerationsOK
<1>2. CASE StartDisconnect(t)
  BY <1>2 DEF StartDisconnect, GenerationsOK
<1>3. CASE StartAuto(t)
  BY <1>3 DEF StartAuto, GenerationsOK
<1>4. CASE StartDiscover(t)
  BY <1>4 DEF StartDiscover, GenerationsOK
<1>5. CASE BeginProbe(t)
  BY <1>5 DEF BeginProbe, GenerationsOK
<1>6. CASE Discovered(t)
  BY <1>6 DEF Discovered, GenerationsOK
<1>7. CASE DiscoveryFails(t)
  BY <1>7 DEF DiscoveryFails, GenerationsOK
<1>8. CASE ChooseTarget(t)
  BY <1>8 DEF ChooseTarget, GenerationsOK
<1>9. CASE AbortCurrent(t)
  BY <1>9 DEF AbortCurrent, ClearRuntime, ClearShowPeer, ClearScenesPeer, GenerationsOK
<1>10. CASE AnnounceAbort(t)
  BY <1>10 DEF AnnounceAbort, Announce, GenerationsOK
<1>11. CASE BeginConnecting(t)
  BY <1>11 DEF BeginConnecting, GenerationsOK
<1>12. CASE AnnounceBegin(t)
  BY <1>12 DEF AnnounceBegin, GenerationsOK
<1>13. CASE Install(t)
  BY <1>13 DEF Install, GenerationsOK
<1>14. CASE Connected(t)
  BY <1>14 DEF Connected, GenerationsOK
<1>15. CASE NotConnected(t)
  BY <1>15 DEF NotConnected, GenerationsOK
<1>16. CASE ShowAccepts(t)
  BY <1>16 DEF ShowAccepts, SetIdentity, IdentityRefused, GenerationsOK
<1>17. CASE InstallScenePeers(t)
  BY <1>17 DEF InstallScenePeers, GenerationsOK
<1>18. CASE ScenesReady(t)
  BY <1>18 DEF ScenesReady, ScenesTransition, ClearScenesPeer, GenerationsOK
<1>19. CASE StageRemembered(t)
  BY <1>19 DEF StageRemembered, GenerationsOK
<1>20. CASE PublishRemembered(t)
  BY <1>20 DEF PublishRemembered, GenerationsOK
<1>21. CASE Accept(t)
  BY <1>21 DEF Accept, GenerationsOK
<1>22. CASE RejectRuntime(t)
  BY <1>22 DEF RejectRuntime, ClearScenesPeer, GenerationsOK
<1>23. CASE RejectShow(t)
  BY <1>23 DEF RejectShow, ClearShowPeer, GenerationsOK
<1>24. CASE FailMetadata(t)
  BY <1>24 DEF FailMetadata, SetIdentity, IdentityRefused, GenerationsOK
<1>25. CASE FailClear(t)
  BY <1>25 DEF FailClear, ClearRuntime, ClearShowPeer, ClearScenesPeer, GenerationsOK
<1>26. CASE AnnounceFail(t)
  BY <1>26 DEF AnnounceFail, Announce, GenerationsOK
<1>27. CASE TakeLock(t)
  BY <1>27 DEF TakeLock, GenerationsOK
<1>28. CASE DropMetadata(t)
  BY <1>28 DEF DropMetadata, SetIdentity, IdentityRefused, GenerationsOK
<1>29. CASE DropRuntime(t)
  BY <1>29 DEF DropRuntime, ClearRuntime, ClearShowPeer, ClearScenesPeer, GenerationsOK
<1>30. CASE AnnounceDown(t)
  BY <1>30 DEF AnnounceDown, GenerationsOK
<1>31. CASE AnnounceDrop(t)
  BY <1>31 DEF AnnounceDrop, GenerationsOK
<1> QED
  BY <1>1, <1>2, <1>3, <1>4, <1>5, <1>6, <1>7, <1>8, <1>9, <1>10, <1>11, <1>12, <1>13,
     <1>14, <1>15, <1>16, <1>17, <1>18, <1>19, <1>20, <1>21, <1>22, <1>23, <1>24, <1>25,
     <1>26, <1>27, <1>28, <1>29, <1>30, <1>31
     DEF Start, TaskStep, ConnectStep, DisconnectStep, DiscoveryStep, Verdict, ProbeAnswer

\* Theorem: Settings only ever remembers a console whose connect owns the active
\* generation and its runtime (RememberedWasConnected).
THEOREM RememberedCorrect == Spec => RememberedWasConnected
<1>1. ConnectionInv /\ [Next]_vars =>
        [remembered' # remembered =>
           \E t \in Tasks : /\ tx[t].kind \in {"connect", "auto"} /\ Current(t)
                            /\ remembered' = tx[t].system /\ runtime = Own(t)]_vars
  <2> SUFFICES ASSUME ConnectionInv, Next, remembered' # remembered
               PROVE  \E t \in Tasks : /\ tx[t].kind \in {"connect", "auto"} /\ Current(t)
                                       /\ remembered' = tx[t].system /\ runtime = Own(t)
    BY DEF vars
  <2>1. PICK t \in Tasks : PublishRemembered(t)
    <3>1. ~Around
      BY DEF Around, Lv1Connects, Lv1Drops, Lv1Ends, ScenesReads
    <3> QED
      BY <3>1, RemembersStep DEF Next, Around, ConnectionInv
  <2>2. At(t, "publish") /\ Current(t) /\ remembered' = tx[t].system
    BY <2>1 DEF PublishRemembered
  <2> QED
    BY <2>2 DEF ConnectionInv, KindsOK, Connecting, Owned, InstalledOK, Installed
<1> QED
  BY <1>1, OwnershipCorrect, PTL DEF Spec, RememberedWasConnected

\* Theorem: once every request has ended, no lock is held, nothing is said to be
\* connecting, and a runtime that is left is active and is that of an accepted
\* connect to the console that Show reports (QuietIsConsistent).
THEOREM QuietCorrect == Spec => []QuietIsConsistent
<1>1. ConnectionInv /\ QuietInv /\ [Next]_vars => QuietInv'
  <2> SUFFICES ASSUME ConnectionInv, QuietInv, [Next]_vars PROVE QuietInv'
    OBVIOUS
  <2>1. CASE \E t \in Tasks : Start(t) \/ TaskStep(t)
    BY <2>1, LocksStep, BeginningStep, AcceptedStep DEF ConnectionInv, QuietInv
  <2>2. CASE Around \/ UNCHANGED vars
    <3>1. UNCHANGED <<generation, runtime, connecting, lock, discovery, identity, tx>>
      BY <2>2 DEF Around, Lv1Connects, Lv1Drops, Lv1Ends, ScenesReads, vars
    <3> QED
      BY <3>1 DEF QuietInv, LocksOK, BeginningOK, Begins, AcceptedOK, Answers
  <2> QED
    BY <2>1, <2>2 DEF Next, Around
<1>2. ConnectionInv /\ QuietInv => QuietIsConsistent
  <2> SUFFICES ASSUME ConnectionInv, QuietInv, Quiet PROVE QuietIsConsistent
    BY DEF QuietIsConsistent
  <2>1. \A t \in Tasks : tx[t].at \in {"idle"} \cup Final
    BY DEF Quiet
  <2>2. lock = None /\ discovery = None
    <3>1. \A t \in Tasks : tx[t].at \notin Locking /\ ~At(t, "probe")
      BY <2>1 DEF Locking, Final
    <3> QED
      BY <3>1 DEF QuietInv, LocksOK
  <2>3. ~connecting /\ runtime \in {0, generation}
    BY <2>1 DEF QuietInv, BeginningOK, Begins, Final
  <2>4. runtime > 0 => \E t \in Tasks : At(t, "ok") /\ Current(t) /\ identity = tx[t].system
    <3> SUFFICES ASSUME runtime > 0
                 PROVE \E t \in Tasks : At(t, "ok") /\ Current(t) /\ identity = tx[t].system
      OBVIOUS
    <3>1. runtime = generation
      BY <2>3 DEF ConnectionInv, GenerationsOK
    <3>2. PICK t \in Tasks : Answers(t)
      BY <3>1 DEF QuietInv, AcceptedOK
    <3> QED
      BY <3>2, <2>1 DEF Answers, Final
  <2> QED
    BY <2>2, <2>3, <2>4 DEF QuietIsConsistent
<1> QED
  BY InitQuiet, OwnershipCorrect, <1>1, <1>2, PTL DEF Spec

-----------------------------------------------------------------------------
(* Lifecycle implements Connections *)

Owed == UNION {Owing(t) : t \in Tasks}
Begun == UNION {Beginning(t) : t \in Tasks}

\* What every step of a request but an installation leaves of the handles.
Lets(t) ==
    /\ runtime' \in {0, runtime} /\ showPeer' \in {0, showPeer}
    /\ scenesPeer' \in {0, scenesPeer, runtime} /\ up' = up
    /\ tx'[t].at \in Installed => tx[t].at \in Installed /\ tx'[t].own = Own(t)

\* The five ways a step of a request looks to those who follow the lifecycle.
Quietly(t) ==
    /\ Lets(t) /\ generation' = generation
    /\ Owing(t)' = Owing(t) /\ Beginning(t)' = Beginning(t)
Advancing(t) ==
    /\ Lets(t) /\ generation' = generation + 1
    /\ Owing(t) = {} /\ Owing(t)' = {generation + 1}
    /\ Beginning(t) = {} /\ Beginning(t)' \in {{}, {generation + 1}}
Same(t) ==
    /\ UNCHANGED <<generation, runtime, showPeer, scenesPeer, up>>
    /\ tx[t].at \notin Installed /\ tx'[t].at \notin Installed
Announcing(t) ==
    /\ Same(t)
    /\ Beginning(t)' = Beginning(t) /\ Owing(t)' = {}
    /\ \E g \in Nat : Owing(t) = {g}
Installing(t) ==
    /\ Current(t) /\ generation' = generation /\ runtime' = generation
    /\ showPeer' = generation /\ scenesPeer' = scenesPeer /\ up' = up
    /\ Owing(t) = {} /\ Owing(t)' = {} /\ At(t, "install")
    /\ Beginning(t) = {generation} /\ Beginning(t)' = {}
    /\ tx'[t].at = "await" /\ tx'[t].own = Own(t)
Refusing(t) ==
    /\ Same(t) /\ ~Current(t)
    /\ Owing(t) = {} /\ Owing(t)' = {}
    /\ Beginning(t) = {Own(t)} /\ Beginning(t)' = {}

\* Every step of a request is one of them.
LEMMA Looks ==
  ASSUME GenerationsOK, NEW t \in Tasks, Start(t) \/ TaskStep(t)
  PROVE  Quietly(t) \/ Advancing(t) \/ Announcing(t) \/ Installing(t) \/ Refusing(t)
<1>1. CASE StartConnect(t)
  BY <1>1
     DEF StartConnect, GenerationsOK, Request, Owing, Beginning, Installed, Lets, Same,
         Quietly
<1>2. CASE StartDisconnect(t)
  BY <1>2
     DEF StartDisconnect, GenerationsOK, Request, Owing, Beginning, Installed, Lets,
         Same, Quietly
<1>3. CASE StartAuto(t)
  BY <1>3
     DEF StartAuto, GenerationsOK, Request, Owing, Beginning, Installed, Lets, Same,
         Quietly
<1>4. CASE StartDiscover(t)
  BY <1>4
     DEF StartDiscover, GenerationsOK, Request, Owing, Beginning, Installed, Lets, Same,
         Quietly
<1>5. CASE BeginProbe(t)
  BY <1>5
     DEF BeginProbe, GenerationsOK, Request, Owing, Beginning, Installed, Lets, Same,
         Quietly
<1>6. CASE Discovered(t)
  BY <1>6
     DEF Discovered, GenerationsOK, Request, Owing, Beginning, Installed, Lets, Same,
         Quietly
<1>7. CASE DiscoveryFails(t)
  BY <1>7
     DEF DiscoveryFails, GenerationsOK, Request, Owing, Beginning, Installed, Lets, Same,
         Quietly
<1>8. CASE ChooseTarget(t)
  BY <1>8
     DEF ChooseTarget, GenerationsOK, Request, Owing, Beginning, Installed, Lets, Same,
         Quietly
<1>9. CASE AbortCurrent(t)
  BY <1>9
     DEF AbortCurrent, ClearRuntime, ClearShowPeer, ClearScenesPeer, GenerationsOK,
         Request, Owing, Beginning, Installed, Lets, Same, Quietly, Advancing
<1>10. CASE AnnounceAbort(t)
  BY <1>10
     DEF AnnounceAbort, Announce, GenerationsOK, Request, Owing, Beginning, Installed,
         Lets, Same, Announcing
<1>11. CASE BeginConnecting(t)
  BY <1>11
     DEF BeginConnecting, GenerationsOK, Request, Owing, Beginning, Installed, Lets,
         Same, Advancing
<1>12. CASE AnnounceBegin(t)
  BY <1>12
     DEF AnnounceBegin, GenerationsOK, Request, Owing, Beginning, Installed, Lets, Same,
         Announcing
<1>13. CASE Install(t)
  BY <1>13
     DEF Install, GenerationsOK, Request, Owing, Beginning, Installed, Lets, Same, Installing,
         Refusing
<1>14. CASE Connected(t)
  BY <1>14
     DEF Connected, GenerationsOK, Request, Owing, Beginning, Installed, Lets, Same,
         Quietly
<1>15. CASE NotConnected(t)
  BY <1>15
     DEF NotConnected, GenerationsOK, Request, Owing, Beginning, Installed, Lets, Same,
         Quietly
<1>16. CASE ShowAccepts(t)
  BY <1>16
     DEF ShowAccepts, SetIdentity, IdentityRefused, GenerationsOK, Request, Owing,
         Beginning, Installed, Lets, Same, Quietly
<1>17. CASE InstallScenePeers(t)
  BY <1>17
     DEF InstallScenePeers, GenerationsOK, Request, Owing, Beginning, Installed, Lets,
         Same, Quietly
<1>18. CASE ScenesReady(t)
  BY <1>18
     DEF ScenesReady, ScenesTransition, ClearScenesPeer, GenerationsOK, Request, Owing,
         Beginning, Installed, Lets, Same, Quietly
<1>19. CASE StageRemembered(t)
  BY <1>19
     DEF StageRemembered, GenerationsOK, Request, Owing, Beginning, Installed, Lets,
         Same, Quietly
<1>20. CASE PublishRemembered(t)
  BY <1>20
     DEF PublishRemembered, GenerationsOK, Request, Owing, Beginning, Installed, Lets,
         Same, Quietly
<1>21. CASE Accept(t)
  BY <1>21
     DEF Accept, GenerationsOK, Request, Owing, Beginning, Installed, Lets, Same, Quietly
<1>22. CASE RejectRuntime(t)
  BY <1>22
     DEF RejectRuntime, ClearScenesPeer, GenerationsOK, Request, Owing, Beginning,
         Installed, Lets, Same, Quietly
<1>23. CASE RejectShow(t)
  BY <1>23
     DEF RejectShow, ClearShowPeer, GenerationsOK, Request, Owing, Beginning, Installed,
         Lets, Same, Quietly
<1>24. CASE FailMetadata(t)
  BY <1>24
     DEF FailMetadata, SetIdentity, IdentityRefused, GenerationsOK, Request, Owing,
         Beginning, Installed, Lets, Same, Quietly
<1>25. CASE FailClear(t)
  BY <1>25
     DEF FailClear, ClearRuntime, ClearShowPeer, ClearScenesPeer, GenerationsOK, Request,
         Owing, Beginning, Installed, Lets, Same, Quietly, Advancing
<1>26. CASE AnnounceFail(t)
  BY <1>26
     DEF AnnounceFail, Announce, GenerationsOK, Request, Owing, Beginning, Installed,
         Lets, Same, Announcing
<1>27. CASE TakeLock(t)
  BY <1>27
     DEF TakeLock, GenerationsOK, Request, Owing, Beginning, Installed, Lets, Same, Quietly
<1>28. CASE DropMetadata(t)
  BY <1>28
     DEF DropMetadata, SetIdentity, IdentityRefused, GenerationsOK, Request, Owing,
         Beginning, Installed, Lets, Same, Quietly
<1>29. CASE DropRuntime(t)
  BY <1>29
     DEF DropRuntime, ClearRuntime, ClearShowPeer, ClearScenesPeer, GenerationsOK,
         Request, Owing, Beginning, Installed, Lets, Same, Quietly, Advancing
<1>30. CASE AnnounceDown(t)
  BY <1>30
     DEF AnnounceDown, GenerationsOK, Request, Owing, Beginning, Installed, Lets, Same,
         Quietly
<1>31. CASE AnnounceDrop(t)
  BY <1>31
     DEF AnnounceDrop, GenerationsOK, Request, Owing, Beginning, Installed, Lets, Same,
         Announcing
<1> QED
  BY <1>1, <1>2, <1>3, <1>4, <1>5, <1>6, <1>7, <1>8, <1>9, <1>10, <1>11, <1>12, <1>13,
     <1>14, <1>15, <1>16, <1>17, <1>18, <1>19, <1>20, <1>21, <1>22, <1>23, <1>24, <1>25,
     <1>26, <1>27, <1>28, <1>29, <1>30, <1>31
     DEF Start, TaskStep, ConnectStep, DisconnectStep, DiscoveryStep, Verdict, ProbeAnswer

\* The generations owed or begun by the other requests.
OthersOwed(t) == UNION {Owing(u) : u \in Tasks \ {t}}
OthersBegun(t) == UNION {Beginning(u) : u \in Tasks \ {t}}

LEMMA Parts ==
  ASSUME GenerationsOK, OwnersOK, NEW t \in Tasks
  PROVE  /\ Owed = OthersOwed(t) \cup Owing(t) /\ OthersOwed(t) \cap Owing(t) = {}
         /\ Begun = OthersBegun(t) \cup Beginning(t) /\ OthersBegun(t) \cap Beginning(t) = {}
         /\ OthersOwed(t) \cap Beginning(t) = {}
<1>1. \A u \in Tasks : \A g \in Owing(u) \cup Beginning(u) : g \in Nat /\ Has(u, g)
  BY DEF Owing, Beginning, Has, Owned, GenerationsOK, Request
<1>2. \A u \in Tasks \ {t} :
        /\ Owing(u) \cap Owing(t) = {} /\ Beginning(u) \cap Beginning(t) = {}
        /\ Owing(u) \cap Beginning(t) = {}
  BY <1>1 DEF OwnersOK
<1>3. /\ OthersOwed(t) \cap Owing(t) = {} /\ OthersBegun(t) \cap Beginning(t) = {}
      /\ OthersOwed(t) \cap Beginning(t) = {}
  BY <1>2 DEF OthersOwed, OthersBegun
<1>4. Owed = OthersOwed(t) \cup Owing(t)
  BY DEF Owed, OthersOwed
<1>5. Begun = OthersBegun(t) \cup Beginning(t)
  BY DEF Begun, OthersBegun
<1> QED
  BY <1>3, <1>4, <1>5

\* A step of a request changes its own part only.
LEMMA PartsStep ==
  ASSUME GenerationsOK, NEW t \in Tasks, Start(t) \/ TaskStep(t)
  PROVE  /\ Owed' = OthersOwed(t) \cup Owing(t)'
         /\ Begun' = OthersBegun(t) \cup Beginning(t)'
<1>1. \A u \in Tasks \ {t} : Owing(u)' = Owing(u) /\ Beginning(u)' = Beginning(u)
  BY OneMoves DEF Owing, Beginning
<1>2. Owed' = UNION {Owing(u)' : u \in Tasks}
  BY DEF Owed
<1>3. Begun' = UNION {Beginning(u)' : u \in Tasks}
  BY DEF Begun
<1> QED
  BY <1>1, <1>2, <1>3 DEF OthersOwed, OthersBegun

LEMMA ActorsAre ==
  \A g : g \in Actors <=> /\ g > 0
                          /\ \/ g \in {runtime, showPeer, scenesPeer}
                             \/ \E u \in Tasks : Own(u) = g /\ tx[u].at \in Installed
BY DEF Actors, Running, Holds, Installed

\* The same after a step.
LEMMA ActorsBecome ==
  \A g : g \in Actors' <=> /\ g > 0
                           /\ \/ g \in {runtime', showPeer', scenesPeer'}
                              \/ \E u \in Tasks : tx'[u].own = g /\ tx'[u].at \in Installed
BY DEF Actors, Running, Holds, Installed

\* Handles go away only, and the installed runtime is one.
LEMMA ActorsShrink ==
  ASSUME ConnectionInv, GenerationsOK', NEW t \in Tasks, Start(t) \/ TaskStep(t), Lets(t)
  PROVE  Actors' \subseteq Actors /\ (runtime' = 0 \/ runtime' \in Actors')
<1>1. \A u \in Tasks : tx'[u].at \in Installed =>
        tx[u].at \in Installed /\ tx'[u].own = Own(u)
  BY OneMoves DEF ConnectionInv, Lets
<1>2. {runtime', showPeer', scenesPeer'} \subseteq {0, runtime, showPeer, scenesPeer}
  BY DEF Lets
<1>3. Actors' \subseteq Actors
  BY <1>1, <1>2, ActorsAre, ActorsBecome
<1>4. runtime' = 0 \/ runtime' \in Actors'
  BY ActorsBecome DEF GenerationsOK
<1> QED
  BY <1>3, <1>4

LEMMA ActorsStay ==
  ASSUME ConnectionInv, NEW t \in Tasks, Start(t) \/ TaskStep(t), Same(t)
  PROVE  Actors' = Actors /\ (up \cap Actors)' = up \cap Actors
<1>1. \A u \in Tasks : \A g :
        tx'[u].own = g /\ tx'[u].at \in Installed <=> Own(u) = g /\ tx[u].at \in Installed
  BY OneMoves DEF ConnectionInv, Same
<1>2. \A g : (\E u \in Tasks : tx'[u].own = g /\ tx'[u].at \in Installed)
            <=> (\E u \in Tasks : Own(u) = g /\ tx[u].at \in Installed)
  BY <1>1
<1>3. \A g : g \in Actors' <=> g \in Actors
  BY <1>2, ActorsAre, ActorsBecome DEF Same
<1>4. Actors' = Actors
  BY <1>3
<1> QED
  BY <1>4 DEF Same

LEMMA SimulateQuiet ==
  ASSUME ConnectionInv, GenerationsOK', NEW t \in Tasks, Start(t) \/ TaskStep(t), Quietly(t)
  PROVE  C!Release
<1>1. Owed' = Owed /\ Begun' = Begun
  BY Parts, PartsStep DEF ConnectionInv, Quietly
<1>2. Actors' \subseteq Actors /\ (runtime' = 0 \/ runtime' \in Actors')
  BY ActorsShrink DEF Quietly
<1>3. (up \cap Actors)' = (up \cap Actors) \cap Actors'
  BY <1>2 DEF Quietly, Lets
<1> QED
  BY <1>1, <1>2, <1>3 DEF C!Release, C!Keep, Owed, Begun, Quietly, Lets

LEMMA SimulateAdvance ==
  ASSUME ConnectionInv, GenerationsOK', NEW t \in Tasks, Start(t) \/ TaskStep(t), Advancing(t)
  PROVE  C!Advance
<1>1. Owed' = Owed \cup {generation + 1}
  BY Parts, PartsStep DEF ConnectionInv, Advancing
<1>2. Begun' \in {Begun, Begun \cup {generation + 1}}
  BY Parts, PartsStep DEF ConnectionInv, Advancing
<1>3. Actors' \subseteq Actors /\ (runtime' = 0 \/ runtime' \in Actors')
  BY ActorsShrink DEF Advancing
<1>4. (up \cap Actors)' = (up \cap Actors) \cap Actors'
  BY <1>3 DEF Advancing, Lets
<1> QED
  BY <1>1, <1>2, <1>3, <1>4 DEF C!Advance, C!Keep, Owed, Begun, Advancing, Lets

LEMMA SimulateAnnounce ==
  ASSUME ConnectionInv, NEW t \in Tasks, Start(t) \/ TaskStep(t), Announcing(t)
  PROVE  \E g \in Owed : C!AnnounceGeneration(g)
<1>1. PICK g \in Nat : Owing(t) = {g}
  BY DEF Announcing
<1>2. g \in Owed /\ Owed' = Owed \ {g} /\ Begun' = Begun
  BY <1>1, Parts, PartsStep DEF ConnectionInv, Announcing
<1>3. Actors' = Actors /\ (up \cap Actors)' = up \cap Actors
  BY ActorsStay DEF Announcing
<1>4. C!AnnounceGeneration(g)
  BY <1>2, <1>3 DEF C!AnnounceGeneration, Owed, Begun, Announcing, Same
<1> QED
  BY <1>2, <1>4

LEMMA SimulateRefuse ==
  ASSUME ConnectionInv, NEW t \in Tasks, Start(t) \/ TaskStep(t), Refusing(t)
  PROVE  \E g \in Begun : C!Refuse(g)
<1>1. Own(t) \in Begun \ {generation} /\ Begun' = Begun \ {Own(t)} /\ Owed' = Owed
  BY Parts, PartsStep DEF ConnectionInv, Refusing
<1>2. Actors' = Actors /\ (up \cap Actors)' = up \cap Actors
  BY ActorsStay DEF Refusing
<1>3. C!Refuse(Own(t))
  BY <1>1, <1>2 DEF C!Refuse, Owed, Begun, Refusing, Same
<1> QED
  BY <1>1, <1>3

LEMMA SimulateInstall ==
  ASSUME ConnectionInv, NEW t \in Tasks, Start(t) \/ TaskStep(t), Installing(t)
  PROVE  C!InstallCurrent
<1>1. /\ generation \in Begun \ Owed /\ Begun' = Begun \ {generation}
      /\ Owed' = Owed
  BY Parts, PartsStep DEF ConnectionInv, Installing
<1>2. generation > 0 /\ generation \notin up
  <2>1. Has(t, generation) /\ generation \in Nat
    BY DEF Installing, Has, Owned, ConnectionInv, GenerationsOK
  <2> QED
    BY <2>1 DEF ConnectionInv, OwnersOK, UnknownOK, Installing
<1>3. \A u \in Tasks : \A g : tx'[u].own = g /\ tx'[u].at \in Installed =>
        g = generation \/ (Own(u) = g /\ tx[u].at \in Installed)
  BY OneMoves DEF ConnectionInv, Installing
<1>4. generation \in Actors' /\ Actors' \subseteq Actors \cup {generation}
  BY <1>2, <1>3, ActorsAre, ActorsBecome DEF Installing
<1> DEFINE kept == Actors' \ {generation}
<1>5. /\ kept \in SUBSET Actors /\ Actors' = kept \cup {generation}
      /\ (up \cap Actors)' = (up \cap Actors) \cap (kept \cup {generation})
  BY <1>2, <1>4 DEF Installing
<1>6. C!Keep(kept \cup {generation})
  BY <1>5 DEF C!Keep, Installing
<1> QED
  BY <1>1, <1>5, <1>6 DEF C!InstallCurrent, Owed, Begun, Installing

LEMMA SimulateAround ==
  ASSUME ConnectionInv, GenerationsOK', Around \/ UNCHANGED vars
  PROVE  C!ConnectionsNext \/ UNCHANGED C!connectionVars
<1>1. UNCHANGED <<generation, runtime, showPeer, tx>>
  BY DEF Around, Lv1Connects, Lv1Drops, Lv1Ends, ScenesReads, vars
<1>2. Owed' = Owed /\ Begun' = Begun
  BY <1>1 DEF Owed, Begun, Owing, Beginning
<1>3. CASE UNCHANGED scenesPeer
  <2>1. Actors' = Actors /\ \A g : Running(g) <=> g \in Actors
    BY <1>1, <1>3 DEF Actors, Running, Holds
  <2>2. CASE \E g \in Actors : Lv1Connects(g)
    <3>1. PICK g \in Actors : Lv1Connects(g)
      BY <2>2
    <3>2. g \in Actors \ (up \cap Actors) /\ (up \cap Actors)' = (up \cap Actors) \cup {g}
      BY <3>1, <2>1 DEF Lv1Connects
    <3>3. C!ConnectLv1(g)
      BY <3>2, <1>1, <1>2, <2>1 DEF C!ConnectLv1, Owed, Begun
    <3> QED
      BY <3>1, <3>3 DEF C!ConnectionsNext
  <2>3. CASE \E g \in Actors : Lv1Drops(g)
    <3>1. PICK g \in Actors : Lv1Drops(g)
      BY <2>3
    <3>2. g \in up \cap Actors /\ (up \cap Actors)' = (up \cap Actors) \ {g}
      BY <3>1, <2>1 DEF Lv1Drops
    <3>3. C!DropLv1(g)
      BY <3>2, <1>1, <1>2, <2>1 DEF C!DropLv1, Owed, Begun
    <3> QED
      BY <3>1, <3>3 DEF C!ConnectionsNext
  <2>4. CASE \/ \E g \in up : Lv1Ends(g)
             \/ ScenesReads \/ UNCHANGED vars
    <3>1. (up \cap Actors)' = up \cap Actors
      BY <2>4, <2>1 DEF Lv1Ends, ScenesReads, vars
    <3> QED
      BY <3>1, <1>1, <1>2, <2>1 DEF C!connectionVars, Owed, Begun
  <2> QED
    BY <2>2, <2>3, <2>4 DEF Around
<1>4. CASE ~UNCHANGED scenesPeer
  <2>1. scenesPeer' = 0 /\ up' = up
    BY <1>4 DEF Around, Lv1Connects, Lv1Drops, Lv1Ends, ScenesReads, ScenesTransition,
                ClearScenesPeer, vars
  <2>2. Actors' \subseteq Actors
    BY <1>1, <2>1, ActorsAre, ActorsBecome
  <2>3. runtime' = 0 \/ runtime' \in Actors'
    BY ActorsBecome DEF GenerationsOK
  <2>4. (up \cap Actors)' = (up \cap Actors) \cap Actors'
    BY <2>1, <2>2
  <2>5. C!Release
    BY <1>1, <1>2, <2>2, <2>3, <2>4 DEF C!Release, C!Keep, Owed, Begun
  <2> QED
    BY <2>5 DEF C!ConnectionsNext
<1> QED
  BY <1>3, <1>4

\* Theorem: to those who follow it the lifecycle is Connections: generations
\* advance by one, each is announced once, and a runtime is only installed for the
\* active generation, begun for it and announced (ImplementsConnections).
THEOREM ConnectionsImplemented == Spec => ImplementsConnections
<1>1. Init => C!ConnectionsInit
  <2> SUFFICES ASSUME Init PROVE C!ConnectionsInit
    OBVIOUS
  <2>1. Owed = {} /\ Begun = {}
    BY DEF Init, Owed, Begun, Owing, Beginning
  <2>2. Actors = {} /\ up = {}
    BY ActorsAre DEF Init, Installed
  <2> QED
    BY <2>1, <2>2 DEF Init, C!ConnectionsInit, Owed, Begun
<1>2. ConnectionInv /\ ConnectionInv' /\ [Next]_vars => [C!ConnectionsNext]_(C!connectionVars)
  <2> SUFFICES ASSUME ConnectionInv, ConnectionInv', [Next]_vars
               PROVE  C!ConnectionsNext \/ UNCHANGED C!connectionVars
    OBVIOUS
  <2>1. GenerationsOK'
    BY DEF ConnectionInv
  <2>2. CASE \E t \in Tasks : Start(t) \/ TaskStep(t)
    <3>1. PICK t \in Tasks : Start(t) \/ TaskStep(t)
      BY <2>2
    <3>2. Quietly(t) \/ Advancing(t) \/ Announcing(t) \/ Installing(t) \/ Refusing(t)
      BY <3>1, Looks DEF ConnectionInv
    <3> QED
      BY <3>1, <3>2, <2>1, SimulateQuiet, SimulateAdvance, SimulateAnnounce, SimulateInstall,
         SimulateRefuse DEF C!ConnectionsNext, Owed, Begun
  <2>3. CASE Around \/ UNCHANGED vars
    BY <2>3, <2>1, SimulateAround
  <2> QED
    BY <2>2, <2>3 DEF Next, Around
<1> QED
  BY <1>1, <1>2, OwnershipCorrect, PTL DEF Spec, ImplementsConnections, C!ConnectionsSpec
=============================================================================
