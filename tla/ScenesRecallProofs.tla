-------------------------- MODULE ScenesRecallProofs --------------------------
(***************************************************************************)
(* Theorems about ScenesRecall, for every set of requests, every queue     *)
(* capacity and every number of connection generations.                    *)
(*                                                                         *)
(* TypeCorrect comes first, one lemma per action.  IntentInv, which needs  *)
(* TypeOK and nothing else to be inductive, then gives the bound on        *)
(* admitted recalls, one recall in flight at a time, the effect of         *)
(* lockout, and the two fences every recall sent to LV1 has passed: the    *)
(* connection generation and the session in which it was admitted.         *)
(* CallersInv, on top of both, accounts for every caller: no reply channel *)
(* is dropped, and what callers are told is what RecallFifo tells them.    *)
(* EpochInv, Accounted, EchoInv and LateInv at the end are what it takes   *)
(* to recognise the late echo of a canceled recall.                        *)
(***************************************************************************)
EXTENDS ScenesRecall, SequenceTheorems, FiniteSetTheorems, TLAPS

USE DEF lifecycleVars, lv1Vars, fadeVars, busVars, mailVars, libraryVars, lockVars,
        coordVars, replyVars, historyVars, worldVars, TypeOK

-----------------------------------------------------------------------------
(* Helpers of the type invariant: events, sequences, replies, cancellation *)

LEMMA PublishType ==
  ASSUME TypeOK, NEW facts \in Seq(Facts \cup Observations), Publish(facts)
  PROVE  events' \in Seq(Facts \cup Observations)
BY ConcatProperties DEF Publish, BusOK

LEMMA EndTurnType == ASSUME TypeOK, EndTurn PROVE BusOK'
BY DEF EndTurn, BusOK

LEMMA ReceiveType ==
  ASSUME TypeOK, NEW kind, Receive(kind)
  PROVE  /\ BusOK' /\ Head(events) \in Facts \cup Observations
         /\ kind = "scene" => Head(events) \in Observations
         /\ Head(events).kind = kind
BY HeadTailProperties DEF Receive, BusOK, Facts, Observations

\* Retaining the identity of a canceled recall respects LateCapacity.
LEMMA RetainedType ==
  ASSUME TypeOK
  PROVE  Retained \in Seq(LateEntries) /\ Len(Retained) <= LateCapacity
<1>1. CASE inflight.phase # "observation"
  BY <1>1 DEF Retained, CoordOK
<1>2. CASE inflight.phase = "observation"
  <2> DEFINE entry == [gen |-> inflight.gen, seq |-> inflight.seq,
                       scene |-> SceneOf[inflight.req]]
             kept == IF Len(late) = LateCapacity THEN Tail(late) ELSE late
  <2>1. entry \in LateEntries
    BY <1>2, RequestsAssumption DEF CoordOK, Flights, NoFlight, LateEntries
  <2>2. kept \in Seq(LateEntries) /\ Len(kept) < LateCapacity
    BY CapacityAssumption, HeadTailProperties DEF CoordOK
  <2>3. Retained = Append(kept, entry)
    BY <1>2 DEF Retained
  <2> QED
    BY <2>1, <2>2, <2>3, CapacityAssumption, AppendProperties
<1> QED
  BY <1>1, <1>2

LEMMA NoOpType == NoOp \in Ops
BY BoundsAssumption DEF NoOp, OpOf, Ops, MaybeReq, Gens, Stages

\* A cancellation leaves the coordinator and the replies well formed.
LEMMA AbandonType ==
  ASSUME TypeOK, NEW ids \in Seq(LateEntries), Len(ids) <= LateCapacity, NEW others,
         AbandonRecall(ids, others)
  PROVE  OpOK' /\ CoordOK' /\ ReplyOK'
BY NoOpType DEF AbandonRecall, Failing, NoChannels, OpOK, CoordOK, ReplyOK, Flights

LEMMA ForgetType ==
  ASSUME TypeOK, NEW others, AbandonRecall(<<>>, others)
  PROVE  OpOK' /\ CoordOK' /\ ReplyOK'
<1>1. <<>> \in Seq(LateEntries) /\ Len(<<>>) <= LateCapacity
  BY CapacityAssumption
<1> QED
  BY <1>1, AbandonType

\* So does starting the next recall of a FIFO, with or without peers.
LEMMA StartNextType ==
  ASSUME TypeOK, NEW queue \in Seq(Requests), 
         NEW answers \in [Requests -> {"idle", "waiting", "ok", "err"}],
         StartNext(queue, answers)
  PROVE  /\ OpOK' /\ waiting' \in Seq(Requests)
         /\ pendingObs' \in Observations \cup {NoObs}
         /\ reply' \in [Requests -> {"idle", "waiting", "ok", "err"}]
<1>1. CASE queue # <<>> /\ HasPeers(active)
  <2>1. Head(queue) \in Requests /\ Tail(queue) \in Seq(Requests)
    BY <1>1, HeadTailProperties
  <2>2. OpOK'
    BY <1>1, <2>1 DEF StartNext, OpOK, OpOf, Ops, LibraryOK, MaybeReq, Stages, Gens, DispatchKinds
  <2> QED
    BY <1>1, <2>1, <2>2 DEF StartNext, CoordOK
<1>2. CASE queue = <<>>
  BY <1>2, NoOpType DEF StartNext, CoordOK, OpOK
<1>3. CASE queue # <<>> /\ ~HasPeers(active)
  <2>1. op' = NoOp /\ waiting' = <<>> /\ pendingObs' = NoObs
    BY <1>3 DEF StartNext
  <2>2. reply' = [r \in Requests |-> IF r \in ToSet(queue) THEN "err" ELSE answers[r]]
    BY <1>3 DEF StartNext
  <2> QED
    BY <2>1, <2>2, NoOpType DEF OpOK
<1> QED
  BY <1>1, <1>2, <1>3

LEMMA StartIfIdleType ==
  ASSUME TypeOK, NEW queue \in Seq(Requests), 
         NEW answers \in [Requests -> {"idle", "waiting", "ok", "err"}],
         StartIfIdle(queue, answers)
  PROVE  /\ OpOK' /\ waiting' \in Seq(Requests)
         /\ pendingObs' \in Observations \cup {NoObs}
         /\ reply' \in [Requests -> {"idle", "waiting", "ok", "err"}]
BY StartNextType, NoOpType DEF StartIfIdle, OpOK, CoordOK

LEMMA CommandType ==
  ASSUME TypeOK, HasCommand, TakeCommand, UNCHANGED cueBox
  PROVE  MailOK' /\ Command \in Msgs
BY HeadTailProperties DEF HasCommand, TakeCommand, Command, MailOK

LEMMA MsgReq == ASSUME NEW m \in Msgs, m.kind # "peersReady" PROVE m.req \in Requests
BY DEF Msgs

LEMMA AdmissionType ==
  ASSUME TypeOK, NEW r \in Requests, BeginAdmission(r) PROVE OpOK'
BY DEF BeginAdmission, OpOK, Ops, OpOf, LibraryOK, MaybeReq, Stages, Gens

LEMMA FailingType ==
  ASSUME TypeOK, NEW rs PROVE Failing(rs) \in [Requests -> {"idle", "waiting", "ok", "err"}]
BY DEF Failing, ReplyOK

LEMMA DropRuntimeType ==
  ASSUME TypeOK, DropRuntime, UNCHANGED reply PROVE Lv1OK' /\ FadeOK' /\ OpOK' /\ ReplyOK'
<1>1. OpOK'
  BY DEF DropRuntime, OpOK, Ops, Stages
<1>2. toConsole' \in Seq(Requests) /\ obsSeq' \in Nat
  BY DEF DropRuntime
<1>3. Lv1OK'
  BY <1>2, Zenon DEF DropRuntime, Lv1OK
<1>4. FadeOK'
  BY DEF DropRuntime, FadeOK
<1>5. ReplyOK'
  BY DEF DropRuntime, ReplyOK
<1> QED
  BY <1>1, <1>3, <1>4, <1>5

\* What a step leaves unchanged keeps its shape.
LEMMA Frame ==
  ASSUME TypeOK
  PROVE  /\ UNCHANGED lifecycleVars => LifecycleOK'
         /\ UNCHANGED lv1Vars => Lv1OK'
         /\ UNCHANGED fadeVars => FadeOK'
         /\ UNCHANGED <<busVars, quiet>> => BusOK'
         /\ UNCHANGED mailVars => MailOK'
         /\ UNCHANGED libraryVars => LibraryOK'
         /\ UNCHANGED lockVars => LockOK'
         /\ UNCHANGED op => OpOK'
         /\ UNCHANGED <<store, cue>> => TurnOK'
         /\ UNCHANGED coordVars => CoordOK'
         /\ UNCHANGED replyVars => ReplyOK'
         /\ UNCHANGED historyVars => HistoryOK'
         /\ UNCHANGED budget => BudgetOK'
BY DEF LifecycleOK, Lv1OK, FadeOK, BusOK, MailOK, LibraryOK, LockOK,
       OpOK, TurnOK, CoordOK, ReplyOK, HistoryOK, BudgetOK

LEMMA SpendType == ASSUME TypeOK, NEW k \in EnvKinds, Spend(k) PROVE BudgetOK'
BY DEF Spend, BudgetOK, BudgetRecords

-----------------------------------------------------------------------------
(* The type invariant, action by action: callers, lifecycle, LV1, Fade      *)

LEMMA SendCommandType == ASSUME TypeOK, NEW r, SendCommand(r) PROVE TypeOK'
<1>1. MailOK'
  BY AppendProperties DEF SendCommand, MailOK, Msgs
<1>2. ReplyOK'
  BY DEF SendCommand, ReplyOK
<1> QED
  BY <1>1, <1>2, Frame DEF SendCommand

LEMMA PressGoType == ASSUME TypeOK, NEW r, PressGo(r) PROVE TypeOK'
<1>1. MailOK'
  BY AppendProperties DEF PressGo, MailOK
<1>2. ReplyOK'
  BY DEF PressGo, ReplyOK
<1>3. HistoryOK'
  BY DEF PressGo, HistoryOK
<1> QED
  BY <1>1, <1>2, <1>3, Frame DEF PressGo

LEMMA FlipLockoutType == ASSUME TypeOK, FlipLockout PROVE TypeOK'
<1>1. LockOK'
  BY Zenon DEF FlipLockout, LockOK
<1>2. BudgetOK'
  BY SpendType DEF FlipLockout, EnvKinds
<1> QED
  BY <1>1, <1>2, Frame DEF FlipLockout

\* A guard on the scenario's bound keeps the next generation in Gens.
LEMMA NextGenType == ASSUME TypeOK, gen < budget.gens PROVE gen + 1 \in Gens
BY BoundsAssumption DEF LifecycleOK, BudgetOK, BudgetRecords, Gens

LEMMA ConnectType == ASSUME TypeOK, Connect PROVE TypeOK'
<1>1. Lv1OK' /\ FadeOK' /\ OpOK' /\ ReplyOK'
  BY DropRuntimeType DEF Connect
<1>2. LifecycleOK'
  BY NextGenType DEF Connect, LifecycleOK
<1>3. <<Fact("generation", gen + 1)>> \in Seq(Facts \cup Observations)
  BY NextGenType DEF Connect, Fact, Facts, LifecycleOK
<1>4. BusOK'
  BY <1>3, PublishType DEF Connect, BusOK
<1> QED
  BY <1>1, <1>2, <1>3, <1>4, Frame DEF Connect

LEMMA OfferPeersType == ASSUME TypeOK, OfferPeers PROVE TypeOK'
<1>1. MailOK'
  BY AppendProperties DEF OfferPeers, MailOK, Msgs, LifecycleOK
<1>2. LifecycleOK'
  BY DEF OfferPeers, LifecycleOK
<1> QED
  BY <1>1, <1>2, Frame DEF OfferPeers

LEMMA FactType ==
  ASSUME TypeOK, NEW kind \in {"sceneList", "disconnected", "generation"}, NEW g \in Gens
  PROVE  <<Fact(kind, g)>> \in Seq(Facts \cup Observations)
BY DEF Fact, Facts

LEMMA ClearRuntimeType ==
  ASSUME TypeOK, NEW b \in BOOLEAN, ClearRuntime(b) PROVE TypeOK'
<1> DEFINE gone == <<Fact("disconnected", gen)>>
           next == <<Fact("generation", gen + 1)>>
           facts == (IF b THEN gone ELSE <<>>) \o next
<1>1. Lv1OK' /\ FadeOK' /\ OpOK' /\ ReplyOK'
  BY DropRuntimeType DEF ClearRuntime
<1>2. LifecycleOK'
  BY NextGenType, BoundsAssumption DEF ClearRuntime, LifecycleOK, Gens
<1>3. gen \in Gens /\ gen + 1 \in Gens
  BY NextGenType DEF ClearRuntime, LifecycleOK
<1>4. gone \in Seq(Facts \cup Observations) /\ next \in Seq(Facts \cup Observations)
  BY <1>3, FactType
<1>5. Publish(facts)
  BY DEF ClearRuntime
<1>6. facts \in Seq(Facts \cup Observations)
  <2> HIDE DEF gone, next
  <2>1. (IF b THEN gone ELSE <<>>) \in Seq(Facts \cup Observations)
    BY <1>4
  <2> QED
    BY <1>4, <2>1, ConcatProperties
<1>7. BusOK'
  <2> HIDE DEF facts
  <2> QED
    BY <1>5, <1>6, PublishType DEF ClearRuntime, BusOK
<1>8. BudgetOK'
  BY SpendType DEF ClearRuntime, EnvKinds
<1> QED
  BY <1>1, <1>2, <1>7, <1>8, Frame DEF ClearRuntime

LEMMA Lv1ConnectedType == ASSUME TypeOK, Lv1Connected PROVE TypeOK'
<1>1. Lv1OK'
  BY Zenon DEF Lv1Connected, Lv1OK
<1>2. <<Fact("sceneList", gen)>> \in Seq(Facts \cup Observations)
  BY DEF Lv1Connected, Fact, Facts, LifecycleOK
<1>3. BusOK'
  BY <1>2, PublishType DEF Lv1Connected, BusOK
<1> QED
  BY <1>1, <1>2, <1>3, Frame DEF Lv1Connected

LEMMA Lv1LostType == ASSUME TypeOK, Lv1Lost PROVE TypeOK'
<1>1. toConsole' \in Seq(Requests) /\ obsSeq' \in Nat
  BY DEF Lv1Lost
<1>2. Lv1OK'
  BY <1>1, Zenon DEF Lv1Lost, Lv1OK
<1>3. <<Fact("disconnected", gen)>> \in Seq(Facts \cup Observations)
  BY DEF Lv1Lost, Fact, Facts, LifecycleOK
<1>4. BusOK'
  BY <1>3, PublishType DEF Lv1Lost, BusOK
<1>5. BudgetOK'
  BY SpendType DEF Lv1Lost, EnvKinds
<1> QED
  BY <1>1, <1>2, <1>3, <1>4, <1>5, Frame DEF Lv1Lost

LEMMA AnnounceType ==
  ASSUME TypeOK, NEW sc \in Scenes, NEW cause \in MaybeReq, Announce(sc, cause)
  PROVE  BusOK' /\ obsSeq' \in Nat /\ lv1Up' \in BOOLEAN /\ accepted' \in SUBSET Requests
<1> DEFINE obs == [kind |-> "scene", gen |-> gen, seq |-> obsSeq + 1, scene |-> sc,
                   from |-> cause]
<1>1. obs \in Observations
  BY DEF Observations, LifecycleOK, Lv1OK
<1>2. events' = events \o <<obs>>
  BY DEF Announce, Publish
<1>3. BusOK'
  BY <1>1, <1>2, ConcatProperties DEF Announce, BusOK
<1>4. obsSeq' \in Nat
  BY DEF Announce, Lv1OK
<1> QED
  BY <1>3, <1>4 DEF Announce, Lv1OK

LEMMA ConsoleEchoType == ASSUME TypeOK, ConsoleEcho PROVE TypeOK'
<1>1. Head(toConsole) \in Requests /\ toConsole' \in Seq(Requests)
  BY HeadTailProperties DEF ConsoleEcho, Lv1OK
<1>2. BusOK' /\ Lv1OK'
  BY <1>1, AnnounceType, RequestsAssumption DEF ConsoleEcho, Lv1OK, MaybeReq
<1> QED
  BY <1>1, <1>2, Frame DEF ConsoleEcho, Announce

LEMMA ConsoleSilentType == ASSUME TypeOK, ConsoleSilent PROVE TypeOK'
<1>1. Lv1OK'
  BY HeadTailProperties DEF ConsoleSilent, Lv1OK
<1> QED
  BY <1>1, Frame DEF ConsoleSilent

LEMMA ManualRecallType == ASSUME TypeOK, NEW sc \in Scenes, ManualRecall(sc) PROVE TypeOK'
<1>1. BusOK' /\ Lv1OK'
  BY AnnounceType DEF ManualRecall, Lv1OK, MaybeReq
<1>2. BudgetOK'
  BY SpendType DEF ManualRecall, EnvKinds
<1> QED
  BY <1>1, <1>2, Frame DEF ManualRecall, Announce

LEMMA OverrunType == ASSUME TypeOK, Overrun PROVE TypeOK'
<1>1. BusOK'
  BY Zenon DEF Overrun, BusOK
<1>2. BudgetOK'
  BY SpendType DEF Overrun, EnvKinds
<1> QED
  BY <1>1, <1>2, Frame DEF Overrun

LEMMA AnsweredType ==
  ASSUME TypeOK, NEW stage \in Stages PROVE HandoffAnswered(stage) \in Ops
BY DEF HandoffAnswered, OpOK, Ops

LEMMA SettleType ==
  ASSUME TypeOK, NEW rs, NEW result \in {"ok", "err"}
  PROVE  Settle(rs, result) \in [Requests -> {"none", "open", "ok", "err"}]
BY DEF Settle, ReplyOK

LEMMA FadeAdmitType == ASSUME TypeOK, FadeAdmit PROVE TypeOK'
<1>1. OpOK'
  BY AnsweredType DEF FadeAdmit, OpOK, Stages
<1>2. FadeOK'
  BY HeadTailProperties DEF FadeAdmit, FadeOK
<1>3. ReplyOK'
  BY SettleType DEF FadeAdmit, ReplyOK
<1> QED
  BY <1>1, <1>2, <1>3, Frame DEF FadeAdmit

LEMMA FadeRefuseType == ASSUME TypeOK, FadeRefuse PROVE TypeOK'
<1>1. OpOK'
  BY AnsweredType DEF FadeRefuse, OpOK, Stages
<1>2. FadeOK'
  BY HeadTailProperties DEF FadeRefuse, FadeOK
<1>3. ReplyOK'
  BY SettleType DEF FadeRefuse, ReplyOK
<1> QED
  BY <1>1, <1>2, <1>3, Frame DEF FadeRefuse

LEMMA FadeBarrierEndsType ==
  ASSUME TypeOK, NEW result \in {"ok", "err"}, FadeBarrierEnds(result) PROVE TypeOK'
<1>1. FadeOK'
  BY DEF FadeBarrierEnds, FadeOK
<1>2. ReplyOK'
  BY SettleType DEF FadeBarrierEnds, ReplyOK
<1> QED
  BY <1>1, <1>2, Frame DEF FadeBarrierEnds

-----------------------------------------------------------------------------
(* The type invariant: the event branch of the Scenes actor                *)

LEMMA ReceiveStaleType == ASSUME TypeOK, ReceiveStale PROVE TypeOK'
<1>1. BusOK'
  BY ReceiveType DEF ReceiveStale
<1> QED
  BY <1>1, Frame DEF ReceiveStale

LEMMA ReceiveSceneListType == ASSUME TypeOK, ReceiveSceneList PROVE TypeOK'
<1>1. BusOK'
  BY ReceiveType DEF ReceiveSceneList
<1>2. lagRecovery' \in Gens /\ status' \in {"awaitingPeers", "awaitingList", "ready"}
  BY BoundsAssumption DEF ReceiveSceneList, LibraryOK, Gens
<1>3. cached' \in BOOLEAN
  BY Zenon DEF ReceiveSceneList, LibraryOK
<1>4. LibraryOK'
  BY <1>2, <1>3 DEF ReceiveSceneList, LibraryOK
<1> QED
  BY <1>1, <1>2, <1>3, <1>4, Frame DEF ReceiveSceneList

LEMMA ReceiveSceneType == ASSUME TypeOK, ReceiveScene PROVE TypeOK'
<1>1. BusOK' /\ pendingObs' \in Observations
  BY ReceiveType DEF ReceiveScene
<1>2. CoordOK'
  BY <1>1 DEF ReceiveScene, CoordOK
<1> QED
  BY <1>1, <1>2, Frame DEF ReceiveScene

LEMMA ReceiveDisconnectedType == ASSUME TypeOK, ReceiveDisconnected PROVE TypeOK'
<1>1. BusOK'
  BY ReceiveType DEF ReceiveDisconnected
<1>2. OpOK' /\ CoordOK' /\ ReplyOK'
  BY ForgetType DEF ReceiveDisconnected
<1>3. lagRecovery' \in Gens
  BY BoundsAssumption DEF ReceiveDisconnected, Gens
<1>4. LibraryOK'
  BY <1>3, Zenon DEF ReceiveDisconnected, LibraryOK
<1>5. TurnOK'
  BY DEF ReceiveDisconnected, TurnOK, Stores
<1> QED
  BY <1>1, <1>2, <1>3, <1>4, <1>5, Frame DEF ReceiveDisconnected

LEMMA ReceiveGenerationType == ASSUME TypeOK, ReceiveGeneration PROVE TypeOK'
<1>1. BusOK' /\ Head(events).gen \in Gens
  BY ReceiveType DEF ReceiveGeneration, Facts, Observations
<1>2. OpOK' /\ CoordOK' /\ ReplyOK'
  BY ForgetType, Frame DEF ReceiveGeneration, Transition
<1>3. /\ lagRecovery' \in Gens /\ active' \in Gens
      /\ status' \in {"awaitingPeers", "awaitingList", "ready"}
  BY <1>1, BoundsAssumption DEF ReceiveGeneration, Transition, LibraryOK, Gens
<1>4. cached' \in BOOLEAN
  BY Zenon DEF ReceiveGeneration, LibraryOK
<1>5. LibraryOK'
  BY <1>3, <1>4 DEF ReceiveGeneration, LibraryOK
<1>6. LifecycleOK'
  BY BoundsAssumption DEF ReceiveGeneration, LifecycleOK, Transition, Gens
<1>7. TurnOK'
  BY DEF ReceiveGeneration, TurnOK, Stores
<1> QED
  BY <1>1, <1>2, <1>3, <1>4, <1>5, <1>6, <1>7, Frame DEF ReceiveGeneration

LEMMA ReceiveLaggedType == ASSUME TypeOK, ReceiveLagged PROVE TypeOK'
<1>1. events' \in Seq(Facts \cup Observations)
  BY DEF ReceiveLagged
<1>2. BusOK'
  BY <1>1, Zenon DEF ReceiveLagged, BusOK
<1>3. OpOK' /\ CoordOK' /\ ReplyOK'
  BY AbandonType, ForgetType, RetainedType DEF ReceiveLagged
<1>4. peers' \in Gens
  BY BoundsAssumption DEF ReceiveLagged, LifecycleOK, Gens
<1>5. LifecycleOK'
  BY <1>4 DEF ReceiveLagged, LifecycleOK
<1>6. lagRecovery' \in Gens /\ active' \in Gens
  BY BoundsAssumption DEF ReceiveLagged, LifecycleOK, Gens
<1>7. LibraryOK'
  BY <1>6 DEF ReceiveLagged, LibraryOK
<1> QED
  BY <1>1, <1>2, <1>3, <1>4, <1>5, <1>6, <1>7, Frame DEF ReceiveLagged

LEMMA FinishLagRecoveryType == ASSUME TypeOK, FinishLagRecovery PROVE TypeOK'
<1>1. BusOK'
  BY EndTurnType DEF FinishLagRecovery
<1>2. LibraryOK'
  BY BoundsAssumption DEF FinishLagRecovery, LibraryOK, Gens
<1> QED
  BY <1>1, <1>2, Frame DEF FinishLagRecovery

-----------------------------------------------------------------------------
(* The type invariant: the command branches                                *)

LEMMA HoldCommandType == ASSUME TypeOK, HoldCommand PROVE TypeOK'
<1>1. BusOK'
  BY EndTurnType DEF HoldCommand
<1>2. MailOK'
  BY HeadTailProperties DEF HoldCommand, MailOK
<1> QED
  BY <1>1, <1>2, Frame DEF HoldCommand

LEMMA RecallCommandType == ASSUME TypeOK, RecallCommand PROVE TypeOK'
<1>1. BusOK' /\ MailOK' /\ Command.req \in Requests
  BY EndTurnType, CommandType, MsgReq DEF RecallCommand
<1>2. OpOK'
  BY <1>1, AdmissionType, Frame DEF RecallCommand
<1>3. ReplyOK'
  BY FailingType DEF RecallCommand, ReplyOK
<1> QED
  BY <1>1, <1>2, <1>3, Frame DEF RecallCommand

LEMMA StoreCommandType == ASSUME TypeOK, StoreCommand PROVE TypeOK'
<1>1. BusOK' /\ MailOK' /\ Command.req \in Requests
  BY EndTurnType, CommandType, MsgReq DEF StoreCommand
<1>2. TurnOK'
  BY <1>1 DEF StoreCommand, TurnOK, Stores, LibraryOK
<1>3. ReplyOK'
  BY FailingType DEF StoreCommand, ReplyOK
<1> QED
  BY <1>1, <1>2, <1>3, Frame DEF StoreCommand

LEMMA PeersReadyCommandType == ASSUME TypeOK, PeersReadyCommand PROVE TypeOK'
<1>1. BusOK' /\ MailOK'
  BY EndTurnType, CommandType DEF PeersReadyCommand
<1>2. OpOK' /\ CoordOK' /\ ReplyOK'
  BY ForgetType, Frame DEF PeersReadyCommand, Transition
<1>3. LifecycleOK'
  BY BoundsAssumption DEF PeersReadyCommand, LifecycleOK, Transition, Gens
<1>4. active' \in Gens /\ lagRecovery' \in Gens
  BY DEF PeersReadyCommand, LifecycleOK, LibraryOK, Transition
<1>5. status' \in {"awaitingPeers", "awaitingList", "ready"}
  BY DEF PeersReadyCommand, LibraryOK
<1>6. cached' \in BOOLEAN
  BY Zenon DEF PeersReadyCommand, LibraryOK
<1>7. LibraryOK'
  BY <1>4, <1>5, <1>6 DEF PeersReadyCommand, LibraryOK
<1> QED
  BY <1>1, <1>2, <1>3, <1>4, <1>5, <1>6, <1>7, Frame DEF PeersReadyCommand

LEMMA ReplaceCommandType == ASSUME TypeOK, ReplaceCommand PROVE TypeOK'
<1>1. BusOK' /\ Command.req \in Requests /\ sceneBox' \in Seq(Msgs) /\ held' \in Msgs \cup {NoMsg}
  BY EndTurnType, MsgReq, HeadTailProperties
  DEF ReplaceCommand, HasCommand, TakeCommand, Command, MailOK
<1>2. store' \in Stores
  BY DEF ReplaceCommand, Stores
<1>3. CASE session' = session + 1 /\ cue' = NoReq /\ cueBox' = <<>> /\ op' = NoOp
           /\ waiting' = <<>> /\ inflight' = NoFlight /\ pendingObs' = NoObs
           /\ late' = Retained /\ chan' = NoChannels
           /\ reply' = [Failing(ToSet(waiting) \cup OpToken \cup StoreToken
                                \cup ToSet(cueBox)) EXCEPT ![Command.req] = "ok"]
  <2>1. OpOK'
    BY <1>3, NoOpType DEF OpOK
  <2>2. CoordOK'
    BY <1>3, RetainedType DEF CoordOK, Flights
  <2>3. ReplyOK'
    BY <1>3, FailingType DEF ReplyOK, NoChannels
  <2>4. TurnOK' /\ MailOK'
    BY <1>1, <1>2, <1>3 DEF TurnOK, MailOK
  <2>5. HistoryOK'
    BY <1>3 DEF ReplaceCommand, HistoryOK
  <2> QED
    BY <1>1, <2>1, <2>2, <2>3, <2>4, <2>5, Frame DEF ReplaceCommand
<1>4. CASE /\ IF Idle
              THEN /\ reply' = Failing({Command.req} \cup StoreToken)
                   /\ UNCHANGED <<op, coordVars, chan>>
              ELSE AbandonRecall(Retained, {Command.req} \cup StoreToken)
           /\ UNCHANGED <<session, cue, cueBox>>
  <2>2. OpOK' /\ CoordOK' /\ ReplyOK'
    <3>1. CASE Idle
      BY <1>4, <3>1, FailingType, Frame DEF ReplyOK
    <3>2. CASE ~Idle
      BY <1>4, <3>2, AbandonType, RetainedType
    <3> QED
      BY <3>1, <3>2
  <2>3. TurnOK' /\ MailOK'
    BY <1>1, <1>2, <1>4 DEF TurnOK, MailOK
  <2> QED
    BY <1>1, <1>4, <2>2, <2>3, Frame DEF ReplaceCommand
<1> QED
  BY <1>3, <1>4 DEF ReplaceCommand

LEMMA CueCommandType == ASSUME TypeOK, CueCommand PROVE TypeOK'
<1>1. BusOK'
  BY EndTurnType DEF CueCommand
<1>2. Head(cueBox) \in CueRequests /\ MailOK'
  BY HeadTailProperties DEF CueCommand, MailOK
<1>3. OpOK'
  BY <1>2, AdmissionType, RequestsAssumption, Frame DEF CueCommand
<1>4. ReplyOK'
  BY FailingType DEF CueCommand, ReplyOK
<1>5. TurnOK'
  BY <1>2 DEF CueCommand, TurnOK
<1> QED
  BY <1>1, <1>2, <1>3, <1>4, <1>5, Frame DEF CueCommand

LEMMA CueCompleteType == ASSUME TypeOK, CueComplete PROVE TypeOK'
<1>1. BusOK'
  BY EndTurnType DEF CueComplete
<1>2. TurnOK'
  BY DEF CueComplete, TurnOK
<1> QED
  BY <1>1, <1>2, Frame DEF CueComplete

-----------------------------------------------------------------------------
(* The type invariant: readiness, timers, lockout and settled observations *)

LEMMA ReadinessLostType == ASSUME TypeOK, ReadinessLost PROVE TypeOK'
<1>1. BusOK'
  BY EndTurnType DEF ReadinessLost
<1>2. CoordOK
  BY DEF ReadinessLost
<1>3. OpOK' /\ CoordOK' /\ ReplyOK'
  BY <1>2, AbandonType, ForgetType DEF ReadinessLost, CoordOK
<1> QED
  BY <1>1, <1>2, <1>3, Frame DEF ReadinessLost

LEMMA ReadinessStartsIntervalType == ASSUME TypeOK, ReadinessStartsInterval PROVE TypeOK'
<1>1. BusOK'
  BY EndTurnType DEF ReadinessStartsInterval
<1>2. CoordOK'
  BY DEF ReadinessStartsInterval, ReadinessArrived, CoordOK, Flights, NoFlight
<1>3. ReplyOK'
  BY DEF ReadinessStartsInterval, ReplyOK, NoChannels
<1> QED
  BY <1>1, <1>2, <1>3, Frame DEF ReadinessStartsInterval

LEMMA ReleaseNextType ==
  ASSUME TypeOK, ReleaseNext
  PROVE  BusOK' /\ OpOK' /\ CoordOK' /\ reply' \in [Requests -> {"idle", "waiting", "ok", "err"}]
<1>1. BusOK'
  BY EndTurnType DEF ReleaseNext
<1>2. waiting \in Seq(Requests) /\ reply \in [Requests -> {"idle", "waiting", "ok", "err"}]
  BY DEF CoordOK, ReplyOK
<1>3. CASE Idle
  <2>1. StartNext(waiting, reply)
    BY <1>3 DEF ReleaseNext
  <2> QED
    BY <1>1, <1>2, <2>1, StartNextType DEF ReleaseNext, CoordOK, Flights
<1>4. CASE ~Idle
  BY <1>1, <1>2, <1>4 DEF ReleaseNext, CoordOK, Flights, OpOK
<1> QED
  BY <1>3, <1>4

LEMMA ReadinessReleasesType == ASSUME TypeOK, ReadinessReleases PROVE TypeOK'
<1>1. BusOK' /\ OpOK' /\ CoordOK'
  BY ReleaseNextType DEF ReadinessReleases
<1>2. ReplyOK'
  BY ReleaseNextType DEF ReadinessReleases, ReplyOK, NoChannels
<1> QED
  BY <1>1, <1>2, Frame DEF ReadinessReleases, ReleaseNext

LEMMA IntervalElapsedType == ASSUME TypeOK, IntervalElapsed PROVE TypeOK'
<1>1. BusOK' /\ OpOK' /\ CoordOK'
  BY ReleaseNextType DEF IntervalElapsed
<1>2. ReplyOK'
  BY ReleaseNextType DEF IntervalElapsed, ReplyOK
<1> QED
  BY <1>1, <1>2, Frame DEF IntervalElapsed, ReleaseNext

LEMMA SafetyDeadlineType == ASSUME TypeOK, SafetyDeadline PROVE TypeOK'
<1>1. BusOK'
  BY EndTurnType DEF SafetyDeadline
<1>2. OpOK' /\ CoordOK' /\ ReplyOK'
  BY RetainedType, AbandonType DEF SafetyDeadline
<1> QED
  BY <1>1, <1>2, Frame DEF SafetyDeadline

LEMMA LockoutChangedType == ASSUME TypeOK, LockoutChanged PROVE TypeOK'
<1>1. BusOK'
  BY EndTurnType DEF LockoutChanged
<1>2. OpOK' /\ CoordOK' /\ ReplyOK'
  BY RetainedType, AbandonType, Frame DEF LockoutChanged
<1>3. LockOK'
  BY Zenon DEF LockoutChanged, LockOK
<1> QED
  BY <1>1, <1>2, <1>3, Frame DEF LockoutChanged

LEMMA LateExpiresType == ASSUME TypeOK, LateExpires PROVE TypeOK'
<1>1. BudgetOK'
  BY SpendType DEF LateExpires, EnvKinds
<1>2. Tail(late) \in Seq(LateEntries) /\ Len(Tail(late)) <= LateCapacity
  BY HeadTailProperties, CapacityAssumption DEF LateExpires, CoordOK
<1>3. CoordOK'
  BY <1>2 DEF LateExpires, CoordOK
<1> QED
  BY <1>1, <1>2, <1>3, Frame DEF LateExpires

LEMMA SettleIgnoredType == ASSUME TypeOK, SettleIgnored PROVE TypeOK'
<1>1. BusOK'
  BY EndTurnType DEF SettleIgnored
<1>2. CoordOK'
  BY DEF SettleIgnored, CoordOK
<1> QED
  BY <1>1, <1>2, Frame DEF SettleIgnored

LEMMA RemoveAtType ==
  ASSUME NEW S, NEW s \in Seq(S), NEW i \in DOMAIN s
  PROVE  RemoveAt(s, i) \in Seq(S) /\ Len(RemoveAt(s, i)) = Len(s) - 1
<1> DEFINE front == SubSeq(s, 1, i - 1)
           back == SubSeq(s, i + 1, Len(s))
<1>1. i \in 1 .. Len(s) /\ Len(s) \in Nat
  BY LenProperties
<1>2. front \in Seq(S) /\ Len(front) = i - 1 /\ back \in Seq(S) /\ Len(back) = Len(s) - i
  BY <1>1, SubSeqProperties
<1>3. RemoveAt(s, i) = front \o back
  BY DEF RemoveAt
<1> HIDE DEF front, back
<1>4. front \o back \in Seq(S) /\ Len(front \o back) = Len(front) + Len(back)
  BY <1>2, ConcatProperties
<1>5. Len(front) + Len(back) = Len(s) - 1
  BY <1>1, <1>2
<1> QED
  BY <1>3, <1>4, <1>5

LEMMA SettleSuppressedType == ASSUME TypeOK, SettleSuppressed PROVE TypeOK'
<1>1. BusOK'
  BY EndTurnType DEF SettleSuppressed
<1>2. late' \in Seq(LateEntries) /\ Len(late') <= LateCapacity
  BY RemoveAtType, CapacityAssumption DEF SettleSuppressed, CoordOK
<1>3. CoordOK'
  BY <1>2 DEF SettleSuppressed, CoordOK
<1> QED
  BY <1>1, <1>2, <1>3, Frame DEF SettleSuppressed

LEMMA SettleObservedType == ASSUME TypeOK, SettleObserved PROVE TypeOK'
<1>1. BusOK'
  BY EndTurnType DEF SettleObserved
<1>2. pendingObs \in Observations
  BY DEF SettleObserved, Settled, CoordOK
<1>3. inflight.req \in MaybeReq
  BY DEF SettleObserved, CoordOK, Flights, NoFlight, MaybeReq
<1>4. OpOK'
  BY <1>2, <1>3 DEF SettleObserved, OpOK, OpOf, Ops, Observations, MaybeReq, Stages
<1>5. CoordOK'
  BY DEF SettleObserved, CoordOK
<1> QED
  BY <1>1, <1>2, <1>3, <1>4, <1>5, Frame DEF SettleObserved

-----------------------------------------------------------------------------
(* The type invariant: the pending operation and the pending store         *)

LEMMA AcceptRecallType == ASSUME TypeOK, AcceptRecall PROVE TypeOK'
<1>1. op.req \in Requests
  BY DEF AcceptRecall, OpOK, Ops, DispatchKinds
<1>2. OpOK'
  BY DEF AcceptRecall, OpOK, Ops, DispatchKinds, Stages, Lv1OK
<1>3. Lv1OK'
  BY <1>1, AppendProperties DEF AcceptRecall, Lv1OK
<1> QED
  BY <1>1, <1>2, <1>3, Frame DEF AcceptRecall

LEMMA HandoffSendType == ASSUME TypeOK, HandoffSend PROVE TypeOK'
<1>1. op.req \in MaybeReq
  BY DEF HandoffSend, OpOK, Ops, DispatchKinds, MaybeReq
<1>2. OpOK'
  BY DEF HandoffSend, OpOK, Ops, DispatchKinds, Stages
<1>3. FadeOK'
  BY <1>1, AppendProperties DEF HandoffSend, FadeOK
<1> QED
  BY <1>1, <1>2, <1>3, Frame DEF HandoffSend

LEMMA FinishOutdatedType == ASSUME TypeOK, FinishOutdated PROVE TypeOK'
<1>1. BusOK'
  BY EndTurnType DEF FinishOutdated
<1>2. OpOK' /\ CoordOK' /\ ReplyOK'
  BY RetainedType, AbandonType, ForgetType DEF FinishOutdated
<1> QED
  BY <1>1, <1>2, Frame DEF FinishOutdated, FinishFrame

LEMMA AdmissionAcceptedType == ASSUME TypeOK, AdmissionAccepted PROVE TypeOK'
<1>1. BusOK'
  BY EndTurnType DEF AdmissionAccepted
<1>2. op.req \in Requests /\ active \in Gens /\ session \in Nat
  BY DEF AdmissionAccepted, Finishing, OpOK, Ops, DispatchKinds, LibraryOK, HistoryOK
<1>3. Append(waiting, op.req) \in Seq(Requests)
  BY <1>2, AppendProperties DEF AdmissionAccepted, CoordOK
<1>4. reply \in [Requests -> {"idle", "waiting", "ok", "err"}]
  BY DEF AdmissionAccepted, ReplyOK
<1>5. OpOK' /\ CoordOK' /\ ReplyOK'
  BY <1>3, <1>4, StartIfIdleType DEF AdmissionAccepted, CoordOK, ReplyOK
<1>6. HistoryOK'
  BY <1>2 DEF AdmissionAccepted, HistoryOK
<1> QED
  BY <1>1, <1>2, <1>3, <1>4, <1>5, <1>6, Frame DEF AdmissionAccepted, FinishFrame

LEMMA AdmissionRefusedType == ASSUME TypeOK, AdmissionRefused PROVE TypeOK'
<1>1. BusOK'
  BY EndTurnType DEF AdmissionRefused
<1>2. waiting \in Seq(Requests)
  BY DEF AdmissionRefused, CoordOK
<1>3. OpOK' /\ CoordOK' /\ ReplyOK'
  BY <1>2, FailingType, StartIfIdleType DEF AdmissionRefused, CoordOK, ReplyOK
<1>4. HistoryOK'
  BY DEF AdmissionRefused, FinishFrame, HistoryOK
<1> QED
  BY <1>1, <1>2, <1>3, <1>4, Frame DEF AdmissionRefused, FinishFrame

LEMMA DispatchPreparedType == ASSUME TypeOK, DispatchPrepared PROVE TypeOK'
<1>1. BusOK'
  BY EndTurnType DEF DispatchPrepared
<1>2. OpOK'
  BY DEF DispatchPrepared, Finishing, OpOK, Ops, DispatchKinds
<1> QED
  BY <1>1, <1>2, Frame DEF DispatchPrepared, FinishFrame

LEMMA DispatchInvalidType == ASSUME TypeOK, DispatchInvalid PROVE TypeOK'
<1>1. BusOK'
  BY EndTurnType DEF DispatchInvalid
<1>2. waiting \in Seq(Requests)
  BY DEF DispatchInvalid, CoordOK
<1>3. OpOK' /\ CoordOK' /\ ReplyOK'
  BY <1>2, FailingType, StartNextType DEF DispatchInvalid, CoordOK, ReplyOK
<1> QED
  BY <1>1, <1>2, <1>3, Frame DEF DispatchInvalid, FinishFrame

LEMMA DispatchLostType == ASSUME TypeOK, DispatchLost PROVE TypeOK'
<1>1. BusOK'
  BY EndTurnType DEF DispatchLost
<1>2. CoordOK
  BY DEF DispatchLost
<1>3. OpOK' /\ CoordOK' /\ ReplyOK'
  BY <1>2, AbandonType DEF DispatchLost, CoordOK
<1> QED
  BY <1>1, <1>2, <1>3, Frame DEF DispatchLost, FinishFrame

LEMMA DispatchFinishedType == ASSUME TypeOK, DispatchFinished PROVE TypeOK'
<1>1. BusOK'
  BY EndTurnType DEF DispatchFinished
<1>2. OpOK'
  BY NoOpType DEF DispatchFinished, OpOK
<1>3. CoordOK'
  BY DEF DispatchFinished, Finishing, OpOK, Ops, CoordOK, DispatchKinds, Flights
<1>4. ReplyOK'
  BY DEF DispatchFinished, ReplyOK, Answering
<1> QED
  BY <1>1, <1>2, <1>3, <1>4, Frame DEF DispatchFinished, FinishFrame

LEMMA ObservationPreparedType == ASSUME TypeOK, ObservationPrepared PROVE TypeOK'
<1>1. BusOK'
  BY EndTurnType DEF ObservationPrepared
<1>2. OpOK'
  BY DEF ObservationPrepared, Finishing, OpOK, Ops, DispatchKinds
<1>3. ReplyOK'
  BY DEF ObservationPrepared, ReplyOK
<1> QED
  BY <1>1, <1>2, <1>3, Frame DEF ObservationPrepared, FinishFrame

LEMMA ObservationDroppedType == ASSUME TypeOK, ObservationDropped PROVE TypeOK'
<1>1. BusOK'
  BY EndTurnType DEF ObservationDropped
<1>2. OpOK'
  BY NoOpType DEF ObservationDropped, OpOK
<1> QED
  BY <1>1, <1>2, Frame DEF ObservationDropped, FinishFrame

LEMMA ObservationLostType == ASSUME TypeOK, ObservationLost PROVE TypeOK'
<1>1. BusOK'
  BY EndTurnType DEF ObservationLost
<1>2. OpOK' /\ CoordOK' /\ ReplyOK'
  BY RetainedType, AbandonType DEF ObservationLost
<1> QED
  BY <1>1, <1>2, Frame DEF ObservationLost, FinishFrame

LEMMA HandoffDroppedType == ASSUME TypeOK, HandoffDropped PROVE TypeOK'
<1>1. BusOK'
  BY EndTurnType DEF HandoffDropped
<1>2. OpOK'
  BY NoOpType DEF HandoffDropped, OpOK
<1>3. ReplyOK'
  BY DEF HandoffDropped, ReplyOK
<1> QED
  BY <1>1, <1>2, <1>3, Frame DEF HandoffDropped, FinishFrame

LEMMA HandoffAcceptedType == ASSUME TypeOK, HandoffAccepted PROVE TypeOK'
<1>1. BusOK'
  BY EndTurnType DEF HandoffAccepted
<1>2. OpOK'
  BY NoOpType DEF HandoffAccepted, OpOK
<1>3. op.req # NoReq => inflight \in Flights \ {NoFlight}
  BY DEF HandoffAccepted, StillExpected, CoordOK, NoFlight
<1>4. inflight' \in Flights
  BY <1>3 DEF HandoffAccepted, CoordOK, Flights
<1>5. CoordOK'
  BY <1>4 DEF HandoffAccepted, CoordOK
<1> QED
  BY <1>1, <1>2, <1>3, <1>4, <1>5, Frame DEF HandoffAccepted, FinishFrame

LEMMA HandoffFailedType == ASSUME TypeOK, HandoffFailed PROVE TypeOK'
<1>1. BusOK'
  BY EndTurnType DEF HandoffFailed
<1>2. OpOK' /\ CoordOK' /\ ReplyOK'
  BY RetainedType, AbandonType, NoOpType, Frame DEF HandoffFailed, OpOK
<1> QED
  BY <1>1, <1>2, Frame DEF HandoffFailed, FinishFrame

LEMMA FinishStoreType == ASSUME TypeOK, FinishStore PROVE TypeOK'
<1>1. BusOK'
  BY EndTurnType DEF FinishStore
<1>2. TurnOK'
  BY DEF FinishStore, TurnOK, Stores
<1>3. ReplyOK'
  BY FailingType DEF FinishStore, Answering, ReplyOK
<1> QED
  BY <1>1, <1>2, <1>3, Frame DEF FinishStore

-----------------------------------------------------------------------------
(* Type correctness                                                        *)

LEMMA InitType == Init => TypeOK
<1> SUFFICES ASSUME Init PROVE TypeOK
  OBVIOUS
<1>1. LifecycleOK /\ FadeOK /\ active \in Gens /\ lagRecovery \in Gens
  BY BoundsAssumption DEF Init, LifecycleOK, FadeOK, Gens
<1>2. /\ cached \in BOOLEAN /\ lv1Up \in BOOLEAN /\ lagged \in BOOLEAN
      /\ quiet \in BOOLEAN /\ LockOK
  BY Zenon DEF Init, LockOK
<1>3. obsSeq \in Nat /\ toConsole \in Seq(Requests) /\ events \in Seq(Facts \cup Observations)
  BY DEF Init
<1>4. LibraryOK /\ Lv1OK /\ BusOK
  BY <1>1, <1>2, <1>3 DEF Init, LibraryOK, Lv1OK, BusOK
<1>5. MailOK /\ OpOK /\ TurnOK
  BY NoOpType DEF Init, MailOK, OpOK, TurnOK, Stores
<1>6. CoordOK
  BY CapacityAssumption DEF Init, CoordOK, Flights
<1>7. ReplyOK /\ HistoryOK /\ BudgetOK
  BY BoundsAssumption DEF Init, ReplyOK, HistoryOK, BudgetOK, NoChannels, Gens
<1> QED
  BY <1>1, <1>4, <1>5, <1>6, <1>7, <1>2

LEMMA TypeStep == ASSUME TypeOK, [Next]_vars PROVE TypeOK'
<1>1. ASSUME NEW r \in Requests, SendCommand(r) PROVE TypeOK'
  BY <1>1, SendCommandType
<1>2. ASSUME NEW r \in Requests, PressGo(r) PROVE TypeOK'
  BY <1>2, PressGoType
<1>3. CASE FlipLockout
  BY <1>3, FlipLockoutType
<1>4. CASE Connect
  BY <1>4, ConnectType
<1>5. CASE OfferPeers
  BY <1>5, OfferPeersType
<1>6. ASSUME NEW b \in BOOLEAN, ClearRuntime(b) PROVE TypeOK'
  BY <1>6, ClearRuntimeType
<1>7. CASE Lv1Connected
  BY <1>7, Lv1ConnectedType
<1>8. CASE Lv1Lost
  BY <1>8, Lv1LostType
<1>9. CASE ConsoleEcho
  BY <1>9, ConsoleEchoType
<1>10. CASE ConsoleSilent
  BY <1>10, ConsoleSilentType
<1>11. CASE Overrun
  BY <1>11, OverrunType
<1>12. ASSUME NEW sc \in Scenes, ManualRecall(sc) PROVE TypeOK'
  BY <1>12, ManualRecallType
<1>13. CASE FadeAdmit
  BY <1>13, FadeAdmitType
<1>14. CASE FadeRefuse
  BY <1>14, FadeRefuseType
<1>15. ASSUME NEW result \in {"ok", "err"}, FadeBarrierEnds(result) PROVE TypeOK'
  BY <1>15, FadeBarrierEndsType
<1>16. CASE ReceiveStale
  BY <1>16, ReceiveStaleType
<1>17. CASE ReceiveSceneList
  BY <1>17, ReceiveSceneListType
<1>18. CASE ReceiveScene
  BY <1>18, ReceiveSceneType
<1>19. CASE ReceiveDisconnected
  BY <1>19, ReceiveDisconnectedType
<1>20. CASE ReceiveGeneration
  BY <1>20, ReceiveGenerationType
<1>21. CASE ReceiveLagged
  BY <1>21, ReceiveLaggedType
<1>22. CASE FinishLagRecovery
  BY <1>22, FinishLagRecoveryType
<1>23. CASE HoldCommand
  BY <1>23, HoldCommandType
<1>24. CASE RecallCommand
  BY <1>24, RecallCommandType
<1>25. CASE StoreCommand
  BY <1>25, StoreCommandType
<1>26. CASE PeersReadyCommand
  BY <1>26, PeersReadyCommandType
<1>27. CASE ReplaceCommand
  BY <1>27, ReplaceCommandType
<1>28. CASE CueCommand
  BY <1>28, CueCommandType
<1>29. CASE CueComplete
  BY <1>29, CueCompleteType
<1>30. CASE ReadinessLost
  BY <1>30, ReadinessLostType
<1>31. CASE ReadinessStartsInterval
  BY <1>31, ReadinessStartsIntervalType
<1>32. CASE ReadinessReleases
  BY <1>32, ReadinessReleasesType
<1>33. CASE IntervalElapsed
  BY <1>33, IntervalElapsedType
<1>34. CASE SafetyDeadline
  BY <1>34, SafetyDeadlineType
<1>35. CASE LockoutChanged
  BY <1>35, LockoutChangedType
<1>36. CASE LateExpires
  BY <1>36, LateExpiresType
<1>37. CASE SettleIgnored
  BY <1>37, SettleIgnoredType
<1>38. CASE SettleSuppressed
  BY <1>38, SettleSuppressedType
<1>39. CASE SettleObserved
  BY <1>39, SettleObservedType
<1>40. CASE AcceptRecall
  BY <1>40, AcceptRecallType
<1>41. CASE HandoffSend
  BY <1>41, HandoffSendType
<1>42. CASE FinishOutdated
  BY <1>42, FinishOutdatedType
<1>43. CASE AdmissionAccepted
  BY <1>43, AdmissionAcceptedType
<1>44. CASE AdmissionRefused
  BY <1>44, AdmissionRefusedType
<1>45. CASE DispatchPrepared
  BY <1>45, DispatchPreparedType
<1>46. CASE DispatchInvalid
  BY <1>46, DispatchInvalidType
<1>47. CASE DispatchLost
  BY <1>47, DispatchLostType
<1>48. CASE DispatchFinished
  BY <1>48, DispatchFinishedType
<1>49. CASE ObservationPrepared
  BY <1>49, ObservationPreparedType
<1>50. CASE ObservationDropped
  BY <1>50, ObservationDroppedType
<1>51. CASE ObservationLost
  BY <1>51, ObservationLostType
<1>52. CASE HandoffDropped
  BY <1>52, HandoffDroppedType
<1>53. CASE HandoffAccepted
  BY <1>53, HandoffAcceptedType
<1>54. CASE HandoffFailed
  BY <1>54, HandoffFailedType
<1>55. CASE FinishStore
  BY <1>55, FinishStoreType
<1>56. CASE UNCHANGED vars
  BY <1>56, Frame DEF vars
<1> QED
  BY <1>1, <1>2, <1>3, <1>4, <1>5, <1>6, <1>7, <1>8, <1>9, <1>10, <1>11, <1>12,
     <1>13, <1>14, <1>15, <1>16, <1>17, <1>18, <1>19, <1>20, <1>21, <1>22, <1>23, <1>24,
     <1>25, <1>26, <1>27, <1>28, <1>29, <1>30, <1>31, <1>32, <1>33, <1>34, <1>35, <1>36,
     <1>37, <1>38, <1>39, <1>40, <1>41, <1>42, <1>43, <1>44, <1>45, <1>46, <1>47, <1>48,
     <1>49, <1>50, <1>51, <1>52, <1>53, <1>54, <1>55, <1>56
  DEF Next, Callers, Lifecycle, Lv1, Fade, ScenesActor, EventBranch, CommandBranch,
         ReadinessBranch, TimerBranch, SettleBranch, OpBranch

\* Every variable keeps its shape, every operation names its request and at most
\* LATE_CANCELED_OBSERVATION_CAPACITY canceled recalls are remembered.
THEOREM TypeCorrect == Spec => []TypeOK
<1>1. Init => TypeOK
  BY InitType
<1>2. TypeOK /\ [Next]_vars => TypeOK'
  BY TypeStep
<1> QED
  BY <1>1, <1>2, PTL DEF Spec

-----------------------------------------------------------------------------
(* The inductive invariant of admitted intent.  OneInFlight is what makes   *)
(* CapacityBound inductive: a dispatch that finishes turns the request being *)
(* dispatched into the one in flight, and there must not be one already.     *)

IntentInv == OneInFlight /\ CapacityBound /\ LockoutDrainsIntent /\ IntentProvenance

\* The bound, without the request being dispatched.
LEMMA OccupancyParts ==
  ASSUME TypeOK, IntentInv
  PROVE  /\ Len(waiting) \in Nat /\ Len(waiting) <= Capacity
         /\ inflight # NoFlight => Len(waiting) + 1 <= Capacity
<1> DEFINE flying == IF inflight = NoFlight THEN 0 ELSE 1
           sending == IF Dispatching THEN 1 ELSE 0
<1>1. Len(waiting) \in Nat
  BY LenProperties DEF CoordOK
<1>2. flying \in {0, 1} /\ sending \in {0, 1} /\ (inflight # NoFlight => flying = 1)
  OBVIOUS
<1>3. Len(waiting) + flying + sending <= Capacity
  BY DEF IntentInv, CapacityBound, Occupancy
<1> HIDE DEF flying, sending
<1> QED
  BY <1>1, <1>2, <1>3, CapacityAssumption

\* A step that admits, dispatches and cancels nothing keeps the invariant.
LEMMA KeepIntent ==
  ASSUME TypeOK, IntentInv,
         UNCHANGED <<waiting, inflight, lockout, lockoutUnseen, active, historyVars, cueBox>>,
         Dispatching' => Dispatching /\ op'.req = op.req /\ op'.gen = op.gen,
         op'.kind = "admission" => op.kind = "admission" /\ op'.req = op.req
  PROVE  IntentInv'
<1>1. OneInFlight' /\ LockoutDrainsIntent'
  BY DEF IntentInv, OneInFlight, LockoutDrainsIntent
<1>2. CapacityBound'
  <2>1. Len(waiting) \in Nat /\ Occupancy <= Capacity
    BY LenProperties DEF IntentInv, CapacityBound, CoordOK
  <2>2. Len(waiting') = Len(waiting) /\ (inflight' = NoFlight <=> inflight = NoFlight)
    OBVIOUS
  <2>3. CASE Dispatching'
    BY <2>1, <2>2, <2>3 DEF CapacityBound, Occupancy
  <2>4. CASE ~Dispatching'
    BY <2>2, <2>4, OccupancyParts, CapacityAssumption DEF CapacityBound, Occupancy
  <2> QED
    BY <2>3, <2>4
<1>3. IntentProvenance'
  BY DEF IntentInv, IntentProvenance
<1> QED
  BY <1>1, <1>2, <1>3 DEF IntentInv

\* So does a step that gives up every admitted request.
LEMMA DropIntent ==
  ASSUME TypeOK, IntentInv, waiting' = <<>>, inflight' = NoFlight, op' = NoOp,
         UNCHANGED <<cueBox, historyVars>> \/ cueBox' = <<>>
  PROVE  IntentInv'
<1>1. ~Dispatching' /\ op'.kind # "admission"
  BY DEF Dispatching, DispatchKinds, NoOp, OpOf
<1>2. CapacityBound'
  BY <1>1, CapacityAssumption DEF CapacityBound, Occupancy
<1>3. IntentProvenance'
  BY <1>1 DEF IntentInv, IntentProvenance
<1> QED
  BY <1>1, <1>2, <1>3 DEF IntentInv, OneInFlight, LockoutDrainsIntent

LEMMA AbandonDrops ==
  ASSUME TypeOK, IntentInv, NEW ids, NEW others, AbandonRecall(ids, others),
         UNCHANGED <<cueBox, historyVars>>
  PROVE  IntentInv'
BY DropIntent DEF AbandonRecall

\* The actions to which KeepIntent applies.
LEMMA SendCommandIntent ==
  ASSUME TypeOK, IntentInv, NEW r \in Requests, SendCommand(r) PROVE IntentInv'
BY KeepIntent DEF SendCommand, Dispatching, DispatchKinds

LEMMA ConnectIntent ==
  ASSUME TypeOK, IntentInv, Connect PROVE IntentInv'
BY KeepIntent DEF Connect, Dispatching, DispatchKinds, DropRuntime, OpOK, Ops

LEMMA OfferPeersIntent ==
  ASSUME TypeOK, IntentInv, OfferPeers PROVE IntentInv'
BY KeepIntent DEF OfferPeers, Dispatching, DispatchKinds

LEMMA ClearRuntimeIntent ==
  ASSUME TypeOK, IntentInv, NEW b \in BOOLEAN, ClearRuntime(b) PROVE IntentInv'
BY KeepIntent DEF ClearRuntime, Dispatching, DispatchKinds, DropRuntime, OpOK, Ops

LEMMA Lv1ConnectedIntent ==
  ASSUME TypeOK, IntentInv, Lv1Connected PROVE IntentInv'
BY KeepIntent DEF Lv1Connected, Dispatching, DispatchKinds

LEMMA Lv1LostIntent ==
  ASSUME TypeOK, IntentInv, Lv1Lost PROVE IntentInv'
BY KeepIntent DEF Lv1Lost, Dispatching, DispatchKinds

LEMMA ConsoleEchoIntent ==
  ASSUME TypeOK, IntentInv, ConsoleEcho PROVE IntentInv'
BY KeepIntent DEF ConsoleEcho, Dispatching, DispatchKinds, Announce

LEMMA ConsoleSilentIntent ==
  ASSUME TypeOK, IntentInv, ConsoleSilent PROVE IntentInv'
BY KeepIntent DEF ConsoleSilent, Dispatching, DispatchKinds

LEMMA OverrunIntent ==
  ASSUME TypeOK, IntentInv, Overrun PROVE IntentInv'
BY KeepIntent DEF Overrun, Dispatching, DispatchKinds

LEMMA ManualRecallIntent ==
  ASSUME TypeOK, IntentInv, NEW sc \in Scenes, ManualRecall(sc) PROVE IntentInv'
BY KeepIntent DEF ManualRecall, Dispatching, DispatchKinds, Announce

LEMMA FadeAdmitIntent ==
  ASSUME TypeOK, IntentInv, FadeAdmit PROVE IntentInv'
BY KeepIntent DEF FadeAdmit, Dispatching, DispatchKinds, HandoffAnswered, OpOK, Ops

LEMMA FadeRefuseIntent ==
  ASSUME TypeOK, IntentInv, FadeRefuse PROVE IntentInv'
BY KeepIntent DEF FadeRefuse, Dispatching, DispatchKinds, HandoffAnswered, OpOK, Ops

LEMMA FadeBarrierEndsIntent ==
  ASSUME TypeOK, IntentInv, NEW result \in {"ok", "err"}, FadeBarrierEnds(result) PROVE IntentInv'
BY KeepIntent DEF FadeBarrierEnds, Dispatching, DispatchKinds

LEMMA ReceiveStaleIntent ==
  ASSUME TypeOK, IntentInv, ReceiveStale PROVE IntentInv'
BY KeepIntent DEF ReceiveStale, Dispatching, DispatchKinds

LEMMA ReceiveSceneListIntent ==
  ASSUME TypeOK, IntentInv, ReceiveSceneList PROVE IntentInv'
BY KeepIntent DEF ReceiveSceneList, Dispatching, DispatchKinds

LEMMA ReceiveSceneIntent ==
  ASSUME TypeOK, IntentInv, ReceiveScene PROVE IntentInv'
BY KeepIntent DEF ReceiveScene, Dispatching, DispatchKinds

LEMMA FinishLagRecoveryIntent ==
  ASSUME TypeOK, IntentInv, FinishLagRecovery PROVE IntentInv'
BY KeepIntent DEF FinishLagRecovery, Dispatching, DispatchKinds

LEMMA HoldCommandIntent ==
  ASSUME TypeOK, IntentInv, HoldCommand PROVE IntentInv'
BY KeepIntent DEF HoldCommand, Dispatching, DispatchKinds

LEMMA StoreCommandIntent ==
  ASSUME TypeOK, IntentInv, StoreCommand PROVE IntentInv'
BY KeepIntent DEF StoreCommand, Dispatching, DispatchKinds

LEMMA CueCompleteIntent ==
  ASSUME TypeOK, IntentInv, CueComplete PROVE IntentInv'
BY KeepIntent DEF CueComplete, Dispatching, DispatchKinds

LEMMA LateExpiresIntent ==
  ASSUME TypeOK, IntentInv, LateExpires PROVE IntentInv'
BY KeepIntent DEF LateExpires, Dispatching, DispatchKinds

LEMMA SettleIgnoredIntent ==
  ASSUME TypeOK, IntentInv, SettleIgnored PROVE IntentInv'
BY KeepIntent DEF SettleIgnored, Dispatching, DispatchKinds

LEMMA SettleSuppressedIntent ==
  ASSUME TypeOK, IntentInv, SettleSuppressed PROVE IntentInv'
BY KeepIntent DEF SettleSuppressed, Dispatching, DispatchKinds

LEMMA SettleObservedIntent ==
  ASSUME TypeOK, IntentInv, SettleObserved PROVE IntentInv'
BY KeepIntent DEF SettleObserved, Dispatching, DispatchKinds, OpOf

LEMMA AcceptRecallIntent ==
  ASSUME TypeOK, IntentInv, AcceptRecall PROVE IntentInv'
BY KeepIntent DEF AcceptRecall, Dispatching, DispatchKinds, OpOK, Ops

LEMMA HandoffSendIntent ==
  ASSUME TypeOK, IntentInv, HandoffSend PROVE IntentInv'
BY KeepIntent DEF HandoffSend, Dispatching, DispatchKinds, OpOK, Ops

LEMMA DispatchPreparedIntent ==
  ASSUME TypeOK, IntentInv, DispatchPrepared PROVE IntentInv'
BY KeepIntent DEF DispatchPrepared, Dispatching, DispatchKinds, OpOK, Ops, Finishing, FinishFrame

LEMMA ObservationPreparedIntent ==
  ASSUME TypeOK, IntentInv, ObservationPrepared PROVE IntentInv'
BY KeepIntent DEF ObservationPrepared, Dispatching, DispatchKinds, OpOK, Ops, Finishing, FinishFrame

LEMMA ObservationDroppedIntent ==
  ASSUME TypeOK, IntentInv, ObservationDropped PROVE IntentInv'
BY KeepIntent DEF ObservationDropped, Dispatching, DispatchKinds, NoOp, OpOf, FinishFrame

LEMMA HandoffDroppedIntent ==
  ASSUME TypeOK, IntentInv, HandoffDropped PROVE IntentInv'
BY KeepIntent DEF HandoffDropped, Dispatching, DispatchKinds, NoOp, OpOf, FinishFrame

LEMMA FinishStoreIntent ==
  ASSUME TypeOK, IntentInv, FinishStore PROVE IntentInv'
BY KeepIntent DEF FinishStore, Dispatching, DispatchKinds

\* The actions that always cancel.
LEMMA ReceiveDisconnectedIntent == ASSUME TypeOK, IntentInv, ReceiveDisconnected PROVE IntentInv'
BY AbandonDrops DEF ReceiveDisconnected

LEMMA ReceiveLaggedIntent == ASSUME TypeOK, IntentInv, ReceiveLagged PROVE IntentInv'
BY AbandonDrops DEF ReceiveLagged

LEMMA ReadinessLostIntent == ASSUME TypeOK, IntentInv, ReadinessLost PROVE IntentInv'
BY AbandonDrops DEF ReadinessLost

LEMMA SafetyDeadlineIntent == ASSUME TypeOK, IntentInv, SafetyDeadline PROVE IntentInv'
BY AbandonDrops DEF SafetyDeadline

LEMMA FinishOutdatedIntent == ASSUME TypeOK, IntentInv, FinishOutdated PROVE IntentInv'
BY AbandonDrops DEF FinishOutdated, FinishFrame

LEMMA DispatchLostIntent == ASSUME TypeOK, IntentInv, DispatchLost PROVE IntentInv'
BY AbandonDrops DEF DispatchLost, FinishFrame

LEMMA ObservationLostIntent == ASSUME TypeOK, IntentInv, ObservationLost PROVE IntentInv'
BY AbandonDrops DEF ObservationLost, FinishFrame

\* The remaining actions, one by one.
LEMMA PressGoIntent ==
  ASSUME TypeOK, IntentInv, NEW r \in Requests, PressGo(r) PROVE IntentInv'
<1>1. UNCHANGED <<waiting, inflight, op, lockout, lockoutUnseen, active, bornGen, session>>
  BY DEF PressGo
<1>2. OneInFlight' /\ CapacityBound' /\ LockoutDrainsIntent'
  BY <1>1 DEF IntentInv, OneInFlight, CapacityBound, Occupancy, LockoutDrainsIntent, Dispatching
<1>3. \A q \in Requests : bornSession[q] = session => bornSession'[q] = session
  BY DEF PressGo, HistoryOK
<1>4. \A i \in DOMAIN cueBox' : bornSession'[cueBox'[i]] = session'
  <2>1. r \in CueRequests /\ cueBox' = Append(cueBox, r) /\ bornSession'[r] = session
    BY DEF PressGo, HistoryOK
  <2>2. \A i \in DOMAIN cueBox : bornSession'[cueBox[i]] = session
    BY <1>3, RequestsAssumption DEF IntentInv, IntentProvenance, MailOK
  <2> QED
    BY <1>1, <2>1, <2>2, AppendProperties DEF MailOK
<1>5. IntentProvenance'
  BY <1>1, <1>3, <1>4
  DEF IntentInv, IntentProvenance, Dispatching, DispatchKinds, CoordOK, OpOK, Ops
<1> QED
  BY <1>2, <1>5 DEF IntentInv

LEMMA FlipLockoutIntent == ASSUME TypeOK, IntentInv, FlipLockout PROVE IntentInv'
<1>1. UNCHANGED <<waiting, inflight, op, active, historyVars, cueBox>> /\ lockoutUnseen'
  BY DEF FlipLockout
<1> QED
  BY <1>1 DEF IntentInv, OneInFlight, CapacityBound, Occupancy, LockoutDrainsIntent,
              IntentProvenance, Dispatching

LEMMA ReceiveGenerationIntent == ASSUME TypeOK, IntentInv, ReceiveGeneration PROVE IntentInv'
<1>1. CASE Current
  BY <1>1, KeepIntent DEF ReceiveGeneration, Dispatching
<1>2. CASE ~Current
  BY <1>2, AbandonDrops DEF ReceiveGeneration, Transition
<1> QED
  BY <1>1, <1>2

\* Beginning an admission admits nothing yet.
LEMMA BeginIntent ==
  ASSUME TypeOK, IntentInv, NEW r \in Requests, BeginAdmission(r),
         UNCHANGED <<waiting, inflight, lockVars, active, historyVars>>,
         r \in CueRequests => bornSession[r] = session,
         \A i \in DOMAIN cueBox' : bornSession[cueBox'[i]] = session
  PROVE  IntentInv'
<1>1. ~Dispatching' /\ op'.req = r
  BY DEF BeginAdmission, OpOf, Dispatching, DispatchKinds
<1>2. CapacityBound'
  BY <1>1, OccupancyParts, CapacityAssumption DEF CapacityBound, Occupancy
<1>3. OneInFlight' /\ LockoutDrainsIntent'
  BY <1>1 DEF IntentInv, OneInFlight, LockoutDrainsIntent
<1>4. IntentProvenance'
  BY <1>1 DEF IntentInv, IntentProvenance
<1> QED
  BY <1>2, <1>3, <1>4 DEF IntentInv

LEMMA RecallCommandIntent == ASSUME TypeOK, IntentInv, RecallCommand PROVE IntentInv'
<1>1. CASE CanAdmit
  <2>1. Command.req \in Requests \ CueRequests
    <3>1. Command \in Msgs
      BY CommandType DEF RecallCommand
    <3> QED
      BY <3>1 DEF RecallCommand, Msgs
  <2> QED
    BY <1>1, <2>1, BeginIntent DEF RecallCommand, IntentInv, IntentProvenance
<1>2. CASE ~CanAdmit
  BY <1>2, KeepIntent DEF RecallCommand, Dispatching
<1> QED
  BY <1>1, <1>2

LEMMA CueCommandIntent == ASSUME TypeOK, IntentInv, CueCommand PROVE IntentInv'
<1>1. /\ Head(cueBox) \in CueRequests /\ bornSession[Head(cueBox)] = session
      /\ \A i \in DOMAIN Tail(cueBox) : bornSession[Tail(cueBox)[i]] = session
  BY HeadTailProperties DEF CueCommand, MailOK, IntentInv, IntentProvenance
<1>2. /\ UNCHANGED <<waiting, inflight, lockVars, active, historyVars>>
      /\ cueBox' = Tail(cueBox)
  BY DEF CueCommand
<1>3. CASE BeginAdmission(Head(cueBox))
  BY <1>1, <1>2, <1>3, BeginIntent, RequestsAssumption
<1>4. CASE UNCHANGED op
  BY <1>1, <1>2, <1>4
  DEF IntentInv, OneInFlight, CapacityBound, Occupancy, LockoutDrainsIntent,
      IntentProvenance, Dispatching
<1> QED
  BY <1>3, <1>4 DEF CueCommand

LEMMA PeersReadyCommandIntent ==
  ASSUME TypeOK, IntentInv, PeersReadyCommand PROVE IntentInv'
<1>1. CASE gen # active
  BY <1>1, AbandonDrops DEF PeersReadyCommand, Transition
<1>2. CASE gen = active
  BY <1>2, KeepIntent DEF PeersReadyCommand, Dispatching
<1> QED
  BY <1>1, <1>2

LEMMA ReplaceCommandIntent == ASSUME TypeOK, IntentInv, ReplaceCommand PROVE IntentInv'
<1>1. CASE cueBox' = <<>> /\ waiting' = <<>> /\ inflight' = NoFlight /\ op' = NoOp
  BY <1>1, DropIntent
<1>2. CASE UNCHANGED <<session, cue, cueBox, op, coordVars>>
  BY <1>2, KeepIntent DEF ReplaceCommand, Dispatching
<1>3. CASE UNCHANGED <<session, cue, cueBox>>
           /\ AbandonRecall(Retained, {Command.req} \cup StoreToken)
  BY <1>3, AbandonDrops DEF ReplaceCommand
<1> QED
  BY <1>1, <1>2, <1>3 DEF ReplaceCommand

LEMMA ReadinessStartsIntervalIntent ==
  ASSUME TypeOK, IntentInv, ReadinessStartsInterval PROVE IntentInv'
<1>1. UNCHANGED <<waiting, op, lockVars, active, historyVars, cueBox>>
  BY DEF ReadinessStartsInterval
<1>2. inflight # NoFlight /\ inflight' # NoFlight
  BY DEF ReadinessStartsInterval, ReadinessArrived, NoFlight, CoordOK, Flights
<1> QED
  BY <1>1, <1>2 DEF IntentInv, OneInFlight, CapacityBound, Occupancy, LockoutDrainsIntent,
              IntentProvenance, Dispatching

LEMMA HandoffAcceptedIntent == ASSUME TypeOK, IntentInv, HandoffAccepted PROVE IntentInv'
<1>1. UNCHANGED <<waiting, lockVars, active, historyVars, cueBox>>
  BY DEF HandoffAccepted, FinishFrame
<1>2. ~Dispatching' /\ op'.kind # "admission" /\ ~Dispatching
  BY DEF HandoffAccepted, Finishing, NoOp, OpOf, Dispatching, DispatchKinds
<1>3. inflight' = NoFlight <=> inflight = NoFlight
  BY DEF HandoffAccepted, StillExpected, NoFlight, CoordOK, Flights
<1> QED
  BY <1>1, <1>2, <1>3 DEF IntentInv, OneInFlight, CapacityBound, Occupancy,
              LockoutDrainsIntent, IntentProvenance

LEMMA HandoffFailedIntent == ASSUME TypeOK, IntentInv, HandoffFailed PROVE IntentInv'
<1>1. CASE op.req = NoReq
  BY <1>1, KeepIntent DEF HandoffFailed, FinishFrame, NoOp, OpOf, Dispatching, DispatchKinds
<1>2. CASE op.req # NoReq
  BY <1>2, AbandonDrops DEF HandoffFailed, FinishFrame
<1> QED
  BY <1>1, <1>2

LEMMA LockoutChangedIntent == ASSUME TypeOK, IntentInv, LockoutChanged PROVE IntentInv'
<1>1. CASE lockout
  BY <1>1, AbandonDrops DEF LockoutChanged
<1>2. CASE ~lockout
  BY <1>2 DEF LockoutChanged, IntentInv, OneInFlight, CapacityBound, Occupancy,
              LockoutDrainsIntent, IntentProvenance, Dispatching
<1> QED
  BY <1>1, <1>2

LEMMA DispatchFinishedIntent == ASSUME TypeOK, IntentInv, DispatchFinished PROVE IntentInv'
<1>1. UNCHANGED <<waiting, lockVars, active, historyVars, cueBox>>
  BY DEF DispatchFinished, FinishFrame
<1>2. Dispatching /\ inflight = NoFlight
  BY DEF DispatchFinished, Finishing, Dispatching, DispatchKinds, IntentInv, OneInFlight
<1>3. ~Dispatching' /\ op'.kind # "admission"
  BY DEF DispatchFinished, NoOp, OpOf, Dispatching, DispatchKinds
<1>4. inflight' # NoFlight
  BY RequestsAssumption DEF DispatchFinished, NoFlight
<1>5. ~(lockout /\ ~lockoutUnseen)
  BY <1>2 DEF IntentInv, LockoutDrainsIntent
<1>6. CapacityBound'
  BY <1>1, <1>2, <1>3, <1>4 DEF IntentInv, CapacityBound, Occupancy, CoordOK
<1> QED
  BY <1>1, <1>3, <1>5, <1>6 DEF IntentInv, OneInFlight, LockoutDrainsIntent, IntentProvenance

\* Starting the next recall of a FIFO that obeys the invariant.
LEMMA StartNextIntent ==
  ASSUME TypeOK, NEW queue \in Seq(Requests), NEW answers, StartNext(queue, answers),
         inflight' = NoFlight, UNCHANGED <<active, session>>, Len(queue) <= Capacity,
         lockout' /\ ~lockoutUnseen' => queue = <<>>,
         \A i \in DOMAIN queue :
            bornGen'[queue[i]] = active /\ bornSession'[queue[i]] = session,
         \A i \in DOMAIN cueBox' : bornSession'[cueBox'[i]] = session
  PROVE  IntentInv'
<1>1. CASE queue # <<>> /\ HasPeers(active)
  <2>1. op' = OpOf("dispatchSnapshot", Head(queue), active) /\ waiting' = Tail(queue)
    BY <1>1 DEF StartNext
  <2>2. Dispatching' /\ op'.kind # "admission" /\ op'.req = Head(queue) /\ op'.gen = active
    BY <2>1 DEF OpOf, Dispatching, DispatchKinds
  <2>3. Len(waiting') = Len(queue) - 1 /\ Head(queue) = queue[1] /\ 1 \in DOMAIN queue
        /\ \A i \in DOMAIN waiting' : i + 1 \in DOMAIN queue /\ waiting'[i] = queue[i + 1]
    BY <1>1, <2>1, HeadTailProperties, LenProperties
  <2>4. CapacityBound'
    BY <2>2, <2>3, LenProperties DEF CapacityBound, Occupancy
  <2>5. IntentProvenance'
    BY <2>2, <2>3 DEF IntentProvenance
  <2> QED
    BY <1>1, <2>4, <2>5 DEF IntentInv, OneInFlight, LockoutDrainsIntent
<1>2. CASE ~(queue # <<>> /\ HasPeers(active))
  <2>1. op' = NoOp /\ waiting' = <<>>
    BY <1>2 DEF StartNext
  <2>2. ~Dispatching' /\ op'.kind # "admission"
    BY <2>1 DEF NoOp, OpOf, Dispatching, DispatchKinds
  <2>3. CapacityBound'
    BY <2>1, <2>2, CapacityAssumption DEF CapacityBound, Occupancy
  <2> QED
    BY <2>1, <2>2, <2>3 DEF IntentInv, OneInFlight, LockoutDrainsIntent, IntentProvenance
<1> QED
  BY <1>1, <1>2

LEMMA WaitingBound ==
  ASSUME TypeOK, IntentInv
  PROVE  /\ waiting \in Seq(Requests) /\ Len(waiting) \in Nat /\ Len(waiting) <= Capacity
         /\ lockout /\ ~lockoutUnseen => waiting = <<>>
         /\ \A i \in DOMAIN waiting :
               bornGen[waiting[i]] = active /\ bornSession[waiting[i]] = session
         /\ \A i \in DOMAIN cueBox : bornSession[cueBox[i]] = session
BY OccupancyParts DEF CoordOK, IntentInv, LockoutDrainsIntent, IntentProvenance

LEMMA ReleaseNextIntent ==
  ASSUME TypeOK, IntentInv, ReleaseNext, UNCHANGED <<bornGen>> PROVE IntentInv'
<1>1. UNCHANGED <<active, lockVars, cueBox, historyVars>> /\ inflight' = NoFlight
  BY DEF ReleaseNext
<1>2. CASE Idle
  <2>1. StartNext(waiting, reply)
    BY <1>2 DEF ReleaseNext
  <2> QED
    BY <1>1, <2>1, WaitingBound, StartNextIntent
<1>3. CASE ~Idle
  <2>1. UNCHANGED <<op, waiting>>
    BY <1>3 DEF ReleaseNext
  <2>2. CapacityBound'
    <3>1. Len(waiting') \in Nat /\ Len(waiting') <= Capacity
      BY <2>1, WaitingBound
    <3>2. CASE Dispatching
      <4>1. inflight = NoFlight
        BY <3>2 DEF IntentInv, OneInFlight
      <4> QED
        BY <1>1, <2>1, <3>2, <4>1 DEF IntentInv, CapacityBound, Occupancy, Dispatching
    <3>3. CASE ~Dispatching
      BY <1>1, <2>1, <3>1, <3>3, CapacityAssumption DEF CapacityBound, Occupancy, Dispatching
    <3> QED
      BY <3>2, <3>3
  <2> QED
    BY <1>1, <2>1, <2>2
    DEF IntentInv, OneInFlight, LockoutDrainsIntent, IntentProvenance, Dispatching
<1> QED
  BY <1>2, <1>3

LEMMA ReadinessReleasesIntent ==
  ASSUME TypeOK, IntentInv, ReadinessReleases PROVE IntentInv'
BY ReleaseNextIntent DEF ReadinessReleases, ReleaseNext

LEMMA IntervalElapsedIntent ==
  ASSUME TypeOK, IntentInv, IntervalElapsed PROVE IntentInv'
BY ReleaseNextIntent DEF IntervalElapsed, ReleaseNext

LEMMA DispatchInvalidIntent ==
  ASSUME TypeOK, IntentInv, DispatchInvalid PROVE IntentInv'
<1>1. StartNext(waiting, Failing({op.req}))
      /\ UNCHANGED <<inflight, active, lockVars, cueBox, historyVars>>
  BY DEF DispatchInvalid, FinishFrame
<1>2. inflight = NoFlight
  BY DEF DispatchInvalid, Finishing, IntentInv, OneInFlight, Dispatching, DispatchKinds
<1> QED
  BY <1>1, <1>2, WaitingBound, StartNextIntent

LEMMA AdmissionRefusedIntent ==
  ASSUME TypeOK, IntentInv, AdmissionRefused PROVE IntentInv'
<1>1. StartIfIdle(waiting, Failing({op.req}))
      /\ UNCHANGED <<inflight, active, lockVars, cueBox, historyVars>>
  BY DEF AdmissionRefused, FinishFrame
<1>2. CASE inflight = NoFlight
  BY <1>1, <1>2, WaitingBound, StartNextIntent DEF StartIfIdle
<1>3. CASE inflight # NoFlight
  BY <1>1, <1>3, KeepIntent DEF StartIfIdle, NoOp, OpOf, Dispatching, DispatchKinds
<1> QED
  BY <1>2, <1>3

LEMMA AdmissionAcceptedIntent ==
  ASSUME TypeOK, IntentInv, AdmissionAccepted PROVE IntentInv'
<1> DEFINE queue == Append(waiting, op.req)
<1>1. op.req \in Requests /\ active \in Gens /\ session \in Nat
  BY DEF AdmissionAccepted, Finishing, OpOK, Ops, DispatchKinds, LibraryOK, HistoryOK
<1>2. /\ StartIfIdle(queue, reply) /\ ~lockout
      /\ UNCHANGED <<inflight, active, lockVars, cueBox, session>>
      /\ Len(waiting) + (IF inflight = NoFlight THEN 0 ELSE 1) < Capacity
  BY DEF AdmissionAccepted
<1>3. \A q \in Requests : /\ bornGen[q] = active => bornGen'[q] = active
                          /\ bornSession[q] = session => bornSession'[q] = session
  BY <1>1 DEF AdmissionAccepted, HistoryOK
<1>4. bornGen'[op.req] = active /\ bornSession'[op.req] = session
  BY <1>1 DEF AdmissionAccepted, HistoryOK, IntentInv, IntentProvenance, Finishing
<1>5. queue \in Seq(Requests) /\ Len(queue) = Len(waiting) + 1
  BY <1>1, WaitingBound, AppendProperties
<1>6. \A i \in DOMAIN queue : bornGen'[queue[i]] = active /\ bornSession'[queue[i]] = session
  <2> SUFFICES ASSUME NEW i \in DOMAIN queue
               PROVE  bornGen'[queue[i]] = active /\ bornSession'[queue[i]] = session
    OBVIOUS
  <2>1. i \in 1 .. Len(waiting) + 1
    BY <1>5, LenProperties
  <2>2. CASE i = Len(waiting) + 1
    BY <1>1, <1>4, <2>2, WaitingBound, AppendProperties
  <2>3. CASE i \in 1 .. Len(waiting)
    <3>1. queue[i] = waiting[i] /\ i \in DOMAIN waiting /\ waiting[i] \in Requests
      BY <1>1, <2>3, WaitingBound, AppendProperties, LenProperties
    <3> QED
      BY <1>3, <3>1, WaitingBound
  <2> QED
    BY <2>1, <2>2, <2>3, WaitingBound
<1>7. \A i \in DOMAIN cueBox' : bornSession'[cueBox'[i]] = session
  BY <1>2, <1>3, WaitingBound, RequestsAssumption DEF MailOK
<1> HIDE DEF queue
<1>8. CASE inflight = NoFlight
  BY <1>2, <1>5, <1>6, <1>7, <1>8, WaitingBound, StartNextIntent, CapacityAssumption
  DEF StartIfIdle
<1>9. CASE inflight # NoFlight
  <2>1. op' = NoOp /\ waiting' = queue /\ ~Dispatching' /\ op'.kind # "admission"
    BY <1>2, <1>9 DEF StartIfIdle, NoOp, OpOf, Dispatching, DispatchKinds
  <2>2. CapacityBound'
    BY <1>2, <1>5, <1>9, <2>1, WaitingBound, CapacityAssumption DEF CapacityBound, Occupancy
  <2>3. IntentProvenance'
    BY <1>2, <1>6, <1>7, <2>1 DEF IntentProvenance
  <2> QED
    BY <1>2, <2>1, <2>2, <2>3 DEF IntentInv, OneInFlight, LockoutDrainsIntent
<1> QED
  BY <1>8, <1>9

LEMMA IntentStep == ASSUME TypeOK, IntentInv, [Next]_vars PROVE IntentInv'
<1>1. ASSUME NEW r \in Requests, SendCommand(r) PROVE IntentInv'
  BY <1>1, SendCommandIntent
<1>2. ASSUME NEW r \in Requests, PressGo(r) PROVE IntentInv'
  BY <1>2, PressGoIntent
<1>3. CASE FlipLockout
  BY <1>3, FlipLockoutIntent
<1>4. CASE Connect
  BY <1>4, ConnectIntent
<1>5. CASE OfferPeers
  BY <1>5, OfferPeersIntent
<1>6. ASSUME NEW b \in BOOLEAN, ClearRuntime(b) PROVE IntentInv'
  BY <1>6, ClearRuntimeIntent
<1>7. CASE Lv1Connected
  BY <1>7, Lv1ConnectedIntent
<1>8. CASE Lv1Lost
  BY <1>8, Lv1LostIntent
<1>9. CASE ConsoleEcho
  BY <1>9, ConsoleEchoIntent
<1>10. CASE ConsoleSilent
  BY <1>10, ConsoleSilentIntent
<1>11. CASE Overrun
  BY <1>11, OverrunIntent
<1>12. ASSUME NEW sc \in Scenes, ManualRecall(sc) PROVE IntentInv'
  BY <1>12, ManualRecallIntent
<1>13. CASE FadeAdmit
  BY <1>13, FadeAdmitIntent
<1>14. CASE FadeRefuse
  BY <1>14, FadeRefuseIntent
<1>15. ASSUME NEW result \in {"ok", "err"}, FadeBarrierEnds(result) PROVE IntentInv'
  BY <1>15, FadeBarrierEndsIntent
<1>16. CASE ReceiveStale
  BY <1>16, ReceiveStaleIntent
<1>17. CASE ReceiveSceneList
  BY <1>17, ReceiveSceneListIntent
<1>18. CASE ReceiveScene
  BY <1>18, ReceiveSceneIntent
<1>19. CASE ReceiveDisconnected
  BY <1>19, ReceiveDisconnectedIntent
<1>20. CASE ReceiveGeneration
  BY <1>20, ReceiveGenerationIntent
<1>21. CASE ReceiveLagged
  BY <1>21, ReceiveLaggedIntent
<1>22. CASE FinishLagRecovery
  BY <1>22, FinishLagRecoveryIntent
<1>23. CASE HoldCommand
  BY <1>23, HoldCommandIntent
<1>24. CASE RecallCommand
  BY <1>24, RecallCommandIntent
<1>25. CASE StoreCommand
  BY <1>25, StoreCommandIntent
<1>26. CASE PeersReadyCommand
  BY <1>26, PeersReadyCommandIntent
<1>27. CASE ReplaceCommand
  BY <1>27, ReplaceCommandIntent
<1>28. CASE CueCommand
  BY <1>28, CueCommandIntent
<1>29. CASE CueComplete
  BY <1>29, CueCompleteIntent
<1>30. CASE ReadinessLost
  BY <1>30, ReadinessLostIntent
<1>31. CASE ReadinessStartsInterval
  BY <1>31, ReadinessStartsIntervalIntent
<1>32. CASE ReadinessReleases
  BY <1>32, ReadinessReleasesIntent
<1>33. CASE IntervalElapsed
  BY <1>33, IntervalElapsedIntent
<1>34. CASE SafetyDeadline
  BY <1>34, SafetyDeadlineIntent
<1>35. CASE LockoutChanged
  BY <1>35, LockoutChangedIntent
<1>36. CASE LateExpires
  BY <1>36, LateExpiresIntent
<1>37. CASE SettleIgnored
  BY <1>37, SettleIgnoredIntent
<1>38. CASE SettleSuppressed
  BY <1>38, SettleSuppressedIntent
<1>39. CASE SettleObserved
  BY <1>39, SettleObservedIntent
<1>40. CASE AcceptRecall
  BY <1>40, AcceptRecallIntent
<1>41. CASE HandoffSend
  BY <1>41, HandoffSendIntent
<1>42. CASE FinishOutdated
  BY <1>42, FinishOutdatedIntent
<1>43. CASE AdmissionAccepted
  BY <1>43, AdmissionAcceptedIntent
<1>44. CASE AdmissionRefused
  BY <1>44, AdmissionRefusedIntent
<1>45. CASE DispatchPrepared
  BY <1>45, DispatchPreparedIntent
<1>46. CASE DispatchInvalid
  BY <1>46, DispatchInvalidIntent
<1>47. CASE DispatchLost
  BY <1>47, DispatchLostIntent
<1>48. CASE DispatchFinished
  BY <1>48, DispatchFinishedIntent
<1>49. CASE ObservationPrepared
  BY <1>49, ObservationPreparedIntent
<1>50. CASE ObservationDropped
  BY <1>50, ObservationDroppedIntent
<1>51. CASE ObservationLost
  BY <1>51, ObservationLostIntent
<1>52. CASE HandoffDropped
  BY <1>52, HandoffDroppedIntent
<1>53. CASE HandoffAccepted
  BY <1>53, HandoffAcceptedIntent
<1>54. CASE HandoffFailed
  BY <1>54, HandoffFailedIntent
<1>55. CASE FinishStore
  BY <1>55, FinishStoreIntent
<1>56. CASE UNCHANGED vars
  BY <1>56, KeepIntent DEF vars, Dispatching
<1> QED
  BY <1>1, <1>2, <1>3, <1>4, <1>5, <1>6, <1>7, <1>8, <1>9, <1>10, <1>11, <1>12,
     <1>13, <1>14, <1>15, <1>16, <1>17, <1>18, <1>19, <1>20, <1>21, <1>22, <1>23, <1>24,
     <1>25, <1>26, <1>27, <1>28, <1>29, <1>30, <1>31, <1>32, <1>33, <1>34, <1>35, <1>36,
     <1>37, <1>38, <1>39, <1>40, <1>41, <1>42, <1>43, <1>44, <1>45, <1>46, <1>47, <1>48,
     <1>49, <1>50, <1>51, <1>52, <1>53, <1>54, <1>55, <1>56
  DEF Next, Callers, Lifecycle, Lv1, Fade, ScenesActor, EventBranch, CommandBranch,
         ReadinessBranch, TimerBranch, SettleBranch, OpBranch

LEMMA InitIntent == Init => IntentInv
BY CapacityAssumption DEF Init, IntentInv, OneInFlight, CapacityBound, Occupancy,
   LockoutDrainsIntent, IntentProvenance, Dispatching, DispatchKinds, NoOp, OpOf

\* IntentInv holds in every reachable state.
THEOREM IntentCorrect == Spec => []IntentInv
<1>1. Init => IntentInv
  BY InitIntent
<1>2. TypeOK /\ IntentInv /\ [Next]_vars => IntentInv'
  BY IntentStep
<1> QED
  BY <1>1, <1>2, TypeCorrect, PTL DEF Spec

-----------------------------------------------------------------------------
(* The safety properties of ScenesRecall that follow from IntentInv        *)

\* At every moment the FIFO, the recall in flight and the one being dispatched
\* together stay within RECALL_QUEUE_CAPACITY.
THEOREM CapacityCorrect == Spec => []CapacityBound
<1>1. IntentInv => CapacityBound
  BY DEF IntentInv
<1> QED
  BY <1>1, IntentCorrect, PTL

\* No recall is dispatched to LV1 while another one is in flight.
THEOREM OneInFlightCorrect == Spec => []OneInFlight
<1>1. IntentInv => OneInFlight
  BY DEF IntentInv
<1> QED
  BY <1>1, IntentCorrect, PTL

\* Once the Scenes actor has seen lockout on, nothing admitted survives.
THEOREM LockoutCorrect == Spec => []LockoutDrainsIntent
<1>1. IntentInv => LockoutDrainsIntent
  BY DEF IntentInv
<1> QED
  BY <1>1, IntentCorrect, PTL

\* Admitted intent always belongs to the active generation and the current
\* session.
THEOREM ProvenanceCorrect == Spec => []IntentProvenance
<1>1. IntentInv => IntentProvenance
  BY DEF IntentInv
<1> QED
  BY <1>1, IntentCorrect, PTL

\* Only AcceptRecall makes LV1 accept a recall.
LEMMA AcceptedOnly == ASSUME [Next]_vars PROVE UNCHANGED accepted \/ AcceptRecall
<1>1. CASE Callers
  BY <1>1 DEF Callers, FlipLockout, SendCommand, PressGo
<1>2. CASE Lifecycle
  BY <1>2 DEF Lifecycle, Connect, OfferPeers, ClearRuntime, DropRuntime
<1>3. CASE Lv1
  BY <1>3 DEF Lv1, Lv1Connected, Lv1Lost, ConsoleEcho, ConsoleSilent, Overrun, ManualRecall,
              Announce
<1>4. CASE Fade
  BY <1>4 DEF Fade, FadeAdmit, FadeRefuse, FadeBarrierEnds
<1>5. CASE EventBranch
  BY <1>5 DEF EventBranch, ReceiveStale, ReceiveSceneList, ReceiveScene, ReceiveDisconnected,
              ReceiveGeneration, ReceiveLagged
<1>6. CASE CommandBranch \/ CueCommand \/ CueComplete \/ FinishLagRecovery
  BY <1>6 DEF CommandBranch, HoldCommand, RecallCommand, StoreCommand, PeersReadyCommand,
              ReplaceCommand, CueCommand, CueComplete, FinishLagRecovery
<1>7. CASE ReadinessBranch \/ TimerBranch \/ LockoutChanged \/ LateExpires
  BY <1>7 DEF ReadinessBranch, ReadinessLost, ReadinessStartsInterval, ReadinessReleases,
              ReleaseNext, TimerBranch, IntervalElapsed, SafetyDeadline, LockoutChanged,
              LateExpires
<1>8. CASE SettleBranch \/ FinishStore
  BY <1>8 DEF SettleBranch, SettleIgnored, SettleSuppressed, SettleObserved, FinishStore
<1>9. CASE OpBranch
  BY <1>9 DEF OpBranch, FinishFrame, HandoffSend, FinishOutdated, AdmissionAccepted,
              AdmissionRefused, DispatchPrepared, DispatchInvalid, DispatchLost,
              DispatchFinished, ObservationPrepared, ObservationDropped, ObservationLost,
              HandoffDropped, HandoffAccepted, HandoffFailed
<1>10. CASE UNCHANGED vars
  BY <1>10 DEF vars
<1> QED
  BY <1>1, <1>2, <1>3, <1>4, <1>5, <1>6, <1>7, <1>8, <1>9, <1>10 DEF Next, ScenesActor

\* The recall that LV1 accepts belongs to the authoritative generation and to
\* the current session.
LEMMA AcceptedBelongs ==
  ASSUME IntentInv, [Next]_vars, NEW r \in accepted' \ accepted
  PROVE  bornGen[r] = gen /\ bornSession[r] = session
<1>1. AcceptRecall
  BY AcceptedOnly
<1>2. r = op.req /\ op.gen = gen /\ Dispatching
  BY <1>1 DEF AcceptRecall, Dispatching, DispatchKinds
<1> QED
  BY <1>2 DEF IntentInv, IntentProvenance

\* A recall reaches LV1 only in the generation in which it entered the FIFO.
THEOREM GenerationCorrect == Spec => NoCrossGenerationRecall
<1>1. IntentInv /\ [Next]_vars => [\A r \in accepted' \ accepted : bornGen[r] = gen]_vars
  BY AcceptedBelongs
<1> QED
  BY <1>1, IntentCorrect, PTL DEF Spec, NoCrossGenerationRecall

\* A GO pressed before a session replacement is never dispatched after it.
THEOREM SessionCorrect == Spec => NoRecallAcrossReplacement
<1>1. IntentInv /\ [Next]_vars => [\A r \in accepted' \ accepted : bornSession[r] = session]_vars
  BY AcceptedBelongs
<1> QED
  BY <1>1, IntentCorrect, PTL DEF Spec, NoRecallAcrossReplacement

-----------------------------------------------------------------------------
(* The readiness channel.  A recall waiting for readiness has no deadline,  *)
(* so the sender of its channel must be held by the Fade engine from the    *)
(* moment the handoff is sent, and nobody else may close or reopen the      *)
(* channel of a request whose handoff is pending.                           *)

Answerable(r) == \/ chan[r] \in {"ok", "err"}
                 \/ chan[r] = "open" /\ (r \in barrier \/ \E i \in DOMAIN fadeBox : fadeBox[i] = r)
HandsOff == op.kind = "handoff" /\ op.req # NoReq

ReadinessInv ==
    /\ inflight.phase = "readiness" => Answerable(inflight.req)
    /\ HandsOff => StillExpected /\ chan[op.req] # "none"
    /\ HandsOff /\ op.stage # "asking" => Answerable(op.req)
    /\ op.kind = "obsSnapshot" => op.stage = "asking"

LEMMA ReadinessImpliesOwner == ASSUME ReadinessInv PROVE ReadinessHasOwner
BY DEF ReadinessInv, ReadinessHasOwner, Answerable

\* The steps that touch neither the channels nor who holds them.
LEMMA KeepReadiness ==
  ASSUME TypeOK, ReadinessInv, UNCHANGED <<fadeVars, chan>>,
         inflight'.phase = "readiness" => UNCHANGED inflight,
         HandsOff' => UNCHANGED <<inflight, op>>,
         op'.kind = "obsSnapshot" => op'.stage = "asking"
  PROVE  ReadinessInv'
BY DEF ReadinessInv, Answerable, HandsOff, StillExpected

\* The steps after which no recall waits for readiness and none is handed off.
LEMMA DropReadiness ==
  ASSUME op' = NoOp, inflight'.phase # "readiness" PROVE ReadinessInv'
BY DEF ReadinessInv, HandsOff, NoOp, OpOf

LEMMA AbandonReadiness ==
  ASSUME NEW ids, NEW others, AbandonRecall(ids, others) PROVE ReadinessInv'
BY DropReadiness DEF AbandonRecall, NoFlight

\* Starting a recall hands nothing off.
LEMMA StartReadiness ==
  ASSUME NEW queue, NEW answers, StartNext(queue, answers) \/ StartIfIdle(queue, answers),
         inflight'.phase = "readiness" => Answerable(inflight.req)' 
  PROVE  ReadinessInv'
<1>1. ~HandsOff' /\ op'.kind # "obsSnapshot"
  BY DEF StartNext, StartIfIdle, NoOp, OpOf, HandsOff
<1> QED
  BY <1>1 DEF ReadinessInv

LEMMA DropRuntimeReadiness ==
  ASSUME TypeOK, ReadinessInv, DropRuntime, UNCHANGED inflight PROVE ReadinessInv'
<1>1. \A r \in Requests : chan[r] # "none" => chan'[r] \in {"ok", "err"}
  BY DEF DropRuntime, ReplyOK
<1>2. inflight.phase = "readiness" => inflight.req \in Requests
  BY DEF CoordOK, Flights, NoFlight
<1>3. HandsOff' => HandsOff /\ op'.req = op.req /\ op.req \in Requests
  BY DEF DropRuntime, HandsOff, OpOK, Ops, MaybeReq
<1>4. op'.kind = "obsSnapshot" => op'.stage = "asking"
  BY DEF DropRuntime, ReadinessInv, OpOK, Ops
<1> QED
  BY <1>1, <1>2, <1>3, <1>4 DEF ReadinessInv, Answerable, HandsOff, StillExpected

LEMMA FadeAdmitReadiness == ASSUME TypeOK, ReadinessInv, FadeAdmit PROVE ReadinessInv'
<1>1. /\ DOMAIN fadeBox = 1 .. Len(fadeBox) /\ Len(fadeBox) \in Nat
      /\ Head(fadeBox) = fadeBox[1] /\ DOMAIN fadeBox' = 1 .. Len(fadeBox) - 1
      /\ \A i \in 1 .. Len(fadeBox) - 1 : fadeBox'[i] = fadeBox[i + 1]
  BY HeadTailProperties, LenProperties, EmptySeq DEF FadeAdmit, FadeOK
<1>2. \A i \in DOMAIN fadeBox : i = 1 \/ (i - 1 \in DOMAIN fadeBox' /\ (i - 1) + 1 = i)
  BY <1>1
<1>3. \A r \in Requests : Answerable(r) => Answerable(r)'
  <2> SUFFICES ASSUME NEW r \in Requests, Answerable(r) PROVE Answerable(r)'
    OBVIOUS
  <2>1. CASE chan[r] \in {"ok", "err"}
    BY <2>1 DEF FadeAdmit, Settle, Answerable
  <2>2. CASE chan[r] = "open" /\ r \in barrier
    BY <2>2 DEF FadeAdmit, Settle, Answerable
  <2>3. CASE chan[r] = "open" /\ r \notin barrier /\ \E i \in DOMAIN fadeBox : fadeBox[i] = r
    <3>1. chan'[r] = "open"
      BY <2>3 DEF FadeAdmit, Settle
    <3>2. CASE fadeBox[1] = r
      BY <1>1, <3>1, <3>2, RequestsAssumption DEF FadeAdmit, Answerable
    <3>3. CASE fadeBox[1] # r
      <4>1. PICK i \in DOMAIN fadeBox : fadeBox[i] = r
        BY <2>3
      <4>2. i - 1 \in DOMAIN fadeBox' /\ fadeBox'[i - 1] = r
        BY <1>1, <1>2, <3>3, <4>1
      <4> QED
        BY <3>1, <4>2 DEF Answerable
    <3> QED
      BY <3>2, <3>3
  <2> QED
    BY <2>1, <2>2, <2>3 DEF Answerable
<1>4. \A r \in Requests : chan[r] # "none" => chan'[r] # "none"
  BY DEF FadeAdmit, Settle
<1>5. UNCHANGED inflight /\ (inflight.phase = "readiness" => inflight.req \in Requests)
  BY DEF FadeAdmit, CoordOK, Flights, NoFlight
<1>6. /\ op'.kind = op.kind /\ op'.req = op.req
      /\ op'.stage = op.stage \/ (op.kind = "handoff" /\ op.stage = "sent")
  BY DEF FadeAdmit, HandoffAnswered, OpOK, Ops
<1>7. HandsOff => op.req \in Requests
  BY DEF HandsOff, OpOK, Ops, MaybeReq
<1> QED
  BY <1>3, <1>4, <1>5, <1>6, <1>7 DEF ReadinessInv, HandsOff, StillExpected

LEMMA FadeRefuseReadiness == ASSUME TypeOK, ReadinessInv, FadeRefuse PROVE ReadinessInv'
<1>1. /\ DOMAIN fadeBox = 1 .. Len(fadeBox) /\ Len(fadeBox) \in Nat
      /\ Head(fadeBox) = fadeBox[1] /\ DOMAIN fadeBox' = 1 .. Len(fadeBox) - 1
      /\ \A i \in 1 .. Len(fadeBox) - 1 : fadeBox'[i] = fadeBox[i + 1]
  BY HeadTailProperties, LenProperties, EmptySeq DEF FadeRefuse, FadeOK
<1>2. \A i \in DOMAIN fadeBox : i = 1 \/ (i - 1 \in DOMAIN fadeBox' /\ (i - 1) + 1 = i)
  BY <1>1
<1>3. \A r \in Requests : Answerable(r) => Answerable(r)'
  <2> SUFFICES ASSUME NEW r \in Requests, Answerable(r) PROVE Answerable(r)'
    OBVIOUS
  <2>1. CASE chan[r] \in {"ok", "err"}
    BY <2>1 DEF FadeRefuse, Settle, Answerable
  <2>2. CASE chan[r] = "open" /\ r \in barrier
    BY <2>2 DEF FadeRefuse, Settle, Answerable
  <2>3. CASE chan[r] = "open" /\ \E i \in DOMAIN fadeBox : fadeBox[i] = r
    <3>1. CASE fadeBox[1] = r
      BY <1>1, <2>3, <3>1 DEF FadeRefuse, Settle, Answerable
    <3>2. CASE fadeBox[1] # r
      <4>1. PICK i \in DOMAIN fadeBox : fadeBox[i] = r
        BY <2>3
      <4>2. i - 1 \in DOMAIN fadeBox' /\ fadeBox'[i - 1] = r
        BY <1>1, <1>2, <3>2, <4>1
      <4>3. chan'[r] = "open"
        BY <1>1, <2>3, <3>2 DEF FadeRefuse, Settle
      <4> QED
        BY <4>2, <4>3 DEF Answerable
    <3> QED
      BY <3>1, <3>2
  <2> QED
    BY <2>1, <2>2, <2>3 DEF Answerable
<1>4. \A r \in Requests : chan[r] # "none" => chan'[r] # "none"
  BY DEF FadeRefuse, Settle
<1>5. UNCHANGED inflight /\ (inflight.phase = "readiness" => inflight.req \in Requests)
  BY DEF FadeRefuse, CoordOK, Flights, NoFlight
<1>6. /\ op'.kind = op.kind /\ op'.req = op.req
      /\ op'.stage = op.stage \/ (op.kind = "handoff" /\ op.stage = "sent")
  BY DEF FadeRefuse, HandoffAnswered, OpOK, Ops
<1>7. HandsOff => op.req \in Requests
  BY DEF HandsOff, OpOK, Ops, MaybeReq
<1> QED
  BY <1>3, <1>4, <1>5, <1>6, <1>7 DEF ReadinessInv, HandsOff, StillExpected

LEMMA FadeBarrierEndsReadiness ==
  ASSUME TypeOK, ReadinessInv, NEW result \in {"ok", "err"}, FadeBarrierEnds(result)
  PROVE  ReadinessInv'
<1>1. \A r \in Requests : Answerable(r) => Answerable(r)'
  BY DEF FadeBarrierEnds, Settle, Answerable
<1>2. \A r \in Requests : chan[r] # "none" => chan'[r] # "none"
  BY DEF FadeBarrierEnds, Settle
<1>3. UNCHANGED <<inflight, op>> /\ (inflight.phase = "readiness" => inflight.req \in Requests)
  BY DEF FadeBarrierEnds, CoordOK, Flights, NoFlight
<1>4. HandsOff => op.req \in Requests
  BY DEF HandsOff, OpOK, Ops, MaybeReq
<1> QED
  BY <1>1, <1>2, <1>3, <1>4 DEF ReadinessInv, HandsOff, StillExpected

\* Once the command is sent, the Fade engine's mailbox holds the sender.
LEMMA HandoffSendReadiness == ASSUME TypeOK, ReadinessInv, HandoffSend PROVE ReadinessInv'
<1>1. /\ DOMAIN fadeBox = 1 .. Len(fadeBox) /\ Len(fadeBox) \in Nat
      /\ DOMAIN fadeBox' = 1 .. Len(fadeBox) + 1
      /\ \A i \in DOMAIN fadeBox : fadeBox'[i] = fadeBox[i]
      /\ fadeBox'[Len(fadeBox) + 1] = op.req
  BY AppendProperties, LenProperties DEF HandoffSend, FadeOK, OpOK, Ops, MaybeReq
<1>2. /\ op'.kind = "handoff" /\ op'.req = op.req /\ op.kind = "handoff"
      /\ UNCHANGED <<inflight, chan, barrier>>
  BY DEF HandoffSend, OpOK, Ops
<1>3. \E i \in DOMAIN fadeBox' : fadeBox'[i] = op.req
  <2>1. Len(fadeBox) + 1 \in DOMAIN fadeBox'
    BY <1>1
  <2> QED
    BY <1>1, <2>1
<1>4. HandsOff => op.req \in Requests /\ chan[op.req] \in {"open", "ok", "err"}
  BY DEF HandsOff, OpOK, Ops, MaybeReq, ReplyOK, ReadinessInv
<1>5. \A r : (\E i \in DOMAIN fadeBox : fadeBox[i] = r) => \E i \in DOMAIN fadeBox' : fadeBox'[i] = r
  BY <1>1
<1> QED
  BY <1>2, <1>3, <1>4, <1>5 DEF ReadinessInv, Answerable, HandsOff, StillExpected

LEMMA ObservationPreparedReadiness ==
  ASSUME TypeOK, ReadinessInv, ObservationPrepared PROVE ReadinessInv'
<1>1. /\ op.kind = "obsSnapshot" /\ op.stage = "asking"
      /\ op'.kind = "handoff" /\ op'.req = op.req /\ op'.stage = "asking"
      /\ UNCHANGED <<inflight, fadeBox, barrier>>
  BY DEF ObservationPrepared, Finishing, FinishFrame, OpOK, Ops, ReadinessInv
<1>2. CASE op.req = NoReq
  BY <1>1, <1>2 DEF ObservationPrepared, ReadinessInv, HandsOff, Answerable
<1>3. CASE op.req # NoReq
  <2>1. op.req \in Requests /\ StillExpected /\ chan' = [chan EXCEPT ![op.req] = "open"]
    BY <1>3 DEF ObservationPrepared, OpOK, Ops, MaybeReq
  <2>2. chan'[op.req] = "open"
    BY <2>1 DEF ReplyOK
  <2> QED
    BY <1>1, <2>1, <2>2 DEF ReadinessInv, HandsOff, StillExpected
<1> QED
  BY <1>2, <1>3

\* The handoff whose admission is answered leaves a recall that Fade will resolve.
LEMMA HandoffAcceptedReadiness ==
  ASSUME TypeOK, ReadinessInv, HandoffAccepted PROVE ReadinessInv'
<1>1. op' = NoOp /\ UNCHANGED <<chan, fadeBox, barrier>>
  BY DEF HandoffAccepted, FinishFrame
<1>2. CASE op.req = NoReq
  BY <1>1, <1>2 DEF HandoffAccepted, ReadinessInv, HandsOff, NoOp, OpOf, Answerable
<1>3. CASE op.req # NoReq
  <2>1. inflight'.req = op.req /\ Answerable(op.req)
    BY <1>3 DEF HandoffAccepted, Finishing, StillExpected, ReadinessInv, HandsOff
  <2>2. Answerable(inflight.req)'
    BY <1>1, <2>1 DEF Answerable
  <2> QED
    BY <1>1, <2>2 DEF ReadinessInv, HandsOff, NoOp, OpOf
<1> QED
  BY <1>2, <1>3

LEMMA HandoffDroppedReadiness ==
  ASSUME TypeOK, ReadinessInv, HandoffDropped PROVE ReadinessInv'
<1>1. /\ op' = NoOp /\ op.kind = "handoff" /\ UNCHANGED <<inflight, fadeBox, barrier>>
      /\ \A r \in Requests : r # op.req => chan'[r] = chan[r]
  BY DEF HandoffDropped, Finishing, FinishFrame
<1>2. inflight.phase = "readiness" => inflight.req # op.req /\ inflight.req \in Requests
  BY <1>1, RequestsAssumption DEF ReadinessInv, HandsOff, StillExpected, CoordOK, Flights, NoFlight
<1> QED
  BY <1>1, <1>2 DEF ReadinessInv, HandsOff, NoOp, OpOf, Answerable

LEMMA HandoffFailedReadiness ==
  ASSUME TypeOK, ReadinessInv, HandoffFailed PROVE ReadinessInv'
<1>1. CASE op.req = NoReq
  BY <1>1, KeepReadiness DEF HandoffFailed, FinishFrame, NoOp, OpOf, HandsOff
<1>2. CASE op.req # NoReq
  BY <1>2, AbandonReadiness DEF HandoffFailed
<1> QED
  BY <1>1, <1>2

LEMMA ReadinessStartsIntervalReadiness ==
  ASSUME TypeOK, ReadinessInv, ReadinessStartsInterval PROVE ReadinessInv'
<1>1. /\ inflight.phase = "readiness" /\ op' = op /\ inflight'.phase = "interval"
  BY DEF ReadinessStartsInterval, ReadinessArrived, CoordOK, Flights, NoFlight
<1>2. ~HandsOff
  BY <1>1 DEF ReadinessInv, StillExpected
<1> QED
  BY <1>1, <1>2 DEF ReadinessInv, HandsOff

LEMMA ReleaseNextReadiness ==
  ASSUME TypeOK, ReadinessInv, ReleaseNext, inflight.phase # "observation" PROVE ReadinessInv'
<1>1. inflight'.phase # "readiness" /\ ~HandsOff
  BY DEF ReleaseNext, NoFlight, ReadinessInv, StillExpected
<1>2. CASE Idle
  BY <1>1, <1>2, StartReadiness DEF ReleaseNext
<1>3. CASE ~Idle
  BY <1>1, <1>3 DEF ReleaseNext, ReadinessInv, HandsOff
<1> QED
  BY <1>2, <1>3

LEMMA ReceiveGenerationReadiness ==
  ASSUME TypeOK, ReadinessInv, ReceiveGeneration PROVE ReadinessInv'
<1>1. CASE Current
  BY <1>1, KeepReadiness DEF ReceiveGeneration, HandsOff, ReadinessInv
<1>2. CASE ~Current
  BY <1>2, AbandonReadiness DEF ReceiveGeneration, Transition
<1> QED
  BY <1>1, <1>2

LEMMA PeersReadyCommandReadiness ==
  ASSUME TypeOK, ReadinessInv, PeersReadyCommand PROVE ReadinessInv'
<1>1. CASE gen = active
  BY <1>1, KeepReadiness DEF PeersReadyCommand, HandsOff, ReadinessInv
<1>2. CASE gen # active
  BY <1>2, AbandonReadiness DEF PeersReadyCommand, Transition
<1> QED
  BY <1>1, <1>2

LEMMA LockoutChangedReadiness ==
  ASSUME TypeOK, ReadinessInv, LockoutChanged PROVE ReadinessInv'
<1>1. CASE ~lockout
  BY <1>1, KeepReadiness DEF LockoutChanged, HandsOff, ReadinessInv
<1>2. CASE lockout
  BY <1>2, AbandonReadiness DEF LockoutChanged
<1> QED
  BY <1>1, <1>2

LEMMA ReplaceCommandReadiness ==
  ASSUME TypeOK, ReadinessInv, ReplaceCommand PROVE ReadinessInv'
<1>1. CASE op' = NoOp /\ inflight' = NoFlight
  BY <1>1, DropReadiness DEF NoFlight
<1>2. CASE UNCHANGED <<op, coordVars, chan>>
  BY <1>2, KeepReadiness DEF ReplaceCommand, HandsOff, ReadinessInv
<1> QED
  BY <1>1, <1>2 DEF ReplaceCommand, AbandonRecall

LEMMA ReadinessStep == ASSUME TypeOK, ReadinessInv, [Next]_vars PROVE ReadinessInv'
<1>1. ASSUME NEW r \in Requests, SendCommand(r) PROVE ReadinessInv'
  BY <1>1, KeepReadiness DEF SendCommand, HandsOff, ReadinessInv
<1>2. ASSUME NEW r \in Requests, PressGo(r) PROVE ReadinessInv'
  BY <1>2, KeepReadiness DEF PressGo, HandsOff, ReadinessInv
<1>3. CASE FlipLockout
  BY <1>3, KeepReadiness DEF FlipLockout, HandsOff, ReadinessInv
<1>4. CASE Connect
  BY <1>4, DropRuntimeReadiness DEF Connect
<1>5. CASE OfferPeers
  BY <1>5, KeepReadiness DEF OfferPeers, HandsOff, ReadinessInv
<1>6. ASSUME NEW b \in BOOLEAN, ClearRuntime(b) PROVE ReadinessInv'
  BY <1>6, DropRuntimeReadiness DEF ClearRuntime
<1>7. CASE Lv1Connected
  BY <1>7, KeepReadiness DEF Lv1Connected, HandsOff, ReadinessInv
<1>8. CASE Lv1Lost
  BY <1>8, KeepReadiness DEF Lv1Lost, HandsOff, ReadinessInv
<1>9. CASE ConsoleEcho
  BY <1>9, KeepReadiness DEF ConsoleEcho, HandsOff, ReadinessInv, Announce
<1>10. CASE ConsoleSilent
  BY <1>10, KeepReadiness DEF ConsoleSilent, HandsOff, ReadinessInv
<1>11. CASE Overrun
  BY <1>11, KeepReadiness DEF Overrun, HandsOff, ReadinessInv
<1>12. ASSUME NEW sc \in Scenes, ManualRecall(sc) PROVE ReadinessInv'
  BY <1>12, KeepReadiness DEF ManualRecall, HandsOff, ReadinessInv, Announce
<1>13. CASE FadeAdmit
  BY <1>13, FadeAdmitReadiness
<1>14. CASE FadeRefuse
  BY <1>14, FadeRefuseReadiness
<1>15. ASSUME NEW result \in {"ok", "err"}, FadeBarrierEnds(result) PROVE ReadinessInv'
  BY <1>15, FadeBarrierEndsReadiness
<1>16. CASE ReceiveStale
  BY <1>16, KeepReadiness DEF ReceiveStale, HandsOff, ReadinessInv
<1>17. CASE ReceiveSceneList
  BY <1>17, KeepReadiness DEF ReceiveSceneList, HandsOff, ReadinessInv
<1>18. CASE ReceiveScene
  BY <1>18, KeepReadiness DEF ReceiveScene, HandsOff, ReadinessInv
<1>19. CASE ReceiveDisconnected
  BY <1>19, AbandonReadiness DEF ReceiveDisconnected
<1>20. CASE ReceiveGeneration
  BY <1>20, ReceiveGenerationReadiness
<1>21. CASE ReceiveLagged
  BY <1>21, AbandonReadiness DEF ReceiveLagged
<1>22. CASE FinishLagRecovery
  BY <1>22, KeepReadiness DEF FinishLagRecovery, HandsOff, ReadinessInv
<1>23. CASE HoldCommand
  BY <1>23, KeepReadiness DEF HoldCommand, HandsOff, ReadinessInv
<1>24. CASE RecallCommand
  BY <1>24, KeepReadiness DEF RecallCommand, HandsOff, ReadinessInv, BeginAdmission, OpOf
<1>25. CASE StoreCommand
  BY <1>25, KeepReadiness DEF StoreCommand, HandsOff, ReadinessInv
<1>26. CASE PeersReadyCommand
  BY <1>26, PeersReadyCommandReadiness
<1>27. CASE ReplaceCommand
  BY <1>27, ReplaceCommandReadiness
<1>28. CASE CueCommand
  BY <1>28, KeepReadiness DEF CueCommand, HandsOff, ReadinessInv, BeginAdmission, OpOf
<1>29. CASE CueComplete
  BY <1>29, KeepReadiness DEF CueComplete, HandsOff, ReadinessInv
<1>30. CASE ReadinessLost
  BY <1>30, AbandonReadiness DEF ReadinessLost
<1>31. CASE ReadinessStartsInterval
  BY <1>31, ReadinessStartsIntervalReadiness
<1>32. CASE ReadinessReleases
  BY <1>32, ReleaseNextReadiness DEF ReadinessReleases, ReadinessArrived
<1>33. CASE IntervalElapsed
  BY <1>33, ReleaseNextReadiness DEF IntervalElapsed
<1>34. CASE SafetyDeadline
  BY <1>34, AbandonReadiness DEF SafetyDeadline
<1>35. CASE LockoutChanged
  BY <1>35, LockoutChangedReadiness
<1>36. CASE LateExpires
  BY <1>36, KeepReadiness DEF LateExpires, HandsOff, ReadinessInv
<1>37. CASE SettleIgnored
  BY <1>37, KeepReadiness DEF SettleIgnored, HandsOff, ReadinessInv
<1>38. CASE SettleSuppressed
  BY <1>38, KeepReadiness DEF SettleSuppressed, HandsOff, ReadinessInv
<1>39. CASE SettleObserved
  BY <1>39, KeepReadiness DEF SettleObserved, HandsOff, ReadinessInv, OpOf, NoOp
<1>40. CASE AcceptRecall
  BY <1>40, KeepReadiness DEF AcceptRecall, HandsOff, ReadinessInv, OpOK, Ops
<1>41. CASE HandoffSend
  BY <1>41, HandoffSendReadiness
<1>42. CASE FinishOutdated
  BY <1>42, AbandonReadiness DEF FinishOutdated
<1>43. CASE AdmissionAccepted
  BY <1>43, StartReadiness DEF AdmissionAccepted, FinishFrame, ReadinessInv, Answerable
<1>44. CASE AdmissionRefused
  BY <1>44, StartReadiness DEF AdmissionRefused, FinishFrame, ReadinessInv, Answerable
<1>45. CASE DispatchPrepared
  BY <1>45, KeepReadiness DEF DispatchPrepared, HandsOff, ReadinessInv, FinishFrame, Finishing, OpOK, Ops
<1>46. CASE DispatchInvalid
  BY <1>46, StartReadiness DEF DispatchInvalid, FinishFrame, ReadinessInv, Answerable
<1>47. CASE DispatchLost
  BY <1>47, AbandonReadiness DEF DispatchLost
<1>48. CASE DispatchFinished
  BY <1>48, KeepReadiness DEF DispatchFinished, HandsOff, ReadinessInv, FinishFrame, NoOp, OpOf
<1>49. CASE ObservationPrepared
  BY <1>49, ObservationPreparedReadiness
<1>50. CASE ObservationDropped
  BY <1>50, KeepReadiness DEF ObservationDropped, HandsOff, ReadinessInv, FinishFrame, NoOp, OpOf
<1>51. CASE ObservationLost
  BY <1>51, AbandonReadiness DEF ObservationLost
<1>52. CASE HandoffDropped
  BY <1>52, HandoffDroppedReadiness
<1>53. CASE HandoffAccepted
  BY <1>53, HandoffAcceptedReadiness
<1>54. CASE HandoffFailed
  BY <1>54, HandoffFailedReadiness
<1>55. CASE FinishStore
  BY <1>55, KeepReadiness DEF FinishStore, HandsOff, ReadinessInv
<1>56. CASE UNCHANGED vars
  BY <1>56, KeepReadiness DEF vars, HandsOff, ReadinessInv
<1> QED
  BY <1>1, <1>2, <1>3, <1>4, <1>5, <1>6, <1>7, <1>8, <1>9, <1>10, <1>11, <1>12,
     <1>13, <1>14, <1>15, <1>16, <1>17, <1>18, <1>19, <1>20, <1>21, <1>22, <1>23, <1>24,
     <1>25, <1>26, <1>27, <1>28, <1>29, <1>30, <1>31, <1>32, <1>33, <1>34, <1>35, <1>36,
     <1>37, <1>38, <1>39, <1>40, <1>41, <1>42, <1>43, <1>44, <1>45, <1>46, <1>47, <1>48,
     <1>49, <1>50, <1>51, <1>52, <1>53, <1>54, <1>55, <1>56
  DEF Next, Callers, Lifecycle, Lv1, Fade, ScenesActor, EventBranch, CommandBranch,
         ReadinessBranch, TimerBranch, SettleBranch, OpBranch

LEMMA InitReadiness == Init => ReadinessInv
BY DEF Init, ReadinessInv, HandsOff, NoOp, OpOf, NoFlight

\* A recall that waits for readiness, which has no deadline of its own, is never
\* stranded: its channel is resolved, or the Fade engine holds its sender and has a
\* deadline.
THEOREM ReadinessCorrect == Spec => []ReadinessHasOwner
<1>1. Init => TypeOK /\ ReadinessInv
  BY InitType, InitReadiness
<1>2. TypeOK /\ ReadinessInv /\ [Next]_vars => TypeOK' /\ ReadinessInv'
  BY TypeStep, ReadinessStep
<1>3. ReadinessInv => ReadinessHasOwner
  BY ReadinessImpliesOwner
<1> QED
  BY <1>1, <1>2, <1>3, PTL DEF Spec

-----------------------------------------------------------------------------
(* The callers                                                             *)
(*                                                                         *)
(* CallersInv says where a request is remembered.  That each waiting       *)
(* caller is in exactly one place is not inductive as it stands: a place   *)
(* that is emptied must have held the request once (Once), a request must  *)
(* be of the kind of its place (Kinds), and a request that has been        *)
(* answered must not be left behind anywhere, or it would be answered      *)
(* twice (the other half of Remembered).                                   *)

Keeps(r) == InMailbox(r) \/ Queued(r) \/ r \in OpToken \/ r \in StoreToken

\* The requests some place remembers are those whose callers are waiting.
Remembered == \A r \in Requests : reply[r] = "waiting" <=> Keeps(r)

\* The mailboxes, the FIFO and the pending operation share no request.
Alone ==
    \A r \in Requests :
        /\ InMailbox(r) => ~Queued(r) /\ r \notin OpToken /\ r \notin StoreToken
        /\ Queued(r) => r \notin OpToken

\* A mailbox and the FIFO hold a request once.
MailOnce ==
    /\ \A i, j \in DOMAIN sceneBox :
         sceneBox[i].req \in Requests /\ sceneBox[i].req = sceneBox[j].req => i = j
    /\ \A i \in DOMAIN sceneBox : sceneBox[i].req \in Requests => sceneBox[i].req # held.req
    /\ \A i, j \in DOMAIN cueBox : cueBox[i] = cueBox[j] => i = j
Injective(s) == \A i, j \in DOMAIN s : s[i] = s[j] => i = j
Once == MailOnce /\ Injective(waiting)

\* A command is of the kind of its request; only recalls are admitted.
KindOf(r) == IF r \in StoreRequests THEN "store"
             ELSE IF r \in ReplaceRequests THEN "replace" ELSE "recall"
MailKinds ==
    /\ \A i \in DOMAIN sceneBox :
         sceneBox[i].req \in Requests => sceneBox[i].kind = KindOf(sceneBox[i].req)
    /\ held.req \in Requests => held.kind = KindOf(held.req)
Kinds == /\ MailKinds /\ waiting \in Seq(RecallRequests)
         /\ OpToken \subseteq RecallRequests /\ StoreToken \subseteq StoreRequests

CallersInv == Remembered /\ Alone /\ Once /\ Kinds

\* The property the runs check follows.
LEMMA CallersImplyOwner == ASSUME CallersInv PROVE NoLostCaller
<1> SUFFICES ASSUME NEW r \in Requests, reply[r] = "waiting"
             PROVE  LET owners == {k \in 1 .. 4 : \/ k = 1 /\ InMailbox(r)
                                                  \/ k = 2 /\ Queued(r)
                                                  \/ k = 3 /\ r \in OpToken
                                                  \/ k = 4 /\ r \in StoreToken}
                    IN \E k \in owners : owners = {k}
  BY DEF NoLostCaller
<1> DEFINE owners == {k \in 1 .. 4 : \/ k = 1 /\ InMailbox(r)
                                     \/ k = 2 /\ Queued(r)
                                     \/ k = 3 /\ r \in OpToken
                                     \/ k = 4 /\ r \in StoreToken}
<1>1. InMailbox(r) \/ Queued(r) \/ r \in OpToken \/ r \in StoreToken
  BY DEF CallersInv, Remembered, Keeps
<1>2. /\ InMailbox(r) => ~Queued(r) /\ r \notin OpToken /\ r \notin StoreToken
      /\ Queued(r) => r \notin OpToken
      /\ r \in StoreToken => ~Queued(r) /\ r \notin OpToken
  BY RequestsAssumption DEF CallersInv, Alone, Kinds, Queued, RecallRequests
<1>3. \A k \in 1 .. 4 : k \in owners <=> \/ k = 1 /\ InMailbox(r)
                                         \/ k = 2 /\ Queued(r)
                                         \/ k = 3 /\ r \in OpToken
                                         \/ k = 4 /\ r \in StoreToken
  OBVIOUS
<1>4. owners \subseteq {1, 2, 3, 4}
  OBVIOUS
<1> HIDE DEF owners
<1>5. CASE InMailbox(r)
  BY <1>2, <1>3, <1>4, <1>5
<1>6. CASE Queued(r)
  BY <1>2, <1>3, <1>4, <1>6
<1>7. CASE r \in OpToken
  BY <1>2, <1>3, <1>4, <1>7
<1>8. CASE r \in StoreToken
  BY <1>2, <1>3, <1>4, <1>8
<1> QED
  BY <1>1, <1>5, <1>6, <1>7, <1>8 DEF owners

-----------------------------------------------------------------------------
(* The steps that move no request                                          *)

LEMMA KeepCallers ==
  ASSUME TypeOK, CallersInv, UNCHANGED <<mailVars, waiting, reply, StoreToken, OpToken>>
  PROVE  CallersInv'
<1>1. Once' /\ Kinds'
  BY DEF CallersInv, Once, MailOnce, Injective, Kinds, MailKinds
<1>2. \A r : /\ InMailbox(r)' <=> InMailbox(r)
             /\ Queued(r)' <=> Queued(r)
  BY DEF InMailbox, Queued
<1>3. Remembered' /\ Alone'
  BY <1>2 DEF CallersInv, Remembered, Alone, Keeps
<1> QED
  BY <1>1, <1>3 DEF CallersInv

LEMMA QueuedSet == ASSUME TypeOK, NEW r PROVE r \in ToSet(waiting) <=> Queued(r)
BY DEF ToSet, Queued

LEMMA NoToken == ASSUME op' = NoOp PROVE OpToken' = {}
BY DEF OpToken, NoOp, OpOf, DispatchKinds

\* The steps that refuse every admitted request, and others in a mailbox or being
\* stored.
LEMMA DropCallers ==
  ASSUME TypeOK, CallersInv, MailOnce', MailKinds', op' = NoOp, waiting' = <<>>, NEW others,
         \A r \in Requests : InMailbox(r)' <=> InMailbox(r) /\ r \notin others,
         StoreToken' = StoreToken \ others,
         \A r \in Requests : IF Queued(r) \/ r \in OpToken \/ r \in others
                             THEN reply'[r] # "waiting" ELSE reply'[r] = reply[r]
  PROVE  CallersInv'
<1>1. OpToken' = {} /\ waiting' \in Seq(RecallRequests) /\ Injective(waiting)'
  BY NoToken DEF Injective
<1>2. Once' /\ Kinds'
  BY <1>1 DEF CallersInv, Once, Kinds
<1>3. \A r : ~Queued(r)'
  BY DEF Queued
<1>4. \A r \in StoreToken : ~Queued(r) /\ r \notin OpToken
  BY RequestsAssumption DEF CallersInv, Kinds, Queued, RecallRequests
<1>5. Remembered' /\ Alone'
  BY <1>1, <1>3, <1>4 DEF CallersInv, Remembered, Alone, Keeps
<1> QED
  BY <1>2, <1>5 DEF CallersInv

LEMMA SameMail ==
  ASSUME CallersInv, UNCHANGED mailVars
  PROVE  MailOnce' /\ MailKinds' /\ \A r : InMailbox(r)' <=> InMailbox(r)
BY DEF CallersInv, Once, Kinds, MailOnce, MailKinds, InMailbox

LEMMA AbandonCallers ==
  ASSUME TypeOK, CallersInv, UNCHANGED <<mailVars, store>>, NEW ids, AbandonRecall(ids, {})
  PROVE  CallersInv'
<1> DEFINE others == {}
<1>1. \A r \in Requests : reply'[r] = IF Queued(r) \/ r \in OpToken \/ r \in others
                                      THEN "err" ELSE reply[r]
  BY QueuedSet DEF AbandonRecall, Failing
<1>2. op' = NoOp /\ waiting' = <<>> /\ StoreToken' = StoreToken \ others
  BY DEF AbandonRecall, StoreToken
<1>3. \A r : r \notin others
  OBVIOUS
<1> HIDE DEF others
<1> QED
  BY <1>1, <1>2, <1>3, SameMail, DropCallers

LEMMA AbandonAll ==
  ASSUME TypeOK, CallersInv, UNCHANGED mailVars, store' = NoStore, NEW ids,
         AbandonRecall(ids, StoreToken)
  PROVE  CallersInv'
<1>1. \A r \in Requests : reply'[r] = IF Queued(r) \/ r \in OpToken \/ r \in StoreToken
                                      THEN "err" ELSE reply[r]
  BY QueuedSet DEF AbandonRecall, Failing
<1>2. op' = NoOp /\ waiting' = <<>> /\ StoreToken' = StoreToken \ StoreToken
  BY DEF AbandonRecall, StoreToken
<1>3. \A r \in StoreToken : ~InMailbox(r)
  BY RequestsAssumption DEF CallersInv, Alone, Kinds
<1> QED
  BY <1>1, <1>2, <1>3, SameMail, DropCallers

LEMMA FlipLockoutCallers == ASSUME TypeOK, CallersInv, FlipLockout PROVE CallersInv'
BY KeepCallers DEF FlipLockout, OpToken, StoreToken

LEMMA ConnectCallers == ASSUME TypeOK, CallersInv, Connect PROVE CallersInv'
BY KeepCallers DEF Connect, DropRuntime, OpToken, DispatchKinds, NoOp, OpOf, OpOK, Ops, StoreToken

LEMMA ClearRuntimeCallers == ASSUME TypeOK, CallersInv, NEW b \in BOOLEAN, ClearRuntime(b) PROVE CallersInv'
BY KeepCallers DEF ClearRuntime, DropRuntime, OpToken, DispatchKinds, NoOp, OpOf, OpOK, Ops, StoreToken

LEMMA Lv1ConnectedCallers == ASSUME TypeOK, CallersInv, Lv1Connected PROVE CallersInv'
BY KeepCallers DEF Lv1Connected, OpToken, StoreToken

LEMMA Lv1LostCallers == ASSUME TypeOK, CallersInv, Lv1Lost PROVE CallersInv'
BY KeepCallers DEF Lv1Lost, OpToken, StoreToken

LEMMA ConsoleEchoCallers == ASSUME TypeOK, CallersInv, ConsoleEcho PROVE CallersInv'
BY KeepCallers DEF ConsoleEcho, Announce, OpToken, StoreToken

LEMMA ConsoleSilentCallers == ASSUME TypeOK, CallersInv, ConsoleSilent PROVE CallersInv'
BY KeepCallers DEF ConsoleSilent, OpToken, StoreToken

LEMMA OverrunCallers == ASSUME TypeOK, CallersInv, Overrun PROVE CallersInv'
BY KeepCallers DEF Overrun, OpToken, StoreToken

LEMMA ManualRecallCallers == ASSUME TypeOK, CallersInv, NEW sc \in Scenes, ManualRecall(sc) PROVE CallersInv'
BY KeepCallers DEF ManualRecall, Announce, OpToken, StoreToken

LEMMA FadeAdmitCallers == ASSUME TypeOK, CallersInv, FadeAdmit PROVE CallersInv'
BY KeepCallers DEF FadeAdmit, HandoffAnswered, OpToken, DispatchKinds, NoOp, OpOf, OpOK, Ops, StoreToken

LEMMA FadeRefuseCallers == ASSUME TypeOK, CallersInv, FadeRefuse PROVE CallersInv'
BY KeepCallers DEF FadeRefuse, HandoffAnswered, OpToken, DispatchKinds, NoOp, OpOf, OpOK, Ops, StoreToken

LEMMA FadeBarrierEndsCallers == ASSUME TypeOK, CallersInv, NEW result, FadeBarrierEnds(result) PROVE CallersInv'
BY KeepCallers DEF FadeBarrierEnds, OpToken, StoreToken

LEMMA ReceiveStaleCallers == ASSUME TypeOK, CallersInv, ReceiveStale PROVE CallersInv'
BY KeepCallers DEF ReceiveStale, OpToken, StoreToken

LEMMA ReceiveSceneListCallers == ASSUME TypeOK, CallersInv, ReceiveSceneList PROVE CallersInv'
BY KeepCallers DEF ReceiveSceneList, OpToken, StoreToken

LEMMA ReceiveSceneCallers == ASSUME TypeOK, CallersInv, ReceiveScene PROVE CallersInv'
BY KeepCallers DEF ReceiveScene, OpToken, StoreToken

LEMMA FinishLagRecoveryCallers == ASSUME TypeOK, CallersInv, FinishLagRecovery PROVE CallersInv'
BY KeepCallers DEF FinishLagRecovery, OpToken, StoreToken

LEMMA CueCompleteCallers == ASSUME TypeOK, CallersInv, CueComplete PROVE CallersInv'
BY KeepCallers DEF CueComplete, OpToken, StoreToken

LEMMA ReadinessStartsIntervalCallers == ASSUME TypeOK, CallersInv, ReadinessStartsInterval PROVE CallersInv'
BY KeepCallers DEF ReadinessStartsInterval, OpToken, StoreToken

LEMMA LateExpiresCallers == ASSUME TypeOK, CallersInv, LateExpires PROVE CallersInv'
BY KeepCallers DEF LateExpires, OpToken, StoreToken

LEMMA SettleIgnoredCallers == ASSUME TypeOK, CallersInv, SettleIgnored PROVE CallersInv'
BY KeepCallers DEF SettleIgnored, OpToken, StoreToken

LEMMA SettleSuppressedCallers == ASSUME TypeOK, CallersInv, SettleSuppressed PROVE CallersInv'
BY KeepCallers DEF SettleSuppressed, OpToken, StoreToken

LEMMA SettleObservedCallers == ASSUME TypeOK, CallersInv, SettleObserved PROVE CallersInv'
BY KeepCallers DEF SettleObserved, Settled, Idle, OpToken, DispatchKinds, NoOp, OpOf, OpOK, Ops, StoreToken

LEMMA AcceptRecallCallers == ASSUME TypeOK, CallersInv, AcceptRecall PROVE CallersInv'
BY KeepCallers DEF AcceptRecall, OpToken, DispatchKinds, NoOp, OpOf, OpOK, Ops, StoreToken

LEMMA HandoffSendCallers == ASSUME TypeOK, CallersInv, HandoffSend PROVE CallersInv'
BY KeepCallers DEF HandoffSend, OpToken, DispatchKinds, NoOp, OpOf, OpOK, Ops, StoreToken

LEMMA DispatchPreparedCallers == ASSUME TypeOK, CallersInv, DispatchPrepared PROVE CallersInv'
BY KeepCallers DEF DispatchPrepared, Finishing, FinishFrame, OpToken, DispatchKinds, NoOp, OpOf, OpOK, Ops, StoreToken

LEMMA ObservationPreparedCallers == ASSUME TypeOK, CallersInv, ObservationPrepared PROVE CallersInv'
BY KeepCallers DEF ObservationPrepared, Finishing, FinishFrame, OpToken, DispatchKinds, NoOp, OpOf, OpOK, Ops, StoreToken

LEMMA ObservationDroppedCallers == ASSUME TypeOK, CallersInv, ObservationDropped PROVE CallersInv'
BY KeepCallers DEF ObservationDropped, Finishing, FinishFrame, OpToken, DispatchKinds, NoOp, OpOf, OpOK, Ops, StoreToken

LEMMA HandoffDroppedCallers == ASSUME TypeOK, CallersInv, HandoffDropped PROVE CallersInv'
BY KeepCallers DEF HandoffDropped, Finishing, FinishFrame, OpToken, DispatchKinds, NoOp, OpOf, OpOK, Ops, StoreToken

LEMMA HandoffAcceptedCallers == ASSUME TypeOK, CallersInv, HandoffAccepted PROVE CallersInv'
BY KeepCallers DEF HandoffAccepted, Finishing, FinishFrame, OpToken, DispatchKinds, NoOp, OpOf, OpOK, Ops, StoreToken

-----------------------------------------------------------------------------
(* The cancellations                                                       *)

LEMMA ReceiveDisconnectedCallers ==
  ASSUME TypeOK, CallersInv, ReceiveDisconnected PROVE CallersInv'
BY AbandonAll DEF ReceiveDisconnected

LEMMA ReceiveLaggedCallers == ASSUME TypeOK, CallersInv, ReceiveLagged PROVE CallersInv'
BY AbandonCallers DEF ReceiveLagged

LEMMA ReadinessLostCallers == ASSUME TypeOK, CallersInv, ReadinessLost PROVE CallersInv'
BY AbandonCallers DEF ReadinessLost

LEMMA SafetyDeadlineCallers == ASSUME TypeOK, CallersInv, SafetyDeadline PROVE CallersInv'
BY AbandonCallers DEF SafetyDeadline

LEMMA FinishOutdatedCallers == ASSUME TypeOK, CallersInv, FinishOutdated PROVE CallersInv'
BY AbandonCallers DEF FinishOutdated, FinishFrame

LEMMA DispatchLostCallers == ASSUME TypeOK, CallersInv, DispatchLost PROVE CallersInv'
BY AbandonCallers DEF DispatchLost, FinishFrame

LEMMA ObservationLostCallers == ASSUME TypeOK, CallersInv, ObservationLost PROVE CallersInv'
BY AbandonCallers DEF ObservationLost, FinishFrame

LEMMA LockoutChangedCallers == ASSUME TypeOK, CallersInv, LockoutChanged PROVE CallersInv'
<1>1. CASE lockout
  BY <1>1, AbandonCallers DEF LockoutChanged
<1>2. CASE ~lockout
  BY <1>2, KeepCallers DEF LockoutChanged, OpToken, StoreToken
<1> QED
  BY <1>1, <1>2

LEMMA HandoffFailedCallers == ASSUME TypeOK, CallersInv, HandoffFailed PROVE CallersInv'
<1>1. CASE op.req = NoReq
  BY <1>1, KeepCallers
  DEF HandoffFailed, FinishFrame, Finishing, OpToken, StoreToken, NoOp, OpOf, DispatchKinds
<1>2. CASE op.req # NoReq
  BY <1>2, AbandonCallers DEF HandoffFailed, FinishFrame
<1> QED
  BY <1>1, <1>2

LEMMA ReceiveGenerationCallers ==
  ASSUME TypeOK, CallersInv, ReceiveGeneration PROVE CallersInv'
<1>1. CASE Current
  BY <1>1, KeepCallers DEF ReceiveGeneration, OpToken, StoreToken
<1>2. CASE ~Current
  BY <1>2, AbandonAll DEF ReceiveGeneration, Transition
<1> QED
  BY <1>1, <1>2

-----------------------------------------------------------------------------
(* The mailboxes                                                           *)

\* A GO is never in the Scenes mailbox.
LEMMA MailReq == ASSUME TypeOK PROVE \A i \in DOMAIN sceneBox : sceneBox[i].req \notin CueRequests
<1>1. \A i \in DOMAIN sceneBox : sceneBox[i] \in Msgs
  BY DEF MailOK
<1> QED
  BY <1>1, RequestsAssumption DEF Msgs

LEMMA CueSet ==
  ASSUME TypeOK
  PROVE  /\ ToSet(cueBox) \subseteq CueRequests
         /\ \A r : r \in ToSet(cueBox) <=> \E i \in DOMAIN cueBox : cueBox[i] = r
BY DEF ToSet, MailOK

\* Taking a command takes its request out of the mailbox.
LEMMA TakeMail ==
  ASSUME TypeOK, CallersInv, HasCommand, TakeCommand, UNCHANGED cueBox \/ cueBox' = <<>>
  PROVE  /\ MailOnce' /\ MailKinds'
         /\ \A r \in Requests : InMailbox(r)' <=> /\ InMailbox(r) /\ r # Command.req
                                                  /\ cueBox' = cueBox \/ r \notin ToSet(cueBox)
         /\ Command.req \in Requests =>
              InMailbox(Command.req) /\ Command.kind = KindOf(Command.req)
<1>1. CASE held # NoMsg
  <2>1. held' = NoMsg /\ NoMsg.req = NoReq /\ sceneBox' = sceneBox /\ Command = held
    BY <1>1 DEF TakeCommand, Command, NoMsg
  <2>2. held.req \notin CueRequests
    BY <1>1, RequestsAssumption DEF MailOK, Msgs
  <2>3. MailOnce' /\ MailKinds'
    BY <2>1, RequestsAssumption DEF CallersInv, Once, Kinds, MailOnce, MailKinds
  <2>4. ASSUME NEW r \in Requests
        PROVE  InMailbox(r)' <=> /\ InMailbox(r) /\ r # held.req
                                 /\ cueBox' = cueBox \/ r \notin ToSet(cueBox)
    <3>1. \A i \in DOMAIN sceneBox : sceneBox[i].req = r => r # held.req /\ r \notin CueRequests
      BY RequestsAssumption, MailReq DEF CallersInv, Once, MailOnce
    <3> QED
      BY <2>1, <2>2, <3>1, CueSet, RequestsAssumption DEF InMailbox
  <2>5. held.req \in Requests => InMailbox(held.req) /\ held.kind = KindOf(held.req)
    BY DEF CallersInv, Kinds, MailKinds, InMailbox
  <2>6. \A r \in Requests : InMailbox(r)' <=> /\ InMailbox(r) /\ r # Command.req
                                              /\ cueBox' = cueBox \/ r \notin ToSet(cueBox)
    BY <2>1, <2>4
  <2>7. Command.req \in Requests => InMailbox(Command.req) /\ Command.kind = KindOf(Command.req)
    BY <2>1, <2>5
  <2> QED
    BY <2>3, <2>6, <2>7
<1>2. CASE held = NoMsg
  <2> DEFINE first == Head(sceneBox)
  <2>1. /\ sceneBox # <<>> /\ sceneBox' = Tail(sceneBox) /\ held' = held /\ held.req = NoReq
        /\ Command = first
    BY <1>2 DEF HasCommand, TakeCommand, Command, NoMsg
  <2>2. /\ first = sceneBox[1] /\ DOMAIN sceneBox = 1 .. Len(sceneBox) /\ Len(sceneBox) \in Nat
        /\ Len(sceneBox) >= 1 /\ first \in Msgs
        /\ DOMAIN sceneBox' = 1 .. Len(sceneBox) - 1
        /\ \A i \in 1 .. Len(sceneBox) - 1 : sceneBox'[i] = sceneBox[i + 1]
    BY <2>1, HeadTailProperties, LenProperties, EmptySeq DEF MailOK
  <2> HIDE DEF first
  <2>3. \A i \in DOMAIN sceneBox' : i + 1 \in DOMAIN sceneBox /\ sceneBox'[i] = sceneBox[i + 1]
    BY <2>2
  <2>4. MailOnce'
    BY <2>1, <2>2, <2>3 DEF CallersInv, Once, MailOnce
  <2>5. MailKinds'
    BY <2>1, <2>3 DEF CallersInv, Kinds, MailKinds
  <2>6. first.req \notin CueRequests
    BY <2>2, RequestsAssumption DEF Msgs
  <2>7. ASSUME NEW r \in Requests
        PROVE  (\E i \in DOMAIN sceneBox' : sceneBox'[i].req = r)
               <=> (\E i \in DOMAIN sceneBox : sceneBox[i].req = r) /\ r # first.req
    <3>1. ASSUME NEW i \in DOMAIN sceneBox', sceneBox'[i].req = r
          PROVE  (\E k \in DOMAIN sceneBox : sceneBox[k].req = r) /\ r # first.req
      <4>1. i + 1 \in DOMAIN sceneBox /\ sceneBox[i + 1].req = r /\ i + 1 # 1
        BY <2>2, <2>3, <3>1
      <4>2. r # first.req
        BY <2>2, <4>1 DEF CallersInv, Once, MailOnce
      <4> QED
        BY <4>1, <4>2
    <3>2. ASSUME NEW i \in DOMAIN sceneBox, sceneBox[i].req = r, r # first.req
          PROVE  \E k \in DOMAIN sceneBox' : sceneBox'[k].req = r
      <4>1. i - 1 \in DOMAIN sceneBox' /\ (i - 1) + 1 = i
        BY <2>2, <3>2
      <4> QED
        BY <2>3, <3>2, <4>1
    <3> QED
      BY <3>1, <3>2
  <2>8. ASSUME NEW r \in Requests
        PROVE  InMailbox(r)' <=> /\ InMailbox(r) /\ r # first.req
                                 /\ cueBox' = cueBox \/ r \notin ToSet(cueBox)
    <3>1. \A i \in DOMAIN sceneBox : sceneBox[i].req = r => r \notin CueRequests
      BY MailReq
    <3> QED
      BY <2>1, <2>6, <2>7, <3>1, CueSet, RequestsAssumption DEF InMailbox
  <2>9. first.req \in Requests => InMailbox(first.req) /\ first.kind = KindOf(first.req)
    BY <2>2 DEF CallersInv, Kinds, MailKinds, InMailbox
  <2>10. \A r \in Requests : InMailbox(r)' <=> /\ InMailbox(r) /\ r # Command.req
                                               /\ cueBox' = cueBox \/ r \notin ToSet(cueBox)
    BY <2>1, <2>8
  <2>11. Command.req \in Requests => InMailbox(Command.req) /\ Command.kind = KindOf(Command.req)
    BY <2>1, <2>9
  <2> QED
    BY <2>4, <2>5, <2>10, <2>11
<1> QED
  BY <1>1, <1>2

\* Sending a command puts its request into the mailbox.
LEMMA PutMail ==
  ASSUME TypeOK, CallersInv, NEW m \in Msgs, sceneBox' = Append(sceneBox, m),
         UNCHANGED <<held, cueBox>>,
         m.req \in Requests => ~InMailbox(m.req) /\ m.kind = KindOf(m.req)
  PROVE  /\ MailOnce' /\ MailKinds'
         /\ \A r \in Requests : InMailbox(r)' <=> InMailbox(r) \/ r = m.req
<1>1. /\ DOMAIN sceneBox = 1 .. Len(sceneBox) /\ Len(sceneBox) \in Nat
      /\ DOMAIN sceneBox' = 1 .. Len(sceneBox) + 1
      /\ \A i \in DOMAIN sceneBox : sceneBox'[i] = sceneBox[i]
      /\ sceneBox'[Len(sceneBox) + 1] = m
  BY AppendProperties, LenProperties DEF MailOK
<1>2. \A i \in DOMAIN sceneBox' : i \in DOMAIN sceneBox \/ i = Len(sceneBox) + 1
  BY <1>1
<1>3. \A i \in DOMAIN sceneBox : m.req \in Requests => sceneBox[i].req # m.req
  BY DEF InMailbox
<1>4. m.req \in Requests => held.req # m.req
  BY DEF InMailbox
<1>5. MailOnce'
  BY <1>1, <1>2, <1>3, <1>4 DEF CallersInv, Once, MailOnce
<1>6. MailKinds'
  BY <1>1, <1>2 DEF CallersInv, Kinds, MailKinds
<1>7. \A r \in Requests : (\E i \in DOMAIN sceneBox' : sceneBox'[i].req = r)
                         <=> (\E i \in DOMAIN sceneBox : sceneBox[i].req = r) \/ r = m.req
  BY <1>1, <1>2
<1>8. \A r \in Requests : InMailbox(r)' <=> InMailbox(r) \/ r = m.req
  BY <1>7 DEF InMailbox
<1> QED
  BY <1>5, <1>6, <1>8

\* A step that changes who is waiting in a mailbox, and nothing else.
LEMMA MailCallers ==
  ASSUME TypeOK, CallersInv, MailOnce', MailKinds',
         UNCHANGED <<waiting, OpToken, StoreToken>>,
         \A r \in Requests : \/ InMailbox(r)' <=> InMailbox(r)
                             \/ InMailbox(r)' <=> reply'[r] = "waiting",
         \A r \in Requests : \/ reply'[r] = reply[r]
                             \/ ~Queued(r) /\ r \notin OpToken /\ r \notin StoreToken,
         \A r \in Requests : (reply'[r] = "waiting" <=> reply[r] = "waiting")
                             <=> (InMailbox(r)' <=> InMailbox(r))
  PROVE  CallersInv'
<1>1. \A r : Queued(r)' <=> Queued(r)
  BY DEF Queued
<1>2. Once' /\ Kinds'
  BY DEF CallersInv, Once, Kinds, Injective
<1>3. Remembered' /\ Alone'
  BY <1>1 DEF CallersInv, Remembered, Alone, Keeps
<1> QED
  BY <1>2, <1>3 DEF CallersInv

LEMMA SendCommandCallers ==
  ASSUME TypeOK, CallersInv, NEW r \in Requests, SendCommand(r) PROVE CallersInv'
<1> DEFINE m == [kind |-> IF r \in StoreRequests THEN "store"
                          ELSE IF r \in ReplaceRequests THEN "replace" ELSE "recall",
                 req |-> r, gen |-> 0]
<1>1. m \in Msgs /\ m.req = r /\ m.kind = KindOf(r)
  BY DEF SendCommand, Msgs, KindOf
<1>2. sceneBox' = Append(sceneBox, m) /\ UNCHANGED <<held, cueBox>>
  BY DEF SendCommand
<1>3. ~InMailbox(r) /\ ~Queued(r) /\ r \notin OpToken /\ r \notin StoreToken
  BY DEF SendCommand, CallersInv, Remembered, Keeps
<1> HIDE DEF m
<1>4. MailOnce' /\ MailKinds' /\ \A q \in Requests : InMailbox(q)' <=> InMailbox(q) \/ q = r
  BY <1>1, <1>2, <1>3, PutMail
<1>5. \A q \in Requests : reply'[q] = IF q = r THEN "waiting" ELSE reply[q]
  BY DEF SendCommand, ReplyOK
<1>6. UNCHANGED <<waiting, OpToken, StoreToken>> /\ reply[r] = "idle"
  BY DEF SendCommand, OpToken, StoreToken
<1> QED
  BY <1>3, <1>4, <1>5, <1>6, MailCallers

LEMMA PressGoCallers ==
  ASSUME TypeOK, CallersInv, NEW r \in Requests, PressGo(r) PROVE CallersInv'
<1>1. ~InMailbox(r) /\ ~Queued(r) /\ r \notin OpToken /\ r \notin StoreToken
  BY DEF PressGo, CallersInv, Remembered, Keeps
<1>2. cueBox' = Append(cueBox, r) /\ UNCHANGED <<held, sceneBox>> /\ r \in CueRequests
  BY DEF PressGo
<1>3. /\ DOMAIN cueBox = 1 .. Len(cueBox) /\ Len(cueBox) \in Nat
      /\ DOMAIN cueBox' = 1 .. Len(cueBox) + 1
      /\ \A i \in DOMAIN cueBox : cueBox'[i] = cueBox[i]
      /\ cueBox'[Len(cueBox) + 1] = r
  BY <1>2, AppendProperties, LenProperties DEF MailOK
<1>4. \A i \in DOMAIN cueBox' : i \in DOMAIN cueBox \/ i = Len(cueBox) + 1
  BY <1>3
<1>5. \A i \in DOMAIN cueBox : cueBox[i] # r
  BY <1>1 DEF InMailbox
<1>6. MailOnce' /\ MailKinds'
  BY <1>2, <1>3, <1>4, <1>5 DEF CallersInv, Once, MailOnce, Kinds, MailKinds
<1>7. \A q \in Requests : (\E i \in DOMAIN cueBox' : cueBox'[i] = q)
                          <=> (\E i \in DOMAIN cueBox : cueBox[i] = q) \/ q = r
  BY <1>3, <1>4
<1>8. \A q \in Requests : InMailbox(q)' <=> InMailbox(q) \/ q = r
  BY <1>2, <1>7 DEF InMailbox
<1>9. \A q \in Requests : reply'[q] = IF q = r THEN "waiting" ELSE reply[q]
  BY DEF PressGo, ReplyOK
<1>10. UNCHANGED <<waiting, OpToken, StoreToken>> /\ reply[r] = "idle"
  BY DEF PressGo, OpToken, StoreToken
<1> QED
  BY <1>1, <1>6, <1>8, <1>9, <1>10, MailCallers

LEMMA OfferPeersCallers == ASSUME TypeOK, CallersInv, OfferPeers PROVE CallersInv'
<1> DEFINE m == [kind |-> "peersReady", req |-> NoReq, gen |-> gen]
<1>1. m \in Msgs /\ m.req \notin Requests
  BY RequestsAssumption DEF Msgs, LifecycleOK
<1>2. sceneBox' = Append(sceneBox, m) /\ UNCHANGED <<held, cueBox, reply>>
  BY DEF OfferPeers
<1> HIDE DEF m
<1>3. MailOnce' /\ MailKinds' /\ \A q \in Requests : InMailbox(q)' <=> InMailbox(q)
  BY <1>1, <1>2, PutMail
<1>4. UNCHANGED <<waiting, OpToken, StoreToken>>
  BY DEF OfferPeers, OpToken, StoreToken
<1> QED
  BY <1>2, <1>3, <1>4, MailCallers

LEMMA HoldCommandCallers == ASSUME TypeOK, CallersInv, HoldCommand PROVE CallersInv'
<1> DEFINE first == Head(sceneBox)
<1>1. /\ first = sceneBox[1] /\ DOMAIN sceneBox = 1 .. Len(sceneBox) /\ Len(sceneBox) \in Nat
      /\ Len(sceneBox) >= 1
      /\ DOMAIN sceneBox' = 1 .. Len(sceneBox) - 1
      /\ \A i \in 1 .. Len(sceneBox) - 1 : sceneBox'[i] = sceneBox[i + 1]
  BY HeadTailProperties, LenProperties, EmptySeq DEF HoldCommand, MailOK
<1>2. held' = first /\ held.req \notin Requests /\ cueBox' = cueBox
  BY RequestsAssumption DEF HoldCommand, NoMsg
<1> HIDE DEF first
<1>3. \A i \in DOMAIN sceneBox' : i + 1 \in DOMAIN sceneBox /\ i + 1 # 1
                                  /\ sceneBox'[i] = sceneBox[i + 1]
  BY <1>1
<1>4. MailOnce'
  BY <1>1, <1>2, <1>3 DEF CallersInv, Once, MailOnce
<1>5. MailKinds'
  BY <1>1, <1>2, <1>3 DEF CallersInv, Kinds, MailKinds
<1>6. \A r \in Requests : (\E i \in DOMAIN sceneBox' : sceneBox'[i].req = r) \/ first.req = r
                          <=> \E i \in DOMAIN sceneBox : sceneBox[i].req = r
  <2>1. \A i \in DOMAIN sceneBox : i = 1 \/ (i - 1 \in DOMAIN sceneBox' /\ (i - 1) + 1 = i)
    BY <1>1
  <2> QED
    BY <1>1, <1>3, <2>1
<1>7. \A r \in Requests : InMailbox(r)' <=> InMailbox(r)
  BY <1>2, <1>6 DEF InMailbox
<1>8. UNCHANGED <<waiting, OpToken, StoreToken, reply>>
  BY DEF HoldCommand, OpToken, StoreToken
<1> QED
  BY <1>4, <1>5, <1>7, <1>8, MailCallers

-----------------------------------------------------------------------------
(* The commands                                                            *)

LEMMA NotBusy == ASSUME ~Busy PROVE OpToken = {} /\ StoreToken = {} /\ op.kind = "none"
BY DEF Busy, Idle, OpToken, StoreToken, DispatchKinds

LEMMA RecallCommandCallers == ASSUME TypeOK, CallersInv, RecallCommand PROVE CallersInv'
<1> DEFINE r == Command.req
<1>1. /\ MailOnce' /\ MailKinds' /\ InMailbox(r)
      /\ \A q \in Requests : InMailbox(q)' <=> InMailbox(q) /\ q # r
      /\ r \in RecallRequests
  <2>1. HasCommand /\ TakeCommand /\ cueBox' = cueBox /\ Command \in Msgs
        /\ Command.kind = "recall"
    BY CommandType DEF RecallCommand
  <2> QED
    BY <2>1, TakeMail, MsgReq DEF KindOf, RecallRequests
<1>2. OpToken = {} /\ StoreToken = {} /\ StoreToken' = {} /\ UNCHANGED waiting
  BY NotBusy DEF RecallCommand, StoreToken
<1>3. \/ OpToken' = {r} /\ reply' = reply
      \/ OpToken' = {} /\ \A q \in Requests : reply'[q] = IF q = r THEN "err" ELSE reply[q]
  <2>1. CASE CanAdmit
    BY <2>1 DEF RecallCommand, BeginAdmission, OpOf, OpToken
  <2>2. CASE ~CanAdmit
    BY <1>2, <2>2 DEF RecallCommand, Failing, OpToken
  <2> QED
    BY <2>1, <2>2
<1> HIDE DEF r
<1>4. \A q : Queued(q)' <=> Queued(q)
  BY <1>2 DEF Queued
<1>5. Once' /\ Kinds'
  BY <1>1, <1>2, <1>3 DEF CallersInv, Once, Kinds, Injective
<1>6. Remembered' /\ Alone'
  BY <1>1, <1>2, <1>3, <1>4 DEF CallersInv, Remembered, Alone, Keeps, RecallRequests
<1> QED
  BY <1>5, <1>6 DEF CallersInv

LEMMA StoreCommandCallers == ASSUME TypeOK, CallersInv, StoreCommand PROVE CallersInv'
<1> DEFINE r == Command.req
<1>1. /\ MailOnce' /\ MailKinds' /\ InMailbox(r)
      /\ \A q \in Requests : InMailbox(q)' <=> InMailbox(q) /\ q # r
      /\ r \in StoreRequests /\ r \in Requests
  <2>1. HasCommand /\ TakeCommand /\ cueBox' = cueBox /\ Command \in Msgs
        /\ Command.kind = "store"
    BY CommandType DEF StoreCommand
  <2> QED
    BY <2>1, TakeMail, MsgReq DEF KindOf
<1>2. OpToken = {} /\ OpToken' = {} /\ StoreToken = {} /\ UNCHANGED waiting
  BY NotBusy DEF StoreCommand, OpToken
<1>3. \/ StoreToken' = {r} /\ reply' = reply
      \/ StoreToken' = {} /\ \A q \in Requests : reply'[q] = IF q = r THEN "err" ELSE reply[q]
  <2>1. CASE CanAdmit
    BY <1>1, <2>1, RequestsAssumption DEF StoreCommand, StoreToken, NoStore
  <2>2. CASE ~CanAdmit
    BY <1>2, <2>2 DEF StoreCommand, Failing, StoreToken
  <2> QED
    BY <2>1, <2>2
<1> HIDE DEF r
<1>4. \A q : Queued(q)' <=> Queued(q)
  BY <1>2 DEF Queued
<1>5. Once' /\ Kinds'
  BY <1>1, <1>2, <1>3 DEF CallersInv, Once, Kinds, Injective
<1>6. Remembered' /\ Alone'
  BY <1>1, <1>2, <1>3, <1>4 DEF CallersInv, Remembered, Alone, Keeps
<1> QED
  BY <1>5, <1>6 DEF CallersInv

LEMMA PeersReadyCommandCallers ==
  ASSUME TypeOK, CallersInv, PeersReadyCommand PROVE CallersInv'
<1>1. /\ MailOnce' /\ MailKinds'
      /\ \A q \in Requests : InMailbox(q)' <=> InMailbox(q)
  <2>1. HasCommand /\ TakeCommand /\ cueBox' = cueBox /\ Command \in Msgs
        /\ Command.kind = "peersReady"
    BY CommandType DEF PeersReadyCommand
  <2>2. Command.req \notin Requests
    BY <2>1, RequestsAssumption DEF Msgs
  <2> QED
    BY <2>1, <2>2, TakeMail
<1>2. OpToken = {} /\ StoreToken = {} /\ StoreToken' = {}
  BY NotBusy DEF PeersReadyCommand, StoreToken
<1>3. CASE gen = active
  <2>1. UNCHANGED <<waiting, reply, op>>
    BY <1>3 DEF PeersReadyCommand
  <2>2. OpToken' = OpToken
    BY <2>1 DEF OpToken
  <2> QED
    BY <1>1, <1>2, <2>1, <2>2, MailCallers
<1>4. CASE gen # active
  <2> DEFINE others == {}
  <2>1. AbandonRecall(<<>>, others)
    BY <1>4 DEF PeersReadyCommand, Transition
  <2>2. \A q \in Requests : reply'[q] = IF Queued(q) \/ q \in OpToken \/ q \in others
                                        THEN "err" ELSE reply[q]
    BY <2>1, QueuedSet DEF AbandonRecall, Failing
  <2>3. op' = NoOp /\ waiting' = <<>> /\ StoreToken' = StoreToken \ others
    BY <1>2, <2>1 DEF AbandonRecall
  <2>4. \A q : q \notin others
    OBVIOUS
  <2> HIDE DEF others
  <2> QED
    BY <1>1, <2>2, <2>3, <2>4, DropCallers
<1> QED
  BY <1>3, <1>4

LEMMA ReplaceCommandCallers == ASSUME TypeOK, CallersInv, ReplaceCommand PROVE CallersInv'
<1> DEFINE r == Command.req
           gone == IF cueBox' = cueBox THEN {} ELSE ToSet(cueBox)
           others == {r} \cup StoreToken \cup gone
<1>1. HasCommand /\ TakeCommand /\ Command \in Msgs /\ Command.kind = "replace"
      /\ (cueBox' = cueBox \/ cueBox' = <<>>) /\ StoreToken' = {}
  BY HeadTailProperties DEF ReplaceCommand, HasCommand, Command, MailOK, StoreToken
<1>2. r \in ReplaceRequests /\ r \in Requests
  BY <1>1, MsgReq, TakeMail DEF KindOf
<1>3. /\ MailOnce' /\ MailKinds' /\ InMailbox(r)
      /\ \A q \in Requests : InMailbox(q)' <=> InMailbox(q) /\ q # r /\ q \notin gone
  BY <1>1, <1>2, TakeMail
<1>4. \A q \in StoreToken : ~InMailbox(q)
  BY RequestsAssumption DEF CallersInv, Alone, Kinds
<1>5. \A q \in Requests : InMailbox(q)' <=> InMailbox(q) /\ q \notin others
  BY <1>3, <1>4
<1>6. StoreToken' = StoreToken \ others
  BY <1>1
<1>7. CASE /\ op' = NoOp /\ waiting' = <<>> /\ cueBox' = <<>>
           /\ reply' = [Failing(ToSet(waiting) \cup OpToken \cup StoreToken \cup ToSet(cueBox))
                          EXCEPT ![r] = "ok"]
  <2>1. \A q : q \in gone <=> q \in ToSet(cueBox)
    BY <1>7 DEF ToSet
  <2>2. \A q \in Requests : IF Queued(q) \/ q \in OpToken \/ q \in others
                            THEN reply'[q] # "waiting" ELSE reply'[q] = reply[q]
    <3> HIDE DEF gone
    <3> QED
      BY <1>2, <1>7, <2>1, QueuedSet DEF Failing
  <2> HIDE DEF others
  <2> QED
    BY <1>3, <1>5, <1>6, <1>7, <2>2, DropCallers
<1>8. CASE ~Idle /\ AbandonRecall(Retained, {r} \cup StoreToken) /\ cueBox' = cueBox
  <2>1. op' = NoOp /\ waiting' = <<>>
    BY <1>8 DEF AbandonRecall
  <2>2. \A q \in Requests : IF Queued(q) \/ q \in OpToken \/ q \in others
                            THEN reply'[q] # "waiting" ELSE reply'[q] = reply[q]
    BY <1>8, QueuedSet DEF Failing, AbandonRecall
  <2> HIDE DEF others
  <2> QED
    BY <1>3, <1>5, <1>6, <2>1, <2>2, DropCallers
<1>9. CASE Idle /\ reply' = Failing({r} \cup StoreToken) /\ UNCHANGED <<op, coordVars>>
           /\ cueBox' = cueBox
  <2>1. OpToken = {} /\ OpToken' = {} /\ waiting' = waiting
    BY <1>9 DEF Idle, OpToken, DispatchKinds
  <2>2. \A q \in Requests : reply'[q] = IF q \in others THEN "err" ELSE reply[q]
    BY <1>9 DEF Failing
  <2>3. \A q : Queued(q)' <=> Queued(q)
    BY <2>1 DEF Queued
  <2>4. \A q \in others : ~Queued(q)
    BY <1>3, <1>9, RequestsAssumption DEF CallersInv, Alone, Kinds, Queued, RecallRequests
  <2>5. Once' /\ Kinds'
    BY <1>1, <1>3, <2>1 DEF CallersInv, Once, Kinds, Injective
  <2> HIDE DEF others
  <2>6. Remembered' /\ Alone'
    BY <1>1, <1>5, <1>6, <2>1, <2>2, <2>3, <2>4 DEF CallersInv, Remembered, Alone, Keeps
  <2> QED
    BY <2>5, <2>6 DEF CallersInv
<1> QED
  <2> HIDE DEF others, gone
  <2> QED
    BY <1>7, <1>8, <1>9 DEF ReplaceCommand

LEMMA CueCommandCallers == ASSUME TypeOK, CallersInv, CueCommand PROVE CallersInv'
<1> DEFINE r == Head(cueBox)
<1>1. /\ r = cueBox[1] /\ DOMAIN cueBox = 1 .. Len(cueBox) /\ Len(cueBox) \in Nat
      /\ Len(cueBox) >= 1 /\ r \in CueRequests
      /\ DOMAIN cueBox' = 1 .. Len(cueBox) - 1
      /\ \A i \in 1 .. Len(cueBox) - 1 : cueBox'[i] = cueBox[i + 1]
  BY HeadTailProperties, LenProperties, EmptySeq DEF CueCommand, MailOK
<1>2. OpToken = {} /\ StoreToken = {} /\ StoreToken' = {} /\ UNCHANGED <<waiting, sceneBox, held>>
  BY NotBusy DEF CueCommand, StoreToken
<1>0. InMailbox(r) /\ r \in Requests /\ reply[r] = "waiting"
  <2>1. 1 \in DOMAIN cueBox /\ cueBox[1] = r
    BY <1>1
  <2> HIDE DEF r
  <2>2. InMailbox(r)
    BY <2>1 DEF InMailbox
  <2> QED
    BY <1>1, <2>2, RequestsAssumption DEF CallersInv, Remembered, Keeps
<1>3. \/ OpToken' = {r} /\ reply' = reply
      \/ OpToken' = {} /\ \A q \in Requests : reply'[q] = IF q = r THEN "err" ELSE reply[q]
  <2>1. CASE reply' = reply
    <3>1. reply'[r] # "err"
      BY <1>0, <2>1
    <3>2. op' = OpOf("admission", r, active)
      BY <1>1, <2>1, <3>1, RequestsAssumption DEF CueCommand, Failing, BeginAdmission
    <3> QED
      BY <2>1, <3>2 DEF OpToken, OpOf
  <2>2. CASE reply' = Failing({r}) /\ op' = op
    BY <1>2, <2>2 DEF OpToken, Failing
  <2> QED
    BY <2>1, <2>2 DEF CueCommand
<1> HIDE DEF r
<1>4. r \in RecallRequests /\ r \in Requests
  BY <1>1, RequestsAssumption DEF RecallRequests
<1>5. \A i \in DOMAIN cueBox' : i + 1 \in DOMAIN cueBox /\ i + 1 # 1
                                /\ cueBox'[i] = cueBox[i + 1]
  BY <1>1
<1>6. \A q : (\E i \in DOMAIN cueBox' : cueBox'[i] = q)
             <=> (\E i \in DOMAIN cueBox : cueBox[i] = q) /\ q # r
  <2>1. \A i \in DOMAIN cueBox : i = 1 \/ (i - 1 \in DOMAIN cueBox' /\ (i - 1) + 1 = i)
    BY <1>1
  <2>2. \A i \in DOMAIN cueBox' : cueBox'[i] # r
    BY <1>1, <1>5 DEF CallersInv, Once, MailOnce
  <2> QED
    BY <1>1, <1>5, <2>1, <2>2
<1>7. held.req # r /\ \A i \in DOMAIN sceneBox : sceneBox[i].req # r
  BY <1>1, MailReq, RequestsAssumption DEF MailOK, Msgs, NoMsg
<1>8. ASSUME NEW q \in Requests PROVE InMailbox(q)' <=> InMailbox(q) /\ q # r
  <2>1. \A i \in DOMAIN sceneBox' : sceneBox'[i].req = sceneBox[i].req
    BY <1>2
  <2> QED
    BY <1>2, <1>6, <1>7, <2>1 DEF InMailbox
<1>9. MailOnce' /\ MailKinds'
  <2>1. \A i, j \in DOMAIN cueBox' : cueBox'[i] = cueBox'[j] => i = j
    BY <1>1, <1>5 DEF CallersInv, Once, MailOnce
  <2> QED
    BY <1>2, <2>1 DEF CallersInv, Once, MailOnce, Kinds, MailKinds
<1>10. \A q : Queued(q)' <=> Queued(q)
  BY <1>2 DEF Queued
<1>11. Once' /\ Kinds'
  BY <1>2, <1>3, <1>4, <1>9 DEF CallersInv, Once, Kinds, Injective
<1>12. Remembered' /\ Alone'
  BY <1>0, <1>2, <1>3, <1>4, <1>8, <1>10 DEF CallersInv, Remembered, Alone, Keeps
<1> QED
  BY <1>11, <1>12 DEF CallersInv

LEMMA FinishStoreCallers == ASSUME TypeOK, CallersInv, FinishStore PROVE CallersInv'
<1>1. /\ StoreToken = {store.req} /\ StoreToken' = {}
      /\ UNCHANGED <<waiting, sceneBox, held, cueBox, OpToken>>
      /\ store.req \in StoreRequests
  BY DEF FinishStore, StoreToken, OpToken, CallersInv, Kinds
<1>2. \A q \in Requests : IF q = store.req THEN reply'[q] # "waiting" ELSE reply'[q] = reply[q]
  BY DEF FinishStore, Answering, Failing
<1>3. MailOnce' /\ MailKinds' /\ \A q : InMailbox(q)' <=> InMailbox(q)
  BY <1>1, SameMail
<1>4. \A q : Queued(q)' <=> Queued(q)
  BY <1>1 DEF Queued
<1>5. ~Queued(store.req) /\ store.req \notin OpToken /\ ~InMailbox(store.req)
  BY <1>1, RequestsAssumption DEF CallersInv, Alone, Kinds, Queued, RecallRequests
<1>6. Once' /\ Kinds'
  BY <1>1, <1>3 DEF CallersInv, Once, Kinds, Injective
<1>7. Remembered' /\ Alone'
  BY <1>1, <1>2, <1>3, <1>4, <1>5 DEF CallersInv, Remembered, Alone, Keeps
<1> QED
  BY <1>6, <1>7 DEF CallersInv

LEMMA DispatchFinishedCallers == ASSUME TypeOK, CallersInv, DispatchFinished PROVE CallersInv'
<1>1. /\ OpToken = {op.req} /\ OpToken' = {}
      /\ UNCHANGED <<waiting, sceneBox, held, cueBox, StoreToken>>
  BY NoToken DEF DispatchFinished, Finishing, FinishFrame, OpToken, StoreToken, DispatchKinds
<1>2. \A q \in Requests : reply'[q] = IF q = op.req THEN "ok" ELSE reply[q]
  BY DEF DispatchFinished, Answering
<1>3. MailOnce' /\ MailKinds' /\ \A q : InMailbox(q)' <=> InMailbox(q)
  BY <1>1, SameMail
<1>4. \A q : Queued(q)' <=> Queued(q)
  BY <1>1 DEF Queued
<1>5. op.req \in RecallRequests
  BY <1>1 DEF CallersInv, Kinds
<1>6. ~Queued(op.req) /\ op.req \notin StoreToken /\ ~InMailbox(op.req)
  BY <1>1, <1>5, RequestsAssumption DEF CallersInv, Alone, Kinds, RecallRequests
<1>7. Once' /\ Kinds'
  BY <1>1, <1>3 DEF CallersInv, Once, Kinds, Injective
<1>8. Remembered' /\ Alone'
  BY <1>1, <1>2, <1>3, <1>4, <1>6 DEF CallersInv, Remembered, Alone, Keeps
<1> QED
  BY <1>7, <1>8 DEF CallersInv

-----------------------------------------------------------------------------
(* Starting the next recall                                                *)

\* The head of the FIFO becomes the token; without peers everyone in it is refused.
LEMMA StartNextPlaces ==
  ASSUME NEW queue \in Seq(RecallRequests), Injective(queue), NEW answers,
         StartNext(queue, answers)
  PROVE  /\ waiting' \in Seq(RecallRequests) /\ Injective(waiting)'
         /\ OpToken' \subseteq RecallRequests
         /\ \A r : ~(Queued(r)' /\ r \in OpToken')
         /\ \/ /\ \A r : Queued(r)' \/ r \in OpToken' <=> r \in ToSet(queue)
               /\ reply' = answers
            \/ /\ \A r : ~Queued(r)' /\ r \notin OpToken'
               /\ \A r \in Requests :
                    reply'[r] = IF r \in ToSet(queue) THEN "err" ELSE answers[r]
<1>1. CASE queue = <<>>
  <2>1. waiting' = <<>> /\ OpToken' = {} /\ reply' = answers
    BY <1>1, NoToken DEF StartNext
  <2>2. waiting' \in Seq(RecallRequests) /\ Injective(waiting)' /\ \A r : ~Queued(r)'
    BY <2>1 DEF Queued, Injective
  <2>3. ToSet(queue) = {}
    BY <1>1 DEF ToSet
  <2> QED
    BY <2>1, <2>2, <2>3
<1>2. CASE queue # <<>> /\ HasPeers(active)
  <2> DEFINE h == Head(queue)
  <2>1. waiting' = Tail(queue) /\ OpToken' = {h} /\ reply' = answers
    BY <1>2 DEF StartNext, OpToken, OpOf, DispatchKinds
  <2>2. /\ h = queue[1] /\ DOMAIN queue = 1 .. Len(queue) /\ Len(queue) \in Nat
        /\ Len(queue) >= 1 /\ h \in RecallRequests
        /\ waiting' \in Seq(RecallRequests)
        /\ DOMAIN waiting' = 1 .. Len(queue) - 1
        /\ \A i \in 1 .. Len(queue) - 1 : waiting'[i] = queue[i + 1]
    BY <1>2, <2>1, HeadTailProperties, LenProperties, EmptySeq
  <2> HIDE DEF h
  <2>3. \A i \in DOMAIN waiting' : i + 1 \in DOMAIN queue /\ i + 1 # 1
                                   /\ waiting'[i] = queue[i + 1]
    BY <2>2
  <2>4. \A i \in DOMAIN queue : i = 1 \/ (i - 1 \in DOMAIN waiting' /\ (i - 1) + 1 = i)
    BY <2>2
  <2>5. Injective(waiting)'
    BY <2>2, <2>3 DEF Injective
  <2>6. \A r : r \in ToSet(queue) <=> \E i \in DOMAIN queue : queue[i] = r
    BY DEF ToSet
  <2>7. \A r : Queued(r)' <=> \E i \in DOMAIN waiting' : waiting'[i] = r
    BY DEF Queued
  <2>8. \A i \in DOMAIN waiting' : waiting'[i] # h
    BY <2>2, <2>3 DEF Injective
  <2>9. \A r : Queued(r)' \/ r \in OpToken' <=> r \in ToSet(queue)
    BY <2>1, <2>2, <2>3, <2>4, <2>6, <2>7
  <2> QED
    BY <2>1, <2>2, <2>5, <2>7, <2>8, <2>9
<1>3. CASE queue # <<>> /\ ~HasPeers(active)
  <2>1. waiting' = <<>> /\ OpToken' = {}
        /\ reply' = [r \in Requests |-> IF r \in ToSet(queue) THEN "err" ELSE answers[r]]
    BY <1>3, NoToken DEF StartNext
  <2>2. waiting' \in Seq(RecallRequests) /\ Injective(waiting)' /\ \A r : ~Queued(r)'
    BY <2>1 DEF Queued, Injective
  <2> QED
    BY <2>1, <2>2
<1> QED
  BY <1>1, <1>2, <1>3

\* A turn that refuses gone and starts the next recall of what is left.
LEMMA StartCallers ==
  ASSUME TypeOK, CallersInv, UNCHANGED <<mailVars, StoreToken>>,
         NEW queue \in Seq(RecallRequests), Injective(queue), NEW gone, NEW answers,
         \A r \in Requests : answers[r] = IF r \in gone THEN "err" ELSE reply[r],
         \A r \in gone : r \notin ToSet(queue),
         \A r : r \in ToSet(queue) \/ r \in gone <=> Queued(r) \/ r \in OpToken,
         StartIfIdle(queue, answers) \/ StartNext(queue, answers)
  PROVE  CallersInv'
<1>1. /\ waiting' \in Seq(RecallRequests) /\ Injective(waiting)'
      /\ OpToken' \subseteq RecallRequests
      /\ \A r : ~(Queued(r)' /\ r \in OpToken')
      /\ \/ /\ \A r : Queued(r)' \/ r \in OpToken' <=> r \in ToSet(queue)
            /\ reply' = answers
         \/ /\ \A r : ~Queued(r)' /\ r \notin OpToken'
            /\ \A r \in Requests :
                 reply'[r] = IF r \in ToSet(queue) THEN "err" ELSE answers[r]
  <2>1. CASE StartNext(queue, answers)
    BY <2>1, StartNextPlaces
  <2>2. CASE op' = NoOp /\ waiting' = queue /\ reply' = answers
    BY <2>2, NoToken DEF Queued, ToSet, Injective
  <2> QED
    BY <2>1, <2>2 DEF StartIfIdle
<1>2. MailOnce' /\ MailKinds' /\ \A r : InMailbox(r)' <=> InMailbox(r)
  BY SameMail
<1>3. Once' /\ Kinds'
  BY <1>1, <1>2 DEF CallersInv, Once, Kinds
<1>4. \A r \in StoreToken : r \notin ToSet(queue) /\ r \notin gone
  BY RequestsAssumption DEF CallersInv, Kinds, Queued, RecallRequests
<1>5. \A r \in Requests : InMailbox(r) => r \notin ToSet(queue) /\ r \notin gone
  BY DEF CallersInv, Alone
<1>6. Remembered' /\ Alone'
  BY <1>1, <1>2, <1>4, <1>5 DEF CallersInv, Remembered, Alone, Keeps
<1> QED
  BY <1>3, <1>6 DEF CallersInv

LEMMA ReleaseNextCallers ==
  ASSUME TypeOK, CallersInv, ReleaseNext PROVE CallersInv'
<1>1. CASE Idle
  <2> DEFINE none == {}
  <2>1. OpToken = {} /\ StartNext(waiting, reply) /\ UNCHANGED <<mailVars, StoreToken>>
    BY <1>1 DEF ReleaseNext, Idle, OpToken, DispatchKinds, StoreToken
  <2>2. waiting \in Seq(RecallRequests) /\ Injective(waiting)
    BY DEF CallersInv, Once, Kinds
  <2>3. \A r : r \in ToSet(waiting) \/ r \in none <=> Queued(r) \/ r \in OpToken
    BY <2>1, QueuedSet
  <2>4. \A r \in Requests : reply[r] = IF r \in none THEN "err" ELSE reply[r]
    OBVIOUS
  <2>5. \A r \in none : r \notin ToSet(waiting)
    OBVIOUS
  <2> HIDE DEF none
  <2> QED
    BY <2>1, <2>2, <2>3, <2>4, <2>5, StartCallers
<1>2. CASE ~Idle
  BY <1>2, KeepCallers DEF ReleaseNext, OpToken, StoreToken
<1> QED
  BY <1>1, <1>2

LEMMA ReadinessReleasesCallers == ASSUME TypeOK, CallersInv, ReadinessReleases PROVE CallersInv'
BY ReleaseNextCallers DEF ReadinessReleases

LEMMA IntervalElapsedCallers == ASSUME TypeOK, CallersInv, IntervalElapsed PROVE CallersInv'
BY ReleaseNextCallers DEF IntervalElapsed

\* A request whose turn ends with a refusal leaves the FIFO behind it.
LEMMA RefusedCallers ==
  ASSUME TypeOK, CallersInv, UNCHANGED <<mailVars, store>>, OpToken = {op.req},
         \/ StartIfIdle(waiting, Failing({op.req}))
         \/ StartNext(waiting, Failing({op.req}))
  PROVE  CallersInv'
<1> DEFINE gone == {op.req}
           answers == Failing(gone)
<1>1. waiting \in Seq(RecallRequests) /\ Injective(waiting)
  BY DEF CallersInv, Once, Kinds
<1>2. \A r : r \in ToSet(waiting) \/ r \in gone <=> Queued(r) \/ r \in OpToken
  BY QueuedSet
<1>3. \A r \in Requests : answers[r] = IF r \in gone THEN "err" ELSE reply[r]
  BY DEF Failing
<1>4. \A r \in gone : r \notin ToSet(waiting)
  BY QueuedSet DEF CallersInv, Alone, Kinds, RecallRequests
<1>5. StoreToken' = StoreToken
  BY DEF StoreToken
<1> HIDE DEF gone, answers
<1> QED
  BY <1>1, <1>2, <1>3, <1>4, <1>5, StartCallers DEF gone, answers

LEMMA AdmissionRefusedCallers == ASSUME TypeOK, CallersInv, AdmissionRefused PROVE CallersInv'
BY RefusedCallers DEF AdmissionRefused, Finishing, FinishFrame, OpToken

LEMMA DispatchInvalidCallers == ASSUME TypeOK, CallersInv, DispatchInvalid PROVE CallersInv'
BY RefusedCallers DEF DispatchInvalid, Finishing, FinishFrame, OpToken, DispatchKinds

LEMMA AdmissionAcceptedCallers ==
  ASSUME TypeOK, CallersInv, AdmissionAccepted PROVE CallersInv'
<1> DEFINE queue == Append(waiting, op.req)
           none == {}
<1>1. /\ OpToken = {op.req} /\ UNCHANGED <<mailVars, StoreToken>>
      /\ StartIfIdle(queue, reply) /\ op.req \in RecallRequests
  BY DEF AdmissionAccepted, Finishing, OpToken, StoreToken, CallersInv, Kinds
<1>2. waiting \in Seq(RecallRequests) /\ Injective(waiting) /\ ~Queued(op.req)
  BY <1>1 DEF CallersInv, Once, Kinds, Alone, RecallRequests
<1>3. /\ DOMAIN waiting = 1 .. Len(waiting) /\ Len(waiting) \in Nat
      /\ DOMAIN queue = 1 .. Len(waiting) + 1
      /\ \A i \in DOMAIN waiting : queue[i] = waiting[i]
      /\ queue[Len(waiting) + 1] = op.req /\ queue \in Seq(RecallRequests)
  BY <1>1, <1>2, AppendProperties, LenProperties
<1> HIDE DEF queue
<1>4. \A i \in DOMAIN queue : i \in DOMAIN waiting \/ i = Len(waiting) + 1
  BY <1>3
<1>5. Injective(queue)
  BY <1>2, <1>3, <1>4 DEF Injective, Queued
<1>6. \A r : (\E i \in DOMAIN queue : queue[i] = r)
             <=> (\E i \in DOMAIN waiting : waiting[i] = r) \/ r = op.req
  BY <1>3, <1>4
<1>7. \A r : r \in ToSet(queue) \/ r \in none <=> Queued(r) \/ r \in OpToken
  BY <1>1, <1>6 DEF ToSet, Queued
<1>8. \A r \in Requests : reply[r] = IF r \in none THEN "err" ELSE reply[r]
  OBVIOUS
<1>9. \A r \in none : r \notin ToSet(queue)
  OBVIOUS
<1> HIDE DEF none
<1> QED
  BY <1>1, <1>3, <1>5, <1>7, <1>8, <1>9, StartCallers

-----------------------------------------------------------------------------
(* No caller is lost                                                       *)

LEMMA InitCallers == Init => CallersInv
<1> SUFFICES ASSUME Init PROVE CallersInv
  OBVIOUS
<1>1. OpToken = {} /\ StoreToken = {} /\ held.req = NoReq
  BY DEF Init, OpToken, NoOp, OpOf, DispatchKinds, StoreToken, NoMsg
<1>2. Once /\ Kinds
  BY <1>1, RequestsAssumption DEF Init, Once, MailOnce, Injective, Kinds, MailKinds
<1>3. \A r \in Requests : ~InMailbox(r) /\ ~Queued(r) /\ reply[r] = "idle"
  BY <1>1, RequestsAssumption DEF Init, InMailbox, Queued
<1> QED
  BY <1>1, <1>2, <1>3 DEF CallersInv, Remembered, Alone, Keeps

LEMMA CallersStep == ASSUME TypeOK, CallersInv, [Next]_vars PROVE CallersInv'
<1>1. ASSUME NEW r \in Requests, SendCommand(r) PROVE CallersInv'
  BY <1>1, SendCommandCallers
<1>2. ASSUME NEW r \in Requests, PressGo(r) PROVE CallersInv'
  BY <1>2, PressGoCallers
<1>3. CASE FlipLockout
  BY <1>3, FlipLockoutCallers
<1>4. CASE Connect
  BY <1>4, ConnectCallers
<1>5. CASE OfferPeers
  BY <1>5, OfferPeersCallers
<1>6. ASSUME NEW b \in BOOLEAN, ClearRuntime(b) PROVE CallersInv'
  BY <1>6, ClearRuntimeCallers
<1>7. CASE Lv1Connected
  BY <1>7, Lv1ConnectedCallers
<1>8. CASE Lv1Lost
  BY <1>8, Lv1LostCallers
<1>9. CASE ConsoleEcho
  BY <1>9, ConsoleEchoCallers
<1>10. CASE ConsoleSilent
  BY <1>10, ConsoleSilentCallers
<1>11. CASE Overrun
  BY <1>11, OverrunCallers
<1>12. ASSUME NEW sc \in Scenes, ManualRecall(sc) PROVE CallersInv'
  BY <1>12, ManualRecallCallers
<1>13. CASE FadeAdmit
  BY <1>13, FadeAdmitCallers
<1>14. CASE FadeRefuse
  BY <1>14, FadeRefuseCallers
<1>15. ASSUME NEW result \in {"ok", "err"}, FadeBarrierEnds(result) PROVE CallersInv'
  BY <1>15, FadeBarrierEndsCallers
<1>16. CASE ReceiveStale
  BY <1>16, ReceiveStaleCallers
<1>17. CASE ReceiveSceneList
  BY <1>17, ReceiveSceneListCallers
<1>18. CASE ReceiveScene
  BY <1>18, ReceiveSceneCallers
<1>19. CASE ReceiveDisconnected
  BY <1>19, ReceiveDisconnectedCallers
<1>20. CASE ReceiveGeneration
  BY <1>20, ReceiveGenerationCallers
<1>21. CASE ReceiveLagged
  BY <1>21, ReceiveLaggedCallers
<1>22. CASE FinishLagRecovery
  BY <1>22, FinishLagRecoveryCallers
<1>23. CASE HoldCommand
  BY <1>23, HoldCommandCallers
<1>24. CASE RecallCommand
  BY <1>24, RecallCommandCallers
<1>25. CASE StoreCommand
  BY <1>25, StoreCommandCallers
<1>26. CASE PeersReadyCommand
  BY <1>26, PeersReadyCommandCallers
<1>27. CASE ReplaceCommand
  BY <1>27, ReplaceCommandCallers
<1>28. CASE CueCommand
  BY <1>28, CueCommandCallers
<1>29. CASE CueComplete
  BY <1>29, CueCompleteCallers
<1>30. CASE ReadinessLost
  BY <1>30, ReadinessLostCallers
<1>31. CASE ReadinessStartsInterval
  BY <1>31, ReadinessStartsIntervalCallers
<1>32. CASE ReadinessReleases
  BY <1>32, ReadinessReleasesCallers
<1>33. CASE IntervalElapsed
  BY <1>33, IntervalElapsedCallers
<1>34. CASE SafetyDeadline
  BY <1>34, SafetyDeadlineCallers
<1>35. CASE LockoutChanged
  BY <1>35, LockoutChangedCallers
<1>36. CASE LateExpires
  BY <1>36, LateExpiresCallers
<1>37. CASE SettleIgnored
  BY <1>37, SettleIgnoredCallers
<1>38. CASE SettleSuppressed
  BY <1>38, SettleSuppressedCallers
<1>39. CASE SettleObserved
  BY <1>39, SettleObservedCallers
<1>40. CASE AcceptRecall
  BY <1>40, AcceptRecallCallers
<1>41. CASE HandoffSend
  BY <1>41, HandoffSendCallers
<1>42. CASE FinishOutdated
  BY <1>42, FinishOutdatedCallers
<1>43. CASE AdmissionAccepted
  BY <1>43, AdmissionAcceptedCallers
<1>44. CASE AdmissionRefused
  BY <1>44, AdmissionRefusedCallers
<1>45. CASE DispatchPrepared
  BY <1>45, DispatchPreparedCallers
<1>46. CASE DispatchInvalid
  BY <1>46, DispatchInvalidCallers
<1>47. CASE DispatchLost
  BY <1>47, DispatchLostCallers
<1>48. CASE DispatchFinished
  BY <1>48, DispatchFinishedCallers
<1>49. CASE ObservationPrepared
  BY <1>49, ObservationPreparedCallers
<1>50. CASE ObservationDropped
  BY <1>50, ObservationDroppedCallers
<1>51. CASE ObservationLost
  BY <1>51, ObservationLostCallers
<1>52. CASE HandoffDropped
  BY <1>52, HandoffDroppedCallers
<1>53. CASE HandoffAccepted
  BY <1>53, HandoffAcceptedCallers
<1>54. CASE HandoffFailed
  BY <1>54, HandoffFailedCallers
<1>55. CASE FinishStore
  BY <1>55, FinishStoreCallers
<1>56. CASE UNCHANGED vars
  BY <1>56, KeepCallers DEF vars, OpToken, StoreToken
<1> QED
  BY <1>1, <1>2, <1>3, <1>4, <1>5, <1>6, <1>7, <1>8, <1>9, <1>10, <1>11, <1>12,
     <1>13, <1>14, <1>15, <1>16, <1>17, <1>18, <1>19, <1>20, <1>21, <1>22, <1>23, <1>24,
     <1>25, <1>26, <1>27, <1>28, <1>29, <1>30, <1>31, <1>32, <1>33, <1>34, <1>35, <1>36,
     <1>37, <1>38, <1>39, <1>40, <1>41, <1>42, <1>43, <1>44, <1>45, <1>46, <1>47, <1>48,
     <1>49, <1>50, <1>51, <1>52, <1>53, <1>54, <1>55, <1>56
  DEF Next, Callers, Lifecycle, Lv1, Fade, ScenesActor, EventBranch, CommandBranch,
         ReadinessBranch, TimerBranch, SettleBranch, OpBranch

\* Every caller still waiting for an answer is remembered in exactly one place that
\* will answer it, whatever is canceled on the way: no reply channel is dropped and
\* no request can be answered twice.
THEOREM CallersCorrect == Spec => []NoLostCaller
<1>1. Init => TypeOK /\ CallersInv
  BY InitType, InitCallers
<1>2. TypeOK /\ CallersInv /\ [Next]_vars => TypeOK' /\ CallersInv'
  BY TypeStep, CallersStep
<1>3. CallersInv => NoLostCaller
  BY CallersImplyOwner
<1> QED
  BY <1>1, <1>2, <1>3, PTL DEF Spec

-----------------------------------------------------------------------------
(* The abstract FIFO.  Its queue is the request being dispatched followed   *)
(* by those waiting; OneInFlight keeps a dispatch and a recall in flight    *)
(* apart, and CallersInv tells which callers a cancellation finds waiting.  *)

FifoStep == [Fifo!Next]_(Fifo!fifoVars)

LEMMA PushCells ==
  ASSUME NEW T, NEW x \in T, NEW s \in Seq(T), NEW q, q = <<x>> \o s
  PROVE  /\ q \in Seq(T) /\ Len(q) = Len(s) + 1 /\ Len(s) \in Nat
         /\ DOMAIN q = 1 .. Len(s) + 1 /\ DOMAIN s = 1 .. Len(s)
         /\ q[1] = x /\ \A i \in DOMAIN s : q[i + 1] = s[i]
<1>1. <<x>> \in Seq(T) /\ Len(<<x>>) = 1 /\ <<x>>[1] = x
  OBVIOUS
<1>2. /\ q \in Seq(T) /\ Len(q) = Len(s) + 1 /\ Len(s) \in Nat
      /\ \A i \in 1 .. Len(s) + 1 : q[i] = IF i <= 1 THEN <<x>>[i] ELSE s[i - 1]
  BY <1>1, ConcatProperties, LenProperties
<1> QED
  BY <1>1, <1>2, LenProperties

LEMMA PushFront ==
  ASSUME NEW T, NEW x \in T, NEW s \in Seq(T), NEW q, q = <<x>> \o s
  PROVE  q # <<>> /\ Head(q) = x /\ Tail(q) = s
<1>1. /\ q \in Seq(T) /\ Len(q) = Len(s) + 1 /\ Len(s) \in Nat
      /\ DOMAIN q = 1 .. Len(s) + 1 /\ DOMAIN s = 1 .. Len(s)
      /\ q[1] = x /\ \A i \in DOMAIN s : q[i + 1] = s[i]
  BY PushCells
<1>2. q # <<>> /\ Head(q) = x
  BY <1>1, EmptySeq, HeadTailProperties
<1>3. Tail(q) \in Seq(T) /\ Len(Tail(q)) = Len(q) - 1
      /\ \A i \in 1 .. Len(Tail(q)) : Tail(q)[i] = q[i + 1]
  BY <1>1, <1>2, HeadTailProperties
<1>4. Len(Tail(q)) = Len(s) /\ \A i \in 1 .. Len(s) : Tail(q)[i] = s[i]
  BY <1>1, <1>3
<1> QED
  BY <1>2, <1>3, <1>4, SeqEqual

LEMMA HeadFirst ==
  ASSUME NEW T, NEW s \in Seq(T), s # <<>>
  PROVE  <<Head(s)>> \o Tail(s) = s
<1> DEFINE q == <<Head(s)>> \o Tail(s)
<1>1. Head(s) \in T /\ Tail(s) \in Seq(T) /\ Len(Tail(s)) = Len(s) - 1 /\ Len(s) \in Nat
      /\ Head(s) = s[1] /\ \A i \in 1 .. Len(s) - 1 : Tail(s)[i] = s[i + 1]
  BY HeadTailProperties, LenProperties, EmptySeq
<1>2. <<Head(s)>> \in Seq(T) /\ Len(<<Head(s)>>) = 1 /\ <<Head(s)>>[1] = Head(s)
  BY <1>1
<1>3. /\ q \in Seq(T) /\ Len(q) = 1 + Len(Tail(s))
      /\ \A i \in 1 .. 1 + Len(Tail(s)) :
           q[i] = IF i <= 1 THEN <<Head(s)>>[i] ELSE Tail(s)[i - 1]
  BY <1>1, <1>2, ConcatProperties
<1> HIDE DEF q
<1>4. Len(q) = Len(s) /\ \A i \in 1 .. Len(s) : q[i] = s[i]
  BY <1>1, <1>2, <1>3
<1> QED
  BY <1>3, <1>4, SeqEqual DEF q

\* The abstract queue in each phase of the pending operation.
LEMMA QueueIs ==
  ASSUME TypeOK
  PROVE  /\ ~Dispatching => FifoQueue = waiting
         /\ Dispatching => /\ FifoQueue # <<>> /\ Head(FifoQueue) = op.req
                           /\ Tail(FifoQueue) = waiting
         /\ \A r : Fifo!Member(r) <=> Queued(r) \/ (Dispatching /\ r = op.req)
<1>1. waiting \in Seq(Requests) /\ (Dispatching => op.req \in Requests)
  BY DEF CoordOK, Dispatching, OpOK, Ops, DispatchKinds
<1>2. CASE ~Dispatching
  <2>1. FifoQueue = waiting
    BY <1>1, <1>2, ConcatEmptySeq DEF FifoQueue
  <2> QED
    BY <1>2, <2>1 DEF Fifo!Member, Queued
<1>3. CASE Dispatching
  <2>1. FifoQueue = <<op.req>> \o waiting
    BY <1>3 DEF FifoQueue
  <2>2. FifoQueue # <<>> /\ Head(FifoQueue) = op.req /\ Tail(FifoQueue) = waiting
    BY <1>1, <1>3, <2>1, PushFront
  <2>3. ASSUME NEW r
        PROVE  (\E i \in DOMAIN FifoQueue : FifoQueue[i] = r)
               <=> r = op.req \/ \E i \in DOMAIN waiting : waiting[i] = r
    <3>1. /\ DOMAIN FifoQueue = 1 .. Len(waiting) + 1 /\ DOMAIN waiting = 1 .. Len(waiting)
          /\ Len(waiting) \in Nat /\ FifoQueue[1] = op.req
          /\ \A i \in DOMAIN waiting : FifoQueue[i + 1] = waiting[i]
      BY <1>1, <1>3, <2>1, PushCells
    <3>2. \A i \in DOMAIN FifoQueue : i = 1 \/ (i - 1 \in DOMAIN waiting /\ (i - 1) + 1 = i)
      BY <3>1
    <3>3. 1 \in DOMAIN FifoQueue /\ \A i \in DOMAIN waiting : i + 1 \in DOMAIN FifoQueue
      BY <3>1
    <3> QED
      BY <3>1, <3>2, <3>3
  <2> QED
    BY <1>3, <2>2, <2>3 DEF Fifo!Member, Queued
<1> QED
  BY <1>2, <1>3

\* A step that admits, dispatches, finishes and refuses nothing.
LEMMA KeepFifo ==
  ASSUME UNCHANGED waiting, inflight'.req = inflight.req,
         Dispatching' <=> Dispatching, Dispatching => op'.req = op.req,
         UNCHANGED reply \/ \A r \in RecallRequests : reply'[r] = reply[r]
  PROVE  FifoStep
<1>1. FifoQueue' = FifoQueue
  BY DEF FifoQueue
<1>2. FifoOutcome' = FifoOutcome
  BY DEF FifoOutcome
<1> QED
  BY <1>1, <1>2 DEF FifoStep, Fifo!fifoVars

LEMMA NoDispatch == ASSUME op' = NoOp PROVE ~Dispatching'
BY DEF Dispatching, DispatchKinds, NoOp, OpOf

\* A step that gives up every admitted request, with requests still being admitted
\* or in a mailbox.
LEMMA CancelFifo ==
  ASSUME TypeOK, CallersInv, waiting' = <<>>, ~Dispatching', inflight' = NoFlight,
         \A r \in RecallRequests :
            IF Queued(r) \/ r \in OpToken THEN reply'[r] = "err"
            ELSE reply'[r] = reply[r] \/ (reply[r] = "waiting" /\ reply'[r] = "err")
  PROVE  FifoStep
<1> DEFINE others == {r \in RecallRequests : reply'[r] # reply[r] /\ ~Fifo!Member(r)}
<1>1. FifoQueue' = <<>> /\ inflight'.req = NoReq
  BY ConcatEmptySeq DEF FifoQueue, NoFlight
<1>2. \A r \in RecallRequests : Fifo!Member(r) => Queued(r) \/ r \in OpToken
  BY QueueIs DEF Dispatching, OpToken
<1>3. \A r \in RecallRequests : r \in OpToken => reply[r] = "waiting"
  BY DEF CallersInv, Remembered, Keeps, RecallRequests
<1>4. \A r \in RecallRequests : Queued(r) => Fifo!Member(r)
  BY QueueIs
<1>5. \A r \in others : r \in RecallRequests /\ reply[r] = "waiting" /\ ~Fifo!Member(r)
  BY <1>3, <1>4
<1>6. \A r \in RecallRequests :
         reply'[r] = IF Fifo!Member(r) \/ r \in others THEN "err" ELSE reply[r]
  BY <1>2, <1>3
<1>7. FifoOutcome' = [r \in RecallRequests |->
                        IF Fifo!Member(r) \/ r \in others THEN "err" ELSE FifoOutcome[r]]
  BY <1>6 DEF FifoOutcome
<1>8. others \in SUBSET {r \in RecallRequests : FifoOutcome[r] = "waiting" /\ ~Fifo!Member(r)}
  BY <1>5 DEF FifoOutcome
<1> HIDE DEF others
<1>9. Fifo!CancelAll
  BY <1>1, <1>7, <1>8 DEF Fifo!CancelAll
<1> QED
  BY <1>9 DEF FifoStep, Fifo!Next

LEMMA AbandonFifo ==
  ASSUME TypeOK, CallersInv, NEW ids, NEW others, AbandonRecall(ids, others),
         others = {} \/ others = StoreToken
  PROVE  FifoStep
<1>1. waiting' = <<>> /\ inflight' = NoFlight /\ ~Dispatching'
  BY NoDispatch DEF AbandonRecall
<1>2. \A r \in RecallRequests : r \notin others
  BY DEF CallersInv, Kinds, RecallRequests
<1>3. \A r \in RecallRequests : reply'[r] = IF Queued(r) \/ r \in OpToken THEN "err" ELSE reply[r]
  BY <1>2, QueuedSet DEF AbandonRecall, Failing, RecallRequests
<1> QED
  BY <1>1, <1>3, CancelFifo

\* Whatever is started, the abstract queue is what was to be dispatched.
LEMMA StartQueue ==
  ASSUME NEW queue \in Seq(Requests), NEW answers,
         StartIfIdle(queue, answers) \/ StartNext(queue, answers),
         queue = <<>> \/ HasPeers(active)
  PROVE  FifoQueue' = queue /\ reply' = answers
<1>1. CASE op' = NoOp /\ waiting' = queue /\ reply' = answers
  BY <1>1, NoDispatch, ConcatEmptySeq DEF FifoQueue
<1>2. CASE queue # <<>> /\ StartNext(queue, answers)
  <2>1. /\ op' = OpOf("dispatchSnapshot", Head(queue), active)
        /\ waiting' = Tail(queue) /\ reply' = answers
    BY <1>2 DEF StartNext
  <2>2. FifoQueue' = <<Head(queue)>> \o Tail(queue)
    BY <2>1 DEF FifoQueue, Dispatching, DispatchKinds, OpOf
  <2> QED
    BY <1>2, <2>1, <2>2, HeadFirst
<1>3. CASE queue = <<>> /\ StartNext(queue, answers)
  BY <1>1, <1>3 DEF StartNext
<1> QED
  BY <1>1, <1>2, <1>3 DEF StartIfIdle

\* A caller whose request is not in the FIFO asks, or is refused.
LEMMA AskFifo ==
  ASSUME UNCHANGED <<waiting, inflight, op>>, NEW r \in RecallRequests, reply[r] = "idle",
         \A q \in RecallRequests : reply'[q] = IF q = r THEN "waiting" ELSE reply[q]
  PROVE  FifoStep
<1>1. FifoQueue' = FifoQueue
  BY DEF FifoQueue, Dispatching
<1>2. FifoOutcome' = [FifoOutcome EXCEPT ![r] = "waiting"] /\ FifoOutcome[r] = "idle"
  BY DEF FifoOutcome
<1>3. Fifo!Ask(r)
  BY <1>1, <1>2 DEF Fifo!Ask
<1> QED
  BY <1>3 DEF FifoStep, Fifo!Next

LEMMA RefuseFifo ==
  ASSUME FifoQueue' = FifoQueue, inflight'.req = inflight.req,
         NEW r \in RecallRequests, reply[r] = "waiting", ~Fifo!Member(r),
         \A q \in RecallRequests : reply'[q] = IF q = r THEN "err" ELSE reply[q]
  PROVE  FifoStep
<1>1. FifoOutcome' = [FifoOutcome EXCEPT ![r] = "err"] /\ FifoOutcome[r] = "waiting"
  BY DEF FifoOutcome
<1>2. Fifo!Refuse(r)
  BY <1>1 DEF Fifo!Refuse
<1> QED
  BY <1>2 DEF FifoStep, Fifo!Next

LEMMA SendCommandFifo ==
  ASSUME TypeOK, NEW r \in Requests, SendCommand(r) PROVE FifoStep
<1>1. /\ UNCHANGED <<waiting, inflight, op>> /\ reply[r] = "idle"
      /\ \A q \in Requests : reply'[q] = IF q = r THEN "waiting" ELSE reply[q]
  BY DEF SendCommand, ReplyOK
<1>2. CASE r \in RecallRequests
  BY <1>1, <1>2, AskFifo DEF RecallRequests
<1>3. CASE r \notin RecallRequests
  BY <1>1, <1>3, KeepFifo DEF RecallRequests, Dispatching
<1> QED
  BY <1>2, <1>3

LEMMA PressGoFifo ==
  ASSUME TypeOK, NEW r \in Requests, PressGo(r) PROVE FifoStep
<1>1. /\ UNCHANGED <<waiting, inflight, op>> /\ reply[r] = "idle"
      /\ \A q \in Requests : reply'[q] = IF q = r THEN "waiting" ELSE reply[q]
      /\ r \in RecallRequests
  BY RequestsAssumption DEF PressGo, ReplyOK, RecallRequests
<1> QED
  BY <1>1, AskFifo DEF RecallRequests

\* A caller whose command is refused at once was waiting outside the FIFO.
LEMMA RefusedAtOnce ==
  ASSUME TypeOK, CallersInv, NEW r \in RecallRequests, InMailbox(r), ~Dispatching,
         ~Dispatching', UNCHANGED <<waiting, inflight>>,
         UNCHANGED reply \/ reply' = Failing({r})
  PROVE  FifoStep
<1>1. CASE UNCHANGED reply
  BY <1>1, KeepFifo
<1>2. CASE reply' = Failing({r})
  <2>1. r \in Requests /\ reply[r] = "waiting" /\ ~Queued(r)
    BY DEF RecallRequests, CallersInv, Remembered, Keeps, Alone
  <2>2. FifoQueue' = FifoQueue
    BY DEF FifoQueue
  <2>3. \A q \in RecallRequests : reply'[q] = IF q = r THEN "err" ELSE reply[q]
    BY <1>2 DEF Failing, RecallRequests
  <2>4. ~Fifo!Member(r)
    BY <2>1, QueueIs
  <2> QED
    BY <2>1, <2>2, <2>3, <2>4, RefuseFifo
<1> QED
  BY <1>1, <1>2

LEMMA RecallCommandFifo == ASSUME TypeOK, CallersInv, RecallCommand PROVE FifoStep
<1>1. /\ HasCommand /\ TakeCommand /\ cueBox' = cueBox /\ Command \in Msgs
      /\ Command.kind = "recall"
  BY CommandType DEF RecallCommand
<1>2. Command.req \in RecallRequests /\ InMailbox(Command.req)
  BY <1>1, TakeMail, MsgReq DEF KindOf, RecallRequests
<1>3. ~Dispatching /\ ~Dispatching'
  BY NotBusy DEF RecallCommand, Dispatching, DispatchKinds, BeginAdmission, OpOf
<1> QED
  BY <1>2, <1>3, RefusedAtOnce DEF RecallCommand

LEMMA CueCommandFifo == ASSUME TypeOK, CallersInv, CueCommand PROVE FifoStep
<1>1. Head(cueBox) \in CueRequests /\ 1 \in DOMAIN cueBox /\ Head(cueBox) = cueBox[1]
  BY HeadTailProperties, LenProperties, EmptySeq DEF CueCommand, MailOK
<1>2. InMailbox(Head(cueBox)) /\ Head(cueBox) \in RecallRequests
  BY <1>1, RequestsAssumption DEF InMailbox, RecallRequests
<1>3. ~Dispatching /\ ~Dispatching'
  BY NotBusy DEF CueCommand, Dispatching, DispatchKinds, BeginAdmission, OpOf
<1> QED
  BY <1>2, <1>3, RefusedAtOnce DEF CueCommand

LEMMA StoreCommandFifo == ASSUME TypeOK, CallersInv, StoreCommand PROVE FifoStep
<1>1. HasCommand /\ TakeCommand /\ cueBox' = cueBox /\ Command \in Msgs
      /\ Command.kind = "store"
  BY CommandType DEF StoreCommand
<1>2. Command.req \in StoreRequests
  BY <1>1, TakeMail, MsgReq DEF KindOf
<1>3. \A q \in RecallRequests : reply'[q] = reply[q]
  BY <1>2 DEF StoreCommand, Failing, RecallRequests
<1> QED
  BY <1>3, KeepFifo DEF StoreCommand, Dispatching

LEMMA FinishStoreFifo == ASSUME TypeOK, CallersInv, FinishStore PROVE FifoStep
<1>1. store.req \in StoreRequests
  BY DEF FinishStore, StoreToken, CallersInv, Kinds
<1>2. \A q \in RecallRequests : reply'[q] = reply[q]
  BY <1>1 DEF FinishStore, Failing, Answering, RecallRequests
<1> QED
  BY <1>2, KeepFifo DEF FinishStore, Dispatching

LEMMA PeersReadyCommandFifo == ASSUME TypeOK, CallersInv, PeersReadyCommand PROVE FifoStep
<1>1. CASE gen # active
  BY <1>1, AbandonFifo DEF PeersReadyCommand, Transition
<1>2. CASE gen = active
  BY <1>2, KeepFifo DEF PeersReadyCommand, Dispatching
<1> QED
  BY <1>1, <1>2

LEMMA ReceiveGenerationFifo == ASSUME TypeOK, CallersInv, ReceiveGeneration PROVE FifoStep
<1>1. CASE Current
  BY <1>1, KeepFifo DEF ReceiveGeneration, Dispatching
<1>2. CASE ~Current
  BY <1>2, AbandonFifo DEF ReceiveGeneration, Transition
<1> QED
  BY <1>1, <1>2

LEMMA LockoutChangedFifo == ASSUME TypeOK, CallersInv, LockoutChanged PROVE FifoStep
<1>1. CASE lockout
  BY <1>1, AbandonFifo DEF LockoutChanged
<1>2. CASE ~lockout
  BY <1>2, KeepFifo DEF LockoutChanged, Dispatching
<1> QED
  BY <1>1, <1>2

LEMMA HandoffFailedFifo == ASSUME TypeOK, CallersInv, HandoffFailed PROVE FifoStep
<1>1. CASE op.req = NoReq
  BY <1>1, KeepFifo DEF HandoffFailed, Finishing, Dispatching, DispatchKinds, NoOp, OpOf
<1>2. CASE op.req # NoReq
  BY <1>2, AbandonFifo DEF HandoffFailed
<1> QED
  BY <1>1, <1>2

LEMMA ReplaceCommandFifo == ASSUME TypeOK, CallersInv, ReplaceCommand PROVE FifoStep
<1> DEFINE r == Command.req
<1>1. HasCommand /\ TakeCommand /\ Command \in Msgs /\ Command.kind = "replace"
      /\ (cueBox' = cueBox \/ cueBox' = <<>>)
  BY HeadTailProperties DEF ReplaceCommand, HasCommand, Command, MailOK
<1>2. r \in ReplaceRequests
  BY <1>1, MsgReq, TakeMail DEF KindOf
<1>3. \A q \in RecallRequests : q # r /\ q \in Requests /\ q \notin StoreToken
  BY <1>2 DEF CallersInv, Kinds, RecallRequests
<1>4. CASE /\ op' = NoOp /\ waiting' = <<>> /\ inflight' = NoFlight
           /\ reply' = [Failing(ToSet(waiting) \cup OpToken \cup StoreToken \cup ToSet(cueBox))
                          EXCEPT ![r] = "ok"]
  <2>1. \A q \in RecallRequests : q \in ToSet(cueBox) => reply[q] = "waiting"
    BY <1>3, CueSet DEF CallersInv, Remembered, Keeps, InMailbox
  <2>2. \A q \in RecallRequests :
           reply'[q] = IF Queued(q) \/ q \in OpToken \/ q \in ToSet(cueBox)
                       THEN "err" ELSE reply[q]
    BY <1>3, <1>4, QueuedSet DEF Failing
  <2> QED
    BY <1>4, <2>1, <2>2, NoDispatch, CancelFifo
<1>5. CASE AbandonRecall(Retained, {r} \cup StoreToken)
  <2>1. op' = NoOp /\ waiting' = <<>> /\ inflight' = NoFlight
    BY <1>5 DEF AbandonRecall
  <2>2. \A q \in RecallRequests :
           reply'[q] = IF Queued(q) \/ q \in OpToken THEN "err" ELSE reply[q]
    BY <1>3, <1>5, QueuedSet DEF Failing, AbandonRecall
  <2> QED
    BY <2>1, <2>2, NoDispatch, CancelFifo
<1>6. CASE reply' = Failing({r} \cup StoreToken) /\ UNCHANGED <<op, coordVars>>
  <2>1. \A q \in RecallRequests : reply'[q] = reply[q]
    BY <1>3, <1>6 DEF Failing
  <2> QED
    BY <1>6, <2>1, KeepFifo DEF Dispatching
<1> QED
  BY <1>4, <1>5, <1>6 DEF ReplaceCommand

\* The recall in flight is through, and without peers so is everything admitted.
LEMMA ReleaseNextFifo ==
  ASSUME TypeOK, IntentInv, CallersInv, ReleaseNext, inflight # NoFlight PROVE FifoStep
<1>1. inflight' = NoFlight /\ NoFlight.req = NoReq /\ inflight.req # NoReq
      /\ waiting \in Seq(Requests) /\ ~Dispatching
  BY RequestsAssumption
  DEF ReleaseNext, NoFlight, CoordOK, Flights, IntentInv, OneInFlight
<1>2. FifoQueue = waiting
  BY <1>1, QueueIs
<1>3. FifoQueue' = waiting /\ reply' = reply => FifoStep
  <2> SUFFICES ASSUME FifoQueue' = waiting, reply' = reply PROVE FifoStep
    OBVIOUS
  <2>1. Fifo!Through
    BY <1>1, <1>2 DEF Fifo!Through, FifoOutcome
  <2> QED
    BY <2>1 DEF FifoStep, Fifo!Next
<1>4. CASE ~Idle
  <2>1. FifoQueue' = waiting /\ reply' = reply
    BY <1>2, <1>4 DEF ReleaseNext, FifoQueue, Dispatching
  <2> QED
    BY <1>3, <2>1
<1>5. CASE Idle /\ (waiting = <<>> \/ HasPeers(active))
  <2>1. FifoQueue' = waiting /\ reply' = reply
    BY <1>1, <1>5, StartQueue DEF ReleaseNext
  <2> QED
    BY <1>3, <2>1
<1>6. CASE Idle /\ waiting # <<>> /\ ~HasPeers(active)
  <2>1. /\ op' = NoOp /\ waiting' = <<>>
        /\ reply' = [q \in Requests |-> IF q \in ToSet(waiting) THEN "err" ELSE reply[q]]
    BY <1>6 DEF ReleaseNext, StartNext
  <2>2. OpToken = {}
    BY <1>6 DEF Idle, OpToken, DispatchKinds
  <2>3. \A q \in RecallRequests :
           reply'[q] = IF Queued(q) \/ q \in OpToken THEN "err" ELSE reply[q]
    BY <2>1, <2>2, QueuedSet DEF RecallRequests
  <2> QED
    BY <1>1, <2>1, <2>3, NoDispatch, CancelFifo
<1> QED
  BY <1>4, <1>5, <1>6

LEMMA ReadinessReleasesFifo ==
  ASSUME TypeOK, IntentInv, CallersInv, ReadinessReleases PROVE FifoStep
BY ReleaseNextFifo DEF ReadinessReleases, ReadinessArrived, NoFlight

LEMMA IntervalElapsedFifo ==
  ASSUME TypeOK, IntentInv, CallersInv, IntervalElapsed PROVE FifoStep
BY ReleaseNextFifo DEF IntervalElapsed, NoFlight

\* An operation that is still current has its peers, so nothing else is canceled.
LEMMA AdmissionAcceptedFifo ==
  ASSUME TypeOK, CallersInv, AdmissionAccepted PROVE FifoStep
<1>1. /\ OpToken = {op.req} /\ op.req \in RecallRequests /\ ~Dispatching
      /\ waiting \in Seq(Requests) /\ HasPeers(active) /\ UNCHANGED inflight
      /\ op.req \in Requests
  BY DEF AdmissionAccepted, Finishing, OpToken, CallersInv, Kinds, Dispatching, DispatchKinds,
         CoordOK, OpCurrent, RecallRequests
<1>2. reply[op.req] = "waiting" /\ ~Queued(op.req)
  BY <1>1 DEF CallersInv, Remembered, Keeps, Alone
<1>3. Append(waiting, op.req) \in Seq(Requests)
  BY <1>1, AppendProperties
<1>4. FifoQueue' = Append(waiting, op.req) /\ reply' = reply
  BY <1>1, <1>3, StartQueue DEF AdmissionAccepted
<1>5. FifoQueue = waiting /\ ~Fifo!Member(op.req)
  BY <1>1, <1>2, QueueIs
<1>6. Len(waiting) + (IF inflight.req = NoReq THEN 0 ELSE 1) < Capacity
  <2>1. inflight.req = NoReq => inflight = NoFlight
    BY RequestsAssumption DEF CoordOK, Flights, NoFlight
  <2>2. Len(waiting) + (IF inflight = NoFlight THEN 0 ELSE 1) < Capacity
    BY DEF AdmissionAccepted
  <2> QED
    BY <2>1, <2>2 DEF NoFlight
<1>7. FifoOutcome[op.req] = "waiting" /\ FifoOutcome' = FifoOutcome
  BY <1>1, <1>2, <1>4 DEF FifoOutcome
<1>8. Fifo!Admit(op.req)
  BY <1>1, <1>4, <1>5, <1>6, <1>7 DEF Fifo!Admit
<1> QED
  BY <1>1, <1>8 DEF FifoStep, Fifo!Next

LEMMA AdmissionRefusedFifo ==
  ASSUME TypeOK, CallersInv, AdmissionRefused PROVE FifoStep
<1>1. /\ OpToken = {op.req} /\ op.req \in RecallRequests /\ ~Dispatching
      /\ waiting \in Seq(Requests) /\ HasPeers(active) /\ UNCHANGED inflight
      /\ op.req \in Requests
  BY DEF AdmissionRefused, Finishing, OpToken, CallersInv, Kinds, Dispatching, DispatchKinds,
         CoordOK, OpCurrent, RecallRequests
<1>2. reply[op.req] = "waiting" /\ ~Queued(op.req)
  BY <1>1 DEF CallersInv, Remembered, Keeps, Alone
<1>3. FifoQueue' = waiting /\ reply' = Failing({op.req})
  BY <1>1, StartQueue DEF AdmissionRefused
<1>4. FifoQueue = waiting /\ ~Fifo!Member(op.req)
  BY <1>1, <1>2, QueueIs
<1>5. \A q \in RecallRequests : reply'[q] = IF q = op.req THEN "err" ELSE reply[q]
  BY <1>3 DEF Failing, RecallRequests
<1> QED
  BY <1>1, <1>2, <1>3, <1>4, <1>5, RefuseFifo

LEMMA DispatchInvalidFifo ==
  ASSUME TypeOK, IntentInv, CallersInv, DispatchInvalid PROVE FifoStep
<1>1. /\ OpToken = {op.req} /\ op.req \in RecallRequests /\ Dispatching
      /\ waiting \in Seq(Requests) /\ HasPeers(active) /\ UNCHANGED inflight
  BY DEF DispatchInvalid, Finishing, OpToken, CallersInv, Kinds, Dispatching, DispatchKinds,
         CoordOK, OpCurrent
<1>2. inflight.req = NoReq
  BY <1>1 DEF IntentInv, OneInFlight, NoFlight
<1>3. FifoQueue' = waiting /\ reply' = Failing({op.req})
  BY <1>1, StartQueue DEF DispatchInvalid
<1>4. FifoQueue # <<>> /\ Head(FifoQueue) = op.req /\ Tail(FifoQueue) = waiting
  BY <1>1, QueueIs
<1>5. FifoOutcome' = [FifoOutcome EXCEPT ![op.req] = "err"]
  BY <1>3 DEF FifoOutcome, Failing, RecallRequests
<1>6. Fifo!RefuseHead
  BY <1>1, <1>2, <1>3, <1>4, <1>5 DEF Fifo!RefuseHead
<1> QED
  BY <1>6 DEF FifoStep, Fifo!Next

LEMMA DispatchFinishedFifo ==
  ASSUME TypeOK, IntentInv, CallersInv, DispatchFinished PROVE FifoStep
<1>1. /\ OpToken = {op.req} /\ op.req \in RecallRequests /\ Dispatching
      /\ waiting \in Seq(Requests) /\ waiting' = waiting /\ inflight'.req = op.req
      /\ op' = NoOp
  BY DEF DispatchFinished, Finishing, OpToken, CallersInv, Kinds, Dispatching, DispatchKinds,
         CoordOK
<1>2. inflight.req = NoReq
  BY <1>1 DEF IntentInv, OneInFlight, NoFlight
<1>3. FifoQueue' = waiting
  BY <1>1, NoDispatch, ConcatEmptySeq DEF FifoQueue
<1>4. FifoQueue # <<>> /\ Head(FifoQueue) = op.req /\ Tail(FifoQueue) = waiting
  BY <1>1, QueueIs
<1>5. FifoOutcome' = [FifoOutcome EXCEPT ![op.req] = "ok"]
  BY DEF FifoOutcome, DispatchFinished, Answering, RecallRequests
<1>6. Fifo!Dispatch
  BY <1>1, <1>2, <1>3, <1>4, <1>5 DEF Fifo!Dispatch
<1> QED
  BY <1>6 DEF FifoStep, Fifo!Next

\* Every step of the actor is a step of the FIFO or leaves it alone.
LEMMA FifoSteps ==
  ASSUME TypeOK, IntentInv, CallersInv, [Next]_vars PROVE FifoStep
<1>1. ASSUME NEW r \in Requests, SendCommand(r) PROVE FifoStep
  BY <1>1, SendCommandFifo
<1>2. ASSUME NEW r \in Requests, PressGo(r) PROVE FifoStep
  BY <1>2, PressGoFifo
<1>3. CASE FlipLockout
  BY <1>3, KeepFifo DEF FlipLockout, Dispatching, DispatchKinds
<1>4. CASE Connect
  BY <1>4, KeepFifo DEF Connect, Dispatching, DispatchKinds, DropRuntime, OpOK, Ops
<1>5. CASE OfferPeers
  BY <1>5, KeepFifo DEF OfferPeers, Dispatching, DispatchKinds
<1>6. ASSUME NEW b \in BOOLEAN, ClearRuntime(b) PROVE FifoStep
  BY <1>6, KeepFifo DEF ClearRuntime, Dispatching, DispatchKinds, DropRuntime, OpOK, Ops
<1>7. CASE Lv1Connected
  BY <1>7, KeepFifo DEF Lv1Connected, Dispatching, DispatchKinds
<1>8. CASE Lv1Lost
  BY <1>8, KeepFifo DEF Lv1Lost, Dispatching, DispatchKinds
<1>9. CASE ConsoleEcho
  BY <1>9, KeepFifo DEF ConsoleEcho, Dispatching, DispatchKinds, Announce
<1>10. CASE ConsoleSilent
  BY <1>10, KeepFifo DEF ConsoleSilent, Dispatching, DispatchKinds
<1>11. CASE Overrun
  BY <1>11, KeepFifo DEF Overrun, Dispatching, DispatchKinds
<1>12. ASSUME NEW sc \in Scenes, ManualRecall(sc) PROVE FifoStep
  BY <1>12, KeepFifo DEF ManualRecall, Dispatching, DispatchKinds, Announce
<1>13. CASE FadeAdmit
  BY <1>13, KeepFifo DEF FadeAdmit, Dispatching, DispatchKinds, HandoffAnswered, OpOK, Ops
<1>14. CASE FadeRefuse
  BY <1>14, KeepFifo DEF FadeRefuse, Dispatching, DispatchKinds, HandoffAnswered, OpOK, Ops
<1>15. ASSUME NEW result \in {"ok", "err"}, FadeBarrierEnds(result) PROVE FifoStep
  BY <1>15, KeepFifo DEF FadeBarrierEnds, Dispatching, DispatchKinds
<1>16. CASE ReceiveStale
  BY <1>16, KeepFifo DEF ReceiveStale, Dispatching, DispatchKinds
<1>17. CASE ReceiveSceneList
  BY <1>17, KeepFifo DEF ReceiveSceneList, Dispatching, DispatchKinds
<1>18. CASE ReceiveScene
  BY <1>18, KeepFifo DEF ReceiveScene, Dispatching, DispatchKinds
<1>19. CASE ReceiveDisconnected
  BY <1>19, AbandonFifo DEF ReceiveDisconnected
<1>20. CASE ReceiveGeneration
  BY <1>20, ReceiveGenerationFifo
<1>21. CASE ReceiveLagged
  BY <1>21, AbandonFifo DEF ReceiveLagged
<1>22. CASE FinishLagRecovery
  BY <1>22, KeepFifo DEF FinishLagRecovery, Dispatching, DispatchKinds
<1>23. CASE HoldCommand
  BY <1>23, KeepFifo DEF HoldCommand, Dispatching, DispatchKinds
<1>24. CASE RecallCommand
  BY <1>24, RecallCommandFifo
<1>25. CASE StoreCommand
  BY <1>25, StoreCommandFifo
<1>26. CASE PeersReadyCommand
  BY <1>26, PeersReadyCommandFifo
<1>27. CASE ReplaceCommand
  BY <1>27, ReplaceCommandFifo
<1>28. CASE CueCommand
  BY <1>28, CueCommandFifo
<1>29. CASE CueComplete
  BY <1>29, KeepFifo DEF CueComplete, Dispatching, DispatchKinds
<1>30. CASE ReadinessLost
  BY <1>30, AbandonFifo DEF ReadinessLost
<1>31. CASE ReadinessStartsInterval
  BY <1>31, KeepFifo DEF ReadinessStartsInterval, Dispatching, DispatchKinds
<1>32. CASE ReadinessReleases
  BY <1>32, ReadinessReleasesFifo
<1>33. CASE IntervalElapsed
  BY <1>33, IntervalElapsedFifo
<1>34. CASE SafetyDeadline
  BY <1>34, AbandonFifo DEF SafetyDeadline
<1>35. CASE LockoutChanged
  BY <1>35, LockoutChangedFifo
<1>36. CASE LateExpires
  BY <1>36, KeepFifo DEF LateExpires, Dispatching, DispatchKinds
<1>37. CASE SettleIgnored
  BY <1>37, KeepFifo DEF SettleIgnored, Dispatching, DispatchKinds
<1>38. CASE SettleSuppressed
  BY <1>38, KeepFifo DEF SettleSuppressed, Dispatching, DispatchKinds
<1>39. CASE SettleObserved
  BY <1>39, KeepFifo DEF SettleObserved, Dispatching, DispatchKinds, Settled, Idle, OpOf
<1>40. CASE AcceptRecall
  BY <1>40, KeepFifo DEF AcceptRecall, Dispatching, DispatchKinds, OpOK, Ops
<1>41. CASE HandoffSend
  BY <1>41, KeepFifo DEF HandoffSend, Dispatching, DispatchKinds, OpOK, Ops
<1>42. CASE FinishOutdated
  BY <1>42, AbandonFifo DEF FinishOutdated
<1>43. CASE AdmissionAccepted
  BY <1>43, AdmissionAcceptedFifo
<1>44. CASE AdmissionRefused
  BY <1>44, AdmissionRefusedFifo
<1>45. CASE DispatchPrepared
  BY <1>45, KeepFifo DEF DispatchPrepared, Dispatching, DispatchKinds, Finishing, OpOK, Ops
<1>46. CASE DispatchInvalid
  BY <1>46, DispatchInvalidFifo
<1>47. CASE DispatchLost
  BY <1>47, AbandonFifo DEF DispatchLost
<1>48. CASE DispatchFinished
  BY <1>48, DispatchFinishedFifo
<1>49. CASE ObservationPrepared
  BY <1>49, KeepFifo DEF ObservationPrepared, Dispatching, DispatchKinds, Finishing, OpOK, Ops
<1>50. CASE ObservationDropped
  BY <1>50, KeepFifo DEF ObservationDropped, Dispatching, DispatchKinds, Finishing, NoOp, OpOf
<1>51. CASE ObservationLost
  BY <1>51, AbandonFifo DEF ObservationLost
<1>52. CASE HandoffDropped
  BY <1>52, KeepFifo DEF HandoffDropped, Dispatching, DispatchKinds, Finishing, NoOp, OpOf
<1>53. CASE HandoffAccepted
  BY <1>53, KeepFifo DEF HandoffAccepted, Dispatching, DispatchKinds, Finishing, NoOp, OpOf
<1>54. CASE HandoffFailed
  BY <1>54, HandoffFailedFifo
<1>55. CASE FinishStore
  BY <1>55, FinishStoreFifo
<1>56. CASE UNCHANGED vars
  BY <1>56, KeepFifo DEF vars, Dispatching
<1> QED
  BY <1>1, <1>2, <1>3, <1>4, <1>5, <1>6, <1>7, <1>8, <1>9, <1>10, <1>11, <1>12,
     <1>13, <1>14, <1>15, <1>16, <1>17, <1>18, <1>19, <1>20, <1>21, <1>22, <1>23, <1>24,
     <1>25, <1>26, <1>27, <1>28, <1>29, <1>30, <1>31, <1>32, <1>33, <1>34, <1>35, <1>36,
     <1>37, <1>38, <1>39, <1>40, <1>41, <1>42, <1>43, <1>44, <1>45, <1>46, <1>47, <1>48,
     <1>49, <1>50, <1>51, <1>52, <1>53, <1>54, <1>55, <1>56
  DEF Next, Callers, Lifecycle, Lv1, Fade, ScenesActor, EventBranch, CommandBranch,
         ReadinessBranch, TimerBranch, SettleBranch, OpBranch

\* What callers are told is what the bounded FIFO tells them: requests are
\* dispatched in the order of their admission, one at a time, a caller is told "ok"
\* exactly when its request is dispatched, and a cancellation refuses every admitted
\* request at once.
THEOREM FifoImplemented == Spec => ImplementsFifo
<1>1. Init => TypeOK /\ IntentInv /\ CallersInv
  BY InitType, InitIntent, InitCallers
<1>2. TypeOK /\ IntentInv /\ CallersInv /\ [Next]_vars => TypeOK' /\ IntentInv' /\ CallersInv'
  BY TypeStep, IntentStep, CallersStep
<1>3. TypeOK /\ IntentInv /\ CallersInv /\ [Next]_vars => [Fifo!Next]_(Fifo!fifoVars)
  BY FifoSteps DEF FifoStep
<1>4. Init => Fifo!Init
  BY ConcatEmptySeq
  DEF Init, Fifo!Init, FifoQueue, FifoOutcome, Dispatching, DispatchKinds, NoOp, OpOf,
      NoFlight, RecallRequests
<1> QED
  BY <1>1, <1>2, <1>3, <1>4, PTL DEF Spec, ImplementsFifo, Fifo!Spec

-----------------------------------------------------------------------------
(* Late observations of the console                                        *)
(*                                                                         *)
(* That an echo is recognised after its recall was canceled rests on three *)
(* things.  EpochInv keeps the books of generations: what the actor holds  *)
(* is of its active generation, and an actor behind the authority has the  *)
(* generation fact still before it.  EchoInv says which announcements are  *)
(* on their way: one for an accepted recall at most, in the order of their *)
(* sequences.  LateInv is the core: as long as nothing is forgotten, an    *)
(* injection gives each of them an identity that matches it, of a retained *)
(* recall or of the one in flight.  An announcement may use up the         *)
(* identity of another recall of the same scene; the two then change       *)
(* places.                                                                 *)

GenerationFact(e) == e.kind = "generation" /\ e.gen = gen

EpochInv ==
    /\ active <= gen /\ peers <= gen
    /\ \A i \in DOMAIN events : events[i].gen <= gen
    /\ ~Idle => op.gen = active
    /\ inflight # NoFlight => inflight.gen = active
    /\ pendingObs # NoObs => pendingObs.gen = active
    /\ peers = gen /\ gen > 0 => handover = "offered"
    /\ ~Idle /\ op.gen = gen => handover = "offered"
    /\ op.kind = "dispatchSnapshot" => op.stage = "asking"
    /\ gen = active \/ lagged \/ \E i \in DOMAIN events : GenerationFact(events[i])
    /\ \A i \in DOMAIN events : events[i].gen < gen =>
         \E j \in DOMAIN events : i < j /\ GenerationFact(events[j])

\* The recall being dispatched has reached LV1.
Sent == op.kind = "dispatchCommand" /\ op.stage = "accepted"

\* A step inside the actor: the lifecycle, LV1 and the bus do not take part, and
\* what the actor begins is of its active generation.
Inside ==
    /\ UNCHANGED <<lifecycleVars, active, busVars, obsSeq, toConsole, accepted>>
    /\ quiet' => quiet \/ (events = <<>> /\ ~lagged)
    /\ pendingObs' \in {pendingObs, NoObs}
    /\ \/ op'.kind = "none"
       \/ ~Idle /\ op'.gen = op.gen
       \/ op'.gen = active /\ HasPeers(active)
    /\ \/ inflight' = NoFlight
       \/ inflight # NoFlight /\ inflight'.gen = inflight.gen
       \/ ~Idle /\ inflight'.gen = op.gen
    /\ Sent' => Sent /\ op'.gen = op.gen /\ op'.seq = op.seq /\ op'.req = op.req
    /\ op'.kind = "dispatchSnapshot" => op'.stage = "asking"

LEMMA InsideEpoch == ASSUME TypeOK, EpochInv, Inside PROVE EpochInv'
<1>1. UNCHANGED <<gen, handover, peers, active, lagged, events>>
  BY DEF Inside
<1>2. ~Idle' => op'.gen = active
  BY DEF Inside, EpochInv, Idle
<1>3. ~Idle' /\ op'.gen = gen => handover = "offered"
  BY BoundsAssumption DEF Inside, EpochInv, Idle, HasPeers, LifecycleOK, Gens
<1>4. inflight' # NoFlight => inflight'.gen = active
  BY DEF Inside, EpochInv
<1>5. pendingObs' # NoObs => pendingObs'.gen = active
  BY DEF Inside, EpochInv
<1>6. op'.kind = "dispatchSnapshot" => op'.stage = "asking"
  BY DEF Inside
<1> QED
  BY <1>1, <1>2, <1>3, <1>4, <1>5, <1>6 DEF EpochInv, GenerationFact

LEMMA AbandonInside ==
  ASSUME TypeOK, NEW ids, NEW others, AbandonRecall(ids, others), EndTurn,
         UNCHANGED <<lifecycleVars, active, obsSeq, toConsole, accepted>>
  PROVE  Inside
BY DEF AbandonRecall, EndTurn, Inside, NoOp, OpOf, Sent

LEMMA StartNextInside ==
  ASSUME TypeOK, EpochInv, NEW queue, NEW answers, StartNext(queue, answers), EndTurn,
         UNCHANGED <<lifecycleVars, active, obsSeq, toConsole, accepted>>,
         inflight' \in {inflight, NoFlight}
  PROVE  Inside
<1>1. UNCHANGED <<lifecycleVars, active, busVars, obsSeq, toConsole, accepted>>
      /\ quiet' = (events = <<>> /\ ~lagged)
  BY DEF EndTurn
<1>2. op'.kind = "none" \/ (op'.kind = "dispatchSnapshot" /\ op'.stage = "asking"
                          /\ op'.gen = active /\ HasPeers(active))
  BY DEF StartNext, NoOp, OpOf
<1>3. pendingObs' \in {pendingObs, NoObs}
  BY DEF StartNext
<1> QED
  BY <1>1, <1>2, <1>3 DEF Inside, Sent

LEMMA StartIfIdleInside ==
  ASSUME TypeOK, EpochInv, NEW queue, NEW answers, StartIfIdle(queue, answers), EndTurn,
         UNCHANGED <<lifecycleVars, active, obsSeq, toConsole, accepted>>,
         inflight' = inflight
  PROVE  Inside
<1>1. CASE inflight = NoFlight
  BY <1>1, StartNextInside DEF StartIfIdle
<1>2. CASE inflight # NoFlight
  <2>1. op'.kind = "none" /\ UNCHANGED <<inflight, pendingObs>>
    BY <1>2 DEF StartIfIdle, NoOp, OpOf
  <2> QED
    BY <2>1 DEF EndTurn, Inside, Sent
<1> QED
  BY <1>1, <1>2

LEMMA ReleaseNextInside == ASSUME TypeOK, EpochInv, ReleaseNext PROVE Inside
<1>1. CASE Idle
  BY <1>1, StartNextInside DEF ReleaseNext
<1>2. CASE ~Idle
  BY <1>2 DEF ReleaseNext, Inside, EpochInv, EndTurn, Sent, Idle
<1> QED
  BY <1>1, <1>2

\* The steps that Inside does not describe.
Outside ==
    \/ Connect \/ OfferPeers \/ \E byUser \in BOOLEAN : ClearRuntime(byUser)
    \/ Lv1 \/ EventBranch \/ PeersReadyCommand \/ AcceptRecall

LEMMA InsideSteps ==
  ASSUME TypeOK, EpochInv, [Next]_vars PROVE Inside \/ Outside
<1>1. ASSUME NEW r \in Requests, SendCommand(r) PROVE Inside
  BY <1>1 DEF SendCommand, EpochInv, Inside, Sent, Idle
<1>2. ASSUME NEW r \in Requests, PressGo(r) PROVE Inside
  BY <1>2 DEF PressGo, EpochInv, Inside, Sent, Idle
<1>3. CASE FlipLockout
  BY <1>3 DEF FlipLockout, EpochInv, Inside, Sent, Idle
<1>4. CASE FadeAdmit
  BY <1>4 DEF FadeAdmit, HandoffAnswered, EpochInv, Inside, Sent, Idle
<1>5. CASE FadeRefuse
  BY <1>5 DEF FadeRefuse, HandoffAnswered, EpochInv, Inside, Sent, Idle
<1>6. ASSUME NEW result \in {"ok", "err"}, FadeBarrierEnds(result) PROVE Inside
  BY <1>6 DEF FadeBarrierEnds, EpochInv, Inside, Sent, Idle
<1>7. CASE FinishLagRecovery
  BY <1>7 DEF FinishLagRecovery, EndTurn, EpochInv, Inside, Sent, Idle
<1>8. CASE HoldCommand
  BY <1>8 DEF HoldCommand, EndTurn, EpochInv, Inside, Sent, Idle
<1>9. CASE RecallCommand
  <2>1. UNCHANGED <<lifecycleVars, active, obsSeq, toConsole, accepted, coordVars>> /\ EndTurn
    BY <1>9 DEF RecallCommand
  <2>2. CASE UNCHANGED op
    BY <2>1, <2>2 DEF EndTurn, Inside, EpochInv, Sent, Idle
  <2>3. CASE CanAdmit /\ \E r : BeginAdmission(r)
    <3>1. op'.kind = "admission" /\ op'.gen = active /\ HasPeers(active)
      BY <2>3 DEF CanAdmit, BeginAdmission, OpOf
    <3> QED
      BY <2>1, <3>1 DEF EndTurn, Inside, Sent
  <2> QED
    BY <1>9, <2>2, <2>3 DEF RecallCommand
<1>10. CASE StoreCommand
  BY <1>10 DEF StoreCommand, EndTurn, EpochInv, Inside, Sent, Idle
<1>11. CASE ReplaceCommand
  <2>1. UNCHANGED <<lifecycleVars, active, busVars, obsSeq, toConsole, accepted>> /\ EndTurn
    BY <1>11 DEF ReplaceCommand, EndTurn
  <2>2. CASE op' = NoOp /\ inflight' = NoFlight /\ pendingObs' = NoObs
    BY <2>1, <2>2 DEF EndTurn, Inside, NoOp, OpOf, Sent
  <2>3. CASE UNCHANGED <<op, inflight, pendingObs>>
    BY <2>1, <2>3 DEF EndTurn, EpochInv, Inside, Sent, Idle
  <2> QED
    BY <1>11, <2>2, <2>3 DEF ReplaceCommand, AbandonRecall
<1>12. CASE CueCommand
  <2>1. UNCHANGED <<lifecycleVars, active, obsSeq, toConsole, accepted, coordVars>> /\ EndTurn
    BY <1>12 DEF CueCommand
  <2>2. CASE UNCHANGED op
    BY <2>1, <2>2 DEF EndTurn, Inside, EpochInv, Sent, Idle
  <2>3. CASE CanAdmit /\ \E r : BeginAdmission(r)
    <3>1. op'.kind = "admission" /\ op'.gen = active /\ HasPeers(active)
      BY <2>3 DEF CanAdmit, BeginAdmission, OpOf
    <3> QED
      BY <2>1, <3>1 DEF EndTurn, Inside, Sent
  <2> QED
    BY <1>12, <2>2, <2>3 DEF CueCommand
<1>13. CASE CueComplete
  BY <1>13 DEF CueComplete, EndTurn, EpochInv, Inside, Sent, Idle
<1>14. CASE ReadinessLost
  BY <1>14, AbandonInside DEF ReadinessLost
<1>15. CASE ReadinessStartsInterval
  <2>1. inflight # NoFlight /\ inflight'.gen = inflight.gen
    BY <1>15 DEF ReadinessStartsInterval, ReadinessArrived, NoFlight, CoordOK, Flights
  <2> QED
    BY <1>15, <2>1 DEF ReadinessStartsInterval, EndTurn, EpochInv, Inside, Sent, Idle
<1>16. CASE ReadinessReleases
  BY <1>16, ReleaseNextInside DEF ReadinessReleases
<1>17. CASE IntervalElapsed
  BY <1>17, ReleaseNextInside DEF IntervalElapsed
<1>18. CASE SafetyDeadline
  BY <1>18, AbandonInside DEF SafetyDeadline
<1>19. CASE LockoutChanged
  <2>1. CASE lockout
    BY <1>19, <2>1, AbandonInside DEF LockoutChanged
  <2>2. CASE ~lockout
    BY <1>19, <2>2 DEF LockoutChanged, EndTurn, EpochInv, Inside, Sent, Idle
  <2> QED
    BY <2>1, <2>2
<1>20. CASE LateExpires
  BY <1>20 DEF LateExpires, EpochInv, Inside, Sent, Idle
<1>21. CASE SettleIgnored
  BY <1>21 DEF SettleIgnored, EndTurn, EpochInv, Inside, Sent, Idle
<1>22. CASE SettleSuppressed
  BY <1>22 DEF SettleSuppressed, EndTurn, EpochInv, Inside, Sent, Idle
<1>23. CASE SettleObserved
  BY <1>23 DEF SettleObserved, EndTurn, Settled, OpOf, EpochInv, OpOK, CoordOK,
         EpochInv, Inside, Sent, Idle
<1>24. CASE HandoffSend
  BY <1>24 DEF HandoffSend, EpochInv, Inside, Sent, Idle, OpOK, Ops
<1>25. CASE FinishOutdated
  BY <1>25, AbandonInside DEF FinishOutdated, FinishFrame
<1>26. CASE AdmissionAccepted
  BY <1>26, StartIfIdleInside DEF AdmissionAccepted
<1>27. CASE AdmissionRefused
  BY <1>27, StartIfIdleInside DEF AdmissionRefused, FinishFrame
<1>28. CASE DispatchPrepared
  <2>1. op'.kind = "dispatchCommand" /\ op'.gen = op.gen /\ op'.stage = op.stage
    BY <1>28 DEF DispatchPrepared, OpOK, Ops
  <2> QED
    BY <1>28, <2>1 DEF DispatchPrepared, Finishing, FinishFrame, EndTurn, EpochInv, Inside,
                   Sent, Idle
<1>29. CASE DispatchInvalid
  BY <1>29, StartNextInside DEF DispatchInvalid, FinishFrame
<1>30. CASE DispatchLost
  BY <1>30, AbandonInside DEF DispatchLost, FinishFrame
<1>31. CASE DispatchFinished
  BY <1>31 DEF DispatchFinished, EndTurn, Finishing, FinishFrame, NoOp, OpOf, Inside,
         Sent, Idle
<1>32. CASE ObservationPrepared
  BY <1>32 DEF ObservationPrepared, EndTurn, Finishing, FinishFrame, OpOK, Ops,
         EpochInv, Inside, Sent, Idle
<1>33. CASE ObservationDropped
  BY <1>33 DEF ObservationDropped, EndTurn, Finishing, FinishFrame, NoOp, OpOf,
         EpochInv, Inside, Sent, Idle
<1>34. CASE ObservationLost
  BY <1>34, AbandonInside DEF ObservationLost, FinishFrame
<1>35. CASE HandoffDropped
  BY <1>35 DEF HandoffDropped, EndTurn, Finishing, FinishFrame, NoOp, OpOf, Inside,
         Sent, Idle
<1>36. CASE HandoffAccepted
  BY <1>36 DEF HandoffAccepted, EndTurn, Finishing, FinishFrame, NoOp, OpOf, NoFlight,
         StillExpected, EpochInv, Inside, Sent, Idle
<1>37. CASE HandoffFailed
  <2>1. UNCHANGED <<lifecycleVars, active, obsSeq, toConsole, accepted>> /\ EndTurn
    BY <1>37 DEF HandoffFailed, FinishFrame
  <2>2. CASE op' = NoOp /\ UNCHANGED <<inflight, pendingObs>>
    BY <2>1, <2>2 DEF EndTurn, Inside, NoOp, OpOf, Sent
  <2>3. CASE AbandonRecall(Retained, {})
    BY <2>1, <2>3, AbandonInside
  <2> QED
    BY <1>37, <2>2, <2>3 DEF HandoffFailed
<1>38. CASE FinishStore
  BY <1>38 DEF FinishStore, EndTurn, EpochInv, Inside, Sent, Idle
<1>39. CASE UNCHANGED vars
  BY <1>39 DEF vars, EpochInv, Inside, Sent, Idle
<1> QED
  BY <1>1, <1>2, <1>3, <1>4, <1>5, <1>6, <1>7, <1>8, <1>9, <1>10, <1>11, <1>12,
     <1>13, <1>14, <1>15, <1>16, <1>17, <1>18, <1>19, <1>20, <1>21, <1>22, <1>23,
     <1>24, <1>25, <1>26, <1>27, <1>28, <1>29, <1>30, <1>31, <1>32, <1>33, <1>34,
     <1>35, <1>36, <1>37, <1>38, <1>39
  DEF Next, Callers, Lifecycle, Fade, ScenesActor, Outside, CommandBranch,
      ReadinessBranch, TimerBranch, SettleBranch, OpBranch

LEMMA Published ==
  ASSUME TypeOK, NEW facts \in Seq(Facts \cup Observations), Publish(facts)
  PROVE  /\ Len(events) \in Nat /\ Len(facts) \in Nat
         /\ DOMAIN events = 1 .. Len(events) /\ DOMAIN facts = 1 .. Len(facts)
         /\ DOMAIN events' = 1 .. Len(events) + Len(facts)
         /\ \A i \in DOMAIN events : events'[i] = events[i]
         /\ \A i \in DOMAIN facts : events'[Len(events) + i] = facts[i]
         /\ \A i \in DOMAIN events' :
              \/ i \in DOMAIN events
              \/ i > Len(events) /\ i - Len(events) \in DOMAIN facts
                 /\ events'[i] = facts[i - Len(events)]
BY ConcatProperties, LenProperties DEF Publish, BusOK

LEMMA Taken ==
  ASSUME TypeOK, events # <<>>, events' = Tail(events)
  PROVE  /\ Len(events) \in Nat /\ DOMAIN events = 1 .. Len(events)
         /\ 1 \in DOMAIN events /\ Head(events) = events[1]
         /\ DOMAIN events' = 1 .. Len(events) - 1
         /\ \A i \in DOMAIN events' : i + 1 \in DOMAIN events /\ events'[i] = events[i + 1]
         /\ \A i \in DOMAIN events : i > 1 => i - 1 \in DOMAIN events' /\ events'[i - 1] = events[i]
BY HeadTailProperties, LenProperties DEF BusOK

LEMMA EventGen == ASSUME TypeOK, NEW i \in DOMAIN events PROVE events[i].gen \in Gens
BY DEF BusOK, Facts, Observations

\* Facts of the present generation change nothing in the books.
LEMMA PublishEpoch ==
  ASSUME TypeOK, EpochInv, NEW facts \in Seq(Facts \cup Observations), Publish(facts),
         \A i \in DOMAIN facts : facts[i].gen = gen,
         UNCHANGED <<lifecycleVars, active, lagged, op, inflight, pendingObs>>
  PROVE  EpochInv'
<1>1. \A i \in DOMAIN events' : events'[i].gen <= gen
  BY Published DEF EpochInv, LifecycleOK, Gens
<1>2. \A i \in DOMAIN events' : events'[i].gen < gen =>
        \E j \in DOMAIN events' : i < j /\ GenerationFact(events'[j])
  <2> SUFFICES ASSUME NEW i \in DOMAIN events', events'[i].gen < gen
               PROVE  \E j \in DOMAIN events' : i < j /\ GenerationFact(events'[j])
    OBVIOUS
  <2>1. i \in DOMAIN events /\ events[i].gen < gen
    BY Published DEF LifecycleOK, Gens
  <2>2. PICK j \in DOMAIN events : i < j /\ GenerationFact(events[j])
    BY <2>1 DEF EpochInv
  <2> QED
    BY <2>2, Published
<1>3. gen = active \/ lagged \/ \E i \in DOMAIN events' : GenerationFact(events'[i])
  <2>1. \A i \in DOMAIN events : i \in DOMAIN events' /\ events'[i] = events[i]
    BY Published
  <2> QED
    BY <2>1 DEF EpochInv
<1> QED
  BY <1>1, <1>2, <1>3 DEF EpochInv, GenerationFact, Idle

\* A new generation is announced by the last of the facts.
LEMMA NewEpoch ==
  ASSUME TypeOK, EpochInv, NEW facts \in Seq(Facts \cup Observations), Publish(facts),
         gen' = gen + 1, facts # <<>>, facts[Len(facts)] = Fact("generation", gen + 1),
         \A i \in DOMAIN facts : facts[i].gen <= gen + 1,
         \A i \in DOMAIN facts : facts[i].gen # gen + 1 => i < Len(facts),
         peers' \in {peers, 0}, UNCHANGED <<active, lagged, inflight, pendingObs>>, DropRuntime
  PROVE  EpochInv'
<1>0. gen \in Nat /\ active \in Nat /\ peers \in Nat
  BY DEF LifecycleOK, LibraryOK, Gens
<1>1. active < gen' /\ peers' < gen'
  BY <1>0 DEF EpochInv
<1>2. op'.kind = op.kind /\ op'.gen = op.gen /\ (op.kind # "handoff" => op'.stage = op.stage)
  BY DEF DropRuntime, OpOK, Ops
<1>3. \A i \in DOMAIN events' : events'[i].gen <= gen'
  <2>1. \A i \in DOMAIN events : events[i].gen <= gen + 1
    BY <1>0, EventGen DEF EpochInv, Gens
  <2> QED
    BY <2>1, Published
<1>4. Len(events) + Len(facts) \in DOMAIN events'
      /\ events'[Len(events) + Len(facts)] = Fact("generation", gen')
  <2>1. Len(facts) \in DOMAIN facts
    BY EmptySeq, LenProperties
  <2>2. events'[Len(events) + Len(facts)] = facts[Len(facts)]
    BY <2>1, Published
  <2> QED
    BY <2>1, <2>2, Published
<1>5. \A i \in DOMAIN events' : events'[i].gen < gen' =>
        \E j \in DOMAIN events' : i < j /\ events'[j] = Fact("generation", gen')
  <2> SUFFICES ASSUME NEW i \in DOMAIN events', events'[i].gen < gen'
               PROVE  i < Len(events) + Len(facts)
    BY <1>4
  <2>1. CASE i \in DOMAIN events
    <3>1. Len(facts) > 0
      BY EmptySeq, LenProperties
    <3> QED
      BY <2>1, <3>1, Published
  <2>2. CASE i \notin DOMAIN events
    <3> DEFINE k == i - Len(events)
    <3>1. k \in DOMAIN facts /\ events'[i] = facts[k] /\ i \in Nat /\ Len(events) \in Nat
      BY <2>2, Published
    <3>2. k < Len(facts)
      BY <1>0, <3>1
    <3> QED
      BY <3>1, <3>2, Published
  <2> QED
    BY <2>1, <2>2
<1> QED
  BY <1>0, <1>1, <1>2, <1>3, <1>4, <1>5 DEF EpochInv, Idle, GenerationFact, Fact

\* A fact of the actor's own generation, or none of a generation, is taken.
LEMMA TakeEpoch ==
  ASSUME TypeOK, EpochInv, ~lagged, events # <<>>, events' = Tail(events), UNCHANGED lagged,
         Head(events).kind # "generation" \/ Head(events).gen = active,
         UNCHANGED <<lifecycleVars, active>>,
         UNCHANGED op \/ op' = NoOp, inflight' \in {inflight, NoFlight},
         pendingObs' # NoObs => pendingObs'.gen = active
  PROVE  EpochInv'
<1>1. \A i \in DOMAIN events' : events'[i].gen <= gen
  BY Taken DEF EpochInv
<1>2. \A i \in DOMAIN events' : events'[i].gen < gen =>
        \E j \in DOMAIN events' : i < j /\ GenerationFact(events'[j])
  <2> SUFFICES ASSUME NEW i \in DOMAIN events', events'[i].gen < gen
               PROVE  \E j \in DOMAIN events' : i < j /\ GenerationFact(events'[j])
    OBVIOUS
  <2>1. i + 1 \in DOMAIN events /\ events[i + 1].gen < gen /\ i \in Nat /\ i >= 1
    BY Taken
  <2>2. PICK j \in DOMAIN events : i + 1 < j /\ GenerationFact(events[j])
    BY <2>1 DEF EpochInv
  <2>3. j \in Nat /\ j > 1
    BY <2>1, <2>2, Taken
  <2>4. j - 1 \in DOMAIN events' /\ events'[j - 1] = events[j] /\ i < j - 1
    BY <2>1, <2>2, <2>3, Taken
  <2> QED
    BY <2>2, <2>4
<1>3. gen = active \/ lagged \/ \E i \in DOMAIN events' : GenerationFact(events'[i])
  <2> SUFFICES ASSUME gen # active
               PROVE  \E i \in DOMAIN events' : GenerationFact(events'[i])
    OBVIOUS
  <2>1. PICK i \in DOMAIN events : GenerationFact(events[i])
    BY DEF EpochInv
  <2>2. i # 1
    BY <2>1, Taken DEF GenerationFact
  <2>3. i - 1 \in DOMAIN events' /\ events'[i - 1] = events[i]
    BY <2>2, Taken
  <2> QED
    BY <2>1, <2>3
<1>4. op'.kind # "none" => op' = op
  BY DEF NoOp, OpOf
<1> QED
  BY <1>1, <1>2, <1>3, <1>4 DEF EpochInv, GenerationFact, Idle, NoOp, OpOf

\* The actor moves to another generation and gives up everything.
LEMMA MoveEpoch ==
  ASSUME TypeOK, EpochInv, NEW g \in Gens, g <= gen, NEW others, Transition(g, others),
         UNCHANGED <<gen, handover>>,
         g = gen \/ lagged' \/ \E i \in DOMAIN events' : GenerationFact(events'[i]),
         \A i \in DOMAIN events' : events'[i].gen <= gen,
         \A i \in DOMAIN events' : events'[i].gen < gen =>
            \E j \in DOMAIN events' : i < j /\ GenerationFact(events'[j])
  PROVE  EpochInv'
<1>1. op'.kind = "none" /\ inflight' = NoFlight /\ pendingObs' = NoObs /\ active' = g
  BY DEF Transition, AbandonRecall, NoOp, OpOf
<1>2. peers' \in {peers, 0} /\ gen \in Nat
  BY DEF Transition, LifecycleOK, Gens
<1> QED
  BY <1>1, <1>2 DEF EpochInv, GenerationFact, Idle

LEMMA ConnectEpoch == ASSUME TypeOK, EpochInv, Connect PROVE EpochInv'
<1> DEFINE facts == <<Fact("generation", gen + 1)>>
<1>1. facts \in Seq(Facts \cup Observations) /\ Len(facts) = 1
      /\ facts[1] = Fact("generation", gen + 1)
  BY NextGenType DEF Connect, Fact, Facts
<1>2. DOMAIN facts = {1} /\ facts # <<>>
  BY <1>1
<1> HIDE DEF facts
<1>3. \A i \in DOMAIN facts : facts[i].gen <= gen + 1 /\ facts[i].gen = gen + 1
  BY <1>1, <1>2 DEF Fact, LifecycleOK, Gens
<1> QED
  BY <1>1, <1>2, <1>3, NewEpoch DEF Connect, facts

\* What clear_runtime_if_current publishes: the new generation comes last.
ClearFacts(b) == (IF b THEN <<Fact("disconnected", gen)>> ELSE <<>>)
                 \o <<Fact("generation", gen + 1)>>

LEMMA ClearedFacts ==
  ASSUME TypeOK, gen + 1 \in Gens, NEW b \in BOOLEAN
  PROVE  /\ ClearFacts(b) \in Seq(Facts \cup Observations)
         /\ Len(ClearFacts(b)) = IF b THEN 2 ELSE 1
         /\ ClearFacts(b)[Len(ClearFacts(b))] = Fact("generation", gen + 1)
         /\ b => ClearFacts(b)[1] = Fact("disconnected", gen)
<1> DEFINE old == <<Fact("disconnected", gen)>>
           new == <<Fact("generation", gen + 1)>>
<1>1. /\ new \in Seq(Facts \cup Observations) /\ Len(new) = 1
      /\ new[1] = Fact("generation", gen + 1)
  BY DEF Fact, Facts
<1>2. /\ old \in Seq(Facts \cup Observations) /\ Len(old) = 1
      /\ old[1] = Fact("disconnected", gen)
  BY DEF Fact, Facts, LifecycleOK
<1> HIDE DEF old, new
<1>3. CASE b
  <2>1. ClearFacts(b) = old \o new
    BY <1>3 DEF ClearFacts, old, new
  <2>2. /\ old \o new \in Seq(Facts \cup Observations) /\ Len(old \o new) = 2
        /\ (old \o new)[1] = old[1] /\ (old \o new)[2] = new[1]
    BY <1>1, <1>2, ConcatProperties
  <2> QED
    BY <1>1, <1>2, <1>3, <2>1, <2>2
<1>4. CASE ~b
  <2>1. ClearFacts(b) = <<>> \o new
    BY <1>4 DEF ClearFacts, new
  <2>2. ClearFacts(b) = new
    BY <1>1, <2>1, ConcatEmptySeq
  <2> QED
    BY <1>1, <1>4, <2>2
<1> QED
  BY <1>3, <1>4

LEMMA ClearRuntimeEpoch ==
  ASSUME TypeOK, EpochInv, NEW b \in BOOLEAN, ClearRuntime(b) PROVE EpochInv'
<1>1. gen + 1 \in Gens /\ gen \in Nat
  BY NextGenType DEF ClearRuntime, LifecycleOK, Gens
<1> DEFINE facts == ClearFacts(b)
<1>2. /\ facts \in Seq(Facts \cup Observations) /\ Len(facts) = IF b THEN 2 ELSE 1
      /\ facts[Len(facts)] = Fact("generation", gen + 1)
      /\ b => facts[1] = Fact("disconnected", gen)
  BY <1>1, ClearedFacts
<1>3. Publish(facts)
  BY DEF ClearRuntime, ClearFacts
<1> HIDE DEF facts
<1>4. facts # <<>> /\ DOMAIN facts = 1 .. Len(facts)
  <2>1. Len(facts) \in {1, 2} /\ facts \in Seq(Facts \cup Observations)
    BY <1>2
  <2>2. facts # <<>>
    BY <2>1
  <2>3. DOMAIN facts = 1 .. Len(facts)
    BY <2>1, LenProperties
  <2> QED
    BY <2>2, <2>3
<1>5. \A i \in DOMAIN facts : facts[i].gen <= gen + 1 /\ (facts[i].gen # gen + 1 => i < Len(facts))
  <2>1. CASE b
    BY <1>1, <1>2, <1>4, <2>1 DEF Fact
  <2>2. CASE ~b
    BY <1>1, <1>2, <1>4, <2>2 DEF Fact
  <2> QED
    BY <2>1, <2>2
<1>6. gen' = gen + 1 /\ peers' \in {peers, 0} /\ DropRuntime
      /\ UNCHANGED <<active, lagged, inflight, pendingObs>>
  BY DEF ClearRuntime
<1> QED
  BY <1>2, <1>3, <1>4, <1>5, <1>6, NewEpoch

LEMMA OfferPeersEpoch == ASSUME TypeOK, EpochInv, OfferPeers PROVE EpochInv'
<1>1. UNCHANGED <<gen, active, lagged, events, op, inflight, pendingObs>>
      /\ peers' = gen /\ handover' = "offered" /\ gen \in Nat
  BY DEF OfferPeers, LifecycleOK, Gens
<1> QED
  BY <1>1 DEF EpochInv, GenerationFact, Idle

\* What one step of LV1 or of the console publishes.
LEMMA Lv1Facts ==
  ASSUME TypeOK, Lv1
  PROVE  /\ UNCHANGED <<lifecycleVars, active, op, inflight, pendingObs, late, reply, accepted,
                        quiet>>
         /\ \/ UNCHANGED events /\ lagged' \in {lagged, TRUE}
            \/ /\ UNCHANGED lagged
               /\ \E facts \in Seq(Facts \cup Observations) :
                    Publish(facts) /\ \A i \in DOMAIN facts : facts[i].gen = gen
<1> DEFINE Goal == \E facts \in Seq(Facts \cup Observations) :
                      Publish(facts) /\ \A i \in DOMAIN facts : facts[i].gen = gen
<1>1. ASSUME NEW f \in Facts \cup Observations, f.gen = gen, Publish(<<f>>) PROVE Goal
  <2>1. <<f>> \in Seq(Facts \cup Observations) /\ \A i \in DOMAIN <<f>> : <<f>>[i].gen = gen
    BY <1>1
  <2> QED
    BY <1>1, <2>1
<1>2. ASSUME NEW s \in Scenes, NEW cause \in MaybeReq, Announce(s, cause) PROVE Goal
  <2> DEFINE f == [kind |-> "scene", gen |-> gen, seq |-> obsSeq + 1, scene |-> s,
                   from |-> cause]
  <2>1. f \in Facts \cup Observations /\ f.gen = gen
    BY <1>2 DEF Observations, LifecycleOK, Lv1OK
  <2>2. Publish(<<f>>)
    BY <1>2 DEF Announce
  <2> QED
    BY <1>1, <2>1, <2>2
<1>3. CASE Lv1Connected
  <2>1. Fact("sceneList", gen) \in Facts \cup Observations /\ Fact("sceneList", gen).gen = gen
    BY DEF Fact, Facts, LifecycleOK
  <2>2. Goal
    BY <1>1, <1>3, <2>1 DEF Lv1Connected
  <2> QED
    BY <1>3, <2>2 DEF Lv1Connected
<1>4. CASE Lv1Lost
  <2>1. Fact("disconnected", gen) \in Facts \cup Observations
        /\ Fact("disconnected", gen).gen = gen
    BY DEF Fact, Facts, LifecycleOK
  <2>2. Goal
    BY <1>1, <1>4, <2>1 DEF Lv1Lost
  <2> QED
    BY <1>4, <2>2 DEF Lv1Lost
<1>5. CASE ConsoleEcho
  <2>1. Head(toConsole) \in Requests
    BY <1>5, HeadTailProperties DEF ConsoleEcho, Lv1OK
  <2>2. Goal
    BY <1>2, <1>5, <2>1, RequestsAssumption DEF ConsoleEcho, MaybeReq
  <2> QED
    BY <1>5, <2>2 DEF ConsoleEcho, Announce
<1>6. CASE \E s \in Scenes : ManualRecall(s)
  <2>1. Goal
    BY <1>2, <1>6 DEF ManualRecall, MaybeReq
  <2> QED
    BY <1>6, <2>1 DEF ManualRecall, Announce
<1>7. CASE ConsoleSilent \/ Overrun
  BY <1>7 DEF ConsoleSilent, Overrun
<1> QED
  BY <1>3, <1>4, <1>5, <1>6, <1>7 DEF Lv1

LEMMA Lv1Epoch == ASSUME TypeOK, EpochInv, Lv1 PROVE EpochInv'
<1>0. UNCHANGED <<lifecycleVars, active, op, inflight, pendingObs>>
  BY Lv1Facts
<1>1. CASE UNCHANGED events /\ lagged' \in {lagged, TRUE}
  <2>1. lagged => lagged'
    BY <1>1
  <2> QED
    BY <1>0, <1>1, <2>1 DEF EpochInv, GenerationFact, Idle
<1>2. CASE UNCHANGED lagged /\ \E facts \in Seq(Facts \cup Observations) :
                    Publish(facts) /\ \A i \in DOMAIN facts : facts[i].gen = gen
  BY <1>2, Lv1Facts, PublishEpoch
<1> QED
  BY <1>1, <1>2, Lv1Facts

LEMMA ReceivedFact ==
  ASSUME TypeOK, NEW kind, Receive(kind)
  PROVE  /\ ~lagged /\ UNCHANGED lagged /\ events # <<>> /\ events' = Tail(events)
         /\ Head(events).kind = kind /\ quiet' = (Tail(events) = <<>>)
BY DEF Receive

LEMMA ReceiveStaleEpoch == ASSUME TypeOK, EpochInv, ReceiveStale PROVE EpochInv'
<1>1. PICK kind \in {"sceneList", "scene", "disconnected"} : Receive(kind)
  BY DEF ReceiveStale
<1>2. UNCHANGED <<lifecycleVars, active, op, inflight, pendingObs>>
  BY DEF ReceiveStale
<1>3. pendingObs' # NoObs => pendingObs'.gen = active
  BY <1>2 DEF EpochInv
<1> QED
  BY <1>1, <1>2, <1>3, ReceivedFact, TakeEpoch

LEMMA ReceiveSceneListEpoch == ASSUME TypeOK, EpochInv, ReceiveSceneList PROVE EpochInv'
<1>1. UNCHANGED <<lifecycleVars, active, op, inflight, pendingObs>>
  BY DEF ReceiveSceneList
<1>2. pendingObs' # NoObs => pendingObs'.gen = active
  BY <1>1 DEF EpochInv
<1>3. Receive("sceneList")
  BY DEF ReceiveSceneList
<1> QED
  BY <1>1, <1>2, <1>3, ReceivedFact, TakeEpoch

LEMMA ReceiveSceneEpoch == ASSUME TypeOK, EpochInv, ReceiveScene PROVE EpochInv'
<1>1. UNCHANGED <<lifecycleVars, active, op, inflight>> /\ pendingObs' = Head(events)
  BY DEF ReceiveScene
<1>2. Receive("scene") /\ pendingObs'.gen = active
  BY <1>1 DEF ReceiveScene, Current
<1> QED
  BY <1>1, <1>2, ReceivedFact, TakeEpoch

LEMMA ReceiveDisconnectedEpoch == ASSUME TypeOK, EpochInv, ReceiveDisconnected PROVE EpochInv'
<1>1. UNCHANGED <<lifecycleVars, active>> /\ op' = NoOp /\ inflight' = NoFlight
      /\ pendingObs' = NoObs /\ Receive("disconnected")
  BY DEF ReceiveDisconnected, AbandonRecall
<1> QED
  BY <1>1, ReceivedFact, TakeEpoch

\* What is left after taking a fact: the present generation is still announced.
LEMMA StillAnnounced ==
  ASSUME TypeOK, EpochInv, events # <<>>, events' = Tail(events)
  PROVE  /\ \A i \in DOMAIN events' : events'[i].gen <= gen
         /\ \A i \in DOMAIN events' : events'[i].gen < gen =>
              \E j \in DOMAIN events' : i < j /\ GenerationFact(events'[j])
         /\ Head(events).gen < gen => \E j \in DOMAIN events' : GenerationFact(events'[j])
<1>1. \A i \in DOMAIN events' : events'[i].gen <= gen
  BY Taken DEF EpochInv
<1>2. \A k \in DOMAIN events : events[k].gen < gen =>
        \E j \in DOMAIN events' : k - 1 < j /\ GenerationFact(events'[j])
  <2> SUFFICES ASSUME NEW k \in DOMAIN events, events[k].gen < gen
               PROVE  \E j \in DOMAIN events' : k - 1 < j /\ GenerationFact(events'[j])
    OBVIOUS
  <2>1. PICK j \in DOMAIN events : k < j /\ GenerationFact(events[j])
    BY DEF EpochInv
  <2>2. k \in Nat /\ k >= 1 /\ j \in Nat
    BY Taken
  <2>3. j - 1 \in DOMAIN events' /\ events'[j - 1] = events[j] /\ k - 1 < j - 1
    BY <2>1, <2>2, Taken
  <2> QED
    BY <2>1, <2>3
<1>3. \A i \in DOMAIN events' : i + 1 \in DOMAIN events /\ events'[i] = events[i + 1]
                                /\ i = (i + 1) - 1
  BY Taken
<1>4. 1 \in DOMAIN events /\ Head(events) = events[1]
  BY Taken
<1> QED
  BY <1>1, <1>2, <1>3, <1>4

LEMMA ReceiveGenerationEpoch == ASSUME TypeOK, EpochInv, ReceiveGeneration PROVE EpochInv'
<1>1. Receive("generation") /\ UNCHANGED <<gen, handover>>
  BY DEF ReceiveGeneration
<1>2. CASE Current
  <2>1. UNCHANGED <<lifecycleVars, active, op, inflight, pendingObs>>
    BY <1>1, <1>2 DEF ReceiveGeneration
  <2>2. pendingObs' # NoObs => pendingObs'.gen = active
    BY <2>1 DEF EpochInv
  <2> QED
    BY <1>1, <1>2, <2>1, <2>2, ReceivedFact, TakeEpoch DEF Current
<1>3. CASE ~Current
  <2> DEFINE g == Head(events).gen
  <2>1. g \in Gens /\ g <= gen /\ gen \in Nat
    BY <1>1, ReceivedFact, Taken, EventGen DEF EpochInv, LifecycleOK, Gens
  <2>2. PICK others : Transition(g, others)
    BY <1>3 DEF ReceiveGeneration
  <2>3. g = gen \/ g < gen
    BY <2>1 DEF Gens
  <2> QED
    BY <1>1, <2>1, <2>2, <2>3, ReceivedFact, StillAnnounced, MoveEpoch
<1> QED
  BY <1>2, <1>3

LEMMA ReceiveLaggedEpoch == ASSUME TypeOK, EpochInv, ReceiveLagged PROVE EpochInv'
<1>1. op'.kind = "none" /\ inflight' = NoFlight /\ pendingObs' = NoObs /\ active' = gen
      /\ events' = <<>> /\ UNCHANGED <<gen, handover>> /\ peers' \in {peers, 0}
  BY DEF ReceiveLagged, AbandonRecall, NoOp, OpOf
<1>2. gen \in Nat
  BY DEF LifecycleOK, Gens
<1> QED
  BY <1>1, <1>2 DEF EpochInv, Idle

LEMMA PeersReadyEpoch ==
  ASSUME TypeOK, EpochInv, PeersReadyCommand PROVE Inside \/ EpochInv'
<1>1. CASE gen # active
  <2>1. Transition(gen, {}) /\ UNCHANGED <<gen, handover, events, lagged>> /\ gen \in Gens
        /\ gen \in Nat
    BY <1>1 DEF PeersReadyCommand, EndTurn, LifecycleOK, Gens
  <2>2. EpochInv'
    BY <2>1, MoveEpoch DEF EpochInv
  <2> QED
    BY <2>2
<1>2. CASE gen = active
  BY <1>2 DEF PeersReadyCommand, EndTurn, Inside, EpochInv, Sent, Idle
<1> QED
  BY <1>1, <1>2

LEMMA AcceptRecallEpoch == ASSUME TypeOK, EpochInv, AcceptRecall PROVE EpochInv'
<1>1. op'.kind = op.kind /\ op'.gen = op.gen /\ op.kind = "dispatchCommand"
  BY DEF AcceptRecall, OpOK, Ops
<1> QED
  BY <1>1 DEF AcceptRecall, EpochInv, GenerationFact, Idle

LEMMA EpochStep == ASSUME TypeOK, EpochInv, [Next]_vars PROVE EpochInv'
<1>1. CASE Inside
  BY <1>1, InsideEpoch
<1>2. CASE Outside
  BY <1>1, <1>2, ConnectEpoch, OfferPeersEpoch, ClearRuntimeEpoch, Lv1Epoch, ReceiveStaleEpoch,
     ReceiveSceneListEpoch, ReceiveSceneEpoch, ReceiveDisconnectedEpoch, ReceiveGenerationEpoch,
     ReceiveLaggedEpoch, PeersReadyEpoch, AcceptRecallEpoch
  DEF Outside, EventBranch
<1> QED
  BY <1>1, <1>2, InsideSteps

LEMMA InitEpoch == Init => EpochInv
BY BoundsAssumption DEF Init, EpochInv, Idle, NoOp, OpOf, Gens

-----------------------------------------------------------------------------
(* What a step does to the identities of canceled recalls                  *)

\* An observation is being handled.
Watching == op.kind \in {"obsSnapshot", "handoff"}

\* The identity of the recall LV1 has just accepted, or of the one in flight, would
\* be found by an observation that arrives now.
Open == Sent \/ (inflight.phase = "observation" /\ ~Watching)

SameToken == op'.gen = op.gen /\ op'.seq = op.seq /\ op'.req = op.req

\* The recall, the identities and the observation being handled stay.
Same ==
    /\ UNCHANGED <<late, inflight>>
    /\ Sent' <=> Sent
    /\ Sent => SameToken
    /\ Watching' => Watching /\ op'.req = op.req

\* Everything is canceled, and the recall in flight is remembered if it has to be.
Canceled ==
    /\ op' = NoOp /\ inflight' = NoFlight /\ pendingObs' = NoObs
    /\ Sent => reply'[op.req] = "err"
    /\ \/ late' = Retained
       \/ late' = late /\ ~Open
       \/ late' = <<>> /\ (active' # gen \/ active' # active \/ ReceiveDisconnected)

\* The recall in flight goes on or is through.
Advanced ==
    /\ UNCHANGED late /\ ~Open /\ ~Sent' /\ inflight # NoFlight
    /\ inflight' # NoFlight => inflight'.phase # "observation"
    /\ Watching' => Watching /\ op'.req = op.req

LEMMA KeepSame == ASSUME UNCHANGED <<late, inflight, op>> PROVE Same
BY DEF Same, Sent, SameToken, Watching

LEMMA IdleSame ==
  ASSUME UNCHANGED <<late, inflight>>, ~Sent, op'.kind \in {"none", "admission", "dispatchSnapshot"}
  PROVE  Same
BY DEF Same, Sent, SameToken, Watching

LEMMA BeginSame ==
  ASSUME TypeOK, EpochInv, UNCHANGED <<late, inflight>>, op.kind \notin {"dispatchCommand"},
         NEW queue, NEW answers, StartNext(queue, answers) \/ StartIfIdle(queue, answers)
  PROVE  Same
<1>1. op'.kind \in {"none", "dispatchSnapshot"}
  BY DEF StartNext, StartIfIdle, NoOp, OpOf
<1> QED
  BY <1>1, IdleSame DEF Sent

\* A canceled dispatch is refused.
LEMMA TokenRefused ==
  ASSUME TypeOK, NEW ids, NEW others, AbandonRecall(ids, others), Sent
  PROVE  reply'[op.req] = "err"
<1>1. op.req \in OpToken /\ op.req \in Requests
  BY DEF Sent, OpToken, DispatchKinds, OpOK, Ops
<1> QED
  BY <1>1 DEF AbandonRecall, Failing

LEMMA AbandonCanceled ==
  ASSUME TypeOK, NEW ids, NEW others, AbandonRecall(ids, others),
         \/ ids = Retained
         \/ ids = late /\ ~Open
         \/ ids = <<>> /\ (active' # gen \/ active' # active \/ ReceiveDisconnected)
  PROVE  Canceled
BY TokenRefused DEF Canceled, AbandonRecall

LEMMA ReleaseNextAdvanced ==
  ASSUME TypeOK, IntentInv, EpochInv, ReleaseNext, inflight.phase \in {"readiness", "interval"}
  PROVE  Advanced
<1>1. inflight # NoFlight /\ ~Dispatching
  BY DEF NoFlight, IntentInv, OneInFlight
<1>2. ~Sent /\ ~Open
  BY <1>1 DEF Sent, Open, Dispatching, DispatchKinds
<1>3. CASE Idle
  <2>1. op'.kind \in {"none", "dispatchSnapshot"}
        /\ (op'.kind = "dispatchSnapshot" => op'.stage = "asking")
    BY <1>3 DEF ReleaseNext, StartNext, NoOp, OpOf
  <2> QED
    BY <1>1, <1>2, <2>1 DEF ReleaseNext, Advanced, Sent, Watching
<1>4. CASE ~Idle
  BY <1>1, <1>2, <1>4 DEF ReleaseNext, Advanced, Sent, Watching
<1> QED
  BY <1>3, <1>4

\* A session replacement drops or refuses what is admitted.
LEMMA ReplaceShape ==
  ASSUME TypeOK, CallersInv, ReplaceCommand PROVE Same \/ Canceled
<1> DEFINE r == Command.req
<1>1. HasCommand /\ TakeCommand /\ Command \in Msgs /\ Command.kind = "replace"
      /\ (cueBox' = cueBox \/ cueBox' = <<>>)
  BY HeadTailProperties DEF ReplaceCommand, HasCommand, Command, MailOK
<1>2. r \in ReplaceRequests
  BY <1>1, MsgReq, TakeMail DEF KindOf
<1>3. Sent => op.req \in OpToken /\ op.req \in RecallRequests
  BY DEF CallersInv, Kinds, Sent, OpToken, DispatchKinds
<1>4. CASE /\ op' = NoOp /\ inflight' = NoFlight /\ pendingObs' = NoObs /\ late' = Retained
           /\ reply' = [Failing(ToSet(waiting) \cup OpToken \cup StoreToken \cup ToSet(cueBox))
                          EXCEPT ![r] = "ok"]
  <2>1. Sent => op.req \in Requests /\ op.req # r
    BY <1>2, <1>3 DEF RecallRequests
  <2> QED
    BY <1>3, <1>4, <2>1 DEF Canceled, Failing
<1>5. CASE AbandonRecall(Retained, {r} \cup StoreToken)
  BY <1>5, AbandonCanceled
<1>6. CASE UNCHANGED <<op, coordVars>>
  BY <1>6, KeepSame
<1> QED
  BY <1>4, <1>5, <1>6 DEF ReplaceCommand

\* A result is handled: the operation ends or goes on.
LEMMA HandoffAcceptedShape ==
  ASSUME TypeOK, HandoffAccepted PROVE Same \/ Advanced
<1>1. op.kind = "handoff" /\ op' = NoOp /\ UNCHANGED late
  BY DEF HandoffAccepted, Finishing
<1>2. ~Sent /\ ~Open /\ ~Sent' /\ ~Watching'
  BY <1>1 DEF Sent, Open, Watching, NoOp, OpOf
<1>3. CASE op.req = NoReq
  BY <1>1, <1>2, <1>3 DEF HandoffAccepted, Same
<1>4. CASE op.req # NoReq
  <2>1. inflight # NoFlight
    BY <1>4 DEF HandoffAccepted, StillExpected, NoFlight
  <2>2. inflight' = [inflight EXCEPT !.phase = "readiness"]
    BY <1>4 DEF HandoffAccepted
  <2>3. inflight'.phase = "readiness"
    BY <2>1, <2>2 DEF CoordOK, Flights
  <2> QED
    BY <1>1, <1>2, <2>1, <2>3 DEF Advanced
<1> QED
  BY <1>3, <1>4

LEMMA FinishOutdatedShape == ASSUME TypeOK, EpochInv, FinishOutdated PROVE Canceled
<1>1. CASE op.gen = active /\ gen = op.gen
  BY <1>1, AbandonCanceled DEF FinishOutdated
<1>2. CASE ~(op.gen = active /\ gen = op.gen)
  <2>1. AbandonRecall(<<>>, {}) /\ active' = active
    BY <1>2 DEF FinishOutdated, FinishFrame
  <2>2. active # gen
    BY <1>2 DEF FinishOutdated, EpochInv
  <2> QED
    BY <2>1, <2>2, AbandonCanceled
<1> QED
  BY <1>1, <1>2

LEMMA ReadinessLostShape == ASSUME TypeOK, IntentInv, EpochInv, ReadinessLost PROVE Canceled
<1>1. inflight # NoFlight /\ inflight.phase = "readiness" /\ UNCHANGED active
  BY DEF ReadinessLost, ReadinessArrived, NoFlight
<1>2. ~Open
  BY <1>1 DEF Open, Sent, IntentInv, OneInFlight, Dispatching, DispatchKinds
<1>3. CASE gen # inflight.gen
  <2>1. AbandonRecall(<<>>, {}) /\ active' # gen
    BY <1>1, <1>3 DEF ReadinessLost, EpochInv
  <2> QED
    BY <2>1, AbandonCanceled
<1>4. CASE gen = inflight.gen
  BY <1>2, <1>4, AbandonCanceled DEF ReadinessLost
<1> QED
  BY <1>3, <1>4

LEMMA ReceiveLaggedShape == ASSUME TypeOK, ReceiveLagged PROVE Canceled
<1>1. CASE active = gen
  BY <1>1, AbandonCanceled DEF ReceiveLagged
<1>2. CASE active # gen
  BY <1>2, AbandonCanceled DEF ReceiveLagged
<1> QED
  BY <1>1, <1>2

LEMMA DispatchLostShape == ASSUME TypeOK, IntentInv, EpochInv, DispatchLost PROVE Canceled
<1>1. Dispatching /\ ~Sent /\ AbandonRecall(late, {})
  BY DEF DispatchLost, Finishing, Dispatching, DispatchKinds, Sent
<1>2. inflight = NoFlight
  BY <1>1 DEF IntentInv, OneInFlight
<1>3. ~Open
  BY <1>1, <1>2 DEF Open, NoFlight
<1> QED
  BY <1>1, <1>3, AbandonCanceled

LEMMA DropRuntimeSame ==
  ASSUME TypeOK, DropRuntime, UNCHANGED <<late, inflight>> PROVE Same
<1>1. op'.kind = op.kind /\ SameToken /\ (op.kind = "dispatchCommand" => op' = op)
  BY DEF DropRuntime, SameToken, OpOK, Ops
<1> QED
  BY <1>1 DEF Same, Sent, Watching, SameToken

LEMMA FadeSame ==
  ASSUME TypeOK, NEW stage, op' = HandoffAnswered(stage), UNCHANGED <<late, inflight>> PROVE Same
<1>1. op'.kind = op.kind /\ SameToken /\ (op.kind = "dispatchCommand" => op' = op)
  BY DEF HandoffAnswered, SameToken, OpOK, Ops
<1> QED
  BY <1>1 DEF Same, Sent, Watching, SameToken

LEMMA Lv1Same == ASSUME Lv1 PROVE Same
<1>1. UNCHANGED <<late, inflight, op>>
  BY DEF Lv1, Lv1Connected, Lv1Lost, ConsoleEcho, ConsoleSilent, Overrun, ManualRecall, Announce
<1> QED
  BY <1>1, KeepSame

\* What every step does to them.
LateShape ==
    \/ Same \/ Canceled \/ Advanced
    \/ AcceptRecall \/ DispatchFinished \/ SettleSuppressed \/ SettleObserved \/ LateExpires

LEMMA LateShapes ==
  ASSUME TypeOK, IntentInv, EpochInv, CallersInv, [Next]_vars PROVE LateShape
<1> DEFINE Goal == Same \/ Canceled \/ Advanced
<1>1. ASSUME NEW r \in Requests, SendCommand(r) PROVE Goal
  BY <1>1, KeepSame DEF SendCommand
<1>2. ASSUME NEW r \in Requests, PressGo(r) PROVE Goal
  BY <1>2, KeepSame DEF PressGo
<1>3. ASSUME FlipLockout PROVE Goal
  BY <1>3, KeepSame DEF FlipLockout
<1>4. ASSUME Connect PROVE Goal
  BY <1>4, DropRuntimeSame DEF Connect
<1>5. ASSUME OfferPeers PROVE Goal
  BY <1>5, KeepSame DEF OfferPeers
<1>6. ASSUME NEW b \in BOOLEAN, ClearRuntime(b) PROVE Goal
  BY <1>6, DropRuntimeSame DEF ClearRuntime
<1>7. ASSUME Lv1 PROVE Goal
  BY <1>7, Lv1Same
<1>8. ASSUME FadeAdmit PROVE Goal
  BY <1>8, FadeSame DEF FadeAdmit
<1>9. ASSUME FadeRefuse PROVE Goal
  BY <1>9, FadeSame DEF FadeRefuse
<1>10. ASSUME NEW result \in {"ok", "err"}, FadeBarrierEnds(result) PROVE Goal
  BY <1>10, KeepSame DEF FadeBarrierEnds
<1>11. ASSUME ReceiveStale PROVE Goal
  BY <1>11, KeepSame DEF ReceiveStale
<1>12. ASSUME ReceiveSceneList PROVE Goal
  BY <1>12, KeepSame DEF ReceiveSceneList
<1>13. ASSUME ReceiveScene PROVE Goal
  BY <1>13, KeepSame DEF ReceiveScene
<1>14. ASSUME ReceiveDisconnected PROVE Goal
  BY <1>14, AbandonCanceled DEF ReceiveDisconnected
<1>15. ASSUME ReceiveGeneration PROVE Goal
  <2>1. CASE Current
    BY <1>15, <2>1, KeepSame DEF ReceiveGeneration
  <2>2. CASE ~Current
    <3>1. AbandonRecall(<<>>, StoreToken) /\ active' # active
      BY <1>15, <2>2 DEF ReceiveGeneration, Current, Transition
    <3> QED
      BY <3>1, AbandonCanceled
  <2> QED
    BY <2>1, <2>2
<1>16. ASSUME ReceiveLagged PROVE Goal
  BY <1>16, ReceiveLaggedShape
<1>17. ASSUME FinishLagRecovery PROVE Goal
  BY <1>17, KeepSame DEF FinishLagRecovery
<1>18. ASSUME HoldCommand PROVE Goal
  BY <1>18, KeepSame DEF HoldCommand
<1>19. ASSUME StoreCommand PROVE Goal
  BY <1>19, KeepSame DEF StoreCommand
<1>20. ASSUME CueComplete PROVE Goal
  BY <1>20, KeepSame DEF CueComplete
<1>21. ASSUME FinishStore PROVE Goal
  BY <1>21, KeepSame DEF FinishStore
<1>22. ASSUME SettleIgnored PROVE Goal
  BY <1>22, KeepSame DEF SettleIgnored
<1>23. ASSUME RecallCommand PROVE Goal
  <2>1. ~Sent /\ UNCHANGED <<late, inflight>>
    BY <1>23 DEF RecallCommand, Busy, Idle, Sent
  <2>2. CASE UNCHANGED op
    BY <2>1, <2>2, KeepSame
  <2>3. CASE \E r : BeginAdmission(r)
    BY <2>1, <2>3, IdleSame DEF BeginAdmission, OpOf
  <2> QED
    BY <1>23, <2>2, <2>3 DEF RecallCommand
<1>24. ASSUME CueCommand PROVE Goal
  <2>1. ~Sent /\ UNCHANGED <<late, inflight>>
    BY <1>24 DEF CueCommand, Busy, Idle, Sent
  <2>2. CASE UNCHANGED op
    BY <2>1, <2>2, KeepSame
  <2>3. CASE \E r : BeginAdmission(r)
    BY <2>1, <2>3, IdleSame DEF BeginAdmission, OpOf
  <2> QED
    BY <1>24, <2>2, <2>3 DEF CueCommand
<1>25. ASSUME PeersReadyCommand PROVE Goal
  <2>1. CASE gen # active
    <3>1. AbandonRecall(<<>>, {}) /\ active' # active
      BY <1>25, <2>1 DEF PeersReadyCommand, Transition
    <3> QED
      BY <3>1, AbandonCanceled
  <2>2. CASE gen = active
    BY <1>25, <2>2, KeepSame DEF PeersReadyCommand
  <2> QED
    BY <2>1, <2>2
<1>26. ASSUME ReplaceCommand PROVE Goal
  BY <1>26, ReplaceShape
<1>27. ASSUME ReadinessLost PROVE Goal
  BY <1>27, ReadinessLostShape
<1>28. ASSUME ReadinessStartsInterval PROVE Goal
  <2>1. inflight # NoFlight /\ inflight'.phase = "interval" /\ inflight.phase = "readiness"
    BY <1>28 DEF ReadinessStartsInterval, ReadinessArrived, NoFlight, CoordOK, Flights
  <2>2. ~Sent /\ UNCHANGED <<op, late>>
    BY <1>28, <2>1 DEF ReadinessStartsInterval, Sent, IntentInv, OneInFlight,
         Dispatching, DispatchKinds
  <2> QED
    BY <2>1, <2>2 DEF Advanced, Open, Sent, Watching
<1>29. ASSUME ReadinessReleases PROVE Goal
  BY <1>29, ReleaseNextAdvanced DEF ReadinessReleases, ReadinessArrived
<1>30. ASSUME IntervalElapsed PROVE Goal
  BY <1>30, ReleaseNextAdvanced DEF IntervalElapsed
<1>31. ASSUME SafetyDeadline PROVE Goal
  BY <1>31, AbandonCanceled DEF SafetyDeadline
<1>32. ASSUME LockoutChanged PROVE Goal
  BY <1>32, AbandonCanceled, KeepSame DEF LockoutChanged
<1>33. ASSUME HandoffSend PROVE Goal
  BY <1>33 DEF HandoffSend, Same, Sent, Watching, OpOK, Ops
<1>34. ASSUME FinishOutdated PROVE Goal
  BY <1>34, FinishOutdatedShape
<1>35. ASSUME AdmissionAccepted PROVE Goal
  BY <1>35, BeginSame DEF AdmissionAccepted, Finishing
<1>36. ASSUME AdmissionRefused PROVE Goal
  BY <1>36, BeginSame DEF AdmissionRefused, Finishing
<1>37. ASSUME DispatchInvalid PROVE Goal
  BY <1>37, BeginSame DEF DispatchInvalid, Finishing
<1>38. ASSUME DispatchPrepared PROVE Goal
  <2>1. op'.kind = "dispatchCommand" /\ op'.stage = "asking" /\ op.kind = "dispatchSnapshot"
        /\ UNCHANGED <<late, inflight>>
    BY <1>38 DEF DispatchPrepared, Finishing, EpochInv, OpOK, Ops
  <2> QED
    BY <2>1 DEF Same, Sent, Watching
<1>39. ASSUME DispatchLost PROVE Goal
  BY <1>39, DispatchLostShape
<1>40. ASSUME ObservationPrepared PROVE Goal
  <2>1. op'.kind = "handoff" /\ op'.req = op.req /\ op.kind = "obsSnapshot"
        /\ UNCHANGED <<late, inflight>>
    BY <1>40 DEF ObservationPrepared, Finishing, OpOK, Ops
  <2> QED
    BY <2>1 DEF Same, Sent, Watching
<1>41. ASSUME ObservationDropped PROVE Goal
  BY <1>41, IdleSame DEF ObservationDropped, Finishing, Sent, NoOp, OpOf
<1>42. ASSUME HandoffDropped PROVE Goal
  BY <1>42, IdleSame DEF HandoffDropped, Finishing, Sent, NoOp, OpOf
<1>43. ASSUME ObservationLost PROVE Goal
  BY <1>43, AbandonCanceled DEF ObservationLost
<1>44. ASSUME HandoffAccepted PROVE Goal
  BY <1>44, HandoffAcceptedShape
<1>45. ASSUME HandoffFailed PROVE Goal
  <2>1. CASE op' = NoOp /\ UNCHANGED coordVars
    BY <1>45, <2>1, IdleSame DEF HandoffFailed, Finishing, Sent, NoOp, OpOf
  <2>2. CASE AbandonRecall(Retained, {})
    BY <2>2, AbandonCanceled
  <2> QED
    BY <1>45, <2>1, <2>2 DEF HandoffFailed
<1>46. ASSUME UNCHANGED vars PROVE Goal
  BY <1>46, KeepSame DEF vars
<1> HIDE DEF Goal
<1>47. Goal => LateShape
  BY DEF Goal, LateShape
<1> QED
  BY <1>1, <1>2, <1>3, <1>4, <1>5, <1>6, <1>7, <1>8, <1>9, <1>10, <1>11, <1>12,
     <1>13, <1>14, <1>15, <1>16, <1>17, <1>18, <1>19, <1>20, <1>21, <1>22, <1>23,
     <1>24, <1>25, <1>26, <1>27, <1>28, <1>29, <1>30, <1>31, <1>32, <1>33, <1>34,
     <1>35, <1>36, <1>37, <1>38, <1>39, <1>40, <1>41, <1>42, <1>43, <1>44, <1>45,
     <1>46, <1>47
  DEF Next, Callers, Lifecycle, Fade, ScenesActor, EventBranch, CommandBranch,
      ReadinessBranch, TimerBranch, SettleBranch, OpBranch, LateShape

-----------------------------------------------------------------------------
(* Identities are of accepted recalls, so nothing is evicted               *)

Identities == Len(late) + (IF inflight = NoFlight THEN 0 ELSE 1) + (IF Sent THEN 1 ELSE 0)

\* An accepted recall has been answered or is about to be, and there are no more
\* identities than accepted recalls.
Accounted ==
    /\ accepted \subseteq RecallRequests /\ IsFiniteSet(accepted)
    /\ \A r \in accepted : reply[r] \in {"ok", "err"} \/ (Sent /\ op.req = r)
    /\ Sent => op.req \in accepted
    /\ Identities <= Cardinality(accepted)

\* An answer is final.
LEMMA AnsweredStays ==
  ASSUME TypeOK, IntentInv, CallersInv, [Next]_vars, NEW r \in RecallRequests,
         reply[r] \in {"ok", "err"}
  PROVE  reply'[r] = reply[r]
<1>1. FifoStep
  BY FifoSteps
<1>2. ~Fifo!Member(r)
  <2>1. r \in Requests /\ ~Keeps(r)
    BY DEF CallersInv, Remembered, RecallRequests
  <2>2. Dispatching => r # op.req
    BY <2>1 DEF Keeps, Dispatching, OpToken
  <2> QED
    BY <2>1, <2>2, QueueIs DEF Keeps
<1>3. FifoOutcome[r] = reply[r] /\ FifoOutcome'[r] = reply'[r]
  BY DEF FifoOutcome
<1>4. CASE UNCHANGED FifoOutcome
  BY <1>3, <1>4
<1>5. CASE \E q \in RecallRequests : Fifo!Ask(q) \/ Fifo!Refuse(q)
  <2>1. PICK q \in RecallRequests : Fifo!Ask(q) \/ Fifo!Refuse(q)
    BY <1>5
  <2>2. q # r
    BY <1>3, <2>1 DEF Fifo!Ask, Fifo!Refuse
  <2>3. \E a : FifoOutcome' = [FifoOutcome EXCEPT ![q] = a]
    BY <2>1 DEF Fifo!Ask, Fifo!Refuse
  <2> QED
    BY <1>3, <2>2, <2>3 DEF FifoOutcome
<1>6. CASE Fifo!RefuseHead \/ Fifo!Dispatch
  <2>1. FifoQueue # <<>> /\ \E a : FifoOutcome' = [FifoOutcome EXCEPT ![Head(FifoQueue)] = a]
    BY <1>6 DEF Fifo!RefuseHead, Fifo!Dispatch
  <2>2. Fifo!Member(Head(FifoQueue))
    <3>1. CASE Dispatching
      BY <3>1, QueueIs
    <3>2. CASE ~Dispatching
      <4>1. FifoQueue = waiting /\ waiting \in Seq(Requests) /\ waiting # <<>>
        BY <2>1, <3>2, QueueIs DEF CoordOK
      <4>2. 1 \in DOMAIN waiting /\ waiting[1] = Head(waiting)
        BY <4>1, HeadTailProperties, LenProperties
      <4> QED
        BY <4>1, <4>2, QueueIs DEF Queued
    <3> QED
      BY <3>1, <3>2
  <2> QED
    BY <1>2, <1>3, <2>1, <2>2 DEF FifoOutcome
<1>7. CASE Fifo!CancelAll
  <2>1. PICK others \in SUBSET {q \in RecallRequests :
                        FifoOutcome[q] = "waiting" /\ ~Fifo!Member(q)} :
          FifoOutcome' = [q \in RecallRequests |-> IF Fifo!Member(q) \/ q \in others
                                                   THEN "err" ELSE FifoOutcome[q]]
    BY <1>7 DEF Fifo!CancelAll
  <2>2. r \notin others
    BY <1>3, <2>1
  <2> QED
    BY <1>2, <1>3, <2>1, <2>2
<1> QED
  BY <1>1, <1>4, <1>5, <1>6, <1>7
  DEF FifoStep, Fifo!Next, Fifo!fifoVars, Fifo!Admit, Fifo!Through

LEMMA RetainedLen ==
  ASSUME TypeOK
  PROVE  /\ Len(late) \in Nat
         /\ inflight.phase # "observation" => Retained = late
         /\ inflight.phase = "observation" => Len(Retained) <= Len(late) + 1
<1>1. Len(late) \in Nat /\ late \in Seq(LateEntries)
  BY LenProperties DEF CoordOK
<1>2. CASE inflight.phase # "observation"
  BY <1>1, <1>2 DEF Retained
<1>3. CASE inflight.phase = "observation"
  <2> DEFINE entry == [gen |-> inflight.gen, seq |-> inflight.seq,
                       scene |-> SceneOf[inflight.req]]
             kept == IF Len(late) = LateCapacity THEN Tail(late) ELSE late
  <2>1. kept \in Seq(LateEntries) /\ Len(kept) <= Len(late) /\ Len(kept) \in Nat
    BY <1>1, CapacityAssumption, HeadTailProperties, LenProperties
  <2>2. entry \in LateEntries
    BY <1>3, RequestsAssumption DEF CoordOK, Flights, NoFlight, LateEntries
  <2>3. Len(Append(kept, entry)) = Len(kept) + 1
    BY <2>1, <2>2, AppendProperties
  <2> QED
    BY <1>1, <1>3, <2>1, <2>3 DEF Retained
<1> QED
  BY <1>2, <1>3

LEMMA AcceptedRequest ==
  ASSUME TypeOK, CallersInv, Accounted, AcceptRecall
  PROVE  /\ op.req \in RecallRequests /\ op.req \notin accepted /\ reply[op.req] = "waiting"
         /\ ~Sent /\ Sent'
         /\ op'.req = op.req /\ op'.gen = op.gen /\ op'.seq = obsSeq
<1>1. op.kind = "dispatchCommand" /\ op.stage = "asking" /\ ~Sent
  BY DEF AcceptRecall, Sent
<1>2. op.req \in OpToken /\ op.req \in RecallRequests /\ op.req \in Requests
  BY <1>1 DEF OpToken, DispatchKinds, CallersInv, Kinds, RecallRequests
<1>3. reply[op.req] = "waiting"
  BY <1>2 DEF CallersInv, Remembered, Keeps
<1>4. op'.kind = op.kind /\ op'.stage = "accepted" /\ op'.req = op.req /\ op'.gen = op.gen
      /\ op'.seq = obsSeq
  BY <1>1 DEF AcceptRecall, OpOK, Ops
<1> QED
  BY <1>1, <1>2, <1>3, <1>4 DEF Accounted, Sent

\* The identities a step that accepts nothing keeps.
LEMMA FewerIdentities ==
  ASSUME TypeOK, TypeOK', IntentInv, EpochInv,
         Same \/ Canceled \/ Advanced \/ DispatchFinished
              \/ SettleSuppressed \/ SettleObserved \/ LateExpires
  PROVE  Identities' <= Identities /\ Identities \in Nat /\ Identities' \in Nat
<1> DEFINE flying == IF inflight = NoFlight THEN 0 ELSE 1
           sending == IF Sent THEN 1 ELSE 0
<1>0. Len(late) \in Nat /\ late \in Seq(LateEntries) /\ flying \in {0, 1} /\ sending \in {0, 1}
      /\ Identities = Len(late) + flying + sending
  BY LenProperties DEF CoordOK, Identities
<1>01. /\ Len(late') \in Nat
       /\ Identities' = Len(late') + flying' + sending'
       /\ flying' \in {0, 1} /\ sending' \in {0, 1}
  BY LenProperties DEF CoordOK, Identities
<1>1. CASE Same
  <2>1. sending' = sending /\ flying' = flying /\ late' = late
    BY <1>1 DEF Same
  <2> HIDE DEF flying, sending
  <2> QED
    BY <1>0, <1>01, <2>1
<1>2. CASE Canceled
  <2>1. Identities' = Len(late')
    BY <1>2 DEF Canceled, Identities, Sent, NoOp, OpOf
  <2>2. late' = <<>> => Len(late') = 0
    OBVIOUS
  <2>3. inflight.phase = "observation" => flying = 1
    BY DEF NoFlight
  <2> HIDE DEF flying, sending
  <2> QED
    BY <1>0, <1>2, <2>1, <2>2, <2>3, RetainedLen DEF Canceled
<1>3. CASE Advanced
  BY <1>0, <1>3 DEF Advanced, Identities
<1>4. CASE DispatchFinished
  <2>1. Sent /\ Dispatching
    BY <1>4 DEF DispatchFinished, Finishing, Sent, Dispatching, DispatchKinds
  <2>2. inflight = NoFlight /\ ~Sent' /\ late' = late
    BY <1>4, <2>1 DEF DispatchFinished, IntentInv, OneInFlight, Sent, NoOp, OpOf
  <2> QED
    BY <1>0, <2>1, <2>2 DEF Identities
<1>5. CASE SettleSuppressed
  <2>1. PICK i \in DOMAIN late : late' = RemoveAt(late, i)
    BY <1>5 DEF SettleSuppressed
  <2>2. Len(late') <= Len(late) /\ Len(late') \in Nat
    BY <1>0, <2>1, RemoveAtType, LenProperties
  <2>3. sending' = sending /\ flying' = flying
    BY <1>5 DEF SettleSuppressed, Sent
  <2> HIDE DEF flying, sending
  <2> QED
    BY <1>0, <1>01, <2>2, <2>3
<1>6. CASE SettleObserved
  <2>1. ~Sent /\ ~Sent' /\ UNCHANGED <<late, inflight>>
    BY <1>6 DEF SettleObserved, Settled, Idle, Sent, OpOf
  <2> QED
    BY <1>0, <2>1 DEF Identities
<1>7. CASE LateExpires
  <2>1. Len(late') <= Len(late) /\ Len(late') \in Nat
    BY <1>0, <1>7, HeadTailProperties, LenProperties DEF LateExpires
  <2>2. sending' = sending /\ flying' = flying
    BY <1>7 DEF LateExpires, Sent
  <2> HIDE DEF flying, sending
  <2> QED
    BY <1>0, <1>01, <2>1, <2>2
<1>8. Identities \in Nat /\ Identities' \in Nat
  <2> HIDE DEF flying, sending
  <2> QED
    BY <1>0, <1>01
<1> QED
  BY <1>1, <1>2, <1>3, <1>4, <1>5, <1>6, <1>7, <1>8

LEMMA AccountedStep ==
  ASSUME TypeOK, IntentInv, EpochInv, CallersInv, Accounted, [Next]_vars PROVE Accounted'
<1>0. Cardinality(accepted) \in Nat /\ Identities \in Int
  <2>1. Len(late) \in Nat
    BY RetainedLen
  <2> QED
    BY <2>1, FS_CardinalityType DEF Accounted, Identities
<1>1. CASE AcceptRecall
  <2>1. accepted' = accepted \cup {op.req} /\ UNCHANGED <<late, inflight, reply>>
    BY <1>1 DEF AcceptRecall
  <2>2. IsFiniteSet(accepted') /\ Cardinality(accepted') = Cardinality(accepted) + 1
    BY <1>1, <2>1, AcceptedRequest, FS_AddElement DEF Accounted
  <2>3. Identities' = Identities + 1
    <3>1. Len(late) \in Nat
      BY RetainedLen
    <3> QED
      BY <1>1, <2>1, <3>1, AcceptedRequest DEF Identities
  <2>4. Identities' <= Cardinality(accepted')
    BY <1>0, <2>2, <2>3 DEF Accounted
  <2> QED
    BY <1>1, <2>1, <2>2, <2>4, AcceptedRequest DEF Accounted
<1>2. CASE ~AcceptRecall
  <2>1. UNCHANGED accepted
    BY <1>2, AcceptedOnly
  <2>2. LateShape
    BY LateShapes
  <2>3. Identities' <= Cardinality(accepted')
    <3>1. Identities' <= Identities /\ Identities \in Nat /\ Identities' \in Nat
      BY <1>2, <2>2, TypeStep, FewerIdentities DEF LateShape
    <3> QED
      BY <1>0, <2>1, <3>1 DEF Accounted
  <2>4. Sent => (Sent' /\ op'.req = op.req) \/ (~Sent' /\ reply'[op.req] \in {"ok", "err"})
    <3>1. CASE Same
      BY <3>1 DEF Same, SameToken
    <3>2. CASE Canceled
      BY <3>2 DEF Canceled, Sent, NoOp, OpOf
    <3>3. CASE Advanced
      BY <3>3 DEF Advanced, Open
    <3>4. CASE DispatchFinished
      <4>1. op.req \in Requests
        BY <3>4 DEF DispatchFinished, Finishing, OpOK, Ops
      <4> QED
        BY <3>4, <4>1 DEF DispatchFinished, Answering, Sent, NoOp, OpOf
    <3>5. CASE SettleSuppressed \/ SettleObserved
      BY <3>5 DEF SettleSuppressed, SettleObserved, Settled, Idle, Sent
    <3>6. CASE LateExpires
      BY <3>6 DEF LateExpires, Sent
    <3> QED
      BY <1>2, <2>2, <3>1, <3>2, <3>3, <3>4, <3>5, <3>6 DEF LateShape
  <2>5. Sent' => Sent /\ op'.req = op.req
    <3>1. CASE Same
      BY <3>1 DEF Same, SameToken
    <3>2. CASE Canceled
      BY <3>2 DEF Canceled, Sent, NoOp, OpOf
    <3>3. CASE Advanced
      BY <3>3 DEF Advanced
    <3>4. CASE DispatchFinished
      BY <3>4 DEF DispatchFinished, Sent, NoOp, OpOf
    <3>5. CASE SettleSuppressed \/ SettleObserved
      BY <3>5 DEF SettleSuppressed, SettleObserved, Sent, OpOf
    <3>6. CASE LateExpires
      BY <3>6 DEF LateExpires, Sent
    <3> QED
      BY <1>2, <2>2, <3>1, <3>2, <3>3, <3>4, <3>5, <3>6 DEF LateShape
  <2>6. \A r \in accepted : reply'[r] \in {"ok", "err"} \/ (Sent' /\ op'.req = r)
    BY <2>4, AnsweredStays DEF Accounted
  <2> QED
    BY <2>1, <2>3, <2>5, <2>6 DEF Accounted
<1> QED
  BY <1>1, <1>2

LEMMA InitAccounted == Init => Accounted
BY FS_EmptySet DEF Init, Accounted, Identities, Sent, NoOp, OpOf, NoFlight

-----------------------------------------------------------------------------
(* The announcements that are on their way                                 *)

\* Nobody has recalled at the console and no transport session was lost.
Undisturbed == budget.spent["manual"] = 0 /\ budget.spent["lost"] = 0

Heard(i) == i \in DOMAIN events /\ events[i].kind = "scene"

\* The present generation has announced nothing.
Silent ==
    /\ toConsole = <<>> /\ (pendingObs # NoObs => pendingObs.gen # gen)
    /\ \A i \in DOMAIN events : Heard(i) => events[i].gen # gen
\* Scenes has not met the present generation with its peers.
Apart == handover # "offered" \/ (peers = gen /\ active # gen)

\* Every announcement is of an accepted recall, and of one that is not announced twice.
Genuine ==
    /\ \A i \in DOMAIN toConsole : toConsole[i] \in accepted
    /\ \A i \in DOMAIN events :
         Heard(i) => events[i].from \in accepted /\ events[i].scene = SceneOf[events[i].from]
    /\ pendingObs # NoObs =>
         pendingObs.from \in accepted /\ pendingObs.scene = SceneOf[pendingObs.from]
Single ==
    /\ Injective(toConsole)
    /\ \A i, j \in DOMAIN events : Heard(i) /\ Heard(j) /\ events[i].from = events[j].from => i = j
    /\ \A i \in DOMAIN events, j \in DOMAIN toConsole : Heard(i) => events[i].from # toConsole[j]
    /\ pendingObs # NoObs =>
         /\ \A i \in DOMAIN events : Heard(i) => events[i].from # pendingObs.from
         /\ \A i \in DOMAIN toConsole : toConsole[i] # pendingObs.from

\* Announcements of the present generation arrive in the order of their sequences.
Ordered ==
    /\ pendingObs # NoObs /\ pendingObs.gen = gen => pendingObs.seq <= obsSeq
    /\ \A i \in DOMAIN events : Heard(i) /\ events[i].gen = gen =>
         /\ events[i].seq <= obsSeq
         /\ pendingObs # NoObs /\ pendingObs.gen = gen => pendingObs.seq < events[i].seq
         /\ \A j \in DOMAIN events :
              Heard(j) /\ events[j].gen = gen /\ i < j => events[i].seq < events[j].seq

\* Without a lost session only a generation that is over is disconnected.
Over == \A i \in DOMAIN events : events[i].kind = "disconnected" => events[i].gen < gen

Echoes == (Apart => Silent) /\ Genuine /\ Single /\ Ordered /\ Over
EchoInv == Undisturbed => Echoes

LEMMA SpentGrows ==
  ASSUME TypeOK, [Next]_vars, NEW k \in EnvKinds, budget'.spent[k] = 0
  PROVE  budget.spent[k] = 0
<1>1. CASE UNCHANGED budget
  BY <1>1
<1>2. CASE \E j \in EnvKinds : Spend(j)
  BY <1>2 DEF Spend, BudgetOK, BudgetRecords
<1>3. UNCHANGED budget \/ \E j \in EnvKinds : Spend(j)
  <2>1. CASE Callers \/ Lifecycle \/ Lv1 \/ Fade
    BY <2>1 DEF Callers, FlipLockout, SendCommand, PressGo, Lifecycle, Connect, OfferPeers,
                ClearRuntime, DropRuntime, Lv1, Lv1Connected, Lv1Lost, ConsoleEcho,
                ConsoleSilent, Overrun, ManualRecall, Fade, FadeAdmit, FadeRefuse,
                FadeBarrierEnds, EnvKinds
  <2>2. CASE EventBranch \/ CommandBranch \/ CueCommand \/ CueComplete \/ FinishLagRecovery
    BY <2>2 DEF EventBranch, ReceiveStale, ReceiveSceneList, ReceiveScene, ReceiveDisconnected,
                ReceiveGeneration, ReceiveLagged, CommandBranch, HoldCommand, RecallCommand,
                StoreCommand, PeersReadyCommand, ReplaceCommand, CueCommand, CueComplete,
                FinishLagRecovery
  <2>3. CASE ReadinessBranch \/ TimerBranch \/ LockoutChanged \/ LateExpires
    BY <2>3 DEF ReadinessBranch, ReadinessLost, ReadinessStartsInterval, ReadinessReleases,
                ReleaseNext, TimerBranch, IntervalElapsed, SafetyDeadline, LockoutChanged,
                LateExpires, EnvKinds
  <2>4. CASE SettleBranch \/ FinishStore
    BY <2>4 DEF SettleBranch, SettleIgnored, SettleSuppressed, SettleObserved, FinishStore
  <2>5. CASE OpBranch
    BY <2>5 DEF OpBranch, FinishFrame, AcceptRecall, HandoffSend, FinishOutdated,
                AdmissionAccepted, AdmissionRefused, DispatchPrepared, DispatchInvalid,
                DispatchLost, DispatchFinished, ObservationPrepared, ObservationDropped,
                ObservationLost, HandoffDropped, HandoffAccepted, HandoffFailed
  <2>6. CASE UNCHANGED vars
    BY <2>6 DEF vars
  <2> QED
    BY <2>1, <2>2, <2>3, <2>4, <2>5, <2>6 DEF Next, ScenesActor
<1> QED
  BY <1>1, <1>2, <1>3

LEMMA HeardType ==
  ASSUME TypeOK, NEW i \in DOMAIN events, Heard(i)
  PROVE  events[i] \in Observations /\ events[i].gen \in Gens /\ events[i].seq \in Nat
         /\ events[i].from \in MaybeReq /\ events[i] # NoObs /\ i \in Nat
<1>1. events[i] \in Facts \cup Observations /\ i \in Nat
  BY LenProperties DEF BusOK
<1>2. events[i] \in Observations
  BY <1>1 DEF Heard, Facts
<1> QED
  BY <1>1, <1>2 DEF Observations, NoObs

LEMMA PendingType ==
  ASSUME TypeOK, pendingObs # NoObs
  PROVE  pendingObs \in Observations /\ pendingObs.gen \in Gens /\ pendingObs.seq \in Nat
         /\ pendingObs.from \in MaybeReq
BY DEF CoordOK, Observations

\* Announcements leave, and a new generation begins without any.
LEMMA KeepEchoes ==
  ASSUME TypeOK, EpochInv, Echoes, NEW k \in {0, 1},
         \A i \in DOMAIN events' : events'[i].kind = "scene" =>
            i + k \in DOMAIN events /\ events'[i] = events[i + k],
         Over', pendingObs' \in {pendingObs, NoObs}, toConsole' \in {toConsole, <<>>},
         UNCHANGED accepted, DOMAIN events' \subseteq Nat,
         \/ gen' = gen /\ obsSeq' = obsSeq /\ (Apart' => Apart)
         \/ gen' = gen + 1 /\ toConsole' = <<>>
  PROVE  Echoes'
<1>1. \A i \in DOMAIN events' : Heard(i)' => Heard(i + k) /\ events'[i] = events[i + k]
  BY DEF Heard
<1>2. gen \in Nat /\ (gen' # gen => gen' = gen + 1)
  BY DEF LifecycleOK, Gens
<1>3. gen' # gen => /\ \A i \in DOMAIN events : events[i].gen # gen'
                    /\ pendingObs # NoObs => pendingObs.gen # gen'
  <2>1. pendingObs # NoObs => pendingObs.gen <= gen /\ pendingObs.gen \in Nat
    BY PendingType DEF EpochInv, Gens
  <2>2. \A i \in DOMAIN events : events[i].gen <= gen /\ events[i].gen \in Nat
    BY EventGen DEF EpochInv, Gens
  <2> QED
    BY <1>2, <2>1, <2>2
<1>4. Apart' => Silent'
  <2>1. CASE gen' = gen
    BY <1>1, <1>2, <2>1 DEF Echoes, Silent, Heard
  <2>2. CASE gen' # gen
    BY <1>1, <1>2, <1>3, <2>2 DEF Silent, Heard
  <2> QED
    BY <2>1, <2>2
<1>5. Genuine'
  BY <1>1 DEF Echoes, Genuine, Heard
<1>6. Single'
  <2>1. Injective(toConsole')
    BY DEF Echoes, Single, Injective
  <2>2. \A i, j \in DOMAIN events' :
          Heard(i)' /\ Heard(j)' /\ events'[i].from = events'[j].from => i = j
    <3> SUFFICES ASSUME NEW i \in DOMAIN events', NEW j \in DOMAIN events', Heard(i)', Heard(j)',
                        events'[i].from = events'[j].from
                 PROVE  i = j
      OBVIOUS
    <3>1. i + k = j + k
      BY <1>1 DEF Echoes, Single, Heard
    <3> QED
      BY <3>1
  <2>3. \A i \in DOMAIN events', j \in DOMAIN toConsole' :
           Heard(i)' => events'[i].from # toConsole'[j]
    BY <1>1 DEF Echoes, Single, Heard
  <2>4. pendingObs' # NoObs => 
         /\ \A i \in DOMAIN events' : Heard(i)' => events'[i].from # pendingObs'.from
         /\ \A i \in DOMAIN toConsole' : toConsole'[i] # pendingObs'.from
    BY <1>1 DEF Echoes, Single, Heard
  <2> QED
    BY <2>1, <2>2, <2>3, <2>4 DEF Single, Injective
<1>7. Ordered'
  <2>1. CASE gen' = gen
    <3>1. obsSeq' = obsSeq
      BY <1>2, <2>1
    <3>2. \A i, j \in DOMAIN events' : i < j => i + k < j + k
      OBVIOUS
    <3>3. \A i \in DOMAIN events' : Heard(i)' /\ events'[i].gen = gen' =>
             /\ events'[i].seq <= obsSeq'
             /\ pendingObs' # NoObs /\ pendingObs'.gen = gen' => pendingObs'.seq < events'[i].seq
      BY <1>1, <2>1, <3>1 DEF Echoes, Ordered, Heard
    <3>4. \A i \in DOMAIN events', j \in DOMAIN events' :
             Heard(i)' /\ Heard(j)' /\ events'[i].gen = gen' /\ events'[j].gen = gen' /\ i < j
             => events'[i].seq < events'[j].seq
      <4> SUFFICES ASSUME NEW i \in DOMAIN events', NEW j \in DOMAIN events', Heard(i)', Heard(j)',
                          events'[i].gen = gen, events'[j].gen = gen, i < j
                   PROVE  events'[i].seq < events'[j].seq
        BY <2>1
      <4>1. Heard(i + k) /\ Heard(j + k) /\ events'[i] = events[i + k] /\ events'[j] = events[j + k]
        BY <1>1
      <4>2. i + k < j + k /\ i + k \in DOMAIN events /\ j + k \in DOMAIN events
        BY <3>2, <4>1 DEF Heard
      <4> QED
        BY <4>1, <4>2 DEF Echoes, Ordered
    <3> QED
      BY <2>1, <3>1, <3>3, <3>4 DEF Echoes, Ordered
  <2>2. CASE gen' # gen
    BY <1>1, <1>3, <2>2 DEF Ordered, Heard
  <2> QED
    BY <2>1, <2>2
<1> QED
  BY <1>4, <1>5, <1>6, <1>7 DEF Echoes

LEMMA PublishKeeps ==
  ASSUME TypeOK, NEW facts \in Seq(Facts \cup Observations), Publish(facts), Over,
         \A i \in DOMAIN facts : facts[i].kind # "scene",
         \A i \in DOMAIN facts : facts[i].kind = "disconnected" => facts[i].gen < gen',
         gen' \in {gen, gen + 1}
  PROVE  /\ \A i \in DOMAIN events' : events'[i].kind = "scene" =>
              i + 0 \in DOMAIN events /\ events'[i] = events[i + 0]
         /\ Over' /\ DOMAIN events' \subseteq Nat
<1>1. DOMAIN events' \subseteq Nat /\ \A i \in DOMAIN events' : i + 0 = i
  BY Published
<1>2. \A i \in DOMAIN events' : events'[i].kind = "scene" =>
              i \in DOMAIN events /\ events'[i] = events[i]
  BY Published
<1>3. \A i \in DOMAIN events : events[i].gen < gen => events[i].gen < gen'
  BY EventGen DEF LifecycleOK, Gens
<1>4. Over'
  <2> SUFFICES ASSUME NEW i \in DOMAIN events', events'[i].kind = "disconnected"
               PROVE  events'[i].gen < gen'
    BY DEF Over
  <2>1. CASE i \in DOMAIN events
    BY <1>3, <2>1, Published DEF Over
  <2>2. CASE i \notin DOMAIN events
    <3>1. i - Len(events) \in DOMAIN facts /\ events'[i] = facts[i - Len(events)]
      BY <2>2, Published
    <3> QED
      BY <3>1
  <2> QED
    BY <2>1, <2>2
<1> QED
  BY <1>1, <1>2, <1>4

LEMMA TakeKeeps ==
  ASSUME TypeOK, events # <<>>, events' = Tail(events), gen' = gen, Over
  PROVE  /\ \A i \in DOMAIN events' : events'[i].kind = "scene" =>
              i + 1 \in DOMAIN events /\ events'[i] = events[i + 1]
         /\ Over' /\ DOMAIN events' \subseteq Nat
BY Taken DEF Over

LEMMA StayKeeps ==
  ASSUME TypeOK, UNCHANGED events \/ events' = <<>>, gen' = gen, Over
  PROVE  /\ \A i \in DOMAIN events' : events'[i].kind = "scene" =>
              i + 0 \in DOMAIN events /\ events'[i] = events[i + 0]
         /\ Over' /\ DOMAIN events' \subseteq Nat
<1>1. \A i \in DOMAIN events : i \in Nat /\ i + 0 = i
  BY LenProperties DEF BusOK
<1> QED
  BY <1>1 DEF Over

LEMMA InsideEchoes == ASSUME TypeOK, EpochInv, Echoes, Inside PROVE Echoes'
<1>1. UNCHANGED <<gen, handover, peers, active, events, obsSeq, toConsole, accepted>>
      /\ pendingObs' \in {pendingObs, NoObs}
  BY DEF Inside
<1>2. Apart' => Apart
  BY <1>1 DEF Apart
<1> QED
  BY <1>1, <1>2, StayKeeps, KeepEchoes DEF Echoes

LEMMA ConnectEchoes == ASSUME TypeOK, EpochInv, Echoes, Connect PROVE Echoes'
<1>1. gen + 1 \in Gens /\ gen \in Nat
  BY NextGenType DEF Connect, LifecycleOK, Gens
<1> DEFINE facts == <<Fact("generation", gen + 1)>>
<1>2. facts \in Seq(Facts \cup Observations) /\ \A i \in DOMAIN facts : facts[i].kind = "generation"
  BY <1>1 DEF Fact, Facts
<1>3. Publish(facts)
  BY DEF Connect
<1> HIDE DEF facts
<1>4. gen' = gen + 1 /\ toConsole' = <<>> /\ UNCHANGED <<accepted, pendingObs>>
  BY DEF Connect, DropRuntime
<1> QED
  BY <1>2, <1>3, <1>4, PublishKeeps, KeepEchoes DEF Echoes

LEMMA ClearRuntimeEchoes ==
  ASSUME TypeOK, EpochInv, Echoes, NEW b \in BOOLEAN, ClearRuntime(b) PROVE Echoes'
<1>1. gen + 1 \in Gens /\ gen \in Nat
  BY NextGenType DEF ClearRuntime, LifecycleOK, Gens
<1> DEFINE facts == ClearFacts(b)
<1>2. /\ facts \in Seq(Facts \cup Observations) /\ Len(facts) = IF b THEN 2 ELSE 1
      /\ facts[Len(facts)] = Fact("generation", gen + 1)
      /\ b => facts[1] = Fact("disconnected", gen)
  BY <1>1, ClearedFacts
<1>3. Publish(facts)
  BY DEF ClearRuntime, ClearFacts
<1> HIDE DEF facts
<1>4. gen' = gen + 1 /\ toConsole' = <<>> /\ UNCHANGED <<accepted, pendingObs>>
  BY DEF ClearRuntime, DropRuntime
<1>5. \A i \in DOMAIN facts : facts[i] = Fact("generation", gen + 1)
                              \/ facts[i] = Fact("disconnected", gen)
  <2>1. CASE b
    <3>1. DOMAIN facts = 1 .. 2
      BY <1>2, <2>1, LenProperties
    <3> QED
      BY <1>2, <2>1, <3>1
  <2>2. CASE ~b
    <3>1. DOMAIN facts = 1 .. 1
      BY <1>2, <2>2, LenProperties
    <3> QED
      BY <1>2, <2>2, <3>1
  <2> QED
    BY <2>1, <2>2
<1>6. \A i \in DOMAIN facts : facts[i].kind # "scene" /\ 
         (facts[i].kind = "disconnected" => facts[i].gen < gen')
  BY <1>1, <1>4, <1>5 DEF Fact
<1> QED
  BY <1>2, <1>3, <1>4, <1>6, PublishKeeps, KeepEchoes DEF Echoes

LEMMA OfferPeersEchoes == ASSUME TypeOK, EpochInv, Echoes, OfferPeers PROVE Echoes'
<1>1. UNCHANGED <<gen, events, obsSeq, toConsole, accepted, pendingObs>> /\ Apart
  BY DEF OfferPeers, Apart
<1> QED
  BY <1>1, StayKeeps, KeepEchoes DEF Echoes

LEMMA Lv1ConnectedEchoes == ASSUME TypeOK, EpochInv, Echoes, Lv1Connected PROVE Echoes'
<1> DEFINE facts == <<Fact("sceneList", gen)>>
<1>1. facts \in Seq(Facts \cup Observations) /\ \A i \in DOMAIN facts : facts[i].kind = "sceneList"
  BY DEF Fact, Facts, LifecycleOK
<1>2. Publish(facts)
  BY DEF Lv1Connected
<1> HIDE DEF facts
<1>3. UNCHANGED <<gen, handover, peers, active, obsSeq, toConsole, accepted, pendingObs>>
  BY DEF Lv1Connected
<1>4. Apart' => Apart
  BY <1>3 DEF Apart
<1> QED
  BY <1>1, <1>2, <1>3, <1>4, PublishKeeps, KeepEchoes DEF Echoes

LEMMA OverrunEchoes == ASSUME TypeOK, EpochInv, Echoes, Overrun PROVE Echoes'
<1>1. UNCHANGED <<gen, handover, peers, active, events, obsSeq, toConsole, accepted, pendingObs>>
  BY DEF Overrun
<1>2. Apart' => Apart
  BY <1>1 DEF Apart
<1> QED
  BY <1>1, <1>2, StayKeeps, KeepEchoes DEF Echoes

\* A fact of another kind is taken.
LEMMA TakeEchoes ==
  ASSUME TypeOK, EpochInv, Echoes, events # <<>>, events' = Tail(events),
         UNCHANGED <<gen, obsSeq, toConsole, accepted>>, pendingObs' \in {pendingObs, NoObs},
         Apart' => Apart
  PROVE  Echoes'
BY TakeKeeps, KeepEchoes DEF Echoes

LEMMA ReceiveStaleEchoes == ASSUME TypeOK, EpochInv, Echoes, ReceiveStale PROVE Echoes'
<1>1. UNCHANGED <<lifecycleVars, active, obsSeq, toConsole, accepted, pendingObs>>
      /\ \E kind : Receive(kind)
  BY DEF ReceiveStale
<1>2. Apart' => Apart
  BY <1>1 DEF Apart
<1> QED
  BY <1>1, <1>2, ReceivedFact, TakeEchoes

LEMMA ReceiveSceneListEchoes == ASSUME TypeOK, EpochInv, Echoes, ReceiveSceneList PROVE Echoes'
<1>1. UNCHANGED <<lifecycleVars, active, obsSeq, toConsole, accepted, pendingObs>>
      /\ Receive("sceneList")
  BY DEF ReceiveSceneList
<1>2. Apart' => Apart
  BY <1>1 DEF Apart
<1> QED
  BY <1>1, <1>2, ReceivedFact, TakeEchoes

LEMMA ReceiveDisconnectedEchoes ==
  ASSUME TypeOK, EpochInv, Echoes, ReceiveDisconnected PROVE Echoes'
<1>1. UNCHANGED <<lifecycleVars, active, obsSeq, toConsole, accepted>> /\ pendingObs' = NoObs
      /\ Receive("disconnected")
  BY DEF ReceiveDisconnected, AbandonRecall
<1>2. Apart' => Apart
  BY <1>1 DEF Apart
<1> QED
  BY <1>1, <1>2, ReceivedFact, TakeEchoes

LEMMA ReceiveGenerationEchoes ==
  ASSUME TypeOK, EpochInv, Echoes, ReceiveGeneration PROVE Echoes'
<1>1. Receive("generation") /\ UNCHANGED <<gen, handover, obsSeq, toConsole, accepted>>
  BY DEF ReceiveGeneration
<1>2. CASE Current
  <2>1. UNCHANGED <<peers, active, pendingObs>>
    BY <1>2 DEF ReceiveGeneration
  <2>2. Apart' => Apart
    BY <1>1, <2>1 DEF Apart
  <2> QED
    BY <1>1, <2>1, <2>2, ReceivedFact, TakeEchoes
<1>3. CASE ~Current
  <2> DEFINE g == Head(events).gen
  <2>1. g \in Nat /\ g <= gen /\ gen \in Nat
    BY <1>1, ReceivedFact, Taken, EventGen DEF EpochInv, LifecycleOK, Gens
  <2>2. active' = g /\ pendingObs' = NoObs
        /\ peers' = (IF active # g /\ peers = active THEN 0 ELSE peers)
    BY <1>3 DEF ReceiveGeneration, Transition, AbandonRecall
  <2>3. Apart' => Apart
    BY <1>1, <2>1, <2>2 DEF Apart
  <2> QED
    BY <1>1, <2>2, <2>3, ReceivedFact, TakeEchoes
<1> QED
  BY <1>2, <1>3

LEMMA ReceiveLaggedEchoes == ASSUME TypeOK, EpochInv, Echoes, ReceiveLagged PROVE Echoes'
<1>1. UNCHANGED <<gen, handover, obsSeq, toConsole, accepted>> /\ pendingObs' = NoObs
      /\ events' = <<>> /\ active' = gen
  BY DEF ReceiveLagged, AbandonRecall
<1>2. Apart' => Apart
  BY <1>1 DEF Apart
<1> QED
  BY <1>1, <1>2, StayKeeps, KeepEchoes DEF Echoes

LEMMA PeersReadyEchoes == ASSUME TypeOK, EpochInv, Echoes, PeersReadyCommand PROVE Echoes'
<1>1. CASE gen # active
  <2>1. UNCHANGED <<gen, handover, obsSeq, toConsole, accepted, events>> /\ pendingObs' = NoObs
        /\ active' = gen
    BY <1>1 DEF PeersReadyCommand, EndTurn, Transition, AbandonRecall
  <2>2. Apart' => Apart
    BY <2>1 DEF Apart
  <2> QED
    BY <2>1, <2>2, StayKeeps, KeepEchoes DEF Echoes
<1>2. CASE gen = active
  <2>1. UNCHANGED <<lifecycleVars, obsSeq, toConsole, accepted, events, pendingObs, active>>
    BY <1>2 DEF PeersReadyCommand, EndTurn
  <2>2. Apart' => Apart
    BY <2>1 DEF Apart
  <2> QED
    BY <2>1, <2>2, StayKeeps, KeepEchoes DEF Echoes
<1> QED
  BY <1>1, <1>2

LEMMA ReceiveSceneEchoes == ASSUME TypeOK, EpochInv, Echoes, ReceiveScene PROVE Echoes'
<1>1. UNCHANGED <<lifecycleVars, active, obsSeq, toConsole, accepted>> /\ Receive("scene")
      /\ pendingObs' = events[1] /\ Heard(1) /\ 1 \in DOMAIN events
  <2>1. Receive("scene")
    BY DEF ReceiveScene
  <2> QED
    BY <2>1, ReceivedFact, Taken DEF ReceiveScene, Heard
<1>2. \A i \in DOMAIN events' : i + 1 \in DOMAIN events /\ events'[i] = events[i + 1]
        /\ i + 1 > 1 /\ i \in Nat
  BY <1>1, ReceivedFact, Taken
<1>3. Apart' => Silent'
  BY <1>1, <1>2 DEF Echoes, Apart, Silent, Heard
<1>4. Genuine'
  BY <1>1, <1>2 DEF Echoes, Genuine, Heard
<1>5. Single'
  <2>1. \A i, j \in DOMAIN events' :
          Heard(i)' /\ Heard(j)' /\ events'[i].from = events'[j].from => i = j
    <3> SUFFICES ASSUME NEW i \in DOMAIN events', NEW j \in DOMAIN events', Heard(i)', Heard(j)',
                        events'[i].from = events'[j].from
                 PROVE  i = j
      OBVIOUS
    <3>1. i + 1 = j + 1 /\ i \in Nat /\ j \in Nat
      BY <1>2 DEF Echoes, Single, Heard
    <3> QED
      BY <3>1
  <2>2. \A i \in DOMAIN events' : Heard(i)' => events'[i].from # events[1].from
    <3> SUFFICES ASSUME NEW i \in DOMAIN events', Heard(i)' PROVE events'[i].from # events[1].from
      OBVIOUS
    <3>1. Heard(i + 1) /\ events'[i] = events[i + 1] /\ i + 1 # 1 /\ i + 1 \in DOMAIN events
      BY <1>2 DEF Heard
    <3> QED
      BY <1>1, <3>1 DEF Echoes, Single
  <2>3. \A i \in DOMAIN toConsole : toConsole[i] # events[1].from
    BY <1>1 DEF Echoes, Single
  <2>4. \A i \in DOMAIN events', j \in DOMAIN toConsole :
           Heard(i)' => events'[i].from # toConsole[j]
    BY <1>2 DEF Echoes, Single, Heard
  <2> QED
    BY <1>1, <2>1, <2>2, <2>3, <2>4 DEF Echoes, Single, Injective
<1>6. Ordered'
  <2>1. \A i \in DOMAIN events' : Heard(i)' => Heard(i + 1) /\ i + 1 \in DOMAIN events
                                             /\ events'[i] = events[i + 1] /\ 1 < i + 1
    BY <1>2 DEF Heard
  <2>2. \A i \in DOMAIN events', j \in DOMAIN events' : i < j => i + 1 < j + 1
    BY <1>2
  <2>3. \A i \in DOMAIN events' : Heard(i)' /\ events'[i].gen = gen =>
          /\ events'[i].seq <= obsSeq
          /\ events[1].gen = gen => events[1].seq < events'[i].seq
    BY <1>1, <2>1 DEF Echoes, Ordered
  <2>4. \A i \in DOMAIN events', j \in DOMAIN events' :
          Heard(i)' /\ Heard(j)' /\ events'[i].gen = gen /\ events'[j].gen = gen /\ i < j
          => events'[i].seq < events'[j].seq
    <3> SUFFICES ASSUME NEW i \in DOMAIN events', NEW j \in DOMAIN events', Heard(i)', Heard(j)',
                        events'[i].gen = gen, events'[j].gen = gen, i < j
                 PROVE  events'[i].seq < events'[j].seq
      OBVIOUS
    <3>1. i + 1 < j + 1 /\ Heard(i + 1) /\ Heard(j + 1)
          /\ i + 1 \in DOMAIN events /\ j + 1 \in DOMAIN events
          /\ events'[i] = events[i + 1] /\ events'[j] = events[j + 1]
      BY <2>1, <2>2
    <3> QED
      BY <3>1 DEF Echoes, Ordered
  <2>5. events[1].gen = gen => events[1].seq <= obsSeq
    BY <1>1 DEF Echoes, Ordered
  <2> QED
    BY <1>1, <2>3, <2>4, <2>5 DEF Ordered
<1>7. Over'
  BY <1>1, ReceivedFact, TakeKeeps DEF Echoes
<1> QED
  BY <1>3, <1>4, <1>5, <1>6, <1>7 DEF Echoes

LEMMA ConsoleTaken ==
  ASSUME TypeOK, toConsole # <<>>, toConsole' = Tail(toConsole)
  PROVE  /\ 1 \in DOMAIN toConsole /\ Head(toConsole) = toConsole[1]
         /\ \A i \in DOMAIN toConsole' : i \in Nat /\ i + 1 > 1 /\ i + 1 \in DOMAIN toConsole
                                        /\ toConsole'[i] = toConsole[i + 1]
BY HeadTailProperties, LenProperties DEF Lv1OK

LEMMA ConsoleSilentEchoes == ASSUME TypeOK, EpochInv, Echoes, ConsoleSilent PROVE Echoes'
<1>1. UNCHANGED <<gen, handover, peers, active, events, obsSeq, accepted, pendingObs>>
      /\ toConsole # <<>> /\ toConsole' = Tail(toConsole)
  BY DEF ConsoleSilent
<1>2. ~Apart'
  BY <1>1 DEF Echoes, Apart, Silent
<1>3. Genuine'
  BY <1>1, ConsoleTaken DEF Echoes, Genuine, Heard
<1>4. Single'
  <2>1. Injective(toConsole')
    <3> SUFFICES ASSUME NEW i \in DOMAIN toConsole', NEW j \in DOMAIN toConsole',
                        toConsole'[i] = toConsole'[j]
                 PROVE  i = j
      BY DEF Injective
    <3>1. i + 1 = j + 1 /\ i \in Nat /\ j \in Nat
      BY <1>1, ConsoleTaken DEF Echoes, Single, Injective
    <3> QED
      BY <3>1
  <2>2. \A i, j \in DOMAIN events : Heard(i) /\ Heard(j) /\ events[i].from = events[j].from => i = j
    BY DEF Echoes, Single
  <2>3. \A i \in DOMAIN events, j \in DOMAIN toConsole' : Heard(i) => events[i].from # toConsole'[j]
    BY <1>1, ConsoleTaken DEF Echoes, Single
  <2>4. pendingObs # NoObs =>
         /\ \A i \in DOMAIN events : Heard(i) => events[i].from # pendingObs.from
         /\ \A i \in DOMAIN toConsole' : toConsole'[i] # pendingObs.from
    BY <1>1, ConsoleTaken DEF Echoes, Single
  <2> QED
    BY <1>1, <2>1, <2>2, <2>3, <2>4 DEF Single, Injective, Heard
<1>5. Ordered' /\ Over'
  BY <1>1 DEF Echoes, Ordered, Over, Heard
<1> QED
  BY <1>2, <1>3, <1>4, <1>5 DEF Echoes

LEMMA ConsoleEchoEchoes == ASSUME TypeOK, EpochInv, Echoes, ConsoleEcho PROVE Echoes'
<1> DEFINE r == Head(toConsole)
           n == Len(events) + 1
           e == [kind |-> "scene", gen |-> gen, seq |-> obsSeq + 1, scene |-> SceneOf[r],
                 from |-> r]
<1>1. UNCHANGED <<gen, handover, peers, active, accepted, pendingObs>> /\ obsSeq' = obsSeq + 1
      /\ toConsole # <<>> /\ toConsole' = Tail(toConsole) /\ Publish(<<e>>)
  BY DEF ConsoleEcho, Announce
<1>2. r = toConsole[1] /\ 1 \in DOMAIN toConsole
  BY <1>1, ConsoleTaken
<1>3. r \in Requests /\ obsSeq \in Nat
  BY <1>2 DEF Lv1OK
<1>4. e \in Observations /\ <<e>> \in Seq(Facts \cup Observations)
  BY <1>3, RequestsAssumption DEF Observations, LifecycleOK, MaybeReq
<1>5. /\ \A i \in DOMAIN events' : (i \in DOMAIN events /\ i < n /\ events'[i] = events[i])
                                   \/ (i = n /\ events'[i] = e)
      /\ n \in Nat /\ \A i \in DOMAIN events : i \in Nat /\ i < n
  <2> DEFINE facts == <<e>>
  <2>1. facts \in Seq(Facts \cup Observations) /\ Publish(facts) /\ Len(facts) = 1 /\ facts[1] = e
    BY <1>1, <1>4
  <2> HIDE DEF facts, e
  <2>2. \A i \in DOMAIN facts : i = 1
    BY <2>1, Published
  <2>3. \A i \in DOMAIN events' : i \notin DOMAIN events => i - Len(events) = 1 /\ i > Len(events)
                                                         /\ events'[i] = e
    BY <2>1, <2>2, Published
  <2>4. Len(events) \in Nat /\ DOMAIN events = 1 .. Len(events)
        /\ DOMAIN events' = 1 .. Len(events) + Len(facts)
        /\ \A i \in DOMAIN events : events'[i] = events[i]
    BY <2>1, Published
  <2> HIDE DEF n
  <2>5. n \in Nat /\ n = Len(events) + 1
    BY <2>4 DEF n
  <2> QED
    BY <2>3, <2>4, <2>5
<1> HIDE DEF n
<1>6. e.kind = "scene" /\ e.gen = gen /\ e.seq = obsSeq + 1 /\ e.scene = SceneOf[r] /\ e.from = r
  OBVIOUS
<1> HIDE DEF e, r
<1>7. ~Apart'
  BY <1>1 DEF Echoes, Apart, Silent
<1>8. Genuine'
  BY <1>1, <1>2, <1>5, <1>6, ConsoleTaken DEF Echoes, Genuine, Heard
<1>9. \A i \in DOMAIN toConsole' : toConsole'[i] # r
  <2> SUFFICES ASSUME NEW i \in DOMAIN toConsole', toConsole'[i] = r PROVE FALSE
    OBVIOUS
  <2>1. i + 1 \in DOMAIN toConsole /\ toConsole[i + 1] = toConsole[1] /\ i + 1 > 1
    BY <1>1, <1>2, ConsoleTaken
  <2> QED
    BY <1>2, <2>1 DEF Echoes, Single, Injective
<1>10. Single'
  <2>1. Injective(toConsole')
    <3> SUFFICES ASSUME NEW i \in DOMAIN toConsole', NEW j \in DOMAIN toConsole',
                        toConsole'[i] = toConsole'[j]
                 PROVE  i = j
      BY DEF Injective
    <3>1. i + 1 = j + 1 /\ i \in Nat /\ j \in Nat
      BY <1>1, ConsoleTaken DEF Echoes, Single, Injective
    <3> QED
      BY <3>1
  <2>2. \A i, j \in DOMAIN events' :
          Heard(i)' /\ Heard(j)' /\ events'[i].from = events'[j].from => i = j
    BY <1>2, <1>5, <1>6 DEF Echoes, Single, Heard
  <2>3. \A i \in DOMAIN events', j \in DOMAIN toConsole' :
          Heard(i)' => events'[i].from # toConsole'[j]
    BY <1>1, <1>5, <1>6, <1>9, ConsoleTaken DEF Echoes, Single, Heard
  <2>4. pendingObs # NoObs =>
         /\ \A i \in DOMAIN events' : Heard(i)' => events'[i].from # pendingObs.from
         /\ \A i \in DOMAIN toConsole' : toConsole'[i] # pendingObs.from
    BY <1>1, <1>2, <1>5, <1>6, ConsoleTaken DEF Echoes, Single, Heard
  <2> QED
    BY <1>1, <2>1, <2>2, <2>3, <2>4 DEF Single, Injective
<1>11. Ordered'
  <2>1. pendingObs # NoObs => pendingObs.seq \in Nat
    BY PendingType
  <2>2. \A i \in DOMAIN events : Heard(i) => events[i].seq \in Nat
    BY HeardType
  <2>3. pendingObs # NoObs /\ pendingObs.gen = gen => pendingObs.seq < obsSeq + 1
    BY <1>3, <2>1 DEF Echoes, Ordered
  <2>4. \A i \in DOMAIN events : Heard(i) /\ events[i].gen = gen => events[i].seq < obsSeq + 1
    BY <1>3, <2>2 DEF Echoes, Ordered
  <2>5. \A i \in DOMAIN events' : Heard(i)' /\ events'[i].gen = gen =>
         /\ events'[i].seq <= obsSeq + 1
         /\ pendingObs # NoObs /\ pendingObs.gen = gen => pendingObs.seq < events'[i].seq
    <3> SUFFICES ASSUME NEW i \in DOMAIN events', Heard(i)', events'[i].gen = gen
                 PROVE  /\ events'[i].seq <= obsSeq + 1
                        /\ pendingObs # NoObs /\ pendingObs.gen = gen
                                => pendingObs.seq < events'[i].seq
      OBVIOUS
    <3>1. CASE i = n /\ events'[i] = e
      BY <1>3, <1>6, <2>3, <3>1
    <3>2. CASE i \in DOMAIN events /\ events'[i] = events[i]
      <4>1. Heard(i) /\ events[i].gen = gen /\ events[i].seq \in Nat
        BY <2>2, <3>2 DEF Heard
      <4>2. events[i].seq < obsSeq + 1
        BY <2>4, <3>2, <4>1
      <4>3. pendingObs # NoObs /\ pendingObs.gen = gen => pendingObs.seq < events[i].seq
        BY <3>2, <4>1 DEF Echoes, Ordered
      <4> QED
        BY <1>3, <3>2, <4>1, <4>2, <4>3
    <3> QED
      BY <1>5, <3>1, <3>2
  <2>6. \A i \in DOMAIN events', j \in DOMAIN events' :
          Heard(i)' /\ Heard(j)' /\ events'[i].gen = gen /\ events'[j].gen = gen /\ i < j
          => events'[i].seq < events'[j].seq
    <3> SUFFICES ASSUME NEW i \in DOMAIN events', NEW j \in DOMAIN events', Heard(i)', Heard(j)',
                        events'[i].gen = gen, events'[j].gen = gen, i < j
                 PROVE  events'[i].seq < events'[j].seq
      OBVIOUS
    <3>1. i \in DOMAIN events /\ events'[i] = events[i]
      BY <1>5
    <3>2. CASE j = n /\ events'[j] = e
      BY <1>6, <2>4, <3>1, <3>2 DEF Heard
    <3>3. CASE j \in DOMAIN events /\ events'[j] = events[j]
      BY <3>1, <3>3 DEF Echoes, Ordered, Heard
    <3> QED
      BY <1>5, <3>2, <3>3
  <2>7. pendingObs # NoObs /\ pendingObs.gen = gen => pendingObs.seq <= obsSeq + 1
    BY <1>3, <2>1, <2>3
  <2> QED
    BY <1>1, <2>5, <2>6, <2>7 DEF Ordered
<1>12. Over'
  BY <1>1, <1>5, <1>6 DEF Echoes, Over
<1> QED
  BY <1>7, <1>8, <1>10, <1>11, <1>12 DEF Echoes

LEMMA AcceptRecallEchoes ==
  ASSUME TypeOK, CallersInv, EpochInv, Accounted, Echoes, AcceptRecall PROVE Echoes'
<1> DEFINE n == Len(toConsole) + 1
<1>1. UNCHANGED <<gen, handover, peers, active, events, obsSeq, pendingObs>>
      /\ toConsole' = Append(toConsole, op.req) /\ accepted' = accepted \cup {op.req}
      /\ gen = op.gen /\ ~Idle
  BY DEF AcceptRecall, Idle
<1>2. op.req \in Requests /\ op.req \notin accepted
  BY AcceptedRequest DEF RecallRequests
<1>3. /\ \A i \in DOMAIN toConsole' : (i \in DOMAIN toConsole /\ toConsole'[i] = toConsole[i])
                                      \/ (i = n /\ toConsole'[i] = op.req)
      /\ n \notin DOMAIN toConsole
  BY <1>1, <1>2, AppendProperties, LenProperties DEF Lv1OK
<1> HIDE DEF n
<1>4. ~Apart'
  BY <1>1 DEF Apart, EpochInv
<1>5. Genuine'
  BY <1>1, <1>3 DEF Echoes, Genuine, Heard
<1>6. Single'
  <2>1. Injective(toConsole')
    BY <1>2, <1>3 DEF Echoes, Single, Genuine, Injective
  <2>2. \A i, j \in DOMAIN events : Heard(i) /\ Heard(j) /\ events[i].from = events[j].from => i = j
    BY DEF Echoes, Single
  <2>3. \A i \in DOMAIN events, j \in DOMAIN toConsole' : Heard(i) => events[i].from # toConsole'[j]
    BY <1>2, <1>3 DEF Echoes, Single, Genuine
  <2>4. pendingObs # NoObs =>
         /\ \A i \in DOMAIN events : Heard(i) => events[i].from # pendingObs.from
         /\ \A i \in DOMAIN toConsole' : toConsole'[i] # pendingObs.from
    BY <1>2, <1>3 DEF Echoes, Single, Genuine
  <2> QED
    BY <1>1, <2>1, <2>2, <2>3, <2>4 DEF Single, Injective, Heard
<1>7. Ordered' /\ Over'
  BY <1>1 DEF Echoes, Ordered, Over, Heard
<1> QED
  BY <1>4, <1>5, <1>6, <1>7 DEF Echoes

LEMMA EchoStep ==
  ASSUME TypeOK, CallersInv, EpochInv, Accounted, EchoInv, [Next]_vars PROVE EchoInv'
<1> SUFFICES ASSUME Undisturbed' PROVE Echoes'
  BY DEF EchoInv
<1>1. Undisturbed /\ Echoes
  BY SpentGrows DEF Undisturbed, EnvKinds, EchoInv
<1>2. ASSUME NEW k \in {"manual", "lost"}, Spend(k) PROVE FALSE
  <2>1. budget.spent[k] = 0
    BY <1>1, <1>2 DEF Undisturbed
  <2>2. budget'.spent[k] = 1
    BY <1>2, <2>1 DEF Spend, BudgetOK, BudgetRecords, EnvKinds
  <2> QED
    BY <2>2 DEF Undisturbed
<1>3. ~Lv1Lost /\ \A s \in Scenes : ~ManualRecall(s)
  BY <1>2 DEF Lv1Lost, ManualRecall
<1>4. CASE Inside
  BY <1>1, <1>4, InsideEchoes
<1>5. CASE Outside
  BY <1>1, <1>3, <1>5, ConnectEchoes, OfferPeersEchoes, ClearRuntimeEchoes, Lv1ConnectedEchoes,
     ConsoleEchoEchoes, ConsoleSilentEchoes, OverrunEchoes, ReceiveStaleEchoes,
     ReceiveSceneListEchoes, ReceiveSceneEchoes, ReceiveDisconnectedEchoes,
     ReceiveGenerationEchoes, ReceiveLaggedEchoes, PeersReadyEchoes, AcceptRecallEchoes
  DEF Outside, Lv1, EventBranch
<1> QED
  BY <1>4, <1>5, InsideSteps

LEMMA InitEcho == Init => EchoInv
BY DEF Init, EchoInv, Echoes, Silent, Genuine, Single, Ordered, Over, Heard, Injective

-----------------------------------------------------------------------------
(* What is still to be announced                                           *)

\* Scenes has peers, and it has not been told that their generation is over.
Serving == HasPeers(active) /\ (active = gen \/ quiet)

\* The announcement of r is on its way to Scenes, with sequence n at least.
Due(r, n) ==
    \/ pendingObs # NoObs /\ pendingObs.from = r /\ pendingObs.seq = n
    \/ /\ active = gen
       /\ \/ \E i \in DOMAIN events : Heard(i) /\ events[i].gen = gen
                                      /\ events[i].from = r /\ events[i].seq = n
          \/ n = obsSeq + 1 /\ \E i \in DOMAIN toConsole : toConsole[i] = r

Hushed == \A r \in Requests, n \in Nat : ~Due(r, n)

\* A step after which nothing is due that was not due before.
Quieter ==
    /\ Serving /\ UNCHANGED active /\ (active # gen => active' # gen')
    /\ \A r \in Requests, n \in Nat : Due(r, n)' => \E k \in Nat : k <= n /\ Due(r, k)

\* Announcements leave, and at most the generation moves on.
LEMMA LeaveQuieter ==
  ASSUME TypeOK, NEW j \in {0, 1},
         \A i \in DOMAIN events' : events'[i].kind = "scene" =>
            i + j \in DOMAIN events /\ events'[i] = events[i + j],
         pendingObs' \in {pendingObs, NoObs}, Serving, UNCHANGED active,
         \/ UNCHANGED <<gen, obsSeq>> /\ \A i \in DOMAIN toConsole' :
                                            \E k \in DOMAIN toConsole : toConsole'[i] = toConsole[k]
         \/ active' # gen'
  PROVE  Quieter
<1>1. active # gen => active' # gen'
  OBVIOUS
<1>2. \A r \in Requests, n \in Nat : Due(r, n)' => Due(r, n)
  <2> SUFFICES ASSUME NEW r \in Requests, NEW n \in Nat, Due(r, n)' PROVE Due(r, n)
    OBVIOUS
  <2>1. CASE pendingObs' # NoObs /\ pendingObs'.from = r /\ pendingObs'.seq = n
    BY <2>1 DEF Due
  <2>2. CASE ~(pendingObs' # NoObs /\ pendingObs'.from = r /\ pendingObs'.seq = n)
    <3>1. active' = gen' /\ gen' = gen /\ obsSeq' = obsSeq
      BY <2>2 DEF Due
    <3>2. CASE \E i \in DOMAIN events' : Heard(i)' /\ events'[i].gen = gen
                                      /\ events'[i].from = r /\ events'[i].seq = n
      <4>1. PICK i \in DOMAIN events' : Heard(i)' /\ events'[i].gen = gen
                                      /\ events'[i].from = r /\ events'[i].seq = n
        BY <3>2
      <4>2. i + j \in DOMAIN events /\ events'[i] = events[i + j] /\ Heard(i + j)
        BY <4>1 DEF Heard
      <4> QED
        BY <3>1, <4>1, <4>2 DEF Due
    <3>3. CASE n = obsSeq + 1 /\ \E i \in DOMAIN toConsole' : toConsole'[i] = r
      BY <3>1, <3>3 DEF Due
    <3> QED
      BY <2>2, <3>1, <3>2, <3>3 DEF Due
  <2> QED
    BY <2>1, <2>2
<1> QED
  BY <1>1, <1>2 DEF Quieter

LEMMA SameKeeps ==
  ASSUME TypeOK, UNCHANGED events
  PROVE  \A i \in DOMAIN events' : events'[i].kind = "scene" =>
            i + 0 \in DOMAIN events /\ events'[i] = events[i + 0]
BY LenProperties DEF BusOK

LEMMA InsideDue == ASSUME TypeOK, EpochInv, Inside, Serving' PROVE Quieter
<1>1. UNCHANGED <<gen, peers, active, events, obsSeq, toConsole>>
      /\ pendingObs' \in {pendingObs, NoObs} /\ (quiet' => quiet \/ (events = <<>> /\ ~lagged))
  BY DEF Inside
<1>2. HasPeers(active) /\ (active = gen \/ quiet')
  BY <1>1 DEF Serving, HasPeers
<1>3. Serving
  BY <1>1, <1>2 DEF Serving, EpochInv
<1> QED
  BY <1>1, <1>3, SameKeeps, LeaveQuieter

\* The generation moves on: what is published is of no concern.
LEMMA MoveOnDue ==
  ASSUME TypeOK, EpochInv, gen' = gen + 1, peers' \in {peers, 0}, Serving',
         UNCHANGED <<active, quiet, pendingObs>>
  PROVE  Quieter
<1>1. active \in Nat /\ gen \in Nat /\ active # gen'
  BY DEF EpochInv, LibraryOK, LifecycleOK, Gens
<1>2. Serving
  BY <1>1 DEF Serving, HasPeers
<1>3. \A r \in Requests, n \in Nat : Due(r, n)' => Due(r, n)
  BY <1>1 DEF Due
<1> QED
  BY <1>1, <1>2, <1>3 DEF Quieter

LEMMA ConnectDue == ASSUME TypeOK, EpochInv, Connect, Serving' PROVE Quieter
BY MoveOnDue DEF Connect

LEMMA ClearRuntimeDue ==
  ASSUME TypeOK, EpochInv, NEW b \in BOOLEAN, ClearRuntime(b), Serving' PROVE Quieter
<1>1. gen' = gen + 1 /\ UNCHANGED <<active, quiet, pendingObs>> /\ peers' \in {peers, 0}
  BY DEF ClearRuntime
<1> QED
  BY <1>1, MoveOnDue

\* Scenes meets a generation that has announced nothing yet.
LEMMA SilentHushed ==
  ASSUME TypeOK, EpochInv, Silent, active' = gen, UNCHANGED <<gen, toConsole>>,
         pendingObs' = NoObs \/ (UNCHANGED pendingObs /\ active = gen),
         NEW j \in {0, 1},
         \A i \in DOMAIN events' : events'[i].kind = "scene" =>
            i + j \in DOMAIN events /\ events'[i] = events[i + j]
  PROVE  Hushed'
<1>1. pendingObs' = NoObs
  BY DEF Silent, EpochInv
<1>2. \A i \in DOMAIN events' : Heard(i)' => events'[i].gen # gen
  BY DEF Silent, Heard
<1> QED
  BY <1>1, <1>2 DEF Hushed, Due, Silent

LEMMA OfferPeersDue ==
  ASSUME TypeOK, EpochInv, Echoes, OfferPeers, Serving' PROVE Hushed'
<1>1. UNCHANGED <<gen, active, events, toConsole, pendingObs>> /\ peers' = gen
      /\ handover = "connecting"
  BY DEF OfferPeers
<1>2. Silent /\ active = gen
  BY <1>1 DEF Echoes, Apart, Serving, HasPeers
<1> QED
  BY <1>1, <1>2, SameKeeps, SilentHushed

\* Scenes moves to the generation of its peers.
LEMMA ArriveDue ==
  ASSUME TypeOK, EpochInv, Echoes, active # gen, active' = gen, UNCHANGED <<gen, toConsole>>,
         peers' \in {peers, 0}, Serving', pendingObs' = NoObs, NEW j \in {0, 1},
         \A i \in DOMAIN events' : events'[i].kind = "scene" =>
            i + j \in DOMAIN events /\ events'[i] = events[i + j]
  PROVE  Hushed'
<1>1. gen \in Nat /\ peers' = gen /\ gen > 0
  BY DEF Serving, HasPeers, LifecycleOK, Gens
<1>2. peers = gen
  BY <1>1
<1>3. Silent
  BY <1>2 DEF Echoes, Apart
<1> QED
  BY <1>3, SilentHushed

LEMMA ReceiveLaggedDue ==
  ASSUME TypeOK, EpochInv, Echoes, ReceiveLagged, Serving' PROVE Quieter \/ Hushed'
<1>1. UNCHANGED <<gen, toConsole, obsSeq>> /\ pendingObs' = NoObs /\ events' = <<>>
      /\ active' = gen /\ peers' \in {peers, 0}
      /\ (active = gen => peers' = peers)
  BY DEF ReceiveLagged, AbandonRecall
<1>2. \A i \in DOMAIN events' : events'[i].kind = "scene" =>
            i + 0 \in DOMAIN events /\ events'[i] = events[i + 0]
  BY <1>1
<1>3. CASE active = gen
  <2>1. Serving
    BY <1>1, <1>3 DEF Serving, HasPeers
  <2>2. Quieter
    BY <1>1, <1>2, <1>3, <2>1, LeaveQuieter
  <2> QED
    BY <2>2
<1>4. CASE active # gen
  <2>1. Hushed'
    BY <1>1, <1>2, <1>4, ArriveDue
  <2> QED
    BY <2>1
<1> QED
  BY <1>3, <1>4

LEMMA PeersReadyDue ==
  ASSUME TypeOK, EpochInv, Echoes, PeersReadyCommand, Serving' PROVE Quieter \/ Hushed'
<1>1. UNCHANGED <<gen, toConsole, obsSeq, events>> /\ quiet' = (events = <<>> /\ ~lagged)
  BY DEF PeersReadyCommand, EndTurn
<1>2. CASE active = gen
  <2>1. UNCHANGED <<active, peers, pendingObs>>
    BY <1>2 DEF PeersReadyCommand
  <2>2. Serving
    BY <1>1, <1>2, <2>1 DEF Serving, HasPeers
  <2>3. Quieter
    BY <1>1, <1>2, <2>1, <2>2, SameKeeps, LeaveQuieter
  <2> QED
    BY <2>3
<1>3. CASE active # gen
  <2>1. active' = gen /\ peers' \in {peers, 0} /\ pendingObs' = NoObs
    BY <1>3 DEF PeersReadyCommand, Transition, AbandonRecall
  <2>2. Hushed'
    BY <1>1, <1>3, <2>1, SameKeeps, ArriveDue
  <2> QED
    BY <2>2
<1> QED
  BY <1>2, <1>3

\* An actor behind the authority has the generation fact still before it.
LEMMA BehindBusy ==
  ASSUME TypeOK, EpochInv, NEW kind, Receive(kind), active # gen, ~GenerationFact(Head(events))
  PROVE  ~quiet'
<1>1. PICK i \in DOMAIN events : GenerationFact(events[i])
  BY ReceivedFact DEF EpochInv
<1>2. events # <<>> /\ events' = Tail(events) /\ quiet' = (Tail(events) = <<>>)
  BY ReceivedFact
<1>3. i > 1
  BY <1>1, <1>2, Taken
<1>4. i - 1 \in DOMAIN events'
  BY <1>2, <1>3, Taken
<1>5. events' # <<>>
  BY <1>4
<1> QED
  BY <1>2, <1>5

LEMMA TakeDue ==
  ASSUME TypeOK, EpochInv, NEW kind, Receive(kind), ~GenerationFact(Head(events)) \/ active = gen,
         UNCHANGED <<gen, active, peers, obsSeq, toConsole, pendingObs>>, Serving'
  PROVE  Quieter
<1>1. active = gen
  BY BehindBusy DEF Serving
<1>2. Serving
  BY <1>1 DEF Serving, HasPeers
<1>3. \A i \in DOMAIN events' : i + 1 \in DOMAIN events /\ events'[i] = events[i + 1]
  BY ReceivedFact, Taken
<1> QED
  BY <1>1, <1>2, <1>3, LeaveQuieter

LEMMA ReceiveStaleDue == ASSUME TypeOK, EpochInv, ReceiveStale, Serving' PROVE Quieter
<1>1. PICK kind \in {"sceneList", "scene", "disconnected"} : Receive(kind)
  BY DEF ReceiveStale
<1>2. UNCHANGED <<gen, active, peers, obsSeq, toConsole, pendingObs>>
  BY DEF ReceiveStale
<1> QED
  BY <1>1, <1>2, ReceivedFact, TakeDue DEF GenerationFact

LEMMA ReceiveSceneListDue == ASSUME TypeOK, EpochInv, ReceiveSceneList, Serving' PROVE Quieter
<1>1. Receive("sceneList") /\ UNCHANGED <<gen, active, peers, obsSeq, toConsole, pendingObs>>
  BY DEF ReceiveSceneList
<1> QED
  BY <1>1, ReceivedFact, TakeDue DEF GenerationFact

LEMMA ReceiveGenerationDue ==
  ASSUME TypeOK, EpochInv, Echoes, ReceiveGeneration, Serving' PROVE Quieter \/ Hushed'
<1>1. Receive("generation") /\ UNCHANGED <<gen, obsSeq, toConsole>>
  BY DEF ReceiveGeneration
<1>2. CASE Current
  <2>1. UNCHANGED <<active, peers, pendingObs>>
    BY <1>2 DEF ReceiveGeneration
  <2> QED
    BY <1>1, <1>2, <2>1, TakeDue DEF Current, GenerationFact
<1>3. CASE ~Current
  <2> DEFINE g == Head(events).gen
  <2>1. active' = g /\ pendingObs' = NoObs /\ peers' \in {peers, 0} /\ active # g
    BY <1>3 DEF ReceiveGeneration, Transition, AbandonRecall, Current
  <2> HIDE DEF g
  <2>2. CASE g = gen
    <3>1. \A i \in DOMAIN events' : i + 1 \in DOMAIN events /\ events'[i] = events[i + 1]
      BY <1>1, ReceivedFact, Taken
    <3>2. Hushed'
      BY <1>1, <2>1, <2>2, <3>1, ArriveDue
    <3> QED
      BY <3>2
  <2>3. CASE g # gen
    BY <1>1, <2>1, <2>3 DEF Hushed, Due
  <2> QED
    BY <2>2, <2>3
<1> QED
  BY <1>2, <1>3

\* Without a lost session a disconnection is of a generation that is over.
LEMMA ReceiveDisconnectedDue ==
  ASSUME TypeOK, EpochInv, Echoes, ReceiveDisconnected, Serving' PROVE FALSE
<1>1. Receive("disconnected") /\ Current /\ UNCHANGED <<gen, active>>
  BY DEF ReceiveDisconnected
<1>2. events[1].kind = "disconnected" /\ events[1].gen = active /\ 1 \in DOMAIN events
  BY <1>1, ReceivedFact, Taken DEF Current
<1>3. active < gen /\ gen \in Nat /\ active \in Nat
  BY <1>2 DEF Echoes, Over, LifecycleOK, LibraryOK, Gens
<1>4. ~GenerationFact(Head(events))
  BY <1>1, ReceivedFact DEF GenerationFact
<1> QED
  BY <1>1, <1>3, <1>4, BehindBusy DEF Serving

LEMMA ReceiveSceneDue == ASSUME TypeOK, EpochInv, ReceiveScene, Serving' PROVE Quieter
<1>1. Receive("scene") /\ Current /\ UNCHANGED <<gen, active, peers, obsSeq, toConsole>>
      /\ pendingObs' = Head(events)
  BY DEF ReceiveScene
<1>2. active = gen
  BY <1>1, ReceivedFact, BehindBusy DEF Serving, GenerationFact
<1>3. Serving
  BY <1>1, <1>2 DEF Serving, HasPeers
<1>4. /\ pendingObs' = events[1] /\ 1 \in DOMAIN events /\ Heard(1) /\ events[1].gen = gen
      /\ \A i \in DOMAIN events' : i + 1 \in DOMAIN events /\ events'[i] = events[i + 1]
  BY <1>1, <1>2, ReceivedFact, Taken DEF Heard, Current
<1>5. \A r \in Requests, n \in Nat : Due(r, n)' => Due(r, n)
  <2> SUFFICES ASSUME NEW r \in Requests, NEW n \in Nat, Due(r, n)' PROVE Due(r, n)
    OBVIOUS
  <2>1. CASE pendingObs' # NoObs /\ pendingObs'.from = r /\ pendingObs'.seq = n
    BY <1>2, <1>4, <2>1 DEF Due
  <2>2. CASE \E i \in DOMAIN events' : Heard(i)' /\ events'[i].gen = gen
                                      /\ events'[i].from = r /\ events'[i].seq = n
    BY <1>2, <1>4, <2>2 DEF Due, Heard
  <2>3. CASE n = obsSeq + 1 /\ \E i \in DOMAIN toConsole : toConsole[i] = r
    BY <1>2, <2>3 DEF Due
  <2> QED
    BY <1>1, <1>2, <2>1, <2>2, <2>3 DEF Due
<1> QED
  BY <1>1, <1>2, <1>3, <1>5 DEF Quieter

LEMMA ConsoleEchoDue == ASSUME TypeOK, ConsoleEcho, Serving' PROVE Quieter
<1> DEFINE r == Head(toConsole)
           e == [kind |-> "scene", gen |-> gen, seq |-> obsSeq + 1, scene |-> SceneOf[r],
                 from |-> r]
           facts == <<e>>
<1>1. UNCHANGED <<lifecycleVars, active, quiet, pendingObs>> /\ obsSeq' = obsSeq + 1
      /\ toConsole # <<>> /\ toConsole' = Tail(toConsole) /\ Publish(facts)
  BY DEF ConsoleEcho, Announce
<1>2. r = toConsole[1] /\ 1 \in DOMAIN toConsole
  BY <1>1, ConsoleTaken
<1>3. r \in Requests /\ obsSeq \in Nat
  BY <1>2 DEF Lv1OK
<1>4. e \in Observations /\ facts \in Seq(Facts \cup Observations) /\ facts[1] = e /\ Len(facts) = 1
  BY <1>3, RequestsAssumption DEF Observations, LifecycleOK, MaybeReq
<1>5. e.seq = obsSeq + 1 /\ e.from = r
  OBVIOUS
<1> HIDE DEF facts, e, r
<1>6. \A i \in DOMAIN events' : (i \in DOMAIN events /\ events'[i] = events[i]) \/ events'[i] = e
  <2>1. \A i \in DOMAIN facts : facts[i] = e
    BY <1>1, <1>4, Published
  <2> QED
    BY <1>1, <1>4, <2>1, Published
<1>7. Serving /\ UNCHANGED <<gen, active>>
  BY <1>1 DEF Serving, HasPeers
<1>8. \A q \in Requests, n \in Nat : Due(q, n)' => \E k \in Nat : k <= n /\ Due(q, k)
  <2> SUFFICES ASSUME NEW q \in Requests, NEW n \in Nat, Due(q, n)'
               PROVE  \E k \in Nat : k <= n /\ Due(q, k)
    OBVIOUS
  <2>1. CASE pendingObs # NoObs /\ pendingObs.from = q /\ pendingObs.seq = n
    <3>1. Due(q, n)
      BY <2>1 DEF Due
    <3> QED
      BY <3>1
  <2>2. CASE active = gen /\ \E i \in DOMAIN events' : Heard(i)' /\ events'[i].gen = gen
                                      /\ events'[i].from = q /\ events'[i].seq = n
    <3>1. PICK i \in DOMAIN events' : Heard(i)' /\ events'[i].gen = gen
                                      /\ events'[i].from = q /\ events'[i].seq = n
      BY <2>2
    <3>2. CASE i \in DOMAIN events /\ events'[i] = events[i]
      <4>1. Due(q, n)
        BY <2>2, <3>1, <3>2 DEF Due, Heard
      <4> QED
        BY <4>1
    <3>3. CASE events'[i] = e
      <4>1. Due(q, n)
        BY <1>2, <1>5, <2>2, <3>1, <3>3 DEF Due
      <4> QED
        BY <4>1
    <3> QED
      BY <1>6, <3>2, <3>3
  <2>3. CASE active = gen /\ n = obsSeq + 1 + 1 /\ \E i \in DOMAIN toConsole' : toConsole'[i] = q
    <3>1. Due(q, obsSeq + 1)
      BY <1>1, <2>3, ConsoleTaken DEF Due
    <3> QED
      BY <1>3, <2>3, <3>1
  <2> QED
    BY <1>1, <2>1, <2>2, <2>3 DEF Due
<1> QED
  BY <1>7, <1>8 DEF Quieter

LEMMA Lv1Due ==
  ASSUME TypeOK, Lv1, ~Lv1Lost, \A s \in Scenes : ~ManualRecall(s), Serving' PROVE Quieter
<1>1. UNCHANGED <<gen, peers, active, quiet, pendingObs>>
  BY Lv1Facts
<1>2. Serving
  BY <1>1 DEF Serving, HasPeers
<1>3. CASE Lv1Connected
  <2> DEFINE facts == <<Fact("sceneList", gen)>>
  <2>1. facts \in Seq(Facts \cup Observations)
        /\ \A i \in DOMAIN facts : facts[i].kind = "sceneList"
    BY DEF Fact, Facts, LifecycleOK
  <2>2. Publish(facts) /\ UNCHANGED <<obsSeq, toConsole>>
    BY <1>3 DEF Lv1Connected
  <2> HIDE DEF facts
  <2>3. \A i \in DOMAIN events' : events'[i].kind = "scene" =>
            i + 0 \in DOMAIN events /\ events'[i] = events[i + 0]
    <3>1. \A i \in DOMAIN events' : i \in Nat
      BY <2>1, <2>2, Published
    <3>2. \A i \in DOMAIN events' : events'[i].kind = "scene" =>
            i \in DOMAIN events /\ events'[i] = events[i]
      BY <2>1, <2>2, Published
    <3> QED
      BY <3>1, <3>2
  <2> QED
    BY <1>1, <1>2, <2>2, <2>3, LeaveQuieter
<1>4. CASE ConsoleSilent
  <2>1. UNCHANGED <<events, obsSeq>> /\ \A i \in DOMAIN toConsole' :
                                            \E k \in DOMAIN toConsole : toConsole'[i] = toConsole[k]
    BY <1>4, ConsoleTaken DEF ConsoleSilent
  <2> QED
    BY <1>1, <1>2, <2>1, SameKeeps, LeaveQuieter
<1>5. CASE Overrun
  <2>1. UNCHANGED <<events, obsSeq, toConsole>>
    BY <1>5 DEF Overrun
  <2> QED
    BY <1>1, <1>2, <2>1, SameKeeps, LeaveQuieter
<1> QED
  BY <1>3, <1>4, <1>5, ConsoleEchoDue DEF Lv1

LEMMA DueSteps ==
  ASSUME TypeOK, EpochInv, Echoes, [Next]_vars, Serving', ~AcceptRecall,
         ~Lv1Lost, \A s \in Scenes : ~ManualRecall(s)
  PROVE  Quieter \/ Hushed'
<1>1. CASE Inside
  BY <1>1, InsideDue
<1>2. CASE Outside
  BY <1>2, ConnectDue, ClearRuntimeDue, OfferPeersDue, Lv1Due, ReceiveStaleDue, ReceiveSceneListDue,
     ReceiveSceneDue, ReceiveDisconnectedDue, ReceiveGenerationDue, ReceiveLaggedDue, PeersReadyDue
  DEF Outside, EventBranch
<1> QED
  BY <1>1, <1>2, InsideSteps

-----------------------------------------------------------------------------
(* Every announcement due is met by an identity of its own                 *)

\* The identities an observation can be compared with: those retained, and in place
\* 0 that of the recall just accepted or in flight.
Holds(k) == k \in DOMAIN late \/ (k = 0 /\ Open)
IdentityAt(k) ==
    IF k # 0 THEN late[k]
    ELSE IF Sent THEN [gen |-> op.gen, seq |-> op.seq, scene |-> SceneOf[op.req]]
    ELSE [gen |-> inflight.gen, seq |-> inflight.seq, scene |-> SceneOf[inflight.req]]
Fits(k, r, n) ==
    /\ Holds(k) /\ IdentityAt(k).gen = active
    /\ IdentityAt(k).scene = SceneOf[r] /\ IdentityAt(k).seq < n

Covers(f) ==
    /\ \A r \in Requests, n \in Nat : Due(r, n) => Fits(f[r], r, n)
    /\ \A r, s \in Requests, n, k \in Nat : Due(r, n) /\ Due(s, k) /\ f[r] = f[s] => r = s
Covered == Serving => \E f \in [Requests -> Nat] : Covers(f)

\* What LateEchoSuppressed is promised for.
Promised ==
    /\ Cardinality(accepted) <= LateCapacity
    /\ DispatchedNeverFails
    /\ \A k \in {"manual", "expire", "lost"} : budget.spent[k] = 0

LateInv == Promised => Covered /\ (Watching => op.req # NoReq)

\* The identities but that in place c keep what they are, in the places m gives.
Moves(m, c) ==
    /\ m \in [Nat -> Nat]
    /\ \A k \in Nat \ {c}, j \in Nat :
         Holds(k) /\ m[k] = j => Holds(j)' /\ IdentityAt(j)' = IdentityAt(k)
    /\ \A k, j \in Nat \ {c} : Holds(k) /\ Holds(j) /\ m[k] = m[j] => k = j

LEMMA IdentityType ==
  ASSUME TypeOK, NEW k \in Nat, Holds(k)
  PROVE  IdentityAt(k).seq \in Nat
<1>1. CASE k \in DOMAIN late /\ k # 0
  <2>1. late[k] \in LateEntries
    BY <1>1 DEF CoordOK
  <2>2. IdentityAt(k) = late[k]
    BY <1>1 DEF IdentityAt
  <2> QED
    BY <2>1, <2>2 DEF LateEntries
<1>2. CASE k = 0
  <2>1. op.seq \in Nat
    BY DEF OpOK, Ops
  <2>2. inflight.seq \in Nat
    BY DEF CoordOK, Flights, NoFlight
  <2> QED
    BY <1>2, <2>1, <2>2 DEF IdentityAt
<1>3. k \in DOMAIN late => k # 0
  BY LenProperties DEF CoordOK
<1> QED
  BY <1>1, <1>2, <1>3 DEF Holds

LEMMA CoverMoves ==
  ASSUME TypeOK, UNCHANGED active, NEW f \in [Requests -> Nat], NEW c \in Int, NEW m, Moves(m, c),
         \A r \in Requests, n \in Nat : Due(r, n)' =>
            f[r] # c /\ \E k \in Nat : k <= n /\ Fits(f[r], r, k),
         \A r, s \in Requests, n, k \in Nat : Due(r, n)' /\ Due(s, k)' /\ f[r] = f[s] => r = s
  PROVE  \E g \in [Requests -> Nat] : Covers(g)'
<1> DEFINE g == [r \in Requests |-> m[f[r]]]
<1>1. g \in [Requests -> Nat]
  BY DEF Moves
<1>2. ASSUME NEW r \in Requests, NEW n \in Nat, Due(r, n)'
      PROVE  f[r] \in Nat \ {c} /\ Holds(f[r]) /\ Fits(g[r], r, n)'
  <2>1. PICK k \in Nat : k <= n /\ Fits(f[r], r, k)
    BY <1>2
  <2> DEFINE i == f[r]
             j == g[r]
  <2>2. i \in Nat \ {c} /\ j \in Nat /\ m[i] = j
    BY <1>1, <1>2
  <2>3. Fits(i, r, k)
    BY <2>1
  <2> HIDE DEF i, j, g
  <2>4. Holds(i) /\ IdentityAt(i).seq \in Nat
    BY <2>2, <2>3, IdentityType DEF Fits
  <2>5. Holds(j)' /\ IdentityAt(j)' = IdentityAt(i)
    BY <2>2, <2>4 DEF Moves
  <2>6. Fits(j, r, n)'
    BY <2>1, <2>3, <2>4, <2>5 DEF Fits
  <2> QED
    BY <2>2, <2>4, <2>6 DEF i, j
<1>3. ASSUME NEW r \in Requests, NEW s \in Requests, NEW n \in Nat, NEW k \in Nat,
             Due(r, n)', Due(s, k)', g[r] = g[s]
      PROVE  r = s
  <2>1. f[r] \in Nat \ {c} /\ Holds(f[r]) /\ f[s] \in Nat \ {c} /\ Holds(f[s])
    BY <1>2, <1>3
  <2>2. m[f[r]] = m[f[s]]
    BY <1>3
  <2>3. f[r] = f[s]
    BY <2>1, <2>2 DEF Moves
  <2> QED
    BY <1>3, <2>3
<1> HIDE DEF g
<1>4. Covers(g)'
  BY <1>2, <1>3 DEF Covers
<1> QED
  BY <1>1, <1>4

LEMMA HushedCovered == ASSUME Hushed' PROVE \E g \in [Requests -> Nat] : Covers(g)'
<1> DEFINE g == [r \in Requests |-> 0]
<1>1. g \in [Requests -> Nat]
  OBVIOUS
<1> HIDE DEF g
<1>2. Covers(g)'
  BY DEF Covers, Hushed
<1> QED
  BY <1>1, <1>2

\* The identities stay where they are.
LEMMA StayMoves ==
  ASSUME \A k \in Nat : Holds(k) => Holds(k)' /\ IdentityAt(k)' = IdentityAt(k)
  PROVE  \E m : Moves(m, -1)
<1> DEFINE m == [k \in Nat |-> k]
<1>1. m \in [Nat -> Nat] /\ \A k \in Nat : m[k] = k
  OBVIOUS
<1> HIDE DEF m
<1>2. Moves(m, -1)
  BY <1>1 DEF Moves
<1> QED
  BY <1>2

\* A step that announces less covers with the identities moved.
LEMMA QuieterCovered ==
  ASSUME TypeOK, Covered, Quieter, \E m : Moves(m, -1)
  PROVE  \E g \in [Requests -> Nat] : Covers(g)'
<1>1. PICK f \in [Requests -> Nat] : Covers(f)
  BY DEF Covered, Quieter
<1>2. PICK m : Moves(m, -1)
  OBVIOUS
<1>3. \A r \in Requests, n \in Nat : Due(r, n)' =>
         f[r] # -1 /\ \E k \in Nat : k <= n /\ Fits(f[r], r, k)
  <2>1. \A r \in Requests : f[r] # -1
    BY <1>1
  <2> QED
    BY <1>1, <2>1 DEF Covers, Quieter
<1>4. \A r, s \in Requests, n, k \in Nat : Due(r, n)' /\ Due(s, k)' /\ f[r] = f[s] => r = s
  <2> SUFFICES ASSUME NEW r \in Requests, NEW s \in Requests, NEW n \in Nat, NEW k \in Nat,
                      Due(r, n)', Due(s, k)', f[r] = f[s]
               PROVE  r = s
    OBVIOUS
  <2>1. \E i, j \in Nat : Due(r, i) /\ Due(s, j)
    BY DEF Quieter
  <2> QED
    BY <1>1, <2>1 DEF Covers
<1>5. -1 \in Int /\ UNCHANGED active
  BY DEF Quieter
<1> QED
  BY <1>2, <1>3, <1>4, <1>5, CoverMoves

\* An identity is spent on the observation that is settled: the announcement it was
\* meant for takes the place of that observation's.
LEMMA SpentCovered ==
  ASSUME TypeOK, EpochInv, Echoes, Covered, Serving, active = gen, Inside,
         pendingObs # NoObs, pendingObs' = NoObs,
         NEW c \in Nat, NEW m, Moves(m, c), Fits(c, pendingObs.from, pendingObs.seq)
  PROVE  \E g \in [Requests -> Nat] : Covers(g)'
<1> DEFINE p == pendingObs.from
           n0 == pendingObs.seq
<1>1. PICK f \in [Requests -> Nat] : Covers(f)
  BY DEF Covered
<1>2. p \in Requests /\ n0 \in Nat /\ pendingObs.gen = gen /\ Due(p, n0)
  BY PendingType DEF Echoes, Genuine, EpochInv, Due, Lv1OK
<1>3. Fits(f[p], p, n0) /\ f[p] \in Nat
  BY <1>1, <1>2 DEF Covers
<1>4. UNCHANGED <<gen, active, events, obsSeq, toConsole>>
  BY DEF Inside
<1> HIDE DEF p
<1>5. ASSUME NEW r \in Requests, NEW n \in Nat, Due(r, n)'
      PROVE  Due(r, n) /\ r # p /\ n0 < n
  <2>1. CASE \E i \in DOMAIN events : Heard(i) /\ events[i].gen = gen
                                      /\ events[i].from = r /\ events[i].seq = n
    <3>1. Due(r, n)
      BY <2>1 DEF Due
    <3> QED
      BY <1>2, <2>1, <3>1 DEF Echoes, Single, Ordered, p
  <2>2. CASE n = obsSeq + 1 /\ \E i \in DOMAIN toConsole : toConsole[i] = r
    <3>1. Due(r, n)
      BY <2>2 DEF Due
    <3>2. n0 <= obsSeq /\ obsSeq \in Nat
      BY <1>2 DEF Echoes, Ordered, Lv1OK
    <3> QED
      BY <1>2, <2>2, <3>1, <3>2 DEF Echoes, Single, p
  <2> QED
    BY <1>4, <1>5, <2>1, <2>2 DEF Due, Heard
<1> HIDE DEF n0
<1>6. Fits(c, p, n0)
  BY DEF p, n0
<1> DEFINE h == [r \in Requests |-> IF f[r] = c THEN f[p] ELSE f[r]]
<1>7. h \in [Requests -> Nat] /\ \A r \in Requests : h[r] = IF f[r] = c THEN f[p] ELSE f[r]
  BY <1>3
<1> HIDE DEF h
<1>8. \A r \in Requests, n \in Nat : Due(r, n)' =>
         h[r] # c /\ \E k \in Nat : k <= n /\ Fits(h[r], r, k)
  <2> SUFFICES ASSUME NEW r \in Requests, NEW n \in Nat, Due(r, n)'
               PROVE  h[r] # c /\ \E k \in Nat : k <= n /\ Fits(h[r], r, k)
    OBVIOUS
  <2>1. Due(r, n) /\ r # p /\ n0 < n
    BY <1>5
  <2>2. f[r] # f[p]
    BY <1>1, <1>2, <2>1 DEF Covers
  <2>3. Fits(f[r], r, n)
    BY <1>1, <2>1 DEF Covers
  <2>4. CASE f[r] = c
    <3>1. SceneOf[r] = SceneOf[p]
      BY <1>6, <2>3, <2>4 DEF Fits
    <3>2. Fits(h[r], r, n0)
      BY <1>3, <1>7, <2>4, <3>1 DEF Fits
    <3> QED
      BY <1>2, <1>7, <2>1, <2>2, <2>4, <3>2
  <2>5. CASE f[r] # c
    BY <1>7, <2>3, <2>5
  <2> QED
    BY <2>4, <2>5
<1>9. \A r, s \in Requests, n, k \in Nat : Due(r, n)' /\ Due(s, k)' /\ h[r] = h[s] => r = s
  <2> SUFFICES ASSUME NEW r \in Requests, NEW s \in Requests, NEW n \in Nat, NEW k \in Nat,
                      Due(r, n)', Due(s, k)', h[r] = h[s]
               PROVE  r = s
    OBVIOUS
  <2>1. Due(r, n) /\ r # p /\ Due(s, k) /\ s # p
    BY <1>5
  <2>2. f[r] # f[p] /\ f[s] # f[p]
    BY <1>1, <1>2, <2>1 DEF Covers
  <2>3. f[r] = f[s]
    BY <1>7, <2>2
  <2> QED
    BY <1>1, <2>1, <2>3 DEF Covers
<1> QED
  BY <1>4, <1>7, <1>8, <1>9, CoverMoves

-----------------------------------------------------------------------------
(* How the identities move                                                 *)

LEMMA LateIndices ==
  ASSUME TypeOK
  PROVE  late \in Seq(LateEntries) /\ Len(late) \in Nat /\ DOMAIN late = 1 .. Len(late)
         /\ 0 \notin DOMAIN late
BY LenProperties DEF CoordOK

LEMMA SameMoves == ASSUME TypeOK, Same PROVE \E m : Moves(m, -1)
<1>1. Open => Open'
  BY DEF Same, Open
<1>2. Open => IdentityAt(0)' = IdentityAt(0)
  BY DEF Same, SameToken, IdentityAt
<1>3. UNCHANGED late
  BY DEF Same
<1>4. ASSUME NEW k \in Nat, Holds(k) PROVE Holds(k)' /\ IdentityAt(k)' = IdentityAt(k)
  <2>1. CASE k = 0
    BY <1>1, <1>2, <1>4, <2>1, LateIndices DEF Holds
  <2>2. CASE k # 0
    BY <1>3, <1>4, <2>2 DEF Holds, IdentityAt
  <2> QED
    BY <2>1, <2>2
<1> QED
  BY <1>4, StayMoves

\* Nothing is open: only what is retained counts.
LEMMA ClosedMoves == ASSUME TypeOK, ~Open, UNCHANGED late PROVE \E m : Moves(m, -1)
<1>1. ASSUME NEW k \in Nat, Holds(k) PROVE Holds(k)' /\ IdentityAt(k)' = IdentityAt(k)
  BY <1>1, LateIndices DEF Holds, IdentityAt
<1> QED
  BY <1>1, StayMoves

LEMMA FinishedMoves == ASSUME TypeOK, IntentInv, DispatchFinished PROVE \E m : Moves(m, -1)
<1>1. Sent /\ UNCHANGED late /\ op' = NoOp
      /\ inflight' = [req |-> op.req, gen |-> op.gen, seq |-> op.seq, phase |-> "observation"]
  BY DEF DispatchFinished, Finishing, Sent
<1>2. ~Sent' /\ Open' /\ Open
  BY <1>1 DEF Sent, Open, Watching, NoOp, OpOf
<1>3. IdentityAt(0)' = IdentityAt(0)
  BY <1>1, <1>2 DEF IdentityAt
<1>4. ASSUME NEW k \in Nat, Holds(k) PROVE Holds(k)' /\ IdentityAt(k)' = IdentityAt(k)
  BY <1>1, <1>2, <1>3, <1>4, LateIndices DEF Holds, IdentityAt
<1> QED
  BY <1>4, StayMoves

\* The recall in flight is canceled and its identity is retained: there is room.
LEMMA RetainedMoves ==
  ASSUME TypeOK, IntentInv, Accounted, Cardinality(accepted) <= LateCapacity,
         ~Sent, inflight.phase = "observation", late' = Retained
  PROVE  \E m : Moves(m, -1)
<1> DEFINE entry == [gen |-> inflight.gen, seq |-> inflight.seq, scene |-> SceneOf[inflight.req]]
           n == Len(late) + 1
<1>1. inflight # NoFlight
  BY DEF NoFlight
<1>2. Len(late) # LateCapacity
  <2>1. Cardinality(accepted) \in Nat /\ LateCapacity \in Nat
    BY FS_CardinalityType, CapacityAssumption DEF Accounted
  <2>2. Identities = Len(late) + 1 + 0
    BY <1>1 DEF Identities
  <2>3. Identities <= Cardinality(accepted)
    BY DEF Accounted
  <2>4. Len(late) \in Nat
    BY LateIndices
  <2> HIDE DEF entry, n
  <2> QED
    BY <2>1, <2>2, <2>3, <2>4
<1>3. entry \in LateEntries
  BY <1>1, RequestsAssumption DEF CoordOK, Flights, LateEntries
<1>4. late' = Append(late, entry)
  BY <1>2 DEF Retained
<1> HIDE DEF entry
<1>5. n \in Nat \ {0} /\ n \notin DOMAIN late /\ n \in DOMAIN late' /\ late'[n] = entry
      /\ \A k \in DOMAIN late : k # 0 /\ k \in DOMAIN late' /\ late'[k] = late[k]
  BY <1>3, <1>4, LateIndices, AppendProperties
<1> HIDE DEF n
<1>6. IdentityAt(0) = entry
  BY DEF IdentityAt, entry
<1> DEFINE m == [k \in Nat |-> IF k = 0 THEN n ELSE k]
<1>7. m \in [Nat -> Nat] /\ \A k \in Nat : m[k] = IF k = 0 THEN n ELSE k
  BY <1>5
<1> HIDE DEF m
<1>8. ASSUME NEW k \in Nat, NEW j \in Nat, Holds(k), m[k] = j
      PROVE  Holds(j)' /\ IdentityAt(j)' = IdentityAt(k)
  <2>1. CASE k = 0
    BY <1>5, <1>6, <1>7, <1>8, <2>1 DEF Holds, IdentityAt
  <2>2. CASE k # 0
    BY <1>5, <1>7, <1>8, <2>2 DEF Holds, IdentityAt
  <2> QED
    BY <2>1, <2>2
<1>9. ASSUME NEW k \in Nat, NEW j \in Nat, Holds(k), Holds(j), m[k] = m[j] PROVE k = j
  BY <1>5, <1>7, <1>9 DEF Holds
<1>10. Moves(m, -1)
  BY <1>7, <1>8, <1>9 DEF Moves
<1> QED
  BY <1>10

LEMMA CanceledCovered ==
  ASSUME TypeOK, IntentInv, EpochInv, Accounted, Covered, Quieter, Canceled, ~ReceiveDisconnected,
         Cardinality(accepted) <= LateCapacity, ~Sent
  PROVE  \E g \in [Requests -> Nat] : Covers(g)'
<1>1. CASE late' = Retained /\ inflight.phase = "observation"
  BY <1>1, RetainedMoves, QuieterCovered
<1>2. CASE late' = Retained /\ inflight.phase # "observation"
  <2>1. UNCHANGED late /\ ~Open
    BY <1>2, RetainedLen DEF Open
  <2> QED
    BY <2>1, ClosedMoves, QuieterCovered
<1>3. CASE late' = late /\ ~Open
  BY <1>3, ClosedMoves, QuieterCovered
<1>4. CASE active' # gen \/ active' # active
  <2>1. active' # gen' /\ pendingObs' = NoObs
    BY <1>4 DEF Quieter, Canceled
  <2>2. Hushed'
    BY <2>1 DEF Hushed, Due
  <2> QED
    BY <2>2, HushedCovered
<1> QED
  BY <1>1, <1>2, <1>3, <1>4 DEF Canceled

\* The observation of the recall in flight uses up the identity of that recall.
LEMMA ObservedMoves ==
  ASSUME TypeOK, UNCHANGED late
  PROVE  \E m : Moves(m, 0)
<1> DEFINE m == [k \in Nat |-> k]
<1>1. m \in [Nat -> Nat] /\ \A k \in Nat : m[k] = k
  OBVIOUS
<1> HIDE DEF m
<1>2. \A k \in Nat \ {0} : Holds(k) => Holds(k)' /\ IdentityAt(k)' = IdentityAt(k)
  BY DEF Holds, IdentityAt
<1>3. Moves(m, 0)
  BY <1>1, <1>2 DEF Moves
<1> QED
  BY <1>3

LEMMA RemoveAtElements ==
  ASSUME NEW S, NEW s \in Seq(S), NEW i \in DOMAIN s
  PROVE  /\ DOMAIN RemoveAt(s, i) = 1 .. Len(s) - 1
         /\ \A k \in 1 .. Len(s) - 1 : RemoveAt(s, i)[k] = IF k < i THEN s[k] ELSE s[k + 1]
<1> DEFINE front == SubSeq(s, 1, i - 1)
           back == SubSeq(s, i + 1, Len(s))
<1>1. i \in 1 .. Len(s) /\ Len(s) \in Nat
  BY LenProperties
<1>2. /\ front \in Seq(S) /\ Len(front) = i - 1 /\ \A k \in 1 .. i - 1 : front[k] = s[k]
  <2>1. Len(front) = i - 1 /\ \A k \in 1 .. i - 1 : front[k] = s[1 + k - 1]
    BY <1>1, SubSeqProperties
  <2> QED
    BY <1>1, <2>1, SubSeqProperties
<1>3. back \in Seq(S) /\ Len(back) = Len(s) - i /\ \A k \in 1 .. Len(s) - i : back[k] = s[i + k]
  <2>1. Len(back) = Len(s) - i /\ \A k \in 1 .. Len(s) - i : back[k] = s[i + 1 + k - 1]
    BY <1>1, SubSeqProperties
  <2> QED
    BY <1>1, <2>1, SubSeqProperties
<1>4. RemoveAt(s, i) = front \o back
  BY DEF RemoveAt
<1> HIDE DEF front, back
<1>5. /\ Len(front \o back) = Len(s) - 1 /\ front \o back \in Seq(S)
      /\ \A k \in 1 .. Len(s) - 1 :
            (front \o back)[k] = IF k <= i - 1 THEN front[k] ELSE back[k - (i - 1)]
  <2> DEFINE m == Len(front)
             n == Len(back)
  <2>1. /\ front \o back \in Seq(S) /\ Len(front \o back) = m + n
        /\ \A k \in 1 .. m + n : (front \o back)[k] = IF k <= m THEN front[k] ELSE back[k - m]
    BY <1>2, <1>3, ConcatProperties
  <2>2. m = i - 1 /\ n = Len(s) - i
    BY <1>2, <1>3
  <2> HIDE DEF m, n
  <2>3. m + n = Len(s) - 1
    BY <1>1, <2>2
  <2> QED
    BY <2>1, <2>2, <2>3
<1>6. ASSUME NEW k \in 1 .. Len(s) - 1
      PROVE  (front \o back)[k] = IF k < i THEN s[k] ELSE s[k + 1]
  <2>1. CASE k < i
    BY <1>1, <1>2, <1>5, <2>1
  <2>2. CASE ~(k < i)
    <3> DEFINE j == k - (i - 1)
    <3>1. j \in 1 .. Len(s) - i /\ i + j = k + 1 /\ ~(k <= i - 1)
      BY <1>1, <2>2
    <3>2. (front \o back)[k] = back[j]
      BY <1>5, <3>1
    <3> HIDE DEF j
    <3>3. back[j] = s[i + j]
      BY <1>3, <3>1
    <3> QED
      BY <2>2, <3>1, <3>2, <3>3
  <2> QED
    BY <2>1, <2>2
<1> QED
  BY <1>4, <1>5, <1>6, LenProperties

\* A suppressed observation uses up the identity it matches; those behind move up.
LEMMA SuppressedMoves ==
  ASSUME TypeOK, NEW c \in DOMAIN late, late' = RemoveAt(late, c), UNCHANGED <<op, inflight>>
  PROVE  \E m : Moves(m, c)
<1>1. /\ DOMAIN late' = 1 .. Len(late) - 1
      /\ \A i \in 1 .. Len(late) - 1 : late'[i] = IF i < c THEN late[i] ELSE late[i + 1]
  BY LateIndices, RemoveAtElements
<1>2. (Open' <=> Open) /\ IdentityAt(0)' = IdentityAt(0)
  BY DEF Open, Sent, Watching, IdentityAt
<1>3. DOMAIN late = 1 .. Len(late) /\ Len(late) \in Nat /\ c \in 1 .. Len(late)
  BY LateIndices
<1> DEFINE m == [k \in Nat |-> IF k > c THEN k - 1 ELSE k]
<1>4. m \in [Nat -> Nat] /\ \A k \in Nat : m[k] = IF k > c THEN k - 1 ELSE k
  BY <1>3
<1> HIDE DEF m
<1>5. ASSUME NEW k \in Nat \ {c}, NEW j \in Nat, Holds(k), m[k] = j
      PROVE  Holds(j)' /\ IdentityAt(j)' = IdentityAt(k)
  <2>1. CASE k = 0
    <3>1. j = 0
      BY <1>3, <1>4, <1>5, <2>1
    <3>2. Open
      BY <1>5, <2>1, LateIndices DEF Holds
    <3> QED
      BY <1>2, <2>1, <3>1, <3>2 DEF Holds
  <2>2. CASE k # 0
    <3>1. k \in 1 .. Len(late) /\ k # c
      BY <1>3, <1>5, <2>2 DEF Holds
    <3>2. j \in 1 .. Len(late) - 1 /\ j = IF k > c THEN k - 1 ELSE k
      BY <1>3, <1>4, <1>5, <3>1
    <3>3. late'[j] = late[k] /\ j # 0
      BY <1>1, <1>3, <3>1, <3>2
    <3> QED
      BY <1>1, <2>2, <3>2, <3>3 DEF Holds, IdentityAt
  <2> QED
    BY <2>1, <2>2
<1>6. ASSUME NEW k \in Nat \ {c}, NEW j \in Nat \ {c}, Holds(k), Holds(j), m[k] = m[j] PROVE k = j
  <2>1. k \in Nat /\ j \in Nat /\ k # c /\ j # c /\ c \in Nat
    BY <1>3
  <2>2. (k > c => m[k] = k - 1) /\ (k < c => m[k] = k)
    BY <1>4, <2>1
  <2>3. (j > c => m[j] = j - 1) /\ (j < c => m[j] = j)
    BY <1>4, <2>1
  <2>4. m[k] = m[j]
    BY <1>6
  <2>5. (k > c \/ k < c) /\ (j > c \/ j < c)
    BY <2>1
  <2> QED
    BY <2>1, <2>2, <2>3, <2>4, <2>5
<1>7. Moves(m, c)
  BY <1>4, <1>5, <1>6 DEF Moves
<1> QED
  BY <1>7

-----------------------------------------------------------------------------
(* The invariant of late observations                                      *)

LEMMA PromisedBack ==
  ASSUME TypeOK, TypeOK', IntentInv, EpochInv, CallersInv, Accounted, Accounted', [Next]_vars,
         Promised'
  PROVE  Promised /\ ~LateExpires /\ ~Lv1Lost /\ \A s \in Scenes : ~ManualRecall(s)
<1>1. accepted \subseteq accepted' /\ accepted \subseteq RecallRequests
  BY AcceptedOnly DEF AcceptRecall, Accounted
<1>2. Cardinality(accepted) <= LateCapacity
  <2>1. Cardinality(accepted) <= Cardinality(accepted') /\ Cardinality(accepted) \in Nat
        /\ Cardinality(accepted') \in Nat
    BY <1>1, FS_Subset, FS_CardinalityType DEF Accounted
  <2> QED
    BY <2>1, CapacityAssumption DEF Promised
<1>3. \A k \in {"manual", "expire", "lost"} : budget.spent[k] = 0
  BY SpentGrows DEF Promised, EnvKinds
<1>4. DispatchedNeverFails
  <2> SUFFICES ASSUME NEW r \in accepted, reply[r] = "err" PROVE FALSE
    BY DEF DispatchedNeverFails
  <2>1. r \in RecallRequests /\ reply[r] \in {"ok", "err"}
    BY <1>1
  <2>2. reply'[r] = "err"
    BY <2>1, AnsweredStays
  <2> QED
    BY <1>1, <2>2 DEF Promised, DispatchedNeverFails
<1>5. ASSUME NEW k \in {"manual", "expire", "lost"}, Spend(k) PROVE FALSE
  <2>1. budget'.spent[k] = 1
    BY <1>3, <1>5 DEF Spend, BudgetOK, BudgetRecords, EnvKinds
  <2> QED
    BY <2>1 DEF Promised
<1>6. ~LateExpires /\ ~Lv1Lost /\ \A s \in Scenes : ~ManualRecall(s)
  BY <1>5 DEF LateExpires, Lv1Lost, ManualRecall
<1> QED
  BY <1>2, <1>3, <1>4, <1>6 DEF Promised

\* An observation handled on its own would have an identity that suppresses it.
LEMMA SettledObserved ==
  ASSUME TypeOK, EpochInv, Echoes, Covered, SettleObserved PROVE IsExact(pendingObs)
<1> DEFINE p == pendingObs.from
           n == pendingObs.seq
<1>1. pendingObs # NoObs /\ quiet /\ Idle /\ HasPeers(active)
  BY DEF SettleObserved, Settled
<1>2. p \in Requests /\ n \in Nat /\ pendingObs.gen = active /\ pendingObs.scene = SceneOf[p]
      /\ Due(p, n)
  BY <1>1, PendingType DEF Echoes, Genuine, EpochInv, Due, Lv1OK
<1>3. PICK f \in [Requests -> Nat] : Covers(f)
  BY <1>1 DEF Covered, Serving
<1> DEFINE k == f[p]
<1>4. Fits(k, p, n) /\ k \in Nat
  BY <1>2, <1>3 DEF Covers
<1> HIDE DEF k
<1>5. IdentityAt(k).seq \in Nat
  BY <1>4, IdentityType DEF Fits
<1>6. CASE k \in DOMAIN late
  <2>1. k # 0 /\ IdentityAt(k) = late[k]
    BY <1>6, LateIndices DEF IdentityAt
  <2>2. Matches(late[k], pendingObs)
    BY <1>2, <1>4, <1>5, <2>1 DEF Fits, Matches
  <2> QED
    BY <1>6, <2>2 DEF SettleObserved, Suppressed
<1>7. CASE k = 0 /\ Open
  <2>1. ~Sent /\ inflight.phase = "observation"
    BY <1>1, <1>7 DEF Idle, Sent, Open
  <2>2. IdentityAt(k).gen = inflight.gen /\ IdentityAt(k).seq = inflight.seq
        /\ IdentityAt(k).scene = SceneOf[inflight.req]
    BY <1>7, <2>1 DEF IdentityAt
  <2> QED
    BY <1>2, <1>4, <1>5, <2>1, <2>2 DEF Fits, IsExact
<1> QED
  BY <1>4, <1>6, <1>7 DEF Fits, Holds

LEMMA SettleObservedCovered ==
  ASSUME TypeOK, EpochInv, Echoes, Covered, Inside, SettleObserved
  PROVE  \E g \in [Requests -> Nat] : Covers(g)'
<1>1. pendingObs # NoObs /\ quiet /\ Idle /\ HasPeers(active) /\ pendingObs' = NoObs
      /\ UNCHANGED <<late, gen, active>>
  BY DEF SettleObserved, Settled
<1>2. CASE active # gen
  <2>1. Hushed'
    BY <1>1, <1>2 DEF Hushed, Due
  <2> QED
    BY <2>1, HushedCovered
<1>3. CASE active = gen
  <2>1. IsExact(pendingObs)
    BY SettledObserved
  <2>2. ~Sent /\ ~Watching /\ Open
    BY <1>1, <2>1 DEF Idle, Sent, Watching, Open, IsExact
  <2>3. pendingObs.scene = SceneOf[pendingObs.from] /\ pendingObs.gen = active
    BY <1>1 DEF Echoes, Genuine, EpochInv
  <2>4. inflight.seq \in Nat /\ pendingObs.seq \in Nat
    BY <1>1, PendingType, IdentityType DEF CoordOK, Flights, NoFlight
  <2>5. Fits(0, pendingObs.from, pendingObs.seq)
    BY <2>1, <2>2, <2>3, <2>4 DEF Fits, Holds, IdentityAt, IsExact
  <2>6. PICK m : Moves(m, 0)
    BY <1>1, ObservedMoves
  <2>7. Serving
    BY <1>1 DEF Serving
  <2> QED
    BY <1>1, <1>3, <2>5, <2>6, <2>7, SpentCovered
<1> QED
  BY <1>2, <1>3

LEMMA SettleSuppressedCovered ==
  ASSUME TypeOK, EpochInv, Echoes, Covered, Inside, SettleSuppressed, Serving'
  PROVE  \E g \in [Requests -> Nat] : Covers(g)'
<1>1. pendingObs # NoObs /\ quiet /\ pendingObs' = NoObs
      /\ UNCHANGED <<op, inflight, gen, active, peers>>
  BY DEF SettleSuppressed, Settled
<1>2. Serving
  BY <1>1 DEF Serving, HasPeers
<1>3. CASE active # gen
  <2>1. Hushed'
    BY <1>1, <1>3 DEF Hushed, Due
  <2> QED
    BY <2>1, HushedCovered
<1>4. CASE active = gen
  <2>1. PICK c \in DOMAIN late : Matches(late[c], pendingObs) /\ late' = RemoveAt(late, c)
    BY DEF SettleSuppressed
  <2>2. c \in Nat /\ c # 0 /\ late[c] \in LateEntries
    BY LateIndices
  <2>3. pendingObs.scene = SceneOf[pendingObs.from] /\ pendingObs.gen = active
        /\ pendingObs.seq \in Nat /\ late[c].seq \in Nat
    BY <1>1, <2>2, PendingType DEF Echoes, Genuine, EpochInv, LateEntries
  <2>4. Fits(c, pendingObs.from, pendingObs.seq)
    BY <2>1, <2>2, <2>3 DEF Fits, Holds, IdentityAt, Matches
  <2>5. PICK m : Moves(m, c)
    BY <1>1, <2>1, SuppressedMoves
  <2> QED
    BY <1>1, <1>2, <1>4, <2>2, <2>4, <2>5, SpentCovered
<1> QED
  BY <1>3, <1>4

\* A recall that LV1 accepts has the identity in place 0, which was free.
LEMMA AcceptRecallCovered ==
  ASSUME TypeOK, IntentInv, CallersInv, EpochInv, Accounted, Echoes, Covered, AcceptRecall, Serving'
  PROVE  \E g \in [Requests -> Nat] : Covers(g)'
<1>0. PICK q \in Requests : q = op.req
  BY AcceptedRequest DEF RecallRequests
<1>1. UNCHANGED <<gen, peers, active, quiet, events, obsSeq, pendingObs, late, inflight>>
      /\ toConsole' = Append(toConsole, q) /\ gen = op.gen /\ ~Idle
  BY <1>0 DEF AcceptRecall, Idle
<1>2. active = gen /\ Serving /\ obsSeq \in Nat
  BY <1>1 DEF EpochInv, Serving, HasPeers, Lv1OK
<1>3. PICK f \in [Requests -> Nat] : Covers(f)
  BY <1>2 DEF Covered
<1>4. q \in Requests /\ q \notin accepted /\ Sent' /\ ~Sent
      /\ op'.req = q /\ op'.gen = gen /\ op'.seq = obsSeq
  BY <1>0, <1>1, AcceptedRequest
<1>5. Dispatching /\ inflight = NoFlight
  BY DEF AcceptRecall, Dispatching, DispatchKinds, IntentInv, OneInFlight
<1>6. ~Open /\ Open'
  BY <1>4, <1>5 DEF Open, NoFlight
<1>7. IdentityAt(0)' = [gen |-> gen, seq |-> obsSeq, scene |-> SceneOf[q]]
  BY <1>4 DEF IdentityAt
<1>8. \A r \in Requests, n \in Nat : Due(r, n)' => Due(r, n) \/ (r = q /\ n = obsSeq + 1)
  <2>1. \A i \in DOMAIN toConsole' : toConsole'[i] = q
        \/ \E j \in DOMAIN toConsole : toConsole'[i] = toConsole[j]
    BY <1>1, <1>4, AppendProperties, LenProperties DEF Lv1OK
  <2> QED
    BY <1>1, <1>2, <2>1 DEF Due, Heard
<1>9. \A n \in Nat : ~Due(q, n)
  BY <1>4 DEF Due, Echoes, Genuine
<1> DEFINE g == [r \in Requests |-> IF r = q THEN 0 ELSE f[r]]
<1>10. g \in [Requests -> Nat] /\ \A r \in Requests : g[r] = IF r = q THEN 0 ELSE f[r]
  OBVIOUS
<1> HIDE DEF g
<1>11. ASSUME NEW r \in Requests, NEW n \in Nat, Due(r, n)'
       PROVE  Fits(g[r], r, n)' /\ (r # q => f[r] # 0 /\ Due(r, n))
  <2>1. CASE r = q
    <3>1. n = obsSeq + 1 /\ g[r] = 0
      BY <1>8, <1>9, <1>10, <1>11, <2>1
    <3>2. Fits(0, r, n)'
      BY <1>1, <1>2, <1>6, <1>7, <2>1, <3>1 DEF Fits, Holds
    <3> QED
      BY <2>1, <3>1, <3>2
  <2>2. CASE r # q
    <3> DEFINE k == f[r]
    <3>1. Due(r, n) /\ g[r] = k /\ k \in Nat
      BY <1>8, <1>10, <1>11, <2>2
    <3>2. Fits(k, r, n)
      BY <1>3, <3>1 DEF Covers
    <3>3. g[r] = k /\ f[r] = k
      BY <3>1
    <3> HIDE DEF k
    <3>4. k # 0 /\ k \in DOMAIN late
      BY <1>6, <3>2, LateIndices DEF Fits, Holds
    <3>5. Fits(k, r, n)'
      BY <1>1, <3>2, <3>4 DEF Fits, Holds, IdentityAt
    <3> QED
      BY <3>1, <3>3, <3>4, <3>5
  <2> QED
    BY <2>1, <2>2
<1>12. ASSUME NEW r \in Requests, NEW s \in Requests, NEW n \in Nat, NEW k \in Nat,
              Due(r, n)', Due(s, k)', g[r] = g[s]
       PROVE  r = s
  <2>1. CASE r # q /\ s # q
    BY <1>3, <1>10, <1>11, <1>12, <2>1 DEF Covers
  <2>2. CASE ~(r # q /\ s # q)
    BY <1>10, <1>11, <1>12, <2>2
  <2> QED
    BY <2>1, <2>2
<1>13. Covers(g)'
  BY <1>11, <1>12 DEF Covers
<1> QED
  BY <1>10, <1>13

\* What a step of the actor may begin to watch.
LEMMA WatchingStep ==
  ASSUME TypeOK, EpochInv, Echoes, Covered, LateShape, Watching => op.req # NoReq, Watching'
  PROVE  op'.req # NoReq
<1>1. CASE Same \/ Advanced
  BY <1>1 DEF Same, Advanced
<1>2. CASE Canceled \/ DispatchFinished
  BY <1>2 DEF Canceled, DispatchFinished, Watching, NoOp, OpOf
<1>3. CASE AcceptRecall
  <2>1. op'.kind = "dispatchCommand"
    BY <1>3 DEF AcceptRecall, OpOK, Ops
  <2> QED
    BY <2>1 DEF Watching
<1>4. CASE SettleSuppressed \/ LateExpires
  BY <1>4 DEF SettleSuppressed, LateExpires, Watching
<1>5. CASE SettleObserved
  <2>1. IsExact(pendingObs)
    BY <1>5, SettledObserved
  <2>2. op'.req = inflight.req
    BY <1>5, <2>1 DEF SettleObserved, OpOf
  <2>3. inflight.req \in Requests
    BY <2>1 DEF IsExact, CoordOK, Flights, NoFlight
  <2> QED
    BY <2>2, <2>3, RequestsAssumption
<1> QED
  BY <1>1, <1>2, <1>3, <1>4, <1>5 DEF LateShape

LEMMA SettleInside ==
  ASSUME TypeOK, EpochInv, SettleSuppressed \/ SettleObserved PROVE Inside
<1>1. CASE SettleSuppressed
  BY <1>1 DEF SettleSuppressed, EndTurn, EpochInv, Inside, Sent, Idle
<1>2. CASE SettleObserved
  BY <1>2 DEF SettleObserved, EndTurn, Settled, OpOf, OpOK, CoordOK, EpochInv, Inside, Sent, Idle
<1> QED
  BY <1>1, <1>2

LEMMA LateStep ==
  ASSUME TypeOK, TypeOK', IntentInv, CallersInv, EpochInv, Accounted, Accounted', EchoInv, LateInv,
         [Next]_vars
  PROVE  LateInv'
<1> SUFFICES ASSUME Promised' PROVE Covered' /\ (Watching' => op'.req # NoReq)
  BY DEF LateInv
<1>1. Promised /\ ~LateExpires /\ ~Lv1Lost /\ \A s \in Scenes : ~ManualRecall(s)
  BY PromisedBack
<1>2. Covered /\ (Watching => op.req # NoReq) /\ Echoes
  BY <1>1 DEF LateInv, EchoInv, Promised, Undisturbed
<1>3. LateShape
  BY LateShapes
<1>4. Watching' => op'.req # NoReq
  BY <1>2, <1>3, WatchingStep
<1>5. ASSUME Serving' PROVE \E g \in [Requests -> Nat] : Covers(g)'
  <2>1. CASE AcceptRecall
    BY <1>2, <1>5, <2>1, AcceptRecallCovered
  <2>2. CASE ReceiveDisconnected
    BY <1>2, <1>5, <2>2, ReceiveDisconnectedDue
  <2>3. CASE ~AcceptRecall /\ Hushed'
    BY <2>3, HushedCovered
  <2>4. CASE ~AcceptRecall /\ ~ReceiveDisconnected /\ Quieter
    <3>1. CASE Same
      BY <1>2, <2>4, <3>1, SameMoves, QuieterCovered
    <3>2. CASE Canceled
      <4>1. ~Sent
        <5>1. Sent => op.req \in accepted' /\ reply'[op.req] = "err"
          BY <2>4, <3>2, AcceptedOnly DEF Canceled, Accounted
        <5> QED
          BY <5>1 DEF Promised, DispatchedNeverFails
      <4> QED
        BY <1>1, <1>2, <2>4, <3>2, <4>1, CanceledCovered DEF Promised
    <3>3. CASE Advanced
      BY <1>2, <2>4, <3>3, ClosedMoves, QuieterCovered DEF Advanced
    <3>4. CASE DispatchFinished
      BY <1>2, <2>4, <3>4, FinishedMoves, QuieterCovered
    <3>5. CASE SettleSuppressed
      BY <1>2, <1>5, <3>5, SettleInside, SettleSuppressedCovered
    <3>6. CASE SettleObserved
      BY <1>2, <3>6, SettleInside, SettleObservedCovered
    <3> QED
      BY <1>1, <1>3, <2>4, <3>1, <3>2, <3>3, <3>4, <3>5, <3>6 DEF LateShape
  <2> QED
    BY <1>1, <1>2, <1>5, <2>1, <2>2, <2>3, <2>4, DueSteps
<1>6. Covered'
  BY <1>5 DEF Covered
<1> QED
  BY <1>4, <1>6

LEMMA InitLate == Init => LateInv
<1> SUFFICES ASSUME Init PROVE ~Serving /\ ~Watching
  BY DEF LateInv, Covered
<1> QED
  BY DEF Init, Serving, HasPeers, Watching, NoOp, OpOf

\* While nobody recalls at the console and no identity is forgotten, an observation
\* that the console makes because of a recall reported as dispatched is never handled
\* as an independent recall, however that recall was canceled since.
THEOREM LateEchoCorrect == Spec => []LateEchoSuppressed
<1> DEFINE Inv == TypeOK /\ IntentInv /\ CallersInv /\ EpochInv /\ Accounted /\ EchoInv /\ LateInv
<1>1. Init => Inv
  BY InitType, InitIntent, InitCallers, InitEpoch, InitAccounted, InitEcho, InitLate
<1>2. Inv /\ [Next]_vars => Inv'
  <2> SUFFICES ASSUME Inv, [Next]_vars PROVE Inv'
    OBVIOUS
  <2>1. TypeOK' /\ IntentInv' /\ CallersInv' /\ EpochInv' /\ Accounted' /\ EchoInv'
    BY TypeStep, IntentStep, CallersStep, EpochStep, AccountedStep, EchoStep
  <2> QED
    BY <2>1, LateStep
<1>3. Inv => LateEchoSuppressed
  BY DEF LateInv, LateEchoSuppressed, Promised, Watching
<1> QED
  BY <1>1, <1>2, <1>3, PTL DEF Spec

=============================================================================
