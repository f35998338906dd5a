--------------------------- MODULE FadeEngineProofs ---------------------------
(***************************************************************************)
(* Theorems about FadeEngine, for every set of commands and targets, every *)
(* number of pings and confirmations and every bound.                      *)
(*                                                                         *)
(* TypeCorrect comes first, one lemma per action.  On top of it, nothing   *)
(* moves behind a barrier (Frozen) and no active target is left without a  *)
(* tick (TargetsDriven); both are inductive as they stand.  That no        *)
(* readiness waiter is forgotten (WaiterHeld) needs WaiterInv, which knows *)
(* what becomes of a waiter between admission and announcement.  HonorInv  *)
(* says where a cancellation that was queued when a command drained can    *)
(* still be (QueuedFactsFirst).  OrderInv says that a command is in one    *)
(* place only, and that one is waiting for a reply as long as it is held;  *)
(* it is what the refinement of FadeContract rests on.                     *)
(* ReleaseInv follows the pings still to be counted (ReleaseProof).        *)
(***************************************************************************)
EXTENDS FadeEngine, FiniteSetTheorems, SequenceTheorems, TLAPS

USE DEF envVars, busVars, boxVars, replyVars, engineVars, TypeOK

-----------------------------------------------------------------------------
(* Helpers of the type invariant                                           *)

\* What a step leaves unchanged keeps its shape.
LEMMA Frame ==
  ASSUME TypeOK
  PROVE  /\ UNCHANGED envVars => WorldOK'
         /\ UNCHANGED busVars => BusOK'
         /\ UNCHANGED boxVars => BoxOK'
         /\ UNCHANGED replyVars => ReplyOK'
         /\ UNCHANGED targets => TargetsOK'
         /\ UNCHANGED barrier => BarrierOK'
         /\ UNCHANGED <<ticking, emitted, running>> => FlagsOK'
         /\ UNCHANGED job => JobOK'
         /\ UNCHANGED <<fresh, honor>> => HistoryOK'
BY DEF WorldOK, BusOK, BoxOK, ReplyOK, TargetsOK, BarrierOK, FlagsOK, JobOK, HistoryOK

LEMMA SpendType ==
  ASSUME TypeOK, NEW k \in EnvKinds, Spend(k) PROVE budget' \in BudgetRecords
BY DEF Spend, BudgetRecords

LEMMA SettleType ==
  ASSUME TypeOK, NEW cs, NEW result \in {"ok", "err"}
  PROVE  Settle(cs, result) \in [Commands -> {"none", "open", "ok", "err"}]
BY DEF Settle, ReplyOK

LEMMA RefusingType ==
  ASSUME TypeOK, NEW cs PROVE Refusing(cs) \in [Commands -> {"idle", "waiting", "ok", "err"}]
BY DEF Refusing, ReplyOK

LEMMA NoBarrierType == ASSUME barrier' = NoBarrier PROVE BarrierOK'
BY FadeBoundsAssumption DEF BarrierOK, NoBarrier, MaybeCmd

LEMMA NoJobType == ASSUME job' = NoJob PROVE JobOK'
BY FadeBoundsAssumption, CommandsAssumption DEF JobOK, Jobs, NoJob, MaybeCmd

LEMMA PublishType ==
  ASSUME TypeOK, NEW fact \in Facts, Publish(fact) PROVE BusOK'
BY AppendProperties DEF Publish, BusOK

LEMMA AbortType ==
  ASSUME TypeOK, NEW dropped, AbortWork(dropped), emitted' \in BOOLEAN,
         reply' \in [Commands -> {"idle", "waiting", "ok", "err"}]
  PROVE  TargetsOK' /\ BarrierOK' /\ FlagsOK' /\ ReplyOK'
<1>1. TargetsOK' /\ FlagsOK'
  BY DEF AbortWork, TargetsOK, FlagsOK
<1>2. BarrierOK'
  BY NoBarrierType DEF AbortWork
<1>3. ReplyOK'
  BY SettleType DEF AbortWork, ReplyOK
<1> QED
  BY <1>1, <1>2, <1>3

-----------------------------------------------------------------------------
(* The type invariant, action by action: the environment                   *)

LEMMA SendType == ASSUME TypeOK, NEW c \in Commands, Send(c) PROVE TypeOK'
<1>1. BoxOK'
  BY AppendProperties DEF Send, BoxOK
<1>2. ReplyOK'
  BY DEF Send, ReplyOK
<1>3. deadline' \in [Commands -> 0 .. MaxTime]
  <2>1. PICK d \in now + 1 .. now + Timeout :
               d <= budget.time /\ deadline' = [deadline EXCEPT ![c] = d]
    BY DEF Send
  <2> QED
    BY <2>1, FadeBoundsAssumption DEF WorldOK, BudgetRecords
<1> QED
  BY <1>1, <1>2, <1>3, Frame DEF Send

LEMMA AdvanceType == ASSUME TypeOK, Advance PROVE TypeOK'
<1>1. WorldOK'
  BY FadeBoundsAssumption DEF Advance, WorldOK, BudgetRecords
<1> QED
  BY <1>1, Frame DEF Advance

LEMMA RevokeType == ASSUME TypeOK, Revoke PROVE TypeOK'
<1>1. WorldOK'
  BY DEF Revoke, WorldOK
<1>2. budget' \in BudgetRecords
  BY SpendType DEF Revoke, EnvKinds
<1> QED
  BY <1>1, <1>2, Frame DEF Revoke

LEMMA AnnounceRevokeType == ASSUME TypeOK, AnnounceRevoke PROVE TypeOK'
<1>1. WorldOK'
  BY DEF AnnounceRevoke, WorldOK
<1>2. BusOK'
  BY AppendProperties DEF AnnounceRevoke, BusOK, Facts
<1> QED
  BY <1>1, <1>2, Frame DEF AnnounceRevoke

LEMMA DropHandlesType == ASSUME TypeOK, DropHandles PROVE TypeOK'
<1>1. WorldOK'
  BY DEF DropHandles, WorldOK
<1> QED
  BY <1>1, Frame DEF DropHandles

LEMMA PingType == ASSUME TypeOK, Ping PROVE TypeOK'
<1>1. WorldOK'
  BY FadeBoundsAssumption DEF Ping, WorldOK
<1>2. [kind |-> "ping", seq |-> pingSeq + 1] \in Facts
  BY FadeBoundsAssumption DEF Facts, WorldOK
<1>3. BusOK'
  BY <1>2, PublishType DEF Ping
<1>4. HistoryOK'
  BY DEF Ping, HistoryOK
<1> QED
  BY <1>1, <1>3, <1>4, Frame DEF Ping

LEMMA ReportType == ASSUME TypeOK, Report PROVE TypeOK'
<1>1. PICK ch \in Channels :
         \/ Publish([kind |-> "fader", channel |-> ch])
         \/ \E out \in BOOLEAN : Publish([kind |-> "pan", channel |-> ch, out |-> out])
  BY DEF Report
<1>2. BusOK'
  BY <1>1, PublishType DEF Facts
<1>3. budget' \in BudgetRecords
  BY SpendType DEF Report, EnvKinds
<1> QED
  BY <1>2, <1>3, Frame DEF Report

LEMMA Lv1LostType == ASSUME TypeOK, Lv1Lost PROVE TypeOK'
<1>1. WorldOK'
  BY DEF Lv1Lost, WorldOK
<1>2. BusOK'
  BY PublishType DEF Lv1Lost, Facts
<1>3. budget' \in BudgetRecords
  BY SpendType DEF Lv1Lost, EnvKinds
<1> QED
  BY <1>1, <1>2, <1>3, Frame DEF Lv1Lost

LEMMA Lv1ReturnsType == ASSUME TypeOK, Lv1Returns PROVE TypeOK'
<1>1. WorldOK'
  BY FadeBoundsAssumption DEF Lv1Returns, WorldOK
<1> QED
  BY <1>1, Frame DEF Lv1Returns

LEMMA OverrunType == ASSUME TypeOK, Overrun PROVE TypeOK'
<1>1. PICK n \in 1 .. Len(events) :
         events' = SubSeq(events, n + 1, Len(events)) /\ lagged' = lagged + n
  BY DEF Overrun
<1>2. Len(events) \in Nat /\ \A i \in n + 1 .. Len(events) : events[i] \in Facts
  BY LenProperties, ElementOfSeq DEF BusOK
<1>3. BusOK'
  BY <1>1, <1>2, SubSeqProperties DEF BusOK
<1>4. HistoryOK'
  BY DEF Overrun, HistoryOK
<1>5. budget' \in BudgetRecords
  BY SpendType DEF Overrun, EnvKinds
<1> QED
  BY <1>3, <1>4, <1>5, Frame DEF Overrun

LEMMA ElapseType == ASSUME TypeOK, Elapse PROVE TypeOK'
<1>1. PICK t \in targets : targets' = (targets \ {t}) \cup {[t EXCEPT !.due = TRUE]}
  BY DEF Elapse
<1>2. TargetsOK'
  BY <1>1 DEF TargetsOK, Targets
<1> QED
  BY <1>2, Frame DEF Elapse

LEMMA SnapshotServedType == ASSUME TypeOK, SnapshotServed PROVE TypeOK'
<1>1. JobOK'
  <2>1. pingSeq \in Nat /\ lv1Up \in BOOLEAN
    BY FadeBoundsAssumption DEF WorldOK
  <2>2. job' = [job EXCEPT !.stage = "answered", !.base = pingSeq, !.up = lv1Up]
    BY DEF SnapshotServed
  <2> QED
    BY <2>1, <2>2 DEF JobOK, Jobs
<1>2. HistoryOK'
  BY DEF SnapshotServed, HistoryOK, WorldOK
<1> QED
  BY <1>1, <1>2, Frame DEF SnapshotServed

LEMMA SnapshotFailedType == ASSUME TypeOK, SnapshotFailed PROVE TypeOK'
<1>1. JobOK'
  BY DEF SnapshotFailed, JobOK, Jobs
<1>2. budget' \in BudgetRecords
  BY SpendType DEF SnapshotFailed, EnvKinds
<1> QED
  BY <1>1, <1>2, Frame DEF SnapshotFailed

LEMMA SnapshotStaleType == ASSUME TypeOK, SnapshotStale PROVE TypeOK'
<1>1. JobOK'
  BY DEF SnapshotStale, JobOK, Jobs
<1> QED
  BY <1>1, Frame DEF SnapshotStale

LEMMA ReserveType == ASSUME TypeOK, Reserve PROVE TypeOK'
<1>1. JobOK'
  BY DEF Reserve, JobOK, Jobs
<1>2. budget' \in BudgetRecords
  BY SpendType DEF Reserve, EnvKinds
<1> QED
  BY <1>1, <1>2, Frame DEF Reserve

-----------------------------------------------------------------------------
(* The type invariant: facts                                               *)

\* A flag set in all targets keeps them targets, with their keys.
LEMMA FlaggedType ==
  ASSUME NEW ts \in SUBSET Targets, \A t \in ts, u \in ts : t.key = u.key => t = u,
         NEW b \in BOOLEAN, NEW fs, fs = {[t EXCEPT !.paused = b] : t \in ts}
  PROVE  fs \in SUBSET Targets /\ \A t \in fs, u \in fs : t.key = u.key => t = u
<1>1. ASSUME NEW t \in ts
      PROVE [t EXCEPT !.paused = b] \in Targets /\ [t EXCEPT !.paused = b].key = t.key
  BY DEF Targets
<1>2. fs \in SUBSET Targets
  BY <1>1
<1>3. ASSUME NEW t \in fs, NEW u \in fs, t.key = u.key PROVE t = u
  <2>1. PICK v \in ts, w \in ts : t = [v EXCEPT !.paused = b] /\ u = [w EXCEPT !.paused = b]
    OBVIOUS
  <2>2. v.key = w.key
    BY <1>1, <1>3, <2>1
  <2> QED
    BY <2>1, <2>2
<1> QED
  BY <1>2, <1>3

LEMMA ResumeType ==
  ASSUME NEW ts \in SUBSET Targets, \A t \in ts, u \in ts : t.key = u.key => t = u
  PROVE  /\ Resume(ts) \in SUBSET Targets /\ Pause(ts) \in SUBSET Targets
         /\ \A t \in Resume(ts), u \in Resume(ts) : t.key = u.key => t = u
         /\ \A t \in Pause(ts), u \in Pause(ts) : t.key = u.key => t = u
BY FlaggedType DEF Resume, Pause

LEMMA CompleteType ==
  ASSUME TypeOK, NEW remaining, NEW already \in BOOLEAN, CompleteIfEmpty(remaining, already)
  PROVE  FlagsOK'
BY DEF CompleteIfEmpty, FlagsOK

LEMMA PingFactType ==
  ASSUME TypeOK, NEW e \in Facts, PingFact(e)
  PROVE  TargetsOK' /\ BarrierOK' /\ FlagsOK' /\ ReplyOK'
<1>1. TargetsOK'
  BY ResumeType DEF PingFact, TargetsOK
<1>2. BarrierOK'
  <2>1. CASE Counts(e.seq) /\ barrier.seen + 1 < PingsRequired
    <3>1. e.seq \in Nat
      BY DEF PingFact, Facts
    <3>2. barrier' = [barrier EXCEPT !.last = e.seq, !.seen = @ + 1]
      BY <2>1 DEF PingFact
    <3>3. barrier.cmd # NoCmd
      BY <2>1 DEF Counts, Barrier, BarrierOK
    <3>4. barrier' \in [cmd : MaybeCmd, last : Nat, seen : Nat, missed : BOOLEAN]
      <4>1. /\ barrier \in [cmd : MaybeCmd, last : Nat, seen : Nat, missed : BOOLEAN]
            /\ barrier.seen + 1 \in Nat
        BY DEF BarrierOK
      <4> DEFINE seen == barrier.seen + 1
      <4>2. barrier' = [barrier EXCEPT !.last = e.seq, !.seen = seen]
        BY <3>2
      <4> HIDE DEF seen
      <4> QED
        BY <3>1, <4>1, <4>2 DEF seen
    <3>5. barrier'.cmd = barrier.cmd /\ barrier'.seen = barrier.seen + 1
      BY <3>2 DEF BarrierOK
    <3> QED
      BY <2>1, <3>3, <3>4, <3>5 DEF BarrierOK
  <2>2. CASE ~Counts(e.seq)
    BY <2>2, Frame DEF PingFact
  <2>3. CASE Counts(e.seq) /\ ~(barrier.seen + 1 < PingsRequired)
    BY <2>3, NoBarrierType DEF PingFact
  <2> QED
    BY <2>1, <2>2, <2>3
<1>3. FlagsOK'
  BY Frame DEF PingFact
<1>4. ReplyOK'
  BY SettleType DEF PingFact, ReplyOK
<1> QED
  BY <1>1, <1>2, <1>3, <1>4

LEMMA FaderFactType ==
  ASSUME TypeOK, NEW e \in Facts, FaderFact(e)
  PROVE  TargetsOK' /\ BarrierOK' /\ FlagsOK' /\ ReplyOK'
<1>1. targets' \subseteq targets
  BY DEF FaderFact
<1>2. TargetsOK'
  BY <1>1 DEF TargetsOK
<1>3. FlagsOK'
  BY CompleteType, Frame DEF FaderFact
<1> QED
  BY <1>2, <1>3, Frame DEF FaderFact

LEMMA PanFactType ==
  ASSUME TypeOK, NEW e \in Facts, PanFact(e)
  PROVE  TargetsOK' /\ BarrierOK' /\ FlagsOK' /\ ReplyOK'
<1> DEFINE family == PanFamily(e.channel)
           pans == {t \in family : ParamOf[t.key] = "pan"}
           after(t) == [t EXCEPT !.deviations = IF e.out THEN @ + 1 ELSE 0]
           reported == {after(t) : t \in pans}
<1>1. pans \subseteq targets
  BY DEF PanFamily
<1>2. \A t \in pans : after(t) \in Targets /\ after(t).key = t.key
  BY <1>1 DEF TargetsOK, Targets
<1>3. targets' \subseteq targets \/ targets' = (targets \ pans) \cup reported
  BY DEF PanFact, PanFamily
<1>4. ASSUME targets' = (targets \ pans) \cup reported PROVE TargetsOK'
  <2>1. targets' \in SUBSET Targets
    BY <1>2, <1>4 DEF TargetsOK
  <2>2. ASSUME NEW t \in targets', NEW u \in targets', t.key = u.key PROVE t = u
    <3> DEFINE of(v, x) == \/ v \in targets \ pans /\ x = v
                           \/ v \in pans /\ x = after(v)
    <3>1. PICK v \in targets : of(v, t)
      BY <1>1, <1>4
    <3>2. PICK w \in targets : of(w, u)
      BY <1>1, <1>4
    <3>3. v.key = w.key
      BY <1>2, <2>2, <3>1, <3>2
    <3>4. v = w
      BY <3>3 DEF TargetsOK
    <3> QED
      BY <3>1, <3>2, <3>4
  <2> HIDE DEF reported, pans, family
  <2> QED
    BY <2>1, <2>2 DEF TargetsOK
<1>5. ASSUME targets' \subseteq targets PROVE TargetsOK'
  <2> HIDE DEF reported, pans, family
  <2> QED
    BY <1>5 DEF TargetsOK
<1>6. FlagsOK'
  BY CompleteType, Frame DEF PanFact, FlagsOK
<1> QED
  BY <1>3, <1>4, <1>5, <1>6, Frame DEF PanFact

LEMMA CancelFactType ==
  ASSUME TypeOK, NEW e \in Facts, NEW dropped, CancelFact(e, dropped)
  PROVE  TargetsOK' /\ BarrierOK' /\ FlagsOK' /\ ReplyOK'
<1>1. reply' \in [Commands -> {"idle", "waiting", "ok", "err"}]
  BY RefusingType DEF CancelFact
<1>2. CASE targets # {} \/ Barrier
  BY <1>1, <1>2, AbortType DEF CancelFact
<1>3. CASE ~(targets # {} \/ Barrier)
  <2>1. ReplyOK'
    BY <1>1, <1>3, SettleType DEF CancelFact, ReplyOK
  <2> QED
    BY <1>3, <2>1, Frame DEF CancelFact
<1> QED
  BY <1>2, <1>3

\* Whatever the receiver takes, the state keeps its shape.
LEMMA ReceiveType ==
  ASSUME TypeOK, NEW dropped, Receive(dropped)
  PROVE  BusOK' /\ TargetsOK' /\ BarrierOK' /\ FlagsOK' /\ ReplyOK'
<1>1. CASE lagged > 0
  <2>1. BusOK'
    BY <1>1 DEF Receive, BusOK
  <2>2. BarrierOK'
    BY <1>1 DEF Receive, LagFact, BarrierOK, Barrier
  <2> QED
    BY <1>1, <2>1, <2>2, Frame DEF Receive, LagFact
<1>2. CASE ~(lagged > 0)
  <2>1. BusOK' /\ Head(events) \in Facts
    BY <1>2, HeadTailProperties DEF Receive, BusOK
  <2> QED
    BY <1>2, <2>1, PingFactType, FaderFactType, PanFactType, CancelFactType
    DEF Receive, ApplyFact
<1> QED
  BY <1>1, <1>2

LEMMA RetainingType ==
  ASSUME TypeOK, NEW j \in Jobs, Len(j.pings) <= PingsRequired, lagged > 0 \/ events # <<>>
  PROVE  /\ Retaining(j) \in Jobs /\ Len(Retaining(j).pings) <= PingsRequired
         /\ Retaining(j).kind = j.kind /\ Retaining(j).cmd = j.cmd
<1>1. CASE lagged > 0
  BY <1>1 DEF Retaining, Jobs
<1>2. CASE ~(lagged > 0) /\ Head(events).kind # "ping"
  BY <1>2 DEF Retaining
<1>3. CASE ~(lagged > 0) /\ Head(events).kind = "ping"
  <2> DEFINE pings == Append(j.pings, Head(events).seq)
             kept == IF Len(pings) > PingsRequired THEN Tail(pings) ELSE pings
  <2>1. Head(events) \in Facts
    BY <1>3, HeadTailProperties DEF BusOK
  <2>2. Head(events).seq \in Nat /\ j.pings \in Seq(Nat)
    BY <1>3, <2>1 DEF Facts, Jobs
  <2>3. pings \in Seq(Nat) /\ pings # <<>> /\ Len(pings) = Len(j.pings) + 1
    BY <2>2, AppendProperties, SMTT(30)
  <2>4. kept \in Seq(Nat) /\ Len(kept) <= PingsRequired
    <3> HIDE DEF pings
    <3> QED
      BY <2>2, <2>3, HeadTailProperties, LenProperties, FadeBoundsAssumption
  <2>5. Retaining(j) = [j EXCEPT !.pings = kept]
    BY <1>3 DEF Retaining
  <2> HIDE DEF kept
  <2> QED
    BY <2>4, <2>5 DEF Jobs
<1> QED
  BY <1>1, <1>2, <1>3

-----------------------------------------------------------------------------
(* The type invariant, action by action: the engine                        *)

LEMMA ReadinessTimeoutType == ASSUME TypeOK, ReadinessTimeout PROVE TypeOK'
<1> DEFINE dropped == IF ZeroDue THEN JobCmd ELSE {}
<1>1. JobOK'
  BY NoJobType, Frame DEF ReadinessTimeout
<1>2. reply' = Refusing(dropped)
  BY DEF ReadinessTimeout
<1>3. reply' \in [Commands -> {"idle", "waiting", "ok", "err"}]
  BY <1>2, RefusingType
<1>4. TargetsOK' /\ BarrierOK' /\ FlagsOK' /\ ReplyOK'
  <2>1. CASE Barrier
    <3>1. AbortWork(dropped) /\ emitted' = FALSE
      BY <2>1 DEF ReadinessTimeout
    <3> QED
      BY <1>3, <3>1, AbortType
  <2>2. CASE ~Barrier
    <3>1. chan' = Settle(dropped, "err") /\ UNCHANGED engineVars
      BY <2>2 DEF ReadinessTimeout
    <3>2. ReplyOK'
      BY <1>3, <3>1, SettleType DEF ReplyOK
    <3> QED
      BY <3>1, <3>2, Frame
  <2> QED
    BY <2>1, <2>2
<1> QED
  BY <1>1, <1>4, Frame DEF ReadinessTimeout

\* The command to be taken next, and what is left of the two queues.
LEMMA WaitingType ==
  ASSUME TypeOK, Waiting # <<>>
  PROVE  /\ Head(Waiting) \in Commands
         /\ Head(Waiting) = IF deferred # <<>> THEN Head(deferred) ELSE Head(mailbox)
         /\ deferred = <<>> => mailbox # <<>>
<1>1. mailbox \in Seq(Commands) /\ deferred \in Seq(Commands) /\ Waiting \in Seq(Commands)
  BY ConcatProperties DEF BoxOK, Waiting
<1>2. CASE deferred = <<>>
  BY <1>1, <1>2, HeadTailProperties, ConcatEmptySeq DEF Waiting
<1>3. CASE deferred # <<>>
  <2>1. Len(deferred) >= 1 /\ Waiting[1] = deferred[1]
    BY <1>1, <1>3, EmptySeq, ConcatProperties, LenProperties DEF Waiting
  <2> QED
    BY <1>1, <1>3, <2>1, HeadTailProperties
<1> QED
  BY <1>2, <1>3

LEMMA TakeCommandType == ASSUME TypeOK, TakeCommand PROVE TypeOK'
<1> DEFINE c == Head(Waiting)
           stage == IF TargetsOf[c] = {} /\ c \notin OwnedCommands THEN "announce" ELSE "asking"
<1>1. c \in Commands /\ (deferred = <<>> => mailbox # <<>>)
  BY WaitingType DEF TakeCommand
<1>2. BoxOK'
  <2>1. \/ deferred # <<>> /\ deferred' = Tail(deferred) /\ mailbox' = mailbox
        \/ deferred = <<>> /\ mailbox' = Tail(mailbox) /\ deferred' = deferred
    BY DEF TakeCommand
  <2> QED
    BY <1>1, <2>1, HeadTailProperties DEF BoxOK
<1>3. \/ reply' = Refusing({c}) /\ chan' = Settle({c}, "err") /\ UNCHANGED job
      \/ /\ job' = [NoJob EXCEPT !.kind = "call", !.cmd = c, !.stage = stage]
         /\ UNCHANGED replyVars
  BY DEF TakeCommand
<1>4. stage \in {"asking", "announce"}
  OBVIOUS
<1> HIDE DEF c, stage
<1>5. ReplyOK'
  BY <1>3, RefusingType, SettleType, Frame DEF ReplyOK
<1>6. JobOK'
  <2>1. CASE UNCHANGED job
    BY <2>1, Frame
  <2>2. CASE job' = [NoJob EXCEPT !.kind = "call", !.cmd = c, !.stage = stage]
    <3>1. job' = [kind |-> "call", cmd |-> c, stage |-> stage, ok |-> TRUE, base |-> 0,
                  up |-> FALSE, pings |-> <<>>, lagged |-> FALSE, left |-> 0, props |-> {},
                  done |-> {}]
      BY <2>2 DEF NoJob
    <3> QED
      BY <1>1, <1>4, <3>1, FadeBoundsAssumption DEF JobOK, Jobs, MaybeCmd
  <2> QED
    BY <1>3, <2>1, <2>2
<1> QED
  BY <1>2, <1>5, <1>6, Frame DEF TakeCommand

LEMMA DeferType == ASSUME TypeOK, Defer PROVE TypeOK'
<1>1. BoxOK'
  BY HeadTailProperties, AppendProperties DEF Defer, BoxOK
<1> QED
  BY <1>1, Frame DEF Defer

LEMMA CallEventType == ASSUME TypeOK, CallEvent PROVE TypeOK'
<1>1. BusOK' /\ TargetsOK' /\ BarrierOK' /\ FlagsOK' /\ ReplyOK'
  BY ReceiveType DEF CallEvent
<1>2. lagged > 0 \/ events # <<>>
  BY DEF CallEvent, Receive
<1>3. JobOK'
  BY <1>2, NoJobType, RetainingType DEF CallEvent, JobOK
<1> QED
  BY <1>1, <1>3, Frame DEF CallEvent

LEMMA TakeAnswerType == ASSUME TypeOK, TakeAnswer PROVE TypeOK'
<1>1. ReplyOK'
  BY RefusingType, SettleType, Frame DEF TakeAnswer, ReplyOK
<1>2. Backlog \in Nat
  BY LenProperties DEF Backlog, BusOK
<1>3. JobOK'
  BY <1>2, NoJobType DEF TakeAnswer, JobOK, Jobs
<1> QED
  BY <1>1, <1>3, Frame DEF TakeAnswer

LEMMA DrainEventType == ASSUME TypeOK, DrainEvent PROVE TypeOK'
<1> DEFINE left == IF lagged = 0 THEN job.left - 1
                   ELSE IF job.left > lagged THEN job.left - lagged ELSE 0
           next == [job EXCEPT !.left = left]
<1>1. BusOK' /\ TargetsOK' /\ BarrierOK' /\ FlagsOK' /\ ReplyOK'
  BY ReceiveType DEF DrainEvent
<1>2. lagged > 0 \/ events # <<>>
  BY DEF DrainEvent, Receive
<1>3. left \in Nat
  BY DEF DrainEvent, JobOK, Jobs, BusOK
<1>4. job' = NoJob \/ job' = next \/ job' = Retaining(next)
  BY DEF DrainEvent
<1> HIDE DEF left
<1>5. next \in Jobs /\ next.kind = job.kind /\ next.cmd = job.cmd /\ next.pings = job.pings
  BY <1>3 DEF JobOK, Jobs
<1> HIDE DEF next
<1>6. JobOK'
  BY <1>2, <1>4, <1>5, NoJobType, RetainingType DEF JobOK
<1> QED
  BY <1>1, <1>6, Frame DEF DrainEvent

LEMMA DrainEndType == ASSUME TypeOK, DrainEnd PROVE TypeOK'
<1>1. JobOK'
  BY DEF DrainEnd, JobOK, Jobs
<1> QED
  BY <1>1, Frame DEF DrainEnd

LEMMA FiniteUpTo == ASSUME NEW n \in Nat PROVE IsFiniteSet(1 .. n)
<1>1. 1 \in Int /\ n \in Int
  OBVIOUS
<1> QED
  BY <1>1, FS_Interval

\* The retained pings that count are finitely many, and the last one is a ping.
LEMMA CountedType ==
  ASSUME TypeOK,
         NEW counted, counted = IF job.lagged THEN {}
                                ELSE {i \in DOMAIN job.pings : job.pings[i] > job.base}
  PROVE  /\ IsFiniteSet(counted) /\ Cardinality(counted) \in Nat
         /\ counted # {} => Last(job.pings) \in Nat
<1>1. job.pings \in Seq(Nat) /\ DOMAIN job.pings = 1 .. Len(job.pings) /\ Len(job.pings) \in Nat
  BY LenProperties DEF JobOK, Jobs
<1>2. IsFiniteSet(1 .. Len(job.pings)) /\ counted \subseteq 1 .. Len(job.pings)
  <2>1. IsFiniteSet(1 .. Len(job.pings))
    BY <1>1, FiniteUpTo
  <2>2. counted \subseteq 1 .. Len(job.pings)
    BY <1>1
  <2> QED
    BY <2>1, <2>2
<1>3. IsFiniteSet(counted) /\ Cardinality(counted) \in Nat
  BY <1>2, FS_Subset, FS_CardinalityType
<1>4. counted # {} => Last(job.pings) \in Nat
  BY <1>1, <1>2, ElementOfSeq DEF Last
<1> QED
  BY <1>3, <1>4

LEMMA InstallType ==
  ASSUME TypeOK, NEW c \in Commands, NEW kept \in SUBSET Targets,
         \A t \in kept, u \in kept : t.key = u.key => t = u, Install(c, kept)
  PROVE  /\ TargetsOK' /\ BarrierOK'
         /\ chan' \in [Commands -> {"none", "open", "ok", "err"}]
<1> DEFINE counted == IF job.lagged THEN {}
                      ELSE {i \in DOMAIN job.pings : job.pings[i] > job.base}
           superseded == Settle({barrier.cmd}, "err")
           last == IF counted = {} THEN job.base ELSE Last(job.pings)
<1>1. superseded \in [Commands -> {"none", "open", "ok", "err"}]
  BY SettleType
<1>2. TargetsOK'
  BY ResumeType DEF Install, TargetsOK
<1>3. chan' \in [Commands -> {"none", "open", "ok", "err"}]
  <2> HIDE DEF superseded
  <2>1. chan' = superseded \/ chan' = [superseded EXCEPT ![c] = IF @ = "open" THEN "ok" ELSE @]
    BY DEF Install, superseded
  <2> QED
    BY <1>1, <2>1
<1>4. BarrierOK'
  <2>1. Cardinality(counted) \in Nat /\ last \in Nat /\ job.lagged \in BOOLEAN
    BY CountedType DEF JobOK, Jobs
  <2>2. \/ barrier' = NoBarrier
        \/ /\ barrier' = [cmd |-> c, last |-> last, seen |-> Cardinality(counted),
                          missed |-> job.lagged]
           /\ ~(Cardinality(counted) >= PingsRequired)
    BY DEF Install
  <2> HIDE DEF counted, last
  <2> QED
    BY <2>1, <2>2, NoBarrierType, CommandsAssumption, FadeBoundsAssumption DEF BarrierOK, MaybeCmd
<1> QED
  BY <1>2, <1>3, <1>4

LEMMA OverlappingType ==
  ASSUME TypeOK, NEW c \in Commands
  PROVE  /\ Overlapping(c) \in SUBSET Targets
         /\ \A t \in Overlapping(c), u \in Overlapping(c) : t.key = u.key => t = u
<1> DEFINE same == {t \in targets : SceneOf[t.cmd] = SceneOf[c]}
           new(k) == [key |-> k, cmd |-> c, paused |-> FALSE, finish |-> FALSE, due |-> FALSE,
                      deviations |-> 0]
           finished(t) == [t EXCEPT !.finish = TRUE]
           A == (targets \ same) \cup {finished(t) : t \in same}
           B == {t \in targets : t.key \notin TargetsOf[c]} \cup {new(k) : k \in TargetsOf[c]}
<1>1. Overlapping(c) = A \/ Overlapping(c) = B
  BY DEF Overlapping
<1>2. targets \subseteq Targets /\ \A t \in targets, u \in targets : t.key = u.key => t = u
  BY DEF TargetsOK
<1>3. A \subseteq Targets /\ \A t \in A, u \in A : t.key = u.key => t = u
  <2>1. \A t \in same : finished(t) \in Targets /\ finished(t).key = t.key
    BY <1>2 DEF Targets
  <2> DEFINE of(v, x) == \/ v \in targets \ same /\ x = v
                         \/ v \in same /\ x = finished(v)
  <2>2. ASSUME NEW t \in A, NEW u \in A, t.key = u.key PROVE t = u
    <3>1. PICK v \in targets : of(v, t)
      OBVIOUS
    <3>2. PICK w \in targets : of(w, u)
      OBVIOUS
    <3>3. v.key = w.key
      BY <2>1, <2>2, <3>1, <3>2
    <3>4. v = w
      BY <1>2, <3>3
    <3> QED
      BY <3>1, <3>2, <3>4
  <2>3. A \subseteq Targets
    BY <1>2, <2>1
  <2> QED
    BY <2>2, <2>3
<1>4. B \subseteq Targets /\ \A t \in B, u \in B : t.key = u.key => t = u
  <2>1. \A k \in TargetsOf[c] : new(k) \in Targets /\ new(k).key = k
    BY CommandsAssumption DEF Targets
  <2>2. B \subseteq Targets
    BY <1>2, <2>1
  <2>3. ASSUME NEW t \in B
        PROVE  \/ t \in targets /\ t.key \notin TargetsOf[c]
               \/ t.key \in TargetsOf[c] /\ t = new(t.key)
    BY <2>1
  <2>4. ASSUME NEW t \in B, NEW u \in B, t.key = u.key PROVE t = u
    <3> HIDE DEF B, new
    <3>1. CASE t.key \in TargetsOf[c]
      BY <2>3, <2>4, <3>1
    <3>2. CASE t.key \notin TargetsOf[c]
      BY <1>2, <2>3, <2>4, <3>2
    <3> QED
      BY <3>1, <3>2
  <2> QED
    BY <2>2, <2>4
<1> HIDE DEF A, B
<1> QED
  BY <1>1, <1>3, <1>4

LEMMA RefuseType == ASSUME TypeOK, Refuse PROVE TypeOK'
<1>1. ReplyOK' /\ JobOK'
  BY RefusingType, SettleType, NoJobType DEF Refuse, ReplyOK
<1> QED
  BY <1>1, Frame DEF Refuse

LEMMA ProposeZeroType == ASSUME TypeOK, ProposeZero PROVE TypeOK'
<1>1. JobOK'
  BY DEF ProposeZero, Serving, JobOK, Jobs
<1> QED
  BY <1>1, Frame DEF ProposeZero

LEMMA AdmitType == ASSUME TypeOK, Admit PROVE TypeOK'
<1> DEFINE kept == IF TargetsOf[job.cmd] = {} THEN targets ELSE Overlapping(job.cmd)
<1>1. job.cmd \in Commands
  BY DEF Admit, Serving, JobOK
<1>2. kept \in SUBSET Targets /\ \A t \in kept, u \in kept : t.key = u.key => t = u
  BY <1>1, OverlappingType DEF TargetsOK
<1>3. Install(job.cmd, kept)
  BY DEF Admit
<1>4. TargetsOK' /\ BarrierOK' /\ chan' \in [Commands -> {"none", "open", "ok", "err"}]
  <2> HIDE DEF kept
  <2> QED
    BY <1>1, <1>2, <1>3, InstallType
<1>5. reply' = reply \/ reply' = [reply EXCEPT ![job.cmd] = "ok"]
  BY DEF Admit
<1>6. ReplyOK'
  BY <1>4, <1>5 DEF ReplyOK
<1>7. JobOK'
  <2>1. job' = NoJob \/ job' = [job EXCEPT !.stage = "announce"]
    BY DEF Admit
  <2> QED
    BY <2>1, NoJobType DEF JobOK, Jobs
<1> QED
  BY <1>4, <1>6, <1>7, Frame DEF Admit

LEMMA AnnounceType == ASSUME TypeOK, Announce PROVE TypeOK'
<1>1. ReplyOK' /\ JobOK'
  BY NoJobType DEF Announce, ReplyOK
<1>2. FlagsOK'
  BY DEF Announce, FlagsOK
<1> QED
  BY <1>1, <1>2, Frame DEF Announce

LEMMA AdmissionTurnType == ASSUME TypeOK, AdmissionTurn PROVE TypeOK'
<1>1. Backlog \in Nat
  BY LenProperties DEF Backlog, BusOK
<1>2. JobOK'
  <2> DEFINE ok == job.stage = "granted"
  <2>1. job' = [job EXCEPT !.stage = "draining", !.ok = ok, !.left = Backlog] /\ ok \in BOOLEAN
    BY DEF AdmissionTurn
  <2> HIDE DEF ok
  <2> QED
    BY <1>1, <2>1 DEF JobOK, Jobs
<1>3. HistoryOK'
  <2>1. events \in Seq(Facts) /\ DOMAIN events = 1 .. Len(events)
    BY LenProperties DEF BusOK
  <2>2. ToSet(events) \subseteq Facts
    BY <2>1, ElementOfSeq DEF ToSet
  <2> QED
    BY <2>2 DEF AdmissionTurn, HistoryOK
<1> QED
  BY <1>2, <1>3, Frame DEF AdmissionTurn

LEMMA AbortTickType ==
  ASSUME TypeOK, AbortTick PROVE TargetsOK' /\ BarrierOK' /\ FlagsOK' /\ ReplyOK' /\ JobOK'
<1>1. AbortWork({}) /\ emitted' \in BOOLEAN /\ job' = NoJob
      /\ reply' \in [Commands -> {"idle", "waiting", "ok", "err"}]
  BY DEF AbortTick, FlagsOK, ReplyOK
<1> QED
  BY <1>1, AbortType, NoJobType

LEMMA SendTickType == ASSUME TypeOK, SendTick PROVE TypeOK'
<1>1. HistoryOK'
  BY DEF SendTick, HistoryOK
<1>2. CASE job.ok /\ current
  <2> DEFINE props == job.props \cap ActiveKeys
  <2>1. job' = [job EXCEPT !.stage = "written", !.props = props] /\ UNCHANGED <<engineVars, replyVars>>
    BY <1>2 DEF SendTick
  <2>2. props \in SUBSET Keys
    BY DEF JobOK, Jobs
  <2> HIDE DEF props
  <2>3. JobOK'
    BY <2>1, <2>2 DEF JobOK, Jobs
  <2> QED
    BY <1>1, <2>1, <2>3, Frame DEF SendTick
<1>3. CASE ~(job.ok /\ current)
  BY <1>1, <1>3, AbortTickType, Frame DEF SendTick
<1> QED
  BY <1>2, <1>3

LEMMA CommitTickType == ASSUME TypeOK, CommitTick PROVE TypeOK'
<1>1. CASE current
  <2>1. targets' \subseteq targets
    BY <1>1 DEF CommitTick
  <2>2. TargetsOK'
    BY <2>1 DEF TargetsOK
  <2>3. CompleteIfEmpty(targets', emitted) /\ emitted \in BOOLEAN
    BY <1>1 DEF CommitTick, FlagsOK
  <2>4. FlagsOK'
    BY <2>3, CompleteType
  <2> QED
    BY <1>1, <2>2, <2>4, NoJobType, Frame DEF CommitTick
<1>2. CASE ~current
  BY <1>2, AbortTickType, Frame DEF CommitTick
<1> QED
  BY <1>1, <1>2

LEMMA RefuseZeroType == ASSUME TypeOK, RefuseZero PROVE JobOK' /\ ReplyOK'
BY RefusingType, SettleType, NoJobType DEF RefuseZero, ReplyOK

LEMMA SendZeroType == ASSUME TypeOK, SendZero PROVE TypeOK'
<1>1. HistoryOK'
  BY DEF SendZero, HistoryOK
<1>2. JobOK' /\ ReplyOK'
  BY RefuseZeroType, Frame DEF SendZero, JobOK, Jobs
<1> QED
  BY <1>1, <1>2, Frame DEF SendZero

LEMMA CommitZeroType == ASSUME TypeOK, CommitZero PROVE TypeOK'
<1>1. CASE ~InTime
  BY <1>1, RefuseZeroType, Frame DEF CommitZero
<1>2. CASE InTime
  <2> DEFINE kept == {t \in targets : t.key \notin TargetsOf[job.cmd]}
  <2>1. job.cmd \in Commands /\ job' = [job EXCEPT !.stage = "announce"] /\ UNCHANGED reply
    BY <1>2 DEF CommitZero, JobOK
  <2>2. JobOK'
    BY <2>1 DEF JobOK, Jobs
  <2>3. kept \in SUBSET Targets /\ \A t \in kept, u \in kept : t.key = u.key => t = u
    BY DEF TargetsOK
  <2>4. Install(job.cmd, kept) \/ (targets' = kept /\ UNCHANGED <<barrier, chan>>)
    BY <1>2 DEF CommitZero
  <2> HIDE DEF kept
  <2>5. TargetsOK' /\ BarrierOK' /\ chan' \in [Commands -> {"none", "open", "ok", "err"}]
    BY <2>1, <2>3, <2>4, InstallType, Frame DEF TargetsOK, ReplyOK
  <2>6. ReplyOK'
    BY <2>1, <2>5 DEF ReplyOK
  <2> QED
    BY <2>2, <2>5, <2>6, Frame DEF CommitZero
<1> QED
  BY <1>1, <1>2

LEMMA MainEventType == ASSUME TypeOK, MainEvent PROVE TypeOK'
<1>1. BusOK' /\ TargetsOK' /\ BarrierOK' /\ FlagsOK' /\ ReplyOK'
  BY ReceiveType DEF MainEvent
<1>2. JobOK'
  BY NoJobType, Frame DEF MainEvent
<1> QED
  BY <1>1, <1>2, Frame DEF MainEvent

LEMMA TickType == ASSUME TypeOK, Tick PROVE TypeOK'
<1> DEFINE done == {t.key : t \in {u \in targets : u.due \/ u.finish}}
<1>1. PICK props \in SUBSET ActiveKeys :
        IF props = {}
        THEN /\ UNCHANGED job
             /\ IF current THEN UNCHANGED <<engineVars, replyVars>> ELSE AbortTick
        ELSE /\ job' = [NoJob EXCEPT !.kind = "tick", !.stage = "reserving", !.props = props,
                                     !.done = done]
             /\ UNCHANGED <<engineVars, replyVars>>
  BY DEF Tick
<1>2. ActiveKeys \subseteq Keys /\ done \subseteq Keys
  BY DEF ActiveKeys, TargetsOK, Targets
<1> HIDE DEF done
<1>3. CASE props = {}
  BY <1>1, <1>3, AbortTickType, Frame DEF Tick
<1>4. CASE props # {}
  <2>1. UNCHANGED <<engineVars, replyVars>>
    BY <1>1, <1>4
  <2>2. job' = [kind |-> "tick", cmd |-> NoCmd, stage |-> "reserving", ok |-> TRUE, base |-> 0,
                up |-> FALSE, pings |-> <<>>, lagged |-> FALSE, left |-> 0, props |-> props,
                done |-> done]
    BY <1>1, <1>4 DEF NoJob
  <2>3. JobOK'
    BY <1>2, <2>2, FadeBoundsAssumption, CommandsAssumption DEF JobOK, Jobs, MaybeCmd
  <2> QED
    BY <2>1, <2>3, Frame DEF Tick
<1> QED
  BY <1>3, <1>4

LEMMA EngineStopType == ASSUME TypeOK, EngineStop PROVE TypeOK'
<1>1. ReplyOK'
  BY RefusingType, SettleType DEF EngineStop, ReplyOK
<1>2. BusOK' /\ BoxOK'
  BY DEF EngineStop, BusOK, BoxOK
<1>3. TargetsOK' /\ FlagsOK'
  BY DEF EngineStop, TargetsOK, FlagsOK
<1>4. BarrierOK' /\ JobOK'
  BY NoBarrierType, NoJobType DEF EngineStop
<1> QED
  BY <1>1, <1>2, <1>3, <1>4, Frame DEF EngineStop

LEMMA InitType == ASSUME Init PROVE TypeOK
<1>1. WorldOK /\ BusOK /\ BoxOK /\ ReplyOK /\ FlagsOK
  <2>1. WorldOK /\ FlagsOK
    <3>1. now \in 0 .. MaxTime /\ session \in Nat /\ pingSeq \in 0 .. MaxPing
      BY FadeBoundsAssumption DEF Init
    <3>2. /\ current \in BOOLEAN /\ announced \in BOOLEAN /\ open \in BOOLEAN /\ lv1Up \in BOOLEAN
          /\ ticking \in BOOLEAN /\ emitted \in BOOLEAN /\ running \in BOOLEAN
      BY Zenon DEF Init
    <3> QED
      BY <3>1, <3>2 DEF WorldOK, FlagsOK
  <2>2. BusOK /\ BoxOK
    BY DEF Init, BusOK, BoxOK
  <2>3. ReplyOK
    BY DEF Init, ReplyOK
  <2> QED
    BY <2>1, <2>2, <2>3
<1>2. TargetsOK /\ BarrierOK
  BY FadeBoundsAssumption DEF Init, TargetsOK, BarrierOK, NoBarrier, MaybeCmd
<1>3. JobOK
  BY FadeBoundsAssumption, CommandsAssumption DEF Init, JobOK, Jobs, NoJob, MaybeCmd
<1>4. HistoryOK /\ deadline \in [Commands -> 0 .. MaxTime] /\ budget \in BudgetRecords
  BY FadeBoundsAssumption DEF Init, HistoryOK
<1> QED
  BY <1>1, <1>2, <1>3, <1>4 DEF Init

LEMMA StepType == ASSUME TypeOK, [Next]_vars PROVE TypeOK'
<1>1. CASE Engine
  <2> HIDE DEF TypeOK
  <2> QED
    BY <1>1, ReadinessTimeoutType, TakeCommandType, DeferType, CallEventType, TakeAnswerType,
       DrainEventType, DrainEndType, RefuseType, ProposeZeroType, AdmitType, AnnounceType,
       AdmissionTurnType, SendTickType, CommitTickType, SendZeroType, CommitZeroType,
       MainEventType, TickType, EngineStopType DEF Engine
<1>2. CASE Environment
  <2> HIDE DEF TypeOK
  <2> QED
    BY <1>2, SendType, AdvanceType, RevokeType, AnnounceRevokeType, DropHandlesType, PingType,
       ReportType, Lv1LostType, Lv1ReturnsType, OverrunType, ElapseType, SnapshotServedType,
       SnapshotFailedType, SnapshotStaleType, ReserveType DEF Environment
<1>3. CASE UNCHANGED vars
  BY <1>3, Frame DEF vars
<1> QED
  BY <1>1, <1>2, <1>3 DEF Next

\* Every reachable state of the engine has its type: no key is driven by two
\* targets, a barrier never holds as many pings as release it, and a job has a
\* command exactly if it serves one (fade/state.rs).
THEOREM TypeCorrect == Spec => []TypeOK
<1>1. Init => TypeOK
  BY InitType
<1>2. TypeOK /\ [Next]_vars => TypeOK'
  BY StepType
<1> HIDE DEF TypeOK
<1> QED
  BY <1>1, <1>2, PTL DEF Spec

-----------------------------------------------------------------------------
(* Nothing moves behind a barrier                                          *)

\* A barrier is a barrier as long as it has a command.
LEMMA BarrierCmd == ASSUME TypeOK PROVE Barrier <=> barrier.cmd # NoCmd
BY DEF Barrier, BarrierOK, NoBarrier

\* A step that leaves targets and barrier alone, and starts no tick, keeps Frozen.
LEMMA FrozenFrame ==
  ASSUME Frozen, UNCHANGED <<targets, barrier>>, job'.kind = "tick" => job.kind = "tick"
  PROVE  Frozen'
BY DEF Frozen, Barrier

\* Every cancellation and the end of the engine keep Frozen.
LEMMA FrozenEmpty ==
  ASSUME targets' = {}, barrier' = NoBarrier PROVE Frozen'
BY DEF Frozen, Barrier

\* No event starts a barrier, and a released or kept one agrees with its targets.
LEMMA FrozenReceive ==
  ASSUME TypeOK, Frozen, NEW dropped, Receive(dropped)
  PROVE  (\A t \in targets' : t.paused <=> Barrier') /\ (Barrier' => Barrier)
<1> USE DEF Frozen
<1>1. CASE lagged > 0
  BY <1>1 DEF Receive, LagFact, Barrier, BarrierOK, NoBarrier
<1>2. CASE ~(lagged > 0)
  <2> DEFINE e == Head(events)
  <2>1. PingFact(e) \/ FaderFact(e) \/ PanFact(e) \/ CancelFact(e, dropped)
    BY <1>2 DEF Receive, ApplyFact
  <2> HIDE DEF e
  <2>2. CASE PingFact(e)
    <3>1. CASE ~Counts(e.seq)
      BY <2>2, <3>1 DEF PingFact, Barrier
    <3>2. CASE Counts(e.seq) /\ barrier.seen + 1 < PingsRequired
      <4>1. barrier'.cmd = barrier.cmd /\ Barrier
        BY <2>2, <3>2 DEF PingFact, BarrierOK, Counts
      <4>2. Barrier'
        BY <4>1, BarrierCmd DEF Barrier, NoBarrier
      <4> QED
        BY <2>2, <3>2, <4>1, <4>2 DEF PingFact
    <3>3. CASE Counts(e.seq) /\ ~(barrier.seen + 1 < PingsRequired)
      <4>1. barrier' = NoBarrier /\ targets' = Resume(targets)
        BY <2>2, <3>3 DEF PingFact
      <4>2. \A t \in targets : [t EXCEPT !.paused = FALSE].paused = FALSE
        BY DEF TargetsOK, Targets
      <4> QED
        BY <4>1, <4>2 DEF Resume, Barrier
    <3> QED
      BY <3>1, <3>2, <3>3
  <2>3. CASE FaderFact(e)
    BY <2>3 DEF FaderFact, Barrier
  <2>4. CASE PanFact(e)
    <3>1. barrier' = barrier
      BY <2>4 DEF PanFact
    <3>2. \A t \in targets' : \E u \in targets : t.paused = u.paused
      <4> DEFINE family == PanFamily(e.channel)
                 pans == {t \in family : ParamOf[t.key] = "pan"}
                 reported == {[t EXCEPT !.deviations = IF e.out THEN @ + 1 ELSE 0] : t \in pans}
      <4>1. targets' = targets \ family \/ targets' = (targets \ pans) \cup reported
        BY <2>4 DEF PanFact
      <4>2. \A t \in reported : \E u \in targets : t.paused = u.paused
        BY DEF TargetsOK, Targets, PanFamily
      <4> HIDE DEF family, pans, reported
      <4> QED
        BY <4>1, <4>2
    <3> QED
      BY <3>1, <3>2 DEF Barrier
  <2>5. CASE CancelFact(e, dropped)
    BY <2>5 DEF CancelFact, AbortWork, Barrier
  <2> QED
    BY <2>1, <2>2, <2>3, <2>4, <2>5
<1> QED
  BY <1>1, <1>2

\* A recall's barrier pauses all targets, those that were running included.
LEMMA FrozenInstall ==
  ASSUME TypeOK, NEW c \in Commands, NEW kept \in SUBSET Targets, Install(c, kept)
  PROVE  \A t \in targets' : t.paused <=> Barrier'
<1>1. \A t \in kept : /\ [t EXCEPT !.paused = TRUE].paused = TRUE
                      /\ [t EXCEPT !.paused = FALSE].paused = FALSE
  BY DEF Targets
<1>2. \/ barrier' = NoBarrier /\ targets' = Resume(kept)
      \/ barrier'.cmd = c /\ targets' = Pause(kept)
  BY SMTT(30) DEF Install
<1>3. barrier'.cmd = c => Barrier'
  BY CommandsAssumption DEF Barrier, NoBarrier
<1>4. CASE barrier' = NoBarrier /\ targets' = Resume(kept)
  BY <1>1, <1>4 DEF Resume, Barrier
<1>5. CASE barrier'.cmd = c /\ targets' = Pause(kept)
  BY <1>1, <1>3, <1>5 DEF Pause
<1> QED
  BY <1>2, <1>4, <1>5

LEMMA FrozenEngine == ASSUME TypeOK, Frozen, Engine PROVE Frozen'
<1>1. CASE ReadinessTimeout
  <2>1. job' = NoJob \/ job' = job
    BY <1>1 DEF ReadinessTimeout
  <2>2. (targets' = {} /\ barrier' = NoBarrier) \/ UNCHANGED <<targets, barrier>>
    BY <1>1 DEF ReadinessTimeout, AbortWork
  <2> QED
    BY <2>1, <2>2, FrozenEmpty, FrozenFrame DEF NoJob
<1>2. CASE TakeCommand \/ Defer \/ TakeAnswer \/ DrainEnd \/ Refuse \/ ProposeZero \/ Announce
           \/ AdmissionTurn \/ SendZero
  <2>1. UNCHANGED <<targets, barrier>>
    BY <1>2 DEF TakeCommand, Defer, TakeAnswer, DrainEnd, Refuse, ProposeZero, Announce,
                AdmissionTurn, SendZero
  <2>2. job'.kind = "tick" => job.kind = "tick"
    <3>1. CASE TakeCommand
      BY <3>1 DEF TakeCommand, NoJob
    <3>2. CASE Defer \/ Refuse \/ Announce
      BY <3>2 DEF Defer, Refuse, Announce, NoJob
    <3>3. CASE DrainEnd \/ ProposeZero \/ AdmissionTurn \/ TakeAnswer
      <4>1. CASE TakeAnswer
        <5> DEFINE next == [job EXCEPT !.stage = "draining", !.left = Backlog]
        <5>1. job' = NoJob \/ job' = next
          BY <4>1 DEF TakeAnswer
        <5>2. next.kind = job.kind
          BY DEF JobOK, Jobs
        <5> HIDE DEF next
        <5> QED
          BY <5>1, <5>2 DEF NoJob
      <4> QED
        BY <3>3, <4>1 DEF DrainEnd, ProposeZero, AdmissionTurn, JobOK, Jobs
    <3>4. CASE SendZero
      <4>1. job' = NoJob \/ job' = [job EXCEPT !.stage = "written"]
        BY <3>4 DEF SendZero, RefuseZero
      <4> QED
        BY <4>1 DEF NoJob, JobOK, Jobs
    <3> QED
      BY <1>2, <3>1, <3>2, <3>3, <3>4
  <2> QED
    BY <2>1, <2>2, FrozenFrame
<1>3. CASE CallEvent \/ DrainEvent \/ MainEvent
  <2>1. Receive(JobCmd)
    BY <1>3 DEF CallEvent, DrainEvent, MainEvent
  <2>2. job'.kind = "tick" => job.kind = "tick"
    <3>1. \A j \in Jobs : Retaining(j).kind = j.kind
      BY DEF Retaining, Jobs
    <3>2. CASE CallEvent \/ MainEvent
      BY <3>1, <3>2 DEF CallEvent, MainEvent, NoJob, JobOK
    <3>3. CASE DrainEvent
      <4> DEFINE next == [job EXCEPT !.left = IF lagged = 0 THEN @ - 1
                                              ELSE IF @ > lagged THEN @ - lagged ELSE 0]
      <4>1. job' = NoJob \/ job' = Retaining(next) \/ job' = next
        BY <3>3 DEF DrainEvent
      <4>2. next.kind = job.kind /\ Retaining(next).kind = next.kind
        BY DEF Retaining, JobOK, Jobs
      <4> HIDE DEF next
      <4> QED
        BY <4>1, <4>2 DEF NoJob
    <3> QED
      BY <1>3, <3>2, <3>3
  <2> QED
    BY <2>1, <2>2, FrozenReceive DEF Frozen
<1>4. CASE Admit
  <2> DEFINE kept == IF TargetsOf[job.cmd] = {} THEN targets ELSE Overlapping(job.cmd)
  <2>1. job.cmd \in Commands /\ Install(job.cmd, kept)
    BY <1>4 DEF Admit, Serving, JobOK
  <2>2. kept \in SUBSET Targets
    BY <2>1, OverlappingType DEF TargetsOK
  <2>3. job'.kind # "tick"
    BY <1>4 DEF Admit, Serving, NoJob, JobOK, Jobs
  <2> HIDE DEF kept
  <2> QED
    BY <2>1, <2>2, <2>3, FrozenInstall DEF Frozen
<1>5. CASE CommitZero
  <2>1. job'.kind # "tick"
    BY <1>5, SMTT(30) DEF CommitZero, RefuseZero, NoJob, JobOK, Jobs
  <2>2. CASE InTime
    <3> DEFINE kept == {t \in targets : t.key \notin TargetsOf[job.cmd]}
    <3>1. job.cmd \in Commands
      BY <1>5 DEF CommitZero, JobOK
    <3>2. kept \in SUBSET Targets /\ kept \subseteq targets
      BY DEF TargetsOK
    <3>3. Install(job.cmd, kept) \/ (targets' = kept /\ UNCHANGED barrier)
      BY <1>5, <2>2 DEF CommitZero
    <3> HIDE DEF kept
    <3>4. CASE Install(job.cmd, kept)
      BY <2>1, <3>1, <3>2, <3>4, FrozenInstall DEF Frozen
    <3>5. CASE targets' = kept /\ UNCHANGED barrier
      BY <2>1, <3>2, <3>5 DEF Frozen, Barrier
    <3> QED
      BY <3>3, <3>4, <3>5
  <2>3. CASE ~InTime
    BY <1>5, <2>1, <2>3, FrozenFrame DEF CommitZero
  <2> QED
    BY <2>2, <2>3
<1>6. CASE SendTick
  <2>1. CASE job.ok /\ current
    BY <1>6, <2>1, FrozenFrame DEF SendTick
  <2>2. CASE ~(job.ok /\ current)
    BY <1>6, <2>2, FrozenEmpty DEF SendTick, AbortTick, AbortWork
  <2> QED
    BY <2>1, <2>2
<1>7. CASE CommitTick
  <2>1. CASE current
    BY <1>7, <2>1 DEF CommitTick, Frozen, Barrier, NoJob
  <2>2. CASE ~current
    BY <1>7, <2>2, FrozenEmpty DEF CommitTick, AbortTick, AbortWork
  <2> QED
    BY <2>1, <2>2
<1>8. CASE Tick
  <2>1. ~Barrier
    BY <1>8 DEF Tick
  <2>2. (targets' = {} /\ barrier' = NoBarrier) \/ UNCHANGED <<targets, barrier>>
    BY <1>8 DEF Tick, AbortTick, AbortWork
  <2>3. CASE UNCHANGED <<targets, barrier>>
    BY <2>1, <2>3 DEF Frozen, Barrier
  <2> QED
    BY <2>2, <2>3, FrozenEmpty
<1>9. CASE EngineStop
  BY <1>9, FrozenEmpty DEF EngineStop
<1> QED
  BY <1>1, <1>2, <1>3, <1>4, <1>5, <1>6, <1>7, <1>8, <1>9 DEF Engine

LEMMA FrozenEnvironment == ASSUME TypeOK, Frozen, Environment PROVE Frozen'
<1>1. CASE Elapse
  <2>1. PICK t \in targets : targets' = (targets \ {t}) \cup {[t EXCEPT !.due = TRUE]}
    BY <1>1 DEF Elapse
  <2>2. [t EXCEPT !.due = TRUE].paused = t.paused
    BY DEF TargetsOK, Targets
  <2>3. UNCHANGED <<barrier, job>>
    BY <1>1 DEF Elapse
  <2> QED
    BY <2>1, <2>2, <2>3 DEF Frozen, Barrier
<1>2. CASE SnapshotServed \/ SnapshotFailed \/ SnapshotStale \/ Reserve
  <2>1. UNCHANGED <<targets, barrier>>
    BY <1>2 DEF SnapshotServed, SnapshotFailed, SnapshotStale, Reserve
  <2>2. job'.kind = job.kind
    BY <1>2 DEF SnapshotServed, SnapshotFailed, SnapshotStale, Reserve, JobOK, Jobs
  <2> QED
    BY <2>1, <2>2, FrozenFrame
<1>3. ASSUME UNCHANGED <<targets, barrier, job>> PROVE Frozen'
  BY <1>3, FrozenFrame
<1> QED
  BY <1>1, <1>2, <1>3 DEF Environment, Send, Advance, Revoke, AnnounceRevoke, DropHandles, Ping,
     Report, Lv1Lost, Lv1Returns, Overrun

\* Nothing moves behind a readiness barrier, whatever recalls overlap and
\* whatever is canceled: all targets are paused exactly while it exists, and no
\* tick is under way (fade/state.rs, fade/actor.rs).
THEOREM FrozenCorrect == Spec => []Frozen
<1>1. Init => Frozen
  BY DEF Init, Frozen, NoJob
<1>2. TypeOK /\ Frozen /\ [Next]_vars => Frozen'
  <2> SUFFICES ASSUME TypeOK, Frozen, [Next]_vars PROVE Frozen'
    OBVIOUS
  <2>1. CASE UNCHANGED vars
    BY <2>1, FrozenFrame DEF vars
  <2> QED
    BY <2>1, FrozenEngine, FrozenEnvironment DEF Next
<1> HIDE DEF TypeOK
<1> QED
  BY <1>1, <1>2, TypeCorrect, PTL DEF Spec

-----------------------------------------------------------------------------
(* No fade is forgotten                                                    *)

\* A step that starts no target, and neither stops nor restarts the tick while
\* some are left, keeps TargetsDriven unless it ends an announcement.
LEMMA DrivenFrame ==
  ASSUME TypeOK, TargetsDriven, job.stage # "announce", current' => current,
         targets' = {} \/ (targets # {} /\ UNCHANGED <<ticking, running>>)
  PROVE  TargetsDriven'
BY DEF TargetsDriven

\* An event cancels all targets, or leaves the tick alone while some are left.
LEMMA DrivenReceive ==
  ASSUME TypeOK, NEW dropped, Receive(dropped)
  PROVE  targets' = {} \/ (targets # {} /\ UNCHANGED <<ticking, running>>)
<1>1. CASE lagged > 0
  BY <1>1 DEF Receive, LagFact
<1>2. CASE ~(lagged > 0)
  <2> DEFINE e == Head(events)
  <2>1. PingFact(e) \/ FaderFact(e) \/ PanFact(e) \/ CancelFact(e, dropped)
    BY <1>2 DEF Receive, ApplyFact
  <2> HIDE DEF e
  <2>2. CASE PingFact(e)
    BY <2>2 DEF PingFact, Resume
  <2>3. CASE FaderFact(e)
    BY <2>3 DEF FaderFact
  <2>4. CASE PanFact(e)
    <3> DEFINE family == PanFamily(e.channel)
               pans == {t \in family : ParamOf[t.key] = "pan"}
               reported == {[t EXCEPT !.deviations = IF e.out THEN @ + 1 ELSE 0] : t \in pans}
    <3>1. \/ targets' = targets \ family /\ CompleteIfEmpty(targets \ family, emitted)
          \/ targets' = (targets \ pans) \cup reported /\ UNCHANGED <<ticking, running>>
      BY <2>4 DEF PanFact
    <3>2. pans \subseteq targets /\ (pans = {} => reported = {})
      BY DEF PanFamily
    <3> HIDE DEF family, pans, reported
    <3> QED
      BY <3>1, <3>2 DEF CompleteIfEmpty
  <2>5. CASE CancelFact(e, dropped)
    BY <2>5 DEF CancelFact, AbortWork
  <2> QED
    BY <2>1, <2>2, <2>3, <2>4, <2>5
<1> QED
  BY <1>1, <1>2

LEMMA DrivenEngine == ASSUME TypeOK, TargetsDriven, Engine PROVE TargetsDriven'
<1>0. current' = current
  BY DEF Engine, ReadinessTimeout, TakeCommand, Defer, CallEvent, TakeAnswer, DrainEvent,
     DrainEnd, Refuse, ProposeZero, Admit, Announce, AdmissionTurn, SendTick, CommitTick, SendZero,
     CommitZero, MainEvent, Tick, EngineStop
<1>1. CASE ReadinessTimeout
  <2>1. CASE targets' = {}
    BY <2>1 DEF TargetsDriven
  <2>2. CASE UNCHANGED engineVars /\ job' = job
    BY <1>0, <2>2 DEF TargetsDriven
  <2>3. CASE UNCHANGED engineVars /\ ZeroDue
    <3>1. job.stage # "announce"
      BY <1>1, <2>3 DEF ReadinessTimeout, Looping, Serving, ZeroDue
    <3> QED
      BY <1>0, <2>3, <3>1 DEF TargetsDriven
  <2> QED
    BY <1>1, <2>1, <2>2, <2>3 DEF ReadinessTimeout, AbortWork
<1>2. CASE TakeCommand \/ TakeAnswer \/ DrainEnd \/ Refuse \/ ProposeZero \/ AdmissionTurn \/ SendZero
  <2>1. job.stage # "announce"
    BY <1>2 DEF TakeCommand, TakeAnswer, DrainEnd, Refuse, ProposeZero, AdmissionTurn, SendZero, NoJob
  <2>2. UNCHANGED engineVars
    BY <1>2 DEF TakeCommand, TakeAnswer, DrainEnd, Refuse, ProposeZero, AdmissionTurn, SendZero
  <2> QED
    BY <1>0, <2>1, <2>2 DEF TargetsDriven
<1>3. CASE Defer
  BY <1>0, <1>3 DEF Defer, TargetsDriven
<1>4. CASE CallEvent \/ DrainEvent \/ MainEvent
  <2>1. Receive(JobCmd)
    BY <1>4 DEF CallEvent, DrainEvent, MainEvent
  <2>2. job.stage # "announce"
    BY <1>4 DEF CallEvent, DrainEvent, MainEvent, NoJob
  <2> QED
    BY <1>0, <2>1, <2>2, DrivenReceive, DrivenFrame
<1>5. CASE Admit
  <2>1. job.stage # "announce" /\ job.cmd \in Commands /\ UNCHANGED <<ticking, running>>
    BY <1>5 DEF Admit, Serving, JobOK
  <2>2. CASE job.cmd \in WaitCommands
    <3>1. Install(job.cmd, targets)
      BY <1>5, <2>2, CommandsAssumption DEF Admit
    <3>2. targets' = Resume(targets) \/ targets' = Pause(targets)
      BY <3>1 DEF Install
    <3>3. targets' = {} <=> targets = {}
      BY <3>2 DEF Pause, Resume
    <3> QED
      BY <1>0, <2>1, <3>3 DEF TargetsDriven
  <2>3. CASE job.cmd \notin WaitCommands
    <3>1. job' = [job EXCEPT !.stage = "announce"]
      BY <1>5, <2>3 DEF Admit
    <3>2. job'.stage = "announce"
      BY <3>1 DEF JobOK, Jobs
    <3> QED
      BY <3>2 DEF TargetsDriven
  <2> QED
    BY <2>2, <2>3
<1>6. CASE Announce
  BY <1>0, <1>6 DEF Announce, TargetsDriven
<1>7. CASE SendTick
  BY <1>0, <1>7 DEF SendTick, AbortTick, AbortWork, TargetsDriven
<1>8. CASE CommitTick
  <2>1. CASE current
    <3>1. targets' \subseteq targets /\ CompleteIfEmpty(targets', emitted) /\ job.stage = "written"
      BY <1>8, <2>1 DEF CommitTick
    <3> QED
      BY <1>0, <3>1 DEF CompleteIfEmpty, TargetsDriven
  <2>2. CASE ~current
    BY <1>0, <2>2 DEF TargetsDriven
  <2> QED
    BY <2>1, <2>2
<1>9. CASE CommitZero
  <2>1. CASE InTime
    <3>1. job'.stage = "announce"
      BY <1>9, <2>1 DEF CommitZero, JobOK, Jobs
    <3> QED
      BY <3>1 DEF TargetsDriven
  <2>2. CASE ~InTime
    BY <1>0, <1>9, <2>2 DEF CommitZero, TargetsDriven
  <2> QED
    BY <2>1, <2>2
<1>10. CASE Tick
  <2>1. job.stage # "announce" /\ (UNCHANGED engineVars \/ targets' = {})
    BY <1>10 DEF Tick, NoJob, AbortTick, AbortWork
  <2> QED
    BY <1>0, <2>1 DEF TargetsDriven
<1>11. CASE EngineStop
  BY <1>11 DEF EngineStop, TargetsDriven
<1> QED
  BY <1>1, <1>2, <1>3, <1>4, <1>5, <1>6, <1>7, <1>8, <1>9, <1>10, <1>11 DEF Engine

LEMMA DrivenEnvironment == ASSUME TypeOK, TargetsDriven, Environment PROVE TargetsDriven'
<1>1. CASE Elapse
  <2>1. targets # {} /\ UNCHANGED <<current, ticking, running, job>>
    BY <1>1 DEF Elapse
  <2> QED
    BY <2>1 DEF TargetsDriven
<1>2. CASE SnapshotServed \/ SnapshotFailed \/ SnapshotStale \/ Reserve
  <2>1. UNCHANGED <<targets, ticking, running, current>> /\ job.stage # "announce"
    BY <1>2 DEF SnapshotServed, SnapshotFailed, SnapshotStale, Reserve
  <2> QED
    BY <2>1 DEF TargetsDriven
<1>3. ASSUME UNCHANGED <<targets, ticking, running, job>>, current' => current PROVE TargetsDriven'
  BY <1>3 DEF TargetsDriven
<1> QED
  BY <1>1, <1>2, <1>3 DEF Environment, Send, Advance, Revoke, AnnounceRevoke, DropHandles, Ping,
     Report, Lv1Lost, Lv1Returns, Overrun

\* No fade is forgotten: whatever completed, overrode, paused or canceled other
\* targets, an active target of a current engine is ticked and reported as
\* running (fade/actor.rs, finish_recall_admission and complete_fade).
THEOREM DrivenCorrect == Spec => []TargetsDriven
<1>1. Init => TargetsDriven
  BY DEF Init, TargetsDriven
<1>2. TypeOK /\ TargetsDriven /\ [Next]_vars => TargetsDriven'
  <2> SUFFICES ASSUME TypeOK, TargetsDriven, [Next]_vars PROVE TargetsDriven'
    OBVIOUS
  <2>1. CASE UNCHANGED vars
    BY <2>1 DEF vars, TargetsDriven
  <2> QED
    BY <2>1, DrivenEngine, DrivenEnvironment DEF Next
<1> HIDE DEF TypeOK
<1> QED
  BY <1>1, <1>2, TypeCorrect, PTL DEF Spec

-----------------------------------------------------------------------------
(* No waiter is forgotten                                                  *)

\* Commands still to be decided.
Held == JobCmd \cup ToSet(Waiting)

\* WaiterHeld strengthened to an inductive invariant: only owned commands have
\* a waiter, a recall that is about to be announced has left its waiter to the
\* barrier, and no command that was sent is ever sent again.
WaiterInv ==
    /\ WaiterHeld
    /\ \A c \in Commands : chan[c] = "open" => c \in OwnedCommands
    /\ \A c \in JobCmd : job.stage = "announce" /\ chan[c] = "open" => barrier.cmd = c
    /\ \A c \in Held : reply[c] # "idle"

LEMMA ToSetConcat ==
  ASSUME NEW S, NEW s \in Seq(S), NEW t \in Seq(S) PROVE ToSet(s \o t) = ToSet(s) \cup ToSet(t)
<1>1. /\ \A i \in 1 .. Len(s) : (s \o t)[i] = s[i]
      /\ \A i \in 1 .. Len(t) : (s \o t)[i + Len(s)] = t[i]
      /\ Len(s \o t) = Len(s) + Len(t)
  BY ConcatProperties
<1>2. /\ Len(s) \in Nat /\ Len(t) \in Nat
      /\ DOMAIN s = 1 .. Len(s) /\ DOMAIN t = 1 .. Len(t)
      /\ DOMAIN (s \o t) = 1 .. Len(s) + Len(t)
  BY <1>1, LenProperties, ConcatProperties
<1>3. ASSUME NEW x \in ToSet(s \o t) PROVE x \in ToSet(s) \cup ToSet(t)
  <2>1. PICK i \in 1 .. Len(s) + Len(t) : x = (s \o t)[i]
    BY <1>2, <1>3 DEF ToSet
  <2>2. CASE i <= Len(s)
    BY <1>1, <1>2, <2>1, <2>2 DEF ToSet
  <2>3. CASE ~(i <= Len(s))
    <3>1. i - Len(s) \in 1 .. Len(t) /\ (i - Len(s)) + Len(s) = i
      BY <1>2, <2>3
    <3>2. (s \o t)[i] = t[i - Len(s)]
      BY <1>1, <3>1
    <3> QED
      BY <1>2, <2>1, <3>1, <3>2 DEF ToSet
  <2> QED
    BY <2>2, <2>3
<1>4. ToSet(s) \subseteq ToSet(s \o t)
  BY <1>1, <1>2 DEF ToSet
<1>5. ASSUME NEW x \in ToSet(t) PROVE x \in ToSet(s \o t)
  <2>1. PICK i \in 1 .. Len(t) : x = t[i]
    BY <1>2, <1>5 DEF ToSet
  <2>2. i + Len(s) \in 1 .. Len(s) + Len(t)
    BY <1>2
  <2> QED
    BY <1>1, <1>2, <2>1, <2>2 DEF ToSet
<1> QED
  BY <1>3, <1>4, <1>5

LEMMA ToSetHeadTail ==
  ASSUME NEW S, NEW s \in Seq(S), s # <<>> PROVE ToSet(s) = {Head(s)} \cup ToSet(Tail(s))
<1>1. /\ Tail(s) \in Seq(S) /\ Len(Tail(s)) = Len(s) - 1 /\ Head(s) = s[1]
      /\ \A i \in 1 .. Len(s) - 1 : Tail(s)[i] = s[i + 1]
  BY HeadTailProperties
<1>2. /\ Len(s) \in Nat /\ Len(s) >= 1 /\ DOMAIN s = 1 .. Len(s)
      /\ DOMAIN Tail(s) = 1 .. Len(s) - 1
  BY <1>1, LenProperties, EmptySeq
<1>3. ASSUME NEW x \in ToSet(s), x # s[1] PROVE x \in ToSet(Tail(s))
  <2>1. PICK i \in 1 .. Len(s) : x = s[i]
    BY <1>2, <1>3 DEF ToSet
  <2>2. i - 1 \in 1 .. Len(s) - 1 /\ (i - 1) + 1 = i
    BY <1>2, <1>3, <2>1
  <2>3. Tail(s)[i - 1] = s[i]
    BY <1>1, <2>2
  <2> QED
    BY <1>2, <2>1, <2>2, <2>3 DEF ToSet
<1>4. ToSet(Tail(s)) \subseteq ToSet(s)
  BY <1>1, <1>2 DEF ToSet
<1>5. s[1] \in ToSet(s)
  BY <1>2 DEF ToSet
<1> QED
  BY <1>1, <1>3, <1>4, <1>5

LEMMA ToSetAppend ==
  ASSUME NEW S, NEW s \in Seq(S), NEW x \in S PROVE ToSet(Append(s, x)) = ToSet(s) \cup {x}
<1>1. /\ Len(Append(s, x)) = Len(s) + 1 /\ Append(s, x)[Len(s) + 1] = x
      /\ \A i \in 1 .. Len(s) : Append(s, x)[i] = s[i]
      /\ Append(s, x) \in Seq(S)
  BY AppendProperties
<1>2. /\ Len(s) \in Nat /\ DOMAIN s = 1 .. Len(s) /\ DOMAIN Append(s, x) = 1 .. Len(s) + 1
  BY <1>1, LenProperties
<1>3. 1 .. Len(s) + 1 = (1 .. Len(s)) \cup {Len(s) + 1}
  BY <1>2
<1> QED
  BY <1>1, <1>2, <1>3 DEF ToSet

\* Nothing deferred or sent is lost sight of: Waiting is both queues.
LEMMA WaitingSet ==
  ASSUME TypeOK PROVE ToSet(Waiting) = ToSet(deferred) \cup ToSet(mailbox)
BY ToSetConcat DEF BoxOK, Waiting

LEMMA WaitingSetNext ==
  ASSUME TypeOK' PROVE ToSet(Waiting') = ToSet(deferred') \cup ToSet(mailbox')
<1>1. deferred' \in Seq(Commands) /\ mailbox' \in Seq(Commands)
  BY DEF BoxOK
<1> QED
  BY <1>1, ToSetConcat DEF Waiting

LEMMA HeldCommands == ASSUME TypeOK PROVE Held \subseteq Commands
<1>1. ToSet(Waiting) \subseteq Commands
  <2>1. \A s \in Seq(Commands) : ToSet(s) \subseteq Commands
    BY ElementOfSeq, LenProperties DEF ToSet
  <2> QED
    BY <2>1, WaitingSet DEF BoxOK
<1> QED
  BY <1>1 DEF Held, JobCmd, JobOK

\* What a step must show to keep WaiterInv, unless it sends a command.
LEMMA WaiterStep ==
  ASSUME TypeOK, WaiterInv,
         \A c \in Commands : chan'[c] = "open" =>
            /\ chan[c] = "open"
            /\ c = barrier.cmd => c = barrier'.cmd
            /\ c \in Held => c \in Held' \cup {barrier'.cmd},
         \A c \in Commands : reply'[c] = "idle" => reply[c] = "idle",
         Held' \subseteq Held,
         \A c \in JobCmd' : job'.stage = "announce" /\ chan'[c] = "open" => barrier'.cmd = c
  PROVE  WaiterInv'
<1>1. WaiterHeld'
  BY DEF WaiterInv, WaiterHeld, Held
<1>2. \A c \in Commands : chan'[c] = "open" => c \in OwnedCommands
  BY DEF WaiterInv
<1>3. \A c \in Held' : reply'[c] # "idle"
  BY HeldCommands DEF WaiterInv
<1> QED
  BY <1>1, <1>2, <1>3 DEF WaiterInv

\* A step that leaves the queues and the job's command alone.
LEMMA HeldFrame ==
  ASSUME UNCHANGED boxVars, JobCmd' = JobCmd PROVE Held' = Held
BY DEF Held, Waiting

\* A job that only moves on to another stage keeps its command.
LEMMA JobCmdKept ==
  ASSUME job'.kind = job.kind \/ {job.kind, job'.kind} \subseteq {"call", "zero"},
         job'.cmd = job.cmd
  PROVE  JobCmd' = JobCmd
BY DEF JobCmd

LEMMA SettleOpen ==
  ASSUME TypeOK, NEW cs, chan' = Settle(cs, "err") \/ chan' = Settle(cs, "ok"), NEW c \in Commands,
         chan'[c] = "open"
  PROVE  chan[c] = "open" /\ c \notin cs
BY DEF Settle, ReplyOK

LEMMA RefusingIdle ==
  ASSUME TypeOK, NEW cs, reply' = Refusing(cs), NEW c \in Commands, reply'[c] = "idle"
  PROVE  reply[c] = "idle"
BY DEF Refusing, ReplyOK

\* An event settles the waiter of the barrier it ends, and a cancellation also
\* the one of the command it drops.
LEMMA WaiterReceive ==
  ASSUME TypeOK, NEW dropped, Receive(dropped), NEW c \in Commands
  PROVE  /\ chan'[c] = "open" =>
              /\ chan[c] = "open"
              /\ c = barrier.cmd => c = barrier'.cmd
              /\ Canceled => c \notin dropped
         /\ reply'[c] = "idle" => reply[c] = "idle"
<1>1. CASE lagged > 0
  <2>1. barrier'.cmd = barrier.cmd /\ UNCHANGED replyVars
    BY <1>1 DEF Receive, LagFact, BarrierOK
  <2> QED
    BY <1>1, <2>1 DEF Canceled
<1>2. CASE ~(lagged > 0)
  <2> DEFINE e == Head(events)
  <2>1. PingFact(e) \/ FaderFact(e) \/ PanFact(e) \/ CancelFact(e, dropped)
    BY <1>2 DEF Receive, ApplyFact
  <2>2. Canceled => Cancels(e)
    BY DEF Canceled
  <2> HIDE DEF e
  <2>3. CASE PingFact(e)
    <3>1. ~Canceled /\ UNCHANGED reply
      BY <2>2, <2>3 DEF PingFact, Cancels
    <3>2. \/ UNCHANGED chan /\ barrier'.cmd = barrier.cmd
          \/ chan' = Settle({barrier.cmd}, "ok")
      BY <2>3 DEF PingFact, BarrierOK
    <3> QED
      BY <3>1, <3>2, SettleOpen
  <2>4. CASE FaderFact(e) \/ PanFact(e)
    BY <2>2, <2>4 DEF FaderFact, PanFact, Cancels
  <2>5. CASE CancelFact(e, dropped)
    <3>1. \/ chan' = Settle({barrier.cmd} \cup dropped, "err")
          \/ chan' = Settle(dropped, "err") /\ UNCHANGED barrier
      BY <2>5 DEF CancelFact, AbortWork
    <3>2. reply' = Refusing(dropped)
      BY <2>5 DEF CancelFact
    <3>3. reply'[c] = "idle" => reply[c] = "idle"
      BY <3>2, RefusingIdle
    <3>4. CASE chan' = Settle({barrier.cmd} \cup dropped, "err")
      BY <3>3, <3>4, SettleOpen
    <3>5. CASE chan' = Settle(dropped, "err") /\ UNCHANGED barrier
      BY <3>3, <3>5, SettleOpen
    <3> QED
      BY <3>1, <3>4, <3>5
  <2> QED
    BY <2>1, <2>3, <2>4, <2>5
<1> QED
  BY <1>1, <1>2

\* A new barrier holds the waiter of its command unless the retained pings
\* release it at once; the superseded one is told.
LEMMA WaiterInstall ==
  ASSUME TypeOK, NEW c \in Commands, NEW kept, Install(c, kept), NEW d \in Commands,
         chan'[d] = "open"
  PROVE  /\ chan[d] = "open"
         /\ d = barrier.cmd => d = barrier'.cmd
         /\ d = c => d = barrier'.cmd
<1> DEFINE superseded == Settle({barrier.cmd}, "err")
<1>1. /\ superseded \in [Commands -> {"none", "open", "ok", "err"}]
      /\ superseded[d] = "open" => chan[d] = "open" /\ d # barrier.cmd
  BY SettleType DEF Settle, ReplyOK
<1>2. \/ chan' = [superseded EXCEPT ![c] = IF @ = "open" THEN "ok" ELSE @]
      \/ chan' = superseded /\ barrier'.cmd = c
  BY SMTT(30) DEF Install
<1> HIDE DEF superseded
<1> QED
  BY <1>1, <1>2

LEMMA WaiterTimeout == ASSUME TypeOK, WaiterInv, ReadinessTimeout PROVE WaiterInv'
<1> DEFINE dropped == IF ZeroDue THEN JobCmd ELSE {}
<1>1. /\ reply' = Refusing(dropped) /\ UNCHANGED boxVars
      /\ \/ chan' = Settle({barrier.cmd} \cup dropped, "err")
         \/ chan' = Settle(dropped, "err") /\ UNCHANGED barrier
  BY DEF ReadinessTimeout, AbortWork
<1>2. JobCmd' = JobCmd \ dropped /\ (job' = NoJob \/ job' = job)
  BY DEF ReadinessTimeout, JobCmd, NoJob
<1>3. JobCmd # {} => job.stage # "announce"
  BY DEF ReadinessTimeout, Looping, Serving, JobCmd
<1>4. Held' \subseteq Held /\ Held \subseteq Held' \cup dropped
  BY <1>1, <1>2 DEF Held, Waiting
<1> HIDE DEF dropped
<1>5. \A c \in Commands : reply'[c] = "idle" => reply[c] = "idle"
  BY <1>1, RefusingIdle
<1>6. \A c \in Commands : chan'[c] = "open" =>
         /\ chan[c] = "open" /\ c \notin dropped
         /\ c = barrier.cmd => c = barrier'.cmd
  <2>1. CASE chan' = Settle({barrier.cmd} \cup dropped, "err")
    BY <2>1, SettleOpen
  <2>2. CASE chan' = Settle(dropped, "err") /\ UNCHANGED barrier
    BY <2>2, SettleOpen
  <2> QED
    BY <1>1, <2>1, <2>2
<1>7. \A c \in JobCmd' : job'.stage # "announce"
  BY <1>2, <1>3 DEF NoJob
<1> QED
  BY <1>4, <1>5, <1>6, <1>7, WaiterStep

LEMMA WaiterTakeCommand == ASSUME TypeOK, WaiterInv, TakeCommand PROVE WaiterInv'
<1> DEFINE c == Head(Waiting)
<1>1. /\ c \in Commands /\ JobCmd = {} /\ UNCHANGED barrier
      /\ c = IF deferred # <<>> THEN Head(deferred) ELSE Head(mailbox)
      /\ deferred = <<>> => mailbox # <<>>
  BY WaitingType DEF TakeCommand, JobCmd, NoJob
<1>2. TypeOK'
  BY TakeCommandType
<1>3. ToSet(Waiting) = ToSet(Waiting') \cup {c}
  <2>1. ToSet(Waiting') = ToSet(deferred') \cup ToSet(mailbox')
    BY <1>2, WaitingSetNext
  <2>2. CASE deferred # <<>>
    <3>1. ToSet(deferred) = {c} \cup ToSet(deferred') /\ UNCHANGED mailbox
      BY <1>1, <2>2, ToSetHeadTail DEF TakeCommand, BoxOK
    <3> QED
      BY <2>1, <3>1, WaitingSet
  <2>3. CASE deferred = <<>>
    <3>1. ToSet(mailbox) = {c} \cup ToSet(mailbox') /\ UNCHANGED deferred
      BY <1>1, <2>3, ToSetHeadTail DEF TakeCommand, BoxOK
    <3> QED
      BY <2>1, <3>1, WaitingSet
  <2> QED
    BY <2>2, <2>3
<1>4. CASE reply' = Refusing({c}) /\ chan' = Settle({c}, "err") /\ UNCHANGED job
  <2>1. Held' \subseteq Held /\ Held \subseteq Held' \cup {c} /\ JobCmd' = {}
    BY <1>1, <1>3, <1>4 DEF Held, JobCmd
  <2> HIDE DEF c
  <2>2. \A d \in Commands : chan'[d] = "open" => chan[d] = "open" /\ d # c
    BY <1>4, SettleOpen
  <2>3. \A d \in Commands : reply'[d] = "idle" => reply[d] = "idle"
    BY <1>4, RefusingIdle
  <2> QED
    BY <1>1, <2>1, <2>2, <2>3, WaiterStep
<1>5. CASE /\ UNCHANGED replyVars
           /\ job' = [NoJob EXCEPT !.kind = "call", !.cmd = c,
                        !.stage = IF TargetsOf[c] = {} /\ c \notin OwnedCommands
                                  THEN "announce" ELSE "asking"]
  <2>1. JobCmd' = {c} /\ (job'.stage = "announce" => c \notin OwnedCommands)
    BY <1>5 DEF JobCmd, NoJob
  <2>2. Held' = Held
    BY <1>1, <1>3, <2>1 DEF Held
  <2> HIDE DEF c
  <2> QED
    BY <1>1, <1>5, <2>1, <2>2, WaiterStep DEF WaiterInv
<1> QED
  BY <1>4, <1>5 DEF TakeCommand

LEMMA WaiterDefer == ASSUME TypeOK, WaiterInv, Defer PROVE WaiterInv'
<1>1. /\ UNCHANGED <<replyVars, barrier, job>> /\ mailbox # <<>>
      /\ mailbox' = Tail(mailbox) /\ deferred' = Append(deferred, Head(mailbox))
  BY DEF Defer
<1>2. Head(mailbox) \in Commands /\ ToSet(mailbox) = {Head(mailbox)} \cup ToSet(mailbox')
  BY <1>1, HeadTailProperties, ToSetHeadTail DEF BoxOK
<1>3. ToSet(deferred') = ToSet(deferred) \cup {Head(mailbox)}
  BY <1>1, <1>2, ToSetAppend DEF BoxOK
<1>4. ToSet(Waiting') = ToSet(deferred') \cup ToSet(mailbox')
  BY DeferType, WaitingSetNext
<1>5. Held' = Held /\ JobCmd' = JobCmd
  BY <1>1, <1>2, <1>3, <1>4, WaitingSet DEF Held, JobCmd
<1> QED
  BY <1>1, <1>5, WaiterStep DEF WaiterInv

\* A refusal settles the waiter of the command it drops.
LEMMA WaiterRefuse ==
  ASSUME TypeOK, WaiterInv, job' = NoJob, reply' = Refusing(JobCmd), chan' = Settle(JobCmd, "err"),
         UNCHANGED <<boxVars, barrier>>
  PROVE  WaiterInv'
<1>1. JobCmd' = {} /\ Held = Held' \cup JobCmd
  BY DEF JobCmd, NoJob, Held, Waiting
<1>2. \A c \in Commands : chan'[c] = "open" => chan[c] = "open" /\ c \notin JobCmd
  BY SettleOpen
<1>3. \A c \in Commands : reply'[c] = "idle" => reply[c] = "idle"
  BY RefusingIdle
<1> QED
  BY <1>1, <1>2, <1>3, WaiterStep

\* A job that moves on, or a tick's write that comes and goes, changes nothing.
LEMMA WaiterKept ==
  ASSUME TypeOK, WaiterInv, UNCHANGED <<boxVars, replyVars, barrier>>, JobCmd' = JobCmd,
         job'.stage = "announce" => job.stage = "announce"
  PROVE  WaiterInv'
<1>1. Held' = Held
  BY HeldFrame
<1> QED
  BY <1>1, WaiterStep DEF WaiterInv

\* abort_after_write_failure settles the barrier's waiter; a tick has no command.
LEMMA WaiterAbortTick ==
  ASSUME TypeOK, WaiterInv, AbortTick, JobCmd = {}, UNCHANGED boxVars PROVE WaiterInv'
<1>1. JobCmd' = {} /\ Held' = Held /\ UNCHANGED reply
  BY DEF AbortTick, JobCmd, NoJob, Held, Waiting
<1>2. \A c \in Commands : chan'[c] = "open" => chan[c] = "open" /\ c # barrier.cmd
  BY SettleOpen DEF AbortTick, AbortWork
<1> QED
  BY <1>1, <1>2, WaiterStep

LEMMA WaiterEvent == ASSUME TypeOK, WaiterInv, CallEvent \/ DrainEvent \/ MainEvent PROVE WaiterInv'
<1>1. Receive(JobCmd) /\ UNCHANGED boxVars
  BY DEF CallEvent, DrainEvent, MainEvent
<1>2. CASE Canceled
  <2>1. job' = NoJob
    BY <1>2 DEF CallEvent, DrainEvent, MainEvent
  <2>2. JobCmd' = {} /\ Held = Held' \cup JobCmd
    BY <1>1, <2>1 DEF JobCmd, NoJob, Held, Waiting
  <2> QED
    BY <1>1, <1>2, <2>2, WaiterReceive, WaiterStep
<1>3. CASE ~Canceled
  <2>1. job'.kind = job.kind /\ job'.cmd = job.cmd /\ job'.stage = job.stage
    <3>1. \A j \in Jobs : /\ Retaining(j).kind = j.kind /\ Retaining(j).cmd = j.cmd
                          /\ Retaining(j).stage = j.stage
      BY DEF Retaining, Jobs
    <3>2. CASE CallEvent \/ MainEvent
      BY <1>3, <3>1, <3>2 DEF CallEvent, MainEvent, JobOK
    <3>3. CASE DrainEvent
      <4> DEFINE next == [job EXCEPT !.left = IF lagged = 0 THEN @ - 1
                                              ELSE IF @ > lagged THEN @ - lagged ELSE 0]
      <4>1. job' = Retaining(next) \/ job' = next
        BY <1>3, <3>3 DEF DrainEvent
      <4>2. /\ next.kind = job.kind /\ Retaining(next).kind = next.kind
            /\ next.cmd = job.cmd /\ Retaining(next).cmd = next.cmd
            /\ next.stage = job.stage /\ Retaining(next).stage = next.stage
        BY DEF Retaining, JobOK, Jobs
      <4> HIDE DEF next
      <4> QED
        BY <4>1, <4>2
    <3> QED
      BY <3>2, <3>3
  <2>2. JobCmd' = JobCmd /\ Held' = Held
    BY <1>1, <2>1, JobCmdKept, HeldFrame
  <2>3. job.stage # "announce"
    BY DEF CallEvent, DrainEvent, MainEvent, NoJob
  <2> QED
    BY <1>1, <2>1, <2>2, <2>3, WaiterReceive, WaiterStep
<1> QED
  BY <1>2, <1>3

LEMMA WaiterAdmit == ASSUME TypeOK, WaiterInv, Admit PROVE WaiterInv'
<1> DEFINE kept == IF TargetsOf[job.cmd] = {} THEN targets ELSE Overlapping(job.cmd)
<1>1. /\ job.cmd \in Commands /\ JobCmd = {job.cmd} /\ Install(job.cmd, kept)
      /\ UNCHANGED boxVars
  BY DEF Admit, Serving, JobCmd, JobOK
<1> HIDE DEF kept
<1>2. \A d \in Commands : chan'[d] = "open" =>
         /\ chan[d] = "open"
         /\ d = barrier.cmd => d = barrier'.cmd
         /\ d = job.cmd => d = barrier'.cmd
  BY <1>1, WaiterInstall
<1>3. \/ job' = NoJob /\ reply' = [reply EXCEPT ![job.cmd] = "ok"]
      \/ job' = [job EXCEPT !.stage = "announce"] /\ UNCHANGED reply
  BY DEF Admit
<1>4. \A c \in Commands : reply'[c] = "idle" => reply[c] = "idle"
  BY <1>1, <1>3 DEF ReplyOK
<1>5. JobCmd' \subseteq JobCmd
  <2>1. CASE job' = NoJob
    BY <2>1 DEF JobCmd, NoJob
  <2>2. CASE job' = [job EXCEPT !.stage = "announce"]
    BY <2>2 DEF JobCmd, JobOK, Jobs
  <2> QED
    BY <1>3, <2>1, <2>2
<1>6. Held' \subseteq Held /\ Held \subseteq Held' \cup JobCmd
  BY <1>1, <1>5 DEF Held, Waiting
<1> QED
  BY <1>1, <1>2, <1>4, <1>5, <1>6, WaiterStep

LEMMA WaiterCommitZero == ASSUME TypeOK, WaiterInv, CommitZero PROVE WaiterInv'
<1>1. job.cmd \in Commands /\ JobCmd = {job.cmd} /\ UNCHANGED boxVars
  BY DEF CommitZero, JobCmd, JobOK
<1>2. CASE ~InTime
  BY <1>2, WaiterRefuse DEF CommitZero, RefuseZero
<1>3. CASE InTime
  <2> DEFINE kept == {t \in targets : t.key \notin TargetsOf[job.cmd]}
  <2>1. /\ job' = [job EXCEPT !.stage = "announce"] /\ UNCHANGED reply
        /\ \/ Install(job.cmd, kept)
           \/ job.cmd \notin OwnedCommands /\ UNCHANGED <<barrier, chan>>
    BY <1>3 DEF CommitZero
  <2> HIDE DEF kept
  <2>2. job'.kind = job.kind /\ job'.cmd = job.cmd
    BY <2>1 DEF JobOK, Jobs
  <2>3. JobCmd' = JobCmd /\ Held' = Held
    BY <1>1, <2>2, JobCmdKept, HeldFrame
  <2>4. \A d \in Commands : chan'[d] = "open" =>
           /\ chan[d] = "open"
           /\ d = barrier.cmd => d = barrier'.cmd
           /\ d = job.cmd => d = barrier'.cmd
    <3>1. CASE Install(job.cmd, kept)
      BY <1>1, <3>1, WaiterInstall
    <3>2. CASE job.cmd \notin OwnedCommands /\ UNCHANGED <<barrier, chan>>
      BY <3>2 DEF WaiterInv
    <3> QED
      BY <2>1, <3>1, <3>2
  <2> QED
    BY <1>1, <2>1, <2>3, <2>4, WaiterStep
<1> QED
  BY <1>2, <1>3

LEMMA WaiterAnnounce == ASSUME TypeOK, WaiterInv, Announce PROVE WaiterInv'
<1>1. /\ job' = NoJob /\ job.stage = "announce" /\ JobCmd # {}
      /\ UNCHANGED <<boxVars, chan, barrier>>
      /\ reply' = [reply EXCEPT ![job.cmd] = IF current THEN "ok" ELSE "err"]
  BY DEF Announce
<1>2. JobCmd = {job.cmd} /\ job.cmd \in Commands
  BY <1>1 DEF JobCmd, JobOK
<1>3. JobCmd' = {} /\ Held = Held' \cup JobCmd
  BY <1>1 DEF JobCmd, NoJob, Held, Waiting
<1>4. \A c \in Commands : reply'[c] = "idle" => reply[c] = "idle"
  BY <1>1, <1>2 DEF ReplyOK
<1>5. \A c \in JobCmd : chan[c] = "open" => barrier.cmd = c
  BY <1>1 DEF WaiterInv
<1> QED
  BY <1>1, <1>3, <1>4, <1>5, WaiterStep

LEMMA WaiterEngineStop == ASSUME TypeOK, WaiterInv, EngineStop PROVE WaiterInv'
<1> DEFINE dropped == JobCmd \cup ToSet(deferred)
<1>1. /\ reply' = Refusing(dropped) /\ chan' = Settle({barrier.cmd} \cup dropped, "err")
      /\ job' = NoJob /\ deferred' = <<>> /\ UNCHANGED mailbox
  BY DEF EngineStop
<1>2. TypeOK'
  BY EngineStopType
<1>3. mailbox = <<>> /\ ToSet(<<>>) = {}
  BY DEF EngineStop, ToSet
<1>4. Held = dropped
  BY <1>3, WaitingSet DEF Held
<1>5. Held' = {} /\ JobCmd' = {}
  <2>1. ToSet(Waiting') = {}
    BY <1>1, <1>2, <1>3, WaitingSetNext
  <2> QED
    BY <1>1, <2>1 DEF Held, JobCmd, NoJob
<1> HIDE DEF dropped
<1>6. \A c \in Commands : chan'[c] = "open" =>
         chan[c] = "open" /\ c # barrier.cmd /\ c \notin dropped
  BY <1>1, SettleOpen
<1>7. \A c \in Commands : reply'[c] = "idle" => reply[c] = "idle"
  BY <1>1, RefusingIdle
<1> QED
  BY <1>4, <1>5, <1>6, <1>7, WaiterStep

LEMMA WaiterEngine == ASSUME TypeOK, WaiterInv, Engine PROVE WaiterInv'
<1>1. CASE TakeAnswer
  <2>1. UNCHANGED <<boxVars, barrier>>
    BY <1>1 DEF TakeAnswer
  <2>2. CASE job.stage = "stale"
    BY <1>1, <2>1, <2>2, WaiterRefuse DEF TakeAnswer
  <2>3. CASE job.stage = "answered"
    <3> DEFINE next == [job EXCEPT !.stage = "draining", !.left = Backlog]
    <3>1. job' = next /\ UNCHANGED replyVars
      BY <1>1, <2>3 DEF TakeAnswer
    <3>2. next.kind = job.kind /\ next.cmd = job.cmd /\ next.stage = "draining"
      BY DEF JobOK, Jobs
    <3> HIDE DEF next
    <3>3. JobCmd' = JobCmd /\ job'.stage # "announce"
      BY <3>1, <3>2, JobCmdKept
    <3> QED
      BY <2>1, <3>1, <3>3, WaiterKept
  <2> QED
    BY <1>1, <2>2, <2>3 DEF TakeAnswer
<1>2. CASE DrainEnd \/ ProposeZero \/ AdmissionTurn
  <2>1. UNCHANGED <<boxVars, replyVars, barrier>>
    BY <1>2 DEF DrainEnd, ProposeZero, AdmissionTurn
  <2>2. /\ job'.kind = job.kind \/ {job.kind, job'.kind} \subseteq {"call", "zero"}
        /\ job'.cmd = job.cmd /\ job'.stage # "announce"
    <3>1. CASE DrainEnd
      BY <3>1 DEF DrainEnd, JobOK, Jobs
    <3>2. CASE ProposeZero
      BY <3>2 DEF ProposeZero, Serving, JobOK, Jobs
    <3>3. CASE AdmissionTurn
      BY <3>3 DEF AdmissionTurn, JobOK, Jobs
    <3> QED
      BY <1>2, <3>1, <3>2, <3>3
  <2> QED
    BY <2>1, <2>2, JobCmdKept, WaiterKept
<1>3. CASE Refuse
  BY <1>3, WaiterRefuse DEF Refuse
<1>4. CASE SendTick
  <2>1. JobCmd = {}
    BY <1>4 DEF SendTick, JobCmd
  <2>2. CASE job.ok /\ current
    <3> DEFINE props == job.props \cap ActiveKeys
    <3>1. job' = [job EXCEPT !.stage = "written", !.props = props]
      BY <1>4, <2>2 DEF SendTick
    <3> HIDE DEF props
    <3>2. job'.kind = job.kind /\ job'.cmd = job.cmd /\ job'.stage = "written"
      BY <3>1 DEF JobOK, Jobs
    <3> QED
      BY <1>4, <2>2, <3>2, JobCmdKept, WaiterKept DEF SendTick
  <2>3. CASE ~(job.ok /\ current)
    BY <1>4, <2>1, <2>3, WaiterAbortTick DEF SendTick
  <2> QED
    BY <2>2, <2>3
<1>5. CASE CommitTick
  <2>1. JobCmd = {}
    BY <1>5 DEF CommitTick, JobCmd
  <2>2. CASE current
    <3>1. JobCmd' = {} /\ job'.stage # "announce" /\ UNCHANGED <<boxVars, replyVars, barrier>>
      BY <1>5, <2>2 DEF CommitTick, JobCmd, NoJob
    <3> QED
      BY <2>1, <3>1, WaiterKept
  <2>3. CASE ~current
    BY <1>5, <2>1, <2>3, WaiterAbortTick DEF CommitTick
  <2> QED
    BY <2>2, <2>3
<1>6. CASE SendZero
  <2>1. CASE job.ok /\ InTime
    <3>1. job' = [job EXCEPT !.stage = "written"] /\ UNCHANGED <<boxVars, replyVars, barrier>>
      BY <1>6, <2>1 DEF SendZero
    <3>2. job'.kind = job.kind /\ job'.cmd = job.cmd /\ job'.stage = "written"
      BY <3>1 DEF JobOK, Jobs
    <3> QED
      BY <3>1, <3>2, JobCmdKept, WaiterKept
  <2>2. CASE ~(job.ok /\ InTime)
    BY <1>6, <2>2, WaiterRefuse DEF SendZero, RefuseZero
  <2> QED
    BY <2>1, <2>2
<1>7. CASE Tick
  <2>1. JobCmd = {} /\ UNCHANGED boxVars
    BY <1>7 DEF Tick, JobCmd, NoJob
  <2>2. CASE AbortTick
    BY <2>1, <2>2, WaiterAbortTick
  <2>3. CASE ~AbortTick
    <3>1. /\ UNCHANGED <<replyVars, barrier>>
          /\ job' = job \/ (job'.kind = "tick" /\ job'.stage = "reserving")
      BY <1>7, <2>3 DEF Tick, NoJob
    <3>2. JobCmd' = {} /\ (job'.stage = "announce" => job.stage = "announce")
      BY <2>1, <3>1 DEF JobCmd
    <3> QED
      BY <2>1, <3>1, <3>2, WaiterKept
  <2> QED
    BY <2>2, <2>3
<1> QED
  BY <1>1, <1>2, <1>3, <1>4, <1>5, <1>6, <1>7, WaiterTimeout, WaiterTakeCommand, WaiterDefer,
     WaiterEvent, WaiterAdmit, WaiterCommitZero, WaiterAnnounce, WaiterEngineStop DEF Engine

\* A command is sent once, so its waiter is not one the engine holds already.
LEMMA WaiterSend == ASSUME TypeOK, WaiterInv, NEW c \in Commands, Send(c) PROVE WaiterInv'
<1>1. /\ reply[c] = "idle" /\ reply' = [reply EXCEPT ![c] = "waiting"]
      /\ chan' = IF c \in OwnedCommands THEN [chan EXCEPT ![c] = "open"] ELSE chan
      /\ mailbox' = Append(mailbox, c) /\ UNCHANGED <<deferred, barrier, job>>
  BY DEF Send
<1>2. ToSet(Waiting') = ToSet(Waiting) \cup {c}
  <2>1. ToSet(mailbox') = ToSet(mailbox) \cup {c}
    BY <1>1, ToSetAppend DEF BoxOK
  <2>2. ToSet(Waiting') = ToSet(deferred') \cup ToSet(mailbox')
    BY SendType, WaitingSetNext
  <2> QED
    BY <1>1, <2>1, <2>2, WaitingSet
<1>3. JobCmd' = JobCmd /\ Held' = Held \cup {c}
  BY <1>1, <1>2 DEF Held, JobCmd
<1>4. c \notin JobCmd
  BY <1>1 DEF WaiterInv, Held
<1>5. \A d \in Commands : d # c => chan'[d] = chan[d] /\ reply'[d] = reply[d]
  BY <1>1 DEF ReplyOK
<1>6. WaiterHeld'
  BY <1>1, <1>3, <1>5 DEF WaiterInv, WaiterHeld, Held
<1>7. \A d \in Commands : chan'[d] = "open" => d \in OwnedCommands
  BY <1>1, <1>5 DEF WaiterInv
<1>8. \A d \in JobCmd' : job'.stage = "announce" /\ chan'[d] = "open" => barrier'.cmd = d
  BY <1>1, <1>3, <1>4, <1>5, HeldCommands DEF WaiterInv, Held
<1>9. \A d \in Held' : reply'[d] # "idle"
  BY <1>1, <1>3, <1>5, HeldCommands DEF WaiterInv, ReplyOK
<1> QED
  BY <1>6, <1>7, <1>8, <1>9 DEF WaiterInv

LEMMA WaiterEnvironment == ASSUME TypeOK, WaiterInv, Environment PROVE WaiterInv'
<1>1. CASE SnapshotServed \/ SnapshotFailed \/ SnapshotStale \/ Reserve
  <2>1. UNCHANGED <<boxVars, replyVars, barrier>>
    BY <1>1 DEF SnapshotServed, SnapshotFailed, SnapshotStale, Reserve
  <2>2. job'.kind = job.kind /\ job'.cmd = job.cmd /\ job'.stage # "announce"
    BY <1>1 DEF SnapshotServed, SnapshotFailed, SnapshotStale, Reserve, JobOK, Jobs
  <2> QED
    BY <2>1, <2>2, JobCmdKept, WaiterKept
<1>2. ASSUME UNCHANGED <<boxVars, replyVars, barrier, job>> PROVE WaiterInv'
  BY <1>2, WaiterKept DEF JobCmd
<1> QED
  BY <1>1, <1>2, WaiterSend DEF Environment, Advance, Revoke, AnnounceRevoke, DropHandles, Ping,
     Report, Lv1Lost, Lv1Returns, Overrun, Elapse

\* Scenes never waits in vain for readiness: whatever is superseded, canceled,
\* deferred or refused, an open completion channel is with a command still to
\* be decided or with the barrier (fade/actor.rs, ReadinessCompletion).
THEOREM WaiterCorrect == Spec => []WaiterHeld
<1>1. Init => WaiterInv
  <2> SUFFICES ASSUME Init PROVE WaiterInv
    OBVIOUS
  <2>1. \A c \in Commands : chan[c] # "open"
    BY DEF Init
  <2>2. Held = {}
    <3>1. TypeOK /\ ToSet(<<>>) = {}
      BY InitType DEF ToSet
    <3>2. deferred = <<>> /\ mailbox = <<>> /\ JobCmd = {}
      BY DEF Init, JobCmd, NoJob
    <3> QED
      BY <3>1, <3>2, WaitingSet DEF Held
  <2> QED
    BY <2>1, <2>2 DEF WaiterInv, WaiterHeld, Held
<1>2. TypeOK /\ WaiterInv /\ [Next]_vars => WaiterInv'
  <2> SUFFICES ASSUME TypeOK, WaiterInv, [Next]_vars PROVE WaiterInv'
    OBVIOUS
  <2>1. CASE UNCHANGED vars
    BY <2>1, WaiterKept DEF vars, JobCmd
  <2> QED
    BY <2>1, WaiterEngine, WaiterEnvironment DEF Next
<1>3. WaiterInv => WaiterHeld
  BY DEF WaiterInv
<1> HIDE DEF TypeOK
<1> QED
  BY <1>1, <1>2, <1>3, TypeCorrect, PTL DEF Spec

-----------------------------------------------------------------------------
(* Queued facts come before the write                                      *)

\* While a tick drains, a fact that was queued when its turn began is either
\* still among those to be taken, or it was taken and had its effect.
ToBeTaken(e) == \E i \in 1 .. Len(events) : events[i] = e /\ i + lagged <= job.left
Honored(e) ==
    /\ ~Cancels(e)
    /\ e.kind = "fader" =>
          \A k \in ActiveKeys : ~(ChannelOf[k] = e.channel /\ ParamOf[k] = "fader")
TickDrains == job.kind = "tick" /\ job.stage = "draining"
HonorInv == TickDrains => \A e \in honor : ToBeTaken(e) \/ Honored(e)

\* Without a new target, what was honored stays honored.
LEMMA HonoredStays ==
  ASSUME ActiveKeys' \subseteq ActiveKeys, NEW e, Honored(e) PROVE Honored(e)'
BY DEF Honored, Cancels

\* Events that arrive meanwhile come after those of the turn.
LEMMA HonorPublish ==
  ASSUME TypeOK, HonorInv, UNCHANGED <<job, targets, honor, lagged>>,
         NEW fact \in Facts, events' = Append(events, fact)
  PROVE  HonorInv'
<1>1. events \in Seq(Facts) /\ Len(events) \in Nat
  BY LenProperties DEF BusOK
<1>2. Len(events') = Len(events) + 1 /\ \A i \in 1 .. Len(events) : events'[i] = events[i]
  BY <1>1, AppendProperties
<1>3. ASSUME NEW e, ToBeTaken(e) PROVE ToBeTaken(e)'
  BY <1>1, <1>2, <1>3 DEF ToBeTaken
<1>4. \A e : Honored(e) => Honored(e)'
  BY DEF Honored, ActiveKeys, Cancels
<1> QED
  BY <1>3, <1>4 DEF HonorInv, TickDrains

\* What the receiver loses is not held against the write, and the rest keeps its
\* place among what the turn takes.
LEMMA HonorOverrun == ASSUME TypeOK, HonorInv, Overrun PROVE HonorInv'
<1>1. PICK n \in 1 .. Len(events) :
         /\ events' = SubSeq(events, n + 1, Len(events)) /\ lagged' = lagged + n
         /\ honor' = honor \ {events[i] : i \in 1 .. n}
  BY DEF Overrun
<1>2. events \in Seq(Facts) /\ Len(events) \in Nat /\ lagged \in Nat
  BY LenProperties DEF BusOK
<1>3. /\ Len(events') = Len(events) - n
      /\ \A i \in 1 .. Len(events) - n : events'[i] = events[i + n]
  <2>1. \A i \in n + 1 .. Len(events) : events[i] \in Facts
    BY <1>2, ElementOfSeq
  <2> QED
    BY <1>1, <1>2, <2>1, SubSeqProperties
<1>4. UNCHANGED <<job, targets>>
  BY DEF Overrun
<1>5. ASSUME NEW e \in honor', ToBeTaken(e) PROVE ToBeTaken(e)'
  <2>1. PICK i \in 1 .. Len(events) : events[i] = e /\ i + lagged <= job.left
    BY <1>5 DEF ToBeTaken
  <2>2. i > n
    BY <1>1, <1>2, <1>5, <2>1
  <2>3. i - n \in 1 .. Len(events') /\ events'[i - n] = e /\ (i - n) + lagged' = i + lagged
    BY <1>1, <1>2, <1>3, <2>1, <2>2
  <2> QED
    BY <1>4, <2>1, <2>3 DEF ToBeTaken
<1>6. \A e : Honored(e) => Honored(e)'
  BY <1>4 DEF Honored, ActiveKeys, Cancels
<1> QED
  BY <1>1, <1>4, <1>5, <1>6 DEF HonorInv, TickDrains

\* No fact starts a target.
LEMMA ReceiveKeys ==
  ASSUME TypeOK, NEW dropped, Receive(dropped) PROVE ActiveKeys' \subseteq ActiveKeys
<1>1. CASE lagged > 0
  BY <1>1 DEF Receive, LagFact, ActiveKeys
<1>2. CASE ~(lagged > 0)
  <2> DEFINE e == Head(events)
  <2>1. PingFact(e) \/ FaderFact(e) \/ PanFact(e) \/ CancelFact(e, dropped)
    BY <1>2 DEF Receive, ApplyFact
  <2> HIDE DEF e
  <2>2. CASE PingFact(e)
    <3>1. \A t \in targets : [t EXCEPT !.paused = FALSE].key = t.key
      BY DEF TargetsOK, Targets
    <3>2. targets' = targets \/ targets' = Resume(targets)
      BY <2>2 DEF PingFact
    <3>3. \A u \in Resume(targets) : \E t \in targets : u.key = t.key
      BY <3>1 DEF Resume
    <3>4. \A u \in targets' : \E t \in targets : u.key = t.key
      BY <3>2, <3>3
    <3> QED
      BY <3>4 DEF ActiveKeys
  <2>3. CASE FaderFact(e)
    BY <2>3 DEF FaderFact, ActiveKeys
  <2>4. CASE PanFact(e)
    <3> DEFINE family == PanFamily(e.channel)
               pans == {t \in family : ParamOf[t.key] = "pan"}
               reported == {[t EXCEPT !.deviations = IF e.out THEN @ + 1 ELSE 0] : t \in pans}
    <3>1. targets' = targets \ family \/ targets' = (targets \ pans) \cup reported
      BY <2>4 DEF PanFact
    <3>2. \A t \in reported : \E u \in targets : t.key = u.key
      BY DEF TargetsOK, Targets, PanFamily
    <3> HIDE DEF family, pans, reported
    <3> QED
      BY <3>1, <3>2 DEF ActiveKeys
  <2>5. CASE CancelFact(e, dropped)
    BY <2>5 DEF CancelFact, AbortWork, ActiveKeys
  <2> QED
    BY <2>1, <2>2, <2>3, <2>4, <2>5
<1> QED
  BY <1>1, <1>2

\* A fact that is taken has its effect, and one that cancels ends the write.
LEMMA HonorDrain == ASSUME TypeOK, HonorInv, DrainEvent PROVE HonorInv'
<1> SUFFICES ASSUME TickDrains' PROVE \A e \in honor' : ToBeTaken(e)' \/ Honored(e)'
  BY DEF HonorInv
<1> DEFINE left == IF lagged = 0 THEN job.left - 1
                   ELSE IF job.left > lagged THEN job.left - lagged ELSE 0
           next == [job EXCEPT !.left = IF lagged = 0 THEN @ - 1
                                        ELSE IF @ > lagged THEN @ - lagged ELSE 0]
<1>1. /\ Receive(JobCmd) /\ job.left > 0 /\ UNCHANGED honor
      /\ job' = IF Canceled THEN NoJob ELSE IF Serving THEN Retaining(next) ELSE next
  BY DEF DrainEvent
<1>2. /\ events \in Seq(Facts) /\ Len(events) \in Nat /\ lagged \in Nat /\ job \in Jobs
      /\ job.left \in Nat
  BY LenProperties DEF BusOK, JobOK, Jobs
<1>3. ~Canceled
  BY <1>1 DEF TickDrains, NoJob
<1>4. next.kind = job.kind /\ next.stage = job.stage /\ next.left = left
      /\ Retaining(next).kind = next.kind
  BY <1>2 DEF Retaining, Jobs
<1> HIDE DEF next
<1>5. ~Serving /\ job' = next
  BY <1>1, <1>3, <1>4 DEF Serving, TickDrains
<1>6. TickDrains /\ job'.left = left
  BY <1>4, <1>5 DEF TickDrains
<1>7. ActiveKeys' \subseteq ActiveKeys
  BY <1>1, ReceiveKeys
<1> TAKE e \in honor'
<1>8. CASE Honored(e)
  BY <1>7, <1>8, HonoredStays
<1>9. CASE ToBeTaken(e)
  <2>1. PICK i \in 1 .. Len(events) : events[i] = e /\ i + lagged <= job.left
    BY <1>9 DEF ToBeTaken
  <2>2. CASE lagged > 0
    <3>1. lagged' = 0 /\ UNCHANGED events
      BY <1>1, <2>2 DEF Receive
    <3>2. i + lagged' <= left
      BY <1>2, <2>1, <2>2, <3>1
    <3> QED
      BY <1>6, <2>1, <3>1, <3>2 DEF ToBeTaken
  <2>3. CASE ~(lagged > 0)
    <3>1. lagged = 0 /\ lagged' = 0 /\ events # <<>> /\ events' = Tail(events)
          /\ ApplyFact(Head(events), JobCmd)
      BY <1>1, <1>2, <2>3 DEF Receive
    <3>2. /\ Head(events) = events[1] /\ Len(events') = Len(events) - 1
          /\ \A j \in 1 .. Len(events) - 1 : events'[j] = events[j + 1]
      BY <1>2, <3>1, HeadTailProperties
    <3>3. CASE i = 1
      <4>1. e = Head(events) /\ ~Cancels(e)
        BY <1>3, <2>1, <3>1, <3>2, <3>3 DEF Canceled
      <4>2. ASSUME e.kind = "fader", NEW k \in ActiveKeys'
            PROVE ~(ChannelOf[k] = e.channel /\ ParamOf[k] = "fader")
        <5>1. FaderFact(e)
          BY <3>1, <4>1, <4>2 DEF ApplyFact, PingFact, PanFact, CancelFact
        <5>2. targets' \subseteq
                {t \in targets : ~(ChannelOf[t.key] = e.channel /\ ParamOf[t.key] = "fader")}
          BY <5>1 DEF FaderFact
        <5> QED
          BY <4>2, <5>2 DEF ActiveKeys
      <4> QED
        BY <4>1, <4>2 DEF Honored, Cancels
    <3>4. CASE i > 1
      <4>1. i - 1 \in 1 .. Len(events') /\ events'[i - 1] = e /\ (i - 1) + lagged' <= left
        BY <1>2, <2>1, <3>1, <3>2, <3>4
      <4> QED
        BY <1>6, <4>1 DEF ToBeTaken
    <3> QED
      BY <2>1, <3>3, <3>4
  <2> QED
    BY <2>2, <2>3
<1> QED
  BY <1>1, <1>6, <1>8, <1>9 DEF HonorInv

\* All that is queued when the turn begins is to be taken.
LEMMA HonorTurn == ASSUME TypeOK, AdmissionTurn PROVE HonorInv'
<1>1. /\ UNCHANGED <<events, lagged>> /\ honor' = ToSet(events)
      /\ job' = [job EXCEPT !.stage = "draining", !.ok = job.stage = "granted", !.left = Backlog]
  BY DEF AdmissionTurn
<1>2. job'.left = Len(events) + lagged /\ Len(events) \in Nat /\ lagged \in Nat
  BY <1>1, LenProperties DEF JobOK, Jobs, Backlog, BusOK
<1>3. ASSUME NEW e \in honor' PROVE ToBeTaken(e)'
  <2>1. PICK i \in DOMAIN events : events[i] = e
    BY <1>1 DEF ToSet
  <2>2. i \in 1 .. Len(events)
    BY LenProperties DEF BusOK
  <2> QED
    BY <1>1, <1>2, <2>1, <2>2 DEF ToBeTaken
<1> QED
  BY <1>3 DEF HonorInv

\* Every other step of the engine leaves no tick draining.
LEMMA HonorEngine == ASSUME TypeOK, HonorInv, Engine PROVE HonorInv'
<1>1. ASSUME ~TickDrains' PROVE HonorInv'
  BY <1>1 DEF HonorInv
<1>2. CASE ReadinessTimeout \/ Defer
  BY <1>1, <1>2 DEF ReadinessTimeout, Defer, Looping, Serving, TickDrains, NoJob
<1>3. CASE TakeCommand \/ Refuse \/ Announce \/ EngineStop
  <2>1. CASE TakeCommand
    <3>1. job.kind = "none" /\ (job' = job \/ job'.kind = "call")
      BY <2>1 DEF TakeCommand, NoJob
    <3> QED
      BY <1>1, <3>1 DEF TickDrains
  <2>2. CASE Refuse \/ Announce \/ EngineStop
    <3>1. job' = NoJob
      BY <2>2 DEF Refuse, Announce, EngineStop
    <3> QED
      BY <1>1, <3>1 DEF TickDrains, NoJob
  <2> QED
    BY <1>3, <2>1, <2>2
<1>4. CASE CallEvent \/ MainEvent
  <2>1. \A j \in Jobs : Retaining(j).kind = j.kind
    BY DEF Retaining, Jobs
  <2> QED
    BY <1>1, <1>4, <2>1 DEF CallEvent, MainEvent, Serving, TickDrains, NoJob, JobOK
<1>5. CASE TakeAnswer \/ DrainEnd \/ ProposeZero \/ Admit
  <2>1. job.kind = "call" /\ job \in Jobs
    BY <1>5 DEF TakeAnswer, DrainEnd, ProposeZero, Admit, Serving, JobOK
  <2>2. job'.kind # "tick"
    <3>1. CASE TakeAnswer
      <4> DEFINE next == [job EXCEPT !.stage = "draining", !.left = Backlog]
      <4>1. job' = NoJob \/ job' = next
        BY <3>1 DEF TakeAnswer
      <4>2. next.kind = "call"
        BY <2>1 DEF Jobs
      <4> HIDE DEF next
      <4> QED
        BY <4>1, <4>2 DEF NoJob
    <3>2. CASE DrainEnd \/ ProposeZero
      BY <2>1, <3>2 DEF DrainEnd, ProposeZero, Jobs
    <3>3. CASE Admit
      <4>1. job' = NoJob \/ job' = [job EXCEPT !.stage = "announce"]
        BY <3>3 DEF Admit
      <4> QED
        BY <2>1, <4>1 DEF NoJob, Jobs
    <3> QED
      BY <1>5, <3>1, <3>2, <3>3
  <2> QED
    BY <1>1, <2>2 DEF TickDrains
<1>6. CASE SendTick \/ CommitTick
  <2> DEFINE props == job.props \cap ActiveKeys
  <2>1. job' = NoJob \/ job' = [job EXCEPT !.stage = "written", !.props = props]
    BY <1>6 DEF SendTick, CommitTick, AbortTick
  <2> HIDE DEF props
  <2>2. job \in Jobs
    BY DEF JobOK
  <2>3. NoJob.stage # "draining" /\ [job EXCEPT !.stage = "written", !.props = props].stage = "written"
    BY <2>2 DEF NoJob, Jobs
  <2> QED
    BY <1>1, <2>1, <2>3 DEF TickDrains
<1>7. CASE SendZero \/ CommitZero
  BY <1>1, <1>7 DEF SendZero, CommitZero, RefuseZero, TickDrains, NoJob, JobOK, Jobs
<1>8. CASE Tick
  <2>1. job = NoJob /\ (job' = job \/ job' = NoJob \/ job'.stage = "reserving")
    BY <1>8 DEF Tick, AbortTick, NoJob
  <2> QED
    BY <1>1, <2>1 DEF TickDrains, NoJob
<1> QED
  BY <1>2, <1>3, <1>4, <1>5, <1>6, <1>7, <1>8, HonorDrain, HonorTurn DEF Engine

LEMMA HonorEnvironment == ASSUME TypeOK, HonorInv, Environment PROVE HonorInv'
<1>1. ASSUME UNCHANGED <<job, targets, honor, events, lagged>> PROVE HonorInv'
  BY <1>1 DEF HonorInv, TickDrains, ToBeTaken, Honored, ActiveKeys, Cancels
<1>2. CASE SnapshotServed \/ SnapshotFailed \/ SnapshotStale \/ Reserve
  BY <1>2 DEF SnapshotServed, SnapshotFailed, SnapshotStale, Reserve, HonorInv, TickDrains,
              Serving, JobOK, Jobs
<1>3. CASE AnnounceRevoke
  BY <1>3, HonorPublish DEF AnnounceRevoke, Facts
<1>4. CASE Ping
  <2>1. [kind |-> "ping", seq |-> pingSeq + 1] \in Facts
    BY FadeBoundsAssumption DEF Facts, WorldOK
  <2> QED
    BY <1>4, <2>1, HonorPublish DEF Ping, Publish
<1>5. CASE Report
  <2>1. PICK ch \in Channels :
           \/ Publish([kind |-> "fader", channel |-> ch])
           \/ \E out \in BOOLEAN : Publish([kind |-> "pan", channel |-> ch, out |-> out])
    BY <1>5 DEF Report
  <2>2. \E fact \in Facts : Publish(fact)
    BY <2>1 DEF Facts
  <2>3. UNCHANGED <<job, targets, honor>>
    BY <1>5 DEF Report
  <2> QED
    BY <2>2, <2>3, HonorPublish DEF Publish
<1>6. CASE Lv1Lost
  BY <1>6, HonorPublish DEF Lv1Lost, Publish, Facts
<1>7. CASE Elapse
  <2>1. PICK t \in targets : targets' = (targets \ {t}) \cup {[t EXCEPT !.due = TRUE]}
    BY <1>7 DEF Elapse
  <2>2. ActiveKeys' \subseteq ActiveKeys
    BY <2>1 DEF ActiveKeys, TargetsOK, Targets
  <2>3. UNCHANGED <<job, honor, events, lagged>>
    BY <1>7 DEF Elapse
  <2> QED
    BY <2>2, <2>3, HonoredStays DEF HonorInv, TickDrains, ToBeTaken
<1> QED
  BY <1>1, <1>2, <1>3, <1>4, <1>5, <1>6, <1>7, HonorOverrun
  DEF Environment, Send, Advance, Revoke, DropHandles, Lv1Returns

\* A write that goes out was drained to the end.
LEMMA HonorWrite ==
  ASSUME TypeOK, HonorInv, [Next]_vars, TickDrains, job'.stage = "written", NEW e \in honor
  PROVE  /\ ~Cancels(e)
         /\ e.kind = "fader" => \A k \in job'.props :
                                   ~(ChannelOf[k] = e.channel /\ ParamOf[k] = "fader")
<1>1. job \in Jobs /\ job.kind = "tick" /\ job.stage = "draining"
  BY DEF TickDrains, JobOK
<1>2. SendTick
  <2>1. ASSUME Environment PROVE FALSE
    BY <1>1, <2>1
    DEF Environment, Send, Advance, Revoke, AnnounceRevoke, DropHandles, Ping, Report, Lv1Lost,
        Lv1Returns, Overrun, Elapse, SnapshotServed, SnapshotFailed, SnapshotStale, Reserve, Jobs
  <2>2. CASE DrainEvent
    <3> DEFINE next == [job EXCEPT !.left = IF lagged = 0 THEN @ - 1
                                            ELSE IF @ > lagged THEN @ - lagged ELSE 0]
    <3>1. job' = NoJob \/ job' = next
      BY <1>1, <2>2 DEF DrainEvent, Serving
    <3>2. next.stage = job.stage
      BY <1>1 DEF Jobs
    <3> HIDE DEF next
    <3> QED
      BY <1>1, <3>1, <3>2 DEF NoJob
  <2>3. ASSUME \/ ReadinessTimeout \/ TakeCommand \/ Defer \/ CallEvent \/ TakeAnswer \/ DrainEnd
               \/ Refuse \/ ProposeZero \/ Admit \/ Announce \/ AdmissionTurn \/ CommitTick
               \/ SendZero \/ CommitZero \/ MainEvent \/ Tick \/ EngineStop \/ UNCHANGED vars
        PROVE FALSE
    BY <1>1, <2>3
    DEF ReadinessTimeout, TakeCommand, Defer, CallEvent, TakeAnswer, DrainEnd, Refuse, ProposeZero,
        Admit, Announce, AdmissionTurn, CommitTick, SendZero, CommitZero, MainEvent, Tick,
        EngineStop, Looping, Serving, Writing, NoJob, vars, Jobs
  <2> QED
    BY <2>1, <2>2, <2>3 DEF Next, Engine
<1>3. job.left = 0 /\ job'.props = job.props \cap ActiveKeys
  <2> DEFINE props == job.props \cap ActiveKeys
  <2>1. job.left = 0 /\ (job' = NoJob \/ job' = [job EXCEPT !.stage = "written", !.props = props])
    BY <1>2 DEF SendTick, AbortTick
  <2> HIDE DEF props
  <2>2. NoJob.stage # "written"
    BY DEF NoJob
  <2>3. job' = [job EXCEPT !.stage = "written", !.props = props]
    BY <2>1, <2>2
  <2>4. job'.props = props
    BY <1>1, <2>3 DEF Jobs
  <2> QED
    BY <2>1, <2>4 DEF props
<1>4. Len(events) \in Nat /\ lagged \in Nat
  BY LenProperties DEF BusOK
<1>5. ~ToBeTaken(e)
  BY <1>3, <1>4 DEF ToBeTaken
<1>6. Honored(e)
  BY <1>5 DEF HonorInv
<1> QED
  BY <1>3, <1>6 DEF Honored

\* What was published before a tick's reservation was granted comes before the
\* write (fade/actor.rs:312, drain_ready_app_events): after a disconnect or a
\* generation change nothing is written, and no fader the operator has taken.
THEOREM QueuedFactsCorrect == Spec => QueuedFactsFirst
<1>1. Init => HonorInv
  BY DEF Init, HonorInv, TickDrains, NoJob
<1>2. TypeOK /\ HonorInv /\ [Next]_vars => HonorInv'
  <2> SUFFICES ASSUME TypeOK, HonorInv, [Next]_vars PROVE HonorInv'
    OBVIOUS
  <2>1. CASE UNCHANGED vars
    BY <2>1 DEF vars, HonorInv, TickDrains, ToBeTaken, Honored, ActiveKeys, Cancels
  <2> QED
    BY <2>1, HonorEngine, HonorEnvironment DEF Next
<1>3. TypeOK /\ HonorInv /\ [Next]_vars =>
        [job.kind = "tick" /\ job.stage = "draining" /\ job'.stage = "written" =>
          \A e \in honor :
              /\ ~Cancels(e)
              /\ e.kind = "fader" => \A k \in job'.props :
                                        ~(ChannelOf[k] = e.channel /\ ParamOf[k] = "fader")]_vars
  BY HonorWrite DEF TickDrains
<1> HIDE DEF TypeOK
<1> QED
  BY <1>1, <1>2, <1>3, TypeCorrect, PTL DEF Spec, QueuedFactsFirst

-----------------------------------------------------------------------------
(* Commands keep their order                                               *)

\* Appending to the second queue appends to both.
LEMMA AppendToConcat ==
  ASSUME NEW S, NEW s \in Seq(S), NEW t \in Seq(S), NEW x \in S
  PROVE  s \o Append(t, x) = Append(s \o t, x)
<1>1. <<x>> \in Seq(S) /\ s \o t \in Seq(S)
  BY ConcatProperties
<1>2. Append(t, x) = t \o <<x>> /\ Append(s \o t, x) = (s \o t) \o <<x>>
  BY <1>1, AppendIsConcat
<1> QED
  BY <1>1, <1>2, ConcatAssociative

\* The oldest of both queues is the oldest of the first, unless that is empty.
LEMMA TailOfConcat ==
  ASSUME NEW S, NEW s \in Seq(S), NEW t \in Seq(S), s # <<>>
  PROVE  Tail(s) \o t = Tail(s \o t)
<1>1. /\ Tail(s) \in Seq(S) /\ Len(Tail(s)) = Len(s) - 1
      /\ \A i \in 1 .. Len(s) - 1 : Tail(s)[i] = s[i + 1]
      /\ Len(s) \in Nat /\ Len(t) \in Nat /\ Len(s) >= 1
  BY HeadTailProperties, LenProperties, EmptySeq
<1>2. /\ s \o t \in Seq(S) /\ Len(s \o t) = Len(s) + Len(t)
      /\ \A i \in 1 .. Len(s) + Len(t) :
            (s \o t)[i] = IF i <= Len(s) THEN s[i] ELSE t[i - Len(s)]
  BY ConcatProperties
<1>3. s \o t # <<>>
  BY <1>1, <1>2
<1>4. /\ Tail(s \o t) \in Seq(S) /\ Len(Tail(s \o t)) = Len(s) + Len(t) - 1
      /\ \A i \in 1 .. Len(s) + Len(t) - 1 : Tail(s \o t)[i] = (s \o t)[i + 1]
  BY <1>2, <1>3, HeadTailProperties
<1>5. /\ Tail(s) \o t \in Seq(S) /\ Len(Tail(s) \o t) = Len(s) + Len(t) - 1
      /\ \A i \in 1 .. Len(s) + Len(t) - 1 :
            (Tail(s) \o t)[i] = IF i <= Len(s) - 1 THEN Tail(s)[i] ELSE t[i - (Len(s) - 1)]
  BY <1>1, ConcatProperties
<1>6. ASSUME NEW i \in 1 .. Len(s) + Len(t) - 1 PROVE (Tail(s) \o t)[i] = Tail(s \o t)[i]
  <2>1. i + 1 \in 1 .. Len(s) + Len(t) /\ i - (Len(s) - 1) = (i + 1) - Len(s)
    BY <1>1
  <2>2. Tail(s \o t)[i] = IF i + 1 <= Len(s) THEN s[i + 1] ELSE t[(i + 1) - Len(s)]
    BY <1>2, <1>4, <2>1
  <2>3. (Tail(s) \o t)[i] = IF i <= Len(s) - 1 THEN Tail(s)[i] ELSE t[i - (Len(s) - 1)]
    BY <1>5
  <2>4. CASE i <= Len(s) - 1
    <3>1. i \in 1 .. Len(s) - 1 /\ i + 1 <= Len(s)
      BY <1>1, <2>4
    <3> QED
      BY <1>1, <2>2, <2>3, <2>4, <3>1
  <2>5. CASE ~(i <= Len(s) - 1)
    <3>1. ~(i + 1 <= Len(s))
      BY <1>1, <2>5
    <3> QED
      BY <2>1, <2>2, <2>3, <2>5, <3>1
  <2> QED
    BY <2>4, <2>5
<1> QED
  BY <1>4, <1>5, <1>6, SeqEqual

\* A sequence is its head followed by its tail.
LEMMA HeadThenTail ==
  ASSUME NEW S, NEW s \in Seq(S), s # <<>> PROVE <<Head(s)>> \o Tail(s) = s
<1>1. /\ Tail(s) \in Seq(S) /\ Len(Tail(s)) = Len(s) - 1 /\ Head(s) \in S /\ Head(s) = s[1]
      /\ \A i \in 1 .. Len(s) - 1 : Tail(s)[i] = s[i + 1]
      /\ Len(s) \in Nat /\ Len(s) >= 1
  BY HeadTailProperties, LenProperties, EmptySeq
<1>2. <<Head(s)>> \in Seq(S) /\ Len(<<Head(s)>>) = 1 /\ <<Head(s)>>[1] = s[1]
  BY <1>1
<1> DEFINE one == <<Head(s)>>
           rest == Tail(s)
<1> HIDE DEF one, rest
<1>3. /\ one \o rest \in Seq(S) /\ Len(one \o rest) = Len(s)
      /\ \A i \in 1 .. Len(s) : (one \o rest)[i] = IF i <= 1 THEN one[i] ELSE rest[i - 1]
  BY <1>1, <1>2, ConcatProperties DEF one, rest
<1>4. ASSUME NEW i \in 1 .. Len(s) PROVE (one \o rest)[i] = s[i]
  <2>1. CASE i = 1
    BY <1>2, <1>3, <2>1 DEF one
  <2>2. CASE i > 1
    <3>1. i - 1 \in 1 .. Len(s) - 1 /\ (i - 1) + 1 = i
      BY <1>1, <2>2
    <3> QED
      BY <1>1, <1>3, <2>2, <3>1 DEF rest
  <2>3. i = 1 \/ i > 1
    OBVIOUS
  <2> QED
    BY <2>1, <2>2, <2>3
<1> QED
  BY <1>3, <1>4, SeqEqual DEF one, rest

\* What a command in front of a queue adds to it.
LEMMA InFront ==
  ASSUME NEW S, NEW x \in S, NEW s \in Seq(S)
  PROVE  /\ <<x>> \o s \in Seq(S) /\ <<x>> \o s # <<>>
         /\ Head(<<x>> \o s) = x /\ Tail(<<x>> \o s) = s
<1>1. <<x>> \in Seq(S) /\ Len(<<x>>) = 1 /\ <<x>>[1] = x /\ <<x>> # <<>> /\ Len(s) \in Nat
  BY LenProperties
<1> DEFINE one == <<x>>
<1>2. Tail(one) = <<>> /\ one \in Seq(S) /\ one # <<>>
  BY <1>1
<1> HIDE DEF one
<1>3. /\ one \o s \in Seq(S) /\ Len(one \o s) = 1 + Len(s)
      /\ \A i \in 1 .. 1 + Len(s) : (one \o s)[i] = IF i <= 1 THEN one[i] ELSE s[i - 1]
  BY <1>1, <1>2, ConcatProperties DEF one
<1>4. one \o s # <<>> /\ (one \o s)[1] = x
  BY <1>1, <1>3 DEF one
<1>5. Tail(one \o s) = s
  BY <1>2, TailOfConcat, ConcatEmptySeq
<1> QED
  BY <1>3, <1>4, <1>5 DEF one

\* Moving the head of one queue to the end of the one before changes nothing.
LEMMA MoveHead ==
  ASSUME NEW S, NEW s \in Seq(S), NEW t \in Seq(S), t # <<>>
  PROVE  Append(s, Head(t)) \o Tail(t) = s \o t
<1> DEFINE one == <<Head(t)>>
           rest == Tail(t)
<1>1. Head(t) \in S /\ one \in Seq(S) /\ rest \in Seq(S)
  BY HeadTailProperties
<1>2. Append(s, Head(t)) = s \o one /\ one \o rest = t
  BY <1>1, HeadThenTail, AppendIsConcat
<1> HIDE DEF one, rest
<1>3. (s \o one) \o rest = s \o (one \o rest)
  BY <1>1, ConcatAssociative
<1> QED
  BY <1>2, <1>3 DEF rest

\* A deferred command keeps its place.
LEMMA DeferOrder == ASSUME TypeOK, Defer PROVE Waiting' = Waiting
<1>1. /\ mailbox \in Seq(Commands) /\ deferred \in Seq(Commands) /\ mailbox # <<>>
      /\ mailbox' = Tail(mailbox) /\ deferred' = Append(deferred, Head(mailbox))
  BY DEF Defer, BoxOK
<1> QED
  BY <1>1, MoveHead DEF Waiting

LEMMA TakeOrder ==
  ASSUME TypeOK, TakeCommand
  PROVE  Waiting' = Tail(Waiting) /\ Waiting # <<>> /\ Waiting \in Seq(Commands)
<1>1. /\ mailbox \in Seq(Commands) /\ deferred \in Seq(Commands) /\ Waiting # <<>>
      /\ \/ deferred # <<>> /\ deferred' = Tail(deferred) /\ UNCHANGED mailbox
         \/ deferred = <<>> /\ mailbox' = Tail(mailbox) /\ UNCHANGED deferred
  BY DEF TakeCommand, BoxOK
<1>2. CASE deferred # <<>> /\ deferred' = Tail(deferred) /\ UNCHANGED mailbox
  BY <1>1, <1>2, TailOfConcat, ConcatProperties DEF Waiting
<1>3. CASE deferred = <<>> /\ mailbox' = Tail(mailbox) /\ UNCHANGED deferred
  <2>1. Waiting = mailbox
    BY <1>1, <1>3, ConcatEmptySeq DEF Waiting
  <2>2. Tail(mailbox) \in Seq(Commands)
    BY <1>1, <2>1, HeadTailProperties
  <2>3. Waiting' = <<>> \o Tail(mailbox)
    BY <1>3 DEF Waiting
  <2>4. Waiting' = Tail(mailbox)
    BY <2>2, <2>3, ConcatEmptySeq
  <2> QED
    BY <1>1, <2>1, <2>4
<1> QED
  BY <1>1, <1>2, <1>3

LEMMA SendOrder ==
  ASSUME TypeOK, NEW c \in Commands, Send(c)
  PROVE  Waiting' = Append(Waiting, c)
<1>1. mailbox' = Append(mailbox, c) /\ UNCHANGED deferred
  BY DEF Send
<1> QED
  BY <1>1, AppendToConcat DEF Waiting, BoxOK

\* No command is there twice, and the engine owes each an answer.
OrderInv ==
    /\ \A c \in Held : reply[c] = "waiting"
    /\ JobCmd \cap ToSet(Waiting) = {}
    /\ \A i, j \in 1 .. Len(Waiting) : Waiting[i] = Waiting[j] => i = j

LEMMA WaitingSeq == ASSUME TypeOK PROVE Waiting \in Seq(Commands) /\ Len(Waiting) \in Nat
BY ConcatProperties, LenProperties DEF Waiting, BoxOK

\* What a step must show to keep OrderInv, unless it sends or takes a command.
LEMMA OrderStep ==
  ASSUME OrderInv, Waiting' = Waiting, JobCmd' \subseteq JobCmd,
         \A c \in Held' : reply'[c] = reply[c]
  PROVE  OrderInv'
<1>1. Held' \subseteq Held
  BY DEF Held
<1> QED
  BY <1>1 DEF OrderInv

\* A step that answers only the command of the job, and drops the job.
LEMMA OrderDrop ==
  ASSUME TypeOK, OrderInv, Waiting' = Waiting, JobCmd' = {},
         \A c \in Commands : c \notin JobCmd => reply'[c] = reply[c]
  PROVE  OrderInv'
<1>1. Held' = ToSet(Waiting)
  BY DEF Held
<1>2. \A c \in Held' : c \in Commands /\ c \notin JobCmd
  BY <1>1, HeldCommands DEF OrderInv, Held
<1> QED
  BY <1>2, OrderStep

-----------------------------------------------------------------------------
(* The contract, step by step                                              *)

ContractStep == [Contract!Next]_(Contract!contractVars)

\* What is undecided is the command of the job and the two queues.
LEMMA BoxOfJob ==
  ASSUME TypeOK, Undecided
  PROVE  /\ Box # <<>> /\ Head(Box) = job.cmd /\ Tail(Box) = Waiting
         /\ job.cmd \in Commands /\ JobCmd = {job.cmd}
<1>1. job.cmd \in Commands /\ JobCmd = {job.cmd}
  BY DEF Undecided, JobCmd, JobOK
<1> QED
  BY <1>1, WaitingSeq, InFront DEF Box

LEMMA BoxOfQueue == ASSUME TypeOK, ~Undecided PROVE Box = Waiting
BY WaitingSeq, ConcatEmptySeq DEF Box

LEMMA BoxOfQueueNext == ASSUME Waiting' \in Seq(Commands), ~Undecided' PROVE Box' = Waiting'
BY ConcatEmptySeq DEF Box

LEMMA BoxKept ==
  ASSUME Waiting' = Waiting, Undecided' <=> Undecided, Undecided => job'.cmd = job.cmd
  PROVE  Box' = Box
BY DEF Box

\* Nothing of it is visible.
LEMMA StutterContract ==
  ASSUME UNCHANGED <<chan, reply>>, barrier'.cmd = barrier.cmd, Box' = Box
  PROVE  ContractStep
BY DEF ContractStep, Contract!contractVars, BarrierOwner

\* Settling nobody changes nothing, and neither does naming no command.
LEMMA SettleNobody == ASSUME TypeOK, NEW result PROVE Settle({}, result) = chan
BY DEF Settle, ReplyOK

LEMMA SettleOwner ==
  ASSUME TypeOK, NEW cs, NEW result
  PROVE  /\ Settle({barrier.cmd} \cup cs, result) = Contract!Settle(BarrierOwner \cup cs, result)
         /\ Settle({barrier.cmd}, result) = Contract!Settle(BarrierOwner, result)
BY CommandsAssumption DEF Settle, Contract!Settle, BarrierOwner

LEMMA RefusingOne ==
  ASSUME TypeOK, NEW c \in Commands PROVE Refusing({c}) = [reply EXCEPT ![c] = "err"]
BY DEF Refusing, ReplyOK

\* The barrier ends, or there was none.
LEMMA EndsContract ==
  ASSUME TypeOK, Box' = Box, UNCHANGED reply, barrier' = NoBarrier,
         NEW result \in {"ok", "err"}, chan' = Settle({barrier.cmd}, result)
  PROVE  ContractStep
<1>1. BarrierOwner' = {}
  BY DEF BarrierOwner, NoBarrier
<1>2. chan' = Contract!Settle(BarrierOwner, result)
  BY SettleOwner
<1>3. CASE BarrierOwner = {}
  <2>1. chan' = chan
    BY <1>2, <1>3 DEF Contract!Settle, ReplyOK
  <2> QED
    BY <1>1, <1>3, <2>1 DEF ContractStep, Contract!contractVars
<1>4. CASE BarrierOwner # {}
  <2>1. Contract!BarrierEnds(result)
    BY <1>1, <1>2, <1>4 DEF Contract!BarrierEnds
  <2> QED
    BY <2>1 DEF ContractStep, Contract!Next
<1> QED
  BY <1>3, <1>4

\* The oldest command is refused, alone or with the barrier.
LEMMA RefuseContract ==
  ASSUME TypeOK, Box # <<>>, Head(Box) \in Commands, Box' = Tail(Box),
         reply' = Refusing({Head(Box)}),
         \/ barrier'.cmd = barrier.cmd /\ chan' = Settle({Head(Box)}, "err")
         \/ barrier' = NoBarrier /\ chan' = Settle({barrier.cmd} \cup {Head(Box)}, "err")
  PROVE  ContractStep
<1>1. reply' = [reply EXCEPT ![Head(Box)] = "err"]
  BY RefusingOne
<1>2. \/ UNCHANGED BarrierOwner /\ chan' = Contract!Settle({Head(Box)}, "err")
      \/ BarrierOwner' = {} /\ chan' = Contract!Settle({Head(Box)} \cup BarrierOwner, "err")
  <2>1. CASE barrier'.cmd = barrier.cmd /\ chan' = Settle({Head(Box)}, "err")
    BY <2>1 DEF BarrierOwner, Settle, Contract!Settle
  <2>2. CASE barrier' = NoBarrier /\ chan' = Settle({barrier.cmd} \cup {Head(Box)}, "err")
    <3>1. BarrierOwner' = {}
      BY <2>2 DEF BarrierOwner, NoBarrier
    <3>2. chan' = Contract!Settle(BarrierOwner \cup {Head(Box)}, "err")
      BY <2>2, SettleOwner
    <3>3. BarrierOwner \cup {Head(Box)} = {Head(Box)} \cup BarrierOwner
      OBVIOUS
    <3> QED
      BY <3>1, <3>2, <3>3
  <2> QED
    BY <2>1, <2>2
<1>3. Contract!Refuse
  BY <1>1, <1>2 DEF Contract!Refuse
<1> QED
  BY <1>3 DEF ContractStep, Contract!Next

\* The command of the job is refused and the job is over.
LEMMA DropContract ==
  ASSUME TypeOK, Undecided, ~Undecided', UNCHANGED boxVars, reply' = Refusing(JobCmd),
         \/ barrier'.cmd = barrier.cmd /\ chan' = Settle(JobCmd, "err")
         \/ barrier' = NoBarrier /\ chan' = Settle({barrier.cmd} \cup JobCmd, "err")
  PROVE  ContractStep
<1>1. Waiting' = Waiting /\ Waiting \in Seq(Commands)
  BY WaitingSeq DEF Waiting
<1>2. Box' = Tail(Box)
  BY <1>1, BoxOfJob, BoxOfQueueNext
<1> QED
  BY <1>2, BoxOfJob, RefuseContract

\* The barrier of an admitted command, or readiness already proved.
LEMMA InstallContract ==
  ASSUME TypeOK, NEW c \in Commands, NEW kept, Install(c, kept)
  PROVE  \/ BarrierOwner' = {c} /\ chan' = Contract!Settle(BarrierOwner, "err")
         \/ /\ BarrierOwner' = {}
            /\ chan' = [Contract!Settle(BarrierOwner, "err")
                          EXCEPT ![c] = IF @ = "open" THEN "ok" ELSE @]
<1> DEFINE superseded == Settle({barrier.cmd}, "err")
<1>1. superseded = Contract!Settle(BarrierOwner, "err")
  BY SettleOwner
<1>2. \/ barrier' = NoBarrier /\ chan' = [superseded EXCEPT ![c] = IF @ = "open" THEN "ok" ELSE @]
      \/ barrier'.cmd = c /\ chan' = superseded
  BY SMTT(30) DEF Install
<1> HIDE DEF superseded
<1>3. CASE barrier' = NoBarrier /\ chan' = [superseded EXCEPT ![c] = IF @ = "open" THEN "ok" ELSE @]
  <2>1. BarrierOwner' = {}
    BY <1>3 DEF BarrierOwner, NoBarrier
  <2> QED
    BY <1>1, <1>3, <2>1
<1>4. CASE barrier'.cmd = c /\ chan' = superseded
  <2>1. BarrierOwner' = {c}
    BY <1>4, CommandsAssumption DEF BarrierOwner
  <2> QED
    BY <1>1, <1>4, <2>1
<1> QED
  BY <1>2, <1>3, <1>4

\* The command of the job takes effect.
LEMMA AdmitContract ==
  ASSUME TypeOK, Undecided, ~Undecided', UNCHANGED boxVars,
         UNCHANGED reply \/ reply' = [reply EXCEPT ![job.cmd] = "ok"],
         \/ \E kept : Install(job.cmd, kept)
         \/ job.cmd \notin OwnedCommands /\ UNCHANGED <<barrier, chan>>
  PROVE  ContractStep
<1>1. Waiting' = Waiting /\ Waiting \in Seq(Commands)
  BY WaitingSeq DEF Waiting
<1>2. /\ Box # <<>> /\ Box' = Tail(Box) /\ Head(Box) = job.cmd /\ job.cmd \in Commands
  BY <1>1, BoxOfJob, BoxOfQueueNext
<1>3. \/ BarrierOwner' = {Head(Box)} /\ chan' = Contract!Settle(BarrierOwner, "err")
      \/ /\ BarrierOwner' = {}
         /\ chan' = [Contract!Settle(BarrierOwner, "err")
                       EXCEPT ![Head(Box)] = IF @ = "open" THEN "ok" ELSE @]
      \/ Head(Box) \notin OwnedCommands /\ UNCHANGED <<BarrierOwner, chan>>
  BY <1>2, InstallContract DEF BarrierOwner
<1>4. UNCHANGED reply \/ reply' = [reply EXCEPT ![Head(Box)] = "ok"]
  BY <1>2
<1>5. Contract!Admit
  BY <1>2, <1>3, <1>4 DEF Contract!Admit
<1> QED
  BY <1>5 DEF ContractStep, Contract!Next

\* A step that hands the command of the job no further and answers nobody.
LEMMA QuietOrder ==
  ASSUME TypeOK, OrderInv, UNCHANGED <<boxVars, reply>>, JobCmd' = JobCmd,
         Undecided' <=> Undecided, job'.cmd = job.cmd
  PROVE  OrderInv' /\ Box' = Box
<1>1. Waiting' = Waiting
  BY DEF Waiting
<1>2. OrderInv'
  BY <1>1, OrderStep
<1> QED
  BY <1>1, <1>2, BoxKept

\* The command of the job is refused: everyone else keeps what it has.
LEMMA DropOrder ==
  ASSUME TypeOK, OrderInv, UNCHANGED boxVars, JobCmd' = {}, reply' = Refusing(JobCmd)
  PROVE  OrderInv'
<1>1. Waiting' = Waiting
  BY DEF Waiting
<1>2. \A c \in Commands : c \notin JobCmd => reply'[c] = reply[c]
  BY DEF Refusing
<1> QED
  BY <1>1, <1>2, OrderDrop

\* A refusal by the engine, whatever its reason.
LEMMA DropStep ==
  ASSUME TypeOK, OrderInv, JobCmd # {}, job.stage # "announce", job' = NoJob,
         UNCHANGED boxVars, reply' = Refusing(JobCmd),
         \/ barrier'.cmd = barrier.cmd /\ chan' = Settle(JobCmd, "err")
         \/ barrier' = NoBarrier /\ chan' = Settle({barrier.cmd} \cup JobCmd, "err")
  PROVE  OrderInv' /\ ContractStep
<1>1. Undecided /\ ~Undecided' /\ JobCmd' = {}
  BY DEF Undecided, JobCmd, NoJob
<1> QED
  BY <1>1, DropOrder, DropContract

\* A tick is given up with the work of the engine.
LEMMA AbortStep ==
  ASSUME TypeOK, OrderInv, JobCmd = {}, AbortTick, UNCHANGED boxVars
  PROVE  OrderInv' /\ ContractStep
<1>1. /\ job' = NoJob /\ UNCHANGED reply /\ barrier' = NoBarrier
      /\ chan' = Settle({barrier.cmd} \cup {}, "err")
  BY DEF AbortTick, AbortWork
<1>2. JobCmd' = {} /\ ~Undecided /\ ~Undecided' /\ Waiting' = Waiting
  BY <1>1 DEF JobCmd, Undecided, NoJob, Waiting
<1>3. Box' = Box
  BY <1>2, BoxKept
<1>4. OrderInv'
  BY <1>1, <1>2, OrderStep
<1>5. chan' = Settle({barrier.cmd}, "err")
  <2>1. {barrier.cmd} \cup {} = {barrier.cmd}
    OBVIOUS
  <2> QED
    BY <1>1, <2>1
<1> QED
  BY <1>1, <1>3, <1>4, <1>5, EndsContract

LEMMA SendContract ==
  ASSUME TypeOK, OrderInv, NEW c \in Commands, Send(c) PROVE OrderInv' /\ ContractStep
<1>1. /\ reply[c] = "idle" /\ reply' = [reply EXCEPT ![c] = "waiting"]
      /\ chan' = IF c \in OwnedCommands THEN [chan EXCEPT ![c] = "open"] ELSE chan
      /\ UNCHANGED <<barrier, job>>
  BY DEF Send
<1>2. Waiting' = Append(Waiting, c) /\ Waiting \in Seq(Commands) /\ Len(Waiting) \in Nat
  BY SendOrder, WaitingSeq
<1>3. JobCmd' = JobCmd /\ (Undecided' <=> Undecided)
  BY <1>1 DEF JobCmd, Undecided
<1>4. ToSet(Waiting') = ToSet(Waiting) \cup {c}
  BY <1>2, ToSetAppend
<1>5. c \notin Held
  BY <1>1 DEF OrderInv
<1>6. OrderInv'
  <2>1. Held' = Held \cup {c}
    BY <1>3, <1>4 DEF Held
  <2>2. \A d \in Held' : reply'[d] = "waiting"
    BY <1>1, <2>1, HeldCommands DEF OrderInv, ReplyOK
  <2>3. JobCmd' \cap ToSet(Waiting') = {}
    BY <1>3, <1>4, <1>5 DEF OrderInv, Held
  <2>4. ASSUME NEW i \in 1 .. Len(Waiting'), NEW j \in 1 .. Len(Waiting'),
               Waiting'[i] = Waiting'[j]
        PROVE i = j
    <3>1. /\ Len(Waiting') = Len(Waiting) + 1 /\ Waiting'[Len(Waiting) + 1] = c
          /\ \A k \in 1 .. Len(Waiting) : Waiting'[k] = Waiting[k]
      BY <1>2, AppendProperties
    <3>2. \A k \in 1 .. Len(Waiting) : Waiting[k] # c
      BY <1>2, <1>5, LenProperties DEF Held, ToSet
    <3>3. CASE i \in 1 .. Len(Waiting) /\ j \in 1 .. Len(Waiting)
      BY <2>4, <3>1, <3>3 DEF OrderInv
    <3>4. CASE ~(i \in 1 .. Len(Waiting) /\ j \in 1 .. Len(Waiting))
      BY <1>2, <2>4, <3>1, <3>2, <3>4
    <3> QED
      BY <3>3, <3>4
  <2> QED
    BY <2>2, <2>3, <2>4 DEF OrderInv
<1>7. Box' = Append(Box, c)
  <2> DEFINE front == IF Undecided THEN <<job.cmd>> ELSE <<>>
  <2>1. front \in Seq(Commands) /\ Box = front \o Waiting /\ Box' = front \o Waiting'
    BY <1>1, <1>3 DEF Box, Undecided, JobCmd, JobOK
  <2> HIDE DEF front
  <2>2. Waiting \in Seq(Commands) /\ c \in Commands /\ Waiting' = Append(Waiting, c)
    BY <1>2
  <2>3. front \o Append(Waiting, c) = Append(front \o Waiting, c)
    BY <2>1, <2>2, AppendToConcat
  <2> QED
    BY <2>1, <2>2, <2>3
<1>8. Contract!Send(c)
  BY <1>1, <1>7 DEF Contract!Send, BarrierOwner
<1> QED
  BY <1>6, <1>8 DEF ContractStep, Contract!Next

LEMMA TakeContract == ASSUME TypeOK, OrderInv, TakeCommand PROVE OrderInv' /\ ContractStep
<1> DEFINE c == Head(Waiting)
<1>1. /\ Waiting' = Tail(Waiting) /\ Waiting # <<>> /\ Waiting \in Seq(Commands)
      /\ c \in Commands /\ Waiting' \in Seq(Commands) /\ Len(Waiting) \in Nat
      /\ Len(Waiting') = Len(Waiting) - 1 /\ c = Waiting[1] /\ Len(Waiting) >= 1
      /\ \A i \in 1 .. Len(Waiting) - 1 : Waiting'[i] = Waiting[i + 1]
  <2>1. Waiting' = Tail(Waiting) /\ Waiting # <<>> /\ Waiting \in Seq(Commands)
    BY TakeOrder
  <2> DEFINE w == Waiting
             rest == Tail(w)
  <2> HIDE DEF w
  <2>2. w # <<>> /\ w \in Seq(Commands)
    BY <2>1 DEF w
  <2>3. /\ Head(w) \in Commands /\ rest \in Seq(Commands) /\ Len(w) \in Nat /\ Len(w) >= 1
        /\ Head(w) = w[1] /\ Len(rest) = Len(w) - 1
        /\ \A i \in 1 .. Len(w) - 1 : rest[i] = w[i + 1]
    BY <2>2, HeadTailProperties, LenProperties, EmptySeq
  <2> QED
    BY <2>1, <2>3 DEF w
<1>2. job = NoJob /\ JobCmd = {} /\ ~Undecided /\ Box = Waiting
  BY BoxOfQueue DEF TakeCommand, JobCmd, NoJob, Undecided
<1>3. ToSet(Waiting) = {c} \cup ToSet(Waiting')
  BY <1>1, ToSetHeadTail
<1>4. c \notin ToSet(Waiting')
  <2>1. DOMAIN Waiting' = 1 .. Len(Waiting')
    BY <1>1, LenProperties
  <2>2. ASSUME NEW i \in 1 .. Len(Waiting') PROVE Waiting'[i] # c
    <3>1. i + 1 \in 1 .. Len(Waiting) /\ i + 1 # 1 /\ 1 \in 1 .. Len(Waiting)
      BY <1>1
    <3>2. Waiting[i + 1] # Waiting[1]
      BY <3>1 DEF OrderInv
    <3> QED
      BY <1>1, <3>2
  <2> QED
    BY <2>1, <2>2 DEF ToSet
<1>5. \A i, j \in 1 .. Len(Waiting') : Waiting'[i] = Waiting'[j] => i = j
  <2>1. ASSUME NEW i \in 1 .. Len(Waiting'), NEW j \in 1 .. Len(Waiting'),
               Waiting'[i] = Waiting'[j]
        PROVE i = j
    <3>1. i + 1 \in 1 .. Len(Waiting) /\ j + 1 \in 1 .. Len(Waiting)
      BY <1>1
    <3>2. Waiting[i + 1] = Waiting[j + 1]
      BY <1>1, <2>1
    <3>3. i + 1 = j + 1
      BY <3>1, <3>2 DEF OrderInv
    <3> QED
      BY <3>3
  <2> QED
    BY <2>1
<1>6. \A d \in ToSet(Waiting) : d \in Commands /\ reply[d] = "waiting"
  BY <1>2, HeldCommands DEF OrderInv, Held
<1>7. CASE reply' = Refusing({c}) /\ chan' = Settle({c}, "err") /\ UNCHANGED job
  <2>1. JobCmd' = {} /\ ~Undecided' /\ UNCHANGED barrier
    BY <1>2, <1>7 DEF JobCmd, Undecided, TakeCommand
  <2>2. Box' = Tail(Box)
    BY <1>1, <1>2, <2>1, BoxOfQueueNext
  <2>3. ContractStep
    BY <1>1, <1>2, <1>7, <2>1, <2>2, RefuseContract
  <2>4. \A d \in ToSet(Waiting') : reply'[d] = "waiting"
    BY <1>3, <1>4, <1>6, <1>7 DEF Refusing
  <2> QED
    BY <1>5, <2>1, <2>3, <2>4 DEF OrderInv, Held
<1>8. CASE /\ UNCHANGED replyVars
           /\ job' = [NoJob EXCEPT !.kind = "call", !.cmd = c,
                        !.stage = IF TargetsOf[c] = {} /\ c \notin OwnedCommands
                                  THEN "announce" ELSE "asking"]
  <2>1. JobCmd' = {c} /\ job'.cmd = c /\ UNCHANGED <<barrier, chan, reply>>
    BY <1>8 DEF JobCmd, NoJob, TakeCommand
  <2>2. OrderInv'
    <3>1. Held' = ToSet(Waiting)
      BY <1>3, <2>1 DEF Held
    <3> QED
      BY <1>4, <1>5, <1>6, <2>1, <3>1 DEF OrderInv
  <2>3. CASE TargetsOf[c] = {} /\ c \notin OwnedCommands
    <3>1. ~Undecided'
      BY <1>8, <2>3 DEF Undecided, NoJob
    <3>2. Box # <<>> /\ Box' = Tail(Box) /\ Head(Box) = c
      BY <1>1, <1>2, <3>1, BoxOfQueueNext
    <3>3. Contract!Admit
      BY <2>1, <2>3, <3>2 DEF Contract!Admit, BarrierOwner
    <3> QED
      BY <2>2, <3>3 DEF ContractStep, Contract!Next
  <2>4. CASE ~(TargetsOf[c] = {} /\ c \notin OwnedCommands)
    <3>1. Undecided'
      BY <1>8, <2>1, <2>4 DEF Undecided, NoJob
    <3>2. Box' = <<c>> \o Tail(Waiting)
      BY <1>1, <2>1, <3>1 DEF Box
    <3>3. Box' = Box
      BY <1>1, <1>2, <3>2, HeadThenTail
    <3> QED
      BY <2>1, <2>2, <3>3, StutterContract
  <2> QED
    BY <2>3, <2>4
<1> QED
  BY <1>7, <1>8 DEF TakeCommand

LEMMA DeferContract == ASSUME TypeOK, OrderInv, Defer PROVE OrderInv' /\ ContractStep
<1>1. UNCHANGED <<reply, chan, barrier, job>> /\ Waiting' = Waiting
  BY DeferOrder DEF Defer
<1>2. JobCmd' = JobCmd /\ (Undecided' <=> Undecided) /\ Held' = Held
  BY <1>1 DEF JobCmd, Undecided, Held
<1> QED
  BY <1>1, <1>2, OrderStep, BoxKept, StutterContract

LEMMA TimeoutContract ==
  ASSUME TypeOK, OrderInv, ReadinessTimeout PROVE OrderInv' /\ ContractStep
<1>1. UNCHANGED boxVars
  BY DEF ReadinessTimeout
<1>2. CASE ZeroDue
  <2>1. JobCmd # {} /\ job.stage # "announce"
    BY <1>2 DEF ReadinessTimeout, ZeroDue, Looping, Serving, JobCmd
  <2>2. /\ job' = NoJob /\ reply' = Refusing(JobCmd)
        /\ \/ barrier'.cmd = barrier.cmd /\ chan' = Settle(JobCmd, "err")
           \/ barrier' = NoBarrier /\ chan' = Settle({barrier.cmd} \cup JobCmd, "err")
    BY <1>2 DEF ReadinessTimeout, AbortWork
  <2> QED
    BY <1>1, <2>1, <2>2, DropStep
<1>3. CASE ~ZeroDue
  <2> DEFINE none == {}
  <2>1. /\ job' = job /\ reply' = Refusing(none)
        /\ \/ barrier' = barrier /\ chan' = Settle(none, "err")
           \/ barrier' = NoBarrier /\ chan' = Settle({barrier.cmd} \cup none, "err")
    BY <1>3 DEF ReadinessTimeout, AbortWork
  <2>2. {barrier.cmd} \cup none = {barrier.cmd} /\ Settle(none, "err") = chan
    BY SettleNobody
  <2>3. Refusing(none) = reply
    BY DEF Refusing, ReplyOK
  <2> HIDE DEF none
  <2>4. JobCmd' = JobCmd /\ (Undecided' <=> Undecided)
    BY <2>1 DEF JobCmd, Undecided
  <2>5. OrderInv' /\ Box' = Box
    BY <1>1, <2>1, <2>3, <2>4, QuietOrder
  <2> QED
    BY <2>1, <2>2, <2>3, <2>5, StutterContract, EndsContract
<1> QED
  BY <1>2, <1>3

\* One event: it ends the barrier, cancels the job with it, or is not seen.
LEMMA ReceiveEffect ==
  ASSUME TypeOK, NEW dropped, Receive(dropped)
  PROVE  \/ ~Canceled /\ UNCHANGED <<reply, chan>> /\ barrier'.cmd = barrier.cmd
         \/ ~Canceled /\ UNCHANGED reply /\ barrier' = NoBarrier
            /\ chan' = Settle({barrier.cmd}, "ok")
         \/ /\ Canceled /\ reply' = Refusing(dropped)
            /\ \/ barrier'.cmd = barrier.cmd /\ chan' = Settle(dropped, "err")
               \/ barrier' = NoBarrier /\ chan' = Settle({barrier.cmd} \cup dropped, "err")
<1>1. CASE lagged > 0
  <2>1. barrier'.cmd = barrier.cmd /\ UNCHANGED <<reply, chan>>
    BY <1>1 DEF Receive, LagFact, BarrierOK
  <2> QED
    BY <1>1, <2>1 DEF Canceled
<1>2. CASE ~(lagged > 0)
  <2> DEFINE e == Head(events)
  <2>1. PingFact(e) \/ FaderFact(e) \/ PanFact(e) \/ CancelFact(e, dropped)
    BY <1>2 DEF Receive, ApplyFact
  <2>2. Canceled <=> Cancels(e)
    BY <1>2 DEF Canceled, BusOK
  <2> HIDE DEF e
  <2>3. CASE PingFact(e)
    <3>1. ~Canceled /\ UNCHANGED reply
      BY <2>2, <2>3 DEF PingFact, Cancels
    <3>2. \/ UNCHANGED chan /\ barrier'.cmd = barrier.cmd
          \/ barrier' = NoBarrier /\ chan' = Settle({barrier.cmd}, "ok")
      BY <2>3 DEF PingFact, BarrierOK
    <3> QED
      BY <3>1, <3>2
  <2>4. CASE FaderFact(e) \/ PanFact(e)
    BY <2>2, <2>4 DEF FaderFact, PanFact, Cancels
  <2>5. CASE CancelFact(e, dropped)
    <3>1. \/ barrier' = NoBarrier /\ chan' = Settle({barrier.cmd} \cup dropped, "err")
          \/ barrier' = barrier /\ chan' = Settle(dropped, "err")
      BY <2>5 DEF CancelFact, AbortWork
    <3>2. Canceled /\ reply' = Refusing(dropped)
      BY <2>2, <2>5 DEF CancelFact
    <3> QED
      BY <3>1, <3>2
  <2> QED
    BY <2>1, <2>3, <2>4, <2>5
<1> QED
  BY <1>1, <1>2

LEMMA EventContract ==
  ASSUME TypeOK, OrderInv, CallEvent \/ DrainEvent \/ MainEvent PROVE OrderInv' /\ ContractStep
<1>1. Receive(JobCmd) /\ UNCHANGED boxVars /\ job.stage # "announce"
  BY DEF CallEvent, DrainEvent, MainEvent, NoJob
<1>2. Canceled => job' = NoJob
  BY DEF CallEvent, DrainEvent, MainEvent
<1>3. ASSUME ~Canceled
      PROVE job'.kind = job.kind /\ job'.cmd = job.cmd /\ job'.stage = job.stage
  <2>1. \A j \in Jobs : /\ Retaining(j).kind = j.kind /\ Retaining(j).cmd = j.cmd
                        /\ Retaining(j).stage = j.stage
    BY DEF Retaining, Jobs
  <2>2. CASE CallEvent \/ MainEvent
    BY <1>3, <2>1, <2>2 DEF CallEvent, MainEvent, JobOK
  <2>3. CASE DrainEvent
    <3> DEFINE next == [job EXCEPT !.left = IF lagged = 0 THEN @ - 1
                                            ELSE IF @ > lagged THEN @ - lagged ELSE 0]
    <3>1. job' = Retaining(next) \/ job' = next
      BY <1>3, <2>3 DEF DrainEvent
    <3>2. /\ next.kind = job.kind /\ Retaining(next).kind = next.kind
          /\ next.cmd = job.cmd /\ Retaining(next).cmd = next.cmd
          /\ next.stage = job.stage /\ Retaining(next).stage = next.stage
      BY DEF Retaining, JobOK, Jobs
    <3> HIDE DEF next
    <3> QED
      BY <3>1, <3>2
  <2> QED
    BY <2>2, <2>3
<1>4. CASE ~Canceled
  <2>1. JobCmd' = JobCmd /\ (Undecided' <=> Undecided) /\ job'.cmd = job.cmd
    BY <1>3, <1>4, JobCmdKept DEF Undecided
  <2>2. \/ UNCHANGED <<reply, chan>> /\ barrier'.cmd = barrier.cmd
        \/ UNCHANGED reply /\ barrier' = NoBarrier /\ chan' = Settle({barrier.cmd}, "ok")
    BY <1>1, <1>4, ReceiveEffect
  <2>3. OrderInv' /\ Box' = Box
    BY <1>1, <2>1, <2>2, QuietOrder
  <2> QED
    BY <2>2, <2>3, StutterContract, EndsContract
<1>5. CASE Canceled
  <2>1. /\ job' = NoJob /\ reply' = Refusing(JobCmd)
        /\ \/ barrier'.cmd = barrier.cmd /\ chan' = Settle(JobCmd, "err")
           \/ barrier' = NoBarrier /\ chan' = Settle({barrier.cmd} \cup JobCmd, "err")
    BY <1>1, <1>2, <1>5, ReceiveEffect
  <2>2. CASE JobCmd # {}
    BY <1>1, <2>1, <2>2, DropStep
  <2>3. CASE JobCmd = {}
    <3>1. JobCmd' = {} /\ ~Undecided /\ ~Undecided' /\ Waiting' = Waiting
      BY <1>1, <2>1, <2>3 DEF JobCmd, Undecided, NoJob, Waiting
    <3>2. Box' = Box
      BY <3>1, BoxKept
    <3>3. OrderInv'
      BY <1>1, <2>1, <3>1, DropOrder
    <3>4. UNCHANGED reply /\ Settle(JobCmd, "err") = chan /\ {barrier.cmd} \cup JobCmd = {barrier.cmd}
      BY <2>1, <2>3, SettleNobody DEF Refusing, ReplyOK
    <3> QED
      BY <2>1, <3>2, <3>3, <3>4, StutterContract, EndsContract
  <2> QED
    BY <2>2, <2>3
<1> QED
  BY <1>4, <1>5

LEMMA AnnounceContract ==
  ASSUME TypeOK, OrderInv, Announce PROVE OrderInv' /\ ContractStep
<1>1. /\ job' = NoJob /\ job.stage = "announce" /\ JobCmd # {}
      /\ UNCHANGED <<boxVars, chan, barrier>>
      /\ \E result \in {"ok", "err"} : reply' = [reply EXCEPT ![job.cmd] = result]
  BY DEF Announce
<1>2. JobCmd = {job.cmd} /\ job.cmd \in Commands
  BY <1>1 DEF JobCmd, JobOK
<1>3. JobCmd' = {} /\ ~Undecided /\ ~Undecided' /\ Waiting' = Waiting
  BY <1>1 DEF JobCmd, Undecided, NoJob, Waiting
<1>4. Box' = Box /\ Box = Waiting
  BY <1>3, BoxKept, BoxOfQueue
<1>5. OrderInv'
  <2>1. \A d \in Commands : d \notin JobCmd => reply'[d] = reply[d]
    BY <1>1, <1>2 DEF ReplyOK
  <2> QED
    BY <1>3, <2>1, OrderDrop
<1>6. reply[job.cmd] = "waiting" /\ ~Contract!InBox(job.cmd)
  <2>1. reply[job.cmd] = "waiting" /\ job.cmd \notin ToSet(Waiting)
    BY <1>2 DEF OrderInv, Held
  <2> QED
    BY <1>4, <2>1 DEF Contract!InBox, ToSet
<1>7. PICK result \in {"ok", "err"} : reply' = [reply EXCEPT ![job.cmd] = result]
  BY <1>1
<1>8. Contract!Answer(job.cmd, result)
  BY <1>1, <1>4, <1>6, <1>7 DEF Contract!Answer, BarrierOwner
<1> QED
  BY <1>2, <1>5, <1>7, <1>8 DEF ContractStep, Contract!Next

\* The command of the job takes effect: it is answered now or when announced.
LEMMA AdmitStep ==
  ASSUME TypeOK, OrderInv, JobCmd # {}, job.stage # "announce", UNCHANGED boxVars,
         \/ job' = NoJob /\ reply' = [reply EXCEPT ![job.cmd] = "ok"]
         \/ job' = [job EXCEPT !.stage = "announce"] /\ UNCHANGED reply,
         \/ \E kept : Install(job.cmd, kept)
         \/ job.cmd \notin OwnedCommands /\ UNCHANGED <<barrier, chan>>
  PROVE  OrderInv' /\ ContractStep
<1>1. Undecided /\ JobCmd = {job.cmd} /\ job.cmd \in Commands /\ Waiting' = Waiting
  BY DEF Undecided, JobCmd, JobOK, Waiting
<1>2. CASE job' = NoJob /\ reply' = [reply EXCEPT ![job.cmd] = "ok"]
  <2>1. ~Undecided' /\ JobCmd' = {}
    BY <1>2 DEF Undecided, JobCmd, NoJob
  <2>2. \A d \in Commands : d \notin JobCmd => reply'[d] = reply[d]
    BY <1>1, <1>2 DEF ReplyOK
  <2> QED
    BY <1>1, <1>2, <2>1, <2>2, OrderDrop, AdmitContract
<1>3. CASE job' = [job EXCEPT !.stage = "announce"] /\ UNCHANGED reply
  <2>1. job'.kind = job.kind /\ job'.cmd = job.cmd /\ job'.stage = "announce"
    BY <1>3 DEF JobOK, Jobs
  <2>2. ~Undecided' /\ JobCmd' = JobCmd
    BY <2>1, JobCmdKept DEF Undecided
  <2> QED
    BY <1>1, <1>3, <2>2, OrderStep, AdmitContract
<1> QED
  BY <1>2, <1>3

LEMMA StopContract ==
  ASSUME TypeOK, WaiterInv, OrderInv, EngineStop PROVE OrderInv' /\ ContractStep
<1> DEFINE dropped == JobCmd \cup ToSet(deferred)
<1>1. /\ reply' = Refusing(dropped) /\ chan' = Settle({barrier.cmd} \cup dropped, "err")
      /\ job' = NoJob /\ deferred' = <<>> /\ mailbox' = <<>> /\ mailbox = <<>>
      /\ barrier' = NoBarrier
  BY DEF EngineStop
<1>2. Held = dropped
  <2>1. ToSet(<<>>) = {}
    BY DEF ToSet
  <2> QED
    BY <1>1, <2>1, WaitingSet DEF Held
<1> HIDE DEF dropped
<1>3. Waiting' = <<>> /\ JobCmd' = {} /\ ~Undecided' /\ BarrierOwner' = {}
  BY <1>1, ConcatEmptySeq DEF Waiting, JobCmd, Undecided, NoJob, BarrierOwner, NoBarrier
<1>4. Box' = <<>>
  BY <1>3, BoxOfQueueNext
<1>5. OrderInv'
  <2>1. Held' = {}
    BY <1>3 DEF Held, ToSet
  <2> QED
    BY <1>3, <2>1 DEF OrderInv
<1>6. \A c \in Commands : Contract!InBox(c) <=> c \in Held
  <2>1. JobCmd # {} => Undecided
    BY DEF EngineStop, Looping, Undecided, JobCmd
  <2>2. ToSet(Box) = Held
    <3>1. CASE Undecided
      <4>1. Box # <<>> /\ Head(Box) = job.cmd /\ Tail(Box) = Waiting /\ JobCmd = {job.cmd}
        BY <3>1, BoxOfJob
      <4>2. Box \in Seq(Commands)
        BY <3>1, BoxOfJob, InFront, WaitingSeq DEF Box
      <4>3. ToSet(Box) = {Head(Box)} \cup ToSet(Tail(Box))
        BY <4>1, <4>2, ToSetHeadTail
      <4> QED
        BY <4>1, <4>3 DEF Held
    <3>2. CASE ~Undecided
      BY <2>1, <3>2, BoxOfQueue DEF Held
    <3> QED
      BY <3>1, <3>2
  <2>3. \A c \in Commands : Contract!InBox(c) <=> c \in ToSet(Box)
    BY DEF Contract!InBox, ToSet
  <2> QED
    BY <2>2, <2>3
<1>7. reply' = [c \in Commands |-> IF Contract!InBox(c) THEN "err" ELSE reply[c]]
  BY <1>1, <1>2, <1>6 DEF Refusing
<1>8. chan' = [c \in Commands |-> IF chan[c] = "open" THEN "err" ELSE chan[c]]
  BY <1>1, <1>2 DEF Settle, WaiterInv, WaiterHeld, Held
<1>9. Contract!Stop
  BY <1>3, <1>4, <1>7, <1>8 DEF Contract!Stop
<1> QED
  BY <1>5, <1>9 DEF ContractStep, Contract!Next

\* A step that changes only the job's stage is not seen.
LEMMA QuietStep ==
  ASSUME TypeOK, OrderInv, UNCHANGED <<boxVars, reply, chan, barrier>>,
         job'.kind = job.kind \/ {job.kind, job'.kind} \subseteq {"call", "zero"},
         job'.cmd = job.cmd, job'.stage = "announce" <=> job.stage = "announce"
  PROVE  OrderInv' /\ ContractStep
<1>1. JobCmd' = JobCmd /\ (Undecided' <=> Undecided)
  BY JobCmdKept DEF Undecided
<1>2. OrderInv' /\ Box' = Box
  BY <1>1, QuietOrder
<1> QED
  BY <1>2, StutterContract

\* So is one of a tick that comes, goes out or ends.
LEMMA TickStep ==
  ASSUME TypeOK, OrderInv, UNCHANGED <<boxVars, reply, chan, barrier>>, JobCmd = {}, JobCmd' = {}
  PROVE  OrderInv' /\ ContractStep
<1>1. ~Undecided /\ ~Undecided' /\ Waiting' = Waiting
  BY DEF Undecided, Waiting
<1>2. Box' = Box
  BY <1>1, BoxKept
<1>3. OrderInv'
  BY <1>1, OrderStep
<1> QED
  BY <1>2, <1>3, StutterContract

LEMMA EngineContract ==
  ASSUME TypeOK, WaiterInv, OrderInv, Engine PROVE OrderInv' /\ ContractStep
<1>1. CASE TakeAnswer
  <2>1. UNCHANGED <<boxVars, barrier>> /\ JobCmd # {} /\ job.stage # "announce"
    BY <1>1 DEF TakeAnswer, Serving, JobCmd
  <2>2. CASE job.stage = "stale"
    BY <1>1, <2>1, <2>2, DropStep DEF TakeAnswer
  <2>3. CASE job.stage = "answered"
    <3> DEFINE next == [job EXCEPT !.stage = "draining", !.left = Backlog]
    <3>1. job' = next /\ UNCHANGED replyVars
      BY <1>1, <2>3 DEF TakeAnswer
    <3>2. next.kind = job.kind /\ next.cmd = job.cmd /\ next.stage = "draining"
      BY DEF JobOK, Jobs
    <3> HIDE DEF next
    <3> QED
      BY <2>1, <3>1, <3>2, QuietStep
  <2> QED
    BY <1>1, <2>2, <2>3 DEF TakeAnswer
<1>2. CASE DrainEnd \/ ProposeZero \/ AdmissionTurn
  <2>1. UNCHANGED <<boxVars, reply, chan, barrier>> /\ job.stage # "announce"
    BY <1>2 DEF DrainEnd, ProposeZero, AdmissionTurn
  <2>2. /\ job'.kind = job.kind \/ {job.kind, job'.kind} \subseteq {"call", "zero"}
        /\ job'.cmd = job.cmd /\ job'.stage # "announce"
    <3>1. CASE DrainEnd
      BY <3>1 DEF DrainEnd, JobOK, Jobs
    <3>2. CASE ProposeZero
      BY <3>2 DEF ProposeZero, Serving, JobOK, Jobs
    <3>3. CASE AdmissionTurn
      BY <3>3 DEF AdmissionTurn, JobOK, Jobs
    <3> QED
      BY <1>2, <3>1, <3>2, <3>3
  <2> QED
    BY <2>1, <2>2, QuietStep
<1>3. CASE Refuse
  BY <1>3, DropStep DEF Refuse, Serving, JobCmd
<1>4. CASE Admit
  <2> DEFINE kept == IF TargetsOf[job.cmd] = {} THEN targets ELSE Overlapping(job.cmd)
  <2>1. JobCmd # {} /\ job.stage # "announce" /\ UNCHANGED boxVars /\ Install(job.cmd, kept)
    BY <1>4 DEF Admit, Serving, JobCmd
  <2> HIDE DEF kept
  <2>2. \/ job' = NoJob /\ reply' = [reply EXCEPT ![job.cmd] = "ok"]
        \/ job' = [job EXCEPT !.stage = "announce"] /\ UNCHANGED reply
    BY <1>4 DEF Admit
  <2> QED
    BY <2>1, <2>2, AdmitStep
<1>5. CASE CommitZero
  <2>1. JobCmd # {} /\ job.stage # "announce" /\ UNCHANGED boxVars
    BY <1>5 DEF CommitZero, JobCmd
  <2>2. CASE ~InTime
    BY <1>5, <2>1, <2>2, DropStep DEF CommitZero, RefuseZero
  <2>3. CASE InTime
    <3> DEFINE kept == {t \in targets : t.key \notin TargetsOf[job.cmd]}
    <3>1. /\ job' = [job EXCEPT !.stage = "announce"] /\ UNCHANGED reply
          /\ \/ Install(job.cmd, kept)
             \/ job.cmd \notin OwnedCommands /\ UNCHANGED <<barrier, chan>>
      BY <1>5, <2>3 DEF CommitZero
    <3> HIDE DEF kept
    <3> QED
      BY <2>1, <3>1, AdmitStep
  <2> QED
    BY <2>2, <2>3
<1>6. CASE SendTick \/ CommitTick \/ Tick
  <2>1. JobCmd = {} /\ UNCHANGED boxVars
    <3>1. CASE SendTick \/ CommitTick
      BY <3>1 DEF SendTick, CommitTick, JobCmd
    <3>2. CASE Tick
      BY <3>2 DEF Tick, JobCmd, NoJob
    <3> QED
      BY <1>6, <3>1, <3>2
  <2>2. CASE AbortTick
    BY <2>1, <2>2, AbortStep
  <2>3. CASE ~AbortTick
    <3>1. UNCHANGED <<reply, chan, barrier>>
      BY <1>6, <2>3 DEF SendTick, CommitTick, Tick
    <3>2. job'.kind \in {"none", "tick"}
      <4>1. CASE SendTick
        <5> DEFINE props == job.props \cap ActiveKeys
        <5>1. job.kind = "tick" /\ job' = [job EXCEPT !.stage = "written", !.props = props]
          BY <2>3, <4>1 DEF SendTick
        <5> HIDE DEF props
        <5> QED
          BY <5>1 DEF JobOK, Jobs
      <4>2. CASE CommitTick
        BY <2>3, <4>2 DEF CommitTick, NoJob
      <4>3. CASE Tick
        <5>1. job = NoJob /\ (job' = job \/ job'.kind = "tick")
          BY <2>3, <4>3 DEF Tick, NoJob
        <5> QED
          BY <5>1 DEF NoJob
      <4> QED
        BY <1>6, <4>1, <4>2, <4>3
    <3>3. JobCmd' = {}
      BY <3>2 DEF JobCmd
    <3> QED
      BY <2>1, <3>1, <3>3, TickStep
  <2> QED
    BY <2>2, <2>3
<1>7. CASE SendZero
  <2>1. JobCmd # {} /\ job.stage = "draining" /\ UNCHANGED <<boxVars, barrier>>
    BY <1>7 DEF SendZero, JobCmd
  <2>2. CASE job.ok /\ InTime
    <3>1. job' = [job EXCEPT !.stage = "written"] /\ UNCHANGED replyVars
      BY <1>7, <2>2 DEF SendZero
    <3>2. job'.kind = job.kind /\ job'.cmd = job.cmd /\ job'.stage = "written"
      BY <3>1 DEF JobOK, Jobs
    <3> QED
      BY <2>1, <3>1, <3>2, QuietStep
  <2>3. CASE ~(job.ok /\ InTime)
    BY <1>7, <2>1, <2>3, DropStep DEF SendZero, RefuseZero
  <2> QED
    BY <2>2, <2>3
<1> QED
  BY <1>1, <1>2, <1>3, <1>4, <1>5, <1>6, <1>7, TimeoutContract, TakeContract, DeferContract,
     EventContract, AnnounceContract, StopContract DEF Engine

LEMMA EnvironmentContract ==
  ASSUME TypeOK, OrderInv, Environment PROVE OrderInv' /\ ContractStep
<1>1. CASE SnapshotServed \/ SnapshotFailed \/ SnapshotStale \/ Reserve
  <2>1. UNCHANGED <<boxVars, reply, chan, barrier>>
    BY <1>1 DEF SnapshotServed, SnapshotFailed, SnapshotStale, Reserve
  <2>2. /\ job'.kind = job.kind /\ job'.cmd = job.cmd
        /\ job'.stage # "announce" /\ job.stage # "announce"
    BY <1>1 DEF SnapshotServed, SnapshotFailed, SnapshotStale, Reserve, JobOK, Jobs
  <2> QED
    BY <2>1, <2>2, QuietStep
<1>2. ASSUME UNCHANGED <<boxVars, reply, chan, barrier, job>> PROVE OrderInv' /\ ContractStep
  BY <1>2, QuietStep
<1> QED
  BY <1>1, <1>2, SendContract DEF Environment, Advance, Revoke, AnnounceRevoke, DropHandles, Ping,
     Report, Lv1Lost, Lv1Returns, Overrun, Elapse

\* No command is lost, repeated or answered twice, on every step.
LEMMA OrderCorrect == Spec => [](TypeOK /\ WaiterInv /\ OrderInv)
<1>1. Init => WaiterInv /\ OrderInv
  <2> SUFFICES ASSUME Init PROVE WaiterInv /\ OrderInv
    OBVIOUS
  <2>1. TypeOK /\ deferred = <<>> /\ mailbox = <<>> /\ job = NoJob
    BY InitType DEF Init
  <2>2. Waiting = <<>> /\ JobCmd = {}
    BY <2>1, ConcatEmptySeq DEF Waiting, BoxOK, JobCmd, NoJob
  <2>3. Held = {}
    BY <2>2 DEF Held, ToSet
  <2> QED
    BY <2>2, <2>3 DEF Init, WaiterInv, WaiterHeld, OrderInv
<1>2. TypeOK /\ WaiterInv /\ OrderInv /\ [Next]_vars => WaiterInv' /\ OrderInv'
  <2> SUFFICES ASSUME TypeOK, WaiterInv, OrderInv, [Next]_vars PROVE WaiterInv' /\ OrderInv'
    OBVIOUS
  <2>1. CASE UNCHANGED vars
    BY <2>1, WaiterKept, QuietStep DEF vars, JobCmd
  <2> QED
    BY <2>1, WaiterEngine, WaiterEnvironment, EngineContract, EnvironmentContract DEF Next
<1> HIDE DEF TypeOK
<1> QED
  BY <1>1, <1>2, TypeCorrect, PTL DEF Spec

\* The engine implements the contract Scenes relies on (FadeContract): commands
\* take effect in the order they were sent although writes defer them, a newer
\* barrier supersedes the older and tells its waiter, and every refusal,
\* timeout, cancellation and the end of the loop settle what they drop.
THEOREM ContractImplemented == Spec => ImplementsContract
<1>1. Init => Contract!Init
  <2> SUFFICES ASSUME Init PROVE Contract!Init
    OBVIOUS
  <2>1. TypeOK /\ deferred = <<>> /\ mailbox = <<>> /\ job = NoJob
    BY InitType DEF Init
  <2>2. Waiting = <<>> /\ ~Undecided
    BY <2>1, ConcatEmptySeq DEF Waiting, BoxOK, Undecided, JobCmd, NoJob
  <2>3. Box = <<>> /\ BarrierOwner = {}
    BY <2>1, <2>2, BoxOfQueue DEF Init, BarrierOwner, NoBarrier
  <2> QED
    BY <2>3 DEF Init, Contract!Init
<1>2. TypeOK /\ WaiterInv /\ OrderInv /\ [Next]_vars => ContractStep
  <2> SUFFICES ASSUME TypeOK, WaiterInv, OrderInv, [Next]_vars PROVE ContractStep
    OBVIOUS
  <2>1. CASE UNCHANGED vars
    BY <2>1, QuietStep DEF vars
  <2> QED
    BY <2>1, EngineContract, EnvironmentContract DEF Next
<1> HIDE DEF TypeOK
<1> QED
  BY <1>1, <1>2, OrderCorrect, PTL
  DEF Spec, ImplementsContract, Contract!Spec, ContractStep

-----------------------------------------------------------------------------
(* Readiness                                                               *)
(*                                                                         *)
(* The engine counts pings twice: those it retained while a command was    *)
(* served, and those it takes while the barrier stands.  The proof follows *)
(* what is still in its receiver: no ping that can be counted is further   *)
(* from the last one counted than LV1 has sent since the command's         *)
(* snapshot (Counted), unless an event that cancels the command, or a      *)
(* loss, comes first.                                                      *)

-----------------------------------------------------------------------------
(* What the receiver still holds                                           *)

\* Event i is taken without anything having been lost or canceled before it.
Reached(i) == lagged = 0 /\ \A j \in 1 .. i - 1 : ~Cancels(events[j])
AllReached == Reached(Len(events) + 1)
IsPing(i) == events[i].kind = "ping"

\* Between two disconnects pings are queued in the order LV1 sent them, and
\* those after the last one are of the present session.
QueueInv ==
    /\ \A i, j \in 1 .. Len(events) :
          i < j /\ IsPing(i) /\ IsPing(j) /\ (\A k \in i .. j : ~Cancels(events[k])) =>
             events[i].seq < events[j].seq
    /\ \A i \in 1 .. Len(events) :
          IsPing(i) /\ (\A k \in i .. Len(events) : ~Cancels(events[k])) =>
             lv1Up /\ events[i].seq <= pingSeq

\* However c goes on to count pings above last, with seen counted so far: no
\* more of them are reached than LV1 sent since c's snapshot.
Counted(c, last, seen) ==
    /\ \A i \in 1 .. Len(events) : Reached(i) /\ IsPing(i) =>
          seen + events[i].seq - last <= fresh[c].pings
    /\ AllReached => lv1Up /\ session = fresh[c].session /\ seen + pingSeq - last <= fresh[c].pings

\* The pings a command has retained are in order, and older than those to come.
Behind(pings) ==
    /\ \A k, l \in 1 .. Len(pings) : k < l => pings[k] < pings[l]
    /\ \A i \in 1 .. Len(events) : Reached(i) /\ IsPing(i) =>
          \A k \in 1 .. Len(pings) : pings[k] < events[i].seq
    /\ AllReached /\ pings # <<>> => lv1Up /\ \A k \in 1 .. Len(pings) : pings[k] <= pingSeq

CountedKept(cs) == \A c \in cs, l, s \in Nat : Counted(c, l, s) => Counted(c, l, s)'
BehindKept == \A pings \in Seq(Nat) : Behind(pings) => Behind(pings)'

LEMMA QueueTypes ==
  ASSUME TypeOK
  PROVE  /\ events \in Seq(Facts) /\ Len(events) \in Nat /\ lagged \in Nat
         /\ pingSeq \in Nat /\ lv1Up \in BOOLEAN /\ session \in Nat
         /\ \A i \in 1 .. Len(events) : events[i] \in Facts /\ (IsPing(i) => events[i].seq \in Nat)
         /\ \A c \in Commands : fresh[c].pings \in Nat /\ fresh[c].session \in Nat
<1>1. /\ events \in Seq(Facts) /\ Len(events) \in Nat /\ lagged \in Nat
      /\ pingSeq \in Nat /\ lv1Up \in BOOLEAN /\ session \in Nat
  BY LenProperties, FadeBoundsAssumption DEF BusOK, WorldOK
<1>2. ASSUME NEW i \in 1 .. Len(events)
      PROVE events[i] \in Facts /\ (IsPing(i) => events[i].seq \in Nat)
  <2>1. events[i] \in Facts
    BY <1>1, ElementOfSeq
  <2> QED
    BY <2>1 DEF Facts, IsPing
<1>3. \A c \in Commands : fresh[c].pings \in Nat /\ fresh[c].session \in Nat
  BY DEF HistoryOK
<1> QED
  BY <1>1, <1>2, <1>3

LEMMA QueueKept ==
  ASSUME UNCHANGED <<events, lagged, lv1Up, session, pingSeq, fresh>>, NEW cs
  PROVE  CountedKept(cs) /\ BehindKept /\ (QueueInv => QueueInv')
<1>1. \A i : (Reached(i)' <=> Reached(i)) /\ (IsPing(i)' <=> IsPing(i))
  BY DEF Reached, IsPing, Cancels
<1>2. AllReached' <=> AllReached
  BY DEF AllReached, Reached, Cancels
<1>3. QueueInv => QueueInv'
  BY DEF QueueInv, IsPing, Cancels
<1>4. CountedKept(cs)
  BY <1>1, <1>2 DEF CountedKept, Counted
<1>5. BehindKept
  BY <1>1, <1>2 DEF BehindKept, Behind
<1> QED
  BY <1>3, <1>4, <1>5

\* An event is published: what was reached still is, and a cancellation comes
\* after it.
LEMMA ReachedAppend ==
  ASSUME TypeOK, NEW fact \in Facts, events' = Append(events, fact), UNCHANGED lagged
  PROVE  /\ Len(events') = Len(events) + 1 /\ events'[Len(events) + 1] = fact
         /\ \A i \in 1 .. Len(events) : events'[i] = events[i]
         /\ \A i \in 1 .. Len(events) : (Reached(i)' <=> Reached(i)) /\ (IsPing(i)' <=> IsPing(i))
         /\ \A i \in {Len(events) + 1} : Reached(i)' <=> AllReached
         /\ AllReached' <=> AllReached /\ ~Cancels(fact)
<1>1. /\ Len(events') = Len(events) + 1 /\ events'[Len(events) + 1] = fact
      /\ \A i \in 1 .. Len(events) : events'[i] = events[i]
      /\ Len(events) \in Nat
  BY QueueTypes, AppendProperties
<1>2. ASSUME NEW i \in 1 .. Len(events)
      PROVE (Reached(i)' <=> Reached(i)) /\ (IsPing(i)' <=> IsPing(i))
  <2>1. \A j \in 1 .. i - 1 : events'[j] = events[j]
    BY <1>1
  <2> QED
    BY <1>1, <2>1 DEF Reached, IsPing, Cancels
<1>3. PICK n \in Nat : n = Len(events)
  BY <1>1
<1>4. \A j \in 1 .. n : Cancels(events[j])' <=> Cancels(events[j])
  BY <1>1, <1>3 DEF Cancels
<1>5. AllReached <=> lagged = 0 /\ \A j \in 1 .. n : ~Cancels(events[j])
  BY <1>3 DEF AllReached, Reached
<1>6. ASSUME NEW i \in {n + 1} PROVE Reached(i)' <=> AllReached
  <2>1. i - 1 = n
    BY <1>6
  <2> QED
    BY <1>4, <1>5, <2>1 DEF Reached
<1>7. AllReached' <=> AllReached /\ ~Cancels(fact)
  <2>1. AllReached' <=> lagged' = 0 /\ \A j \in 1 .. n + 1 : ~Cancels(events[j])'
    BY <1>1, <1>3 DEF AllReached, Reached
  <2>2. Cancels(events[n + 1])' <=> Cancels(fact)
    BY <1>1, <1>3 DEF Cancels
  <2>3. 1 .. n + 1 = (1 .. n) \cup {n + 1}
    OBVIOUS
  <2> QED
    BY <1>4, <1>5, <2>1, <2>2, <2>3
<1> QED
  BY <1>1, <1>2, <1>3, <1>6, <1>7

\* Any event other than a ping leaves every count as it was; a cancellation
\* also ends what was reached.
LEMMA PublishKept ==
  ASSUME TypeOK, NEW fact \in Facts, events' = Append(events, fact), fact.kind # "ping",
         UNCHANGED <<lagged, session, pingSeq, fresh>>, Cancels(fact) \/ UNCHANGED lv1Up, NEW cs
  PROVE  CountedKept(cs) /\ BehindKept /\ (QueueInv => QueueInv')
<1>1. /\ Len(events') = Len(events) + 1 /\ events'[Len(events) + 1] = fact
      /\ \A i \in 1 .. Len(events) : events'[i] = events[i]
      /\ \A i \in 1 .. Len(events) : (Reached(i)' <=> Reached(i)) /\ (IsPing(i)' <=> IsPing(i))
      /\ AllReached' => AllReached /\ ~Cancels(fact)
      /\ Len(events) \in Nat
  BY ReachedAppend, QueueTypes
<1>2. \A i \in 1 .. Len(events') : IsPing(i)' => i \in 1 .. Len(events)
  <2>1. \A i \in {Len(events) + 1} : ~IsPing(i)'
    BY <1>1 DEF IsPing
  <2> QED
    BY <1>1, <2>1
<1>3. CountedKept(cs)
  BY <1>1, <1>2 DEF CountedKept, Counted
<1>4. BehindKept
  BY <1>1, <1>2 DEF BehindKept, Behind
<1>5. ASSUME QueueInv PROVE QueueInv'
  <2>1. \A i \in 1 .. Len(events) : Cancels(events[i])' <=> Cancels(events[i])
    BY <1>1 DEF Cancels
  <2>2. ASSUME NEW i \in 1 .. Len(events'), NEW j \in 1 .. Len(events'),
               i < j, IsPing(i)', IsPing(j)', \A k \in i .. j : ~Cancels(events[k])'
        PROVE  events'[i].seq < events'[j].seq
    <3>1. i \in 1 .. Len(events) /\ j \in 1 .. Len(events) /\ IsPing(i) /\ IsPing(j)
      BY <1>1, <1>2, <2>2
    <3>2. \A k \in i .. j : ~Cancels(events[k])
      BY <1>1, <2>1, <2>2, <3>1
    <3> QED
      BY <1>1, <1>5, <2>2, <3>1, <3>2 DEF QueueInv
  <2>3. ASSUME NEW i \in 1 .. Len(events'), IsPing(i)',
               \A k \in i .. Len(events') : ~Cancels(events[k])'
        PROVE  lv1Up' /\ events'[i].seq <= pingSeq'
    <3>1. i \in 1 .. Len(events) /\ IsPing(i)
      BY <1>1, <1>2, <2>3
    <3>2. \A k \in i .. Len(events) : ~Cancels(events[k])
      BY <1>1, <2>1, <2>3, <3>1
    <3>3. ~Cancels(fact)
      <4>1. Len(events') \in i .. Len(events')
        BY <1>1, <3>1
      <4>2. ~Cancels(events[Len(events)])'
        BY <2>3, <4>1
      <4> QED
        BY <1>1, <4>2 DEF Cancels
    <3> QED
      BY <1>1, <1>5, <3>1, <3>2, <3>3 DEF QueueInv
  <2> QED
    BY <2>2, <2>3 DEF QueueInv
<1> QED
  BY <1>3, <1>4, <1>5

\* A ping is counted for every command whose snapshot is of this session, and
\* those are the commands that may reach it.
LEMMA PingKept ==
  ASSUME TypeOK, Ping, NEW cs \in SUBSET Commands
  PROVE  CountedKept(cs) /\ BehindKept /\ (QueueInv => QueueInv')
<1> DEFINE fact == [kind |-> "ping", seq |-> pingSeq + 1]
<1>1. /\ lv1Up /\ pingSeq' = pingSeq + 1 /\ events' = Append(events, fact)
      /\ UNCHANGED <<lagged, session, lv1Up>>
      /\ fresh' = [c \in Commands |-> IF fresh[c].session = session
                                      THEN [fresh[c] EXCEPT !.pings = @ + 1] ELSE fresh[c]]
  BY DEF Ping, Publish
<1>2. pingSeq \in Nat /\ Len(events) \in Nat
  BY QueueTypes
<1>3. fact \in Facts /\ ~Cancels(fact) /\ fact.seq = pingSeq + 1 /\ fact.kind = "ping"
  BY <1>2 DEF Facts, Cancels
<1> HIDE DEF fact
<1>4. /\ Len(events') = Len(events) + 1 /\ events'[Len(events) + 1] = fact
      /\ \A i \in 1 .. Len(events) : events'[i] = events[i]
      /\ \A i \in 1 .. Len(events) : (Reached(i)' <=> Reached(i)) /\ (IsPing(i)' <=> IsPing(i))
      /\ \A i \in {Len(events) + 1} : Reached(i)' <=> AllReached
      /\ AllReached' <=> AllReached
  BY <1>1, <1>3, ReachedAppend
<1>5. \A c \in Commands :
         /\ fresh'[c].session = fresh[c].session /\ fresh[c].pings \in Nat
         /\ fresh'[c].pings = IF fresh[c].session = session THEN fresh[c].pings + 1
                              ELSE fresh[c].pings
  <2>1. \A c \in Commands : fresh[c] \in [session : Nat, pings : Nat]
    BY DEF HistoryOK
  <2> QED
    BY <1>1, <2>1
<1>6. \A i \in 1 .. Len(events') : i \in 1 .. Len(events) \/ i = Len(events) + 1
  BY <1>2, <1>4
<1>7. CountedKept(cs)
  <2> SUFFICES ASSUME NEW c \in cs, NEW l \in Nat, NEW s \in Nat, Counted(c, l, s)
               PROVE Counted(c, l, s)'
    BY DEF CountedKept
  <2>1. c \in Commands
    OBVIOUS
  <2>a. PICK f \in Nat, g \in Nat : f = fresh[c].pings /\ g = fresh'[c].pings
    BY <1>5, <2>1
  <2>b. g = (IF fresh[c].session = session THEN f + 1 ELSE f) /\ f <= g
    BY <1>5, <2>1, <2>a
  <2>c. f <= g
    BY <2>b
  <2>2. ASSUME NEW i \in 1 .. Len(events'), Reached(i)', IsPing(i)'
        PROVE  s + events'[i].seq - l <= fresh'[c].pings
    <3>1. CASE i \in 1 .. Len(events)
      <4>1. s + events[i].seq - l <= f /\ events'[i] = events[i]
        BY <1>4, <2>2, <2>a, <3>1 DEF Counted
      <4>2. events[i].seq \in Nat
        BY <1>4, <2>2, <3>1, QueueTypes
      <4>3. PICK q \in Nat : q = events[i].seq
        BY <4>2
      <4>3a. s + q - l <= f /\ s + q - l \in Int
        BY <4>1, <4>3
      <4>4. s + q - l <= g
        BY <2>c, <4>3a
      <4> QED
        BY <2>a, <4>1, <4>3, <4>4
    <3>2. CASE i = Len(events) + 1
      <4>1. AllReached
        BY <1>4, <2>2, <3>2
      <4>2. session = fresh[c].session /\ s + pingSeq - l <= f
        BY <2>a, <4>1 DEF Counted
      <4>3. PICK q \in Nat : q = pingSeq /\ events'[i].seq = q + 1
        BY <1>2, <1>3, <1>4, <3>2
      <4>4. s + (q + 1) - l <= g
        BY <2>b, <4>2, <4>3
      <4> QED
        BY <2>a, <4>3, <4>4
    <3> QED
      BY <1>6, <3>1, <3>2
  <2>3. ASSUME AllReached'
        PROVE  lv1Up' /\ session' = fresh'[c].session /\ s + pingSeq' - l <= fresh'[c].pings
    <3>1. AllReached
      BY <1>4, <2>3
    <3>2. lv1Up /\ session = fresh[c].session /\ s + pingSeq - l <= f
      BY <2>a, <3>1 DEF Counted
    <3>3. PICK q \in Nat : q = pingSeq /\ pingSeq' = q + 1
      BY <1>1, <1>2
    <3>4. g = f + 1 /\ s + (q + 1) - l <= g
      BY <2>b, <3>2, <3>3
    <3> QED
      BY <1>1, <1>5, <2>1, <2>a, <3>2, <3>3, <3>4
  <2> QED
    BY <2>2, <2>3 DEF Counted
<1>8. BehindKept
  <2> SUFFICES ASSUME NEW pings \in Seq(Nat), Behind(pings) PROVE Behind(pings)'
    BY DEF BehindKept
  <2>1. \A k \in 1 .. Len(pings) : pings[k] \in Nat
    OBVIOUS
  <2>2. ASSUME NEW i \in 1 .. Len(events'), Reached(i)', IsPing(i)', NEW k \in 1 .. Len(pings)
        PROVE  pings[k] < events'[i].seq
    <3>1. CASE i \in 1 .. Len(events)
      BY <1>4, <2>2, <3>1 DEF Behind
    <3>2. CASE i = Len(events) + 1
      <4>1. AllReached /\ pings # <<>>
        BY <1>4, <2>2, <3>2
      <4>2. pings[k] <= pingSeq
        BY <4>1 DEF Behind
      <4> QED
        BY <1>2, <1>3, <1>4, <2>1, <3>2, <4>2
    <3> QED
      BY <1>6, <3>1, <3>2
  <2>3. ASSUME AllReached', pings # <<>>, NEW k \in 1 .. Len(pings)
        PROVE  lv1Up' /\ pings[k] <= pingSeq'
    BY <1>1, <1>2, <1>4, <2>1, <2>3 DEF Behind
  <2>4. AllReached' /\ pings # <<>> => lv1Up'
    BY <1>1
  <2>5. \A k, l \in 1 .. Len(pings) : k < l => pings[k] < pings[l]
    BY DEF Behind
  <2> QED
    BY <2>2, <2>3, <2>4, <2>5 DEF Behind
<1>9. ASSUME QueueInv PROVE QueueInv'
  <2>1. \A i \in 1 .. Len(events) : Cancels(events[i])' <=> Cancels(events[i])
    BY <1>4 DEF Cancels
  <2>2. ASSUME NEW i \in 1 .. Len(events'), NEW j \in 1 .. Len(events'),
               i < j, IsPing(i)', IsPing(j)', \A k \in i .. j : ~Cancels(events[k])'
        PROVE  events'[i].seq < events'[j].seq
    <3>1. i \in 1 .. Len(events) /\ IsPing(i) /\ events'[i] = events[i]
      BY <1>2, <1>4, <2>2
    <3>2. CASE j \in 1 .. Len(events)
      <4>1. \A k \in i .. j : ~Cancels(events[k])
        BY <1>2, <2>1, <2>2, <3>1, <3>2
      <4>2. IsPing(j) /\ events'[j] = events[j]
        BY <1>4, <2>2, <3>2
      <4> QED
        BY <1>9, <2>2, <3>1, <3>2, <4>1, <4>2 DEF QueueInv
    <3>3. CASE j = Len(events) + 1
      <4>1. \A k \in i .. Len(events) : ~Cancels(events[k])
        BY <1>2, <2>1, <2>2, <3>1, <3>3
      <4>2. events[i].seq <= pingSeq /\ events[i].seq \in Nat
        BY <1>9, <3>1, <4>1, QueueTypes DEF QueueInv
      <4> QED
        BY <1>2, <1>3, <1>4, <3>1, <3>3, <4>2
    <3> QED
      BY <1>6, <3>2, <3>3
  <2>3. ASSUME NEW i \in 1 .. Len(events'), IsPing(i)',
               \A k \in i .. Len(events') : ~Cancels(events[k])'
        PROVE  lv1Up' /\ events'[i].seq <= pingSeq'
    <3>1. CASE i \in 1 .. Len(events)
      <4>1. \A k \in i .. Len(events) : ~Cancels(events[k])
        BY <1>2, <1>4, <2>1, <2>3, <3>1
      <4>2. IsPing(i) /\ events'[i] = events[i]
        BY <1>4, <2>3, <3>1
      <4>3. events[i].seq <= pingSeq /\ events[i].seq \in Nat
        BY <1>9, <3>1, <4>1, <4>2, QueueTypes DEF QueueInv
      <4> QED
        BY <1>1, <1>2, <4>2, <4>3
    <3>2. CASE i = Len(events) + 1
      BY <1>1, <1>2, <1>3, <1>4, <3>2
    <3> QED
      BY <1>6, <3>1, <3>2
  <2> QED
    BY <2>2, <2>3 DEF QueueInv
<1> QED
  BY <1>7, <1>8, <1>9

\* LV1 comes back with a session of its own: the event that announced the loss
\* is still there, or nobody counts any more.
LEMMA ReturnKept ==
  ASSUME TypeOK, Lv1Returns, NEW cs
  PROVE  CountedKept(cs) /\ BehindKept /\ (QueueInv => QueueInv')
<1>1. ~lv1Up /\ lv1Up' /\ UNCHANGED <<events, lagged, fresh>>
  BY DEF Lv1Returns
<1>2. /\ \A i : (Reached(i)' <=> Reached(i)) /\ (IsPing(i)' <=> IsPing(i))
      /\ AllReached' <=> AllReached
  BY <1>1 DEF AllReached, Reached, IsPing, Cancels
<1>3. CountedKept(cs)
  BY <1>1, <1>2 DEF CountedKept, Counted
<1>4. BehindKept
  BY <1>1, <1>2 DEF BehindKept, Behind
<1>5. QueueInv => QueueInv'
  BY <1>1 DEF QueueInv, IsPing, Cancels
<1> QED
  BY <1>3, <1>4, <1>5

\* The oldest events leave the queue.
LEMMA ShiftQueue ==
  ASSUME TypeOK, QueueInv, NEW n \in 1 .. Len(events), Len(events') = Len(events) - n,
         \A i \in 1 .. Len(events) - n : events'[i] = events[i + n],
         UNCHANGED <<lv1Up, pingSeq>>
  PROVE  QueueInv'
<1>1. Len(events) \in Nat /\ n \in Nat
  BY QueueTypes
<1>2. \A i \in 1 .. Len(events) - n :
         /\ (IsPing(i)' <=> IsPing(i + n)) /\ i + n \in 1 .. Len(events)
         /\ (Cancels(events[i])' <=> Cancels(events[i + n]))
  BY <1>1 DEF IsPing, Cancels
<1>3. ASSUME NEW i \in 1 .. Len(events) - n, NEW m \in i .. Len(events) - n,
             \A k \in i .. m : ~Cancels(events[k])'
      PROVE  \A k \in i + n .. m + n : ~Cancels(events[k])
  <2> SUFFICES ASSUME NEW k \in i + n .. m + n PROVE ~Cancels(events[k])
    OBVIOUS
  <2>1. PICK h \in i .. m : k = h + n
    <3>1. k - n \in i .. m /\ k = (k - n) + n
      BY <1>1
    <3> QED
      BY <3>1
  <2>2. h \in 1 .. Len(events) - n
    BY <1>1
  <2>3. ~Cancels(events[h])'
    BY <1>3
  <2> QED
    BY <1>2, <2>1, <2>2, <2>3
<1>4. ASSUME NEW i \in 1 .. Len(events'), NEW j \in 1 .. Len(events'),
             i < j, IsPing(i)', IsPing(j)', \A k \in i .. j : ~Cancels(events[k])'
      PROVE  events'[i].seq < events'[j].seq
  <2>1. i \in 1 .. Len(events) - n /\ j \in 1 .. Len(events) - n /\ j \in i .. Len(events) - n
    BY <1>1, <1>4
  <2>2. \A k \in i + n .. j + n : ~Cancels(events[k])
    BY <1>3, <1>4, <2>1
  <2>3. /\ i + n \in 1 .. Len(events) /\ j + n \in 1 .. Len(events) /\ i + n < j + n
        /\ IsPing(i + n) /\ IsPing(j + n)
    BY <1>1, <1>2, <1>4, <2>1
  <2>4. events[i + n].seq < events[j + n].seq
    BY <2>2, <2>3 DEF QueueInv
  <2> QED
    BY <2>1, <2>4
<1>5. ASSUME NEW i \in 1 .. Len(events'), IsPing(i)',
             \A k \in i .. Len(events') : ~Cancels(events[k])'
      PROVE  lv1Up' /\ events'[i].seq <= pingSeq'
  <2>1. \A k \in i + n .. Len(events) : ~Cancels(events[k])
    <3>1. Len(events') \in i .. Len(events) - n /\ Len(events') + n = Len(events)
      BY <1>1
    <3> QED
      BY <1>3, <1>5, <3>1
  <2> QED
    BY <1>1, <1>2, <1>5, <2>1 DEF QueueInv
<1> QED
  BY <1>4, <1>5 DEF QueueInv

\* Events are lost: nothing is reached until the receiver has noticed it.
LEMMA OverrunKept ==
  ASSUME TypeOK, Overrun, NEW cs
  PROVE  CountedKept(cs) /\ BehindKept /\ (QueueInv => QueueInv')
<1>1. PICK n \in 1 .. Len(events) :
         events' = SubSeq(events, n + 1, Len(events)) /\ lagged' = lagged + n
  BY DEF Overrun
<1>2. events \in Seq(Facts) /\ Len(events) \in Nat /\ lagged \in Nat
  BY QueueTypes
<1>3. lagged' # 0
  BY <1>1, <1>2
<1>4. ~AllReached' /\ \A i : ~Reached(i)'
  BY <1>3 DEF AllReached, Reached
<1>5. CountedKept(cs)
  BY <1>4 DEF CountedKept, Counted
<1>6. BehindKept
  BY <1>4 DEF BehindKept, Behind
<1>7. ASSUME QueueInv PROVE QueueInv'
  <2>1. \A i \in n + 1 .. Len(events) : events[i] \in Facts
    BY <1>2, ElementOfSeq
  <2>2. /\ Len(events') = Len(events) - n
        /\ \A i \in 1 .. Len(events) - n : events'[i] = events[i + n]
    BY <1>1, <1>2, <2>1, SubSeqProperties
  <2>3. UNCHANGED <<lv1Up, pingSeq>>
    BY DEF Overrun
  <2> QED
    BY <1>7, <2>2, <2>3, ShiftQueue
<1> QED
  BY <1>5, <1>6, <1>7

\* The oldest event is taken and cancels nothing: the rest moves up.
LEMMA TakenShift ==
  ASSUME TypeOK, lagged = 0, events # <<>>, ~Cancels(Head(events)), events' = Tail(events),
         UNCHANGED lagged
  PROVE  /\ Len(events) \in Nat \ {0} /\ Len(events') = Len(events) - 1
         /\ Head(events) = events[1] /\ Reached(1)
         /\ \A i \in 1 .. Len(events) - 1 :
               /\ events'[i] = events[i + 1] /\ i + 1 \in 1 .. Len(events)
               /\ (Reached(i)' <=> Reached(i + 1)) /\ (IsPing(i)' <=> IsPing(i + 1))
         /\ AllReached' <=> AllReached
<1>1. /\ Len(events) \in Nat \ {0} /\ Len(events') = Len(events) - 1
      /\ \A i \in 1 .. Len(events) - 1 : events'[i] = events[i + 1] /\ i + 1 \in 1 .. Len(events)
      /\ Head(events) = events[1]
  BY QueueTypes, HeadTailProperties, EmptySeq
<1>2. ASSUME NEW i \in 1 .. Len(events) PROVE Reached(i)' <=> Reached(i + 1)
  <2>1. Reached(i)' <=> \A j \in 1 .. i - 1 : ~Cancels(events[j + 1])
    BY <1>1 DEF Reached, Cancels
  <2>2. Reached(i + 1) <=> \A j \in 1 .. i : ~Cancels(events[j])
    BY <1>1 DEF Reached
  <2>3. \A j \in 1 .. i : j = 1 \/ (j - 1 \in 1 .. i - 1 /\ (j - 1) + 1 = j)
    BY <1>1
  <2>4. \A j \in 1 .. i - 1 : j + 1 \in 1 .. i
    BY <1>1
  <2> QED
    BY <1>1, <2>1, <2>2, <2>3, <2>4
<1>3. AllReached' <=> AllReached
  <2>1. Len(events) \in 1 .. Len(events) /\ Len(events') + 1 = Len(events)
    BY <1>1
  <2>2. PICK n \in 1 .. Len(events) : n = Len(events)
    BY <2>1
  <2>3. Reached(n)' <=> Reached(n + 1)
    BY <1>2
  <2>4. AllReached <=> Reached(n + 1)
    BY <2>2 DEF AllReached
  <2>5. AllReached' <=> Reached(n)'
    BY <2>1, <2>2 DEF AllReached, Reached
  <2> QED
    BY <2>3, <2>4, <2>5
<1>4. \A i \in 1 .. Len(events) - 1 : IsPing(i)' <=> IsPing(i + 1)
  BY <1>1 DEF IsPing
<1>5. Reached(1)
  BY DEF Reached
<1>6. \A i \in 1 .. Len(events) - 1 : i \in 1 .. Len(events)
  BY <1>1
<1> QED
  BY <1>1, <1>2, <1>3, <1>4, <1>5, <1>6

\* What is said of the queue holds of the rest of it.
LEMMA TakenKept ==
  ASSUME TypeOK, lagged = 0, events # <<>>, ~Cancels(Head(events)), events' = Tail(events),
         UNCHANGED <<lagged, lv1Up, session, pingSeq, fresh>>, NEW cs
  PROVE  CountedKept(cs) /\ BehindKept /\ (QueueInv => QueueInv')
<1>1. /\ Len(events) \in Nat \ {0} /\ Len(events') = Len(events) - 1
      /\ \A i \in 1 .. Len(events) - 1 :
            /\ events'[i] = events[i + 1] /\ i + 1 \in 1 .. Len(events)
            /\ (Reached(i)' <=> Reached(i + 1)) /\ (IsPing(i)' <=> IsPing(i + 1))
      /\ AllReached' <=> AllReached
  BY TakenShift
<1>2. CountedKept(cs)
  BY <1>1 DEF CountedKept, Counted
<1>3. BehindKept
  BY <1>1 DEF BehindKept, Behind
<1>4. QueueInv => QueueInv'
  <2>1. 1 \in 1 .. Len(events)
    BY <1>1
  <2> QED
    BY <1>1, <2>1, ShiftQueue
<1> QED
  BY <1>2, <1>3, <1>4

\* A ping above the last one is one more of those LV1 sent.
LEMMA TakenPing ==
  ASSUME TypeOK, lagged = 0, events # <<>>, Head(events).kind = "ping", events' = Tail(events),
         UNCHANGED <<lagged, lv1Up, session, pingSeq, fresh>>,
         NEW q \in Nat, q = Head(events).seq,
         NEW c \in Commands, NEW l \in Nat, NEW s \in Nat, Counted(c, l, s)
  PROVE  /\ s + q - l <= fresh[c].pings
         /\ q > l => s + 1 <= fresh[c].pings /\ Counted(c, q, s + 1)'
<1>1. /\ Len(events) \in Nat \ {0} /\ Len(events') = Len(events) - 1
      /\ Head(events) = events[1] /\ Reached(1)
      /\ \A i \in 1 .. Len(events) - 1 :
            /\ events'[i] = events[i + 1] /\ i + 1 \in 1 .. Len(events)
            /\ (Reached(i)' <=> Reached(i + 1)) /\ (IsPing(i)' <=> IsPing(i + 1))
      /\ AllReached' <=> AllReached
  BY TakenShift DEF Cancels
<1>2. 1 \in 1 .. Len(events) /\ IsPing(1)
  BY <1>1 DEF IsPing
<1>4. s + q - l <= fresh[c].pings /\ fresh[c].pings \in Nat /\ pingSeq \in Nat
  BY <1>1, <1>2, QueueTypes DEF Counted
<1>5. ASSUME q > l PROVE s + 1 <= fresh[c].pings /\ Counted(c, q, s + 1)'
  <2>1. s + 1 <= fresh[c].pings
    BY <1>4, <1>5
  <2>4. \A n \in Nat : s + n - l <= fresh[c].pings => (s + 1) + n - q <= fresh[c].pings
    <3>1. PICK d \in Nat : q = l + 1 + d
      <4>1. q - l - 1 \in Nat /\ q = l + 1 + (q - l - 1)
        BY <1>5
      <4> QED
        BY <4>1
    <3>2. \A n, m \in Nat : s + n - l <= m => (s + 1) + n - (l + 1 + d) <= m
      OBVIOUS
    <3> QED
      BY <1>4, <3>1, <3>2
  <2>2. ASSUME NEW i \in 1 .. Len(events'), Reached(i)', IsPing(i)'
        PROVE  (s + 1) + events'[i].seq - q <= fresh'[c].pings
    <3>1. s + events[i + 1].seq - l <= fresh[c].pings /\ events'[i] = events[i + 1]
      BY <1>1, <2>2 DEF Counted
    <3>2. PICK n \in Nat : n = events[i + 1].seq
      BY <1>1, <2>2, QueueTypes
    <3>3. (s + 1) + n - q <= fresh[c].pings
      BY <2>4, <3>1, <3>2
    <3> QED
      BY <3>1, <3>2, <3>3
  <2>3. ASSUME AllReached'
        PROVE  /\ lv1Up' /\ session' = fresh'[c].session
               /\ (s + 1) + pingSeq' - q <= fresh'[c].pings
    BY <1>1, <1>4, <2>3, <2>4 DEF Counted
  <2> QED
    BY <2>1, <2>2, <2>3 DEF Counted
<1> QED
  BY <1>4, <1>5

\* A ping that is retained is the newest so far, and older than the rest.
LEMMA TakenRetained ==
  ASSUME TypeOK, QueueInv, lagged = 0, events # <<>>, Head(events).kind = "ping",
         events' = Tail(events), UNCHANGED <<lagged, lv1Up, session, pingSeq, fresh>>,
         NEW pings \in Seq(Nat), Behind(pings), NEW q \in Nat, q = Head(events).seq
  PROVE  Behind(Append(pings, q))'
<1>1. /\ Len(events) \in Nat \ {0} /\ Len(events') = Len(events) - 1
      /\ Head(events) = events[1] /\ Reached(1)
      /\ \A i \in 1 .. Len(events) - 1 :
            /\ events'[i] = events[i + 1] /\ i + 1 \in 1 .. Len(events)
            /\ (Reached(i)' <=> Reached(i + 1)) /\ (IsPing(i)' <=> IsPing(i + 1))
      /\ AllReached' <=> AllReached
  BY TakenShift DEF Cancels
<1>2. 1 \in 1 .. Len(events) /\ IsPing(1) /\ events[1].seq = q /\ ~Cancels(events[1])
  BY <1>1 DEF IsPing, Cancels
<1>3. PICK more \in Seq(Nat) : more = Append(pings, q)
  BY AppendProperties
<1>4. /\ Len(more) = Len(pings) + 1 /\ Len(pings) \in Nat /\ more[Len(pings) + 1] = q
      /\ \A k \in 1 .. Len(pings) : more[k] = pings[k] /\ pings[k] \in Nat
      /\ \A k \in 1 .. Len(more) : k \in 1 .. Len(pings) \/ k = Len(pings) + 1
  BY <1>3, AppendProperties, LenProperties
<1>5. \A k \in 1 .. Len(pings) : pings[k] < q
  BY <1>1, <1>2 DEF Behind
<1>6. ASSUME NEW i \in 1 .. Len(events'), Reached(i)', IsPing(i)', NEW k \in 1 .. Len(more)
      PROVE  more[k] < events'[i].seq
  <2>1. i \in 1 .. Len(events) - 1 /\ Reached(i + 1) /\ IsPing(i + 1)
    BY <1>1, <1>6
  <2>2. CASE k \in 1 .. Len(pings)
    BY <1>1, <1>4, <2>1, <2>2 DEF Behind
  <2>3. CASE k = Len(pings) + 1
    <3>1. \A h \in 1 .. i : ~Cancels(events[h])
      BY <1>1, <2>1 DEF Reached
    <3>2. ~Cancels(events[i + 1])
      BY <2>1 DEF IsPing, Cancels
    <3>3. \A h \in 1 .. i + 1 : ~Cancels(events[h])
      <4>1. \A h \in 1 .. i + 1 : h \in 1 .. i \/ h = i + 1
        BY <2>1
      <4> QED
        BY <3>1, <3>2, <4>1
    <3>4. 1 < i + 1 /\ i + 1 \in 1 .. Len(events)
      BY <1>1, <2>1
    <3>5. events[1].seq < events[i + 1].seq
      BY <1>2, <2>1, <3>3, <3>4 DEF QueueInv
    <3> QED
      BY <1>1, <1>2, <1>4, <2>1, <2>3, <3>5
  <2> QED
    BY <1>4, <2>2, <2>3
<1>7. ASSUME AllReached', NEW k \in 1 .. Len(more) PROVE lv1Up' /\ more[k] <= pingSeq'
  <2>1. \A h \in 1 .. Len(events) : ~Cancels(events[h])
    <3>1. Len(events) + 1 - 1 = Len(events)
      BY <1>1
    <3> QED
      BY <1>1, <1>7, <3>1 DEF AllReached, Reached
  <2>2. lv1Up /\ q <= pingSeq
    BY <1>2, <2>1 DEF QueueInv
  <2>3. more[k] <= q
    BY <1>4, <1>5
  <2>4. more[k] \in Nat /\ pingSeq \in Nat
    BY <1>4, QueueTypes
  <2>5. more[k] <= pingSeq
    BY <2>2, <2>3, <2>4
  <2> QED
    BY <2>2, <2>5
<1>8. \A k, m \in 1 .. Len(more) : k < m => more[k] < more[m]
  <2> SUFFICES ASSUME NEW k \in 1 .. Len(more), NEW m \in 1 .. Len(more), k < m
               PROVE more[k] < more[m]
    OBVIOUS
  <2>1. k \in 1 .. Len(pings)
    BY <1>4
  <2> QED
    BY <1>4, <1>5, <2>1 DEF Behind
<1>9. AllReached' => lv1Up'
  <2>1. Len(more) \in 1 .. Len(more)
    BY <1>4
  <2> QED
    BY <1>7, <2>1
<1>10. Behind(more)'
  BY <1>6, <1>7, <1>8, <1>9 DEF Behind
<1>11. Behind(more)' <=> Behind(Append(pings, q))'
  BY <1>3
<1> QED
  BY <1>10, <1>11

\* The oldest retained ping may be forgotten.
LEMMA BehindTail ==
  ASSUME NEW pings \in Seq(Nat), pings # <<>>, Behind(pings) PROVE Behind(Tail(pings))
<1>1. PICK rest \in Seq(Nat) : rest = Tail(pings)
  BY HeadTailProperties
<1>2. /\ Len(rest) = Len(pings) - 1 /\ Len(pings) \in Nat \ {0}
      /\ \A k \in 1 .. Len(rest) : k + 1 \in 1 .. Len(pings) /\ rest[k] = pings[k + 1]
  BY <1>1, HeadTailProperties, EmptySeq
<1>3. Behind(rest)
  <2>1. ASSUME NEW k \in 1 .. Len(rest), NEW l \in 1 .. Len(rest), k < l PROVE rest[k] < rest[l]
    <3>1. /\ k + 1 \in 1 .. Len(pings) /\ l + 1 \in 1 .. Len(pings) /\ k + 1 < l + 1
          /\ rest[k] = pings[k + 1] /\ rest[l] = pings[l + 1]
      BY <1>2, <2>1
    <3> QED
      BY <3>1 DEF Behind
  <2>2. \A i \in 1 .. Len(events) : Reached(i) /\ IsPing(i) =>
           \A k \in 1 .. Len(rest) : rest[k] < events[i].seq
    BY <1>2 DEF Behind
  <2>3. AllReached => lv1Up /\ \A k \in 1 .. Len(rest) : rest[k] <= pingSeq
    <3>1. AllReached => lv1Up /\ \A k \in 1 .. Len(pings) : pings[k] <= pingSeq
      BY DEF Behind
    <3> QED
      BY <1>2, <3>1
  <2> QED
    BY <2>1, <2>2, <2>3 DEF Behind
<1> QED
  BY <1>1, <1>3

-----------------------------------------------------------------------------
(* Readiness is proved: the barrier                                        *)

\* What is counted for the barrier LV1 has sent, and so is what will be.
BarrierInv ==
    Barrier /\ ~barrier.missed =>
       /\ barrier.seen <= fresh[barrier.cmd].pings
       /\ Counted(barrier.cmd, barrier.last, barrier.seen)

\* Readiness reported by a step is proved.
Proved ==
    \A c \in Commands : chan[c] = "open" /\ chan'[c] = "ok" =>
        now < deadline[c] /\ fresh[c].pings >= PingsRequired

LEMMA BarrierCommand ==
  ASSUME TypeOK, Barrier
  PROVE  /\ barrier.cmd \in Commands /\ barrier.last \in Nat /\ barrier.seen \in Nat
         /\ BarrierOwner = {barrier.cmd}
BY BarrierCmd, CommandsAssumption DEF BarrierOK, BarrierOwner, MaybeCmd

LEMMA NoBarrierLeft == ASSUME barrier' = NoBarrier PROVE BarrierInv'
BY DEF BarrierInv, Barrier

LEMMA BarrierKept ==
  ASSUME TypeOK, BarrierInv, UNCHANGED barrier, CountedKept(BarrierOwner),
         \A c \in BarrierOwner : fresh[c].pings <= fresh'[c].pings /\ fresh'[c].pings \in Nat
  PROVE  BarrierInv'
<1> SUFFICES ASSUME Barrier, ~barrier.missed
             PROVE  /\ barrier.seen <= fresh'[barrier.cmd].pings
                    /\ Counted(barrier.cmd, barrier.last, barrier.seen)'
  BY DEF BarrierInv, Barrier
<1>1. PICK c \in BarrierOwner, l \in Nat, s \in Nat :
         c \in Commands /\ c = barrier.cmd /\ l = barrier.last /\ s = barrier.seen
  BY BarrierCommand
<1>2. s <= fresh[c].pings /\ Counted(c, l, s)
  BY <1>1 DEF BarrierInv
<1>3. Counted(c, l, s)'
  BY <1>2 DEF CountedKept
<1>4. Counted(barrier.cmd, barrier.last, barrier.seen)'
  BY <1>1, <1>3 DEF Counted
<1>5. s <= fresh'[c].pings
  BY <1>1, <1>2, QueueTypes
<1> QED
  BY <1>1, <1>4, <1>5

\* An event keeps the count, and only the ping that proves readiness reports it.
LEMMA BarrierReceive ==
  ASSUME TypeOK, QueueInv, BarrierInv, NEW dropped, Receive(dropped),
         UNCHANGED <<lv1Up, session, pingSeq, fresh>>
  PROVE  BarrierInv' /\ QueueInv' /\ Proved
<1>1. CASE lagged > 0
  <2>1. UNCHANGED <<events, chan>> /\ LagFact
    BY <1>1 DEF Receive, LagFact
  <2>2. QueueInv'
    BY <2>1 DEF QueueInv, IsPing, Cancels
  <2>3. BarrierInv'
    <3>1. CASE Barrier
      <4>1. barrier'.missed
        BY <2>1, <3>1 DEF LagFact, BarrierOK
      <4> QED
        BY <4>1 DEF BarrierInv
    <3>2. CASE ~Barrier
      BY <2>1, <3>2, NoBarrierLeft DEF LagFact, Barrier
    <3> QED
      BY <3>1, <3>2
  <2>4. Proved
    BY <2>1 DEF Proved
  <2> QED
    BY <2>2, <2>3, <2>4
<1>2. CASE ~(lagged > 0)
  <2>1. /\ lagged = 0 /\ events # <<>> /\ events' = Tail(events) /\ UNCHANGED lagged
        /\ ApplyFact(Head(events), dropped)
    BY <1>2, QueueTypes DEF Receive
  <2>2. PICK e \in Facts : e = Head(events)
    BY <2>1, QueueTypes, HeadTailProperties
  <2>3. PingFact(e) \/ FaderFact(e) \/ PanFact(e) \/ CancelFact(e, dropped)
    BY <2>1, <2>2 DEF ApplyFact
  <2>4. CASE Cancels(e)
    <3>1. CancelFact(e, dropped)
      BY <2>3, <2>4 DEF PingFact, FaderFact, PanFact, Cancels
    <3>2. barrier' = NoBarrier
      BY <3>1 DEF CancelFact, AbortWork, Barrier
    <3>3. \A c \in Commands : chan'[c] = "ok" => chan[c] = "ok"
      BY <3>1 DEF CancelFact, AbortWork, Settle
    <3>4. QueueInv'
      <4>1. /\ 1 \in 1 .. Len(events) /\ Len(events') = Len(events) - 1
            /\ \A i \in 1 .. Len(events) - 1 : events'[i] = events[i + 1]
        BY <2>1, QueueTypes, HeadTailProperties, EmptySeq
      <4> QED
        BY <4>1, ShiftQueue
    <3> QED
      BY <3>2, <3>3, <3>4, NoBarrierLeft DEF Proved
  <2>5. CASE ~Cancels(e)
    <3>1. CountedKept(BarrierOwner) /\ QueueInv'
      BY <2>1, <2>2, <2>5, TakenKept
    <3>2. UNCHANGED barrier => BarrierInv'
      <4>1. \A c \in BarrierOwner : fresh[c].pings \in Nat
        BY QueueTypes, BarrierCommand, BarrierCmd DEF BarrierOwner, Barrier
      <4>2. \A c \in BarrierOwner : fresh[c].pings <= fresh'[c].pings /\ fresh'[c].pings \in Nat
        BY <4>1
      <4> QED
        BY <3>1, <4>2, BarrierKept
    <3>3. CASE FaderFact(e) \/ PanFact(e)
      BY <3>1, <3>2, <3>3 DEF FaderFact, PanFact, Proved
    <3>4. CASE PingFact(e)
      <4>1. CASE ~Counts(e.seq)
        BY <3>1, <3>2, <3>4, <4>1 DEF PingFact, Proved
      <4>2. CASE Counts(e.seq)
        <5>1. Barrier /\ ~barrier.missed /\ e.seq > barrier.last /\ now < deadline[barrier.cmd]
          BY <4>2 DEF Counts
        <5>2. PICK c \in Commands, l \in Nat, s \in Nat :
                 c = barrier.cmd /\ l = barrier.last /\ s = barrier.seen
          BY <5>1, BarrierCommand
        <5>3. e.kind = "ping" /\ e.seq \in Nat
          BY <2>2, <3>4 DEF PingFact, Facts
        <5>4. PICK q \in Nat : q = e.seq
          BY <5>3
        <5>5. Counted(c, l, s) /\ q > l
          BY <5>1, <5>2, <5>4 DEF BarrierInv
        <5>6. s + 1 <= fresh[c].pings /\ Counted(c, q, s + 1)'
          BY <2>1, <2>2, <5>3, <5>4, <5>5, TakenPing
        <5>7. CASE s + 1 < PingsRequired
          <6>1. barrier' = [barrier EXCEPT !.last = q, !.seen = s + 1] /\ UNCHANGED chan
            BY <3>4, <4>2, <5>2, <5>4, <5>7 DEF PingFact
          <6>2. barrier'.cmd = c /\ barrier'.last = q /\ barrier'.seen = s + 1
            BY <5>2, <6>1 DEF BarrierOK
          <6>3. Counted(barrier.cmd, barrier.last, barrier.seen)'
            BY <5>6, <6>2 DEF Counted
          <6> QED
            BY <3>1, <5>6, <6>1, <6>2, <6>3 DEF BarrierInv, Proved
        <5>8. CASE ~(s + 1 < PingsRequired)
          <6>1. barrier' = NoBarrier /\ chan' = Settle({c}, "ok")
            BY <3>4, <4>2, <5>2, <5>4, <5>8 DEF PingFact
          <6>2. fresh[c].pings >= PingsRequired
            BY <5>6, <5>8, QueueTypes, FadeBoundsAssumption
          <6>3. \A d \in Commands : chan[d] = "open" /\ chan'[d] = "ok" => d = c
            BY <6>1 DEF Settle
          <6> QED
            BY <3>1, <5>1, <5>2, <6>1, <6>2, <6>3, NoBarrierLeft DEF Proved
        <5> QED
          BY <5>7, <5>8
      <4> QED
        BY <4>1, <4>2
    <3> QED
      BY <2>3, <2>5, <3>3, <3>4 DEF CancelFact
  <2> QED
    BY <2>4, <2>5
<1> QED
  BY <1>1, <1>2

-----------------------------------------------------------------------------
(* Readiness is proved: the command being served                           *)

\* The job may come to install a barrier that counts from its snapshot.
Relevant ==
    /\ ~job.lagged /\ job.stage # "announce"
    /\ job.kind = "call" \/ (job.kind = "zero" /\ job.cmd \in OwnedCommands)
Answered ==
    /\ job.stage \in {"answered", "draining", "admitting", "reserving", "granted", "refused",
                      "written"}
    /\ job.up

\* How many facts the job still takes before it is decided, and that one of them
\* will cancel it or take its pings.
Window == IF job.stage = "answered" THEN Backlog
          ELSE IF job.stage = "draining" THEN job.left ELSE 0
Doomed == Window > 0 /\ (lagged > 0 \/ \E j \in 1 .. Len(events) : j <= Window /\ Cancels(events[j]))

\* No retained ping is further from the snapshot than LV1 has sent since.
Within(pings, c, base) == \A k \in 1 .. Len(pings) : pings[k] - base <= fresh[c].pings

RetainedInv == Relevant => Behind(job.pings)
SnapshotInv ==
    Relevant /\ Answered /\ ~Doomed =>
        Counted(job.cmd, job.base, 0) /\ Within(job.pings, job.cmd, job.base)

LEMMA CountedFurther ==
  ASSUME TypeOK, NEW c \in Commands, NEW l \in Nat, NEW s \in Nat, Counted(c, l, s),
         NEW m \in Nat, NEW n \in Nat, n + l <= s + m
  PROVE  Counted(c, m, n)
<1>1. \A x, y \in Nat : s + x - l <= y => n + x - m <= y
  OBVIOUS
<1>2. fresh[c].pings \in Nat /\ pingSeq \in Nat
  BY QueueTypes
<1>3. ASSUME NEW i \in 1 .. Len(events), Reached(i), IsPing(i)
      PROVE  n + events[i].seq - m <= fresh[c].pings
  BY <1>1, <1>2, <1>3, QueueTypes DEF Counted
<1>4. AllReached => /\ lv1Up /\ session = fresh[c].session
                    /\ n + pingSeq - m <= fresh[c].pings
  BY <1>1, <1>2 DEF Counted
<1> QED
  BY <1>3, <1>4 DEF Counted

\* Increasing pings above the snapshot's are at most as many as their distance.
LEMMA PingsAbove ==
  ASSUME NEW pings \in Seq(Nat), \A k, l \in 1 .. Len(pings) : k < l => pings[k] < pings[l],
         NEW base \in Nat, NEW counted, counted = {i \in DOMAIN pings : pings[i] > base},
         counted # {}
  PROVE  /\ Len(pings) \in 1 .. Len(pings) /\ Last(pings) = pings[Len(pings)]
         /\ Last(pings) \in Nat /\ Cardinality(counted) \in Nat
         /\ Cardinality(counted) + base <= Last(pings)
<1>1. DOMAIN pings = 1 .. Len(pings) /\ Len(pings) \in Nat
  BY LenProperties
<1>2. PICK n \in Nat : n = Len(pings) /\ DOMAIN pings = 1 .. n
  BY <1>1
<1>3. n \in 1 .. n
  BY <1>2
<1>4. PICK m \in Nat : m = pings[n]
  BY <1>2, <1>3, ElementOfSeq
<1>5. Last(pings) = m
  BY <1>2, <1>4 DEF Last
<1>6. \A i \in counted : i \in 1 .. n /\ pings[i] \in Nat /\ base + 1 <= pings[i] /\ pings[i] <= m
  <2> SUFFICES ASSUME NEW i \in counted
               PROVE i \in 1 .. n /\ pings[i] \in Nat /\ base + 1 <= pings[i] /\ pings[i] <= m
    OBVIOUS
  <2>1. i \in 1 .. n /\ pings[i] > base
    BY <1>2
  <2>2. pings[i] \in Nat
    BY <1>2, <2>1, ElementOfSeq
  <2>3. i = n \/ i < n
    BY <2>1
  <2>4. pings[i] <= m
    BY <1>2, <1>3, <1>4, <2>1, <2>2, <2>3
  <2> QED
    BY <2>1, <2>2, <2>4
<1> DEFINE f == [i \in counted |-> pings[i]]
<1>7. f \in [counted -> base + 1 .. m]
  BY <1>6
<1>8. \A i, j \in counted : f[i] = f[j] => i = j
  <2> SUFFICES ASSUME NEW i \in counted, NEW j \in counted, i # j PROVE pings[i] # pings[j]
    OBVIOUS
  <2>1. i \in 1 .. n /\ j \in 1 .. n /\ pings[i] \in Nat /\ pings[j] \in Nat
    BY <1>6
  <2>2. i < j \/ j < i
    BY <2>1
  <2> QED
    BY <1>2, <2>1, <2>2
<1>9. f \in Injection(counted, base + 1 .. m)
  BY <1>7, <1>8 DEF Injection, IsInjective
<1>10. base + 1 \in Int /\ m \in Int /\ base + 1 <= m
  BY <1>6
<1>11. IsFiniteSet(base + 1 .. m) /\ Cardinality(base + 1 .. m) = m - base
  <2>1. ~(base + 1 > m) /\ m - (base + 1) + 1 = m - base
    BY <1>10
  <2>2. IsFiniteSet(base + 1 .. m) /\ Cardinality(base + 1 .. m) = m - (base + 1) + 1
    BY <1>10, <2>1, FS_Interval
  <2> QED
    BY <2>1, <2>2
<1>12. IsFiniteSet(counted) /\ Cardinality(counted) <= m - base
  BY <1>9, <1>11, FS_Injection
<1>13. Cardinality(counted) \in Nat
  BY <1>12, FS_CardinalityType
<1> QED
  BY <1>2, <1>3, <1>4, <1>5, <1>12, <1>13

\* A barrier is installed with what was certified, and readiness is reported at
\* once only if the retained pings prove it.
LEMMA InstallProved ==
  ASSUME TypeOK, RetainedInv, SnapshotInv, ~job.lagged => Relevant, Answered, Window = 0,
         NEW c \in Commands, c = job.cmd, now < deadline[c], NEW kept, Install(c, kept),
         UNCHANGED <<events, lagged, lv1Up, session, pingSeq, fresh>>
  PROVE  BarrierInv' /\ Proved
<1> DEFINE counted == IF job.lagged THEN {}
                      ELSE {i \in DOMAIN job.pings : job.pings[i] > job.base}
           superseded == Settle({barrier.cmd}, "err")
           n == Cardinality(counted)
           installed == [cmd |-> c, last |-> IF counted = {} THEN job.base ELSE Last(job.pings),
                         seen |-> n, missed |-> job.lagged]
<1>1. IF n >= PingsRequired
      THEN barrier' = NoBarrier /\ chan' = [superseded EXCEPT ![c] = IF @ = "open" THEN "ok" ELSE @]
      ELSE barrier' = installed /\ chan' = superseded
  BY DEF Install
<1>2. n \in Nat /\ (counted = {} => n = 0)
  BY CountedType, FS_EmptySet
<1>3. job.pings \in Seq(Nat) /\ job.base \in Nat /\ job.lagged \in BOOLEAN
  BY DEF JobOK, Jobs
<1>4. CASE job.lagged
  <2>1. n = 0 /\ ~(n >= PingsRequired)
    BY <1>2, <1>4, FadeBoundsAssumption
  <2> HIDE DEF n, counted
  <2>2. barrier'.missed /\ chan' = superseded
    BY <1>1, <1>4, <2>1
  <2> QED
    BY <2>2 DEF BarrierInv, Proved, Settle
<1>5. CASE ~job.lagged
  <2>1. ~Doomed
    BY DEF Doomed
  <2>2. PICK pings \in Seq(Nat), base \in Nat : pings = job.pings /\ base = job.base
    BY <1>3
  <2>3. Behind(pings) /\ Counted(c, base, 0) /\ Within(pings, c, base)
    BY <1>5, <2>1, <2>2 DEF RetainedInv, SnapshotInv
  <2>4. counted = {i \in DOMAIN pings : pings[i] > base}
    BY <1>5, <2>2
  <2>5. PICK m \in Nat : m = IF counted = {} THEN base ELSE Last(pings)
    <3>1. counted # {} => Last(pings) \in Nat
      BY <2>2, CountedType
    <3> QED
      BY <3>1
  <2> HIDE DEF counted
  <2>6. n + base <= m /\ n <= fresh[c].pings
    <3>1. CASE counted = {}
      BY <1>2, <2>5, <3>1, QueueTypes
    <3>2. CASE counted # {}
      <4>1. \A k, l \in 1 .. Len(pings) : k < l => pings[k] < pings[l]
        BY <2>3 DEF Behind
      <4>2. Len(pings) \in 1 .. Len(pings) /\ m = pings[Len(pings)] /\ n + base <= m
        BY <2>4, <2>5, <3>2, <4>1, PingsAbove
      <4>3. PICK f \in Nat : f = fresh[c].pings
        BY QueueTypes
      <4>4. m - base <= f
        BY <2>3, <4>2, <4>3 DEF Within
      <4>5. n <= f
        BY <1>2, <4>2, <4>4
      <4> QED
        BY <4>2, <4>3, <4>5
    <3> QED
      BY <3>1, <3>2
  <2>7. PICK s \in Nat : s = n
    BY <1>2
  <2> HIDE DEF n
  <2>8. Counted(c, m, s)
    BY <2>3, <2>6, <2>7, CountedFurther
  <2>9. Counted(c, m, s)'
    BY <2>8, QueueKept DEF CountedKept
  <2>10. CASE n >= PingsRequired
    <3>1. barrier' = NoBarrier
      BY <1>1, <2>10
    <3>2. \A d \in Commands : chan[d] = "open" /\ chan'[d] = "ok" => d = c
      <4>1. superseded \in [Commands -> {"none", "open", "ok", "err"}]
        BY SettleType
      <4>2. \A d \in Commands : superseded[d] = "ok" => chan[d] = "ok"
        BY DEF Settle
      <4> HIDE DEF superseded
      <4> QED
        BY <1>1, <2>10, <4>1, <4>2
    <3>3. fresh[c].pings >= PingsRequired
      BY <1>2, <2>6, <2>10, QueueTypes, FadeBoundsAssumption
    <3> QED
      BY <3>1, <3>2, <3>3, NoBarrierLeft DEF Proved
  <2>11. CASE ~(n >= PingsRequired)
    <3>1. barrier' = installed /\ chan' = superseded
      BY <1>1, <2>11
    <3>2. barrier'.cmd = c /\ barrier'.last = m /\ barrier'.seen = s
      BY <2>2, <2>5, <2>7, <3>1
    <3>3. Counted(barrier.cmd, barrier.last, barrier.seen)'
      BY <2>9, <3>2 DEF Counted
    <3>4. barrier'.seen <= fresh'[barrier'.cmd].pings
      BY <2>6, <2>7, <3>2
    <3>5. Proved
      BY <3>1 DEF Proved, Settle
    <3> QED
      BY <3>3, <3>4, <3>5 DEF BarrierInv
  <2> QED
    BY <2>10, <2>11
<1> QED
  BY <1>3, <1>4, <1>5

-----------------------------------------------------------------------------
(* Readiness is proved: steps of the job                                   *)

JobInv == RetainedInv /\ SnapshotInv

\* A job that is not to install a barrier claims nothing.
LEMMA JobGone == ASSUME ~Relevant' PROVE JobInv'
BY DEF JobInv, RetainedInv, SnapshotInv

LEMMA NoJobLeft == ASSUME job' = NoJob PROVE JobInv'
<1>1. ~Relevant'
  BY DEF Relevant, NoJob
<1> QED
  BY <1>1, JobGone

LEMMA RelevantCommand ==
  ASSUME TypeOK, Relevant
  PROVE  job.cmd \in Commands /\ JobCmd = {job.cmd} /\ job.pings \in Seq(Nat) /\ job.base \in Nat
BY DEF Relevant, JobCmd, JobOK, Jobs

\* A step that takes no event keeps what is claimed for the job, if it does not
\* forget that something is still to come.
LEMMA JobKept ==
  ASSUME TypeOK, JobInv, CountedKept(JobCmd), BehindKept,
         UNCHANGED <<job.pings, job.cmd, job.base>>, Relevant' => Relevant,
         Relevant' /\ Answered' /\ ~Doomed' => Answered /\ ~Doomed,
         \A c \in JobCmd : fresh[c].pings <= fresh'[c].pings /\ fresh'[c].pings \in Nat
  PROVE  JobInv'
<1> SUFFICES ASSUME Relevant' PROVE JobInv'
  BY JobGone
<1>1. PICK c \in Commands, pings \in Seq(Nat), base \in Nat :
         c = job.cmd /\ pings = job.pings /\ base = job.base /\ c \in JobCmd
  BY RelevantCommand
<1>2. Behind(pings)'
  BY <1>1 DEF JobInv, RetainedInv, BehindKept
<1>3. Behind(job.pings)'
  BY <1>1, <1>2 DEF Behind
<1>4. ASSUME Answered', ~Doomed'
      PROVE  Counted(job.cmd, job.base, 0)' /\ Within(job.pings, job.cmd, job.base)'
  <2>1. Counted(c, base, 0) /\ Within(pings, c, base)
    BY <1>1, <1>4 DEF JobInv, SnapshotInv
  <2>2. Counted(c, base, 0)'
    BY <1>1, <2>1 DEF CountedKept
  <2>3. Counted(job.cmd, job.base, 0)'
    BY <1>1, <2>2 DEF Counted
  <2>4. ASSUME NEW k \in 1 .. Len(pings) PROVE pings[k] - base <= fresh'[c].pings
    <3>1. pings[k] - base <= fresh[c].pings /\ pings[k] \in Nat
      BY <2>1 DEF Within
    <3>2. /\ fresh[c].pings \in Nat /\ fresh'[c].pings \in Nat
          /\ fresh[c].pings <= fresh'[c].pings
      BY <1>1, QueueTypes
    <3> QED
      BY <3>1, <3>2
  <2>5. Within(job.pings, job.cmd, job.base)'
    BY <1>1, <2>4 DEF Within
  <2> QED
    BY <2>3, <2>5
<1> QED
  BY <1>3, <1>4 DEF JobInv, RetainedInv, SnapshotInv

\* The same when the receiver is untouched.
LEMMA JobMoves ==
  ASSUME TypeOK, JobInv, UNCHANGED <<events, lagged, lv1Up, session, pingSeq, fresh>>,
         UNCHANGED <<job.pings, job.cmd, job.base>>, Relevant' => Relevant,
         Relevant' /\ Answered' /\ ~Doomed' => Answered /\ ~Doomed
  PROVE  JobInv'
<1>1. CountedKept(JobCmd) /\ BehindKept
  BY QueueKept
<1>2. \A c \in JobCmd : fresh[c].pings <= fresh'[c].pings /\ fresh'[c].pings \in Nat
  BY QueueTypes DEF JobCmd, JobOK
<1> QED
  BY <1>1, <1>2, JobKept

LEMMA WindowType == ASSUME TypeOK PROVE Window \in Nat
BY QueueTypes DEF Window, Backlog, JobOK, Jobs

\* What is published comes after what the job waits for, and counts for it if
\* its answer is still to be taken.
LEMMA DoomedPublish ==
  ASSUME TypeOK, NEW fact \in Facts, events' = Append(events, fact), UNCHANGED <<lagged, job>>
  PROVE  Doomed => Doomed'
<1>1. /\ Len(events') = Len(events) + 1 /\ Len(events) \in Nat /\ lagged \in Nat
      /\ \A i \in 1 .. Len(events) : events'[i] = events[i] /\ i \in 1 .. Len(events')
  BY ReachedAppend, QueueTypes
<1>2. Window <= Window'
  BY <1>1, WindowType DEF Window, Backlog, JobOK, Jobs
<1>3. Window \in Nat /\ Window' \in Nat
  BY <1>1, WindowType DEF Window, Backlog, JobOK, Jobs
<1>4. \A i \in 1 .. Len(events) : Cancels(events[i])' <=> Cancels(events[i])
  BY <1>1 DEF Cancels
<1> QED
  BY <1>1, <1>2, <1>3, <1>4 DEF Doomed

LEMMA DoomedOverrun == ASSUME TypeOK, Overrun, Doomed PROVE Doomed'
<1>1. PICK n \in 1 .. Len(events) :
         events' = SubSeq(events, n + 1, Len(events)) /\ lagged' = lagged + n
  BY DEF Overrun
<1>2. events \in Seq(Facts) /\ Len(events) \in Nat /\ lagged \in Nat /\ UNCHANGED job
  BY QueueTypes DEF Overrun
<1>3. Len(events') = Len(events) - n
  <2>1. \A i \in n + 1 .. Len(events) : events[i] \in Facts
    BY <1>2, ElementOfSeq
  <2> QED
    BY <1>1, <1>2, <2>1, SubSeqProperties
<1>4. Backlog' = Backlog /\ lagged' > 0
  <2>1. lagged' = lagged + n /\ n \in Nat /\ lagged + n > 0
    BY <1>1, <1>2
  <2>2. (Len(events) - n) + (lagged + n) = Len(events) + lagged
    BY <1>2, <2>1
  <2> QED
    BY <1>3, <2>1, <2>2 DEF Backlog
<1>5. Window' = Window
  BY <1>2, <1>4 DEF Window
<1> QED
  BY <1>4, <1>5 DEF Doomed

\* LV1 answers with what it knows: if nothing that is queued cancels the
\* command, no ping it has retained or will reach is above the snapshot's.
LEMMA JobServed == ASSUME TypeOK, QueueInv, JobInv, SnapshotServed PROVE JobInv'
<1>1. /\ job' = [job EXCEPT !.stage = "answered", !.base = pingSeq, !.up = lv1Up]
      /\ fresh' = [fresh EXCEPT ![job.cmd] = [session |-> session, pings |-> 0]]
      /\ UNCHANGED <<events, lagged, lv1Up, session, pingSeq>>
      /\ job.kind = "call" /\ job.stage = "asking"
  BY DEF SnapshotServed, Serving
<1>2. /\ job'.stage = "answered" /\ job'.base = pingSeq /\ job'.up = lv1Up
      /\ job'.pings = job.pings /\ job'.cmd = job.cmd /\ job'.kind = "call"
      /\ job'.lagged = job.lagged
  BY <1>1 DEF JobOK, Jobs
<1>3. PICK c \in Commands, pings \in Seq(Nat) : c = job.cmd /\ pings = job.pings
  BY <1>1 DEF JobOK, Jobs
<1>4. fresh'[c].session = session /\ fresh'[c].pings = 0
  BY <1>1, <1>3 DEF HistoryOK
<1>5. SUFFICES ASSUME Relevant' PROVE JobInv'
  BY JobGone
<1>6. Relevant
  BY <1>1, <1>2, <1>5 DEF Relevant
<1>7. /\ \A i : (Reached(i)' <=> Reached(i)) /\ (IsPing(i)' <=> IsPing(i))
      /\ AllReached' <=> AllReached
  BY <1>1 DEF AllReached, Reached, IsPing, Cancels
<1>8. Behind(pings)
  BY <1>3, <1>6 DEF JobInv, RetainedInv
<1>9. Behind(job.pings)'
  BY <1>1, <1>2, <1>3, <1>7, <1>8 DEF Behind
<1>10. ASSUME Answered', ~Doomed'
       PROVE  Counted(job.cmd, job.base, 0)' /\ Within(job.pings, job.cmd, job.base)'
  <2>1. lv1Up /\ Len(events) \in Nat /\ lagged \in Nat /\ pingSeq \in Nat
    BY <1>2, <1>10, QueueTypes DEF Answered
  <2>2. Window' = Len(events) + lagged
    BY <1>1, <1>2 DEF Window, Backlog
  <2>3. lagged = 0
    BY <1>1, <1>10, <2>1, <2>2 DEF Doomed
  <2>4. ASSUME NEW j \in 1 .. Len(events) PROVE ~Cancels(events[j])
    <3>1. Window' > 0 /\ j <= Window' /\ j \in 1 .. Len(events')
      BY <1>1, <2>1, <2>2
    <3>2. ~Cancels(events[j])'
      BY <1>10, <3>1 DEF Doomed
    <3> QED
      BY <1>1, <3>2 DEF Cancels
  <2>5. AllReached
    <3>1. Len(events) + 1 - 1 = Len(events)
      BY <2>1
    <3> QED
      BY <2>3, <2>4, <3>1 DEF AllReached, Reached
  <2>6. ASSUME NEW i \in 1 .. Len(events), IsPing(i)
        PROVE  events[i].seq \in Nat /\ events[i].seq <= pingSeq
    <3>1. \A k \in i .. Len(events) : ~Cancels(events[k])
      BY <2>1, <2>4
    <3> QED
      BY <2>6, <3>1, QueueTypes DEF QueueInv
  <2>7. Counted(c, pingSeq, 0)'
    <3>1. ASSUME NEW i \in 1 .. Len(events'), IsPing(i)'
          PROVE  0 + events'[i].seq - pingSeq' <= fresh'[c].pings
      BY <1>1, <1>4, <1>7, <2>1, <2>6, <3>1
    <3>2. lv1Up' /\ session' = fresh'[c].session /\ 0 + pingSeq' - pingSeq' <= fresh'[c].pings
      BY <1>1, <1>4, <2>1
    <3> QED
      BY <3>1, <3>2 DEF Counted
  <2>8. Counted(job.cmd, job.base, 0)'
    BY <1>1, <1>2, <1>3, <2>7 DEF Counted
  <2>9. ASSUME NEW k \in 1 .. Len(pings) PROVE pings[k] - pingSeq <= 0
    <3>1. pings[k] \in Nat /\ pings # <<>>
      BY <2>9
    <3>2. pings[k] <= pingSeq
      BY <1>8, <2>5, <3>1 DEF Behind
    <3> QED
      BY <2>1, <3>1, <3>2
  <2>10. Within(job.pings, job.cmd, job.base)'
    BY <1>2, <1>3, <1>4, <2>9 DEF Within
  <2> QED
    BY <2>8, <2>10
<1> QED
  BY <1>9, <1>10 DEF JobInv, RetainedInv, SnapshotInv

-----------------------------------------------------------------------------
(* Readiness is proved: events and the job                                 *)

\* What is known of a job by its kind, and before its answer.
JobScope ==
    /\ job.kind = "zero" => job.up /\ job.cmd \in ZeroCommands
    /\ job.stage = "asking" => ~job.up
    /\ job.kind = "call" =>
          job.stage \in {"asking", "answered", "stale", "draining", "admitting", "announce"}

\* A zero-duration write with a waiter does not meet a loss: no event is lost, or
\* no such command is sent.
ScopeInv ==
    /\ \/ budget.env["lag"] = 0 /\ lagged = 0
       \/ ZeroCommands \cap OwnedCommands \cap budget.sent = {}
    /\ \A c \in Commands : reply[c] = "waiting" => c \in budget.sent
    /\ JobScope

\* The command of a barrier is answered, unless it is just being announced.
OwnerInv ==
    barrier.cmd # NoCmd =>
        \/ reply[barrier.cmd] \in {"ok", "err"}
        \/ JobCmd = {barrier.cmd} /\ job.stage = "announce"

\* What an event changes of the job that retains it.
LEMMA RetainingKeeps ==
  ASSUME NEW j \in Jobs, lagged = 0
  PROVE  LET r == Retaining(j)
         IN /\ r.kind = j.kind /\ r.cmd = j.cmd /\ r.stage = j.stage /\ r.base = j.base
            /\ r.up = j.up /\ r.lagged = j.lagged /\ r.left = j.left
BY DEF Retaining, Jobs

\* A retained ping is in its place and within what LV1 has sent.
LEMMA RetainingRight ==
  ASSUME TypeOK, QueueInv, lagged = 0, events # <<>>, ~Cancels(Head(events)),
         events' = Tail(events), UNCHANGED <<lagged, lv1Up, session, pingSeq, fresh>>,
         NEW j \in Jobs, Behind(j.pings), NEW more, more = Retaining(j).pings
  PROVE  /\ more \in Seq(Nat) /\ Behind(more)'
         /\ \A c \in Commands, base \in Nat :
               Counted(c, base, 0) /\ Within(j.pings, c, base) => Within(more, c, base)'
<1>1. PICK pings \in Seq(Nat) : pings = j.pings
  BY DEF Jobs
<1>2. CASE Head(events).kind # "ping"
  <2>1. more = pings
    BY <1>1, <1>2 DEF Retaining
  <2>2. Behind(pings)'
    BY <1>1, TakenKept DEF BehindKept
  <2>3. \A c \in Commands, base \in Nat : Within(pings, c, base) => Within(pings, c, base)'
    BY DEF Within
  <2> QED
    BY <1>1, <2>1, <2>2, <2>3 DEF Behind, Within
<1>3. CASE Head(events).kind = "ping"
  <2>1. events[1] = Head(events) /\ 1 \in 1 .. Len(events)
    BY TakenShift
  <2>2. PICK q \in Nat : q = Head(events).seq
    BY <1>3, <2>1, QueueTypes DEF IsPing
  <2>3. more = IF Len(Append(pings, q)) > PingsRequired THEN Tail(Append(pings, q))
               ELSE Append(pings, q)
    <3> DEFINE all == Append(pings, q)
               kept == IF Len(all) > PingsRequired THEN Tail(all) ELSE all
    <3>1. Retaining(j) = [j EXCEPT !.pings = kept]
      BY <1>1, <1>3, <2>2 DEF Retaining
    <3> HIDE DEF all, kept
    <3>2. more = kept
      BY <3>1 DEF Jobs
    <3> QED
      BY <3>2 DEF kept, all
  <2>4. PICK old \in Seq(Nat) :
           /\ more = Append(old, q) /\ Behind(old)
           /\ \A k \in 1 .. Len(old) : \E l \in 1 .. Len(pings) : old[k] = pings[l]
    <3>1. CASE Len(Append(pings, q)) > PingsRequired
      <4>1. Len(pings) + 1 > 1 /\ Len(pings) \in Nat
        BY <3>1, AppendProperties, LenProperties, FadeBoundsAssumption
      <4>2. pings # <<>>
        BY <4>1
      <4>3. more = Append(Tail(pings), q)
        BY <2>3, <3>1, <4>2, HeadTailAppend
      <4>4. Behind(Tail(pings))
        BY <1>1, <4>2, BehindTail
      <4>5. PICK rest \in Seq(Nat) : rest = Tail(pings)
        BY <4>2, HeadTailProperties
      <4>6. \A k \in 1 .. Len(rest) : k + 1 \in 1 .. Len(pings) /\ rest[k] = pings[k + 1]
        BY <4>2, <4>5, HeadTailProperties
      <4> QED
        BY <4>3, <4>4, <4>5, <4>6
    <3>2. CASE ~(Len(Append(pings, q)) > PingsRequired)
      BY <1>1, <2>3, <3>2
    <3> QED
      BY <3>1, <3>2
  <2>5. more \in Seq(Nat)
    BY <2>4, AppendProperties
  <2>6. Behind(Append(old, q))'
    BY <1>3, <2>2, <2>4, TakenRetained
  <2>7. ASSUME NEW c \in Commands, NEW base \in Nat, Counted(c, base, 0), Within(pings, c, base)
        PROVE  Within(more, c, base)'
    <3>1. q - base <= fresh[c].pings
      BY <1>3, <2>2, <2>7, TakenPing
    <3>2. \A k \in 1 .. Len(old) : old[k] - base <= fresh[c].pings
      BY <2>4, <2>7 DEF Within
    <3>3. /\ Len(more) = Len(old) + 1 /\ Len(old) \in Nat /\ more[Len(old) + 1] = q
          /\ \A k \in 1 .. Len(old) : more[k] = old[k]
      BY <2>4, AppendProperties, LenProperties
    <3>4. ASSUME NEW k \in 1 .. Len(more) PROVE more[k] - base <= fresh'[c].pings
      <4>1. k \in 1 .. Len(old) \/ k = Len(old) + 1
        BY <3>3
      <4> QED
        BY <3>1, <3>2, <3>3, <4>1
    <3> QED
      BY <3>4 DEF Within
  <2> QED
    BY <1>1, <2>4, <2>5, <2>6, <2>7 DEF Behind
<1> QED
  BY <1>2, <1>3

\* A job that goes on after an event kept what it was certain of.
LEMMA JobTakes ==
  ASSUME TypeOK, QueueInv, JobInv, lagged = 0, events # <<>>, ~Cancels(Head(events)),
         events' = Tail(events), UNCHANGED <<lagged, lv1Up, session, pingSeq, fresh>>,
         NEW next \in Jobs, next.pings = job.pings, next.cmd = job.cmd, next.base = job.base,
         next.kind = job.kind, next.stage = job.stage, next.up = job.up,
         next.lagged = job.lagged, job.stage # "answered",
         job.stage = "draining" => job.left > 0 /\ next.left = job.left - 1,
         job' = next \/ job' = Retaining(next)
  PROVE  JobInv'
<1> SUFFICES ASSUME Relevant' PROVE JobInv'
  BY JobGone
<1>1. /\ job'.cmd = job.cmd /\ job'.base = job.base /\ job'.kind = job.kind
      /\ job'.stage = job.stage /\ job'.up = job.up /\ job'.lagged = job.lagged
      /\ job'.left = next.left
  BY RetainingKeeps
<1>2. Relevant
  BY <1>1 DEF Relevant
<1>3. PICK c \in Commands, pings \in Seq(Nat), base \in Nat :
         c = job.cmd /\ pings = job.pings /\ base = job.base
  BY <1>2, RelevantCommand
<1>4. Behind(pings)
  BY <1>2, <1>3 DEF JobInv, RetainedInv
<1>5. PICK more \in Seq(Nat) :
         /\ more = job'.pings /\ Behind(more)'
         /\ Counted(c, base, 0) /\ Within(pings, c, base) => Within(more, c, base)'
  <2>1. CASE job' = next
    <3>1. Behind(pings)'
      BY <1>4, TakenKept DEF BehindKept
    <3>2. Within(pings, c, base) => Within(pings, c, base)'
      BY DEF Within
    <3> QED
      BY <1>3, <2>1, <3>1, <3>2
  <2>2. CASE job' = Retaining(next)
    <3>1. Behind(next.pings)
      BY <1>3, <1>4
    <3> QED
      BY <1>3, <2>2, <3>1, RetainingRight
  <2> QED
    BY <2>1, <2>2
<1>6. Behind(job.pings)'
  BY <1>5 DEF Behind
<1>7. Doomed => Doomed'
  <2> SUFFICES ASSUME Doomed PROVE Doomed'
    OBVIOUS
  <2>1. /\ Len(events) \in Nat \ {0} /\ Len(events') = Len(events) - 1 /\ Head(events) = events[1]
        /\ \A i \in 1 .. Len(events) - 1 : events'[i] = events[i + 1]
    BY TakenShift
  <2>2. PICK j \in 1 .. Len(events) : j <= Window /\ Cancels(events[j])
    BY DEF Doomed
  <2>3. job.stage = "draining" /\ Window = job.left
    BY <2>1, <2>2 DEF Window
  <2>4. Window' = Window - 1 /\ Window \in Nat
    BY <1>1, <2>3, WindowType DEF Window
  <2>5. j # 1
    BY <2>1, <2>2
  <2>6. PICK i \in 1 .. Len(events') : j = i + 1
    <3>1. j - 1 \in 1 .. Len(events') /\ j = (j - 1) + 1
      BY <2>1, <2>5
    <3> QED
      BY <3>1
  <2>7. Cancels(events[i])'
    BY <2>1, <2>2, <2>6 DEF Cancels
  <2>8. Window' > 0 /\ i <= Window'
    BY <2>1, <2>2, <2>4, <2>6
  <2> QED
    BY <2>7, <2>8 DEF Doomed
<1>8. ASSUME Answered', ~Doomed'
      PROVE  Counted(job.cmd, job.base, 0)' /\ Within(job.pings, job.cmd, job.base)'
  <2>1. Counted(c, base, 0) /\ Within(pings, c, base)
    BY <1>1, <1>2, <1>3, <1>7, <1>8 DEF JobInv, SnapshotInv, Answered
  <2>2. Counted(c, base, 0)'
    BY <2>1, TakenKept DEF CountedKept
  <2>3. Counted(job.cmd, job.base, 0)'
    BY <1>1, <1>3, <2>2 DEF Counted
  <2>4. Within(job.pings, job.cmd, job.base)'
    BY <1>1, <1>3, <1>5, <2>1 DEF Within
  <2> QED
    BY <2>3, <2>4
<1> QED
  BY <1>6, <1>8 DEF JobInv, RetainedInv, SnapshotInv

\* An event moves the job that is there, or takes it away.
LEMMA JobEvent ==
  ASSUME TypeOK, QueueInv, ScopeInv, OrderInv, JobInv, CallEvent \/ DrainEvent \/ MainEvent
  PROVE  JobInv'
<1>1. Receive(JobCmd) /\ UNCHANGED <<lv1Up, session, pingSeq, fresh>>
  BY DEF CallEvent, DrainEvent, MainEvent
<1>2. CASE Canceled
  BY <1>2, NoJobLeft DEF CallEvent, DrainEvent, MainEvent
<1>3. CASE ~Canceled /\ lagged > 0
  <2>1. ASSUME Relevant, ~Serving PROVE FALSE
    <3>1. job.kind = "zero" /\ job.cmd \in OwnedCommands /\ job.cmd \in ZeroCommands
      BY <2>1 DEF Relevant, Serving, ScopeInv, JobScope
    <3>2. job.cmd \in Held /\ job.cmd \in Commands
      BY <3>1 DEF Held, JobCmd, JobOK
    <3>3. job.cmd \in budget.sent
      BY <3>2 DEF OrderInv, ScopeInv
    <3>4. lagged = 0
      BY <3>1, <3>3 DEF ScopeInv
    <3> QED
      BY <1>3, <3>4
  <2>2. CASE Serving
    <3> DEFINE next == [job EXCEPT !.left = IF lagged = 0 THEN @ - 1
                                            ELSE IF @ > lagged THEN @ - lagged ELSE 0]
    <3>1. job' = Retaining(job) \/ job' = Retaining(next)
      BY <1>3, <2>2 DEF CallEvent, DrainEvent, MainEvent, Serving, NoJob, ScopeInv,
         JobScope
    <3>2. \A j : Retaining(j) = [j EXCEPT !.lagged = TRUE]
      BY <1>3 DEF Retaining
    <3>3. Retaining(job).lagged /\ Retaining(next).lagged
      BY <3>2 DEF JobOK, Jobs
    <3> HIDE DEF next
    <3>4. ~Relevant'
      BY <3>1, <3>3 DEF Relevant
    <3> QED
      BY <3>4, JobGone
  <2>3. CASE ~Serving
    <3> DEFINE next == [job EXCEPT !.left = IF lagged = 0 THEN @ - 1
                                            ELSE IF @ > lagged THEN @ - lagged ELSE 0]
    <3>1. job' = job \/ job' = next
      BY <1>3, <2>3 DEF CallEvent, DrainEvent, MainEvent, Serving
    <3>2. /\ next.kind = job.kind /\ next.cmd = job.cmd /\ next.stage = job.stage
          /\ next.lagged = job.lagged
      BY DEF JobOK, Jobs
    <3> HIDE DEF next
    <3>3. ~Relevant'
      BY <2>1, <2>3, <3>1, <3>2 DEF Relevant
    <3> QED
      BY <3>3, JobGone
  <2> QED
    BY <2>2, <2>3
<1>4. CASE ~Canceled /\ ~(lagged > 0)
  <2>1. lagged = 0 /\ events # <<>> /\ events' = Tail(events) /\ UNCHANGED lagged
    BY <1>1, <1>4, QueueTypes DEF Receive
  <2>2. ~Cancels(Head(events))
    BY <1>4, <2>1 DEF Canceled
  <2>3. CASE CallEvent \/ MainEvent
    <3>1. job \in Jobs /\ (job' = job \/ job' = Retaining(job))
      BY <1>4, <2>3 DEF CallEvent, MainEvent, JobOK
    <3>2. job.stage # "answered" /\ job.stage # "draining"
      BY <2>3 DEF CallEvent, MainEvent, NoJob
    <3> QED
      BY <1>1, <2>1, <2>2, <3>1, <3>2, JobTakes
  <2>4. CASE DrainEvent
    <3> DEFINE left == job.left - 1
               next == [job EXCEPT !.left = left]
    <3>1. job.stage = "draining" /\ job.left > 0 /\ (job' = next \/ job' = Retaining(next))
      BY <1>4, <2>1, <2>4 DEF DrainEvent
    <3>3. left \in Nat
      BY <3>1 DEF JobOK, Jobs
    <3> HIDE DEF left
    <3>2. /\ next \in Jobs /\ next.pings = job.pings /\ next.cmd = job.cmd
          /\ next.base = job.base /\ next.kind = job.kind /\ next.stage = job.stage
          /\ next.up = job.up /\ next.lagged = job.lagged /\ next.left = left
      BY <3>3 DEF JobOK, Jobs
    <3> HIDE DEF next
    <3>4. left = job.left - 1
      BY DEF left
    <3> QED
      BY <1>1, <2>1, <2>2, <3>1, <3>2, <3>4, JobTakes
  <2> QED
    BY <2>3, <2>4
<1> QED
  BY <1>2, <1>3, <1>4

\* Every other step of the engine moves its job along, or drops it.
LEMMA JobEngine ==
  ASSUME TypeOK, QueueInv, ScopeInv, OrderInv, JobInv, Engine PROVE JobInv'
<1>1. CASE ReadinessTimeout
  <2>1. /\ UNCHANGED <<events, lagged, lv1Up, session, pingSeq, fresh>>
        /\ job' = NoJob \/ job' = job
    BY <1>1 DEF ReadinessTimeout
  <2>2. CASE job' = job
    <3>1. /\ (Relevant' <=> Relevant) /\ (Answered' <=> Answered) /\ (Doomed' <=> Doomed)
      BY <2>1, <2>2 DEF Relevant, Answered, Doomed, Window, Backlog, Cancels
    <3> QED
      BY <2>1, <2>2, <3>1, JobMoves
  <2> QED
    BY <2>1, <2>2, NoJobLeft
<1>2. CASE Defer
  <2>1. UNCHANGED <<events, lagged, lv1Up, session, pingSeq, fresh, job>>
    BY <1>2 DEF Defer
  <2>2. /\ (Relevant' <=> Relevant) /\ (Answered' <=> Answered) /\ (Doomed' <=> Doomed)
    BY <2>1 DEF Relevant, Answered, Doomed, Window, Backlog, Cancels
  <2> QED
    BY <2>1, <2>2, JobMoves
<1>3. CASE TakeCommand
  <2>1. job = NoJob /\ UNCHANGED <<events, lagged, lv1Up, session, pingSeq, fresh>>
    BY <1>3 DEF TakeCommand
  <2>2. CASE job' = job
    BY <2>1, <2>2, NoJobLeft
  <2>3. CASE job' # job
    <3>1. PICK c, s :
             s \in {"announce", "asking"}
             /\ job' = [NoJob EXCEPT !.kind = "call", !.cmd = c, !.stage = s]
      BY <1>3, <2>3 DEF TakeCommand
    <3>2. job'.pings = <<>> /\ job'.stage \in {"announce", "asking"}
      BY <3>1 DEF NoJob
    <3>3. ~Answered'
      BY <3>2 DEF Answered
    <3>4. Behind(job.pings)'
      BY <3>2 DEF Behind
    <3> QED
      BY <3>3, <3>4 DEF JobInv, RetainedInv, SnapshotInv
  <2> QED
    BY <2>2, <2>3
<1>4. CASE TakeAnswer
  <2>1. CASE job' = NoJob
    BY <2>1, NoJobLeft
  <2>2. CASE job' # NoJob
    <3> DEFINE next == [job EXCEPT !.stage = "draining", !.left = Backlog]
    <3>1. /\ job' = next /\ job.stage = "answered" /\ job.kind = "call"
          /\ UNCHANGED <<events, lagged, lv1Up, session, pingSeq, fresh>>
      BY <1>4, <2>2 DEF TakeAnswer, Serving
    <3>2. /\ next.stage = "draining" /\ next.left = Backlog /\ next.pings = job.pings
          /\ next.cmd = job.cmd /\ next.base = job.base /\ next.kind = job.kind
          /\ next.up = job.up /\ next.lagged = job.lagged
      BY DEF JobOK, Jobs
    <3> HIDE DEF next
    <3>3. Relevant' => Relevant
      BY <3>1, <3>2 DEF Relevant
    <3>4. Answered' => Answered
      BY <3>1, <3>2 DEF Answered
    <3>5. Window' = Window
      BY <3>1, <3>2 DEF Window
    <3>6. Doomed' <=> Doomed
      BY <3>1, <3>5 DEF Doomed, Cancels
    <3> QED
      BY <3>1, <3>2, <3>3, <3>4, <3>6, JobMoves
  <2> QED
    BY <2>1, <2>2
<1>5. CASE DrainEnd \/ ProposeZero \/ AdmissionTurn \/ SendZero
  <2>1. /\ UNCHANGED <<events, lagged, lv1Up, session, pingSeq, fresh>>
        /\ job.stage \in {"draining", "admitting", "granted", "refused"}
        /\ job.stage = "draining" => job.left = 0
    BY <1>5 DEF DrainEnd, ProposeZero, AdmissionTurn, SendZero
  <2>2. CASE job' = NoJob
    BY <2>2, NoJobLeft
  <2>3. CASE job' # NoJob
    <3>1. /\ job'.pings = job.pings /\ job'.cmd = job.cmd /\ job'.base = job.base
          /\ job'.up = job.up /\ job'.lagged = job.lagged
          /\ job'.kind = job.kind \/ job.kind = "call"
      <4>1. CASE DrainEnd \/ ProposeZero
        BY <4>1 DEF DrainEnd, ProposeZero, Serving, JobOK, Jobs
      <4>2. CASE AdmissionTurn
        BY <4>2 DEF AdmissionTurn, JobOK, Jobs
      <4>3. CASE SendZero
        <5>1. job' = [job EXCEPT !.stage = "written"]
          BY <2>3, <4>3 DEF SendZero, RefuseZero
        <5> QED
          BY <5>1 DEF JobOK, Jobs
      <4> QED
        BY <1>5, <4>1, <4>2, <4>3
    <3>2. Window = 0
      BY <2>1 DEF Window
    <3>3. ~Doomed
      BY <3>2 DEF Doomed
    <3>4. Relevant' => Relevant
      BY <2>1, <3>1 DEF Relevant
    <3>5. Answered' => Answered
      BY <2>1, <3>1 DEF Answered
    <3> QED
      BY <2>1, <3>1, <3>3, <3>4, <3>5, JobMoves
  <2> QED
    BY <2>2, <2>3
<1>6. CASE Refuse \/ Announce \/ EngineStop
  BY <1>6, NoJobLeft DEF Refuse, Announce, EngineStop
<1>7. CASE Admit \/ CommitZero
  <2>1. job' = NoJob \/ job' = [job EXCEPT !.stage = "announce"]
    BY <1>7 DEF Admit, CommitZero, RefuseZero
  <2>2. job' = NoJob \/ job'.stage = "announce"
    BY <2>1 DEF JobOK, Jobs
  <2>3. job'.stage = "announce" => ~Relevant'
    BY DEF Relevant
  <2> QED
    BY <2>2, <2>3, NoJobLeft, JobGone
<1>8. CASE SendTick \/ CommitTick \/ Tick
  <2>1. CASE job' = NoJob
    BY <2>1, NoJobLeft
  <2>2. CASE job' # NoJob
    <3>1. job'.kind = "tick"
      <4>1. CASE SendTick
        <5> DEFINE props == job.props \cap ActiveKeys
        <5>1. job.kind = "tick" /\ job' = [job EXCEPT !.stage = "written", !.props = props]
          BY <2>2, <4>1 DEF SendTick, AbortTick
        <5> HIDE DEF props
        <5> QED
          BY <5>1 DEF JobOK, Jobs
      <4>2. CASE CommitTick
        BY <2>2, <4>2 DEF CommitTick, AbortTick
      <4>3. CASE Tick
        <5>1. PICK props, done : job' = [NoJob EXCEPT !.kind = "tick", !.stage = "reserving",
                                                       !.props = props, !.done = done]
          BY <2>2, <4>3 DEF Tick, AbortTick
        <5> QED
          BY <5>1 DEF NoJob
      <4> QED
        BY <1>8, <4>1, <4>2, <4>3
    <3>2. ~Relevant'
      BY <3>1 DEF Relevant
    <3> QED
      BY <3>2, JobGone
  <2> QED
    BY <2>1, <2>2
<1> QED
  BY <1>1, <1>2, <1>3, <1>4, <1>5, <1>6, <1>7, <1>8, JobEvent DEF Engine

-----------------------------------------------------------------------------
(* Readiness is proved: scope and owner                                    *)

\* The engine only answers, it sends nothing; and it never loses an event.
LEMMA EngineAnswers ==
  ASSUME TypeOK, Engine
  PROVE  /\ \A c \in Commands : reply'[c] = reply[c] \/ reply'[c] \in {"ok", "err"}
         /\ UNCHANGED <<budget, lv1Up, session, pingSeq, fresh>> /\ lagged' \in {lagged, 0}
<1>1. /\ UNCHANGED <<budget, lv1Up, session, pingSeq, fresh>> /\ lagged' \in {lagged, 0}
  BY DEF Engine, ReadinessTimeout, TakeCommand, Defer, CallEvent, TakeAnswer, DrainEvent, DrainEnd,
     Refuse, ProposeZero, Admit, Announce, AdmissionTurn, SendTick, CommitTick, SendZero, CommitZero,
     MainEvent, Tick, EngineStop, Receive
<1>2. \A cs : reply' = Refusing(cs) =>
         \A c \in Commands : reply'[c] = reply[c] \/ reply'[c] \in {"ok", "err"}
  BY DEF Refusing
<1>3. \A d, r : reply' = [reply EXCEPT ![d] = r] /\ r \in {"ok", "err"} =>
         \A c \in Commands : reply'[c] = reply[c] \/ reply'[c] \in {"ok", "err"}
  BY DEF ReplyOK
<1>4. CASE CallEvent \/ DrainEvent \/ MainEvent
  <2>1. Receive(JobCmd)
    BY <1>4 DEF CallEvent, DrainEvent, MainEvent
  <2>2. UNCHANGED reply \/ reply' = Refusing(JobCmd)
    BY <2>1, ReceiveEffect
  <2> QED
    BY <1>1, <1>2, <2>2
<1>5. CASE Announce \/ Admit
  <2>1. \/ UNCHANGED reply
        \/ \E r \in {"ok", "err"} : reply' = [reply EXCEPT ![job.cmd] = r]
    BY <1>5 DEF Announce, Admit
  <2> QED
    BY <1>1, <1>3, <2>1
<1>6. CASE ~(CallEvent \/ DrainEvent \/ MainEvent \/ Announce \/ Admit)
  <2>1. UNCHANGED reply \/ \E cs : reply' = Refusing(cs)
    BY <1>6 DEF Engine, ReadinessTimeout, TakeCommand, Defer, TakeAnswer, DrainEnd, Refuse,
       ProposeZero, AdmissionTurn, SendTick, CommitTick, SendZero, CommitZero, RefuseZero, AbortTick,
       Tick, EngineStop
  <2> QED
    BY <1>1, <1>2, <2>1
<1> QED
  BY <1>4, <1>5, <1>6

LEMMA NoJobScope == ASSUME job' = NoJob PROVE JobScope'
BY DEF JobScope, NoJob

LEMMA JobScopeKept ==
  ASSUME JobScope, UNCHANGED <<job.kind, job.cmd>>, job'.up <=> job.up,
         \/ job'.stage = job.stage
         \/ job'.stage # "asking" /\ (job.kind = "call" => job'.stage \in
               {"answered", "stale", "draining", "admitting", "announce"})
  PROVE  JobScope'
BY DEF JobScope

LEMMA ScopeEvent ==
  ASSUME TypeOK, JobScope, CallEvent \/ DrainEvent \/ MainEvent PROVE JobScope'
<1>1. CASE Canceled
  BY <1>1, NoJobScope DEF CallEvent, DrainEvent, MainEvent
<1>2. CASE ~Canceled
  <2> DEFINE next == [job EXCEPT !.left = IF lagged = 0 THEN @ - 1
                                          ELSE IF @ > lagged THEN @ - lagged ELSE 0]
  <2>1. job' \in {job, next, Retaining(job), Retaining(next)}
    BY <1>2 DEF CallEvent, DrainEvent, MainEvent
  <2>2. /\ next.kind = job.kind /\ next.cmd = job.cmd /\ next.stage = job.stage
        /\ next.up = job.up
    BY DEF JobOK, Jobs
  <2>3. /\ Retaining(job).kind = job.kind /\ Retaining(job).cmd = job.cmd
        /\ Retaining(job).stage = job.stage /\ Retaining(job).up = job.up
    BY DEF Retaining, JobOK, Jobs
  <2>4. /\ Retaining(next).kind = next.kind /\ Retaining(next).cmd = next.cmd
        /\ Retaining(next).stage = next.stage /\ Retaining(next).up = next.up
    BY DEF Retaining, JobOK, Jobs
  <2> HIDE DEF next
  <2> QED
    BY <2>1, <2>2, <2>3, <2>4, JobScopeKept
<1> QED
  BY <1>1, <1>2

LEMMA ScopeEngine == ASSUME TypeOK, JobScope, Engine PROVE JobScope'
<1>1. CASE job' = NoJob \/ job' = job
  <2>1. job' = job => JobScope'
    BY DEF JobScope
  <2> QED
    BY <1>1, <2>1, NoJobScope
<1>2. CASE TakeCommand /\ job' # job
  <2>1. PICK c, s : s \in {"announce", "asking"}
                    /\ job' = [NoJob EXCEPT !.kind = "call", !.cmd = c, !.stage = s]
    BY <1>2 DEF TakeCommand
  <2> QED
    BY <2>1 DEF JobScope, NoJob
<1>3. CASE TakeAnswer /\ job' # NoJob
  <2> DEFINE next == [job EXCEPT !.stage = "draining", !.left = Backlog]
  <2>1. job' = next
    BY <1>3 DEF TakeAnswer
  <2>2. next.kind = job.kind /\ next.cmd = job.cmd /\ next.stage = "draining" /\ next.up = job.up
    BY DEF JobOK, Jobs
  <2> HIDE DEF next
  <2> QED
    BY <2>1, <2>2, JobScopeKept
<1>4. CASE DrainEnd
  <2>1. /\ job'.kind = job.kind /\ job'.cmd = job.cmd /\ job'.stage = "admitting"
        /\ job'.up = job.up
    BY <1>4 DEF DrainEnd, JobOK, Jobs
  <2> QED
    BY <2>1, JobScopeKept
<1>5. CASE ProposeZero
  <2>1. /\ job'.kind = "zero" /\ job'.cmd = job.cmd /\ job'.stage = "reserving"
        /\ job'.up = job.up
    BY <1>5 DEF ProposeZero, JobOK, Jobs
  <2>2. job.up /\ job.cmd \in ZeroCommands
    BY <1>5 DEF ProposeZero, Admissible, ToZero
  <2> QED
    BY <2>1, <2>2 DEF JobScope
<1>6. CASE (Admit \/ CommitZero \/ SendZero) /\ job' # NoJob
  <2>1. \E s \in {"announce", "written"} :
           job' = [job EXCEPT !.stage = s] /\ (s = "written" => job.kind = "zero")
    BY <1>6 DEF Admit, CommitZero, SendZero, RefuseZero
  <2>2. /\ job'.kind = job.kind /\ job'.cmd = job.cmd /\ job'.up = job.up
        /\ \/ job'.stage = "announce"
           \/ job'.stage = "written" /\ job.kind = "zero"
    BY <2>1 DEF JobOK, Jobs
  <2> QED
    BY <2>2, JobScopeKept
<1>7. CASE AdmissionTurn
  <2>1. Writing
    BY <1>7 DEF AdmissionTurn
  <2>2. /\ job'.kind = job.kind /\ job'.cmd = job.cmd /\ job'.up = job.up
        /\ job'.stage = "draining"
    BY <1>7 DEF AdmissionTurn, JobOK, Jobs
  <2> QED
    BY <2>1, <2>2, JobScopeKept DEF Writing
<1>8. CASE (SendTick \/ CommitTick \/ Tick) /\ job' # NoJob /\ job' # job
  <2>1. CASE SendTick
    <3> DEFINE props == job.props \cap ActiveKeys
    <3>1. job.kind = "tick" /\ job' = [job EXCEPT !.stage = "written", !.props = props]
      BY <1>8, <2>1 DEF SendTick, AbortTick
    <3> HIDE DEF props
    <3>2. job'.kind = "tick" /\ job'.stage = "written"
      BY <3>1 DEF JobOK, Jobs
    <3> QED
      BY <3>2 DEF JobScope
  <2>2. CASE CommitTick
    BY <1>8, <2>2 DEF CommitTick, AbortTick
  <2>3. CASE Tick
    <3>1. PICK props, done : job' = [NoJob EXCEPT !.kind = "tick", !.stage = "reserving",
                                                   !.props = props, !.done = done]
      BY <1>8, <2>3 DEF Tick, AbortTick
    <3>2. job'.kind = "tick" /\ job'.stage = "reserving"
      BY <3>1 DEF NoJob
    <3> QED
      BY <3>2 DEF JobScope
  <2> QED
    BY <1>8, <2>1, <2>2, <2>3
<1>9. CASE CallEvent \/ DrainEvent \/ MainEvent
  BY <1>9, ScopeEvent
<1> QED
  BY <1>1, <1>2, <1>3, <1>4, <1>5, <1>6, <1>7, <1>8, <1>9
  DEF Engine, ReadinessTimeout, Defer, Refuse, Announce, EngineStop

LEMMA ScopeStep == ASSUME TypeOK, ScopeInv, [Next]_vars PROVE ScopeInv'
<1>1. JobScope
  BY DEF ScopeInv
<1>2. SUFFICES /\ \/ budget'.env["lag"] = 0 /\ lagged' = 0
                  \/ ZeroCommands \cap OwnedCommands \cap budget'.sent = {}
               /\ \A c \in Commands : reply'[c] = "waiting" => c \in budget'.sent
               /\ JobScope'
  BY DEF ScopeInv
<1>3. CASE Engine
  <2>1. JobScope'
    BY <1>1, <1>3, ScopeEngine
  <2> QED
    BY <1>3, <2>1, EngineAnswers DEF ScopeInv
<1>4. CASE Environment
  <2>1. /\ budget'.sent = budget.sent
        /\ budget.env["lag"] = 0 /\ lagged = 0 => budget'.env["lag"] = 0 /\ lagged' = 0
    <3>1. \A k \in EnvKinds : Spend(k) =>
             budget'.sent = budget.sent /\ (k # "lag" => budget'.env["lag"] = budget.env["lag"])
      BY DEF Spend, EnvKinds, BudgetRecords
    <3>3. CASE Overrun
      BY <3>1, <3>3 DEF Overrun, Spend, EnvKinds
    <3>4. CASE ~Overrun
      <4>1. UNCHANGED lagged /\ (UNCHANGED budget \/ \E k \in EnvKinds \ {"lag"} : Spend(k))
        BY <1>4, <3>4 DEF Environment, Send, Advance, Revoke, AnnounceRevoke, DropHandles, Ping, Publish,
           Report, Lv1Lost, Lv1Returns, Elapse, SnapshotServed, SnapshotFailed, SnapshotStale, Reserve,
           EnvKinds
      <4> QED
        BY <3>1, <4>1
    <3> QED
      BY <3>3, <3>4
  <2>2. \A c \in Commands : reply'[c] = "waiting" => c \in budget'.sent
    <3>1. CASE \E c \in Commands : Send(c)
      BY <2>1, <3>1 DEF Send, ScopeInv, ReplyOK
    <3>2. CASE ~(\E c \in Commands : Send(c))
      <4>1. UNCHANGED reply
        BY <1>4, <3>2 DEF Environment, Advance, Revoke, AnnounceRevoke, DropHandles, Ping, Report,
           Lv1Lost, Lv1Returns, Overrun, Elapse, SnapshotServed, SnapshotFailed, SnapshotStale, Reserve
      <4> QED
        BY <2>1, <4>1 DEF ScopeInv
    <3> QED
      BY <3>1, <3>2
  <2>3. JobScope'
    <3>1. CASE SnapshotServed
      <4>1. /\ job'.kind = job.kind /\ job'.cmd = job.cmd /\ job'.stage = "answered"
            /\ job.kind = "call"
        BY <3>1 DEF SnapshotServed, Serving, JobOK, Jobs
      <4> QED
        BY <4>1 DEF JobScope
    <3>2. CASE SnapshotFailed \/ SnapshotStale
      <4>1. /\ job'.kind = job.kind /\ job'.cmd = job.cmd /\ job'.up = job.up
            /\ job'.stage \in {"answered", "stale"}
        BY <3>2 DEF SnapshotFailed, SnapshotStale, JobOK, Jobs
      <4> QED
        BY <1>1, <4>1, JobScopeKept
    <3>3. CASE Reserve
      <4>1. Writing /\ \E s \in {"granted", "refused"} : job' = [job EXCEPT !.stage = s]
        BY <3>3 DEF Reserve
      <4>2. /\ job'.kind = job.kind /\ job'.cmd = job.cmd /\ job'.up = job.up
            /\ job'.stage \in {"granted", "refused"}
        BY <4>1 DEF JobOK, Jobs
      <4> QED
        BY <1>1, <4>1, <4>2, JobScopeKept DEF Writing
    <3>4. UNCHANGED job => JobScope'
      BY <1>1 DEF JobScope
    <3> QED
      BY <1>4, <3>1, <3>2, <3>3, <3>4 DEF Environment, Send, Advance, Revoke, AnnounceRevoke,
         DropHandles, Ping, Report, Lv1Lost, Lv1Returns, Overrun, Elapse
  <2> QED
    BY <2>1, <2>2, <2>3 DEF ScopeInv
<1>5. CASE UNCHANGED vars
  BY <1>1, <1>5 DEF vars, ScopeInv, JobScope
<1> QED
  BY <1>3, <1>4, <1>5 DEF Next

\* Only the announcement answers the command of a barrier that is new.
LEMMA OwnerStep ==
  ASSUME TypeOK, OwnerInv, UNCHANGED barrier \/ barrier' = NoBarrier \/ barrier'.cmd = barrier.cmd,
         \A c \in Commands : reply'[c] = reply[c] \/ reply'[c] \in {"ok", "err"} \/ reply[c] = "idle",
         job.stage = "announce" => \/ JobCmd' = JobCmd /\ job'.stage = "announce"
                                   \/ \A c \in JobCmd : reply'[c] \in {"ok", "err"}
  PROVE  OwnerInv'
<1>1. barrier.cmd # NoCmd => barrier.cmd \in Commands
  BY DEF BarrierOK, MaybeCmd
<1>2. barrier'.cmd # NoCmd => barrier'.cmd = barrier.cmd
  BY DEF NoBarrier
<1> QED
  BY <1>1, <1>2 DEF OwnerInv

LEMMA AnnounceOwner ==
  ASSUME TypeOK, Engine, job.stage = "announce"
  PROVE  \/ job' = job
         \/ \A c \in JobCmd : reply'[c] \in {"ok", "err"}
<1>1. CASE Announce
  BY <1>1 DEF Announce, ReplyOK, JobCmd, JobOK
<1>2. CASE ReadinessTimeout
  BY <1>2 DEF ReadinessTimeout, Looping, Serving, ZeroDue, NoJob
<1>3. CASE Defer
  BY <1>3 DEF Defer
<1>4. CASE EngineStop
  BY <1>4 DEF EngineStop, Looping, JobCmd
<1>5. job # NoJob
  BY DEF NoJob
<1>6. ~(TakeCommand \/ Tick \/ MainEvent)
  BY <1>5 DEF TakeCommand, Tick, MainEvent
<1> QED
  BY <1>1, <1>2, <1>3, <1>4, <1>6
  DEF Engine, CallEvent, TakeAnswer, DrainEvent, DrainEnd, Refuse, ProposeZero, Admit, AdmissionTurn,
      SendTick, CommitTick, SendZero, CommitZero

\* Apart from events and admissions the engine only ever ends the barrier, and
\* reports no readiness.
LEMMA QuietEngine ==
  ASSUME TypeOK, Engine,
         ~(CallEvent \/ DrainEvent \/ MainEvent \/ Admit \/ CommitZero \/ EngineStop)
  PROVE  /\ UNCHANGED <<events, lagged, lv1Up, session, pingSeq, fresh>>
         /\ UNCHANGED barrier \/ barrier' = NoBarrier
         /\ \A c \in Commands : chan'[c] = "ok" => chan[c] = "ok"
<1>1. UNCHANGED <<events, lagged, lv1Up, session, pingSeq, fresh>>
  BY DEF Engine, ReadinessTimeout, TakeCommand, Defer, TakeAnswer, DrainEnd, Refuse, ProposeZero,
     Announce, AdmissionTurn, SendTick, CommitTick, SendZero, Tick
<1>2. /\ UNCHANGED barrier \/ barrier' = NoBarrier
      /\ UNCHANGED chan \/ \E cs : chan' = Settle(cs, "err")
  BY DEF Engine, ReadinessTimeout, TakeCommand, Defer, TakeAnswer, DrainEnd, Refuse, ProposeZero,
     Announce, AdmissionTurn, SendTick, CommitTick, SendZero, RefuseZero, AbortTick, AbortWork, Tick
<1> QED
  BY <1>1, <1>2 DEF Settle

LEMMA BarrierStays ==
  ASSUME TypeOK, BarrierInv, QueueInv, UNCHANGED <<events, lagged, lv1Up, session, pingSeq, fresh>>,
         UNCHANGED barrier \/ barrier' = NoBarrier
  PROVE  BarrierInv' /\ QueueInv'
<1>1. CountedKept(BarrierOwner) /\ QueueInv'
  BY QueueKept
<1>2. CASE UNCHANGED barrier
  <2>1. \A c \in BarrierOwner : fresh[c].pings <= fresh'[c].pings /\ fresh'[c].pings \in Nat
    BY QueueTypes, BarrierCmd, BarrierCommand DEF BarrierOwner
  <2> QED
    BY <1>1, <1>2, <2>1, BarrierKept
<1> QED
  BY <1>1, <1>2, NoBarrierLeft

\* An admission installs what is certified, and the command it installs is
\* answered with it or is about to be announced.
LEMMA AdmissionProved ==
  ASSUME TypeOK, QueueInv, BarrierInv, JobInv, ScopeInv, OwnerInv, Admit \/ CommitZero
  PROVE  BarrierInv' /\ QueueInv' /\ OwnerInv' /\ Proved
<1>1. /\ UNCHANGED <<events, lagged, lv1Up, session, pingSeq, fresh>> /\ QueueInv'
      /\ job.stage \in {"admitting", "written"} /\ job.kind \in {"call", "zero"}
  <2>1. /\ UNCHANGED <<events, lagged, lv1Up, session, pingSeq, fresh>>
        /\ job.stage \in {"admitting", "written"} /\ job.kind \in {"call", "zero"}
    BY DEF Admit, CommitZero, Serving
  <2> QED
    BY <2>1, QueueKept
<1>2. PICK c \in Commands : c = job.cmd /\ JobCmd = {c}
  BY <1>1 DEF JobOK, JobCmd
<1>3. \/ \E kept : Install(c, kept)
      \/ UNCHANGED barrier /\ (UNCHANGED chan \/ chan' = Settle(JobCmd, "err"))
  BY <1>2 DEF Admit, CommitZero, RefuseZero
<1>4. CASE \E kept : Install(c, kept) /\ (Admit \/ (InTime /\ c \in OwnedCommands))
  <2>1. PICK kept : Install(c, kept)
    BY <1>4
  <2>2. now < deadline[c] /\ job.up /\ (job.kind = "call" \/ c \in OwnedCommands)
    <3>1. CASE Admit
      BY <1>2, <3>1 DEF Admit, Admissible, Serving
    <3>2. CASE CommitZero
      BY <1>2, <1>4, <3>1, <3>2 DEF CommitZero, InTime, ScopeInv, JobScope, Admit, Serving
    <3> QED
      BY <3>1, <3>2
  <2>3. Answered /\ Window = 0 /\ (~job.lagged => Relevant)
    BY <1>1, <1>2, <2>2 DEF Answered, Window, Relevant
  <2>4. BarrierInv' /\ Proved
    BY <1>1, <1>2, <2>1, <2>2, <2>3, InstallProved DEF JobInv
  <2>5. OwnerInv'
    <3>1. barrier' = NoBarrier \/ barrier'.cmd = c
      BY <2>1 DEF Install
    <3>2. \/ reply'[c] = "ok"
          \/ JobCmd' = {c} /\ job'.stage = "announce"
      <4>1. \/ reply' = [reply EXCEPT ![c] = "ok"]
            \/ job' = [job EXCEPT !.stage = "announce"]
        BY <1>2, <1>4 DEF Admit, CommitZero
      <4>2. CASE reply' = [reply EXCEPT ![c] = "ok"]
        BY <4>2 DEF ReplyOK
      <4>3. CASE job' = [job EXCEPT !.stage = "announce"]
        <5>1. job'.kind = job.kind /\ job'.cmd = job.cmd /\ job'.stage = "announce"
          BY <4>3 DEF JobOK, Jobs
        <5> QED
          BY <1>2, <5>1, JobCmdKept
      <4> QED
        BY <4>1, <4>2, <4>3
    <3> QED
      BY <3>1, <3>2 DEF OwnerInv, NoBarrier
  <2> QED
    BY <1>1, <2>4, <2>5
<1>5. CASE ~(Admit \/ (InTime /\ c \in OwnedCommands))
  <2>1. UNCHANGED barrier /\ (UNCHANGED chan \/ chan' = Settle(JobCmd, "err"))
    BY <1>2, <1>5 DEF CommitZero, RefuseZero
  <2>2. BarrierInv'
    BY <1>1, <2>1, BarrierStays
  <2>3. Proved
    BY <2>1 DEF Proved, Settle
  <2>4. OwnerInv'
    <3>1. \A d \in Commands : reply'[d] = reply[d] \/ reply'[d] \in {"ok", "err"}
      BY EngineAnswers DEF Engine
    <3> QED
      BY <1>1, <2>1, <3>1, OwnerStep
  <2> QED
    BY <1>1, <2>2, <2>3, <2>4
<1>6. Admit \/ (InTime /\ c \in OwnedCommands) => \E kept : Install(c, kept)
  BY <1>2 DEF Admit, CommitZero
<1> QED
  BY <1>4, <1>5, <1>6

LEMMA BarrierEngine ==
  ASSUME TypeOK, QueueInv, BarrierInv, JobInv, ScopeInv, OwnerInv, Engine
  PROVE  BarrierInv' /\ QueueInv' /\ OwnerInv' /\ Proved
<1>1. ASSUME UNCHANGED barrier \/ barrier' = NoBarrier \/ barrier'.cmd = barrier.cmd PROVE OwnerInv'
  <2>1. \A c \in Commands : reply'[c] = reply[c] \/ reply'[c] \in {"ok", "err"}
    BY EngineAnswers
  <2>2. job.stage = "announce" => \/ JobCmd' = JobCmd /\ job'.stage = "announce"
                                  \/ \A c \in JobCmd : reply'[c] \in {"ok", "err"}
    BY AnnounceOwner DEF JobCmd
  <2> QED
    BY <1>1, <2>1, <2>2, OwnerStep
<1>2. CASE CallEvent \/ DrainEvent \/ MainEvent
  <2>1. Receive(JobCmd) /\ UNCHANGED <<lv1Up, session, pingSeq, fresh>>
    BY <1>2 DEF CallEvent, DrainEvent, MainEvent
  <2>2. barrier' = NoBarrier \/ barrier'.cmd = barrier.cmd
    BY <2>1, ReceiveEffect
  <2> QED
    BY <1>1, <2>1, <2>2, BarrierReceive
<1>3. CASE Admit \/ CommitZero
  BY <1>3, AdmissionProved
<1>4. CASE EngineStop
  <2>1. barrier' = NoBarrier /\ events' = <<>>
    BY <1>4 DEF EngineStop
  <2>2. QueueInv'
    BY <2>1 DEF QueueInv
  <2>3. Proved
    BY <1>4 DEF EngineStop, Proved, Settle
  <2> QED
    BY <1>1, <2>1, <2>2, <2>3, NoBarrierLeft
<1>5. CASE ~(CallEvent \/ DrainEvent \/ MainEvent \/ Admit \/ CommitZero \/ EngineStop)
  <2>1. /\ UNCHANGED <<events, lagged, lv1Up, session, pingSeq, fresh>>
        /\ UNCHANGED barrier \/ barrier' = NoBarrier
        /\ \A c \in Commands : chan'[c] = "ok" => chan[c] = "ok"
    BY <1>5, QuietEngine
  <2> QED
    BY <1>1, <2>1, BarrierStays DEF Proved
<1> QED
  BY <1>2, <1>3, <1>4, <1>5

-----------------------------------------------------------------------------
(* Readiness is proved: the environment and the theorem                    *)

\* What publishes, loses or delays events keeps every claim.
LEMMA PublicKept ==
  ASSUME TypeOK, BarrierInv, JobInv, UNCHANGED <<barrier, job>>, CountedKept(Commands), BehindKept,
         Doomed => Doomed', \A c \in Commands : fresh[c].pings <= fresh'[c].pings
                                                /\ fresh'[c].pings \in Nat
  PROVE  BarrierInv' /\ JobInv'
<1>1. CountedKept(BarrierOwner) /\ BarrierOwner \subseteq Commands
  BY DEF CountedKept, BarrierOwner, BarrierOK, MaybeCmd
<1>2. CountedKept(JobCmd) /\ JobCmd \subseteq Commands
  BY DEF CountedKept, JobCmd, JobOK
<1>3. BarrierInv'
  BY <1>1, BarrierKept
<1>4. (Relevant' <=> Relevant) /\ (Answered' <=> Answered)
  BY DEF Relevant, Answered
<1>5. JobInv'
  BY <1>2, <1>4, JobKept
<1> QED
  BY <1>3, <1>5

LEMMA PublicEnvironment ==
  ASSUME TypeOK, QueueInv, BarrierInv, JobInv,
         Ping \/ Report \/ Lv1Lost \/ AnnounceRevoke \/ Lv1Returns \/ Overrun
  PROVE  QueueInv' /\ BarrierInv' /\ JobInv'
<1>1. UNCHANGED <<barrier, job>>
  BY DEF Ping, Report, Lv1Lost, AnnounceRevoke, Lv1Returns, Overrun
<1>2. CASE Report \/ Lv1Lost \/ AnnounceRevoke
  <2>1. PICK fact \in Facts :
           /\ events' = Append(events, fact) /\ fact.kind # "ping"
           /\ UNCHANGED <<lagged, session, pingSeq, fresh>> /\ (Cancels(fact) \/ UNCHANGED lv1Up)
    <3>1. CASE Report
      <4>1. /\ \A ch \in Channels : [kind |-> "fader", channel |-> ch] \in Facts
            /\ \A ch \in Channels, out \in BOOLEAN :
                  [kind |-> "pan", channel |-> ch, out |-> out] \in Facts
        BY DEF Facts
      <4> QED
        BY <3>1, <4>1 DEF Report, Publish
    <3>2. CASE Lv1Lost \/ AnnounceRevoke
      <4>1. \A k \in {"disconnected", "generation"} :
               [kind |-> k] \in Facts /\ Cancels([kind |-> k])
        BY DEF Facts, Cancels
      <4> QED
        BY <3>2, <4>1 DEF Lv1Lost, AnnounceRevoke, Publish
    <3> QED
      BY <1>2, <3>1, <3>2
  <2>2. CountedKept(Commands) /\ BehindKept /\ QueueInv'
    BY <2>1, PublishKept
  <2>3. Doomed => Doomed'
    BY <1>1, <2>1, DoomedPublish
  <2> QED
    BY <1>1, <2>1, <2>2, <2>3, PublicKept, QueueTypes
<1>3. CASE Ping
  <2>1. CountedKept(Commands) /\ BehindKept /\ QueueInv'
    BY <1>3, PingKept
  <2>2. Doomed => Doomed'
    <3> DEFINE fact == [kind |-> "ping", seq |-> pingSeq + 1]
    <3>1. fact \in Facts
      BY QueueTypes DEF Facts
    <3>2. events' = Append(events, fact) /\ UNCHANGED lagged
      BY <1>3 DEF Ping, Publish
    <3> HIDE DEF fact
    <3> QED
      BY <1>1, <3>1, <3>2, DoomedPublish
  <2>3. ASSUME NEW c \in Commands
        PROVE  fresh[c].pings <= fresh'[c].pings /\ fresh'[c].pings \in Nat
    <3>1. fresh[c] \in [session : Nat, pings : Nat]
      BY DEF HistoryOK
    <3>2. \/ fresh'[c] = fresh[c]
          \/ fresh'[c] = [fresh[c] EXCEPT !.pings = @ + 1]
      BY <1>3 DEF Ping
    <3> QED
      BY <3>1, <3>2
  <2> QED
    BY <1>1, <2>1, <2>2, <2>3, PublicKept
<1>4. CASE Lv1Returns
  <2>1. CountedKept(Commands) /\ BehindKept /\ QueueInv'
    BY <1>4, ReturnKept
  <2>2. Doomed => Doomed'
    BY <1>4 DEF Lv1Returns, Doomed, Window, Backlog, Cancels
  <2>3. UNCHANGED fresh
    BY <1>4 DEF Lv1Returns
  <2> QED
    BY <1>1, <2>1, <2>2, <2>3, PublicKept, QueueTypes
<1>5. CASE Overrun
  <2>1. CountedKept(Commands) /\ BehindKept /\ QueueInv'
    BY <1>5, OverrunKept
  <2>2. UNCHANGED fresh
    BY <1>5 DEF Overrun
  <2> QED
    BY <1>1, <1>5, <2>1, <2>2, PublicKept, QueueTypes, DoomedOverrun
<1> QED
  BY <1>2, <1>3, <1>4, <1>5

\* The snapshot of one command leaves what is counted for another.
LEMMA ServedBarrier ==
  ASSUME TypeOK, QueueInv, BarrierInv, OwnerInv, OrderInv, SnapshotServed
  PROVE  BarrierInv' /\ QueueInv'
<1>1. /\ fresh' = [fresh EXCEPT ![job.cmd] = [session |-> session, pings |-> 0]]
      /\ UNCHANGED <<events, lagged, lv1Up, session, pingSeq, barrier>>
      /\ job.kind = "call" /\ job.stage = "asking"
  BY DEF SnapshotServed, Serving
<1>2. job.cmd \in Held /\ reply[job.cmd] = "waiting"
  BY <1>1 DEF Held, JobCmd, OrderInv
<1>3. job.cmd \notin BarrierOwner
  BY <1>1, <1>2 DEF OwnerInv, BarrierOwner
<1>4. BarrierOwner \subseteq Commands
  BY DEF BarrierOwner, BarrierOK, MaybeCmd
<1>5. \A c \in BarrierOwner : fresh'[c] = fresh[c] /\ fresh[c].pings \in Nat
  BY <1>1, <1>3, <1>4, QueueTypes DEF HistoryOK
<1>6. /\ \A i : (Reached(i)' <=> Reached(i)) /\ (IsPing(i)' <=> IsPing(i))
      /\ AllReached' <=> AllReached
  BY <1>1 DEF AllReached, Reached, IsPing, Cancels
<1>7. CountedKept(BarrierOwner)
  BY <1>1, <1>5, <1>6 DEF CountedKept, Counted
<1>8. BarrierInv'
  BY <1>1, <1>5, <1>7, BarrierKept
<1>9. QueueInv'
  BY <1>1 DEF QueueInv, IsPing, Cancels
<1> QED
  BY <1>8, <1>9

\* The waiting write and the unanswered snapshot move the job alone.
LEMMA AskingJob ==
  ASSUME TypeOK, JobInv, ScopeInv, SnapshotFailed \/ SnapshotStale \/ Reserve PROVE JobInv'
<1>1. UNCHANGED <<events, lagged, lv1Up, session, pingSeq, fresh>>
  BY DEF SnapshotFailed, SnapshotStale, Reserve
<1>2. /\ job'.pings = job.pings /\ job'.cmd = job.cmd /\ job'.base = job.base
      /\ job'.up = job.up /\ job'.kind = job.kind /\ job'.lagged = job.lagged
  BY DEF SnapshotFailed, SnapshotStale, Reserve, JobOK, Jobs
<1>3. \/ job.stage = "asking" /\ job'.stage \in {"answered", "stale"}
      \/ job'.stage = "stale" /\ job.stage = "answered"
      \/ job.stage = "reserving" /\ job'.stage \in {"granted", "refused"}
  BY DEF SnapshotFailed, SnapshotStale, Reserve, JobOK, Jobs
<1>4. Relevant' => Relevant
  BY <1>2, <1>3 DEF Relevant
<1>5. Answered' => Answered /\ ~Doomed
  <2>1. Answered' => job.stage = "reserving" /\ Answered
    BY <1>2, <1>3 DEF Answered, ScopeInv, JobScope
  <2>2. job.stage = "reserving" => Window = 0
    BY DEF Window
  <2>3. Window = 0 => ~Doomed
    BY DEF Doomed
  <2> QED
    BY <2>1, <2>2, <2>3
<1> QED
  BY <1>1, <1>2, <1>4, <1>5, JobMoves

\* The events and counts of the console, the barrier, the job, and who may
\* still be counted for.
ReleaseInv == QueueInv /\ BarrierInv /\ JobInv /\ ScopeInv /\ OwnerInv

LEMMA ReleaseEnvironment ==
  ASSUME TypeOK, OrderInv, ReleaseInv, Environment
  PROVE  QueueInv' /\ BarrierInv' /\ JobInv' /\ OwnerInv' /\ Proved
<1>1. OwnerInv'
  <2>1. UNCHANGED barrier
    BY DEF Environment, Send, Advance, Revoke, AnnounceRevoke, DropHandles, Ping, Report, Lv1Lost,
       Lv1Returns, Overrun, Elapse, SnapshotServed, SnapshotFailed, SnapshotStale, Reserve
  <2>2. \A c \in Commands : reply'[c] = reply[c] \/ reply[c] = "idle"
    BY DEF Environment, Send, Advance, Revoke, AnnounceRevoke, DropHandles, Ping, Report, Lv1Lost,
       Lv1Returns, Overrun, Elapse, SnapshotServed, SnapshotFailed, SnapshotStale, Reserve, ReplyOK
  <2>3. job.stage = "announce" => UNCHANGED job
    BY DEF Environment, Send, Advance, Revoke, AnnounceRevoke, DropHandles, Ping, Report, Lv1Lost,
       Lv1Returns, Overrun, Elapse, SnapshotServed, SnapshotFailed, SnapshotStale, Reserve
  <2>4. job.stage = "announce" => JobCmd' = JobCmd /\ job'.stage = "announce"
    BY <2>3 DEF JobCmd
  <2> QED
    BY <2>1, <2>2, <2>4, OwnerStep DEF ReleaseInv
<1>2. Proved
  <2>1. \A c \in Commands : chan'[c] = chan[c] \/ chan'[c] = "open"
    BY DEF Environment, Send, Advance, Revoke, AnnounceRevoke, DropHandles, Ping, Report, Lv1Lost,
       Lv1Returns, Overrun, Elapse, SnapshotServed, SnapshotFailed, SnapshotStale, Reserve, ReplyOK
  <2> QED
    BY <2>1 DEF Proved
<1>3. CASE Ping \/ Report \/ Lv1Lost \/ AnnounceRevoke \/ Lv1Returns \/ Overrun
  BY <1>1, <1>2, <1>3, PublicEnvironment DEF ReleaseInv
<1>4. CASE SnapshotServed
  BY <1>1, <1>2, <1>4, ServedBarrier, JobServed DEF ReleaseInv
<1>5. CASE SnapshotFailed \/ SnapshotStale \/ Reserve
  <2>1. UNCHANGED <<events, lagged, lv1Up, session, pingSeq, fresh, barrier>>
    BY <1>5 DEF SnapshotFailed, SnapshotStale, Reserve
  <2> QED
    BY <1>1, <1>2, <1>5, <2>1, AskingJob, BarrierStays DEF ReleaseInv
<1>6. CASE (\E c \in Commands : Send(c)) \/ Advance \/ Revoke \/ DropHandles \/ Elapse
  <2>1. UNCHANGED <<events, lagged, lv1Up, session, pingSeq, fresh, barrier, job>>
    BY <1>6 DEF Send, Advance, Revoke, DropHandles, Elapse
  <2>2. /\ (Relevant' <=> Relevant) /\ (Answered' <=> Answered) /\ (Doomed' <=> Doomed)
    BY <2>1 DEF Relevant, Answered, Doomed, Window, Backlog, Cancels
  <2> QED
    BY <1>1, <1>2, <2>1, <2>2, BarrierStays, JobMoves DEF ReleaseInv
<1> QED
  BY <1>3, <1>4, <1>5, <1>6 DEF Environment

LEMMA ReleaseStep ==
  ASSUME TypeOK, OrderInv, ReleaseInv, [Next]_vars
  PROVE  ReleaseInv' /\ (Proved \/ UNCHANGED vars)
<1>1. ScopeInv'
  BY ScopeStep DEF ReleaseInv
<1>2. CASE Engine
  BY <1>1, <1>2, BarrierEngine, JobEngine DEF ReleaseInv
<1>3. CASE Environment
  BY <1>1, <1>3, ReleaseEnvironment DEF ReleaseInv
<1>4. CASE UNCHANGED vars
  <2>1. UNCHANGED <<events, lagged, lv1Up, session, pingSeq, fresh, barrier, job, reply>>
    BY <1>4 DEF vars
  <2>2. /\ (Relevant' <=> Relevant) /\ (Answered' <=> Answered) /\ (Doomed' <=> Doomed)
    BY <2>1 DEF Relevant, Answered, Doomed, Window, Backlog, Cancels
  <2>3. OwnerInv'
    BY <2>1 DEF ReleaseInv, OwnerInv, JobCmd
  <2> QED
    BY <1>1, <1>4, <2>1, <2>2, <2>3, BarrierStays, JobMoves DEF ReleaseInv
<1> QED
  BY <1>2, <1>3, <1>4 DEF Next

\* No owned zero-duration recall is sent where events may be lost: a write that
\* waits for LV1's mailbox does not record that the receiver has lost events.
ReleaseScope ==
    \A b \in Budgets :
        b.env["lag"] = 0 \/ ZeroCommands \cap OwnedCommands \cap b.sent = {}

LEMMA ReleaseInit == ASSUME ReleaseScope, Init PROVE ReleaseInv
<1>1. events = <<>> /\ job = NoJob /\ barrier = NoBarrier /\ lagged = 0 /\ budget \in Budgets
  BY DEF Init
<1>2. QueueInv
  BY <1>1 DEF QueueInv
<1>3. BarrierInv /\ OwnerInv
  BY <1>1 DEF BarrierInv, Barrier, OwnerInv, NoBarrier
<1>4. JobInv
  BY <1>1 DEF JobInv, RetainedInv, SnapshotInv, Relevant, NoJob
<1>5. ScopeInv
  BY <1>1 DEF ScopeInv, JobScope, NoJob, ReleaseScope, Init
<1> QED
  BY <1>2, <1>3, <1>4, <1>5 DEF ReleaseInv

\* Readiness is only reported when it was proved: before the deadline, by as many
\* pings as required that LV1 sent after it answered the command's snapshot, in
\* the same session (ReleaseProof).  It holds whatever is lost, canceled or
\* superseded, in ReleaseScope: a pending zero-duration write that sees Lagged
\* does not remember it for the barrier it installs (fade/actor.rs).
THEOREM ReleaseCorrect == ASSUME ReleaseScope PROVE Spec => ReleaseProof
<1>1. Init => ReleaseInv
  BY ReleaseInit
<1>2. TypeOK /\ OrderInv /\ ReleaseInv /\ [Next]_vars => ReleaseInv'
  BY ReleaseStep
<1>3. TypeOK /\ OrderInv /\ ReleaseInv /\ [Next]_vars =>
         [\A c \in Commands : chan[c] = "open" /\ chan'[c] = "ok" =>
             now < deadline[c] /\ fresh[c].pings >= PingsRequired]_vars
  BY ReleaseStep DEF Proved
<1> HIDE DEF TypeOK
<1> QED
  BY <1>1, <1>2, <1>3, OrderCorrect, PTL DEF Spec, ReleaseProof

=============================================================================
