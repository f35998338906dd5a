---------------------------- MODULE UpdatesProofs ----------------------------
(***************************************************************************)
(* Theorems about Updates, for every number of callers, versions and       *)
(* changes.  PlansFollowChannel follows from PlanInv: whatever is bound to  *)
(* the latest channel revision, wherever it is, was found on the channel   *)
(* now selected, because a revision is never used twice.                   *)
(***************************************************************************)
EXTENDS Updates, SequenceTheorems, TLAPS

USE DEF settingVars, policyVars, offerVars, planVars

-----------------------------------------------------------------------------
(* The inductive invariant *)

SettingOK ==
    /\ setting \in [nightly : BOOLEAN, automatic : BOOLEAN, revision : Revisions]
    /\ epoch \in Revisions /\ nightly \in BOOLEAN
    /\ epoch <= setting.revision
    /\ epoch = setting.revision => nightly = setting.nightly
    /\ ~unseen => epoch = setting.revision

\* What was found and downloaded belongs to the actor's epoch.
OfferOK ==
    /\ candidate # None => candidate \in Releases /\ candidate.nightly = nightly
    /\ available = VersionOf(candidate)
    /\ staged # None => /\ staged.release = candidate /\ candidate # None
                        /\ staged.revision = epoch
    /\ status = "ready" => staged # None

PendingOK ==
    pending # None =>
        /\ pending \in Operations /\ pending.epoch <= epoch
        /\ pending.epoch = epoch => pending.nightly = nightly
        /\ pending.kind = "download" /\ pending.epoch = epoch =>
              pending.release = candidate /\ candidate # None

\* A plan of the latest revision is of the channel selected now.
Bound(plan) ==
    /\ plan.revision \in Revisions /\ plan.revision <= setting.revision
    /\ plan.revision = setting.revision => plan.release.nightly = setting.nightly
IssuedOK ==
    /\ \A plan \in held : Bound(plan)
    /\ armed # None => Bound(armed)

PlanInv == SettingOK /\ OfferOK /\ PendingOK /\ IssuedOK /\ mailbox \in Seq(Commands)

\* A check is an operation of the actor's epoch.
LEMMA CheckType ==
  ASSUME SettingOK, NEW network \in BOOLEAN, NEW from \in Callers \cup {None}
  PROVE  Check(network, from) \in Operations
BY DEF Check, SettingOK, Operations

LEMMA InitPlan == Init => PlanInv
<1> SUFFICES ASSUME Init PROVE PlanInv
  OBVIOUS
<1>1. SettingOK
  <2>1. setting.revision = 0 /\ setting.nightly = FALSE
    BY DEF Init
  <2>2. setting \in [nightly : BOOLEAN, automatic : BOOLEAN, revision : Revisions]
    <3>1. 0 \in Revisions
      BY UpdatesAssumption DEF Revisions
    <3>2. setting \in [nightly : {FALSE}, automatic : BOOLEAN, revision : {0}]
      BY DEF Init
    <3> QED
      BY <3>1, <3>2
  <2> QED
    BY <2>1, <2>2 DEF Init, SettingOK, Revisions
<1>2. OfferOK
  BY DEF Init, OfferOK, VersionOf
<1>3. PendingOK
  <2>1. setting.automatic \in BOOLEAN
    BY DEF Init
  <2>2. pending \in Operations
    BY <1>1, <2>1, CheckType DEF Init
  <2> QED
    BY <1>1, <2>2 DEF Init, PendingOK, Check, SettingOK, Revisions
<1>4. IssuedOK
  BY DEF Init, IssuedOK
<1> QED
  BY <1>1, <1>2, <1>3, <1>4 DEF Init, PlanInv

-----------------------------------------------------------------------------
(* Preservation, one lemma per action *)

\* What an action leaves alone keeps its part of the invariant.
LEMMA Frame ==
  ASSUME PlanInv
  PROVE  /\ UNCHANGED <<setting, unseen, epoch, nightly>> => SettingOK'
         /\ UNCHANGED <<candidate, available, staged, status, epoch, nightly>> => OfferOK'
         /\ UNCHANGED <<pending, candidate, epoch, nightly>> => PendingOK'
         /\ UNCHANGED <<setting, held, armed>> => IssuedOK'
         /\ UNCHANGED mailbox => (mailbox \in Seq(Commands))'
<1>1. UNCHANGED <<setting, unseen, epoch, nightly>> => SettingOK'
  BY DEF PlanInv, SettingOK
<1>2. UNCHANGED <<candidate, available, staged, status, epoch, nightly>> => OfferOK'
  BY DEF PlanInv, OfferOK, VersionOf
<1>3. UNCHANGED <<pending, candidate, epoch, nightly>> => PendingOK'
  BY DEF PlanInv, PendingOK
<1>4. UNCHANGED <<setting, held, armed>> => IssuedOK'
  BY DEF PlanInv, IssuedOK, Bound
<1>5. UNCHANGED mailbox => (mailbox \in Seq(Commands))'
  BY DEF PlanInv
<1> QED
  BY <1>1, <1>2, <1>3, <1>4, <1>5

LEMMA ReceivePlan ==
  ASSUME PlanInv, NEW kind, Receive(kind)
  PROVE  (mailbox \in Seq(Commands))' /\ Caller \in Callers
<1>1. Head(mailbox) \in Commands /\ Tail(mailbox) \in Seq(Commands)
  BY HeadTailProperties DEF PlanInv, Receive
<1> QED
  BY <1>1 DEF Receive, Caller, Commands

LEMMA ChannelPlan == ASSUME PlanInv, ChannelChanges PROVE PlanInv'
<1>1. /\ setting.revision \in Nat /\ setting.revision + 1 \in Revisions
      /\ epoch \in Nat /\ epoch <= setting.revision
  BY UpdatesAssumption DEF ChannelChanges, PlanInv, SettingOK, Revisions
<1>2. /\ setting' \in [nightly : BOOLEAN, automatic : BOOLEAN, revision : Revisions]
      /\ setting'.revision = setting.revision + 1
  BY <1>1 DEF ChannelChanges, PlanInv, SettingOK
<1>3. SettingOK'
  BY <1>1, <1>2 DEF ChannelChanges, PlanInv, SettingOK
<1>4. IssuedOK'
  BY <1>1, <1>2 DEF ChannelChanges, PlanInv, IssuedOK, Bound, Revisions
<1> QED
  BY <1>3, <1>4, Frame DEF ChannelChanges, PlanInv

LEMMA AutomaticPlan == ASSUME PlanInv, AutomaticChanges PROVE PlanInv'
<1>1. setting' \in [nightly : BOOLEAN, automatic : BOOLEAN, revision : Revisions]
      /\ setting'.nightly = setting.nightly /\ setting'.revision = setting.revision
  BY DEF AutomaticChanges, PlanInv, SettingOK
<1>2. SettingOK'
  BY <1>1 DEF AutomaticChanges, PlanInv, SettingOK
<1>3. IssuedOK'
  BY <1>1 DEF AutomaticChanges, PlanInv, IssuedOK, Bound
<1> QED
  BY <1>2, <1>3, Frame DEF AutomaticChanges, PlanInv

LEMMA SettingsPlan == ASSUME PlanInv, ReceiveSettings PROVE PlanInv'
<1>1. CASE setting.revision # epoch
  <2>1. /\ nightly' = setting.nightly /\ epoch' = setting.revision
        /\ unseen' = FALSE /\ UNCHANGED <<setting, mailbox, held, armed>>
        /\ available' = None /\ candidate' = None /\ staged' = None /\ status' # "ready"
        /\ pending' = IF pending = None THEN None ELSE [pending EXCEPT !.from = None]
    BY <1>1 DEF ReceiveSettings, NewChannel, ForgetOffer
  <2>2. SettingOK'
    BY <2>1 DEF PlanInv, SettingOK, Revisions
  <2>3. OfferOK'
    BY <2>1 DEF PlanInv, OfferOK, VersionOf
  <2>4. ASSUME pending # None
        PROVE  pending' \in Operations /\ pending'.epoch = pending.epoch
               /\ pending.epoch < epoch'
    <3>1. pending \in Operations /\ pending.epoch <= epoch /\ epoch < setting.revision
      BY <1>1, <2>4 DEF PlanInv, PendingOK, SettingOK, Revisions
    <3>2. pending.epoch \in Revisions /\ epoch \in Revisions /\ setting.revision \in Revisions
      BY <3>1 DEF PlanInv, SettingOK, Operations
    <3>3. pending' \in Operations /\ pending'.epoch = pending.epoch
      BY <2>1, <2>4, <3>1 DEF Operations
    <3> QED
      BY <2>1, <3>1, <3>2, <3>3 DEF Revisions
  <2>5. PendingOK'
    <3>1. pending' # None => pending # None
      BY <2>1
    <3> QED
      BY <2>2, <2>4, <3>1 DEF PendingOK, SettingOK, Operations, Revisions
  <2> QED
    BY <2>1, <2>2, <2>3, <2>5, Frame DEF PlanInv
<1>2. CASE setting.revision = epoch
  <2>1. SettingOK'
    BY <1>2 DEF ReceiveSettings, SameChannel, PlanInv, SettingOK
  <2> QED
    BY <1>2, <2>1, Frame DEF ReceiveSettings, SameChannel, PlanInv
<1> QED
  BY <1>1, <1>2

LEMMA TimerPlan == ASSUME PlanInv, TimerTick PROVE PlanInv'
BY Frame DEF TimerTick, PlanInv

LEMMA SendPlan == ASSUME PlanInv, NEW c \in Callers, Send(c) PROVE PlanInv'
<1>1. (mailbox \in Seq(Commands))'
  BY AppendProperties DEF Send, Commands, PlanInv
<1> QED
  BY <1>1, Frame DEF Send, PlanInv

\* A check asked for or started by itself is bound to the actor's epoch.
LEMMA CheckPlan ==
  ASSUME PlanInv, NEW from \in Callers \cup {None}, pending' = Check(TRUE, from),
         UNCHANGED <<nightly, epoch>>
  PROVE  PendingOK'
<1>1. pending' \in Operations
  BY CheckType DEF PlanInv
<1> QED
  BY <1>1 DEF PlanInv, SettingOK, PendingOK, Check, Revisions

LEMMA ReceiveCheckPlan == ASSUME PlanInv, ReceiveCheck PROVE PlanInv'
<1>0. (mailbox \in Seq(Commands))' /\ Caller \in Callers
  BY ReceivePlan DEF ReceiveCheck
<1>1. CASE RefuseBusy
  BY <1>0, <1>1, Frame DEF ReceiveCheck, RefuseBusy, CommandUnchanged, PlanInv
<1>2. CASE ~RefuseBusy
  <2>1. /\ pending = None /\ ForgetOffer /\ status' = "checking"
        /\ pending' = Check(TRUE, Caller) /\ UNCHANGED <<settingVars, nightly, epoch, held, armed>>
    BY <1>2 DEF ReceiveCheck, CommandUnchanged
  <2>2. OfferOK'
    BY <2>1 DEF ForgetOffer, OfferOK, VersionOf
  <2> QED
    BY <1>0, <2>1, <2>2, CheckPlan, Frame DEF PlanInv
<1> QED
  BY <1>1, <1>2

LEMMA ReceiveDownloadPlan == ASSUME PlanInv, ReceiveDownload PROVE PlanInv'
<1>0. (mailbox \in Seq(Commands))' /\ Caller \in Callers
  BY ReceivePlan DEF ReceiveDownload
<1>1. CASE UNCHANGED <<offerVars, pending>>
  BY <1>0, <1>1, Frame DEF ReceiveDownload, RefuseBusy, CommandUnchanged, PlanInv
<1>2. CASE ~UNCHANGED <<offerVars, pending>>
  <2>1. /\ candidate # None /\ staged' = None /\ status' = "downloading"
        /\ pending' = [kind |-> "download", nightly |-> nightly, network |-> TRUE,
                       release |-> candidate, epoch |-> epoch, from |-> Caller]
        /\ UNCHANGED <<settingVars, nightly, epoch, available, candidate, held, armed>>
    BY <1>2 DEF ReceiveDownload, RefuseBusy, CommandUnchanged
  <2>2. OfferOK'
    BY <2>1 DEF PlanInv, OfferOK, VersionOf
  <2>3. PendingOK'
    <3>1. pending' \in Operations
      BY <1>0, <2>1 DEF PlanInv, SettingOK, OfferOK, Operations
    <3> QED
      BY <2>1, <3>1 DEF PlanInv, SettingOK, PendingOK, Revisions
  <2> QED
    BY <1>0, <2>1, <2>2, <2>3, Frame DEF PlanInv
<1> QED
  BY <1>1, <1>2

LEMMA ReceivePreparePlan == ASSUME PlanInv, ReceivePrepare PROVE PlanInv'
<1>1. UNCHANGED <<settingVars, policyVars, offerVars, pending, armed>>
  BY DEF ReceivePrepare, CommandUnchanged
<1>0. (mailbox \in Seq(Commands))'
  BY ReceivePlan DEF ReceivePrepare
<1>2. staged # None => Bound(staged)
  BY DEF PlanInv, OfferOK, SettingOK, Bound
<1>3. IssuedOK'
  BY <1>1, <1>2 DEF ReceivePrepare, MayIssue, PlanInv, IssuedOK, Bound
<1> QED
  BY <1>0, <1>1, <1>3, Frame DEF PlanInv

\* Starting the queued check voids no download.
LEMMA AutomaticCheckPlan ==
  ASSUME PlanInv, StartAutomatic,
         UNCHANGED <<settingVars, policyVars, available, candidate, staged, planVars, mailbox>>
  PROVE  PlanInv'
<1>1. OfferOK'
  BY DEF StartAutomatic, PlanInv, OfferOK, VersionOf
<1>2. PendingOK'
  BY CheckPlan DEF StartAutomatic
<1> QED
  BY <1>1, <1>2, Frame DEF PlanInv

LEMMA CompleteStalePlan == ASSUME PlanInv, CompleteStale PROVE PlanInv'
<1>1. CASE MayCheckNow
  BY <1>1, AutomaticCheckPlan DEF CompleteStale
<1>2. CASE ~MayCheckNow
  <2>1. PendingOK'
    BY <1>2 DEF CompleteStale, PendingOK
  <2> QED
    BY <1>2, <2>1, Frame DEF CompleteStale, PlanInv
<1> QED
  BY <1>1, <1>2

LEMMA CompleteCurrentPlan == ASSUME PlanInv, CompleteCurrent PROVE PlanInv'
<1>1. /\ pending # None /\ pending.epoch = epoch /\ pending' = None
      /\ UNCHANGED <<settingVars, nightly, epoch, held, armed, mailbox>>
  BY DEF CompleteCurrent, StaleOperation
<1>2. PendingOK'
  BY <1>1 DEF PendingOK
<1>3. OfferOK'
  <2>1. CASE pending.kind = "check" /\
             \E found \in {None} \cup
                   (IF pending.network THEN [version : Versions, nightly : {pending.nightly}]
                                       ELSE {}) : Found(found, pending.network)
    <3>1. PICK found \in {None} \cup [version : Versions, nightly : {pending.nightly}] :
                 Found(found, pending.network)
      BY <2>1
    <3>2. CASE SameDownload(found)
      BY <1>1, <3>1, <3>2 DEF Found, SameDownload, PlanInv, OfferOK, VersionOf
    <3>3. CASE ~SameDownload(found)
      <4>1. pending.nightly = nightly
        BY <1>1 DEF PlanInv, PendingOK, SettingOK
      <4>2. found # None => found.nightly = nightly
        BY <4>1, <3>1
      <4>3. staged' = None /\ candidate' = found /\ status' # "ready"
            /\ available' = VersionOf(candidate)'
        BY <3>1, <3>3 DEF Found, VersionOf
      <4>4. found # None => found \in Releases
        BY <3>1, <4>2 DEF Releases, PlanInv, SettingOK
      <4> QED
        BY <1>1, <4>2, <4>3, <4>4 DEF OfferOK, VersionOf
    <3> QED
      BY <3>2, <3>3
  <2>2. CASE \E s \in {"unavailable", "error"} : Failed(s)
    BY <1>1, <2>2 DEF Failed, PlanInv, OfferOK, VersionOf
  <2>3. CASE pending.kind = "download" /\ staged' = Bind(pending.release)
             /\ UNCHANGED <<available, candidate>>
    <3>1. pending.release = candidate /\ candidate # None
      BY <1>1, <2>3 DEF PlanInv, PendingOK
    <3>2. staged'.release = candidate /\ staged'.revision = epoch
      BY <2>3, <3>1 DEF Bind
    <3>3. staged' # None
      <4>1. staged' \in Plans
        BY <2>3, <3>1 DEF Bind, Plans, PlanInv, SettingOK, OfferOK
      <4> QED
        BY <4>1, PlansAssumption
    <3> QED
      BY <1>1, <2>3, <3>1, <3>2, <3>3 DEF PlanInv, OfferOK, VersionOf
  <2> QED
    BY <2>1, <2>2, <2>3 DEF CompleteCurrent
<1> QED
  BY <1>1, <1>2, <1>3, Frame DEF PlanInv

LEMMA EndOfTurnPlan == ASSUME PlanInv, EndOfTurn PROVE PlanInv'
<1>1. CASE pending = None /\ MayCheckNow
  BY <1>1, AutomaticCheckPlan DEF EndOfTurn
<1>2. CASE ~(pending = None /\ MayCheckNow)
  BY <1>2, Frame DEF EndOfTurn, PlanInv
<1> QED
  BY <1>1, <1>2

LEMMA ArmPlan == ASSUME PlanInv, Arm PROVE PlanInv'
<1>1. UNCHANGED PlanUnchanged
  BY DEF Arm
<1>2. IssuedOK'
  <2>1. UNCHANGED setting
    BY <1>1 DEF PlanUnchanged
  <2> QED
    BY <2>1 DEF Arm, PlanInv, IssuedOK, Bound
<1> QED
  BY <1>1, <1>2, Frame DEF PlanUnchanged, PlanInv

LEMMA LaunchPlan == ASSUME PlanInv, Launch PROVE PlanInv'
<1>1. UNCHANGED PlanUnchanged
  BY DEF Launch
<1>2. IssuedOK'
  BY <1>1 DEF Launch, PlanUnchanged, PlanInv, IssuedOK, Bound
<1> QED
  BY <1>1, <1>2, Frame DEF PlanUnchanged, PlanInv

LEMMA StepPlan == ASSUME PlanInv, [Next]_vars PROVE PlanInv'
<1>1. CASE Turn
  BY <1>1, SettingsPlan, TimerPlan, ReceiveCheckPlan, ReceiveDownloadPlan, ReceivePreparePlan,
     CompleteStalePlan, CompleteCurrentPlan, EndOfTurnPlan DEF Turn, ReceiveCommand, Complete
<1>2. CASE Environment
  BY <1>2, ChannelPlan, AutomaticPlan, SendPlan, ArmPlan, LaunchPlan DEF Environment
<1>3. CASE UNCHANGED vars
  BY <1>3, Frame DEF vars, PlanInv
<1> QED
  BY <1>1, <1>2, <1>3 DEF Next

-----------------------------------------------------------------------------
(* The theorems *)

\* Releases and plans always belong to the channel of the revision they are bound
\* to (updates/actor.rs: the epoch of operations, updates/mod.rs: the authority).
THEOREM PlanCorrect == Spec => []PlanInv
BY InitPlan, StepPlan, PTL DEF Spec

\* What is offered can be installed.
LEMMA ReadyFromPlan == PlanInv => ReadyIsInstallable
BY DEF PlanInv, SettingOK, OfferOK, ReadyIsInstallable, VersionOf

\* Only a launch changes what is launched, and it reads the revision once more.
LEMMA LaunchFromPlan ==
  ASSUME PlanInv, [Next]_vars, launched' # launched
  PROVE  launched'.release.nightly = setting.nightly
<1>1. Launch
  <2>1. Turn => UNCHANGED launched
    BY DEF Turn, ReceiveSettings, TimerTick, ReceiveCommand, ReceiveCheck, ReceiveDownload,
           ReceivePrepare, Complete, CompleteStale, CompleteCurrent, EndOfTurn, CommandUnchanged
  <2>2. ~Launch => UNCHANGED launched
    BY <2>1 DEF Next, Environment, ChannelChanges, AutomaticChanges, Send, Arm, vars
  <2> QED
    BY <2>2
<1>2. launched' = armed /\ armed # None /\ armed.revision = setting.revision
  BY <1>1 DEF Launch, Authorized
<1> QED
  BY <1>2 DEF PlanInv, IssuedOK, SettingOK, Bound

\* What is offered and what is launched belong to the channel in force, however
\* often it changes under checks, downloads and plans already handed out.
THEOREM ChannelCorrect == Spec => PlansFollowChannel
<1>1. PlanInv /\ [Next]_vars => [launched' # launched =>
                                    launched'.release.nightly = setting.nightly]_vars
  BY LaunchFromPlan
<1> QED
  BY <1>1, PlanCorrect, ReadyFromPlan, PTL DEF Spec, PlansFollowChannel, LaunchOnChannel
=============================================================================
