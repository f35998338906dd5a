------------------------------ MODULE Updates ------------------------------
(***************************************************************************)
(* The updates actor and the installation plans it hands out.  Settings    *)
(* changes the update channel and the automatic checks at any time; the    *)
(* actor learns of it by a coalescing watch notification while checks and  *)
(* downloads run on worker threads.  A plan outlives the actor's turn: the *)
(* window keeps it, arms it and the process launches it as it exits.       *)
(***************************************************************************)
EXTENDS Integers, Sequences, FiniteSets

CONSTANTS
    Callers,      \* tasks that send one command each
    Versions,     \* releases; each channel may offer any of them
    None,         \* no version, candidate, plan, operation or caller
    MaxToggles,   \* bound: changes of the update channel
    MaxAuto       \* bound: changes of the automatic-check setting

ASSUME UpdatesAssumption ==
    /\ None \notin Versions /\ None \notin Callers
    /\ MaxToggles \in Nat /\ MaxAuto \in Nat

VARIABLES
    setting,     \* retained: nightly channel, automatic checks, channel revision
    unseen,      \* the actor has not read the latest retained settings
    toggles,     \* changes of the automatic setting so far
    nightly, automatic, epoch,   \* the actor's copies of the settings
    status, available,           \* published update state
    candidate,   \* the release found, or None
    staged,      \* the downloaded plan, or None
    pending,     \* the check or download on a worker, or None
    queuedAuto,  \* an automatic check waits for its turn
    turn,        \* the actor is selecting, or at the end of a turn
    mailbox, reply,
    held,        \* plans the window holds
    armed,       \* the plan armed for the exit, or None
    launched,    \* the plan launched, or None
    checked      \* history: the channel revision of the latest automatic or asked check

settingVars == <<setting, unseen, toggles>>
policyVars == <<nightly, automatic, epoch>>
offerVars == <<status, available, candidate, staged>>
planVars == <<held, armed, launched>>
vars == <<settingVars, policyVars, offerVars, pending, queuedAuto, turn, mailbox, reply,
          planVars, checked>>

Revisions == 0 .. MaxToggles
\* A release as the worker found it: the channel it was looked up on.
Releases == [version : Versions, nightly : BOOLEAN]
\* A plan is bound to the channel revision of its download.
Plans == [release : Releases, revision : Revisions]

ASSUME PlansAssumption == None \notin Plans

Commands == [from : Callers, kind : {"check", "download", "prepare"}]
Operations == [kind : {"check", "download"}, nightly : BOOLEAN, network : BOOLEAN,
               release : Releases \cup {None}, epoch : Revisions, from : Callers \cup {None}]
Busy == {"checking", "downloading"}
Statuses == Busy \cup {"idle", "uptodate", "available", "ready", "unavailable", "error"}

TypeOK ==
    /\ setting \in [nightly : BOOLEAN, automatic : BOOLEAN, revision : Revisions]
    /\ unseen \in BOOLEAN /\ toggles \in 0 .. MaxAuto
    /\ nightly \in BOOLEAN /\ automatic \in BOOLEAN /\ epoch \in Revisions
    /\ status \in Statuses /\ available \in Versions \cup {None}
    /\ candidate \in Releases \cup {None} /\ staged \in Plans \cup {None}
    /\ pending \in Operations \cup {None} /\ queuedAuto \in BOOLEAN
    /\ turn \in {"select", "end"}
    /\ mailbox \in Seq(Commands)
    /\ reply \in [Callers -> {"none", "waiting", "ok", "failed"}]
    /\ held \subseteq Plans /\ armed \in Plans \cup {None} /\ launched \in Plans \cup {None}
    /\ checked \in Revisions \cup {-1}

Check(network, from) ==
    [kind |-> "check", nightly |-> nightly, network |-> network, release |-> None,
     epoch |-> epoch, from |-> from]

\* The actor reads the settings as it starts and checks at once, on the network
\* only when checks are automatic.
Init ==
    /\ setting \in [nightly : {FALSE}, automatic : BOOLEAN, revision : {0}]
    /\ unseen = FALSE /\ toggles = 0
    /\ nightly = setting.nightly /\ automatic = setting.automatic /\ epoch = 0
    /\ status = IF setting.automatic THEN "checking" ELSE "idle"
    /\ available = None /\ candidate = None /\ staged = None
    /\ pending = Check(setting.automatic, None)
    /\ queuedAuto = FALSE /\ turn = "select"
    /\ mailbox = <<>> /\ reply = [c \in Callers |-> "none"]
    /\ held = {} /\ armed = None /\ launched = None
    /\ checked = IF setting.automatic THEN 0 ELSE -1

-----------------------------------------------------------------------------
(* Settings and callers *)

\* A retained change of the channel advances its revision, whatever it changes to.
ChannelChanges ==
    /\ setting.revision < MaxToggles
    /\ setting' = [setting EXCEPT !.nightly = ~@, !.revision = @ + 1]
    /\ unseen' = TRUE
    /\ UNCHANGED <<toggles, policyVars, offerVars, pending, queuedAuto, turn, mailbox, reply,
                   planVars, checked>>

AutomaticChanges ==
    /\ toggles < MaxAuto /\ toggles' = toggles + 1
    /\ setting' = [setting EXCEPT !.automatic = ~@]
    /\ unseen' = TRUE
    /\ UNCHANGED <<policyVars, offerVars, pending, queuedAuto, turn, mailbox, reply, planVars,
                   checked>>

Send(c) ==
    /\ reply[c] = "none"
    /\ \E k \in {"check", "download", "prepare"} :
          mailbox' = Append(mailbox, [from |-> c, kind |-> k])
    /\ reply' = [reply EXCEPT ![c] = "waiting"]
    /\ UNCHANGED <<settingVars, policyVars, offerVars, pending, queuedAuto, turn, planVars,
                   checked>>

-----------------------------------------------------------------------------
(* The actor's loop: one branch of its select, then the queued check *)

Reply(c, answer) == IF c = None THEN reply ELSE [reply EXCEPT ![c] = answer]

ForgetOffer == available' = None /\ candidate' = None /\ staged' = None

NewChannelOldFeed ==
    /\ nightly' = nightly /\ epoch' = setting.revision
    /\ ForgetOffer
    /\ status' = IF status = "unavailable" THEN status ELSE "idle"
    /\ reply' = IF pending = None THEN reply ELSE Reply(pending.from, "failed")
    /\ pending' = IF pending = None THEN None ELSE [pending EXCEPT !.from = None]
    /\ queuedAuto' = setting.automatic

NewChannelAwaitsTimer ==
    /\ nightly' = setting.nightly /\ epoch' = setting.revision
    /\ ForgetOffer
    /\ status' = IF status = "unavailable" THEN status ELSE "idle"
    /\ reply' = IF pending = None THEN reply ELSE Reply(pending.from, "failed")
    /\ pending' = IF pending = None THEN None ELSE [pending EXCEPT !.from = None]
    /\ queuedAuto' = (queuedAuto /\ setting.automatic)

\* The channel changed: what was found or downloaded is void, and so is the
\* caller of the operation on the worker, which goes on.
NewChannel ==
    /\ nightly' = setting.nightly /\ epoch' = setting.revision
    /\ ForgetOffer
    /\ status' = IF status = "unavailable" THEN status ELSE "idle"
    /\ reply' = IF pending = None THEN reply ELSE Reply(pending.from, "failed")
    /\ pending' = IF pending = None THEN None ELSE [pending EXCEPT !.from = None]
    /\ queuedAuto' = setting.automatic

SameChannel ==
    /\ queuedAuto' = (setting.automatic /\ (queuedAuto \/ ~automatic))
    /\ UNCHANGED <<nightly, epoch, offerVars, reply, pending>>

ReceiveSettings ==
    /\ turn = "select" /\ unseen
    /\ unseen' = FALSE
    /\ automatic' = setting.automatic
    /\ IF setting.revision # epoch THEN NewChannel ELSE SameChannel
    /\ turn' = "end"
    /\ UNCHANGED <<setting, toggles, mailbox, planVars, checked>>

TimerTick ==
    /\ turn = "select"
    /\ queuedAuto' = automatic
    /\ turn' = "end"
    /\ UNCHANGED <<settingVars, policyVars, offerVars, pending, mailbox, reply, planVars, checked>>

Receive(kind) ==
    /\ turn = "select" /\ mailbox # <<>> /\ Head(mailbox).kind = kind
    /\ mailbox' = Tail(mailbox)
Caller == Head(mailbox).from

CommandUnchanged == <<settingVars, policyVars, queuedAuto, armed, launched>>

\* One operation at a time: a check or a download is refused while one runs.
RefuseBusy ==
    /\ pending # None
    /\ reply' = [reply EXCEPT ![Caller] = "failed"]
    /\ turn' = "select"
    /\ UNCHANGED <<offerVars, pending, held, checked>>

ReceiveCheck ==
    /\ Receive("check")
    /\ \/ RefuseBusy
       \/ /\ pending = None
          /\ ForgetOffer
          /\ status' = "checking"
          /\ pending' = Check(TRUE, Caller)
          /\ checked' = epoch
          /\ turn' = "end"
          /\ UNCHANGED <<reply, held>>
    /\ UNCHANGED CommandUnchanged

ReceiveDownload ==
    /\ Receive("download")
    /\ \/ RefuseBusy
       \/ /\ pending = None /\ candidate = None
          /\ reply' = [reply EXCEPT ![Caller] = "failed"]
          /\ turn' = "select"
          /\ UNCHANGED <<offerVars, pending, held, checked>>
       \/ /\ pending = None /\ candidate # None
          /\ staged' = None /\ status' = "downloading"
          /\ pending' = [kind |-> "download", nightly |-> nightly, network |-> TRUE,
                         release |-> candidate, epoch |-> epoch, from |-> Caller]
          /\ turn' = "end"
          /\ UNCHANGED <<available, candidate, reply, held, checked>>
    /\ UNCHANGED CommandUnchanged

\* The retained revision is read again: a plan is handed out only on its channel.
MayIssue == staged # None /\ setting.revision = epoch

ReceivePrepare ==
    /\ Receive("prepare")
    /\ \/ /\ MayIssue
          /\ held' = held \cup {staged}
          /\ reply' = [reply EXCEPT ![Caller] = "ok"]
       \/ /\ ~MayIssue
          /\ reply' = [reply EXCEPT ![Caller] = "failed"]
          /\ UNCHANGED held
    /\ turn' = "end"
    /\ UNCHANGED <<CommandUnchanged, offerVars, pending, checked>>

\* The retained settings overrule a notification that has not been received.
StaleOperation(op) == op.epoch # epoch \/ setting.revision # op.epoch

MayCheckNow ==
    /\ queuedAuto /\ automatic /\ setting.automatic /\ setting.revision = epoch

StartAutomatic ==
    /\ queuedAuto' = FALSE
    /\ status' = "checking"
    /\ pending' = Check(TRUE, None)
    /\ checked' = epoch

CompleteStaleSilently ==
    /\ turn = "select" /\ pending # None /\ StaleOperation(pending)
    /\ \/ MayCheckNow /\ StartAutomatic
       \/ ~MayCheckNow /\ pending' = None /\ UNCHANGED <<queuedAuto, status, checked>>
    /\ UNCHANGED <<settingVars, policyVars, available, candidate, staged, turn, mailbox, reply,
                   planVars>>

\* A stale result is dropped; the automatic check it held up starts in its place.
CompleteStale ==
    /\ turn = "select" /\ pending # None /\ StaleOperation(pending)
    /\ reply' = Reply(pending.from, "failed")
    /\ \/ MayCheckNow /\ StartAutomatic
       \/ ~MayCheckNow /\ pending' = None /\ UNCHANGED <<queuedAuto, status, checked>>
    /\ UNCHANGED <<settingVars, policyVars, available, candidate, staged, turn, mailbox, planVars>>

VersionOf(release) == IF release = None THEN None ELSE release.version

\* A download survives a check that finds the same version again.
SameDownload(found) == staged # None /\ VersionOf(candidate) = VersionOf(found)

\* The plan of a download is bound to the channel revision it was made for.
Bind(release) == [release |-> release, revision |-> epoch]

FoundKeepsDownload(found, network) ==
    /\ candidate' = found
    /\ status' = IF staged # None THEN "ready" ELSE IF found # None THEN "available"
                 ELSE IF network THEN "uptodate" ELSE "idle"
    /\ available' = VersionOf(candidate')
    /\ UNCHANGED staged

Found(found, network) ==
    /\ IF SameDownload(found)
         THEN status' = "ready" /\ UNCHANGED <<candidate, staged>>
         ELSE /\ staged' = None /\ candidate' = found
              /\ status' = IF found # None THEN "available"
                           ELSE IF network THEN "uptodate" ELSE "idle"
    /\ available' = VersionOf(candidate')

Failed(s) == status' = s /\ UNCHANGED <<available, candidate, staged>>

\* What a check or a download may return; only a check on the network finds a release.
CompleteCurrent ==
    /\ turn = "select" /\ pending # None /\ ~StaleOperation(pending)
    /\ \/ /\ pending.kind = "check"
          /\ \E found \in {None} \cup
                   (IF pending.network THEN [version : Versions, nightly : {pending.nightly}]
                                       ELSE {}) : Found(found, pending.network)
          /\ reply' = Reply(pending.from, "ok")
       \/ /\ pending.kind = "check"
          /\ Failed("unavailable") /\ reply' = Reply(pending.from, "failed")
       \/ Failed("error") /\ reply' = Reply(pending.from, "failed")
       \/ /\ pending.kind = "download"
          /\ staged' = Bind(pending.release)
          /\ status' = "ready" /\ reply' = Reply(pending.from, "ok")
          /\ UNCHANGED <<available, candidate>>
    /\ pending' = None
    /\ turn' = "end"
    /\ UNCHANGED <<settingVars, policyVars, queuedAuto, mailbox, planVars, checked>>

\* The end of a turn starts the queued automatic check.
EndOfTurn ==
    /\ turn = "end"
    /\ turn' = "select"
    /\ \/ pending = None /\ MayCheckNow /\ StartAutomatic
       \/ ~(pending = None /\ MayCheckNow) /\ UNCHANGED <<queuedAuto, status, pending, checked>>
    /\ UNCHANGED <<settingVars, policyVars, available, candidate, staged, mailbox, reply, planVars>>

-----------------------------------------------------------------------------
(* The plans, in the window and at exit *)

Authorized(plan) == plan.revision = setting.revision

PlanUnchanged == <<settingVars, policyVars, offerVars, pending, queuedAuto, turn, mailbox, reply,
                   checked>>

\* Arming replaces the plan armed before; the window may drop a plan instead.
Arm ==
    /\ \E plan \in held :
          /\ held' = held \ {plan}
          /\ armed' = IF Authorized(plan) THEN plan ELSE armed
    /\ UNCHANGED <<PlanUnchanged, launched>>

\* The exiting process takes the armed plan and launches it.
Launch ==
    /\ armed # None /\ launched = None
    /\ armed' = None
    /\ launched' = IF Authorized(armed) THEN armed ELSE None
    /\ UNCHANGED <<PlanUnchanged, held>>

ReceiveCommand == ReceiveCheck \/ ReceiveDownload \/ ReceivePrepare
Complete == CompleteStale \/ CompleteCurrent
Turn == ReceiveSettings \/ TimerTick \/ ReceiveCommand \/ Complete \/ EndOfTurn
Environment == ChannelChanges \/ AutomaticChanges \/ (\E c \in Callers : Send(c)) \/ Arm \/ Launch

Next == Turn \/ Environment
Spec == Init /\ [][Next]_vars

\* The select polls its ready branches in random order and the timer recurs, so
\* a branch that is ready again and again is taken; workers return.
Fairness ==
    /\ WF_vars(EndOfTurn)
    /\ SF_vars(ReceiveSettings) /\ SF_vars(ReceiveCommand) /\ SF_vars(Complete)

FairSpec == Spec /\ Fairness

-----------------------------------------------------------------------------
(* Properties *)

\* A plan may lie in the window, or armed, while the channel changes back and
\* forth under it (updates/mod.rs, issued-update-plan-authority): what the exiting
\* process launches was found on the channel that is selected at that moment.
LaunchOnChannel ==
    [][launched' # launched => launched'.release.nightly = setting.nightly]_vars

\* What the window offers is what Prepare would hand out (updates/actor.rs:157):
\* unless a settings change is still to be read, "ready" names the version of a
\* staged plan of the current channel, whatever checks found since the download.
ReadyIsInstallable ==
    status = "ready" /\ ~unseen =>
        /\ staged # None /\ staged.release.version = available
        /\ staged.revision = setting.revision

\* What is offered and what is launched belong to the channel in force.
PlansFollowChannel == []ReadyIsInstallable /\ LaunchOnChannel

\* Every command is answered, by the worker's result, by a refusal, or because the
\* channel changed, whichever comes first.
EveryRequestAnswered ==
    \A c \in Callers : reply[c] = "waiting" ~> reply[c] \in {"ok", "failed"}

\* With automatic checks on, the channel in force gets checked although stale
\* operations are in the way and notifications coalesce: nobody has to wait for
\* the next six-hour tick.
PolicyChecked ==
    setting.automatic /\ checked # setting.revision
        ~> checked = setting.revision \/ ~setting.automatic
=============================================================================
