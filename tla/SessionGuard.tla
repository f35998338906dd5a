---------------------------- MODULE SessionGuard ----------------------------
(***************************************************************************)
(* The guard of destructive session actions, composed with the session     *)
(* documents of ShowSession.  The window asks Show for the session state   *)
(* before it replaces the session or quits, prompts when it is dirty, and  *)
(* carries the revision it was told to the point of no return.  Edits and  *)
(* file operations of the window go through one serial lane, a client of   *)
(* Show; edits from elsewhere (a GO, LV1) do not.                          *)
(***************************************************************************)
EXTENDS ShowSession

CONSTANTS
    Lane,          \* the client of Show that runs the lane's jobs
    Actions,       \* the guarded actions the user may ask for
    MaxSubmits,    \* bound: edits submitted by the window
    MaxRequests,   \* bound: guarded actions, plain saves
    MaxJobs        \* bound: jobs of the window, so that identifiers are finite

ASSUME GuardAssumption ==
    /\ Lane \in Clients
    /\ Actions \subseteq {"new", "template", "open", "quit", "restart"}
    /\ {MaxSubmits, MaxRequests, MaxJobs} \subseteq Nat

VARIABLES
    lane,      \* jobs submitted and not finished, in order
    running,   \* the job at the head has been handed to Show
    events,    \* what the lane and other tasks report to the window
    epoch,     \* persisted edits submitted by the window
    nextId,    \* last job identifier
    guard,     \* the pending session action and its phase, or None
    pickers,   \* open file pickers of admitted actions
    restart,   \* the disconnect awaited before an update, or None
    app,       \* running, or how it was quit
    used       \* requests made so far

guardVars == <<lane, running, events, epoch, nextId, guard, pickers, restart, app, used>>
allVars == <<vars, guardVars>>

JobKinds == {"edit", "lockout", "query", "save", "saveas", "new", "template", "open"}
Jobs == [kind : JobKinds, id : 1 .. MaxJobs, epoch : 0 .. MaxSubmits,
         path : Paths \cup {NoPath}, rev : Revisions \cup {NoRev}]
Events == [kind : {"query", "finished"}, id : 1 .. MaxJobs, ok : BOOLEAN, dirty : BOOLEAN,
           rev : Revisions \cup {NoRev}, titled : BOOLEAN, epoch : 0 .. MaxSubmits]
Pending == [action : Actions, phase : {"preflight", "choice", "destination", "saving", "postsave"},
            id : 1 .. MaxJobs, titled : BOOLEAN]

GuardTypeOK ==
    /\ lane \in Seq(Jobs) /\ running \in BOOLEAN
    /\ events \in Seq(Events)
    /\ epoch \in 0 .. MaxSubmits /\ nextId \in 0 .. MaxJobs
    /\ guard \in Pending \cup {None}
    /\ pickers \subseteq [action : Actions, rev : Revisions \cup {NoRev}]
    /\ restart \in [rev : Revisions \cup {NoRev}, epoch : 0 .. MaxSubmits] \cup {None}
    /\ app \in {"running", "quit", "discarded"}
    /\ used \in 0 .. MaxRequests

GuardInit ==
    /\ Init
    /\ lane = <<>> /\ running = FALSE /\ events = <<>>
    /\ epoch = 0 /\ nextId = 0
    /\ guard = None /\ pickers = {} /\ restart = None
    /\ app = "running" /\ used = 0

-----------------------------------------------------------------------------
(* The serial lane *)

Job(kind, p, rev) == [kind |-> kind, id |-> nextId + 1, epoch |-> epoch, path |-> p, rev |-> rev]

Enqueue(job) ==
    /\ nextId < MaxJobs
    /\ nextId' = nextId + 1
    /\ lane' = Append(lane, job)

\* A persisted edit counts before it is queued, so that no query misses it.
SubmitEdit(kind) ==
    /\ epoch < MaxSubmits
    /\ epoch' = epoch + 1
    /\ Enqueue(Job(kind, NoPath, NoRev))
    /\ UNCHANGED <<vars, running, events, guard, pickers, restart, app, used>>

\* A scene or cue command that Scenes handles; a rejected one changes nothing.
LaneEdit ==
    /\ lane # <<>> /\ ~running /\ Head(lane).kind = "edit"
    /\ lane' = Tail(lane)
    /\ ScenesReady
    /\ \E accepted \in (IF edits < MaxEdits THEN BOOLEAN ELSE {FALSE}) : Publish(accepted)
    /\ UNCHANGED <<scenesList, aligned, replying, inbox, tickets, metaVars, pending, held, query,
                   mailbox, client, files, outcome, lv1Vars, left>>
    /\ UNCHANGED <<running, events, epoch, nextId, guard, pickers, restart, app, used>>

\* A save goes to the file the session has, if any; Save As to the file picked.
Destination(job) == IF job.kind = "save" /\ path # NoPath THEN path ELSE job.path
HasDestination(job) == job.kind = "save" => Destination(job) # NoPath
CommandOf(job) == IF job.kind = "saveas" THEN "save" ELSE job.kind

LaneSend ==
    /\ lane # <<>> /\ ~running /\ Head(lane).kind # "edit" /\ HasDestination(Head(lane))
    /\ LET job == Head(lane)
       IN Send(Lane, [from |-> Lane, kind |-> CommandOf(job), path |-> Destination(job),
                      rev |-> job.rev, on |-> job.kind = "lockout" /\ ~lockout])
    /\ running' = TRUE
    /\ UNCHANGED <<lane, events, epoch, nextId, guard, pickers, restart, app, used>>

Report(kind, ok, answer) ==
    [kind |-> kind, id |-> Head(lane).id, ok |-> ok, dirty |-> answer.dirty, rev |-> answer.rev,
     titled |-> answer.path # NoPath, epoch |-> Head(lane).epoch]

LaneNoDestination ==
    /\ lane # <<>> /\ ~running /\ ~HasDestination(Head(lane))
    /\ lane' = Tail(lane)
    /\ events' = Append(events, Report("finished", FALSE, Answer("save", FALSE)))
    /\ UNCHANGED <<vars, running, epoch, nextId, guard, pickers, restart, app, used>>

\* Only the results of queries and saves can concern the guard.
LaneFinish ==
    /\ running /\ Answered(Lane)
    /\ lane' = Tail(lane) /\ running' = FALSE
    /\ events' = CASE Head(lane).kind = "query" ->
                        Append(events, Report("query", client[Lane].ok, client[Lane]))
                   [] Head(lane).kind \in {"save", "saveas"} ->
                        Append(events, Report("finished", client[Lane].ok, client[Lane]))
                   [] OTHER -> events
    /\ UNCHANGED <<vars, epoch, nextId, guard, pickers, restart, app, used>>

-----------------------------------------------------------------------------
(* The window and its guard *)

\* The guard asks Show for the session state, through the lane.
Query(action, phase) ==
    /\ Enqueue(Job("query", NoPath, NoRev))
    /\ guard' = [action |-> action, phase |-> phase, id |-> nextId + 1, titled |-> FALSE]

\* The owner-side revision gate around quitting.
AdmitsQuit(rev) == rev = revision

\* The disconnect before an update takes along the epoch the guard validated.
AwaitDisconnect(rev) == restart' = [rev |-> rev, epoch |-> epoch]

\* Continue: the action the guard admitted, with the revision it validated.  The
\* guard is no longer pending except when quitting restarts the preflight.
Continue(action, rev) ==
    \/ /\ action = "new"
       /\ Enqueue(Job("new", NoPath, rev))
       /\ guard' = None
       /\ UNCHANGED <<pickers, restart, app>>
    \/ /\ action \in {"template", "open"}
       /\ pickers' = pickers \cup {[action |-> action, rev |-> rev]}
       /\ guard' = None
       /\ UNCHANGED <<lane, nextId, restart, app>>
    \/ /\ action = "quit"
       /\ IF rev = NoRev
            THEN app' = "discarded" /\ guard' = None /\ UNCHANGED <<lane, nextId>>
            ELSE IF AdmitsQuit(rev)
                   THEN app' = "quit" /\ guard' = None /\ UNCHANGED <<lane, nextId>>
                   ELSE Query("quit", "preflight") /\ UNCHANGED app
       /\ UNCHANGED <<pickers, restart>>
    \/ /\ action = "restart"
       /\ AwaitDisconnect(rev)
       /\ guard' = None
       /\ UNCHANGED <<lane, nextId, pickers, app>>

\* A guarded action, from a menu, a key or the window's close button.
Request(action) ==
    /\ guard = None /\ restart = None
    /\ used < MaxRequests /\ used' = used + 1
    /\ Query(action, "preflight")
    /\ UNCHANGED <<vars, running, events, epoch, pickers, restart, app>>

\* A plain Save or Save As.
RequestSave ==
    /\ guard = None /\ restart = None
    /\ used < MaxRequests /\ used' = used + 1
    /\ \/ Enqueue(Job("save", NoPath, NoRev))
       \/ \E p \in Paths : Enqueue(Job("saveas", p, NoRev))
    /\ UNCHANGED <<vars, running, events, epoch, guard, pickers, restart, app>>

\* The result of a query is stale when an edit was submitted or a revision
\* published since.
Stale(event) == event.epoch # epoch \/ event.rev # revision

Querying == guard # None /\ guard.phase \in {"preflight", "postsave"}

\* A result that matches the guard's query decides; another is ignored.  A dialog
\* opened meanwhile or a failed query cancels the action.
QueryFinished ==
    /\ events # <<>> /\ Head(events).kind = "query"
    /\ events' = Tail(events)
    /\ LET event == Head(events)
       IN \/ guard' = None /\ UNCHANGED <<lane, nextId, pickers, restart, app>>
          \/ /\ ~(Querying /\ guard.id = event.id)
             /\ UNCHANGED <<lane, nextId, guard, pickers, restart, app>>
          \/ /\ Querying /\ guard.id = event.id
             /\ IF Stale(event)
                  THEN Query(guard.action, guard.phase) /\ UNCHANGED <<pickers, restart, app>>
                ELSE IF ~event.dirty
                  THEN Continue(guard.action, event.rev)
                  ELSE /\ guard' = IF guard.phase = "preflight"
                                     THEN [guard EXCEPT !.phase = "choice",
                                                        !.titled = event.titled]
                                     ELSE None
                       /\ UNCHANGED <<lane, nextId, pickers, restart, app>>
    /\ UNCHANGED <<vars, running, epoch, used>>

Save(p) ==
    /\ Enqueue(Job("save", p, NoRev))
    /\ guard' = [guard EXCEPT !.phase = "saving", !.id = nextId + 1]

\* The user answers the prompt: Save, Don't Save or Cancel.
Choose ==
    /\ guard # None /\ guard.phase = "choice"
    /\ \/ /\ guard.titled
          /\ Save(NoPath)
          /\ UNCHANGED <<pickers, restart, app>>
       \/ /\ ~guard.titled
          /\ guard' = [guard EXCEPT !.phase = "destination"]
          /\ UNCHANGED <<lane, nextId, pickers, restart, app>>
       \/ Continue(guard.action, NoRev)
       \/ guard' = None /\ UNCHANGED <<lane, nextId, pickers, restart, app>>
    /\ UNCHANGED <<vars, running, events, epoch, used>>

ChooseDestination ==
    /\ guard # None /\ guard.phase = "destination"
    /\ \/ \E p \in Paths : Save(p)
       \/ guard' = None /\ UNCHANGED <<lane, nextId>>
    /\ UNCHANGED <<vars, running, events, epoch, pickers, restart, app, used>>

AfterSaveIgnoresFailure(ok) ==
    IF ok THEN Query(guard.action, "postsave") /\ UNCHANGED <<pickers, restart, app>>
          ELSE UNCHANGED <<lane, nextId, guard, pickers, restart, app>>

\* A finished save is followed by another query; a failed one ends the action.
AfterSave(ok) ==
    IF ok THEN Query(guard.action, "postsave") /\ UNCHANGED <<pickers, restart, app>>
          ELSE guard' = None /\ UNCHANGED <<lane, nextId, pickers, restart, app>>

CommandFinished ==
    /\ events # <<>> /\ Head(events).kind = "finished"
    /\ events' = Tail(events)
    /\ IF guard # None /\ guard.phase = "saving" /\ guard.id = Head(events).id
         THEN AfterSave(Head(events).ok)
         ELSE UNCHANGED <<lane, nextId, guard, pickers, restart, app>>
    /\ UNCHANGED <<vars, running, epoch, used>>

\* The file picker of an admitted Open or New from Template.
Pick ==
    \E picker \in pickers :
        /\ pickers' = pickers \ {picker}
        /\ \/ \E p \in Paths : Enqueue(Job(picker.action, p, picker.rev))
           \/ UNCHANGED <<lane, nextId>>
        /\ UNCHANGED <<vars, running, events, epoch, guard, restart, app, used>>

\* LV1 has been disconnected for an update: the submission epoch and the revision
\* are compared again before the installer is armed and the window quits.
Disconnected ==
    /\ restart # None
    /\ connected' = FALSE
    /\ restart' = None
    /\ \/ UNCHANGED <<lane, nextId, guard, app>>
       \/ /\ restart.rev = NoRev
          /\ app' = "discarded"
          /\ UNCHANGED <<lane, nextId, guard>>
       \/ /\ restart.rev # NoRev
          /\ IF restart.epoch = epoch /\ AdmitsQuit(restart.rev)
               THEN app' = "quit" /\ UNCHANGED <<lane, nextId, guard>>
               ELSE Query("restart", "preflight") /\ UNCHANGED app
    /\ UNCHANGED <<scenesVars, inbox, tickets, busVars, metaVars, pending, held, query, mailbox,
                   client, files, outcome, generation, lv1List, left>>
    /\ UNCHANGED <<running, events, epoch, pickers, used>>

\* Lifecycle's discovery updates are Show's only commands from outside the lane.
Discovery ==
    \E c \in Clients \ {Lane} :
        Send(c, [from |-> c, kind |-> "discovery", path |-> NoPath, rev |-> NoRev, on |-> FALSE])

LaneStep == LaneEdit \/ LaneSend \/ LaneNoDestination \/ LaneFinish
WindowStep == QueryFinished \/ CommandFinished
UserStep == \/ \E kind \in {"edit", "lockout"} : SubmitEdit(kind)
            \/ \E action \in Actions : Request(action)
            \/ RequestSave \/ Choose \/ ChooseDestination \/ Pick
SessionStep == ScenesStep \/ ShowStep \/ OpStep \/ Environment \/ Discovery

GuardNext ==
    /\ app = "running"
    /\ \/ SessionStep /\ UNCHANGED guardVars
       \/ LaneStep \/ WindowStep \/ UserStep \/ Disconnected

GuardSpec == GuardInit /\ [][GuardNext]_allVars

\* The lane's task and the window's event loop run, LV1 disconnects, Show and
\* Scenes are fair as in ShowSession; the user need not answer.
GuardFairness ==
    /\ WF_allVars(app = "running" /\ LaneStep)
    /\ WF_allVars(app = "running" /\ WindowStep)
    /\ WF_allVars(app = "running" /\ Disconnected)
    /\ WF_allVars(app = "running" /\ ScenesReplace /\ UNCHANGED guardVars)
    /\ WF_allVars(app = "running" /\ ScenesReply /\ UNCHANGED guardVars)
    /\ WF_allVars(app = "running" /\ ScenesDocument /\ UNCHANGED guardVars)
    /\ WF_allVars(app = "running" /\ OpStep /\ UNCHANGED guardVars)
    /\ WF_allVars(app = "running" /\ ShowStep /\ UNCHANGED guardVars)

FairGuardSpec == GuardSpec /\ GuardFairness

-----------------------------------------------------------------------------
(* Properties *)

\* Scenes commits a replacement that carries a revision.
GuardedCommit ==
    /\ tickets' # tickets /\ inbox # <<>> /\ Head(inbox).rev # NoRev
    /\ tickets'[Head(inbox).op] = "committed"

\* No edit is lost without the user's consent (session_guard.rs,
\* dirty-session-destructive-action-gate): when a guarded replacement commits or a
\* guarded quit or restart happens, every edit of the documents about to go is in a
\* file, whatever edits, saves, late answers and lost facts came between the question
\* and that point; and no edit the window submitted before it quits is still
\* waiting in the lane.
NoUnsavedLoss ==
    [][ /\ GuardedCommit => Kept(content)
        /\ app' = "quit" /\ app # "quit" =>
              Kept(content) /\ \A i \in DOMAIN lane : lane[i].kind # "edit" ]_allVars

\* What the guide says of unsaved changes (site/docs/application-shell.md:59): "If you
\* create, open, or close while changes are unsaved, Advanced Show Control asks whether
\* you want to save changes".  A replacement admitted without asking replaces a session
\* that Show does not call dirty.
GuardedCommitIsClean == [][GuardedCommit => ~dirty]_allVars

\* A guarded action cannot hang: unless the user is being asked something, the
\* guard moves on, although edits keep making its queries stale for as long as
\* there are any.
GuardResolves ==
    guard # None /\ guard.phase \in {"preflight", "saving", "postsave"}
        ~> app # "running" \/ guard = None \/ guard.phase \in {"choice", "destination"}

\* The lane is serial and each job waits for its answer: none of them waits for
\* ever, whether Show holds a command back, an operation times out or LV1 is lost.
EveryJobFinishes == lane # <<>> ~> lane = <<>> \/ app # "running"
=============================================================================
