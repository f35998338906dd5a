---------------------------- MODULE ShowSession ----------------------------
(***************************************************************************)
(* The session documents and the actors that keep them: Scenes owns the    *)
(* scene and cue documents, Show owns the file metadata (path, dirty flag, *)
(* lockout) and runs the one pending new, open, template or save           *)
(* operation, and the event bus carries persisted edits from Scenes to     *)
(* Show and counts them in the persisted-session revision.                 *)
(*                                                                         *)
(* A document is abstracted to the last persisted edit that went into it,  *)
(* 0 for the blank document of a new session, and to the operation that    *)
(* changed it while loading it, if one did: that changed document is in no *)
(* file, although no edit is missing from the file it came from.           *)
(*                                                                         *)
(* Clients send Show commands and wait for the answer; which commands they *)
(* send is unconstrained here (SessionGuard restricts it).                 *)
(***************************************************************************)
EXTENDS Integers, Sequences

CONSTANTS
    Clients,       \* tasks that send Show commands, each awaiting one answer
    Paths,         \* session files
    NoPath,        \* a session without a backing file; a command without a path
    None,          \* no pending operation, held command, file or answer
    MaxEdits,      \* bound: persisted Scenes and Cue Lists edits
    MaxLockouts,   \* bound: lockout commands
    MaxOps,        \* bound: persistence operations
    MaxGen,        \* bound: runtime generations
    MaxLists,      \* bound: changes of LV1's scene list
    Scenarios      \* how often each kind of command and of outside event may happen

Bounded == {"lockout", "op", "query", "discovery", "lag", "list"}

ASSUME SessionAssumption ==
    /\ NoPath \notin Paths
    /\ None \notin Paths
    /\ {MaxEdits, MaxLockouts, MaxOps, MaxGen, MaxLists} \subseteq Nat
    /\ Scenarios \subseteq [Bounded -> Nat]
    /\ \A s \in Scenarios : s["lockout"] <= MaxLockouts /\ s["op"] <= MaxOps /\ s["list"] <= MaxLists

VARIABLES
    content,     \* Scenes: the documents
    scenesList,  \* Scenes: the scene list it last observed
    aligned,     \* Scenes: the scene list the documents are aligned with
    inbox,       \* Scenes: requests of Show's operations, in order
    replying,    \* Scenes: a replacement decided but not yet answered, or None
    tickets,     \* the replacement ticket of each operation
    edits,       \* number of edits ever made
    revision,    \* bus: persisted-session revision
    facts,       \* bus: persisted edits queued for Show
    lagged,      \* bus: Show's receiver overflowed
    dirty, path, lockout,   \* Show: file metadata
    pending,     \* Show: the operation in progress, or None
    held,        \* Show: the command held until it completes, or None
    query,       \* Show: the session-state query being served, or None
    mailbox,     \* Show: commands in order
    client,      \* what each client waits for, or its answer
    files,       \* disk
    outcome,     \* history: what each operation reported
    generation, connected, lv1List,   \* the LV1 runtime
    left         \* how many events of each bounded kind may still happen

scenesVars == <<content, scenesList, aligned, replying, edits>>
busVars == <<revision, facts, lagged>>
metaVars == <<dirty, path, lockout>>
lv1Vars == <<generation, connected, lv1List>>
vars == <<scenesVars, inbox, tickets, busVars, metaVars, pending, held, query, mailbox,
          client, files, outcome, lv1Vars, left>>

-----------------------------------------------------------------------------
NoRev == -1
Ops == 1 .. MaxOps

\* A document: its last edit, and the operation whose load changed it, or 0.
Contents == [edit : Nat, load : 0 .. MaxOps]
Edited(n) == [edit |-> n, load |-> 0]
Blank == Edited(0)
Revisions == Nat

Replacing == {"new", "open", "template"}
OpKinds == Replacing \cup {"save"}
CommandKinds == OpKinds \cup {"lockout", "query", "discovery"}

\* Opening, loading a template and saving name a file, nothing else does.
Naming == {"open", "template", "save"}
Named(command) == command.kind \in Naming <=> command.path # NoPath
Commands ==
    {command \in [from : Clients, kind : CommandKinds, path : Paths \cup {NoPath},
                  rev : Revisions \cup {NoRev}, on : BOOLEAN] : Named(command)}

\* What a client awaits or was answered; a query's answer carries Show's dirty
\* flag, path and the revision.
ClientStates == [kind : CommandKinds \cup {"idle", "waiting"}, ok : BOOLEAN, dirty : BOOLEAN,
                 rev : Revisions \cup {NoRev}, path : Paths \cup {NoPath}]

Files == [content : Contents, lockout : BOOLEAN]

Stages == {"start", "prepared", "asked", "document", "done"}

\* The future of the pending operation and what finishing it will need.
Operations ==
    {op \in [id : Ops, from : Clients, kind : OpKinds, path : Paths \cup {NoPath},
             rev : Revisions \cup {NoRev}, stage : Stages, ok : BOOLEAN,
             gen : Nat, list : Nat, doc : Contents, lockout : BOOLEAN,
             normalized : BOOLEAN, during : BOOLEAN] : Named(op)}

Requests == [op : Ops, kind : {"replace", "document"}, doc : Contents, list : Nat,
             gen : Nat, rev : Revisions \cup {NoRev}]

ASSUME NoneAssumption ==
    None \notin Operations \cup [op : Ops, ok : BOOLEAN]
                 \cup [from : Clients, rev : Revisions, drained : BOOLEAN]

BoundOf(kind) == IF kind \in OpKinds THEN "op" ELSE kind
Spend(k) == left[k] > 0 /\ left' = [left EXCEPT ![k] = @ - 1]

Answer(k, ok) == [kind |-> k, ok |-> ok, dirty |-> FALSE, rev |-> NoRev, path |-> NoPath]
Waiting(c) == client[c].kind = "waiting"
Answered(c) == client[c].kind \in CommandKinds

\* Document c is document d, or what a load has made of it.
LoadedFrom(c, d) == c = d \/ (c.load # 0 /\ c.edit = d.edit)

\* No edit of document c is lost without it: it is blank, or some session file holds
\* it or the document it was loaded from.
Kept(c) == c.edit = 0 \/ \E p \in Paths : LoadedFrom(c, files[p].content)

TypeOK ==
    /\ content \in Contents /\ edits \in Nat
    /\ scenesList \in Nat /\ aligned \in Nat
    /\ inbox \in Seq(Requests)
    /\ replying \in [op : Ops, ok : BOOLEAN] \cup {None}
    /\ tickets \in [Ops -> {"none", "pending", "committed", "canceled"}]
    /\ revision \in Revisions /\ facts \in Nat /\ lagged \in BOOLEAN
    /\ dirty \in BOOLEAN /\ path \in Paths \cup {NoPath} /\ lockout \in BOOLEAN
    /\ pending \in Operations \cup {None}
    /\ held \in Commands \cup {None}
    /\ query \in [from : Clients, rev : Revisions, drained : BOOLEAN] \cup {None}
    /\ mailbox \in Seq(Commands)
    /\ client \in [Clients -> ClientStates]
    /\ files \in [Paths -> Files]
    /\ outcome \in [Ops -> {"none", "ok", "saved", "failed"}]
    /\ generation \in Nat /\ connected \in BOOLEAN /\ lv1List \in Nat
    /\ left \in [Bounded -> Nat]

\* A clean, untitled, blank session beside blank session files written earlier.
Init ==
    /\ content = Blank /\ edits = 0 /\ scenesList = 0 /\ aligned = 0
    /\ inbox = <<>> /\ replying = None /\ tickets = [op \in Ops |-> "none"]
    /\ revision = 0 /\ facts = 0 /\ lagged = FALSE
    /\ dirty = FALSE /\ path = NoPath /\ lockout = FALSE
    /\ pending = None /\ held = None /\ query = None
    /\ mailbox = <<>> /\ client = [c \in Clients |-> Answer("idle", TRUE)]
    /\ files = [p \in Paths |-> [content |-> Blank, lockout |-> TRUE]]
    /\ outcome = [op \in Ops |-> "none"]
    /\ generation = 0 /\ connected = TRUE /\ lv1List = 0
    /\ left \in Scenarios

-----------------------------------------------------------------------------
(* Scenes and the event bus *)

\* Publishing a persisted fact advances the revision and queues the fact under
\* the gate; the edit is visible to other tasks from here on.
Publish(changed) ==
    IF changed
      THEN /\ content' = Edited(edits + 1) /\ edits' = edits + 1
           /\ revision' = revision + 1 /\ facts' = facts + 1
           /\ UNCHANGED lagged
      ELSE UNCHANGED <<content, edits, busVars>>

ScenesReady == replying = None

\* A cue or scene command, a GO that advances the cue, a store from LV1.
ScenesEdit ==
    /\ ScenesReady /\ edits < MaxEdits
    /\ Publish(TRUE)
    /\ UNCHANGED <<scenesList, aligned, replying, inbox, tickets, metaVars, pending, held, query,
                   mailbox, client, files, outcome, lv1Vars, left>>

\* Scenes handles SceneListChanged: it aligns the documents, a persisted edit
\* only when alignment changes them.
ScenesObservesList ==
    /\ ScenesReady /\ scenesList # lv1List /\ connected
    /\ scenesList' = lv1List /\ aligned' = lv1List
    /\ \E changed \in (IF edits < MaxEdits THEN BOOLEAN ELSE {FALSE}) : Publish(changed)
    /\ UNCHANGED <<replying, inbox, tickets, metaVars, pending, held, query, mailbox, client, files,
                   outcome, lv1Vars, left>>

\* The revision gate around a guarded replacement; an unguarded one skips it.
AdmitsAnyRevision(request) == TRUE
AdmitsRevision(request) == request.rev = NoRev \/ request.rev = revision

\* The commit of a ticket: once, and only while it is pending.
TicketOpen(op) == tickets[op] = "pending"

\* Scenes decides the replacement at the head of its inbox.  The generation
\* fence and the revision gate are held across the commit; the answer follows.
ScenesReplace ==
    /\ ScenesReady /\ inbox # <<>> /\ Head(inbox).kind = "replace"
    /\ LET request == Head(inbox)
           commit == /\ request.gen = generation
                     /\ AdmitsRevision(request)
                     /\ TicketOpen(request.op)
       IN /\ replying' = [op |-> request.op, ok |-> commit]
          /\ IF commit
               THEN /\ content' = request.doc /\ aligned' = request.list
                    /\ tickets' = [tickets EXCEPT ![request.op] = "committed"]
               ELSE UNCHANGED <<content, aligned, tickets>>
    /\ inbox' = Tail(inbox)
    /\ UNCHANGED <<scenesList, edits, busVars, metaVars, pending, held, query, mailbox, client,
                   files, outcome, lv1Vars, left>>

\* The answer reaches Show's operation unless that has given up waiting.
ScenesReply ==
    /\ replying # None
    /\ replying' = None
    /\ pending' = IF pending # None /\ pending.id = replying.op /\ pending.stage = "asked"
                    THEN [pending EXCEPT !.stage = "done", !.ok = replying.ok]
                    ELSE pending
    /\ UNCHANGED <<content, scenesList, aligned, edits, inbox, tickets, busVars, metaVars, held,
                   query, mailbox, client, files, outcome, lv1Vars, left>>

\* Scenes hands out its document for a save.
ScenesDocument ==
    /\ ScenesReady /\ inbox # <<>> /\ Head(inbox).kind = "document"
    /\ pending' = IF pending # None /\ pending.id = Head(inbox).op /\ pending.stage = "asked"
                    THEN [pending EXCEPT !.stage = "document", !.doc = content]
                    ELSE pending
    /\ inbox' = Tail(inbox)
    /\ UNCHANGED <<scenesVars, tickets, busVars, metaVars, held, query, mailbox, client, files,
                   outcome, lv1Vars, left>>

\* Other facts overrun Show's receiver: the oldest queued facts are lost.
BusLag ==
    /\ Spend("lag")
    /\ lagged' = TRUE
    /\ facts' \in 0 .. facts
    /\ UNCHANGED <<scenesVars, inbox, tickets, revision, metaVars, pending, held, query, mailbox,
                   client, files, outcome, lv1Vars>>

-----------------------------------------------------------------------------
(* The LV1 runtime and the clients *)

Lv1Lost ==
    /\ connected /\ connected' = FALSE
    /\ UNCHANGED <<scenesVars, inbox, tickets, busVars, metaVars, pending, held, query, mailbox,
                   client, files, outcome, generation, lv1List, left>>

Lv1Connects ==
    /\ generation < MaxGen
    /\ generation' = generation + 1 /\ connected' = TRUE
    /\ UNCHANGED <<scenesVars, inbox, tickets, busVars, metaVars, pending, held, query, mailbox,
                   client, files, outcome, lv1List, left>>

Lv1ListChanges ==
    /\ connected /\ Spend("list")
    /\ lv1List' = lv1List + 1
    /\ UNCHANGED <<scenesVars, inbox, tickets, busVars, metaVars, pending, held, query, mailbox,
                   client, files, outcome, generation, connected>>

\* Client c sends a command and waits.
Send(c, command) ==
    /\ ~Waiting(c)
    /\ Spend(BoundOf(command.kind))
    /\ mailbox' = Append(mailbox, command)
    /\ client' = [client EXCEPT ![c] = Answer("waiting", TRUE)]
    /\ UNCHANGED <<scenesVars, inbox, tickets, busVars, metaVars, pending, held, query, files,
                   outcome, lv1Vars>>

-----------------------------------------------------------------------------
(* The Show actor's loop *)

Looping == query = None

\* An edit fact, or the lag that replaces lost ones, marks the session dirty;
\* while an operation is pending it also counts against that operation.
NoteDirty(op) == IF op = None THEN None ELSE [op EXCEPT !.during = TRUE]

\* A lag notice comes before the facts that are left.
TakeFact ==
    \/ lagged /\ lagged' = FALSE /\ UNCHANGED facts
    \/ ~lagged /\ facts > 0 /\ facts' = facts - 1 /\ UNCHANGED lagged

ShowRecvFact ==
    /\ Looping /\ (pending # None \/ held = None)
    /\ TakeFact
    /\ dirty' = TRUE
    /\ pending' = NoteDirty(pending)
    /\ UNCHANGED <<scenesVars, inbox, tickets, revision, path, lockout, held, query, mailbox,
                   client, files, outcome, lv1Vars, left>>

\* A command that starts an operation: Show captures its lockout for a save.
Unused(op) == outcome[op] = "none"
Begin(command) ==
    [id |-> CHOOSE op \in Ops : Unused(op), from |-> command.from, kind |-> command.kind,
     path |-> command.path, rev |-> command.rev, stage |-> "start", ok |-> FALSE,
     gen |-> 0, list |-> 0, doc |-> Blank, lockout |-> lockout, normalized |-> FALSE,
     during |-> FALSE]

\* An accepted lockout change is a persisted edit of Show's own.
SetLockout(on) ==
    /\ lockout' = on
    /\ revision' = IF on # lockout THEN revision + 1 ELSE revision

\* handle_command for everything but the session-state query.
Handle(command) ==
    \/ /\ command.kind = "lockout"
       /\ SetLockout(command.on)
       /\ client' = [client EXCEPT ![command.from] = Answer("lockout", TRUE)]
       /\ UNCHANGED pending
    \/ /\ command.kind = "discovery"
       /\ client' = [client EXCEPT ![command.from] = Answer("discovery", TRUE)]
       /\ UNCHANGED <<lockout, revision, pending>>
    \/ /\ command.kind \in OpKinds /\ \E op \in Ops : Unused(op)
       /\ pending' = Begin(command)
       /\ UNCHANGED <<lockout, revision, client>>

HandleUnchanged == <<scenesVars, inbox, tickets, facts, lagged, dirty, path, files, outcome,
                     lv1Vars, left>>

ShowTakeHeldOnEvent ==
    /\ Looping /\ pending = None /\ held # None
    /\ facts > 0 \/ lagged
    /\ held' = None
    /\ Handle(held)
    /\ UNCHANGED <<HandleUnchanged, query, mailbox>>

\* The held command is next once the operation is over.
ShowTakeHeld ==
    /\ Looping /\ pending = None /\ held # None
    /\ held' = None
    /\ Handle(held)
    /\ UNCHANGED <<HandleUnchanged, query, mailbox>>

ShowRecvCommand ==
    /\ Looping /\ pending = None /\ held = None
    /\ mailbox # <<>> /\ Head(mailbox).kind # "query"
    /\ mailbox' = Tail(mailbox)
    /\ Handle(Head(mailbox))
    /\ UNCHANGED <<HandleUnchanged, query, held>>

\* While an operation is pending only queries are served; the first other
\* command is held and the mailbox is left alone until the operation ends.
ShowHoldCommand ==
    /\ Looping /\ pending # None /\ held = None
    /\ mailbox # <<>> /\ Head(mailbox).kind # "query"
    /\ mailbox' = Tail(mailbox)
    /\ held' = Head(mailbox)
    /\ UNCHANGED <<HandleUnchanged, lockout, revision, client, pending, query>>

\* A session-state query: the revision first, then the queued facts, then the answer.
ShowQueryRevision ==
    /\ Looping /\ held = None
    /\ mailbox # <<>> /\ Head(mailbox).kind = "query"
    /\ mailbox' = Tail(mailbox)
    /\ query' = [from |-> Head(mailbox).from, rev |-> revision, drained |-> FALSE]
    /\ UNCHANGED <<HandleUnchanged, lockout, revision, client, pending, held>>

ShowQueryDrain ==
    /\ query # None /\ ~query.drained
    /\ LET dirtied == facts > 0 \/ lagged
       IN /\ dirty' = (dirty \/ dirtied)
          /\ pending' = IF dirtied THEN NoteDirty(pending) ELSE pending
    /\ facts' = 0 /\ lagged' = FALSE
    /\ query' = [query EXCEPT !.drained = TRUE]
    /\ UNCHANGED <<scenesVars, inbox, tickets, revision, path, lockout, held, mailbox, client,
                   files, outcome, lv1Vars, left>>

\* The revision captured before the drain, not the one current at the answer.
AnswerRevisionLate == revision
AnswerRevision == query.rev

ShowQueryReply ==
    /\ query # None /\ query.drained
    /\ client' = [client EXCEPT ![query.from] =
                     [kind |-> "query", ok |-> TRUE, dirty |-> dirty, rev |-> AnswerRevision,
                      path |-> path]]
    /\ query' = None
    /\ UNCHANGED <<HandleUnchanged, lockout, revision, pending, held, mailbox>>

-----------------------------------------------------------------------------
(* The pending operation: it runs between the loop's polls *)

OpUnchanged == <<scenesVars, busVars, metaVars, held, query, mailbox, client, outcome, lv1Vars,
                 left>>

AtStage(kinds, stage) == pending # None /\ pending.kind \in kinds /\ pending.stage = stage

\* What the operation held on to is dropped when it fails.
Fail == pending' = [pending EXCEPT !.stage = "done", !.ok = FALSE, !.gen = 0, !.list = 0,
                                   !.doc = Blank, !.lockout = FALSE, !.normalized = FALSE]

\* What an import makes of a document: generated scene identities, alignment with
\* LV1's list and reconciled cues change it, or nothing does.  The cues are reconciled
\* at the commit in Scenes, which nobody sees before the operation has finished.
Imported(document, normalized) ==
    IF normalized THEN [document EXCEPT !.load = pending.id] ELSE document

\* The LV1 snapshot and, for open and template, the import of the file.  A new
\* session is the blank document of whatever list LV1 reports.
OpPrepare ==
    /\ AtStage(Replacing, "start")
    /\ \/ Fail
       \/ /\ connected
          /\ pending.kind = "new"
          /\ pending' = [pending EXCEPT !.stage = "prepared", !.gen = generation, !.list = lv1List,
                                        !.doc = Blank, !.lockout = FALSE]
       \/ /\ connected
          /\ pending.kind # "new"
          /\ \E normalized \in BOOLEAN :
                pending' = [pending EXCEPT !.stage = "prepared", !.gen = generation,
                                           !.list = lv1List,
                                           !.doc = Imported(files[pending.path].content,
                                                            normalized),
                                           !.lockout = files[pending.path].lockout,
                                           !.normalized = normalized]
    /\ UNCHANGED <<OpUnchanged, inbox, tickets, files>>

\* validate_lv1_snapshot
SnapshotStillValid == connected /\ generation = pending.gen /\ lv1List = pending.list

OpRequest(kind) ==
    [op |-> pending.id, kind |-> kind, doc |-> pending.doc, list |-> pending.list,
     gen |-> pending.gen, rev |-> pending.rev]

\* The replacement goes to Scenes with a fresh ticket; a full mailbox times out.
OpReplace ==
    /\ AtStage(Replacing, "prepared")
    /\ \/ Fail /\ UNCHANGED <<inbox, tickets>>
       \/ /\ SnapshotStillValid
          /\ inbox' = Append(inbox, OpRequest("replace"))
          /\ tickets' = [tickets EXCEPT ![pending.id] = "pending"]
          /\ pending' = [pending EXCEPT !.stage = "asked", !.gen = 0, !.list = 0, !.doc = Blank]
    /\ UNCHANGED <<OpUnchanged, files>>

OpGiveUpUncanceled ==
    /\ AtStage(Replacing, "asked")
    /\ Fail
    /\ UNCHANGED <<OpUnchanged, tickets, inbox, files>>

\* The reply wait of a replacement ends: the ticket decides.
OpGiveUp ==
    /\ AtStage(Replacing, "asked")
    /\ \/ /\ tickets[pending.id] = "committed"
          /\ pending' = [pending EXCEPT !.stage = "done", !.ok = TRUE]
          /\ UNCHANGED tickets
       \/ /\ TicketOpen(pending.id)
          /\ tickets' = [tickets EXCEPT ![pending.id] = "canceled"]
          /\ Fail
    /\ UNCHANGED <<OpUnchanged, inbox, files>>

OpAskDocument ==
    /\ AtStage({"save"}, "start")
    /\ \/ Fail /\ UNCHANGED inbox
       \/ /\ inbox' = Append(inbox, OpRequest("document"))
          /\ pending' = [pending EXCEPT !.stage = "asked"]
    /\ UNCHANGED <<OpUnchanged, tickets, files>>

OpDocumentTimesOut ==
    /\ AtStage({"save"}, "asked")
    /\ Fail
    /\ UNCHANGED <<OpUnchanged, inbox, tickets, files>>

\* The staged file is published by one rename, or the old one stays.
OpWrite ==
    /\ AtStage({"save"}, "document")
    /\ \/ Fail /\ UNCHANGED files
       \/ /\ files' = [files EXCEPT ![pending.path] =
                          [content |-> pending.doc, lockout |-> pending.lockout]]
          /\ pending' = [pending EXCEPT !.stage = "done", !.ok = TRUE, !.doc = Blank,
                                        !.lockout = FALSE]
    /\ UNCHANGED <<OpUnchanged, inbox, tickets>>

\* What a successful operation does to Show's metadata.
FinishSave(op) ==
    /\ path' = op.path
    /\ dirty' = op.during
    /\ UNCHANGED lockout

FinishNew(op) ==
    /\ path' = NoPath
    /\ dirty' = op.during
    /\ lockout' = FALSE

FinishTemplate(op) ==
    /\ path' = NoPath
    /\ dirty' = op.during
    /\ lockout' = op.lockout

FinishOpenClean(op) ==
    /\ path' = op.path
    /\ dirty' = op.during
    /\ lockout' = op.lockout

FinishOpen(op) ==
    /\ path' = op.path
    /\ dirty' = (op.normalized \/ op.during)
    /\ lockout' = op.lockout

\* finish_pending_operation: metadata, then the answer.
ShowFinish ==
    /\ Looping /\ pending # None /\ pending.stage = "done"
    /\ IF pending.ok
         THEN CASE pending.kind = "save" -> FinishSave(pending)
                [] pending.kind = "new" -> FinishNew(pending)
                [] pending.kind = "template" -> FinishTemplate(pending)
                [] pending.kind = "open" -> FinishOpen(pending)
         ELSE UNCHANGED metaVars
    /\ client' = [client EXCEPT ![pending.from] = Answer(pending.kind, pending.ok)]
    /\ outcome' = [outcome EXCEPT ![pending.id] =
                      IF ~pending.ok THEN "failed"
                      ELSE IF pending.kind = "save" THEN "saved" ELSE "ok"]
    /\ pending' = None
    /\ UNCHANGED <<scenesVars, inbox, tickets, busVars, held, query, mailbox, files, lv1Vars, left>>

-----------------------------------------------------------------------------
ScenesStep == ScenesObservesList \/ ScenesReplace \/ ScenesReply \/ ScenesDocument
ShowStep == \/ ShowRecvFact \/ ShowTakeHeld \/ ShowRecvCommand \/ ShowHoldCommand
            \/ ShowQueryRevision \/ ShowQueryDrain \/ ShowQueryReply \/ ShowFinish
OpStep == OpPrepare \/ OpReplace \/ OpGiveUp \/ OpAskDocument \/ OpDocumentTimesOut \/ OpWrite
Environment == ScenesEdit \/ BusLag \/ Lv1Lost \/ Lv1Connects \/ Lv1ListChanges

\* A clean answer to the session-state query, with the revision it carries.
Certified(c) == client[c].kind = "query" /\ ~client[c].dirty

\* Any client may send any well-formed command; a replacement is guarded by the
\* revision the client was told with a clean answer, or not guarded at all.
ClientStep ==
    \E c \in Clients, k \in CommandKinds, p \in Paths \cup {NoPath}, on \in BOOLEAN :
      \E rev \in {NoRev} \cup (IF Certified(c) THEN {client[c].rev} ELSE {}) :
        /\ k \in Naming <=> p # NoPath
        /\ k \notin Replacing => rev = NoRev
        /\ k # "lockout" => ~on
        /\ Send(c, [from |-> c, kind |-> k, path |-> p, rev |-> rev, on |-> on])

Next == ScenesStep \/ ShowStep \/ OpStep \/ Environment \/ ClientStep

Spec == Init /\ [][Next]_vars

-----------------------------------------------------------------------------
(* Properties *)

\* Show's clean flag can be trusted (show/actor.rs:701, load-normalization-dirty-state):
\* when Show calls the session clean and no edit fact is queued for it, no edit of the
\* current documents is missing from the files; when moreover no operation is open and
\* the session has a path, the file at that path holds exactly these documents, so an
\* open that changed what it loaded is not clean.
CleanIsKept ==
    ~dirty /\ facts = 0 /\ ~lagged =>
        /\ Kept(content)
        /\ (pending = None /\ path # NoPath) =>
              files[path].content = content

\* A clean answer to a session-state query certifies the persisted edits (show/actor.rs,
\* session-state-query-observes-published-edits): for as long as the revision it carries
\* is the current one, no edit of the current documents is missing from the files,
\* although facts may have been queued, lost or drained at any point around the answer.
\* It does not certify the documents: a replacement leaves the revision alone
\* (runtime/events.rs:93), so it stays current beside documents which a later open has
\* changed while loading them and which no file holds (GuardedCommitIsClean).
CertificateTruth ==
    \A c \in Clients : Certified(c) /\ client[c].rev = revision => Kept(content)

\* A replacement and the cancellation by its timeout exclude each other
\* (session.rs:64): the operation reports success exactly when its documents
\* were installed, even when Scenes handles the request after the answer.
OutcomeMatchesCommit ==
    \A op \in Ops :
        /\ outcome[op] = "ok" => tickets[op] = "committed"
        /\ outcome[op] = "failed" => tickets[op] # "committed"

\* What the window says of unsaved changes (site/docs/application-shell.md:59) and
\* architecture.md:29 of lockout: a clean titled session is what its file holds,
\* lockout included.
CleanMatchesFile ==
    ~dirty /\ facts = 0 /\ ~lagged /\ pending = None /\ path # NoPath =>
        files[path] = [content |-> content, lockout |-> lockout]

\* replacement-revalidates-lv1-scene-list (show/actor.rs:866): a replacement is committed
\* only while LV1 reports the scene list it was aligned with.
CommitAligned == [][aligned' # aligned => aligned' = lv1List]_aligned
=============================================================================
