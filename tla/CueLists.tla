------------------------------ MODULE CueLists ------------------------------
(***************************************************************************)
(* The cue lists of a session beside its scene library: both belong to the *)
(* Scenes actor, which serves cue commands, waits for the recall a GO      *)
(* started, and reconciles the cue document whenever the configurations    *)
(* changed.  A session replacement installs both documents at once.        *)
(*                                                                         *)
(* The recall behind a GO is abstracted to the stages that decide which    *)
(* branches of the loop are open (ScenesRecall has the whole of it).  What *)
(* a session's file holds was saved earlier and is aligned with the list   *)
(* LV1 has when it is opened; ShowSession models the time in between.      *)
(***************************************************************************)
EXTENDS SceneLibrary

CONSTANT MaxInbox   \* bound: cue commands queued

ASSUME MaxInboxAssumption == MaxInbox \in Nat

VARIABLES
    cues,      \* the cue-list document
    cueIds,    \* UUIDs handed out to its lists and entries so far
    current,   \* current_entry_id
    go,        \* pending_recall of the cue lists, or None
    answer,    \* history: what the last GO was answered
    session,   \* session_revision of the retained state
    inbox,     \* cue_commands and the retained ones before them
    editor,    \* the window's inline editor: the session and list it was opened for, or None
    saved      \* the session file

cueVars == <<cues, cueIds, current, go, answer, session, inbox, editor, saved>>
vars == <<libraryVars, cueVars>>

NoId == 0
Idle == [entry |-> NoId, scene |-> NoId, at |-> "idle", list |-> None]

-----------------------------------------------------------------------------
(* The document, cue_lists/state.rs *)

IdsOf(s) == [k \in DOMAIN s |-> s[k].id]
IsOneOf(s, id) == \E k \in DOMAIN s : s[k].id = id
At(s, id) == CHOOSE k \in DOMAIN s : s[k].id = id

HasActive(doc) == IsOneOf(doc.lists, doc.active)
ActiveEntries(doc) ==
    IF HasActive(doc) THEN doc.lists[At(doc.lists, doc.active)].entries ELSE <<>>
SetEntries(doc, entries) == [doc EXCEPT !.lists[At(doc.lists, doc.active)].entries = entries]

\* A sequence that names every element of s exactly once.
Reorders(s, order) ==
    Len(order) = Len(s) /\ ToSet(order) = ToSet(IdsOf(s))
Reordered(s, order) == [k \in DOMAIN order |-> s[At(s, order[k])]]

AdvanceCue(doc) ==
    LET entries == ActiveEntries(doc)
        next == At(entries, doc.cued) + 1
    IN [doc EXCEPT !.cued = IF next \in DOMAIN entries THEN entries[next].id ELSE NoId]

\* An active list or a cue that does not exist, and a cue without a scene, are cleared.
Reconcile(doc, sceneIds) ==
    LET entries == ActiveEntries(doc)
        valid == /\ IsOneOf(entries, doc.cued)
                 /\ entries[At(entries, doc.cued)].scene \in sceneIds
    IN [doc EXCEPT !.active = IF HasActive(doc) THEN @ ELSE NoId,
                   !.cued = IF valid THEN @ ELSE NoId]

\* What a command makes of the document; the document itself when it refuses.
\* fresh is the UUID it may hand out.
CreateList(doc, fresh) ==
    [lists |-> Append(doc.lists, [id |-> fresh, entries |-> <<>>]), active |-> fresh, cued |-> NoId]
DeleteList(doc, id) ==
    IF ~IsOneOf(doc.lists, id) THEN doc
    ELSE [lists |-> RemoveAt(doc.lists, At(doc.lists, id)),
          active |-> IF doc.active = id THEN NoId ELSE doc.active,
          cued |-> IF doc.active = id THEN NoId ELSE doc.cued]
ReorderLists(doc, order) ==
    IF Reorders(doc.lists, order) THEN [doc EXCEPT !.lists = Reordered(@, order)] ELSE doc
SetActive(doc, id) ==
    IF (id # NoId /\ ~IsOneOf(doc.lists, id)) \/ doc.active = id THEN doc
    ELSE [doc EXCEPT !.active = id, !.cued = NoId]
InsertEntry(doc, at, entry) == SetEntries(doc, InsertAt(ActiveEntries(doc), at, entry))
AddScene(doc, scene, at, fresh) ==
    IF ~HasActive(doc) THEN doc
    ELSE InsertEntry(doc, Min({at, Len(ActiveEntries(doc)) + 1}), [id |-> fresh, scene |-> scene])
RemoveEntry(doc, id) ==
    LET entries == ActiveEntries(doc)
    IN IF ~IsOneOf(entries, id) THEN doc
       ELSE [SetEntries(doc, RemoveAt(entries, At(entries, id)))
                EXCEPT !.cued = IF @ = id THEN NoId ELSE @]
ReorderEntries(doc, order) ==
    IF HasActive(doc) /\ Reorders(ActiveEntries(doc), order)
    THEN SetEntries(doc, Reordered(ActiveEntries(doc), order)) ELSE doc
CueEntry(doc, id) ==
    IF id = NoId \/ IsOneOf(ActiveEntries(doc), id) THEN [doc EXCEPT !.cued = id] ELSE doc

\* An inline edit or insert names the session and the list its editor was opened for.
Aimed(command, doc) ==
    /\ command.session = session
    /\ IsOneOf(configs, command.scene)
    /\ doc.active = command.list /\ HasActive(doc)
EditEntry(doc, command) ==
    LET entries == ActiveEntries(doc)
    IN IF Aimed(command, doc) /\ IsOneOf(entries, command.entry)
       THEN SetEntries(doc, [entries EXCEPT ![At(entries, command.entry)].scene = command.scene])
       ELSE doc
InsertCue(doc, command, fresh) ==
    IF /\ Aimed(command, doc)
       /\ IdsOf(ActiveEntries(doc)) = command.order
       /\ command.at <= Len(command.order) + 1
    THEN InsertEntry(doc, command.at, [id |-> fresh, scene |-> command.scene])
    ELSE doc

Result(doc, command, fresh) ==
    CASE command.kind = "create"       -> CreateList(doc, fresh)
      [] command.kind = "deleteList"   -> DeleteList(doc, command.id)
      [] command.kind = "reorderLists" -> ReorderLists(doc, command.order)
      [] command.kind = "setActive"    -> SetActive(doc, command.id)
      [] command.kind = "add"          -> AddScene(doc, command.scene, command.at, fresh)
      [] command.kind = "edit"         -> EditEntry(doc, command)
      [] command.kind = "insert"       -> InsertCue(doc, command, fresh)
      [] command.kind = "remove"       -> RemoveEntry(doc, command.id)
      [] command.kind = "reorder"      -> ReorderEntries(doc, command.order)
      [] command.kind = "cue"          -> CueEntry(doc, command.id)

-----------------------------------------------------------------------------
(* The window *)

Orders(s) == {order \in [DOMAIN s -> ToSet(s)] : ToSet(order) = ToSet(s)}
ListIds == ToSet(IdsOf(cues.lists))
EntryIds == ToSet(IdsOf(ActiveEntries(cues)))
SceneIds == ToSet(IdsOf(configs))

\* What the window may ask for, given the documents it shows.
Plain(kind) == [kind : {kind}]
WithId(kind, among) == [kind : {kind}, id : among]
Commands ==
    Plain("create") \cup WithId("deleteList", ListIds)
    \cup WithId("setActive", ListIds \cup {NoId})
    \cup [kind : {"reorderLists"}, order : Orders(IdsOf(cues.lists))]
    \cup [kind : {"add"}, scene : SceneIds, at : 1 .. Len(ActiveEntries(cues)) + 1]
    \cup WithId("remove", EntryIds) \cup WithId("cue", EntryIds \cup {NoId})
    \cup [kind : {"reorder"}, order : Orders(IdsOf(ActiveEntries(cues)))]

InlineCommands ==
    [kind : {"edit"}, session : {editor.session}, list : {editor.list},
     entry : {editor.entry}, scene : SceneIds]
    \cup [kind : {"insert"}, session : {editor.session}, list : {editor.list},
          scene : SceneIds, at : 1 .. Len(ActiveEntries(cues)) + 1,
          order : {IdsOf(ActiveEntries(cues))}]

SendTo(command) == Len(inbox) < MaxInbox /\ inbox' = Append(inbox, command)

SendCommand ==
    /\ Spend("cue")
    /\ \/ (\E c \in Commands : SendTo(c)) /\ UNCHANGED editor
       \/ editor # None /\ (\E c \in InlineCommands : SendTo(c)) /\ editor' = None
    /\ UNCHANGED <<lv1Vars, facts, lagged, trackVars, documentVars,
                   cues, cueIds, current, go, answer, session, saved>>

OpenEditor ==
    /\ editor = None /\ HasActive(cues) /\ left["cue"] > 0
    /\ \E id \in EntryIds \cup {NoId} :
          editor' = [session |-> session, list |-> cues.active, entry |-> id]
    /\ UNCHANGED <<libraryVars, cues, cueIds, current, go, answer, session, inbox, saved>>

SendGo ==
    /\ Spend("go") /\ SendTo([kind |-> "go"])
    /\ UNCHANGED <<lv1Vars, facts, lagged, trackVars, documentVars,
                   cues, cueIds, current, go, answer, session, editor, saved>>

-----------------------------------------------------------------------------
(* The cue branches of the loop *)

GoPending == go.at # "idle"
Dispatching == go.at \in {"admission", "snapshot", "dispatch"}   \* pending_recall of the loop

\* begin_recall: the cued entry is resolved before a recall is asked for.
BeginRecall ==
    LET entries == ActiveEntries(cues)
    IN IF ~IsOneOf(entries, cues.cued)
       THEN answer' = "failed" /\ UNCHANGED go
       ELSE /\ go' = [entry |-> cues.cued, scene |-> entries[At(entries, cues.cued)].scene,
                      at |-> IF status = "ready" THEN "admission" ELSE "failed", list |-> None]
            /\ answer' = "none"

Inserting == {"create", "add", "insert"}   \* commands that hand out a UUID

\* Mutant of Dispatch: the current entry outlives the list it was in.
DispatchKeepsCurrent(command) ==
    LET doc == Result(cues, command, cueIds + 1)
    IN /\ cues' = doc /\ UNCHANGED current
       /\ cueIds' = IF command.kind \in Inserting /\ doc # cues THEN cueIds + 1 ELSE cueIds

\* dispatch: the current entry is forgotten when it left the active list.
Dispatch(command) ==
    LET doc == Result(cues, command, cueIds + 1)
    IN /\ cues' = doc
       /\ cueIds' = IF command.kind \in Inserting /\ doc # cues THEN cueIds + 1 ELSE cueIds
       /\ current' = IF IsOneOf(ActiveEntries(doc), current) THEN current ELSE NoId

\* Mutant of TakeCue: cue commands are served while a GO awaits its recall.
TakeCueAnytime ==
    /\ inbox # <<>> /\ inbox' = Tail(inbox)
    /\ IF Head(inbox).kind = "go"
       THEN BeginRecall /\ UNCHANGED <<cues, cueIds, current>>
       ELSE Dispatch(Head(inbox)) /\ UNCHANGED <<go, answer>>
    /\ UNCHANGED <<libraryVars, session, editor, saved>>

TakeCue ==
    /\ ~GoPending /\ inbox # <<>> /\ inbox' = Tail(inbox)
    /\ IF Head(inbox).kind = "go"
       THEN BeginRecall /\ UNCHANGED <<cues, cueIds, current>>
       ELSE Dispatch(Head(inbox)) /\ UNCHANGED <<go, answer>>
    /\ UNCHANGED <<libraryVars, session, editor, saved>>

\* The coordinator: admission, the queue, a fresh snapshot in which the scene must
\* be the one its configuration is linked to, and LV1's acceptance; each may fail.
GoStage(from, to) ==
    go.at = from /\ \E at \in {to, "failed"} : go' = [go EXCEPT !.at = at]
TakeSnapshot ==
    go.at = "queued" /\ go' = [go EXCEPT !.at = "snapshot", !.list = IF known THEN desk ELSE None]
ValidRecall ==
    \E k \in DOMAIN configs :
        /\ configs[k].id = go.scene
        /\ configs[k].index \in DOMAIN go.list /\ go.list[configs[k].index].name = configs[k].name
RecallGo ==
    /\ \/ Quiet /\ GoStage("admission", "queued")
       \/ GoStage("queued", "failed")
       \/ TakeSnapshot
       \/ Quiet /\ ValidRecall /\ go.at = "snapshot" /\ go' = [go EXCEPT !.at = "dispatch", !.list = None]
       \/ Quiet /\ ~ValidRecall /\ go.at = "snapshot" /\ go' = [go EXCEPT !.at = "failed", !.list = None]
       \/ Quiet /\ GoStage("dispatch", "accepted")
    /\ UNCHANGED <<libraryVars, cues, cueIds, current, answer, session, inbox, editor, saved>>

\* complete_recall: the cue advances if the entry that was recalled is still cued.
CompleteGo ==
    /\ Quiet /\ go.at \in {"accepted", "failed"} /\ go' = Idle
    /\ IF go.at = "accepted" /\ cues.cued = go.entry
       THEN answer' = "ok" /\ cues' = AdvanceCue(cues) /\ current' = go.entry
       ELSE answer' = "failed" /\ UNCHANGED <<cues, current>>
    /\ UNCHANGED <<libraryVars, cueIds, session, inbox, editor, saved>>

-----------------------------------------------------------------------------
(* The other branches, with the reconciliation at the end of each turn *)

ReconcileTurn ==
    LET doc == Reconcile(cues, ToSet(IdsOf(configs')))
    IN IF IdsOf(configs') = IdsOf(configs)
       THEN UNCHANGED <<cues, current>>
       ELSE /\ cues' = doc
            /\ current' = IF IsOneOf(ActiveEntries(doc), current) THEN current ELSE NoId

\* A disconnect or lost events cancel the recall that is not yet dispatched.
CancelGo == go' = IF go.at \in {"admission", "queued", "snapshot", "dispatch"}
                  THEN [go EXCEPT !.at = "failed", !.list = None] ELSE go

LibraryTurn ==
    /\ \/ (ReceiveList \/ FinishRecovery) /\ UNCHANGED go
       \/ (ReceiveDisconnected \/ ReceiveLag) /\ CancelGo
       \/ ~Dispatching /\ (LinkConfig \/ DeleteConfig) /\ UNCHANGED go
    /\ ReconcileTurn
    /\ UNCHANGED <<cueIds, answer, session, inbox, editor, saved>>

ConsoleTurn == Console /\ UNCHANGED cueVars

\* GetSessionDocument and the file written from it.
SaveSession ==
    /\ ~Dispatching /\ Spend("save") /\ saved' = [configs |-> configs, cues |-> cues]
    /\ UNCHANGED <<lv1Vars, facts, lagged, trackVars, documentVars,
                   cues, cueIds, current, go, answer, session, inbox, editor>>

\* The commands of a queue that meet the new documents: all but GOs and inline edits.
Surviving(queue) ==
    Kept(queue, {k \in DOMAIN queue : queue[k].kind \notin {"go", "edit", "insert"}})

\* commit_session_replacement: GOs are refused, inline edits are canceled, every
\* other cue command stays queued and meets the new documents.
ReplaceSession ==
    /\ known /\ Spend("replace")
    /\ LET aligned == Align(saved.configs, desk)
           refused == GoPending \/ \E k \in DOMAIN inbox : inbox[k].kind = "go"
       IN /\ configs' = aligned.configs /\ ids' = aligned.ids
          /\ cues' = Reconcile(saved.cues, ToSet(IdsOf(configs')))
          /\ answer' = IF refused THEN "canceled" ELSE answer
    /\ current' = NoId /\ go' = Idle /\ session' = session + 1 /\ clear' = FALSE
    /\ inbox' = Surviving(inbox)
    /\ UNCHANGED <<lv1Vars, facts, lagged, trackVars, followed, cueIds, editor, saved>>

-----------------------------------------------------------------------------
\* A session whose one list cues the scenes of the desk in order.
CueInit ==
    /\ LibraryInit
    /\ cues = [lists |-> <<[id |-> 1, entries |-> [i \in DOMAIN configs |->
                                 [id |-> 1 + i, scene |-> configs[i].id]]]>>,
               active |-> 1, cued |-> 2]
    /\ cueIds = 1 + Len(configs)
    /\ current = NoId /\ go = Idle /\ answer = "none" /\ session = 0
    /\ inbox = <<>> /\ editor = None
    /\ saved = [configs |-> configs, cues |-> cues]

Next == ConsoleTurn \/ LibraryTurn \/ SendCommand \/ OpenEditor \/ SendGo \/ TakeCue
        \/ RecallGo \/ CompleteGo \/ SaveSession \/ ReplaceSession

Spec == CueInit /\ [][Next]_vars

-----------------------------------------------------------------------------
(* Properties *)

\* Whatever is edited, deleted, reconciled or replaced, the active list exists,
\* and the cued and the current entry are entries of it
\* (owned-document-order-and-selection, cue_lists/state.rs:6; current_entry_id).
CueConfined ==
    /\ cues.active = NoId \/ HasActive(cues)
    /\ {cues.cued, current} \subseteq EntryIds \cup {NoId}

\* A GO is answered with success only if the entry it recalled is still cued and
\* still stands for the scene that LV1 was made to recall; otherwise its
\* completion leaves cue and current entry alone (advance-only-after-dispatch-success).
GoTruth ==
    [][go.at # "idle" /\ go'.at = "idle" /\ session' = session =>
          IF answer' = "ok"
          THEN \E k \in DOMAIN ActiveEntries(cues) :
                  /\ ActiveEntries(cues)[k] = [id |-> go.entry, scene |-> go.scene]
                  /\ cues.cued = go.entry /\ current' = go.entry
          ELSE UNCHANGED <<cues, current>>]_vars
=============================================================================
