-------------------------- MODULE ShowSessionProofs --------------------------
(***************************************************************************)
(* Theorems about ShowSession, for every number of clients, files, edits   *)
(* and operations, and about SessionGuard, for every number of jobs and    *)
(* guarded actions besides.                                                *)
(***************************************************************************)
EXTENDS SessionGuard, SequenceTheorems, TLAPS

USE DEF scenesVars, busVars, metaVars, lv1Vars

-----------------------------------------------------------------------------
(* Shapes *)

DocsOK == content \in Contents /\ edits \in Nat /\ files \in [Paths -> Files]
ListsOK == scenesList \in Nat /\ aligned \in Nat
InboxOK == inbox \in Seq(Requests)
ReplyOK == replying \in [op : Ops, ok : BOOLEAN] \cup {None}
TicketOK == tickets \in [Ops -> {"none", "pending", "committed", "canceled"}]
OutcomeOK == outcome \in [Ops -> {"none", "ok", "saved", "failed"}]
BusOK == revision \in Nat /\ facts \in Nat /\ lagged \in BOOLEAN
MetaOK == dirty \in BOOLEAN /\ path \in Paths \cup {NoPath} /\ lockout \in BOOLEAN
PendingOK == pending \in Operations \cup {None}
QueueOK == held \in Commands \cup {None} /\ mailbox \in Seq(Commands)
QueryOK == query \in [from : Clients, rev : Revisions, drained : BOOLEAN] \cup {None}
ClientOK == client \in [Clients -> ClientStates]
Lv1OK == generation \in Nat /\ connected \in BOOLEAN /\ lv1List \in Nat /\ left \in [Bounded -> Nat]

Typed ==
    /\ DocsOK /\ ListsOK /\ InboxOK /\ ReplyOK /\ TicketOK /\ OutcomeOK /\ BusOK /\ MetaOK
    /\ PendingOK /\ QueueOK /\ QueryOK /\ ClientOK /\ Lv1OK

LEMMA Shapes == Typed => TypeOK
BY DEF Typed, TypeOK, DocsOK, ListsOK, InboxOK, ReplyOK, TicketOK, OutcomeOK, BusOK, MetaOK, PendingOK,
       QueueOK, QueryOK, ClientOK, Lv1OK, Revisions

\* The documents of a new session and of an edit.
LEMMA BlankFits ==
  /\ Blank \in Contents /\ Blank.edit = 0
  /\ \A n \in Nat : Edited(n) \in Contents /\ Edited(n).edit = n /\ Edited(n).load = 0
BY SessionAssumption DEF Blank, Edited, Contents

\* What an import makes of a document is one, with the same edits in it.
LEMMA ImportFits ==
  ASSUME pending \in Operations, NEW d \in Contents, NEW normalized \in BOOLEAN
  PROVE  /\ Imported(d, normalized) \in Contents
         /\ LoadedFrom(Imported(d, normalized), d)
         /\ normalized \/ Imported(d, normalized) = d
<1>1. pending.id \in Ops /\ Ops = 1 .. MaxOps /\ MaxOps \in Nat
  BY SessionAssumption DEF Operations, Ops
<1> QED
  BY <1>1 DEF Imported, LoadedFrom, Contents

LEMMA LoadedEdit == ASSUME NEW c, NEW d, LoadedFrom(c, d) PROVE c.edit = d.edit
BY DEF LoadedFrom

\* What a step leaves alone keeps its shape.
LEMMA Frame ==
  ASSUME Typed
  PROVE  /\ UNCHANGED <<content, edits, files>> => DocsOK'
         /\ UNCHANGED <<scenesList, aligned>> => ListsOK'
         /\ UNCHANGED inbox => InboxOK'
         /\ UNCHANGED replying => ReplyOK'
         /\ UNCHANGED tickets => TicketOK'
         /\ UNCHANGED outcome => OutcomeOK'
         /\ UNCHANGED <<revision, facts, lagged>> => BusOK'
         /\ UNCHANGED <<dirty, path, lockout>> => MetaOK'
         /\ UNCHANGED pending => PendingOK'
         /\ UNCHANGED <<held, mailbox>> => QueueOK'
         /\ UNCHANGED query => QueryOK'
         /\ UNCHANGED client => ClientOK'
         /\ UNCHANGED <<generation, connected, lv1List, left>> => Lv1OK'
BY DEF Typed, DocsOK, ListsOK, InboxOK, ReplyOK, TicketOK, OutcomeOK, BusOK, MetaOK, PendingOK,
       QueueOK, QueryOK, ClientOK, Lv1OK

\* The head of a queue, and what is left of it.
LEMMA Heads ==
  ASSUME NEW S, NEW s \in Seq(S), s # <<>>
  PROVE  /\ Head(s) \in S /\ Tail(s) \in Seq(S) /\ Head(s) = s[1] /\ 1 \in DOMAIN s
         /\ \A i \in DOMAIN Tail(s) : i + 1 \in DOMAIN s /\ Tail(s)[i] = s[i + 1]
BY HeadTailProperties

LEMMA FailType == ASSUME pending \in Operations, Fail PROVE PendingOK'
BY BlankFits DEF Fail, PendingOK, Operations, Named, Stages

LEMMA AnswerType ==
  ASSUME NEW k \in CommandKinds \cup {"idle", "waiting"}, NEW ok \in BOOLEAN
  PROVE  Answer(k, ok) \in ClientStates
BY DEF Answer, ClientStates, Revisions

\* A step of the actors and their surroundings, in which a client may send any
\* well-formed command: what holds of these holds of ShowSession's steps, whose
\* clients send the revisions they were told, and of SessionGuard's.
Sends == \E c \in Clients, command \in Commands : Send(c, command)
Move == ScenesStep \/ ShowStep \/ OpStep \/ Environment \/ Sends

LEMMA NextMoves == ASSUME Typed, Next PROVE Move
<1>1. CASE ClientStep
  <2>1. PICK c \in Clients, k \in CommandKinds, p \in Paths \cup {NoPath}, on \in BOOLEAN :
          \E rev \in {NoRev} \cup (IF Certified(c) THEN {client[c].rev} ELSE {}) :
             /\ k \in Naming <=> p # NoPath
             /\ k \notin Replacing => rev = NoRev
             /\ k # "lockout" => ~on
             /\ Send(c, [from |-> c, kind |-> k, path |-> p, rev |-> rev, on |-> on])
    BY <1>1 DEF ClientStep
  <2>2. PICK rev \in {NoRev} \cup {client[c].rev} :
          /\ k \in Naming <=> p # NoPath
          /\ Send(c, [from |-> c, kind |-> k, path |-> p, rev |-> rev, on |-> on])
    BY <2>1
  <2>3. client[c].rev \in Revisions \cup {NoRev}
    BY DEF ClientOK, ClientStates, Typed
  <2>4. [from |-> c, kind |-> k, path |-> p, rev |-> rev, on |-> on] \in Commands
    BY <2>2, <2>3 DEF Commands, Named
  <2> QED
    BY <2>2, <2>4 DEF Move, Sends
<1> QED
  BY <1>1 DEF Next, Move

\* Every step keeps the shapes.
LEMMA TypeStep == ASSUME Typed, Move PROVE Typed'
<1>1. CASE ScenesObservesList
  <2>1. DocsOK'
    BY <1>1, BlankFits DEF ScenesObservesList, Publish, ScenesReady, DocsOK, Typed
  <2>2. ListsOK'
    BY <1>1 DEF ScenesObservesList, Publish, ScenesReady, ListsOK, Lv1OK, Typed
  <2>3. BusOK'
    BY <1>1 DEF ScenesObservesList, Publish, ScenesReady, BusOK, Typed
  <2> QED
    BY <1>1, <2>1, <2>2, <2>3, Frame DEF ScenesObservesList, Publish, ScenesReady, Typed
<1>2. CASE ScenesReplace
  <2>1. Head(inbox) \in Requests /\ Tail(inbox) \in Seq(Requests)
    BY <1>2, Heads DEF ScenesReplace, InboxOK, Typed
  <2>2. DocsOK'
    BY <1>2, <2>1
       DEF ScenesReplace, AdmitsRevision, TicketOpen, ScenesReady, DocsOK, Files,
           Requests, Typed
  <2>3. ListsOK'
    BY <1>2, <2>1
       DEF ScenesReplace, AdmitsRevision, TicketOpen, ScenesReady, ListsOK, Lv1OK, Requests,
           Typed
  <2>4. ReplyOK'
    BY <1>2, <2>1
       DEF ScenesReplace, AdmitsRevision, TicketOpen, ScenesReady, ReplyOK, InboxOK, Requests,
           Typed
  <2>5. TicketOK'
    BY <1>2, <2>1
       DEF ScenesReplace, AdmitsRevision, TicketOpen, ScenesReady, TicketOK, Typed
  <2>6. InboxOK'
    BY <1>2, <2>1 DEF ScenesReplace, AdmitsRevision, TicketOpen, ScenesReady, InboxOK, Typed
  <2> QED
    BY <1>2, <2>2, <2>3, <2>4, <2>5, <2>6, Frame
       DEF ScenesReplace, AdmitsRevision, TicketOpen, ScenesReady, Typed
<1>3. CASE ScenesReply
  <2>1. ReplyOK'
    BY <1>3 DEF ScenesReply, ReplyOK, InboxOK, Requests, Typed
  <2>2. PendingOK'
    BY <1>3 DEF ScenesReply, PendingOK, Operations, Named, Stages, ReplyOK, Typed
  <2> QED
    BY <1>3, <2>1, <2>2, Frame DEF ScenesReply, Typed
<1>4. CASE ScenesDocument
  <2>1. Head(inbox) \in Requests /\ Tail(inbox) \in Seq(Requests)
    BY <1>4, Heads DEF ScenesDocument, InboxOK, Typed
  <2>2. InboxOK'
    BY <1>4, <2>1 DEF ScenesDocument, ScenesReady, InboxOK, Typed
  <2>3. PendingOK'
    BY <1>4, <2>1
       DEF ScenesDocument, ScenesReady, PendingOK, Operations, Named, Stages, DocsOK,
           Typed
  <2> QED
    BY <1>4, <2>2, <2>3, Frame DEF ScenesDocument, ScenesReady, Typed
<1>5. CASE ShowRecvFact
  <2>1. BusOK'
    <3>1. TakeFact /\ revision' = revision
      BY <1>5 DEF ShowRecvFact
    <3>2. facts' \in Nat
      BY <3>1 DEF TakeFact, BusOK, Typed
    <3>3. lagged' \in BOOLEAN
      BY <3>1 DEF TakeFact, BusOK, Typed
    <3> QED
      BY <3>1, <3>2, <3>3 DEF BusOK, Typed
  <2>2. MetaOK'
    BY <1>5 DEF ShowRecvFact, NoteDirty, TakeFact, Looping, MetaOK, Typed
  <2>3. PendingOK'
    BY <1>5
       DEF ShowRecvFact, NoteDirty, TakeFact, Looping, PendingOK, Operations, Named, Stages,
           Typed
  <2> QED
    BY <1>5, <2>1, <2>2, <2>3, Frame DEF ShowRecvFact, NoteDirty, TakeFact, Looping, Typed
<1>6. CASE ShowTakeHeld
  <2>1. held \in Commands
    BY <1>6 DEF ShowTakeHeld, QueueOK, Typed
  <2>2. (\E op \in Ops : Unused(op)) /\ held.kind \in OpKinds => Begin(held) \in Operations
    BY <2>1, BlankFits
       DEF Begin, Commands, Operations, Named, Naming, OpKinds, Replacing, Stages, Typed, MetaOK,
           Revisions
  <2>3. BusOK'
    BY <1>6, <2>1, <2>2
       DEF ShowTakeHeld, Handle, SetLockout, HandleUnchanged, Looping, Answer, BusOK, Typed
  <2>4. MetaOK'
    BY <1>6, <2>1, <2>2
       DEF ShowTakeHeld, Handle, SetLockout, HandleUnchanged, Looping, Answer, MetaOK, Commands,
           Typed
  <2>5. PendingOK'
    BY <1>6, <2>1, <2>2 DEF ShowTakeHeld, Handle, HandleUnchanged, Looping, PendingOK, Typed
  <2>6. QueueOK'
    BY <1>6, <2>1, <2>2
       DEF ShowTakeHeld, Handle, SetLockout, HandleUnchanged, Looping, Answer, QueueOK, Typed
  <2>7. ClientOK'
    <3>1. held.kind \in CommandKinds /\ held.from \in Clients
      BY <2>1 DEF Commands
    <3>2. client' \in {client, [client EXCEPT ![held.from] = Answer("lockout", TRUE)],
                      [client EXCEPT ![held.from] = Answer("discovery", TRUE)]}
      BY <1>6 DEF ShowTakeHeld, Handle
    <3>3. Answer("lockout", TRUE) \in ClientStates /\ Answer("discovery", TRUE) \in ClientStates
      BY AnswerType DEF CommandKinds
    <3> QED
      BY <3>1, <3>2, <3>3 DEF ClientOK, Typed
  <2> QED
    BY <1>6, <2>3, <2>4, <2>5, <2>6, <2>7, Frame
       DEF ShowTakeHeld, Handle, Begin, SetLockout, HandleUnchanged, Looping, Answer, Typed
<1>7. CASE ShowRecvCommand
  <2>1. Head(mailbox) \in Commands /\ Tail(mailbox) \in Seq(Commands)
    BY <1>7, Heads DEF ShowRecvCommand, QueueOK, Typed
  <2>2. (\E op \in Ops : Unused(op)) /\ Head(mailbox).kind \in OpKinds => Begin(Head(mailbox)) \in Operations
    BY <2>1, BlankFits
       DEF Begin, Commands, Operations, Named, Naming, OpKinds, Replacing, Stages, Typed, MetaOK,
           Revisions
  <2>3. BusOK'
    BY <1>7, <2>1, <2>2
       DEF ShowRecvCommand, Handle, SetLockout, HandleUnchanged, Looping, Answer, BusOK, Typed
  <2>4. MetaOK'
    BY <1>7, <2>1, <2>2
       DEF ShowRecvCommand, Handle, SetLockout, HandleUnchanged, Looping, Answer, MetaOK,
           Commands, Typed
  <2>5. PendingOK'
    BY <1>7, <2>1, <2>2
       DEF ShowRecvCommand, Handle, HandleUnchanged, Looping, PendingOK, Typed
  <2>6. QueueOK'
    BY <1>7, <2>1, <2>2
       DEF ShowRecvCommand, Handle, SetLockout, HandleUnchanged, Looping, Answer, QueueOK, Typed
  <2>7. ClientOK'
    <3>1. Head(mailbox).kind \in CommandKinds /\ Head(mailbox).from \in Clients
      BY <2>1 DEF Commands
    <3>2. client' \in {client, [client EXCEPT ![Head(mailbox).from] = Answer("lockout", TRUE)],
                      [client EXCEPT ![Head(mailbox).from] = Answer("discovery", TRUE)]}
      BY <1>7 DEF ShowRecvCommand, Handle
    <3>3. Answer("lockout", TRUE) \in ClientStates /\ Answer("discovery", TRUE) \in ClientStates
      BY AnswerType DEF CommandKinds
    <3> QED
      BY <3>1, <3>2, <3>3 DEF ClientOK, Typed
  <2> QED
    BY <1>7, <2>3, <2>4, <2>5, <2>6, <2>7, Frame
       DEF ShowRecvCommand, Handle, Begin, SetLockout, HandleUnchanged, Looping, Answer, Typed
<1>8. CASE ShowHoldCommand
  <2>1. Head(mailbox) \in Commands /\ Tail(mailbox) \in Seq(Commands)
    BY <1>8, Heads DEF ShowHoldCommand, QueueOK, Typed
  <2>2. QueueOK'
    BY <1>8, <2>1 DEF ShowHoldCommand, HandleUnchanged, Looping, QueueOK, Typed
  <2> QED
    BY <1>8, <2>2, Frame DEF ShowHoldCommand, HandleUnchanged, Looping, Typed
<1>9. CASE ShowQueryRevision
  <2>1. Head(mailbox) \in Commands /\ Tail(mailbox) \in Seq(Commands)
    BY <1>9, Heads DEF ShowQueryRevision, QueueOK, Typed
  <2>2. QueueOK'
    BY <1>9, <2>1 DEF ShowQueryRevision, HandleUnchanged, Looping, QueueOK, Typed
  <2>3. QueryOK'
    BY <1>9, <2>1
       DEF ShowQueryRevision, HandleUnchanged, Looping, QueryOK, Revisions, Commands, BusOK,
           Typed
  <2> QED
    BY <1>9, <2>2, <2>3, Frame DEF ShowQueryRevision, HandleUnchanged, Looping, Typed
<1>10. CASE ShowQueryDrain
  <2>1. BusOK'
    BY <1>10 DEF ShowQueryDrain, NoteDirty, BusOK, Typed
  <2>2. MetaOK'
    BY <1>10 DEF ShowQueryDrain, NoteDirty, MetaOK, Typed
  <2>3. PendingOK'
    BY <1>10 DEF ShowQueryDrain, NoteDirty, PendingOK, Operations, Named, Stages, Typed
  <2>4. QueryOK'
    BY <1>10 DEF ShowQueryDrain, NoteDirty, QueryOK, Revisions, Typed
  <2> QED
    BY <1>10, <2>1, <2>2, <2>3, <2>4, Frame DEF ShowQueryDrain, NoteDirty, Typed
<1>11. CASE ShowQueryReply
  <2>1. QueryOK'
    BY <1>11 DEF ShowQueryReply, HandleUnchanged, AnswerRevision, QueryOK, Revisions, Typed
  <2>2. ClientOK'
    BY <1>11
       DEF ShowQueryReply, HandleUnchanged, AnswerRevision, ClientOK, ClientStates, QueryOK,
           MetaOK, CommandKinds, Revisions, Typed
  <2> QED
    BY <1>11, <2>1, <2>2, Frame DEF ShowQueryReply, HandleUnchanged, AnswerRevision, Typed
<1>12. CASE ShowFinish
  <2>1. pending \in Operations
    BY <1>12 DEF ShowFinish, PendingOK, Typed
  <2>2. MetaOK'
    <3>1. path' \in Paths \cup {NoPath}
      BY <1>12, <2>1 DEF ShowFinish, FinishSave, FinishNew, FinishTemplate, FinishOpen, Operations,
                        OpKinds, Replacing, MetaOK, Typed
    <3>2. pending.during \in BOOLEAN /\ pending.normalized \in BOOLEAN /\ pending.lockout \in BOOLEAN
      BY <2>1 DEF Operations
    <3>3. dirty' \in {dirty, pending.during, pending.normalized \/ pending.during}
      BY <1>12, <2>1 DEF ShowFinish, FinishSave, FinishNew, FinishTemplate, FinishOpen, Operations,
                        OpKinds, Replacing
    <3>4. lockout' \in {lockout, pending.lockout, FALSE}
      BY <1>12, <2>1 DEF ShowFinish, FinishSave, FinishNew, FinishTemplate, FinishOpen, Operations,
                        OpKinds, Replacing
    <3>5. dirty' \in BOOLEAN
      BY <3>2, <3>3 DEF MetaOK, Typed
    <3>6. lockout' \in BOOLEAN
      BY <3>2, <3>4 DEF MetaOK, Typed
    <3> QED
      BY <3>1, <3>5, <3>6 DEF MetaOK
  <2>3. ClientOK'
    BY <1>12, <2>1
       DEF ShowFinish, FinishSave, FinishNew, FinishTemplate, FinishOpen, Looping, Answer,
           ClientOK, ClientStates, Operations, CommandKinds, Revisions, Typed
  <2>4. OutcomeOK'
    BY <1>12, <2>1
       DEF ShowFinish, FinishSave, FinishNew, FinishTemplate, FinishOpen, Looping, Answer,
           OutcomeOK, Typed
  <2>5. PendingOK'
    BY <1>12, <2>1
       DEF ShowFinish, FinishSave, FinishNew, FinishTemplate, FinishOpen, Looping, Answer,
           PendingOK, Operations, Named, Stages, Typed
  <2> QED
    BY <1>12, <2>2, <2>3, <2>4, <2>5, Frame
       DEF ShowFinish, FinishSave, FinishNew, FinishTemplate, FinishOpen, Looping, Answer, Typed
<1>13. CASE OpPrepare
  <2>1. pending \in Operations
    BY <1>13 DEF OpPrepare, AtStage, PendingOK, Typed
  <2>2. PendingOK'
    <3>1. CASE Fail
      BY <2>1, <3>1, FailType
    <3>2. CASE pending' = [pending EXCEPT !.stage = "prepared", !.gen = generation, !.list = lv1List,
                                          !.doc = Blank, !.lockout = FALSE]
      BY <2>1, <3>2, BlankFits DEF PendingOK, Operations, Named, Stages, Lv1OK, Typed
    <3>3. ASSUME NEW normalized \in BOOLEAN, pending.kind # "new",
                 pending' = [pending EXCEPT !.stage = "prepared", !.gen = generation,
                                            !.list = lv1List,
                                            !.doc = Imported(files[pending.path].content,
                                                             normalized),
                                            !.lockout = files[pending.path].lockout,
                                            !.normalized = normalized]
          PROVE  PendingOK'
      <4>1. files[pending.path] \in Files
        BY <2>1, <3>3 DEF DocsOK, Operations, Named, Naming, OpKinds, Replacing, Typed
      <4>2. /\ Imported(files[pending.path].content, normalized) \in Contents
            /\ files[pending.path].lockout \in BOOLEAN
        BY <2>1, <4>1, ImportFits DEF Files
      <4> QED
        BY <2>1, <4>2, <3>3 DEF PendingOK, Operations, Named, Stages, Lv1OK, Typed
    <3> QED
      BY <1>13, <3>1, <3>2, <3>3 DEF OpPrepare
  <2> QED
    BY <1>13, <2>2, Frame DEF OpPrepare, OpUnchanged, AtStage, Fail, Typed
<1>14. CASE OpReplace
  <2>1. pending \in Operations
    BY <1>14 DEF OpReplace, AtStage, PendingOK, Typed
  <2>2. OpRequest("replace") \in Requests
    BY <2>1 DEF OpRequest, Operations, Requests
  <2>3. InboxOK'
    BY <1>14, <2>2, AppendProperties DEF OpReplace, OpUnchanged, InboxOK, Typed
  <2>4. TicketOK'
    BY <1>14, <2>1, <2>2 DEF OpReplace, OpUnchanged, AtStage, TicketOK, Typed
  <2>5. PendingOK'
    <3>1. Fail
            \/ pending' = [pending EXCEPT !.stage = "asked", !.gen = 0, !.list = 0, !.doc = Blank]
      BY <1>14 DEF OpReplace
    <3>2. CASE Fail
      BY <2>1, <3>2, FailType
    <3>3. CASE pending' = [pending EXCEPT !.stage = "asked", !.gen = 0, !.list = 0, !.doc = Blank]
      BY <2>1, <3>3, BlankFits DEF PendingOK, Operations, Named, Stages
    <3> QED
      BY <3>1, <3>2, <3>3
  <2> QED
    BY <1>14, <2>3, <2>4, <2>5, Frame
       DEF OpReplace, OpUnchanged, AtStage, Fail, OpRequest, Typed
<1>15. CASE OpGiveUp
  <2>1. pending \in Operations
    BY <1>15 DEF OpGiveUp, AtStage, PendingOK, Typed
  <2>2. TicketOK'
    BY <1>15, <2>1 DEF OpGiveUp, OpUnchanged, AtStage, TicketOpen, TicketOK, Typed
  <2>3. PendingOK'
    <3>1. Fail
            \/ pending' = [pending EXCEPT !.stage = "done", !.ok = TRUE]
      BY <1>15 DEF OpGiveUp
    <3>2. CASE Fail
      BY <2>1, <3>2, FailType
    <3>3. CASE pending' = [pending EXCEPT !.stage = "done", !.ok = TRUE]
      BY <2>1, <3>3, BlankFits DEF PendingOK, Operations, Named, Stages
    <3> QED
      BY <3>1, <3>2, <3>3
  <2> QED
    BY <1>15, <2>2, <2>3, Frame DEF OpGiveUp, OpUnchanged, AtStage, Fail, TicketOpen, Typed
<1>16. CASE OpAskDocument
  <2>1. pending \in Operations
    BY <1>16 DEF OpAskDocument, AtStage, PendingOK, Typed
  <2>2. OpRequest("document") \in Requests
    BY <2>1 DEF OpRequest, Operations, Requests
  <2>3. InboxOK'
    BY <1>16, <2>2, AppendProperties DEF OpAskDocument, OpUnchanged, InboxOK, Typed
  <2>4. PendingOK'
    <3>1. Fail
            \/ pending' = [pending EXCEPT !.stage = "asked"]
      BY <1>16 DEF OpAskDocument
    <3>2. CASE Fail
      BY <2>1, <3>2, FailType
    <3>3. CASE pending' = [pending EXCEPT !.stage = "asked"]
      BY <2>1, <3>3, BlankFits DEF PendingOK, Operations, Named, Stages
    <3> QED
      BY <3>1, <3>2, <3>3
  <2> QED
    BY <1>16, <2>3, <2>4, Frame
       DEF OpAskDocument, OpUnchanged, AtStage, Fail, OpRequest, Typed
<1>17. CASE OpDocumentTimesOut
  <2>1. pending \in Operations
    BY <1>17 DEF OpDocumentTimesOut, AtStage, PendingOK, Typed
  <2>2. PendingOK'
    BY <1>17, <2>1, BlankFits
       DEF OpDocumentTimesOut, OpUnchanged, AtStage, Fail, PendingOK, Operations, Named, Stages,
           Typed
  <2> QED
    BY <1>17, <2>2, Frame DEF OpDocumentTimesOut, OpUnchanged, AtStage, Fail, Typed
<1>18. CASE OpWrite
  <2>1. pending \in Operations
    BY <1>18 DEF OpWrite, AtStage, PendingOK, Typed
  <2>2. DocsOK'
    BY <1>18, <2>1
       DEF OpWrite, OpUnchanged, AtStage, DocsOK, Files, Operations, Typed
  <2>3. PendingOK'
    <3>1. Fail
            \/ pending' = [pending EXCEPT !.stage = "done", !.ok = TRUE, !.doc = Blank,
                                           !.lockout = FALSE]
      BY <1>18 DEF OpWrite
    <3>2. CASE Fail
      BY <2>1, <3>2, FailType
    <3>3. CASE pending' = [pending EXCEPT !.stage = "done", !.ok = TRUE, !.doc = Blank,
                                           !.lockout = FALSE]
      BY <2>1, <3>3, BlankFits DEF PendingOK, Operations, Named, Stages
    <3> QED
      BY <3>1, <3>2, <3>3
  <2> QED
    BY <1>18, <2>2, <2>3, Frame DEF OpWrite, OpUnchanged, AtStage, Fail, Typed
<1>19. CASE ScenesEdit
  <2>1. DocsOK'
    BY <1>19, BlankFits DEF ScenesEdit, Publish, ScenesReady, DocsOK, Typed
  <2>2. BusOK'
    BY <1>19 DEF ScenesEdit, Publish, ScenesReady, BusOK, Typed
  <2> QED
    BY <1>19, <2>1, <2>2, Frame DEF ScenesEdit, Publish, ScenesReady, Typed
<1>20. CASE BusLag
  <2>1. BusOK'
    BY <1>20 DEF BusLag, Spend, BusOK, Typed
  <2>2. Lv1OK'
    BY <1>20 DEF BusLag, Spend, Lv1OK, Bounded, OpKinds, Replacing, CommandKinds, Typed
  <2> QED
    BY <1>20, <2>1, <2>2, Frame DEF BusLag, Spend, Typed
<1>21. CASE Lv1Lost
  <2>1. Lv1OK'
    BY <1>21 DEF Lv1Lost, Lv1OK, Bounded, OpKinds, Replacing, CommandKinds, Typed
  <2> QED
    BY <1>21, <2>1, Frame DEF Lv1Lost, Typed
<1>22. CASE Lv1Connects
  <2>1. Lv1OK'
    BY <1>22 DEF Lv1Connects, Lv1OK, Bounded, OpKinds, Replacing, CommandKinds, Typed
  <2> QED
    BY <1>22, <2>1, Frame DEF Lv1Connects, Typed
<1>23. CASE Lv1ListChanges
  <2>1. Lv1OK'
    BY <1>23
       DEF Lv1ListChanges, Spend, Lv1OK, Bounded, OpKinds, Replacing, CommandKinds, Typed
  <2> QED
    BY <1>23, <2>1, Frame DEF Lv1ListChanges, Spend, Typed
<1>24. CASE Sends
  <2>1. PICK c \in Clients, command \in Commands : Send(c, command)
    BY <1>24 DEF Sends
  <2>2. QueueOK'
    BY <2>1, AppendProperties DEF Send, QueueOK, Typed
  <2>3. ClientOK'
    BY <2>1, AnswerType DEF Send, ClientOK, Typed
  <2>4. Lv1OK'
    <3>1. BoundOf(command.kind) \in Bounded
      BY DEF Commands, CommandKinds, BoundOf, Bounded, OpKinds, Replacing
    <3> QED
      BY <2>1, <3>1 DEF Send, Spend, Lv1OK, Typed
  <2> QED
    BY <2>1, <2>2, <2>3, <2>4, Frame DEF Send, Typed
<1> QED
  BY <1>1, <1>2, <1>3, <1>4, <1>5, <1>6, <1>7, <1>8, <1>9, <1>10, <1>11, <1>12, <1>13,
     <1>14, <1>15, <1>16, <1>17, <1>18, <1>19, <1>20, <1>21, <1>22, <1>23, <1>24
     DEF Move, ScenesStep, ShowStep, OpStep, Environment

-----------------------------------------------------------------------------
(* The inductive invariant *)

\* The tickets: one is made for the operation in progress, its request is one
\* entry of the inbox until Scenes decides it, and the answer tells what became
\* of the ticket.
Mine(op) == pending # None /\ pending.id = op
Known(op) == outcome[op] # "none" \/ Mine(op)
TicketsKnown == \A op \in Ops : tickets[op] # "none" => Known(op)
RequestsKnown ==
    \A i \in DOMAIN inbox :
        /\ Known(inbox[i].op)
        /\ Mine(inbox[i].op) => (inbox[i].kind = "document" <=> pending.kind = "save")
RequestsOnce ==
    \A i \in DOMAIN inbox : inbox[i].kind = "replace" =>
        /\ tickets[inbox[i].op] \in {"pending", "canceled"}
        /\ replying # None => replying.op # inbox[i].op
        /\ \A j \in DOMAIN inbox \ {i} : inbox[j].kind = "replace" => inbox[j].op # inbox[i].op
AnswerTold ==
    replying # None => /\ tickets[replying.op] # "none"
                       /\ replying.ok <=> tickets[replying.op] = "committed"

\* The operation in progress is new; only while it waits can its replacement be
\* committed, and in the end it reports what became of its ticket.
OperationTold ==
    pending # None =>
        /\ outcome[pending.id] = "none"
        /\ pending.kind = "save" \/ pending.stage \in {"start", "prepared"} =>
              tickets[pending.id] = "none"
        /\ pending.stage = "prepared" => pending.kind \in Replacing
        /\ pending.stage = "document" => pending.kind = "save"
        /\ pending.stage = "done" /\ pending.kind \in Replacing =>
              (pending.ok <=> tickets[pending.id] = "committed")
OpenOwned ==
    \A i \in DOMAIN inbox : inbox[i].kind = "replace" /\ tickets[inbox[i].op] = "pending" =>
        Mine(inbox[i].op) /\ pending.stage = "asked"

TicketInv ==
    /\ TicketsKnown /\ RequestsKnown /\ RequestsOnce /\ AnswerTold
    /\ OperationTold /\ OpenOwned /\ OutcomeMatchesCommit

\* The documents: nothing holds a document of an edit to come, a replacement
\* installs what it was made from, changed by its load only if it knows that, and a
\* save writes the current document unless an edit that Show has not yet counted is
\* saved nowhere.
Source(d) ==
    IF pending.kind = "new"
      THEN d = Blank
      ELSE /\ LoadedFrom(d, files[pending.path].content)
           /\ pending.normalized \/ d = files[pending.path].content
Missed == facts > 0 \/ lagged \/ (pending # None /\ pending.during)
Done == \/ tickets[pending.id] = "committed"
        \/ pending.stage = "done" /\ pending.ok
NothingAhead ==
    /\ content.edit <= edits
    /\ \A p \in Paths : files[p].content.edit <= edits
    /\ pending # None => pending.doc.edit <= edits
    /\ \A i \in DOMAIN inbox : inbox[i].doc.edit <= edits
SourcesTrue ==
    /\ pending # None /\ pending.stage = "prepared" => Source(pending.doc)
    /\ \A i \in DOMAIN inbox : inbox[i].kind = "replace" /\ Mine(inbox[i].op) /\ pending.stage = "asked" =>
          Source(inbox[i].doc)
CommitTrue ==
    pending # None /\ tickets[pending.id] = "committed" => Missed \/ Source(content)
SaveTrue ==
    pending # None /\ pending.kind = "save" =>
        /\ pending.stage = "document" => pending.doc = content \/ (Missed /\ ~Kept(content))
        /\ pending.stage = "done" /\ pending.ok => Missed \/ files[pending.path].content = content
CountedTrue == pending # None /\ pending.during => dirty
CleanTrue ==
    ~dirty /\ facts = 0 /\ ~lagged =>
        /\ Kept(content)
        /\ path # NoPath /\ (pending # None => ~Done) => files[path].content = content

\* A revision that is still current certifies that no edit is missing from the files.
QueryTrue ==
    query # None =>
        /\ query.rev <= revision
        /\ query.drained /\ ~dirty /\ query.rev = revision => Kept(content)
AnswersTrue ==
    \A c \in Clients : Certified(c) =>
        /\ client[c].rev <= revision
        /\ client[c].rev = revision => Kept(content)

DocumentInv ==
    /\ NothingAhead /\ SourcesTrue /\ CommitTrue /\ SaveTrue /\ CountedTrue /\ CleanTrue
    /\ QueryTrue /\ AnswersTrue

SessionInv == Typed /\ TicketInv /\ DocumentInv

-----------------------------------------------------------------------------
(* What the steps do to tickets, inbox and the operation in progress *)

Kin == /\ pending # None /\ pending' # None
       /\ pending'.id = pending.id /\ pending'.kind = pending.kind
       /\ pending'.path = pending.path /\ pending'.rev = pending.rev

TicketFrame == UNCHANGED <<inbox, tickets, replying, outcome>>

Rests == \/ pending = None /\ pending' = None
         \/ Kin /\ pending'.stage = pending.stage /\ pending'.ok = pending.ok

\* What clients have sent and Show has not begun.
Submitted == ({held} \ {None}) \cup {mailbox[i] : i \in DOMAIN mailbox}

Begins == /\ pending = None /\ pending' # None
          /\ \E command \in Submitted :
                pending'.rev = command.rev /\ pending'.kind = command.kind
          /\ pending'.id \in Ops /\ outcome[pending'.id] = "none"
          /\ pending'.stage = "start"

Fails == Kin /\ pending'.stage = "done" /\ ~pending'.ok

Advances ==
    /\ Kin
    /\ \/ pending.kind \in Replacing /\ pending.stage = "start" /\ pending'.stage = "prepared"
       \/ pending.stage \in {"start", "prepared"} /\ Fails
       \/ pending.kind = "save" /\ pending'.stage = "done"

Asks(kind, stage) ==
    /\ Kin /\ pending.stage = stage /\ pending'.stage = "asked"
    /\ pending'.normalized = pending.normalized
    /\ inbox' = Append(inbox, OpRequest(kind))
    /\ UNCHANGED <<replying, outcome>>

\* The operation in progress hears of its request.
Hears(op, stage) == Mine(op) /\ pending.stage = "asked" /\ Kin /\ pending'.stage = stage

LEMMA Failing ==
  ASSUME pending \in Operations, Fail
  PROVE  /\ Fails /\ pending' \in Operations
         /\ pending'.doc = Blank /\ pending'.during = pending.during
<1>1. pending' \in Operations
  BY BlankFits DEF Fail, Operations, Named, Stages
<1>2. pending # None /\ pending' # None
  BY <1>1, NoneAssumption
<1> QED
  BY <1>1, <1>2 DEF Fail, Fails, Kin, Operations

LEMMA Noting ==
  ASSUME PendingOK, pending' = NoteDirty(pending)
  PROVE  /\ Rests
         /\ pending # None =>
               /\ pending'.doc = pending.doc /\ pending'.normalized = pending.normalized
               /\ pending'.during
<1>1. CASE pending = None
  BY <1>1 DEF Rests, NoteDirty
<1>2. CASE pending # None
  <2>1. pending \in Operations /\ pending' = [pending EXCEPT !.during = TRUE]
    BY <1>2 DEF PendingOK, NoteDirty
  <2>2. pending' \in Operations
    BY <2>1 DEF Operations, Named
  <2>3. pending' # None
    BY <2>2, NoneAssumption
  <2> QED
    BY <1>2, <2>1, <2>3 DEF Rests, Kin, Operations
<1> QED
  BY <1>1, <1>2

LEMMA Beginning ==
  ASSUME Typed, NEW command \in Commands \cap Submitted, pending = None, Handle(command)
  PROVE  /\ pending' = None \/ (Begins /\ pending'.doc = Blank /\ ~pending'.during)
         /\ revision' >= revision /\ revision' \in Nat
<1>1. CASE command.kind \in {"lockout", "discovery"}
  <2>1. pending' = None /\ revision' \in {revision, revision + 1}
    BY <1>1 DEF Handle, SetLockout, OpKinds, Replacing
  <2> QED
    BY <2>1 DEF Typed, BusOK
<1>2. CASE command.kind \in OpKinds
  <2>1. PICK op \in Ops : Unused(op)
    BY <1>2 DEF Handle, OpKinds, Replacing
  <2>2. pending' = Begin(command) /\ revision' = revision
    BY <1>2 DEF Handle, OpKinds, Replacing
  <2>3. Unused(CHOOSE x \in Ops : Unused(x)) /\ (CHOOSE x \in Ops : Unused(x)) \in Ops
    BY <2>1
  <2>4. Begin(command) \in Operations
    BY <1>2, <2>3, BlankFits
       DEF Begin, Commands, Operations, Named, Naming, OpKinds, Replacing, Stages, Typed, MetaOK,
           Revisions
  <2>5. Begin(command) # None
    BY <2>4, NoneAssumption
  <2> QED
    BY <2>2, <2>3, <2>5 DEF Begins, Begin, Unused, Typed, BusOK
<1>3. command.kind # "query"
  BY DEF Handle, OpKinds, Replacing
<1> QED
  BY <1>1, <1>2, <1>3 DEF Commands, CommandKinds

\* The steps that leave tickets, inbox, answers and outcomes alone.
LEMMA QuietSteps ==
  ASSUME Typed, Move
  PROVE  \/ TicketFrame /\ (Rests \/ Begins \/ Advances)
         \/ ScenesReplace \/ ScenesReply \/ ScenesDocument \/ ShowFinish
         \/ OpReplace \/ OpGiveUp \/ OpAskDocument
<1> USE DEF TicketFrame
<1>1. pending # None => pending \in Operations
  BY DEF Typed, PendingOK
<1>2. CASE UNCHANGED <<inbox, tickets, replying, outcome, pending>>
  BY <1>2 DEF Rests, Kin
<1>3. CASE ScenesObservesList
  BY <1>2, <1>3 DEF ScenesObservesList
<1>4. CASE ShowRecvFact
  BY <1>4, Noting DEF ShowRecvFact, Typed
<1>5. CASE ShowTakeHeld
  <2>1. held \in Commands
    BY <1>5 DEF ShowTakeHeld, QueueOK, Typed
  <2>2. held \in Submitted
    BY <1>5 DEF ShowTakeHeld, Submitted
  <2> QED
    BY <1>5, <2>1, <2>2, Beginning DEF ShowTakeHeld, HandleUnchanged, Rests
<1>6. CASE ShowRecvCommand
  <2>1. Head(mailbox) \in Commands
    BY <1>6, Heads DEF ShowRecvCommand, QueueOK, Typed
  <2>2. Head(mailbox) \in Submitted
    BY <1>6, Heads DEF ShowRecvCommand, QueueOK, Typed, Submitted
  <2> QED
    BY <1>6, <2>1, <2>2, Beginning DEF ShowRecvCommand, HandleUnchanged, Rests
<1>7. CASE ShowHoldCommand
  BY <1>2, <1>7 DEF ShowHoldCommand, HandleUnchanged
<1>8. CASE ShowQueryRevision
  BY <1>2, <1>8 DEF ShowQueryRevision, HandleUnchanged
<1>9. CASE ShowQueryDrain
  <2>1. pending' = pending \/ pending' = NoteDirty(pending)
    BY <1>9 DEF ShowQueryDrain
  <2>2. TicketFrame
    BY <1>9 DEF ShowQueryDrain
  <2> QED
    BY <1>2, <2>1, <2>2, Noting DEF Typed
<1>10. CASE ShowQueryReply
  BY <1>2, <1>10 DEF ShowQueryReply, HandleUnchanged
<1>11. CASE OpPrepare
  <2>1. pending \in Operations /\ pending # None /\ pending.kind \in Replacing /\ pending.stage = "start"
    BY <1>1, <1>11 DEF OpPrepare, AtStage
  <2>2. TicketFrame
    BY <1>11 DEF OpPrepare, OpUnchanged
  <2>3. CASE Fail
    BY <2>1, <2>2, <2>3, Failing DEF Advances, Fails
  <2>4. CASE pending'.stage = "prepared" /\ Kin
    BY <2>1, <2>2, <2>4 DEF Advances
  <2>5. Fail \/ (pending'.stage = "prepared" /\ Kin)
    <3>2. CASE pending' = [pending EXCEPT !.stage = "prepared", !.gen = generation, !.list = lv1List,
                                          !.doc = Blank, !.lockout = FALSE]
      <4>1. pending' \in Operations
        BY <2>1, <3>2, BlankFits DEF Operations, Named, Stages, Lv1OK, Typed
      <4>2. pending' # None
        BY <4>1, NoneAssumption
      <4> QED
        BY <2>1, <3>2, <4>2 DEF Operations, Kin
    <3>3. ASSUME NEW normalized \in BOOLEAN, pending.kind # "new",
                 pending' = [pending EXCEPT !.stage = "prepared", !.gen = generation,
                                            !.list = lv1List,
                                            !.doc = Imported(files[pending.path].content,
                                                             normalized),
                                            !.lockout = files[pending.path].lockout,
                                            !.normalized = normalized]
          PROVE  pending'.stage = "prepared" /\ Kin
      <4>1. files[pending.path] \in Files
        BY <2>1, <3>3 DEF DocsOK, Operations, Named, Naming, OpKinds, Replacing, Typed
      <4>2. /\ Imported(files[pending.path].content, normalized) \in Contents
            /\ files[pending.path].lockout \in BOOLEAN
        BY <2>1, <4>1, ImportFits DEF Files
      <4>3. pending' \in Operations
        BY <2>1, <3>3, <4>2 DEF Operations, Named, Stages, Lv1OK, Typed
      <4>4. pending' # None
        BY <4>3, NoneAssumption
      <4> QED
        BY <2>1, <3>3, <4>4 DEF Operations, Kin
    <3> QED
      BY <1>11, <3>2, <3>3 DEF OpPrepare
  <2> QED
    BY <2>3, <2>4, <2>5
<1>12. CASE OpDocumentTimesOut
  BY <1>1, <1>12, Failing DEF OpDocumentTimesOut, OpUnchanged, AtStage, Advances, Fails
<1>13. CASE OpWrite
  <2>1. pending \in Operations /\ pending # None /\ pending.kind = "save"
    BY <1>1, <1>13 DEF OpWrite, AtStage
  <2>2. TicketFrame
    BY <1>13 DEF OpWrite, OpUnchanged
  <2>3. CASE Fail
    BY <2>1, <2>2, <2>3, Failing DEF Advances, Fails
  <2>4. CASE pending' = [pending EXCEPT !.stage = "done", !.ok = TRUE, !.doc = Blank,
                                        !.lockout = FALSE]
    <3>1. pending' \in Operations
      BY <2>1, <2>4, BlankFits DEF Operations, Named, Stages
    <3>2. Kin /\ pending'.stage = "done"
      <4>1. pending' # None
        BY <3>1, NoneAssumption
      <4> QED
        BY <2>1, <2>4, <4>1 DEF Operations, Kin
    <3> QED
      BY <2>1, <2>2, <3>2 DEF Advances
  <2> QED
    BY <1>13, <2>3, <2>4 DEF OpWrite
<1>14. CASE ScenesEdit \/ BusLag \/ Lv1Lost \/ Lv1Connects \/ Lv1ListChanges
  BY <1>2, <1>14 DEF ScenesEdit, BusLag, Lv1Lost, Lv1Connects, Lv1ListChanges
<1>15. CASE Sends
  BY <1>2, <1>15 DEF Sends, Send
<1> QED
  BY <1>3, <1>4, <1>5, <1>6, <1>7, <1>8, <1>9, <1>10, <1>11, <1>12, <1>13, <1>14, <1>15
     DEF Move, ScenesStep, ShowStep, OpStep, Environment

\* The entries of a queue after one more is put into it.
LEMMA Appended ==
  ASSUME NEW S, NEW s \in Seq(S), NEW e \in S, NEW i \in DOMAIN Append(s, e)
  PROVE  \/ i \in DOMAIN s /\ Append(s, e)[i] = s[i]
         \/ i = Len(s) + 1 /\ Append(s, e)[i] = e
BY AppendProperties

\* What the other steps do to the operation in progress.
LEMMA ReplyEffect ==
  ASSUME Typed, ScenesReply
  PROVE  /\ UNCHANGED <<inbox, tickets, outcome>> /\ replying # None /\ replying' = None
         /\ Rests \/ (Hears(replying.op, "done") /\ pending'.ok = replying.ok)
         /\ pending # None =>
               /\ pending'.doc = pending.doc /\ pending'.during = pending.during
               /\ pending'.normalized = pending.normalized
<1>1. CASE pending # None /\ pending.id = replying.op /\ pending.stage = "asked"
  <2>1. pending \in Operations /\ replying.ok \in BOOLEAN
    BY <1>1 DEF ScenesReply, Typed, PendingOK, ReplyOK
  <2>2. pending' = [pending EXCEPT !.stage = "done", !.ok = replying.ok]
    BY <1>1 DEF ScenesReply
  <2>3. pending' \in Operations
    BY <2>1, <2>2 DEF Operations, Named, Stages
  <2>4. pending' # None
    BY <2>3, NoneAssumption
  <2> QED
    BY <1>1, <2>1, <2>2, <2>4 DEF ScenesReply, Hears, Mine, Kin, Operations
<1>2. CASE ~(pending # None /\ pending.id = replying.op /\ pending.stage = "asked")
  BY <1>2 DEF ScenesReply, Rests, Kin
<1> QED
  BY <1>1, <1>2

LEMMA DocumentEffect ==
  ASSUME Typed, ScenesDocument
  PROVE  /\ UNCHANGED <<tickets, replying, outcome>>
         /\ inbox # <<>> /\ Head(inbox).kind = "document" /\ inbox' = Tail(inbox)
         /\ \/ Rests /\ pending' = pending
            \/ Hears(Head(inbox).op, "document") /\ pending'.doc = content
         /\ pending # None =>
               pending'.during = pending.during /\ pending'.normalized = pending.normalized
<1>1. CASE pending # None /\ pending.id = Head(inbox).op /\ pending.stage = "asked"
  <2>1. pending \in Operations /\ content \in Contents
    BY <1>1 DEF Typed, PendingOK, DocsOK
  <2>2. pending' = [pending EXCEPT !.stage = "document", !.doc = content]
    BY <1>1 DEF ScenesDocument
  <2>3. pending' \in Operations
    BY <2>1, <2>2 DEF Operations, Named, Stages
  <2>4. pending' # None
    BY <2>3, NoneAssumption
  <2>5. /\ Hears(Head(inbox).op, "document") /\ pending'.doc = content
        /\ pending'.during = pending.during /\ pending'.normalized = pending.normalized
    BY <1>1, <2>1, <2>2, <2>4 DEF Hears, Mine, Kin, Operations
  <2> QED
    BY <2>5 DEF ScenesDocument
<1>2. CASE ~(pending # None /\ pending.id = Head(inbox).op /\ pending.stage = "asked")
  BY <1>2 DEF ScenesDocument, Rests, Kin
<1> QED
  BY <1>1, <1>2

LEMMA ReplaceEffect ==
  ASSUME Typed, OpReplace
  PROVE  /\ pending # None /\ pending.kind \in Replacing /\ pending.stage = "prepared"
         /\ pending'.doc = Blank /\ pending'.during = pending.during
         /\ \/ TicketFrame /\ Fails
            \/ /\ Asks("replace", "prepared")
               /\ tickets' = [tickets EXCEPT ![pending.id] = "pending"]
<1>1. pending # None /\ pending \in Operations /\ pending.kind \in Replacing /\ pending.stage = "prepared"
  BY DEF OpReplace, AtStage, Typed, PendingOK
<1>2. CASE Fail /\ UNCHANGED <<inbox, tickets>>
  BY <1>1, <1>2, Failing DEF OpReplace, OpUnchanged, TicketFrame
<1>3. CASE /\ inbox' = Append(inbox, OpRequest("replace"))
           /\ tickets' = [tickets EXCEPT ![pending.id] = "pending"]
           /\ pending' = [pending EXCEPT !.stage = "asked", !.gen = 0, !.list = 0, !.doc = Blank]
  <2>1. pending' \in Operations
    BY <1>1, <1>3, BlankFits DEF Operations, Named, Stages
  <2>2. pending' # None
    BY <2>1, NoneAssumption
  <2>3. /\ Kin /\ pending'.stage = "asked"
        /\ pending'.doc = Blank /\ pending'.during = pending.during
        /\ pending'.normalized = pending.normalized
    BY <1>1, <1>3, <2>2 DEF Operations, Kin
  <2> QED
    BY <1>1, <1>3, <2>3 DEF OpReplace, OpUnchanged, Asks
<1> QED
  BY <1>2, <1>3 DEF OpReplace

LEMMA AskEffect ==
  ASSUME Typed, OpAskDocument
  PROVE  /\ pending # None /\ pending.kind = "save" /\ pending.stage = "start"
         /\ pending'.doc \in {Blank, pending.doc} /\ pending'.during = pending.during
         /\ \/ TicketFrame /\ Fails
            \/ Asks("document", "start") /\ tickets' = tickets
<1>1. pending # None /\ pending \in Operations /\ pending.kind = "save" /\ pending.stage = "start"
  BY DEF OpAskDocument, AtStage, Typed, PendingOK
<1>2. CASE Fail /\ UNCHANGED inbox
  BY <1>1, <1>2, Failing DEF OpAskDocument, OpUnchanged, TicketFrame
<1>3. CASE /\ inbox' = Append(inbox, OpRequest("document"))
           /\ pending' = [pending EXCEPT !.stage = "asked"]
  <2>1. pending' \in Operations
    BY <1>1, <1>3 DEF Operations, Named, Stages
  <2>2. pending' # None
    BY <2>1, NoneAssumption
  <2>3. /\ Kin /\ pending'.stage = "asked"
        /\ pending'.doc = pending.doc /\ pending'.during = pending.during
        /\ pending'.normalized = pending.normalized
    BY <1>1, <1>3, <2>2 DEF Operations, Kin
  <2> QED
    BY <1>1, <1>3, <2>3 DEF OpAskDocument, OpUnchanged, Asks
<1> QED
  BY <1>2, <1>3 DEF OpAskDocument

LEMMA GiveUpEffect ==
  ASSUME Typed, OpGiveUp
  PROVE  /\ UNCHANGED <<inbox, replying, outcome>>
         /\ Hears(pending.id, "done") /\ pending.kind \in Replacing
         /\ pending'.doc \in {Blank, pending.doc} /\ pending'.during = pending.during
         /\ \/ /\ tickets[pending.id] = "committed" /\ pending'.ok /\ tickets' = tickets
               /\ pending'.normalized = pending.normalized
            \/ /\ tickets[pending.id] = "pending" /\ ~pending'.ok
               /\ tickets' = [tickets EXCEPT ![pending.id] = "canceled"]
<1>1. pending # None /\ pending \in Operations /\ pending.kind \in Replacing /\ pending.stage = "asked"
  BY DEF OpGiveUp, AtStage, Typed, PendingOK
<1>2. CASE /\ TicketOpen(pending.id) /\ Fail
           /\ tickets' = [tickets EXCEPT ![pending.id] = "canceled"]
  BY <1>1, <1>2, Failing DEF OpGiveUp, OpUnchanged, TicketOpen, Fails, Hears, Mine, Kin
<1>3. CASE /\ tickets[pending.id] = "committed" /\ UNCHANGED tickets
           /\ pending' = [pending EXCEPT !.stage = "done", !.ok = TRUE]
  <2>1. pending' \in Operations
    BY <1>1, <1>3 DEF Operations, Named, Stages
  <2>2. pending' # None
    BY <2>1, NoneAssumption
  <2>3. /\ Kin /\ pending'.stage = "done" /\ pending'.ok
        /\ pending'.doc = pending.doc /\ pending'.during = pending.during
        /\ pending'.normalized = pending.normalized
    BY <1>1, <1>3, <2>2 DEF Operations, Kin
  <2> QED
    BY <1>1, <1>3, <2>3 DEF OpGiveUp, OpUnchanged, Hears, Mine
<1> QED
  BY <1>2, <1>3 DEF OpGiveUp

-----------------------------------------------------------------------------
(* Tickets *)

\* An entry of the inbox is a request.
LEMMA Entries ==
  ASSUME Typed, NEW i \in DOMAIN inbox
  PROVE  inbox[i].op \in Ops /\ inbox[i].kind \in {"replace", "document"} /\ inbox[i].doc \in Contents
<1>1. inbox[i] \in Requests
  BY DEF Typed, InboxOK
<1> QED
  BY <1>1 DEF Requests

LEMMA PendingShape ==
  ASSUME Typed, pending # None
  PROVE  /\ pending.id \in Ops /\ pending.kind \in OpKinds /\ pending.stage \in Stages
         /\ pending.ok \in BOOLEAN /\ pending.doc \in Contents /\ pending.during \in BOOLEAN
         /\ pending.kind # "new" => pending.path \in Paths
         /\ pending.kind = "new" => pending.path = NoPath
BY DEF Typed, PendingOK, Operations, Named, Naming, OpKinds, Replacing

LEMMA TicketsRest ==
  ASSUME Typed, TicketInv, TicketFrame, Rests
  PROVE  TicketInv'
<1>1. \A op : Mine(op)' <=> Mine(op)
  BY DEF Rests, Kin, Mine
<1>2. \A op : Known(op)' <=> Known(op)
  BY <1>1 DEF Known, TicketFrame
<1>3. TicketsKnown' /\ RequestsOnce' /\ AnswerTold' /\ OutcomeMatchesCommit'
  BY <1>2 DEF TicketInv, TicketFrame, TicketsKnown, RequestsOnce, AnswerTold, OutcomeMatchesCommit
<1>4. RequestsKnown'
  BY <1>1, <1>2 DEF TicketInv, TicketFrame, RequestsKnown, Rests, Kin, Mine
<1>5. OperationTold'
  BY DEF TicketInv, TicketFrame, OperationTold, Rests, Kin
<1>6. OpenOwned'
  BY <1>1 DEF TicketInv, TicketFrame, OpenOwned, Rests, Kin, Mine
<1> QED
  BY <1>3, <1>4, <1>5, <1>6 DEF TicketInv

LEMMA TicketsBegin ==
  ASSUME Typed, TicketInv, TicketFrame, Begins
  PROVE  TicketInv'
<1>1. \A op : ~Mine(op) /\ (Mine(op)' <=> op = pending'.id)
  BY DEF Begins, Mine
<1>2. \A op : Known(op) => Known(op)' /\ op # pending'.id
  BY <1>1 DEF Known, TicketFrame, Begins
<1>3. TicketsKnown' /\ RequestsOnce' /\ AnswerTold' /\ OutcomeMatchesCommit'
  BY <1>2 DEF TicketInv, TicketFrame, TicketsKnown, RequestsOnce, AnswerTold, OutcomeMatchesCommit
<1>4. RequestsKnown'
  BY <1>1, <1>2 DEF TicketInv, TicketFrame, RequestsKnown
<1>5. tickets[pending'.id] = "none"
  BY <1>2 DEF TicketInv, TicketsKnown, Begins
<1>6. OperationTold'
  BY <1>5 DEF TicketFrame, OperationTold, Begins
<1>7. OpenOwned'
  BY <1>1 DEF TicketInv, TicketFrame, OpenOwned
<1> QED
  BY <1>3, <1>4, <1>6, <1>7 DEF TicketInv

LEMMA TicketsAdvance ==
  ASSUME Typed, TicketInv, TicketFrame, Advances
  PROVE  TicketInv'
<1>1. Kin /\ pending.stage \in Stages
  BY PendingShape DEF Advances, Kin
<1>2. \A op : Mine(op)' <=> Mine(op)
  BY <1>1 DEF Kin, Mine
<1>3. \A op : Known(op)' <=> Known(op)
  BY <1>2 DEF Known, TicketFrame
<1>4. TicketsKnown' /\ RequestsOnce' /\ AnswerTold' /\ OutcomeMatchesCommit'
  BY <1>3 DEF TicketInv, TicketFrame, TicketsKnown, RequestsOnce, AnswerTold, OutcomeMatchesCommit
<1>5. RequestsKnown'
  BY <1>1, <1>2, <1>3 DEF TicketInv, TicketFrame, RequestsKnown, Kin, Mine
<1>6. OperationTold'
  BY <1>1
     DEF TicketInv, TicketFrame, OperationTold, Advances, Fails, Kin, Replacing, Stages
<1>7. OpenOwned'
  BY <1>1, <1>2, Entries
     DEF TicketInv, TicketFrame, OpenOwned, OperationTold, RequestsKnown, Advances, Fails, Kin, Mine
<1> QED
  BY <1>4, <1>5, <1>6, <1>7 DEF TicketInv

LEMMA TicketsAsk ==
  ASSUME Typed, TicketInv,
         \/ /\ Asks("replace", "prepared") /\ pending.kind \in Replacing
            /\ tickets' = [tickets EXCEPT ![pending.id] = "pending"]
         \/ Asks("document", "start") /\ pending.kind = "save" /\ tickets' = tickets
  PROVE  TicketInv'
<1> DEFINE kind == IF pending.kind = "save" THEN "document" ELSE "replace"
<1>1. /\ Kin /\ pending.id \in Ops /\ tickets[pending.id] = "none"
      /\ outcome[pending.id] = "none"
      /\ UNCHANGED <<replying, outcome>> /\ pending'.stage = "asked"
      /\ pending.kind \in OpKinds
  BY PendingShape DEF Asks, Kin, TicketInv, OperationTold
<1>2. inbox' = Append(inbox, OpRequest(kind))
  BY DEF Asks, Replacing
<1>3. \A op : Mine(op)' <=> Mine(op)
  BY <1>1 DEF Kin, Mine
<1>4. \A op : Known(op)' <=> Known(op)
  BY <1>1, <1>3 DEF Known
<1>5. /\ OpRequest(kind) \in Requests /\ OpRequest(kind).op = pending.id /\ OpRequest(kind).kind = kind
  <2>1. pending \in Operations
    BY <1>1 DEF Typed, PendingOK, Kin
  <2> QED
    BY <2>1 DEF OpRequest, Operations, Requests
<1>6. ASSUME NEW i \in DOMAIN inbox'
      PROVE  \/ i \in DOMAIN inbox /\ inbox'[i] = inbox[i]
             \/ i = Len(inbox) + 1 /\ inbox'[i].op = pending.id /\ inbox'[i].kind = kind
  BY <1>2, <1>5, <1>6, Appended DEF Typed, InboxOK
<1>7. \A op \in Ops : op # pending.id => tickets'[op] = tickets[op]
  BY DEF Typed, TicketOK
<1>8. tickets'[pending.id] = IF kind = "replace" THEN "pending" ELSE "none"
  BY <1>1 DEF Typed, TicketOK, Replacing
<1>9. ASSUME NEW i \in DOMAIN inbox, inbox[i].kind = "replace"
      PROVE  /\ inbox[i].op # pending.id /\ inbox[i].op \in Ops
             /\ tickets'[inbox[i].op] = tickets[inbox[i].op]
  BY <1>1, <1>7, <1>9, Entries DEF TicketInv, RequestsOnce
<1>10. Mine(pending.id) /\ Known(pending.id)
  BY <1>1 DEF Mine, Known, Kin
<1>11. TicketsKnown'
  BY <1>4, <1>7, <1>10 DEF TicketInv, TicketsKnown
<1>12. RequestsKnown'
  <2>1. ASSUME NEW i \in DOMAIN inbox'
        PROVE  /\ Known(inbox'[i].op)
               /\ Mine(inbox'[i].op) => (inbox'[i].kind = "document" <=> pending.kind = "save")
    BY <1>6, <1>10 DEF TicketInv, RequestsKnown
  <2> QED
    BY <1>1, <1>3, <1>4, <2>1 DEF RequestsKnown, Kin
<1>13. RequestsOnce'
  <2>1. ASSUME NEW i \in DOMAIN inbox', inbox'[i].kind = "replace"
        PROVE  tickets'[inbox'[i].op] \in {"pending", "canceled"}
    BY <1>6, <1>8, <1>9, <2>1 DEF TicketInv, RequestsOnce
  <2>2. ASSUME NEW i \in DOMAIN inbox', inbox'[i].kind = "replace", replying # None
        PROVE  replying.op # inbox'[i].op
    BY <1>1, <1>6, <2>2 DEF TicketInv, RequestsOnce, AnswerTold
  <2>3. ASSUME NEW i \in DOMAIN inbox', inbox'[i].kind = "replace",
               NEW j \in DOMAIN inbox' \ {i}, inbox'[j].kind = "replace"
        PROVE  inbox'[j].op # inbox'[i].op
    <3>1. CASE i \in DOMAIN inbox /\ inbox'[i] = inbox[i]
      BY <1>6, <1>9, <2>3, <3>1 DEF TicketInv, RequestsOnce
    <3>2. CASE i = Len(inbox) + 1 /\ inbox'[i].op = pending.id
      BY <1>6, <1>9, <2>3, <3>2
    <3> QED
      BY <1>6, <3>1, <3>2
  <2> QED
    BY <1>1, <2>1, <2>2, <2>3 DEF RequestsOnce
<1>14. AnswerTold'
  <2>1. replying # None => replying.op \in Ops /\ replying.op # pending.id
    BY <1>1 DEF TicketInv, AnswerTold, Typed, ReplyOK
  <2> QED
    BY <1>1, <1>7, <2>1 DEF TicketInv, AnswerTold
<1>15. OperationTold'
  BY <1>1, <1>8 DEF TicketInv, OperationTold, Kin
<1>16. OpenOwned'
  <2>1. ASSUME NEW i \in DOMAIN inbox', inbox'[i].kind = "replace", tickets'[inbox'[i].op] = "pending"
        PROVE  Mine(inbox'[i].op)
    BY <1>6, <1>9, <1>10, <2>1 DEF TicketInv, OpenOwned
  <2> QED
    BY <1>1, <1>3, <2>1 DEF OpenOwned
<1>17. OutcomeMatchesCommit'
  BY <1>1, <1>7 DEF TicketInv, OutcomeMatchesCommit
<1> QED
  BY <1>11, <1>12, <1>13, <1>14, <1>15, <1>16, <1>17 DEF TicketInv

\* Scenes decides: the request leaves the inbox, and its ticket may be committed.
LEMMA TicketsDecide ==
  ASSUME Typed, TicketInv, ScenesReplace
  PROVE  TicketInv'
<1> DEFINE op == Head(inbox).op
<1>1. /\ inbox # <<>> /\ replying = None /\ inbox' = Tail(inbox)
      /\ Head(inbox).kind = "replace"
      /\ UNCHANGED <<pending, outcome>>
  BY DEF ScenesReplace, ScenesReady
<1>2. /\ Head(inbox) = inbox[1] /\ 1 \in DOMAIN inbox
      /\ \A i \in DOMAIN inbox' : i + 1 \in DOMAIN inbox /\ inbox'[i] = inbox[i + 1] /\ i + 1 # 1
  <2>1. inbox' \in Seq(Requests)
    BY <1>1, Heads DEF Typed, InboxOK
  <2>2. DOMAIN inbox' \subseteq Nat \ {0}
    BY <2>1
  <2> QED
    BY <1>1, <2>2, Heads DEF Typed, InboxOK
<1>3. op \in Ops
  BY <1>2, Entries
<1>4. /\ replying' # None /\ replying'.op = op
      /\ \/ replying'.ok = TRUE /\ tickets[op] = "pending" /\ tickets' = [tickets EXCEPT ![op] = "committed"]
         \/ replying'.ok = FALSE /\ tickets' = tickets
  <2>1. \E commit \in BOOLEAN :
           /\ replying' = [op |-> op, ok |-> commit]
           /\ commit => tickets[op] = "pending" /\ tickets' = [tickets EXCEPT ![op] = "committed"]
           /\ ~commit => tickets' = tickets
    BY DEF ScenesReplace, TicketOpen, AdmitsRevision
  <2>2. PICK commit \in BOOLEAN :
           /\ replying' = [op |-> op, ok |-> commit]
           /\ commit => tickets[op] = "pending" /\ tickets' = [tickets EXCEPT ![op] = "committed"]
           /\ ~commit => tickets' = tickets
    BY <2>1
  <2>3. replying' \in [op : Ops, ok : BOOLEAN]
    BY <1>3, <2>2
  <2>4. replying' # None
    BY <2>3, NoneAssumption
  <2> QED
    BY <2>2, <2>4
<1>5. \A x \in Ops : x # op => tickets'[x] = tickets[x]
  BY <1>4 DEF Typed, TicketOK
<1>6. tickets[op] \in {"pending", "canceled"} /\ (tickets'[op] = "committed" <=> replying'.ok) /\ tickets'[op] # "none"
  BY <1>1, <1>2, <1>3, <1>4 DEF TicketInv, RequestsOnce, Typed, TicketOK
<1>7. ASSUME NEW i \in DOMAIN inbox'
      PROVE  /\ inbox'[i].op \in Ops
             /\ inbox'[i].kind = "replace" => inbox'[i].op # op /\ tickets'[inbox'[i].op] = tickets[inbox'[i].op]
  <2>1. i + 1 \in DOMAIN inbox \ {1} /\ inbox'[i] = inbox[i + 1]
    BY <1>2
  <2>2. inbox[i + 1].op \in Ops
    BY <2>1, Entries
  <2>3. inbox[i + 1].kind = "replace" => inbox[i + 1].op # op
    BY <1>1, <1>2, <2>1 DEF TicketInv, RequestsOnce
  <2> QED
    BY <1>5, <2>1, <2>2, <2>3
<1>8. \A x : (Mine(x)' <=> Mine(x)) /\ (Known(x)' <=> Known(x))
  BY <1>1 DEF Mine, Known
<1>9. TicketsKnown'
  BY <1>4, <1>5, <1>6, <1>8 DEF TicketInv, TicketsKnown
<1>10. RequestsKnown'
  BY <1>1, <1>2, <1>8 DEF TicketInv, RequestsKnown
<1>11. RequestsOnce'
  <2>1. ASSUME NEW i \in DOMAIN inbox', inbox'[i].kind = "replace"
        PROVE  tickets'[inbox'[i].op] \in {"pending", "canceled"} /\ replying'.op # inbox'[i].op
    BY <1>2, <1>4, <1>7, <2>1 DEF TicketInv, RequestsOnce
  <2>2. ASSUME NEW i \in DOMAIN inbox', inbox'[i].kind = "replace",
               NEW j \in DOMAIN inbox' \ {i}, inbox'[j].kind = "replace"
        PROVE  inbox'[j].op # inbox'[i].op
    <3>1. i + 1 \in DOMAIN inbox /\ j + 1 \in DOMAIN inbox \ {i + 1}
      <4>1. i \in Nat /\ j \in Nat
        BY <1>1, Heads DEF Typed, InboxOK
      <4> QED
        BY <1>2, <2>2, <4>1
    <3> QED
      BY <1>2, <2>2, <3>1 DEF TicketInv, RequestsOnce
  <2> QED
    BY <2>1, <2>2 DEF RequestsOnce
<1>12. AnswerTold'
  BY <1>4, <1>6 DEF AnswerTold
<1>13. OperationTold'
  <2>1. tickets[op] = "pending" => Mine(op) /\ pending.stage = "asked" /\ pending.kind # "save"
    BY <1>1, <1>2 DEF TicketInv, OpenOwned, RequestsKnown
  <2>2. CASE tickets' = tickets
    BY <1>1, <2>2 DEF TicketInv, OperationTold
  <2>3. CASE tickets' # tickets
    BY <1>1, <1>4, <2>1, <2>3 DEF TicketInv, OperationTold, Mine
  <2> QED
    BY <2>2, <2>3
<1>14. OpenOwned'
  BY <1>1, <1>2, <1>7, <1>8 DEF TicketInv, OpenOwned
<1>15. OutcomeMatchesCommit'
  <2>1. tickets[op] = "pending" => outcome[op] = "none"
    BY <1>1, <1>2 DEF TicketInv, OpenOwned, OperationTold, Mine
  <2> QED
    BY <1>1, <1>4, <1>5, <2>1 DEF TicketInv, OutcomeMatchesCommit
<1> QED
  BY <1>9, <1>10, <1>11, <1>12, <1>13, <1>14, <1>15 DEF TicketInv

LEMMA TicketsReply ==
  ASSUME Typed, TicketInv, ScenesReply
  PROVE  TicketInv'
<1>1. /\ UNCHANGED <<inbox, tickets, outcome>> /\ replying # None /\ replying' = None
      /\ Rests \/ (Hears(replying.op, "done") /\ pending'.ok = replying.ok)
  BY ReplyEffect
<1>2. \A op : (Mine(op)' <=> Mine(op)) /\ (Known(op)' <=> Known(op))
  BY <1>1 DEF Rests, Hears, Kin, Mine, Known
<1>3. TicketsKnown' /\ RequestsOnce' /\ AnswerTold' /\ OutcomeMatchesCommit'
  BY <1>1, <1>2 DEF TicketInv, TicketsKnown, RequestsOnce, AnswerTold, OutcomeMatchesCommit
<1>4. RequestsKnown'
  BY <1>1, <1>2 DEF TicketInv, RequestsKnown, Rests, Hears, Kin, Mine
<1>5. CASE Rests
  <2>1. OperationTold' /\ OpenOwned'
    BY <1>1, <1>2, <1>5 DEF TicketInv, OperationTold, OpenOwned, Rests, Kin, Mine
  <2> QED
    BY <1>3, <1>4, <2>1 DEF TicketInv
<1>6. CASE Hears(replying.op, "done") /\ pending'.ok = replying.ok
  <2>1. pending'.ok <=> tickets[pending.id] = "committed"
    BY <1>1, <1>6 DEF TicketInv, AnswerTold, Hears, Mine
  <2>2. OperationTold'
    BY <1>1, <1>6, <2>1 DEF TicketInv, OperationTold, Hears, Kin
  <2>3. ASSUME NEW i \in DOMAIN inbox, inbox[i].kind = "replace"
        PROVE  ~Mine(inbox[i].op)
    BY <1>1, <1>6, <2>3 DEF TicketInv, RequestsOnce, Hears, Mine
  <2>4. OpenOwned'
    BY <1>1, <2>3 DEF TicketInv, OpenOwned
  <2> QED
    BY <1>3, <1>4, <2>2, <2>4 DEF TicketInv
<1> QED
  BY <1>1, <1>5, <1>6

LEMMA TicketsHand ==
  ASSUME Typed, TicketInv, ScenesDocument
  PROVE  TicketInv'
<1>1. /\ UNCHANGED <<tickets, replying, outcome>>
      /\ inbox # <<>> /\ Head(inbox).kind = "document" /\ inbox' = Tail(inbox)
      /\ Rests \/ Hears(Head(inbox).op, "document")
  BY DocumentEffect
<1>2. /\ Head(inbox) = inbox[1] /\ 1 \in DOMAIN inbox
      /\ \A i \in DOMAIN inbox' : i \in Nat /\ i + 1 \in DOMAIN inbox /\ inbox'[i] = inbox[i + 1]
  BY <1>1, Heads DEF Typed, InboxOK
<1>3. \A op : (Mine(op)' <=> Mine(op)) /\ (Known(op)' <=> Known(op))
  BY <1>1 DEF Rests, Hears, Kin, Mine, Known
<1>4. TicketsKnown' /\ AnswerTold' /\ OutcomeMatchesCommit'
  BY <1>1, <1>3 DEF TicketInv, TicketsKnown, AnswerTold, OutcomeMatchesCommit
<1>5. pending # None => pending' # None /\ pending'.kind = pending.kind
  BY <1>1 DEF Rests, Hears, Kin
<1>6. RequestsKnown'
  BY <1>1, <1>2, <1>3, <1>5 DEF TicketInv, RequestsKnown, Mine
<1>7. RequestsOnce'
  <2>1. ASSUME NEW i \in DOMAIN inbox', NEW j \in DOMAIN inbox' \ {i}
        PROVE  i + 1 \in DOMAIN inbox /\ j + 1 \in DOMAIN inbox \ {i + 1}
    BY <1>2, <2>1
  <2> QED
    BY <1>1, <1>2, <2>1 DEF TicketInv, RequestsOnce
<1>8. ASSUME Hears(Head(inbox).op, "document") PROVE pending.kind = "save"
  BY <1>1, <1>2, <1>8 DEF TicketInv, RequestsKnown, Hears
<1>9. OperationTold'
  BY <1>1, <1>8 DEF TicketInv, OperationTold, Rests, Hears, Kin
<1>10. OpenOwned'
  <2>1. CASE Rests
    BY <1>1, <1>2, <1>3, <2>1 DEF TicketInv, OpenOwned, Rests, Kin, Mine
  <2>2. CASE Hears(Head(inbox).op, "document")
    <3>1. ASSUME NEW i \in DOMAIN inbox', inbox'[i].kind = "replace"
          PROVE  tickets[inbox'[i].op] # "pending"
      BY <1>2, <1>8, <2>2, <3>1 DEF TicketInv, RequestsKnown, OpenOwned
    <3> QED
      BY <1>1, <3>1 DEF OpenOwned
  <2> QED
    BY <1>1, <2>1, <2>2
<1> QED
  BY <1>4, <1>6, <1>7, <1>9, <1>10 DEF TicketInv

LEMMA TicketsGiveUp ==
  ASSUME Typed, TicketInv, OpGiveUp
  PROVE  TicketInv'
<1>1. /\ UNCHANGED <<inbox, replying, outcome>>
      /\ Hears(pending.id, "done") /\ pending.kind \in Replacing
      /\ \/ tickets[pending.id] = "committed" /\ pending'.ok /\ tickets' = tickets
         \/ /\ tickets[pending.id] = "pending" /\ ~pending'.ok
            /\ tickets' = [tickets EXCEPT ![pending.id] = "canceled"]
  BY GiveUpEffect
<1>2. Kin /\ pending.id \in Ops /\ outcome[pending.id] = "none"
  BY <1>1, PendingShape DEF Hears, Kin, TicketInv, OperationTold
<1>3. \A op : (Mine(op)' <=> Mine(op)) /\ (Known(op)' <=> Known(op))
  BY <1>1, <1>2 DEF Kin, Mine, Known
<1>4. /\ \A op \in Ops : op # pending.id => tickets'[op] = tickets[op]
      /\ tickets'[pending.id] \in {"committed", "canceled"}
      /\ tickets'[pending.id] = "committed" <=> tickets[pending.id] = "committed"
      /\ tickets'[pending.id] = "committed" <=> pending'.ok
  BY <1>1, <1>2 DEF Typed, TicketOK
<1>5. Known(pending.id)
  BY <1>2 DEF Known, Mine, Kin
<1>6. TicketsKnown'
  BY <1>3, <1>4, <1>5 DEF TicketInv, TicketsKnown
<1>7. RequestsKnown'
  BY <1>1, <1>2, <1>3 DEF TicketInv, RequestsKnown, Kin, Mine
<1>8. ASSUME NEW i \in DOMAIN inbox, inbox[i].kind = "replace"
      PROVE  /\ tickets'[inbox[i].op] \in {"pending", "canceled"}
             /\ tickets'[inbox[i].op] = "pending" => ~Mine(inbox[i].op) /\ tickets[inbox[i].op] = "pending"
  BY <1>2, <1>4, <1>8, Entries DEF TicketInv, RequestsOnce, Mine
<1>9. RequestsOnce'
  BY <1>1, <1>8 DEF TicketInv, RequestsOnce
<1>10. AnswerTold'
  <2>1. replying # None => replying.op \in Ops /\ replying.ok \in BOOLEAN
    BY DEF Typed, ReplyOK
  <2>2. tickets[pending.id] # "none"
    BY <1>1
  <2> QED
    BY <1>1, <1>4, <2>1, <2>2 DEF TicketInv, AnswerTold
<1>11. OperationTold'
  BY <1>1, <1>2, <1>4 DEF TicketInv, OperationTold, Hears, Kin, Replacing
<1>12. OpenOwned'
  BY <1>1, <1>8 DEF TicketInv, OpenOwned
<1>13. OutcomeMatchesCommit'
  BY <1>1, <1>2, <1>4 DEF TicketInv, OutcomeMatchesCommit
<1> QED
  BY <1>6, <1>7, <1>9, <1>10, <1>11, <1>12, <1>13 DEF TicketInv

LEMMA TicketsFinish ==
  ASSUME Typed, TicketInv, ShowFinish
  PROVE  TicketInv'
<1>1. /\ pending # None /\ pending.stage = "done" /\ pending' = None
      /\ UNCHANGED <<inbox, tickets, replying>>
      /\ outcome' = [outcome EXCEPT ![pending.id] =
                        IF ~pending.ok THEN "failed"
                        ELSE IF pending.kind = "save" THEN "saved" ELSE "ok"]
  BY DEF ShowFinish
<1>2. pending.id \in Ops /\ pending.ok \in BOOLEAN /\ pending.kind \in Replacing \cup {"save"}
  BY <1>1, PendingShape DEF OpKinds
<1>3. /\ \A op \in Ops : op # pending.id => outcome'[op] = outcome[op]
      /\ outcome'[pending.id] = IF ~pending.ok THEN "failed"
                                ELSE IF pending.kind = "save" THEN "saved" ELSE "ok"
  BY <1>1, <1>2 DEF Typed, OutcomeOK
<1>4. \A op \in Ops : ~Mine(op)' /\ (Known(op) => Known(op)')
  BY <1>1, <1>3 DEF Known, Mine
<1>5. TicketsKnown' /\ RequestsKnown'
  BY <1>1, <1>4, Entries DEF TicketInv, TicketsKnown, RequestsKnown
<1>6. RequestsOnce' /\ AnswerTold' /\ OperationTold'
  BY <1>1 DEF TicketInv, RequestsOnce, AnswerTold, OperationTold
<1>7. OpenOwned'
  BY <1>1 DEF TicketInv, OpenOwned
<1>8. OutcomeMatchesCommit'
  BY <1>1, <1>2, <1>3 DEF TicketInv, OperationTold, OutcomeMatchesCommit, Replacing
<1> QED
  BY <1>5, <1>6, <1>7, <1>8 DEF TicketInv

LEMMA TicketStep == ASSUME Typed, TicketInv, Move PROVE TicketInv'
<1>1. CASE TicketFrame /\ (Rests \/ Begins \/ Advances)
  BY <1>1, TicketsRest, TicketsBegin, TicketsAdvance
<1>2. CASE OpReplace
  <2>1. CASE TicketFrame /\ Fails
    <3>1. Advances
      BY <1>2, <2>1, ReplaceEffect DEF Advances, Fails
    <3> QED
      BY <2>1, <3>1, TicketsAdvance
  <2>2. CASE Asks("replace", "prepared") /\ tickets' = [tickets EXCEPT ![pending.id] = "pending"]
    BY <1>2, <2>2, ReplaceEffect, TicketsAsk
  <2> QED
    BY <1>2, <2>1, <2>2, ReplaceEffect
<1>3. CASE OpAskDocument
  <2>1. CASE TicketFrame /\ Fails
    <3>1. Advances
      BY <1>3, <2>1, AskEffect DEF Advances, Fails
    <3> QED
      BY <2>1, <3>1, TicketsAdvance
  <2>2. CASE Asks("document", "start") /\ tickets' = tickets
    BY <1>3, <2>2, AskEffect, TicketsAsk
  <2> QED
    BY <1>3, <2>1, <2>2, AskEffect
<1> QED
  BY <1>1, <1>2, <1>3, QuietSteps, TicketsDecide, TicketsReply, TicketsHand, TicketsGiveUp,
     TicketsFinish

-----------------------------------------------------------------------------
(* Documents *)

DocumentFrame == UNCHANGED <<content, edits, files, revision, facts, lagged, dirty, path, query>>

\* No client is told more than it knew.
NoNewAnswer == \A c \in Clients : Certified(c)' => Certified(c) /\ client'[c].rev = client[c].rev

LEMMA KeptFrame == UNCHANGED <<content, files>> => (Kept(content)' <=> Kept(content))
BY DEF Kept, LoadedFrom

\* What a replacement installs is kept.
LEMMA SourceKept ==
  ASSUME Typed, pending # None, pending.kind # "save", files' = files, Source(content')
  PROVE  Kept(content)'
<1>1. CASE pending.kind = "new"
  BY <1>1, BlankFits DEF Source, Kept
<1>2. CASE pending.kind # "new"
  <2>1. pending.path \in Paths /\ LoadedFrom(content', files[pending.path].content)
    BY <1>2, PendingShape DEF Source
  <2> QED
    BY <2>1 DEF Kept, LoadedFrom
<1> QED
  BY <1>1, <1>2

LEMMA AnswersFrame ==
  ASSUME Typed, DocumentInv, NoNewAnswer, revision' \in Nat, revision' >= revision,
         query' = query,
         revision' = revision /\ Kept(content) => Kept(content)',
         query # None => dirty' \/ dirty' = dirty
  PROVE  QueryTrue' /\ AnswersTrue'
<1>1. \A c \in Clients : Certified(c) => client[c].rev \in Nat \cup {NoRev}
  BY DEF Typed, ClientOK, ClientStates, Revisions
<1>2. query # None => query.rev \in Nat
  BY DEF Typed, QueryOK, Revisions
<1>3. revision \in Nat
  BY DEF Typed, BusOK
<1>4. AnswersTrue'
  BY <1>1, <1>3 DEF DocumentInv, AnswersTrue, NoNewAnswer, NoRev
<1>5. QueryTrue'
  BY <1>2, <1>3 DEF DocumentInv, QueryTrue
<1> QED
  BY <1>4, <1>5

\* A step of the operation that leaves the documents, the bus and Show's
\* metadata alone.
LEMMA DocumentsCarry ==
  ASSUME Typed, DocumentInv, DocumentFrame, UNCHANGED client, Kin,
         pending'.during = pending.during, pending'.doc.edit <= edits,
         \A i \in DOMAIN inbox' : inbox'[i].doc.edit <= edits,
         tickets'[pending.id] = "committed" =>
             tickets[pending.id] = "committed" /\ pending'.normalized = pending.normalized,
         Done => Done', SourcesTrue', SaveTrue'
  PROVE  DocumentInv'
<1> USE DEF DocumentFrame
<1>1. QueryTrue' /\ AnswersTrue'
  <2>1. NoNewAnswer
    BY DEF NoNewAnswer, Certified
  <2> QED
    BY <2>1, AnswersFrame, KeptFrame DEF Typed, BusOK
<1>2. NothingAhead'
  BY DEF DocumentInv, NothingAhead
<1>3. CommitTrue'
  BY DEF DocumentInv, CommitTrue, Missed, Source, LoadedFrom, Kin
<1>4. CountedTrue'
  BY DEF DocumentInv, CountedTrue, Kin
<1>5. CleanTrue'
  BY KeptFrame DEF DocumentInv, CleanTrue, Kin
<1> QED
  BY <1>1, <1>2, <1>3, <1>4, <1>5 DEF DocumentInv

\* A step that leaves the operation where it is as well.
LEMMA DocumentsRest ==
  ASSUME Typed, DocumentInv, DocumentFrame, NoNewAnswer, Rests, UNCHANGED tickets,
         \A i \in DOMAIN inbox' : \E j \in DOMAIN inbox : inbox'[i] = inbox[j],
         pending # None =>
             /\ pending'.doc = pending.doc /\ pending'.during = pending.during
             /\ pending'.normalized = pending.normalized
  PROVE  DocumentInv'
<1> USE DEF DocumentFrame
<1>1. QueryTrue' /\ AnswersTrue'
  BY AnswersFrame, KeptFrame DEF Typed, BusOK
<1>2. NothingAhead'
  BY DEF DocumentInv, NothingAhead, Rests, Kin
<1>3. SourcesTrue' /\ CommitTrue'
  BY DEF DocumentInv, SourcesTrue, CommitTrue, Missed, Source, LoadedFrom, Rests, Kin, Mine
<1>4. SaveTrue'
  BY KeptFrame DEF DocumentInv, SaveTrue, Missed, Rests, Kin
<1>5. CountedTrue'
  BY DEF DocumentInv, CountedTrue, Rests, Kin
<1>6. CleanTrue'
  BY KeptFrame DEF DocumentInv, CleanTrue, Done, Rests, Kin
<1> QED
  BY <1>1, <1>2, <1>3, <1>4, <1>5, <1>6 DEF DocumentInv

\* An edit: the new document is kept nowhere, and Show has a fact to count.
LEMMA DocumentsEdit ==
  ASSUME Typed, DocumentInv, Publish(TRUE),
         UNCHANGED <<files, dirty, path, query, client, inbox, tickets, pending>>
  PROVE  DocumentInv'
<1>1. /\ content' = Edited(edits + 1) /\ edits' = edits + 1 /\ revision' = revision + 1
      /\ facts' = facts + 1 /\ lagged' = lagged
  BY DEF Publish
<1>2. /\ edits \in Nat /\ revision \in Nat /\ facts \in Nat
      /\ \A p \in Paths : files[p].content.edit \in Nat
      /\ content'.edit = edits + 1 /\ content'.load = 0
  BY <1>1, BlankFits DEF Typed, DocsOK, BusOK, Files, Contents
<1>3. Missed' /\ facts' # 0
  BY <1>1, <1>2 DEF Missed
<1>4. \A p \in Paths : ~LoadedFrom(content', files[p].content)
  <2>1. ASSUME NEW p \in Paths, LoadedFrom(content', files[p].content) PROVE FALSE
    <3>1. files[p].content.edit = edits + 1
      BY <1>2, <2>1, LoadedEdit
    <3> QED
      BY <1>2, <3>1 DEF DocumentInv, NothingAhead
  <2> QED
    BY <2>1
<1>5. ~Kept(content)'
  BY <1>2, <1>4 DEF Kept, LoadedFrom
<1>6. NothingAhead'
  <2>1. pending # None => pending.doc.edit \in Nat
    BY PendingShape DEF Contents
  <2>2. \A i \in DOMAIN inbox : inbox[i].doc.edit \in Nat
    BY Entries DEF Contents
  <2> QED
    BY <1>1, <1>2, <2>1, <2>2 DEF DocumentInv, NothingAhead
<1>7. SourcesTrue' /\ CountedTrue'
  BY DEF DocumentInv, SourcesTrue, CountedTrue, Source, LoadedFrom, Mine
<1>8. CommitTrue' /\ SaveTrue' /\ CleanTrue'
  BY <1>3, <1>5 DEF CommitTrue, SaveTrue, CleanTrue
<1>9. QueryTrue' /\ AnswersTrue'
  <2>1. NoNewAnswer
    BY DEF NoNewAnswer, Certified
  <2> QED
    BY <1>1, <1>2, <2>1, AnswersFrame
<1> QED
  BY <1>6, <1>7, <1>8, <1>9 DEF DocumentInv

\* The rest of the inbox, once its head is handled.
LEMMA Rest ==
  ASSUME Typed, inbox # <<>>, inbox' = Tail(inbox)
  PROVE  /\ 1 \in DOMAIN inbox /\ Head(inbox) = inbox[1]
         /\ \A i \in DOMAIN inbox' : \E j \in DOMAIN inbox : inbox'[i] = inbox[j]
BY Heads DEF Typed, InboxOK

LEMMA DocumentsDecide ==
  ASSUME Typed, TicketInv, DocumentInv, ScenesReplace
  PROVE  DocumentInv'
<1> DEFINE request == Head(inbox)
<1>1. /\ inbox # <<>> /\ inbox' = Tail(inbox) /\ request.kind = "replace"
      /\ UNCHANGED <<edits, files, revision, facts, lagged, dirty, path, query, client, pending>>
  BY DEF ScenesReplace
<1>2. /\ 1 \in DOMAIN inbox /\ request = inbox[1]
      /\ \A i \in DOMAIN inbox' : \E j \in DOMAIN inbox : inbox'[i] = inbox[j]
  BY <1>1, Rest
<1>3. request.op \in Ops
  BY <1>2, Entries
<1>4. NoNewAnswer
  BY <1>1 DEF NoNewAnswer, Certified
<1>5. CASE UNCHANGED <<content, tickets>>
  <2>1. Rests
    BY <1>1 DEF Rests, Kin
  <2> QED
    BY <1>1, <1>2, <1>4, <1>5, <2>1, DocumentsRest DEF DocumentFrame
<1>6. CASE ~UNCHANGED <<content, tickets>>
  <2>1. /\ content' = request.doc /\ tickets[request.op] = "pending"
        /\ tickets' = [tickets EXCEPT ![request.op] = "committed"]
    BY <1>6 DEF ScenesReplace, TicketOpen, AdmitsRevision
  <2>2. Mine(request.op) /\ pending.stage = "asked" /\ pending.kind # "save" /\ Source(request.doc)
    BY <1>1, <1>2, <2>1
       DEF TicketInv, OpenOwned, RequestsKnown, DocumentInv, SourcesTrue
  <2>3. pending # None /\ pending' = pending /\ tickets'[pending'.id] = "committed"
    BY <1>1, <1>3, <2>1, <2>2 DEF Mine, Typed, TicketOK
  <2>4. Source(content)' /\ \A d : Source(d) => Source(d)'
    BY <1>1, <2>1, <2>2 DEF Source, LoadedFrom
  <2>5. Kept(content)'
    BY <1>1, <2>1, <2>2, <2>3, SourceKept
  <2>6. NothingAhead'
    BY <1>1, <1>2, <2>1 DEF DocumentInv, NothingAhead
  <2>7. SourcesTrue' /\ CountedTrue'
    BY <1>1, <1>2, <2>4 DEF DocumentInv, SourcesTrue, CountedTrue, Mine
  <2>8. CommitTrue' /\ SaveTrue'
    BY <1>1, <2>2, <2>4 DEF CommitTrue, SaveTrue
  <2>9. CleanTrue'
    BY <2>3, <2>5 DEF CleanTrue, Done
  <2>10. QueryTrue' /\ AnswersTrue'
    BY <1>1, <1>4, <2>5, AnswersFrame DEF Typed, BusOK
  <2> QED
    BY <2>6, <2>7, <2>8, <2>9, <2>10 DEF DocumentInv
<1> QED
  BY <1>5, <1>6

LEMMA DocumentsReply ==
  ASSUME Typed, TicketInv, DocumentInv, ScenesReply
  PROVE  DocumentInv'
<1>1. /\ UNCHANGED <<inbox, tickets, client>> /\ DocumentFrame
      /\ Rests \/ (Hears(replying.op, "done") /\ pending'.ok = replying.ok)
      /\ pending # None =>
            /\ pending'.doc = pending.doc /\ pending'.during = pending.during
            /\ pending'.normalized = pending.normalized
      /\ replying # None
  BY ReplyEffect DEF ScenesReply, DocumentFrame
<1>2. CASE Rests
  <2>1. NoNewAnswer
    BY <1>1 DEF NoNewAnswer, Certified
  <2> QED
    BY <1>1, <1>2, <2>1, DocumentsRest
<1>3. CASE Hears(replying.op, "done")
  <2>1. Kin /\ pending # None /\ pending.stage = "asked" /\ pending'.stage = "done" /\ pending.kind # "save"
    BY <1>1, <1>3 DEF Hears, Mine, TicketInv, AnswerTold, OperationTold
  <2>2. Done => Done'
    BY <1>1, <2>1 DEF Done, Kin
  <2>3. SourcesTrue' /\ SaveTrue'
    BY <2>1 DEF SourcesTrue, SaveTrue, Kin
  <2> QED
    BY <1>1, <2>1, <2>2, <2>3, DocumentsCarry DEF DocumentInv, NothingAhead
<1> QED
  BY <1>1, <1>2, <1>3

LEMMA DocumentsHand ==
  ASSUME Typed, TicketInv, DocumentInv, ScenesDocument
  PROVE  DocumentInv'
<1>1. /\ UNCHANGED <<tickets, client>> /\ DocumentFrame
      /\ inbox # <<>> /\ inbox' = Tail(inbox)
      /\ \/ Rests /\ pending' = pending
         \/ Hears(Head(inbox).op, "document") /\ pending'.doc = content
      /\ pending # None =>
            pending'.during = pending.during /\ pending'.normalized = pending.normalized
  BY DocumentEffect DEF ScenesDocument, DocumentFrame
<1>2. \A i \in DOMAIN inbox' : \E j \in DOMAIN inbox : inbox'[i] = inbox[j]
  BY <1>1, Rest
<1>3. CASE Rests /\ pending' = pending
  <2>1. NoNewAnswer
    BY <1>1 DEF NoNewAnswer, Certified
  <2> QED
    BY <1>1, <1>2, <1>3, <2>1, DocumentsRest
<1>4. CASE Hears(Head(inbox).op, "document") /\ pending'.doc = content
  <2>1. Kin /\ pending # None /\ pending.stage = "asked" /\ pending'.stage = "document"
    BY <1>4 DEF Hears, Mine
  <2>2. Done => Done'
    BY <1>1, <2>1 DEF Done, Kin
  <2>3. SourcesTrue' /\ SaveTrue'
    BY <1>1, <1>4, <2>1 DEF SourcesTrue, SaveTrue, DocumentFrame
  <2>4. content.edit <= edits
    BY DEF DocumentInv, NothingAhead
  <2>5. \A i \in DOMAIN inbox' : inbox'[i].doc.edit <= edits
    BY <1>2 DEF DocumentInv, NothingAhead
  <2> QED
    BY <1>1, <1>4, <2>1, <2>2, <2>3, <2>4, <2>5, DocumentsCarry
<1> QED
  BY <1>1, <1>3, <1>4

LEMMA DocumentsLag ==
  ASSUME Typed, DocumentInv, BusLag
  PROVE  DocumentInv'
<1>1. /\ lagged' = TRUE
      /\ UNCHANGED <<content, edits, files, revision, dirty, path, query, client, inbox, tickets, pending>>
  BY DEF BusLag
<1>2. NothingAhead' /\ SourcesTrue' /\ CountedTrue'
  BY <1>1 DEF DocumentInv, NothingAhead, SourcesTrue, CountedTrue, Source, LoadedFrom, Mine
<1>3. CommitTrue' /\ CleanTrue'
  BY <1>1 DEF CommitTrue, CleanTrue, Missed
<1>4. SaveTrue'
  BY <1>1, KeptFrame DEF DocumentInv, SaveTrue, Missed
<1>5. QueryTrue' /\ AnswersTrue'
  <2>1. NoNewAnswer
    BY <1>1 DEF NoNewAnswer, Certified
  <2> QED
    BY <1>1, <2>1, AnswersFrame, KeptFrame DEF Typed, BusOK
<1> QED
  BY <1>2, <1>3, <1>4, <1>5 DEF DocumentInv

\* Show counts an edit: the session is dirty, and the operation in progress knows.
LEMMA DocumentsCount ==
  ASSUME Typed, DocumentInv, dirty' = TRUE, pending' = NoteDirty(pending), NoNewAnswer,
         UNCHANGED <<content, edits, files, revision, path, inbox, tickets>>
  PROVE  /\ NothingAhead' /\ SourcesTrue' /\ CommitTrue' /\ SaveTrue' /\ CountedTrue' /\ CleanTrue'
         /\ query' = query => QueryTrue' /\ AnswersTrue'
<1>1. /\ Rests
      /\ pending # None =>
            /\ pending'.doc = pending.doc /\ pending'.normalized = pending.normalized
            /\ pending'.during
  BY Noting DEF Typed
<1>2. NothingAhead' /\ SourcesTrue'
  BY <1>1 DEF DocumentInv, NothingAhead, SourcesTrue, Source, LoadedFrom, Mine, Rests, Kin
<1>3. CommitTrue' /\ CleanTrue' /\ CountedTrue'
  BY <1>1 DEF CommitTrue, CleanTrue, CountedTrue, Missed, Rests, Kin
<1>4. SaveTrue'
  BY <1>1, KeptFrame DEF DocumentInv, SaveTrue, Missed, Rests, Kin
<1>5. query' = query => QueryTrue' /\ AnswersTrue'
  BY AnswersFrame, KeptFrame DEF Typed, BusOK
<1> QED
  BY <1>2, <1>3, <1>4, <1>5

\* A command is handled: the lockout changes, or an operation begins.
LEMMA DocumentsHandle ==
  ASSUME Typed, TicketInv, DocumentInv, pending = None,
         NEW command \in Commands \cap Submitted, Handle(command),
         HandleUnchanged' = HandleUnchanged, query' = query
  PROVE  DocumentInv'
<1>1. /\ UNCHANGED <<content, edits, files, facts, lagged, dirty, path, inbox, tickets, outcome>>
      /\ \/ pending' = None
         \/ Begins /\ pending'.doc = Blank /\ ~pending'.during
      /\ revision' >= revision /\ revision' \in Nat
  BY Beginning DEF HandleUnchanged
<1>2. NoNewAnswer
  <2>1. client' \in {client, [client EXCEPT ![command.from] = Answer("lockout", TRUE)],
                     [client EXCEPT ![command.from] = Answer("discovery", TRUE)]}
    BY DEF Handle
  <2>2. ASSUME NEW c \in Clients PROVE client'[c] = client[c] \/ client'[c].kind # "query"
    BY <2>1 DEF Typed, ClientOK, Answer
  <2> QED
    BY <2>2 DEF NoNewAnswer, Certified
<1>3. Begins => tickets[pending'.id] = "none"
  BY DEF TicketInv, TicketsKnown, Known, Mine, Begins
<1>4. NothingAhead'
  <2>1. Blank.edit <= edits
    BY BlankFits DEF Typed, DocsOK
  <2> QED
    BY <1>1, <2>1 DEF DocumentInv, NothingAhead
<1>5. SourcesTrue' /\ CommitTrue' /\ SaveTrue' /\ CountedTrue'
  BY <1>1, <1>3 DEF SourcesTrue, CommitTrue, SaveTrue, CountedTrue, Begins, Mine
<1>6. CleanTrue'
  BY <1>1, KeptFrame DEF DocumentInv, CleanTrue
<1>7. QueryTrue' /\ AnswersTrue'
  BY <1>1, <1>2, AnswersFrame, KeptFrame
<1> QED
  BY <1>4, <1>5, <1>6, <1>7 DEF DocumentInv

\* The three steps of a session-state query.
LEMMA DocumentsQueryRevision ==
  ASSUME Typed, DocumentInv, ShowQueryRevision
  PROVE  DocumentInv'
<1>1. /\ UNCHANGED <<content, edits, files, revision, facts, lagged, dirty, path, client, inbox, tickets,
                     pending>>
      /\ query' = [from |-> Head(mailbox).from, rev |-> revision, drained |-> FALSE]
  BY DEF ShowQueryRevision, HandleUnchanged
<1>2. NothingAhead' /\ SourcesTrue' /\ CommitTrue' /\ CountedTrue'
  BY <1>1
     DEF DocumentInv, NothingAhead, SourcesTrue, CommitTrue, CountedTrue, Source, LoadedFrom, Missed,
         Mine
<1>3. SaveTrue' /\ CleanTrue'
  BY <1>1, KeptFrame DEF DocumentInv, SaveTrue, CleanTrue, Missed, Done
<1>4. QueryTrue'
  BY <1>1 DEF QueryTrue, Typed, BusOK
<1>5. AnswersTrue'
  BY <1>1, KeptFrame DEF DocumentInv, AnswersTrue, Certified
<1> QED
  BY <1>2, <1>3, <1>4, <1>5 DEF DocumentInv

LEMMA DocumentsQueryDrain ==
  ASSUME Typed, DocumentInv, ShowQueryDrain
  PROVE  DocumentInv'
<1>1. /\ UNCHANGED <<content, edits, files, revision, path, client, inbox, tickets>>
      /\ query # None /\ query' = [query EXCEPT !.drained = TRUE]
      /\ facts' = 0 /\ lagged' = FALSE
  BY DEF ShowQueryDrain
<1>2. query'.rev = query.rev
  BY <1>1 DEF Typed, QueryOK
<1>3. AnswersTrue'
  BY <1>1, KeptFrame DEF DocumentInv, AnswersTrue, Certified
<1>4. CASE facts > 0 \/ lagged
  <2>1. dirty' = TRUE /\ pending' = NoteDirty(pending)
    BY <1>4 DEF ShowQueryDrain
  <2>2. NoNewAnswer
    BY <1>1 DEF NoNewAnswer, Certified
  <2>3. QueryTrue'
    BY <1>1, <1>2, <2>1 DEF DocumentInv, QueryTrue
  <2> QED
    BY <1>1, <1>3, <2>1, <2>2, <2>3, DocumentsCount DEF DocumentInv
<1>5. CASE ~(facts > 0 \/ lagged)
  <2>1. UNCHANGED <<dirty, pending, facts, lagged>> /\ facts = 0 /\ ~lagged
    <3>1. facts = 0 /\ lagged = FALSE
      BY <1>5 DEF Typed, BusOK
    <3>2. pending' = pending
      BY <1>5 DEF ShowQueryDrain
    <3>3. dirty' = dirty
      BY <1>5 DEF ShowQueryDrain, Typed, MetaOK
    <3> QED
      BY <1>1, <3>1, <3>2, <3>3
  <2>2. NothingAhead' /\ SourcesTrue' /\ CommitTrue' /\ CountedTrue'
    BY <1>1, <2>1
       DEF DocumentInv, NothingAhead, SourcesTrue, CommitTrue, CountedTrue, Source, LoadedFrom,
           Missed, Mine
  <2>3. SaveTrue' /\ CleanTrue'
    BY <1>1, <2>1, KeptFrame DEF DocumentInv, SaveTrue, CleanTrue, Missed, Done
  <2>4. QueryTrue'
    BY <1>1, <1>2, <2>1, KeptFrame DEF DocumentInv, QueryTrue, CleanTrue
  <2> QED
    BY <1>3, <2>2, <2>3, <2>4 DEF DocumentInv
<1> QED
  BY <1>4, <1>5

LEMMA DocumentsQueryReply ==
  ASSUME Typed, DocumentInv, ShowQueryReply
  PROVE  DocumentInv'
<1>1. /\ UNCHANGED <<content, edits, files, revision, facts, lagged, dirty, path, inbox, tickets, pending>>
      /\ query # None /\ query.drained /\ query' = None
      /\ client' = [client EXCEPT ![query.from] =
                       [kind |-> "query", ok |-> TRUE, dirty |-> dirty, rev |-> query.rev, path |-> path]]
  BY DEF ShowQueryReply, HandleUnchanged, AnswerRevision
<1>2. NothingAhead' /\ SourcesTrue' /\ CommitTrue' /\ CountedTrue' /\ QueryTrue'
  BY <1>1
     DEF DocumentInv, NothingAhead, SourcesTrue, CommitTrue, CountedTrue, QueryTrue, Source,
         LoadedFrom, Missed, Mine
<1>3. SaveTrue' /\ CleanTrue'
  BY <1>1, KeptFrame DEF DocumentInv, SaveTrue, CleanTrue, Missed, Done
<1>4. ASSUME NEW c \in Clients, Certified(c)'
      PROVE  \/ Certified(c) /\ client'[c] = client[c]
             \/ ~dirty /\ client'[c].rev = query.rev
  BY <1>1, <1>4 DEF Certified, Typed, ClientOK
<1>5. AnswersTrue'
  BY <1>1, <1>4, KeptFrame DEF DocumentInv, AnswersTrue, QueryTrue
<1> QED
  BY <1>2, <1>3, <1>5 DEF DocumentInv

\* The operation ends: when nothing was missed, the session is what its file holds.
LEMMA DocumentsFinish ==
  ASSUME Typed, TicketInv, DocumentInv, ShowFinish
  PROVE  DocumentInv'
<1>1. /\ pending # None /\ pending.stage = "done" /\ pending' = None /\ query = None
      /\ UNCHANGED <<content, edits, files, revision, facts, lagged, inbox, tickets, query>>
      /\ client' = [client EXCEPT ![pending.from] = Answer(pending.kind, pending.ok)]
  BY DEF ShowFinish, Looping
<1>2. /\ pending.kind \in OpKinds /\ pending.ok \in BOOLEAN /\ pending.during \in BOOLEAN
      /\ pending.kind # "new" => pending.path \in Paths
  BY <1>1, PendingShape
<1>3. NoNewAnswer
  BY <1>1, <1>2 DEF NoNewAnswer, Certified, Typed, ClientOK, Answer, OpKinds, Replacing
<1>4. NothingAhead' /\ SourcesTrue' /\ CommitTrue' /\ SaveTrue' /\ CountedTrue'
  BY <1>1 DEF DocumentInv, NothingAhead, SourcesTrue, CommitTrue, SaveTrue, CountedTrue, Mine
<1>5. QueryTrue' /\ AnswersTrue'
  BY <1>1, <1>3, AnswersFrame, KeptFrame DEF Typed, BusOK
<1>6. CASE ~pending.ok
  <2>1. UNCHANGED <<dirty, path>>
    BY <1>6 DEF ShowFinish
  <2>2. ~Done
    BY <1>1, <1>2, <1>6 DEF Done, TicketInv, OperationTold, OpKinds
  <2>3. CleanTrue'
    BY <1>1, <2>1, <2>2, KeptFrame DEF DocumentInv, CleanTrue
  <2> QED
    BY <1>4, <1>5, <2>3 DEF DocumentInv
<1>7. CASE pending.ok
  <2>1. \/ pending.kind \in {"save", "open"} /\ path' = pending.path
        \/ pending.kind \in {"new", "template"} /\ path' = NoPath
    BY <1>2, <1>7 DEF ShowFinish, FinishSave, FinishNew, FinishTemplate, FinishOpen, OpKinds, Replacing
  <2>2. /\ ~dirty' => ~pending.during
        /\ ~dirty' /\ pending.kind = "open" => ~pending.normalized
    BY <1>2, <1>7 DEF ShowFinish, FinishSave, FinishNew, FinishTemplate, FinishOpen, OpKinds, Replacing
  <2>3. pending.kind = "save" => Missed \/ files[pending.path].content = content
    BY <1>1, <1>7 DEF DocumentInv, SaveTrue
  <2>4. pending.kind \in Replacing => Missed \/ Source(content)
    BY <1>1, <1>7 DEF TicketInv, OperationTold, DocumentInv, CommitTrue
  <2>5. ASSUME ~dirty', facts = 0, ~lagged PROVE ~Missed
    BY <2>2, <2>5 DEF Missed
  <2>6. ASSUME ~dirty', ~Missed
        PROVE  /\ Kept(content)
               /\ pending.kind \in {"save", "open"} => content = files[pending.path].content
    <3>1. CASE pending.kind = "save"
      BY <1>2, <2>3, <2>6, <3>1 DEF Kept, LoadedFrom
    <3>2. CASE pending.kind = "new"
      BY <2>4, <2>6, <3>2, BlankFits DEF Source, Kept, Replacing
    <3>3. CASE pending.kind \in {"open", "template"}
      <4>1. /\ pending.path \in Paths /\ LoadedFrom(content, files[pending.path].content)
            /\ pending.normalized \/ content = files[pending.path].content
        BY <1>2, <2>4, <2>6, <3>3 DEF Source, Replacing
      <4> QED
        BY <2>2, <2>6, <3>3, <4>1 DEF Kept
    <3> QED
      BY <1>2, <3>1, <3>2, <3>3 DEF OpKinds, Replacing
  <2>7. CleanTrue'
    BY <1>1, <2>1, <2>5, <2>6, KeptFrame DEF CleanTrue
  <2> QED
    BY <1>4, <1>5, <2>7 DEF DocumentInv
<1> QED
  BY <1>2, <1>6, <1>7

LEMMA PrepareEffect ==
  ASSUME Typed, OpPrepare
  PROVE  /\ Kin /\ pending.stage = "start" /\ pending'.during = pending.during
         /\ pending.kind \in Replacing
         /\ \/ pending'.stage = "prepared" /\ Source(pending.doc)'
            \/ pending'.stage = "done" /\ pending'.doc = Blank
<1>1. pending \in Operations /\ pending # None /\ pending.kind \in Replacing /\ pending.stage = "start"
  BY DEF OpPrepare, AtStage, Typed, PendingOK
<1>5. files' = files
  BY DEF OpPrepare
<1>2. CASE Fail
  BY <1>1, <1>2, Failing DEF Fails
<1>3. CASE pending.kind = "new" /\ ~Fail
  <2>1. pending' = [pending EXCEPT !.stage = "prepared", !.gen = generation, !.list = lv1List,
                                   !.doc = Blank, !.lockout = FALSE]
    BY <1>3 DEF OpPrepare
  <2>2. pending' \in Operations
    BY <1>1, <2>1, BlankFits DEF Operations, Named, Stages, Lv1OK, Typed
  <2>3. pending' # None
    BY <2>2, NoneAssumption
  <2> QED
    BY <1>1, <1>3, <2>1, <2>3 DEF Operations, Kin, Source
<1>4. CASE pending.kind # "new" /\ ~Fail
  <2>1. PICK normalized \in BOOLEAN :
          pending' = [pending EXCEPT !.stage = "prepared", !.gen = generation,
                                     !.list = lv1List,
                                     !.doc = Imported(files[pending.path].content, normalized),
                                     !.lockout = files[pending.path].lockout,
                                     !.normalized = normalized]
    BY <1>4 DEF OpPrepare
  <2>2. files[pending.path] \in Files
    BY <1>1, <1>4 DEF DocsOK, Operations, Named, Naming, OpKinds, Replacing, Typed
  <2> DEFINE doc == Imported(files[pending.path].content, normalized)
  <2>3. /\ doc \in Contents /\ files[pending.path].lockout \in BOOLEAN
        /\ LoadedFrom(doc, files[pending.path].content)
        /\ normalized \/ doc = files[pending.path].content
    BY <1>1, <2>2, ImportFits DEF Files
  <2> HIDE DEF doc
  <2>4. pending' \in Operations
    BY <1>1, <2>1, <2>3 DEF Operations, Named, Stages, Lv1OK, Typed, doc
  <2>5. pending' # None
    BY <2>4, NoneAssumption
  <2>6. /\ Kin /\ pending'.during = pending.during /\ pending'.stage = "prepared"
        /\ pending'.doc = doc /\ pending'.normalized = normalized
    BY <1>1, <2>1, <2>5 DEF Operations, Kin, doc
  <2>7. Source(pending.doc)'
    BY <1>4, <1>5, <2>3, <2>6 DEF Source, LoadedFrom, Kin
  <2> QED
    BY <1>1, <2>6, <2>7
<1> QED
  BY <1>2, <1>3, <1>4

LEMMA DocumentsPrepare ==
  ASSUME Typed, TicketInv, DocumentInv, OpPrepare
  PROVE  DocumentInv'
<1>1. DocumentFrame /\ UNCHANGED <<client, inbox, tickets>>
  BY DEF OpPrepare, OpUnchanged, DocumentFrame
<1>2. /\ Kin /\ pending.stage = "start" /\ pending'.during = pending.during
      /\ pending.kind \in Replacing
      /\ \/ pending'.stage = "prepared" /\ Source(pending.doc)'
         \/ pending'.stage = "done" /\ pending'.doc = Blank
  BY PrepareEffect
<1>3. pending'.doc.edit <= edits
  <2>1. Blank.edit <= edits
    BY BlankFits DEF Typed, DocsOK
  <2>2. CASE pending'.doc = Blank
    BY <2>1, <2>2
  <2>3. CASE pending'.doc # Blank
    <3>1. /\ pending.kind # "new" /\ pending.path \in Paths
          /\ LoadedFrom(pending'.doc, files[pending.path].content)
      BY <1>1, <1>2, <2>3, PendingShape DEF Source, LoadedFrom, Kin, DocumentFrame
    <3> QED
      BY <3>1, LoadedEdit DEF DocumentInv, NothingAhead
  <2> QED
    BY <2>2, <2>3
<1>6. tickets[pending.id] = "none"
  BY <1>2 DEF TicketInv, OperationTold, Kin
<1>4. Done => Done'
  BY <1>1, <1>2 DEF Done, Kin
<1>5. SourcesTrue' /\ SaveTrue'
  BY <1>1, <1>2 DEF SourcesTrue, SaveTrue, Kin, Replacing
<1> QED
  BY <1>1, <1>2, <1>3, <1>4, <1>5, <1>6, DocumentsCarry DEF DocumentInv, NothingAhead

LEMMA DocumentsAsk ==
  ASSUME Typed, TicketInv, DocumentInv, OpReplace \/ OpAskDocument
  PROVE  DocumentInv'
<1>1. DocumentFrame /\ UNCHANGED client
  BY DEF OpReplace, OpAskDocument, OpUnchanged, DocumentFrame
<1>2. /\ pending # None /\ pending'.doc \in {Blank, pending.doc} /\ pending'.during = pending.during
      /\ pending.stage \in {"start", "prepared"}
      /\ \/ TicketFrame /\ Fails
         \/ /\ pending.stage = "prepared"
            /\ Asks("replace", "prepared") /\ tickets' = [tickets EXCEPT ![pending.id] = "pending"]
         \/ Asks("document", "start") /\ tickets' = tickets
  BY ReplaceEffect, AskEffect
<1>3. Kin /\ pending.id \in Ops /\ tickets[pending.id] = "none"
  BY <1>2, PendingShape DEF Asks, Fails, TicketInv, OperationTold
<1>4. pending'.doc.edit <= edits
  BY <1>2, BlankFits DEF DocumentInv, NothingAhead, Typed, DocsOK
<1>5. tickets'[pending.id] # "committed"
  BY <1>2, <1>3 DEF TicketFrame, Typed, TicketOK
<1>6. ~Done
  BY <1>2, <1>3 DEF Done
<1>7. pending.doc.edit <= edits
  BY <1>2 DEF DocumentInv, NothingAhead
<1>8. CASE TicketFrame /\ Fails
  <2>1. SourcesTrue' /\ SaveTrue'
    BY <1>8 DEF SourcesTrue, SaveTrue, Fails
  <2>2. \A i \in DOMAIN inbox' : inbox'[i].doc.edit <= edits
    BY <1>8 DEF TicketFrame, DocumentInv, NothingAhead
  <2> QED
    BY <1>1, <1>2, <1>3, <1>4, <1>5, <1>6, <2>1, <2>2, DocumentsCarry
<1>9. ASSUME NEW kind \in {"replace", "document"}, inbox' = Append(inbox, OpRequest(kind)),
             pending'.stage = "asked", pending'.normalized = pending.normalized,
             kind = "replace" => pending.stage = "prepared"
      PROVE  DocumentInv'
  <2>1. pending \in Operations
    BY <1>2 DEF Typed, PendingOK
  <2>2. /\ OpRequest(kind) \in Requests /\ OpRequest(kind).doc = pending.doc
        /\ OpRequest(kind).op = pending.id /\ OpRequest(kind).kind = kind
    BY <2>1 DEF OpRequest, Operations, Requests
  <2>3. ASSUME NEW i \in DOMAIN inbox'
        PROVE  \/ i \in DOMAIN inbox /\ inbox'[i] = inbox[i]
               \/ inbox'[i] = OpRequest(kind)
    BY <1>9, <2>2, <2>3, Appended DEF Typed, InboxOK
  <2>4. \A i \in DOMAIN inbox' : inbox'[i].doc.edit <= edits
    BY <1>7, <2>2, <2>3 DEF DocumentInv, NothingAhead
  <2>5. ASSUME NEW i \in DOMAIN inbox', inbox'[i].kind = "replace", Mine(inbox'[i].op)
        PROVE  Source(inbox'[i].doc)
    <3>1. CASE i \in DOMAIN inbox /\ inbox'[i] = inbox[i]
      BY <1>3, <2>5, <3>1 DEF TicketInv, RequestsOnce, Mine
    <3>2. CASE inbox'[i] = OpRequest(kind)
      BY <1>2, <1>9, <2>2, <2>5, <3>2 DEF DocumentInv, SourcesTrue
    <3> QED
      BY <2>3, <3>1, <3>2
  <2>6. SourcesTrue'
    <3>1. pending'.normalized = pending.normalized
      BY <1>9
    <3> QED
      BY <1>1, <1>3, <1>9, <2>5, <3>1 DEF SourcesTrue, Source, LoadedFrom, Kin, Mine, DocumentFrame
  <2>7. SaveTrue'
    BY <1>9 DEF SaveTrue
  <2> QED
    BY <1>1, <1>2, <1>3, <1>4, <1>5, <1>6, <2>4, <2>6, <2>7, DocumentsCarry
<1> QED
  BY <1>2, <1>8, <1>9 DEF Asks

LEMMA DocumentsGiveUp ==
  ASSUME Typed, DocumentInv, OpGiveUp
  PROVE  DocumentInv'
<1>1. DocumentFrame /\ UNCHANGED <<client, inbox>>
  BY DEF OpGiveUp, OpUnchanged, DocumentFrame
<1>2. /\ Hears(pending.id, "done") /\ pending.kind \in Replacing
      /\ pending'.doc \in {Blank, pending.doc} /\ pending'.during = pending.during
      /\ \/ /\ tickets[pending.id] = "committed" /\ pending'.ok /\ tickets' = tickets
            /\ pending'.normalized = pending.normalized
         \/ /\ tickets[pending.id] = "pending" /\ ~pending'.ok
            /\ tickets' = [tickets EXCEPT ![pending.id] = "canceled"]
  BY GiveUpEffect
<1>3. Kin /\ pending.id \in Ops /\ pending.stage = "asked" /\ pending'.stage = "done"
  BY <1>2, PendingShape DEF Hears, Kin
<1>4. pending'.doc.edit <= edits
  BY <1>2, <1>3, BlankFits DEF DocumentInv, NothingAhead, Typed, DocsOK, Kin
<1>5. /\ tickets'[pending.id] = "committed" =>
            tickets[pending.id] = "committed" /\ pending'.normalized = pending.normalized
      /\ Done => Done'
  BY <1>2, <1>3 DEF Done, Kin, Typed, TicketOK
<1>6. SourcesTrue' /\ SaveTrue'
  BY <1>2, <1>3 DEF SourcesTrue, SaveTrue, Kin, Replacing
<1> QED
  BY <1>1, <1>2, <1>3, <1>4, <1>5, <1>6, DocumentsCarry DEF DocumentInv, NothingAhead

LEMMA WriteEffect ==
  ASSUME Typed, OpWrite \/ OpDocumentTimesOut
  PROVE  /\ Kin /\ pending.kind = "save" /\ pending'.during = pending.during
         /\ pending.stage # "done" /\ pending'.stage = "done" /\ pending'.doc = Blank
         /\ \/ ~pending'.ok /\ files' = files
            \/ /\ pending.stage = "document" /\ pending.path \in Paths /\ pending'.ok
               /\ files' = [files EXCEPT ![pending.path] =
                               [content |-> pending.doc, lockout |-> pending.lockout]]
<1>1. /\ pending \in Operations /\ pending # None /\ pending.kind = "save"
      /\ pending.stage # "done"
  BY DEF OpWrite, OpDocumentTimesOut, AtStage, Typed, PendingOK
<1>2. CASE Fail /\ files' = files
  BY <1>1, <1>2, Failing DEF Fails
<1>3. CASE OpWrite /\ ~(Fail /\ files' = files)
  <2>1. /\ pending.stage = "document"
        /\ pending' = [pending EXCEPT !.stage = "done", !.ok = TRUE, !.doc = Blank, !.lockout = FALSE]
        /\ files' = [files EXCEPT ![pending.path] =
                        [content |-> pending.doc, lockout |-> pending.lockout]]
    BY <1>3 DEF OpWrite, AtStage
  <2>2. pending' \in Operations
    BY <1>1, <2>1, BlankFits DEF Operations, Named, Stages
  <2>3. pending' # None
    BY <2>2, NoneAssumption
  <2>4. pending.path \in Paths
    BY <1>1, PendingShape
  <2> QED
    BY <1>1, <2>1, <2>3, <2>4 DEF Operations, Kin
<1> QED
  BY <1>2, <1>3 DEF OpDocumentTimesOut

\* A save writes the current document, or one the session was edited after.
LEMMA DocumentsWrite ==
  ASSUME Typed, TicketInv, DocumentInv, OpWrite \/ OpDocumentTimesOut
  PROVE  DocumentInv'
<1>1. UNCHANGED <<content, edits, revision, facts, lagged, dirty, path, query, client, inbox, tickets>>
  BY DEF OpWrite, OpDocumentTimesOut, OpUnchanged
<1>2. /\ Kin /\ pending.kind = "save" /\ pending'.during = pending.during
      /\ pending.stage # "done" /\ pending'.stage = "done" /\ pending'.doc = Blank
      /\ \/ ~pending'.ok /\ files' = files
         \/ /\ pending.stage = "document" /\ pending.path \in Paths /\ pending'.ok
            /\ files' = [files EXCEPT ![pending.path] =
                            [content |-> pending.doc, lockout |-> pending.lockout]]
  BY WriteEffect
<1>3. pending'.doc.edit <= edits
  BY <1>2, BlankFits DEF Typed, DocsOK
<1>4. tickets[pending.id] = "none" /\ tickets'[pending'.id] = "none" /\ ~Done
  BY <1>1, <1>2 DEF TicketInv, OperationTold, Kin, Done
<1>5. SourcesTrue'
  BY <1>2 DEF SourcesTrue
<1>6. CASE ~pending'.ok /\ files' = files
  <2>1. SaveTrue'
    BY <1>2, <1>6 DEF SaveTrue
  <2> QED
    BY <1>1, <1>2, <1>3, <1>4, <1>5, <1>6, <2>1, DocumentsCarry
       DEF DocumentFrame, DocumentInv, NothingAhead, Kin
<1>7. CASE /\ pending.stage = "document" /\ pending.path \in Paths /\ pending'.ok
           /\ files' = [files EXCEPT ![pending.path] =
                           [content |-> pending.doc, lockout |-> pending.lockout]]
  <2>1. /\ files'[pending.path].content = pending.doc
        /\ \A p \in Paths : p # pending.path => files'[p] = files[p]
    BY <1>7 DEF Typed, DocsOK
  <2>2. pending.doc = content \/ (Missed /\ ~Kept(content))
    BY <1>2, <1>7 DEF DocumentInv, SaveTrue, Kin
  <2>3. pending.doc = content => Kept(content)'
    BY <1>1, <1>7, <2>1 DEF Kept, LoadedFrom
  <2>4. Missed' <=> Missed
    BY <1>1, <1>2 DEF Missed, Kin
  <2>5. Missed => ~(~dirty' /\ facts' = 0 /\ ~lagged')
    BY <1>1 DEF Missed, DocumentInv, CountedTrue
  <2>6. NothingAhead'
    BY <1>1, <1>2, <1>3, <2>1 DEF DocumentInv, NothingAhead, Kin
  <2>7. CommitTrue'
    BY <1>2, <1>4 DEF CommitTrue, Kin
  <2>8. SaveTrue'
    BY <1>1, <1>2, <2>1, <2>2, <2>4 DEF SaveTrue, Kin
  <2>9. CountedTrue'
    BY <1>1, <1>2 DEF DocumentInv, CountedTrue, Kin
  <2>10. CleanTrue'
    BY <1>2, <1>7, <2>2, <2>3, <2>5 DEF CleanTrue, Done, Kin
  <2>11. QueryTrue' /\ AnswersTrue'
    <3>1. NoNewAnswer
      BY <1>1 DEF NoNewAnswer, Certified
    <3> QED
      BY <1>1, <2>2, <2>3, <3>1, AnswersFrame DEF Typed, BusOK
  <2> QED
    BY <1>5, <2>6, <2>7, <2>8, <2>9, <2>10, <2>11 DEF DocumentInv
<1> QED
  BY <1>2, <1>6, <1>7

LEMMA DocumentStep == ASSUME Typed, TicketInv, DocumentInv, Move PROVE DocumentInv'
<1>1. CASE UNCHANGED <<content, edits, files, revision, facts, lagged, dirty, path, query, client, inbox,
                       tickets, pending>>
  BY <1>1, DocumentsRest DEF DocumentFrame, NoNewAnswer, Certified, Rests, Kin
<1>2. CASE ScenesObservesList
  BY <1>1, <1>2, DocumentsEdit DEF ScenesObservesList, Publish
<1>3. CASE ShowRecvFact
  <2>1. NoNewAnswer
    BY <1>3 DEF ShowRecvFact, NoNewAnswer, Certified
  <2> QED
    BY <1>3, <2>1, DocumentsCount DEF ShowRecvFact, DocumentInv
<1>4. CASE ShowTakeHeld
  <2>1. held \in Commands
    BY <1>4 DEF ShowTakeHeld, Typed, QueueOK
  <2>2. held \in Submitted
    BY <1>4 DEF ShowTakeHeld, Submitted
  <2> QED
    BY <1>4, <2>1, <2>2, DocumentsHandle DEF ShowTakeHeld
<1>5. CASE ShowRecvCommand
  <2>1. Head(mailbox) \in Commands
    BY <1>5, Heads DEF ShowRecvCommand, Typed, QueueOK
  <2>2. Head(mailbox) \in Submitted
    BY <1>5, Heads DEF ShowRecvCommand, Typed, QueueOK, Submitted
  <2> QED
    BY <1>5, <2>1, <2>2, DocumentsHandle DEF ShowRecvCommand
<1>6. CASE ShowHoldCommand
  BY <1>1, <1>6 DEF ShowHoldCommand, HandleUnchanged
<1>7. CASE ScenesEdit
  BY <1>7, DocumentsEdit DEF ScenesEdit
<1>8. CASE Lv1Lost \/ Lv1Connects \/ Lv1ListChanges
  BY <1>1, <1>8 DEF Lv1Lost, Lv1Connects, Lv1ListChanges
<1>9. CASE Sends
  <2>1. PICK c \in Clients, command \in Commands : Send(c, command)
    BY <1>9 DEF Sends
  <2>2. client' = [client EXCEPT ![c] = Answer("waiting", TRUE)]
    BY <2>1 DEF Send
  <2>3. NoNewAnswer
    BY <2>2 DEF NoNewAnswer, Certified, Answer, Typed, ClientOK
  <2> QED
    BY <2>1, <2>3, DocumentsRest DEF Send, DocumentFrame, Rests, Kin
<1> QED
  BY <1>2, <1>3, <1>4, <1>5, <1>6, <1>7, <1>8, <1>9, DocumentsDecide, DocumentsReply, DocumentsHand,
     DocumentsLag, DocumentsQueryRevision, DocumentsQueryDrain, DocumentsQueryReply,
     DocumentsFinish, DocumentsPrepare, DocumentsAsk, DocumentsGiveUp, DocumentsWrite
     DEF Move, ScenesStep, ShowStep, OpStep, Environment

-----------------------------------------------------------------------------
(* The initial states *)

LEMMA InitTyped == Init => Typed
<1> SUFFICES ASSUME Init PROVE Typed
  OBVIOUS
<1>1. DocsOK /\ ListsOK /\ ReplyOK /\ TicketOK /\ OutcomeOK /\ BusOK
  BY BlankFits DEF Init, DocsOK, ListsOK, ReplyOK, TicketOK, OutcomeOK, BusOK, Files
<1>2. MetaOK /\ PendingOK /\ QueryOK
  BY DEF Init, MetaOK, PendingOK, QueryOK
<1>5. InboxOK /\ QueueOK
  <2>1. inbox = <<>> /\ mailbox = <<>> /\ held = None
    BY DEF Init
  <2> QED
    BY <2>1 DEF InboxOK, QueueOK
<1>3. ClientOK
  BY AnswerType DEF Init, ClientOK
<1>4. Lv1OK
  BY SessionAssumption DEF Init, Lv1OK
<1> QED
  BY <1>1, <1>2, <1>3, <1>4, <1>5 DEF Typed

LEMMA InitTickets == Init => TicketInv
BY DEF Init, TicketInv, TicketsKnown, RequestsKnown, RequestsOnce, AnswerTold, OperationTold,
       OpenOwned, OutcomeMatchesCommit

LEMMA InitDocuments == Init => DocumentInv
<1> SUFFICES ASSUME Init PROVE DocumentInv
  OBVIOUS
<1>1. Kept(content)
  BY BlankFits DEF Init, Kept
<1>2. \A c \in Clients : ~Certified(c)
  BY DEF Init, Certified, Answer
<1>3. \A p \in Paths : files[p].content = Blank
  BY DEF Init
<1>4. NothingAhead /\ SourcesTrue /\ CommitTrue /\ SaveTrue /\ CountedTrue /\ QueryTrue
  BY <1>3, BlankFits
     DEF Init, NothingAhead, SourcesTrue, CommitTrue, SaveTrue, CountedTrue, QueryTrue
<1>5. CleanTrue /\ AnswersTrue
  BY <1>1, <1>2 DEF Init, CleanTrue, AnswersTrue
<1> QED
  BY <1>4, <1>5 DEF DocumentInv

LEMMA SessionInit == Init => SessionInv
BY InitTyped, InitTickets, InitDocuments DEF SessionInv

LEMMA SessionKept == ASSUME SessionInv, Move \/ UNCHANGED vars PROVE SessionInv'
<1>1. Typed /\ TicketInv /\ DocumentInv
  BY DEF SessionInv
<1>2. CASE Move
  BY <1>1, <1>2, TypeStep, TicketStep, DocumentStep DEF SessionInv
<1>3. CASE UNCHANGED vars
  <2>1. Typed'
    BY <1>1, <1>3, Frame DEF vars, Typed
  <2>2. TicketInv'
    BY <1>1, <1>3, TicketsRest DEF vars, TicketFrame, Rests, Kin
  <2>3. DocumentInv'
    BY <1>1, <1>3, DocumentsRest DEF vars, DocumentFrame, NoNewAnswer, Certified, Rests, Kin
  <2> QED
    BY <2>1, <2>2, <2>3 DEF SessionInv
<1> QED
  BY <1>2, <1>3

\* The invariant holds in every reachable state.
LEMMA Inductive == Spec => []SessionInv
<1>1. SessionInv /\ [Next]_vars => SessionInv'
  BY NextMoves, SessionKept DEF SessionInv
<1> QED
  BY <1>1, SessionInit, PTL DEF Spec

-----------------------------------------------------------------------------
(* Theorems *)

\* The variables keep their shapes, the requests that wait in the inbox included.
THEOREM TypeCorrect == Spec => []TypeOK
<1>1. SessionInv => TypeOK
  BY Shapes DEF SessionInv
<1> QED
  BY <1>1, Inductive, PTL

\* A replacement and the cancellation by its timeout exclude each other
\* (session.rs:64): whatever Scenes, Show and the timeout do in whichever order,
\* an operation reports success exactly when its documents were installed.
THEOREM OutcomeCorrect == Spec => []OutcomeMatchesCommit
<1>1. SessionInv => OutcomeMatchesCommit
  BY DEF SessionInv, TicketInv
<1> QED
  BY <1>1, Inductive, PTL

\* Show's clean flag can be trusted (session dirty tracking in show/actor.rs),
\* however edits, saves, replacements and lost facts interleave: no edit is missing
\* from the files, and a clean session with a path is exactly the file there, what
\* loading changed included.
THEOREM CleanCorrect == Spec => []CleanIsKept
<1>1. SessionInv => CleanIsKept
  BY DEF SessionInv, DocumentInv, CleanTrue, CleanIsKept
<1> QED
  BY <1>1, Inductive, PTL

\* A clean answer to a session-state query certifies the persisted edits for as long
\* as its revision is current (show/actor.rs, the query's revision and drain): none is
\* missing from the files.  It says nothing of what a later open changed while loading.
THEOREM CertificateCorrect == Spec => []CertificateTruth
<1>1. SessionInv => CertificateTruth
  BY DEF SessionInv, DocumentInv, AnswersTrue, CertificateTruth
<1> QED
  BY <1>1, Inductive, PTL
-----------------------------------------------------------------------------
(* SessionGuard: what a revision is worth *)

\* A revision is worth something when it is past or, as long as it is the current
\* one, no edit is missing from the files: whoever carries one may replace the session with
\* it.  Steps make revisions past, or keep what is kept.
Worthy ==
    {r \in Revisions \cup {NoRev} : r <= revision /\ (r = revision => Kept(content))}

\* What was told to a client or came with its command is worth something; only
\* replacements carry a revision.
Sound(x) == x.rev \in Worthy /\ (x.kind \notin Replacing => x.rev = NoRev)
RequestSound(x) == x.rev \in Worthy /\ (x.kind = "document" => x.rev = NoRev)

ShowCarries ==
    /\ \A i \in DOMAIN inbox : RequestSound(inbox[i])
    /\ pending # None => Sound(pending)
    /\ \A x \in Submitted : Sound(x)
    /\ \A c \in Clients : ~client[c].dirty => client[c].rev \in Worthy

SoundSends == \E c \in Clients, command \in Commands : Sound(command) /\ Send(c, command)
SoundMove == ScenesStep \/ ShowStep \/ OpStep \/ Environment \/ SoundSends

LEMMA NoRevWorthy == Typed => NoRev \in Worthy
BY DEF Typed, BusOK, Worthy, NoRev

\* Documents that change with the same revision change into kept ones.
LEMMA BacksStep ==
  ASSUME SessionInv, Move \/ UNCHANGED vars
  PROVE  Worthy \subseteq Worthy'
<1>1. /\ Typed /\ TicketInv /\ DocumentInv /\ revision \in Nat
      /\ \A r \in Revisions \cup {NoRev} : r \in Nat \cup {-1}
  BY DEF SessionInv, Typed, BusOK, Revisions, NoRev
<1>2. ASSUME revision' \in Nat, revision' >= revision,
             revision' = revision /\ Kept(content) => Kept(content)'
      PROVE  Worthy \subseteq Worthy'
  BY <1>1, <1>2 DEF Worthy
<1>3. CASE UNCHANGED <<content, files, revision>>
  BY <1>1, <1>2, <1>3, KeptFrame
<1>4. CASE revision' = revision + 1
  BY <1>1, <1>2, <1>4
<1>5. CASE ScenesObservesList \/ ScenesEdit
  <2>1. UNCHANGED <<content, revision, files>> \/ revision' = revision + 1
    BY <1>5 DEF ScenesObservesList, ScenesEdit, Publish
  <2> QED
    BY <1>3, <1>4, <2>1
<1>6. CASE ScenesReplace
  <2>1. UNCHANGED <<files, revision, pending>>
    BY <1>6 DEF ScenesReplace
  <2>2. CASE content' = content
    BY <1>3, <2>1, <2>2
  <2>3. CASE content' # content
    <3>1. /\ inbox # <<>> /\ Head(inbox).kind = "replace"
          /\ content' = Head(inbox).doc /\ tickets[Head(inbox).op] = "pending"
      BY <1>6, <2>3 DEF ScenesReplace, TicketOpen, AdmitsRevision
    <3>2. 1 \in DOMAIN inbox /\ Head(inbox) = inbox[1]
      BY <1>1, <3>1, Heads DEF Typed, InboxOK
    <3>3. Mine(inbox[1].op) /\ pending.stage = "asked"
      BY <1>1, <3>1, <3>2 DEF TicketInv, OpenOwned
    <3>4. pending # None /\ Source(inbox[1].doc) /\ pending.kind # "save"
      BY <1>1, <3>1, <3>2, <3>3 DEF Mine, DocumentInv, SourcesTrue, TicketInv, RequestsKnown
    <3>5. Kept(content)'
      BY <1>1, <2>1, <3>1, <3>2, <3>4, SourceKept
    <3> QED
      BY <1>1, <1>2, <2>1, <3>5
  <2> QED
    BY <2>2, <2>3
<1>7. CASE ShowTakeHeld \/ ShowRecvCommand
  <2>1. UNCHANGED <<content, files>>
    BY <1>7 DEF ShowTakeHeld, ShowRecvCommand, HandleUnchanged
  <2>2. PICK command \in {held, Head(mailbox)} : Handle(command)
    BY <1>7 DEF ShowTakeHeld, ShowRecvCommand
  <2>3. revision' \in {revision, revision + 1}
    BY <2>2 DEF Handle, SetLockout
  <2> QED
    BY <1>3, <1>4, <2>1, <2>3
<1>8. CASE OpWrite
  <2>1. UNCHANGED <<content, revision>>
    BY <1>8 DEF OpWrite, OpUnchanged
  <2>2. CASE files' = files
    BY <1>3, <2>1, <2>2
  <2>3. CASE files' # files
    <3>1. /\ pending # None /\ pending.kind = "save" /\ pending.stage = "document"
          /\ pending.path \in Paths
          /\ files' = [files EXCEPT ![pending.path] =
                          [content |-> pending.doc, lockout |-> pending.lockout]]
      BY <1>1, <1>8, <2>3, WriteEffect DEF Kin
    <3>2. pending.doc = content \/ ~Kept(content)
      BY <1>1, <3>1 DEF DocumentInv, SaveTrue
    <3>3. pending.doc = content => Kept(content)'
      BY <1>1, <2>1, <3>1 DEF Kept, LoadedFrom, Typed, DocsOK
    <3> QED
      BY <1>1, <1>2, <2>1, <3>2, <3>3
  <2> QED
    BY <2>2, <2>3
<1>9. CASE UNCHANGED vars
  BY <1>3, <1>9 DEF vars
<1>10. CASE ScenesReply \/ ScenesDocument \/ ShowRecvFact \/ ShowHoldCommand \/ ShowQueryRevision
            \/ ShowQueryDrain \/ ShowQueryReply \/ ShowFinish
  BY <1>3, <1>10
     DEF ScenesReply, ScenesDocument, ShowRecvFact, ShowHoldCommand, ShowQueryRevision,
         ShowQueryDrain, ShowQueryReply, ShowFinish, HandleUnchanged
<1>11. CASE OpPrepare \/ OpReplace \/ OpGiveUp \/ OpAskDocument \/ OpDocumentTimesOut
  BY <1>3, <1>11
     DEF OpPrepare, OpReplace, OpGiveUp, OpAskDocument, OpDocumentTimesOut, OpUnchanged
<1>12. CASE BusLag \/ Lv1Lost \/ Lv1Connects \/ Lv1ListChanges \/ Sends
  BY <1>3, <1>12 DEF BusLag, Lv1Lost, Lv1Connects, Lv1ListChanges, Sends, Send
<1> QED
  BY <1>5, <1>6, <1>7, <1>8, <1>9, <1>10, <1>11, <1>12
     DEF Move, ScenesStep, ShowStep, OpStep, Environment

\* Where Scenes' requests, the operation, Show's commands and the answers to
\* clients come from.
LEMMA InboxFlow ==
  ASSUME Typed, Move, NEW i \in DOMAIN inbox'
  PROVE  \/ \E j \in DOMAIN inbox : inbox'[i] = inbox[j]
         \/ /\ pending # None /\ inbox'[i].rev = pending.rev
            /\ inbox'[i].kind = "document" => pending.kind = "save"
<1>1. CASE inbox' = inbox
  BY <1>1
<1>2. CASE inbox # <<>> /\ inbox' = Tail(inbox)
  BY <1>2, Rest
<1>3. ASSUME NEW kind \in {"replace", "document"}, inbox' = Append(inbox, OpRequest(kind)),
             pending # None, kind = "document" => pending.kind = "save"
      PROVE  \/ \E j \in DOMAIN inbox : inbox'[i] = inbox[j]
             \/ /\ pending # None /\ inbox'[i].rev = pending.rev
                /\ inbox'[i].kind = "document" => pending.kind = "save"
  <2>1. pending \in Operations
    BY <1>3 DEF Typed, PendingOK
  <2>2. /\ OpRequest(kind) \in Requests /\ OpRequest(kind).rev = pending.rev
        /\ OpRequest(kind).kind = kind
    BY <2>1 DEF OpRequest, Operations, Requests
  <2>3. \/ i \in DOMAIN inbox /\ inbox'[i] = inbox[i]
        \/ inbox'[i] = OpRequest(kind)
    BY <1>3, <2>2, Appended DEF Typed, InboxOK
  <2> QED
    BY <1>3, <2>2, <2>3
<1>4. CASE OpReplace
  BY <1>1, <1>3, <1>4, ReplaceEffect DEF TicketFrame, Asks
<1>5. CASE OpAskDocument
  BY <1>1, <1>3, <1>5, AskEffect DEF TicketFrame, Asks
<1>6. CASE ScenesReplace
  BY <1>2, <1>6 DEF ScenesReplace
<1>7. CASE ScenesReply
  BY <1>1, <1>7 DEF ScenesReply
<1>8. CASE ScenesDocument
  BY <1>2, <1>8 DEF ScenesDocument
<1>9. CASE ShowFinish \/ OpGiveUp
  BY <1>1, <1>9 DEF ShowFinish, OpGiveUp
<1> QED
  BY <1>1, <1>4, <1>5, <1>6, <1>7, <1>8, <1>9, QuietSteps DEF TicketFrame

LEMMA PendingFlow ==
  ASSUME Typed, Move
  PROVE  \/ pending' = None
         \/ /\ pending # None /\ pending' # None
            /\ pending'.rev = pending.rev /\ pending'.kind = pending.kind
         \/ \E command \in Submitted :
               pending'.rev = command.rev /\ pending'.kind = command.kind
<1>1. CASE UNCHANGED pending
  BY <1>1
<1>2. CASE Rests \/ Begins \/ Kin
  BY <1>2 DEF Rests, Begins, Kin
<1>3. CASE ScenesReplace
  BY <1>1, <1>3 DEF ScenesReplace
<1>4. CASE ScenesReply \/ ScenesDocument \/ OpGiveUp
  BY <1>2, <1>4, ReplyEffect, DocumentEffect, GiveUpEffect DEF Hears
<1>5. CASE OpReplace \/ OpAskDocument
  BY <1>2, <1>5, ReplaceEffect, AskEffect DEF Fails, Asks
<1>6. CASE ShowFinish
  BY <1>6 DEF ShowFinish
<1> QED
  BY <1>2, <1>3, <1>4, <1>5, <1>6, QuietSteps DEF Advances, Fails

LEMMA QueueFlow ==
  ASSUME Typed, ScenesStep \/ ShowStep \/ OpStep \/ Environment
  PROVE  Submitted' \subseteq Submitted
<1>1. CASE UNCHANGED <<held, mailbox>>
  BY <1>1 DEF Submitted
<1>2. ASSUME mailbox # <<>>, mailbox' = Tail(mailbox), held' \in {held, Head(mailbox)}
      PROVE  Submitted' \subseteq Submitted
  <2>1. /\ Head(mailbox) = mailbox[1] /\ 1 \in DOMAIN mailbox
        /\ \A i \in DOMAIN mailbox' : i + 1 \in DOMAIN mailbox /\ mailbox'[i] = mailbox[i + 1]
    BY <1>2, Heads DEF Typed, QueueOK
  <2> QED
    BY <1>2, <2>1 DEF Submitted
<1>3. CASE ShowTakeHeld
  <2>1. held' = None /\ mailbox' = mailbox
    BY <1>3 DEF ShowTakeHeld
  <2> QED
    BY <2>1 DEF Submitted
<1>4. CASE ShowRecvCommand \/ ShowHoldCommand \/ ShowQueryRevision
  BY <1>2, <1>4 DEF ShowRecvCommand, ShowHoldCommand, ShowQueryRevision
<1>5. CASE ScenesStep \/ OpStep \/ Environment
  BY <1>1, <1>5
     DEF ScenesStep, OpStep, Environment, ScenesObservesList, ScenesReplace, ScenesReply,
         ScenesDocument, OpPrepare, OpReplace, OpGiveUp, OpAskDocument, OpDocumentTimesOut, OpWrite,
         OpUnchanged, ScenesEdit, BusLag, Lv1Lost, Lv1Connects, Lv1ListChanges
<1>6. CASE ShowRecvFact \/ ShowQueryDrain \/ ShowQueryReply \/ ShowFinish
  BY <1>1, <1>6 DEF ShowRecvFact, ShowQueryDrain, ShowQueryReply, ShowFinish
<1> QED
  BY <1>3, <1>4, <1>5, <1>6 DEF ShowStep

LEMMA SendFlow ==
  ASSUME Typed, NEW c \in Clients, NEW command \in Commands, Send(c, command)
  PROVE  Submitted' \subseteq Submitted \cup {command}
<1>1. held' = held /\ mailbox' = Append(mailbox, command)
  BY DEF Send
<1>2. ASSUME NEW i \in DOMAIN mailbox'
      PROVE  (i \in DOMAIN mailbox /\ mailbox'[i] = mailbox[i]) \/ mailbox'[i] = command
  BY <1>1, Appended DEF Typed, QueueOK
<1> QED
  BY <1>1, <1>2 DEF Submitted

LEMMA ClientFlow ==
  ASSUME Typed, Move, NEW c \in Clients
  PROVE  \/ client'[c] = client[c]
         \/ client'[c].rev = NoRev
         \/ /\ query # None /\ query.drained
            /\ client'[c].dirty = dirty /\ client'[c].rev = query.rev
<1>1. CASE client' = client
  BY <1>1
<1>2. ASSUME NEW d, NEW k, NEW ok, client' = [client EXCEPT ![d] = Answer(k, ok)]
      PROVE  client'[c] = client[c] \/ client'[c].rev = NoRev
  BY <1>2 DEF Answer, Typed, ClientOK
<1>3. CASE ShowTakeHeld \/ ShowRecvCommand
  <2>1. PICK command \in {held, Head(mailbox)} : Handle(command)
    BY <1>3 DEF ShowTakeHeld, ShowRecvCommand
  <2> QED
    BY <1>1, <1>2, <2>1 DEF Handle
<1>4. CASE ShowFinish
  BY <1>2, <1>4 DEF ShowFinish
<1>5. CASE Sends
  BY <1>2, <1>5 DEF Sends, Send
<1>6. CASE ShowQueryReply
  BY <1>6 DEF ShowQueryReply, AnswerRevision, Typed, ClientOK
<1>7. CASE ScenesStep \/ OpStep \/ Environment
  BY <1>1, <1>7
     DEF ScenesStep, OpStep, Environment, ScenesObservesList, ScenesReplace, ScenesReply,
         ScenesDocument, OpPrepare, OpReplace, OpGiveUp, OpAskDocument, OpDocumentTimesOut, OpWrite,
         OpUnchanged, ScenesEdit, BusLag, Lv1Lost, Lv1Connects, Lv1ListChanges
<1>8. CASE ShowRecvFact \/ ShowHoldCommand \/ ShowQueryRevision \/ ShowQueryDrain
  BY <1>1, <1>8 DEF ShowRecvFact, ShowHoldCommand, ShowQueryRevision, ShowQueryDrain
<1> QED
  BY <1>3, <1>4, <1>5, <1>6, <1>7, <1>8 DEF Move, ShowStep

LEMMA CarriesStep ==
  ASSUME SessionInv, ShowCarries, SoundMove \/ UNCHANGED vars
  PROVE  ShowCarries'
<1>1. Typed /\ DocumentInv /\ NoRev \in Worthy
  BY NoRevWorthy DEF SessionInv
<1>2. CASE UNCHANGED vars
  BY <1>2 DEF vars, ShowCarries, RequestSound, Sound, Worthy, Submitted, Kept,
         LoadedFrom
<1>3. CASE SoundMove
  <2>1. Move
    BY <1>3 DEF SoundMove, SoundSends, Move, Sends
  <2>2. Worthy \subseteq Worthy' /\ NoRev \in Worthy'
    BY <1>1, <2>1, BacksStep
  <2>3. \A x : (Sound(x) => Sound(x)') /\ (RequestSound(x) => RequestSound(x)')
    BY <2>2 DEF Sound, RequestSound
  <2>4. ASSUME NEW i \in DOMAIN inbox'
        PROVE  inbox'[i].rev \in Worthy' /\ (inbox'[i].kind = "document" => inbox'[i].rev = NoRev)
    <3>1. CASE \E j \in DOMAIN inbox : inbox'[i] = inbox[j]
      BY <2>2, <3>1 DEF ShowCarries, RequestSound
    <3>2. CASE /\ pending # None /\ inbox'[i].rev = pending.rev
               /\ inbox'[i].kind = "document" => pending.kind = "save"
      BY <2>2, <3>2 DEF ShowCarries, Sound, Replacing
    <3> QED
      BY <1>1, <2>1, <3>1, <3>2, InboxFlow
  <2>5. ASSUME pending' # None PROVE Sound(pending)'
    <3>1. \/ /\ pending # None
             /\ pending'.rev = pending.rev /\ pending'.kind = pending.kind
          \/ \E command \in Submitted :
                pending'.rev = command.rev /\ pending'.kind = command.kind
      BY <1>1, <2>1, <2>5, PendingFlow
    <3> QED
      BY <2>2, <3>1 DEF ShowCarries, Sound
  <2>6. ASSUME NEW x \in Submitted' PROVE Sound(x)'
    <3>1. CASE SoundSends
      <4>1. PICK c \in Clients, command \in Commands : Sound(command) /\ Send(c, command)
        BY <3>1 DEF SoundSends
      <4> QED
        BY <1>1, <2>3, <2>6, <4>1, SendFlow DEF ShowCarries
    <3>2. CASE ~SoundSends
      BY <1>1, <1>3, <2>3, <2>6, <3>2, QueueFlow DEF SoundMove, ShowCarries
    <3> QED
      BY <3>1, <3>2
  <2>7. ASSUME NEW c \in Clients, ~client'[c].dirty PROVE client'[c].rev \in Worthy'
    <3>1. CASE client'[c] = client[c]
      BY <2>2, <2>7, <3>1 DEF ShowCarries
    <3>2. CASE /\ query # None /\ query.drained
               /\ client'[c].dirty = dirty /\ client'[c].rev = query.rev
      <4>1. query.rev \in Revisions /\ query.rev <= revision
        BY <1>1, <3>2 DEF Typed, QueryOK, DocumentInv, QueryTrue
      <4>2. query.rev = revision => Kept(content)
        BY <1>1, <2>7, <3>2 DEF DocumentInv, QueryTrue
      <4>3. query.rev \in Worthy
        BY <4>1, <4>2 DEF Worthy
      <4> QED
        BY <2>2, <3>2, <4>3
    <3> QED
      BY <1>1, <2>1, <2>2, <3>1, <3>2, ClientFlow
  <2> QED
    BY <2>4, <2>5, <2>6, <2>7 DEF ShowCarries, RequestSound
<1> QED
  BY <1>2, <1>3
-----------------------------------------------------------------------------
(* SessionGuard: the window and its lane *)

\* The jobs the window submits: those that go to a file name it, and only
\* replacements carry a revision.
Errands ==
    {job \in Jobs :
        /\ job.kind \in {"template", "open", "saveas"} => job.path # NoPath
        /\ job.kind \in {"edit", "lockout", "query", "new"} => job.path = NoPath
        /\ job.kind \notin Replacing => job.rev = NoRev}
Pickers == [action : Actions \cap {"template", "open"}, rev : Revisions \cup {NoRev}]

LaneOK == /\ lane \in Seq(Errands) /\ running \in BOOLEAN /\ nextId \in 0 .. MaxJobs
          /\ running => lane # <<>>
EventsOK == events \in Seq(Events)
WindowOK == epoch \in 0 .. MaxSubmits /\ used \in 0 .. MaxRequests
GuardOK == guard \in Pending \cup {None}
PickersOK == pickers \subseteq Pickers
RestartOK == /\ restart \in [rev : Revisions \cup {NoRev}, epoch : 0 .. MaxSubmits] \cup {None}
             /\ restart # None => "restart" \in Actions
AppOK == app \in {"running", "quit", "discarded"}
GuardShape ==
    LaneOK /\ EventsOK /\ WindowOK /\ GuardOK /\ PickersOK /\ RestartOK /\ AppOK

\* Whatever revision the window or its lane carries is worth something.
EventWorthy(event) == ~event.dirty => event.rev \in Worthy
GuardCarries ==
    /\ \A i \in DOMAIN lane : lane[i].rev \in Worthy
    /\ \A i \in DOMAIN events : EventWorthy(events[i])
    /\ \A picker \in pickers : picker.rev \in Worthy
    /\ restart # None => restart.rev \in Worthy

\* No edit is submitted and not yet handled.
NoEdits == \A i \in DOMAIN lane : lane[i].kind # "edit"

\* The submission epoch of a job is current only while no edit stands behind it;
\* so nothing the window knows from a query of the current epoch misses an edit.
EventCurrent(event) == event.epoch <= epoch /\ (event.epoch = epoch => NoEdits)
EpochTrue ==
    /\ \A i \in DOMAIN lane :
          /\ lane[i].epoch <= epoch
          /\ lane[i].epoch = epoch => \A j \in DOMAIN lane : i < j => lane[j].kind # "edit"
    /\ \A i \in DOMAIN events : EventCurrent(events[i])
    /\ restart # None =>
          /\ restart.epoch <= epoch
          /\ restart.rev # NoRev /\ restart.epoch = epoch => NoEdits

GuardInv == GuardShape /\ ShowCarries /\ GuardCarries /\ EpochTrue

LEMMA GuardShapes == SessionInv /\ GuardInv => GuardTypeOK
<1> SUFFICES ASSUME GuardInv PROVE GuardTypeOK
  OBVIOUS
<1>1. lane \in Seq(Jobs)
  <2>1. Errands \subseteq Jobs
    BY DEF Errands
  <2> QED
    BY <2>1 DEF GuardInv, GuardShape, LaneOK
<1>2. pickers \subseteq [action : Actions, rev : Revisions \cup {NoRev}]
  BY DEF GuardInv, GuardShape, PickersOK, Pickers
<1> QED
  BY <1>1, <1>2
     DEF GuardInv, GuardShape, LaneOK, EventsOK, WindowOK, GuardOK, RestartOK, AppOK, GuardTypeOK

\* A job, as the window makes it.
LEMMA JobMade ==
  ASSUME GuardShape, nextId < MaxJobs, NEW kind \in JobKinds, NEW p \in Paths \cup {NoPath},
         NEW rev \in Revisions \cup {NoRev},
         kind \in {"template", "open", "saveas"} => p # NoPath,
         kind \in {"edit", "lockout", "query", "new"} => p = NoPath,
         kind \notin Replacing => rev = NoRev
  PROVE  /\ Job(kind, p, rev) \in Errands /\ nextId + 1 \in 1 .. MaxJobs
         /\ Job(kind, p, rev).kind = kind /\ Job(kind, p, rev).rev = rev
         /\ Job(kind, p, rev).epoch = epoch
<1>1. nextId + 1 \in 1 .. MaxJobs /\ epoch \in 0 .. MaxSubmits
  BY GuardAssumption DEF GuardShape, LaneOK, WindowOK
<1> QED
  BY <1>1 DEF Job, Errands, Jobs

-----------------------------------------------------------------------------
(* What the guard's steps do to the lane *)

LaneFrame == UNCHANGED <<lane, nextId, epoch>> /\ running' \in BOOLEAN /\ (running' => lane # <<>>)

\* A job that is no edit is put into the lane, in the epoch that does not change.
LaneGrows ==
    /\ UNCHANGED <<running, epoch>> /\ nextId' = nextId + 1 /\ nextId' \in 0 .. MaxJobs
    /\ \E job \in Errands :
          /\ lane' = Append(lane, job)
          /\ job.kind # "edit" /\ job.epoch = epoch /\ job.rev \in Worthy
LaneRests == LaneFrame \/ LaneGrows
LaneShrinks == /\ lane # <<>> /\ lane' = Tail(lane) /\ running' = FALSE
               /\ UNCHANGED <<nextId, epoch>>

LEMMA LaneRest ==
  ASSUME GuardShape, GuardCarries, EpochTrue, LaneRests, Worthy \subseteq Worthy'
  PROVE  /\ LaneOK' /\ (NoEdits => NoEdits') /\ epoch' = epoch
         /\ \A i \in DOMAIN lane' :
               /\ lane'[i].rev \in Worthy' /\ lane'[i].epoch <= epoch
               /\ lane'[i].epoch = epoch => \A j \in DOMAIN lane' : i < j => lane'[j].kind # "edit"
<1>1. CASE LaneFrame
  BY <1>1 DEF LaneFrame, GuardShape, LaneOK, GuardCarries, EpochTrue, NoEdits
<1>2. CASE LaneGrows
  <2>1. PICK job \in Errands :
          /\ lane' = Append(lane, job)
          /\ job.kind # "edit" /\ job.epoch = epoch /\ job.rev \in Worthy
    BY <1>2 DEF LaneGrows
  <2>2. lane \in Seq(Errands) /\ epoch \in Nat
    BY DEF GuardShape, LaneOK, WindowOK
  <2>3. lane' \in Seq(Errands)
    BY <2>1, <2>2, AppendProperties
  <2>4. ASSUME NEW i \in DOMAIN lane'
        PROVE  \/ i \in DOMAIN lane /\ lane'[i] = lane[i]
               \/ i = Len(lane) + 1 /\ lane'[i] = job
    BY <2>1, <2>2, Appended
  <2>5. \A i \in DOMAIN lane : i \in 1 .. Len(lane)
    BY <2>2, LenProperties
  <2>6. \A i \in DOMAIN lane' : lane'[i].rev \in Worthy' /\ lane'[i].epoch <= epoch
    BY <2>1, <2>2, <2>4 DEF GuardCarries, EpochTrue
  <2>7. ASSUME NEW i \in DOMAIN lane', lane'[i].epoch = epoch, NEW j \in DOMAIN lane', i < j
        PROVE  lane'[j].kind # "edit"
    <3>1. CASE lane'[j] = job
      BY <2>1, <3>1
    <3>2. CASE j \in DOMAIN lane /\ lane'[j] = lane[j]
      <4>1. i \in DOMAIN lane /\ lane'[i] = lane[i]
        BY <2>2, <2>4, <2>5, <2>7, <3>2
      <4> QED
        BY <2>7, <3>2, <4>1 DEF EpochTrue
    <3> QED
      BY <2>4, <3>1, <3>2
  <2>8. NoEdits => NoEdits'
    BY <2>1, <2>4 DEF NoEdits
  <2>9. LaneOK'
    <3>1. lane' # <<>>
      BY <2>1, <2>2, AppendProperties
    <3> QED
      BY <1>2, <2>3, <3>1 DEF LaneGrows, LaneOK, GuardShape
  <2> QED
    BY <1>2, <2>6, <2>7, <2>8, <2>9 DEF LaneGrows
<1> QED
  BY <1>1, <1>2 DEF LaneRests

LEMMA LaneShrink ==
  ASSUME GuardShape, GuardCarries, EpochTrue, LaneShrinks, Worthy \subseteq Worthy'
  PROVE  /\ LaneOK' /\ (NoEdits => NoEdits') /\ epoch' = epoch
         /\ \A i \in DOMAIN lane' :
               /\ lane'[i].rev \in Worthy' /\ lane'[i].epoch <= epoch
               /\ lane'[i].epoch = epoch => \A j \in DOMAIN lane' : i < j => lane'[j].kind # "edit"
         /\ Head(lane) \in Errands /\ Head(lane).rev \in Worthy /\ Head(lane).epoch <= epoch
         /\ Head(lane).epoch = epoch => NoEdits'
<1>1. lane \in Seq(Errands) /\ lane # <<>> /\ lane' = Tail(lane) /\ epoch' = epoch
  BY DEF LaneShrinks, GuardShape, LaneOK
<1>2. /\ Head(lane) \in Errands /\ lane' \in Seq(Errands) /\ Head(lane) = lane[1] /\ 1 \in DOMAIN lane
      /\ \A i \in DOMAIN lane' : i + 1 \in DOMAIN lane /\ lane'[i] = lane[i + 1]
  BY <1>1, Heads
<1>3. \A i \in DOMAIN lane' : i \in Nat /\ 1 < i + 1
  BY <1>2, LenProperties
<1>4. \A i \in DOMAIN lane' : lane'[i].rev \in Worthy' /\ lane'[i].epoch <= epoch
  BY <1>2 DEF GuardCarries, EpochTrue
<1>5. ASSUME NEW i \in DOMAIN lane', lane'[i].epoch = epoch, NEW j \in DOMAIN lane', i < j
      PROVE  lane'[j].kind # "edit"
  <2>1. i + 1 \in DOMAIN lane /\ j + 1 \in DOMAIN lane /\ i + 1 < j + 1
    BY <1>2, <1>3, <1>5
  <2> QED
    BY <1>2, <1>5, <2>1 DEF EpochTrue
<1>6. Head(lane).rev \in Worthy /\ Head(lane).epoch <= epoch
  BY <1>2 DEF GuardCarries, EpochTrue
<1>7. Head(lane).epoch = epoch => NoEdits'
  BY <1>2, <1>3 DEF EpochTrue, NoEdits
<1>8. NoEdits => NoEdits'
  BY <1>2 DEF NoEdits
<1>9. LaneOK'
  BY <1>2 DEF LaneShrinks, LaneOK, GuardShape
<1> QED
  BY <1>1, <1>2, <1>4, <1>5, <1>6, <1>7, <1>8, <1>9
-----------------------------------------------------------------------------
(* What the guard's steps do to the rest *)

EventsRest == events' = events \/ (events # <<>> /\ events' = Tail(events))
PickersRest == \A picker \in pickers' : picker \in pickers
                                        \/ (picker \in Pickers /\ picker.rev \in Worthy)
RestartRest ==
    \/ restart' \in {restart, None}
    \/ /\ restart' \in [rev : Revisions \cup {NoRev}, epoch : 0 .. MaxSubmits]
       /\ restart'.rev \in Worthy /\ restart'.epoch = epoch /\ "restart" \in Actions
       /\ restart'.rev # NoRev => NoEdits

\* A step in which the lane's work does not advance.
LEMMA GuardRest ==
  ASSUME GuardInv, ShowCarries', Worthy \subseteq Worthy', LaneRests, EventsRest, PickersRest,
         RestartRest, WindowOK', GuardOK', AppOK'
  PROVE  GuardInv'
<1>1. /\ GuardShape /\ GuardCarries /\ EpochTrue
      /\ epoch \in Nat
  BY DEF GuardInv, GuardShape, WindowOK
<1>2. /\ LaneOK' /\ (NoEdits => NoEdits') /\ epoch' = epoch
      /\ \A i \in DOMAIN lane' :
            /\ lane'[i].rev \in Worthy' /\ lane'[i].epoch <= epoch
            /\ lane'[i].epoch = epoch => \A j \in DOMAIN lane' : i < j => lane'[j].kind # "edit"
  BY <1>1, LaneRest
<1>3. EventsOK' /\ \A i \in DOMAIN events' : \E j \in DOMAIN events : events'[i] = events[j]
  <2>1. events \in Seq(Events)
    BY <1>1 DEF GuardShape, EventsOK
  <2> QED
    BY <2>1, Heads DEF EventsRest, EventsOK
<1>4. \A i \in DOMAIN events' :
         /\ ~events'[i].dirty => events'[i].rev \in Worthy'
         /\ events'[i].epoch <= epoch /\ (events'[i].epoch = epoch => NoEdits')
  BY <1>1, <1>2, <1>3 DEF GuardCarries, EpochTrue, EventWorthy, EventCurrent
<1>5. PickersOK' /\ \A picker \in pickers' : picker.rev \in Worthy'
  BY <1>1 DEF GuardShape, PickersOK, GuardCarries, PickersRest
<1>6. RestartOK' /\ (restart' # None => /\ restart'.rev \in Worthy' /\ restart'.epoch <= epoch
                                        /\ restart'.rev # NoRev /\ restart'.epoch = epoch => NoEdits')
  BY <1>1, <1>2 DEF GuardShape, RestartOK, GuardCarries, EpochTrue, RestartRest
<1>7. GuardShape'
  BY <1>2, <1>3, <1>5, <1>6 DEF GuardShape
<1>8. GuardCarries'
  BY <1>2, <1>4, <1>5, <1>6 DEF GuardCarries, EventWorthy
<1>9. EpochTrue'
  BY <1>2, <1>4, <1>6 DEF EpochTrue, EventCurrent
<1> QED
  BY <1>7, <1>8, <1>9 DEF GuardInv

\* The job at the head is done, and may have something to report.
LEMMA GuardShrink ==
  ASSUME GuardInv, ShowCarries', Worthy \subseteq Worthy', LaneShrinks,
         UNCHANGED <<guard, pickers, restart, app, used>>,
         \/ events' = events
         \/ \E event \in Events : /\ events' = Append(events, event) /\ EventWorthy(event)
                                  /\ event.epoch = Head(lane).epoch
  PROVE  GuardInv'
<1>1. /\ GuardShape /\ GuardCarries /\ EpochTrue
      /\ epoch \in Nat
  BY DEF GuardInv, GuardShape, WindowOK
<1>2. /\ LaneOK' /\ (NoEdits => NoEdits') /\ epoch' = epoch
      /\ \A i \in DOMAIN lane' :
            /\ lane'[i].rev \in Worthy' /\ lane'[i].epoch <= epoch
            /\ lane'[i].epoch = epoch => \A j \in DOMAIN lane' : i < j => lane'[j].kind # "edit"
      /\ Head(lane).epoch <= epoch /\ (Head(lane).epoch = epoch => NoEdits')
  BY <1>1, LaneShrink
<1>3. EventsOK' /\ \A i \in DOMAIN events' :
         /\ ~events'[i].dirty => events'[i].rev \in Worthy'
         /\ events'[i].epoch <= epoch /\ (events'[i].epoch = epoch => NoEdits')
  <2>1. events \in Seq(Events)
    BY <1>1 DEF GuardShape, EventsOK
  <2>2. \A i \in DOMAIN events :
           /\ ~events[i].dirty => events[i].rev \in Worthy'
           /\ events[i].epoch <= epoch /\ (events[i].epoch = epoch => NoEdits')
    BY <1>1, <1>2 DEF GuardCarries, EpochTrue, EventWorthy, EventCurrent
  <2>3. CASE events' = events
    BY <2>1, <2>2, <2>3 DEF EventsOK
  <2>4. ASSUME NEW event \in Events, events' = Append(events, event), EventWorthy(event),
               event.epoch = Head(lane).epoch
        PROVE  EventsOK' /\ \A i \in DOMAIN events' :
                  /\ ~events'[i].dirty => events'[i].rev \in Worthy'
                  /\ events'[i].epoch <= epoch /\ (events'[i].epoch = epoch => NoEdits')
    <3>1. ASSUME NEW i \in DOMAIN events'
          PROVE  (i \in DOMAIN events /\ events'[i] = events[i]) \/ events'[i] = event
      BY <2>1, <2>4, Appended
    <3>2. ~event.dirty => event.rev \in Worthy'
      BY <2>4 DEF EventWorthy
    <3>3. event.epoch <= epoch /\ (event.epoch = epoch => NoEdits')
      BY <1>2, <2>4
    <3>4. EventsOK'
      BY <2>1, <2>4, AppendProperties DEF EventsOK
    <3> QED
      BY <2>2, <3>1, <3>2, <3>3, <3>4
  <2> QED
    BY <2>3, <2>4
<1>4. GuardShape'
  BY <1>1, <1>2, <1>3 DEF GuardShape, WindowOK, GuardOK, PickersOK, RestartOK, AppOK
<1>5. GuardCarries'
  BY <1>1, <1>2, <1>3 DEF GuardCarries, EventWorthy
<1>6. EpochTrue'
  BY <1>1, <1>2, <1>3 DEF EpochTrue, EventCurrent
<1> QED
  BY <1>4, <1>5, <1>6 DEF GuardInv

\* An edit is submitted: every epoch known so far is past.
LEMMA GuardSubmit ==
  ASSUME Typed, GuardInv, NEW kind \in {"edit", "lockout"}, SubmitEdit(kind)
  PROVE  GuardInv'
<1>1. /\ GuardShape /\ ShowCarries /\ GuardCarries /\ EpochTrue
      /\ epoch \in Nat /\ nextId < MaxJobs /\ NoRev \in Worthy
      /\ lane \in Seq(Errands)
  BY NoRevWorthy DEF GuardInv, GuardShape, WindowOK, LaneOK, SubmitEdit, Enqueue
<1>2. epoch' = epoch + 1 /\ epoch' \in 0 .. MaxSubmits
  BY GuardAssumption, <1>1 DEF SubmitEdit
<1>3. PICK job \in Errands :
        /\ lane' = Append(lane, job) /\ job.epoch = epoch /\ job.rev = NoRev
        /\ nextId' = nextId + 1 /\ nextId + 1 \in 1 .. MaxJobs
  <2>1. kind \in JobKinds /\ kind \notin {"template", "open", "saveas"}
    BY DEF JobKinds
  <2> QED
    BY <1>1, <2>1, JobMade DEF SubmitEdit, Enqueue
<1>4. UNCHANGED <<vars, running, events, guard, pickers, restart, app, used>>
  BY DEF SubmitEdit
<1>5. Worthy' = Worthy /\ ShowCarries'
  BY <1>1, <1>4 DEF vars, ShowCarries, RequestSound, Sound, Worthy, Submitted, Kept,
         LoadedFrom
<1>6. ASSUME NEW i \in DOMAIN lane'
      PROVE  lane'[i].rev \in Worthy /\ lane'[i].epoch < epoch'
  <2>1. (i \in DOMAIN lane /\ lane'[i] = lane[i]) \/ lane'[i] = job
    BY <1>1, <1>3, Appended
  <2>2. \A j \in DOMAIN lane : lane[j].epoch \in Nat
    BY <1>1 DEF Errands, Jobs
  <2> QED
    BY <1>1, <1>2, <1>3, <2>1, <2>2 DEF GuardCarries, EpochTrue
<1>7. GuardShape'
  <2>1. lane' \in Seq(Errands) /\ lane' # <<>>
    BY <1>1, <1>3, AppendProperties
  <2> QED
    BY <1>1, <1>2, <1>3, <1>4, <2>1
       DEF GuardShape, LaneOK, EventsOK, WindowOK, GuardOK, PickersOK, RestartOK, AppOK
<1>8. GuardCarries'
  BY <1>1, <1>4, <1>5, <1>6 DEF GuardCarries, EventWorthy
<1>9. EpochTrue'
  <2>1. \A i \in DOMAIN lane' : lane'[i].epoch <= epoch' /\ lane'[i].epoch # epoch'
    <3>1. \A i \in DOMAIN lane' : lane'[i].epoch \in Nat
      BY <1>7 DEF GuardShape, LaneOK, Errands, Jobs
    <3> QED
      BY <1>1, <1>2, <1>6, <3>1
  <2>2. \A i \in DOMAIN events' : events'[i].epoch <= epoch' /\ events'[i].epoch # epoch'
    <3>1. \A i \in DOMAIN events : events[i] \in Events
      BY <1>1 DEF GuardShape, EventsOK
    <3>2. \A event \in Events : event.epoch \in Nat
      BY DEF Events
    <3> QED
      BY <1>1, <1>2, <1>4, <3>1, <3>2 DEF EpochTrue, EventCurrent
  <2>3. restart' # None => restart'.epoch <= epoch' /\ restart'.epoch # epoch'
    <3>1. restart # None => restart.epoch \in Nat
      BY <1>1 DEF GuardShape, RestartOK
    <3> QED
      BY <1>1, <1>2, <1>4, <3>1 DEF EpochTrue
  <2> QED
    BY <2>1, <2>2, <2>3 DEF EpochTrue, EventCurrent
<1> QED
  BY <1>5, <1>7, <1>8, <1>9 DEF GuardInv
-----------------------------------------------------------------------------
(* The steps of the lane and of the window *)

LEMMA EnqueueGrows ==
  ASSUME GuardShape, NEW kind \in JobKinds \ {"edit"}, NEW p \in Paths \cup {NoPath},
         NEW rev \in Worthy,
         kind \in {"template", "open", "saveas"} => p # NoPath,
         kind \in {"lockout", "query", "new"} => p = NoPath,
         kind \notin Replacing => rev = NoRev,
         Enqueue(Job(kind, p, rev)), UNCHANGED <<running, epoch>>
  PROVE  LaneGrows
<1>1. nextId < MaxJobs /\ nextId' = nextId + 1 /\ lane' = Append(lane, Job(kind, p, rev))
  BY DEF Enqueue
<1>2. /\ Job(kind, p, rev) \in Errands /\ nextId + 1 \in 1 .. MaxJobs
      /\ Job(kind, p, rev).kind = kind /\ Job(kind, p, rev).rev = rev
      /\ Job(kind, p, rev).epoch = epoch
  <2>1. rev \in Revisions \cup {NoRev}
    BY DEF Worthy
  <2> QED
    BY <1>1, <2>1, JobMade
<1> QED
  BY <1>1, <1>2 DEF LaneGrows

LEMMA QueryGrows ==
  ASSUME Typed, GuardShape, NEW action \in Actions, NEW phase \in {"preflight", "postsave"},
         Query(action, phase), UNCHANGED <<running, epoch>>
  PROVE  LaneGrows /\ GuardOK'
<1>1. NoRev \in Worthy
  BY NoRevWorthy
<1>2. LaneGrows
  BY <1>1, EnqueueGrows DEF Query, JobKinds, Replacing
<1>3. nextId + 1 \in 1 .. MaxJobs
  BY GuardAssumption DEF GuardShape, LaneOK, Query, Enqueue
<1> QED
  BY <1>2, <1>3 DEF Query, GuardOK, Pending

LEMMA SaveGrows ==
  ASSUME Typed, GuardShape, guard # None, NEW p \in Paths \cup {NoPath}, Save(p),
         UNCHANGED <<running, epoch>>
  PROVE  LaneGrows /\ GuardOK'
<1>1. NoRev \in Worthy
  BY NoRevWorthy
<1>2. LaneGrows
  BY <1>1, EnqueueGrows DEF Save, JobKinds, Replacing
<1>3. nextId + 1 \in 1 .. MaxJobs
  BY GuardAssumption DEF GuardShape, LaneOK, Save, Enqueue
<1>4. guard \in Pending
  BY DEF GuardShape, GuardOK
<1> QED
  BY <1>2, <1>3, <1>4 DEF Save, GuardOK, Pending

\* An admitted action: with a revision only if no edit is waiting; what quits
\* with one loses nothing.
LEMMA ContinueRest ==
  ASSUME Typed, GuardShape, NEW action \in Actions, NEW rev \in Worthy, rev # NoRev => NoEdits,
         Continue(action, rev), UNCHANGED <<running, epoch>>, app = "running"
  PROVE  /\ LaneRests /\ PickersRest /\ RestartRest /\ GuardOK' /\ AppOK'
         /\ app' = "quit" => Kept(content) /\ NoEdits
<1>1. rev \in Revisions \cup {NoRev} /\ (rev = revision => Kept(content))
  BY DEF Worthy
<1>2. LaneOK /\ GuardOK /\ RestartOK /\ AppOK /\ epoch \in 0 .. MaxSubmits
  BY DEF GuardShape, WindowOK
<1> USE DEF LaneRests, PickersRest, RestartRest, AppOK
<1>3. UNCHANGED <<lane, nextId>> => LaneFrame
  BY <1>2 DEF LaneFrame, LaneOK
<1>4. guard' = None => GuardOK'
  BY DEF GuardOK
<1>5. CASE /\ action = "new" /\ Enqueue(Job("new", NoPath, rev)) /\ guard' = None
           /\ UNCHANGED <<pickers, restart, app>>
  <2>1. LaneGrows
    BY <1>5, EnqueueGrows DEF JobKinds, Replacing
  <2> QED
    BY <1>4, <1>5, <2>1
<1>6. CASE /\ action \in {"template", "open"} /\ guard' = None
           /\ pickers' = pickers \cup {[action |-> action, rev |-> rev]}
           /\ UNCHANGED <<lane, nextId, restart, app>>
  <2>1. [action |-> action, rev |-> rev] \in Pickers
    BY <1>1, <1>6 DEF Pickers
  <2> QED
    BY <1>3, <1>4, <1>6, <2>1
<1>7. CASE action = "quit" /\ UNCHANGED <<pickers, restart>>
  <2>1. CASE rev = NoRev
    BY <1>3, <1>4, <1>7, <2>1 DEF Continue
  <2>2. CASE rev # NoRev /\ rev = revision
    BY <1>1, <1>3, <1>4, <1>7, <2>2 DEF Continue, AdmitsQuit
  <2>3. CASE rev # NoRev /\ rev # revision
    <3>1. Query("quit", "preflight") /\ app' = app
      BY <1>7, <2>3 DEF Continue, AdmitsQuit
    <3> QED
      BY <1>7, <3>1, QueryGrows
  <2> QED
    BY <2>1, <2>2, <2>3
<1>8. CASE action = "restart" /\ AwaitDisconnect(rev) /\ guard' = None
           /\ UNCHANGED <<lane, nextId, pickers, app>>
  BY <1>1, <1>2, <1>3, <1>4, <1>8 DEF AwaitDisconnect
<1> QED
  BY <1>5, <1>6, <1>7, <1>8 DEF Continue

\* What the lane hands to Show is a command worth its revision.
LEMMA LaneSends ==
  ASSUME Typed, GuardInv, LaneSend
  PROVE  SoundSends
<1> DEFINE job == Head(lane)
           command == [from |-> Lane, kind |-> CommandOf(job), path |-> Destination(job),
                       rev |-> job.rev, on |-> job.kind = "lockout" /\ ~lockout]
<1>1. lane \in Seq(Errands) /\ lane # <<>> /\ path \in Paths \cup {NoPath}
  BY DEF GuardInv, GuardShape, LaneOK, LaneSend, Typed, MetaOK
<1>2. job \in Errands /\ job = lane[1] /\ 1 \in DOMAIN lane
  BY <1>1, Heads
<1>3. job.rev \in Worthy /\ job.kind # "edit" /\ HasDestination(job) /\ Send(Lane, command)
  BY <1>2 DEF GuardInv, GuardCarries, LaneSend
<1>4. /\ job.kind \in JobKinds /\ job.path \in Paths \cup {NoPath}
      /\ job.rev \in Revisions \cup {NoRev}
      /\ job.kind \in {"template", "open", "saveas"} => job.path # NoPath
      /\ job.kind \in {"edit", "lockout", "query", "new"} => job.path = NoPath
      /\ job.kind \notin Replacing => job.rev = NoRev
  BY <1>2 DEF Errands, Jobs
<1> HIDE DEF job
<1>5. CommandOf(job) \in CommandKinds /\ (CommandOf(job) \in Replacing <=> job.kind \in Replacing)
  BY <1>3, <1>4 DEF CommandOf, CommandKinds, OpKinds, Replacing, JobKinds
<1>6. /\ Destination(job) \in Paths \cup {NoPath}
      /\ CommandOf(job) \in Naming <=> Destination(job) # NoPath
  BY <1>1, <1>3, <1>4, SessionAssumption
     DEF Destination, HasDestination, CommandOf, Naming, JobKinds
<1>7. (job.kind = "lockout" /\ ~lockout) = TRUE \/ (job.kind = "lockout" /\ ~lockout) = FALSE
  BY SMT
<1>8. PICK on \in BOOLEAN : on = (job.kind = "lockout" /\ ~lockout)
  BY <1>7, Zenon
<1>9. command = [from |-> Lane, kind |-> CommandOf(job), path |-> Destination(job),
                 rev |-> job.rev, on |-> on]
  BY <1>8, Zenon
<1>10. command \in Commands
  BY <1>4, <1>5, <1>6, <1>9, GuardAssumption DEF Commands, Named
<1>11. Sound(command)
  BY <1>3, <1>4, <1>5 DEF Sound
<1> QED
  BY <1>3, <1>10, <1>11, GuardAssumption DEF SoundSends
-----------------------------------------------------------------------------
(* Every step of the guard keeps the invariant *)

\* The window leaves Show alone; its lane and LV1 act on Show as clients do.
LEMMA GuardMoves ==
  ASSUME Typed, GuardInv, GuardNext
  PROVE  SoundMove \/ UNCHANGED vars
<1>1. NoRev \in Worthy
  BY NoRevWorthy
<1>2. CASE Discovery
  <2>1. PICK c \in Clients :
          Send(c, [from |-> c, kind |-> "discovery", path |-> NoPath, rev |-> NoRev, on |-> FALSE])
    BY <1>2 DEF Discovery
  <2>2. [from |-> c, kind |-> "discovery", path |-> NoPath, rev |-> NoRev, on |-> FALSE] \in Commands
    BY DEF Commands, Named, Naming, CommandKinds
  <2> QED
    BY <1>1, <2>1, <2>2 DEF SoundMove, SoundSends, Sound
<1>3. CASE LaneEdit
  <2>1. PICK accepted \in (IF edits < MaxEdits THEN BOOLEAN ELSE {FALSE}) : Publish(accepted)
    BY <1>3 DEF LaneEdit
  <2>2. CASE accepted
    <3>1. ScenesEdit
      BY <1>3, <2>1, <2>2 DEF LaneEdit, ScenesEdit, Publish
    <3> QED
      BY <3>1 DEF SoundMove, Environment
  <2>3. CASE ~accepted
    BY <1>3, <2>1, <2>3 DEF LaneEdit, Publish, vars
  <2> QED
    BY <2>2, <2>3
<1>4. CASE LaneSend
  BY <1>4, LaneSends DEF SoundMove
<1>5. CASE Disconnected
  <2>1. connected \in BOOLEAN
    BY DEF Typed, Lv1OK
  <2>2. CASE connected
    <3>1. Lv1Lost
      BY <1>5, <2>2 DEF Disconnected, Lv1Lost
    <3> QED
      BY <3>1 DEF SoundMove, Environment
  <2>3. CASE ~connected
    BY <1>5, <2>1, <2>3 DEF Disconnected, vars
  <2> QED
    BY <2>2, <2>3
<1>6. CASE LaneNoDestination \/ LaneFinish \/ WindowStep
  BY <1>6 DEF LaneNoDestination, LaneFinish, WindowStep, QueryFinished, CommandFinished
<1>7. CASE UserStep
  BY <1>7 DEF UserStep, SubmitEdit, Request, RequestSave, Choose, ChooseDestination, Pick
<1> QED
  BY <1>2, <1>3, <1>4, <1>5, <1>6, <1>7 DEF GuardNext, SessionStep, SoundMove, LaneStep

LEMMA FramedRest ==
  ASSUME GuardInv
  PROVE  /\ UNCHANGED <<lane, nextId, epoch>> /\ running' = TRUE /\ lane # <<>> => LaneRests
         /\ UNCHANGED <<lane, running, nextId, epoch>> => LaneRests
         /\ UNCHANGED pickers => PickersRest
         /\ UNCHANGED restart => RestartRest
         /\ UNCHANGED <<epoch, used>> => WindowOK'
         /\ UNCHANGED guard => GuardOK'
         /\ guard' = None => GuardOK'
         /\ UNCHANGED app => AppOK'
         /\ events # <<>> => Head(events) \in Events /\ EventWorthy(Head(events))
                             /\ EventCurrent(Head(events))
<1>1. GuardShape /\ GuardCarries /\ EpochTrue
  BY DEF GuardInv
<1>2. LaneOK /\ EventsOK /\ WindowOK /\ GuardOK /\ AppOK
  BY <1>1 DEF GuardShape
<1>3. /\ UNCHANGED <<lane, nextId, epoch>> /\ running' = TRUE /\ lane # <<>> => LaneRests
      /\ UNCHANGED <<lane, running, nextId, epoch>> => LaneRests
  <2>1. running \in BOOLEAN /\ (running => lane # <<>>)
    BY <1>2 DEF LaneOK
  <2>2. ASSUME running' = running PROVE running' \in BOOLEAN /\ (running' => lane # <<>>)
    <3>1. running = TRUE \/ running = FALSE
      BY <2>1
    <3>2. CASE running = TRUE
      BY <2>1, <2>2, <3>2
    <3>3. CASE running = FALSE
      BY <2>2, <3>3
    <3> QED
      BY <3>1, <3>2, <3>3
  <2> QED
    BY <2>2, Zenon DEF LaneRests, LaneFrame
<1>4. /\ UNCHANGED pickers => PickersRest
      /\ UNCHANGED restart => RestartRest
  BY DEF PickersRest, RestartRest
<1>5. /\ UNCHANGED <<epoch, used>> => WindowOK'
      /\ UNCHANGED guard => GuardOK'
      /\ guard' = None => GuardOK'
      /\ UNCHANGED app => AppOK'
  BY <1>2 DEF WindowOK, GuardOK, AppOK
<1>6. events # <<>> => Head(events) \in Events /\ EventWorthy(Head(events))
                       /\ EventCurrent(Head(events))
  BY <1>1, <1>2, Heads DEF GuardCarries, EpochTrue, EventsOK
<1> QED
  BY <1>3, <1>4, <1>5, <1>6

LEMMA LaneKeeps ==
  ASSUME SessionInv, GuardInv, ShowCarries', Worthy \subseteq Worthy', LaneStep
  PROVE  GuardInv'
<1>1. /\ Typed /\ GuardShape /\ lane \in Seq(Errands)
  BY DEF SessionInv, GuardInv, GuardShape, LaneOK
<1>2. CASE LaneSend
  <2>1. /\ UNCHANGED <<lane, events, epoch, nextId, guard, pickers, restart, app, used>>
        /\ running' = TRUE /\ lane # <<>>
    BY <1>2 DEF LaneSend
  <2> QED
    BY <2>1, FramedRest, GuardRest DEF EventsRest
<1>3. CASE LaneEdit
  <2>1. LaneShrinks /\ events' = events /\ UNCHANGED <<guard, pickers, restart, app, used>>
    BY <1>1, <1>3 DEF LaneEdit, LaneShrinks, GuardShape, LaneOK
  <2> QED
    BY <2>1, GuardShrink
<1>4. ASSUME lane # <<>>, NEW kind \in {"query", "finished"}, NEW ok \in BOOLEAN,
             NEW answer, answer.dirty \in BOOLEAN, answer.rev \in Revisions \cup {NoRev},
             ~answer.dirty => answer.rev \in Worthy
      PROVE  /\ Report(kind, ok, answer) \in Events /\ EventWorthy(Report(kind, ok, answer))
             /\ Report(kind, ok, answer).epoch = Head(lane).epoch
  <2>1. Head(lane) \in Errands
    BY <1>1, <1>4, Heads
  <2>2. Head(lane).id \in 1 .. MaxJobs /\ Head(lane).epoch \in 0 .. MaxSubmits
    BY <2>1 DEF Errands, Jobs
  <2>3. (answer.path # NoPath) = TRUE \/ (answer.path # NoPath) = FALSE
    BY SMT
  <2>4. PICK titled \in BOOLEAN : titled = (answer.path # NoPath)
    BY <2>3, Zenon
  <2>5. Report(kind, ok, answer) =
          [kind |-> kind, id |-> Head(lane).id, ok |-> ok, dirty |-> answer.dirty,
           rev |-> answer.rev, titled |-> titled, epoch |-> Head(lane).epoch]
    BY <2>4, Zenon DEF Report
  <2> QED
    BY <1>4, <2>2, <2>5 DEF Events, EventWorthy
<1>5. CASE LaneNoDestination
  <2>1. Answer("save", FALSE) \in ClientStates /\ Answer("save", FALSE).rev = NoRev
    BY AnswerType DEF CommandKinds, OpKinds, Answer
  <2>2. Answer("save", FALSE).dirty \in BOOLEAN /\ Answer("save", FALSE).rev \in Worthy
    BY <1>1, <2>1, NoRevWorthy DEF ClientStates
  <2> DEFINE answer == Answer("save", FALSE)
             failed == Report("finished", FALSE, answer)
  <2>3. /\ failed \in Events /\ EventWorthy(failed) /\ failed.epoch = Head(lane).epoch
        /\ events' = Append(events, failed)
    <3>1. lane # <<>> /\ events' = Append(events, failed)
      BY <1>5 DEF LaneNoDestination
    <3>2. /\ answer.dirty \in BOOLEAN /\ answer.rev \in Revisions \cup {NoRev}
          /\ answer.rev \in Worthy
      BY <2>1, <2>2
    <3> HIDE DEF answer
    <3>3. ASSUME NEW ok \in BOOLEAN
          PROVE  /\ Report("finished", ok, answer) \in Events
                 /\ EventWorthy(Report("finished", ok, answer))
                 /\ Report("finished", ok, answer).epoch = Head(lane).epoch
      BY <1>4, <3>1, <3>2
    <3> QED
      BY <3>1, <3>3, Zenon
  <2> HIDE DEF failed
  <2>4. LaneShrinks /\ UNCHANGED <<guard, pickers, restart, app, used>>
    BY <1>1, <1>5 DEF LaneNoDestination, LaneShrinks, GuardShape, LaneOK
  <2> QED
    BY <2>3, <2>4, GuardShrink
<1>6. CASE LaneFinish
  <2>1. /\ client[Lane] \in ClientStates /\ (~client[Lane].dirty => client[Lane].rev \in Worthy)
    BY <1>1, GuardAssumption DEF Typed, ClientOK, GuardInv, ShowCarries
  <2>2. /\ client[Lane].ok \in BOOLEAN /\ client[Lane].dirty \in BOOLEAN
        /\ client[Lane].rev \in Revisions \cup {NoRev}
    BY <2>1 DEF ClientStates
  <2>3. UNCHANGED <<guard, pickers, restart, app, used>>
    BY <1>6 DEF LaneFinish
  <2>4. lane # <<>>
    BY <1>1, <1>6 DEF LaneFinish, GuardShape, LaneOK
  <2>5. LaneShrinks
    BY <1>1, <1>6, <2>4 DEF LaneFinish, LaneShrinks
  <2>6. \/ events' = events
        \/ \E kind \in {"query", "finished"} :
              events' = Append(events, Report(kind, client[Lane].ok, client[Lane]))
    BY <1>6 DEF LaneFinish
  <2>7. \/ events' = events
        \/ \E event \in Events : /\ events' = Append(events, event) /\ EventWorthy(event)
                                 /\ event.epoch = Head(lane).epoch
    BY <1>4, <2>1, <2>2, <2>4, <2>6
  <2> QED
    BY <2>3, <2>5, <2>7, GuardShrink
<1> QED
  BY <1>2, <1>3, <1>5, <1>6 DEF LaneStep

\* Whoever quits with a revision loses nothing.
QuitKeeps == app' = "quit" => Kept(content) /\ NoEdits

\* The answer to the guard's query decides.
LEMMA QueryKeeps ==
  ASSUME Typed, GuardInv, ShowCarries', Worthy \subseteq Worthy', app = "running", QueryFinished
  PROVE  GuardInv' /\ QuitKeeps
<1> DEFINE event == Head(events)
<1>1. /\ GuardShape /\ events # <<>> /\ EventsRest
      /\ UNCHANGED <<running, epoch, used>>
  BY DEF GuardInv, QueryFinished, EventsRest
<1>2. event \in Events /\ EventWorthy(event) /\ EventCurrent(event)
  BY <1>1, FramedRest
<1>3. WindowOK'
  BY <1>1, FramedRest
<1>4. SUFFICES LaneRests /\ PickersRest /\ RestartRest /\ GuardOK' /\ AppOK' /\ QuitKeeps
  BY <1>1, <1>3, <1>4, GuardRest
<1>5. CASE (guard' = None \/ guard' = guard) /\ UNCHANGED <<lane, nextId, pickers, restart, app>>
  BY <1>1, <1>5, FramedRest DEF QuitKeeps
<1>6. ASSUME Querying
      PROVE  /\ guard \in Pending /\ guard.action \in Actions
             /\ guard.phase \in {"preflight", "postsave"}
  BY <1>1, <1>6 DEF GuardShape, GuardOK, Querying, Pending
<1>7. CASE Querying /\ Query(guard.action, guard.phase) /\ UNCHANGED <<pickers, restart, app>>
  <2>1. LaneGrows /\ GuardOK'
    BY <1>1, <1>6, <1>7, QueryGrows
  <2> QED
    BY <1>7, <2>1, FramedRest DEF LaneRests, QuitKeeps
<1>8. CASE Querying /\ ~Stale(event) /\ ~event.dirty /\ Continue(guard.action, event.rev)
  <2>1. event.rev \in Worthy /\ NoEdits
    BY <1>2, <1>8 DEF EventWorthy, EventCurrent, Stale
  <2>2. guard.action \in Actions
    BY <1>6, <1>8
  <2> HIDE DEF event
  <2> QED
    BY <1>1, <1>8, <2>1, <2>2, ContinueRest DEF QuitKeeps
<1>9. CASE Querying /\ guard' = [guard EXCEPT !.phase = "choice", !.titled = event.titled]
           /\ UNCHANGED <<lane, nextId, pickers, restart, app>>
  <2>1. event.titled \in BOOLEAN
    BY <1>2 DEF Events
  <2>2. GuardOK'
    BY <1>6, <1>9, <2>1 DEF GuardOK, Pending
  <2> QED
    BY <1>1, <1>9, <2>2, FramedRest DEF QuitKeeps
<1> QED
  BY <1>5, <1>7, <1>8, <1>9 DEF QueryFinished

LEMMA FinishKeeps ==
  ASSUME Typed, GuardInv, ShowCarries', Worthy \subseteq Worthy', app = "running", CommandFinished
  PROVE  GuardInv' /\ QuitKeeps
<1>1. /\ GuardShape /\ EventsRest
      /\ UNCHANGED <<running, epoch, used>>
  BY DEF GuardInv, CommandFinished, EventsRest
<1>2. WindowOK'
  BY <1>1, FramedRest
<1>3. SUFFICES LaneRests /\ PickersRest /\ RestartRest /\ GuardOK' /\ AppOK' /\ QuitKeeps
  BY <1>1, <1>2, <1>3, GuardRest
<1>4. CASE (guard' = None \/ guard' = guard) /\ UNCHANGED <<lane, nextId, pickers, restart, app>>
  BY <1>1, <1>4, FramedRest DEF QuitKeeps
<1>5. CASE guard # None /\ Query(guard.action, "postsave") /\ UNCHANGED <<pickers, restart, app>>
  <2>1. guard.action \in Actions
    BY <1>1, <1>5 DEF GuardShape, GuardOK, Pending
  <2>2. LaneGrows /\ GuardOK'
    BY <1>1, <1>5, <2>1, QueryGrows
  <2> QED
    BY <1>5, <2>2, FramedRest DEF LaneRests, QuitKeeps
<1> QED
  BY <1>4, <1>5 DEF CommandFinished, AfterSave

\* What the user asks for and answers.
LEMMA UserKeeps ==
  ASSUME Typed, GuardInv, ShowCarries', Worthy \subseteq Worthy', app = "running", UserStep
  PROVE  GuardInv' /\ QuitKeeps
<1>1. /\ GuardShape /\ NoRev \in Worthy
  BY NoRevWorthy DEF GuardInv
<1>2. ASSUME NEW kind \in {"edit", "lockout"}, SubmitEdit(kind)
      PROVE  GuardInv' /\ QuitKeeps
  BY <1>2, GuardSubmit DEF SubmitEdit, QuitKeeps
<1>3. CASE Pick
  <2>1. PICK picker \in pickers :
          /\ pickers' = pickers \ {picker}
          /\ \/ \E p \in Paths : Enqueue(Job(picker.action, p, picker.rev))
             \/ UNCHANGED <<lane, nextId>>
    BY <1>3 DEF Pick
  <2>2. UNCHANGED <<vars, running, events, epoch, guard, restart, app, used>>
    BY <1>3 DEF Pick
  <2>3. picker.action \in {"template", "open"} /\ picker.rev \in Worthy
    BY <1>1, <2>1 DEF GuardInv, GuardCarries, GuardShape, PickersOK, Pickers
  <2>4. LaneRests
    <3>1. CASE UNCHANGED <<lane, nextId>>
      BY <2>2, <3>1, FramedRest
    <3>2. ASSUME NEW p \in Paths, Enqueue(Job(picker.action, p, picker.rev)) PROVE LaneGrows
      <4>1. p # NoPath /\ p \in Paths \cup {NoPath}
        BY SessionAssumption
      <4>2. picker.action \in JobKinds \ {"edit"} /\ picker.action \in Replacing
            /\ picker.action \notin {"lockout", "query", "new"}
        BY <2>3 DEF JobKinds, Replacing
      <4> QED
        BY <1>1, <2>2, <2>3, <3>2, <4>1, <4>2, EnqueueGrows
    <3> QED
      BY <2>1, <3>1, <3>2 DEF LaneRests
  <2>5. PickersRest /\ EventsRest
    BY <2>1, <2>2 DEF PickersRest, EventsRest
  <2> QED
    BY <2>2, <2>4, <2>5, FramedRest, GuardRest DEF QuitKeeps
<1>4. CASE RequestSave
  <2>1. UNCHANGED <<vars, running, events, epoch, guard, pickers, restart, app>>
    BY <1>4 DEF RequestSave
  <2>2. LaneGrows
    <3>1. CASE Enqueue(Job("save", NoPath, NoRev))
      BY <1>1, <2>1, <3>1, EnqueueGrows DEF JobKinds, Replacing
    <3>2. ASSUME NEW p \in Paths, Enqueue(Job("saveas", p, NoRev)) PROVE LaneGrows
      BY <1>1, <2>1, <3>2, SessionAssumption, EnqueueGrows DEF JobKinds, Replacing
    <3> QED
      BY <1>4, <3>1, <3>2 DEF RequestSave
  <2>3. WindowOK'
    BY <1>1, <1>4, GuardAssumption DEF RequestSave, GuardShape, WindowOK
  <2> QED
    BY <2>1, <2>2, <2>3, FramedRest, GuardRest DEF LaneRests, EventsRest, QuitKeeps
<1>5. ASSUME NEW action \in Actions, Request(action)
      PROVE  GuardInv' /\ QuitKeeps
  <2>1. UNCHANGED <<vars, running, events, epoch, pickers, restart, app>>
    BY <1>5 DEF Request
  <2>2. LaneGrows /\ GuardOK'
    BY <1>1, <1>5, <2>1, QueryGrows DEF Request
  <2>3. WindowOK'
    BY <1>1, <1>5, GuardAssumption DEF Request, GuardShape, WindowOK
  <2> QED
    BY <2>1, <2>2, <2>3, FramedRest, GuardRest DEF LaneRests, EventsRest, QuitKeeps
<1>6. CASE Choose
  <2>1. /\ guard \in Pending /\ guard # None /\ guard.action \in Actions
        /\ UNCHANGED <<running, events, epoch, used>>
    BY <1>1, <1>6 DEF Choose, GuardShape, GuardOK, Pending
  <2>2. WindowOK' /\ EventsRest
    BY <2>1, FramedRest DEF EventsRest
  <2>3. SUFFICES LaneRests /\ PickersRest /\ RestartRest /\ GuardOK' /\ AppOK' /\ QuitKeeps
    BY <2>2, <2>3, GuardRest
  <2>4. CASE Save(NoPath) /\ UNCHANGED <<pickers, restart, app>>
    <3>1. LaneGrows /\ GuardOK'
      BY <1>1, <2>1, <2>4, SaveGrows
    <3> QED
      BY <2>4, <3>1, FramedRest DEF LaneRests, QuitKeeps
  <2>5. CASE guard' = [guard EXCEPT !.phase = "destination"]
             /\ UNCHANGED <<lane, nextId, pickers, restart, app>>
    <3>1. GuardOK'
      BY <2>1, <2>5 DEF GuardOK, Pending
    <3> QED
      BY <2>1, <2>5, <3>1, FramedRest DEF QuitKeeps
  <2>6. CASE Continue(guard.action, NoRev)
    BY <1>1, <2>1, <2>6, ContinueRest DEF QuitKeeps
  <2>7. CASE guard' = None /\ UNCHANGED <<lane, nextId, pickers, restart, app>>
    BY <2>1, <2>7, FramedRest DEF QuitKeeps
  <2> QED
    BY <1>6, <2>4, <2>5, <2>6, <2>7 DEF Choose
<1>7. CASE ChooseDestination
  <2>1. guard # None /\ UNCHANGED <<running, events, epoch, pickers, restart, app, used>>
    BY <1>7 DEF ChooseDestination
  <2>2. LaneRests /\ GuardOK'
    <3>1. CASE guard' = None /\ UNCHANGED <<lane, nextId>>
      BY <2>1, <3>1, FramedRest
    <3>2. ASSUME NEW p \in Paths, Save(p) PROVE LaneGrows /\ GuardOK'
      BY <1>1, <2>1, <3>2, SaveGrows
    <3> QED
      BY <1>7, <3>1, <3>2 DEF ChooseDestination, LaneRests
  <2> QED
    BY <2>1, <2>2, FramedRest, GuardRest DEF EventsRest, QuitKeeps
<1> QED
  BY <1>2, <1>3, <1>4, <1>5, <1>6, <1>7 DEF UserStep

\* The revisions are compared again once LV1 is disconnected for an update.
LEMMA DisconnectKeeps ==
  ASSUME Typed, GuardInv, ShowCarries', Worthy \subseteq Worthy', app = "running", Disconnected
  PROVE  GuardInv' /\ QuitKeeps
<1>1. /\ GuardShape /\ restart # None /\ restart' = None
      /\ UNCHANGED <<running, events, epoch, pickers, used>>
  BY DEF GuardInv, Disconnected
<1>2. WindowOK' /\ EventsRest /\ PickersRest /\ RestartRest
  BY <1>1, FramedRest DEF EventsRest, RestartRest
<1>3. SUFFICES LaneRests /\ GuardOK' /\ AppOK' /\ QuitKeeps
  BY <1>2, <1>3, GuardRest
<1>4. CASE UNCHANGED <<lane, nextId, guard, app>>
  BY <1>1, <1>4, FramedRest DEF QuitKeeps
<1>5. CASE app' = "discarded" /\ UNCHANGED <<lane, nextId, guard>>
  BY <1>1, <1>5, FramedRest DEF AppOK, QuitKeeps
<1>6. CASE /\ restart.rev # NoRev /\ restart.epoch = epoch /\ AdmitsQuit(restart.rev)
           /\ app' = "quit" /\ UNCHANGED <<lane, nextId, guard>>
  <2>1. restart.rev \in Worthy /\ restart.rev = revision /\ NoEdits
    BY <1>1, <1>6 DEF GuardInv, GuardCarries, EpochTrue, AdmitsQuit
  <2>2. QuitKeeps
    BY <2>1 DEF Worthy, QuitKeeps
  <2> QED
    BY <1>1, <1>6, <2>2, FramedRest DEF AppOK
<1>7. CASE Query("restart", "preflight") /\ UNCHANGED app
  <2>1. "restart" \in Actions
    BY <1>1 DEF GuardShape, RestartOK
  <2>2. LaneGrows /\ GuardOK'
    BY <1>1, <1>7, <2>1, QueryGrows
  <2> QED
    BY <1>7, <2>2, FramedRest DEF LaneRests, QuitKeeps
<1> QED
  BY <1>4, <1>5, <1>6, <1>7 DEF Disconnected

LEMMA GuardStep ==
  ASSUME SessionInv, GuardInv, GuardNext \/ UNCHANGED allVars
  PROVE  SessionInv' /\ GuardInv' /\ (app # "quit" => QuitKeeps)
<1>1. Typed /\ ShowCarries
  BY DEF SessionInv, GuardInv
<1>2. SoundMove \/ UNCHANGED vars
  BY <1>1, GuardMoves DEF allVars
<1>3. Move \/ UNCHANGED vars
  BY <1>2 DEF SoundMove, SoundSends, Move, Sends
<1>4. SessionInv' /\ Worthy \subseteq Worthy' /\ ShowCarries'
  BY <1>1, <1>2, <1>3, SessionKept, BacksStep, CarriesStep
<1>5. CASE UNCHANGED guardVars
  <2>1. UNCHANGED <<lane, running, events, epoch, nextId, guard, pickers, restart, app, used>>
    BY <1>5 DEF guardVars
  <2> QED
    BY <1>4, <2>1, FramedRest, GuardRest DEF EventsRest, QuitKeeps
<1>6. CASE LaneStep
  <2>1. app' = app
    BY <1>6 DEF LaneStep, LaneEdit, LaneSend, LaneNoDestination, LaneFinish
  <2> QED
    BY <1>4, <1>6, <2>1, LaneKeeps DEF QuitKeeps
<1>7. CASE app = "running" /\ (WindowStep \/ UserStep \/ Disconnected)
  BY <1>1, <1>4, <1>7, QueryKeeps, FinishKeeps, UserKeeps, DisconnectKeeps DEF WindowStep
<1> QED
  BY <1>5, <1>6, <1>7 DEF GuardNext, allVars

LEMMA GuardStart == GuardInit => SessionInv /\ GuardInv
<1> SUFFICES ASSUME GuardInit PROVE SessionInv /\ GuardInv
  OBVIOUS
<1>1. SessionInv /\ Typed /\ NoRev \in Worthy
  BY SessionInit, NoRevWorthy DEF GuardInit, SessionInv
<1>2. GuardShape
  <2>1. <<>> \in Seq(Errands) /\ <<>> \in Seq(Events)
    OBVIOUS
  <2>2. MaxSubmits \in Nat /\ MaxRequests \in Nat /\ MaxJobs \in Nat
    BY GuardAssumption
  <2>3. LaneOK /\ WindowOK
    <3>1. lane = <<>> /\ running = FALSE /\ nextId = 0 /\ epoch = 0 /\ used = 0
      BY DEF GuardInit
    <3>2. running \in BOOLEAN /\ ~running
      BY <3>1
    <3>3. nextId \in 0 .. MaxJobs /\ epoch \in 0 .. MaxSubmits /\ used \in 0 .. MaxRequests
      BY <2>2, <3>1
    <3> QED
      BY <2>1, <3>1, <3>2, <3>3 DEF LaneOK, WindowOK
  <2>4. EventsOK /\ GuardOK /\ PickersOK /\ RestartOK /\ AppOK
    BY <2>1 DEF GuardInit, EventsOK, GuardOK, PickersOK, RestartOK, AppOK
  <2> QED
    BY <2>3, <2>4 DEF GuardShape
<1>3. ShowCarries
  <2>1. inbox = <<>> /\ mailbox = <<>> /\ held = None /\ pending = None
    BY DEF GuardInit, Init
  <2>2. \A c \in Clients : client[c].rev = NoRev
    BY DEF GuardInit, Init, Answer
  <2> QED
    BY <1>1, <2>1, <2>2 DEF ShowCarries, Submitted
<1>4. GuardCarries /\ EpochTrue
  BY DEF GuardInit, GuardCarries, EpochTrue
<1> QED
  BY <1>1, <1>2, <1>3, <1>4 DEF GuardInv

\* What a guarded replacement installs over exists: its revision is worth it.
LEMMA CommitKeeps ==
  ASSUME SessionInv, ShowCarries, SoundMove \/ UNCHANGED vars, GuardedCommit
  PROVE  Kept(content)
<1> DEFINE request == Head(inbox)
<1>1. /\ Typed /\ TicketInv /\ inbox # <<>> /\ inbox \in Seq(Requests)
      /\ tickets \in [Ops -> {"none", "pending", "committed", "canceled"}]
  BY DEF SessionInv, Typed, InboxOK, TicketOK, GuardedCommit
<1>2. request = inbox[1] /\ 1 \in DOMAIN inbox /\ request \in Requests
  BY <1>1, Heads
<1>3. /\ request.rev \in Worthy /\ request.rev # NoRev /\ request.kind # "document"
      /\ tickets' # tickets /\ tickets'[request.op] = "committed"
  BY <1>2 DEF ShowCarries, RequestSound, GuardedCommit
<1>4. /\ request.kind = "replace" /\ request.op \in Ops
      /\ tickets[request.op] \in {"pending", "canceled"}
  BY <1>1, <1>2, <1>3 DEF Requests, TicketInv, RequestsOnce
<1> HIDE DEF request
<1>5. CASE ScenesReplace
  <2>1. request.rev = NoRev \/ request.rev = revision
    BY <1>3, <1>5 DEF ScenesReplace, AdmitsRevision, request
  <2> QED
    BY <1>3, <2>1 DEF Worthy
<1>6. ASSUME NEW op, NEW v \in {"pending", "canceled"}, tickets' = [tickets EXCEPT ![op] = v]
      PROVE  FALSE
  BY <1>1, <1>3, <1>4, <1>6
<1>7. CASE tickets' = tickets
  BY <1>3, <1>7
<1>8. CASE OpReplace \/ OpGiveUp
  BY <1>1, <1>6, <1>7, <1>8, ReplaceEffect, GiveUpEffect DEF TicketFrame
<1>9. CASE ScenesReply \/ ScenesDocument \/ ShowFinish
  BY <1>7, <1>9 DEF ScenesReply, ScenesDocument, ShowFinish
<1>10. CASE OpAskDocument
  BY <1>7, <1>10 DEF OpAskDocument
<1>11. CASE UNCHANGED vars
  BY <1>7, <1>11 DEF vars
<1>12. Move \/ UNCHANGED vars
  BY DEF SoundMove, SoundSends, Move, Sends
<1> QED
  BY <1>1, <1>5, <1>7, <1>8, <1>9, <1>10, <1>11, <1>12, QuietSteps DEF TicketFrame

LEMMA GuardInductive == GuardSpec => [](SessionInv /\ GuardInv)
<1>1. SessionInv /\ GuardInv /\ [GuardNext]_allVars => (SessionInv /\ GuardInv)'
  BY GuardStep
<1> QED
  BY <1>1, GuardStart, PTL DEF GuardSpec

-----------------------------------------------------------------------------
(* Theorems about SessionGuard *)

\* The variables of the guard keep their shapes, the jobs in the lane and the
\* events that wait for the window included.
THEOREM GuardTyped == GuardSpec => []GuardTypeOK
<1> QED
  BY GuardInductive, GuardShapes, PTL

\* No edit is lost without the user's consent (session_guard.rs,
\* dirty-session-destructive-action-gate): however edits, saves, late answers, lost
\* facts and other tasks interleave between the question and the point of no
\* return, a guarded replacement that commits and a guarded quit or restart leave every
\* edit of the documents in a file, and no submitted edit waits in the lane when it quits.
THEOREM NothingLost == GuardSpec => NoUnsavedLoss
<1>1. SessionInv /\ GuardInv /\ [GuardNext]_allVars =>
        [/\ GuardedCommit => Kept(content)
         /\ app' = "quit" /\ app # "quit" =>
               Kept(content) /\ \A i \in DOMAIN lane : lane[i].kind # "edit"]_allVars
  <2> SUFFICES ASSUME SessionInv, GuardInv, GuardNext
               PROVE  /\ GuardedCommit => Kept(content)
                      /\ app' = "quit" /\ app # "quit" =>
                            Kept(content) /\ \A i \in DOMAIN lane : lane[i].kind # "edit"
    OBVIOUS
  <2>1. GuardedCommit => Kept(content)
    BY GuardMoves, CommitKeeps DEF SessionInv, GuardInv
  <2>2. app # "quit" => QuitKeeps
    BY GuardStep
  <2> QED
    BY <2>1, <2>2 DEF QuitKeeps, NoEdits
<1> QED
  BY <1>1, GuardInductive, PTL DEF GuardSpec, NoUnsavedLoss
=============================================================================
