--------------------------- MODULE Lv1ActorProofs ---------------------------
(***************************************************************************)
(* Theorems about Lv1Actor, for every number of commands, sessions and     *)
(* announcements and every queue capacity.                                 *)
(***************************************************************************)
EXTENDS Lv1Actor, SequenceTheorems, TLAPS

USE DEF consoleVars, mirrorVars, historyVars

-----------------------------------------------------------------------------
(* The mirror: the inductive invariant *)

\* Only a session has frames to read, and only a connected one has a mirror.
SessionOwned ==
    /\ phase \in {"registering", "draining", "connected"} => session \in Sessions
    /\ phase # "connected" =>
          mirror.scene = None /\ mirror.list = None /\ mirror.topology = None /\ buf = NoHalves
    /\ phase \notin {"draining", "connected"} => inbound = <<>>

\* What waits to be paired: the half that is buffered and the frames to be read.
Buffered == IF buf.index # None THEN Frame("index", buf.index) ELSE Frame("name", buf.name)
Awaited == IF buf = NoHalves THEN inbound ELSE <<Buffered>> \o inbound

IsHalf(frame) == frame.kind \in {"index", "name"}
Matches(f, g) == f.scene = g.scene /\ {f.kind, g.kind} = {"index", "name"}

\* An announcement is two neighbouring frames of one kind each, and no other frame
\* is about it.
Paired(s, n) ==
    /\ \A i \in DOMAIN s : IF IsHalf(s[i]) THEN s[i].scene \in 1 .. n ELSE s[i].scene = None
    /\ \A i \in DOMAIN s : IsHalf(s[i]) =>
          \E j \in DOMAIN s : (j = i + 1 \/ i = j + 1) /\ Matches(s[i], s[j])
    /\ \A i, j \in DOMAIN s :
          IsHalf(s[i]) /\ IsHalf(s[j]) /\ s[i].scene = s[j].scene /\ i < j => j = i + 1

HalvesPaired == None \in {buf.index, buf.name} /\ Paired(Awaited, announced)

PairsInv == SessionOwned /\ MirrorOfSession /\ HalvesPaired

-----------------------------------------------------------------------------
(* The writers: the inductive invariant *)

\* No writer has a command, in its hands or in its queue.
Nowhere(c) ==
    \A s \in Sessions : /\ writers[s].current # c
                        /\ \A k \in DOMAIN writers[s].queue : writers[s].queue[k] # c

\* A command is sent once: what waits in the mailbox has not been handed on.
MailboxOnce ==
    \A i \in DOMAIN mailbox :
        /\ reply[mailbox[i]] = "waiting"
        /\ before[mailbox[i]] = {}
        /\ \A j \in DOMAIN mailbox : mailbox[j] = mailbox[i] => j = i
        /\ Nowhere(mailbox[i])
UnsentFresh ==
    \A c \in Commands : reply[c] = "unsent" =>
        /\ before[c] = {}
        /\ \A i \in DOMAIN mailbox : mailbox[i] # c
        /\ Nowhere(c)

\* What a running writer accepted is written, or still in its place: before every
\* flush that was queued after it.
Ahead(w, i) == {w.current} \cup {w.queue[j] : j \in 1 .. i - 1}
InOrder(w, done, promised) ==
    /\ w.accepted \subseteq Writes
    /\ w.status = "running" =>
          /\ w.accepted \subseteq done \cup Ahead(w, Len(w.queue) + 1)
          /\ \A i \in DOMAIN w.queue : IsFlush(w.queue[i]) =>
                promised[w.queue[i]] \subseteq done \cup Ahead(w, i)
          /\ IsFlush(w.current) => promised[w.current] \subseteq done

WritersInOrder == \A s \in Sessions : InOrder(writers[s], written, before)
PromisedWrites == \A c \in Commands : before[c] \subseteq Writes

OrderInv == MailboxOnce /\ UnsentFresh /\ WritersInOrder /\ PromisedWrites /\ FlushTruth

-----------------------------------------------------------------------------
(* Shapes *)

PhaseOK == phase \in Phases /\ conn \in {"connecting", "connected", "disconnected"}
MirrorOK == mirror \in Mirrors /\ buf \in [index : Halves, name : Halves]
MailOK == mailbox \in Seq(Commands) /\ open \in BOOLEAN
ReplyOK == reply \in [Commands -> Replies]
WritersOK == writers \in [Sessions -> Writers]
InboundOK == inbound \in Seq(Frames)
ConsoleOK == peer \in {"up", "down"} /\ announced \in 0 .. MaxScene
HistoryOK == written \subseteq Commands /\ before \in [Commands -> SUBSET Commands]
BudgetOK == budget \in [EnvKinds -> Nat]
SessionOK == session \in 0 .. MaxSession

Typed ==
    /\ PhaseOK /\ MirrorOK /\ MailOK /\ ReplyOK /\ WritersOK /\ InboundOK /\ ConsoleOK
    /\ HistoryOK /\ BudgetOK /\ SessionOK

LEMMA Shapes == Typed <=> TypeOK
BY DEF Typed, TypeOK, PhaseOK, MirrorOK, MailOK, ReplyOK, WritersOK, InboundOK, ConsoleOK,
       HistoryOK, BudgetOK, SessionOK

\* What a step leaves alone keeps its shape.
LEMMA FrameShapes ==
  ASSUME Typed
  PROVE  /\ UNCHANGED <<phase, conn>> => PhaseOK'
         /\ UNCHANGED <<mirror, buf>> => MirrorOK'
         /\ UNCHANGED <<mailbox, open>> => MailOK'
         /\ UNCHANGED reply => ReplyOK'
         /\ UNCHANGED writers => WritersOK'
         /\ UNCHANGED inbound => InboundOK'
         /\ UNCHANGED <<peer, announced>> => ConsoleOK'
         /\ UNCHANGED <<written, before>> => HistoryOK'
         /\ UNCHANGED budget => BudgetOK'
         /\ UNCHANGED session => SessionOK'
BY DEF Typed, PhaseOK, MirrorOK, MailOK, ReplyOK, WritersOK, InboundOK, ConsoleOK, HistoryOK,
       BudgetOK, SessionOK

\* The head of a queue, and what is left of it.
LEMMA Heads ==
  ASSUME NEW S, NEW q \in Seq(S), q # <<>>
  PROVE  /\ Head(q) \in S /\ Tail(q) \in Seq(S) /\ Head(q) = q[1] /\ 1 \in DOMAIN q
         /\ Len(q) \in Nat \ {0} /\ DOMAIN q = 1 .. Len(q) /\ DOMAIN Tail(q) = 1 .. Len(q) - 1
         /\ Len(Tail(q)) = Len(q) - 1
         /\ \A i \in DOMAIN Tail(q) : Tail(q)[i] = q[i + 1]
BY HeadTailProperties, EmptySeq, LenProperties

LEMMA Flushes == ASSUME NEW q PROVE FlushesIn(q) \subseteq Commands
BY DEF FlushesIn, IsFlush

LEMMA ReplyToOne ==
  ASSUME Typed, NEW c \in Commands, NEW r \in Replies, reply' = [reply EXCEPT ![c] = r]
  PROVE  ReplyOK'
BY DEF Typed, ReplyOK

LEMMA ReplyToMany ==
  ASSUME Typed, NEW cs, NEW r \in Replies, reply' = Telling(cs, r)
  PROVE  ReplyOK'
BY DEF Typed, ReplyOK, Telling

LEMMA Dispositions ==
  ASSUME NEW c, NEW r \in Replies
  PROVE  Disposition(c, r) \in Replies
BY DEF Disposition, Replies

LEMMA TakenCommand ==
  ASSUME Typed, TakeCommand
  PROVE  /\ Head(mailbox) \in Commands /\ mailbox' \in Seq(Commands)
         /\ Head(mailbox) = mailbox[1] /\ 1 \in DOMAIN mailbox
         /\ \A i \in DOMAIN mailbox' : i + 1 \in DOMAIN mailbox /\ mailbox'[i] = mailbox[i + 1]
<1>1. mailbox \in Seq(Commands) /\ mailbox # <<>> /\ mailbox' = Tail(mailbox)
  BY DEF Typed, MailOK, TakeCommand
<1> QED
  BY <1>1, Heads

LEMMA NewWriters ==
  ASSUME NEW status \in {"unborn", "running", "failed", "gone"}
  PROVE  NewWriter(status) \in Writers
<1>1. <<>> \in Seq(Entries)
  BY EmptySeq
<1> QED
  BY <1>1 DEF NewWriter, Writers

LEMMA Enqueued ==
  ASSUME Typed, session \in Sessions, NEW e \in Entries, Enqueue(e)
  PROVE  /\ WritersOK'
         /\ \A s \in Sessions \ {session} : writers'[s] = writers[s]
         /\ writers'[session] = [Writer EXCEPT !.queue = Append(Writer.queue, e),
                                               !.accepted = Writer.accepted \cup ({e} \cap Writes)]
<1>1. Writer \in Writers
  BY DEF Typed, WritersOK, Writer
<1>2. Append(Writer.queue, e) \in Seq(Entries)
  BY <1>1, AppendProperties DEF Writers
<1>3. Writer.accepted \cup ({e} \cap Writes) \in SUBSET Commands
  BY <1>1 DEF Writers, Writes
<1> DEFINE w == [Writer EXCEPT !.queue = Append(Writer.queue, e),
                               !.accepted = Writer.accepted \cup ({e} \cap Writes)]
<1>4. w \in Writers
  BY <1>1, <1>2, <1>3 DEF Writers
<1>5. writers' = [writers EXCEPT ![session] = w]
  BY DEF Enqueue, Writer, Typed, WritersOK
<1> QED
  BY <1>4, <1>5 DEF Typed, WritersOK

LEMMA Ended ==
  ASSUME Typed, NEW next \in Phases, EndSession(next)
  PROVE  /\ PhaseOK' /\ MirrorOK' /\ WritersOK' /\ InboundOK'
         /\ \A s \in Sessions : writers'[s] = IF s = session THEN [writers[s] EXCEPT !.closed = TRUE]
                                              ELSE writers[s]
<1>1. PhaseOK'
  BY DEF EndSession, PhaseOK
<1>2. mirror.seq \in Nat /\ mirror.pings \in Nat
  BY DEF Typed, MirrorOK, Mirrors
<1>3. MirrorOK'
  BY <1>2 DEF EndSession, ForgetSession, MirrorOK, Mirrors, EmptyMirror, NoHalves, Halves
<1>4. \A s \in Sessions : [writers[s] EXCEPT !.closed = TRUE] \in Writers
  BY DEF Typed, WritersOK, Writers
<1>5. writers' = [writers EXCEPT ![session].closed = TRUE]
  BY DEF EndSession
<1>6. \A s \in Sessions : writers'[s] = IF s = session THEN [writers[s] EXCEPT !.closed = TRUE]
                                        ELSE writers[s]
  BY <1>5 DEF Typed, WritersOK
<1>7. WritersOK'
  BY <1>4, <1>5, <1>6 DEF Typed, WritersOK
<1>8. InboundOK'
  BY EmptySeq DEF EndSession, InboundOK
<1> QED
  BY <1>1, <1>3, <1>6, <1>7, <1>8

\* The session of a connection.
LEMMA SessionThere == ASSUME SessionOwned, phase \in {"registering", "draining", "connected"}
                      PROVE  session \in Sessions
BY DEF SessionOwned

LEMMA Queued == ASSUME NEW c \in Commands PROVE c \in Entries
BY DEF Entries

LEMMA Observation ==
  ASSUME Typed, session \in Sessions, NEW halves \in [index : Halves, name : Halves],
         Observe(halves)
  PROVE  MirrorOK'
<1>1. CASE None \in {halves.index, halves.name}
  BY <1>1 DEF Observe, MirrorOK, Typed
<1>2. CASE None \notin {halves.index, halves.name}
  <2>1. halves.index \in Announcements /\ halves.name \in Announcements
    BY <1>2 DEF Halves
  <2>2. mirror \in Mirrors /\ mirror.seq + 1 \in Nat
    BY DEF Typed, MirrorOK, Mirrors
  <2>3. [index |-> halves.index, name |-> halves.name, session |-> session,
         seq |-> mirror.seq + 1] \in Scenes
    BY <2>1, <2>2 DEF Scenes
  <2>4. mirror' \in Mirrors
    BY <1>2, <2>2, <2>3 DEF Observe, Mirrors
  <2> QED
    BY <1>2, <2>4 DEF Observe, MirrorOK, NoHalves, Halves
<1> QED
  BY <1>1, <1>2

LEMMA TwoMore ==
  ASSUME Typed, NEW n \in Halves, NEW first \in {"index", "name"},
         inbound' = inbound \o <<Frame(first, n),
                                Frame(IF first = "index" THEN "name" ELSE "index", n)>>
  PROVE  InboundOK'
<1> DEFINE f == Frame(first, n)
           g == Frame(IF first = "index" THEN "name" ELSE "index", n)
<1>1. f \in Frames /\ g \in Frames
  BY DEF Frame, Frames
<1> HIDE DEF f, g
<1>2. <<f, g>> \in Seq(Frames) /\ inbound \in Seq(Frames)
  BY <1>1 DEF Typed, InboundOK
<1>3. inbound' = inbound \o <<f, g>>
  BY DEF f, g
<1> QED
  BY <1>2, <1>3, ConcatProperties DEF InboundOK

\* Every step keeps the shapes.
LEMMA TypeStep == ASSUME Typed, SessionOwned, Next PROVE Typed'
<1>1. CASE ServeDisconnected
  <2>1. MailOK'
    BY <1>1, TakenCommand DEF ServeDisconnected, TakeCommand, MailOK, Typed
  <2>2. ReplyOK'
    BY <1>1, TakenCommand, Dispositions, ReplyToOne DEF ServeDisconnected, Replies
  <2> QED
    BY <1>1, <2>1, <2>2, FrameShapes DEF ServeDisconnected, Typed
<1>2. CASE ServeStale
  <2>1. MailOK'
    BY <1>2, TakenCommand DEF ServeStale, TakeCommand, MailOK, Typed
  <2>2. ReplyOK'
    BY <1>2, TakenCommand, Dispositions, ReplyToOne DEF ServeStale, Replies
  <2> QED
    BY <1>2, <2>1, <2>2, FrameShapes DEF ServeStale, Typed
<1>3. CASE ServeRead
  <2>1. MailOK'
    BY <1>3, TakenCommand DEF ServeRead, ServeUnchanged, MailOK, Typed
  <2>2. ReplyOK'
    BY <1>3, TakenCommand, ReplyToOne DEF ServeRead, Replies
  <2> QED
    BY <1>3, <2>1, <2>2, FrameShapes DEF ServeRead, Typed, ServeUnchanged
<1>4. CASE ServeWrite
  <2>1. session \in Sessions
    BY <1>4, SessionThere DEF ServeWrite, Serving
  <2>2. Head(mailbox) \in Entries
    BY <1>4, TakenCommand, Queued DEF ServeWrite
  <2>3. MailOK'
    BY <1>4, TakenCommand DEF ServeWrite, ServeUnchanged, MailOK, Typed
  <2>4. ReplyOK'
    BY <1>4, TakenCommand, ReplyToOne DEF ServeWrite, Replies
  <2>5. PhaseOK' /\ MirrorOK' /\ WritersOK' /\ InboundOK'
    BY <1>4, <2>1, <2>2, Enqueued, Ended, FrameShapes DEF ServeWrite, Phases
  <2> QED
    BY <1>4, <2>1, <2>2, <2>3, <2>4, <2>5, FrameShapes DEF ServeWrite, Typed, ServeUnchanged
<1>5. CASE ServeFlush
  <2>1. session \in Sessions
    BY <1>5, SessionThere DEF ServeFlush, Serving
  <2>2. Head(mailbox) \in Entries
    BY <1>5, TakenCommand, Queued DEF ServeFlush
  <2>3. MailOK'
    BY <1>5, TakenCommand DEF ServeFlush, ServeUnchanged, MailOK, Typed
  <2>4. ReplyOK'
    BY <1>5, TakenCommand, ReplyToOne, FrameShapes DEF ServeFlush, Replies
  <2>5. PhaseOK' /\ MirrorOK' /\ WritersOK' /\ InboundOK'
    BY <1>5, <2>1, <2>2, Enqueued, Ended, FrameShapes DEF ServeFlush, Phases
  <2>6. Writer.accepted \subseteq Commands
    BY <2>1 DEF Writer, Writers, WritersOK, Typed
  <2>7. HistoryOK'
    BY <1>5, <2>6, TakenCommand DEF ServeFlush, ServeUnchanged, HistoryOK, Typed
  <2> QED
    BY <1>5, <2>1, <2>2, <2>3, <2>4, <2>5, <2>6, <2>7, FrameShapes DEF ServeFlush, Typed, ServeUnchanged
<1>6. CASE ReadPing
  <2>1. session \in Sessions
    BY <1>6, SessionThere DEF ReadPing, Reading
  <2>2. inbound # <<>> => Tail(inbound) \in Seq(Frames)
    BY Heads DEF InboundOK, Typed
  <2>3. "pong" \in Entries
    BY DEF Entries
  <2>4. mirror.pings \in Nat /\ mirror \in Mirrors
    BY DEF Typed, MirrorOK, Mirrors
  <2>5. CASE HasRoom
      <3>1. Enqueue("pong") /\ NextFrame /\ mirror' = [mirror EXCEPT !.pings = mirror.pings + 1]
            /\ UNCHANGED <<phase, conn, buf>> /\ inbound # <<>>
        BY <1>6, <2>5 DEF ReadPing, Reading
      <3>2. MirrorOK'
        BY <3>1, <2>4 DEF MirrorOK, Mirrors, Typed
      <3> QED
        BY <1>6, <3>1, <3>2, <2>1, <2>2, <2>3, Enqueued, FrameShapes DEF ReadPing, NextFrame, InboundOK, Typed
  <2>6. CASE ~HasRoom
    BY <1>6, <2>6, Ended, FrameShapes DEF ReadPing, Phases, Typed
  <2> QED
    BY <1>6, <2>1, <2>2, <2>3, <2>4, <2>5, <2>6, FrameShapes DEF ReadPing, Typed
<1>7. CASE ReadIndex
  <2>1. session \in Sessions
    BY <1>7, SessionThere DEF ReadIndex, Reading
  <2>2. Head(inbound) \in Frames /\ InboundOK'
    BY <1>7, Heads DEF ReadIndex, Reading, NextFrame, InboundOK, Typed
  <2>3. Head(inbound).scene \in Halves
    BY <2>2 DEF Frames
  <2>4. [buf EXCEPT !.index = Head(inbound).scene] \in [index : Halves, name : Halves]
    BY <2>3 DEF MirrorOK, Typed
  <2>5. MirrorOK'
    BY <1>7, <2>1, <2>4, Observation DEF ReadIndex
  <2> QED
    BY <1>7, <2>1, <2>2, <2>3, <2>4, <2>5, FrameShapes DEF ReadIndex, Typed, FrameUnchanged
<1>8. CASE ReadName
  <2>1. session \in Sessions
    BY <1>8, SessionThere DEF ReadName, Reading
  <2>2. Head(inbound) \in Frames /\ InboundOK'
    BY <1>8, Heads DEF ReadName, Reading, NextFrame, InboundOK, Typed
  <2>3. Head(inbound).scene \in Halves
    BY <2>2 DEF Frames
  <2>4. [buf EXCEPT !.name = Head(inbound).scene] \in [index : Halves, name : Halves]
    BY <2>3 DEF MirrorOK, Typed
  <2>5. MirrorOK'
    BY <1>8, <2>1, <2>4, Observation DEF ReadName
  <2> QED
    BY <1>8, <2>1, <2>2, <2>3, <2>4, <2>5, FrameShapes DEF ReadName, Typed, FrameUnchanged
<1>9. CASE ReadList
  <2>1. session \in Sessions
    BY <1>9, SessionThere DEF ReadList, Reading
  <2>2. InboundOK'
    BY <1>9, Heads DEF ReadList, Reading, NextFrame, InboundOK, Typed
  <2>3. MirrorOK'
    BY <1>9, <2>1 DEF ReadList, MirrorOK, Mirrors, Typed
  <2> QED
    BY <1>9, <2>1, <2>2, <2>3, FrameShapes DEF ReadList, Typed, FrameUnchanged
<1>10. CASE ReadTopology
  <2>1. session \in Sessions
    BY <1>10, SessionThere DEF ReadTopology, Reading
  <2>2. InboundOK'
    BY <1>10, Heads DEF ReadTopology, Reading, NextFrame, InboundOK, Typed
  <2>3. MirrorOK'
    BY <1>10, <2>1 DEF ReadTopology, MirrorOK, Mirrors, Typed
  <2> QED
    BY <1>10, <2>1, <2>2, <2>3, FrameShapes DEF ReadTopology, Typed, FrameUnchanged
<1>11. CASE ConnectSucceeds
  <2>1. PhaseOK'
    BY <1>11 DEF ConnectSucceeds, PhaseOK, Phases, Typed
  <2>2. SessionOK'
    BY <1>11, Lv1Assumption DEF ConnectSucceeds, SessionOK, Typed
  <2>3. MirrorOK'
    BY <1>11 DEF ConnectSucceeds, MirrorOK, Mirrors, Typed
  <2> QED
    BY <1>11, <2>1, <2>2, <2>3, FrameShapes DEF ConnectSucceeds, Typed
<1>12. CASE RegisterSucceeds
  <2>1. PhaseOK'
    BY <1>12 DEF RegisterSucceeds, PhaseOK, Phases, Typed
  <2> QED
    BY <1>12, <2>1, FrameShapes DEF RegisterSucceeds, Typed
<1>13. CASE Connected
  <2>1. session \in Sessions
    BY <1>13, SessionThere DEF Connected
  <2>2. PhaseOK'
    BY <1>13 DEF Connected, PhaseOK, Phases, Typed
  <2>3. NewWriter("running") \in Writers
    BY NewWriters
  <2>4. WritersOK'
    BY <1>13, <2>1, <2>3 DEF Connected, WritersOK, Typed
  <2> QED
    BY <1>13, <2>1, <2>2, <2>3, <2>4, FrameShapes DEF Connected, Typed
<1>14. CASE ChannelClosed
  <2>1. PhaseOK'
    BY <1>14 DEF ChannelClosed, PhaseOK, Phases, Typed
  <2> QED
    BY <1>14, <2>1, FrameShapes DEF ChannelClosed, Typed
<1>15. CASE AttemptFails
  <2>1. PhaseOK'
    BY <1>15 DEF AttemptFails, PhaseOK, Phases, Typed
  <2> QED
    BY <1>15, <2>1, FrameShapes DEF AttemptFails, Typed
<1>16. CASE DelayEnds
  <2>1. PhaseOK'
    BY <1>16 DEF DelayEnds, PhaseOK, Phases, Typed
  <2> QED
    BY <1>16, <2>1, FrameShapes DEF DelayEnds, Typed
<1>17. CASE SessionClosed
  <2>1. PhaseOK' /\ MirrorOK' /\ WritersOK' /\ InboundOK'
    BY <1>17, Ended DEF SessionClosed, Phases
  <2> QED
    BY <1>17, <2>1, FrameShapes DEF SessionClosed, Typed
<1>18. CASE PingTimeout
  <2>1. PhaseOK' /\ MirrorOK' /\ WritersOK' /\ InboundOK'
    BY <1>18, Ended DEF PingTimeout, Phases
  <2> QED
    BY <1>18, <2>1, FrameShapes DEF PingTimeout, Typed
<1>19. CASE WriterError
  <2>1. PhaseOK' /\ MirrorOK' /\ WritersOK' /\ InboundOK'
    BY <1>19, Ended DEF WriterError, Phases
  <2> QED
    BY <1>19, <2>1, FrameShapes DEF WriterError, Typed
<1>20. CASE ReadFails
  <2>1. PhaseOK' /\ MirrorOK' /\ WritersOK' /\ InboundOK'
    BY <1>20, Ended DEF ReadFails, Phases
  <2>2. BudgetOK'
    BY <1>20 DEF ReadFails, Spend, BudgetOK, EnvKinds, Typed
  <2> QED
    BY <1>20, <2>1, <2>2, FrameShapes DEF ReadFails, Typed
<1>21. ASSUME NEW s \in Sessions, WriterTake(s) PROVE Typed'
  <2>1. writers[s] \in Writers
    BY DEF WritersOK, Typed
  <2>2. Head(writers[s].queue) \in Entries /\ Tail(writers[s].queue) \in Seq(Entries)
    BY <1>21, <2>1, Heads DEF WriterTake, Writers
  <2>3. [writers[s] EXCEPT !.current = Head(writers[s].queue), !.queue = Tail(writers[s].queue)] \in Writers
    BY <2>1, <2>2 DEF Writers
  <2>4. WritersOK'
    BY <1>21, <2>3 DEF WriterTake, WritersOK, Typed
  <2> QED
    BY <1>21, <2>1, <2>2, <2>3, <2>4, FrameShapes DEF WriterTake, Typed, WriterUnchanged
<1>22. ASSUME NEW s \in Sessions, WriterWrites(s) PROVE Typed'
  <2>1. writers[s] \in Writers
    BY DEF WritersOK, Typed
  <2>2. [writers[s] EXCEPT !.current = "idle"] \in Writers
    BY <2>1 DEF Writers
  <2>3. WritersOK'
    BY <1>22, <2>2 DEF WriterWrites, WritersOK, Typed
  <2>4. ReplyOK'
    BY <1>22, ReplyToOne, FrameShapes DEF WriterWrites, IsFlush, Replies
  <2>5. HistoryOK'
    BY <1>22 DEF WriterWrites, WriterUnchanged, HistoryOK, Writes, Typed
  <2> QED
    BY <1>22, <2>1, <2>2, <2>3, <2>4, <2>5, FrameShapes DEF WriterWrites, Typed, WriterUnchanged
<1>23. ASSUME NEW s \in Sessions, WriterFails(s) PROVE Typed'
  <2>1. writers[s] \in Writers
    BY DEF WritersOK, Typed
  <2>2. [writers[s] EXCEPT !.status = "failed", !.current = "idle", !.queue = <<>>] \in Writers
    BY <2>1, EmptySeq DEF Writers
  <2>3. WritersOK'
    BY <1>23, <2>2 DEF WriterFails, WritersOK, Typed
  <2>4. ReplyOK'
    BY <1>23, ReplyToMany DEF WriterFails, Replies
  <2> QED
    BY <1>23, <2>1, <2>2, <2>3, <2>4, FrameShapes DEF WriterFails, Typed, WriterUnchanged
<1>24. ASSUME NEW s \in Sessions, WriterEnds(s) PROVE Typed'
  <2>1. NewWriter("gone") \in Writers
    BY NewWriters
  <2>2. WritersOK'
    BY <1>24, <2>1 DEF WriterEnds, WritersOK, Typed
  <2>3. ReplyOK'
    BY <1>24, ReplyToMany DEF WriterEnds, Replies
  <2> QED
    BY <1>24, <2>1, <2>2, <2>3, FrameShapes DEF WriterEnds, Typed, WriterUnchanged
<1>25. ASSUME NEW c \in Commands, Send(c) PROVE Typed'
  <2>1. ReplyOK'
    BY <1>25, ReplyToOne DEF Send, Replies
  <2>2. MailOK'
    BY <1>25, AppendProperties DEF Send, MailOK, Typed
  <2> QED
    BY <1>25, <2>1, <2>2, FrameShapes DEF Send, Typed
<1>26. CASE DropHandles
  <2>1. MailOK'
    BY <1>26 DEF DropHandles, MailOK, Typed
  <2>2. BudgetOK'
    BY <1>26 DEF DropHandles, Spend, BudgetOK, EnvKinds, Typed
  <2> QED
    BY <1>26, <2>1, <2>2, FrameShapes DEF DropHandles, Typed
<1>27. CASE AnnounceScene
  <2>1. announced + 1 \in Halves
    BY <1>27, Lv1Assumption DEF AnnounceScene, ConsoleOK, Halves, Announcements, Typed
  <2>2. ConsoleOK'
    BY <1>27, Lv1Assumption DEF AnnounceScene, ConsoleOK, Typed
  <2>3. InboundOK'
    BY <1>27, <2>1, TwoMore DEF AnnounceScene
  <2>4. BudgetOK'
    BY <1>27 DEF AnnounceScene, Spend, BudgetOK, EnvKinds, Typed
  <2> QED
    BY <1>27, <2>1, <2>2, <2>3, <2>4, FrameShapes DEF AnnounceScene, Typed, EnvUnchanged
<1>28. CASE Silence
  <2>1. ConsoleOK'
    BY <1>28 DEF Silence, ConsoleOK, Typed
  <2>2. BudgetOK'
    BY <1>28 DEF Silence, Spend, BudgetOK, EnvKinds, Typed
  <2> QED
    BY <1>28, <2>1, <2>2, FrameShapes DEF Silence, Typed, EnvUnchanged
<1>29. CASE Return
  <2>1. ConsoleOK'
    BY <1>29 DEF Return, ConsoleOK, Typed
  <2> QED
    BY <1>29, <2>1, FrameShapes DEF Return, Typed, EnvUnchanged
<1>30. ASSUME NEW kind \in {"ping", "list", "topology"}, Notify(kind) PROVE Typed'
  <2>1. Frame(kind, None) \in Frames
    BY DEF Frame, Frames, Halves
  <2>2. InboundOK'
    BY <1>30, <2>1, AppendProperties DEF Notify, InboundOK, Typed
  <2>3. BudgetOK'
    BY <1>30 DEF Notify, Spend, BudgetOK, EnvKinds, Typed
  <2> QED
    BY <1>30, <2>1, <2>2, <2>3, FrameShapes DEF Notify, Typed, EnvUnchanged
<1>31. ASSUME NEW s \in Sessions, Stall(s) PROVE Typed'
  <2>1. writers[s] \in Writers
    BY DEF WritersOK, Typed
  <2>2. [writers[s] EXCEPT !.stalled = TRUE] \in Writers
    BY <2>1 DEF Writers
  <2>3. WritersOK'
    BY <1>31, <2>2 DEF Stall, WritersOK, Typed
  <2>4. BudgetOK'
    BY <1>31 DEF Stall, Spend, BudgetOK, EnvKinds, Typed
  <2> QED
    BY <1>31, <2>1, <2>2, <2>3, <2>4, FrameShapes DEF Stall, Typed, EnvUnchanged
<1> QED
  BY <1>1, <1>2, <1>3, <1>4, <1>5, <1>6, <1>7, <1>8, <1>9, <1>10, <1>11, <1>12, <1>13, <1>14, <1>15, <1>16, <1>17, <1>18, <1>19, <1>20, <1>21, <1>22, <1>23, <1>24, <1>25, <1>26, <1>27, <1>28, <1>29, <1>30, <1>31
     DEF Next, ActorStep, Serve, Read, Establish, Stop, Lose, WriterStep, Environment

-----------------------------------------------------------------------------
(* Sequences of frames *)

\* A frame that is no half is read.
LEMMA DropOne ==
  ASSUME NEW s \in Seq(Frames), NEW n, Paired(s, n), s # <<>>, ~IsHalf(s[1])
  PROVE  Paired(Tail(s), n)
<1> DEFINE t == Tail(s)
<1>1. /\ DOMAIN s = 1 .. Len(s) /\ Len(s) \in Nat \ {0} /\ DOMAIN t = 1 .. Len(s) - 1
      /\ \A i \in DOMAIN t : t[i] = s[i + 1]
  BY Heads
<1> HIDE DEF t
<1>2. ASSUME NEW i \in DOMAIN t
      PROVE  /\ i + 1 \in DOMAIN s /\ t[i] = s[i + 1]
  BY <1>1
<1>3. ASSUME NEW i \in DOMAIN t, IsHalf(t[i])
      PROVE  \E j \in DOMAIN t : (j = i + 1 \/ i = j + 1) /\ Matches(t[i], t[j])
  <2>1. PICK k \in DOMAIN s : (k = i + 2 \/ i + 1 = k + 1) /\ Matches(s[i + 1], s[k])
    BY <1>1, <1>2, <1>3 DEF Paired
  <2>2. IsHalf(s[k])
    BY <2>1 DEF Matches, IsHalf
  <2>3. k - 1 \in DOMAIN t /\ t[k - 1] = s[k]
    BY <1>1, <2>1, <2>2
  <2> QED
    BY <1>2, <2>1, <2>3, <1>1
<1>4. ASSUME NEW i \in DOMAIN t, NEW j \in DOMAIN t, IsHalf(t[i]), IsHalf(t[j]),
             t[i].scene = t[j].scene, i < j
      PROVE  j = i + 1
  BY <1>1, <1>2, <1>4 DEF Paired
<1>5. \A i \in DOMAIN t : IF IsHalf(t[i]) THEN t[i].scene \in 1 .. n ELSE t[i].scene = None
  BY <1>2 DEF Paired
<1> QED
  BY <1>3, <1>4, <1>5 DEF Paired, t

\* The second half of a scene is read, its first one is before it.
LEMMA DropTwo ==
  ASSUME NEW s \in Seq(Frames), NEW n, NEW f \in Frames, Paired(<<f>> \o s, n), IsHalf(f)
  PROVE  /\ s # <<>> /\ Matches(f, Head(s))
         /\ Paired(Tail(s), n)
<1> DEFINE p == <<f>> \o s
           t == Tail(s)
<1>1. /\ DOMAIN s = 1 .. Len(s) /\ Len(s) \in Nat
      /\ DOMAIN p = 1 .. Len(s) + 1 /\ p[1] = f
      /\ \A i \in DOMAIN s : p[i + 1] = s[i]
  <2>1. <<f>> \in Seq(Frames) /\ Len(<<f>>) = 1 /\ <<f>>[1] = f
    OBVIOUS
  <2>2. p \in Seq(Frames) /\ Len(p) = Len(s) + 1
        /\ \A i \in 1 .. 1 + Len(s) : p[i] = IF i <= 1 THEN <<f>>[i] ELSE s[i - 1]
    BY <2>1, ConcatProperties
  <2> QED
    BY <2>1, <2>2, LenProperties
<1>0. Paired(p, n)
  OBVIOUS
<1> HIDE DEF p
<1>2. PICK k \in DOMAIN p : (k = 2 \/ 1 = k + 1) /\ Matches(p[1], p[k])
  BY <1>1, <1>0 DEF Paired
<1>3. k = 2 /\ 2 \in DOMAIN p /\ Len(s) >= 1 /\ p[2] = s[1] /\ Matches(f, s[1])
  BY <1>1, <1>2
<1>4. s # <<>>
  BY <1>1, <1>3
<1>5. Head(s) = s[1] /\ DOMAIN t = 1 .. Len(s) - 1 /\ \A i \in DOMAIN t : t[i] = s[i + 1]
  BY <1>4, Heads
<1> HIDE DEF t
<1>6. \A i \in DOMAIN t : i + 2 \in DOMAIN p /\ t[i] = p[i + 2]
  BY <1>1, <1>5
<1>7. ASSUME NEW i \in DOMAIN t, IsHalf(t[i])
      PROVE  \E j \in DOMAIN t : (j = i + 1 \/ i = j + 1) /\ Matches(t[i], t[j])
  <2>0. i + 2 \in DOMAIN p /\ IsHalf(p[i + 2])
    BY <1>6, <1>7
  <2>1. PICK j \in DOMAIN p : (j = (i + 2) + 1 \/ i + 2 = j + 1) /\ Matches(p[i + 2], p[j])
    BY <1>0, <2>0 DEF Paired
  <2>2. j # 2
    <3> SUFFICES ASSUME j = 2 PROVE FALSE
      OBVIOUS
    <3>1. i = 1 /\ 1 \in DOMAIN p /\ 3 \in DOMAIN p
      BY <1>1, <1>5, <1>6, <2>1
    <3>2. p[1].scene = p[3].scene /\ IsHalf(p[3]) /\ IsHalf(p[1])
      BY <1>1, <1>3, <1>6, <1>7, <2>1, <3>1 DEF Matches
    <3> QED
      BY <1>0, <3>1, <3>2 DEF Paired
  <2>3. j - 2 \in DOMAIN t /\ t[j - 2] = p[j]
    BY <1>1, <1>5, <1>6, <2>1, <2>2
  <2>4. j - 2 = i + 1 \/ i = (j - 2) + 1
    BY <1>1, <1>5, <2>1
  <2>5. Matches(t[i], t[j - 2])
    BY <1>6, <2>1, <2>3
  <2> QED
    BY <2>3, <2>4, <2>5
<1>8. ASSUME NEW i \in DOMAIN t, NEW j \in DOMAIN t, IsHalf(t[i]), IsHalf(t[j]),
             t[i].scene = t[j].scene, i < j
      PROVE  j = i + 1
  <2>1. i + 2 \in DOMAIN p /\ j + 2 \in DOMAIN p /\ i + 2 < j + 2
    BY <1>1, <1>5, <1>6, <1>8
  <2>2. j + 2 = i + 2 + 1
    BY <1>0, <1>6, <1>8, <2>1 DEF Paired
  <2> QED
    BY <1>5, <2>2
<1>9. \A i \in DOMAIN t : IF IsHalf(t[i]) THEN t[i].scene \in 1 .. n ELSE t[i].scene = None
  BY <1>0, <1>6 DEF Paired
<1>10. Paired(t, n)
  BY <1>7, <1>8, <1>9 DEF Paired
<1> QED
  BY <1>3, <1>4, <1>5, <1>10 DEF t

\* Another frame is sent.
LEMMA OneMore ==
  ASSUME NEW s \in Seq(Frames), NEW n, NEW kind \in {"ping", "list", "topology"}, Paired(s, n)
  PROVE  Paired(Append(s, Frame(kind, None)), n)
<1> DEFINE f == Frame(kind, None)
           t == Append(s, f)
<1>1. f \in Frames /\ ~IsHalf(f) /\ f.scene = None
  BY DEF Frame, Frames, Halves, IsHalf
<1> HIDE DEF f
<1>2. /\ DOMAIN s = 1 .. Len(s) /\ DOMAIN t = 1 .. Len(s) + 1 /\ Len(s) \in Nat
      /\ \A i \in DOMAIN s : t[i] = s[i]
      /\ t[Len(s) + 1] = f
  BY <1>1, AppendProperties, LenProperties
<1> HIDE DEF t
<1>3. \A i \in DOMAIN t : IsHalf(t[i]) => i \in DOMAIN s
  BY <1>1, <1>2
<1>4. ASSUME NEW i \in DOMAIN t, IsHalf(t[i])
      PROVE  \E j \in DOMAIN t : (j = i + 1 \/ i = j + 1) /\ Matches(t[i], t[j])
  <2>1. PICK j \in DOMAIN s : (j = i + 1 \/ i = j + 1) /\ Matches(s[i], s[j])
    BY <1>2, <1>3, <1>4 DEF Paired
  <2> QED
    BY <1>2, <1>3, <1>4, <2>1
<1>5. ASSUME NEW i \in DOMAIN t, NEW j \in DOMAIN t, IsHalf(t[i]), IsHalf(t[j]),
             t[i].scene = t[j].scene, i < j
      PROVE  j = i + 1
  BY <1>2, <1>3, <1>5 DEF Paired
<1>6. \A i \in DOMAIN t : IF IsHalf(t[i]) THEN t[i].scene \in 1 .. n ELSE t[i].scene = None
  BY <1>1, <1>2 DEF Paired
<1> QED
  BY <1>4, <1>5, <1>6 DEF Paired, t, f

\* The two frames of a new announcement are sent.
LEMMA PairMore ==
  ASSUME NEW s \in Seq(Frames), NEW n \in Nat, Paired(s, n), n + 1 \in Announcements,
         NEW f \in Frames, NEW g \in Frames, IsHalf(f), Matches(f, g), f.scene = n + 1
  PROVE  Paired(s \o <<f, g>>, n + 1)
<1> DEFINE t == s \o <<f, g>>
           L == Len(s)
<1>1. /\ DOMAIN s = 1 .. L /\ L \in Nat /\ DOMAIN t = 1 .. L + 2
      /\ \A i \in DOMAIN s : t[i] = s[i]
      /\ t[L + 1] = f /\ t[L + 2] = g
  <2>1. <<f, g>> \in Seq(Frames) /\ Len(<<f, g>>) = 2 /\ <<f, g>>[1] = f /\ <<f, g>>[2] = g
    OBVIOUS
  <2>2. L \in Nat /\ DOMAIN s = 1 .. L
    BY LenProperties
  <2>3. t \in Seq(Frames) /\ Len(t) = L + 2
        /\ \A i \in 1 .. L + 2 : t[i] = IF i <= L THEN s[i] ELSE <<f, g>>[i - L]
    BY <2>1, ConcatProperties
  <2>4. t[L + 1] = f /\ t[L + 2] = g
    BY <2>1, <2>2, <2>3
  <2> QED
    BY <2>2, <2>3, <2>4, LenProperties
<1>2. IsHalf(g) /\ g.scene = n + 1 /\ Matches(g, f)
  BY DEF Matches, IsHalf
<1> HIDE DEF t, L
<1>3. ASSUME NEW i \in DOMAIN t, IsHalf(t[i])
      PROVE  \E j \in DOMAIN t : (j = i + 1 \/ i = j + 1) /\ Matches(t[i], t[j])
  <2>1. CASE i \in DOMAIN s
    <3>1. PICK j \in DOMAIN s : (j = i + 1 \/ i = j + 1) /\ Matches(s[i], s[j])
      BY <1>1, <1>3, <2>1 DEF Paired
    <3> QED
      BY <1>1, <2>1, <3>1
  <2>2. CASE i = L + 1
    BY <1>1, <2>2
  <2>3. CASE i = L + 2
    BY <1>1, <1>2, <2>3
  <2> QED
    BY <1>1, <2>1, <2>2, <2>3
<1>4. \A i \in DOMAIN s : t[i].scene # n + 1
  BY <1>1, Lv1Assumption DEF Paired
<1>5. ASSUME NEW i \in DOMAIN t, NEW j \in DOMAIN t, IsHalf(t[i]), IsHalf(t[j]),
             t[i].scene = t[j].scene, i < j
      PROVE  j = i + 1
  <2>1. CASE j \in DOMAIN s
    <3>1. i \in DOMAIN s
      BY <1>1, <1>5, <2>1
    <3> QED
      BY <1>1, <1>5, <2>1, <3>1 DEF Paired
  <2>2. CASE j \notin DOMAIN s
    <3>1. t[j].scene = n + 1
      BY <1>1, <1>2, <2>2
    <3>2. i \notin DOMAIN s
      BY <1>4, <1>5, <3>1
    <3> QED
      BY <1>1, <1>5, <2>2, <3>2
  <2> QED
    BY <2>1, <2>2
<1>6. \A i \in DOMAIN t : IF IsHalf(t[i]) THEN t[i].scene \in 1 .. n + 1 ELSE t[i].scene = None
  <2> SUFFICES ASSUME NEW i \in DOMAIN t
               PROVE  IF IsHalf(t[i]) THEN t[i].scene \in 1 .. n + 1 ELSE t[i].scene = None
    OBVIOUS
  <2>1. CASE i \in DOMAIN s
    BY <1>1, <2>1 DEF Paired
  <2>2. CASE i = L + 1 \/ i = L + 2
    BY <1>1, <1>2, <2>2
  <2> QED
    BY <1>1, <2>1, <2>2
<1> QED
  BY <1>3, <1>5, <1>6 DEF Paired, t

LEMMA HeadThenTail ==
  ASSUME NEW S, NEW s \in Seq(S), s # <<>>
  PROVE  <<Head(s)>> \o Tail(s) = s
<1> DEFINE h == <<Head(s)>>
           t == h \o Tail(s)
<1>1. /\ Head(s) \in S /\ Tail(s) \in Seq(S) /\ Head(s) = s[1]
      /\ Len(s) \in Nat \ {0} /\ Len(Tail(s)) = Len(s) - 1 /\ DOMAIN Tail(s) = 1 .. Len(s) - 1
      /\ \A i \in DOMAIN Tail(s) : Tail(s)[i] = s[i + 1]
  BY Heads
<1>2. h \in Seq(S) /\ Len(h) = 1 /\ h[1] = s[1]
  BY <1>1
<1> HIDE DEF h
<1> DEFINE r == Tail(s)
<1> HIDE DEF r
<1>3. /\ t \in Seq(S) /\ Len(t) = 1 + Len(r)
      /\ \A i \in 1 .. 1 + Len(r) : t[i] = IF i <= 1 THEN h[i] ELSE r[i - 1]
  <2>1. r \in Seq(S) /\ t = h \o r
    BY <1>1 DEF r
  <2> HIDE DEF t
  <2>2. /\ h \o r \in Seq(S) /\ Len(h \o r) = Len(h) + Len(r)
        /\ \A i \in 1 .. Len(h) + Len(r) :
              (h \o r)[i] = IF i <= Len(h) THEN h[i] ELSE r[i - Len(h)]
    BY <1>2, <2>1, ConcatProperties
  <2> QED
    BY <1>2, <2>1, <2>2
<1> HIDE DEF t
<1>4. Len(t) = Len(s)
  BY <1>1, <1>3 DEF r
<1>5. \A i \in 1 .. Len(t) : t[i] = s[i]
  BY <1>1, <1>2, <1>3, <1>4 DEF r
<1>6. t = s
  BY <1>3, <1>4, <1>5, SeqEqual
<1> QED
  BY <1>6 DEF t, h


-----------------------------------------------------------------------------
(* The mirror: every step *)

\* Only a connected session reads and forgets.
LEMMA SessionStep == ASSUME Typed, SessionOwned, Next PROVE SessionOwned'
<1> USE DEF SessionOwned, EmptyMirror, Phases
<1>1. CASE ServeDisconnected \/ ServeStale
  BY <1>1 DEF ServeDisconnected, ServeStale
<1>2. CASE ServeRead \/ ServeWrite \/ ServeFlush
  BY <1>2
     DEF ServeRead, ServeWrite, ServeFlush, Serving, ServeUnchanged, EndSession, ForgetSession
<1>3. CASE Read
  BY <1>3
     DEF Read, ReadPing, ReadIndex, ReadName, ReadList, ReadTopology, Reading, FrameUnchanged,
         EndSession, ForgetSession
<1>4. CASE ConnectSucceeds
  <2>1. session + 1 \in Sessions
    BY <1>4, Lv1Assumption DEF ConnectSucceeds, Sessions, Typed, SessionOK
  <2> QED
    BY <1>4, <2>1 DEF ConnectSucceeds, Typed, MirrorOK, Mirrors
<1>5. CASE RegisterSucceeds \/ Connected
  BY <1>5 DEF RegisterSucceeds, Connected
<1>6. CASE ChannelClosed \/ AttemptFails \/ DelayEnds
  BY <1>6 DEF ChannelClosed, AttemptFails, DelayEnds
<1>7. CASE SessionClosed \/ Lose \/ ReadFails
  BY <1>7
     DEF SessionClosed, Lose, PingTimeout, WriterError, ReadFails, EndSession, ForgetSession
<1>8. CASE \E s \in Sessions : WriterStep(s)
  BY <1>8 DEF WriterStep, WriterTake, WriterWrites, WriterFails, WriterEnds, WriterUnchanged
<1>9. CASE Environment
  BY <1>9
     DEF Environment, Send, DropHandles, AnnounceScene, Silence, Return, Notify, Stall,
         EnvUnchanged, Registered
<1> QED
  BY <1>1, <1>2, <1>3, <1>4, <1>5, <1>6, <1>7, <1>8, <1>9
     DEF Next, ActorStep, Serve, Establish, Stop

\* Nothing is paired of an empty sequence.
LEMMA PairedNone == ASSUME NEW n PROVE Paired(<<>>, n)
BY DEF Paired

LEMMA Forgotten ==
  ASSUME NEW next, EndSession(next)
  PROVE  MirrorOfSession' /\ HalvesPaired'
<1>1. buf' = NoHalves /\ inbound' = <<>>
  BY DEF EndSession, ForgetSession
<1>2. Awaited' = <<>>
  BY <1>1 DEF Awaited
<1>3. Paired(Awaited', announced')
  BY <1>2, PairedNone
<1> QED
  BY <1>1, <1>3 DEF EndSession, ForgetSession, EmptyMirror, MirrorOfSession, HalvesPaired, NoHalves, Paired

\* What the buffer holds is a half.
LEMMA BufferedHalf ==
  ASSUME Typed, None \in {buf.index, buf.name}, buf # NoHalves
  PROVE  /\ Buffered \in Frames /\ IsHalf(Buffered) /\ Buffered.scene # None
         /\ Buffered.kind = "index" <=> buf.index # None
         /\ Buffered.kind = "name" <=> buf.name # None
         /\ Buffered.kind = "index" => buf.index = Buffered.scene
         /\ Buffered.kind = "name" => buf.name = Buffered.scene
<1>1. buf \in [index : Halves, name : Halves]
  BY DEF Typed, MirrorOK
<1>2. buf.index # None \/ buf.name # None
  <2> SUFFICES ASSUME buf.index = None, buf.name = None PROVE FALSE
    OBVIOUS
  <2> QED
    BY <1>1 DEF NoHalves
<1> QED
  BY <1>1, <1>2 DEF Buffered, Frame, Frames, IsHalf, Halves

\* A half is read: it is kept, or it completes the one that was kept.
LEMMA HalfRead ==
  ASSUME Typed, PairsInv, session \in Sessions, inbound # <<>>, inbound' = Tail(inbound),
         announced' = announced, session' = session,
         NEW halves \in [index : Halves, name : Halves], Observe(halves),
         \/ Head(inbound).kind = "index" /\ halves = [buf EXCEPT !.index = Head(inbound).scene]
         \/ Head(inbound).kind = "name" /\ halves = [buf EXCEPT !.name = Head(inbound).scene]
  PROVE  MirrorOfSession' /\ HalvesPaired'
<1> DEFINE f == Head(inbound)
<1>1. f \in Frames /\ Tail(inbound) \in Seq(Frames) /\ f = inbound[1] /\ 1 \in DOMAIN inbound
  BY Heads DEF Typed, InboundOK
<1>2. buf \in [index : Halves, name : Halves] /\ inbound \in Seq(Frames)
  BY DEF Typed, MirrorOK, InboundOK
<1> HIDE DEF f
<1>3. IsHalf(f) /\ f = Frame(f.kind, f.scene)
  BY <1>1 DEF IsHalf, Frame, Frames, f
<1>4. CASE buf = NoHalves
  <2>1. Paired(inbound, announced)
    BY <1>4 DEF PairsInv, HalvesPaired, Awaited
  <2>2. f.scene # None
    BY <1>1, <1>3, <2>1, Lv1Assumption DEF Paired
  <2>3. None \in {halves.index, halves.name} /\ halves # NoHalves
    BY <1>4, <2>2 DEF NoHalves, f
  <2>4. buf' = halves /\ mirror' = mirror
    BY <2>3 DEF Observe
  <2>5. Buffered' = f
    BY <1>3, <1>4, <2>2, <2>4 DEF Buffered, NoHalves, Frame, f
  <2>6. Awaited' = <<f>> \o Tail(inbound)
    BY <2>3, <2>4, <2>5 DEF Awaited
  <2>7. <<f>> \o Tail(inbound) = inbound
    BY <1>2, HeadThenTail DEF f
  <2>8. Paired(Awaited', announced')
    BY <2>1, <2>6, <2>7
  <2>9. MirrorOfSession'
    BY <2>4 DEF PairsInv, MirrorOfSession
  <2> QED
    BY <2>3, <2>4, <2>8, <2>9 DEF HalvesPaired, Paired
<1>5. CASE buf # NoHalves
  <2>1. Paired(<<Buffered>> \o inbound, announced)
    BY <1>5 DEF PairsInv, HalvesPaired, Awaited
  <2>2. /\ Buffered \in Frames /\ IsHalf(Buffered) /\ Buffered.scene # None
        /\ Buffered.kind = "index" => buf.index = Buffered.scene /\ buf.index # None
        /\ Buffered.kind = "name" => buf.name = Buffered.scene /\ buf.name # None
    BY <1>5, BufferedHalf DEF PairsInv, HalvesPaired
  <2>3. Matches(Buffered, f) /\ Paired(Tail(inbound), announced)
    BY <1>2, <2>1, <2>2, DropTwo DEF f
  <2>4. halves.index = Buffered.scene /\ halves.name = Buffered.scene
    <3>1. CASE f.kind = "index"
      BY <1>2, <2>2, <2>3, <3>1 DEF Matches, f
    <3>2. CASE f.kind = "name"
      BY <1>2, <2>2, <2>3, <3>2 DEF Matches, f
    <3> QED
      BY <1>3, <3>1, <3>2 DEF IsHalf
  <2>5. None \notin {halves.index, halves.name}
    BY <2>2, <2>4
  <2>6. buf' = NoHalves
        /\ mirror' = [mirror EXCEPT
             !.seq = mirror.seq + 1,
             !.scene = [index |-> halves.index, name |-> halves.name, session |-> session,
                        seq |-> mirror.seq + 1]]
    BY <2>5 DEF Observe
  <2>7. Paired(Awaited', announced')
    BY <2>3, <2>6 DEF Awaited
  <2>8. MirrorOfSession'
    BY <2>4, <2>6 DEF PairsInv, MirrorOfSession, Typed, MirrorOK, Mirrors
  <2> QED
    BY <2>6, <2>7, <2>8 DEF HalvesPaired, NoHalves, Paired
<1> QED
  BY <1>4, <1>5

\* Another frame is read: no half is waiting for it.
LEMMA OtherRead ==
  ASSUME Typed, PairsInv, inbound # <<>>, inbound' = Tail(inbound), announced' = announced,
         buf' = buf, Head(inbound).kind \notin {"index", "name"}
  PROVE  HalvesPaired'
<1>1. inbound \in Seq(Frames) /\ inbound[1] = Head(inbound)
  BY Heads DEF Typed, InboundOK
<1>2. ~IsHalf(inbound[1])
  BY <1>1 DEF IsHalf
<1>3. buf = NoHalves
  <2> SUFFICES ASSUME buf # NoHalves PROVE FALSE
    OBVIOUS
  <2>1. Buffered \in Frames /\ IsHalf(Buffered)
    BY BufferedHalf DEF PairsInv, HalvesPaired
  <2>2. Matches(Buffered, Head(inbound))
    BY <1>1, <2>1, DropTwo DEF PairsInv, HalvesPaired, Awaited
  <2> QED
    BY <1>1, <1>2, <2>2 DEF Matches, IsHalf
<1>4. Paired(inbound, announced)
  BY <1>3 DEF PairsInv, HalvesPaired, Awaited
<1>5. Paired(Tail(inbound), announced)
  BY <1>1, <1>2, <1>4, DropOne
<1>6. Awaited' = Tail(inbound)
  BY <1>3 DEF Awaited
<1> QED
  BY <1>5, <1>6 DEF PairsInv, HalvesPaired, Paired

\* Frames are sent: behind what waits.
LEMMA MoreAwaited ==
  ASSUME Typed, None \in {buf.index, buf.name}, NEW q \in Seq(Frames), inbound' = inbound \o q,
         buf' = buf
  PROVE  Awaited \in Seq(Frames) /\ Awaited' = Awaited \o q
<1>1. inbound \in Seq(Frames)
  BY DEF Typed, InboundOK
<1>2. CASE buf = NoHalves
  BY <1>1, <1>2 DEF Awaited
<1>3. CASE buf # NoHalves
  <2>1. <<Buffered>> \in Seq(Frames) /\ Buffered' = Buffered
    BY <1>3, BufferedHalf DEF Buffered
  <2>2. Awaited = <<Buffered>> \o inbound /\ Awaited' = <<Buffered>> \o (inbound \o q)
    BY <1>3, <2>1 DEF Awaited
  <2> QED
    BY <1>1, <2>1, <2>2, ConcatAssociative, ConcatProperties
<1> QED
  BY <1>2, <1>3

\* Every step keeps the pairs together.
LEMMA PairsStep == ASSUME Typed, PairsInv, Next PROVE PairsInv'
<1>1. SessionOwned'
  BY SessionStep DEF PairsInv
<1> SUFFICES (MirrorOfSession /\ HalvesPaired)'
  BY <1>1 DEF PairsInv
<1>2. ASSUME UNCHANGED <<session, mirror, buf, inbound, announced>> PROVE (MirrorOfSession /\ HalvesPaired)'
  BY <1>2, ZenonT(60) DEF PairsInv, HalvesPaired, MirrorOfSession, Paired, Awaited, Buffered
<1>3. ASSUME NEW next \in Phases, EndSession(next) PROVE (MirrorOfSession /\ HalvesPaired)'
  BY <1>3, Forgotten
<1>4. phase = "connected" => session \in Sessions
  BY DEF PairsInv, SessionOwned
<1>5. CASE ServeDisconnected \/ ServeStale \/ ServeRead
  BY <1>2, <1>5 DEF ServeDisconnected, ServeStale, ServeRead, ServeUnchanged
<1>6. CASE ServeWrite \/ ServeFlush
  BY <1>2, <1>3, <1>6 DEF ServeWrite, ServeFlush, ServeUnchanged, Phases
<1>7. CASE ReadPing
  <2>1. CASE HasRoom
    <3>1. /\ inbound # <<>> /\ inbound' = Tail(inbound) /\ Head(inbound).kind = "ping"
          /\ announced' = announced /\ buf' = buf /\ session' = session
          /\ mirror' = [mirror EXCEPT !.pings = mirror.pings + 1]
      BY <1>7, <2>1 DEF ReadPing, Reading, NextFrame
    <3>2. MirrorOfSession'
      BY <3>1 DEF PairsInv, MirrorOfSession, Typed, MirrorOK, Mirrors
    <3> QED
      BY <3>1, <3>2, OtherRead
  <2>2. CASE ~HasRoom
    BY <1>3, <1>7, <2>2 DEF ReadPing, Phases
  <2> QED
    BY <2>1, <2>2
<1>8. CASE ReadIndex
  <2> DEFINE halves == [buf EXCEPT !.index = Head(inbound).scene]
  <2>1. /\ inbound # <<>> /\ inbound' = Tail(inbound) /\ Head(inbound).kind = "index"
        /\ announced' = announced /\ session' = session /\ session \in Sessions
        /\ Observe(halves)
    BY <1>4, <1>8 DEF ReadIndex, Reading, NextFrame, FrameUnchanged
  <2>2. halves \in [index : Halves, name : Halves]
    BY <2>1, Heads DEF Typed, MirrorOK, InboundOK, Frames
  <2> HIDE DEF halves
  <2>3. halves = [buf EXCEPT !.index = Head(inbound).scene]
    BY DEF halves
  <2> QED
    BY <2>1, <2>2, <2>3, HalfRead
<1>9. CASE ReadName
  <2> DEFINE halves == [buf EXCEPT !.name = Head(inbound).scene]
  <2>1. /\ inbound # <<>> /\ inbound' = Tail(inbound) /\ Head(inbound).kind = "name"
        /\ announced' = announced /\ session' = session /\ session \in Sessions
        /\ Observe(halves)
    BY <1>4, <1>9 DEF ReadName, Reading, NextFrame, FrameUnchanged
  <2>2. halves \in [index : Halves, name : Halves]
    BY <2>1, Heads DEF Typed, MirrorOK, InboundOK, Frames
  <2> HIDE DEF halves
  <2>3. halves = [buf EXCEPT !.name = Head(inbound).scene]
    BY DEF halves
  <2> QED
    BY <2>1, <2>2, <2>3, HalfRead
<1>10. CASE ReadList \/ ReadTopology
  <2>1. /\ inbound # <<>> /\ inbound' = Tail(inbound) /\ Head(inbound).kind \notin {"index", "name"}
        /\ announced' = announced /\ buf' = buf /\ session' = session
        /\ \/ mirror' = [mirror EXCEPT !.list = session]
           \/ mirror' = [mirror EXCEPT !.topology = session]
    BY <1>10 DEF ReadList, ReadTopology, Reading, NextFrame, FrameUnchanged
  <2>2. MirrorOfSession'
    BY <2>1 DEF PairsInv, MirrorOfSession, Typed, MirrorOK, Mirrors
  <2> QED
    BY <2>1, <2>2, OtherRead
<1>11. CASE ConnectSucceeds
  <2>1. /\ mirror' = [mirror EXCEPT !.seq = 0, !.pings = 0]
        /\ UNCHANGED <<buf, inbound, announced>>
        /\ mirror.scene = None /\ mirror.list = None /\ mirror.topology = None
    BY <1>11 DEF ConnectSucceeds, PairsInv, SessionOwned
  <2>2. MirrorOfSession'
    BY <2>1 DEF MirrorOfSession, Typed, MirrorOK, Mirrors
  <2> QED
    BY <2>1, <2>2, ZenonT(60) DEF PairsInv, HalvesPaired, Awaited, Buffered, Paired
<1>12. CASE RegisterSucceeds \/ Connected \/ ChannelClosed \/ AttemptFails \/ DelayEnds
  BY <1>2, <1>12 DEF RegisterSucceeds, Connected, ChannelClosed, AttemptFails, DelayEnds
<1>13. CASE SessionClosed \/ Lose \/ ReadFails
  BY <1>3, <1>13 DEF SessionClosed, Lose, PingTimeout, WriterError, ReadFails, Phases
<1>14. CASE \E s \in Sessions : WriterStep(s)
  BY <1>2, <1>14
     DEF WriterStep, WriterTake, WriterWrites, WriterFails, WriterEnds, WriterUnchanged
<1>15. CASE AnnounceScene
  <2>1. PICK first \in {"index", "name"} :
          inbound' = inbound \o <<Frame(first, announced + 1),
                        Frame(IF first = "index" THEN "name" ELSE "index", announced + 1)>>
    BY <1>15 DEF AnnounceScene
  <2> DEFINE f == Frame(first, announced + 1)
             g == Frame(IF first = "index" THEN "name" ELSE "index", announced + 1)
  <2>2. announced \in Nat /\ announced + 1 \in Announcements /\ announced' = announced + 1
    BY <1>15, Lv1Assumption DEF AnnounceScene, Typed, ConsoleOK, Announcements
  <2>3. f \in Frames /\ g \in Frames /\ IsHalf(f) /\ Matches(f, g) /\ f.scene = announced + 1
    BY <2>2 DEF Frame, Frames, Halves, IsHalf, Matches
  <2>4. inbound' = inbound \o <<f, g>>
    BY <2>1
  <2> HIDE DEF f, g
  <2>5. <<f, g>> \in Seq(Frames) /\ UNCHANGED <<session, mirror, buf>>
    BY <1>15, <2>3 DEF AnnounceScene, EnvUnchanged
  <2>6. Awaited \in Seq(Frames) /\ Awaited' = Awaited \o <<f, g>>
    BY <2>4, <2>5, MoreAwaited DEF PairsInv, HalvesPaired
  <2>7. Paired(Awaited \o <<f, g>>, announced + 1)
    BY <2>2, <2>3, <2>6, PairMore DEF PairsInv, HalvesPaired
  <2>8. Paired(Awaited', announced')
    BY <2>2, <2>6, <2>7
  <2> QED
    BY <2>5, <2>8 DEF PairsInv, HalvesPaired, MirrorOfSession
<1>16. ASSUME NEW kind \in {"ping", "list", "topology"}, Notify(kind) PROVE (MirrorOfSession /\ HalvesPaired)'
  <2> DEFINE f == Frame(kind, None)
  <2>1. f \in Frames
    BY DEF Frame, Frames, Halves
  <2>2. inbound' = Append(inbound, f) /\ UNCHANGED <<session, mirror, buf, announced>>
    BY <1>16 DEF Notify, EnvUnchanged
  <2> HIDE DEF f
  <2>3. inbound' = inbound \o <<f>> /\ <<f>> \in Seq(Frames)
    BY <2>1, <2>2, AppendIsConcat DEF Typed, InboundOK
  <2>4. Awaited \in Seq(Frames) /\ Awaited' = Awaited \o <<f>>
    BY <2>2, <2>3, MoreAwaited DEF PairsInv, HalvesPaired
  <2>5. Awaited' = Append(Awaited, f)
    BY <2>1, <2>4, AppendIsConcat
  <2>6. Paired(Append(Awaited, f), announced)
    BY <2>4, OneMore DEF f, PairsInv, HalvesPaired
  <2>7. Paired(Awaited', announced')
    BY <2>2, <2>5, <2>6
  <2> QED
    BY <2>2, <2>7 DEF PairsInv, HalvesPaired, MirrorOfSession, Paired
<1>17. CASE (\E c \in Commands : Send(c)) \/ DropHandles \/ Silence \/ Return \/ \E s \in Sessions : Stall(s)
  BY <1>2, <1>17 DEF Send, DropHandles, Silence, Return, Stall, EnvUnchanged
<1> QED
  BY <1>5, <1>6, <1>7, <1>8, <1>9, <1>10, <1>11, <1>12, <1>13, <1>14, <1>15, <1>16, <1>17
     DEF Next, ActorStep, Serve, Read, Establish, Stop, Environment

-----------------------------------------------------------------------------
(* The writers: what one step does to one writer *)

LEMMA KindsApart ==
  ASSUME NEW c
  PROVE  /\ IsFlush(c) => c \in Commands /\ c \notin Writes /\ c # "idle" /\ c # "pong"
         /\ c \in Commands => c # "idle" /\ c # "pong"
         /\ c \in Writes => c \in Commands /\ ~IsFlush(c)
BY Lv1Assumption DEF IsFlush, Writes

LEMMA OrderKept ==
  ASSUME NEW w \in Writers, NEW v \in Writers, NEW d, NEW e, NEW p, NEW q, InOrder(w, d, p),
         v.status = w.status, v.queue = w.queue, v.current = w.current, v.accepted = w.accepted,
         d \subseteq e,
         \A i \in DOMAIN w.queue : IsFlush(w.queue[i]) => q[w.queue[i]] = p[w.queue[i]],
         IsFlush(w.current) => q[w.current] = p[w.current]
  PROVE  InOrder(v, e, q)
<1>1. \A i : Ahead(v, i) = Ahead(w, i)
  BY DEF Ahead
<1> QED
  BY <1>1 DEF InOrder

LEMMA OrderTaken ==
  ASSUME NEW w \in Writers, NEW d, NEW p, InOrder(w, d, p), \A c \in Commands : p[c] \subseteq Writes,
         w.status = "running", w.current = "idle", w.queue # <<>>
  PROVE  InOrder([w EXCEPT !.current = Head(w.queue), !.queue = Tail(w.queue)], d, p)
<1> DEFINE v == [w EXCEPT !.current = Head(w.queue), !.queue = Tail(w.queue)]
<1>1. /\ v.current = w.queue[1] /\ v.queue = Tail(w.queue) /\ v.accepted = w.accepted
      /\ v.status = w.status
      /\ Len(w.queue) \in Nat \ {0} /\ DOMAIN w.queue = 1 .. Len(w.queue)
      /\ Len(v.queue) = Len(w.queue) - 1 /\ DOMAIN v.queue = 1 .. Len(w.queue) - 1
      /\ \A i \in DOMAIN v.queue : v.queue[i] = w.queue[i + 1]
  BY Heads DEF Writers
<1> HIDE DEF v
<1>2. ASSUME NEW i \in 1 .. Len(w.queue), NEW c \in Writes, c \in Ahead(w, i + 1)
      PROVE  c \in Ahead(v, i)
  <2>1. c # w.current
    BY <1>2, KindsApart
  <2>2. PICK j \in 1 .. i : c = w.queue[j]
    BY <1>2, <2>1 DEF Ahead
  <2>3. CASE j = 1
    BY <1>1, <2>2, <2>3 DEF Ahead
  <2>4. CASE j # 1
    <3>1. j - 1 \in 1 .. i - 1 /\ j - 1 \in DOMAIN v.queue /\ v.queue[j - 1] = c
      BY <1>1, <2>2, <2>4
    <3> QED
      BY <3>1 DEF Ahead
  <2> QED
    BY <2>3, <2>4
<1>3. v.accepted \subseteq d \cup Ahead(v, Len(v.queue) + 1)
  <2> SUFFICES ASSUME NEW c \in w.accepted, c \notin d PROVE c \in Ahead(v, Len(w.queue))
    BY <1>1
  <2> QED
    BY <1>1, <1>2 DEF InOrder
<1>4. ASSUME NEW i \in DOMAIN v.queue, IsFlush(v.queue[i])
      PROVE  p[v.queue[i]] \subseteq d \cup Ahead(v, i)
  <2>1. i + 1 \in DOMAIN w.queue /\ v.queue[i] = w.queue[i + 1] /\ i \in 1 .. Len(w.queue)
    BY <1>1
  <2>2. p[v.queue[i]] \subseteq Writes /\ p[v.queue[i]] \subseteq d \cup Ahead(w, i + 1)
    BY <1>4, <2>1, KindsApart DEF InOrder
  <2> QED
    BY <1>2, <2>1, <2>2
<1>5. ASSUME IsFlush(v.current) PROVE p[v.current] \subseteq d
  <2>1. p[v.current] \subseteq Writes /\ p[v.current] \subseteq d \cup Ahead(w, 1)
    BY <1>1, <1>5, KindsApart DEF InOrder
  <2>2. Ahead(w, 1) = {"idle"}
    BY DEF Ahead
  <2> QED
    BY <2>1, <2>2, KindsApart
<1>6. InOrder(v, d, p)
  BY <1>1, <1>3, <1>4, <1>5 DEF InOrder
<1> QED
  BY <1>6 DEF v

LEMMA OrderWritten ==
  ASSUME NEW w \in Writers, NEW d, NEW p, InOrder(w, d, p), \A c \in Commands : p[c] \subseteq Writes,
         w.status = "running"
  PROVE  InOrder([w EXCEPT !.current = "idle"], d \cup ({w.current} \cap Writes), p)
<1> DEFINE v == [w EXCEPT !.current = "idle"]
           e == d \cup ({w.current} \cap Writes)
<1>1. /\ v.current = "idle" /\ v.queue = w.queue /\ v.accepted = w.accepted
      /\ v.status = w.status
  BY DEF Writers
<1>2. ASSUME NEW i, NEW c \in Writes, c \in d \cup Ahead(w, i) PROVE c \in e \cup Ahead(v, i)
  BY <1>1, <1>2 DEF Ahead
<1> HIDE DEF v, e
<1>3. v.accepted \subseteq e \cup Ahead(v, Len(v.queue) + 1)
  BY <1>1, <1>2 DEF InOrder
<1>4. ASSUME NEW i \in DOMAIN v.queue, IsFlush(v.queue[i])
      PROVE  p[v.queue[i]] \subseteq e \cup Ahead(v, i)
  <2>1. p[v.queue[i]] \subseteq Writes /\ p[v.queue[i]] \subseteq d \cup Ahead(w, i)
    BY <1>1, <1>4, KindsApart DEF InOrder
  <2> QED
    BY <1>2, <2>1
<1>5. ~IsFlush(v.current)
  BY <1>1, KindsApart
<1>6. InOrder(v, e, p)
  BY <1>1, <1>3, <1>4, <1>5 DEF InOrder
<1> QED
  BY <1>6 DEF v, e

LEMMA OrderQueued ==
  ASSUME NEW w \in Writers, NEW e \in Entries, NEW d, NEW p, NEW q, InOrder(w, d, p),
         \A i \in DOMAIN w.queue : IsFlush(w.queue[i]) => q[w.queue[i]] = p[w.queue[i]],
         IsFlush(w.current) => q[w.current] = p[w.current],
         IsFlush(e) => q[e] = w.accepted
  PROVE  InOrder([w EXCEPT !.queue = Append(w.queue, e),
                           !.accepted = w.accepted \cup ({e} \cap Writes)], d, q)
<1> DEFINE v == [w EXCEPT !.queue = Append(w.queue, e),
                          !.accepted = w.accepted \cup ({e} \cap Writes)]
           L == Len(w.queue)
<1>1. /\ v.current = w.current /\ v.accepted = w.accepted \cup ({e} \cap Writes)
      /\ v.status = w.status
      /\ L \in Nat /\ DOMAIN w.queue = 1 .. L
      /\ Len(v.queue) = L + 1 /\ DOMAIN v.queue = 1 .. L + 1
      /\ \A i \in 1 .. L : v.queue[i] = w.queue[i]
      /\ v.queue[L + 1] = e
  <2>1. v.queue = Append(w.queue, e) /\ w.queue \in Seq(Entries)
    BY DEF Writers
  <2>2. v.queue \in Seq(Entries)
    BY <2>1, AppendProperties
  <2> QED
    BY <2>1, <2>2, AppendProperties, LenProperties DEF Writers
<1> HIDE DEF v, L
<1>2. ASSUME NEW i \in 1 .. L + 1 PROVE Ahead(v, i) = Ahead(w, i)
  <2>1. \A j \in 1 .. i - 1 : v.queue[j] = w.queue[j]
    BY <1>1
  <2> QED
    BY <1>1, <2>1 DEF Ahead
<1>3. Ahead(w, L + 1) \subseteq Ahead(v, L + 2) /\ e \in Ahead(v, L + 2)
  <2>1. L + 1 \in 1 .. (L + 2) - 1
    BY <1>1
  <2>2. \A j \in 1 .. (L + 1) - 1 : j \in 1 .. (L + 2) - 1 /\ v.queue[j] = w.queue[j]
    BY <1>1
  <2> QED
    BY <1>1, <2>1, <2>2 DEF Ahead
<1>4. v.accepted \subseteq Writes
  BY <1>1 DEF InOrder
<1>5. CASE w.status = "running"
  <2>1. v.accepted \subseteq d \cup Ahead(v, Len(v.queue) + 1)
    <3>1. Len(v.queue) + 1 = L + 2
      BY <1>1
    <3>2. w.accepted \subseteq d \cup Ahead(w, L + 1)
      BY <1>5 DEF InOrder, L
    <3> QED
      BY <1>1, <1>3, <3>1, <3>2
  <2>2. ASSUME NEW i \in DOMAIN v.queue, IsFlush(v.queue[i])
        PROVE  q[v.queue[i]] \subseteq d \cup Ahead(v, i)
    <3>1. CASE i \in DOMAIN w.queue
      <4>1. v.queue[i] = w.queue[i] /\ i \in 1 .. L + 1
        BY <1>1, <3>1
      <4>2. q[w.queue[i]] = p[w.queue[i]] /\ p[w.queue[i]] \subseteq d \cup Ahead(w, i)
        BY <1>5, <2>2, <3>1, <4>1 DEF InOrder
      <4> QED
        BY <1>2, <4>1, <4>2
    <3>2. CASE i = L + 1
      <4>1. q[v.queue[i]] = w.accepted
        BY <1>1, <2>2, <3>2
      <4>2. w.accepted \subseteq d \cup Ahead(w, L + 1)
        BY <1>5 DEF InOrder, L
      <4>3. Ahead(v, L + 1) = Ahead(w, L + 1)
        BY <1>1, <1>2
      <4> QED
        BY <3>2, <4>1, <4>2, <4>3
    <3> QED
      BY <1>1, <3>1, <3>2
  <2>3. IsFlush(v.current) => q[v.current] \subseteq d
    BY <1>1, <1>5 DEF InOrder
  <2> QED
    BY <1>4, <2>1, <2>2, <2>3 DEF InOrder, v
<1>6. CASE w.status # "running"
  BY <1>1, <1>4, <1>6 DEF InOrder, v
<1> QED
  BY <1>5, <1>6

\* An idle writer owes nothing.
LEMMA OrderNew ==
  ASSUME NEW status, NEW d, NEW p PROVE InOrder(NewWriter(status), d, p)
BY KindsApart DEF InOrder, NewWriter

-----------------------------------------------------------------------------
(* The writers: every step *)

\* A command leaves the mailbox, and a caller never goes back to not having sent.
LEMMA Served ==
  ASSUME Typed, MailboxOnce, UnsentFresh, TakeCommand, NEW c, c = Head(mailbox),
         \A d \in Commands \ {c} : /\ reply'[d] = reply[d] /\ before'[d] = before[d]
                                   /\ Nowhere(d) => Nowhere(d)',
         reply'[c] # "unsent"
  PROVE  MailboxOnce' /\ UnsentFresh'
<1>1. /\ c \in Commands /\ c = mailbox[1] /\ 1 \in DOMAIN mailbox
      /\ mailbox' \in Seq(Commands)
      /\ \A i \in DOMAIN mailbox' : i + 1 \in DOMAIN mailbox /\ mailbox'[i] = mailbox[i + 1]
  BY TakenCommand
<1>2. \A i \in DOMAIN mailbox' : i \in Nat \ {0}
  BY <1>1, LenProperties
<1>3. ASSUME NEW i \in DOMAIN mailbox' PROVE mailbox'[i] \in Commands \ {c}
  <2>1. mailbox[i + 1] # c
    BY <1>1, <1>2, <1>3 DEF MailboxOnce
  <2> QED
    BY <1>1, <1>3, <2>1, LenProperties, ElementOfSeq
<1>4. ASSUME NEW i \in DOMAIN mailbox', NEW d, d = mailbox'[i]
      PROVE  /\ reply'[d] = "waiting" /\ before'[d] = {} /\ Nowhere(d)'
             /\ \A j \in DOMAIN mailbox' : mailbox'[j] = d => j = i
  <2>1. d = mailbox[i + 1] /\ i + 1 \in DOMAIN mailbox /\ d \in Commands \ {c}
    BY <1>1, <1>3, <1>4
  <2>2. reply[d] = "waiting" /\ before[d] = {} /\ Nowhere(d)
    BY <2>1 DEF MailboxOnce
  <2>3. \A j \in DOMAIN mailbox' : mailbox'[j] = d => j = i
    BY <1>1, <1>2, <2>1 DEF MailboxOnce
  <2> QED
    BY <2>1, <2>2, <2>3
<1>5. MailboxOnce'
  BY <1>4 DEF MailboxOnce, Nowhere
<1>6. ASSUME NEW d \in Commands, reply'[d] = "unsent"
      PROVE  before'[d] = {} /\ (\A i \in DOMAIN mailbox' : mailbox'[i] # d) /\ Nowhere(d)'
  <2>1. d # c /\ reply[d] = "unsent"
    BY <1>6
  <2>2. before[d] = {} /\ Nowhere(d) /\ \A i \in DOMAIN mailbox : mailbox[i] # d
    BY <2>1 DEF UnsentFresh
  <2> QED
    BY <1>1, <2>1, <2>2
<1> QED
  BY <1>5, <1>6 DEF UnsentFresh

\* The mailbox is left alone, and those no writer has are told nothing.
LEMMA NotServed ==
  ASSUME Typed, MailboxOnce, UnsentFresh, mailbox' = mailbox, before' = before,
         \A d \in Commands : /\ Nowhere(d) => Nowhere(d)' /\ reply'[d] = reply[d]
                             /\ reply'[d] = "unsent" => reply[d] = "unsent"
  PROVE  MailboxOnce' /\ UnsentFresh'
<1>1. \A i \in DOMAIN mailbox : mailbox[i] \in Commands
  BY LenProperties, ElementOfSeq DEF Typed, MailOK
<1>2. MailboxOnce'
  <2> SUFFICES ASSUME NEW i \in DOMAIN mailbox
               PROVE  reply'[mailbox[i]] = "waiting" /\ Nowhere(mailbox[i])'
    BY DEF MailboxOnce, Nowhere
  <2> QED
    BY <1>1 DEF MailboxOnce
<1>3. UnsentFresh'
  BY DEF UnsentFresh
<1> QED
  BY <1>2, <1>3

\* No writer changes what it has.
SameWriters ==
    \A s \in Sessions : /\ writers'[s] \in Writers
                        /\ writers'[s].status = writers[s].status
                        /\ writers'[s].queue = writers[s].queue
                        /\ writers'[s].current = writers[s].current
                        /\ writers'[s].accepted = writers[s].accepted

LEMMA SameNowhere == ASSUME SameWriters, NEW d PROVE Nowhere(d) => Nowhere(d)'
BY DEF SameWriters, Nowhere

LEMMA SameOrder ==
  ASSUME Typed, WritersInOrder, SameWriters, written' = written,
         \A d \in Commands : ~Nowhere(d) => before'[d] = before[d]
  PROVE  WritersInOrder'
<1> SUFFICES ASSUME NEW s \in Sessions PROVE InOrder(writers'[s], written, before')
  BY DEF WritersInOrder, InOrder
<1>1. writers[s] \in Writers /\ writers'[s] \in Writers
  BY DEF Typed, WritersOK, SameWriters
<1>2. \A i \in DOMAIN writers[s].queue : IsFlush(writers[s].queue[i]) =>
          before'[writers[s].queue[i]] = before[writers[s].queue[i]]
  BY DEF IsFlush, Nowhere
<1>3. IsFlush(writers[s].current) => before'[writers[s].current] = before[writers[s].current]
  BY DEF IsFlush, Nowhere
<1> QED
  BY <1>1, <1>2, <1>3, OrderKept DEF SameWriters, WritersInOrder

LEMMA Still ==
  ASSUME Typed, OrderInv, SameWriters, UNCHANGED <<mailbox, reply, written, before>>
  PROVE  OrderInv'
<1>1. MailboxOnce' /\ UnsentFresh'
  BY NotServed, SameNowhere DEF OrderInv
<1>2. WritersInOrder'
  BY SameOrder DEF OrderInv
<1> QED
  BY <1>1, <1>2 DEF OrderInv, PromisedWrites, FlushTruth

\* A command is answered by the actor itself.
LEMMA Answered ==
  ASSUME Typed, OrderInv, SameWriters, TakeCommand, UNCHANGED <<written, before>>,
         NEW r \in Replies \ {"unsent"}, reply' = [reply EXCEPT ![Head(mailbox)] = r]
  PROVE  OrderInv'
<1>1. Head(mailbox) \in Commands /\ Head(mailbox) = mailbox[1] /\ 1 \in DOMAIN mailbox
  BY TakenCommand
<1>2. /\ reply'[Head(mailbox)] = r
      /\ \A d \in Commands \ {Head(mailbox)} : reply'[d] = reply[d]
  BY <1>1 DEF Typed, ReplyOK
<1>3. MailboxOnce' /\ UnsentFresh'
  BY <1>2, Served, SameNowhere DEF OrderInv
<1>4. WritersInOrder'
  BY SameOrder DEF OrderInv
<1>5. before[Head(mailbox)] = {}
  BY <1>1 DEF OrderInv, MailboxOnce
<1>6. FlushTruth'
  BY <1>2, <1>5 DEF OrderInv, FlushTruth
<1> QED
  BY <1>3, <1>4, <1>6 DEF OrderInv, PromisedWrites

\* A command or a pong is given to the writer of the session.
LEMMA QueuedInOrder ==
  ASSUME Typed, OrderInv, session \in Sessions, NEW e \in Entries, Enqueue(e), written' = written,
         \A d \in Commands : ~Nowhere(d) => before'[d] = before[d],
         IsFlush(e) => before'[e] = Writer.accepted
  PROVE  /\ WritersInOrder'
         /\ \A d : d # e /\ Nowhere(d) => Nowhere(d)'
<1>1. /\ \A s \in Sessions \ {session} : writers'[s] = writers[s]
      /\ writers'[session] = [Writer EXCEPT !.queue = Append(Writer.queue, e),
                                            !.accepted = Writer.accepted \cup ({e} \cap Writes)]
  BY Enqueued
<1>2. \A s \in Sessions : writers[s] \in Writers
  BY DEF Typed, WritersOK
<1>3. ASSUME NEW s \in Sessions
      PROVE  /\ \A i \in DOMAIN writers[s].queue : IsFlush(writers[s].queue[i]) =>
                   before'[writers[s].queue[i]] = before[writers[s].queue[i]]
             /\ IsFlush(writers[s].current) =>
                   before'[writers[s].current] = before[writers[s].current]
  BY DEF IsFlush, Nowhere
<1>4. ASSUME NEW s \in Sessions PROVE InOrder(writers'[s], written, before')
  <2>1. InOrder(writers[s], written, before)
    BY DEF OrderInv, WritersInOrder
  <2>2. CASE s = session
    <3> DEFINE w == writers[s]
    <3>1. writers'[s] = [w EXCEPT !.queue = Append(w.queue, e),
                                  !.accepted = w.accepted \cup ({e} \cap Writes)]
      BY <1>1, <2>2 DEF Writer
    <3>2. IsFlush(e) => before'[e] = w.accepted
      BY <2>2 DEF Writer
    <3>3. w \in Writers /\ InOrder(w, written, before)
          /\ (\A i \in DOMAIN w.queue : IsFlush(w.queue[i]) => before'[w.queue[i]] = before[w.queue[i]])
          /\ (IsFlush(w.current) => before'[w.current] = before[w.current])
      BY <1>2, <1>3, <2>1
    <3> HIDE DEF w
    <3>4. InOrder([w EXCEPT !.queue = Append(w.queue, e),
                            !.accepted = w.accepted \cup ({e} \cap Writes)], written, before')
      BY <3>2, <3>3, OrderQueued
    <3> QED
      BY <3>1, <3>4
  <2>3. CASE s # session
    BY <1>1, <1>2, <1>3, <2>1, <2>3, OrderKept
  <2> QED
    BY <2>2, <2>3
<1>5. ASSUME NEW d, d # e, Nowhere(d) PROVE Nowhere(d)'
  <2>1. Writer \in Writers /\ Writer.queue \in Seq(Entries)
    BY <1>2 DEF Writer, Writers
  <2>2. /\ writers'[session].current = writers[session].current
        /\ writers'[session].queue = Append(Writer.queue, e)
    BY <1>1, <2>1 DEF Writer, Writers
  <2>3. \A k \in DOMAIN Append(Writer.queue, e) : Append(Writer.queue, e)[k] # d
    <3>1. DOMAIN Append(Writer.queue, e) = 1 .. Len(Writer.queue) + 1
          /\ DOMAIN Writer.queue = 1 .. Len(Writer.queue) /\ Len(Writer.queue) \in Nat
      BY <2>1, AppendProperties, LenProperties
    <3>2. \A k \in DOMAIN Writer.queue : Append(Writer.queue, e)[k] # d
      BY <1>5, <2>1, <3>1, AppendProperties DEF Nowhere, Writer
    <3>3. Append(Writer.queue, e)[Len(Writer.queue) + 1] # d
      BY <1>5, <2>1, AppendProperties
    <3> QED
      BY <3>1, <3>2, <3>3
  <2>4. ASSUME NEW s \in Sessions
        PROVE  /\ writers'[s].current # d
               /\ \A k \in DOMAIN writers'[s].queue : writers'[s].queue[k] # d
    <3>1. CASE s = session
      BY <1>5, <2>2, <2>3, <3>1 DEF Nowhere
    <3>2. CASE s # session
      BY <1>1, <1>5, <3>2 DEF Nowhere
    <3> QED
      BY <3>1, <3>2
  <2> QED
    BY <2>4 DEF Nowhere
<1> QED
  BY <1>4, <1>5 DEF WritersInOrder

LEMMA EndedSame == ASSUME Typed, NEW next \in Phases, EndSession(next) PROVE SameWriters
BY Ended, ZenonT(60) DEF SameWriters, WritersOK, Typed, Writers

LEMMA UnchangedSame == ASSUME Typed, writers' = writers PROVE SameWriters
BY DEF SameWriters, WritersOK, Typed

LEMMA OrderWrite == ASSUME Typed, OrderInv, SessionOwned, ServeWrite PROVE OrderInv'
<1> DEFINE c == Head(mailbox)
<1>1. c \in Commands /\ c = mailbox[1] /\ 1 \in DOMAIN mailbox /\ TakeCommand
  BY TakenCommand DEF ServeWrite
<1>2. session \in Sessions /\ ~IsFlush(c) /\ UNCHANGED <<written, before>>
  BY SessionThere DEF ServeWrite, Serving, ServeUnchanged, IsFlush
<1>3. CASE HasRoom
  <2>1. Enqueue(c) /\ \E r \in {"taken", "ok"} : reply' = [reply EXCEPT ![c] = r]
    BY <1>3 DEF ServeWrite
  <2>2. reply'[c] \in {"taken", "ok"} /\ \A d \in Commands \ {c} : reply'[d] = reply[d]
    BY <1>1, <2>1 DEF Typed, ReplyOK
  <2>3. WritersInOrder' /\ \A d : d # c /\ Nowhere(d) => Nowhere(d)'
    BY <1>1, <1>2, <2>1, Queued, QueuedInOrder
  <2>4. MailboxOnce' /\ UnsentFresh'
    BY <1>1, <1>2, <2>2, <2>3, Served DEF OrderInv
  <2>5. FlushTruth'
    BY <1>1, <1>2, <2>2 DEF OrderInv, FlushTruth
  <2> QED
    BY <1>2, <2>3, <2>4, <2>5 DEF OrderInv, PromisedWrites
<1>4. CASE ~HasRoom
  <2>1. EndSession("delay") /\ \E r \in {"taken", "failed"} : reply' = [reply EXCEPT ![c] = r]
    BY <1>4 DEF ServeWrite
  <2>2. SameWriters
    BY <2>1, EndedSame DEF Phases
  <2> QED
    BY <1>1, <1>2, <2>1, <2>2, Answered DEF Replies
<1> QED
  BY <1>3, <1>4

LEMMA OrderFlush == ASSUME Typed, OrderInv, SessionOwned, ServeFlush PROVE OrderInv'
<1> DEFINE c == Head(mailbox)
<1>1. c \in Commands /\ c = mailbox[1] /\ 1 \in DOMAIN mailbox /\ TakeCommand
  BY TakenCommand DEF ServeFlush
<1>2. session \in Sessions /\ IsFlush(c) /\ written' = written
  BY <1>1, SessionThere DEF ServeFlush, Serving, ServeUnchanged, IsFlush
<1>3. CASE HasRoom
  <2>1. Enqueue(c) /\ before' = [before EXCEPT ![c] = Writer.accepted] /\ reply' = reply
    BY <1>3 DEF ServeFlush
  <2>2. /\ before'[c] = Writer.accepted
        /\ \A d \in Commands \ {c} : before'[d] = before[d]
    BY <1>1, <2>1 DEF Typed, HistoryOK
  <2>3. Nowhere(c) /\ reply[c] = "waiting"
    BY <1>1 DEF OrderInv, MailboxOnce
  <2>4. \A d \in Commands : ~Nowhere(d) => before'[d] = before[d]
    BY <2>2, <2>3
  <2>5. WritersInOrder' /\ \A d : d # c /\ Nowhere(d) => Nowhere(d)'
    BY <1>1, <1>2, <2>1, <2>2, <2>4, Queued, QueuedInOrder
  <2>6. MailboxOnce' /\ UnsentFresh'
    BY <1>1, <2>1, <2>2, <2>3, <2>5, Served DEF OrderInv
  <2>7. FlushTruth'
    BY <1>2, <2>1, <2>2, <2>3 DEF OrderInv, FlushTruth
  <2>8. Writer.accepted \subseteq Writes
    BY <1>2 DEF OrderInv, WritersInOrder, InOrder, Writer
  <2> QED
    BY <2>2, <2>5, <2>6, <2>7, <2>8 DEF OrderInv, PromisedWrites
<1>4. CASE ~HasRoom
  <2>1. EndSession("delay") /\ before' = before /\ reply' = [reply EXCEPT ![c] = "failed"]
    BY <1>4 DEF ServeFlush
  <2>2. SameWriters
    BY <2>1, EndedSame DEF Phases
  <2> QED
    BY <1>1, <1>2, <2>1, <2>2, Answered DEF Replies
<1> QED
  BY <1>3, <1>4

LEMMA OrderPing == ASSUME Typed, OrderInv, SessionOwned, ReadPing PROVE OrderInv'
<1>1. session \in Sessions /\ UNCHANGED <<mailbox, reply, written, before>>
  BY SessionThere DEF ReadPing, Reading
<1>2. CASE HasRoom
  <2>1. Enqueue("pong") /\ "pong" \in Entries
    BY <1>2 DEF ReadPing, Entries
  <2>2. WritersInOrder' /\ \A d : d # "pong" /\ Nowhere(d) => Nowhere(d)'
    BY <1>1, <2>1, QueuedInOrder, KindsApart
  <2>3. MailboxOnce' /\ UnsentFresh'
    BY <1>1, <2>2, NotServed, KindsApart DEF OrderInv
  <2> QED
    BY <1>1, <2>2, <2>3 DEF OrderInv, PromisedWrites, FlushTruth
<1>3. CASE ~HasRoom
  <2>1. SameWriters
    BY <1>3, EndedSame DEF ReadPing, Phases
  <2> QED
    BY <1>1, <2>1, Still
<1> QED
  BY <1>2, <1>3

\* One writer changes; what it newly has, it had before.
LEMMA OneWriter ==
  ASSUME Typed, OrderInv, NEW s \in Sessions, NEW v \in Writers,
         writers' = [writers EXCEPT ![s] = v],
         v.current \in {writers[s].current, "idle"} \cup {writers[s].queue[k] : k \in DOMAIN writers[s].queue},
         \A k \in DOMAIN v.queue : \E j \in DOMAIN writers[s].queue : v.queue[k] = writers[s].queue[j],
         InOrder(v, written', before), written \subseteq written', before' = before,
         mailbox' = mailbox,
         \A d \in Commands : /\ Nowhere(d) => reply'[d] = reply[d]
                             /\ reply'[d] = "unsent" => reply[d] = "unsent"
                             /\ IsFlush(d) /\ reply'[d] = "ok" =>
                                    reply[d] = "ok" \/ before[d] \subseteq written'
  PROVE  OrderInv'
<1>1. writers'[s] = v /\ \A r \in Sessions \ {s} : writers'[r] = writers[r]
  BY DEF Typed, WritersOK
<1>2. ASSUME NEW d \in Commands, Nowhere(d) PROVE Nowhere(d)'
  <2>1. v.current # d
    BY <1>2, KindsApart DEF Nowhere
  <2>2. \A k \in DOMAIN v.queue : v.queue[k] # d
    BY <1>2 DEF Nowhere
  <2> QED
    BY <1>1, <1>2, <2>1, <2>2 DEF Nowhere
<1>3. MailboxOnce' /\ UnsentFresh'
  <2>1. \A i \in DOMAIN mailbox : mailbox[i] \in Commands
    BY LenProperties, ElementOfSeq DEF Typed, MailOK
  <2>2. MailboxOnce'
    <3> SUFFICES ASSUME NEW i \in DOMAIN mailbox
                 PROVE  reply'[mailbox[i]] = "waiting" /\ Nowhere(mailbox[i])'
      BY DEF OrderInv, MailboxOnce, Nowhere
    <3> QED
      BY <1>2, <2>1 DEF OrderInv, MailboxOnce
  <2>3. UnsentFresh'
    BY <1>2 DEF OrderInv, UnsentFresh
  <2> QED
    BY <2>2, <2>3
<1>4. WritersInOrder'
  <2> SUFFICES ASSUME NEW r \in Sessions PROVE InOrder(writers'[r], written', before)
    BY DEF WritersInOrder
  <2>1. CASE r = s
    BY <1>1, <2>1
  <2>2. CASE r # s
    <3>1. InOrder(writers[r], written, before) /\ writers[r] \in Writers
      BY DEF OrderInv, WritersInOrder, Typed, WritersOK
    <3> QED
      BY <1>1, <2>2, <3>1, OrderKept
  <2> QED
    BY <2>1, <2>2
<1>5. FlushTruth'
  BY DEF OrderInv, FlushTruth, IsFlush
<1> QED
  BY <1>3, <1>4, <1>5 DEF OrderInv, PromisedWrites

LEMMA OrderTake == ASSUME Typed, OrderInv, NEW s \in Sessions, WriterTake(s) PROVE OrderInv'
<1> DEFINE w == writers[s]
           v == [w EXCEPT !.current = Head(w.queue), !.queue = Tail(w.queue)]
<1>1. w \in Writers /\ w.queue \in Seq(Entries) /\ w.queue # <<>>
  BY DEF WriterTake, Typed, WritersOK, Writers
<1>2. /\ Head(w.queue) \in Entries /\ Head(w.queue) = w.queue[1] /\ 1 \in DOMAIN w.queue
      /\ Tail(w.queue) \in Seq(Entries)
      /\ \A i \in DOMAIN Tail(w.queue) : i + 1 \in DOMAIN w.queue /\ Tail(w.queue)[i] = w.queue[i + 1]
  <2>1. /\ DOMAIN Tail(w.queue) = 1 .. Len(w.queue) - 1 /\ DOMAIN w.queue = 1 .. Len(w.queue)
        /\ Len(w.queue) \in Nat \ {0}
    BY <1>1, Heads
  <2> QED
    BY <1>1, <2>1, Heads
<1>3. v \in Writers /\ v.current = w.queue[1] /\ v.queue = Tail(w.queue)
  BY <1>1, <1>2 DEF Writers
<1>4. InOrder(v, written, before)
  <2>1. InOrder(w, written, before) /\ \A c \in Commands : before[c] \subseteq Writes
    BY DEF OrderInv, WritersInOrder, PromisedWrites
  <2> QED
    BY <1>1, <2>1, OrderTaken DEF WriterTake, Writing
<1>5. writers' = [writers EXCEPT ![s] = v] /\ UNCHANGED <<written, before, mailbox, reply>>
  BY DEF WriterTake, WriterUnchanged, Typed, WritersOK
<1> HIDE DEF v
<1>6. v.current \in {w.queue[k] : k \in DOMAIN w.queue}
  BY <1>2, <1>3
<1>7. \A k \in DOMAIN v.queue : \E j \in DOMAIN w.queue : v.queue[k] = w.queue[j]
  BY <1>2, <1>3
<1> QED
  BY <1>3, <1>4, <1>5, <1>6, <1>7, OneWriter

LEMMA OrderWrites == ASSUME Typed, OrderInv, NEW s \in Sessions, WriterWrites(s) PROVE OrderInv'
<1> DEFINE w == writers[s]
           v == [w EXCEPT !.current = "idle"]
<1>1. w \in Writers /\ v \in Writers /\ v.current = "idle" /\ v.queue = w.queue
  BY DEF Typed, WritersOK, Writers
<1>2. /\ written' = written \cup ({w.current} \cap Writes)
      /\ reply' = IF IsFlush(w.current) THEN [reply EXCEPT ![w.current] = "ok"] ELSE reply
      /\ writers' = [writers EXCEPT ![s] = v] /\ UNCHANGED <<before, mailbox>>
      /\ w.status = "running"
  BY DEF WriterWrites, WriterUnchanged, Writing
<1>3. InOrder(w, written, before) /\ \A c \in Commands : before[c] \subseteq Writes
  BY DEF OrderInv, WritersInOrder, PromisedWrites
<1>4. InOrder(v, written', before)
  BY <1>1, <1>2, <1>3, OrderWritten
<1>5. IsFlush(w.current) => before[w.current] \subseteq written
  BY <1>2, <1>3 DEF InOrder
<1>6. ASSUME NEW d \in Commands
      PROVE  /\ Nowhere(d) => reply'[d] = reply[d]
             /\ reply'[d] = "unsent" => reply[d] = "unsent"
             /\ IsFlush(d) /\ reply'[d] = "ok" => reply[d] = "ok" \/ before[d] \subseteq written'
  <2>1. CASE IsFlush(w.current) /\ d = w.current
    BY <1>2, <1>5, <2>1 DEF Nowhere, Typed, ReplyOK
  <2>2. CASE ~(IsFlush(w.current) /\ d = w.current)
    BY <1>2, <2>2 DEF Typed, ReplyOK
  <2> QED
    BY <2>1, <2>2
<1> HIDE DEF v
<1> QED
  BY <1>1, <1>2, <1>4, <1>6, OneWriter

\* What a writer gives up is told to the flushes that it had.
LEMMA ToldNobodyElse ==
  ASSUME Typed, NEW s \in Sessions, NEW cs, NEW r \in {"failed", "dropped"},
         cs \subseteq FlushesIn(writers[s].queue) \cup {writers[s].current},
         reply' = Telling(cs, r), NEW d \in Commands
  PROVE  /\ Nowhere(d) => reply'[d] = reply[d]
         /\ reply'[d] = "unsent" => reply[d] = "unsent"
         /\ reply'[d] = "ok" => reply[d] = "ok"
<1>1. reply'[d] = IF d \in cs THEN r ELSE reply[d]
  BY DEF Telling
<1>2. Nowhere(d) => d \notin cs
  BY DEF Nowhere, FlushesIn
<1> QED
  BY <1>1, <1>2

LEMMA OrderFails == ASSUME Typed, OrderInv, NEW s \in Sessions, WriterFails(s) PROVE OrderInv'
<1> DEFINE w == writers[s]
           v == [w EXCEPT !.status = "failed", !.current = "idle", !.queue = <<>>]
           cs == FlushesIn(w.queue) \cup ({w.current} \cap {c \in Commands : IsFlush(c)})
<1>1. w \in Writers /\ v \in Writers /\ v.current = "idle" /\ v.queue = <<>> /\ v.status = "failed"
      /\ v.accepted = w.accepted
  BY EmptySeq DEF Typed, WritersOK, Writers
<1>2. /\ reply' = Telling(cs, "failed") /\ writers' = [writers EXCEPT ![s] = v]
      /\ UNCHANGED <<written, before, mailbox>>
  BY DEF WriterFails, WriterUnchanged
<1>3. InOrder(v, written, before)
  BY <1>1 DEF OrderInv, WritersInOrder, InOrder
<1>4. \A d \in Commands : /\ Nowhere(d) => reply'[d] = reply[d]
                          /\ reply'[d] = "unsent" => reply[d] = "unsent"
                          /\ reply'[d] = "ok" => reply[d] = "ok"
  BY <1>2, ToldNobodyElse
<1>5. \A k \in DOMAIN v.queue : FALSE
  BY <1>1
<1> HIDE DEF v, cs
<1> QED
  BY <1>1, <1>2, <1>3, <1>4, <1>5, OneWriter

LEMMA OrderEnds == ASSUME Typed, OrderInv, NEW s \in Sessions, WriterEnds(s) PROVE OrderInv'
<1> DEFINE v == NewWriter("gone")
<1>1. v \in Writers /\ v.current = "idle" /\ \A k \in DOMAIN v.queue : FALSE
  BY NewWriters DEF NewWriter
<1>2. /\ reply' = Telling(FlushesIn(writers[s].queue), "dropped")
      /\ writers' = [writers EXCEPT ![s] = v] /\ UNCHANGED <<written, before, mailbox>>
  BY DEF WriterEnds, WriterUnchanged
<1>3. InOrder(v, written, before)
  BY OrderNew
<1>4. \A d \in Commands : /\ Nowhere(d) => reply'[d] = reply[d]
                          /\ reply'[d] = "unsent" => reply[d] = "unsent"
                          /\ reply'[d] = "ok" => reply[d] = "ok"
  BY <1>2, ToldNobodyElse
<1> HIDE DEF v
<1> QED
  BY <1>1, <1>2, <1>3, <1>4, OneWriter

LEMMA OrderConnected == ASSUME Typed, OrderInv, SessionOwned, Connected PROVE OrderInv'
<1> DEFINE v == NewWriter("running")
<1>1. v \in Writers /\ v.current = "idle" /\ \A k \in DOMAIN v.queue : FALSE
  BY NewWriters DEF NewWriter
<1>2. /\ session \in Sessions /\ writers' = [writers EXCEPT ![session] = v]
      /\ UNCHANGED <<written, before, mailbox, reply>>
  BY SessionThere DEF Connected
<1>3. InOrder(v, written, before)
  BY OrderNew
<1> HIDE DEF v
<1> QED
  BY <1>1, <1>2, <1>3, OneWriter

LEMMA OrderSend == ASSUME Typed, OrderInv, NEW c \in Commands, Send(c) PROVE OrderInv'
<1>1. reply[c] = "unsent" /\ UNCHANGED <<writers, written, before>>
  BY DEF Send
<1>2. before[c] = {} /\ Nowhere(c) /\ \A i \in DOMAIN mailbox : mailbox[i] # c
  BY <1>1 DEF OrderInv, UnsentFresh
<1>3. \A d : Nowhere(d) => Nowhere(d)'
  BY <1>1 DEF Nowhere
<1>4. WritersInOrder'
  BY <1>1 DEF OrderInv, WritersInOrder
<1>5. reply'[c] \in {"dropped", "waiting"} /\ \A d \in Commands \ {c} : reply'[d] = reply[d]
  BY DEF Send, Typed, ReplyOK
<1>6. FlushTruth' /\ PromisedWrites'
  BY <1>1, <1>5 DEF OrderInv, FlushTruth, PromisedWrites
<1>7. mailbox \in Seq(Commands) /\ DOMAIN mailbox = 1 .. Len(mailbox) /\ Len(mailbox) \in Nat
      /\ \A i \in DOMAIN mailbox : mailbox[i] \in Commands
  BY LenProperties, ElementOfSeq DEF Typed, MailOK
<1>8. CASE phase = "stopped"
  <2>1. mailbox' = mailbox
    BY <1>8 DEF Send
  <2>2. MailboxOnce'
    <3> SUFFICES ASSUME NEW i \in DOMAIN mailbox
                 PROVE  reply'[mailbox[i]] = "waiting" /\ Nowhere(mailbox[i])'
      BY <1>1, <2>1 DEF OrderInv, MailboxOnce, Nowhere
    <3> QED
      BY <1>2, <1>3, <1>5, <1>7, <2>1 DEF OrderInv, MailboxOnce
  <2>3. UnsentFresh'
    BY <1>1, <1>3, <1>5, <2>1 DEF OrderInv, UnsentFresh
  <2> QED
    BY <1>4, <1>6, <2>2, <2>3 DEF OrderInv
<1>9. CASE phase # "stopped"
  <2>1. mailbox' = Append(mailbox, c) /\ reply'[c] = "waiting"
    BY <1>9 DEF Send, Typed, ReplyOK
  <2>2. /\ DOMAIN mailbox' = 1 .. Len(mailbox) + 1
        /\ \A i \in DOMAIN mailbox : mailbox'[i] = mailbox[i]
        /\ mailbox'[Len(mailbox) + 1] = c
    BY <1>7, <2>1, AppendProperties, LenProperties
  <2>3. ASSUME NEW i \in DOMAIN mailbox'
        PROVE  /\ reply'[mailbox'[i]] = "waiting" /\ before[mailbox'[i]] = {}
               /\ \A j \in DOMAIN mailbox' : mailbox'[j] = mailbox'[i] => j = i
               /\ Nowhere(mailbox'[i])
    <3>1. CASE i = Len(mailbox) + 1
      BY <1>2, <1>7, <2>1, <2>2, <3>1
    <3>2. CASE i \in DOMAIN mailbox
      <4>1. mailbox'[i] = mailbox[i] /\ mailbox[i] # c /\ mailbox[i] \in Commands
        BY <1>2, <1>7, <2>2, <3>2
      <4>2. reply[mailbox[i]] = "waiting" /\ before[mailbox[i]] = {} /\ Nowhere(mailbox[i])
            /\ \A j \in DOMAIN mailbox : mailbox[j] = mailbox[i] => j = i
        BY <3>2 DEF OrderInv, MailboxOnce
      <4> QED
        BY <1>5, <1>7, <2>2, <4>1, <4>2
    <3> QED
      BY <1>7, <2>2, <3>1, <3>2
  <2>4. MailboxOnce'
    BY <1>1, <2>3 DEF MailboxOnce, Nowhere
  <2>5. UnsentFresh'
    <3> SUFFICES ASSUME NEW d \in Commands, reply'[d] = "unsent"
                 PROVE  before[d] = {} /\ Nowhere(d)' /\ \A i \in DOMAIN mailbox' : mailbox'[i] # d
      BY <1>1 DEF UnsentFresh
    <3>1. d # c /\ reply[d] = "unsent"
      BY <1>5, <2>1
    <3>2. before[d] = {} /\ Nowhere(d) /\ \A i \in DOMAIN mailbox : mailbox[i] # d
      BY <3>1 DEF OrderInv, UnsentFresh
    <3> QED
      BY <1>3, <1>7, <2>2, <3>1, <3>2
  <2> QED
    BY <1>4, <1>6, <2>4, <2>5 DEF OrderInv
<1> QED
  BY <1>8, <1>9

\* Every step keeps the writers in order.
LEMMA OrderStep == ASSUME Typed, SessionOwned, OrderInv, Next PROVE OrderInv'
<1>1. \A c : Disposition(c, "notconnected") # "unsent" /\ Disposition(c, "ok") # "unsent"
  BY DEF Disposition
<1>2. CASE ServeDisconnected
  BY <1>1, <1>2, Answered, UnchangedSame, Dispositions DEF ServeDisconnected, Replies
<1>3. CASE ServeStale
  BY <1>1, <1>3, Answered, UnchangedSame, Dispositions DEF ServeStale, Replies
<1>4. CASE ServeRead
  BY <1>4, Answered, UnchangedSame DEF ServeRead, ServeUnchanged, Replies
<1>5. CASE ServeWrite \/ ServeFlush \/ ReadPing \/ Connected
  BY <1>5, OrderWrite, OrderFlush, OrderPing, OrderConnected
<1>6. CASE ReadIndex \/ ReadName \/ ReadList \/ ReadTopology
  BY <1>6, Still, UnchangedSame DEF ReadIndex, ReadName, ReadList, ReadTopology, FrameUnchanged
<1>7. CASE ConnectSucceeds \/ RegisterSucceeds \/ ChannelClosed \/ AttemptFails \/ DelayEnds
  BY <1>7, Still, UnchangedSame
     DEF ConnectSucceeds, RegisterSucceeds, ChannelClosed, AttemptFails, DelayEnds
<1>8. CASE SessionClosed \/ Lose \/ ReadFails
  BY <1>8, Still, EndedSame DEF SessionClosed, Lose, PingTimeout, WriterError, ReadFails, Phases
<1>9. CASE \E s \in Sessions : WriterStep(s)
  BY <1>9, OrderTake, OrderWrites, OrderFails, OrderEnds DEF WriterStep
<1>10. CASE \E c \in Commands : Send(c)
  BY <1>10, OrderSend
<1>11. CASE DropHandles \/ AnnounceScene \/ Silence \/ Return
            \/ \E kind \in {"ping", "list", "topology"} : Notify(kind)
  BY <1>11, Still, UnchangedSame
     DEF DropHandles, AnnounceScene, Silence, Return, Notify, EnvUnchanged
<1>12. ASSUME NEW s \in Sessions, Stall(s) PROVE OrderInv'
  <2>1. writers' = [writers EXCEPT ![s].stalled = TRUE] /\ UNCHANGED <<mailbox, reply, written, before>>
    BY <1>12 DEF Stall, EnvUnchanged
  <2>2. SameWriters
    BY <2>1 DEF SameWriters, Typed, WritersOK, Writers
  <2> QED
    BY <2>1, <2>2, Still
<1> QED
  BY <1>2, <1>3, <1>4, <1>5, <1>6, <1>7, <1>8, <1>9, <1>10, <1>11, <1>12
     DEF Next, ActorStep, Serve, Read, Establish, Stop, Environment

-----------------------------------------------------------------------------
(* The theorems *)

Inv == Typed /\ PairsInv /\ OrderInv

LEMMA InitInv == Init => Inv
<1> SUFFICES ASSUME Init PROVE Inv
  OBVIOUS
<1>1. PICK scenario \in Scenarios :
        /\ budget = scenario.env
        /\ reply = [c \in Commands |-> IF c \in scenario.sent THEN "unsent" ELSE "taken"]
  BY DEF Init
<1>2. NewWriter("unborn") \in Writers
  BY NewWriters
<1>3. Typed
  <2>1. BudgetOK /\ ReplyOK
    BY <1>1, Lv1Assumption DEF BudgetOK, ReplyOK, Replies
  <2>2. MailOK /\ InboundOK
    BY EmptySeq DEF Init, MailOK, InboundOK
  <2>3. MirrorOK
    BY DEF Init, MirrorOK, Mirrors, EmptyMirror, NoHalves, Halves
  <2>4. WritersOK
    BY <1>2 DEF Init, WritersOK
  <2> QED
    BY <2>1, <2>2, <2>3, <2>4, Lv1Assumption
       DEF Init, Typed, PhaseOK, Phases, ConsoleOK, HistoryOK, SessionOK
<1>4. PairsInv
  <2>1. Awaited = <<>>
    BY DEF Init, Awaited
  <2> QED
    BY <2>1, PairedNone
       DEF Init, PairsInv, SessionOwned, MirrorOfSession, HalvesPaired, EmptyMirror, NoHalves
<1>5. OrderInv
  <2>1. \A s \in Sessions : writers[s] = NewWriter("unborn")
    BY DEF Init
  <2>2. \A c \in Commands : Nowhere(c)
    BY <2>1, KindsApart DEF Nowhere, NewWriter
  <2>3. WritersInOrder
    BY <2>1, OrderNew DEF WritersInOrder
  <2>4. UnsentFresh /\ MailboxOnce
    BY <2>2 DEF Init, UnsentFresh, MailboxOnce
  <2>5. FlushTruth /\ PromisedWrites
    BY DEF Init, FlushTruth, PromisedWrites
  <2> QED
    BY <2>3, <2>4, <2>5 DEF OrderInv
<1> QED
  BY <1>3, <1>4, <1>5 DEF Inv

LEMMA NextInv == Inv /\ [Next]_vars => Inv'
<1> SUFFICES ASSUME Inv, [Next]_vars PROVE Inv'
  OBVIOUS
<1>1. CASE Next
  BY <1>1, TypeStep, PairsStep, OrderStep DEF Inv, PairsInv
<1>2. CASE UNCHANGED vars
  <2>1. Typed'
    BY <1>2, FrameShapes DEF vars, Inv, Typed
  <2>2. PairsInv'
    BY <1>2, ZenonT(60)
       DEF vars, Inv, PairsInv, SessionOwned, MirrorOfSession, HalvesPaired, Paired, Awaited,
           Buffered
  <2>3. OrderInv'
    BY <1>2, Still, UnchangedSame DEF vars, Inv
  <2> QED
    BY <2>1, <2>2, <2>3 DEF Inv
<1> QED
  BY <1>1, <1>2

\* Everything the two arguments need holds in every state that is reached.
LEMMA Inductive == Spec => []Inv
BY InitInv, NextInv, PTL DEF Spec

\* run_actor, its mirror, its queues and its writers keep the shapes that their
\* types give them.
THEOREM TypeCorrect == Spec => []TypeOK
<1>1. Inv => TypeOK
  BY Shapes DEF Inv
<1> QED
  BY <1>1, Inductive, PTL

\* The mirror that the program shows belongs to the present session, and no scene is
\* put together of the halves of two announcements or of two sessions.
THEOREM MirrorCorrect == Spec => []MirrorOfSession
<1>1. Inv => MirrorOfSession
  BY DEF Inv, PairsInv
<1> QED
  BY <1>1, Inductive, PTL

\* A flush is acknowledged only after every write that its session had accepted
\* before it has reached the socket.
THEOREM FlushCorrect == Spec => []FlushTruth
<1>1. Inv => FlushTruth
  BY DEF Inv, OrderInv
<1> QED
  BY <1>1, Inductive, PTL

=============================================================================
