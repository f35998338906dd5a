------------------------------ MODULE Lv1Actor ------------------------------
(***************************************************************************)
(* The LV1 actor of one connection generation: it connects, registers,     *)
(* mirrors what the console reports and hands what its callers send to a   *)
(* writer task of its own, one per transport session, behind a bounded     *)
(* queue.  A lost session is followed by another one inside the same       *)
(* generation; the writer of the lost session may outlive it.              *)
(***************************************************************************)
EXTENDS Integers, FiniteSets, Sequences

CONSTANTS
    Commands,         \* requests that callers send through a handle
    KindOf,           \* "get", "batch", "set" (gain, pan, ..., a scene recall) or "flush"
    QueueCapacity,    \* WRITER_QUEUE_CAPACITY
    MaxSession,       \* bound: transport sessions
    MaxScene,         \* bound: scene announcements of the console
    Scenarios,        \* the commands sent, and how often each step of the environment happens
    None

EnvKinds == {"scene", "ping", "list", "topology", "reset", "silence", "stall", "close"}

ASSUME Lv1Assumption ==
    /\ IsFiniteSet(Commands)
    /\ KindOf \in [Commands -> {"get", "batch", "set", "flush"}]
    /\ QueueCapacity \in Nat \ {0}
    /\ MaxSession \in Nat /\ MaxScene \in Nat
    /\ Scenarios \subseteq [env : [EnvKinds -> Nat], sent : SUBSET Commands]
    /\ None \notin Commands \cup Nat
    /\ {"pong", "idle"} \cap Commands = {}

VARIABLES
    phase,      \* where run_actor is
    conn,       \* ActorState.connection
    session,    \* transport sessions begun
    mirror,     \* scene, scene list, topology and the two sequence numbers
    buf,        \* scene_buf: the halves of a scene observation that wait for the other
    mailbox,    \* cmd_rx
    open,       \* a handle exists
    reply,      \* what each caller has been told
    writers,    \* the writer task of each session
    inbound,    \* frames of the present session that are still to be read
    peer,       \* the console: "up", or "down" and silent
    announced,  \* scene announcements so far
    written,    \* history: writes whose bytes reached the socket
    before,     \* history: for each queued flush, the writes its session had accepted
    budget      \* environment steps left

consoleVars == <<peer, announced, budget>>
mirrorVars == <<conn, mirror, buf>>
historyVars == <<written, before>>
vars == <<phase, session, mirrorVars, mailbox, open, reply, writers, inbound, consoleVars,
          historyVars>>

Sessions == 1 .. MaxSession
Announcements == 1 .. MaxScene
Halves == Announcements \cup {None}
Phases == {"connecting", "registering", "draining", "connected", "delay", "stopped"}
Replies == {"unsent", "waiting", "taken", "ok", "notconnected", "failed", "dropped"}

\* An observed scene, with the session and the sequence number it was observed under.
Scenes == [index : Announcements, name : Announcements, session : Sessions, seq : Nat]
Mirrors == [scene : Scenes \cup {None}, list : Sessions \cup {None},
            topology : Sessions \cup {None}, seq : Nat, pings : Nat]
EmptyMirror(seq, pings) ==
    [scene |-> None, list |-> None, topology |-> None, seq |-> seq, pings |-> pings]
NoHalves == [index |-> None, name |-> None]

\* A queue entry is a command's bytes, a flush, or a pong, which is nobody's.
Entries == Commands \cup {"pong"}
Writers == [status : {"unborn", "running", "failed", "gone"}, queue : Seq(Entries),
            current : Entries \cup {"idle"}, closed : BOOLEAN, stalled : BOOLEAN,
            accepted : SUBSET Commands]
NewWriter(status) == [status |-> status, queue |-> <<>>, current |-> "idle", closed |-> FALSE,
                      stalled |-> FALSE, accepted |-> {}]
Frames == [kind : {"ping", "index", "name", "list", "topology"}, scene : Halves]
Frame(kind, scene) == [kind |-> kind, scene |-> scene]

IsFlush(c) == c \in Commands /\ KindOf[c] = "flush"

\* The commands that are bytes for the console.
Writes == {c \in Commands : KindOf[c] \in {"batch", "set"}}

TypeOK ==
    /\ phase \in Phases
    /\ conn \in {"connecting", "connected", "disconnected"}
    /\ session \in 0 .. MaxSession
    /\ mirror \in Mirrors
    /\ buf \in [index : Halves, name : Halves]
    /\ mailbox \in Seq(Commands) /\ open \in BOOLEAN
    /\ reply \in [Commands -> Replies]
    /\ writers \in [Sessions -> Writers]
    /\ inbound \in Seq(Frames)
    /\ peer \in {"up", "down"} /\ announced \in 0 .. MaxScene
    /\ written \subseteq Commands /\ before \in [Commands -> SUBSET Commands]
    /\ budget \in [EnvKinds -> Nat]

Init ==
    /\ phase = "connecting" /\ conn = "connecting" /\ session = 0
    /\ mirror = EmptyMirror(0, 0) /\ buf = NoHalves
    /\ mailbox = <<>> /\ open = TRUE
    /\ writers = [s \in Sessions |-> NewWriter("unborn")]
    /\ inbound = <<>> /\ peer = "up" /\ announced = 0
    /\ written = {} /\ before = [c \in Commands |-> {}]
    /\ \E scenario \in Scenarios :
         /\ budget = scenario.env
         /\ reply = [c \in Commands |-> IF c \in scenario.sent THEN "unsent" ELSE "taken"]

Spend(kind) == budget[kind] > 0 /\ budget' = [budget EXCEPT ![kind] = @ - 1]

-----------------------------------------------------------------------------
(* The writer's queue *)

Writer == writers[session]

\* The replies of flushes that are still in the queue and are never served.
FlushesIn(queue) == {queue[i] : i \in {j \in DOMAIN queue : IsFlush(queue[j])}}
Telling(cs, result) == [c \in Commands |-> IF c \in cs THEN result ELSE reply[c]]

\* try_send: a full queue and a writer that has ended refuse an entry at once.
HasRoom == Writer.status # "gone" /\ Len(Writer.queue) < QueueCapacity
Enqueue(entry) ==
    writers' = [writers EXCEPT ![session].queue = Append(@, entry),
                               ![session].accepted = @ \cup ({entry} \cap Writes)]

-----------------------------------------------------------------------------
(* Connecting *)

\* The connection is made; a new session counts its pings and scenes from zero.
ConnectSucceeds ==
    /\ phase = "connecting" /\ peer = "up" /\ session < MaxSession
    /\ phase' = "registering" /\ session' = session + 1
    /\ mirror' = [mirror EXCEPT !.seq = 0, !.pings = 0]
    /\ UNCHANGED <<conn, buf, mailbox, open, reply, writers, inbound, consoleVars, historyVars>>

\* An attempt that fails or takes too long is followed by the reconnect delay.
AttemptFails ==
    /\ phase \in {"connecting", "registering"}
    /\ phase' = "delay"
    /\ UNCHANGED <<session, mirrorVars, mailbox, open, reply, writers, inbound, consoleVars,
                   historyVars>>

RegisterSucceeds ==
    /\ phase = "registering"
    /\ phase' = "draining" /\ conn' = "connected"
    /\ UNCHANGED <<session, mirror, buf, mailbox, open, reply, writers, inbound, consoleVars,
                   historyVars>>

DelayEnds ==
    /\ phase = "delay"
    /\ phase' = "connecting"
    /\ UNCHANGED <<session, mirrorVars, mailbox, open, reply, writers, inbound, consoleVars,
                   historyVars>>

\* Without a session, reads are answered from the mirror, batches are dropped and
\* acknowledged commands are refused.
Disposition(c, flushed) ==
    CASE KindOf[c] = "get" -> "ok"
      [] KindOf[c] = "batch" -> "taken"
      [] KindOf[c] = "flush" -> flushed
      [] OTHER -> "notconnected"

TakeCommand == mailbox # <<>> /\ mailbox' = Tail(mailbox)

ServeDisconnected ==
    /\ phase \in {"connecting", "registering", "delay"}
    /\ TakeCommand
    /\ reply' = [reply EXCEPT ![Head(mailbox)] = Disposition(Head(mailbox), "notconnected")]
    /\ UNCHANGED <<phase, session, mirrorVars, open, writers, inbound, consoleVars, historyVars>>

\* The stale commands are drained after registration, when a flush succeeds.
ServeStale ==
    /\ phase = "draining"
    /\ TakeCommand
    /\ reply' = [reply EXCEPT ![Head(mailbox)] = Disposition(Head(mailbox), "ok")]
    /\ UNCHANGED <<phase, session, mirrorVars, open, writers, inbound, consoleVars, historyVars>>

\* Only then Connected is published and the session's writer started.
Connected ==
    /\ phase = "draining" /\ mailbox = <<>>
    /\ phase' = "connected"
    /\ writers' = [writers EXCEPT ![session] = NewWriter("running")]
    /\ UNCHANGED <<session, mirrorVars, mailbox, open, reply, inbound, consoleVars, historyVars>>

HandlesGone == ~open /\ mailbox = <<>>

\* Mutant of ChannelClosed: a closed mailbox counts as a failed attempt.
ChannelClosedRetries ==
    /\ phase \in {"connecting", "registering", "delay"} /\ HandlesGone
    /\ phase' = "delay"
    /\ UNCHANGED <<session, mirrorVars, mailbox, open, reply, writers, inbound, consoleVars,
                   historyVars>>

\* The last handle is gone and what it sent is served: without a session, the actor ends.
ChannelClosed ==
    /\ phase \in {"connecting", "registering", "delay"} /\ HandlesGone
    /\ phase' = "stopped"
    /\ UNCHANGED <<session, mirrorVars, mailbox, open, reply, writers, inbound, consoleVars,
                   historyVars>>

-----------------------------------------------------------------------------
(* Connected: one turn of run_connected *)

\* Mutant of ForgetSession: a half of a scene observation outlives its session.
ForgetSessionKeepsHalf == mirror' = EmptyMirror(mirror.seq, mirror.pings) /\ UNCHANGED buf

ForgetSession == mirror' = EmptyMirror(mirror.seq, mirror.pings) /\ buf' = NoHalves

\* The session ends: its live state is forgotten, its writer keeps what it was given.
EndSession(next) ==
    /\ phase' = next /\ conn' = "disconnected"
    /\ ForgetSession
    /\ writers' = [writers EXCEPT ![session].closed = TRUE]
    /\ inbound' = <<>>

\* No ping for ten seconds.
PingTimeout ==
    /\ phase = "connected" /\ peer = "down"
    /\ EndSession("delay")
    /\ UNCHANGED <<session, mailbox, open, reply, consoleVars, historyVars>>

\* The writer's error channel.
WriterError ==
    /\ phase = "connected" /\ Writer.status \in {"failed", "gone"}
    /\ EndSession("delay")
    /\ UNCHANGED <<session, mailbox, open, reply, consoleVars, historyVars>>

\* The connection is reset, or what is read is no frame.
ReadFails ==
    /\ phase = "connected" /\ Spend("reset")
    /\ EndSession("delay")
    /\ UNCHANGED <<session, mailbox, open, reply, peer, announced, historyVars>>

\* All handles are gone: Disconnected is published and the actor ends.
SessionClosed ==
    /\ phase = "connected" /\ HandlesGone
    /\ EndSession("stopped")
    /\ UNCHANGED <<session, mailbox, open, reply, consoleVars, historyVars>>

Reading(kind) == phase = "connected" /\ inbound # <<>> /\ Head(inbound).kind = kind
NextFrame == inbound' = Tail(inbound)
FrameUnchanged == UNCHANGED <<phase, session, conn, mailbox, open, reply, consoleVars, historyVars>>

\* A ping counts when its pong is queued; without room for it the session ends.
ReadPing ==
    /\ Reading("ping")
    /\ \/ HasRoom /\ Enqueue("pong") /\ NextFrame
          /\ mirror' = [mirror EXCEPT !.pings = @ + 1]
          /\ UNCHANGED <<phase, conn, buf>>
       \/ ~HasRoom /\ EndSession("delay")
    /\ UNCHANGED <<session, mailbox, open, reply, consoleVars, historyVars>>

\* try_emit and observe_scene: two halves make an observation and are consumed.
Observe(halves) ==
    IF None \in {halves.index, halves.name} THEN buf' = halves /\ UNCHANGED mirror
    ELSE /\ buf' = NoHalves
         /\ mirror' = [mirror EXCEPT
              !.seq = @ + 1,
              !.scene = [index |-> halves.index, name |-> halves.name, session |-> session,
                         seq |-> mirror.seq + 1]]

ReadIndex ==
    /\ Reading("index") /\ NextFrame
    /\ Observe([buf EXCEPT !.index = Head(inbound).scene])
    /\ UNCHANGED writers /\ FrameUnchanged

ReadName ==
    /\ Reading("name") /\ NextFrame
    /\ Observe([buf EXCEPT !.name = Head(inbound).scene])
    /\ UNCHANGED writers /\ FrameUnchanged

ReadList ==
    /\ Reading("list") /\ NextFrame
    /\ mirror' = [mirror EXCEPT !.list = session]
    /\ UNCHANGED <<buf, writers>> /\ FrameUnchanged

ReadTopology ==
    /\ Reading("topology") /\ NextFrame
    /\ mirror' = [mirror EXCEPT !.topology = session]
    /\ UNCHANGED <<buf, writers>> /\ FrameUnchanged

Serving(kinds) == phase = "connected" /\ mailbox # <<>> /\ KindOf[Head(mailbox)] \in kinds
ServeUnchanged == UNCHANGED <<session, open, consoleVars, written>>

ServeRead ==
    /\ Serving({"get"}) /\ TakeCommand
    /\ reply' = [reply EXCEPT ![Head(mailbox)] = "ok"]
    /\ UNCHANGED <<phase, mirrorVars, writers, inbound, before>> /\ ServeUnchanged

\* Mutant of ServeWrite: the actor waits for room in the queue.
ServeWriteWaits ==
    /\ Serving({"batch", "set"}) /\ TakeCommand
    /\ HasRoom /\ Enqueue(Head(mailbox))
    /\ reply' = [reply EXCEPT ![Head(mailbox)] =
                   IF KindOf[Head(mailbox)] = "batch" THEN "taken" ELSE "ok"]
    /\ UNCHANGED <<phase, mirrorVars, inbound, before>> /\ ServeUnchanged

\* Bytes are acknowledged when they are queued.  Bytes that cannot be queued end
\* the session.
ServeWrite ==
    /\ Serving({"batch", "set"}) /\ TakeCommand
    /\ LET c == Head(mailbox)
           told(result) == [reply EXCEPT ![c] = IF KindOf[c] = "batch" THEN "taken" ELSE result]
       IN \/ /\ HasRoom /\ Enqueue(c)
             /\ reply' = told("ok")
             /\ UNCHANGED <<phase, mirrorVars, inbound>>
          \/ /\ ~HasRoom /\ EndSession("delay")
             /\ reply' = told("failed")
    /\ UNCHANGED before /\ ServeUnchanged

\* A flush is answered by the writer.
ServeFlush ==
    /\ Serving({"flush"}) /\ TakeCommand
    /\ \/ /\ HasRoom /\ Enqueue(Head(mailbox))
          /\ before' = [before EXCEPT ![Head(mailbox)] = Writer.accepted]
          /\ UNCHANGED <<phase, mirrorVars, inbound, reply>>
       \/ /\ ~HasRoom /\ EndSession("delay")
          /\ reply' = [reply EXCEPT ![Head(mailbox)] = "failed"]
          /\ UNCHANGED before
    /\ ServeUnchanged

-----------------------------------------------------------------------------
(* The writer task of a session *)

Writing(s) == writers[s].status = "running"
WriterUnchanged == UNCHANGED <<phase, session, mirrorVars, mailbox, open, inbound, consoleVars, before>>

WriterTake(s) ==
    /\ Writing(s) /\ writers[s].current = "idle" /\ writers[s].queue # <<>>
    /\ writers' = [writers EXCEPT ![s].current = Head(writers[s].queue),
                                  ![s].queue = Tail(@)]
    /\ UNCHANGED <<reply, written>> /\ WriterUnchanged

\* The bytes are on their way, or the flush is done.
WriterWrites(s) ==
    /\ Writing(s) /\ writers[s].current # "idle" /\ ~writers[s].stalled
    /\ LET c == writers[s].current
       IN /\ written' = written \cup ({c} \cap Writes)
          /\ reply' = IF IsFlush(c) THEN [reply EXCEPT ![c] = "ok"] ELSE reply
    /\ writers' = [writers EXCEPT ![s].current = "idle"]
    /\ WriterUnchanged

\* Mutant of WriterFails: a failed write is skipped.
WriterSkips(s) ==
    /\ Writing(s) /\ writers[s].current # "idle"
    /\ writers' = [writers EXCEPT ![s].current = "idle"]
    /\ reply' = Telling({writers[s].current} \cap {c \in Commands : IsFlush(c)}, "failed")
    /\ UNCHANGED written /\ WriterUnchanged

\* A failed write or flush fails every flush that is queued.
WriterFails(s) ==
    /\ Writing(s) /\ writers[s].current # "idle"
    /\ reply' = Telling(FlushesIn(writers[s].queue)
                        \cup ({writers[s].current} \cap {c \in Commands : IsFlush(c)}), "failed")
    /\ writers' = [writers EXCEPT ![s].status = "failed", ![s].current = "idle",
                                  ![s].queue = <<>>]
    /\ UNCHANGED written /\ WriterUnchanged

\* What is queued after that is dropped with the queue.
WriterEnds(s) ==
    /\ \/ writers[s].status = "failed"
       \/ /\ Writing(s) /\ writers[s].current = "idle"
          /\ writers[s].queue = <<>> /\ writers[s].closed
    /\ reply' = Telling(FlushesIn(writers[s].queue), "dropped")
    /\ writers' = [writers EXCEPT ![s] = NewWriter("gone")]
    /\ UNCHANGED written /\ WriterUnchanged

-----------------------------------------------------------------------------
(* Callers, console and network *)

Send(c) ==
    /\ open /\ reply[c] = "unsent"
    /\ IF phase = "stopped" THEN reply' = [reply EXCEPT ![c] = "dropped"] /\ UNCHANGED mailbox
       ELSE reply' = [reply EXCEPT ![c] = "waiting"] /\ mailbox' = Append(mailbox, c)
    /\ UNCHANGED <<phase, session, mirrorVars, open, writers, inbound, consoleVars, historyVars>>

\* The runtime is cleared: its handles are dropped.
DropHandles ==
    /\ open /\ open' = FALSE /\ Spend("close")
    /\ UNCHANGED <<phase, session, mirrorVars, mailbox, reply, writers, inbound, peer, announced,
                   historyVars>>

EnvUnchanged == UNCHANGED <<phase, session, mirrorVars, mailbox, open, reply, historyVars>>
Registered == phase \in {"draining", "connected"} /\ peer = "up"

\* The console announces its current scene, by index and name in either order.
AnnounceScene ==
    /\ Registered /\ announced < MaxScene /\ Spend("scene")
    /\ announced' = announced + 1
    /\ \E first \in {"index", "name"} :
         inbound' = inbound \o <<Frame(first, announced + 1),
                                 Frame(IF first = "index" THEN "name" ELSE "index", announced + 1)>>
    /\ UNCHANGED <<writers, peer>> /\ EnvUnchanged

Notify(kind) ==
    /\ Registered /\ Spend(kind)
    /\ inbound' = Append(inbound, Frame(kind, None))
    /\ UNCHANGED <<writers, peer, announced>> /\ EnvUnchanged

\* The console falls silent, or can be reached again.
Silence ==
    /\ peer = "up" /\ Spend("silence") /\ peer' = "down"
    /\ UNCHANGED <<writers, inbound, announced>> /\ EnvUnchanged

Return ==
    /\ peer = "down" /\ peer' = "up"
    /\ UNCHANGED <<writers, inbound, announced, budget>> /\ EnvUnchanged

\* The socket takes no more bytes.
Stall(s) ==
    /\ Writing(s) /\ ~writers[s].stalled /\ Spend("stall")
    /\ writers' = [writers EXCEPT ![s].stalled = TRUE]
    /\ UNCHANGED <<inbound, peer, announced>> /\ EnvUnchanged

-----------------------------------------------------------------------------

Serve == ServeDisconnected \/ ServeStale \/ ServeRead \/ ServeWrite \/ ServeFlush
Read == ReadPing \/ ReadIndex \/ ReadName \/ ReadList \/ ReadTopology
Establish == ConnectSucceeds \/ RegisterSucceeds \/ Connected
Stop == ChannelClosed \/ SessionClosed
Lose == PingTimeout \/ WriterError
ActorStep == Serve \/ Read \/ Establish \/ Stop \/ Lose \/ AttemptFails \/ ReadFails \/ DelayEnds
WriterStep(s) == WriterTake(s) \/ WriterWrites(s) \/ WriterFails(s) \/ WriterEnds(s)
Environment ==
    \/ \E c \in Commands : Send(c)
    \/ DropHandles \/ AnnounceScene \/ Silence \/ Return
    \/ \E kind \in {"ping", "list", "topology"} : Notify(kind)
    \/ \E s \in Sessions : Stall(s)

Next == ActorStep \/ (\E s \in Sessions : WriterStep(s)) \/ Environment

Spec == Init /\ [][Next]_vars

\* select! takes a branch that stays ready; an attempt and the reconnect delay end;
\* a writer whose socket takes bytes goes on.  Nothing is assumed of callers or console.
Fairness ==
    /\ WF_vars(Serve) /\ WF_vars(Read) /\ WF_vars(Stop) /\ WF_vars(Lose)
    /\ WF_vars(RegisterSucceeds \/ AttemptFails) /\ WF_vars(Connected) /\ WF_vars(DelayEnds)
    /\ \A s \in Sessions : /\ WF_vars(WriterTake(s)) /\ WF_vars(WriterWrites(s))
                           /\ WF_vars(WriterEnds(s))

FairSpec == Spec /\ Fairness

-----------------------------------------------------------------------------
(* Properties *)

\* The mirror shows the present session only, and an observed scene has the index
\* and the name of one announcement: no half is carried over a reconnection.
MirrorOfSession ==
    /\ mirror.scene # None => /\ mirror.scene.index = mirror.scene.name
                              /\ mirror.scene.session = session
    /\ {mirror.list, mirror.topology} \subseteq {session, None}

\* A flush that the writer of a session acknowledged was preceded on the wire by
\* everything that session had accepted before it.
FlushTruth == \A c \in Commands : IsFlush(c) /\ reply[c] = "ok" => before[c] \subseteq written

\* Whatever the connection does, and although the socket may take no more bytes,
\* a command is answered; only a flush may have to wait for a stalled socket.
Stuck(c) == IsFlush(c) /\ \E s \in Sessions :
                writers[s].stalled /\ (c = writers[s].current \/ c \in FlushesIn(writers[s].queue))
CommandAnswered == \A c \in Commands : reply[c] = "waiting" ~> (reply[c] # "waiting" \/ Stuck(c))

\* Without a handle the actor ends, wherever it is: a replaced generation keeps no
\* session with the console and makes no new one.
ActorEnds == ~open ~> phase = "stopped"
=============================================================================
