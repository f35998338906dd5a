---------------------------- MODULE FadeContract ----------------------------
(***************************************************************************)
(* What the Fade engine promises about scene readiness, without saying how *)
(* it fades: commands are taken in the order they were sent, at most one   *)
(* readiness barrier exists and a newer one supersedes it, a command is    *)
(* accepted only once it has been admitted, and the readiness channel of a *)
(* command is never dropped silently: it stays with a command not yet      *)
(* taken or with the barrier until it is resolved.                         *)
(***************************************************************************)
EXTENDS Sequences

CONSTANTS Commands, OwnedCommands

VARIABLES
    box,       \* commands sent and neither admitted nor refused, oldest first
    barrier,   \* {} or the singleton of the command that installed it
    chan,      \* readiness channels
    answer     \* admission replies

contractVars == <<box, barrier, chan, answer>>

Settle(cs, result) == [c \in Commands |-> IF c \in cs /\ chan[c] = "open" THEN result ELSE chan[c]]
InBox(c) == \E i \in DOMAIN box : box[i] = c

Init ==
    /\ box = <<>> /\ barrier = {}
    /\ chan = [c \in Commands |-> "none"] /\ answer = [c \in Commands |-> "idle"]

Send(c) ==
    /\ answer[c] = "idle"
    /\ box' = Append(box, c) /\ answer' = [answer EXCEPT ![c] = "waiting"]
    /\ chan' = IF c \in OwnedCommands THEN [chan EXCEPT ![c] = "open"] ELSE chan
    /\ UNCHANGED barrier

\* The oldest command takes effect.  A command that owns its readiness
\* supersedes the barrier; readiness may already be proved.
Admit ==
    /\ box # <<>> /\ box' = Tail(box)
    /\ \/ barrier' = {Head(box)} /\ chan' = Settle(barrier, "err")
       \/ /\ barrier' = {}
          /\ chan' = [Settle(barrier, "err") EXCEPT ![Head(box)] = IF @ = "open" THEN "ok" ELSE @]
       \/ Head(box) \notin OwnedCommands /\ UNCHANGED <<barrier, chan>>
    /\ \/ UNCHANGED answer
       \/ answer' = [answer EXCEPT ![Head(box)] = "ok"]

\* The reply to a command that was admitted.
Answer(c, result) ==
    /\ answer[c] = "waiting" /\ ~InBox(c)
    /\ answer' = [answer EXCEPT ![c] = result]
    /\ UNCHANGED <<box, barrier, chan>>

\* The oldest command is refused, with or without the barrier's work.
Refuse ==
    /\ box # <<>> /\ box' = Tail(box)
    /\ answer' = [answer EXCEPT ![Head(box)] = "err"]
    /\ \/ UNCHANGED barrier /\ chan' = Settle({Head(box)}, "err")
       \/ barrier' = {} /\ chan' = Settle({Head(box)} \cup barrier, "err")

BarrierEnds(result) ==
    /\ barrier # {} /\ barrier' = {}
    /\ chan' = Settle(barrier, result)
    /\ UNCHANGED <<box, answer>>

\* The engine stops: everything it still holds is dropped.
Stop ==
    /\ box' = <<>> /\ barrier' = {}
    /\ answer' = [c \in Commands |-> IF InBox(c) THEN "err" ELSE answer[c]]
    /\ chan' = [c \in Commands |-> IF chan[c] = "open" THEN "err" ELSE chan[c]]

Next ==
    \/ \E c \in Commands : Send(c) \/ \E result \in {"ok", "err"} : Answer(c, result)
    \/ Admit \/ Refuse \/ Stop
    \/ \E result \in {"ok", "err"} : BarrierEnds(result)

Spec == Init /\ [][Next]_contractVars
=============================================================================
