----------------------------- MODULE RecallFifo -----------------------------
(***************************************************************************)
(* What the Scenes actor promises its callers about explicit recalls,      *)
(* without saying how: requests are admitted into a bounded FIFO, one is   *)
(* dispatched at a time and only when the previous one is through, a       *)
(* caller is told "ok" exactly when its request is dispatched, and a       *)
(* cancellation refuses every admitted request at once.                    *)
(***************************************************************************)
EXTENDS Integers, Sequences

CONSTANTS Requests, NoReq, Capacity

VARIABLES
    queue,    \* admitted and not yet dispatched, oldest first
    current,  \* dispatched and not yet through, or NoReq
    outcome   \* what each caller has been told

fifoVars == <<queue, current, outcome>>

Member(r) == \E i \in DOMAIN queue : queue[i] = r

Init ==
    /\ queue = <<>> /\ current = NoReq
    /\ outcome = [r \in Requests |-> "idle"]

Ask(r) ==
    /\ outcome[r] = "idle"
    /\ outcome' = [outcome EXCEPT ![r] = "waiting"]
    /\ UNCHANGED <<queue, current>>

Admit(r) ==
    /\ outcome[r] = "waiting" /\ ~Member(r)
    /\ Len(queue) + (IF current = NoReq THEN 0 ELSE 1) < Capacity
    /\ queue' = Append(queue, r)
    /\ UNCHANGED <<current, outcome>>

\* A request that has not been admitted is refused.
Refuse(r) ==
    /\ outcome[r] = "waiting" /\ ~Member(r)
    /\ outcome' = [outcome EXCEPT ![r] = "err"]
    /\ UNCHANGED <<queue, current>>

\* The oldest request is invalid by the time its turn comes.
RefuseHead ==
    /\ queue # <<>> /\ current = NoReq
    /\ outcome' = [outcome EXCEPT ![Head(queue)] = "err"]
    /\ queue' = Tail(queue)
    /\ UNCHANGED current

Dispatch ==
    /\ queue # <<>> /\ current = NoReq
    /\ current' = Head(queue) /\ queue' = Tail(queue)
    /\ outcome' = [outcome EXCEPT ![Head(queue)] = "ok"]

\* The dispatched request is through: readiness, then the interval.
Through ==
    /\ current # NoReq /\ current' = NoReq
    /\ UNCHANGED <<queue, outcome>>

\* Every admitted request is canceled, with requests not admitted yet.  A
\* request already dispatched keeps its answer.
CancelAll ==
    /\ queue' = <<>> /\ current' = NoReq
    /\ \E others \in SUBSET {r \in Requests : outcome[r] = "waiting" /\ ~Member(r)} :
         outcome' = [r \in Requests |-> IF Member(r) \/ r \in others THEN "err" ELSE outcome[r]]

Next ==
    \/ \E r \in Requests : Ask(r) \/ Admit(r) \/ Refuse(r)
    \/ RefuseHead \/ Dispatch \/ Through \/ CancelAll

Spec == Init /\ [][Next]_fifoVars
=============================================================================
