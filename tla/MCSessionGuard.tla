--------------------------- MODULE MCSessionGuard ---------------------------
(***************************************************************************)
(* Small instances of SessionGuard: the lane is one client of Show, net    *)
(* stands for lifecycle's discovery updates.                               *)
(***************************************************************************)
EXTENDS SessionGuard, TLC

CONSTANTS ui, net, p1, p2

\* Enough operations and queries for every job of the lane.
MCGuard == {[lockout |-> 1, op |-> 6, query |-> 12, discovery |-> 1, lag |-> 0, list |-> 1]}

\* Two operations and the queries that admit them, and nothing else.
MCNormalized == {[lockout |-> 0, op |-> 2, query |-> 4, discovery |-> 0, lag |-> 0, list |-> 0]}
=============================================================================
