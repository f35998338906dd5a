--------------------------- MODULE MCShowSession ---------------------------
(***************************************************************************)
(* Small instances of ShowSession for TLC: the clients are interchangeable *)
(* and so are the files.                                                   *)
(***************************************************************************)
EXTENDS ShowSession, TLC

CONSTANTS c1, c2, p1, p2

MCSymmetry == Permutations(Clients) \cup Permutations(Paths)

Scenario(limits) == [k \in Bounded |-> IF k \in DOMAIN limits THEN limits[k] ELSE 0]

\* Two operations around a query and lost facts; one among all other events.
MCSession == {Scenario([op |-> 2, query |-> 1, lag |-> 1]),
              Scenario([op |-> 1, lockout |-> 1, list |-> 1])}
MCAlignment == {Scenario([op |-> 2, query |-> 1, list |-> 2])}
MCLockout == {Scenario([op |-> 2, lockout |-> 1, query |-> 1])}
=============================================================================
