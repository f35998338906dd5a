--------------------------- MODULE MCScenesRecall ---------------------------
(***************************************************************************)
(* Small instances of ScenesRecall for TLC.  Each configuration picks the  *)
(* requests and the environment events that provoke one family of hazards. *)
(***************************************************************************)
EXTENDS ScenesRecall, TLC

CONSTANTS r1, r2, r3, g1, g2, st, rp, s1, s2

\* r1 and r3, and g1 and g2, ask for the same scene: repeated requests stay distinct.
MCSceneOf == [r \in Requests |-> IF r \in {r2, g2} THEN s2 ELSE s1]

Bounds(limits) ==
    [k \in EnvKinds |-> IF k \in DOMAIN limits THEN limits[k] ELSE 0]
Scenario(callers, gens, limits) ==
    [env |-> Bounds(limits), spent |-> [k \in EnvKinds |-> 0], callers |-> callers, gens |-> gens]

\* A full queue and a lockout; a console recall between the program's own; lockouts
\* around a late echo.
MCQueueing == {Scenario({r1, r2, r3}, 1, [flip |-> 1]),
               Scenario({r1, r2}, 1, [manual |-> 1, flip |-> 1]),
               Scenario({r1, r2}, 1, [flip |-> 2])}
\* Connections that come and go, and lost events, with a store pending; a session
\* replacement between GOs.
MCFaults == {Scenario({r1, r2, st}, 3, [clear |-> 1]),
             Scenario({r1, r2, st}, 2, [lag |-> 1]),
             Scenario({r1, st}, 3, [clear |-> 1, lag |-> 1]),
             Scenario({r1, g1, g2, rp}, 1, [expire |-> 0]),
             Scenario({g1, g2, rp}, 1, [expire |-> 1])}
MCSafety == MCQueueing \cup MCFaults
\* Outages and lockouts, for liveness.
MCProgress == {Scenario({r1, r2}, 2, [clear |-> 1, lost |-> 1, flip |-> 1]),
               Scenario({r1}, 1, [flip |-> 1, expire |-> 1])}
MCDesk == {Scenario({r1, r2}, 1, [manual |-> 1, lost |-> 1])}
MCGenerations == {Scenario({r1, r2}, 3, [clear |-> 1, expire |-> 1])}
MCManual == {Scenario({r1, r2}, 1, [manual |-> 1])}
MCClear == {Scenario({r1}, 2, [clear |-> 1])}
MCLost == {Scenario({r1}, 1, [lost |-> 1])}
MCLockout == {Scenario({r1, r2}, 1, [flip |-> 2])}
=============================================================================
