----------------------------- MODULE Connections -----------------------------
(***************************************************************************)
(* What the lifecycle promises to those who follow it: generations only    *)
(* grow, each is announced once, and a runtime is installed once, for a    *)
(* generation that was begun for it, announced and still active.  It does  *)
(* not promise that announcements arrive in order, nor that what is left   *)
(* of a superseded generation goes at once.                                *)
(***************************************************************************)
EXTENDS Integers

VARIABLES
    generation,  \* the active generation
    runtime,     \* generation of the installed runtime, 0 when there is none
    owed,        \* generations that were made current and not announced yet
    begun,       \* generations begun for a connection that is not installed yet
    actors,      \* generations with an LV1 actor
    up           \* those whose actor is connected

connectionVars == <<generation, runtime, owed, begun, actors, up>>

ConnectionsInit ==
    /\ generation = 0 /\ runtime = 0
    /\ owed = {} /\ begun = {} /\ actors = {} /\ up = {}

\* Handles go away, and with the last one the actor; an installed runtime is one.
Keep(kept) ==
    /\ runtime' = 0 \/ runtime' \in kept
    /\ actors' = kept /\ up' = up \cap kept

\* The next generation, to connect or to leave the one before.
Advance ==
    /\ generation' = generation + 1
    /\ owed' = owed \cup {generation + 1}
    /\ begun' \in {begun, begun \cup {generation + 1}}
    /\ runtime' \in {0, runtime}
    /\ \E kept \in SUBSET actors : Keep(kept)

AnnounceGeneration(g) ==
    /\ g \in owed /\ owed' = owed \ {g}
    /\ UNCHANGED <<generation, runtime, begun, actors, up>>

InstallCurrent ==
    /\ generation \in begun \ owed
    /\ begun' = begun \ {generation}
    /\ runtime' = generation
    /\ \E kept \in SUBSET actors : Keep(kept \cup {generation})
    /\ UNCHANGED <<generation, owed>>

\* A candidate that was superseded is never installed.
Refuse(g) ==
    /\ g \in begun \ {generation} /\ begun' = begun \ {g}
    /\ UNCHANGED <<generation, runtime, owed, actors, up>>

Release ==
    /\ runtime' \in {0, runtime}
    /\ \E kept \in SUBSET actors : Keep(kept)
    /\ UNCHANGED <<generation, owed, begun>>

ConnectLv1(g) ==
    /\ g \in actors \ up /\ up' = up \cup {g}
    /\ UNCHANGED <<generation, runtime, owed, begun, actors>>

DropLv1(g) ==
    /\ g \in up /\ up' = up \ {g}
    /\ UNCHANGED <<generation, runtime, owed, begun, actors>>

ConnectionsNext ==
    \/ Advance \/ InstallCurrent \/ Release
    \/ \E g \in owed : AnnounceGeneration(g)
    \/ \E g \in begun : Refuse(g)
    \/ \E g \in actors : ConnectLv1(g) \/ DropLv1(g)

ConnectionsSpec == ConnectionsInit /\ [][ConnectionsNext]_connectionVars
=============================================================================
