---------------------------- MODULE MCFadeEngine ----------------------------
(***************************************************************************)
(* Instances of FadeEngine.  a and b fade targets of two scenes, r recalls *)
(* a's scene again, z sets a target at once, and w only waits for          *)
(* readiness; a configuration picks the commands it sends.                 *)
(***************************************************************************)
EXTENDS FadeEngine

CONSTANTS a, b, r, z, w

MCSceneOf == [c \in Commands |-> IF c \in {a, r, w} THEN "verse" ELSE "chorus"]
MCTargetsOf == [c \in Commands |-> CASE c = a -> {"f1", "p1"} [] c = b -> {"f1", "p1", "b1"}
                                     [] c = r -> {"f1"} [] c = z -> {"f1"} [] OTHER -> {}]
MCKeys == UNION {MCTargetsOf[c] : c \in Commands}
\* Fader, pan and balance of one channel.
MCChannelOf == [k \in MCKeys |-> "ch1"]
MCParamOf == [k \in MCKeys |-> CASE k = "p1" -> "pan" [] k = "b1" -> "balance" [] OTHER -> "fader"]

Bounds(limits) == [k \in EnvKinds |-> IF k \in DOMAIN limits THEN limits[k] ELSE 0]
Scenario(cmds, time, limits) == [env |-> Bounds(limits), sent |-> cmds, time |-> time]

MCBarriers == Scenario({a, w}, 2, [lost |-> 1, lag |-> 1])
MCOverlap == Scenario({a, r, z}, 1, [revoke |-> 1, fail |-> 1])
MCFeedback == Scenario({b}, 1, [report |-> 2])
MCLostFeedback == Scenario({b}, 1, [report |-> 1, lost |-> 1])
MCSafety == {MCBarriers, MCOverlap, MCFeedback, MCLostFeedback}
MCProgress == {Scenario({a, w}, 2, [revoke |-> 1])}
MCDeadlines == {Scenario({a, z}, 2, [lost |-> 0])}
MCReport == {Scenario({a, z}, 2, [report |-> 1])}
MCZeroLag == {Scenario({z}, 2, [lost |-> 1, lag |-> 1])}
=============================================================================
