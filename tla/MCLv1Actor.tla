----------------------------- MODULE MCLv1Actor -----------------------------
(***************************************************************************)
(* Small instances of Lv1Actor: a read, a batch, an acknowledged write     *)
(* and two flushes.                                                        *)
(***************************************************************************)
EXTENDS Lv1Actor

CONSTANTS g, b, s1, f, f2

MCKindOf == [c \in Commands |-> CASE c = g -> "get" [] c = b -> "batch" [] c = s1 -> "set"
                                  [] OTHER -> "flush"]
Scenario(cmds, limits) ==
    [env |-> [k \in EnvKinds |-> IF k \in DOMAIN limits THEN limits[k] ELSE 0], sent |-> cmds]

MCMirror == Scenario({g}, [scene |-> 2, list |-> 1, topology |-> 1, reset |-> 1, silence |-> 1])
MCWriter == Scenario({s1, f, f2}, [stall |-> 1, reset |-> 1])
MCEnds == Scenario({b, f}, [ping |-> 1, stall |-> 1, silence |-> 1, close |-> 1])
MCScenarios == {MCMirror, MCWriter, MCEnds}
=============================================================================
