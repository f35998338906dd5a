---------------------------- MODULE MCLifecycle ----------------------------
(* Small instances of Lifecycle for TLC. *)
EXTENDS Lifecycle, TLC

CONSTANTS t1, t2, t3, s1, s2

Symmetry == Permutations(Tasks) \cup Permutations(Systems)
=============================================================================
