----------------------------- MODULE MCUpdates -----------------------------
(* A small instance of Updates for TLC. *)
EXTENDS Updates

CONSTANTS c1, c2, c3, v1, v2
=============================================================================
