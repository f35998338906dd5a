---------------------------- MODULE MCProjector ----------------------------
(* A small instance of Projector for TLC. *)
EXTENDS Projector
=============================================================================
