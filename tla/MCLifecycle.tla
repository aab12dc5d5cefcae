---------------------------- MODULE MCLifecycle ----------------------------
(* The instance of Lifecycle for TLC: it has no sets to choose. *)
EXTENDS Lifecycle
=============================================================================
