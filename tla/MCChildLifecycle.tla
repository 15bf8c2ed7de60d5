-------------------------- MODULE MCChildLifecycle --------------------------
(* Instance of ChildLifecycle for TLC: nothing but its bounds. *)
EXTENDS ChildLifecycle
=============================================================================
