---------------------------- MODULE MCUserRuntime ----------------------------
(* An instance of UserRuntime: init, the shell and its child; PIDs run     *)
(* one past the slots so that a slot is reused.                            *)
EXTENDS UserRuntime
=============================================================================
