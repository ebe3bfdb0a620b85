------------------------------- MODULE MCIdle -------------------------------
(* Idle with the bounds given in its configurations. *)
EXTENDS Idle
=============================================================================
