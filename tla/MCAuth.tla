------------------------------- MODULE MCAuth -------------------------------
(* Auth with the bounds given in its configurations. *)
EXTENDS Auth
=============================================================================
