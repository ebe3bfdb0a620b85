----------------------------- MODULE MCSession -----------------------------
(***************************************************************************)
(* Session for TLC; the configurations choose the commands and the bounds. *)
(***************************************************************************)
EXTENDS Session
=============================================================================
