---------------------------- MODULE MCLineWriter ----------------------------
(***************************************************************************)
(* LineWriter for TLC: two-byte tags and lines, so that each can be cut.   *)
(***************************************************************************)
EXTENDS LineWriter
=============================================================================
