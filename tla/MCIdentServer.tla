---------------------------- MODULE MCIdentServer ----------------------------
(* IdentServer for TLC. *)
EXTENDS IdentServer
==============================================================================
