---------------------------- MODULE MCCoreThreads ----------------------------
(* CoreThreads for TLC. *)
EXTENDS CoreThreads
==============================================================================
