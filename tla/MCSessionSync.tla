---------------------------- MODULE MCSessionSync ----------------------------
(* SessionSync with two nicks. *)
EXTENDS SessionSync

MCNicks == {"a", "b"}
==============================================================================
