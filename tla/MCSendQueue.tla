---------------------------- MODULE MCSendQueue ----------------------------
(* SendQueue with two burst sizes and a default in between. *)
EXTENDS SendQueue

MCBurstSizes == {1, 3}
MCGarbage == {0, 2}
============================================================================
