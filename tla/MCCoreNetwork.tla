--------------------------- MODULE MCCoreNetwork ---------------------------
(* CoreNetwork on a small instance: two settings the clients switch between *)
(* (two retries on an ordered server list, and unlimited retries on a       *)
(* random server), with automatic reconnection on in one of them only.      *)
EXTENDS CoreNetwork

MCSettings ==
    { [autoReconnect |-> TRUE,  unlimited |-> FALSE, retries |-> 2, randomServer |-> FALSE],
      [autoReconnect |-> FALSE, unlimited |-> TRUE,  retries |-> 1, randomServer |-> TRUE] }
============================================================================
