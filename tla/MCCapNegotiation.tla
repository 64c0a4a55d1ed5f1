-------------------------- MODULE MCCapNegotiation --------------------------
(* CapNegotiation with SASL and three capabilities that can be bundled by two. *)
EXTENDS CapNegotiation

MCKnownCaps == <<"away-notify", "chghost", "multi-prefix", "sasl">>
============================================================================
