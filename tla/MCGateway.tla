------------------------------ MODULE MCGateway -----------------------------
(* Two connections to one ASK destination, an allowed one or another; one  *)
(* decoy; a prompt of two ticks and a gateway that waits for three.        *)
EXTENDS Gateway, TLC

CONSTANTS c1, c2, d1, d2, k1, none

Connections == Permutations({c1, c2})
=============================================================================
