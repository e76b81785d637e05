----------------------------- MODULE MCPortPool -----------------------------
(* An instance of PortPool for TLC: two calls and four pairs, given with an   *)
(* odd first port and an odd count so that the constructor rounds both.       *)
EXTENDS PortPool, TLC

CONSTANTS c1, c2

MCClients == {c1, c2}
Symmetry == Permutations(MCClients)
=============================================================================
