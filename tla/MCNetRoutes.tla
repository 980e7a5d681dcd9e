---------------------------- MODULE MCNetRoutes ----------------------------
(* Model values for NetRoutes: addresses of two bits, a network and a host *)
(* that lies outside of it.                                                *)
EXTENDS NetRoutes, TLC

CONSTANTS n1, n2, g1, g2, w1, w2
Net  == [addr |-> <<1, 0>>, len |-> 1]
Host == [addr |-> <<0, 1>>, len |-> 2]
MCTargets == {Net, Host}
MCOneTarget == {Net}
MCSymmetry == Permutations(Names) \cup Permutations(Gateways) \cup Permutations(Workers)
=============================================================================
