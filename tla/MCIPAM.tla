------------------------------- MODULE MCIPAM -------------------------------
(***************************************************************************)
(* Instances of IPAM for TLC.  With LastHost = 4 the usable addresses are  *)
(* 2 and 3, so three containers exhaust the subnet; the requests are a     *)
(* usable address and one outside the subnet.                              *)
(***************************************************************************)
EXTENDS IPAM, TLC

CONSTANTS c1, c2, p1, p2

MCCallers == {c1, c2}
OneProcess == (c1 :> p1) @@ (c2 :> p1)
TwoProcesses == (c1 :> p1) @@ (c2 :> p2)

MCSymmetry == Permutations(Containers)
=============================================================================
