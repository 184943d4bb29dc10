----------------------------- MODULE MCLatency ------------------------------
(***************************************************************************)
(* An instance of Latency for TLC: three packets and hashes, a map of two  *)
(* entries and a ring that holds one record.                               *)
(***************************************************************************)
EXTENDS Latency, TLC

CONSTANTS a, b, c, p1, p2, p3, e1, e2, e3

MCSymmetry == Permutations(Packets) \cup Permutations(Elems) \cup Permutations(Hashes)
=============================================================================
