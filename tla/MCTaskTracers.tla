--------------------------- MODULE MCTaskTracers ----------------------------
(***************************************************************************)
(* An instance of TaskTracers for TLC: two CPUs, two numbers of tasks, a   *)
(* container's cgroup and one outside.  CPUs and numbers are alike.        *)
(***************************************************************************)
EXTENDS TaskTracers, TLC

CONSTANTS c1, c2, t1, t2

MCSymmetry == Permutations(Cpus) \cup Permutations(Tids)
=============================================================================
