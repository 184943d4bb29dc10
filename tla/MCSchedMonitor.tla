--------------------------- MODULE MCSchedMonitor ---------------------------
(***************************************************************************)
(* An instance of SchedMonitor for TLC: gocker with two containers, one of *)
(* which has a cgroup of its own inside.                                   *)
(***************************************************************************)
EXTENDS SchedMonitor

MCTree == {"gocker", "box", "inner", "crate"}
MCParent == [d \in MCTree \ {"gocker"} |-> IF d = "inner" THEN "box" ELSE "gocker"]
=============================================================================
