---------------------------- MODULE MCCollector -----------------------------
(***************************************************************************)
(* An instance of Collector for TLC: gocker, one container and a cgroup    *)
(* outside.  The posts are the one of the collector's README, which sets   *)
(* the sample rate only, and one that makes the container the target but   *)
(* leaves its level out.                                                   *)
(***************************************************************************)
EXTENDS Collector

CONSTANTS gocker, box, other

MCCgroups == {gocker, box, other}
MCAncestor == [k \in MCCgroups |-> IF k = box THEN <<gocker, box>> ELSE <<k>>]
MCPlace == [m \in Modules |-> CASE m = "pf" -> 1 [] m = "cpu" -> 2 [] OTHER -> 3]
MCAmounts == [m \in Modules |-> IF m = "mem" THEN {0, 2} ELSE {1}]
MCPosts == {[rate |-> 2, en |-> 0, lvl |-> 0, cgid |-> NoCgroup],
            [rate |-> 0, en |-> 1, lvl |-> 0, cgid |-> box]}
=============================================================================
