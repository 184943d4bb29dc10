----------------------------- MODULE MCLifecycle -----------------------------
(***************************************************************************)
(* Instances of Lifecycle for TLC: symmetric CLI processes, containers and *)
(* PIDs, and states that differ only in what nobody reads any more taken   *)
(* for one.                                                                *)
(***************************************************************************)
EXTENDS Lifecycle, TLC

MCSymmetry == Permutations(CLI) \cup Permutations(Daemon) \cup Permutations(Containers) \cup Permutations(Pids)

\* Spawn sets anew what is known of a free PID, and only a live process uses its
\* address and its cgroup; the last steps of an operation do not look at the
\* ContainerInfo, and only stop and adjust use a status and a PID found there; a
\* worker without a child is past caring which operation it ends; for a container
\* that crashed no other exception counts.
MCView ==
    LET used == {p \in Pids : child[p] # "free"}
        live == {p \in Pids : Alive(p)}
        ending == {w \in Workers : pc[w] \in {"release", "giveback", "exit"}
                                  /\ pid[w] = NoPid}
        inside == {w \in Workers : pc[w] \notin {"cleanup", "release", "giveback", "exit",
                                                 "rmcgroup", "rmdir"}}
        found == {w \in Workers : pc[w] \in {"kill", "limits", "adjusted"}}
    IN  <<disk, cgroup, addresses, child,
          [p \in used |-> <<runs[p], parent[p]>>],
          [p \in live |-> <<addr[p], p \in member>>],
          [w \in Workers \ ending |-> op[w]], cont, pc,
          [w \in inside |-> info[w].limits], [w \in found |-> info[w]],
          pid, ip, file, calls, crashes,
          crashed, stale \ crashed, unsettled \ crashed, raced \ crashed,
          (early \ crashed) \ raced, (kept \ crashed) \ raced>>
=============================================================================
