--------------------------- MODULE LifecycleProofs ---------------------------
(***************************************************************************)
(* Proofs about the life of containers for any number of workers,          *)
(* containers, PIDs and addresses and any bounds: types, and the facts     *)
(* that survive the absence of locks: a worker's PID is its own child, an  *)
(* address on loan has a worker that releases it, a config.json that says  *)
(* "running" has a worker that will say "stopped", the command of run is   *)
(* inside its cgroup, a child at its pipe has a worker that will write     *)
(* into it, no two containers' processes share an address, and the limits  *)
(* recorded for a running container are those in force.                    *)
(***************************************************************************)
EXTENDS Lifecycle, TLAPS

\* The steps of each operation.
StepsOf(o) ==
    CASE o = "run" -> Steps \ {"copiers", "kill", "limits", "adjusted", "rmcgroup", "rmdir"}
      [] o = "createAndRun" -> {"create", "spawn", "cgroup", "veth", "send", "running",
                                "wait", "stopped", "cleanup", "exit"}
      [] o = "start" -> {"spawn", "veth", "allocate", "grant", "send", "running", "cgroup",
                         "wait", "copiers", "stopped", "cleanup", "release", "giveback",
                         "exit"}
      [] o = "stop" -> {"kill", "stopped", "release", "giveback", "exit"}
      [] o = "adjust" -> {"limits", "adjusted", "exit"}
      [] OTHER -> {"rmcgroup", "rmdir", "exit"}

\* The worker has spawned its child and not yet waited for it.
NeedsChildAt(o, step) ==
    \/ step \in {"cgroup", "veth", "send", "running", "wait"}
    \/ step \in {"allocate", "grant"} /\ o = "start"
NeedsChild(w) == NeedsChildAt(op[w], pc[w])

\* Where a worker stands and what it has in memory fit together.
WorkerOK(w) ==
    /\ pc[w] \in StepsOf(op[w])
    /\ pc[w] = "idle" => pid[w] = NoPid
    /\ pc[w] # "idle" => cont[w] \in Containers
    /\ NeedsChild(w) => pid[w] # NoPid
    /\ ip[w] # NoIP => op[w] \in {"run", "start"} /\ pc[w] \notin {"idle", "exit"}
    /\ file[w] # "closed" => /\ pc[w] \in WriteSteps
                             /\ info[w].status = StatusAt(pc[w], info[w].status)
    /\ loaded[w] # NoBook <=> pc[w] \in {"grant", "giveback"}

\* A process belongs to a container.
ProcessInv == \A p \in Pids : child[p] # "free" => runs[p] \in Containers

\* Two workers that rewrite the address book at one time have raced; what a worker has
\* read still stands for the containers nobody raced for; and it read no entry for the
\* container it is going to grant an address.
Overlapped ==
    \A v, w \in Workers :
        v # w /\ loaded[v] # NoBook /\ loaded[w] # NoBook => cont[v] \in raced
Current ==
    \A w \in Workers, d \in Containers \ raced :
        loaded[w] # NoBook => loaded[w][d] = book[d]
GrantsNew ==
    \A w \in Workers : pc[w] = "grant" => loaded[w][cont[w]] = NoIP
BookInv == Overlapped /\ Current /\ GrantsNew

\* The worker wrote "running" and has not begun to write "stopped".
Author(w, c) ==
    /\ cont[w] = c /\ WillWriteStopped(w)
    /\ op[w] # "stop" /\ file[w] = "closed"

RunningHasAuthor ==
    \A c \in Containers \ (crashed \cup stale) :
        Found(c) /\ cfg[c].status = "running" => \E w \in Workers : Author(w, c)

WorkersOK == \A w \in Workers : WorkerOK(w)

IInv ==
    /\ TypeOK
    /\ WorkersOK
    /\ ProcessInv
    /\ ChildIsMine
    /\ BookInv
    /\ AddressHasHolder
    /\ RunningHasAuthor

-----------------------------------------------------------------------------
\* No operation leaves its own sequence of steps.
LEMMA AfterInOp ==
    ASSUME NEW o \in AllOps, NEW step \in StepsOf(o)
    PROVE  After(o, step) \in StepsOf(o) /\ After(o, step) # "idle"
<1>1. CASE o = "run"
  BY <1>1 DEF After, StepsOf, Steps
<1>2. CASE o = "createAndRun"
  BY <1>2 DEF After, StepsOf
<1>3. CASE o = "start"
  BY <1>3 DEF After, StepsOf
<1>4. CASE o = "stop"
  BY <1>4 DEF After, StepsOf
<1>5. CASE o = "adjust"
  BY <1>5 DEF After, StepsOf
<1>6. CASE o = "rm"
  BY <1>6 DEF After, StepsOf
<1> QED BY <1>1, <1>2, <1>3, <1>4, <1>5, <1>6 DEF AllOps

\* The steps of an operation are steps.
LEMMA StepsOfType == \A o \in AllOps : StepsOf(o) \subseteq Steps
BY DEF AllOps, StepsOf, Steps

\* A record with fields of the right types is a ContainerInfo,
LEMMA InfoType ==
    ASSUME NEW st \in {"created", "running", "stopped"}, NEW p \in Pids \cup {NoPid},
           NEW l \in Limits
    PROVE  [status |-> st, pid |-> p, limits |-> l] \in Infos
BY DEF Infos

\* and the fields of a ContainerInfo have their types.
LEMMA InfoFields ==
    ASSUME NEW i \in Infos
    PROVE  /\ i.status \in {"created", "running", "stopped"}
           /\ i.pid \in Pids \cup {NoPid}
           /\ i.limits \in Limits
BY DEF Infos

\* The ContainerInfo of a new container is one.
LEMMA NoInfoType == \A l \in Limits : NoInfo(l) \in Infos
BY DEF NoInfo, Infos

\* The status and PID a write step stores have their types.
LEMMA StatusAtType ==
    ASSUME NEW step, NEW old \in {"created", "running", "stopped"},
           NEW p \in Pids \cup {NoPid}, NEW q \in Pids \cup {NoPid}
    PROVE  /\ StatusAt(step, old) \in {"created", "running", "stopped"}
           /\ PidAt(step, p, q) \in Pids \cup {NoPid}
BY DEF StatusAt, PidAt

\* A write leaves what was written, or a file that is not JSON.
LEMMA OverwriteResult ==
    ASSUME NEW old, NEW new, NEW f \in Overwrite(old, new)
    PROVE  f = new \/ f = Torn
BY DEF Overwrite

\* Reading the book and writing it back keep its type.
LEMMA LoadType ==
    ASSUME TypeOK, WorkersOK, NEW w \in Workers, cont[w] \in Containers, Load(w)
    PROVE  /\ book' \in Books /\ loaded' \in [Workers -> Books \cup {NoBook}]
           /\ raced' \subseteq Containers
<1>1. \A v \in Rewriting : cont[v] \in Containers
  BY DEF Rewriting, WorkersOK, WorkerOK
<1> QED BY <1>1 DEF Load, TypeOK, Rewriting

LEMMA SaveType ==
    ASSUME TypeOK, WorkersOK, NEW w \in Workers, pc[w] \in {"grant", "giveback"},
           NEW i \in IPs \cup {NoIP}, Save(w, i)
    PROVE  /\ book' \in Books /\ loaded' \in [Workers -> Books \cup {NoBook}]
           /\ cont[w] \in Containers /\ loaded[w] \in Books
           /\ \A c \in Containers : book'[c] = IF c = cont[w] THEN i ELSE loaded[w][c]
           /\ \A v \in Workers : loaded'[v] = IF v = w THEN NoBook ELSE loaded[v]
<1>1. loaded[w] \in Books /\ cont[w] \in Containers
  BY DEF TypeOK, WorkersOK, WorkerOK
<1> QED BY <1>1 DEF Save, TypeOK, Books

\* Continuing, bailing out and giving up after a failed write stay in the
\* operation.
LEMMA ContinueOK ==
    ASSUME TypeOK, WorkersOK, NEW w \in Workers
    PROVE  /\ After(op[w], pc[w]) \in StepsOf(op[w]) /\ After(op[w], pc[w]) # "idle"
           /\ After(op[w], pc[w]) \in Steps
<1>1. op[w] \in AllOps /\ pc[w] \in StepsOf(op[w])
  BY DEF TypeOK, WorkersOK, WorkerOK
<1> QED BY <1>1, AfterInOp, StepsOfType

\* Removing a cgroup, or failing to, and setting its limits keep their type.
LEMMA RemovalType ==
    ASSUME TypeOK, NEW c \in Containers
    PROVE  /\ AfterRemoval(c) \in [Containers -> Limits \cup {NoCgroup}]
           /\ \A l \in Limits : Applied(c, l) \in [Containers -> Limits \cup {NoCgroup}]
BY DEF AfterRemoval, Applied, TypeOK

\* A process that dies or is killed is in one of the child states.
LEMMA ChildTypes ==
    ASSUME TypeOK
    PROVE  /\ \A p \in Pids : [child EXCEPT ![p] = Ended(p)] \in [Pids -> ChildStates]
           /\ \A w \in Workers, c \in [Pids -> ChildStates] :
                KillChild(w) => child' \in [Pids -> ChildStates]
BY DEF TypeOK, Ended, ChildStates, KillChild

\* Every step keeps the types.
LEMMA TypeStep ==
    ASSUME TypeOK, WorkersOK, ProcessInv, [Next]_vars
    PROVE  TypeOK'
<1> USE LifecycleAssumption DEF addresses, exceptions
<1>0. \A w \in Workers :
        /\ pc[w] # "idle" => cont[w] \in Containers
        /\ info[w] \in Infos
        /\ pid[w] \in Pids \cup {NoPid}
  BY DEF TypeOK, WorkersOK, WorkerOK
<1>1. ASSUME NEW w \in Workers, NEW o \in AllOps, NEW c \in Containers, NEW i \in Infos,
             NEW step \in Steps, Begin(w, o, c, i, step),
             dir' \subseteq Containers, born' \subseteq Containers
      PROVE  TypeOK'
  BY <1>1 DEF Begin, TypeOK, At, Goto, processes
<1>2. ASSUME NEW w \in Workers, Call(w) PROVE TypeOK'
  <2> USE DEF AllOps, Steps
  <2>1. ASSUME NEW c \in Containers, NEW l \in Limits, Run(w, c, l) PROVE TypeOK'
    BY <1>1, <2>1, NoInfoType DEF Run, TypeOK
  <2>2. ASSUME NEW c \in Containers, NEW l \in Limits, CreateAndRun(w, c, l) PROVE TypeOK'
    BY <1>1, <2>2, NoInfoType DEF CreateAndRun, TypeOK
  <2>3. ASSUME NEW c \in Containers, NEW l \in Limits, AdjustResourceLimits(w, c, l)
        PROVE  TypeOK'
    <3>1. [status |-> cfg[c].status, pid |-> cfg[c].pid, limits |-> l] \in Infos
      BY <2>3, InfoFields, InfoType DEF AdjustResourceLimits, Found
    <3> QED BY <1>1, <2>3, <3>1 DEF AdjustResourceLimits, TypeOK
  <2>4. ASSUME NEW c \in Containers, Start(w, c) PROVE TypeOK'
    BY <1>1, <2>4 DEF Start, Found, TypeOK
  <2>5. ASSUME NEW c \in Containers, StopContainer(w, c) PROVE TypeOK'
    BY <1>1, <2>5 DEF StopContainer, Found, TypeOK
  <2>6. ASSUME NEW c \in Containers, RemoveContainer(w, c) PROVE TypeOK'
    BY <1>1, <2>6 DEF RemoveContainer, Found, TypeOK
  <2> QED BY <1>2, <2>1, <2>2, <2>3, <2>4, <2>5, <2>6 DEF Call
<1>3. ASSUME NEW w \in Workers, Allocate(w) PROVE TypeOK'
  <2>1. cont[w] \in Containers
    BY <1>0, <1>3 DEF Allocate, At
  <2>2. book' \in Books /\ loaded' \in [Workers -> Books \cup {NoBook}]
        /\ raced' \subseteq Containers
    BY <1>3, <2>1, LoadType DEF Allocate, TypeOK
  <2>3. ip' \in [Workers -> IPs \cup {NoIP}]
    BY <1>3, <2>1 DEF Allocate, TypeOK, Books
  <2>4. pc' \in [Workers -> Steps]
    BY <1>3, ContinueOK DEF Allocate, TypeOK, Continue, Goto, Steps
  <2> QED BY <1>3, <2>2, <2>3, <2>4 DEF Allocate, TypeOK, disk, processes
<1>29. ASSUME NEW w \in Workers, Grant(w) PROVE TypeOK'
  <2>1. PICK i \in FreeIPs(loaded[w]) : Save(w, i) /\ ip' = [ip EXCEPT ![w] = i]
    BY <1>29 DEF Grant
  <2>2. i \in IPs
    BY DEF FreeIPs
  <2>3. book' \in Books /\ loaded' \in [Workers -> Books \cup {NoBook}]
    BY <1>29, <2>1, <2>2, SaveType DEF Grant, At
  <2> QED
    BY <1>29, <2>1, <2>2, <2>3, ContinueOK
       DEF Grant, TypeOK, Continue, Goto, disk, processes, history
<1>4. ASSUME NEW w \in Workers, OpenConfig(w) PROVE TypeOK'
  <2>1. [status |-> StatusAt(pc[w], info[w].status),
         pid |-> PidAt(pc[w], info[w].pid, pid[w]),
         limits |-> info[w].limits] \in Infos
    BY <1>0, InfoFields, InfoType, StatusAtType
  <2>2. PICK i \in Infos : info' = [info EXCEPT ![w] = i]
    BY <1>4, <2>1 DEF OpenConfig
  <2> HIDE <2>1
  <2>3. info' \in [Workers -> Infos]
    BY <2>2 DEF TypeOK
  <2> QED
    BY <1>4, <2>3 DEF OpenConfig, TypeOK, processes, history, ConfigFiles
<1>5. ASSUME NEW w \in Workers, EncodeConfig(w) PROVE TypeOK'
  <2>1. cont[w] \in Containers
    BY <1>0, <1>5 DEF EncodeConfig, WriteSteps
  <2>2. cfg' \in [Containers -> ConfigFiles]
    BY <1>0, <1>5, OverwriteResult DEF EncodeConfig, TypeOK, ConfigFiles
  <2> QED
    BY <1>5, <2>1, <2>2, ContinueOK DEF EncodeConfig, TypeOK, Continue, Goto, processes
<1>6. ASSUME NEW w \in Workers, WriteConfigFails(w) PROVE TypeOK'
  <2>1. AfterFailedWrite(w) \in Steps
    BY ContinueOK DEF AfterFailedWrite, Bailout, Steps
  <2>2. cfg' \in [Containers -> ConfigFiles]
    BY <1>6 DEF WriteConfigFails, TypeOK, ConfigFiles
  <2>3. cont[w] \in Containers
    BY <1>0, <1>6 DEF WriteConfigFails, WriteSteps
  <2>4. stale' \subseteq Containers /\ unsettled' \subseteq Containers
    BY <1>6, <2>3 DEF WriteConfigFails, TypeOK
  <2> QED
    BY <1>6, <2>1, <2>2, <2>4 DEF WriteConfigFails, TypeOK, Goto, processes
<1>7. ASSUME NEW w \in Workers, Spawn(w) PROVE TypeOK'
  <2>1. cont[w] \in Containers
    BY <1>0, <1>7 DEF Spawn, At
  <2> QED
    BY <1>7, <2>1, ContinueOK
       DEF Spawn, TypeOK, Continue, Goto, disk, history, ChildStates
<1>8. ASSUME NEW w \in Workers, SetupCgroup(w) PROVE TypeOK'
  <2>1. cont[w] \in Containers /\ pid[w] \in Pids /\ info[w].limits \in Limits
    BY <1>0, <1>8, InfoFields
       DEF SetupCgroup, At, WorkersOK, WorkerOK, NeedsChild, NeedsChildAt
  <2>2. cgroup' \in [Containers -> Limits \cup {NoCgroup}]
    BY <1>8, <2>1, RemovalType DEF SetupCgroup
  <2> QED
    BY <1>8, <2>1, <2>2, ContinueOK
       DEF SetupCgroup, TypeOK, Continue, Goto, disk, history
<1>9. ASSUME NEW w \in Workers, SetupCgroupFails(w) PROVE TypeOK'
  <2>1. cont[w] \in Containers /\ info[w].limits \in Limits /\ Bailout(w) \in Steps
    BY <1>0, <1>9, InfoFields DEF SetupCgroupFails, At, Bailout, Steps
  <2>2. child' \in [Pids -> ChildStates]
    BY <1>9, ChildTypes DEF SetupCgroupFails, TypeOK
  <2>3. cgroup' \in [Containers -> Limits \cup {NoCgroup}]
    BY <1>9, <2>1, RemovalType DEF SetupCgroupFails, TypeOK
  <2> QED
    BY <1>9, <2>1, <2>2, <2>3 DEF SetupCgroupFails, TypeOK, Goto, disk
<1>10. ASSUME NEW w \in Workers, SetupVeth(w) PROVE TypeOK'
  BY <1>10, ContinueOK DEF SetupVeth, TypeOK, Continue, Goto, disk, processes, history
<1>11. ASSUME NEW w \in Workers, Send(w) PROVE TypeOK'
  BY <1>11, ContinueOK DEF Send, TypeOK, Continue, Goto, disk, history, ChildStates
<1>12. ASSUME NEW w \in Workers, CallFails(w) PROVE TypeOK'
  <2>1. Bailout(w) \in Steps
    BY DEF Bailout, Steps
  <2>2. child' \in [Pids -> ChildStates]
    BY <1>12, ChildTypes DEF CallFails, TypeOK
  <2> QED
    BY <1>12, <2>1, <2>2 DEF CallFails, TypeOK, Goto, disk, history
<1>13. ASSUME NEW w \in Workers, Wait(w) \/ CopiersEnd(w) PROVE TypeOK'
  <2>1. pc' \in [Workers -> Steps]
    BY <1>13, ContinueOK DEF Wait, CopiersEnd, TypeOK, Continue, Goto, Steps
  <2> QED
    BY <1>13, <2>1 DEF Wait, CopiersEnd, TypeOK, disk, processes, history, ChildStates
<1>14. ASSUME NEW w \in Workers, CleanupCgroup(w) PROVE TypeOK'
  <2>1. cgroup' \in [Containers -> Limits \cup {NoCgroup}]
    BY <1>0, <1>14, RemovalType DEF CleanupCgroup, At
  <2> QED
    BY <1>14, <2>1, ContinueOK
       DEF CleanupCgroup, TypeOK, Continue, Goto, disk, processes, history
<1>15. ASSUME NEW w \in Workers, Release(w) PROVE TypeOK'
  <2>1. cont[w] \in Containers
    BY <1>0, <1>15 DEF Release, At
  <2>2. book' \in Books /\ loaded' \in [Workers -> Books \cup {NoBook}]
        /\ raced' \subseteq Containers
    BY <1>15, <2>1, LoadType DEF Release, TypeOK
  <2>3. early' \subseteq Containers
    BY <1>15, <2>1 DEF Release, Early, TypeOK
  <2>4. pc' \in [Workers -> Steps]
    BY <1>15, ContinueOK DEF Release, TypeOK, Continue, Goto, Steps
  <2> QED BY <1>15, <2>2, <2>3, <2>4 DEF Release, TypeOK, disk, processes
<1>30. ASSUME NEW w \in Workers, GiveBack(w) PROVE TypeOK'
  <2>1. book' \in Books /\ loaded' \in [Workers -> Books \cup {NoBook}]
        /\ cont[w] \in Containers
    BY <1>30, SaveType DEF GiveBack, At
  <2>2. early' \subseteq Containers /\ kept' \subseteq Containers
    BY <1>30, <2>1 DEF GiveBack, Early, TypeOK
  <2> QED
    BY <1>30, <2>1, <2>2, ContinueOK
       DEF GiveBack, TypeOK, Continue, Goto, disk, processes
<1>31. ASSUME NEW w \in Workers, ReleaseFails(w) PROVE TypeOK'
  <2>1. cont[w] \in Containers
    BY <1>0, <1>31 DEF ReleaseFails
  <2>2. kept' \subseteq Containers
    BY <1>31, <2>1 DEF ReleaseFails, TypeOK
  <2> QED BY <1>31, <2>2 DEF ReleaseFails, TypeOK, Goto, Steps, disk, processes
<1>16. ASSUME NEW w \in Workers, Kill(w) PROVE TypeOK'
  <2>1. child' \in [Pids -> ChildStates]
    BY <1>16, ChildTypes DEF Kill, Dies, TypeOK
  <2>2. pc' \in [Workers -> Steps]
    BY <1>16, ContinueOK DEF Kill, TypeOK, Continue, Goto, Steps
  <2> QED BY <1>16, <2>1, <2>2 DEF Kill, TypeOK, disk, history
<1>17. ASSUME NEW w \in Workers, ApplyLimits(w) PROVE TypeOK'
  <2>1. cont[w] \in Containers /\ info[w].limits \in Limits
    BY <1>0, <1>17, InfoFields DEF ApplyLimits, At
  <2>2. cgroup' \in [Containers -> Limits \cup {NoCgroup}]
    <3>1. CASE \E l \in Limits : cgroup' = [cgroup EXCEPT ![cont[w]] = l]
      <4>1. PICK l \in Limits : cgroup' = [cgroup EXCEPT ![cont[w]] = l]
        BY <3>1
      <4> QED BY <4>1 DEF TypeOK
    <3>2. CASE cgroup' = Applied(cont[w], info[w].limits) \/ UNCHANGED cgroup
      BY <2>1, <3>2, RemovalType DEF TypeOK
    <3> QED BY <1>17, <3>1, <3>2 DEF ApplyLimits
  <2>3. pc' \in [Workers -> Steps]
    BY <1>17, ContinueOK DEF ApplyLimits, TypeOK, Continue, Goto, Steps
  <2>4. unsettled' \subseteq Containers
    BY <1>17, <2>1 DEF ApplyLimits, TypeOK
  <2> QED
    BY <1>17, <2>2, <2>3, <2>4 DEF ApplyLimits, TypeOK, disk, processes, history
<1>18. ASSUME NEW w \in Workers, RemoveCgroup(w) PROVE TypeOK'
  <2>1. cgroup' \in [Containers -> Limits \cup {NoCgroup}]
    BY <1>0, <1>18, RemovalType DEF RemoveCgroup, At
  <2> QED
    BY <1>18, <2>1 DEF RemoveCgroup, TypeOK, Goto, Steps, disk, processes, history
<1>19. ASSUME NEW w \in Workers, RemoveDir(w) PROVE TypeOK'
  BY <1>19, ContinueOK
     DEF RemoveDir, TypeOK, Continue, Goto, processes, history, ConfigFiles
<1>20. ASSUME NEW W \in SUBSET Workers, Forget(W)
       PROVE  /\ op' \in [Workers -> AllOps]
              /\ cont' \in [Workers -> Containers \cup {NoContainer}]
              /\ pc' \in [Workers -> Steps]
              /\ info' \in [Workers -> Infos]
              /\ pid' \in [Workers -> Pids \cup {NoPid}]
              /\ ip' \in [Workers -> IPs \cup {NoIP}]
              /\ file' \in [Workers -> {"closed", "open", "unlinked"}]
              /\ loaded' \in [Workers -> Books \cup {NoBook}]
  BY <1>20, NoInfoType DEF Forget, TypeOK, Steps, AllOps
<1>21. ASSUME NEW W \in SUBSET Workers, Orphan(W)
       PROVE  /\ child' \in [Pids -> ChildStates]
              /\ parent' \in [Pids -> Workers \cup {NoWorker}]
              /\ UNCHANGED <<runs, member, addr>>
  BY <1>21 DEF Orphan, TypeOK, ChildStates
<1>22. ASSUME NEW w \in Workers, Return(w) PROVE TypeOK'
  <2>1. Forget({w}) /\ {w} \in SUBSET Workers
    BY <1>22 DEF Return
  <2>2. /\ child' \in [Pids -> ChildStates]
        /\ parent' \in [Pids -> Workers \cup {NoWorker}]
        /\ UNCHANGED <<runs, member, addr>>
    BY <1>21, <1>22, <2>1 DEF Return, processes, TypeOK
  <2> QED BY <1>20, <1>22, <2>1, <2>2 DEF Return, TypeOK, disk, history
<1>23. ASSUME NEW W \in SUBSET Workers, Crash(W) PROVE TypeOK'
  <2>1. Forget(W) /\ Orphan(W)
    BY <1>23 DEF Crash
  <2> QED BY <1>20, <1>21, <1>23, <2>1 DEF Crash, TypeOK, disk
<1>24. ASSUME NEW p \in Pids, Progress(p) \/ ProcessEnds(p) PROVE TypeOK'
  <2>1. child' \in [Pids -> ChildStates]
    BY <1>24, ChildTypes
       DEF Progress, PipeClosed, SetupRootfs, Exec, ProcessEnds, Dies, TypeOK, ChildStates
  <2>2. dir' \subseteq Containers
    BY <1>24 DEF Progress, PipeClosed, SetupRootfs, Exec, ProcessEnds, TypeOK, disk,
                 ProcessInv
  <2> QED
    BY <1>24, <2>1, <2>2
       DEF Progress, PipeClosed, SetupRootfs, Exec, ProcessEnds, TypeOK, disk, history
<1>25. CASE UNCHANGED vars
  BY <1>25 DEF vars, disk, processes, history, TypeOK
<1>26. ASSUME NEW w \in Workers, Step(w) PROVE TypeOK'
  BY <1>3, <1>4, <1>5, <1>6, <1>7, <1>8, <1>9, <1>10, <1>11, <1>12, <1>13, <1>14, <1>15,
     <1>16, <1>17, <1>18, <1>19, <1>22, <1>26, <1>29, <1>30, <1>31 DEF Step
<1>27. \A w \in CLI : {w} \in SUBSET Workers
  BY DEF Workers
<1>28. Daemon \in SUBSET Workers
  BY DEF Workers
<1> QED
  BY <1>2, <1>13, <1>23, <1>24, <1>25, <1>26, <1>27, <1>28 DEF Next
-----------------------------------------------------------------------------
\* A step needs a child only if the step before it spawned it or had it, and
\* run and start return only through the deferred release.
LEMMA AfterNeeds ==
    ASSUME NEW o \in AllOps, NEW step \in StepsOf(o)
    PROVE  /\ NeedsChildAt(o, After(o, step)) =>
                step = "spawn" \/ (NeedsChildAt(o, step) /\ step # "wait")
           /\ o \in {"run", "start"} /\ step \notin {"idle", "release", "giveback", "exit"}
                => After(o, step) # "exit"
           /\ After(o, step) \notin {"grant", "giveback"}
<1> USE DEF After, StepsOf, NeedsChildAt
<1>1. CASE o = "run"
  BY <1>1 DEF Steps
<1>2. CASE o = "createAndRun"
  BY <1>2
<1>3. CASE o = "start"
  BY <1>3
<1>4. CASE o \in {"stop", "adjust", "rm"}
  BY <1>4
<1> QED BY <1>1, <1>2, <1>3, <1>4 DEF AllOps

\* A worker that goes on to its next step stands well there.
LEMMA ContinueKeeps ==
    ASSUME TypeOK, WorkersOK, NEW w \in Workers, Continue(w),
           pc[w] \notin {"idle", "exit"},
           op' = op, cont' = cont, file'[w] = "closed",
           \/ pid'[w] = pid[w] /\ pc[w] # "spawn"
           \/ pid'[w] # NoPid
           \/ pc[w] = "wait",
           \/ ip'[w] = NoIP
           \/ ip'[w] = ip[w] /\ pc[w] \notin {"release", "giveback"}
           \/ pc[w] \in {"allocate", "grant"},
           \/ loaded'[w] = NoBook
           \/ loaded'[w] = loaded[w] /\ pc[w] \notin {"grant", "giveback"}
    PROVE  WorkerOK(w)'
<1>1. WorkerOK(w) /\ op[w] \in AllOps
  BY DEF TypeOK, WorkersOK
<1>2. pc'[w] = After(op[w], pc[w])
  BY DEF TypeOK, Continue, Goto
<1>3. pc'[w] \in StepsOf(op[w]) /\ pc'[w] # "idle"
  BY <1>2, ContinueOK
<1>4. NeedsChildAt(op[w], pc'[w]) => pid'[w] # NoPid
  BY <1>1, <1>2, AfterNeeds DEF WorkerOK, NeedsChild
<1>5. ip'[w] # NoIP => op[w] \in {"run", "start"} /\ pc'[w] # "exit"
  <2>1. pc[w] \in {"allocate", "grant"} => op[w] \in {"run", "start"}
    BY <1>1 DEF WorkerOK, StepsOf, AllOps
  <2> QED BY <1>1, <1>2, <2>1, AfterNeeds DEF WorkerOK
<1>6. pc'[w] \notin {"grant", "giveback"} /\ loaded'[w] = NoBook
  BY <1>1, <1>2, AfterNeeds DEF WorkerOK
<1> QED BY <1>1, <1>3, <1>4, <1>5, <1>6 DEF WorkerOK, NeedsChild

\* So does one that releases its address and returns, or returns.
LEMMA LeavingKeeps ==
    ASSUME TypeOK, WorkersOK, NEW w \in Workers, NEW step \in {"release", "exit"},
           Goto(w, step), step \in StepsOf(op[w]), pc[w] # "idle",
           op' = op, cont' = cont, file'[w] = "closed", loaded'[w] = NoBook,
           \/ ip'[w] = NoIP
           \/ ip'[w] = ip[w] /\ (step = "exit" => ip[w] = NoIP)
    PROVE  WorkerOK(w)'
<1>1. WorkerOK(w) /\ pc'[w] = step
  BY DEF TypeOK, WorkersOK, Goto
<1> QED BY <1>1 DEF WorkerOK, NeedsChild, NeedsChildAt, WriteSteps

\* A worker whose own state is left alone stands as well as before.
LEMMA OthersKeep ==
    ASSUME NEW v \in Workers, WorkerOK(v),
           pc'[v] = pc[v], op'[v] = op[v], cont'[v] = cont[v], info'[v] = info[v],
           pid'[v] = pid[v], ip'[v] = ip[v], file'[v] = file[v], loaded'[v] = loaded[v]
    PROVE  WorkerOK(v)'
BY DEF WorkerOK, NeedsChild

\* An error return is a step of the operation, and releases an address first.
LEMMA BailoutOK ==
    ASSUME TypeOK, WorkersOK, NEW w \in Workers, pc[w] # "idle"
    PROVE  /\ Bailout(w) \in {"release", "exit"}
           /\ op[w] \in AllOps
           /\ Bailout(w) \in StepsOf(op[w])
           /\ Bailout(w) = "exit" => ip[w] = NoIP
<1>1. WorkerOK(w) /\ op[w] \in AllOps
  BY DEF TypeOK, WorkersOK
<1> QED BY <1>1 DEF Bailout, StepsOf, Steps, AllOps, WorkerOK

\* Every step keeps the workers in order.
LEMMA WorkersStep ==
    ASSUME TypeOK, WorkersOK, [Next]_vars
    PROVE  WorkersOK'
<1> USE LifecycleAssumption DEF addresses
<1>0. \A w \in Workers : WorkerOK(w)
  BY DEF WorkersOK
<1>1. ASSUME NEW w \in Workers, NEW o \in AllOps, NEW c \in Containers, NEW i,
             NEW step \in StepsOf(o), Begin(w, o, c, i, step),
             step \notin {"idle", "grant", "giveback"}, ~NeedsChildAt(o, step)
      PROVE  WorkersOK'
  <2>1. WorkerOK(w)'
    <3>1. ip[w] = NoIP /\ file[w] = "closed" /\ loaded[w] = NoBook
      BY <1>0, <1>1 DEF WorkerOK, Begin, At, WriteSteps
    <3>2. /\ pc'[w] = step /\ op'[w] = o /\ cont'[w] = c
          /\ ip' = ip /\ file' = file /\ loaded' = loaded
      BY <1>1 DEF Begin, Goto, TypeOK
    <3> QED BY <1>1, <3>1, <3>2 DEF WorkerOK, NeedsChild
  <2>2. ASSUME NEW v \in Workers, v # w PROVE WorkerOK(v)'
    BY <1>0, <1>1, <2>2, OthersKeep DEF Begin, Goto, TypeOK
  <2> QED BY <2>1, <2>2 DEF WorkersOK
<1>2. ASSUME NEW w \in Workers, Call(w) PROVE WorkersOK'
  <2> USE DEF AllOps, StepsOf, Steps, NeedsChildAt
  <2>1. ASSUME NEW c \in Containers, NEW l \in Limits, Run(w, c, l) PROVE WorkersOK'
    BY <1>1, <2>1 DEF Run
  <2>2. ASSUME NEW c \in Containers, NEW l \in Limits, CreateAndRun(w, c, l)
        PROVE  WorkersOK'
    BY <1>1, <2>2 DEF CreateAndRun
  <2>3. ASSUME NEW c \in Containers, NEW l \in Limits, AdjustResourceLimits(w, c, l)
        PROVE  WorkersOK'
    BY <1>1, <2>3 DEF AdjustResourceLimits
  <2>4. ASSUME NEW c \in Containers, Start(w, c) PROVE WorkersOK'
    BY <1>1, <2>4 DEF Start
  <2>5. ASSUME NEW c \in Containers, StopContainer(w, c) PROVE WorkersOK'
    BY <1>1, <2>5 DEF StopContainer
  <2>6. ASSUME NEW c \in Containers, RemoveContainer(w, c) PROVE WorkersOK'
    BY <1>1, <2>6 DEF RemoveContainer
  <2> QED BY <1>2, <2>1, <2>2, <2>3, <2>4, <2>5, <2>6 DEF Call
<1>3. ASSUME NEW w \in Workers, WorkerOK(w)',
             op' = op, cont' = cont,
             \A v \in Workers \ {w} :
                 /\ pc'[v] = pc[v] /\ info'[v] = info[v] /\ pid'[v] = pid[v]
                 /\ ip'[v] = ip[v] /\ file'[v] = file[v] /\ loaded'[v] = loaded[v]
      PROVE  WorkersOK'
  BY <1>0, <1>3, OthersKeep DEF WorkersOK
<1>4. \A w \in Workers : pc[w] \notin WriteSteps => file[w] = "closed"
  BY <1>0 DEF WorkerOK
<1>22. ASSUME NEW w \in Workers, Load(w), NoBook \notin Books
       PROVE  loaded'[w] # NoBook /\ \A v \in Workers \ {w} : loaded'[v] = loaded[v]
  BY <1>22 DEF Load, TypeOK
<1>23. ASSUME NEW w \in Workers, NEW i, Save(w, i)
       PROVE  loaded'[w] = NoBook /\ \A v \in Workers \ {w} : loaded'[v] = loaded[v]
  BY <1>23 DEF Save, TypeOK
<1>5. ASSUME NEW w \in Workers, Allocate(w) PROVE WorkersOK'
  <2>1. file'[w] = "closed" /\ pc[w] = "allocate" /\ op[w] \in {"run", "start"}
        /\ UNCHANGED <<op, cont, info, pid, file>>
    BY <1>0, <1>4, <1>5 DEF Allocate, At, WriteSteps, WorkerOK, StepsOf, TypeOK, AllOps
  <2>2. CASE Continue(w) /\ UNCHANGED loaded /\ ip' = [ip EXCEPT ![w] = book[cont[w]]]
    <3>1. WorkerOK(w)'
      BY <2>1, <2>2, ContinueKeeps
    <3> QED BY <1>3, <2>1, <2>2, <3>1 DEF Continue, Goto, TypeOK
  <2>3. CASE Goto(w, "grant") /\ Load(w) /\ ip' = ip
    <3>1. pc'[w] = "grant" /\ "grant" \in StepsOf(op[w])
      BY <2>1, <2>3 DEF Goto, TypeOK, StepsOf, Steps
    <3>2. WorkerOK(w)'
      BY <1>0, <1>22, <2>1, <2>3, <3>1 DEF WorkerOK, NeedsChild, NeedsChildAt
    <3> QED BY <1>3, <1>22, <2>1, <2>3, <3>2 DEF Goto, TypeOK
  <2> QED BY <1>5, <2>2, <2>3 DEF Allocate, addresses
<1>24. ASSUME NEW w \in Workers, Grant(w) PROVE WorkersOK'
  <2>1. PICK i : Save(w, i) /\ ip' = [ip EXCEPT ![w] = i]
    BY <1>24 DEF Grant
  <2>2. WorkerOK(w)'
    BY <1>4, <1>23, <1>24, <2>1, ContinueKeeps DEF Grant, At, WriteSteps
  <2> QED BY <1>3, <1>23, <1>24, <2>1, <2>2 DEF Grant, Continue, Goto, TypeOK
<1>6. ASSUME NEW w \in Workers, OpenConfig(w) PROVE WorkersOK'
  <2> DEFINE i == [status |-> StatusAt(pc[w], info[w].status),
                   pid |-> PidAt(pc[w], info[w].pid, pid[w]),
                   limits |-> info[w].limits]
  <2>1. i.status = StatusAt(pc[w], i.status)
    BY DEF StatusAt
  <2>2. info' = [info EXCEPT ![w] = i]
    BY <1>6 DEF OpenConfig
  <2> HIDE DEF i
  <2>3. info'[w] = i /\ \A v \in Workers \ {w} : info'[v] = info[v]
    BY <2>2 DEF TypeOK
  <2>4. WorkerOK(w)'
    BY <1>0, <1>6, <2>1, <2>3 DEF OpenConfig, WorkerOK, NeedsChild, TypeOK
  <2> QED BY <1>3, <1>6, <2>3, <2>4 DEF OpenConfig, TypeOK
<1>7. ASSUME NEW w \in Workers, EncodeConfig(w) PROVE WorkersOK'
  <2>1. WorkerOK(w)'
    <3>1. file'[w] = "closed"
      BY <1>7 DEF EncodeConfig, TypeOK
    <3>2. pc[w] \notin {"idle", "exit", "spawn", "grant", "release", "giveback"}
      BY <1>7 DEF EncodeConfig, WriteSteps
    <3> QED BY <1>7, <3>1, <3>2, ContinueKeeps DEF EncodeConfig
  <2> QED BY <1>3, <1>7, <2>1 DEF EncodeConfig, Continue, Goto, TypeOK
<1>8. ASSUME NEW w \in Workers, WriteConfigFails(w) PROVE WorkersOK'
  <2>1. /\ file'[w] = "closed" /\ ip' = ip /\ pid' = pid /\ loaded' = loaded
        /\ pc[w] \notin {"idle", "exit", "spawn", "grant", "release", "giveback"}
        /\ loaded[w] = NoBook
    BY <1>0, <1>8 DEF WriteConfigFails, WriteSteps, TypeOK, WorkerOK, addresses
  <2>2. WorkerOK(w)'
    <3>1. CASE AfterFailedWrite(w) = Bailout(w)
      BY <1>8, <2>1, <3>1, BailoutOK, LeavingKeeps DEF WriteConfigFails
    <3>2. CASE op[w] \in {"stop", "adjust"} /\ AfterFailedWrite(w) = "exit"
      <4>1. ip[w] = NoIP /\ "exit" \in StepsOf(op[w])
        BY <1>0, <3>2 DEF WorkerOK, StepsOf
      <4> QED BY <1>8, <2>1, <3>2, <4>1, LeavingKeeps DEF WriteConfigFails
    <3>3. CASE AfterFailedWrite(w) = After(op[w], pc[w])
      BY <1>8, <2>1, <3>3, ContinueKeeps DEF WriteConfigFails, Continue
    <3> QED BY <3>1, <3>2, <3>3 DEF AfterFailedWrite
  <2> QED BY <1>3, <1>8, <2>2 DEF WriteConfigFails, Goto, TypeOK
<1>9. ASSUME NEW w \in Workers, Spawn(w) PROVE WorkersOK'
  <2>1. pid'[w] # NoPid
    BY <1>9 DEF Spawn, TypeOK
  <2>2. WorkerOK(w)'
    BY <1>4, <1>9, <2>1, ContinueKeeps DEF Spawn, At, WriteSteps
  <2> QED BY <1>3, <1>9, <2>2 DEF Spawn, Continue, Goto, TypeOK, disk
<1>10. ASSUME NEW w \in Workers, SetupCgroup(w) \/ SetupVeth(w) \/ Send(w)
                                 \/ CopiersEnd(w) \/ CleanupCgroup(w)
       PROVE  WorkersOK'
  <2> USE <1>10 DEF SetupCgroup, SetupVeth, Send, CopiersEnd, CleanupCgroup, At
  <2>1. WorkerOK(w)'
    BY <1>4, ContinueKeeps DEF WriteSteps
  <2> QED BY <1>3, <2>1 DEF Continue, Goto, TypeOK, disk
<1>11. ASSUME NEW w \in Workers, SetupCgroupFails(w) \/ CallFails(w) PROVE WorkersOK'
  <2> USE <1>11 DEF SetupCgroupFails, CallFails, At
  <2>1. pc[w] # "idle" /\ file'[w] = "closed"
    BY <1>4 DEF WriteSteps
  <2>2. loaded'[w] = NoBook
    BY <1>0 DEF TypeOK, WorkerOK
  <2>3. WorkerOK(w)'
    BY <2>1, <2>2, BailoutOK, LeavingKeeps
  <2> QED BY <1>3, <2>3 DEF Goto, TypeOK
<1>12. ASSUME NEW w \in Workers, Wait(w) PROVE WorkersOK'
  <2>1. /\ file'[w] = "closed" /\ pc[w] = "wait" /\ pid' = [pid EXCEPT ![w] = NoPid]
        /\ UNCHANGED <<op, cont, info, ip, file, loaded>>
    BY <1>4, <1>12 DEF Wait, At, WriteSteps
  <2>2. CASE Continue(w)
    <3>1. WorkerOK(w)'
      BY <2>1, <2>2, ContinueKeeps
    <3> QED BY <1>3, <2>1, <2>2, <3>1 DEF Continue, Goto, TypeOK
  <2>3. CASE op[w] = "start" /\ Goto(w, "copiers")
    <3>1. WorkerOK(w)'
      BY <1>0, <2>1, <2>3
         DEF WorkerOK, Goto, TypeOK, StepsOf, NeedsChild, NeedsChildAt, WriteSteps
    <3> QED BY <1>3, <2>1, <2>3, <3>1 DEF Goto, TypeOK
  <2> QED BY <1>12, <2>2, <2>3 DEF Wait
<1>13. ASSUME NEW w \in Workers, Release(w) PROVE WorkersOK'
  <2>1. file'[w] = "closed" /\ pc[w] = "release" /\ UNCHANGED <<op, cont, info, pid, file>>
    BY <1>4, <1>13 DEF Release, At, WriteSteps
  <2>2. CASE Continue(w) /\ UNCHANGED loaded /\ ip' = [ip EXCEPT ![w] = NoIP]
    <3>1. WorkerOK(w)'
      BY <2>1, <2>2, ContinueKeeps DEF TypeOK
    <3> QED BY <1>3, <2>1, <2>2, <3>1 DEF Continue, Goto, TypeOK
  <2>3. CASE Goto(w, "giveback") /\ Load(w) /\ ip' = ip
    <3>1. op[w] \in {"run", "start", "stop"}
      BY <1>0, <2>1 DEF WorkerOK, StepsOf, TypeOK, AllOps
    <3>2. pc'[w] = "giveback" /\ "giveback" \in StepsOf(op[w])
      BY <2>3, <3>1 DEF Goto, TypeOK, StepsOf, Steps
    <3>3. WorkerOK(w)'
      BY <1>0, <1>22, <2>1, <2>3, <3>2 DEF WorkerOK, NeedsChild, NeedsChildAt
    <3> QED BY <1>3, <1>22, <2>1, <2>3, <3>3 DEF Goto, TypeOK
  <2> QED BY <1>13, <2>2, <2>3 DEF Release, addresses
<1>25. ASSUME NEW w \in Workers, GiveBack(w) PROVE WorkersOK'
  <2>1. WorkerOK(w)'
    BY <1>4, <1>23, <1>25, ContinueKeeps DEF GiveBack, At, WriteSteps, TypeOK
  <2> QED BY <1>3, <1>23, <1>25, <2>1 DEF GiveBack, Continue, Goto, TypeOK
<1>26. ASSUME NEW w \in Workers, ReleaseFails(w) PROVE WorkersOK'
  <2>1. /\ pc[w] \in {"release", "giveback"} /\ file'[w] = "closed" /\ ip'[w] = NoIP
        /\ loaded'[w] = NoBook /\ op' = op /\ cont' = cont
    BY <1>4, <1>26 DEF ReleaseFails, WriteSteps, TypeOK
  <2>2. "exit" \in StepsOf(op[w])
    BY DEF StepsOf, Steps, TypeOK, AllOps
  <2>3. WorkerOK(w)'
    BY <1>26, <2>1, <2>2, LeavingKeeps DEF ReleaseFails
  <2> QED BY <1>3, <1>26, <2>3 DEF ReleaseFails, Goto, TypeOK
<1>14. ASSUME NEW w \in Workers, Kill(w) \/ ApplyLimits(w) \/ RemoveCgroup(w)
       PROVE  WorkersOK'
  <2> USE <1>14 DEF Kill, ApplyLimits, RemoveCgroup, At
  <2>1. /\ file'[w] = "closed" /\ ip' = ip /\ pid' = pid /\ op' = op /\ cont' = cont
        /\ loaded' = loaded /\ pc[w] \in {"kill", "limits", "rmcgroup"}
        /\ loaded[w] = NoBook
    BY <1>0, <1>4 DEF WriteSteps, WorkerOK
  <2>2. ip[w] = NoIP /\ "exit" \in StepsOf(op[w])
    BY <1>0, <2>1 DEF WorkerOK, StepsOf, Steps, TypeOK, AllOps
  <2>3. Goto(w, "exit") \/ Continue(w)
    BY DEF Continue, After
  <2>4. WorkerOK(w)'
    BY <2>1, <2>2, <2>3, LeavingKeeps, ContinueKeeps
  <2> QED BY <1>3, <2>1, <2>3, <2>4 DEF Continue, Goto, TypeOK, disk
<1>15. ASSUME NEW w \in Workers, RemoveDir(w) PROVE WorkersOK'
  <2>1. pc[w] = "rmdir" /\ file[w] = "closed" /\ file'[w] = "closed"
    BY <1>4, <1>15 DEF RemoveDir, At, WriteSteps
  <2>2. WorkerOK(w)'
    BY <1>15, <2>1, ContinueKeeps DEF RemoveDir
  <2>3. ASSUME NEW v \in Workers, v # w PROVE WorkerOK(v)'
    <3>1. /\ pc'[v] = pc[v] /\ op'[v] = op[v] /\ cont'[v] = cont[v] /\ info'[v] = info[v]
          /\ pid'[v] = pid[v] /\ ip'[v] = ip[v] /\ loaded'[v] = loaded[v]
      BY <1>15, <2>3 DEF RemoveDir, Continue, Goto, TypeOK
    <3>2. file'[v] # "closed" => file[v] # "closed"
      BY <1>15 DEF RemoveDir
    <3> QED BY <1>0, <3>1, <3>2 DEF WorkerOK, NeedsChild
  <2> QED BY <2>2, <2>3 DEF WorkersOK
<1>16. ASSUME NEW W, Forget(W) PROVE WorkersOK'
  <2>1. ASSUME NEW v \in Workers, v \in W PROVE WorkerOK(v)'
    BY <1>16, <2>1 DEF Forget, WorkerOK, NeedsChild, NeedsChildAt, StepsOf, Steps
  <2>2. ASSUME NEW v \in Workers, v \notin W PROVE WorkerOK(v)'
    BY <1>0, <1>16, <2>2, OthersKeep DEF Forget
  <2> QED BY <2>1, <2>2 DEF WorkersOK
<1>17. ASSUME NEW w \in Workers, Return(w) PROVE WorkersOK'
  BY <1>16, <1>17 DEF Return
<1>18. ASSUME NEW W, Crash(W) PROVE WorkersOK'
  BY <1>16, <1>18 DEF Crash
<1>19. ASSUME NEW p \in Pids, Progress(p) \/ ProcessEnds(p) PROVE WorkersOK'
  BY <1>0, <1>19, OthersKeep
     DEF Progress, PipeClosed, SetupRootfs, Exec, ProcessEnds, WorkersOK
<1>20. CASE UNCHANGED vars
  BY <1>0, <1>20, OthersKeep DEF vars, WorkersOK
<1>21. ASSUME NEW w \in Workers, Step(w) PROVE WorkersOK'
  BY <1>5, <1>6, <1>7, <1>8, <1>9, <1>10, <1>11, <1>12, <1>13, <1>14, <1>15, <1>17, <1>21,
     <1>24, <1>25, <1>26 DEF Step
<1> QED BY <1>2, <1>10, <1>18, <1>19, <1>20, <1>21 DEF Next

\* Every step keeps the processes in order and leaves each worker its child.
LEMMA ProcessesStep ==
    ASSUME TypeOK, WorkersOK, ProcessInv, ChildIsMine, [Next]_vars
    PROVE  ProcessInv' /\ ChildIsMine'
<1> USE LifecycleAssumption
<1>0. \A w \in Workers : WorkerOK(w)
  BY DEF WorkersOK
<1>1. ASSUME runs' = runs, parent' = parent, pid' = pid, cont' = cont,
             \A p \in Pids : child'[p] # "free" => child[p] # "free",
             \A p \in Pids : child[p] # "free" /\ parent[p] # NoWorker
                                => child'[p] # "free"
      PROVE  ProcessInv' /\ ChildIsMine'
  <2>1. ProcessInv'
    BY <1>1 DEF ProcessInv
  <2>2. ASSUME NEW w \in Workers, pid[w] # NoPid
        PROVE  child'[pid[w]] # "free" /\ parent[pid[w]] = w /\ runs[pid[w]] = cont[w]
    BY <1>1, <2>2 DEF ChildIsMine, TypeOK
  <2> QED BY <1>1, <2>1, <2>2 DEF ChildIsMine
<1>2. ASSUME NEW w \in Workers, NEW o, NEW c, NEW i, NEW step, Begin(w, o, c, i, step)
      PROVE  ProcessInv' /\ ChildIsMine'
  <2>1. pid[w] = NoPid
    BY <1>0, <1>2 DEF Begin, At, WorkerOK
  <2> QED BY <1>2, <2>1 DEF Begin, ProcessInv, ChildIsMine, processes, TypeOK
<1>3. ASSUME NEW w \in Workers, Call(w) PROVE ProcessInv' /\ ChildIsMine'
  BY <1>2, <1>3
     DEF Call, Run, CreateAndRun, AdjustResourceLimits, Start, StopContainer, RemoveContainer
<1>4. ASSUME NEW w \in Workers,
             \/ Allocate(w) \/ Grant(w) \/ OpenConfig(w) \/ EncodeConfig(w)
             \/ WriteConfigFails(w) \/ SetupCgroup(w) \/ SetupVeth(w) \/ CopiersEnd(w)
             \/ CleanupCgroup(w) \/ Release(w) \/ GiveBack(w) \/ ReleaseFails(w)
             \/ ApplyLimits(w) \/ RemoveCgroup(w) \/ RemoveDir(w)
      PROVE  ProcessInv' /\ ChildIsMine'
  <2>1. UNCHANGED <<child, runs, parent, pid, cont>>
    BY <1>4 DEF Allocate, Grant, OpenConfig, EncodeConfig, WriteConfigFails, SetupCgroup,
                SetupVeth, CopiersEnd, CleanupCgroup, Release, GiveBack, ReleaseFails,
                ApplyLimits, RemoveCgroup, RemoveDir, processes
  <2> QED BY <1>1, <2>1
<1>5. ASSUME NEW w \in Workers, Spawn(w) PROVE ProcessInv' /\ ChildIsMine'
  <2>1. PICK p \in Pids :
          /\ child[p] = "free"
          /\ child' = [child EXCEPT ![p] = "init"]
          /\ runs' = [runs EXCEPT ![p] = cont[w]]
          /\ parent' = [parent EXCEPT ![p] = w]
          /\ pid' = [pid EXCEPT ![w] = p]
    BY <1>5 DEF Spawn
  <2>2. cont' = cont /\ cont[w] \in Containers
    BY <1>0, <1>5 DEF Spawn, At, WorkerOK
  <2>3. ProcessInv'
    BY <2>1, <2>2 DEF ProcessInv, TypeOK
  <2>4. ASSUME NEW v \in Workers, v # w, pid[v] # NoPid PROVE pid[v] # p
    BY <2>1, <2>4 DEF ChildIsMine
  <2> QED BY <2>1, <2>2, <2>3, <2>4 DEF ChildIsMine, TypeOK
<1>6. ASSUME NEW w \in Workers, SetupCgroupFails(w) \/ CallFails(w)
      PROVE  ProcessInv' /\ ChildIsMine'
  <2>1. pid[w] # NoPid => child[pid[w]] # "free"
    BY DEF ChildIsMine
  <2> QED
    BY <1>1, <1>6, <2>1 DEF SetupCgroupFails, CallFails, KillChild, TypeOK
<1>7. ASSUME NEW w \in Workers, Send(w) PROVE ProcessInv' /\ ChildIsMine'
  BY <1>1, <1>7 DEF Send, TypeOK
<1>8. ASSUME NEW w \in Workers, Wait(w) PROVE ProcessInv' /\ ChildIsMine'
  <2>1. pid[w] # NoPid
    BY <1>0, <1>8 DEF Wait, At, WorkerOK, NeedsChild, NeedsChildAt
  <2>2. \A v \in Workers : v # w /\ pid[v] # NoPid => pid[v] # pid[w]
    BY <2>1 DEF ChildIsMine
  <2>3. ProcessInv'
    BY <1>8 DEF Wait, ProcessInv, TypeOK
  <2> QED BY <1>8, <2>2, <2>3 DEF Wait, ChildIsMine, TypeOK
<1>9. ASSUME NEW p \in Pids, Dies(p), child[p] # "free",
             UNCHANGED <<runs, parent, pid, cont>>
      PROVE  ProcessInv' /\ ChildIsMine'
  BY <1>1, <1>9 DEF Dies, Ended, TypeOK
<1>10. ASSUME NEW w \in Workers, Kill(w) PROVE ProcessInv' /\ ChildIsMine'
  <2>1. UNCHANGED <<runs, parent, pid, cont>>
    BY <1>10 DEF Kill
  <2>2. CASE UNCHANGED child
    BY <1>1, <2>1, <2>2
  <2>3. CASE info[w].pid \in Pids /\ Alive(info[w].pid) /\ Dies(info[w].pid)
    BY <1>9, <2>1, <2>3 DEF Alive
  <2> QED BY <1>10, <2>2, <2>3 DEF Kill
<1>11. ASSUME NEW W \in SUBSET Workers, Forget(W), Orphan(W)
       PROVE  ProcessInv' /\ ChildIsMine'
  <2>1. ProcessInv'
    BY <1>11 DEF Orphan, ProcessInv
  <2>2. ASSUME NEW v \in Workers, pid'[v] # NoPid
        PROVE  child'[pid'[v]] # "free" /\ parent'[pid'[v]] = v /\ runs'[pid'[v]] = cont'[v]
    <3>1. v \notin W /\ pid'[v] = pid[v] /\ cont'[v] = cont[v]
      BY <1>11, <2>2 DEF Forget
    <3>2. pid[v] \in Pids /\ child[pid[v]] # "free" /\ parent[pid[v]] = v
          /\ runs[pid[v]] = cont[v]
      BY <2>2, <3>1 DEF ChildIsMine, TypeOK
    <3> QED BY <1>11, <3>1, <3>2 DEF Orphan
  <2> QED BY <2>1, <2>2 DEF ChildIsMine
<1>12. ASSUME NEW w \in Workers, Return(w) PROVE ProcessInv' /\ ChildIsMine'
  <2>1. CASE w \in CLI
    BY <1>11, <1>12, <2>1 DEF Return
  <2>2. CASE w \notin CLI
    BY <1>12, <2>2 DEF Return, Forget, processes, ProcessInv, ChildIsMine
  <2> QED BY <2>1, <2>2
<1>13. ASSUME NEW W \in SUBSET Workers, Crash(W) PROVE ProcessInv' /\ ChildIsMine'
  BY <1>11, <1>13 DEF Crash
<1>14. ASSUME NEW p \in Pids, Progress(p) \/ ProcessEnds(p)
       PROVE  ProcessInv' /\ ChildIsMine'
  <2>1. CASE PipeClosed(p) \/ ProcessEnds(p)
    BY <1>9, <2>1 DEF PipeClosed, ProcessEnds
  <2>2. CASE SetupRootfs(p) \/ Exec(p)
    BY <1>1, <2>2 DEF SetupRootfs, Exec, TypeOK
  <2> QED BY <1>14, <2>1, <2>2 DEF Progress
<1>15. CASE UNCHANGED vars
  BY <1>1, <1>15 DEF vars, processes
<1>16. ASSUME NEW w \in Workers, Step(w) PROVE ProcessInv' /\ ChildIsMine'
  BY <1>4, <1>5, <1>6, <1>7, <1>8, <1>10, <1>12, <1>16 DEF Step
<1>17. Daemon \in SUBSET Workers /\ \A w \in CLI : {w} \in SUBSET Workers
  BY DEF Workers
<1> QED BY <1>3, <1>4, <1>13, <1>14, <1>15, <1>16, <1>17 DEF Next

\* Reading and writing the address book change what only the worker itself has read.
LEMMA LoadResult ==
    ASSUME TypeOK, NEW w \in Workers, Load(w)
    PROVE  /\ book' = book /\ raced \subseteq raced'
           /\ \A v \in Workers : loaded'[v] = IF v = w THEN book ELSE loaded[v]
           /\ \A v \in Workers : loaded[v] # NoBook => {cont[v], cont[w]} \subseteq raced'
BY DEF Load, TypeOK, Rewriting

\* Every step keeps what the workers have read of the book up to date, but for the
\* containers that were raced for.
LEMMA BookStep ==
    ASSUME TypeOK, WorkersOK, BookInv, [Next]_vars
    PROVE  BookInv'
<1> USE LifecycleAssumption DEF addresses, history, exceptions
<1>0. /\ \A w \in Workers : WorkerOK(w)
      /\ \A w \in Workers : After(op[w], pc[w]) # "grant"
      /\ Overlapped /\ Current /\ GrantsNew
  BY AfterNeeds DEF WorkersOK, WorkerOK, TypeOK, BookInv
<1>1. ASSUME book' = book, raced \subseteq raced',
             \A w \in Workers : loaded'[w] # NoBook =>
                 loaded'[w] = loaded[w] /\ cont'[w] = cont[w],
             \A w \in Workers : pc'[w] = "grant" => pc[w] = "grant" /\ loaded'[w] # NoBook
      PROVE  BookInv'
  <2>1. Overlapped'
    BY <1>0, <1>1 DEF Overlapped
  <2>2. Current'
    BY <1>0, <1>1 DEF Current
  <2>3. GrantsNew'
    BY <1>0, <1>1 DEF GrantsNew
  <2> QED BY <2>1, <2>2, <2>3 DEF BookInv
<1>2. ASSUME NEW w \in Workers, NEW step, Goto(w, step), step # "grant",
             UNCHANGED <<book, loaded, cont, raced>>
      PROVE  BookInv'
  <2>1. \A v \in Workers : pc'[v] = "grant" => pc[v] = "grant"
    BY <1>2 DEF Goto, TypeOK
  <2> QED BY <1>0, <1>1, <1>2, <2>1 DEF WorkerOK
<1>3. ASSUME NEW w \in Workers, NEW step, Goto(w, step), Load(w), cont' = cont,
             pc[w] \in {"allocate", "release"}, step = "grant" => book[cont[w]] = NoIP
      PROVE  BookInv'
  <2>1. loaded[w] = NoBook
    BY <1>0, <1>3 DEF WorkerOK
  <2>2. /\ book' = book /\ raced \subseteq raced'
        /\ \A v \in Workers : loaded'[v] = IF v = w THEN book ELSE loaded[v]
        /\ \A v \in Workers : loaded[v] # NoBook => {cont[v], cont[w]} \subseteq raced'
    BY <1>3, LoadResult
  <2>3. \A v \in Workers \ {w} : pc'[v] = pc[v]
    BY <1>3 DEF Goto, TypeOK
  <2>4. Overlapped'
    <3> SUFFICES ASSUME NEW u \in Workers, NEW v \in Workers, u # v,
                        loaded'[u] # NoBook, loaded'[v] # NoBook
                 PROVE  cont[u] \in raced'
      BY <1>3 DEF Overlapped
    <3>1. CASE u = w
      BY <2>2, <3>1
    <3>2. CASE v = w
      BY <2>2, <3>2
    <3>3. CASE u # w /\ v # w
      BY <1>0, <2>2, <3>3 DEF Overlapped
    <3> QED BY <3>1, <3>2, <3>3
  <2>5. Current'
    BY <1>0, <2>2 DEF Current
  <2>6. GrantsNew'
    <3> SUFFICES ASSUME NEW v \in Workers, pc'[v] = "grant"
                 PROVE  loaded'[v][cont[v]] = NoIP
      BY <1>3 DEF GrantsNew
    <3>1. CASE v = w
      BY <1>3, <2>2, <3>1 DEF Goto, TypeOK
    <3>2. CASE v # w
      BY <1>0, <2>2, <2>3, <3>2 DEF GrantsNew
    <3> QED BY <3>1, <3>2
  <2> QED BY <2>4, <2>5, <2>6 DEF BookInv
<1>4. ASSUME NEW w \in Workers, NEW i \in IPs \cup {NoIP}, Save(w, i), Continue(w),
             pc[w] \in {"grant", "giveback"}, UNCHANGED <<cont, raced>>
      PROVE  BookInv'
  <2>1. /\ cont[w] \in Containers /\ loaded[w] \in Books
        /\ \A c \in Containers : book'[c] = IF c = cont[w] THEN i ELSE loaded[w][c]
        /\ \A v \in Workers : loaded'[v] = IF v = w THEN NoBook ELSE loaded[v]
    BY <1>4, SaveType
  <2>2. \A v \in Workers : pc'[v] = "grant" => v # w /\ pc[v] = "grant"
    BY <1>0, <1>4 DEF Continue, Goto, TypeOK
  <2>3. Overlapped'
    BY <1>0, <1>4, <2>1 DEF Overlapped
  <2>4. Current'
    <3> SUFFICES ASSUME NEW v \in Workers, NEW d \in Containers \ raced, loaded'[v] # NoBook
                 PROVE  loaded'[v][d] = book'[d]
      BY <1>4 DEF Current
    <3>1. v # w /\ loaded'[v] = loaded[v] /\ loaded[v] # NoBook /\ loaded[w] # NoBook
      BY <2>1
    <3>2. d # cont[w]
      BY <1>0, <3>1 DEF Overlapped
    <3>3. loaded[v][d] = book[d] /\ loaded[w][d] = book[d]
      BY <1>0, <3>1 DEF Current
    <3> QED BY <2>1, <3>1, <3>2, <3>3
  <2>5. GrantsNew'
    BY <1>0, <1>4, <2>1, <2>2 DEF GrantsNew
  <2> QED BY <2>3, <2>4, <2>5 DEF BookInv
<1>5. ASSUME NEW w \in Workers, NEW o, NEW c, NEW i, NEW step, Begin(w, o, c, i, step),
             step # "grant"
      PROVE  BookInv'
  <2>1. loaded[w] = NoBook
    BY <1>0, <1>5 DEF Begin, At, WorkerOK
  <2>2. \A v \in Workers : /\ pc'[v] = "grant" => pc[v] = "grant"
                           /\ v # w => cont'[v] = cont[v]
    BY <1>5 DEF Begin, Goto, TypeOK
  <2> QED BY <1>0, <1>1, <1>5, <2>1, <2>2 DEF Begin, WorkerOK
<1>6. ASSUME NEW w \in Workers, Call(w) PROVE BookInv'
  BY <1>5, <1>6
     DEF Call, Run, CreateAndRun, AdjustResourceLimits, Start, StopContainer, RemoveContainer
<1>7. ASSUME NEW w \in Workers,
             \/ EncodeConfig(w) \/ WriteConfigFails(w) \/ Spawn(w) \/ SetupCgroup(w)
             \/ SetupCgroupFails(w) \/ SetupVeth(w) \/ Send(w) \/ Wait(w) \/ CopiersEnd(w)
             \/ CleanupCgroup(w) \/ Kill(w) \/ ApplyLimits(w) \/ RemoveCgroup(w)
             \/ RemoveDir(w)
      PROVE  BookInv'
  <2>1. UNCHANGED <<book, loaded, cont, raced>>
    BY <1>7 DEF EncodeConfig, WriteConfigFails, Spawn, SetupCgroup, SetupCgroupFails,
                SetupVeth, Send, Wait, CopiersEnd, CleanupCgroup, Kill, ApplyLimits,
                RemoveCgroup, RemoveDir
  <2>2. AfterFailedWrite(w) # "grant" /\ Bailout(w) # "grant"
    BY <1>0 DEF AfterFailedWrite, Bailout
  <2>3. \E step : Goto(w, step) /\ step # "grant"
    BY <1>0, <1>7, <2>2
       DEF EncodeConfig, WriteConfigFails, Spawn, SetupCgroup, SetupCgroupFails, SetupVeth,
           Send, Wait, CopiersEnd, CleanupCgroup, Kill, ApplyLimits, RemoveCgroup, RemoveDir,
           Continue
  <2> QED BY <1>2, <2>1, <2>3
<1>8. ASSUME NEW w \in Workers, CallFails(w) \/ ReleaseFails(w) PROVE BookInv'
  <2>1. /\ UNCHANGED <<book, cont, raced>> /\ loaded' = [loaded EXCEPT ![w] = NoBook]
        /\ \E step : Goto(w, step) /\ step # "grant"
    BY <1>8 DEF CallFails, ReleaseFails, Bailout
  <2>2. \A v \in Workers : /\ pc'[v] = "grant" => v # w /\ pc[v] = "grant"
                           /\ v # w => loaded'[v] = loaded[v]
                           /\ loaded'[w] = NoBook
    BY <2>1 DEF Goto, TypeOK
  <2> QED BY <1>0, <1>1, <2>1, <2>2 DEF WorkerOK
<1>9. ASSUME NEW w \in Workers, OpenConfig(w) PROVE BookInv'
  BY <1>0, <1>1, <1>9 DEF OpenConfig, WorkerOK
<1>10. ASSUME NEW w \in Workers, Allocate(w) PROVE BookInv'
  BY <1>0, <1>2, <1>3, <1>10 DEF Allocate, At, Continue
<1>11. ASSUME NEW w \in Workers, Grant(w) PROVE BookInv'
  <2>1. \E i \in IPs \cup {NoIP} : Save(w, i)
    BY <1>11 DEF Grant, FreeIPs
  <2> QED BY <1>4, <1>11, <2>1 DEF Grant, At
<1>12. ASSUME NEW w \in Workers, Release(w) PROVE BookInv'
  BY <1>0, <1>2, <1>3, <1>12 DEF Release, At, Continue
<1>13. ASSUME NEW w \in Workers, GiveBack(w) PROVE BookInv'
  BY <1>4, <1>13 DEF GiveBack, At
<1>14. ASSUME NEW W, Forget(W), UNCHANGED <<book, raced>> PROVE BookInv'
  <2>1. \A v \in Workers : /\ loaded'[v] # NoBook => loaded'[v] = loaded[v] /\ cont'[v] = cont[v]
                           /\ pc'[v] = "grant" => pc[v] = "grant" /\ loaded'[v] = loaded[v]
    BY <1>14 DEF Forget
  <2> QED BY <1>0, <1>1, <1>14, <2>1 DEF WorkerOK
<1>15. ASSUME NEW w \in Workers, Return(w) PROVE BookInv'
  BY <1>14, <1>15 DEF Return
<1>16. ASSUME NEW W, Crash(W) PROVE BookInv'
  BY <1>14, <1>16 DEF Crash
<1>17. ASSUME UNCHANGED <<book, loaded, raced, cont, pc>> PROVE BookInv'
  BY <1>0, <1>1, <1>17 DEF WorkerOK
<1>18. ASSUME NEW p \in Pids, Progress(p) \/ ProcessEnds(p) PROVE BookInv'
  BY <1>17, <1>18 DEF Progress, PipeClosed, SetupRootfs, Exec, ProcessEnds
<1>19. CASE UNCHANGED vars
  BY <1>17, <1>19 DEF vars
<1>20. ASSUME NEW w \in Workers, Step(w) PROVE BookInv'
  BY <1>7, <1>8, <1>9, <1>10, <1>11, <1>12, <1>13, <1>15, <1>20 DEF Step
<1> QED BY <1>6, <1>7, <1>16, <1>18, <1>19, <1>20 DEF Next

\* Every step leaves an address on loan a worker that will release it.
LEMMA HolderStep ==
    ASSUME TypeOK, WorkersOK, BookInv, AddressHasHolder, [Next]_vars
    PROVE  AddressHasHolder'
<1> USE LifecycleAssumption DEF addresses, history, exceptions
<1>0. \A w \in Workers : WorkerOK(w)
  BY DEF WorkersOK
<1>1. ASSUME book' = book, ip' = ip, cont' = cont, crashed' = crashed, kept' = kept,
             raced \subseteq raced'
      PROVE  AddressHasHolder'
  BY <1>1 DEF AddressHasHolder
<1>2. ASSUME NEW w \in Workers, NEW o, NEW c, NEW i, NEW step, Begin(w, o, c, i, step)
      PROVE  AddressHasHolder'
  <2>1. ip[w] = NoIP
    BY <1>0, <1>2 DEF Begin, At, WorkerOK
  <2> QED BY <1>2, <2>1 DEF Begin, AddressHasHolder, TypeOK
<1>3. ASSUME NEW w \in Workers, Call(w) PROVE AddressHasHolder'
  BY <1>2, <1>3
     DEF Call, Run, CreateAndRun, AdjustResourceLimits, Start, StopContainer, RemoveContainer
<1>4. ASSUME NEW w \in Workers,
             \/ OpenConfig(w) \/ EncodeConfig(w) \/ WriteConfigFails(w) \/ Spawn(w)
             \/ SetupCgroup(w) \/ SetupCgroupFails(w) \/ SetupVeth(w) \/ Send(w)
             \/ CallFails(w) \/ Wait(w) \/ CopiersEnd(w) \/ CleanupCgroup(w) \/ Kill(w)
             \/ ApplyLimits(w) \/ RemoveCgroup(w) \/ RemoveDir(w)
      PROVE  AddressHasHolder'
  <2>1. UNCHANGED <<book, ip, cont, crashed, kept, raced>>
    BY <1>4 DEF OpenConfig, EncodeConfig, WriteConfigFails, Spawn, SetupCgroup,
                SetupCgroupFails, SetupVeth, Send, CallFails, Wait, CopiersEnd, CleanupCgroup,
                Kill, ApplyLimits, RemoveCgroup, RemoveDir
  <2> QED BY <1>1, <2>1
<1>5. ASSUME NEW w \in Workers, NEW i \in IPs \cup {NoIP}, Save(w, i),
             ip' = [ip EXCEPT ![w] = i], pc[w] \in {"grant", "giveback"},
             UNCHANGED <<cont, crashed, raced>>, kept \ {cont[w]} \subseteq kept'
      PROVE  AddressHasHolder'
  <2>1. /\ cont[w] \in Containers /\ loaded[w] \in Books
        /\ \A c \in Containers : book'[c] = IF c = cont[w] THEN i ELSE loaded[w][c]
    BY <1>5, SaveType
  <2> SUFFICES ASSUME NEW c \in Containers \ (crashed \cup kept' \cup raced), book'[c] # NoIP
               PROVE  \E v \in Workers : cont[v] = c /\ ip'[v] # NoIP
    BY <1>5 DEF AddressHasHolder
  <2>2. CASE c = cont[w]
    <3>1. ip'[w] # NoIP
      BY <1>5, <2>1, <2>2 DEF TypeOK
    <3> QED BY <2>2, <3>1
  <2>3. CASE c # cont[w]
    <3>1. book[c] # NoIP
      BY <2>1, <2>3 DEF BookInv, Current
    <3>2. PICK v \in Workers : cont[v] = c /\ ip[v] # NoIP
      BY <1>5, <2>3, <3>1 DEF AddressHasHolder
    <3> QED BY <1>5, <2>3, <3>2 DEF TypeOK
  <2> QED BY <2>2, <2>3
<1>6. ASSUME NEW w \in Workers, Load(w), UNCHANGED <<ip, cont, crashed, kept>>
      PROVE  AddressHasHolder'
  BY <1>1, <1>6, LoadResult
<1>7. ASSUME NEW w \in Workers, Allocate(w) PROVE AddressHasHolder'
  <2>1. CASE ip' = [ip EXCEPT ![w] = book[cont[w]]] /\ book[cont[w]] # NoIP
             /\ UNCHANGED <<book, raced>>
    BY <1>7, <2>1 DEF Allocate, AddressHasHolder, TypeOK
  <2>2. CASE Load(w) /\ ip' = ip
    BY <1>6, <1>7, <2>2 DEF Allocate
  <2> QED BY <1>7, <2>1, <2>2 DEF Allocate
<1>8. ASSUME NEW w \in Workers, Grant(w) PROVE AddressHasHolder'
  <2>1. \E i \in IPs \cup {NoIP} : Save(w, i) /\ ip' = [ip EXCEPT ![w] = i]
    BY <1>8 DEF Grant, FreeIPs
  <2> QED BY <1>5, <1>8, <2>1 DEF Grant, At
<1>9. ASSUME NEW w \in Workers, Release(w) PROVE AddressHasHolder'
  <2>1. CASE book[cont[w]] = NoIP /\ ip' = [ip EXCEPT ![w] = NoIP] /\ UNCHANGED <<book, raced>>
    BY <1>9, <2>1 DEF Release, AddressHasHolder, TypeOK
  <2>2. CASE Load(w) /\ ip' = ip
    BY <1>6, <1>9, <2>2 DEF Release
  <2> QED BY <1>9, <2>1, <2>2 DEF Release
<1>10. ASSUME NEW w \in Workers, GiveBack(w) PROVE AddressHasHolder'
  BY <1>5, <1>10 DEF GiveBack, At
<1>11. ASSUME NEW w \in Workers, ReleaseFails(w) PROVE AddressHasHolder'
  BY <1>11 DEF ReleaseFails, AddressHasHolder, TypeOK
<1>12. ASSUME NEW w \in Workers, Return(w) PROVE AddressHasHolder'
  <2>1. ip[w] = NoIP
    BY <1>0, <1>12 DEF Return, At, WorkerOK
  <2> QED BY <1>12, <2>1 DEF Return, Forget, AddressHasHolder
<1>13. ASSUME NEW W \in SUBSET Workers, Crash(W) PROVE AddressHasHolder'
  BY <1>13 DEF Crash, Forget, AddressHasHolder
<1>14. ASSUME NEW p \in Pids, Progress(p) \/ ProcessEnds(p) PROVE AddressHasHolder'
  BY <1>1, <1>14 DEF Progress, PipeClosed, SetupRootfs, Exec, ProcessEnds
<1>15. CASE UNCHANGED vars
  BY <1>1, <1>15 DEF vars
<1>16. ASSUME NEW w \in Workers, Step(w) PROVE AddressHasHolder'
  BY <1>4, <1>7, <1>8, <1>9, <1>10, <1>11, <1>12, <1>16 DEF Step
<1>17. Daemon \in SUBSET Workers /\ \A w \in CLI : {w} \in SUBSET Workers
  BY DEF Workers
<1> QED BY <1>3, <1>4, <1>13, <1>14, <1>15, <1>16, <1>17 DEF Next

\* Every step leaves a container that is recorded as running its author.
LEMMA AuthorStep ==
    ASSUME TypeOK, WorkersOK, RunningHasAuthor, [Next]_vars
    PROVE  RunningHasAuthor'
<1> USE LifecycleAssumption DEF exceptions
<1>0. \A w \in Workers : WorkerOK(w)
  BY DEF WorkersOK
<1>1. ASSUME NEW w \in Workers, cfg' = cfg, crashed' = crashed, stale \subseteq stale',
             \A v \in Workers \ {w} : /\ pc'[v] = pc[v] /\ op'[v] = op[v]
                                      /\ cont'[v] = cont[v] /\ file'[v] = file[v],
             \A c \in Containers : Author(w, c) /\ Found(c) => Author(w, c)' \/ c \in stale'
      PROVE  RunningHasAuthor'
  <2> SUFFICES ASSUME NEW c \in Containers, c \notin crashed', c \notin stale',
                      Found(c)', (cfg[c].status = "running")'
               PROVE  \E v \in Workers : Author(v, c)'
    BY DEF RunningHasAuthor
  <2>1. PICK v \in Workers : Author(v, c)
    BY <1>1 DEF RunningHasAuthor, Found
  <2>2. CASE v = w
    BY <1>1, <2>1, <2>2 DEF Found
  <2>3. CASE v # w
    <3>1. Author(v, c)'
      BY <1>1, <2>1, <2>3 DEF Author, WillWriteStopped
    <3> QED BY <3>1
  <2> QED BY <2>2, <2>3
<1>2. ASSUME NEW w \in Workers, ~WillWriteStopped(w), cfg' = cfg, crashed' = crashed,
             stale \subseteq stale',
             \A v \in Workers \ {w} : /\ pc'[v] = pc[v] /\ op'[v] = op[v]
                                      /\ cont'[v] = cont[v] /\ file'[v] = file[v]
      PROVE  RunningHasAuthor'
  BY <1>1, <1>2 DEF Author
<1>3. ASSUME NEW w \in Workers, NEW o, NEW c, NEW i, NEW step, Begin(w, o, c, i, step)
      PROVE  RunningHasAuthor'
  <2>1. ~WillWriteStopped(w)
    BY <1>3 DEF Begin, At, WillWriteStopped
  <2> QED BY <1>2, <1>3, <2>1 DEF Begin, Goto, TypeOK
<1>4. ASSUME NEW w \in Workers, Call(w) PROVE RunningHasAuthor'
  BY <1>3, <1>4
     DEF Call, Run, CreateAndRun, AdjustResourceLimits, Start, StopContainer, RemoveContainer
<1>5. ASSUME NEW w \in Workers,
             \/ Allocate(w) \/ Grant(w) \/ Spawn(w) \/ SetupVeth(w) \/ Send(w)
             \/ CallFails(w) \/ CleanupCgroup(w) \/ Release(w) \/ GiveBack(w)
             \/ ReleaseFails(w) \/ Kill(w) \/ ApplyLimits(w) \/ RemoveCgroup(w)
      PROVE  RunningHasAuthor'
  <2>1. /\ UNCHANGED <<cfg, crashed, stale, op, cont, file>>
        /\ pc[w] \notin {"wait", "copiers", "stopped", "cgroup"}
    BY <1>5 DEF Allocate, Grant, Spawn, SetupVeth, Send, CallFails, CleanupCgroup, Release,
                GiveBack, ReleaseFails, Kill, ApplyLimits, RemoveCgroup, At, disk, history
  <2>2. \E step : Goto(w, step)
    BY <1>5 DEF Allocate, Grant, Spawn, SetupVeth, Send, CallFails, CleanupCgroup, Release,
                GiveBack, ReleaseFails, Kill, ApplyLimits, RemoveCgroup, Continue
  <2>3. \A v \in Workers \ {w} : pc'[v] = pc[v]
    BY <2>2 DEF Goto, TypeOK
  <2> QED BY <1>2, <2>1, <2>3 DEF WillWriteStopped
<1>6. ASSUME NEW w \in Workers, OpenConfig(w) PROVE RunningHasAuthor'
  <2> SUFFICES ASSUME NEW c \in Containers, c \notin crashed, c \notin stale,
                      Found(c)', (cfg[c].status = "running")'
               PROVE  \E v \in Workers : Author(v, c)'
    BY <1>6 DEF RunningHasAuthor, OpenConfig, history
  <2>1. c # cont[w] /\ cfg'[c] = cfg[c]
    BY <1>6 DEF OpenConfig, Found, TypeOK
  <2>2. PICK v \in Workers : Author(v, c)
    BY <2>1 DEF RunningHasAuthor, Found
  <2>3. v # w
    BY <2>1, <2>2 DEF Author
  <2>4. Author(v, c)'
    BY <1>6, <2>2, <2>3 DEF OpenConfig, Author, WillWriteStopped, TypeOK
  <2> QED BY <2>4
<1>7. ASSUME NEW w \in Workers, EncodeConfig(w) PROVE RunningHasAuthor'
  <2> SUFFICES ASSUME NEW c \in Containers, c \notin crashed, c \notin stale',
                      Found(c)', (cfg[c].status = "running")'
               PROVE  \E v \in Workers : Author(v, c)'
    BY <1>7 DEF RunningHasAuthor, EncodeConfig
  <2>0. c \notin stale /\ op' = op /\ cont' = cont /\ file' = [file EXCEPT ![w] = "closed"]
        /\ file[w] # "closed" /\ pc' = [pc EXCEPT ![w] = After(op[w], pc[w])]
        /\ (pc[w] = "adjusted" => c # cont[w]) /\ pc[w] \in WriteSteps
    BY <1>7 DEF EncodeConfig, At, Continue, Goto
  <2>1. CASE cfg'[c] = cfg[c]
    <3>1. PICK v \in Workers : Author(v, c)
      BY <2>0, <2>1 DEF RunningHasAuthor, Found
    <3>2. v # w
      BY <2>0, <3>1 DEF Author
    <3>3. Author(v, c)'
      BY <2>0, <3>1, <3>2 DEF Author, WillWriteStopped, TypeOK
    <3> QED BY <3>3
  <2>2. CASE cfg'[c] # cfg[c]
    <3>1. cont[w] = c /\ (cfg'[c] = info[w] \/ cfg'[c] = Torn)
      BY <1>7, <2>2, OverwriteResult DEF EncodeConfig, TypeOK
    <3>2. cfg'[c] = info[w]
      BY <3>1 DEF Found
    <3>3. info[w].status = "running" /\ info[w].status = StatusAt(pc[w], info[w].status)
      BY <1>0, <2>0, <3>2 DEF WorkerOK
    <3>4. pc[w] = "running"
      BY <2>0, <3>1, <3>3 DEF StatusAt, WriteSteps
    <3>5. op[w] \in {"run", "createAndRun", "start"}
      BY <1>0, <3>4 DEF WorkerOK, StepsOf, TypeOK, AllOps
    <3>6. pc'[w] = "wait" \/ (pc'[w] = "cgroup" /\ op[w] = "start")
      BY <2>0, <3>4, <3>5 DEF After, TypeOK
    <3>7. Author(w, c)'
      BY <2>0, <3>1, <3>5, <3>6 DEF Author, WillWriteStopped, TypeOK
    <3> QED BY <3>7
  <2> QED BY <2>1, <2>2
<1>8. ASSUME NEW w \in Workers, WriteConfigFails(w) PROVE RunningHasAuthor'
  <2>1. /\ UNCHANGED <<crashed, op, cont>> /\ stale \subseteq stale' /\ pc[w] \in WriteSteps
        /\ \A v \in Workers \ {w} : pc'[v] = pc[v] /\ file'[v] = file[v]
    BY <1>8 DEF WriteConfigFails, Goto, TypeOK
  <2>2. CASE file[w] # "open"
    <3>1. cfg' = cfg
      BY <1>8, <2>2 DEF WriteConfigFails, TypeOK
    <3>2. ASSUME NEW c \in Containers, Author(w, c) PROVE c \in stale'
      BY <1>8, <2>1, <3>2 DEF WriteConfigFails, Author, WillWriteStopped, WriteSteps, At
    <3> QED BY <1>1, <2>1, <3>1, <3>2
  <2>3. CASE file[w] = "open"
    <3> SUFFICES ASSUME NEW c \in Containers, c \notin crashed, c \notin stale,
                        Found(c)', (cfg[c].status = "running")'
                 PROVE  \E v \in Workers : Author(v, c)'
      BY <2>1 DEF RunningHasAuthor
    <3>1. c # cont[w] /\ cfg'[c] = cfg[c]
      BY <1>8, <2>3 DEF WriteConfigFails, Found, TypeOK
    <3>2. PICK v \in Workers : Author(v, c)
      BY <3>1 DEF RunningHasAuthor, Found
    <3>3. v # w
      BY <3>1, <3>2 DEF Author
    <3>4. Author(v, c)'
      BY <2>1, <3>2, <3>3 DEF Author, WillWriteStopped
    <3> QED BY <3>4
  <2> QED BY <2>2, <2>3
<1>9. ASSUME NEW w \in Workers, SetupCgroup(w) \/ Wait(w) \/ CopiersEnd(w)
      PROVE  RunningHasAuthor'
  <2>1. UNCHANGED <<cfg, crashed, stale, op, cont, file>>
        /\ pc[w] \in {"cgroup", "wait", "copiers"}
        /\ (Continue(w) \/ (pc[w] = "wait" /\ Goto(w, "copiers")))
    BY <1>9 DEF SetupCgroup, Wait, CopiersEnd, At, disk, history
  <2>2. ASSUME NEW c \in Containers, Author(w, c) PROVE Author(w, c)'
    <3>1. pc'[w] = After(op[w], pc[w]) \/ pc'[w] = "copiers"
      BY <2>1 DEF Continue, Goto, TypeOK
    <3>2. pc'[w] \in {"wait", "copiers", "stopped"}
      BY <2>1, <2>2, <3>1 DEF Author, WillWriteStopped, After
    <3> QED BY <2>1, <2>2, <3>2 DEF Author, WillWriteStopped
  <2>3. \A v \in Workers \ {w} : pc'[v] = pc[v]
    BY <2>1 DEF Continue, Goto, TypeOK
  <2> QED BY <1>1, <2>1, <2>2, <2>3
<1>10. ASSUME NEW w \in Workers, SetupCgroupFails(w) PROVE RunningHasAuthor'
  <2>1. ASSUME NEW c \in Containers, Author(w, c) PROVE c \in stale'
    BY <1>10, <2>1 DEF SetupCgroupFails, At, Author, WillWriteStopped
  <2> QED BY <1>1, <1>10, <2>1 DEF SetupCgroupFails, Goto, TypeOK, disk
<1>11. ASSUME NEW w \in Workers, RemoveDir(w) PROVE RunningHasAuthor'
  <2> SUFFICES ASSUME NEW c \in Containers, c \notin crashed, c \notin stale,
                      Found(c)', (cfg[c].status = "running")'
               PROVE  \E v \in Workers : Author(v, c)'
    BY <1>11 DEF RunningHasAuthor, RemoveDir, history
  <2>1. cfg'[c] = cfg[c]
    BY <1>11 DEF RemoveDir, Found, TypeOK
  <2>2. PICK v \in Workers : Author(v, c)
    BY <2>1 DEF RunningHasAuthor, Found
  <2>3. v # w
    BY <1>11, <2>2 DEF RemoveDir, At, Author, WillWriteStopped
  <2>4. Author(v, c)'
    BY <1>11, <2>2, <2>3
       DEF RemoveDir, Continue, Goto, Author, WillWriteStopped, TypeOK
  <2> QED BY <2>4
<1>12. ASSUME NEW w \in Workers, Return(w) PROVE RunningHasAuthor'
  <2>1. ~WillWriteStopped(w)
    BY <1>12 DEF Return, At, WillWriteStopped
  <2> QED BY <1>2, <1>12, <2>1 DEF Return, Forget, disk, history
<1>13. ASSUME NEW W \in SUBSET Workers, Crash(W) PROVE RunningHasAuthor'
  <2> SUFFICES ASSUME NEW c \in Containers, c \notin crashed', c \notin stale,
                      Found(c), cfg[c].status = "running"
               PROVE  \E v \in Workers : Author(v, c)'
    BY <1>13 DEF RunningHasAuthor, Crash, disk, Found
  <2>1. c \notin crashed
    BY <1>13 DEF Crash
  <2>2. PICK v \in Workers : Author(v, c)
    BY <2>1 DEF RunningHasAuthor
  <2>3. v \notin W
    BY <1>13, <2>2 DEF Crash, Author
  <2>4. Author(v, c)'
    BY <1>13, <2>2, <2>3 DEF Crash, Forget, Author, WillWriteStopped
  <2> QED BY <2>4
<1>14. ASSUME UNCHANGED <<cfg, crashed, stale, pc, op, cont, file>> PROVE RunningHasAuthor'
  BY <1>14 DEF RunningHasAuthor, Found, Author, WillWriteStopped
<1>15. ASSUME NEW p \in Pids, Progress(p) \/ ProcessEnds(p) PROVE RunningHasAuthor'
  BY <1>14, <1>15 DEF Progress, PipeClosed, SetupRootfs, Exec, ProcessEnds, disk, history
<1>16. CASE UNCHANGED vars
  BY <1>14, <1>16 DEF vars, disk, history
<1>17. ASSUME NEW w \in Workers, Step(w) \/ CopiersEnd(w) PROVE RunningHasAuthor'
  BY <1>5, <1>6, <1>7, <1>8, <1>9, <1>10, <1>11, <1>12, <1>17 DEF Step
<1>18. Daemon \in SUBSET Workers /\ \A w \in CLI : {w} \in SUBSET Workers
  BY DEF Workers
<1> QED BY <1>4, <1>13, <1>15, <1>16, <1>17, <1>18 DEF Next

-----------------------------------------------------------------------------
\* The inductive invariant holds before anything ran.
LEMMA InvInit == Init => IInv
<1> SUFFICES ASSUME Init PROVE IInv
  OBVIOUS
<1> USE LifecycleAssumption DEF Init
<1>1. TypeOK
  <2>1. book \in Books /\ loaded \in [Workers -> Books \cup {NoBook}]
    BY DEF Books
  <2>2. info \in [Workers -> Infos] /\ cfg \in [Containers -> ConfigFiles]
    BY NoInfoType DEF ConfigFiles
  <2> QED BY <2>1, <2>2 DEF TypeOK, ChildStates, AllOps, Steps
<1>2. WorkersOK
  BY DEF WorkersOK, WorkerOK, StepsOf, Steps, NeedsChild, NeedsChildAt
<1>3. ProcessInv /\ ChildIsMine /\ BookInv /\ AddressHasHolder
  BY DEF ProcessInv, ChildIsMine, BookInv, Overlapped, Current, GrantsNew, AddressHasHolder
<1>4. RunningHasAuthor
  BY DEF RunningHasAuthor, Found
<1> QED BY <1>1, <1>2, <1>3, <1>4 DEF IInv

\* It is inductive.
LEMMA InvStep == IInv /\ [Next]_vars => IInv'
BY TypeStep, WorkersStep, ProcessesStep, BookStep, HolderStep, AuthorStep DEF IInv

\* The lifecycle keeps its types, whatever runs, fails or crashes.
THEOREM LifecycleTypeCorrect == Spec => []TypeOK
<1>1. IInv => TypeOK
  BY DEF IInv
<1> QED BY <1>1, InvInit, InvStep, PTL DEF Spec

\* The PID a worker acts on is its own child, for any number of concurrent
\* operations, PID reuse, stops and crashes included.
THEOREM WorkerKeepsItsChild == Spec => []ChildIsMine
<1>1. IInv => ChildIsMine
  BY DEF IInv
<1> QED BY <1>1, InvInit, InvStep, PTL DEF Spec

\* Every address on loan has a worker that will release it, for any number of
\* operations, failed calls and kills: outside the crashes, failed releases and
\* rewrites at one time that the property names, no path loses it.
THEOREM NoAddressLeaks == Spec => []AddressHasHolder
<1>1. IInv => AddressHasHolder
  BY DEF IInv
<1> QED BY <1>1, InvInit, InvStep, PTL DEF Spec

\* A config.json that says "running" has a worker that will say "stopped",
\* whatever runs, stops, adjusts and removes it at one time, outside the cases
\* the property names.
THEOREM RunningIsWaitedFor == Spec => []RunningHasWaiter
<1>1. IInv => RunningHasWaiter
  BY DEF IInv, RunningHasAuthor, RunningHasWaiter, Author
<1> QED BY <1>1, InvInit, InvStep, PTL DEF Spec

-----------------------------------------------------------------------------
\* The steps of run between its SetupCgroup and the end of its Wait.
PastCgroup == {"veth", "send", "running", "wait"}

\* The live process a worker is the parent of is the child it still deals with.
ParentInv ==
    \A p \in Pids, w \in Workers :
        parent[p] = w /\ Alive(p) => pid[w] = p /\ NeedsChild(w)

\* A child of run is in its cgroup from SetupCgroup on, so in particular when
\* it has been sent its configuration, long before it becomes the command.
InCgroup(p) == p \in member /\ cgroup[runs[p]] # NoCgroup
ConfinedInv ==
    \A p \in Pids, w \in Workers :
        parent[p] = w /\ Alive(p) /\ op[w] = "run"
        /\ (child[p] # "init" \/ pc[w] \in PastCgroup) => InCgroup(p)

\* A worker keeps its child until it waits for it, and run gets past
\* SetupCgroup through SetupCgroup alone.
LEMMA AfterKeeps ==
    ASSUME NEW o \in AllOps, NEW step \in StepsOf(o)
    PROVE  /\ NeedsChildAt(o, step) /\ step # "wait" => NeedsChildAt(o, After(o, step))
           /\ o = "run" /\ After(o, step) \in PastCgroup
                => step = "cgroup" \/ step \in PastCgroup
<1> USE DEF After, StepsOf, NeedsChildAt, PastCgroup
<1>1. CASE o = "run"
  BY <1>1 DEF Steps
<1>2. CASE o = "createAndRun"
  BY <1>2
<1>3. CASE o = "start"
  BY <1>3
<1>4. CASE o \in {"stop", "adjust", "rm"}
  BY <1>4
<1> QED BY <1>1, <1>2, <1>3, <1>4 DEF AllOps

\* No cgroup with a live member is removed, and setting limits removes none.
LEMMA CgroupStays ==
    ASSUME TypeOK, NEW c \in Containers, NEW p \in Pids, Alive(p), InCgroup(p),
           runs[p] \in Containers
    PROVE  /\ AfterRemoval(c)[runs[p]] # NoCgroup
           /\ \A l \in Limits : Applied(c, l)[runs[p]] # NoCgroup
<1> USE LifecycleAssumption
<1>1. AfterRemoval(c)[runs[p]] # NoCgroup
  <2>1. CASE runs[p] = c
    BY <2>1 DEF AfterRemoval, Removable, InCgroup
  <2>2. CASE runs[p] # c
    BY <2>2 DEF AfterRemoval, InCgroup, TypeOK
  <2> QED BY <2>1, <2>2
<1>2. ASSUME NEW l \in Limits PROVE Applied(c, l)[runs[p]] # NoCgroup
  BY <1>2 DEF Applied, InCgroup, TypeOK
<1> QED BY <1>1, <1>2

\* What a step has to leave alone to keep both invariants: it makes nobody live
\* or a parent, takes no live process out of a cgroup and no cgroup from a live
\* process, and no worker lets go of a live child.
Quiet ==
    /\ runs' = runs
    /\ \A p \in Pids : Alive(p)' => child'[p] = child[p]
    /\ \A p \in Pids : Alive(p)' => parent'[p] \in {parent[p], NoWorker}
    /\ \A p \in Pids : Alive(p)' /\ InCgroup(p) => InCgroup(p)'
OwnQuiet(w) ==
    \/ pid'[w] = pid[w] /\ op'[w] = op[w] /\ pc'[w] = pc[w]
    \/ \A p \in Pids : ~(parent[p] = w /\ Alive(p))
    \/ \A p \in Pids : ~(parent'[p] = w /\ Alive(p)')
    \/ /\ pid'[w] = pid[w] /\ op'[w] = op[w]
       /\ NeedsChild(w) => NeedsChild(w)'
       /\ op[w] = "run" /\ pc'[w] \in PastCgroup => pc[w] \in PastCgroup
LEMMA QuietKeeps ==
    ASSUME ParentInv, ConfinedInv, Quiet, \A w \in Workers : OwnQuiet(w)
    PROVE  ParentInv' /\ ConfinedInv'
<1> USE LifecycleAssumption
<1>1. ASSUME NEW p \in Pids, NEW w \in Workers, parent'[p] = w, Alive(p)'
      PROVE  /\ parent[p] = w /\ Alive(p) /\ child'[p] = child[p]
             /\ pid'[w] = pid[w] /\ op'[w] = op[w]
             /\ NeedsChild(w) => NeedsChild(w)'
             /\ op[w] = "run" /\ pc'[w] \in PastCgroup => pc[w] \in PastCgroup
  <2>1. child'[p] = child[p] /\ parent'[p] \in {parent[p], NoWorker}
    BY <1>1 DEF Quiet
  <2>2. parent[p] = w /\ Alive(p)
    BY <1>1, <2>1 DEF Alive
  <2>3. OwnQuiet(w)
    OBVIOUS
  <2> QED BY <1>1, <2>1, <2>2, <2>3 DEF OwnQuiet, NeedsChild
<1>2. ParentInv'
  BY <1>1 DEF ParentInv
<1>3. ConfinedInv'
  <2> SUFFICES ASSUME NEW p \in Pids, NEW w \in Workers, parent'[p] = w, Alive(p)',
                      op'[w] = "run", child'[p] # "init" \/ pc'[w] \in PastCgroup
               PROVE  InCgroup(p)'
    BY DEF ConfinedInv
  <2>1. InCgroup(p)
    BY <1>1 DEF ConfinedInv
  <2> QED BY <2>1 DEF Quiet
<1> QED BY <1>2, <1>3

\* A worker that goes on to its next step, or leaves when it has no live child,
\* lets go of none.
LEMMA ContinueQuiet ==
    ASSUME TypeOK, WorkersOK, NEW w \in Workers, Continue(w), pid' = pid, op' = op,
           pc[w] \notin {"wait", "cgroup"} \/ (op[w] # "run" /\ pc[w] # "wait")
    PROVE  \A v \in Workers : OwnQuiet(v)
<1>1. op[w] \in AllOps /\ pc[w] \in StepsOf(op[w]) /\ pc'[w] = After(op[w], pc[w])
  BY DEF TypeOK, WorkersOK, WorkerOK, Continue, Goto
<1>2. /\ NeedsChild(w) => NeedsChild(w)'
      /\ op[w] = "run" /\ pc'[w] \in PastCgroup => pc[w] \in PastCgroup
  BY <1>1, AfterKeeps DEF NeedsChild, PastCgroup
<1>3. \A v \in Workers : v # w => pc'[v] = pc[v]
  BY DEF Continue, Goto, TypeOK
<1> QED BY <1>2, <1>3 DEF OwnQuiet

\* Every step keeps a live process with its worker, and a process of run in its
\* cgroup.
LEMMA ConfinedStep ==
    ASSUME IInv, ParentInv, ConfinedInv, [Next]_vars
    PROVE  ParentInv' /\ ConfinedInv'
<1> USE LifecycleAssumption
<1>0. /\ TypeOK /\ WorkersOK /\ ProcessInv /\ ChildIsMine
      /\ \A w \in Workers : WorkerOK(w)
  BY DEF IInv, WorkersOK
<1>1. ASSUME UNCHANGED <<processes, cgroup>> PROVE Quiet
  BY <1>1 DEF Quiet, processes, InCgroup, Alive
<1>2. ASSUME NEW w \in Workers, NEW o, NEW c, NEW i, NEW step, Begin(w, o, c, i, step)
      PROVE  ParentInv' /\ ConfinedInv'
  <2>1. \A p \in Pids : ~(parent[p] = w /\ Alive(p))
    <3>1. pc[w] = "idle"
      BY <1>2 DEF Begin, At
    <3>2. pid[w] = NoPid
      BY <1>0, <3>1 DEF WorkerOK
    <3> QED BY <3>2 DEF ParentInv
  <2>2. \A v \in Workers : OwnQuiet(v)
    BY <1>0, <1>2, <2>1 DEF Begin, Goto, TypeOK, OwnQuiet
  <2> QED BY <1>1, <1>2, <2>2, QuietKeeps DEF Begin
<1>3. ASSUME NEW w \in Workers, Call(w) PROVE ParentInv' /\ ConfinedInv'
  BY <1>2, <1>3
     DEF Call, Run, CreateAndRun, AdjustResourceLimits, Start, StopContainer, RemoveContainer
<1>4. ASSUME NEW w \in Workers,
             Grant(w) \/ EncodeConfig(w) \/ SetupVeth(w) \/ RemoveDir(w)
      PROVE  ParentInv' /\ ConfinedInv'
  <2>1. UNCHANGED <<processes, cgroup, pid, op>> /\ Continue(w)
    BY <1>4 DEF Grant, EncodeConfig, SetupVeth, RemoveDir
  <2>2. pc[w] \notin {"wait", "cgroup"}
    BY <1>4 DEF Grant, EncodeConfig, SetupVeth, RemoveDir, At, WriteSteps
  <2> QED BY <1>0, <1>1, <2>1, <2>2, ContinueQuiet, QuietKeeps
<1>29. ASSUME NEW w \in Workers, Allocate(w) PROVE ParentInv' /\ ConfinedInv'
  <2>1. UNCHANGED <<processes, cgroup, pid, op>> /\ pc[w] = "allocate"
    BY <1>29 DEF Allocate, At
  <2>2. CASE Continue(w)
    BY <1>0, <1>1, <2>1, <2>2, ContinueQuiet, QuietKeeps
  <2>3. CASE Goto(w, "grant")
    <3>1. /\ pc'[w] = "grant" /\ \A v \in Workers \ {w} : pc'[v] = pc[v]
      BY <1>0, <2>3 DEF Goto, TypeOK
    <3>2. \A v \in Workers : OwnQuiet(v)
      BY <2>1, <3>1 DEF OwnQuiet, NeedsChild, NeedsChildAt, PastCgroup
    <3> QED BY <1>1, <2>1, <3>2, QuietKeeps
  <2> QED BY <1>29, <2>2, <2>3 DEF Allocate
<1>5. ASSUME NEW w \in Workers, OpenConfig(w) PROVE ParentInv' /\ ConfinedInv'
  <2>1. UNCHANGED <<processes, cgroup, pid, op, pc>>
    BY <1>5 DEF OpenConfig
  <2>2. \A v \in Workers : OwnQuiet(v)
    BY <2>1 DEF OwnQuiet
  <2> QED BY <1>1, <2>1, <2>2, QuietKeeps
<1>6. ASSUME NEW w \in Workers, \A p \in Pids : ~(parent[p] = w /\ Alive(p)),
             NEW step, Goto(w, step), UNCHANGED <<pid, op>>
      PROVE  \A v \in Workers : OwnQuiet(v)
  BY <1>0, <1>6 DEF OwnQuiet, Goto, TypeOK
<1>7. ASSUME NEW w \in Workers, ~NeedsChild(w)
      PROVE  \A p \in Pids : ~(parent[p] = w /\ Alive(p))
  BY <1>7 DEF ParentInv
<1>8. ASSUME NEW w \in Workers, WriteConfigFails(w) PROVE ParentInv' /\ ConfinedInv'
  <2>1. UNCHANGED <<processes, cgroup, pid, op>> /\ Goto(w, AfterFailedWrite(w))
    BY <1>8 DEF WriteConfigFails
  <2>2. CASE pc[w] = "running"
    <3>1. op[w] \notin {"stop", "adjust"}
      BY <1>0, <2>2 DEF WorkerOK, StepsOf
    <3>2. Continue(w)
      BY <2>1, <2>2, <3>1 DEF AfterFailedWrite, At, Continue
    <3> QED BY <1>0, <1>1, <2>1, <2>2, <3>2, ContinueQuiet, QuietKeeps
  <2>3. CASE pc[w] # "running"
    <3>1. ~NeedsChild(w)
      BY <1>8, <2>3 DEF WriteConfigFails, WriteSteps, NeedsChild, NeedsChildAt
    <3> QED BY <1>1, <1>6, <1>7, <2>1, <3>1, QuietKeeps
  <2> QED BY <2>2, <2>3
<1>9. ASSUME NEW w \in Workers, Spawn(w) PROVE ParentInv' /\ ConfinedInv'
  <2>1. PICK p \in Pids :
          /\ child[p] = "free"
          /\ child' = [child EXCEPT ![p] = "init"]
          /\ runs' = [runs EXCEPT ![p] = cont[w]]
          /\ parent' = [parent EXCEPT ![p] = w]
          /\ member' = member \ {p}
          /\ pid' = [pid EXCEPT ![w] = p]
    BY <1>9 DEF Spawn
  <2>2. /\ pc[w] = "spawn" /\ pc' = [pc EXCEPT ![w] = After(op[w], pc[w])]
        /\ op' = op /\ cgroup' = cgroup
    BY <1>9 DEF Spawn, At, Continue, Goto
  <2>3. op[w] \in {"run", "createAndRun", "start"}
    BY <1>0, <2>2 DEF WorkerOK, StepsOf, TypeOK, AllOps
  <2>4. /\ NeedsChildAt(op[w], pc'[w])
        /\ op[w] = "run" => pc'[w] \notin PastCgroup
    BY <1>0, <2>2, <2>3 DEF After, NeedsChildAt, PastCgroup, TypeOK
  <2>5. ~NeedsChild(w)
    BY <2>2 DEF NeedsChild, NeedsChildAt
  <2>6. ASSUME NEW q \in Pids, q # p, Alive(q)', NEW v \in Workers, parent'[q] = v
        PROVE  /\ Alive(q) /\ parent[q] = v /\ v # w /\ child'[q] = child[q]
               /\ runs'[q] = runs[q] /\ (q \in member => q \in member')
               /\ pid'[v] = pid[v] /\ pc'[v] = pc[v]
    <3>1. Alive(q) /\ parent[q] = v /\ child'[q] = child[q] /\ runs'[q] = runs[q]
      BY <1>0, <2>1, <2>6 DEF Alive, TypeOK
    <3>2. v # w
      BY <1>7, <2>5, <3>1
    <3> QED BY <1>0, <2>1, <2>2, <2>6, <3>1, <3>2 DEF TypeOK
  <2>7. parent'[p] = w /\ child'[p] = "init" /\ pid'[w] = p
    BY <1>0, <2>1 DEF TypeOK
  <2>8. ParentInv'
    <3> SUFFICES ASSUME NEW q \in Pids, NEW v \in Workers, parent'[q] = v, Alive(q)'
                 PROVE  pid'[v] = q /\ NeedsChild(v)'
      BY DEF ParentInv
    <3>1. CASE q = p
      BY <2>2, <2>4, <2>7, <3>1 DEF NeedsChild
    <3>2. CASE q # p
      BY <2>2, <2>6, <3>2 DEF ParentInv, NeedsChild
    <3> QED BY <3>1, <3>2
  <2>9. ConfinedInv'
    <3> SUFFICES ASSUME NEW q \in Pids, NEW v \in Workers, parent'[q] = v, Alive(q)',
                        op'[v] = "run", child'[q] # "init" \/ pc'[v] \in PastCgroup
                 PROVE  InCgroup(q)'
      BY DEF ConfinedInv
    <3>1. q # p
      BY <2>2, <2>4, <2>7
    <3> QED BY <2>2, <2>6, <3>1 DEF ConfinedInv, InCgroup
  <2> QED BY <2>8, <2>9
<1>10. ASSUME NEW w \in Workers, SetupCgroup(w) PROVE ParentInv' /\ ConfinedInv'
  <2>1. /\ pc[w] = "cgroup" /\ pc' = [pc EXCEPT ![w] = After(op[w], pc[w])]
        /\ UNCHANGED <<child, runs, parent, op, pid, cont>>
        /\ cgroup' = Applied(cont[w], info[w].limits)
        /\ member' = member \cup {pid[w]}
    BY <1>10 DEF SetupCgroup, At, Continue, Goto
  <2>2. cont[w] \in Containers /\ pid[w] \in Pids /\ info[w].limits \in Limits
    BY <1>0, <2>1, InfoFields DEF TypeOK, WorkerOK, NeedsChild, NeedsChildAt
  <2>3. NeedsChild(w)'
    <3>1. op[w] \in AllOps /\ pc[w] \in StepsOf(op[w]) /\ NeedsChildAt(op[w], pc[w])
      BY <1>0, <2>1 DEF TypeOK, WorkerOK, NeedsChildAt
    <3>2. pc'[w] = After(op[w], pc[w])
      BY <1>0, <2>1 DEF TypeOK
    <3> QED BY <2>1, <3>1, <3>2, AfterKeeps DEF NeedsChild
  <2>4. \A v \in Workers : v # w => pc'[v] = pc[v]
    BY <1>0, <2>1 DEF TypeOK
  <2>5. ParentInv'
    <3> SUFFICES ASSUME NEW q \in Pids, NEW v \in Workers, parent[q] = v, Alive(q)
                 PROVE  pid[v] = q /\ NeedsChild(v)'
      BY <2>1 DEF ParentInv, Alive
    <3> QED BY <2>1, <2>3, <2>4 DEF ParentInv, NeedsChild
  <2>6. cgroup'[cont[w]] # NoCgroup
    BY <1>0, <2>1, <2>2 DEF Applied, TypeOK
  <2>7. ASSUME NEW q \in Pids, Alive(q), InCgroup(q) PROVE InCgroup(q)'
    <3>1. runs[q] \in Containers
      BY <1>0, <2>7 DEF ProcessInv, Alive
    <3> QED BY <1>0, <2>1, <2>2, <2>7, <3>1, CgroupStays DEF InCgroup
  <2>8. InCgroup(pid[w])'
    <3>1. runs[pid[w]] = cont[w]
      BY <1>0, <2>2 DEF ChildIsMine
    <3> QED BY <2>1, <2>6, <3>1 DEF InCgroup
  <2>9. ConfinedInv'
    <3> SUFFICES ASSUME NEW q \in Pids, NEW v \in Workers, parent[q] = v, Alive(q),
                        op[v] = "run", child[q] # "init" \/ pc'[v] \in PastCgroup
                 PROVE  InCgroup(q)'
      BY <2>1 DEF ConfinedInv, Alive
    <3>1. CASE v = w
      <4>1. q = pid[w]
        BY <3>1 DEF ParentInv
      <4> QED BY <2>1, <2>8, <4>1 DEF InCgroup
    <3>2. CASE v # w
      BY <2>4, <2>7, <3>2 DEF ConfinedInv
    <3> QED BY <3>1, <3>2
  <2> QED BY <2>5, <2>9
<1>11. ASSUME NEW w \in Workers, KillChild(w)
       PROVE  /\ \A p \in Pids : Alive(p)' => Alive(p) /\ child'[p] = child[p] /\ p # pid[w]
  BY <1>0, <1>11 DEF KillChild, TypeOK, Alive
<1>12. ASSUME NEW w \in Workers, KillChild(w), UNCHANGED <<runs, parent, member, pid, op>>,
              NEW step, Goto(w, step),
              \A p \in Pids : Alive(p) /\ p # pid[w] /\ InCgroup(p) => InCgroup(p)'
       PROVE  ParentInv' /\ ConfinedInv'
  <2>1. Quiet
    BY <1>11, <1>12 DEF Quiet
  <2>2. \A p \in Pids : ~(parent'[p] = w /\ Alive(p)')
    BY <1>11, <1>12 DEF ParentInv
  <2>3. \A v \in Workers : OwnQuiet(v)
    BY <1>0, <1>12, <2>2 DEF OwnQuiet, Goto, TypeOK
  <2> QED BY <2>1, <2>3, QuietKeeps
<1>13. ASSUME NEW w \in Workers, SetupCgroupFails(w) PROVE ParentInv' /\ ConfinedInv'
  <2>1. /\ KillChild(w) /\ UNCHANGED <<runs, parent, member, pid, op>>
        /\ Goto(w, Bailout(w))
    BY <1>13 DEF SetupCgroupFails
  <2>2. cont[w] \in Containers /\ info[w].limits \in Limits
    BY <1>0, <1>13, InfoFields DEF SetupCgroupFails, At, TypeOK, WorkerOK
  <2>3. ASSUME NEW q \in Pids, Alive(q), InCgroup(q) PROVE InCgroup(q)'
    <3>1. runs[q] \in Containers
      BY <1>0, <2>3 DEF ProcessInv, Alive
    <3>2. cgroup' \in {cgroup, AfterRemoval(cont[w]), Applied(cont[w], info[w].limits)}
      BY <1>13 DEF SetupCgroupFails
    <3>3. cgroup'[runs[q]] # NoCgroup
      BY <1>0, <2>2, <2>3, <3>1, <3>2, CgroupStays DEF InCgroup
    <3> QED BY <2>1, <2>3, <3>3 DEF InCgroup
  <2> QED BY <1>12, <2>1, <2>3
<1>14. ASSUME NEW w \in Workers, CallFails(w) PROVE ParentInv' /\ ConfinedInv'
  <2>1. /\ KillChild(w) /\ UNCHANGED <<runs, parent, member, cgroup, pid, op>>
        /\ Goto(w, Bailout(w))
    BY <1>14 DEF CallFails
  <2>2. \A p \in Pids : InCgroup(p) => InCgroup(p)'
    BY <2>1 DEF InCgroup
  <2> QED BY <1>12, <2>1, <2>2
<1>15. ASSUME NEW w \in Workers, Send(w) PROVE ParentInv' /\ ConfinedInv'
  <2>1. /\ pc[w] = "send" /\ Continue(w)
        /\ child' = IF child[pid[w]] = "init" THEN [child EXCEPT ![pid[w]] = "setup"]
                    ELSE child
        /\ UNCHANGED <<runs, parent, member, cgroup, pid, op>>
    BY <1>15 DEF Send, At
  <2>2. pid[w] \in Pids /\ parent[pid[w]] = w
    BY <1>0, <2>1 DEF TypeOK, WorkerOK, NeedsChild, NeedsChildAt, ChildIsMine
  <2>3. \A q \in Pids : /\ Alive(q)' => Alive(q)
                        /\ child'[q] # child[q] => q = pid[w]
    BY <1>0, <2>1 DEF TypeOK, Alive
  <2>4. \A v \in Workers : OwnQuiet(v)
    BY <1>0, <2>1, ContinueQuiet
  <2>5. \A v \in Workers, q \in Pids : parent[q] = v /\ Alive(q) =>
            /\ pid[v] = q /\ NeedsChild(v)'
            /\ op[v] = "run" /\ pc'[v] \in PastCgroup => pc[v] \in PastCgroup
    <3> SUFFICES ASSUME NEW v \in Workers, NEW q \in Pids, parent[q] = v, Alive(q)
                 PROVE  /\ pid[v] = q /\ NeedsChild(v)'
                        /\ op[v] = "run" /\ pc'[v] \in PastCgroup => pc[v] \in PastCgroup
      OBVIOUS
    <3>1. pid[v] = q /\ NeedsChild(v)
      BY DEF ParentInv
    <3>2. CASE v # w
      <4>1. pc'[v] = pc[v]
        BY <1>0, <2>1, <3>2 DEF Continue, Goto, TypeOK
      <4> QED BY <2>1, <3>1, <4>1 DEF NeedsChild
    <3>3. CASE v = w
      <4>1. pc'[w] = After(op[w], pc[w]) /\ op[w] \in AllOps /\ pc[w] \in StepsOf(op[w])
        BY <1>0, <2>1 DEF Continue, Goto, TypeOK, WorkerOK
      <4>2. NeedsChildAt(op[w], pc'[w])
        BY <2>1, <3>1, <3>3, <4>1, AfterKeeps DEF NeedsChild
      <4> QED BY <2>1, <3>1, <3>3, <4>2 DEF NeedsChild, PastCgroup
    <3> QED BY <3>2, <3>3
  <2>6. ParentInv'
    BY <2>1, <2>3, <2>5 DEF ParentInv
  <2>7. ConfinedInv'
    <3> SUFFICES ASSUME NEW q \in Pids, NEW v \in Workers, parent[q] = v, Alive(q),
                        op[v] = "run", child'[q] # "init" \/ pc'[v] \in PastCgroup
                 PROVE  InCgroup(q)
      BY <2>1, <2>3 DEF ConfinedInv, InCgroup
    <3>1. CASE pc[v] \in PastCgroup \/ child[q] # "init"
      BY <3>1 DEF ConfinedInv
    <3>2. CASE child'[q] # "init" /\ child[q] = "init"
      <4>1. v = w
        BY <2>2, <2>3, <3>2
      <4> QED BY <2>1, <3>1, <4>1 DEF PastCgroup
    <3> QED BY <2>5, <3>1, <3>2
  <2> QED BY <2>6, <2>7
<1>16. ASSUME NEW w \in Workers, Wait(w) PROVE ParentInv' /\ ConfinedInv'
  <2>1. /\ pc[w] = "wait" /\ child[pid[w]] = "zombie"
        /\ child' = [child EXCEPT ![pid[w]] = "free"]
        /\ member' = member \ {pid[w]}
        /\ UNCHANGED <<runs, parent, cgroup, op>>
        /\ \A v \in Workers : v # w => pc'[v] = pc[v] /\ pid'[v] = pid[v]
    BY <1>0, <1>16 DEF Wait, At, Continue, Goto, TypeOK
  <2>2. \A q \in Pids : Alive(q)' => child'[q] = child[q] /\ Alive(q) /\ q # pid[w]
    BY <1>0, <2>1 DEF TypeOK, Alive
  <2>3. Quiet
    BY <2>1, <2>2 DEF Quiet, InCgroup
  <2>4. \A q \in Pids : ~(parent'[q] = w /\ Alive(q)')
    BY <2>1, <2>2 DEF ParentInv
  <2>5. \A v \in Workers : OwnQuiet(v)
    BY <2>1, <2>4 DEF OwnQuiet
  <2> QED BY <2>3, <2>5, QuietKeeps
<1>17. ASSUME NEW w \in Workers, UNCHANGED <<processes, pid, op>>,
              ~NeedsChild(w), NEW step, Goto(w, step),
              \A q \in Pids : Alive(q) /\ InCgroup(q) => InCgroup(q)'
       PROVE  ParentInv' /\ ConfinedInv'
  <2>1. Quiet
    BY <1>17 DEF Quiet, processes, Alive
  <2> QED BY <1>6, <1>7, <1>17, <2>1, QuietKeeps
<1>18. ASSUME NEW w \in Workers,
              CleanupCgroup(w) \/ ApplyLimits(w) \/ RemoveCgroup(w)
       PROVE  ParentInv' /\ ConfinedInv'
  <2>1. UNCHANGED <<processes, pid, op>> /\ pc[w] \in {"cleanup", "limits", "rmcgroup"}
    BY <1>18 DEF CleanupCgroup, ApplyLimits, RemoveCgroup, At
  <2>2. \E step : Goto(w, step)
    BY <1>18 DEF CleanupCgroup, ApplyLimits, RemoveCgroup, Continue
  <2>3. ~NeedsChild(w)
    BY <2>1 DEF NeedsChild, NeedsChildAt
  <2>4. cont[w] \in Containers /\ info[w].limits \in Limits
    BY <1>0, <2>1, InfoFields DEF TypeOK, WorkerOK
  <2>5. ASSUME NEW q \in Pids, Alive(q), InCgroup(q) PROVE InCgroup(q)'
    <3>1. runs[q] \in Containers
      BY <1>0, <2>5 DEF ProcessInv, Alive
    <3>2. CASE cgroup' \in {cgroup, AfterRemoval(cont[w]),
                            Applied(cont[w], info[w].limits)}
      BY <1>0, <2>1, <2>4, <2>5, <3>1, <3>2, CgroupStays DEF InCgroup, processes
    <3>3. CASE \E l \in Limits : cgroup' = [cgroup EXCEPT ![cont[w]] = l]
      BY <1>0, <2>1, <2>5, <3>1, <3>3 DEF InCgroup, processes, TypeOK
    <3> QED BY <1>18, <3>2, <3>3 DEF CleanupCgroup, ApplyLimits, RemoveCgroup
  <2> QED BY <1>17, <2>1, <2>2, <2>3, <2>5
<1>30. ASSUME NEW w \in Workers,
              CopiersEnd(w) \/ Release(w) \/ GiveBack(w) \/ ReleaseFails(w)
       PROVE  ParentInv' /\ ConfinedInv'
  <2>1. UNCHANGED <<processes, cgroup, pid, op>> /\ \E step : Goto(w, step)
    BY <1>30 DEF CopiersEnd, Release, GiveBack, ReleaseFails, Continue
  <2>2. ~NeedsChild(w)
    BY <1>30 DEF CopiersEnd, Release, GiveBack, ReleaseFails, At, NeedsChild, NeedsChildAt
  <2> QED BY <1>17, <2>1, <2>2 DEF InCgroup, processes
<1>19. ASSUME NEW p \in Pids, Dies(p),
              UNCHANGED <<runs, parent, member, cgroup, pid, op, pc>>
       PROVE  ParentInv' /\ ConfinedInv'
  <2>1. \A q \in Pids : Alive(q)' => child'[q] = child[q]
    BY <1>0, <1>19 DEF Dies, Ended, TypeOK, Alive
  <2>2. Quiet
    BY <1>19, <2>1 DEF Quiet, InCgroup
  <2>3. \A v \in Workers : OwnQuiet(v)
    BY <1>19 DEF OwnQuiet
  <2> QED BY <2>2, <2>3, QuietKeeps
<1>20. ASSUME NEW w \in Workers, Kill(w) PROVE ParentInv' /\ ConfinedInv'
  <2>1. /\ pc[w] = "kill" /\ UNCHANGED <<runs, parent, member, cgroup, pid, op>>
        /\ \E step : Goto(w, step)
    BY <1>20 DEF Kill, At, Continue
  <2>2. \A v \in Workers : OwnQuiet(v)
    BY <1>6, <1>7, <2>1 DEF NeedsChild, NeedsChildAt
  <2>3. \A q \in Pids : Alive(q)' => child'[q] = child[q]
    <3>1. CASE UNCHANGED child
      BY <3>1
    <3>2. CASE info[w].pid \in Pids /\ Dies(info[w].pid)
      BY <1>0, <3>2 DEF Dies, Ended, TypeOK, Alive
    <3> QED BY <1>20, <3>1, <3>2 DEF Kill
  <2>4. Quiet
    BY <2>1, <2>3 DEF Quiet, InCgroup
  <2> QED BY <2>2, <2>4, QuietKeeps
<1>21. ASSUME NEW W \in SUBSET Workers, Forget(W), Orphan(W), cgroup' = cgroup
       PROVE  ParentInv' /\ ConfinedInv'
  <2>1. /\ runs' = runs /\ member' = member
        /\ \A q \in Pids : Alive(q)' => child'[q] = child[q]
        /\ \A q \in Pids : parent'[q] = IF parent[q] \in W THEN NoWorker ELSE parent[q]
    BY <1>0, <1>21 DEF Orphan, Alive, TypeOK
  <2>2. Quiet
    BY <1>21, <2>1 DEF Quiet, InCgroup
  <2>3. ASSUME NEW v \in Workers PROVE OwnQuiet(v)
    <3>1. CASE v \in W
      <4>1. \A q \in Pids : parent'[q] # v
        BY <2>1, <3>1
      <4> QED BY <4>1 DEF OwnQuiet
    <3>2. CASE v \notin W
      BY <1>21, <3>2 DEF Forget, OwnQuiet
    <3> QED BY <3>1, <3>2
  <2> QED BY <2>2, <2>3, QuietKeeps
<1>22. ASSUME NEW w \in Workers, Return(w) PROVE ParentInv' /\ ConfinedInv'
  <2>1. Forget({w}) /\ cgroup' = cgroup /\ pc[w] = "exit"
    BY <1>22 DEF Return, At
  <2>2. CASE w \in CLI
    BY <1>21, <1>22, <2>1, <2>2 DEF Return
  <2>3. CASE w \notin CLI
    <3>1. UNCHANGED processes
      BY <1>22, <2>3 DEF Return
    <3>2. ~NeedsChild(w)
      BY <2>1 DEF NeedsChild, NeedsChildAt
    <3>3. \A v \in Workers : OwnQuiet(v)
      BY <1>7, <2>1, <3>2 DEF Forget, OwnQuiet
    <3> QED BY <1>1, <2>1, <3>1, <3>3, QuietKeeps
  <2> QED BY <2>2, <2>3
<1>23. ASSUME NEW W \in SUBSET Workers, Crash(W) PROVE ParentInv' /\ ConfinedInv'
  BY <1>21, <1>23 DEF Crash
<1>24. ASSUME NEW p \in Pids, SetupRootfs(p) \/ Exec(p) PROVE ParentInv' /\ ConfinedInv'
  <2>1. /\ child[p] \in {"setup", "rootfs"}
        /\ UNCHANGED <<runs, parent, member, cgroup, pid, op, pc>>
        /\ \A q \in Pids : q # p => child'[q] = child[q]
    BY <1>0, <1>24 DEF SetupRootfs, Exec, TypeOK
  <2>2. \A q \in Pids : /\ Alive(q)' => Alive(q)
                        /\ child'[q] # "init" => child[q] # "init" \/ ~Alive(q)
    BY <2>1 DEF Alive
  <2>3. ParentInv'
    BY <2>1, <2>2 DEF ParentInv, NeedsChild
  <2>4. ConfinedInv'
    BY <2>1, <2>2 DEF ConfinedInv, InCgroup
  <2> QED BY <2>3, <2>4
<1>25. ASSUME NEW p \in Pids, Progress(p) \/ ProcessEnds(p)
       PROVE  ParentInv' /\ ConfinedInv'
  BY <1>19, <1>24, <1>25 DEF Progress, PipeClosed, ProcessEnds
<1>26. CASE UNCHANGED vars
  <2>1. \A v \in Workers : OwnQuiet(v)
    BY <1>26 DEF vars, OwnQuiet
  <2> QED BY <1>1, <1>26, <2>1, QuietKeeps DEF vars
<1>27. ASSUME NEW w \in Workers, Step(w) PROVE ParentInv' /\ ConfinedInv'
  BY <1>4, <1>5, <1>8, <1>9, <1>10, <1>13, <1>14, <1>15, <1>16, <1>18, <1>20, <1>22, <1>27,
     <1>29, <1>30 DEF Step
<1>28. Daemon \in SUBSET Workers /\ \A w \in CLI : {w} \in SUBSET Workers
  BY DEF Workers
<1> QED BY <1>3, <1>23, <1>25, <1>26, <1>27, <1>28, <1>30 DEF Next

\* The command of a container started by run is inside its cgroup, for any
\* number of operations, PID reuse, failures and crashes: no step of another
\* operation takes the cgroup away under it or lets it begin outside.
THEOREM RunIsConfined == Spec => []RunConfined
<1>1. Init => ParentInv /\ ConfinedInv
  BY LifecycleAssumption DEF Init, ParentInv, ConfinedInv, Alive
<1>2. IInv /\ ParentInv /\ ConfinedInv => RunConfined
  BY DEF RunConfined, ConfinedInv, InCgroup, Alive
<1>3. IInv /\ ParentInv /\ ConfinedInv /\ [Next]_vars
        => IInv' /\ ParentInv' /\ ConfinedInv'
  BY InvStep, ConfinedStep
<1> QED BY <1>1, <1>2, <1>3, InvInit, PTL DEF Spec

-----------------------------------------------------------------------------
(* The pipe *)

\* The worker has sent its child the configuration.
SentAt(o, step) == step \in {"running", "wait"} \/ (step = "cgroup" /\ o = "start")
Sent(w) == SentAt(op[w], pc[w])

\* A child waits at its pipe until then and not after, unless it is dead.
PipeInv ==
    \A w \in Workers : NeedsChild(w) =>
        IF Sent(w) THEN child[pid[w]] # "init" ELSE child[pid[w]] \in {"init", "zombie"}

\* Only Send leads past the pipe.
LEMMA AfterSent ==
    ASSUME NEW o \in AllOps, NEW step \in StepsOf(o), NeedsChildAt(o, After(o, step))
    PROVE  /\ step \notin {"spawn", "send"} => SentAt(o, After(o, step)) = SentAt(o, step)
           /\ step = "spawn" => ~SentAt(o, After(o, step))
           /\ step = "send" => SentAt(o, After(o, step))
<1> USE DEF After, StepsOf, NeedsChildAt, SentAt
<1>1. CASE o = "run"
  BY <1>1 DEF Steps
<1>2. CASE o = "createAndRun"
  BY <1>2
<1>3. CASE o = "start"
  BY <1>3
<1>4. CASE o \in {"stop", "adjust", "rm"}
  BY <1>4
<1> QED BY <1>1, <1>2, <1>3, <1>4 DEF AllOps

\* What a step has to leave alone to keep PipeInv: a worker's place before or
\* behind Send, and its child's before or behind the pipe.
SamePlace(v) ==
    NeedsChild(v)' => /\ NeedsChild(v) /\ pid'[v] = pid[v] /\ Sent(v)' = Sent(v)
ChildStays(p) ==
    /\ child'[p] = "init" => child[p] = "init"
    /\ child[p] \in {"init", "zombie"} => child'[p] \in {"init", "zombie"}
LEMMA PipeKeeps ==
    ASSUME PipeInv, \A v \in Workers : SamePlace(v),
           \A v \in Workers : NeedsChild(v)' => ChildStays(pid[v])
    PROVE  PipeInv'
<1> SUFFICES ASSUME NEW w \in Workers, NeedsChild(w)'
             PROVE  IF Sent(w)' THEN child'[pid'[w]] # "init"
                                ELSE child'[pid'[w]] \in {"init", "zombie"}
  BY DEF PipeInv
<1>1. NeedsChild(w) /\ pid'[w] = pid[w] /\ Sent(w)' = Sent(w) /\ ChildStays(pid[w])
  BY DEF SamePlace
<1>2. IF Sent(w) THEN child[pid[w]] # "init" ELSE child[pid[w]] \in {"init", "zombie"}
  BY <1>1 DEF PipeInv
<1> QED BY <1>1, <1>2 DEF ChildStays

\* A worker that goes on from another step than these keeps its place.
LEMMA ContinuePlace ==
    ASSUME TypeOK, WorkersOK, NEW w \in Workers, Continue(w), UNCHANGED <<pid, op>>,
           pc[w] \notin {"spawn", "send"}
    PROVE  \A v \in Workers : SamePlace(v)
<1>1. op[w] \in AllOps /\ pc[w] \in StepsOf(op[w]) /\ pc'[w] = After(op[w], pc[w])
  BY DEF TypeOK, WorkersOK, WorkerOK, Continue, Goto
<1>2. SamePlace(w)
  BY <1>1, AfterSent, AfterNeeds DEF SamePlace, NeedsChild, Sent
<1>3. \A v \in Workers : v # w => pc'[v] = pc[v]
  BY DEF Continue, Goto, TypeOK
<1>4. \A v \in Workers : v # w => SamePlace(v)
  BY <1>3 DEF SamePlace, NeedsChild, Sent
<1> QED BY <1>2, <1>4

\* So do the others when one goes where it needs no child.
LEMMA LeavePlace ==
    ASSUME TypeOK, NEW w \in Workers, ~NeedsChild(w)',
           \A v \in Workers \ {w} : pc'[v] = pc[v] /\ pid'[v] = pid[v] /\ op'[v] = op[v]
    PROVE  \A v \in Workers : SamePlace(v)
BY DEF SamePlace, NeedsChild, Sent

\* Every step keeps the children on their side of the pipe.
LEMMA PipeStep ==
    ASSUME IInv, PipeInv, [Next]_vars
    PROVE  PipeInv'
<1> USE LifecycleAssumption
<1>0. /\ TypeOK /\ WorkersOK /\ ChildIsMine
      /\ \A w \in Workers : WorkerOK(w)
  BY DEF IInv, WorkersOK
<1>1. ASSUME NEW v \in Workers, NeedsChild(v)
      PROVE  pid[v] \in Pids /\ parent[pid[v]] = v /\ child[pid[v]] # "free"
  BY <1>0, <1>1 DEF ChildIsMine, WorkerOK, TypeOK
<1>2. ASSUME child' = child PROVE \A p : ChildStays(p)
  BY <1>2 DEF ChildStays
<1>3. ASSUME NEW w \in Workers, NEW o \in AllOps, NEW c, NEW i, NEW step,
             Begin(w, o, c, i, step), ~NeedsChildAt(o, step)
      PROVE  PipeInv'
  <2>1. ~NeedsChild(w)' /\ child' = child
    BY <1>0, <1>3 DEF Begin, Goto, TypeOK, NeedsChild, processes
  <2>2. \A v \in Workers \ {w} : pc'[v] = pc[v] /\ pid'[v] = pid[v] /\ op'[v] = op[v]
    BY <1>0, <1>3 DEF Begin, Goto, TypeOK
  <2> QED BY <1>0, <1>2, <2>1, <2>2, LeavePlace, PipeKeeps
<1>4. ASSUME NEW w \in Workers, Call(w) PROVE PipeInv'
  <2> USE DEF AllOps, NeedsChildAt
  <2>1. ASSUME NEW c \in Containers, NEW l \in Limits, Run(w, c, l) PROVE PipeInv'
    BY <1>3, <2>1 DEF Run
  <2>2. ASSUME NEW c \in Containers, NEW l \in Limits, CreateAndRun(w, c, l) PROVE PipeInv'
    BY <1>3, <2>2 DEF CreateAndRun
  <2>3. ASSUME NEW c \in Containers, NEW l \in Limits, AdjustResourceLimits(w, c, l)
        PROVE  PipeInv'
    BY <1>3, <2>3 DEF AdjustResourceLimits
  <2>4. ASSUME NEW c \in Containers, Start(w, c) PROVE PipeInv'
    BY <1>3, <2>4 DEF Start
  <2>5. ASSUME NEW c \in Containers, StopContainer(w, c) PROVE PipeInv'
    BY <1>3, <2>5 DEF StopContainer
  <2>6. ASSUME NEW c \in Containers, RemoveContainer(w, c) PROVE PipeInv'
    BY <1>3, <2>6 DEF RemoveContainer
  <2> QED BY <1>4, <2>1, <2>2, <2>3, <2>4, <2>5, <2>6 DEF Call
<1>5. ASSUME NEW w \in Workers,
             \/ Grant(w) \/ EncodeConfig(w) \/ SetupVeth(w) \/ CopiersEnd(w) \/ GiveBack(w)
             \/ RemoveDir(w) \/ SetupCgroup(w) \/ CleanupCgroup(w)
      PROVE  PipeInv'
  <2>1. Continue(w) /\ UNCHANGED <<pid, op, child>>
    BY <1>5 DEF Grant, EncodeConfig, SetupVeth, CopiersEnd, GiveBack, RemoveDir, SetupCgroup,
                CleanupCgroup, processes
  <2>2. pc[w] \notin {"spawn", "send"}
    BY <1>5 DEF Grant, EncodeConfig, SetupVeth, CopiersEnd, GiveBack, RemoveDir, SetupCgroup,
                CleanupCgroup, At, WriteSteps
  <2> QED BY <1>0, <1>2, <2>1, <2>2, ContinuePlace, PipeKeeps
<1>6. ASSUME UNCHANGED <<pc, pid, op>> PROVE \A v \in Workers : SamePlace(v)
  BY <1>6 DEF SamePlace, NeedsChild, Sent
<1>7. ASSUME NEW w \in Workers, OpenConfig(w) PROVE PipeInv'
  BY <1>2, <1>6, <1>7, PipeKeeps DEF OpenConfig, processes
<1>8. ASSUME NEW w \in Workers, NEW step, Goto(w, step), UNCHANGED <<pid, op>>,
             ~NeedsChildAt(op[w], step)
      PROVE  \A v \in Workers : SamePlace(v)
  <2>1. ~NeedsChild(w)'
    BY <1>0, <1>8 DEF Goto, TypeOK, NeedsChild
  <2>2. \A v \in Workers \ {w} : pc'[v] = pc[v] /\ pid'[v] = pid[v] /\ op'[v] = op[v]
    BY <1>0, <1>8 DEF Goto, TypeOK
  <2> QED BY <1>0, <2>1, <2>2, LeavePlace
<1>25. ASSUME NEW w \in Workers, Allocate(w) PROVE PipeInv'
  <2>1. UNCHANGED <<pid, op, child>> /\ pc[w] = "allocate"
    BY <1>25 DEF Allocate, At, processes
  <2>2. CASE Continue(w)
    BY <1>0, <1>2, <2>1, <2>2, ContinuePlace, PipeKeeps
  <2>3. CASE Goto(w, "grant")
    <3>1. /\ pc'[w] = "grant" /\ \A v \in Workers \ {w} : pc'[v] = pc[v]
      BY <1>0, <2>3 DEF Goto, TypeOK
    <3>2. \A v \in Workers : SamePlace(v)
      BY <2>1, <3>1 DEF SamePlace, NeedsChild, NeedsChildAt, Sent, SentAt
    <3> QED BY <1>2, <2>1, <3>2, PipeKeeps
  <2> QED BY <1>25, <2>2, <2>3 DEF Allocate
<1>26. ASSUME NEW w \in Workers, Release(w) \/ ReleaseFails(w) PROVE PipeInv'
  <2>1. UNCHANGED <<pid, op, child>> /\ \E step \in {"giveback", "exit"} : Goto(w, step)
    BY <1>26 DEF Release, ReleaseFails, At, Continue, After, processes
  <2>2. \A v \in Workers : SamePlace(v)
    BY <1>8, <2>1 DEF NeedsChildAt
  <2> QED BY <1>2, <2>1, <2>2, PipeKeeps
<1>9. ASSUME NEW w \in Workers, WriteConfigFails(w) PROVE PipeInv'
  <2>1. UNCHANGED <<pid, op, child>> /\ Goto(w, AfterFailedWrite(w)) /\ pc[w] \in WriteSteps
    BY <1>9 DEF WriteConfigFails, processes
  <2>2. CASE pc[w] = "running"
    <3>1. op[w] \notin {"stop", "adjust"}
      BY <1>0, <2>2 DEF WorkerOK, StepsOf
    <3>2. Continue(w)
      BY <2>1, <2>2, <3>1 DEF AfterFailedWrite, At, Continue
    <3> QED BY <1>0, <1>2, <2>1, <2>2, <3>2, ContinuePlace, PipeKeeps
  <2>3. CASE pc[w] # "running"
    <3>1. ~NeedsChildAt(op[w], After(op[w], pc[w])) \/ pc[w] = "create"
      <4>1. op[w] \in AllOps /\ pc[w] \in StepsOf(op[w])
        BY <1>0 DEF TypeOK, WorkerOK
      <4> QED BY <2>1, <2>3, <4>1, AfterNeeds DEF WriteSteps, NeedsChildAt
    <3>2. ~NeedsChildAt(op[w], AfterFailedWrite(w))
      BY <2>1, <2>3, <3>1 DEF AfterFailedWrite, Bailout, At, NeedsChildAt, WriteSteps
    <3> QED BY <1>2, <1>8, <2>1, <3>2, PipeKeeps
  <2> QED BY <2>2, <2>3
<1>10. ASSUME NEW w \in Workers, Spawn(w) PROVE PipeInv'
  <2>1. PICK p \in Pids : /\ child[p] = "free" /\ child' = [child EXCEPT ![p] = "init"]
                          /\ pid' = [pid EXCEPT ![w] = p]
    BY <1>10 DEF Spawn
  <2>2. pc[w] = "spawn" /\ pc' = [pc EXCEPT ![w] = After(op[w], pc[w])] /\ op' = op
    BY <1>10 DEF Spawn, At, Continue, Goto
  <2> SUFFICES ASSUME NEW v \in Workers, NeedsChild(v)'
               PROVE  IF Sent(v)' THEN child'[pid'[v]] # "init"
                                  ELSE child'[pid'[v]] \in {"init", "zombie"}
    BY DEF PipeInv
  <2>3. CASE v = w
    <3>1. op[w] \in AllOps /\ pc[w] \in StepsOf(op[w]) /\ pc'[w] = After(op[w], pc[w])
      BY <1>0, <2>2 DEF TypeOK, WorkerOK
    <3>2. ~Sent(w)'
      BY <2>2, <2>3, <3>1, AfterSent DEF NeedsChild, Sent
    <3>3. child'[pid'[w]] = "init"
      BY <1>0, <2>1 DEF TypeOK
    <3> QED BY <2>3, <3>2, <3>3
  <2>4. CASE v # w
    <3>1. pc'[v] = pc[v] /\ pid'[v] = pid[v] /\ op'[v] = op[v]
      BY <1>0, <2>1, <2>2, <2>4 DEF TypeOK
    <3>2. NeedsChild(v) /\ Sent(v)' = Sent(v)
      BY <3>1 DEF NeedsChild, Sent
    <3>3. child'[pid[v]] = child[pid[v]]
      BY <1>0, <1>1, <2>1, <3>2 DEF TypeOK
    <3> QED BY <3>1, <3>2, <3>3 DEF PipeInv
  <2> QED BY <2>3, <2>4
<1>11. ASSUME NEW w \in Workers, SetupCgroupFails(w) \/ CallFails(w) PROVE PipeInv'
  <2>1. Goto(w, Bailout(w)) /\ KillChild(w) /\ UNCHANGED <<pid, op>>
    BY <1>11 DEF SetupCgroupFails, CallFails
  <2>2. ~NeedsChildAt(op[w], Bailout(w))
    BY DEF Bailout, NeedsChildAt
  <2>3. \A p \in Pids : ChildStays(p)
    BY <1>0, <2>1 DEF KillChild, ChildStays, TypeOK
  <2>4. \A v \in Workers : NeedsChild(v)' => ChildStays(pid[v])
    BY <1>1, <1>8, <2>1, <2>2, <2>3 DEF SamePlace
  <2> QED BY <1>8, <2>1, <2>2, <2>4, PipeKeeps
<1>12. ASSUME NEW w \in Workers, Send(w) PROVE PipeInv'
  <2>1. /\ pc[w] = "send" /\ Continue(w) /\ UNCHANGED <<pid, op>>
        /\ child' = IF child[pid[w]] = "init" THEN [child EXCEPT ![pid[w]] = "setup"]
                    ELSE child
    BY <1>12 DEF Send, At
  <2>2. NeedsChild(w)
    BY <2>1 DEF NeedsChild, NeedsChildAt
  <2> SUFFICES ASSUME NEW v \in Workers, NeedsChild(v)'
               PROVE  IF Sent(v)' THEN child'[pid'[v]] # "init"
                                  ELSE child'[pid'[v]] \in {"init", "zombie"}
    BY DEF PipeInv
  <2>3. CASE v = w
    <3>1. op[w] \in AllOps /\ pc[w] \in StepsOf(op[w]) /\ pc'[w] = After(op[w], pc[w])
      BY <1>0, <2>1 DEF TypeOK, WorkerOK, Continue, Goto
    <3>2. Sent(w)'
      BY <2>1, <2>3, <3>1, AfterSent DEF NeedsChild, Sent
    <3>3. child'[pid[w]] # "init"
      BY <1>0, <1>1, <2>1, <2>2 DEF TypeOK
    <3> QED BY <2>1, <2>3, <3>2, <3>3
  <2>4. CASE v # w
    <3>1. pc'[v] = pc[v] /\ NeedsChild(v) /\ Sent(v)' = Sent(v)
      <4>1. pc'[v] = pc[v]
        BY <1>0, <2>1, <2>4 DEF TypeOK, Continue, Goto
      <4> QED BY <2>1, <4>1 DEF NeedsChild, Sent
    <3>2. pid[v] # pid[w]
      BY <1>1, <2>2, <2>4, <3>1
    <3>3. child'[pid[v]] = child[pid[v]]
      BY <1>0, <1>1, <2>1, <2>2, <3>1, <3>2 DEF TypeOK
    <3> QED BY <2>1, <3>1, <3>3 DEF PipeInv
  <2> QED BY <2>3, <2>4
<1>13. ASSUME NEW w \in Workers, Wait(w) PROVE PipeInv'
  <2>1. /\ pc[w] = "wait" /\ (Continue(w) \/ Goto(w, "copiers")) /\ op' = op
        /\ child' = [child EXCEPT ![pid[w]] = "free"]
        /\ pid' = [pid EXCEPT ![w] = NoPid]
    BY <1>13 DEF Wait, At
  <2>2. \A v \in Workers \ {w} : pc'[v] = pc[v] /\ pid'[v] = pid[v] /\ op'[v] = op[v]
    BY <1>0, <2>1 DEF Continue, Goto, TypeOK
  <2>3. NeedsChild(w) /\ ~NeedsChild(w)'
    <3>1. pc'[w] \in {"copiers", "stopped"}
      BY <1>0, <2>1 DEF Continue, Goto, After, TypeOK
    <3> QED BY <2>1, <3>1 DEF NeedsChild, NeedsChildAt
  <2>4. \A v \in Workers : SamePlace(v)
    BY <1>0, <2>2, <2>3, LeavePlace
  <2>5. ASSUME NEW v \in Workers, NeedsChild(v)' PROVE ChildStays(pid[v])
    <3>1. v # w /\ NeedsChild(v)
      BY <2>3, <2>4, <2>5 DEF SamePlace
    <3>2. pid[v] # pid[w] /\ pid[v] \in Pids
      BY <1>1, <2>3, <3>1
    <3>3. child'[pid[v]] = child[pid[v]]
      BY <1>0, <2>1, <3>2 DEF TypeOK
    <3> QED BY <3>3 DEF ChildStays
  <2> QED BY <2>4, <2>5, PipeKeeps
<1>14. ASSUME NEW p \in Pids, Dies(p), NEW v \in Workers, NeedsChild(v) PROVE ChildStays(pid[v])
  <2>1. pid[v] = p => child'[p] = "zombie"
    BY <1>0, <1>1, <1>14 DEF Dies, Ended, TypeOK
  <2>2. pid[v] # p => child'[pid[v]] = child[pid[v]]
    BY <1>0, <1>1, <1>14 DEF Dies, TypeOK
  <2> QED BY <2>1, <2>2 DEF ChildStays
<1>15. ASSUME NEW w \in Workers, Kill(w) PROVE PipeInv'
  <2>1. UNCHANGED <<pid, op>> /\ \E step \in {"stopped", "exit"} : Goto(w, step)
    BY <1>15 DEF Kill, At, Continue, After
  <2>2. \A v \in Workers : SamePlace(v)
    BY <1>8, <2>1 DEF NeedsChildAt
  <2>3. \A v \in Workers : NeedsChild(v)' => ChildStays(pid[v])
    <3>1. CASE UNCHANGED child
      BY <1>2, <3>1
    <3>2. CASE info[w].pid \in Pids /\ Dies(info[w].pid)
      BY <1>14, <2>2, <3>2 DEF SamePlace
    <3> QED BY <1>15, <3>1, <3>2 DEF Kill
  <2> QED BY <2>2, <2>3, PipeKeeps
<1>16. ASSUME NEW w \in Workers, ApplyLimits(w) \/ RemoveCgroup(w) PROVE PipeInv'
  <2>1. /\ UNCHANGED <<pid, op, child>>
        /\ \E step \in {"exit", "adjusted", "rmdir"} : Goto(w, step)
    BY <1>16 DEF ApplyLimits, RemoveCgroup, At, Continue, After, processes
  <2>2. \A v \in Workers : SamePlace(v)
    BY <1>8, <2>1 DEF NeedsChildAt
  <2> QED BY <1>2, <2>1, <2>2, PipeKeeps
<1>17. ASSUME NEW W \in SUBSET Workers, Forget(W), Orphan(W) \/ UNCHANGED child PROVE PipeInv'
  <2>1. \A v \in Workers : NeedsChild(v)' => v \notin W
    BY <1>17 DEF Forget, NeedsChild, NeedsChildAt
  <2>2. \A v \in Workers : v \notin W => pc'[v] = pc[v] /\ pid'[v] = pid[v] /\ op'[v] = op[v]
    BY <1>17 DEF Forget
  <2>3. \A v \in Workers : SamePlace(v)
    BY <2>1, <2>2 DEF SamePlace, NeedsChild, Sent
  <2>4. ASSUME NEW v \in Workers, NeedsChild(v)' PROVE ChildStays(pid[v])
    <3>1. pid[v] \in Pids /\ parent[pid[v]] = v /\ v \notin W
      BY <1>1, <2>1, <2>3, <2>4 DEF SamePlace
    <3>2. child'[pid[v]] = child[pid[v]]
      BY <1>17, <3>1 DEF Orphan
    <3> QED BY <3>2 DEF ChildStays
  <2> QED BY <2>3, <2>4, PipeKeeps
<1>18. ASSUME NEW w \in Workers, Return(w) PROVE PipeInv'
  <2>1. Forget({w}) /\ {w} \in SUBSET Workers /\ (Orphan({w}) \/ UNCHANGED child)
    BY <1>18 DEF Return, processes
  <2> QED BY <1>17, <2>1
<1>19. ASSUME NEW W \in SUBSET Workers, Crash(W) PROVE PipeInv'
  BY <1>17, <1>19 DEF Crash
<1>20. ASSUME NEW p \in Pids, SetupRootfs(p) \/ Exec(p) PROVE PipeInv'
  <2>1. UNCHANGED <<pc, pid, op>>
    BY <1>20 DEF SetupRootfs, Exec
  <2>2. \A q \in Pids : ChildStays(q)
    BY <1>0, <1>20 DEF SetupRootfs, Exec, ChildStays, TypeOK
  <2>3. \A v \in Workers : NeedsChild(v)' => ChildStays(pid[v])
    BY <1>1, <1>6, <2>1, <2>2 DEF SamePlace
  <2> QED BY <1>6, <2>1, <2>3, PipeKeeps
<1>21. ASSUME NEW p \in Pids, PipeClosed(p) \/ ProcessEnds(p) PROVE PipeInv'
  <2>1. UNCHANGED <<pc, pid, op>> /\ Dies(p)
    BY <1>21 DEF PipeClosed, ProcessEnds
  <2>2. \A v \in Workers : NeedsChild(v)' => ChildStays(pid[v])
    BY <1>6, <1>14, <2>1 DEF SamePlace
  <2> QED BY <1>6, <2>1, <2>2, PipeKeeps
<1>22. CASE UNCHANGED vars
  BY <1>2, <1>6, <1>22, PipeKeeps DEF vars, processes
<1>23. ASSUME NEW w \in Workers, Step(w) PROVE PipeInv'
  BY <1>5, <1>7, <1>9, <1>10, <1>11, <1>12, <1>13, <1>15, <1>16, <1>18, <1>23, <1>25, <1>26
     DEF Step
<1>24. Daemon \in SUBSET Workers /\ \A w \in CLI : {w} \in SUBSET Workers
  BY DEF Workers
<1> QED BY <1>4, <1>5, <1>19, <1>20, <1>21, <1>22, <1>23, <1>24 DEF Next, Progress

\* What the proofs below start from.
FamilyInv == IInv /\ ParentInv /\ ConfinedInv /\ PipeInv
LEMMA FamilyInit == Init => FamilyInv
<1>1. Init => ParentInv /\ ConfinedInv
  BY LifecycleAssumption DEF Init, ParentInv, ConfinedInv, Alive
<1>2. Init => PipeInv
  BY DEF Init, PipeInv, NeedsChild, NeedsChildAt
<1> QED BY <1>1, <1>2, InvInit DEF FamilyInv
LEMMA FamilyStep == FamilyInv /\ [Next]_vars => FamilyInv'
BY InvStep, ConfinedStep, PipeStep DEF FamilyInv

\* No child is left at its pipe: while one waits for its configuration the worker that
\* spawned it is on its way to Send, or has gone and closed the pipe.
THEOREM PipeIsServed == Spec => []PipeHasWriter
<1>1. FamilyInv => PipeHasWriter
  <2> SUFFICES ASSUME FamilyInv, NEW p \in Pids, child[p] = "init", parent[p] # NoWorker
               PROVE  \E w \in Workers :
                        /\ parent[p] = w /\ pid[w] = p
                        /\ \/ pc[w] \in {"veth", "send"}
                           \/ pc[w] = "cgroup" /\ op[w] # "start"
                           \/ pc[w] \in {"allocate", "grant"} /\ op[w] = "start"
    BY DEF PipeHasWriter
  <2>1. parent[p] \in Workers
    BY DEF FamilyInv, IInv, TypeOK
  <2>2. pid[parent[p]] = p /\ NeedsChild(parent[p])
    BY <2>1 DEF FamilyInv, ParentInv, Alive
  <2>3. ~Sent(parent[p])
    BY <2>1, <2>2 DEF FamilyInv, PipeInv
  <2> QED BY <2>1, <2>2, <2>3 DEF NeedsChild, NeedsChildAt, Sent, SentAt
<1> QED BY <1>1, FamilyInit, FamilyStep, PTL DEF Spec

-----------------------------------------------------------------------------
(* The addresses *)

\* No two containers have the same entry in the address book, but those that two
\* processes raced for.
OneOwner ==
    \A c, d \in Containers \ raced : book[c] # NoIP /\ book[c] = book[d] => c = d

\* The address a worker holds is the one in the book, unless another operation
\* on the container gave it back meanwhile or two processes raced for it.
Loaned ==
    \A w \in Workers :
        ip[w] # NoIP /\ cont[w] \notin early \cup raced => book[cont[w]] = ip[w]

\* A live process has the address its parent holds; a process without a parent
\* was left by a crash; none has an address before it was sent one.
Held ==
    \A p \in Pids, w \in Workers :
        parent[p] = w /\ Alive(p) /\ addr[p] # NoIP => ip[w] = addr[p]
OrphansCrashed ==
    \A p \in Pids : Alive(p) /\ parent[p] = NoWorker => runs[p] \in crashed
InitBlank ==
    \A p \in Pids : child[p] = "init" => addr[p] = NoIP

LoanInv == OneOwner /\ Loaned /\ Held /\ OrphansCrashed /\ InitBlank

\* What a step has to leave alone to keep it: the book and who holds what, the
\* processes' addresses and parents.
LEMMA LoanKeeps ==
    ASSUME LoanInv, UNCHANGED <<book, ip, early, addr, runs, crashed>>, raced \subseteq raced',
           \A w \in Workers : cont'[w] = cont[w] \/ ip[w] = NoIP,
           \A p \in Pids : Alive(p)' => Alive(p) /\ parent'[p] = parent[p],
           \A p \in Pids : child'[p] = "init" => child[p] = "init"
    PROVE  LoanInv'
<1>1. OneOwner'
  BY DEF LoanInv, OneOwner
<1>2. Loaned'
  BY DEF LoanInv, Loaned
<1>3. Held'
  BY DEF LoanInv, Held
<1>4. OrphansCrashed' /\ InitBlank'
  BY DEF LoanInv, OrphansCrashed, InitBlank
<1> QED BY <1>1, <1>2, <1>3, <1>4 DEF LoanInv

\* A process that is sent nothing yet has no address.
LEMMA BlankChild ==
    ASSUME FamilyInv, InitBlank, NEW p \in Pids, Alive(p), NEW w \in Workers, parent[p] = w,
           ~Sent(w)
    PROVE  addr[p] = NoIP
<1>1. pid[w] = p /\ NeedsChild(w)
  BY DEF FamilyInv, ParentInv
<1>2. child[p] = "init"
  BY <1>1 DEF FamilyInv, PipeInv, Alive
<1> QED BY <1>2 DEF InitBlank

\* Every step keeps the addresses apart.
LEMMA LoanStep ==
    ASSUME FamilyInv, LoanInv, [Next]_vars
    PROVE  LoanInv'
<1> USE LifecycleAssumption DEF addresses, history, exceptions
<1>0. /\ TypeOK /\ ChildIsMine /\ ParentInv
      /\ \A w \in Workers : WorkerOK(w)
      /\ \A p \in Pids : child[p] # "free" => runs[p] \in Containers
      /\ OneOwner /\ Loaned /\ Held /\ OrphansCrashed /\ InitBlank
      /\ WorkersOK /\ Current /\ GrantsNew
  BY DEF FamilyInv, IInv, WorkersOK, ProcessInv, LoanInv, BookInv
<1>1. ASSUME NEW w \in Workers, ~NeedsChild(w)
      PROVE  \A p \in Pids : parent[p] = w => ~Alive(p)
  BY <1>0, <1>1 DEF ParentInv
<1>2. ASSUME UNCHANGED <<book, ip, early, raced, addr, runs, crashed, cont, child, parent>>
      PROVE  LoanInv'
  BY <1>2, LoanKeeps DEF Alive
<1>3. ASSUME UNCHANGED <<book, ip, early, raced, addr, runs, crashed, cont, parent>>,
             \A p \in Pids : child'[p] # child[p] => child'[p] \in {"zombie", "free"}
      PROVE  LoanInv'
  <2>1. \A p \in Pids : /\ Alive(p)' => Alive(p)
                        /\ child'[p] = "init" => child[p] = "init"
    BY <1>3 DEF Alive
  <2> QED BY <1>3, <2>1, LoanKeeps
<1>4. ASSUME NEW w \in Workers, NEW o, NEW c, NEW i, NEW step, Begin(w, o, c, i, step)
      PROVE  LoanInv'
  <2>1. ip[w] = NoIP
    BY <1>0, <1>4 DEF Begin, At, WorkerOK
  <2>2. \A v \in Workers : cont'[v] = cont[v] \/ ip[v] = NoIP
    BY <1>0, <1>4, <2>1 DEF Begin, TypeOK
  <2> QED BY <1>4, <2>2, LoanKeeps DEF Begin, processes, Alive
<1>5. ASSUME NEW w \in Workers, Call(w) PROVE LoanInv'
  BY <1>4, <1>5
     DEF Call, Run, CreateAndRun, AdjustResourceLimits, Start, StopContainer, RemoveContainer
<1>6. ASSUME NEW w \in Workers,
             \/ OpenConfig(w) \/ EncodeConfig(w) \/ WriteConfigFails(w) \/ SetupCgroup(w)
             \/ SetupVeth(w) \/ CleanupCgroup(w) \/ ApplyLimits(w) \/ RemoveCgroup(w)
             \/ RemoveDir(w) \/ CopiersEnd(w)
      PROVE  LoanInv'
  <2>1. UNCHANGED <<book, ip, early, raced, addr, runs, crashed, cont, child, parent>>
    BY <1>6 DEF OpenConfig, EncodeConfig, WriteConfigFails, SetupCgroup, SetupVeth,
                CleanupCgroup, ApplyLimits, RemoveCgroup, RemoveDir, CopiersEnd, processes
  <2> QED BY <1>2, <2>1
<1>7. ASSUME NEW w \in Workers, SetupCgroupFails(w) \/ CallFails(w) PROVE LoanInv'
  <2>1. /\ UNCHANGED <<book, ip, early, raced, addr, runs, crashed, cont, parent>>
        /\ KillChild(w)
    BY <1>7 DEF SetupCgroupFails, CallFails, history
  <2>2. \A p \in Pids : child'[p] # child[p] => child'[p] = "zombie"
    BY <1>0, <2>1 DEF KillChild, TypeOK
  <2> QED BY <1>3, <2>1, <2>2
<1>8. ASSUME NEW w \in Workers, Wait(w) PROVE LoanInv'
  <2>1. /\ UNCHANGED <<book, ip, early, raced, addr, runs, crashed, cont, parent>>
        /\ child' = [child EXCEPT ![pid[w]] = "free"]
    BY <1>8 DEF Wait, history
  <2>2. \A p \in Pids : child'[p] # child[p] => child'[p] = "free"
    BY <1>0, <2>1 DEF TypeOK
  <2> QED BY <1>3, <2>1, <2>2
<1>9. ASSUME NEW p, Dies(p) PROVE \A q \in Pids : child'[q] # child[q] => child'[q] \in {"zombie", "free"}
  BY <1>0, <1>9 DEF Dies, Ended, TypeOK
<1>10. ASSUME NEW w \in Workers, Kill(w) PROVE LoanInv'
  <2>1. UNCHANGED <<book, ip, early, raced, addr, runs, crashed, cont, parent>>
    BY <1>10 DEF Kill, history
  <2>2. UNCHANGED child \/ Dies(info[w].pid)
    BY <1>10 DEF Kill
  <2> QED BY <1>2, <1>3, <1>9, <2>1, <2>2
<1>11. ASSUME NEW p \in Pids, PipeClosed(p) \/ ProcessEnds(p) PROVE LoanInv'
  <2>1. UNCHANGED <<book, ip, early, raced, addr, runs, crashed, cont, parent>> /\ Dies(p)
    BY <1>11 DEF PipeClosed, ProcessEnds, history
  <2> QED BY <1>3, <1>9, <2>1
<1>12. ASSUME NEW p \in Pids, SetupRootfs(p) \/ Exec(p) PROVE LoanInv'
  <2>1. /\ UNCHANGED <<book, ip, early, raced, addr, runs, crashed, cont, parent>>
        /\ child[p] \in {"setup", "rootfs"} /\ child'[p] # "init"
        /\ \A q \in Pids \ {p} : child'[q] = child[q]
    BY <1>0, <1>12 DEF SetupRootfs, Exec, history, TypeOK
  <2>2. \A q \in Pids : /\ Alive(q)' => Alive(q)
                        /\ child'[q] = "init" => child[q] = "init"
    BY <2>1 DEF Alive
  <2> QED BY <2>1, <2>2, LoanKeeps
<1>23. ASSUME NEW w \in Workers, Load(w),
              UNCHANGED <<ip, early, addr, runs, crashed, cont, child, parent>>
       PROVE  LoanInv'
  BY <1>0, <1>23, LoadResult, LoanKeeps DEF Alive
<1>24. ASSUME NEW w \in Workers, \A p \in Pids : parent[p] = w => ~Alive(p) \/ addr[p] = NoIP,
              \A v \in Workers \ {w} : ip'[v] = ip[v],
              UNCHANGED <<addr, runs, crashed, cont, child, parent>>, OneOwner', Loaned'
       PROVE  LoanInv'
  <2>1. Held'
    BY <1>0, <1>24 DEF Held, Alive
  <2>2. OrphansCrashed' /\ InitBlank'
    BY <1>0, <1>24 DEF OrphansCrashed, InitBlank, Alive
  <2> QED BY <1>24, <2>1, <2>2 DEF LoanInv
<1>25. ASSUME NEW w \in Workers, pc[w] \in {"allocate", "grant"}
       PROVE  \A p \in Pids : parent[p] = w => ~Alive(p) \/ addr[p] = NoIP
  <2>1. ~Sent(w)
    BY <1>25 DEF Sent, SentAt
  <2> QED BY <1>0, <2>1, BlankChild
<1>26. ASSUME NEW w \in Workers, pc[w] \in {"release", "giveback"}
       PROVE  \A p \in Pids : parent[p] = w => ~Alive(p)
  BY <1>1, <1>26 DEF NeedsChild, NeedsChildAt
<1>13. ASSUME NEW w \in Workers, Allocate(w) PROVE LoanInv'
  <2>1. pc[w] = "allocate" /\ UNCHANGED <<early, addr, runs, crashed, cont, child, parent>>
    BY <1>13 DEF Allocate, At, processes
  <2>2. CASE Load(w) /\ ip' = ip
    BY <1>23, <2>1, <2>2
  <2>3. CASE ip' = [ip EXCEPT ![w] = book[cont[w]]] /\ UNCHANGED <<book, raced>>
    <3>1. \A v \in Workers : ip'[v] = IF v = w THEN book[cont[w]] ELSE ip[v]
      BY <1>0, <2>3 DEF TypeOK
    <3>2. OneOwner' /\ Loaned'
      BY <1>0, <2>1, <2>3, <3>1 DEF OneOwner, Loaned
    <3> QED BY <1>24, <1>25, <2>1, <3>1, <3>2
  <2> QED BY <1>13, <2>2, <2>3 DEF Allocate
<1>27. ASSUME NEW w \in Workers, Grant(w) PROVE LoanInv'
  <2>1. PICK i \in FreeIPs(loaded[w]) : Save(w, i) /\ ip' = [ip EXCEPT ![w] = i]
    BY <1>27 DEF Grant
  <2>2. pc[w] = "grant" /\ UNCHANGED <<early, raced, addr, runs, crashed, cont, child, parent>>
    BY <1>27 DEF Grant, At, processes
  <2>3. i \in IPs /\ i # NoIP /\ \A c \in Containers : loaded[w][c] # i
    BY DEF FreeIPs
  <2>4. /\ cont[w] \in Containers
        /\ \A c \in Containers : book'[c] = IF c = cont[w] THEN i ELSE loaded[w][c]
    BY <1>0, <2>1, <2>2, <2>3, SaveType
  <2>5. \A c \in Containers \ raced : loaded[w][c] = book[c]
    BY <1>0, <2>2 DEF Current, WorkerOK
  <2>6. \A v \in Workers : ip'[v] = IF v = w THEN i ELSE ip[v]
    BY <1>0, <2>1 DEF TypeOK
  <2>7. OneOwner'
    BY <1>0, <2>2, <2>3, <2>4, <2>5 DEF OneOwner
  <2>8. Loaned'
    <3> SUFFICES ASSUME NEW v \in Workers, ip'[v] # NoIP, cont[v] \notin early \cup raced
                 PROVE  book'[cont[v]] = ip'[v]
      BY <2>2 DEF Loaned
    <3>1. CASE v = w
      BY <2>4, <2>6, <3>1
    <3>2. CASE v # w
      <4>1. book[cont[v]] = ip[v] /\ ip[v] # NoIP /\ cont[v] \in Containers
        BY <1>0, <2>6, <3>2 DEF Loaned, WorkerOK
      <4>2. cont[v] # cont[w]
        BY <1>0, <2>2, <2>5, <4>1 DEF GrantsNew
      <4> QED BY <2>4, <2>5, <2>6, <3>2, <4>1, <4>2
    <3> QED BY <3>1, <3>2
  <2> QED BY <1>24, <1>25, <2>2, <2>6, <2>7, <2>8
<1>28. ASSUME NEW w \in Workers, early' = Early(w), UNCHANGED <<raced, cont>>,
              cont[w] \in Containers,
              \A v \in Workers : ip'[v] = IF v = w THEN NoIP ELSE ip[v],
              \A c \in Containers \ raced : book'[c] = IF c = cont[w] THEN NoIP ELSE book[c]
       PROVE  OneOwner' /\ Loaned'
  <2>1. OneOwner'
    BY <1>0, <1>28 DEF OneOwner
  <2>2. Loaned'
    <3> SUFFICES ASSUME NEW v \in Workers, ip'[v] # NoIP, cont[v] \notin early' \cup raced
                 PROVE  book'[cont[v]] = ip'[v]
      BY <1>28 DEF Loaned
    <3>1. v # w /\ ip'[v] = ip[v] /\ cont[v] \in Containers
      BY <1>0, <1>28 DEF WorkerOK
    <3>2. cont[v] # cont[w] /\ cont[v] \notin early
      BY <1>28, <3>1 DEF Early, Shared
    <3> QED BY <1>0, <1>28, <3>1, <3>2 DEF Loaned
  <2> QED BY <2>1, <2>2
<1>14. ASSUME NEW w \in Workers, Release(w) PROVE LoanInv'
  <2>1. /\ pc[w] = "release" /\ cont[w] \in Containers
        /\ UNCHANGED <<addr, runs, crashed, cont, child, parent>>
    BY <1>0, <1>14 DEF Release, At, processes, WorkerOK
  <2>2. CASE Load(w) /\ UNCHANGED <<ip, early>>
    BY <1>23, <2>1, <2>2
  <2>3. CASE book[cont[w]] = NoIP /\ ip' = [ip EXCEPT ![w] = NoIP] /\ early' = Early(w)
             /\ UNCHANGED <<book, raced>>
    <3>1. \A v \in Workers : ip'[v] = IF v = w THEN NoIP ELSE ip[v]
      BY <1>0, <2>3 DEF TypeOK
    <3>2. OneOwner' /\ Loaned'
      BY <1>28, <2>1, <2>3, <3>1
    <3> QED BY <1>24, <1>26, <2>1, <3>1, <3>2
  <2> QED BY <1>14, <2>2, <2>3 DEF Release
<1>29. ASSUME NEW w \in Workers, GiveBack(w) PROVE LoanInv'
  <2>1. /\ pc[w] = "giveback" /\ early' = Early(w)
        /\ UNCHANGED <<raced, addr, runs, crashed, cont, child, parent>>
    BY <1>29 DEF GiveBack, At, processes
  <2>2. /\ cont[w] \in Containers
        /\ \A c \in Containers : book'[c] = IF c = cont[w] THEN NoIP ELSE loaded[w][c]
    BY <1>0, <1>29, <2>1, SaveType DEF GiveBack
  <2>3. \A c \in Containers \ raced : loaded[w][c] = book[c]
    BY <1>0, <2>1 DEF Current, WorkerOK
  <2>4. \A v \in Workers : ip'[v] = IF v = w THEN NoIP ELSE ip[v]
    BY <1>0, <1>29 DEF GiveBack, TypeOK
  <2>5. OneOwner' /\ Loaned'
    BY <1>28, <2>1, <2>2, <2>3, <2>4
  <2> QED BY <1>24, <1>26, <2>1, <2>4, <2>5
<1>30. ASSUME NEW w \in Workers, ReleaseFails(w) PROVE LoanInv'
  <2>1. /\ pc[w] \in {"release", "giveback"}
        /\ UNCHANGED <<book, early, raced, addr, runs, crashed, cont, child, parent>>
        /\ \A v \in Workers : ip'[v] = IF v = w THEN NoIP ELSE ip[v]
    BY <1>0, <1>30 DEF ReleaseFails, processes, TypeOK
  <2>2. OneOwner' /\ Loaned'
    BY <1>0, <2>1 DEF OneOwner, Loaned
  <2> QED BY <1>24, <1>26, <2>1, <2>2
<1>15. ASSUME NEW w \in Workers, Spawn(w) PROVE LoanInv'
  <2>1. PICK p \in Pids : /\ child[p] = "free" /\ child' = [child EXCEPT ![p] = "init"]
                          /\ parent' = [parent EXCEPT ![p] = w]
                          /\ runs' = [runs EXCEPT ![p] = cont[w]]
                          /\ addr' = [addr EXCEPT ![p] = NoIP]
    BY <1>15 DEF Spawn
  <2>2. UNCHANGED <<book, ip, early, raced, crashed, cont>>
    BY <1>15 DEF Spawn, history
  <2>3. addr'[p] = NoIP /\ parent'[p] = w
    BY <1>0, <2>1 DEF TypeOK
  <2>4. \A q \in Pids \ {p} : /\ child'[q] = child[q] /\ parent'[q] = parent[q]
                              /\ runs'[q] = runs[q] /\ addr'[q] = addr[q]
    BY <1>0, <2>1 DEF TypeOK
  <2>5. OneOwner' /\ Loaned'
    BY <1>0, <2>2 DEF OneOwner, Loaned
  <2>6. Held'
    BY <1>0, <2>2, <2>3, <2>4 DEF Held, Alive
  <2>7. OrphansCrashed' /\ InitBlank'
    BY <1>0, <2>2, <2>3, <2>4 DEF OrphansCrashed, InitBlank, Alive
  <2> QED BY <2>5, <2>6, <2>7 DEF LoanInv
<1>16. ASSUME NEW w \in Workers, Send(w) PROVE LoanInv'
  <2>1. /\ pc[w] = "send"
        /\ child' = IF child[pid[w]] = "init" THEN [child EXCEPT ![pid[w]] = "setup"]
                    ELSE child
        /\ addr' = [addr EXCEPT ![pid[w]] = ip[w]]
        /\ UNCHANGED <<book, ip, early, raced, crashed, cont, runs, parent>>
    BY <1>16 DEF Send, At, history
  <2>2. NeedsChild(w) /\ ~Sent(w)
    BY <2>1 DEF NeedsChild, NeedsChildAt, Sent, SentAt
  <2>3. /\ pid[w] \in Pids /\ parent[pid[w]] = w
        /\ child[pid[w]] \in {"init", "zombie"}
    BY <1>0, <2>2 DEF WorkerOK, ChildIsMine, TypeOK, FamilyInv, PipeInv
  <2>4. /\ child'[pid[w]] # "init" /\ addr'[pid[w]] = ip[w]
        /\ child'[pid[w]] = "zombie" \/ child[pid[w]] = "init"
    <3>1. addr'[pid[w]] = ip[w]
      BY <1>0, <2>1, <2>3 DEF TypeOK
    <3>2. CASE child[pid[w]] = "init"
      BY <1>0, <2>1, <2>3, <3>1, <3>2 DEF TypeOK
    <3>3. CASE child[pid[w]] = "zombie"
      BY <2>1, <3>1, <3>3
    <3> QED BY <2>3, <3>2, <3>3
  <2>5. \A q \in Pids \ {pid[w]} : child'[q] = child[q] /\ addr'[q] = addr[q]
    BY <1>0, <2>1, <2>3 DEF TypeOK
  <2>6. OneOwner' /\ Loaned'
    BY <1>0, <2>1 DEF OneOwner, Loaned
  <2>7. Held'
    BY <1>0, <2>1, <2>3, <2>4, <2>5 DEF Held, Alive
  <2>8. OrphansCrashed' /\ InitBlank'
    BY <1>0, <2>1, <2>3, <2>4, <2>5 DEF OrphansCrashed, InitBlank, Alive
  <2> QED BY <2>6, <2>7, <2>8 DEF LoanInv
<1>17. ASSUME NEW W \in SUBSET Workers, Forget(W), Orphan(W),
              UNCHANGED <<book, early, raced>>, crashed \subseteq crashed',
              \A p \in Pids : Alive(p) /\ parent[p] \in W => runs[p] \in crashed'
       PROVE  LoanInv'
  <2>1. /\ runs' = runs /\ addr' = addr
        /\ \A p \in Pids : /\ child'[p] # child[p] => child'[p] = "free"
                           /\ parent'[p] = IF parent[p] \in W THEN NoWorker ELSE parent[p]
    BY <1>17 DEF Orphan
  <2>2. \A v \in Workers : /\ cont'[v] = IF v \in W THEN NoContainer ELSE cont[v]
                           /\ ip'[v] = IF v \in W THEN NoIP ELSE ip[v]
    BY <1>17 DEF Forget
  <2>3. OneOwner' /\ Loaned'
    BY <1>0, <1>17, <2>2 DEF OneOwner, Loaned
  <2>4. \A p \in Pids : Alive(p)' => Alive(p)
    BY <2>1 DEF Alive
  <2>5. Held'
    BY <1>0, <2>1, <2>2, <2>4 DEF Held
  <2>6. OrphansCrashed'
    BY <1>0, <1>17, <2>1, <2>4 DEF OrphansCrashed
  <2>7. InitBlank'
    BY <1>0, <2>1 DEF InitBlank
  <2> QED BY <2>3, <2>5, <2>6, <2>7 DEF LoanInv
<1>18. ASSUME NEW w \in Workers, Return(w) PROVE LoanInv'
  <2>1. /\ pc[w] = "exit" /\ Forget({w}) /\ {w} \in SUBSET Workers
        /\ UNCHANGED <<book, early, raced, crashed>>
    BY <1>18 DEF Return, At, history
  <2>2. \A p \in Pids : parent[p] = w => ~Alive(p)
    BY <1>1, <2>1 DEF NeedsChild, NeedsChildAt
  <2>3. CASE w \in CLI
    BY <1>17, <1>18, <2>1, <2>2, <2>3 DEF Return
  <2>4. CASE w \notin CLI
    <3>1. UNCHANGED processes
      BY <1>18, <2>4 DEF Return
    <3>2. ip[w] = NoIP
      BY <1>0, <2>1 DEF WorkerOK
    <3>3. ip' = ip
      BY <1>0, <2>1, <3>2 DEF Forget, TypeOK
    <3>4. \A v \in Workers : cont'[v] = cont[v] \/ ip[v] = NoIP
      BY <2>1, <3>2 DEF Forget
    <3> QED BY <2>1, <3>1, <3>3, <3>4, LoanKeeps DEF processes, Alive
  <2> QED BY <2>3, <2>4
<1>19. ASSUME NEW W \in SUBSET Workers, Crash(W) PROVE LoanInv'
  <2>1. /\ Forget(W) /\ Orphan(W) /\ UNCHANGED <<book, early, raced>>
        /\ crashed' = crashed \cup ({cont[w] : w \in W} \ {NoContainer})
    BY <1>19 DEF Crash
  <2>2. ASSUME NEW p \in Pids, Alive(p), parent[p] \in W PROVE runs[p] \in crashed'
    <3>1. pid[parent[p]] = p
      BY <1>0, <2>2 DEF ParentInv
    <3>2. pid[parent[p]] # NoPid
      BY <3>1
    <3>3. runs[p] = cont[parent[p]] /\ runs[p] \in Containers
      BY <1>0, <2>2, <3>1, <3>2 DEF ChildIsMine, Alive
    <3> QED BY <2>1, <2>2, <3>3
  <2> QED BY <1>17, <2>1, <2>2
<1>20. CASE UNCHANGED vars
  BY <1>2, <1>20 DEF vars, processes, history
<1>21. ASSUME NEW w \in Workers, Step(w) PROVE LoanInv'
  BY <1>6, <1>7, <1>8, <1>10, <1>13, <1>14, <1>15, <1>16, <1>18, <1>21, <1>27, <1>29, <1>30
     DEF Step
<1>22. Daemon \in SUBSET Workers /\ \A w \in CLI : {w} \in SUBSET Workers
  BY DEF Workers
<1> QED BY <1>5, <1>6, <1>11, <1>12, <1>19, <1>20, <1>21, <1>22 DEF Next, Progress

\* Live processes of two containers never share an address, for any number of operations,
\* failures, kills and PID reuse: outside crashes, an address given back early and two
\* processes that rewrite the address book at one time, the process's parent still holds
\* it and the book still names its container.
THEOREM AddressesExclusive == Spec => []AddressExclusive
<1>1. ASSUME FamilyInv, LoanInv, NEW p \in Pids, Alive(p), addr[p] # NoIP,
             runs[p] \notin crashed \cup early \cup raced
      PROVE  runs[p] \in Containers /\ book[runs[p]] = addr[p]
  <2>1. parent[p] \in Workers
    BY <1>1 DEF FamilyInv, IInv, TypeOK, LoanInv, OrphansCrashed
  <2>2. pid[parent[p]] = p
    BY <1>1, <2>1 DEF FamilyInv, ParentInv
  <2>3. pid[parent[p]] # NoPid
    BY <2>2, LifecycleAssumption
  <2>4. runs[p] = cont[parent[p]] /\ runs[p] \in Containers
    BY <1>1, <2>1, <2>2, <2>3 DEF FamilyInv, IInv, ChildIsMine, ProcessInv, Alive
  <2>5. ip[parent[p]] = addr[p]
    BY <1>1, <2>1 DEF LoanInv, Held
  <2> QED BY <1>1, <2>1, <2>4, <2>5 DEF LoanInv, Loaned
<1>2. FamilyInv /\ LoanInv => AddressExclusive
  BY <1>1 DEF AddressExclusive, LoanInv, OneOwner
<1>3. Init => LoanInv
  BY DEF Init, LoanInv, OneOwner, Loaned, Held, OrphansCrashed, InitBlank, Alive
<1>4. FamilyInv /\ LoanInv /\ [Next]_vars => FamilyInv' /\ LoanInv'
  BY FamilyStep, LoanStep
<1> QED BY <1>2, <1>3, <1>4, FamilyInit, PTL DEF Spec

-----------------------------------------------------------------------------
\* A container has a config.json, and a worker, only if its ID was used.
BornInv ==
    /\ \A c \in Containers : cfg[c] # NoFile => c \in born
    /\ \A w \in Workers : cont[w] \in Containers => cont[w] \in born

SaysRunning(c) == Found(c) /\ cfg[c].status = "running"

\* The limits l are those in force in the container's cgroup, if there is one.
Agree(c, l) == cgroup[c] = NoCgroup \/ l \in {cgroup[c], NoLimits}

\* What a worker has settled of its container's limits, by the step it is at.
SettledBy(w, c) ==
    CASE op[w] = "adjust" ->
           /\ pc[w] # "adjusted" => (SaysRunning(c) => Agree(c, cfg[c].limits))
           /\ pc[w] = "adjusted" => Agree(c, info[w].limits)
           /\ file[w] # "closed" => ~SaysRunning(c)
      [] op[w] = "start" ->
           SaysRunning(c) => pc[w] = "cgroup" /\ cfg[c].limits = info[w].limits
      [] OTHER ->
           /\ ~SaysRunning(c)
           /\ pc[w] \in {"veth", "send", "running"} => Agree(c, info[w].limits)

\* One worker at a time sets the limits; when none does they agree.
SettledAt(c) ==
    /\ \A v, w \in Workers : Setting(v, c) /\ Setting(w, c) => v = w
    /\ \A w \in Workers : Setting(w, c) => SettledBy(w, c)
    /\ (\A w \in Workers : ~Setting(w, c)) /\ SaysRunning(c) => Agree(c, cfg[c].limits)

SettledInv == \A c \in Containers \ (crashed \cup unsettled) : SettledAt(c)

\* An operation that has set the limits does not come back to it.
LEMMA AfterSetting ==
    ASSUME NEW o \in AllOps, NEW step \in StepsOf(o), step \notin SettingSteps
    PROVE  After(o, step) \notin SettingSteps
BY DEF After, StepsOf, Steps, SettingSteps, AllOps

\* The other steps leave the settling worker where it is, and take from the file and the
\* cgroup at most what they say.
LEMMA SettledKeeps ==
    ASSUME NEW c \in Containers, SettledAt(c),
           cfg'[c] = cfg[c] \/ ~SaysRunning(c)',
           cgroup'[c] = cgroup[c] \/ cgroup'[c] = NoCgroup,
           \A w \in Workers : Setting(w, c)' <=> Setting(w, c),
           \A w \in Workers : Setting(w, c) =>
               /\ pc'[w] = pc[w] /\ op'[w] = op[w] /\ info'[w].limits = info[w].limits
               /\ file'[w] # "closed" => file[w] # "closed"
    PROVE  SettledAt(c)'
<1>1. SaysRunning(c)' => SaysRunning(c) /\ cfg'[c] = cfg[c]
  BY DEF SaysRunning, Found
<1>2. \A l : Agree(c, l) => Agree(c, l)'
  BY DEF Agree
<1>3. ASSUME NEW w \in Workers, Setting(w, c) PROVE SettledBy(w, c)'
  <2>1. SettledBy(w, c)
    BY <1>3 DEF SettledAt
  <2> QED BY <1>1, <1>2, <1>3, <2>1 DEF SettledBy
<1>4. (\A w \in Workers : ~Setting(w, c)') /\ SaysRunning(c)' => Agree(c, cfg[c].limits)'
  BY <1>1, <1>2 DEF SettledAt
<1> QED BY <1>1, <1>3, <1>4 DEF SettledAt

\* A step of a worker is about its own container and leaves the other workers alone, but
\* that a removal unlinks the files they have open.
Local(w) ==
    /\ \A v \in Workers \ {w} :
         /\ pc'[v] = pc[v] /\ op'[v] = op[v] /\ cont'[v] = cont[v] /\ info'[v] = info[v]
         /\ file'[v] # "closed" => file[v] # "closed"
    /\ cont'[w] \in {cont[w], NoContainer}
    /\ \A c \in Containers \ {cont[w]} : cfg'[c] = cfg[c] /\ cgroup'[c] = cgroup[c]
    /\ born' = born /\ crashed' = crashed /\ unsettled \subseteq unsettled'

LEMMA StepLocal ==
    ASSUME TypeOK, WorkersOK, NEW w \in Workers, Step(w) \/ CopiersEnd(w)
    PROVE  Local(w)
<1> USE DEF TypeOK, disk, history, exceptions, Goto, Continue
<1>1. CASE Allocate(w) \/ Grant(w)
  BY <1>1 DEF Allocate, Grant, Local
<1>2. CASE OpenConfig(w)
  BY <1>2 DEF OpenConfig, Local
<1>3. CASE EncodeConfig(w)
  BY <1>3 DEF EncodeConfig, Local
<1>4. CASE WriteConfigFails(w)
  BY <1>4 DEF WriteConfigFails, Local
<1>5. CASE Spawn(w) \/ SetupVeth(w) \/ Send(w) \/ CallFails(w) \/ Wait(w) \/ CopiersEnd(w)
           \/ Release(w) \/ GiveBack(w) \/ ReleaseFails(w) \/ Kill(w)
  BY <1>5 DEF Spawn, SetupVeth, Send, CallFails, Wait, CopiersEnd, Release, GiveBack,
              ReleaseFails, Kill, Local
<1>6. CASE SetupCgroup(w) \/ ApplyLimits(w)
  BY <1>6 DEF SetupCgroup, ApplyLimits, Applied, Local
<1>7. CASE SetupCgroupFails(w)
  BY <1>7 DEF SetupCgroupFails, Applied, AfterRemoval, Local
<1>8. CASE CleanupCgroup(w) \/ RemoveCgroup(w)
  BY <1>8 DEF CleanupCgroup, RemoveCgroup, AfterRemoval, Local
<1>9. CASE RemoveDir(w)
  BY <1>9 DEF RemoveDir, Local
<1>10. CASE Return(w)
  BY <1>10 DEF Return, Forget, Local
<1> QED BY <1>1, <1>2, <1>3, <1>4, <1>5, <1>6, <1>7, <1>8, <1>9, <1>10 DEF Step

\* Operations are called on containers whose ID was used.
LEMMA BornStep ==
    ASSUME FamilyInv, BornInv, [Next]_vars
    PROVE  BornInv'
<1> USE LifecycleAssumption
<1>0. TypeOK /\ WorkersOK /\ \A w \in Workers : WorkerOK(w)
  BY DEF FamilyInv, IInv, WorkersOK
<1>1. ASSUME born \subseteq born',
             \A c \in Containers : cfg'[c] \in {cfg[c], NoFile} \/ c \in born',
             \A w \in Workers : cont'[w] \in {cont[w], NoContainer} \cup born'
      PROVE  BornInv'
  BY <1>1 DEF BornInv
<1>2. ASSUME NEW w \in Workers, Call(w) PROVE BornInv'
  <2>1. ASSUME NEW o, NEW d \in Containers, NEW i, NEW step, Begin(w, o, d, i, step),
               born \subseteq born', d \in born'
        PROVE  BornInv'
    BY <1>0, <1>1, <2>1 DEF Begin, TypeOK
  <2>2. \A d \in Containers : Found(d) => d \in born
    BY DEF BornInv, Found
  <2> QED BY <1>2, <2>1, <2>2
          DEF Call, Run, CreateAndRun, AdjustResourceLimits, Start, StopContainer, RemoveContainer
<1>3. ASSUME NEW w \in Workers, Step(w) \/ CopiersEnd(w) PROVE BornInv'
  <2>1. Local(w)
    BY <1>0, <1>3, StepLocal
  <2>2. cont[w] \in Containers => cont[w] \in born
    BY DEF BornInv
  <2>3. \A c \in Containers : cfg'[c] \in {cfg[c], NoFile} \/ c \in born
    BY <2>1, <2>2 DEF Local
  <2>4. \A v \in Workers : cont'[v] \in {cont[v], NoContainer}
    BY <2>1 DEF Local
  <2> QED BY <1>1, <2>1, <2>3, <2>4 DEF Local
<1>4. ASSUME UNCHANGED <<cfg, born>>, \A w \in Workers : cont'[w] \in {cont[w], NoContainer}
      PROVE  BornInv'
  BY <1>1, <1>4
<1>5. ASSUME NEW W, Crash(W) PROVE BornInv'
  BY <1>4, <1>5 DEF Crash, Forget, disk
<1>6. ASSUME NEW p \in Pids, Progress(p) \/ ProcessEnds(p) PROVE BornInv'
  BY <1>4, <1>6 DEF Progress, PipeClosed, SetupRootfs, Exec, ProcessEnds, disk
<1>7. CASE UNCHANGED vars
  BY <1>4, <1>7 DEF vars, disk
<1> QED BY <1>2, <1>3, <1>5, <1>6, <1>7 DEF Next

\* An operation begins: those that set limits are alone, or their container is unsettled.
LEMMA BeginSettles ==
    ASSUME FamilyInv, BornInv, SettledInv, NEW w \in Workers, Call(w)
    PROVE  SettledInv'
<1> USE LifecycleAssumption
<1>0. TypeOK /\ BornInv
  BY DEF FamilyInv, IInv
<1>1. ASSUME NEW o \in AllOps, NEW d \in Containers, NEW i, NEW step, Begin(w, o, d, i, step),
             step \in SettingSteps =>
                 \/ o = "adjust" /\ step = "limits"
                 \/ o = "start" /\ ~SaysRunning(d)
                 \/ o \in {"run", "createAndRun"} /\ step \in {"allocate", "create"}
                    /\ ~SaysRunning(d)
      PROVE  SettledInv'
  <2>1. /\ pc[w] = "idle" /\ UNCHANGED <<cfg, cgroup, file, crashed>>
        /\ pc'[w] = step /\ op'[w] = o /\ cont'[w] = d
        /\ \A v \in Workers \ {w} : /\ pc'[v] = pc[v] /\ op'[v] = op[v]
                                    /\ cont'[v] = cont[v] /\ info'[v] = info[v]
        /\ unsettled' = IF step \in SettingSteps /\ \E v \in Workers : Setting(v, d)
                        THEN unsettled \cup {d} ELSE unsettled
    BY <1>0, <1>1 DEF Begin, At, Goto, TypeOK
  <2>2. ASSUME NEW c \in Containers \ (crashed' \cup unsettled')
        PROVE  SettledAt(c)'
    <3>1. SettledAt(c)
      BY <2>1, <2>2 DEF SettledInv
    <3>2. CASE c # d \/ step \notin SettingSteps
      <4>1. ~Setting(w, c) /\ ~Setting(w, c)'
        BY <2>1, <3>2 DEF Setting, SettingSteps
      <4>2. \A v \in Workers : Setting(v, c)' <=> Setting(v, c)
        BY <2>1, <4>1 DEF Setting
      <4>3. \A v \in Workers : Setting(v, c) =>
                /\ pc'[v] = pc[v] /\ op'[v] = op[v] /\ info'[v].limits = info[v].limits
                /\ file'[v] # "closed" => file[v] # "closed"
        BY <2>1, <4>1
      <4> QED BY <2>1, <3>1, <4>2, <4>3, SettledKeeps
    <3>3. CASE c = d /\ step \in SettingSteps
      <4>1. \A v \in Workers : ~Setting(v, c)
        BY <2>1, <2>2, <3>3
      <4>2. \A v \in Workers : Setting(v, c)' <=> v = w
        BY <2>1, <3>3, <4>1 DEF Setting
      <4>3. SaysRunning(c) => Agree(c, cfg[c].limits)
        BY <3>1, <4>1 DEF SettledAt
      <4>4. file[w] = "closed"
        BY <2>1 DEF FamilyInv, IInv, WorkersOK, WorkerOK, WriteSteps, TypeOK
      <4>5. SettledBy(w, c)'
        BY <1>1, <2>1, <3>3, <4>3, <4>4 DEF SettledBy, SaysRunning, Found, Agree
      <4> QED BY <4>2, <4>5 DEF SettledAt
    <3> QED BY <3>2, <3>3
  <2> QED BY <2>2 DEF SettledInv
<1>2. ASSUME NEW c \in Containers, NEW l \in Limits, Run(w, c, l) PROVE SettledInv'
  <2>1. ~SaysRunning(c)
    BY <1>0, <1>2 DEF BornInv, Run, SaysRunning, Found
  <2> QED BY <1>1, <1>2, <2>1 DEF Run, AllOps
<1>3. ASSUME NEW c \in Containers, NEW l \in Limits, CreateAndRun(w, c, l) PROVE SettledInv'
  <2>1. ~SaysRunning(c)
    BY <1>0, <1>3 DEF BornInv, CreateAndRun, SaysRunning, Found
  <2> QED BY <1>1, <1>3, <2>1 DEF CreateAndRun, AllOps
<1>4. ASSUME NEW c \in Containers, Start(w, c) PROVE SettledInv'
  BY <1>1, <1>4 DEF Start, SaysRunning, AllOps
<1>5. ASSUME NEW c \in Containers, NEW l \in Limits, AdjustResourceLimits(w, c, l)
      PROVE  SettledInv'
  BY <1>1, <1>5 DEF AdjustResourceLimits, AllOps
<1>6. ASSUME NEW c \in Containers, StopContainer(w, c) PROVE SettledInv'
  BY <1>1, <1>6 DEF StopContainer, AllOps, SettingSteps
<1>7. ASSUME NEW c \in Containers, RemoveContainer(w, c) PROVE SettledInv'
  BY <1>1, <1>7 DEF RemoveContainer, AllOps, SettingSteps
<1> QED BY <1>2, <1>3, <1>4, <1>5, <1>6, <1>7 DEF Call

\* A step of a worker that is not setting the limits of its container: it may write
\* "stopped", remove the file or the cgroup.
LEMMA IdleSettles ==
    ASSUME FamilyInv, NEW w \in Workers, Step(w) \/ CopiersEnd(w), pc[w] \notin SettingSteps,
           NEW c \in Containers, cont[w] = c
    PROVE  /\ cfg'[c] = cfg[c] \/ ~SaysRunning(c)'
           /\ cgroup'[c] = cgroup[c] \/ cgroup'[c] = NoCgroup
           /\ ~Setting(w, c)'
<1> USE LifecycleAssumption
<1>0. /\ TypeOK /\ WorkerOK(w) /\ \A v \in Workers : WorkerOK(v)
      /\ pc[w] \in StepsOf(op[w]) /\ op[w] \in AllOps
  BY DEF FamilyInv, IInv, WorkersOK, WorkerOK, TypeOK
<1>1. After(op[w], pc[w]) \notin SettingSteps /\ Bailout(w) \notin SettingSteps
  BY <1>0, AfterSetting DEF Bailout, SettingSteps
<1>2. ASSUME Goto(w, After(op[w], pc[w])) \/ Goto(w, Bailout(w)) \/ Goto(w, "exit")
             \/ Goto(w, "copiers") \/ Goto(w, "giveback") \/ Goto(w, "rmdir") \/ UNCHANGED pc
      PROVE  ~Setting(w, c)'
  BY <1>0, <1>1, <1>2 DEF Goto, Setting, TypeOK, SettingSteps
<1>3. CASE OpenConfig(w)
  <2>1. cfg'[c] = Empty /\ UNCHANGED <<cgroup, pc>>
    BY <1>0, <1>3 DEF OpenConfig, TypeOK
  <2> QED BY <1>2, <2>1 DEF SaysRunning, Found
<1>4. CASE EncodeConfig(w)
  <2>1. pc[w] = "stopped" /\ cgroup' = cgroup /\ Goto(w, After(op[w], pc[w]))
    BY <1>4 DEF EncodeConfig, WriteSteps, SettingSteps, Continue
  <2>2. CASE UNCHANGED cfg
    BY <1>2, <2>1, <2>2
  <2>3. CASE ~UNCHANGED cfg
    <3>1. PICK f \in Overwrite(cfg[c], info[w]) : cfg' = [cfg EXCEPT ![c] = f]
      BY <1>4, <2>3 DEF EncodeConfig
    <3>2. cfg'[c] = f /\ f \in {info[w], Torn}
      BY <1>0, <3>1, OverwriteResult DEF TypeOK
    <3>3. info[w].status = "stopped"
      BY <1>0, <1>4, <2>1 DEF EncodeConfig, WorkerOK, StatusAt
    <3>4. ~SaysRunning(c)'
      BY <3>2, <3>3 DEF SaysRunning, Found
    <3> QED BY <1>2, <2>1, <3>4
  <2> QED BY <2>2, <2>3
<1>5. CASE WriteConfigFails(w)
  <2>1. pc[w] = "stopped" /\ cgroup' = cgroup /\ Goto(w, AfterFailedWrite(w))
    BY <1>5 DEF WriteConfigFails, WriteSteps, SettingSteps
  <2>2. cfg'[c] = cfg[c] \/ cfg'[c] = Torn
    BY <1>0, <1>5 DEF WriteConfigFails, TypeOK
  <2>3. AfterFailedWrite(w) \in {"exit", After(op[w], pc[w])}
    BY <2>1 DEF AfterFailedWrite, At
  <2> QED BY <1>2, <2>1, <2>2, <2>3 DEF SaysRunning, Found
<1>6. CASE Wait(w) \/ CopiersEnd(w) \/ Release(w) \/ GiveBack(w) \/ ReleaseFails(w) \/ Kill(w)
  BY <1>2, <1>6 DEF Wait, CopiersEnd, Release, GiveBack, ReleaseFails, Kill, Continue, disk
<1>7. CASE CleanupCgroup(w) \/ RemoveCgroup(w)
  <2>1. UNCHANGED cfg /\ cgroup' = AfterRemoval(c)
    BY <1>7 DEF CleanupCgroup, RemoveCgroup, disk
  <2>2. cgroup'[c] = cgroup[c] \/ cgroup'[c] = NoCgroup
    BY <1>0, <2>1 DEF AfterRemoval, TypeOK
  <2> QED BY <1>2, <1>7, <2>1, <2>2 DEF CleanupCgroup, RemoveCgroup, Continue
<1>8. CASE RemoveDir(w)
  <2>1. cgroup' = cgroup /\ (UNCHANGED cfg \/ cfg'[c] = NoFile)
    BY <1>0, <1>8 DEF RemoveDir, TypeOK
  <2> QED BY <1>2, <1>8, <2>1 DEF RemoveDir, Continue, SaysRunning, Found
<1>9. CASE Return(w)
  <2>1. UNCHANGED <<cfg, cgroup>> /\ cont'[w] = NoContainer
    BY <1>0, <1>9 DEF Return, Forget, disk, TypeOK
  <2> QED BY <2>1 DEF Setting
<1>10. CASE Allocate(w) \/ Grant(w) \/ Spawn(w) \/ SetupCgroup(w) \/ SetupCgroupFails(w)
            \/ SetupVeth(w) \/ Send(w) \/ CallFails(w) \/ ApplyLimits(w)
  BY <1>10 DEF Allocate, Grant, Spawn, SetupCgroup, SetupCgroupFails, SetupVeth, Send,
               CallFails, ApplyLimits, At, SettingSteps
<1> QED BY <1>3, <1>4, <1>5, <1>6, <1>7, <1>8, <1>9, <1>10 DEF Step

\* A step of the worker that sets the limits: either it goes on with what SettledBy says,
\* or it leaves them agreeing.
LEMMA SettingSettles ==
    ASSUME FamilyInv, SettledInv, NEW w \in Workers, Step(w) \/ CopiersEnd(w),
           pc[w] \in SettingSteps,
           NEW c \in Containers, cont[w] = c, c \notin crashed' \cup unsettled'
    PROVE  SettledAt(c)'
<1> USE LifecycleAssumption
<1>0. /\ TypeOK /\ WorkersOK /\ WorkerOK(w) /\ Local(w)
      /\ pc[w] \in StepsOf(op[w]) /\ op[w] \in AllOps
  BY StepLocal DEF FamilyInv, IInv, WorkersOK, WorkerOK, TypeOK
<1>1. SettledBy(w, c) /\ \A v \in Workers \ {w} : ~Setting(v, c)
  BY <1>0 DEF SettledInv, SettledAt, Setting, Local
<1>2. \A v \in Workers \ {w} : ~Setting(v, c)'
  BY <1>0, <1>1 DEF Setting, Local
<1>3. ASSUME Setting(w, c)' => SettledBy(w, c)',
             ~Setting(w, c)' => (SaysRunning(c)' => Agree(c, cfg[c].limits)')
      PROVE  SettledAt(c)'
  BY <1>2, <1>3 DEF SettledAt
<1>4. op[w] # "adjust" => pc[w] \notin {"limits", "adjusted"}
  BY <1>0 DEF StepsOf, AllOps
<1>5. op[w] = "adjust" => pc[w] \in {"limits", "adjusted"}
  BY <1>0 DEF StepsOf, SettingSteps
<1>6. CASE Allocate(w) \/ Grant(w) \/ Spawn(w) \/ SetupVeth(w) \/ Send(w)
  <2>1. /\ UNCHANGED <<cfg, cgroup, op, file>> /\ info'[w].limits = info[w].limits
        /\ pc'[w] \in {After(op[w], pc[w]), "grant"}
        /\ pc[w] \in {"allocate", "grant", "spawn", "veth", "send"}
    BY <1>0, <1>6 DEF Allocate, Grant, Spawn, SetupVeth, Send, Continue, Goto, At, TypeOK, disk
  <2>2. ~SaysRunning(c)
    BY <1>1, <1>5, <2>1 DEF SettledBy
  <2>3. op[w] # "start" /\ pc[w] \in {"veth", "send"} => Agree(c, info[w].limits)
    BY <1>1, <1>5, <2>1 DEF SettledBy
  <2>4. pc[w] \in {"allocate", "grant"} => op[w] \in {"run", "start"}
    BY <1>0 DEF StepsOf, AllOps
  <2>5. op[w] # "start" /\ pc'[w] \in {"veth", "send", "running"} => pc[w] \in {"veth", "send"}
    BY <2>1, <2>4 DEF After
  <2>6. op[w] # "adjust" /\ ~SaysRunning(c)'
    BY <1>5, <2>1, <2>2 DEF SaysRunning, Found
  <2>7. SettledBy(w, c)'
    BY <2>1, <2>3, <2>5, <2>6 DEF SettledBy, Agree
  <2> QED BY <1>3, <2>6, <2>7
<1>7. CASE OpenConfig(w)
  <2>1. /\ UNCHANGED <<pc, op, cgroup>> /\ cfg'[c] = Empty
        /\ info'[w].limits = info[w].limits
    BY <1>0, <1>7 DEF OpenConfig, TypeOK
  <2>2. ~SaysRunning(c)'
    BY <2>1 DEF SaysRunning, Found
  <2>3. SettledBy(w, c)'
    BY <1>1, <2>1, <2>2 DEF SettledBy, Agree
  <2> QED BY <1>3, <2>2, <2>3
<1>8. CASE EncodeConfig(w)
  <2>1. /\ UNCHANGED <<op, cgroup, info>> /\ pc'[w] = After(op[w], pc[w])
        /\ file'[w] = "closed" /\ pc[w] \in {"create", "running", "adjusted"}
        /\ info[w].status = StatusAt(pc[w], info[w].status)
    BY <1>0, <1>8 DEF EncodeConfig, Continue, Goto, WorkerOK, WriteSteps, SettingSteps, TypeOK
  <2>2. ~SaysRunning(c)
    BY <1>1, <1>8, <2>1 DEF EncodeConfig, SettledBy
  <2>3. cfg'[c] = cfg[c] \/ cfg'[c] \in {info[w], Torn}
    BY <1>0, <1>8, OverwriteResult DEF EncodeConfig, TypeOK
  <2>4. SaysRunning(c)' => cfg'[c] = info[w]
    BY <2>2, <2>3 DEF SaysRunning, Found
  <2>5. CASE pc[w] = "create"
    <3>1. ~SaysRunning(c)'
      BY <2>1, <2>4, <2>5 DEF SaysRunning, StatusAt
    <3>2. op[w] \notin {"start", "adjust"} /\ pc'[w] = "spawn"
      BY <1>0, <2>1, <2>5 DEF StepsOf, After
    <3>3. SettledBy(w, c)'
      BY <2>1, <3>1, <3>2 DEF SettledBy
    <3> QED BY <1>3, <3>1, <3>3
  <2>6. CASE pc[w] = "running" /\ op[w] = "start"
    <3>1. pc'[w] = "cgroup"
      BY <2>1, <2>6 DEF After
    <3>2. SettledBy(w, c)' /\ Setting(w, c)'
      BY <1>0, <1>8, <2>1, <2>4, <2>6, <3>1 DEF SettledBy, Setting, SettingSteps, EncodeConfig
    <3> QED BY <1>3, <3>2
  <2>7. CASE pc[w] = "adjusted" \/ (pc[w] = "running" /\ op[w] # "start")
    <3>1. ~Setting(w, c)'
      BY <2>1, <2>7 DEF After, Setting, SettingSteps
    <3>2. Agree(c, info[w].limits)
      BY <1>1, <1>4, <1>5, <2>1, <2>7 DEF SettledBy
    <3>3. SaysRunning(c)' => Agree(c, cfg[c].limits)'
      BY <2>1, <2>4, <3>2 DEF Agree
    <3> QED BY <1>3, <3>1, <3>3
  <2> QED BY <2>1, <2>5, <2>6, <2>7
<1>9. CASE WriteConfigFails(w)
  <2>1. /\ UNCHANGED <<op, cgroup, info>> /\ pc'[w] = AfterFailedWrite(w)
        /\ file'[w] = "closed" /\ pc[w] \in {"create", "running", "adjusted"}
        /\ cfg'[c] = cfg[c] \/ cfg'[c] = Torn
        /\ file[w] = "closed" => pc[w] # "adjusted"
    BY <1>0, <1>9 DEF WriteConfigFails, Goto, At, WriteSteps, SettingSteps, TypeOK
  <2>2. ~SaysRunning(c)'
    <3>1. ~SaysRunning(c)
      BY <1>1, <1>5, <2>1 DEF SettledBy
    <3> QED BY <2>1, <3>1 DEF SaysRunning, Found
  <2>3. CASE pc[w] = "running"
    <3>1. pc'[w] = After(op[w], "running") /\ op[w] \notin {"stop", "adjust"}
      BY <1>0, <2>1, <2>3 DEF AfterFailedWrite, At, StepsOf
    <3>2. pc'[w] \notin {"veth", "send", "running"}
      BY <3>1 DEF After
    <3>3. SettledBy(w, c)'
      BY <2>1, <2>2, <3>1, <3>2 DEF SettledBy
    <3> QED BY <1>3, <2>2, <3>3
  <2>4. CASE pc[w] \in {"create", "adjusted"}
    <3>1. pc'[w] \in {"release", "exit"}
      BY <1>0, <1>4, <2>1, <2>4 DEF AfterFailedWrite, At, Bailout
    <3>2. ~Setting(w, c)'
      BY <3>1 DEF Setting, SettingSteps
    <3> QED BY <1>3, <2>2, <3>2
  <2> QED BY <2>1, <2>3, <2>4
<1>10. CASE SetupCgroup(w)
  <2>1. /\ UNCHANGED <<op, cfg, info, file>> /\ pc'[w] = After(op[w], "cgroup")
        /\ pc[w] = "cgroup" /\ Agree(c, info[w].limits)'
    BY <1>0, <1>10 DEF SetupCgroup, Continue, Goto, At, TypeOK, disk, Applied, Agree
  <2>2. CASE op[w] = "start"
    <3>1. ~Setting(w, c)'
      BY <2>1, <2>2 DEF After, Setting, SettingSteps
    <3>2. SaysRunning(c) => cfg[c].limits = info[w].limits
      BY <1>1, <2>2 DEF SettledBy
    <3>3. SaysRunning(c)' => Agree(c, cfg[c].limits)'
      BY <2>1, <3>2 DEF SaysRunning, Found
    <3> QED BY <1>3, <3>1, <3>3
  <2>3. CASE op[w] # "start"
    <3>1. ~SaysRunning(c) /\ op[w] # "adjust"
      BY <1>1, <1>5, <2>1, <2>3 DEF SettledBy
    <3>2. ~SaysRunning(c)'
      BY <2>1, <3>1 DEF SaysRunning, Found
    <3>3. SettledBy(w, c)'
      BY <2>1, <2>3, <3>1, <3>2 DEF SettledBy
    <3> QED BY <1>3, <3>2, <3>3
  <2> QED BY <2>2, <2>3
<1>11. CASE SetupCgroupFails(w) \/ CallFails(w)
  <2>1. /\ UNCHANGED cfg /\ pc'[w] \in {"release", "exit"}
        /\ pc[w] \in {"cgroup", "allocate", "grant", "spawn", "veth", "send"}
        /\ op[w] # "start" \/ pc[w] # "cgroup"
    BY <1>0, <1>11 DEF SetupCgroupFails, CallFails, Goto, At, Bailout, TypeOK, disk
  <2>2. ~SaysRunning(c)
    BY <1>1, <1>5, <2>1 DEF SettledBy
  <2>3. ~SaysRunning(c)' /\ ~Setting(w, c)'
    BY <2>1, <2>2 DEF SaysRunning, Found, Setting, SettingSteps
  <2> QED BY <1>3, <2>3
<1>12. CASE ApplyLimits(w)
  <2>1. /\ UNCHANGED <<op, cfg, info, file>> /\ pc[w] = "limits" /\ op[w] = "adjust"
        /\ \/ pc'[w] = "adjusted" /\ Agree(c, info[w].limits)'
           \/ pc'[w] = "exit" /\ UNCHANGED cgroup
    BY <1>0, <1>4, <1>12 DEF ApplyLimits, Continue, After, Goto, At, TypeOK, disk, Applied, Agree
  <2>2. SaysRunning(c) => Agree(c, cfg[c].limits)
    BY <1>1, <2>1 DEF SettledBy
  <2>3. CASE pc'[w] = "exit" /\ UNCHANGED cgroup
    <3>1. SaysRunning(c)' => Agree(c, cfg[c].limits)'
      BY <2>1, <2>2, <2>3 DEF SaysRunning, Found, Agree
    <3> QED BY <1>3, <2>3, <3>1 DEF Setting, SettingSteps
  <2>4. CASE pc'[w] = "adjusted" /\ Agree(c, info[w].limits)'
    <3>1. file[w] = "closed"
      BY <1>0, <2>1 DEF WorkerOK, WriteSteps
    <3>2. SettledBy(w, c)' /\ Setting(w, c)'
      BY <1>0, <1>12, <2>1, <2>4, <3>1
         DEF SettledBy, Setting, SettingSteps, ApplyLimits
    <3> QED BY <1>3, <3>2
  <2> QED BY <2>1, <2>3, <2>4
<1>13. CASE Wait(w) \/ CopiersEnd(w) \/ CleanupCgroup(w) \/ Release(w) \/ GiveBack(w)
            \/ ReleaseFails(w) \/ Kill(w) \/ RemoveCgroup(w) \/ RemoveDir(w) \/ Return(w)
  BY <1>13 DEF Wait, CopiersEnd, CleanupCgroup, Release, GiveBack, ReleaseFails, Kill,
               RemoveCgroup, RemoveDir, Return, At, SettingSteps
<1> QED BY <1>6, <1>7, <1>8, <1>9, <1>10, <1>11, <1>12, <1>13 DEF Step

\* Every step keeps what the settling workers have settled.
LEMMA SettledStep ==
    ASSUME FamilyInv, BornInv, SettledInv, [Next]_vars
    PROVE  SettledInv'
<1>0. TypeOK /\ WorkersOK
  BY DEF FamilyInv, IInv
<1>1. ASSUME NEW w \in Workers, Call(w) PROVE SettledInv'
  BY <1>1, BeginSettles
<1>2. ASSUME NEW w \in Workers, Step(w) \/ CopiersEnd(w) PROVE SettledInv'
  <2>1. Local(w)
    BY <1>0, <1>2, StepLocal
  <2>2. ASSUME NEW c \in Containers \ (crashed' \cup unsettled') PROVE SettledAt(c)'
    <3>1. SettledAt(c)
      BY <2>1, <2>2 DEF SettledInv, Local
    <3>2. CASE cont[w] = c /\ pc[w] \in SettingSteps
      BY <1>2, <2>2, <3>2, SettingSettles
    <3>3. CASE ~(cont[w] = c /\ pc[w] \in SettingSteps)
      <4>1. /\ cfg'[c] = cfg[c] \/ ~SaysRunning(c)'
            /\ cgroup'[c] = cgroup[c] \/ cgroup'[c] = NoCgroup
            /\ ~Setting(w, c)'
        <5>1. CASE cont[w] = c
          BY <1>2, <3>3, <5>1, IdleSettles
        <5>2. CASE cont[w] # c
          BY <2>1, <5>2, LifecycleAssumption DEF Local, Setting
        <5> QED BY <5>1, <5>2
      <4>2. ~Setting(w, c)
        BY <3>3 DEF Setting
      <4>3. \A v \in Workers : Setting(v, c)' <=> Setting(v, c)
        BY <2>1, <4>1, <4>2 DEF Setting, Local
      <4>4. \A v \in Workers : Setting(v, c) =>
                /\ pc'[v] = pc[v] /\ op'[v] = op[v] /\ info'[v].limits = info[v].limits
                /\ file'[v] # "closed" => file[v] # "closed"
        BY <2>1, <4>2 DEF Local
      <4> QED BY <3>1, <4>1, <4>3, <4>4, SettledKeeps
    <3> QED BY <3>2, <3>3
  <2> QED BY <2>2 DEF SettledInv
<1>4. ASSUME NEW W \in SUBSET Workers, Crash(W) PROVE SettledInv'
  <2> USE DEF exceptions
  <2>1. \A v \in Workers : cont'[v] \in {cont[v], NoContainer}
    BY <1>4 DEF Crash, Forget
  <2>2. /\ UNCHANGED <<cfg, cgroup, unsettled>>
        /\ crashed' = crashed \cup ({cont[v] : v \in W} \ {NoContainer})
    BY <1>4 DEF Crash, disk
  <2>3. ASSUME NEW c \in Containers \ (crashed' \cup unsettled') PROVE SettledAt(c)'
    <3>1. SettledAt(c)
      BY <2>2, <2>3 DEF SettledInv
    <3>2. \A v \in Workers : cont[v] = c =>
              /\ v \notin W
              /\ pc'[v] = pc[v] /\ op'[v] = op[v] /\ cont'[v] = cont[v]
              /\ info'[v] = info[v] /\ file'[v] = file[v]
      BY <1>4, <2>2, <2>3, LifecycleAssumption DEF Crash, Forget
    <3>3. \A v \in Workers : Setting(v, c)' <=> Setting(v, c)
      BY <2>1, <3>2, LifecycleAssumption DEF Setting
    <3> QED BY <2>2, <3>1, <3>2, <3>3, SettledKeeps DEF Setting
  <2> QED BY <2>3 DEF SettledInv
<1>5. ASSUME UNCHANGED <<cfg, cgroup, unsettled, crashed, pc, op, cont, info, file>>
      PROVE  SettledInv'
  BY <1>5 DEF SettledInv, SettledAt, SettledBy, SaysRunning, Found, Agree, Setting
<1>6. ASSUME NEW p \in Pids, Progress(p) \/ ProcessEnds(p) PROVE SettledInv'
  BY <1>5, <1>6 DEF Progress, PipeClosed, SetupRootfs, Exec, ProcessEnds, disk, history, exceptions
<1>7. CASE UNCHANGED vars
  BY <1>5, <1>7 DEF vars, disk, history, exceptions
<1>8. Daemon \in SUBSET Workers /\ \A w \in CLI : {w} \in SUBSET Workers
  BY DEF Workers
<1> QED BY <1>1, <1>2, <1>4, <1>6, <1>7, <1>8 DEF Next

\* The limits recorded for a running container are those in force in its cgroup, for any
\* number of operations and failures: an operation records them after it has set them (or,
\* start, sets what it recorded), and a container on which two do so at one time, or one
\* fails to, is unsettled.
THEOREM LimitsStayInForce == Spec => []LimitsInForce
<1>1. Init => BornInv /\ SettledInv
  BY LifecycleAssumption DEF Init, BornInv, SettledInv, SettledAt, Setting, SettingSteps,
                             SaysRunning, Found
<1>2. FamilyInv /\ BornInv /\ SettledInv /\ [Next]_vars
          => FamilyInv' /\ BornInv' /\ SettledInv'
  BY FamilyStep, BornStep, SettledStep
<1>3. SettledInv => LimitsInForce
  BY DEF SettledInv, SettledAt, LimitsInForce, SaysRunning, Agree
<1> QED BY <1>1, <1>2, <1>3, FamilyInit, PTL DEF Spec
=============================================================================
