------------------------------ MODULE Lifecycle ------------------------------
(***************************************************************************)
(* The life of containers: `gocker run` (internal/runtime.go, one CLI      *)
(* process per container), `start` and `run` inside the daemon             *)
(* (internal/container/manager.go), `stop`, `adjust` and `rm` in CLI       *)
(* processes of their own, and the container processes themselves          *)
(* (internal/container/init.go).  They share config.json, the cgroup and   *)
(* the address of a container and the kernel's PIDs, with no lock between  *)
(* them.                                                                   *)
(*                                                                         *)
(* A worker is whoever executes one of these operations: a CLI process or  *)
(* a goroutine of the daemon.  Its steps are the calls that touch shared   *)
(* state; an operation that is refused by its first check (not found,      *)
(* wrong status) changes nothing and is no step.  The address book is read *)
(* and written back in two steps, as processes do that share no lock; how  *)
(* its file is written, and which free address is picked, is IPAM.         *)
(***************************************************************************)
EXTENDS Naturals, FiniteSets

CONSTANTS
    CLI,          \* workers that are CLI processes
    Daemon,       \* workers that are goroutines of gocker-daemon
    Containers,   \* container IDs
    Pids,         \* PIDs the kernel hands out
    IPs,          \* usable addresses
    Limits,       \* resource limits
    NoLimits,     \* the zero types.ContainerLimits
    Ops,          \* the operations that are called
    MaxCalls,     \* bound: operations called in one behaviour
    MaxCrashes,   \* bound: crashes in one behaviour
    NoWorker, NoContainer, NoPid, NoIP, NoCgroup, NoBook,
    NoFile, Empty, Torn   \* config.json: absent, truncated, not JSON

Workers == CLI \cup Daemon
AllOps == {"run", "createAndRun", "start", "stop", "adjust", "rm"}
ChildStates == {"free", "init", "setup", "rootfs", "command", "zombie"}
Infos == [status: {"created", "running", "stopped"}, pid: Pids \cup {NoPid},
          limits: Limits]
ConfigFiles == Infos \cup {NoFile, Empty, Torn}
Books == [Containers -> IPs \cup {NoIP}]

ASSUME LifecycleAssumption ==
    /\ CLI \cap Daemon = {} /\ NoWorker \notin Workers
    /\ NoContainer \notin Containers
    /\ NoPid \notin Pids /\ NoIP \notin IPs /\ NoCgroup \notin Limits
    /\ NoBook \notin Books /\ NoLimits \in Limits
    /\ Ops \subseteq AllOps
    /\ MaxCalls \in Nat /\ MaxCrashes \in Nat
    /\ {NoFile, Empty, Torn} \cap Infos = {}
    /\ NoFile # Empty /\ NoFile # Torn /\ Empty # Torn

VARIABLES
    dir,        \* the containers whose directory exists
    born,       \* the container IDs that were ever used
    cfg,        \* config.json of each container
    cgroup,     \* the limits in force in each container's cgroup
    book,       \* the address book: the address of each container
    loaded,     \* the book as a worker read it, until it writes it back
    child,      \* the state of each PID: "free", or a container process
    runs,       \* the container a process belongs to
    parent,     \* the worker that spawned it, if that is still there
    member,     \* the PIDs inside their container's cgroup
    addr,       \* the address a process was sent through the pipe
    op, cont,   \* the operation of each worker, and its container
    pc,         \* the next step of each worker
    info,       \* its in-memory types.ContainerInfo
    pid,        \* its child, until it has waited for it
    ip,         \* allocatedIP: the address it will release when it returns
    file,       \* its descriptor of config.json
    calls, crashes,
    crashed,    \* history: containers an operation on which died half-way
    stale,      \* history: containers whose status a failed start, a failed
                \* last write or an adjust may have left behind
    early,      \* history: containers whose address was given back while
                \* another worker held it
    unsettled,  \* history: containers whose limits two workers set at one
                \* time, or one failed to set or to record in full
    kept,       \* history: containers whose address a release failed to
                \* take off the book
    raced       \* history: containers in the book, or on their way there,
                \* while two processes were rewriting it

disk == <<dir, born, cfg>>
processes == <<child, runs, parent, member, addr>>
addresses == <<book, loaded>>
exceptions == <<stale, early, unsettled, kept, raced>>
history == <<calls, crashes, crashed, exceptions>>
vars == <<disk, cgroup, addresses, processes, op, cont, pc, info, pid, ip, file, history>>

Steps == {"idle", "allocate", "grant", "create", "spawn", "cgroup", "veth", "send",
          "running", "wait", "copiers", "stopped", "cleanup", "release", "giveback",
          "kill", "limits", "adjusted", "rmcgroup", "rmdir", "exit"}
WriteSteps == {"create", "running", "stopped", "adjusted"}

\* The steps up to the last that sets or records the limits of a container.
SettingSteps == {"allocate", "grant", "create", "spawn", "cgroup", "veth", "send",
                 "running", "limits", "adjusted"}
NoInfo(l) == [status |-> "created", pid |-> NoPid, limits |-> l]

TypeOK ==
    /\ dir \subseteq Containers /\ born \subseteq Containers
    /\ cfg \in [Containers -> ConfigFiles]
    /\ cgroup \in [Containers -> Limits \cup {NoCgroup}]
    /\ book \in Books /\ loaded \in [Workers -> Books \cup {NoBook}]
    /\ child \in [Pids -> ChildStates]
    /\ runs \in [Pids -> Containers \cup {NoContainer}]
    /\ parent \in [Pids -> Workers \cup {NoWorker}]
    /\ member \subseteq Pids
    /\ addr \in [Pids -> IPs \cup {NoIP}]
    /\ op \in [Workers -> AllOps]
    /\ cont \in [Workers -> Containers \cup {NoContainer}]
    /\ pc \in [Workers -> Steps]
    /\ info \in [Workers -> Infos]
    /\ pid \in [Workers -> Pids \cup {NoPid}]
    /\ ip \in [Workers -> IPs \cup {NoIP}]
    /\ file \in [Workers -> {"closed", "open", "unlinked"}]
    /\ calls \in 0 .. MaxCalls /\ crashes \in 0 .. MaxCrashes
    /\ crashed \subseteq Containers /\ stale \subseteq Containers
    /\ early \subseteq Containers /\ unsettled \subseteq Containers
    /\ kept \subseteq Containers /\ raced \subseteq Containers

-----------------------------------------------------------------------------
Alive(p) == child[p] \in {"init", "setup", "rootfs", "command"}

\* The order of the calls in RunContainer, CreateAndRun, Start, StopContainer,
\* AdjustResourceLimits and removeContainer.
After(o, step) ==
    CASE step \in {"allocate", "grant"} -> (IF o = "run" THEN "create" ELSE "send")
      [] step = "create"   -> "spawn"
      [] step = "spawn"    -> (IF o = "start" THEN "veth" ELSE "cgroup")
      [] step = "cgroup"   -> (IF o = "start" THEN "wait" ELSE "veth")
      [] step = "veth"     -> (IF o = "start" THEN "allocate" ELSE "send")
      [] step = "send"     -> "running"
      [] step = "running"  -> (IF o = "start" THEN "cgroup" ELSE "wait")
      [] step \in {"wait", "copiers"} -> "stopped"
      [] step = "stopped"  -> (IF o = "stop" THEN "release" ELSE "cleanup")
      [] step = "cleanup"  -> (IF o = "createAndRun" THEN "exit" ELSE "release")
      [] step = "kill"     -> "stopped"
      [] step = "limits"   -> "adjusted"
      [] step = "rmcgroup" -> "rmdir"
      [] OTHER             -> "exit"

At(w, step) == pc[w] = step
Setting(w, c) == cont[w] = c /\ pc[w] \in SettingSteps
Goto(w, step) == pc' = [pc EXCEPT ![w] = step]
Continue(w) == Goto(w, After(op[w], pc[w]))

\* Wrong variant: an error return without the deferred release.
BailoutKeepsAddress(w) == "exit"

\* A return runs the deferred release of an address the worker allocated.
Bailout(w) == IF ip[w] # NoIP THEN "release" ELSE "exit"

\* A process that ends stays a zombie until its parent waits for it; init
\* reaps at once what has no parent left.
Ended(p) == IF parent[p] = NoWorker THEN "free" ELSE "zombie"
Dies(p) == child' = [child EXCEPT ![p] = Ended(p)]

\* cmd.Process.Kill: the worker's own child, which is not waited for.
KillChild(w) ==
    child' = IF pid[w] # NoPid THEN [child EXCEPT ![pid[w]] = "zombie"] ELSE child

\* os.RemoveAll of a cgroup: rmdir fails as long as it has a live member.
Removable(c) == \A p \in member : ~(runs[p] = c /\ Alive(p))
AfterRemoval(c) == IF Removable(c) THEN [cgroup EXCEPT ![c] = NoCgroup] ELSE cgroup

\* setResourceLimits writes no limit that is zero: what was in force stays.
Applied(c, l) ==
    [cgroup EXCEPT ![c] = IF l = NoLimits /\ cgroup[c] # NoCgroup THEN cgroup[c] ELSE l]

-----------------------------------------------------------------------------
Init ==
    /\ dir = {} /\ born = {}
    /\ cfg = [c \in Containers |-> NoFile]
    /\ cgroup = [c \in Containers |-> NoCgroup]
    /\ book = [c \in Containers |-> NoIP] /\ loaded = [w \in Workers |-> NoBook]
    /\ child = [p \in Pids |-> "free"]
    /\ runs = [p \in Pids |-> NoContainer]
    /\ parent = [p \in Pids |-> NoWorker]
    /\ member = {}
    /\ addr = [p \in Pids |-> NoIP]
    /\ op = [w \in Workers |-> "run"]
    /\ cont = [w \in Workers |-> NoContainer]
    /\ pc = [w \in Workers |-> "idle"]
    /\ info = [w \in Workers |-> NoInfo(NoLimits)]
    /\ pid = [w \in Workers |-> NoPid]
    /\ ip = [w \in Workers |-> NoIP]
    /\ file = [w \in Workers |-> "closed"]
    /\ calls = 0 /\ crashes = 0
    /\ crashed = {} /\ stale = {} /\ early = {} /\ unsettled = {}
    /\ kept = {} /\ raced = {}

\* A worker begins operation o on container c with ContainerInfo i.
Begin(w, o, c, i, step) ==
    /\ At(w, "idle") /\ Goto(w, step)
    /\ o \in Ops /\ calls < MaxCalls
    /\ op' = [op EXCEPT ![w] = o]
    /\ cont' = [cont EXCEPT ![w] = c]
    /\ info' = [info EXCEPT ![w] = i]
    /\ calls' = calls + 1
    /\ unsettled' = IF step \in SettingSteps /\ \E v \in Workers : Setting(v, c)
                    THEN unsettled \cup {c} ELSE unsettled
    /\ UNCHANGED <<cfg, cgroup, addresses, processes, pid, ip, file, crashes, crashed,
                   stale, early, kept, raced>>

\* RunContainer up to os.MkdirAll(containerDir); the random ID is fresh.
Run(w, c, l) ==
    /\ w \in CLI /\ c \notin born
    /\ Begin(w, "run", c, NoInfo(l), "allocate")
    /\ dir' = dir \cup {c} /\ born' = born \cup {c}

\* CreateAndRun up to os.MkdirAll(containerDir): it never allocates an address.
CreateAndRun(w, c, l) ==
    /\ w \in Daemon /\ c \notin born
    /\ Begin(w, "createAndRun", c, NoInfo(l), "create")
    /\ dir' = dir \cup {c} /\ born' = born \cup {c}

\* findContainerInfo skips configs it cannot parse.
Found(c) == cfg[c] \in Infos

Start(w, c) ==
    /\ w \in Daemon /\ Found(c)
    /\ cfg[c].status # "running"
    /\ Begin(w, "start", c, cfg[c], "spawn")
    /\ UNCHANGED <<dir, born>>

StopContainer(w, c) ==
    /\ w \in CLI /\ Found(c)
    /\ cfg[c].status = "running"
    /\ Begin(w, "stop", c, cfg[c], "kill")
    /\ UNCHANGED <<dir, born>>

\* The new limits, with the original ones where none are given.
AdjustResourceLimits(w, c, l) ==
    /\ w \in CLI /\ Found(c)
    /\ cfg[c].status = "running"
    /\ Begin(w, "adjust", c,
             [status |-> cfg[c].status, pid |-> cfg[c].pid, limits |-> l],
             "limits")
    /\ UNCHANGED <<dir, born>>

RemoveContainer(w, c) ==
    /\ w \in CLI /\ Found(c)
    /\ cfg[c].status # "running"
    /\ Begin(w, "rm", c, cfg[c], "rmcgroup")
    /\ UNCHANGED <<dir, born>>

-----------------------------------------------------------------------------
\* ipamMu holds off the goroutines of one process only.
Rewriting == {v \in Workers : loaded[v] # NoBook}
Admitted(w) == w \in Daemon => Rewriting \cap Daemon = {}

\* loadIPAllocationState, by a worker that is going to write the book back.
Load(w) ==
    /\ Admitted(w)
    /\ loaded' = [loaded EXCEPT ![w] = book]
    /\ raced' = IF Rewriting = {} THEN raced
                ELSE raced \cup {cont[v] : v \in Rewriting \cup {w}}
                           \cup {c \in Containers : book[c] # NoIP}
    /\ UNCHANGED book

\* saveIPAllocationState: the book the worker read, with i for its container.
Save(w, i) ==
    /\ book' = [loaded[w] EXCEPT ![cont[w]] = i]
    /\ loaded' = [loaded EXCEPT ![w] = NoBook]

\* AllocateContainerIP: an entry that exists is returned as it is.
Allocate(w) ==
    /\ At(w, "allocate")
    /\ \/ /\ book[cont[w]] # NoIP /\ Admitted(w) /\ Continue(w)
          /\ ip' = [ip EXCEPT ![w] = book[cont[w]]]
          /\ UNCHANGED <<addresses, raced>>
       \/ /\ book[cont[w]] = NoIP /\ Goto(w, "grant")
          /\ Load(w)
          /\ UNCHANGED ip
    /\ UNCHANGED <<disk, cgroup, processes, op, cont, info, pid, file, calls, crashes,
                   crashed, stale, early, unsettled, kept>>

FreeIPs(b) == IPs \ {b[c] : c \in Containers}

\* The requested address or the one the container had before, if it is free,
\* else the lowest free one: any free address may be the one.
Grant(w) ==
    /\ At(w, "grant") /\ Continue(w)
    /\ \E i \in FreeIPs(loaded[w]) :
         /\ Save(w, i)
         /\ ip' = [ip EXCEPT ![w] = i]
    /\ UNCHANGED <<disk, cgroup, processes, op, cont, info, pid, file, history>>

\* os.Create in WriteContainerInfo truncates the file; info as it is written.
StatusAt(step, old) ==
    CASE step = "create"  -> "created"
      [] step = "running" -> "running"
      [] step = "stopped" -> "stopped"
      [] OTHER            -> old
PidAt(step, old, own) ==
    CASE step = "running" -> own
      [] step = "adjusted" -> old
      [] OTHER -> NoPid

OpenConfig(w) ==
    /\ pc[w] \in WriteSteps /\ file[w] = "closed"
    /\ cont[w] \in dir
    /\ cfg' = [cfg EXCEPT ![cont[w]] = Empty]
    /\ file' = [file EXCEPT ![w] = "open"]
    /\ info' = [info EXCEPT ![w] = [status |-> StatusAt(pc[w], info[w].status),
                                    pid |-> PidAt(pc[w], info[w].pid, pid[w]),
                                    limits |-> info[w].limits]]
    /\ UNCHANGED <<dir, born, cgroup, addresses, processes, op, cont, pc, pid, ip, history>>

\* Encode writes from offset 0 of its own descriptor: if another worker wrote
\* meanwhile, the tail of a longer text may remain.
Overwrite(old, new) == IF old \in {Empty, new} THEN {new} ELSE {new, Torn}

EncodeConfig(w) ==
    /\ pc[w] \in WriteSteps /\ Continue(w)
    /\ file[w] # "closed"
    /\ file' = [file EXCEPT ![w] = "closed"]
    /\ \/ file[w] = "unlinked" /\ UNCHANGED cfg
       \/ /\ file[w] = "open"
          /\ \E f \in Overwrite(cfg[cont[w]], info[w]) : cfg' = [cfg EXCEPT ![cont[w]] = f]
    /\ stale' = IF At(w, "adjusted") THEN stale \cup {cont[w]} ELSE stale
    /\ UNCHANGED <<dir, born, cgroup, addresses, processes, op, cont, info, pid, ip,
                   calls, crashes, crashed, early, unsettled, kept, raced>>

\* What a worker does when WriteContainerInfo fails: the first write of a
\* container, and those of stop and adjust, are errors; the others warnings.
AfterFailedWrite(w) ==
    CASE At(w, "create") -> Bailout(w)
      [] op[w] \in {"stop", "adjust"} -> "exit"
      [] OTHER -> After(op[w], pc[w])

\* os.Create fails and leaves the old text, or Encode runs out of space with
\* the file cut short.
WriteConfigFails(w) ==
    /\ pc[w] \in WriteSteps /\ Goto(w, AfterFailedWrite(w))
    /\ file' = [file EXCEPT ![w] = "closed"]
    /\ \/ /\ file[w] = "closed" /\ UNCHANGED cfg
          /\ stale' = IF At(w, "stopped") /\ op[w] # "stop"
                      THEN stale \cup {cont[w]} ELSE stale
          /\ unsettled' = IF At(w, "adjusted")
                          THEN unsettled \cup {cont[w]} ELSE unsettled
       \/ /\ file[w] # "closed"
          /\ cfg' = [cfg EXCEPT ![cont[w]] = IF file[w] = "open" THEN Torn ELSE @]
          /\ UNCHANGED <<stale, unsettled>>
    /\ UNCHANGED <<dir, born, cgroup, addresses, processes, op, cont, info, pid, ip,
                   calls, crashes, crashed, early, kept, raced>>

\* os.Pipe and cmd.Start of `/proc/self/exe init`, which blocks on the pipe.
Spawn(w) ==
    /\ At(w, "spawn") /\ Continue(w)
    /\ \E p \in Pids :
         /\ child[p] = "free"
         /\ child' = [child EXCEPT ![p] = "init"]
         /\ runs' = [runs EXCEPT ![p] = cont[w]]
         /\ parent' = [parent EXCEPT ![p] = w]
         /\ addr' = [addr EXCEPT ![p] = NoIP]
         /\ member' = member \ {p}
         /\ pid' = [pid EXCEPT ![w] = p]
    /\ UNCHANGED <<disk, cgroup, addresses, op, cont, info, ip, file, history>>

\* Wrong variant: the PID is not written to cgroup.procs.
SetupCgroupWithoutProcs(w) ==
    /\ At(w, "cgroup") /\ Continue(w)
    /\ Alive(pid[w])
    /\ cgroup' = Applied(cont[w], info[w].limits)
    /\ UNCHANGED <<disk, addresses, processes, op, cont, info, pid, ip, file, history>>

\* SetupCgroup: mkdir, limits, cgroup.procs.  The kernel refuses a dead PID.
SetupCgroup(w) ==
    /\ At(w, "cgroup") /\ Continue(w)
    /\ Alive(pid[w])
    /\ cgroup' = Applied(cont[w], info[w].limits)
    /\ member' = member \cup {pid[w]}
    /\ UNCHANGED <<disk, addresses, child, runs, parent, addr, op, cont, info, pid, ip, file,
                   history>>

\* Wrong variant: the child lives on.
SetupCgroupFailsWithoutKill(w) ==
    /\ At(w, "cgroup") /\ Goto(w, Bailout(w))
    /\ stale' = IF op[w] = "start" THEN stale \cup {cont[w]} ELSE stale
    /\ unsettled' = IF op[w] = "start" THEN unsettled \cup {cont[w]} ELSE unsettled
    /\ UNCHANGED <<disk, cgroup, addresses, processes, op, cont, info, pid, ip, file,
                   calls, crashes, crashed, early, kept, raced>>

\* The mkdir fails, or a write does and the cgroup is cleaned up, unless a
\* process of the container lives in it.  The caller kills the child and
\* returns; Start has already written "running" by then.
SetupCgroupFails(w) ==
    /\ At(w, "cgroup") /\ Goto(w, Bailout(w))
    /\ \/ UNCHANGED cgroup
       \/ Removable(cont[w]) /\ cgroup' = AfterRemoval(cont[w])
       \/ ~Removable(cont[w]) /\ cgroup' = Applied(cont[w], info[w].limits)
    /\ KillChild(w)
    /\ stale' = IF op[w] = "start" THEN stale \cup {cont[w]} ELSE stale
    /\ unsettled' = IF op[w] = "start" THEN unsettled \cup {cont[w]} ELSE unsettled
    /\ UNCHANGED <<disk, addresses, runs, parent, member, addr, op, cont, info, pid, ip, file,
                   calls, crashes, crashed, early, kept, raced>>

\* network.SetupVeth(pid) moves one end into the child's network namespace.
SetupVeth(w) ==
    /\ At(w, "veth") /\ Continue(w)
    /\ Alive(pid[w])
    /\ UNCHANGED <<disk, cgroup, addresses, processes, op, cont, info, pid, ip, file, history>>

\* encoder.Encode(req) into the pipe.  run keeps its read end open, so the
\* write succeeds even if the child is dead; in start it is an EPIPE.
Send(w) ==
    /\ At(w, "send") /\ Continue(w)
    /\ op[w] = "start" => child[pid[w]] # "zombie"
    /\ child' = IF child[pid[w]] = "init" THEN [child EXCEPT ![pid[w]] = "setup"] ELSE child
    /\ addr' = [addr EXCEPT ![pid[w]] = ip[w]]
    /\ UNCHANGED <<disk, cgroup, addresses, runs, parent, member, op, cont, info, pid, ip, file,
                   history>>

\* Wrong variant: the child is left alone on the error path.
CallFailsWithoutKill(w) ==
    /\ pc[w] \in {"allocate", "grant", "spawn", "veth", "send"}
    /\ Goto(w, Bailout(w))
    /\ loaded' = [loaded EXCEPT ![w] = NoBook]
    /\ UNCHANGED <<disk, cgroup, book, processes, op, cont, info, pid, ip, file, history>>

\* An error of these calls kills the child, if there is one, and returns.
CallFails(w) ==
    /\ pc[w] \in {"allocate", "grant", "spawn", "veth", "send"}
    /\ Goto(w, Bailout(w))
    /\ KillChild(w)
    /\ loaded' = [loaded EXCEPT ![w] = NoBook]
    /\ UNCHANGED <<disk, cgroup, book, runs, parent, member, addr, op, cont, info, pid, ip,
                   file, history>>

\* Wrong variants: the PID is still used after the wait; the status is not
\* written after it.
WaitKeepsPid(w) ==
    /\ At(w, "wait") /\ Continue(w)
    /\ child[pid[w]] = "zombie"
    /\ child' = [child EXCEPT ![pid[w]] = "free"]
    /\ member' = member \ {pid[w]}
    /\ UNCHANGED <<disk, cgroup, addresses, runs, parent, addr, op, cont, info, pid, ip, file,
                   history>>
WaitWithoutStatus(w) ==
    /\ At(w, "wait") /\ Goto(w, "cleanup")
    /\ child[pid[w]] = "zombie"
    /\ child' = [child EXCEPT ![pid[w]] = "free"]
    /\ member' = member \ {pid[w]}
    /\ pid' = [pid EXCEPT ![w] = NoPid]
    /\ UNCHANGED <<disk, cgroup, addresses, runs, parent, addr, op, cont, info, ip, file, history>>

\* cmd.Wait reaps the child once it has ended.  In an attached start it goes on
\* to wait for the goroutines that copy to and from the client's connection.
Wait(w) ==
    /\ At(w, "wait")
    /\ Continue(w) \/ (op[w] = "start" /\ Goto(w, "copiers"))
    /\ child[pid[w]] = "zombie"
    /\ child' = [child EXCEPT ![pid[w]] = "free"]
    /\ member' = member \ {pid[w]}
    /\ pid' = [pid EXCEPT ![w] = NoPid]
    /\ UNCHANGED <<disk, cgroup, addresses, runs, parent, addr, op, cont, info, ip, file,
                   history>>

\* The copiers end, if the client ever sends another byte or hangs up.
CopiersEnd(w) ==
    /\ At(w, "copiers") /\ Continue(w)
    /\ UNCHANGED <<disk, cgroup, addresses, processes, op, cont, info, pid, ip, file, history>>

CleanupCgroup(w) ==
    /\ At(w, "cleanup") /\ Continue(w)
    /\ cgroup' = AfterRemoval(cont[w])
    /\ UNCHANGED <<disk, addresses, processes, op, cont, info, pid, ip, file, history>>

\* Another worker holds the address this one gives back.
Shared(w) == \E v \in Workers \ {w} : cont[v] = cont[w] /\ ip[v] # NoIP
Early(w) == IF Shared(w) THEN early \cup {cont[w]} ELSE early \ {cont[w]}

\* Wrong variant: the entry stays in the address book.
ReleaseForgotten(w) ==
    /\ At(w, "release") /\ Continue(w)
    /\ ip' = [ip EXCEPT ![w] = NoIP]
    /\ UNCHANGED <<disk, cgroup, addresses, processes, op, cont, info, pid, file, history>>

\* The deferred ReleaseContainerIP, and the CleanupContainerNetwork of stop,
\* which asks nobody whether the address is still in use.
Release(w) ==
    /\ At(w, "release")
    /\ \/ /\ book[cont[w]] = NoIP /\ Admitted(w) /\ Continue(w)
          /\ ip' = [ip EXCEPT ![w] = NoIP]
          /\ early' = Early(w)
          /\ UNCHANGED <<addresses, raced>>
       \/ /\ book[cont[w]] # NoIP /\ Goto(w, "giveback")
          /\ Load(w)
          /\ UNCHANGED <<ip, early>>
    /\ UNCHANGED <<disk, cgroup, processes, op, cont, info, pid, file,
                   calls, crashes, crashed, stale, unsettled, kept>>

GiveBack(w) ==
    /\ At(w, "giveback") /\ Continue(w)
    /\ Save(w, NoIP)
    /\ ip' = [ip EXCEPT ![w] = NoIP]
    /\ early' = Early(w) /\ kept' = kept \ {cont[w]}
    /\ UNCHANGED <<disk, cgroup, processes, op, cont, info, pid, file,
                   calls, crashes, crashed, stale, unsettled, raced>>

\* The book could not be read or written: the callers log a warning.
ReleaseFails(w) ==
    /\ pc[w] \in {"release", "giveback"} /\ Goto(w, "exit")
    /\ loaded' = [loaded EXCEPT ![w] = NoBook]
    /\ ip' = [ip EXCEPT ![w] = NoIP]
    /\ kept' = IF book[cont[w]] # NoIP THEN kept \cup {cont[w]} ELSE kept
    /\ UNCHANGED <<disk, cgroup, book, processes, op, cont, info, pid, file,
                   calls, crashes, crashed, stale, early, unsettled, raced>>

\* syscall.Kill(info.PID, SIGTERM).  Whoever has that PID now may end or, as
\* the init process of its PID namespace, ignore the signal; "no such process"
\* is passed over, any other error ends the operation.
Kill(w) ==
    /\ At(w, "kill")
    /\ \/ UNCHANGED child /\ (Continue(w) \/ Goto(w, "exit"))
       \/ /\ info[w].pid \in Pids /\ Alive(info[w].pid) /\ Dies(info[w].pid)
          /\ Continue(w)
    /\ UNCHANGED <<disk, cgroup, addresses, runs, parent, member, addr, op, cont, info, pid, ip,
                   file, history>>

\* Wrong variant: the new limits are recorded whether they could be set or not.
ApplyLimitsUnchecked(w) ==
    /\ At(w, "limits") /\ Continue(w)
    /\ cgroup' \in {cgroup, Applied(cont[w], info[w].limits)}
    /\ UNCHANGED <<disk, addresses, processes, op, cont, info, pid, ip, file, history>>

\* cgroupPath and setResourceLimits: the cgroup is not there, or one of the
\* writes fails, the ones before it done.
ApplyLimits(w) ==
    /\ At(w, "limits")
    /\ \/ /\ cgroup[cont[w]] # NoCgroup /\ Continue(w)
          /\ cgroup' = Applied(cont[w], info[w].limits)
          /\ UNCHANGED unsettled
       \/ Goto(w, "exit") /\ UNCHANGED <<cgroup, unsettled>>
       \/ /\ cgroup[cont[w]] # NoCgroup /\ Goto(w, "exit")
          /\ \E l \in Limits : cgroup' = [cgroup EXCEPT ![cont[w]] = l]
          /\ unsettled' = unsettled \cup {cont[w]}
    /\ UNCHANGED <<disk, addresses, processes, op, cont, info, pid, ip, file,
                   calls, crashes, crashed, stale, early, kept, raced>>

RemoveCgroup(w) ==
    /\ At(w, "rmcgroup")
    /\ Goto(w, IF Removable(cont[w]) THEN "rmdir" ELSE "exit")
    /\ cgroup' = AfterRemoval(cont[w])
    /\ UNCHANGED <<disk, addresses, processes, op, cont, info, pid, ip, file, history>>

\* os.RemoveAll(containerDir), which may fail before or after it removed
\* config.json: open descriptors keep an unlinked file.
RemoveDir(w) ==
    /\ At(w, "rmdir") /\ Continue(w)
    /\ \/ UNCHANGED <<dir, cfg, file>>
       \/ /\ dir' \in {dir, dir \ {cont[w]}}
          /\ cfg' = [cfg EXCEPT ![cont[w]] = NoFile]
          /\ file' = [v \in Workers |-> IF cont[v] = cont[w] /\ file[v] = "open"
                                        THEN "unlinked" ELSE file[v]]
    /\ UNCHANGED <<born, cgroup, addresses, processes, op, cont, info, pid, ip, history>>

\* Processes whose OS parent is gone: init takes them over and reaps zombies.
Orphan(W) ==
    /\ child' = [p \in Pids |-> IF parent[p] \in W /\ child[p] = "zombie"
                                THEN "free" ELSE child[p]]
    /\ parent' = [p \in Pids |-> IF parent[p] \in W THEN NoWorker ELSE parent[p]]
    /\ UNCHANGED <<runs, member, addr>>

\* The workers in W are gone, or back in their daemon's accept loop.
Forget(W) ==
    /\ pc' = [w \in Workers |-> IF w \in W THEN "idle" ELSE pc[w]]
    /\ cont' = [w \in Workers |-> IF w \in W THEN NoContainer ELSE cont[w]]
    /\ pid' = [w \in Workers |-> IF w \in W THEN NoPid ELSE pid[w]]
    /\ ip' = [w \in Workers |-> IF w \in W THEN NoIP ELSE ip[w]]
    /\ file' = [w \in Workers |-> IF w \in W THEN "closed" ELSE file[w]]
    /\ loaded' = [w \in Workers |-> IF w \in W THEN NoBook ELSE loaded[w]]
    /\ op' = [w \in Workers |-> IF w \in W THEN "run" ELSE op[w]]
    /\ info' = [w \in Workers |-> IF w \in W THEN NoInfo(NoLimits) ELSE info[w]]

\* The operation returns; a CLI process exits.
Return(w) ==
    /\ At(w, "exit")
    /\ Forget({w})
    /\ IF w \in CLI THEN Orphan({w}) ELSE UNCHANGED processes
    /\ UNCHANGED <<disk, cgroup, book, history>>

\* The CLI process, or the daemon with all its goroutines, dies.
Crash(W) ==
    /\ \E w \in W : ~At(w, "idle")
    /\ crashes < MaxCrashes
    /\ crashes' = crashes + 1
    /\ crashed' = crashed \cup ({cont[w] : w \in W} \ {NoContainer})
    /\ Forget(W)
    /\ Orphan(W)
    /\ UNCHANGED <<disk, cgroup, book, calls, exceptions>>

-----------------------------------------------------------------------------
\* InitContainer reads end-of-file when the writer of the pipe is gone.
PipeClosed(p) ==
    /\ child[p] = "init" /\ parent[p] = NoWorker
    /\ Dies(p)
    /\ UNCHANGED <<disk, cgroup, addresses, runs, parent, member, addr, op, cont, pc, info, pid,
                   ip, file, history>>

\* SetupRootfs: MkdirAll makes the container's directory if it is not there.
SetupRootfs(p) ==
    /\ child[p] = "setup"
    /\ child' = [child EXCEPT ![p] = "rootfs"]
    /\ dir' = dir \cup {runs[p]}
    /\ UNCHANGED <<born, cfg, cgroup, addresses, runs, parent, member, addr, op, cont, pc, info,
                   pid, ip, file, history>>

\* ConfigureContainerNetwork refuses an empty address; then syscall.Exec.
Exec(p) ==
    /\ child[p] = "rootfs" /\ addr[p] # NoIP
    /\ child' = [child EXCEPT ![p] = "command"]
    /\ UNCHANGED <<disk, cgroup, addresses, runs, parent, member, addr, op, cont, pc, info, pid,
                   ip, file, history>>

\* A step of InitContainer fails, or the user's command ends.
ProcessEnds(p) ==
    /\ child[p] \in {"setup", "rootfs", "command"}
    /\ Dies(p)
    /\ UNCHANGED <<disk, cgroup, addresses, runs, parent, member, addr, op, cont, pc, info, pid,
                   ip, file, history>>

Call(w) ==
    \E c \in Containers :
        \/ \E l \in Limits : Run(w, c, l) \/ CreateAndRun(w, c, l)
                             \/ AdjustResourceLimits(w, c, l)
        \/ Start(w, c) \/ StopContainer(w, c) \/ RemoveContainer(w, c)

Step(w) ==
    \/ Allocate(w) \/ Grant(w) \/ OpenConfig(w) \/ EncodeConfig(w) \/ WriteConfigFails(w)
    \/ Spawn(w) \/ SetupCgroup(w) \/ SetupCgroupFails(w) \/ SetupVeth(w) \/ Send(w)
    \/ CallFails(w) \/ Wait(w) \/ CleanupCgroup(w)
    \/ Release(w) \/ GiveBack(w) \/ ReleaseFails(w) \/ Kill(w) \/ ApplyLimits(w)
    \/ RemoveCgroup(w) \/ RemoveDir(w) \/ Return(w)

Progress(p) == PipeClosed(p) \/ SetupRootfs(p) \/ Exec(p)

Next ==
    \/ \E w \in Workers : Call(w) \/ Step(w) \/ CopiersEnd(w)
    \/ \E w \in CLI : Crash({w})
    \/ Crash(Daemon)
    \/ \E p \in Pids : Progress(p) \/ ProcessEnds(p)

Spec == Init /\ [][Next]_vars

\* Each worker, and each container process up to its exec, is code that runs
\* to its end unless it crashes or waits; a user's command may run for ever.
Fairness ==
    /\ \A w \in Workers : WF_vars(Step(w))
    /\ \A p \in Pids : WF_vars(Progress(p))

FairSpec == Spec /\ Fairness

-----------------------------------------------------------------------------
\* The PID a worker acts on (SetupCgroup, SetupVeth, Process.Kill, Wait) is
\* still its own child of its own container: a child that died keeps its PID
\* until the worker waits for it, however PIDs are reused around it.
ChildIsMine ==
    \A w \in Workers :
        pid[w] # NoPid => /\ child[pid[w]] # "free"
                          /\ parent[pid[w]] = w
                          /\ runs[pid[w]] = cont[w]

\* An address on loan to a container has a worker that will release it, on
\* every path of RunContainer and Start.  The exceptions are the containers an
\* operation on which crashed, those whose release failed (a warning, no retry:
\* runtime.go 68, manager.go 215 and 428), and those whose entry was there while
\* two processes rewrote the book.
AddressHasHolder ==
    \A c \in Containers \ (crashed \cup kept \cup raced) :
        book[c] # NoIP => \E w \in Workers : cont[w] = c /\ ip[w] # NoIP

\* The limits recorded for a running container are those in force in its cgroup,
\* whatever adjust, start, stop, rm and the end of the container do to one another
\* (setResourceLimits comes before WriteContainerInfo in each; a limit that is
\* zero is recorded without being set).  The exceptions are the containers whose
\* limits two operations set at one time, or one failed to set or to record (adjust
\* leaves the new ones in force when os.Create fails), and crashes.
LimitsInForce ==
    \A c \in Containers \ (crashed \cup unsettled) :
        /\ Found(c) /\ cfg[c].status = "running" /\ cgroup[c] # NoCgroup
        /\ ~\E w \in Workers : Setting(w, c)
        => cfg[c].limits \in {cgroup[c], NoLimits}

\* Two live processes with one address belong to one container: no address is
\* given away under a process, on any path on which a worker fails, kills or
\* waits.  The exceptions are the containers an operation on which crashed,
\* those whose address one operation gave back while another still held it,
\* until the last of these has ended (stop gives it back under a process that
\* lives on, manager.go 215), and those whose entry was there while two processes
\* rewrote the book (ipamMu is per process, ipam.go 26).
AddressExclusive ==
    \A p, q \in Pids :
        /\ Alive(p) /\ Alive(q) /\ addr[p] # NoIP /\ addr[p] = addr[q]
        /\ {runs[p], runs[q]} \cap (crashed \cup early \cup raced) = {}
        => runs[p] = runs[q]

\* The worker is going to write "stopped" into config.json.
WillWriteStopped(w) ==
    \/ pc[w] \in {"wait", "copiers", "stopped"}
    \/ pc[w] = "cgroup" /\ op[w] = "start"

\* A container whose config.json says "running" has a worker that is still to
\* write "stopped" (an attached start, after its copiers have ended), unless that
\* worker crashed, Start failed after it wrote "running", os.Create failed in the
\* last write, or adjust wrote back a status it read earlier.
RunningHasWaiter ==
    \A c \in Containers \ (crashed \cup stale) :
        Found(c) /\ cfg[c].status = "running" =>
            \E w \in Workers : cont[w] = c /\ WillWriteStopped(w)

\* The command of a container started by RunContainer runs inside its cgroup,
\* and no cleanup, rm or failing start takes that cgroup away under it.
RunConfined ==
    \A p \in Pids :
        child[p] = "command" /\ (\E w \in Workers : parent[p] = w /\ op[w] = "run")
            => p \in member /\ cgroup[runs[p]] # NoCgroup

\* A container process that waits for its configuration has a parent that knows
\* it and has yet to send it, or its pipe is closed: no path of run, start or
\* createAndRun goes on, returns or dies with a child left at its pipe.
PipeHasWriter ==
    \A p \in Pids : child[p] = "init" =>
        \/ parent[p] = NoWorker
        \/ \E w \in Workers :
             /\ parent[p] = w /\ pid[w] = p
             /\ \/ pc[w] \in {"veth", "send"}
                \/ pc[w] = "cgroup" /\ op[w] # "start"
                \/ pc[w] \in {"allocate", "grant"} /\ op[w] = "start"

\* No container process waits on its pipe for ever: every path of the parent
\* sends the configuration, kills the child or closes the pipe by dying.
ChildLeavesPipe ==
    \A p \in Pids : child[p] = "init" ~> child[p] # "init"

\* Once a container has no live process left its address goes back to the
\* pool, unless a new process of it starts, an attached start waits for its
\* copiers, the release failed, two processes rewrote the book at one time or an
\* operation on the container crashed.
HasProcess(c) == \E p \in Pids : runs[p] = c /\ Alive(p)
AddressReturned ==
    \A c \in Containers :
        (book[c] # NoIP /\ ~HasProcess(c)) ~>
            \/ book[c] = NoIP \/ HasProcess(c)
            \/ \E w \in Workers : cont[w] = c /\ At(w, "copiers")
            \/ c \in crashed \cup kept \cup raced
=============================================================================
