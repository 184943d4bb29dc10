---------------------------- MODULE TaskTracers -----------------------------
(***************************************************************************)
(* The programs of the collector that follow tasks.  A scheduler event     *)
(* names a task by its number, but a program can only ask for the cgroup   *)
(* of the task that is current.  So the modules sched and cpu each keep a  *)
(* cache from numbers to cgroups, filled when a task of the target is      *)
(* switched out and cleared when it exits.  The module sys keeps when and  *)
(* where each system call was entered, and asks no filter at its exit.     *)
(*                                                                         *)
(* The kernel uses numbers again.  Sampling and the filter's changes are   *)
(* in Collector: here the target is fixed and each event is counted.       *)
(***************************************************************************)
EXTENDS Naturals

CONSTANTS
    Cpus,
    Tids,          \* numbers of tasks, 0 (the idle task) apart
    Groups,        \* cgroups
    Target,        \* those in the subtree of the target
    Calls,         \* system calls: "execve", "exit" and others
    None,
    MaxForks,      \* bound: tasks
    MaxCalls,      \* bound: calls entered
    MaxMoves       \* bound: changes of cgroup and evictions from a full map

ASSUME TaskTracersAssumption ==
    /\ Target \subseteq Groups /\ {"execve", "exit"} \subseteq Calls
    /\ None \notin Groups /\ None \notin Tids /\ None \notin Calls
    /\ MaxForks \in Nat /\ MaxMoves \in Nat /\ MaxCalls \in Nat

VARIABLES
    task,      \* the task of each number: its state, its cgroup and the call it is in
    on,        \* the number that is current on each CPU, None for the idle task
    cache,     \* pid_cgid of sched and of cpu
    start,     \* sys_enter_start: the cgroup stored for each task and call
    used,      \* tasks, moves (and evictions) and calls so far
    home,      \* history: the cgroups of the task, and of the one that had its number before
    borrowed,  \* history: numbers for which cpu stored the cgroup of another task
    taken,     \* history: numbers whose task took another one in execve
    old,       \* history: entries of start that an earlier call of the task, or another task, left
    strays,    \* history: calls measured from such an entry
    foreign    \* history: events counted for a cgroup that is not in home of their task

history == <<home, borrowed, taken, old, strays, foreign>>
vars == <<task, on, cache, start, used, history>>

Free == [st |-> "free", cg |-> None, call |-> None]
Alive(g) == [st |-> "alive", cg |-> g, call |-> None]

Init ==
    /\ task = [t \in Tids |-> Free]
    /\ on = [c \in Cpus |-> None]
    /\ cache = [m \in {"sched", "cpu"} |-> [t \in Tids |-> None]]
    /\ start = [t \in Tids |-> [s \in Calls |-> None]]
    /\ used = [forks |-> 0, moves |-> 0, calls |-> 0]
    /\ home = [t \in Tids |-> [cur |-> {}, prev |-> {}]]
    /\ borrowed = {} /\ taken = {} /\ old = {} /\ strays = {} /\ foreign = {}

(***************************************************************************)
(* Tasks                                                                   *)
(***************************************************************************)
InTarget(t) == t # None /\ task[t].cg \in Target

Renamed(t, g) == [home EXCEPT ![t] = [cur |-> {g}, prev |-> @.cur]]

Fork(t, g) ==
    /\ task[t] = Free /\ used.forks < MaxForks
    /\ task' = [task EXCEPT ![t] = Alive(g)]
    /\ home' = Renamed(t, g)
    /\ used' = [used EXCEPT !.forks = @ + 1]
    /\ UNCHANGED <<on, cache, start, borrowed, taken, old, strays, foreign>>

\* Gocker moves a process into the cgroup of its container.
Move(t, g) ==
    /\ task[t].st = "alive" /\ task[t].cg # g /\ used.moves < MaxMoves
    /\ task' = [task EXCEPT ![t].cg = g]
    /\ home' = [home EXCEPT ![t].cur = @ \cup {g}]
    /\ used' = [used EXCEPT !.moves = @ + 1]
    /\ UNCHANGED <<on, cache, start, borrowed, taken, old, strays, foreign>>

(***************************************************************************)
(* sched and cpu                                                           *)
(***************************************************************************)
Counted(m, t, g) ==
    foreign' = IF g = None \/ g \in home[t].cur \cup home[t].prev THEN foreign
               ELSE foreign \cup {[mod |-> m, borrowed |-> t \in borrowed, taken |-> t \in taken]}

\* tp_sched_switch and tp_sched_switch_cpu: current is still the task that is switched
\* out, in its cgroup even when it has exited and this is its last switch.
Switch(c, next) ==
    LET prev == on[c]
        ended == prev # None /\ task[prev].st = "ending"
        remember == [m \in {"sched", "cpu"} |->
                        IF InTarget(prev) THEN [cache[m] EXCEPT ![prev] = task[prev].cg]
                                          ELSE cache[m]] IN
    /\ next # prev /\ \A d \in Cpus : on[d] # next \/ next = None
    /\ next # None => task[next].st # "free"
    /\ on' = [on EXCEPT ![c] = next]
    /\ cache' = remember
    /\ IF next = None THEN UNCHANGED foreign ELSE Counted("sched", next, remember["sched"][next])
    /\ borrowed' = IF InTarget(prev) THEN borrowed \ {prev} ELSE borrowed
    /\ task' = IF ended THEN [task EXCEPT ![prev] = Free] ELSE task
    /\ UNCHANGED <<start, used, home, taken, old, strays>>

\* tp_sched_wakeup
Wakeup(t) ==
    /\ task[t].st = "alive" /\ \A c \in Cpus : on[c] # t
    /\ Counted("sched", t, cache["sched"][t])
    /\ UNCHANGED <<task, on, cache, start, used, home, borrowed, taken, old, strays>>

\* tp_sched_stat_wait and tp_sched_stat_iowait
Wait(t) ==
    /\ task[t].st # "free"
    /\ Counted("cpu", t, cache["cpu"][t])
    /\ UNCHANGED <<task, on, cache, start, used, home, borrowed, taken, old, strays>>

\* tp_sched_stat_runtime on CPU c, about the task that runs on CPU d.  When that is
\* another task than the current one, its time goes to the cgroup of the current one:
\* the exception that the properties name, so foreign does not record it once more.
StatRuntime(c, d) ==
    LET cur == on[c]  t == on[d] IN
    /\ t # None
    /\ IF InTarget(cur)
       THEN /\ cache' = [cache EXCEPT !["cpu"][t] = task[cur].cg]
            /\ IF t = cur THEN Counted("cpu", t, task[cur].cg) ELSE UNCHANGED foreign
            /\ borrowed' = IF t = cur THEN borrowed \ {t} ELSE borrowed \cup {t}
       ELSE /\ Counted("cpu", t, cache["cpu"][t])
            /\ UNCHANGED <<cache, borrowed>>
    /\ UNCHANGED <<task, on, start, used, home, taken, old, strays>>

\* Wrong variant: the exit deletes an entry only where the filter lets the task through.
ExitFiltered(c) ==
    LET t == on[c] IN
    /\ t # None /\ task[t].st = "alive" /\ task[t].call \in {None, "exit"}
    /\ task' = [task EXCEPT ![t].st = "ending"]
    /\ cache' = IF InTarget(t) THEN [m \in {"sched", "cpu"} |-> [cache[m] EXCEPT ![t] = None]]
                ELSE cache
    /\ borrowed' = IF InTarget(t) THEN borrowed \ {t} ELSE borrowed
    /\ UNCHANGED <<on, start, used, home, taken, old, strays, foreign>>

\* tp_sched_exit and tp_sched_exit_cpu; the task goes on until it is switched out.
Exit(c) ==
    LET t == on[c] IN
    /\ t # None /\ task[t].st = "alive" /\ task[t].call \in {None, "exit"}
    /\ task' = [task EXCEPT ![t].st = "ending"]
    /\ cache' = [m \in {"sched", "cpu"} |-> [cache[m] EXCEPT ![t] = None]]
    /\ borrowed' = borrowed \ {t}
    /\ UNCHANGED <<on, start, used, home, taken, old, strays, foreign>>

(***************************************************************************)
(* sys                                                                     *)
(***************************************************************************)
SysEnter(c, s) ==
    LET t == on[c] IN
    /\ t # None /\ task[t].st = "alive" /\ task[t].call = None /\ used.calls < MaxCalls
    /\ task' = [task EXCEPT ![t].call = s]
    /\ IF InTarget(t)
       THEN start' = [start EXCEPT ![t][s] = task[t].cg] /\ old' = old \ {<<t, s>>}
       ELSE /\ old' = IF start[t][s] # None THEN old \cup {<<t, s>>} ELSE old
            /\ start' = start
    /\ used' = [used EXCEPT !.calls = @ + 1]
    /\ UNCHANGED <<on, cache, home, borrowed, taken, strays, foreign>>

\* Wrong variant: the entry is not deleted.
SysExitKeeping(c) ==
    LET t == on[c]  s == task[t].call IN
    /\ t # None /\ s \notin {None, "exit"}
    /\ Counted("sys", t, start[t][s])
    /\ strays' = IF <<t, s>> \in old THEN strays \cup {s} ELSE strays
    /\ task' = [task EXCEPT ![t].call = None]
    /\ UNCHANGED <<on, cache, start, used, home, borrowed, taken, old>>

\* exit never returns; every other call does, however it ends.
SysExit(c) ==
    LET t == on[c]  s == task[t].call IN
    /\ t # None /\ s \notin {None, "exit"}
    /\ Counted("sys", t, start[t][s])
    /\ strays' = IF <<t, s>> \in old THEN strays \cup {s} ELSE strays
    /\ start' = [start EXCEPT ![t][s] = None] /\ old' = old \ {<<t, s>>}
    /\ task' = [task EXCEPT ![t].call = None]
    /\ UNCHANGED <<on, cache, used, home, borrowed, taken>>

\* In execve a thread takes the number of the leader of its process, which has ended.
TakeNumber(c, leader) ==
    LET t == on[c] IN
    /\ t # None /\ task[t].call = "execve"
    /\ task[leader] = Free /\ home[leader].cur # {}
    /\ task' = [task EXCEPT ![leader] = task[t], ![t] = Free]
    /\ on' = [on EXCEPT ![c] = leader]
    /\ home' = Renamed(leader, task[t].cg)
    /\ taken' = taken \cup {t}
    /\ old' = IF start[leader]["execve"] # None THEN old \cup {<<leader, "execve">>} ELSE old
    /\ UNCHANGED <<cache, start, used, borrowed, strays, foreign>>

\* The maps evict what was used least recently.
Evict(t) ==
    /\ used.moves < MaxMoves /\ used' = [used EXCEPT !.moves = @ + 1]
    /\ \/ \E m \in {"sched", "cpu"} :
             /\ cache[m][t] # None /\ cache' = [cache EXCEPT ![m][t] = None]
             /\ borrowed' = IF m = "cpu" THEN borrowed \ {t} ELSE borrowed
             /\ UNCHANGED <<start, old>>
       \/ \E s \in Calls :
             /\ start[t][s] # None /\ start' = [start EXCEPT ![t][s] = None]
             /\ old' = old \ {<<t, s>>}
             /\ UNCHANGED <<cache, borrowed>>
    /\ UNCHANGED <<task, on, home, taken, strays, foreign>>

Cpu(c) ==
    \/ \E next \in Tids \cup {None} : Switch(c, next)
    \/ \E d \in Cpus : StatRuntime(c, d)
    \/ \E s \in Calls : SysEnter(c, s)
    \/ \E leader \in Tids : TakeNumber(c, leader)
    \/ SysExit(c) \/ Exit(c)

Task(t) == Wakeup(t) \/ Wait(t) \/ Evict(t) \/ \E g \in Groups : Fork(t, g) \/ Move(t, g)

Next == (\E c \in Cpus : Cpu(c)) \/ \E t \in Tids : Task(t)

Spec == Init /\ [][Next]_vars

(***************************************************************************)
(* Properties                                                              *)
(***************************************************************************)
TypeOK ==
    /\ task \in [Tids -> [st : {"free", "alive", "ending"}, cg : Groups \cup {None},
                          call : Calls \cup {None}]]
    /\ on \in [Cpus -> Tids \cup {None}]
    /\ cache \in [{"sched", "cpu"} -> [Tids -> Groups \cup {None}]]
    /\ start \in [Tids -> [Calls -> Groups \cup {None}]]
    /\ used \in [forks : Nat, moves : Nat, calls : Nat]
    /\ home \in [Tids -> [cur : SUBSET Groups, prev : SUBSET Groups]]
    /\ borrowed \subseteq Tids /\ taken \subseteq Tids /\ strays \subseteq Calls
    /\ old \subseteq Tids \X Calls
    /\ foreign \subseteq [mod : {"sched", "cpu", "sys"}, borrowed : BOOLEAN, taken : BOOLEAN]

\* An event is counted for a cgroup its task has been in, or the task that had the
\* number just before: no entry outlives two tasks.  Two things are excepted: cpu may have
\* stored the cgroup of another task, one that was current when the kernel accounted for
\* this one, and a number that execve has freed is never reported as exited.
ChargedToOwn == \A e \in foreign : e.taken \/ (e.mod = "cpu" /\ e.borrowed)

\* A call is measured from its own entry, whichever tasks had the number before and
\* wherever the task has moved, but for execve, which a task may leave with another number.
OwnLatency == strays \subseteq {"execve"}
=============================================================================
