------------------------- MODULE TaskTracersProofs --------------------------
(***************************************************************************)
(* Proofs about the programs that follow tasks, for any number of CPUs,    *)
(* tasks and cgroups: the types, and that events and system calls are      *)
(* charged to the task they are of, but for the exceptions that the        *)
(* properties name.                                                        *)
(***************************************************************************)
EXTENDS TaskTracers, TLAPS

TaskState == [st : {"free", "alive", "ending"}, cg : Groups \cup {None}, call : Calls \cup {None}]
Homes == [cur : SUBSET Groups, prev : SUBSET Groups]
Caching == {"sched", "cpu"}

\* The states of tasks.
LEMMA TaskType ==
    /\ Free \in TaskState
    /\ \A g \in Groups : Alive(g) \in TaskState /\ Alive(g).cg = g /\ Alive(g).call = None
                         /\ Alive(g).st = "alive"
BY DEF TaskState, Free, Alive

LEMMA MovedType ==
    ASSUME NEW r \in TaskState, NEW g \in Groups
    PROVE  [r EXCEPT !.cg = g] \in TaskState
BY DEF TaskState

\* A task that ends or whose call changes.
LEMMA EndedType ==
    ASSUME NEW r \in TaskState
    PROVE  [r EXCEPT !.st = "ending"] \in TaskState
BY DEF TaskState

LEMMA CalledType ==
    ASSUME NEW r \in TaskState, NEW s \in Calls \cup {None}
    PROVE  [r EXCEPT !.call = s] \in TaskState
BY DEF TaskState

LEMMA TasksUpdated ==
    ASSUME TypeOK, NEW t \in Tids, NEW r \in TaskState, task' = [task EXCEPT ![t] = r]
    PROVE  task' \in [Tids -> TaskState]
BY DEF TypeOK, TaskState

\* Each current task is current on one CPU, and exists.
RunInv ==
    \A c \in Cpus : on[c] # None =>
        /\ task[on[c]].st # "free"
        /\ \A d \in Cpus : on[d] = on[c] => d = c

\* A task is in a cgroup it has been in, and has left its calls when it ends.
TaskInv ==
    \A t \in Tids :
        /\ task[t].st = "free" => task[t].call = None
        /\ task[t].st # "free" => task[t].cg \in home[t].cur
        /\ task[t].st = "ending" => task[t].call \in {None, "exit"}

\* What a cache holds for a number is of its task; of the task before at most as long as
\* the new one lives, so that it does not outlive two.
CacheInv ==
    \A m \in Caching, t \in Tids :
        cache[m][t] # None /\ t \notin taken /\ ~(m = "cpu" /\ t \in borrowed) =>
            \/ cache[m][t] \in home[t].cur
            \/ task[t].st = "alive" /\ cache[m][t] \in home[t].prev

\* What was stored for a call that returns is of the task that is in the call.
StartInv ==
    \A t \in Tids, s \in Calls :
        start[t][s] # None /\ s # "exit" /\ (s = "execve" => t \notin taken) =>
            task[t].call = s /\ start[t][s] \in home[t].cur

OldInv == \A t \in Tids, s \in Calls : <<t, s>> \in old => s \in {"execve", "exit"}

TracerInv ==
    TypeOK /\ RunInv /\ TaskInv /\ CacheInv /\ StartInv /\ OldInv /\ ChargedToOwn /\ OwnLatency

Kept == RunInv /\ TaskInv /\ CacheInv /\ StartInv /\ OldInv /\ ChargedToOwn /\ OwnLatency

LEMMA TracerInit == Init => TracerInv
BY DEF Init, TracerInv, TypeOK, RunInv, TaskInv, CacheInv, StartInv, OldInv, ChargedToOwn,
       OwnLatency, Free, Caching

\* An event is charged well if what it is charged to belongs to its task.
LEMMA CountedWell ==
    ASSUME TracerInv, NEW m \in {"sched", "cpu", "sys"}, NEW t \in Tids, NEW g,
           g \in Groups => \/ g \in home[t].cur \cup home[t].prev
                           \/ t \in taken \/ (m = "cpu" /\ t \in borrowed),
           g \in Groups \cup {None}, Counted(m, t, g)
    PROVE  /\ foreign' \subseteq [mod : {"sched", "cpu", "sys"}, borrowed : BOOLEAN, taken : BOOLEAN]
           /\ \A e \in foreign' : e.taken \/ (e.mod = "cpu" /\ e.borrowed)
<1> DEFINE event == [mod |-> m, borrowed |-> t \in borrowed, taken |-> t \in taken]
<1>1. foreign \subseteq [mod : {"sched", "cpu", "sys"}, borrowed : BOOLEAN, taken : BOOLEAN]
  BY DEF TracerInv, TypeOK
<1>2. \A e \in foreign : e.taken \/ (e.mod = "cpu" /\ e.borrowed)
  BY DEF TracerInv, ChargedToOwn
<1>3. event \in [mod : {"sched", "cpu", "sys"}, borrowed : BOOLEAN, taken : BOOLEAN]
  OBVIOUS
<1>4. \/ foreign' = foreign
      \/ foreign' = foreign \cup {event} /\ (t \in taken \/ (m = "cpu" /\ t \in borrowed))
  BY DEF Counted
<1>5. event.mod = m /\ (event.borrowed <=> t \in borrowed) /\ (event.taken <=> t \in taken)
  OBVIOUS
<1> HIDE DEF event
<1> QED BY <1>1, <1>2, <1>3, <1>4, <1>5

\* A cache answers well for a number.
LEMMA CacheCounts ==
    ASSUME TracerInv, NEW m \in Caching, NEW t \in Tids, Counted(m, t, cache[m][t])
    PROVE  /\ foreign' \subseteq [mod : {"sched", "cpu", "sys"}, borrowed : BOOLEAN, taken : BOOLEAN]
           /\ \A e \in foreign' : e.taken \/ (e.mod = "cpu" /\ e.borrowed)
<1>1. cache[m][t] \in Groups \cup {None} /\ m \in {"sched", "cpu", "sys"}
  BY DEF TracerInv, TypeOK, Caching
<1>2. cache[m][t] \in Groups =>
          \/ cache[m][t] \in home[t].cur \cup home[t].prev
          \/ t \in taken \/ (m = "cpu" /\ t \in borrowed)
  BY TaskTracersAssumption DEF TracerInv, CacheInv
<1> QED BY <1>1, <1>2, CountedWell

\* Where nothing changes that an invariant speaks of, it is kept.
LEMMA ForeignKept ==
    ASSUME TracerInv, foreign' = foreign
    PROVE  /\ ChargedToOwn'
           /\ foreign' \subseteq [mod : {"sched", "cpu", "sys"}, borrowed : BOOLEAN, taken : BOOLEAN]
BY DEF TracerInv, TypeOK, ChargedToOwn

-----------------------------------------------------------------------------
(* Tasks *)

\* A new task is in its first cgroup; what its number left is of the task before.
LEMMA ForkKeeps ==
    ASSUME TracerInv, NEW t \in Tids, NEW g \in Groups, Fork(t, g)
    PROVE  TypeOK' /\ Kept'
<1> USE DEF TracerInv, TypeOK
<1>1. /\ task[t] = Free /\ task' = [task EXCEPT ![t] = Alive(g)]
      /\ home' = [home EXCEPT ![t] = [cur |-> {g}, prev |-> home[t].cur]]
      /\ UNCHANGED <<on, cache, start, borrowed, taken, old, strays, foreign>>
      /\ used' = [used EXCEPT !.forks = @ + 1]
  BY DEF Fork, Renamed
<1>2. task' \in [Tids -> TaskState]
  BY <1>1, TaskType DEF TaskState
<1>3. home' \in [Tids -> Homes]
  BY <1>1 DEF Homes
<1>4. TypeOK'
  BY <1>1, <1>2, <1>3 DEF TaskState, Homes
<1>5. task[t].st = "free" /\ task[t].call = None
  BY <1>1 DEF Free
<1>6. RunInv'
  BY <1>1, <1>5, TaskType DEF RunInv
<1>7. TaskInv'
  BY <1>1, <1>5, TaskType DEF TaskInv
<1>8. CacheInv'
  <2> SUFFICES ASSUME NEW m \in Caching, NEW u \in Tids, cache[m][u] # None, u \notin taken,
                      ~(m = "cpu" /\ u \in borrowed)
               PROVE  \/ cache[m][u] \in home'[u].cur
                      \/ task'[u].st = "alive" /\ cache[m][u] \in home'[u].prev
    BY <1>1 DEF CacheInv
  <2>1. \/ cache[m][u] \in home[u].cur
        \/ task[u].st = "alive" /\ cache[m][u] \in home[u].prev
    BY DEF CacheInv
  <2>2. CASE u = t
    BY <1>1, <1>5, <2>1, <2>2, TaskType
  <2>3. CASE u # t
    BY <1>1, <2>1, <2>3
  <2> QED BY <2>2, <2>3
<1>9. StartInv'
  <2> SUFFICES ASSUME NEW u \in Tids, NEW s \in Calls, start[u][s] # None, s # "exit",
                      s = "execve" => u \notin taken
               PROVE  task'[u].call = s /\ start[u][s] \in home'[u].cur
    BY <1>1 DEF StartInv
  <2>1. task[u].call = s /\ start[u][s] \in home[u].cur
    BY DEF StartInv
  <2>2. u # t
    BY <1>5, <2>1, TaskTracersAssumption
  <2> QED BY <1>1, <2>1, <2>2
<1>10. OldInv' /\ OwnLatency' /\ ChargedToOwn'
  BY <1>1 DEF OldInv, OwnLatency, ChargedToOwn
<1> QED BY <1>4, <1>6, <1>7, <1>8, <1>9, <1>10 DEF Kept

\* A task that moves has been in one more cgroup.
LEMMA MoveKeeps ==
    ASSUME TracerInv, NEW t \in Tids, NEW g \in Groups, Move(t, g)
    PROVE  TypeOK' /\ Kept'
<1> USE DEF TracerInv, TypeOK
<1>1. /\ task[t].st = "alive" /\ task' = [task EXCEPT ![t].cg = g]
      /\ home' = [home EXCEPT ![t].cur = @ \cup {g}]
      /\ UNCHANGED <<on, cache, start, borrowed, taken, old, strays, foreign>>
      /\ used' = [used EXCEPT !.moves = @ + 1]
  BY DEF Move
<1>2. task' \in [Tids -> TaskState]
  <2>1. task[t] \in TaskState
    BY DEF TaskState
  <2>2. [task[t] EXCEPT !.cg = g] \in TaskState
    BY <2>1, MovedType
  <2> DEFINE there == [task[t] EXCEPT !.cg = g]
  <2>3. task' = [task EXCEPT ![t] = there]
    BY <1>1, Zenon
  <2> HIDE DEF there
  <2>4. there \in TaskState
    BY <2>2 DEF there
  <2> QED BY <2>3, <2>4 DEF TaskState
<1>3. \A u \in Tids : /\ task'[u].st = task[u].st /\ task'[u].call = task[u].call
                      /\ task'[u].cg = IF u = t THEN g ELSE task[u].cg
                      /\ home[u].cur \subseteq home'[u].cur /\ home'[u].prev = home[u].prev
                      /\ u = t => g \in home'[u].cur
  BY <1>1
<1>4. home' \in [Tids -> Homes]
  BY <1>1 DEF Homes
<1>5. TypeOK'
  <2>1. /\ UNCHANGED <<on, cache, start, borrowed, taken, old, strays, foreign>>
        /\ used' \in [forks : Nat, moves : Nat, calls : Nat]
    <3>1. used' = [used EXCEPT !.moves = @ + 1] /\ used \in [forks : Nat, moves : Nat, calls : Nat]
      BY <1>1
    <3>2. used' \in [forks : Nat, moves : Nat, calls : Nat]
      BY <3>1
    <3> QED BY <1>1, <3>2
  <2> QED BY <1>2, <1>4, <2>1 DEF TaskState, Homes
<1>7. RunInv' /\ TaskInv'
  BY <1>1, <1>3 DEF RunInv, TaskInv
<1>8. CacheInv'
  <2> SUFFICES ASSUME NEW m \in Caching, NEW u \in Tids, cache[m][u] # None, u \notin taken,
                      ~(m = "cpu" /\ u \in borrowed)
               PROVE  \/ cache[m][u] \in home'[u].cur
                      \/ task'[u].st = "alive" /\ cache[m][u] \in home'[u].prev
    BY <1>1 DEF CacheInv
  <2>1. \/ cache[m][u] \in home[u].cur
        \/ task[u].st = "alive" /\ cache[m][u] \in home[u].prev
    BY DEF CacheInv
  <2> QED BY <1>3, <2>1
<1>9. StartInv'
  BY <1>1, <1>3 DEF StartInv
<1>6. OldInv' /\ OwnLatency' /\ ChargedToOwn'
  BY <1>1 DEF OldInv, OwnLatency, ChargedToOwn
<1> QED BY <1>5, <1>6, <1>7, <1>8, <1>9 DEF Kept

-----------------------------------------------------------------------------
(* sched and cpu *)

\* The task that is switched out is remembered with its own cgroup, its last time too.
LEMMA SwitchKeeps ==
    ASSUME TracerInv, NEW c \in Cpus, NEW next \in Tids \cup {None}, Switch(c, next)
    PROVE  TypeOK' /\ Kept'
<1> USE DEF TracerInv, TypeOK
<1> DEFINE prev == on[c]
           ended == prev # None /\ task[prev].st = "ending"
           remember == [m \in Caching |->
                           IF InTarget(prev) THEN [cache[m] EXCEPT ![prev] = task[prev].cg]
                                             ELSE cache[m]]
<1>1. /\ next # prev /\ \A d \in Cpus : on[d] # next \/ next = None
      /\ next # None => task[next].st # "free"
      /\ on' = [on EXCEPT ![c] = next] /\ cache' = remember
      /\ next # None => Counted("sched", next, cache'["sched"][next])
      /\ next = None => UNCHANGED foreign
      /\ borrowed' = IF InTarget(prev) THEN borrowed \ {prev} ELSE borrowed
      /\ task' = IF ended THEN [task EXCEPT ![prev] = Free] ELSE task
      /\ UNCHANGED <<start, used, home, taken, old, strays>>
  BY DEF Switch, Caching
<1>2. InTarget(prev) => /\ prev \in Tids /\ task[prev].cg \in Groups /\ task[prev].st # "free"
                        /\ task[prev].cg \in home[prev].cur
  BY TaskTracersAssumption DEF InTarget, RunInv, TaskInv
<1>3. cache' \in [Caching -> [Tids -> Groups \cup {None}]]
  BY <1>1, <1>2 DEF Caching
<1>4. \A m \in Caching, u \in Tids :
          cache'[m][u] = IF InTarget(prev) /\ u = prev THEN task[prev].cg ELSE cache[m][u]
  BY <1>1, <1>2 DEF Caching
<1>5. /\ task' \in [Tids -> TaskState]
      /\ \A u \in Tids : IF ended /\ u = prev THEN task'[u] = Free ELSE task'[u] = task[u]
  BY <1>1, TaskType DEF TaskState
<1> HIDE DEF remember
<1>6. /\ \A u \in Tids : cache'["sched"][u] \in Groups =>
             cache'["sched"][u] \in home[u].cur \cup home[u].prev \/ u \in taken
      /\ \A u \in Tids : cache'["sched"][u] \in Groups \cup {None}
  <2> SUFFICES ASSUME NEW u \in Tids
               PROVE  /\ cache'["sched"][u] \in Groups =>
                             cache'["sched"][u] \in home[u].cur \cup home[u].prev \/ u \in taken
                      /\ cache'["sched"][u] \in Groups \cup {None}
    OBVIOUS
  <2>1. cache["sched"][u] \in Groups => cache["sched"][u] \in home[u].cur \cup home[u].prev \/ u \in taken
    BY TaskTracersAssumption DEF CacheInv, Caching
  <2>2. CASE InTarget(prev) /\ u = prev
    BY <1>2, <1>4, <2>2 DEF Caching
  <2>3. CASE ~(InTarget(prev) /\ u = prev)
    BY <1>4, <2>1, <2>3 DEF Caching
  <2> QED BY <2>2, <2>3
<1>7. /\ foreign' \subseteq [mod : {"sched", "cpu", "sys"}, borrowed : BOOLEAN, taken : BOOLEAN]
      /\ ChargedToOwn'
  <2>1. CASE next = None
    BY <1>1, <2>1, ForeignKept
  <2>2. CASE next # None
    BY <1>1, <1>6, <2>2, CountedWell DEF ChargedToOwn
  <2> QED BY <2>1, <2>2
<1>8. TypeOK'
  <2>1. on' \in [Cpus -> Tids \cup {None}]
    BY <1>1
  <2>2. borrowed' \subseteq Tids
    BY <1>1
  <2> QED BY <1>1, <1>3, <1>5, <1>7, <2>1, <2>2 DEF TaskState, Caching
<1>9. RunInv'
  <2> SUFFICES ASSUME NEW d \in Cpus, on'[d] # None
               PROVE  /\ task'[on'[d]].st # "free"
                      /\ \A x \in Cpus : on'[x] = on'[d] => x = d
    BY DEF RunInv
  <2>1. on'[d] \in Tids /\ task[on'[d]].st # "free"
    BY <1>1 DEF RunInv
  <2>2. on'[d] # prev
    BY <1>1 DEF RunInv
  <2>3. task'[on'[d]] = task[on'[d]]
    BY <1>5, <2>1, <2>2
  <2>4. \A x \in Cpus : on'[x] = on'[d] => x = d
    BY <1>1 DEF RunInv
  <2> QED BY <2>1, <2>3, <2>4
<1>10. TaskInv'
  BY <1>1, <1>5 DEF TaskInv, Free
<1>11. CacheInv'
  <2> SUFFICES ASSUME NEW m \in Caching, NEW u \in Tids, cache'[m][u] # None, u \notin taken,
                      ~(m = "cpu" /\ u \in borrowed')
               PROVE  \/ cache'[m][u] \in home[u].cur
                      \/ task'[u].st = "alive" /\ cache'[m][u] \in home[u].prev
    BY <1>1 DEF CacheInv
  <2>1. CASE InTarget(prev) /\ u = prev
    BY <1>2, <1>4, <2>1
  <2>2. CASE ~(InTarget(prev) /\ u = prev)
    <3>1. cache'[m][u] = cache[m][u] /\ ~(m = "cpu" /\ u \in borrowed)
      BY <1>1, <1>4, <2>2
    <3>2. \/ cache[m][u] \in home[u].cur
          \/ task[u].st = "alive" /\ cache[m][u] \in home[u].prev
      BY <3>1 DEF CacheInv
    <3>3. task[u].st = "alive" => task'[u] = task[u]
      BY <1>5
    <3> QED BY <3>1, <3>2, <3>3
  <2> QED BY <2>1, <2>2
<1>12. StartInv'
  <2> SUFFICES ASSUME NEW u \in Tids, NEW s \in Calls, start[u][s] # None, s # "exit",
                      s = "execve" => u \notin taken
               PROVE  task'[u].call = s /\ start[u][s] \in home[u].cur
    BY <1>1 DEF StartInv
  <2>1. task[u].call = s /\ start[u][s] \in home[u].cur
    BY DEF StartInv
  <2>2. task[u].st # "ending"
    BY <2>1, TaskTracersAssumption DEF TaskInv
  <2> QED BY <1>5, <2>1, <2>2
<1>13. OldInv' /\ OwnLatency'
  BY <1>1 DEF OldInv, OwnLatency
<1> QED BY <1>7, <1>8, <1>9, <1>10, <1>11, <1>12, <1>13 DEF Kept

\* A wakeup or a wait only counts.
LEMMA CountKeeps ==
    ASSUME TracerInv, NEW t \in Tids, Wakeup(t) \/ Wait(t)
    PROVE  TypeOK' /\ Kept'
<1>1. UNCHANGED <<task, on, cache, start, used, home, borrowed, taken, old, strays>>
  BY DEF Wakeup, Wait
<1>2. /\ foreign' \subseteq [mod : {"sched", "cpu", "sys"}, borrowed : BOOLEAN, taken : BOOLEAN]
      /\ ChargedToOwn'
  <2>1. CASE Wakeup(t)
    BY <2>1, CacheCounts DEF Wakeup, ChargedToOwn, Caching
  <2>2. CASE Wait(t)
    BY <2>2, CacheCounts DEF Wait, ChargedToOwn, Caching
  <2> QED BY <2>1, <2>2
<1>3. TypeOK'
  BY <1>1, <1>2 DEF TracerInv, TypeOK
<1>4. RunInv' /\ TaskInv'
  BY <1>1 DEF TracerInv, RunInv, TaskInv
<1>5. CacheInv' /\ StartInv'
  BY <1>1 DEF TracerInv, CacheInv, StartInv
<1>6. OldInv' /\ OwnLatency'
  BY <1>1 DEF TracerInv, OldInv, OwnLatency
<1> QED BY <1>2, <1>3, <1>4, <1>5, <1>6 DEF Kept

\* What cpu stores for a number is of its task, or the number is then a borrowed one.
LEMMA StatRuntimeKeeps ==
    ASSUME TracerInv, NEW c \in Cpus, NEW d \in Cpus, StatRuntime(c, d)
    PROVE  TypeOK' /\ Kept'
<1> DEFINE cur == on[c]
           t == on[d]
           g == task[cur].cg
<1>1. /\ t # None
      /\ IF InTarget(cur)
         THEN /\ cache' = [cache EXCEPT !["cpu"][t] = g]
              /\ IF t = cur THEN Counted("cpu", t, g) ELSE UNCHANGED foreign
              /\ borrowed' = IF t = cur THEN borrowed \ {t} ELSE borrowed \cup {t}
         ELSE /\ Counted("cpu", t, cache["cpu"][t])
              /\ UNCHANGED <<cache, borrowed>>
      /\ UNCHANGED <<task, on, start, used, home, taken, old, strays>>
  BY DEF StatRuntime
<1>2. t \in Tids /\ borrowed \subseteq Tids /\ borrowed' \subseteq Tids
  BY <1>1 DEF TracerInv, TypeOK
<1>3. InTarget(cur) => cur \in Tids /\ g \in Groups /\ g \in home[cur].cur
  BY TaskTracersAssumption DEF InTarget, TracerInv, TypeOK, RunInv, TaskInv
<1>4. /\ foreign' \subseteq [mod : {"sched", "cpu", "sys"}, borrowed : BOOLEAN, taken : BOOLEAN]
      /\ ChargedToOwn'
  <2>1. CASE InTarget(cur) /\ t = cur
    BY <1>1, <1>2, <1>3, <2>1, CountedWell DEF ChargedToOwn
  <2>2. CASE InTarget(cur) /\ t # cur
    BY <1>1, <2>2, ForeignKept
  <2>3. CASE ~InTarget(cur)
    BY <1>1, <1>2, <2>3, CacheCounts DEF ChargedToOwn, Caching
  <2> QED BY <2>1, <2>2, <2>3
<1>5. cache \in [Caching -> [Tids -> Groups \cup {None}]]
  BY DEF TracerInv, TypeOK, Caching
<1>6. cache' \in [Caching -> [Tids -> Groups \cup {None}]]
  BY <1>1, <1>2, <1>3, <1>5 DEF Caching
<1>7. \A m \in Caching, u \in Tids :
          cache'[m][u] = IF InTarget(cur) /\ m = "cpu" /\ u = t THEN g ELSE cache[m][u]
  BY <1>1, <1>2, <1>5 DEF Caching
<1>8. TypeOK'
  BY <1>1, <1>2, <1>4, <1>6 DEF TracerInv, TypeOK, Caching
<1>9. RunInv' /\ TaskInv'
  BY <1>1 DEF TracerInv, RunInv, TaskInv
<1>10. CacheInv'
  <2> SUFFICES ASSUME NEW m \in Caching, NEW u \in Tids, cache'[m][u] # None, u \notin taken,
                      ~(m = "cpu" /\ u \in borrowed')
               PROVE  \/ cache'[m][u] \in home[u].cur
                      \/ task[u].st = "alive" /\ cache'[m][u] \in home[u].prev
    BY <1>1 DEF CacheInv
  <2>1. CASE InTarget(cur) /\ m = "cpu" /\ u = t
    BY <1>1, <1>3, <1>7, <2>1
  <2>2. CASE ~(InTarget(cur) /\ m = "cpu" /\ u = t)
    <3>1. cache'[m][u] = cache[m][u] /\ ~(m = "cpu" /\ u \in borrowed)
      BY <1>1, <1>7, <2>2
    <3> QED BY <3>1 DEF TracerInv, CacheInv
  <2> QED BY <2>1, <2>2
<1>11. StartInv'
  BY <1>1 DEF TracerInv, StartInv
<1>12. OldInv' /\ OwnLatency'
  BY <1>1 DEF TracerInv, OldInv, OwnLatency
<1> QED BY <1>4, <1>8, <1>9, <1>10, <1>11, <1>12 DEF Kept

\* A task that ends is forgotten, in whatever cgroup it is.
LEMMA ExitKeeps ==
    ASSUME TracerInv, NEW c \in Cpus, Exit(c)
    PROVE  TypeOK' /\ Kept'
<1> DEFINE t == on[c]
           r == [task[t] EXCEPT !.st = "ending"]
<1>1. /\ t # None /\ task[t].st = "alive" /\ task[t].call \in {None, "exit"}
      /\ task' = [task EXCEPT ![t] = r]
      /\ cache' = [m \in Caching |-> [cache[m] EXCEPT ![t] = None]]
      /\ borrowed' = borrowed \ {t}
      /\ UNCHANGED <<on, start, used, home, taken, old, strays, foreign>>
  BY Zenon DEF Exit, Caching
<1>2. t \in Tids /\ task \in [Tids -> TaskState]
  BY <1>1 DEF TracerInv, TypeOK, TaskState
<1>3. task[t] \in TaskState
  BY <1>2
<1>4. r \in TaskState /\ r.st = "ending" /\ r.cg = task[t].cg /\ r.call = task[t].call
  BY <1>3, EndedType DEF TaskState
<1> HIDE DEF r
<1>5. task' \in [Tids -> TaskState]
  BY <1>1, <1>2, <1>4, TasksUpdated DEF TracerInv
<1>6. \A u \in Tids : task'[u] = IF u = t THEN r ELSE task[u]
  BY <1>1, <1>2
<1>7. cache \in [Caching -> [Tids -> Groups \cup {None}]]
  BY DEF TracerInv, TypeOK, Caching
<1>8. /\ cache' \in [Caching -> [Tids -> Groups \cup {None}]]
      /\ \A m \in Caching, u \in Tids : cache'[m][u] = IF u = t THEN None ELSE cache[m][u]
  BY <1>1, <1>2, <1>7
<1>9. ChargedToOwn' /\ foreign' = foreign
  BY <1>1, ForeignKept
<1>10. TypeOK'
  <2>1. UNCHANGED <<on, start, used, home, taken, old, strays, foreign>> /\ borrowed' \subseteq borrowed
    BY <1>1
  <2> QED BY <1>5, <1>8, <2>1 DEF TracerInv, TypeOK, TaskState, Caching
<1>11. RunInv'
  BY <1>1, <1>4, <1>6, <1>2 DEF TracerInv, TypeOK, RunInv
<1>12. TaskInv'
  BY <1>1, <1>4, <1>6 DEF TracerInv, TaskInv
<1>13. CacheInv'
  <2> SUFFICES ASSUME NEW m \in Caching, NEW u \in Tids, cache'[m][u] # None, u \notin taken,
                      ~(m = "cpu" /\ u \in borrowed')
               PROVE  \/ cache'[m][u] \in home[u].cur
                      \/ task'[u].st = "alive" /\ cache'[m][u] \in home[u].prev
    BY <1>1 DEF CacheInv
  <2>1. u # t /\ cache'[m][u] = cache[m][u] /\ task'[u] = task[u]
    BY <1>6, <1>8
  <2>2. ~(m = "cpu" /\ u \in borrowed)
    BY <1>1, <2>1
  <2> QED BY <2>1, <2>2 DEF TracerInv, CacheInv
<1>14. StartInv'
  BY <1>1, <1>4, <1>6 DEF TracerInv, StartInv
<1>15. OldInv' /\ OwnLatency'
  BY <1>1 DEF TracerInv, OldInv, OwnLatency
<1> QED BY <1>9, <1>10, <1>11, <1>12, <1>13, <1>14, <1>15 DEF Kept

-----------------------------------------------------------------------------
(* sys *)

\* A task that enters a call has left the one before: no entry is another call's.
LEMMA SysEnterKeeps ==
    ASSUME TracerInv, NEW c \in Cpus, NEW s \in Calls, SysEnter(c, s)
    PROVE  TypeOK' /\ Kept'
<1> DEFINE t == on[c]
           r == [task[t] EXCEPT !.call = s]
<1>1. /\ t # None /\ task[t].st = "alive" /\ task[t].call = None
      /\ task' = [task EXCEPT ![t] = r]
      /\ IF InTarget(t)
         THEN start' = [start EXCEPT ![t][s] = task[t].cg] /\ old' = old \ {<<t, s>>}
         ELSE /\ old' = IF start[t][s] # None THEN old \cup {<<t, s>>} ELSE old
              /\ start' = start
      /\ UNCHANGED <<on, cache, home, borrowed, taken, strays, foreign>>
  BY Zenon DEF SysEnter
<1>2. t \in Tids /\ task \in [Tids -> TaskState]
  BY <1>1 DEF TracerInv, TypeOK, TaskState
<1>3. task[t] \in TaskState
  BY <1>2
<1>4. r \in TaskState /\ r.st = "alive" /\ r.cg = task[t].cg /\ r.call = s
  BY <1>1, <1>3, CalledType DEF TaskState
<1> HIDE DEF r
<1>5. task' \in [Tids -> TaskState]
  BY <1>1, <1>2, <1>4, TasksUpdated DEF TracerInv
<1>6. \A u \in Tids : task'[u] = IF u = t THEN r ELSE task[u]
  BY <1>1, <1>2
<1>7. task[t].cg \in home[t].cur /\ task[t].cg \in Groups
  BY <1>1, <1>2 DEF TracerInv, TypeOK, TaskInv
<1>8. start \in [Tids -> [Calls -> Groups \cup {None}]]
  BY DEF TracerInv, TypeOK
<1>9. /\ start' \in [Tids -> [Calls -> Groups \cup {None}]]
      /\ \A u \in Tids, x \in Calls :
             start'[u][x] = IF InTarget(t) /\ u = t /\ x = s THEN task[t].cg ELSE start[u][x]
  BY <1>1, <1>2, <1>7, <1>8
<1>10. \A x \in Calls : start[t][x] # None => x \in {"execve", "exit"}
                                             /\ (x = "execve" => t \in taken)
  BY <1>1, <1>2, TaskTracersAssumption DEF TracerInv, StartInv
<1>11. ChargedToOwn' /\ foreign' = foreign
  BY <1>1, ForeignKept
<1>12. used' \in [forks : Nat, moves : Nat, calls : Nat]
  <2>1. used' = [used EXCEPT !.calls = @ + 1] /\ used \in [forks : Nat, moves : Nat, calls : Nat]
    BY DEF SysEnter, TracerInv, TypeOK
  <2> QED BY <2>1
<1>13. TypeOK'
  <2>1. UNCHANGED <<on, cache, home, borrowed, taken, strays, foreign>>
    BY <1>1
  <2>2. old' \subseteq Tids \X Calls
    BY <1>1, <1>2 DEF TracerInv, TypeOK
  <2> QED BY <1>5, <1>9, <1>12, <2>1, <2>2 DEF TracerInv, TypeOK, TaskState
<1>14. RunInv'
  BY <1>1, <1>2, <1>4, <1>6 DEF TracerInv, TypeOK, RunInv
<1>15. TaskInv'
  BY <1>1, <1>4, <1>6 DEF TracerInv, TaskInv
<1>16. CacheInv'
  BY <1>1, <1>4, <1>6 DEF TracerInv, CacheInv
<1>17. StartInv'
  <2> SUFFICES ASSUME NEW u \in Tids, NEW x \in Calls, start'[u][x] # None, x # "exit",
                      x = "execve" => u \notin taken
               PROVE  task'[u].call = x /\ start'[u][x] \in home[u].cur
    BY <1>1 DEF StartInv
  <2>1. CASE u # t
    BY <1>6, <1>9, <2>1 DEF TracerInv, StartInv
  <2>2. CASE u = t
    <3>1. InTarget(t) /\ x = s
      BY <1>9, <1>10, <2>2
    <3> QED BY <1>4, <1>6, <1>7, <1>9, <2>2, <3>1
  <2> QED BY <2>1, <2>2
<1>18. OldInv'
  BY <1>1, <1>2, <1>10 DEF TracerInv, OldInv
<1>19. OwnLatency'
  BY <1>1 DEF TracerInv, OwnLatency
<1> QED BY <1>11, <1>13, <1>14, <1>15, <1>16, <1>17, <1>18, <1>19 DEF Kept

\* What is measured was stored by the same task as it entered the same call.
LEMMA SysExitKeeps ==
    ASSUME TracerInv, NEW c \in Cpus, SysExit(c)
    PROVE  TypeOK' /\ Kept'
<1> DEFINE t == on[c]
           s == task[t].call
           r == [task[t] EXCEPT !.call = None]
<1>1. /\ t # None /\ s \notin {None, "exit"}
      /\ Counted("sys", t, start[t][s])
      /\ strays' = IF <<t, s>> \in old THEN strays \cup {s} ELSE strays
      /\ start' = [start EXCEPT ![t][s] = None] /\ old' = old \ {<<t, s>>}
      /\ task' = [task EXCEPT ![t] = r]
      /\ UNCHANGED <<on, cache, used, home, borrowed, taken>>
  BY Zenon DEF SysExit
<1>2. t \in Tids /\ task \in [Tids -> TaskState]
  BY <1>1 DEF TracerInv, TypeOK, TaskState
<1>3. task[t] \in TaskState /\ s \in Calls
  BY <1>1, <1>2 DEF TaskState
<1>4. r \in TaskState /\ r.st = task[t].st /\ r.cg = task[t].cg /\ r.call = None
  BY <1>3, CalledType DEF TaskState
<1> HIDE DEF r
<1>5. task' \in [Tids -> TaskState]
  BY <1>1, <1>2, <1>4, TasksUpdated DEF TracerInv
<1>6. \A u \in Tids : task'[u] = IF u = t THEN r ELSE task[u]
  BY <1>1, <1>2
<1>7. start \in [Tids -> [Calls -> Groups \cup {None}]]
  BY DEF TracerInv, TypeOK
<1>8. /\ start' \in [Tids -> [Calls -> Groups \cup {None}]]
      /\ \A u \in Tids, x \in Calls : start'[u][x] = IF u = t /\ x = s THEN None ELSE start[u][x]
  BY <1>1, <1>2, <1>3, <1>7
<1>9. start[t][s] \in Groups \cup {None} /\ (start[t][s] \in Groups => start[t][s] # None)
  BY <1>2, <1>3, <1>7, TaskTracersAssumption
<1>10. start[t][s] \in Groups => start[t][s] \in home[t].cur \/ t \in taken
  BY <1>1, <1>2, <1>3, <1>9 DEF TracerInv, StartInv
<1>11. /\ foreign' \subseteq [mod : {"sched", "cpu", "sys"}, borrowed : BOOLEAN, taken : BOOLEAN]
       /\ ChargedToOwn'
  BY <1>1, <1>2, <1>9, <1>10, CountedWell DEF ChargedToOwn
<1>12. OwnLatency' /\ strays' \subseteq Calls
  BY <1>1, <1>2, <1>3 DEF TracerInv, TypeOK, OldInv, OwnLatency
<1>13. TypeOK'
  <2>1. UNCHANGED <<on, cache, used, home, borrowed, taken>> /\ old' \subseteq old
    BY <1>1
  <2> QED BY <1>5, <1>8, <1>11, <1>12, <2>1 DEF TracerInv, TypeOK, TaskState
<1>14. RunInv'
  BY <1>1, <1>2, <1>4, <1>6 DEF TracerInv, TypeOK, RunInv
<1>15. TaskInv'
  BY <1>1, <1>4, <1>6 DEF TracerInv, TaskInv
<1>16. CacheInv'
  BY <1>1, <1>4, <1>6 DEF TracerInv, CacheInv
<1>17. StartInv'
  <2> SUFFICES ASSUME NEW u \in Tids, NEW x \in Calls, start'[u][x] # None, x # "exit",
                      x = "execve" => u \notin taken
               PROVE  task'[u].call = x /\ start'[u][x] \in home[u].cur
    BY <1>1 DEF StartInv
  <2>1. start[u][x] = start'[u][x] /\ ~(u = t /\ x = s)
    BY <1>8
  <2>2. task[u].call = x /\ start[u][x] \in home[u].cur
    BY <2>1 DEF TracerInv, StartInv
  <2> QED BY <1>6, <2>1, <2>2
<1>18. OldInv'
  BY <1>1 DEF TracerInv, OldInv
<1> QED BY <1>11, <1>12, <1>13, <1>14, <1>15, <1>16, <1>17, <1>18 DEF Kept

\* Under its new number the task has no entry of its own; what the number kept is old.
LEMMA TakeNumberKeeps ==
    ASSUME TracerInv, NEW c \in Cpus, NEW leader \in Tids, TakeNumber(c, leader)
    PROVE  TypeOK' /\ Kept'
<1> DEFINE t == on[c]
           h == [cur |-> {task[t].cg}, prev |-> home[leader].cur]
<1>1. /\ t # None /\ task[t].call = "execve" /\ task[leader] = Free
      /\ task' = [task EXCEPT ![leader] = task[t], ![t] = Free]
      /\ on' = [on EXCEPT ![c] = leader]
      /\ taken' = taken \cup {t}
      /\ old' = IF start[leader]["execve"] # None THEN old \cup {<<leader, "execve">>} ELSE old
      /\ UNCHANGED <<cache, start, used, borrowed, strays, foreign>>
  BY DEF TakeNumber
<1>2. home' = [home EXCEPT ![leader] = h]
  BY DEF TakeNumber, Renamed
<1>3. /\ t \in Tids /\ task \in [Tids -> TaskState] /\ home \in [Tids -> Homes]
      /\ task[t] \in TaskState /\ home[leader] \in Homes
  BY <1>1 DEF TracerInv, TypeOK, TaskState, Homes
<1>4. task[t].st # "free" /\ t # leader /\ Free.st = "free" /\ Free.call = None
  BY <1>1 DEF TracerInv, RunInv, Free
<1>5. task[t].st = "alive" /\ task[t].cg \in home[t].cur /\ task[t].cg \in Groups
      /\ "execve" \in Calls
  <2>1. task[t].cg \in home[t].cur /\ home[t].cur \subseteq Groups
    BY <1>3, <1>4 DEF TracerInv, TaskInv, Homes
  <2>2. "execve" \in Calls /\ "execve" # None
    BY TaskTracersAssumption
  <2>3. task[t].st # "ending"
    BY <1>1, <1>3, <2>2 DEF TracerInv, TaskInv
  <2> QED BY <1>3, <1>4, <2>1, <2>2, <2>3 DEF TaskState
<1>6. h \in Homes /\ h.cur = {task[t].cg} /\ h.prev = home[leader].cur
  BY <1>3, <1>5 DEF Homes
<1> HIDE DEF h
<1>7. /\ task' \in [Tids -> TaskState]
      /\ \A u \in Tids : task'[u] = IF u = leader THEN task[t] ELSE IF u = t THEN Free ELSE task[u]
  BY <1>1, <1>3, <1>4, TaskType
<1>8. /\ home' \in [Tids -> Homes]
      /\ \A u \in Tids : home'[u] = IF u = leader THEN h ELSE home[u]
  BY <1>2, <1>3, <1>6
<1>9. ChargedToOwn' /\ foreign' = foreign
  BY <1>1, ForeignKept
<1>10. /\ on' \in [Cpus -> Tids \cup {None}]
       /\ \A d \in Cpus : on'[d] = IF d = c THEN leader ELSE on[d]
  BY <1>1 DEF TracerInv, TypeOK
<1>11. TypeOK'
  <2>1. UNCHANGED <<cache, start, used, borrowed, strays, foreign>>
    BY <1>1
  <2>2. old' \subseteq Tids \X Calls
    BY <1>1, <1>5 DEF TracerInv, TypeOK
  <2>3. taken' \subseteq Tids
    BY <1>1, <1>3 DEF TracerInv, TypeOK
  <2> QED BY <1>7, <1>8, <1>10, <2>1, <2>2, <2>3 DEF TracerInv, TypeOK, TaskState, Homes
<1>12. RunInv'
  <2> SUFFICES ASSUME NEW d \in Cpus, on'[d] # None
               PROVE  /\ task'[on'[d]].st # "free"
                      /\ \A x \in Cpus : on'[x] = on'[d] => x = d
    BY DEF RunInv
  <2>1. \A x \in Cpus : on[x] # leader
    BY <1>1, <1>4, TaskTracersAssumption DEF TracerInv, RunInv
  <2>2. \A x \in Cpus : on'[x] = on'[d] => x = d
    BY <1>10, <2>1 DEF TracerInv, RunInv
  <2>3. CASE d = c
    BY <1>4, <1>7, <1>10, <2>2, <2>3
  <2>4. CASE d # c
    <3>1. on'[d] = on[d] /\ on[d] \in Tids /\ on[d] # t /\ on[d] # leader
      BY <1>10, <2>1, <2>4, <1>1 DEF TracerInv, TypeOK, RunInv
    <3>2. task[on[d]].st # "free"
      BY <3>1, <2>4, <1>10 DEF TracerInv, RunInv
    <3> QED BY <1>7, <2>2, <3>1, <3>2
  <2> QED BY <2>3, <2>4
<1>13. TaskInv'
  <2> SUFFICES ASSUME NEW u \in Tids
               PROVE  /\ task'[u].st = "free" => task'[u].call = None
                      /\ task'[u].st # "free" => task'[u].cg \in home'[u].cur
                      /\ task'[u].st = "ending" => task'[u].call \in {None, "exit"}
    BY DEF TaskInv
  <2>1. CASE u = leader
    BY <1>5, <1>6, <1>7, <1>8, <2>1
  <2>2. CASE u = t /\ u # leader
    BY <1>4, <1>7, <2>2
  <2>3. CASE u # t /\ u # leader
    BY <1>7, <1>8, <2>3 DEF TracerInv, TaskInv
  <2> QED BY <2>1, <2>2, <2>3
<1>14. CacheInv'
  <2> SUFFICES ASSUME NEW m \in Caching, NEW u \in Tids, cache[m][u] # None, u \notin taken',
                      ~(m = "cpu" /\ u \in borrowed)
               PROVE  \/ cache[m][u] \in home'[u].cur
                      \/ task'[u].st = "alive" /\ cache[m][u] \in home'[u].prev
    BY <1>1 DEF CacheInv
  <2>1. u # t /\ u \notin taken
    BY <1>1
  <2>2. \/ cache[m][u] \in home[u].cur
        \/ task[u].st = "alive" /\ cache[m][u] \in home[u].prev
    BY <2>1 DEF TracerInv, CacheInv
  <2>3. CASE u = leader
    BY <1>1, <1>4, <1>5, <1>6, <1>7, <1>8, <2>2, <2>3
  <2>4. CASE u # leader
    BY <1>7, <1>8, <2>1, <2>2, <2>4
  <2> QED BY <2>3, <2>4
<1>15. StartInv'
  <2> SUFFICES ASSUME NEW u \in Tids, NEW s \in Calls, start[u][s] # None, s # "exit",
                      s = "execve" => u \notin taken'
               PROVE  task'[u].call = s /\ start[u][s] \in home'[u].cur
    BY <1>1 DEF StartInv
  <2>1. s = "execve" => u # t /\ u \notin taken
    BY <1>1
  <2>2. task[u].call = s /\ start[u][s] \in home[u].cur
    BY <2>1 DEF TracerInv, StartInv
  <2>3. u # leader
    BY <1>1, <1>4, <2>2, TaskTracersAssumption
  <2>4. u # t
    BY <1>1, <2>1, <2>2
  <2> QED BY <1>7, <1>8, <2>2, <2>3, <2>4
<1>16. OldInv'
  <2>1. old' \subseteq old \cup {<<leader, "execve">>}
    BY <1>1
  <2> QED BY <2>1 DEF TracerInv, OldInv
<1>17. OwnLatency'
  BY <1>1 DEF TracerInv, OwnLatency
<1> QED BY <1>17, <1>9, <1>11, <1>12, <1>13, <1>14, <1>15, <1>16 DEF Kept

\* An entry that is evicted is only missing.
LEMMA EvictKeeps ==
    ASSUME TracerInv, NEW t \in Tids, Evict(t)
    PROVE  TypeOK' /\ Kept'
<1>1. UNCHANGED <<task, on, home, taken, strays, foreign>>
  BY DEF Evict
<1>2. /\ cache \in [Caching -> [Tids -> Groups \cup {None}]]
      /\ start \in [Tids -> [Calls -> Groups \cup {None}]]
  BY DEF TracerInv, TypeOK, Caching
<1>3. /\ cache' \in [Caching -> [Tids -> Groups \cup {None}]]
      /\ start' \in [Tids -> [Calls -> Groups \cup {None}]]
      /\ \A m \in Caching, u \in Tids : cache'[m][u] # None =>
             cache'[m][u] = cache[m][u] /\ (m = "cpu" /\ u \in borrowed => u \in borrowed')
      /\ \A u \in Tids, s \in Calls : start'[u][s] # None => start'[u][s] = start[u][s]
      /\ borrowed' \subseteq borrowed /\ old' \subseteq old
  <2>1. CASE \E m \in Caching : /\ cache[m][t] # None /\ cache' = [cache EXCEPT ![m][t] = None]
                                /\ borrowed' = IF m = "cpu" THEN borrowed \ {t} ELSE borrowed
                                /\ UNCHANGED <<start, old>>
    <3>1. PICK m \in Caching : /\ cache[m][t] # None /\ cache' = [cache EXCEPT ![m][t] = None]
                               /\ borrowed' = IF m = "cpu" THEN borrowed \ {t} ELSE borrowed
                               /\ UNCHANGED <<start, old>>
      BY <2>1
    <3>2. /\ cache' \in [Caching -> [Tids -> Groups \cup {None}]]
          /\ \A n \in Caching, u \in Tids : cache'[n][u] = IF n = m /\ u = t THEN None ELSE cache[n][u]
      BY <1>2, <3>1
    <3>3. borrowed' = IF m = "cpu" THEN borrowed \ {t} ELSE borrowed
      BY <3>1
    <3> QED BY <1>2, <3>1, <3>2, <3>3
  <2>2. CASE \E s \in Calls : /\ start[t][s] # None /\ start' = [start EXCEPT ![t][s] = None]
                             /\ old' = old \ {<<t, s>>} /\ UNCHANGED <<cache, borrowed>>
    <3>1. PICK s \in Calls : /\ start' = [start EXCEPT ![t][s] = None]
                             /\ old' = old \ {<<t, s>>} /\ UNCHANGED <<cache, borrowed>>
      BY <2>2
    <3>2. /\ start' \in [Tids -> [Calls -> Groups \cup {None}]]
          /\ \A u \in Tids, x \in Calls : start'[u][x] = IF u = t /\ x = s THEN None ELSE start[u][x]
      BY <1>2, <3>1
    <3> QED BY <1>2, <3>1, <3>2
  <2> QED BY <2>1, <2>2 DEF Evict, Caching
<1>4. used' \in [forks : Nat, moves : Nat, calls : Nat]
  <2>1. used' = [used EXCEPT !.moves = @ + 1] /\ used \in [forks : Nat, moves : Nat, calls : Nat]
    BY DEF Evict, TracerInv, TypeOK
  <2> QED BY <2>1
<1>5. ChargedToOwn' /\ foreign' = foreign
  BY <1>1, ForeignKept
<1>6. TypeOK'
  <2>1. borrowed' \subseteq Tids /\ old' \subseteq Tids \X Calls
    BY <1>3 DEF TracerInv, TypeOK
  <2> QED BY <1>1, <1>3, <1>4, <2>1 DEF TracerInv, TypeOK, Caching
<1>7. RunInv' /\ TaskInv'
  BY <1>1 DEF TracerInv, RunInv, TaskInv
<1>8. CacheInv'
  BY <1>1, <1>3 DEF TracerInv, CacheInv
<1>9. StartInv'
  BY <1>1, <1>3 DEF TracerInv, StartInv
<1>10. OldInv' /\ OwnLatency'
  BY <1>1, <1>3 DEF TracerInv, OldInv, OwnLatency
<1> QED BY <1>5, <1>6, <1>7, <1>8, <1>9, <1>10 DEF Kept

-----------------------------------------------------------------------------
(* Theorems *)

LEMMA TracerStep == TracerInv /\ [Next]_vars => TracerInv'
<1> SUFFICES ASSUME TracerInv, [Next]_vars PROVE TracerInv'
  OBVIOUS
<1>1. ASSUME NEW c \in Cpus, Cpu(c) PROVE TypeOK' /\ Kept'
  <2>1. CASE \E next \in Tids \cup {None} : Switch(c, next)
    BY <2>1, SwitchKeeps
  <2>2. CASE \E d \in Cpus : StatRuntime(c, d)
    BY <2>2, StatRuntimeKeeps
  <2>3. CASE \E s \in Calls : SysEnter(c, s)
    BY <2>3, SysEnterKeeps
  <2>4. CASE \E leader \in Tids : TakeNumber(c, leader)
    BY <2>4, TakeNumberKeeps
  <2>5. CASE SysExit(c)
    BY <2>5, SysExitKeeps
  <2>6. CASE Exit(c)
    BY <2>6, ExitKeeps
  <2> QED BY <1>1, <2>1, <2>2, <2>3, <2>4, <2>5, <2>6 DEF Cpu
<1>2. ASSUME NEW t \in Tids, Task(t) PROVE TypeOK' /\ Kept'
  <2>1. CASE Wakeup(t) \/ Wait(t)
    BY <2>1, CountKeeps
  <2>2. CASE Evict(t)
    BY <2>2, EvictKeeps
  <2>3. CASE \E g \in Groups : Fork(t, g)
    BY <2>3, ForkKeeps
  <2>4. CASE \E g \in Groups : Move(t, g)
    BY <2>4, MoveKeeps
  <2> QED BY <1>2, <2>1, <2>2, <2>3, <2>4 DEF Task
<1>3. CASE UNCHANGED vars
  BY <1>3 DEF vars, history, TracerInv, TypeOK, RunInv, TaskInv, CacheInv, StartInv, OldInv,
              ChargedToOwn, OwnLatency
<1> QED BY <1>1, <1>2, <1>3 DEF Next, Kept, TracerInv

LEMMA TracerSafe == Spec => []TracerInv
BY TracerInit, TracerStep, PTL DEF Spec

\* The variables of the task tracers keep their types.
THEOREM TracersTypeCorrect == Spec => []TypeOK
<1>1. TracerInv => TypeOK
  BY DEF TracerInv
<1> QED BY <1>1, TracerSafe, PTL

\* Events go to a cgroup of their task or of the one before it, but for the exceptions
\* of sched_stat_runtime on another task and of execve by a thread.
THEOREM EventsCharged == Spec => []ChargedToOwn
<1>1. TracerInv => ChargedToOwn
  BY DEF TracerInv
<1> QED BY <1>1, TracerSafe, PTL

\* A system call other than execve is measured from its own entry.
THEOREM CallsOwnLatency == Spec => []OwnLatency
<1>1. TracerInv => OwnLatency
  BY DEF TracerInv
<1> QED BY <1>1, TracerSafe, PTL
=============================================================================
