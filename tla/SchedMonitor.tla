---------------------------- MODULE SchedMonitor ----------------------------
(***************************************************************************)
(* The scheduler monitor.  Its main function walks the cgroups under the   *)
(* target and allows each of them, attaches the BPF programs and reads     *)
(* their ring buffer until a signal.  A program that handles an event of   *)
(* an allowed cgroup reserves a record, adds to the statistics of the      *)
(* cgroup and submits the record; the one for runtimes adds first.         *)
(*                                                                         *)
(* Containers come and go during the walk, and the programs run on all     *)
(* CPUs.  An event with a runtime below the threshold leaves no trace, the *)
(* other runtimes count one each.                                          *)
(***************************************************************************)
EXTENDS Naturals, Sequences, FiniteSets

CONSTANTS
    Tree,          \* the cgroups there may be under the target, and the target
    Root,          \* the target, gocker
    Parent,        \* Parent[d], of every d but Root
    Cpus,
    Counting,      \* kinds of events that are counted after the reservation
    Runtime,       \* the kind that is counted before
    None,
    AllowSize,     \* max_entries of allowed_cgroups
    StatSize,      \* max_entries of cg_stats
    RingSize,      \* records in the ring buffer
    MaxEvents,     \* bound: events that are handled
    MaxChanges     \* bound: cgroups that are created or removed

Kinds == Counting \cup {Runtime}

ASSUME SchedMonitorAssumption ==
    /\ Root \in Tree /\ Parent \in [Tree \ {Root} -> Tree]
    /\ \A D \in SUBSET Tree :        \* every cgroup is below Root
           Root \in D /\ (\A d \in Tree \ {Root} : Parent[d] \in D => d \in D) => D = Tree
    /\ None \notin Tree /\ IsFiniteSet(Cpus)
    /\ Runtime \notin Counting
    /\ AllowSize \in Nat /\ StatSize \in Nat /\ RingSize \in Nat
    /\ MaxEvents \in Nat /\ MaxChanges \in Nat

VARIABLES
    dirs,      \* the cgroups under the target that exist
    gone,      \* those that were removed; an inode is not used again
    main,      \* "walking", "attaching", "running", "failed", "exited"
    changes,
    cur,       \* the directory walk_cgroup_tree reads, None before the first
    picked,    \* the entry readdir returned last
    seen,      \* what readdir has returned of each open directory
    walked,    \* directories that were read to their end
    allowed,   \* allowed_cgroups
    handled,
    run,       \* the program on each CPU: what it does next, for which event
    log,       \* all records reserved so far
    head,      \* the records the monitor has read
    known,     \* the cgroups in cg_stats
    stats,     \* their counts
    listed,    \* history: the entries each open directory had when it was opened
    constant,  \* history: the cgroups that existed all the time
    crowded    \* history: the cgroups cg_stats had no room for

walk == <<cur, picked, seen, walked, allowed, listed>>
programs == <<handled, run, log, known, stats, crowded>>
vars == <<dirs, gone, changes, main, walk, programs, head, constant>>

Below(d) == {e \in dirs \ {Root} : Parent[e] = d}
Pending == Len(log) - head

Idle == [pc |-> "idle", kind |-> Runtime, cg |-> Root, rec |-> 0]

Init ==
    /\ dirs \in {D \in SUBSET Tree : \A d \in D \ {Root} : Parent[d] \in D}
    /\ gone = {} /\ constant = dirs
    /\ main = "walking" /\ changes = 0
    /\ cur = None /\ picked = Root /\ walked = {} /\ allowed = {}
    /\ seen = [d \in Tree |-> {}] /\ listed = [d \in Tree |-> {}]
    /\ handled = 0 /\ run = [c \in Cpus |-> Idle]
    /\ log = <<>> /\ head = 0
    /\ known = {} /\ stats = [g \in Tree |-> [k \in Kinds |-> 0]]
    /\ crowded = {}

(***************************************************************************)
(* Containers                                                              *)
(***************************************************************************)
Create(d) ==
    /\ changes < MaxChanges /\ changes' = changes + 1
    /\ d \notin dirs \cup gone /\ d # Root /\ Parent[d] \in dirs
    /\ dirs' = dirs \cup {d}
    /\ UNCHANGED <<gone, main, walk, programs, head, constant>>

Remove(d) ==
    /\ changes < MaxChanges /\ changes' = changes + 1
    /\ d \in dirs /\ Below(d) = {}
    /\ {c \in Cpus : run[c].pc # "idle" /\ run[c].cg = d} = {}
    /\ dirs' = dirs \ {d} /\ gone' = gone \cup {d} /\ constant' = constant \ {d}
    /\ UNCHANGED <<main, walk, programs, head>>

(***************************************************************************)
(* walk_cgroup_tree                                                        *)
(***************************************************************************)
\* readdir may miss what was created after opendir.
Pick(d) ==
    /\ main = "walking" /\ picked = None /\ cur # None
    /\ d \in Below(cur) \ seen[cur]
    /\ picked' = d /\ seen' = [seen EXCEPT ![cur] = @ \cup {d}]
    /\ UNCHANGED <<dirs, gone, changes, main, cur, walked, allowed, listed, programs, head, constant>>

\* Wrong variant: a directory that has gone ends the loop without an error.
EnterOrBreak ==
    /\ main = "walking" /\ picked # None
    /\ IF picked \in dirs \cup {Root}
       THEN /\ allowed' = allowed \cup {picked} /\ cur' = picked /\ picked' = None
            /\ listed' = [listed EXCEPT ![picked] = Below(picked)]
            /\ UNCHANGED <<main, seen, walked>>
       ELSE /\ picked' = None /\ walked' = walked \cup {cur}
            /\ cur' = IF cur = Root THEN None ELSE Parent[cur]
            /\ main' = IF cur = Root THEN "attaching" ELSE main
            /\ seen' = [seen EXCEPT ![cur] = {}] /\ listed' = [listed EXCEPT ![cur] = {}]
            /\ UNCHANGED allowed
    /\ UNCHANGED <<dirs, gone, changes, programs, head, constant>>

\* stat, add_allowed_cgroup and opendir, any of which ends the monitor when it fails.
Enter ==
    /\ main = "walking" /\ picked # None
    /\ IF picked \in dirs /\ (picked \in allowed \/ Cardinality(allowed) < AllowSize)
       THEN /\ allowed' = allowed \cup {picked} /\ cur' = picked /\ picked' = None
            /\ listed' = [listed EXCEPT ![picked] = Below(picked)]
            /\ UNCHANGED main
       ELSE main' = "failed" /\ UNCHANGED <<cur, picked, allowed, listed>>
    /\ UNCHANGED <<dirs, gone, changes, seen, walked, programs, head, constant>>

\* The end of the directory: what was there from opendir on has been returned.
Leave ==
    /\ main = "walking" /\ picked = None /\ cur # None
    /\ Below(cur) \cap listed[cur] \subseteq seen[cur]
    /\ walked' = walked \cup {cur}
    /\ seen' = [seen EXCEPT ![cur] = {}] /\ listed' = [listed EXCEPT ![cur] = {}]
    /\ cur' = IF cur = Root THEN None ELSE Parent[cur]
    /\ main' = IF cur = Root THEN "attaching" ELSE main
    /\ UNCHANGED <<dirs, gone, changes, picked, allowed, programs, head, constant>>

(***************************************************************************)
(* main                                                                    *)
(***************************************************************************)
\* Attaching or making the ring buffer may fail.
Attach ==
    /\ main = "attaching" /\ main' \in {"running", "failed"}
    /\ UNCHANGED <<dirs, gone, changes, walk, programs, head, constant>>

\* ring_buffer__poll reads up to the first record that is not submitted.
Poll ==
    /\ main = "running" /\ Pending > 0 /\ ~log[head + 1].busy
    /\ head' = head + 1
    /\ UNCHANGED <<dirs, gone, changes, main, walk, programs, constant>>

\* The loop ends after a signal, which is noticed between two polls, or an error of the poll.
Exit ==
    /\ main = "running" /\ main' = "exited"
    /\ UNCHANGED <<dirs, gone, changes, walk, programs, head, constant>>

(***************************************************************************)
(* The programs                                                            *)
(***************************************************************************)
\* The current task decides which cgroup the event is of.
Handle(c, kind, g) ==
    /\ main = "running" /\ run[c].pc = "idle" /\ handled < MaxEvents
    /\ handled' = handled + 1
    /\ g \in dirs \cap allowed
    /\ run' = [run EXCEPT ![c] = [pc |-> IF kind = Runtime THEN "stats" ELSE "reserve",
                                  kind |-> kind, cg |-> g, rec |-> 0]]
    /\ UNCHANGED <<dirs, gone, changes, main, walk, log, known, stats, crowded, head, constant>>

Step(c, pc, rec) ==
    run' = [run EXCEPT ![c] = [pc |-> pc, kind |-> run[c].kind, cg |-> run[c].cg, rec |-> rec]]

\* Without room in the ring buffer the event is over, counted or not.
Reserve(c) ==
    /\ run[c].pc = "reserve"
    /\ IF Pending < RingSize
       THEN /\ log' = Append(log, [kind |-> run[c].kind, cg |-> run[c].cg, busy |-> TRUE])
            /\ Step(c, IF run[c].kind = Runtime THEN "submit" ELSE "stats", Len(log'))
       ELSE run' = [run EXCEPT ![c] = Idle] /\ UNCHANGED log
    /\ UNCHANGED <<dirs, gone, changes, main, walk, handled, known, stats, crowded, head, constant>>

AfterStats(c) == IF run[c].kind = Runtime THEN "reserve" ELSE "submit"

Lookup(c) ==
    /\ run[c].pc = "stats"
    /\ Step(c, IF run[c].cg \in known THEN "add" ELSE "insert", run[c].rec)
    /\ UNCHANGED <<dirs, gone, changes, main, walk, handled, log, known, stats, crowded, head, constant>>

\* Wrong variant: BPF_ANY, and the entry another CPU has inserted is overwritten.
InsertAny(c) ==
    LET g == run[c].cg
        room == g \in known \/ Cardinality(known) < StatSize IN
    /\ run[c].pc = "insert"
    /\ known' = IF room THEN known \cup {g} ELSE known
    /\ stats' = IF room THEN [stats EXCEPT ![g] = [k \in Kinds |-> 0]] ELSE stats
    /\ crowded' = IF room THEN crowded ELSE crowded \cup {g}
    /\ Step(c, IF room THEN "add" ELSE AfterStats(c), run[c].rec)
    /\ UNCHANGED <<dirs, gone, changes, main, walk, handled, log, head, constant>>

\* Insert zeros where there is no entry, and look it up again.
Insert(c) ==
    LET g == run[c].cg
        room == g \in known \/ Cardinality(known) < StatSize IN
    /\ run[c].pc = "insert"
    /\ known' = IF room THEN known \cup {g} ELSE known
    /\ crowded' = IF room THEN crowded ELSE crowded \cup {g}
    /\ Step(c, IF room THEN "add" ELSE AfterStats(c), run[c].rec)
    /\ UNCHANGED <<dirs, gone, changes, main, walk, handled, log, stats, head, constant>>

Add(c) ==
    /\ run[c].pc = "add"
    /\ stats' = [stats EXCEPT ![run[c].cg][run[c].kind] = stats[run[c].cg][run[c].kind] + 1]
    /\ Step(c, AfterStats(c), run[c].rec)
    /\ UNCHANGED <<dirs, gone, changes, main, walk, handled, log, known, crowded, head, constant>>

Submit(c) ==
    /\ run[c].pc = "submit"
    /\ log' = [log EXCEPT ![run[c].rec] = [kind |-> run[c].kind, cg |-> run[c].cg, busy |-> FALSE]]
    /\ run' = [run EXCEPT ![c] = Idle]
    /\ UNCHANGED <<dirs, gone, changes, main, walk, handled, known, stats, crowded, head, constant>>

Container == \E d \in Tree : Create(d) \/ Remove(d)
Walk == Enter \/ Leave \/ \E d \in Tree : Pick(d)
Program(c) == Reserve(c) \/ Lookup(c) \/ Insert(c) \/ Add(c) \/ Submit(c)

Next ==
    \/ Container \/ Walk \/ Attach \/ Poll \/ Exit
    \/ \E c \in Cpus : Program(c) \/ \E k \in Kinds, g \in Tree : Handle(c, k, g)

Spec == Init /\ [][Next]_vars

(***************************************************************************)
(* Properties                                                              *)
(***************************************************************************)
TypeOK ==
    /\ dirs \subseteq Tree /\ gone \subseteq Tree /\ constant \subseteq dirs
    /\ main \in {"walking", "attaching", "running", "failed", "exited"}
    /\ changes \in Nat /\ handled \in Nat
    /\ cur \in Tree \cup {None} /\ picked \in Tree \cup {None}
    /\ seen \in [Tree -> SUBSET Tree] /\ listed \in [Tree -> SUBSET Tree]
    /\ walked \subseteq Tree /\ allowed \subseteq Tree
    /\ run \in [Cpus -> [pc : {"idle", "reserve", "stats", "insert", "add", "submit"},
                         kind : Kinds, cg : Tree, rec : Nat]]
    /\ log \in Seq([kind : Kinds, cg : Tree, busy : BOOLEAN]) /\ head \in 0 .. Len(log)
    /\ known \subseteq Tree /\ stats \in [Tree -> [Kinds -> Nat]]
    /\ crowded \subseteq Tree

\* Whatever containers come and go during the walk, every cgroup that was there all
\* the time is allowed once the programs are attached.
ConstantAllowed == main = "running" => constant \subseteq allowed

Records(k, g) == {i \in 1 .. Len(log) : log[i].kind = k /\ log[i].cg = g}
Submitted(k, g) == {i \in Records(k, g) : ~log[i].busy}

\* The statistics count every event a reader may have seen and, but for runtimes, no
\* event that gets no record, however the CPUs interleave and whatever is lost
\* because the ring buffer is full.
Accounted ==
    \A k \in Kinds, g \in Tree \ crowded :
        /\ Cardinality(Submitted(k, g)) <= stats[g][k]
        /\ k # Runtime => stats[g][k] <= Cardinality(Records(k, g))
=============================================================================
