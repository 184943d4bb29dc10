----------------------------- MODULE Collector ------------------------------
(***************************************************************************)
(* The metrics collector.  BPF programs on every CPU count the events of   *)
(* the cgroups a configuration admits, in a map per module; a loop in the  *)
(* collector reads the maps once a second and adds the differences to the  *)
(* counters Prometheus shows; HTTP handlers replace the collector's copy   *)
(* of the configuration meanwhile, and try to hand it to the programs.     *)
(*                                                                         *)
(* The value of a map entry is the sum over its CPUs.  A sum that is taken *)
(* while CPUs go on counting lies between the counts before and after it.  *)
(* The types of a module's events are one here.                            *)
(***************************************************************************)
EXTENDS Naturals, FiniteSets

CONSTANTS
    Cpus,
    Modules,       \* the loaded modules: "pf" (sched samples like it), "cpu", "mem"
    Place,         \* the order in which the collector goes through them
    Cgroups,       \* the cgroups events come from
    Root,          \* gocker, the target the collector starts with
    Children,      \* the cgroups of containers: the directories under Root
    System,        \* the key of kswapd_cnt, which belongs to no cgroup
    Ancestor,      \* Ancestor[cgroup][level], for the levels down to its own
    RootLevel,     \* the level of Root
    NoCgroup,      \* no cgroup, and the cgroup id zero
    Amounts,       \* Amounts[m]: what one event of module m counts for
    MapSize,       \* max_entries of a map
    Posters,       \* the goroutines of the HTTP server
    Posts,         \* the configurations users post
    InitialRate,   \* PF_SAMPLE_RATE
    Idle,
    MaxEvents,     \* bound: events that pass the filter
    MaxPosts,      \* bound: posted configurations
    MaxErrors      \* bound: refreshes of the list that fail

Keys == Cgroups \cup {System}
Configs == [rate : Nat, en : Nat, lvl : Nat, cgid : Cgroups \cup {NoCgroup}]
Filled == [rate : Nat, en : {0, 1}, lvl : Nat, cgid : Cgroups]   \* a target, and a filter

ASSUME CollectorAssumption ==
    /\ Modules # {}
    /\ Root \in Cgroups /\ Children \subseteq Cgroups \ {Root}
    /\ RootLevel \in Nat
    /\ System \notin Cgroups \cup {NoCgroup} /\ NoCgroup \notin Cgroups
    /\ Idle \notin Modules \X Keys \X Nat
    /\ Place \in [Modules -> Nat] /\ Amounts \in [Modules -> SUBSET Nat]
    /\ MapSize \in Nat /\ InitialRate \in Nat
    /\ Posts \subseteq Configs
    /\ MaxEvents \in Nat /\ MaxPosts \in Nat /\ MaxErrors \in Nat

VARIABLES
    cfg,       \* cfg_map of each module
    at,        \* the event each CPU has let through the filter: <<module, key, amount>>
    ticks,     \* per_cpu_cnt of each module and CPU
    keys,      \* the keys in each map
    count,     \* what each module has counted for each key
    events,
    alive,     \* the cgroups of containers: "absent", "alive", "gone"
    allowed,   \* the list of cgroups to export
    last,      \* what the loop has last read of each module and key
    exported,  \* what Prometheus shows
    loop,      \* the scan: modules to do, keys to do, the key being summed, its count before
    errors,
    cfg0,      \* the collector's own copy of the configuration
    post,      \* what each handler does next, and the configuration it works with
    posts,
    forgotten,  \* history: <<module, key>> whose last value was dropped
    admitted    \* history: the keys some configuration has admitted

bpf == <<at, ticks, keys, count, events>>
scan == <<allowed, last, exported, loop, errors, forgotten>>
admin == <<cfg, cfg0, post, posts, admitted>>
vars == <<bpf, scan, admin, alive>>

(***************************************************************************)
(* Configurations                                                          *)
(***************************************************************************)
\* Where a handler copies a configuration that another one is writing, the words it
\* gets may be of either: <<rate, en>>, <<lvl>> and <<cgid>>.
Mixed(C) == {[rate |-> a.rate, en |-> a.en, lvl |-> b.lvl, cgid |-> c.cgid] : a, b, c \in C}

Conf(p) == post[p].conf
Doing(pc) == {p \in Posters : post[p].pc = pc}
First(m, S) == m \in S /\ \A n \in S : Place[m] <= Place[n]

\* What handler p may find in cfg0.
Copied(p) == Mixed({cfg0} \cup {Conf(q) : q \in Doing("assign") \ {p}})

\* in_target_subtree_current; the events of kswapd are not filtered.
Admits(c, k) ==
    \/ k = System
    \/ c.en = 0
    \/ k \in Cgroups /\ c.lvl \in DOMAIN Ancestor[k] /\ Ancestor[k][c.lvl] = c.cgid

AdmittedBy(c) == {k \in Keys : Admits(c, k)}

InitialConfig == [rate |-> InitialRate, en |-> 1, lvl |-> RootLevel, cgid |-> Root]

\* Map.Update marshals the fields of the Go struct one after the other and refuses
\* what has not the length of the map's value, which is the C struct: its compiler
\* aligns the last field to eight bytes.
Marshalled == 4 + 4 + 4 + 8
ValueSize == 4 + 4 + 4 + 4 + 8

\* An entry of cfg_map after an update whose error is dropped.
Updated(old, new) == IF Marshalled = ValueSize THEN new ELSE old

\* What the kernel puts into the entry of a new array map.
ZeroConfig == [rate |-> 0, en |-> 0, lvl |-> 0, cgid |-> NoCgroup]
Idling == [pc |-> "idle", conf |-> InitialConfig, left |-> {}]

Init ==
    /\ cfg = [m \in Modules |-> Updated(ZeroConfig, InitialConfig)]
    /\ at = [c \in Cpus |-> Idle]
    /\ ticks = [m \in Modules |-> [c \in Cpus |-> 0]]
    /\ keys = [m \in Modules |-> {}]
    /\ count = [m \in Modules |-> [k \in Keys |-> 0]]
    /\ events = 0
    /\ alive = [k \in Children |-> "absent"]
    /\ allowed = {Root}
    /\ last = [m \in Modules |-> [k \in Keys |-> 0]]
    /\ exported = [m \in Modules |-> [k \in Keys |-> 0]]
    /\ loop = [todo |-> {}, mod |-> CHOOSE m \in Modules : TRUE, left |-> {}, key |-> NoCgroup,
               low |-> 0]
    /\ errors = 0
    /\ cfg0 = InitialConfig
    /\ post = [p \in Posters |-> Idling]
    /\ posts = 0
    /\ forgotten = {} /\ admitted = AdmittedBy(InitialConfig)

(***************************************************************************)
(* Containers                                                              *)
(***************************************************************************)
Alive(k) == k \in Cgroups /\ (k \in Children => alive[k] = "alive")

Create(k) ==
    /\ alive[k] = "absent" /\ alive' = [alive EXCEPT ![k] = "alive"]
    /\ UNCHANGED <<bpf, scan, admin>>

\* A cgroup can be removed when no task of it is left.
Remove(k) ==
    /\ alive[k] = "alive" /\ alive' = [alive EXCEPT ![k] = "gone"]
    /\ {c \in Cpus : at[c] # Idle /\ at[c][2] = k} = {}
    /\ UNCHANGED <<bpf, scan, admin>>

(***************************************************************************)
(* The BPF programs.  They load the configuration twice: to filter and to  *)
(* sample.                                                                 *)
(***************************************************************************)
Filter(c, m, k, n) ==
    /\ at[c] = Idle /\ events < MaxEvents
    /\ IF k = System THEN m = "mem" /\ n = 1 ELSE Alive(k) /\ n \in Amounts[m]
    /\ Admits(cfg[m], k)
    /\ at' = [at EXCEPT ![c] = <<m, k, n>>]
    /\ events' = events + 1
    /\ UNCHANGED <<ticks, keys, count, scan, admin, alive>>

\* pass_sample: where the counter of the CPU moves to, and whether the event counts.
Rate(conf) == IF conf.rate = 0 THEN 1 ELSE conf.rate

Ticked(m, n, rate) == IF m = "mem" /\ rate = 1 THEN n ELSE n + 1

Passes(m, n, rate) == rate = 1 \/ Ticked(m, n, rate) % rate = 0

Room(m, k) == k \in keys[m] \cup {System} \/ Cardinality(keys[m] \ {System}) < MapSize

\* Wrong variant: the increment of an entry that is not there yet creates it once more.
CountTwice(c) ==
    LET m == at[c][1]  k == at[c][2]  n == at[c][3] IN
    /\ at[c] # Idle
    /\ count' = [count EXCEPT ![m][k] = n]
    /\ keys' = [keys EXCEPT ![m] = @ \cup {k}]
    /\ at' = [at EXCEPT ![c] = Idle]
    /\ UNCHANGED <<ticks, events, scan, admin, alive>>

\* bump_*, add_cg_u64, inc_kswapd: look the entry up, insert it, look it up again.
Count(c) ==
    LET m == at[c][1]  k == at[c][2]  n == at[c][3] IN
    /\ at[c] # Idle
    /\ LET rate == Rate(cfg[m])
           adds == Passes(m, ticks[m][c], rate) /\ n > 0 /\ Room(m, k) IN
       /\ ticks' = [ticks EXCEPT ![m][c] = Ticked(m, @, rate)]
       /\ keys' = IF adds THEN [keys EXCEPT ![m] = @ \cup {k}] ELSE keys
       /\ count' = IF adds THEN [count EXCEPT ![m][k] = @ + n] ELSE count
    /\ at' = [at EXCEPT ![c] = Idle]
    /\ UNCHANGED <<events, scan, admin, alive>>

(***************************************************************************)
(* The loop of the collector                                               *)
(***************************************************************************)
Ticking == loop.todo = {} /\ loop.left = {} /\ loop.key = NoCgroup

\* collectAllowed adds what it can stat; the list is replaced even when it could not
\* read the directory, and by the target alone when it could not stat that.
Listings == {{Root} \cup C : C \in SUBSET {k \in Children : Alive(k)}} \cup {{cfg0.cgid}}
Complete == {Root} \cup {k \in Children : Alive(k)}

\* Wrong variant: the list is the one the collector found when it started.
RefreshOnce(list) ==
    /\ Ticking
    /\ errors' = IF list = Complete THEN errors ELSE errors + 1
    /\ errors' <= MaxErrors
    /\ loop' = [loop EXCEPT !.todo = Modules]
    /\ UNCHANGED <<allowed, last, exported, forgotten, bpf, admin, alive>>

Refresh(list) ==
    /\ Ticking
    /\ errors' = IF list = Complete THEN errors ELSE errors + 1
    /\ errors' <= MaxErrors
    /\ allowed' = list
    /\ loop' = [loop EXCEPT !.todo = Modules]
    /\ UNCHANGED <<last, exported, forgotten, bpf, admin, alive>>

\* scan of one map; a key that is inserted meanwhile is met the next time.
Open(m) ==
    /\ First(m, loop.todo) /\ loop.left = {} /\ loop.key = NoCgroup
    /\ loop' = [loop EXCEPT !.todo = @ \ {m}, !.mod = m, !.left = keys[m]]
    /\ UNCHANGED <<allowed, last, exported, errors, forgotten, bpf, admin, alive>>

Begin(k) ==
    /\ k \in loop.left /\ loop.key = NoCgroup
    /\ loop' = [loop EXCEPT !.left = @ \ {k}, !.key = k, !.low = count[loop.mod][k]]
    /\ UNCHANGED <<allowed, last, exported, errors, forgotten, bpf, admin, alive>>

\* Wrong variant: the count is stored the first time only.
ExportUnstored(m, k, total) ==
    IF k \in allowed \cup {System}
    THEN /\ exported' = [exported EXCEPT ![m][k] = IF total >= last[m][k] THEN @ + (total - last[m][k])
                                                                        ELSE @]
         /\ last' = [last EXCEPT ![m][k] = IF @ = 0 THEN total ELSE @]
         /\ UNCHANGED forgotten
    ELSE /\ last' = [last EXCEPT ![m][k] = 0]
         /\ forgotten' = IF last[m][k] > 0 THEN forgotten \cup {<<m, k>>} ELSE forgotten
         /\ UNCHANGED exported

\* Wrong variant: the first total of a key is its base, and what was counted before that
\* is not exported.
ExportFromBase(m, k, total) ==
    IF k \in allowed \cup {System}
    THEN /\ exported' = [exported EXCEPT ![m][k] =
                            IF last[m][k] > 0 /\ total >= last[m][k] THEN @ + (total - last[m][k])
                                                                    ELSE @]
         /\ last' = [last EXCEPT ![m][k] = total]
         /\ UNCHANGED forgotten
    ELSE /\ last' = [last EXCEPT ![m][k] = 0]
         /\ forgotten' = IF last[m][k] > 0 THEN forgotten \cup {<<m, k>>} ELSE forgotten
         /\ UNCHANGED exported

\* Wrong variant: whatever is in the map is exported.
ExportAll(m, k, total) ==
    /\ exported' = [exported EXCEPT ![m][k] = IF total >= last[m][k] THEN @ + (total - last[m][k])
                                                                    ELSE @]
    /\ last' = [last EXCEPT ![m][k] = total]
    /\ UNCHANGED forgotten

\* scanArray, which reads kswapd_cnt, asks no list.
Export(m, k, total) ==
    IF k \in allowed \cup {System}
    THEN /\ exported' = [exported EXCEPT ![m][k] = IF total >= last[m][k] THEN @ + (total - last[m][k])
                                                                        ELSE @]
         /\ last' = [last EXCEPT ![m][k] = total]
         /\ UNCHANGED forgotten
    ELSE /\ last' = [last EXCEPT ![m][k] = 0]
         /\ forgotten' = IF last[m][k] > 0 THEN forgotten \cup {<<m, k>>} ELSE forgotten
         /\ UNCHANGED exported

Sum ==
    LET m == loop.mod  k == loop.key IN
    /\ k # NoCgroup
    /\ \E total \in loop.low .. count[m][k] : Export(m, k, total)
    /\ loop' = [loop EXCEPT !.key = NoCgroup, !.low = 0]
    /\ UNCHANGED <<allowed, errors, bpf, admin, alive>>

(***************************************************************************)
(* The handler of /admin/config                                            *)
(***************************************************************************)
Decode(p, in) ==
    /\ post[p].pc = "idle" /\ posts < MaxPosts
    /\ post' = [post EXCEPT ![p] = [pc |-> "default", conf |-> in, left |-> {}]]
    /\ posts' = posts + 1
    /\ UNCHANGED <<cfg, cfg0, admitted, bpf, scan, alive>>

\* What a request leaves out is zero and keeps its value, but for enable_filter,
\* whose zero is a value.
Completed(in, base) ==
    [rate |-> IF in.rate = 0 THEN base.rate ELSE in.rate,
     en |-> IF in.en \in {0, 1} THEN in.en ELSE 1,
     lvl |-> IF in.lvl = 0 THEN base.lvl ELSE in.lvl,
     cgid |-> IF in.cgid = NoCgroup THEN base.cgid ELSE in.cgid]

Default(p) ==
    /\ post[p].pc = "default"
    /\ \E base \in Copied(p) :
           LET conf == Completed(post[p].conf, base) IN
           /\ post' = [post EXCEPT ![p] = [pc |-> "assign", conf |-> conf, left |-> {}]]
           /\ admitted' = admitted \cup AdmittedBy(conf)
    /\ UNCHANGED <<cfg, cfg0, posts, bpf, scan, alive>>

Assign(p) ==
    /\ post[p].pc = "assign"
    /\ cfg0' = post[p].conf
    /\ post' = [post EXCEPT ![p].pc = "copy"]
    /\ UNCHANGED <<cfg, posts, admitted, bpf, scan, alive>>

\* writeCfgAll takes cfg0 by value, ...
Copy(p) ==
    /\ post[p].pc = "copy"
    /\ \E conf \in Copied(p) :
           post' = [post EXCEPT ![p] = [pc |-> "write", conf |-> conf, left |-> Modules]]
    /\ UNCHANGED <<cfg, cfg0, posts, admitted, bpf, scan, alive>>

\* ... and updates the map of one module after the other with it.
WriteCfg(p, m) ==
    LET rest == post[p].left \ {m} IN
    /\ post[p].pc = "write" /\ First(m, post[p].left)
    /\ cfg' = [cfg EXCEPT ![m] = Updated(@, post[p].conf)]
    /\ post' = [post EXCEPT ![p] = IF rest = {} THEN Idling ELSE [post[p] EXCEPT !.left = rest]]
    /\ UNCHANGED <<cfg0, posts, admitted, bpf, scan, alive>>

Container == \E k \in Children : Create(k) \/ Remove(k)

Program(c) == Count(c) \/ \E m \in Modules, k \in Keys : \E n \in Amounts[m] \cup {1} : Filter(c, m, k, n)

Loop ==
    \/ \E list \in Listings : Refresh(list)
    \/ \E m \in Modules : Open(m)
    \/ \E k \in Keys : Begin(k)
    \/ Sum

Handler(p) ==
    \/ \E in \in Posts : Decode(p, in)
    \/ Default(p) \/ Assign(p) \/ Copy(p)
    \/ \E m \in Modules : WriteCfg(p, m)

Next == Container \/ Loop \/ (\E c \in Cpus : Program(c)) \/ \E p \in Posters : Handler(p)

Spec == Init /\ [][Next]_vars

\* The loop's ticker and the programs never stop.
FairSpec == Spec /\ WF_vars(Loop) /\ \A c \in Cpus : WF_vars(Count(c))

(***************************************************************************)
(* Properties                                                              *)
(***************************************************************************)
TypeOK ==
    /\ cfg \in [Modules -> Configs] /\ cfg0 \in Filled
    /\ at \in [Cpus -> (Modules \X Keys \X Nat) \cup {Idle}]
    /\ ticks \in [Modules -> [Cpus -> Nat]]
    /\ keys \in [Modules -> SUBSET Keys] /\ count \in [Modules -> [Keys -> Nat]]
    /\ alive \in [Children -> {"absent", "alive", "gone"}]
    /\ allowed \subseteq Cgroups
    /\ last \in [Modules -> [Keys -> Nat]] /\ exported \in [Modules -> [Keys -> Nat]]
    /\ loop \in [todo : SUBSET Modules, mod : Modules, left : SUBSET Keys,
                 key : Keys \cup {NoCgroup}, low : Nat]
    /\ post \in [Posters -> [pc : {"idle", "default", "assign", "copy", "write"},
                             conf : Configs, left : SUBSET Modules]]
    /\ events \in Nat /\ errors \in Nat /\ posts \in Nat
    /\ forgotten \subseteq Modules \X Keys /\ admitted \subseteq Keys

\* The exporter never shows more than was counted, but for a cgroup that left the list
\* of allowed ones and came back: scan forgets how far it had read such a cgroup.
NeverAhead ==
    \A m \in Modules, k \in Keys :
        <<m, k>> \notin forgotten => exported[m][k] <= count[m][k]

\* What was counted of an allowed key before the scan came to it is exported when the scan
\* leaves it, whatever is counted meanwhile, the list has missed or the loop forgotten.
ScanCatchesUp ==
    [][LET m == loop.mod  k == loop.key
       IN  k \in allowed \cup {System} /\ loop'.key = NoCgroup
               => exported'[m][k] >= loop.low]_vars

\* The programs count only cgroups that a configuration has admitted: the one the
\* collector starts with or one that was posted (pf.bpf.c 33 and 42, cpu.bpf.c 13).
OnlyAdmitted == \A m \in Modules : keys[m] \subseteq admitted

\* Whatever the programs count, the collector shows the counters of gocker's own
\* cgroups and of targets that were posted alone (gocker-obsv/README.md 109): the list
\* keeps the others out, in every order of refreshes, scans and requests.
Watched == {Root, System} \cup Children \cup {in.cgid : in \in Posts}
OnlyWatched == \A m \in Modules, k \in Keys : exported[m][k] > 0 => k \in Watched

\* The collector implements the feed: whatever the scan, the list and the CPUs do, each
\* step adds to a counter what was counted since it was last read, or forgets that.
FeedCounters == Modules \X Keys
PerCounter(f) == [x \in FeedCounters |-> f[x[1]][x[2]]]
Fed == INSTANCE Feed WITH
    Counters <- FeedCounters, counted <- PerCounter(count),
    seen <- PerCounter(last), exported <- PerCounter(exported)
ImplementsFeed == Fed!Spec

\* What was counted for a container that stays is exported sooner or later (events are
\* bounded here: this is about times when no more are counted).
CaughtUp ==
    \A k \in Children :
        <>[](alive[k] = "alive") => []<>(\A m \in Modules : exported[m][k] >= count[m][k])
=============================================================================
