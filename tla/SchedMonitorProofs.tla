------------------------- MODULE SchedMonitorProofs -------------------------
(***************************************************************************)
(* Proofs about the scheduler monitor, for any tree of cgroups and any     *)
(* number of CPUs: the types, that the walk allows every cgroup that       *)
(* exists all the time, whatever is created and removed meanwhile, and     *)
(* that the statistics agree with the records.                             *)
(***************************************************************************)
EXTENDS SchedMonitor, FiniteSetTheorems, SequenceTheorems, TLAPS

Record == [kind : Kinds, cg : Tree, busy : BOOLEAN]
RunState == [pc : {"idle", "reserve", "stats", "insert", "add", "submit"},
             kind : Kinds, cg : Tree, rec : Nat]

\* A program that is to submit a record has reserved it.
RecInv ==
    \A c \in Cpus : run[c].pc = "submit" \/ (run[c].pc \in {"stats", "insert", "add"} /\ run[c].kind # Runtime)
                        => run[c].rec \in 1 .. Len(log)

\* Those that have existed all the time have their parents with them.
ConstantInv == \A d \in constant \ {Root} : Parent[d] \in constant

\* What was read to its end was allowed, and so were its constant directories.
WalkedInv ==
    /\ walked \subseteq allowed
    /\ \A d \in constant \ {Root} : Parent[d] \in walked => d \in walked

\* O is the open directories, a path down to the current one.  What readdir has returned
\* was read, is open or is about to be; what is constant was there at opendir.
Trail(O) ==
    /\ cur = None => O = {} /\ picked = Root
    /\ cur # None => cur \in O
    /\ picked # None => IF picked = Root THEN cur = None ELSE cur # None /\ Parent[picked] = cur
    /\ O \subseteq allowed
    /\ \A d \in O \ {Root} : Parent[d] \in O \ {cur}
    /\ \A d, e \in O \ {Root} : Parent[d] = Parent[e] => d = e
    /\ \A p \in O, d \in constant \ {Root} : Parent[d] = p => d \in listed[p]
    /\ \A p \in Tree : seen[p] \subseteq walked \cup O \cup {picked}

TrailInv == main = "walking" => \E O \in SUBSET Tree : Trail(O)

DoneInv == main \in {"attaching", "running"} => Root \in walked

MonitorInv == TypeOK /\ RecInv /\ ConstantInv /\ WalkedInv /\ TrailInv /\ DoneInv

LEMMA MonitorInit == Init => MonitorInv
<1> SUFFICES ASSUME Init PROVE MonitorInv
  OBVIOUS
<1> USE SchedMonitorAssumption
<1>1. Idle \in RunState
  BY DEF Idle, RunState, Kinds
<1>2. TypeOK
  <2>1. log \in Seq([kind : Kinds, cg : Tree, busy : BOOLEAN]) /\ head \in 0 .. Len(log)
    BY DEF Init
  <2> QED BY <1>1, <2>1 DEF Init, TypeOK, RunState
<1>3. RecInv
  BY DEF Init, RecInv, Idle
<1>4. ConstantInv /\ WalkedInv /\ DoneInv
  BY DEF Init, ConstantInv, WalkedInv, DoneInv
<1>5. Trail({})
  BY DEF Init, Trail
<1> QED BY <1>2, <1>3, <1>4, <1>5 DEF MonitorInv, TrailInv

\* What keeps the walk and the constant cgroups keeps their invariants.
LEMMA WalkKept ==
    ASSUME MonitorInv, UNCHANGED walk, constant' \subseteq constant, ConstantInv',
           main' = "walking" => main = "walking",
           main' \in {"attaching", "running"} => main \in {"attaching", "running"}
    PROVE  WalkedInv' /\ TrailInv' /\ DoneInv'
<1>1. UNCHANGED <<cur, picked, seen, walked, allowed, listed>>
  BY DEF walk
<1>2. WalkedInv' /\ DoneInv'
  BY <1>1 DEF MonitorInv, WalkedInv, DoneInv
<1>3. ASSUME NEW O, Trail(O) PROVE Trail(O)'
  BY <1>1, <1>3 DEF Trail
<1> QED BY <1>2, <1>3 DEF MonitorInv, TrailInv

-----------------------------------------------------------------------------
(* Containers and the walk *)

LEMMA CreateKeeps ==
    ASSUME MonitorInv, NEW d \in Tree, Create(d)
    PROVE  MonitorInv'
<1>1. /\ UNCHANGED <<gone, main, walk, programs, head, constant>>
      /\ dirs' = dirs \cup {d} /\ changes' = changes + 1
  BY DEF Create
<1>2. ConstantInv' /\ RecInv'
  BY <1>1 DEF MonitorInv, ConstantInv, RecInv, programs
<1>3. TypeOK'
  BY <1>1 DEF MonitorInv, TypeOK, walk, programs
<1> QED BY <1>1, <1>2, <1>3, WalkKept DEF MonitorInv

\* A directory that is removed has none below it that stays.
LEMMA RemoveKeeps ==
    ASSUME MonitorInv, NEW d \in Tree, Remove(d)
    PROVE  MonitorInv'
<1>1. /\ UNCHANGED <<main, walk, programs, head>> /\ Below(d) = {}
      /\ dirs' = dirs \ {d} /\ gone' = gone \cup {d} /\ constant' = constant \ {d}
      /\ changes' = changes + 1
  BY DEF Remove
<1>2. TypeOK'
  BY <1>1 DEF MonitorInv, TypeOK, walk, programs
<1>3. ConstantInv'
  BY <1>1 DEF MonitorInv, TypeOK, ConstantInv, Below
<1>4. RecInv'
  BY <1>1 DEF MonitorInv, RecInv, programs
<1> QED BY <1>1, <1>2, <1>3, <1>4, WalkKept DEF MonitorInv

LEMMA PickKeeps ==
    ASSUME MonitorInv, NEW d \in Tree, Pick(d)
    PROVE  MonitorInv'
<1>1. /\ main = "walking" /\ picked = None /\ cur # None
      /\ d \in Below(cur) /\ picked' = d /\ seen' = [seen EXCEPT ![cur] = seen[cur] \cup {d}]
      /\ UNCHANGED <<dirs, gone, changes, main, cur, walked, allowed, listed, programs, head, constant>>
  BY DEF Pick
<1>2. TypeOK'
  BY <1>1 DEF MonitorInv, TypeOK, programs
<1>3. RecInv' /\ ConstantInv' /\ WalkedInv' /\ DoneInv'
  BY <1>1 DEF MonitorInv, RecInv, ConstantInv, WalkedInv, DoneInv, programs
<1>4. PICK O \in SUBSET Tree : Trail(O)
  BY <1>1 DEF MonitorInv, TrailInv
<1>5. d # Root /\ Parent[d] = cur
  BY <1>1 DEF Below
<1>6. \A p \in Tree : seen'[p] \subseteq seen[p] \cup {d}
  BY <1>1 DEF MonitorInv, TypeOK
<1>7. d \in Tree /\ d # None
  BY SchedMonitorAssumption
<1>8. \A p \in Tree : seen'[p] \subseteq walked' \cup O \cup {picked'}
  <2> SUFFICES ASSUME NEW p \in Tree, NEW e \in seen'[p] PROVE e \in walked \cup O \cup {d}
    BY <1>1
  <2>1. CASE e = d
    BY <2>1
  <2>2. CASE e # d
    <3>1. e \in seen[p] /\ e \in Tree
      BY <1>6, <2>2 DEF MonitorInv, TypeOK
    <3> QED BY <1>1, <1>4, <3>1, SchedMonitorAssumption DEF Trail
  <2> QED BY <2>1, <2>2
<1>9. Trail(O)'
  BY <1>1, <1>4, <1>5, <1>7, <1>8 DEF Trail
<1> QED BY <1>2, <1>3, <1>9 DEF MonitorInv, TrailInv

\* The directory that is entered lengthens the path.
LEMMA EnterKeeps ==
    ASSUME MonitorInv, Enter
    PROVE  MonitorInv'
<1>1. /\ main = "walking" /\ picked # None
      /\ UNCHANGED <<dirs, gone, changes, seen, walked, programs, head, constant>>
  BY DEF Enter
<1>2. PICK O \in SUBSET Tree : Trail(O)
  BY <1>1 DEF MonitorInv, TrailInv
<1>3. CASE main' = "failed" /\ UNCHANGED <<cur, picked, allowed, listed>>
  <2>1. TypeOK'
    BY <1>1, <1>3 DEF MonitorInv, TypeOK, programs
  <2>2. RecInv' /\ ConstantInv' /\ WalkedInv' /\ DoneInv' /\ TrailInv'
    BY <1>1, <1>3 DEF MonitorInv, RecInv, ConstantInv, WalkedInv, DoneInv, TrailInv, programs
  <2> QED BY <2>1, <2>2 DEF MonitorInv
<1>4. CASE /\ picked \in dirs /\ allowed' = allowed \cup {picked} /\ cur' = picked /\ picked' = None
           /\ listed' = [listed EXCEPT ![picked] = Below(picked)] /\ UNCHANGED main
  <2>1. picked \in Tree /\ Below(picked) \subseteq Tree
    BY <1>4 DEF MonitorInv, TypeOK, Below
  <2>2. TypeOK'
    BY <1>1, <1>4, <2>1 DEF MonitorInv, TypeOK, programs
  <2>3. RecInv' /\ ConstantInv' /\ WalkedInv' /\ DoneInv'
    BY <1>1, <1>4 DEF MonitorInv, RecInv, ConstantInv, WalkedInv, DoneInv, programs
  <2>12. PICK P \in SUBSET Tree : P = O \cup {picked}
    BY <2>1
  <2>4. picked \notin O
    BY <1>1, <1>2 DEF Trail
  <2>5. \A p \in Tree : listed'[p] = IF p = picked THEN Below(picked) ELSE listed[p]
    BY <1>4 DEF MonitorInv, TypeOK
  <2>6. \A d \in P \ {Root} : Parent[d] \in P \ {cur'}
    <3> SUFFICES ASSUME NEW d \in P \ {Root} PROVE Parent[d] \in P \ {picked}
      BY <1>4
    <3>1. CASE d = picked
      BY <1>1, <1>2, <2>4, <2>12, <3>1 DEF Trail
    <3>2. CASE d \in O
      BY <1>2, <2>4, <2>12, <3>2 DEF Trail
    <3> QED BY <2>12, <3>1, <3>2
  <2>7. \A d, e \in P \ {Root} : Parent[d] = Parent[e] => d = e
    BY <1>1, <1>2, <2>12 DEF Trail
  <2>8. \A p \in P, d \in constant \ {Root} : Parent[d] = p => d \in listed'[p]
    <3> SUFFICES ASSUME NEW p \in P, NEW d \in constant \ {Root}, Parent[d] = p
                 PROVE  d \in listed'[p]
      OBVIOUS
    <3>1. CASE p = picked
      BY <2>1, <2>5, <3>1 DEF Below, MonitorInv, TypeOK
    <3>2. CASE p # picked
      BY <1>2, <2>5, <2>12, <3>2 DEF Trail
    <3> QED BY <3>1, <3>2
  <2>9. \A p \in Tree : seen[p] \subseteq walked \cup P \cup {None}
    BY <1>2, <2>12 DEF Trail
  <2>10. cur' # None /\ P \subseteq allowed'
    BY <1>1, <1>2, <1>4, <2>1, <2>12, SchedMonitorAssumption DEF Trail
  <2>11. Trail(P)'
    BY <1>1, <1>4, <2>6, <2>7, <2>8, <2>9, <2>10, <2>12 DEF Trail
  <2> QED BY <2>1, <2>2, <2>3, <2>11 DEF MonitorInv, TrailInv
<1> QED BY <1>3, <1>4 DEF Enter

\* The directory that is left shortens it; all of its constant directories were read.
LEMMA LeaveKeeps ==
    ASSUME MonitorInv, Leave
    PROVE  MonitorInv'
<1>1. /\ main = "walking" /\ picked = None /\ cur # None
      /\ Below(cur) \cap listed[cur] \subseteq seen[cur]
      /\ walked' = walked \cup {cur}
      /\ seen' = [seen EXCEPT ![cur] = {}] /\ listed' = [listed EXCEPT ![cur] = {}]
      /\ cur' = IF cur = Root THEN None ELSE Parent[cur]
      /\ main' = IF cur = Root THEN "attaching" ELSE main
      /\ UNCHANGED <<dirs, gone, changes, picked, allowed, programs, head, constant>>
  BY DEF Leave
<1>2. PICK O \in SUBSET Tree : Trail(O)
  BY <1>1 DEF MonitorInv, TrailInv
<1>3. cur \in Tree /\ cur \in O
  BY <1>1, <1>2 DEF Trail
<1>4. cur # Root => cur' \in Tree /\ cur' # None /\ cur' \in O \ {cur}
  BY <1>1, <1>2, <1>3, SchedMonitorAssumption DEF Trail
<1>5. TypeOK'
  BY <1>1, <1>3, <1>4 DEF MonitorInv, TypeOK, programs
<1>6. RecInv' /\ ConstantInv'
  BY <1>1 DEF MonitorInv, RecInv, ConstantInv, programs
<1>7. \A d \in constant \ {Root} : Parent[d] = cur => d \in walked
  <2> SUFFICES ASSUME NEW d \in constant \ {Root}, Parent[d] = cur PROVE d \in walked
    OBVIOUS
  <2>1. d \in Below(cur) /\ d \in listed[cur]
    BY <1>2, <1>3 DEF MonitorInv, TypeOK, Below, Trail
  <2>2. d \in seen[cur] /\ d \in Tree
    BY <1>1, <2>1 DEF MonitorInv, TypeOK
  <2>3. d \in walked \cup O
    BY <1>1, <1>2, <1>3, <2>2, SchedMonitorAssumption DEF Trail
  <2> QED BY <1>2, <2>3 DEF Trail
<1>8. WalkedInv'
  BY <1>1, <1>2, <1>3, <1>7 DEF MonitorInv, WalkedInv, Trail
<1>9. DoneInv'
  BY <1>1 DEF DoneInv
<1>10. TrailInv'
  <2>1. CASE cur = Root
    BY <1>1, <2>1 DEF TrailInv
  <2>2. CASE cur # Root
    <3>8. PICK P \in SUBSET Tree : P = O \ {cur}
      OBVIOUS
    <3>1. \A p \in Tree : /\ listed'[p] = IF p = cur THEN {} ELSE listed[p]
                          /\ seen'[p] \subseteq seen[p]
      BY <1>1 DEF MonitorInv, TypeOK
    <3>2. \A d \in P \ {Root} : Parent[d] \in P \ {cur'}
      BY <1>1, <1>2, <1>3, <2>2, <3>8 DEF Trail
    <3>3. \A d, e \in P \ {Root} : Parent[d] = Parent[e] => d = e
      BY <1>2, <3>8 DEF Trail
    <3>4. \A p \in P, d \in constant \ {Root} : Parent[d] = p => d \in listed'[p]
      BY <1>2, <3>1, <3>8 DEF Trail
    <3>5. \A p \in Tree : seen'[p] \subseteq walked' \cup P \cup {picked}
      BY <1>1, <1>2, <3>1, <3>8 DEF Trail
    <3>6. P \subseteq allowed
      BY <1>2, <3>8 DEF Trail
    <3>7. Trail(P)'
      BY <1>1, <1>4, <2>2, <3>2, <3>3, <3>4, <3>5, <3>6, <3>8 DEF Trail
    <3> QED BY <3>7 DEF TrailInv
  <2> QED BY <2>1, <2>2
<1> QED BY <1>5, <1>6, <1>8, <1>9, <1>10 DEF MonitorInv

-----------------------------------------------------------------------------
(* main and the programs *)

\* They leave the walk as it is.
LEMMA ProgramKept ==
    ASSUME MonitorInv, UNCHANGED <<dirs, gone, changes, main, walk, constant>>, TypeOK', RecInv'
    PROVE  MonitorInv'
<1>1. ConstantInv'
  BY DEF MonitorInv, ConstantInv
<1> QED BY <1>1, WalkKept DEF MonitorInv

LEMMA MainKeeps ==
    ASSUME MonitorInv, Attach \/ Poll \/ Exit
    PROVE  MonitorInv'
<1>1. /\ UNCHANGED <<dirs, gone, changes, walk, programs, constant>>
      /\ main' = main \/ (main' \in {"running", "failed", "exited"} /\ main \in {"attaching", "running"})
      /\ head' = head \/ (head' = head + 1 /\ Pending > 0)
  BY DEF Attach, Poll, Exit
<1>2. head' \in 0 .. Len(log)
  <2>1. Len(log) \in Nat /\ head \in 0 .. Len(log)
    BY DEF MonitorInv, TypeOK
  <2> QED BY <1>1, <2>1 DEF Pending
<1>3. TypeOK'
  BY <1>1, <1>2 DEF MonitorInv, TypeOK, walk, programs
<1>4. RecInv' /\ ConstantInv'
  BY <1>1 DEF MonitorInv, RecInv, ConstantInv, programs
<1> QED BY <1>1, <1>3, <1>4, WalkKept DEF MonitorInv

LEMMA HandleKeeps ==
    ASSUME MonitorInv, NEW c \in Cpus, NEW kind \in Kinds, NEW g \in Tree, Handle(c, kind, g)
    PROVE  MonitorInv'
<1>7. PICK pc \in {"stats", "reserve"} :
          /\ run' = [run EXCEPT ![c] = [pc |-> pc, kind |-> kind, cg |-> g, rec |-> 0]]
          /\ pc = "stats" => kind = Runtime
  BY DEF Handle
<1> DEFINE r == [pc |-> pc, kind |-> kind, cg |-> g, rec |-> 0]
<1>1. /\ UNCHANGED <<dirs, gone, changes, main, walk, log, known, stats, crowded, head, constant>>
      /\ handled' = handled + 1 /\ run' = [run EXCEPT ![c] = r]
  BY <1>7 DEF Handle
<1>2. r \in RunState /\ (r.pc = "reserve" \/ (r.pc = "stats" /\ r.kind = Runtime))
  <2>1. r.pc = pc /\ r.kind = kind
    OBVIOUS
  <2>2. r \in RunState
    BY DEF RunState
  <2>3. pc = "reserve" \/ (pc = "stats" /\ kind = Runtime)
    BY <1>7
  <2> HIDE DEF r
  <2> QED BY <2>1, <2>2, <2>3
<1> HIDE DEF r
<1>3. run \in [Cpus -> RunState]
  BY DEF MonitorInv, TypeOK, RunState
<1>4. run' \in [Cpus -> RunState] /\ \A d \in Cpus : run'[d] = IF d = c THEN r ELSE run[d]
  BY <1>1, <1>2, <1>3
<1>5. TypeOK'
  <2>1. /\ UNCHANGED <<dirs, gone, changes, main, walk, log, known, stats, crowded, head, constant>>
        /\ handled' = handled + 1
    BY <1>1
  <2>2. run' \in [Cpus -> RunState]
    BY <1>4
  <2>3. handled' \in Nat
    BY <2>1 DEF MonitorInv, TypeOK
  <2> QED BY <2>1, <2>2, <2>3 DEF MonitorInv, TypeOK, RunState, walk
<1>6. RecInv'
  BY <1>1, <1>2, <1>4 DEF MonitorInv, RecInv
<1> QED BY <1>1, <1>5, <1>6, ProgramKept

\* The next place of a program.
LEMMA StepType ==
    ASSUME MonitorInv, NEW c \in Cpus, NEW rec \in Nat,
           NEW pc \in {"idle", "reserve", "stats", "insert", "add", "submit"}, Step(c, pc, rec)
    PROVE  /\ run' \in [Cpus -> RunState]
           /\ \A d \in Cpus \ {c} : run'[d] = run[d]
           /\ run'[c].pc = pc /\ run'[c].rec = rec
           /\ run'[c].kind = run[c].kind /\ run'[c].cg = run[c].cg
           /\ run[c] \in RunState /\ run[c].kind \in Kinds /\ run[c].cg \in Tree /\ run[c].rec \in Nat
<1> DEFINE r == [pc |-> pc, kind |-> run[c].kind, cg |-> run[c].cg, rec |-> rec]
<1>1. run \in [Cpus -> RunState]
  BY DEF MonitorInv, TypeOK, RunState
<1>2. run[c] \in RunState /\ run[c].kind \in Kinds /\ run[c].cg \in Tree /\ run[c].rec \in Nat
  BY <1>1 DEF RunState
<1>3. /\ r \in RunState
      /\ r.pc = pc /\ r.rec = rec /\ r.kind = run[c].kind /\ r.cg = run[c].cg
  BY <1>2 DEF RunState
<1>4. run' = [run EXCEPT ![c] = r]
  BY DEF Step
<1> HIDE DEF r
<1> QED BY <1>1, <1>2, <1>3, <1>4

\* A step without the ring buffer.
LEMMA QuietKeeps ==
    ASSUME MonitorInv, NEW c \in Cpus, Lookup(c) \/ Insert(c) \/ Add(c)
    PROVE  MonitorInv'
<1>1. UNCHANGED <<dirs, gone, changes, main, walk, handled, log, head, constant>>
  BY DEF Lookup, Insert, Add
<1>2. run[c].rec \in Nat /\ run[c].cg \in Tree /\ run[c].kind \in Kinds
  BY DEF MonitorInv, TypeOK
<1>3. PICK pc \in {"insert", "add", "reserve", "submit"} :
          /\ Step(c, pc, run[c].rec) /\ run[c].pc \in {"stats", "insert", "add"}
          /\ pc = "submit" => run[c].kind # Runtime
  BY DEF Lookup, Insert, Add, AfterStats
<1>4. /\ run' \in [Cpus -> RunState]
      /\ \A d \in Cpus \ {c} : run'[d] = run[d]
      /\ run'[c].pc = pc /\ run'[c].rec = run[c].rec
      /\ run'[c].kind = run[c].kind /\ run'[c].cg = run[c].cg
  BY <1>2, <1>3, StepType
<1>5. /\ known' \subseteq Tree /\ crowded' \subseteq Tree /\ stats' \in [Tree -> [Kinds -> Nat]]
  <2>1. CASE Lookup(c)
    BY <2>1 DEF Lookup, MonitorInv, TypeOK
  <2>2. CASE Insert(c)
    BY <1>2, <2>2 DEF Insert, MonitorInv, TypeOK
  <2>3. CASE Add(c)
    <3>1. stats \in [Tree -> [Kinds -> Nat]] /\ UNCHANGED <<known, crowded>>
      BY <2>3 DEF Add, MonitorInv, TypeOK
    <3>2. stats[run[c].cg][run[c].kind] + 1 \in Nat
      BY <1>2, <3>1
    <3>3. stats' \in [Tree -> [Kinds -> Nat]]
      BY <1>2, <2>3, <3>1, <3>2 DEF Add
    <3> QED BY <3>1, <3>3 DEF MonitorInv, TypeOK
  <2> QED BY <2>1, <2>2, <2>3
<1>6. TypeOK'
  BY <1>1, <1>4, <1>5 DEF MonitorInv, TypeOK, RunState, walk
<1>7. RecInv'
  <2> SUFFICES ASSUME NEW d \in Cpus,
                      \/ run'[d].pc = "submit"
                      \/ run'[d].pc \in {"stats", "insert", "add"} /\ run'[d].kind # Runtime
               PROVE  run'[d].rec \in 1 .. Len(log)
    BY <1>1 DEF RecInv
  <2>1. CASE d = c
    BY <1>3, <1>4, <2>1 DEF MonitorInv, RecInv
  <2>2. CASE d # c
    BY <1>4, <2>2 DEF MonitorInv, RecInv
  <2> QED BY <2>1, <2>2
<1> QED BY <1>1, <1>6, <1>7, ProgramKept

LEMMA ReserveKeeps ==
    ASSUME MonitorInv, NEW c \in Cpus, Reserve(c)
    PROVE  MonitorInv'
<1>1. UNCHANGED <<dirs, gone, changes, main, walk, handled, known, stats, crowded, head, constant>>
  BY DEF Reserve
<1>2. log \in Seq(Record) /\ run \in [Cpus -> RunState] /\ head \in 0 .. Len(log) /\ Len(log) \in Nat
  BY DEF MonitorInv, TypeOK, Record, RunState
<1>3. CASE run' = [run EXCEPT ![c] = Idle] /\ UNCHANGED log
  <2>1. Idle \in RunState /\ Idle.pc = "idle"
    BY SchedMonitorAssumption DEF Idle, RunState, Kinds
  <2>2. run' \in [Cpus -> RunState] /\ \A d \in Cpus : run'[d] = IF d = c THEN Idle ELSE run[d]
    BY <1>2, <1>3, <2>1
  <2>3. TypeOK'
    BY <1>1, <1>3, <2>2 DEF MonitorInv, TypeOK, RunState, walk
  <2>4. RecInv'
    BY <1>3, <2>1, <2>2 DEF MonitorInv, RecInv
  <2> QED BY <1>1, <2>3, <2>4, ProgramKept
<1>4. CASE /\ log' = Append(log, [kind |-> run[c].kind, cg |-> run[c].cg, busy |-> TRUE])
           /\ Step(c, IF run[c].kind = Runtime THEN "submit" ELSE "stats", Len(log'))
  <2>1. [kind |-> run[c].kind, cg |-> run[c].cg, busy |-> TRUE] \in Record
    BY <1>2 DEF Record, RunState
  <2>2. log' \in Seq(Record) /\ Len(log') = Len(log) + 1
    BY <1>2, <1>4, <2>1
  <2>3. /\ run' \in [Cpus -> RunState]
        /\ \A d \in Cpus \ {c} : run'[d] = run[d]
        /\ run'[c].rec = Len(log')
    <3>1. PICK pc \in {"submit", "stats"} : Step(c, pc, Len(log'))
      BY <1>4
    <3>2. Len(log') \in Nat
      BY <1>2, <2>2
    <3> QED BY <3>1, <3>2, StepType
  <2>4. TypeOK'
    <3>1. head' \in 0 .. Len(log')
      BY <1>1, <1>2, <2>2
    <3>2. log' \in Seq([kind : Kinds, cg : Tree, busy : BOOLEAN])
      BY <2>2 DEF Record
    <3>3. run' \in [Cpus -> RunState]
      BY <2>3
    <3> QED BY <1>1, <3>1, <3>2, <3>3 DEF MonitorInv, TypeOK, RunState, walk
  <2>5. RecInv'
    <3> SUFFICES ASSUME NEW d \in Cpus,
                        \/ run'[d].pc = "submit"
                        \/ run'[d].pc \in {"stats", "insert", "add"} /\ run'[d].kind # Runtime
                 PROVE  run'[d].rec \in 1 .. Len(log')
      BY DEF RecInv
    <3>1. CASE d = c
      BY <1>2, <2>2, <2>3, <3>1
    <3>2. CASE d # c
      <4>1. run[d].rec \in 1 .. Len(log)
        BY <2>3, <3>2 DEF MonitorInv, RecInv
      <4> QED BY <1>2, <2>2, <2>3, <3>2, <4>1
    <3> QED BY <3>1, <3>2
  <2> QED BY <1>1, <2>4, <2>5, ProgramKept
<1> QED BY <1>3, <1>4 DEF Reserve

LEMMA SubmitKeeps ==
    ASSUME MonitorInv, NEW c \in Cpus, Submit(c)
    PROVE  MonitorInv'
<1> DEFINE e == [kind |-> run[c].kind, cg |-> run[c].cg, busy |-> FALSE]
<1>1. /\ UNCHANGED <<dirs, gone, changes, main, walk, handled, known, stats, crowded, head, constant>>
      /\ run[c].pc = "submit" /\ run' = [run EXCEPT ![c] = Idle]
      /\ log' = [log EXCEPT ![run[c].rec] = e]
  BY DEF Submit
<1>2. log \in Seq(Record) /\ run \in [Cpus -> RunState]
  BY DEF MonitorInv, TypeOK, Record, RunState
<1>3. run[c].rec \in 1 .. Len(log)
  BY <1>1 DEF MonitorInv, RecInv
<1>4. e \in Record
  BY <1>2 DEF Record, RunState
<1> HIDE DEF e
<1>5. log' \in Seq(Record) /\ Len(log') = Len(log)
  BY <1>1, <1>2, <1>3, <1>4, ExceptSeq
<1>6. Idle \in RunState /\ Idle.pc = "idle"
  BY SchedMonitorAssumption DEF Idle, RunState, Kinds
<1>7. run' \in [Cpus -> RunState] /\ \A d \in Cpus : run'[d] = IF d = c THEN Idle ELSE run[d]
  BY <1>1, <1>2, <1>6
<1>8. TypeOK'
  BY <1>1, <1>5, <1>7 DEF MonitorInv, TypeOK, Record, RunState, walk
<1>9. RecInv'
  BY <1>5, <1>6, <1>7 DEF MonitorInv, RecInv
<1> QED BY <1>1, <1>8, <1>9, ProgramKept

-----------------------------------------------------------------------------
(* Theorems *)

LEMMA MonitorStep == MonitorInv /\ [Next]_vars => MonitorInv'
<1> SUFFICES ASSUME MonitorInv, [Next]_vars PROVE MonitorInv'
  OBVIOUS
<1>1. CASE Container
  BY <1>1, CreateKeeps, RemoveKeeps DEF Container
<1>2. CASE Walk
  BY <1>2, EnterKeeps, LeaveKeeps, PickKeeps DEF Walk
<1>3. CASE Attach \/ Poll \/ Exit
  BY <1>3, MainKeeps
<1>4. ASSUME NEW c \in Cpus, Program(c) PROVE MonitorInv'
  BY <1>4, ReserveKeeps, QuietKeeps, SubmitKeeps DEF Program
<1>5. ASSUME NEW c \in Cpus, NEW k \in Kinds, NEW g \in Tree, Handle(c, k, g) PROVE MonitorInv'
  BY <1>5, HandleKeeps
<1>6. CASE UNCHANGED vars
  <2>1. UNCHANGED <<dirs, gone, changes, main, walk, programs, head, constant>>
    BY <1>6 DEF vars
  <2>2. TypeOK' /\ RecInv'
    BY <2>1 DEF MonitorInv, TypeOK, RecInv, walk, programs
  <2> QED BY <2>1, <2>2, ProgramKept
<1> QED BY <1>1, <1>2, <1>3, <1>4, <1>5, <1>6 DEF Next

LEMMA MonitorSafe == Spec => []MonitorInv
BY MonitorInit, MonitorStep, PTL DEF Spec

\* The variables of the monitor keep their types.
THEOREM MonitorTypeCorrect == Spec => []TypeOK
<1>1. MonitorInv => TypeOK
  BY DEF MonitorInv
<1> QED BY <1>1, MonitorSafe, PTL

\* When the programs are attached every cgroup that has existed all the time is allowed.
THEOREM WalkComplete == Spec => []ConstantAllowed
<1>1. MonitorInv => ConstantAllowed
  <2> SUFFICES ASSUME MonitorInv, main = "running" PROVE constant \subseteq allowed
    BY DEF ConstantAllowed
  <2> DEFINE D == walked \cup (Tree \ constant)
  <2>1. Root \in D /\ D \in SUBSET Tree
    BY DEF MonitorInv, TypeOK, DoneInv
  <2>2. \A d \in Tree \ {Root} : Parent[d] \in D => d \in D
    BY DEF MonitorInv, ConstantInv, WalkedInv
  <2>3. D = Tree
    BY <2>1, <2>2, SchedMonitorAssumption
  <2> QED BY <2>3 DEF MonitorInv, WalkedInv, TypeOK
<1> QED BY <1>1, MonitorSafe, PTL

-----------------------------------------------------------------------------
(* The statistics and the records *)

\* A program that has a record of its own to submit.
Holds(c) ==
    \/ run[c].pc = "submit"
    \/ run[c].pc \in {"stats", "insert", "add"} /\ run[c].kind # Runtime

\* A program that has a record has one of its own, which is not submitted.
HoldInv ==
    /\ \A c \in Cpus : Holds(c) =>
           /\ log[run[c].rec].kind = run[c].kind /\ log[run[c].rec].cg = run[c].cg
           /\ log[run[c].rec].busy
    /\ \A c, d \in Cpus : Holds(c) /\ Holds(d) /\ run[c].rec = run[d].rec => c = d

\* The records that are counted: the others belong to programs that have yet to add.
Counted(k, g) ==
    {i \in Records(k, g) : ~log[i].busy \/ \E c \in Cpus : run[c].pc = "submit" /\ run[c].rec = i}

\* The programs that have counted a runtime and have no record yet.
Claims(g) == {c \in Cpus : run[c].pc = "reserve" /\ run[c].kind = Runtime /\ run[c].cg = g}

CountInv ==
    \A g \in Tree \ crowded :
        /\ \A k \in Counting : stats[g][k] = Cardinality(Counted(k, g))
        /\ Cardinality(Records(Runtime, g)) + Cardinality(Claims(g)) <= stats[g][Runtime]

AccountInv == MonitorInv /\ HoldInv /\ CountInv

LEMMA SetsFinite ==
    ASSUME MonitorInv, NEW k, NEW g
    PROVE  /\ IsFiniteSet(Records(k, g)) /\ IsFiniteSet(Counted(k, g)) /\ IsFiniteSet(Claims(g))
           /\ Cardinality(Records(k, g)) \in Nat /\ Cardinality(Counted(k, g)) \in Nat
           /\ Cardinality(Claims(g)) \in Nat
<1>1. Len(log) \in Nat
  BY DEF MonitorInv, TypeOK
<1>2. IsFiniteSet(1 .. Len(log))
  BY <1>1, FS_Interval
<1>3. IsFiniteSet(Records(k, g))
  BY <1>2, FS_Subset DEF Records
<1>4. IsFiniteSet(Counted(k, g))
  BY <1>3, FS_Subset DEF Counted
<1>5. IsFiniteSet(Claims(g))
  BY SchedMonitorAssumption, FS_Subset DEF Claims
<1> QED BY <1>3, <1>4, <1>5, FS_CardinalityType

LEMMA StatsNatural ==
    ASSUME MonitorInv, NEW g \in Tree
    PROVE  stats[g][Runtime] \in Nat /\ \A k \in Kinds : stats[g][k] \in Nat
<1>1. stats \in [Tree -> [Kinds -> Nat]]
  BY DEF MonitorInv, TypeOK
<1>2. Runtime \in Kinds
  BY DEF Kinds
<1> QED BY <1>1, <1>2

LEMMA AccountInit == Init => AccountInv
<1> SUFFICES ASSUME Init PROVE AccountInv
  OBVIOUS
<1>1. HoldInv
  BY DEF Init, HoldInv, Holds, Idle
<1>2. log = <<>> /\ \A g \in Tree, k \in Kinds : stats[g][k] = 0
  BY DEF Init
<1>3. \A k, g : Records(k, g) = {}
  BY <1>2 DEF Records
<1>4. \A k, g : Counted(k, g) = {}
  BY <1>3 DEF Counted
<1>5. \A g : Claims(g) = {}
  BY DEF Init, Claims, Idle
<1>6. Cardinality({}) = 0
  BY FS_EmptySet
<1>7. CountInv
  <2> SUFFICES ASSUME NEW g \in Tree
               PROVE  /\ \A k \in Counting : stats[g][k] = Cardinality(Counted(k, g))
                      /\ Cardinality(Records(Runtime, g)) + Cardinality(Claims(g)) <= stats[g][Runtime]
    BY DEF CountInv
  <2>1. Cardinality(Records(Runtime, g)) = 0 /\ Cardinality(Claims(g)) = 0
    BY <1>3, <1>5, <1>6
  <2>2. \A k \in Counting : Cardinality(Counted(k, g)) = 0
    BY <1>4, <1>6
  <2>3. \A k \in Kinds : stats[g][k] = 0
    BY <1>2
  <2> QED BY <2>1, <2>2, <2>3 DEF Kinds
<1> QED BY <1>1, <1>7, MonitorInit DEF AccountInv

\* The statistics do not take part in what the monitor does.
LEMMA OthersAccount ==
    ASSUME AccountInv, UNCHANGED <<log, run, stats, crowded>>
    PROVE  HoldInv' /\ CountInv'
<1>1. \A k, g : Records(k, g)' = Records(k, g)
  BY DEF Records
<1>2. \A k, g : Counted(k, g)' = Counted(k, g)
  BY <1>1 DEF Counted
<1>3. \A g : Claims(g)' = Claims(g)
  BY DEF Claims
<1>4. HoldInv'
  BY DEF AccountInv, HoldInv, Holds
<1>5. CountInv'
  BY <1>1, <1>2, <1>3 DEF AccountInv, CountInv
<1> QED BY <1>4, <1>5

\* Neither does a step between the reservation and the submission that adds nothing.
LEMMA StepAccount ==
    ASSUME AccountInv, NEW c \in Cpus, UNCHANGED <<log, stats>>, crowded \subseteq crowded',
           \A d \in Cpus \ {c} : run'[d] = run[d],
           run[c].pc \notin {"submit", "reserve"}, run'[c].pc \notin {"submit", "reserve"},
           Holds(c)' => /\ Holds(c) /\ run'[c].rec = run[c].rec
                        /\ run'[c].kind = run[c].kind /\ run'[c].cg = run[c].cg
    PROVE  HoldInv' /\ CountInv'
<1>1. \A k, g : Records(k, g)' = Records(k, g)
  BY DEF Records
<1>2. \A d \in Cpus : \/ run'[d] = run[d]
                      \/ run[d].pc \notin {"submit", "reserve"} /\ run'[d].pc \notin {"submit", "reserve"}
  OBVIOUS
<1>3. \A i : (\E d \in Cpus : run'[d].pc = "submit" /\ run'[d].rec = i)
                 <=> (\E d \in Cpus : run[d].pc = "submit" /\ run[d].rec = i)
  BY <1>2
<1>4. \A k, g : Counted(k, g)' = Counted(k, g)
  BY <1>1, <1>3 DEF Counted
<1>5. \A g : Claims(g)' = Claims(g)
  BY <1>2 DEF Claims
<1>6. \A d \in Cpus : Holds(d)' => /\ Holds(d) /\ run'[d].rec = run[d].rec
                                    /\ run'[d].kind = run[d].kind /\ run'[d].cg = run[d].cg
  <2> SUFFICES ASSUME NEW d \in Cpus, Holds(d)'
               PROVE  /\ Holds(d) /\ run'[d].rec = run[d].rec
                      /\ run'[d].kind = run[d].kind /\ run'[d].cg = run[d].cg
    OBVIOUS
  <2>1. CASE d = c
    BY <2>1
  <2>2. CASE d # c
    <3>1. run'[d] = run[d]
      BY <2>2
    <3>2. Holds(d)
      BY <3>1 DEF Holds
    <3> QED BY <3>1, <3>2
  <2> QED BY <2>1, <2>2
<1>7. HoldInv'
  BY <1>6 DEF AccountInv, HoldInv
<1>8. CountInv'
  BY <1>1, <1>4, <1>5 DEF AccountInv, CountInv
<1> QED BY <1>7, <1>8

LEMMA HandleAccount ==
    ASSUME AccountInv, NEW c \in Cpus, NEW kind \in Kinds, NEW g \in Tree, Handle(c, kind, g)
    PROVE  HoldInv' /\ CountInv'
<1>1. PICK pc \in {"stats", "reserve"} :
          /\ run' = [run EXCEPT ![c] = [pc |-> pc, kind |-> kind, cg |-> g, rec |-> 0]]
          /\ (pc = "stats") <=> (kind = Runtime)
  BY DEF Handle
<1> DEFINE r == [pc |-> pc, kind |-> kind, cg |-> g, rec |-> 0]
<1>2. r.pc = pc /\ r.kind = kind /\ run' = [run EXCEPT ![c] = r]
  BY <1>1
<1> HIDE DEF r
<1>3. run \in [Cpus -> RunState]
  BY DEF AccountInv, MonitorInv, TypeOK, RunState
<1>4. \A d \in Cpus : run'[d] = IF d = c THEN r ELSE run[d]
  BY <1>2, <1>3
<1>5. UNCHANGED <<log, stats, crowded>> /\ run[c].pc = "idle"
  BY DEF Handle
<1>6. pc = "reserve" \/ (pc = "stats" /\ kind = Runtime)
  BY <1>1
<1>7. \A i : (\E d \in Cpus : run'[d].pc = "submit" /\ run'[d].rec = i)
                 <=> (\E d \in Cpus : run[d].pc = "submit" /\ run[d].rec = i)
  <2>1. run'[c].pc # "submit" /\ run[c].pc # "submit"
    BY <1>2, <1>4, <1>5, <1>6
  <2> QED BY <1>4, <2>1
<1>8. \A k, h : Records(k, h)' = Records(k, h)
  BY <1>5 DEF Records
<1>9. \A k, h : Counted(k, h)' = Counted(k, h)
  BY <1>5, <1>7, <1>8 DEF Counted
<1>10. \A h : Claims(h)' = Claims(h)
  <2>1. run[c].pc # "reserve" /\ (run'[c].pc = "reserve" => run'[c].kind # Runtime)
    BY <1>1, <1>2, <1>4, <1>5
  <2> QED BY <1>4, <2>1 DEF Claims
<1>11. CountInv'
  BY <1>5, <1>8, <1>9, <1>10 DEF AccountInv, CountInv
<1>12. \A d \in Cpus : Holds(d)' => Holds(d) /\ run'[d] = run[d]
  <2>1. ~Holds(c)'
    BY <1>2, <1>4, <1>6 DEF Holds
  <2>2. \A d \in Cpus \ {c} : run'[d] = run[d]
    BY <1>4
  <2> QED BY <2>1, <2>2 DEF Holds
<1>13. HoldInv'
  BY <1>5, <1>12 DEF AccountInv, HoldInv
<1> QED BY <1>11, <1>13

LEMMA LookupAccount ==
    ASSUME AccountInv, NEW c \in Cpus, Lookup(c)
    PROVE  HoldInv' /\ CountInv'
<1>1. PICK pc \in {"add", "insert"} : Step(c, pc, run[c].rec)
  BY DEF Lookup
<1>2. run[c].pc = "stats" /\ UNCHANGED <<log, stats, crowded>>
  BY DEF Lookup
<1>3. run[c].rec \in Nat
  BY DEF AccountInv, MonitorInv, TypeOK
<1>4. /\ \A d \in Cpus \ {c} : run'[d] = run[d]
      /\ run'[c].pc = pc /\ run'[c].rec = run[c].rec
      /\ run'[c].kind = run[c].kind /\ run'[c].cg = run[c].cg
  BY <1>1, <1>3, StepType DEF AccountInv
<1>5. Holds(c)' => Holds(c)
  BY <1>2, <1>4 DEF Holds
<1> QED BY <1>2, <1>4, <1>5, StepAccount

\* Without room the cgroup is no longer counted.
LEMMA InsertAccount ==
    ASSUME AccountInv, NEW c \in Cpus, Insert(c)
    PROVE  HoldInv' /\ CountInv'
<1>1. /\ run[c].pc = "insert" /\ UNCHANGED <<log, stats>> /\ crowded \subseteq crowded'
      /\ run[c].rec \in Nat /\ run[c].kind \in Kinds /\ run[c].cg \in Tree
  BY DEF Insert, AccountInv, MonitorInv, TypeOK
<1>2. CASE Step(c, "add", run[c].rec)
  <2>1. /\ \A d \in Cpus \ {c} : run'[d] = run[d]
        /\ run'[c].pc = "add" /\ run'[c].rec = run[c].rec
        /\ run'[c].kind = run[c].kind /\ run'[c].cg = run[c].cg
    BY <1>1, <1>2, StepType DEF AccountInv
  <2>2. Holds(c)' => Holds(c)
    BY <1>1, <2>1 DEF Holds
  <2> QED BY <1>1, <2>1, <2>2, StepAccount
<1>3. CASE Step(c, AfterStats(c), run[c].rec) /\ crowded' = crowded \cup {run[c].cg}
  <2>1. PICK pc \in {"reserve", "submit"} :
            Step(c, pc, run[c].rec) /\ ((pc = "reserve") <=> (run[c].kind = Runtime))
    BY <1>3 DEF AfterStats
  <2>2. /\ \A d \in Cpus \ {c} : run'[d] = run[d]
        /\ run'[c].pc = pc /\ run'[c].rec = run[c].rec
        /\ run'[c].kind = run[c].kind /\ run'[c].cg = run[c].cg
    BY <1>1, <2>1, StepType DEF AccountInv
  <2>3. \A d \in Cpus : Holds(d)' => /\ Holds(d) /\ run'[d].rec = run[d].rec
                                    /\ run'[d].kind = run[d].kind /\ run'[d].cg = run[d].cg
    <3>1. Holds(c)' => Holds(c)
      BY <1>1, <2>1, <2>2 DEF Holds
    <3>2. \A d \in Cpus \ {c} : Holds(d)' => Holds(d)
      BY <2>2 DEF Holds
    <3> QED BY <2>2, <3>1, <3>2
  <2>4. HoldInv'
    BY <1>1, <2>3 DEF AccountInv, HoldInv
  <2>5. \A k, h : Records(k, h)' = Records(k, h)
    BY <1>1 DEF Records
  <2>6. \A h \in Tree \ crowded' : Claims(h)' = Claims(h)
    BY <1>1, <1>3, <2>2 DEF Claims
  <2>7. \A k \in Kinds, h \in Tree \ crowded' : Counted(k, h)' = Counted(k, h)
    <3> SUFFICES ASSUME NEW k \in Kinds, NEW h \in Tree \ crowded', NEW i \in Records(k, h)
                 PROVE  (\E d \in Cpus : run'[d].pc = "submit" /\ run'[d].rec = i)
                           <=> (\E d \in Cpus : run[d].pc = "submit" /\ run[d].rec = i)
      BY <1>1, <2>5 DEF Counted
    <3>1. run'[c].pc = "submit" => run'[c].rec # i
      <4>1. run'[c].pc = "submit" => Holds(c)
        BY <2>3 DEF Holds
      <4>2. log[i].cg = h /\ h # run[c].cg
        BY <1>3 DEF Records
      <4> QED BY <2>2, <4>1, <4>2 DEF AccountInv, HoldInv
    <3> QED BY <1>1, <2>2, <3>1
  <2>8. CountInv'
    BY <1>1, <2>5, <2>6, <2>7 DEF AccountInv, CountInv, Kinds
  <2> QED BY <2>4, <2>8
<1> QED BY <1>2, <1>3 DEF Insert

\* What is added is a record that was not counted, or a claim.
LEMMA AddAccount ==
    ASSUME AccountInv, NEW c \in Cpus, Add(c)
    PROVE  HoldInv' /\ CountInv'
<1>1. PICK g \in Tree, kind \in Kinds, rec \in Nat, n \in Nat :
          /\ run[c].cg = g /\ run[c].kind = kind /\ run[c].rec = rec /\ n = stats[g][kind] + 1
          /\ run[c].pc = "add" /\ UNCHANGED <<log, crowded>>
          /\ stats' = [stats EXCEPT ![g][kind] = n]
          /\ stats \in [Tree -> [Kinds -> Nat]]
  <2>1. /\ run[c].cg \in Tree /\ run[c].kind \in Kinds /\ run[c].rec \in Nat
        /\ stats \in [Tree -> [Kinds -> Nat]]
    BY DEF AccountInv, MonitorInv, TypeOK
  <2>2. stats[run[c].cg][run[c].kind] + 1 \in Nat
    BY <2>1
  <2>3. /\ run[c].pc = "add" /\ UNCHANGED <<log, crowded>>
        /\ stats' = [stats EXCEPT ![run[c].cg][run[c].kind] = stats[run[c].cg][run[c].kind] + 1]
    BY DEF Add
  <2> QED BY <2>1, <2>2, <2>3
<1>2. UNCHANGED <<log, crowded>>
  BY <1>1
<1>3. \A h \in Tree, k \in Kinds : stats'[h][k] = IF h = g /\ k = kind THEN n ELSE stats[h][k]
  BY <1>1
<1>4. PICK pc \in {"reserve", "submit"} :
          Step(c, pc, rec) /\ ((pc = "reserve") <=> (kind = Runtime))
  BY <1>1 DEF Add, AfterStats
<1>5. /\ \A d \in Cpus \ {c} : run'[d] = run[d]
      /\ run'[c].pc = pc /\ run'[c].rec = rec
      /\ run'[c].kind = kind /\ run'[c].cg = g
  BY <1>1, <1>4, StepType DEF AccountInv
<1>6. \A d \in Cpus : Holds(d)' => /\ Holds(d) /\ run'[d].rec = run[d].rec
                                  /\ run'[d].kind = run[d].kind /\ run'[d].cg = run[d].cg
  <2>1. Holds(c)' => Holds(c)
    BY <1>1, <1>4, <1>5 DEF Holds
  <2>2. \A d \in Cpus \ {c} : Holds(d)' => Holds(d)
    BY <1>5 DEF Holds
  <2> QED BY <1>1, <1>5, <2>1, <2>2
<1>7. HoldInv'
  BY <1>1, <1>6 DEF AccountInv, HoldInv
<1>8. \A k, h : Records(k, h)' = Records(k, h)
  BY <1>1 DEF Records
<1>9. CASE kind = Runtime
  <2>1. \A k, h : Counted(k, h)' = Counted(k, h)
    <3>1. run[c].pc # "submit" /\ run'[c].pc # "submit"
      BY <1>1, <1>4, <1>5, <1>9
    <3>2. \A i : (\E d \in Cpus : run'[d].pc = "submit" /\ run'[d].rec = i)
                     <=> (\E d \in Cpus : run[d].pc = "submit" /\ run[d].rec = i)
      BY <1>5, <3>1
    <3> QED BY <1>2, <1>8, <3>2 DEF Counted
  <2>2. Claims(g)' = Claims(g) \cup {c} /\ c \notin Claims(g)
    <3>1. run'[c].pc = "reserve" /\ run'[c].kind = Runtime /\ run'[c].cg = g
      BY <1>4, <1>5, <1>9
    <3> QED BY <1>1, <1>5, <3>1 DEF Claims
  <2>3. \A h \in Tree \ {g} : Claims(h)' = Claims(h)
    BY <1>1, <1>5 DEF Claims
  <2>4. Cardinality(Claims(g)') = Cardinality(Claims(g)) + 1
    BY <2>2, SetsFinite, FS_AddElement DEF AccountInv
  <2>5. \A h \in Tree, k \in Counting : stats'[h][k] = stats[h][k]
    BY <1>3, <1>9, SchedMonitorAssumption DEF Kinds
  <2>6. \A h \in Tree : stats'[h][Runtime] = IF h = g THEN stats[h][Runtime] + 1 ELSE stats[h][Runtime]
    BY <1>1, <1>3, <1>9 DEF Kinds
  <2>7. ASSUME NEW h \in Tree \ crowded
        PROVE  Cardinality(Records(Runtime, h)') + Cardinality(Claims(h)') <= stats'[h][Runtime]
    <3>1. Cardinality(Records(Runtime, h)) + Cardinality(Claims(h)) <= stats[h][Runtime]
      BY DEF AccountInv, CountInv
    <3>2. /\ Cardinality(Records(Runtime, h)) \in Nat /\ Cardinality(Claims(h)) \in Nat
          /\ stats[h][Runtime] \in Nat
      BY <1>1, SetsFinite DEF AccountInv, Kinds
    <3>3. CASE h = g
      BY <1>8, <2>4, <2>6, <3>1, <3>2, <3>3
    <3>4. CASE h # g
      BY <1>8, <2>3, <2>6, <3>1, <3>2, <3>4
    <3> QED BY <3>3, <3>4
  <2>8. \A h \in Tree \ crowded, k \in Counting : stats'[h][k] = Cardinality(Counted(k, h)')
    BY <2>1, <2>5 DEF AccountInv, CountInv
  <2>9. CountInv'
    BY <1>1, <2>7, <2>8 DEF CountInv
  <2> QED BY <1>7, <2>9
<1>10. CASE kind # Runtime
  <2>1. Holds(c) /\ rec \in 1 .. Len(log)
    BY <1>1, <1>10 DEF Holds, AccountInv, MonitorInv, RecInv
  <2>2. log[rec].kind = kind /\ log[rec].cg = g /\ log[rec].busy
    BY <1>1, <2>1 DEF AccountInv, HoldInv
  <2>3. run'[c].pc = "submit" /\ run'[c].rec = rec
    BY <1>1, <1>4, <1>5, <1>10
  <2>4. \A d \in Cpus : run[d].pc = "submit" => run[d].rec # rec
    <3>1. \A d \in Cpus : run[d].pc = "submit" => Holds(d) /\ d # c
      BY <1>1 DEF Holds
    <3> QED BY <1>1, <2>1, <3>1 DEF AccountInv, HoldInv
  <2>5. \A i : (\E d \in Cpus : run'[d].pc = "submit" /\ run'[d].rec = i)
                   <=> (i = rec \/ \E d \in Cpus : run[d].pc = "submit" /\ run[d].rec = i)
    BY <1>1, <1>5, <2>3
  <2>6. Counted(kind, g)' = Counted(kind, g) \cup {rec} /\ rec \notin Counted(kind, g)
    <3>1. rec \in Records(kind, g)
      BY <2>1, <2>2 DEF Records
    <3> QED BY <1>2, <1>8, <2>2, <2>4, <2>5, <3>1 DEF Counted
  <2>7. \A k, h : ~(k = kind /\ h = g) => Counted(k, h)' = Counted(k, h)
    <3>1. \A k, h : ~(k = kind /\ h = g) => rec \notin Records(k, h)
      BY <2>2 DEF Records
    <3> QED BY <1>2, <1>8, <2>5, <3>1 DEF Counted
  <2>8. Cardinality(Counted(kind, g)') = Cardinality(Counted(kind, g)) + 1
    BY <2>6, SetsFinite, FS_AddElement DEF AccountInv
  <2>9. \A h : Claims(h)' = Claims(h)
    <3>1. run[c].pc # "reserve" /\ run'[c].pc # "reserve"
      BY <1>1, <2>3
    <3> QED BY <1>5, <3>1 DEF Claims
  <2>10. \A h \in Tree : stats'[h][Runtime] = stats[h][Runtime]
    BY <1>3, <1>10 DEF Kinds
  <2>11. n = stats[g][kind] + 1
    BY <1>1
  <2>12. \A h \in Tree \ crowded, k \in Counting : stats'[h][k] = Cardinality(Counted(k, h)')
    BY <1>3, <2>7, <2>8, <2>11 DEF AccountInv, CountInv, Kinds
  <2>13. \A h \in Tree \ crowded :
             Cardinality(Records(Runtime, h)') + Cardinality(Claims(h)') <= stats'[h][Runtime]
    BY <1>8, <2>9, <2>10 DEF AccountInv, CountInv
  <2>14. CountInv'
    BY <1>1, <2>12, <2>13 DEF CountInv
  <2> QED BY <1>7, <2>14
<1> QED BY <1>9, <1>10

\* A program without a record for its event has nothing else to lose than its claim.
LEMMA DropAccount ==
    ASSUME AccountInv, NEW c \in Cpus, run[c].pc = "reserve", UNCHANGED <<log, stats, crowded>>,
           run' = [run EXCEPT ![c] = Idle]
    PROVE  HoldInv' /\ CountInv'
<1>1. run \in [Cpus -> RunState] /\ Idle.pc = "idle"
  BY DEF AccountInv, MonitorInv, TypeOK, RunState, Idle
<1>2. \A d \in Cpus : run'[d] = IF d = c THEN Idle ELSE run[d]
  BY <1>1
<1>3. \A k, h : Records(k, h)' = Records(k, h)
  BY DEF Records
<1>4. \A i : (\E d \in Cpus : run'[d].pc = "submit" /\ run'[d].rec = i)
                 <=> (\E d \in Cpus : run[d].pc = "submit" /\ run[d].rec = i)
  BY <1>1, <1>2
<1>5. \A k, h : Counted(k, h)' = Counted(k, h)
  BY <1>3, <1>4 DEF Counted
<1>6. ASSUME NEW h \in Tree \ crowded
      PROVE  Cardinality(Records(Runtime, h)') + Cardinality(Claims(h)') <= stats[h][Runtime]
  <2>1. Claims(h)' \subseteq Claims(h)
    BY <1>1, <1>2 DEF Claims
  <2>2. Cardinality(Claims(h)') <= Cardinality(Claims(h)) /\ Cardinality(Claims(h)') \in Nat
    BY <2>1, SetsFinite, FS_Subset, FS_CardinalityType DEF AccountInv
  <2>3. Cardinality(Records(Runtime, h)) + Cardinality(Claims(h)) <= stats[h][Runtime]
    BY DEF AccountInv, CountInv
  <2>4. /\ Cardinality(Records(Runtime, h)) \in Nat /\ Cardinality(Claims(h)) \in Nat
        /\ stats[h][Runtime] \in Nat
    <3>1. MonitorInv
      BY DEF AccountInv
    <3>2. stats[h][Runtime] \in Nat
      BY <3>1, StatsNatural
    <3> QED BY <3>1, <3>2, SetsFinite
  <2> QED BY <1>3, <2>2, <2>3, <2>4
<1>7. CountInv'
  BY <1>5, <1>6 DEF AccountInv, CountInv
<1>8. \A d \in Cpus : Holds(d)' => Holds(d) /\ run'[d] = run[d]
  BY <1>1, <1>2 DEF Holds
<1>9. HoldInv'
  BY <1>8 DEF AccountInv, HoldInv
<1> QED BY <1>7, <1>9

\* A new record is not counted, or it takes the place of a claim.
LEMMA ReserveAccount ==
    ASSUME AccountInv, NEW c \in Cpus, Reserve(c)
    PROVE  HoldInv' /\ CountInv'
<1>1. run[c].pc = "reserve" /\ UNCHANGED <<stats, crowded>>
  BY DEF Reserve
<1>2. CASE run' = [run EXCEPT ![c] = Idle] /\ UNCHANGED log
  BY <1>1, <1>2, DropAccount
<1>3. CASE /\ log' = Append(log, [kind |-> run[c].kind, cg |-> run[c].cg, busy |-> TRUE])
           /\ Step(c, IF run[c].kind = Runtime THEN "submit" ELSE "stats", Len(log'))
  <2>1. PICK g \in Tree, kind \in Kinds, n \in Nat : run[c].cg = g /\ run[c].kind = kind /\ n = Len(log)
    <3>1. run \in [Cpus -> RunState] /\ log \in Seq(Record)
      BY DEF AccountInv, MonitorInv, TypeOK, RunState, Record
    <3>2. run[c].cg \in Tree /\ run[c].kind \in Kinds
      BY <3>1 DEF RunState
    <3>3. Len(log) \in Nat
      BY <3>1
    <3> QED BY <3>2, <3>3
  <2> DEFINE e == [kind |-> kind, cg |-> g, busy |-> TRUE]
  <2>2. log \in Seq(Record) /\ e \in Record /\ log' = Append(log, e)
    BY <1>3, <2>1 DEF AccountInv, MonitorInv, TypeOK, Record
  <2>3. e.kind = kind /\ e.cg = g /\ e.busy
    OBVIOUS
  <2> HIDE DEF e
  <2>4. Len(log') = n + 1 /\ log'[n + 1] = e /\ \A i \in 1 .. n : log'[i] = log[i]
    BY <2>1, <2>2
  <2>5. PICK pc \in {"submit", "stats"} :
            Step(c, pc, Len(log')) /\ ((pc = "submit") <=> (kind = Runtime))
    BY <1>3, <2>1
  <2>6. /\ \A d \in Cpus \ {c} : run'[d] = run[d]
        /\ run'[c].pc = pc /\ run'[c].rec = n + 1
        /\ run'[c].kind = kind /\ run'[c].cg = g
    <3>1. n + 1 \in Nat
      OBVIOUS
    <3> QED BY <2>1, <2>4, <2>5, <3>1, StepType DEF AccountInv
  <2>7. \A d \in Cpus : Holds(d) => d # c /\ run[d].rec \in 1 .. n
    BY <1>1, <2>1 DEF Holds, AccountInv, MonitorInv, RecInv
  <2>8. \A d \in Cpus \ {c} : Holds(d)' => Holds(d)
    BY <2>6 DEF Holds
  <2>9. HoldInv'
    <3>1. ASSUME NEW d \in Cpus, Holds(d)'
          PROVE  /\ log'[run'[d].rec].kind = run'[d].kind /\ log'[run'[d].rec].cg = run'[d].cg
                 /\ log'[run'[d].rec].busy
      <4>1. CASE d = c
        BY <2>3, <2>4, <2>6, <4>1
      <4>2. CASE d # c
        <5>1. Holds(d) /\ run'[d] = run[d] /\ run[d].rec \in 1 .. n
          BY <2>6, <2>7, <2>8, <3>1, <4>2
        <5> QED BY <2>4, <5>1 DEF AccountInv, HoldInv
      <4> QED BY <4>1, <4>2
    <3>2. ASSUME NEW d \in Cpus, NEW x \in Cpus, Holds(d)', Holds(x)', run'[d].rec = run'[x].rec
          PROVE  d = x
      <4>1. n + 1 \notin 1 .. n
        BY <2>1
      <4>2. \A y \in Cpus \ {c} : Holds(y)' => Holds(y) /\ run'[y].rec = run[y].rec /\ run[y].rec \in 1 .. n
        BY <2>6, <2>7, <2>8
      <4> QED BY <2>6, <3>2, <4>1, <4>2 DEF AccountInv, HoldInv
    <3> QED BY <3>1, <3>2 DEF HoldInv
  <2>10. \A k \in Kinds, h \in Tree :
             Records(k, h)' = Records(k, h) \cup (IF k = kind /\ h = g THEN {n + 1} ELSE {})
    <3> SUFFICES ASSUME NEW k \in Kinds, NEW h \in Tree, NEW i
                 PROVE  i \in Records(k, h)' <=>
                            i \in Records(k, h) \/ (i = n + 1 /\ k = kind /\ h = g)
      BY DEF Records
    <3>1. i \in 1 .. n + 1 <=> (i \in 1 .. n \/ i = n + 1)
      BY <2>1
    <3>2. i \in Records(k, h) <=> (i \in 1 .. n /\ log[i].kind = k /\ log[i].cg = h)
      BY <2>1 DEF Records
    <3>3. i \in Records(k, h)' <=> (i \in 1 .. n + 1 /\ log'[i].kind = k /\ log'[i].cg = h)
      BY <2>4 DEF Records
    <3> QED BY <2>3, <2>4, <3>1, <3>2, <3>3
  <2>11. \A k, h : n + 1 \notin Records(k, h)
    BY <2>1 DEF Records
  <2>12. \A k \in Counting, h \in Tree : Counted(k, h)' = Counted(k, h)
    <3> SUFFICES ASSUME NEW k \in Counting, NEW h \in Tree, NEW i
                 PROVE  i \in Counted(k, h)' <=> i \in Counted(k, h)
      BY DEF Counted
    <3>1. k \in Kinds /\ k # Runtime
      BY SchedMonitorAssumption DEF Kinds
    <3>2. CASE i = n + 1
      <4>1. i \notin Counted(k, h)
        BY <2>11, <3>2 DEF Counted
      <4>2. i \in Records(k, h)' => log'[i].busy /\ kind # Runtime
        BY <2>3, <2>4, <2>10, <2>11, <3>1, <3>2
      <4>3. kind # Runtime => ~\E d \in Cpus : run'[d].pc = "submit" /\ run'[d].rec = i
        <5>1. kind # Runtime => run'[c].pc # "submit"
          BY <2>5, <2>6
        <5>2. \A d \in Cpus \ {c} : run'[d].pc = "submit" => run'[d].rec \in 1 .. n
          BY <2>6, <2>7 DEF Holds
        <5>3. n + 1 \notin 1 .. n
          BY <2>1
        <5> QED BY <3>2, <5>1, <5>2, <5>3
      <4> QED BY <4>1, <4>2, <4>3 DEF Counted
    <3>3. CASE i # n + 1
      <4>1. i \in Records(k, h)' <=> i \in Records(k, h)
        BY <2>10, <3>1, <3>3
      <4>2. i \in Records(k, h) => log'[i] = log[i]
        BY <2>1, <2>4 DEF Records
      <4>3. (\E d \in Cpus : run'[d].pc = "submit" /\ run'[d].rec = i)
               <=> (\E d \in Cpus : run[d].pc = "submit" /\ run[d].rec = i)
        BY <1>1, <2>6, <3>3
      <4> QED BY <4>1, <4>2, <4>3 DEF Counted
    <3> QED BY <3>2, <3>3
  <2>13. \A h \in Tree : Claims(h)' = Claims(h) \ {c}
    <3>1. run'[c].pc # "reserve"
      BY <2>5, <2>6
    <3> QED BY <2>6, <3>1 DEF Claims
  <2>14. \A h \in Tree : c \in Claims(h) <=> (h = g /\ kind = Runtime)
    BY <1>1, <2>1 DEF Claims
  <2>15. ASSUME NEW h \in Tree \ crowded
         PROVE  Cardinality(Records(Runtime, h)') + Cardinality(Claims(h)') <= stats[h][Runtime]
    <3>1. Cardinality(Records(Runtime, h)) + Cardinality(Claims(h)) <= stats[h][Runtime]
      BY DEF AccountInv, CountInv
    <3>2. /\ Cardinality(Records(Runtime, h)) \in Nat /\ Cardinality(Claims(h)) \in Nat
          /\ stats[h][Runtime] \in Nat
          /\ IsFiniteSet(Records(Runtime, h)) /\ IsFiniteSet(Claims(h))
      <4>1. MonitorInv
        BY DEF AccountInv
      <4>2. stats[h][Runtime] \in Nat
        BY <4>1, StatsNatural
      <4> QED BY <4>1, <4>2, SetsFinite
    <3>3. CASE h = g /\ kind = Runtime
      <4>1. Records(Runtime, h)' = Records(Runtime, h) \cup {n + 1}
        BY <2>10, <3>3 DEF Kinds
      <4>2. Cardinality(Records(Runtime, h)') = Cardinality(Records(Runtime, h)) + 1
        BY <2>11, <3>2, <4>1, FS_AddElement
      <4>3. Claims(h)' = Claims(h) \ {c} /\ c \in Claims(h)
        BY <2>13, <2>14, <3>3
      <4>4. Cardinality(Claims(h)') = Cardinality(Claims(h)) - 1
        BY <3>2, <4>3, FS_RemoveElement
      <4> QED BY <3>1, <3>2, <4>2, <4>4
    <3>4. CASE ~(h = g /\ kind = Runtime)
      <4>1. Records(Runtime, h)' = Records(Runtime, h)
        <5>1. Records(Runtime, h)' =
                  Records(Runtime, h) \cup (IF Runtime = kind /\ h = g THEN {n + 1} ELSE {})
          BY <2>10 DEF Kinds
        <5> QED BY <3>4, <5>1
      <4>2. Claims(h)' = Claims(h)
        BY <2>13, <2>14, <3>4
      <4> QED BY <3>1, <4>1, <4>2
    <3> QED BY <3>3, <3>4
  <2>16. CountInv'
    BY <1>1, <2>12, <2>15 DEF AccountInv, CountInv
  <2> QED BY <2>9, <2>16
<1> QED BY <1>2, <1>3 DEF Reserve

\* A record that is submitted was counted already.
LEMMA SubmitAccount ==
    ASSUME AccountInv, NEW c \in Cpus, Submit(c)
    PROVE  HoldInv' /\ CountInv'
<1>1. PICK g \in Tree, kind \in Kinds, rec \in Nat :
          run[c].cg = g /\ run[c].kind = kind /\ run[c].rec = rec
  BY DEF AccountInv, MonitorInv, TypeOK
<1> DEFINE e == [kind |-> kind, cg |-> g, busy |-> FALSE]
<1>2. /\ run[c].pc = "submit" /\ UNCHANGED <<stats, crowded>>
      /\ run' = [run EXCEPT ![c] = Idle] /\ log' = [log EXCEPT ![rec] = e]
  BY <1>1 DEF Submit
<1>3. e.kind = kind /\ e.cg = g /\ ~e.busy
  OBVIOUS
<1> HIDE DEF e
<1>4. log \in Seq(Record) /\ run \in [Cpus -> RunState] /\ Idle.pc = "idle"
  BY DEF AccountInv, MonitorInv, TypeOK, RunState, Record, Idle
<1>5. Holds(c) /\ rec \in 1 .. Len(log)
  BY <1>1, <1>2 DEF Holds, AccountInv, MonitorInv, RecInv
<1>6. log[rec].kind = kind /\ log[rec].cg = g
  BY <1>1, <1>5 DEF AccountInv, HoldInv
<1>7. /\ Len(log') = Len(log)
      /\ \A i \in 1 .. Len(log) : log'[i] = IF i = rec THEN e ELSE log[i]
  BY <1>2, <1>4, <1>5
<1>8. \A d \in Cpus : run'[d] = IF d = c THEN Idle ELSE run[d]
  BY <1>2, <1>4
<1>9. \A d \in Cpus : Holds(d)' => /\ Holds(d) /\ run'[d] = run[d] /\ run[d].rec # rec
                                  /\ run[d].rec \in 1 .. Len(log)
  <2> SUFFICES ASSUME NEW d \in Cpus, Holds(d)'
               PROVE  /\ Holds(d) /\ run'[d] = run[d] /\ run[d].rec # rec
                      /\ run[d].rec \in 1 .. Len(log)
    OBVIOUS
  <2>1. d # c
    BY <1>4, <1>8 DEF Holds
  <2>2. run'[d] = run[d]
    BY <1>8, <2>1
  <2>3. Holds(d)
    BY <2>2 DEF Holds
  <2> QED BY <1>1, <1>5, <2>1, <2>2, <2>3 DEF AccountInv, HoldInv, MonitorInv, RecInv, Holds
<1>10. HoldInv'
  BY <1>7, <1>9 DEF AccountInv, HoldInv
<1>11. \A k, h : Records(k, h)' = Records(k, h)
  BY <1>3, <1>6, <1>7 DEF Records
<1>12. \A i : (\E d \in Cpus : run[d].pc = "submit" /\ run[d].rec = i)
                  <=> (i = rec \/ \E d \in Cpus : run'[d].pc = "submit" /\ run'[d].rec = i)
  BY <1>1, <1>2, <1>4, <1>8
<1>13. \A k, h : Counted(k, h)' = Counted(k, h)
  <2> SUFFICES ASSUME NEW k, NEW h, NEW i \in Records(k, h)
               PROVE  ~log'[i].busy \/ (\E d \in Cpus : run'[d].pc = "submit" /\ run'[d].rec = i)
                          <=> ~log[i].busy \/ (\E d \in Cpus : run[d].pc = "submit" /\ run[d].rec = i)
    BY <1>11 DEF Counted
  <2>1. log'[i] = IF i = rec THEN e ELSE log[i]
    BY <1>7 DEF Records
  <2> QED BY <1>3, <1>12, <2>1
<1>14. \A h : Claims(h)' = Claims(h)
  BY <1>2, <1>4, <1>8 DEF Claims
<1>15. CountInv'
  BY <1>2, <1>11, <1>13, <1>14 DEF AccountInv, CountInv
<1> QED BY <1>10, <1>15

LEMMA AccountStep == AccountInv /\ [Next]_vars => AccountInv'
<1> SUFFICES ASSUME AccountInv, [Next]_vars PROVE AccountInv'
  OBVIOUS
<1>1. MonitorInv'
  BY MonitorStep DEF AccountInv
<1>2. HoldInv' /\ CountInv'
  <2>1. CASE Container \/ Walk \/ Attach \/ Poll \/ Exit \/ UNCHANGED vars
    <3>1. UNCHANGED <<log, run, stats, crowded>>
      BY <2>1 DEF Container, Create, Remove, Walk, Enter, Leave, Pick, Attach, Poll, Exit, vars, programs
    <3> QED BY <3>1, OthersAccount
  <2>2. ASSUME NEW c \in Cpus, Program(c) PROVE HoldInv' /\ CountInv'
    BY <2>2, ReserveAccount, LookupAccount, InsertAccount, AddAccount, SubmitAccount DEF Program
  <2>3. ASSUME NEW c \in Cpus, NEW k \in Kinds, NEW g \in Tree, Handle(c, k, g)
        PROVE  HoldInv' /\ CountInv'
    BY <2>3, HandleAccount
  <2> QED BY <2>1, <2>2, <2>3 DEF Next
<1> QED BY <1>1, <1>2 DEF AccountInv

\* For every kind of event and cgroup the statistics agree with the records.
THEOREM StatisticsAccounted == Spec => []Accounted
<1>1. AccountInv => Accounted
  <2> SUFFICES ASSUME AccountInv, NEW k \in Kinds, NEW g \in Tree \ crowded
               PROVE  /\ Cardinality(Submitted(k, g)) <= stats[g][k]
                      /\ k # Runtime => stats[g][k] <= Cardinality(Records(k, g))
    BY DEF Accounted
  <2>1. /\ IsFiniteSet(Records(k, g)) /\ IsFiniteSet(Counted(k, g))
        /\ Cardinality(Records(k, g)) \in Nat /\ Cardinality(Counted(k, g)) \in Nat
        /\ Cardinality(Claims(g)) \in Nat /\ stats[g][k] \in Nat
    <3>1. MonitorInv
      BY DEF AccountInv
    <3>2. stats[g][k] \in Nat
      BY <3>1, StatsNatural
    <3> QED BY <3>1, <3>2, SetsFinite
  <2>2. CASE k = Runtime
    <3>1. Submitted(k, g) \subseteq Records(k, g)
      BY DEF Submitted
    <3>2. Cardinality(Submitted(k, g)) <= Cardinality(Records(k, g)) /\ Cardinality(Submitted(k, g)) \in Nat
      BY <2>1, <3>1, FS_Subset, FS_CardinalityType
    <3>3. Cardinality(Records(k, g)) + Cardinality(Claims(g)) <= stats[g][k]
      BY <2>2 DEF AccountInv, CountInv
    <3> QED BY <2>1, <2>2, <3>2, <3>3
  <2>3. CASE k # Runtime
    <3>1. stats[g][k] = Cardinality(Counted(k, g))
      BY <2>3 DEF AccountInv, CountInv, Kinds
    <3>2. Submitted(k, g) \subseteq Counted(k, g) /\ Counted(k, g) \subseteq Records(k, g)
      BY DEF Submitted, Counted
    <3> QED BY <2>1, <3>1, <3>2, FS_Subset
  <2> QED BY <2>2, <2>3
<1> QED BY <1>1, AccountInit, AccountStep, PTL DEF Spec

=============================================================================
