-------------------------- MODULE CollectorProofs --------------------------
(***************************************************************************)
(* Proofs about the collector for any modules, cgroups, CPUs and handlers: *)
(* the types, that it exports what was counted, no less when a scan leaves *)
(* it and no more at any time, and that it shows what is watched and no    *)
(* more.                                                                   *)
(***************************************************************************)
EXTENDS Collector, TLAPS

-----------------------------------------------------------------------------
(* Configurations *)

\* Words taken from whole configurations make a whole configuration.
LEMMA MixedType ==
    ASSUME NEW C, C \subseteq Filled, NEW c \in Mixed(C)
    PROVE  c \in Filled
<1>1. PICK x \in C, y \in C, z \in C :
        c = [rate |-> x.rate, en |-> x.en, lvl |-> y.lvl, cgid |-> z.cgid]
  BY DEF Mixed
<1> QED BY <1>1 DEF Filled

\* The configuration the collector starts with, and a handler that has nothing to do.
LEMMA InitialType == InitialConfig \in Filled /\ InitialConfig \in Configs
BY CollectorAssumption DEF InitialConfig, Filled, Configs

\* What an update leaves in a map is a configuration.
LEMMA UpdatedType ==
    ASSUME NEW old \in Configs, NEW new \in Configs
    PROVE  Updated(old, new) \in Configs
BY DEF Updated

\* The entries of a new map are a configuration.
LEMMA ZeroType == ZeroConfig \in Configs
BY DEF ZeroConfig, Configs

\* What a request leaves out is filled in.
LEMMA CompletedType ==
    ASSUME NEW in \in Configs, NEW base \in Filled
    PROVE  Completed(in, base) \in Filled
BY CollectorAssumption DEF Completed, Filled, Configs

Working(p) == post[p].pc \in {"assign", "copy", "write"}

\* A handler that has filled a configuration in works with a whole one.
WholeConfs == \A p \in Posters : Working(p) => Conf(p) \in Filled

TypeInv == TypeOK /\ WholeConfs

\* What a handler copies is a whole configuration.
LEMMA CopiedType ==
    ASSUME TypeInv, NEW p \in Posters, NEW c \in Copied(p)
    PROVE  c \in Filled
<1> DEFINE C == {cfg0} \cup {Conf(q) : q \in Doing("assign") \ {p}}
<1>1. C \subseteq Filled
  BY DEF TypeInv, TypeOK, WholeConfs, Working, Doing
<1> QED BY <1>1, MixedType DEF Copied

-----------------------------------------------------------------------------
(* Types *)

\* The types hold at the start.
LEMMA TypeInit == Init => TypeInv
<1> SUFFICES ASSUME Init PROVE TypeInv
  OBVIOUS
<1>1. (CHOOSE m \in Modules : TRUE) \in Modules
  BY CollectorAssumption
<1>2. loop \in [todo : SUBSET Modules, mod : Modules, left : SUBSET Keys,
                key : Keys \cup {NoCgroup}, low : Nat]
  BY <1>1 DEF Init
<1>3. admitted \subseteq Keys
  BY DEF Init, AdmittedBy
<1>4. post \in [Posters -> [pc : {"idle", "default", "assign", "copy", "write"},
                            conf : Configs, left : SUBSET Modules]]
  BY InitialType DEF Init, Idling
<1>5. WholeConfs
  BY DEF Init, WholeConfs, Working, Idling
<1>6. allowed \subseteq Cgroups
  BY CollectorAssumption DEF Init
<1>7. cfg \in [Modules -> Configs]
  <2>1. Updated(ZeroConfig, InitialConfig) \in Configs
    BY InitialType, ZeroType, UpdatedType
  <2> QED BY <2>1 DEF Init
<1> QED BY <1>2, <1>3, <1>4, <1>5, <1>6, <1>7, InitialType DEF Init, TypeInv, TypeOK

\* The types are kept by whatever happens to containers.
LEMMA ContainerKeepsTypes == ASSUME TypeInv, Container PROVE TypeInv'
BY DEF TypeInv, TypeOK, WholeConfs, Working, Conf, Container, Create, Remove, bpf, scan, admin

\* The types are kept by the programs.
LEMMA ProgramKeepsTypes == ASSUME TypeInv, NEW c \in Cpus, Program(c) PROVE TypeInv'
<1>1. CASE Count(c)
  <2> DEFINE m == at[c][1]  k == at[c][2]  n == at[c][3]
  <2>1. at[c] \in Modules \X Keys \X Nat
    BY <1>1 DEF TypeInv, TypeOK, Count
  <2>2. m \in Modules /\ k \in Keys /\ n \in Nat
    BY <2>1
  <2>3. ticks' \in [Modules -> [Cpus -> Nat]]
    <3>1. ticks' = [ticks EXCEPT ![m][c] = Ticked(m, ticks[m][c], Rate(cfg[m]))]
      BY <1>1 DEF Count
    <3> QED BY <3>1, <2>2 DEF TypeInv, TypeOK, Ticked
  <2>4. keys' \in [Modules -> SUBSET Keys]
    BY <1>1, <2>2 DEF Count, TypeInv, TypeOK
  <2>5. count' \in [Modules -> [Keys -> Nat]]
    <3>1. count' = count \/ count' = [count EXCEPT ![m][k] = @ + n]
      BY <1>1 DEF Count
    <3>2. count[m][k] + n \in Nat /\ count \in [Modules -> [Keys -> Nat]]
      BY <2>2 DEF TypeInv, TypeOK
    <3> HIDE DEF m, k, n
    <3> QED BY <3>1, <3>2, <2>2
  <2> QED BY <1>1, <2>3, <2>4, <2>5 DEF Count, TypeInv, TypeOK, WholeConfs, Working, Conf, scan, admin
<1>2. ASSUME NEW m \in Modules, NEW k \in Keys, NEW n \in Amounts[m] \cup {1}, Filter(c, m, k, n)
      PROVE  TypeInv'
  <2>1. n \in Nat
    BY CollectorAssumption
  <2> QED BY <1>2, <2>1 DEF Filter, TypeInv, TypeOK, WholeConfs, Working, Conf, scan, admin
<1> QED BY <1>1, <1>2 DEF Program

\* The types are kept by the loop.
LEMMA LoopKeepsTypes == ASSUME TypeInv, Loop PROVE TypeInv'
<1>1. ASSUME NEW list \in Listings, Refresh(list) PROVE TypeInv'
  <2>1. list \subseteq Cgroups
    BY <1>1, CollectorAssumption DEF Listings, TypeInv, TypeOK, Filled
  <2>2. errors' \in Nat
    BY <1>1 DEF Refresh, TypeInv, TypeOK
  <2>3. loop' \in [todo : SUBSET Modules, mod : Modules, left : SUBSET Keys,
                   key : Keys \cup {NoCgroup}, low : Nat]
    BY <1>1 DEF Refresh, TypeInv, TypeOK
  <2> QED BY <1>1, <2>1, <2>2, <2>3
      DEF Refresh, TypeInv, TypeOK, WholeConfs, Working, Conf, bpf, admin
<1>2. ASSUME NEW m \in Modules, Open(m) PROVE TypeInv'
  BY <1>2 DEF Open, TypeInv, TypeOK, WholeConfs, Working, Conf, bpf, admin
<1>3. ASSUME NEW k \in Keys, Begin(k) PROVE TypeInv'
  <2>1. loop.mod \in Modules /\ count[loop.mod][k] \in Nat
    BY DEF TypeInv, TypeOK
  <2>2. loop' \in [todo : SUBSET Modules, mod : Modules, left : SUBSET Keys,
                   key : Keys \cup {NoCgroup}, low : Nat]
    BY <1>3, <2>1 DEF Begin, TypeInv, TypeOK
  <2> QED BY <1>3, <2>2 DEF Begin, TypeInv, TypeOK, WholeConfs, Working, Conf, bpf, admin
<1>4. ASSUME Sum PROVE TypeInv'
  <2> DEFINE m == loop.mod  k == loop.key
  <2>1. m \in Modules /\ k \in Keys
    BY <1>4 DEF Sum, TypeInv, TypeOK
  <2>2. PICK total \in loop.low .. count[m][k] : Export(m, k, total)
    BY <1>4 DEF Sum
  <2>3. total \in Nat
    BY <2>1, <2>2 DEF TypeInv, TypeOK
  <2>4. last' \in [Modules -> [Keys -> Nat]]
    <3>1. \/ last' = [last EXCEPT ![m][k] = total]
          \/ last' = [last EXCEPT ![m][k] = 0]
      BY <2>2 DEF Export
    <3>2. last \in [Modules -> [Keys -> Nat]]
      BY DEF TypeInv, TypeOK
    <3> HIDE DEF m, k
    <3> QED BY <2>1, <2>3, <3>1, <3>2
  <2>5. exported' \in [Modules -> [Keys -> Nat]]
    <3>1. /\ last[m][k] \in Nat /\ exported[m][k] \in Nat
          /\ exported \in [Modules -> [Keys -> Nat]]
      BY <2>1 DEF TypeInv, TypeOK
    <3>2. \/ exported' = exported
          \/ /\ total >= last[m][k]
             /\ exported' = [exported EXCEPT ![m][k] = @ + (total - last[m][k])]
          \/ exported' = [exported EXCEPT ![m][k] = @]
      BY <2>2 DEF Export
    <3>3. total >= last[m][k] => exported[m][k] + (total - last[m][k]) \in Nat
      BY <2>3, <3>1
    <3> QED BY <2>1, <3>1, <3>2, <3>3
  <2>6. forgotten' \subseteq Modules \X Keys
    BY <2>1, <2>2 DEF Export, TypeInv, TypeOK
  <2> QED BY <1>4, <2>4, <2>5, <2>6 DEF Sum, TypeInv, TypeOK, WholeConfs, Working, Conf, bpf, admin
<1> QED BY <1>1, <1>2, <1>3, <1>4 DEF Loop

\* The types are kept by the handlers.
LEMMA HandlerKeepsTypes == ASSUME TypeInv, NEW p \in Posters, Handler(p) PROVE TypeInv'
<1> DEFINE Doings == [pc : {"idle", "default", "assign", "copy", "write"},
                      conf : Configs, left : SUBSET Modules]
<1>0. post \in [Posters -> Doings] /\ WholeConfs
  BY DEF TypeInv, TypeOK
<1>a. Filled \subseteq Configs
  BY DEF Filled, Configs
<1>1. ASSUME NEW in \in Posts, Decode(p, in) PROVE TypeInv'
  <2>1. post' = [post EXCEPT ![p] = [pc |-> "default", conf |-> in, left |-> {}]]
    BY <1>1 DEF Decode
  <2>2. in \in Configs
    BY CollectorAssumption
  <2>3. post' \in [Posters -> Doings] /\ WholeConfs'
    BY <1>0, <2>1, <2>2 DEF WholeConfs, Working, Conf
  <2> QED BY <1>1, <2>3 DEF Decode, TypeInv, TypeOK, bpf, scan
<1>2. CASE Default(p)
  <2>1. PICK base \in Copied(p) :
          LET conf == Completed(post[p].conf, base) IN
          /\ post' = [post EXCEPT ![p] = [pc |-> "assign", conf |-> conf, left |-> {}]]
          /\ admitted' = admitted \cup AdmittedBy(conf)
    BY <1>2 DEF Default
  <2> DEFINE conf == Completed(post[p].conf, base)
  <2>2. conf \in Filled
    <3>1. post[p].conf \in Configs /\ base \in Filled
      BY <1>0, <2>1, CopiedType
    <3> QED BY <3>1, CompletedType
  <2>3. AdmittedBy(conf) \subseteq Keys
    BY DEF AdmittedBy
  <2>4. post' = [post EXCEPT ![p] = [pc |-> "assign", conf |-> conf, left |-> {}]]
    BY <2>1
  <2>5. admitted' = admitted \cup AdmittedBy(conf)
    BY <2>1
  <2> HIDE DEF conf
  <2>6. post' \in [Posters -> Doings] /\ WholeConfs'
    BY <1>0, <1>a, <2>2, <2>4 DEF WholeConfs, Working, Conf
  <2> QED BY <1>2, <2>3, <2>5, <2>6 DEF Default, TypeInv, TypeOK, bpf, scan
<1>3. CASE Assign(p)
  <2>1. post' = [post EXCEPT ![p].pc = "copy"] /\ post[p].pc = "assign"
    BY <1>3 DEF Assign
  <2>2. cfg0' \in Filled
    BY <1>0, <1>3 DEF Assign, WholeConfs, Working, Conf
  <2>3. post' \in [Posters -> Doings] /\ WholeConfs'
    BY <1>0, <2>1 DEF WholeConfs, Working, Conf
  <2> QED BY <1>3, <2>2, <2>3 DEF Assign, TypeInv, TypeOK, bpf, scan
<1>4. CASE Copy(p)
  <2>1. PICK conf \in Copied(p) :
          post' = [post EXCEPT ![p] = [pc |-> "write", conf |-> conf, left |-> Modules]]
    BY <1>4 DEF Copy
  <2>2. conf \in Filled
    BY <2>1, CopiedType
  <2>3. post' \in [Posters -> Doings] /\ WholeConfs'
    BY <1>0, <1>a, <2>1, <2>2 DEF WholeConfs, Working, Conf
  <2> QED BY <1>4, <2>3 DEF Copy, TypeInv, TypeOK, bpf, scan
<1>5. ASSUME NEW m \in Modules, WriteCfg(p, m) PROVE TypeInv'
  <2>1. Idling \in Doings /\ Idling.pc = "idle"
    BY InitialType DEF Idling
  <2>2. post[p].conf \in Filled /\ post[p].pc = "write"
    BY <1>0, <1>5 DEF WriteCfg, WholeConfs, Working, Conf
  <2> DEFINE rest == post[p].left \ {m}
             next == IF rest = {} THEN Idling ELSE [post[p] EXCEPT !.left = rest]
  <2>3. post' = [post EXCEPT ![p] = next]
    BY <1>5 DEF WriteCfg
  <2>4. next \in Doings /\ (next.pc # "idle" => next.conf = post[p].conf)
    BY <1>0, <2>1
  <2> HIDE DEF next
  <2>6. post' \in [Posters -> Doings] /\ WholeConfs'
    BY <1>0, <2>2, <2>3, <2>4 DEF WholeConfs, Working, Conf
  <2>5. cfg' \in [Modules -> Configs]
    <3>1. cfg \in [Modules -> Configs] /\ post[p].conf \in Configs
      BY <1>a, <2>2 DEF TypeInv, TypeOK
    <3>2. Updated(cfg[m], post[p].conf) \in Configs
      BY <3>1, UpdatedType
    <3> QED BY <1>5, <3>1, <3>2 DEF WriteCfg
  <2> QED BY <1>5, <2>5, <2>6 DEF WriteCfg, TypeInv, TypeOK, bpf, scan
<1> QED BY <1>1, <1>2, <1>3, <1>4, <1>5 DEF Handler

\* The collector keeps its types, in every interleaving of programs, loop and handlers.
LEMMA TypeStep == TypeInv /\ [Next]_vars => TypeInv'
<1> SUFFICES ASSUME TypeInv, [Next]_vars PROVE TypeInv'
  OBVIOUS
<1>1. CASE UNCHANGED vars
  BY <1>1 DEF vars, bpf, scan, admin, TypeInv, TypeOK, WholeConfs, Working, Conf
<1> QED BY <1>1, ContainerKeepsTypes, ProgramKeepsTypes, LoopKeepsTypes, HandlerKeepsTypes DEF Next

\* TypeOK of Collector: the types of the collector and its BPF maps, for any number of
\* CPUs, modules, cgroups and handlers.
THEOREM CollectorTypeCorrect == Spec => []TypeOK
<1>1. Spec => []TypeInv
  BY TypeInit, TypeStep, PTL DEF Spec
<1>2. TypeInv => TypeOK
  BY DEF TypeInv
<1> QED BY <1>1, <1>2, PTL

-----------------------------------------------------------------------------
(* What is exported *)

\* What the loop has read of a counter, and what it is about to read, was counted, and
\* all of it is exported that has not been forgotten.
ReadInv ==
    /\ \A m \in Modules, k \in Keys :
           /\ last[m][k] <= count[m][k]
           /\ <<m, k>> \notin forgotten => exported[m][k] = last[m][k]
    /\ loop.key # NoCgroup =>
           /\ last[loop.mod][loop.key] <= loop.low
           /\ loop.low <= count[loop.mod][loop.key]

FeedInv == TypeInv /\ ReadInv

\* Nothing is counted, read or exported at the start.
LEMMA FeedInit == Init => FeedInv
<1> SUFFICES ASSUME Init PROVE ReadInv
  BY TypeInit DEF FeedInv
<1> QED BY DEF Init, ReadInv

\* How a program's step changes the counts.
LEMMA CountStep ==
    ASSUME TypeInv, NEW c \in Cpus, Count(c)
    PROVE  \/ count' = count
           \/ \E m \in Modules, k \in Keys, n \in Nat \ {0} :
                  count' = [count EXCEPT ![m][k] = @ + n]
<1> DEFINE m == at[c][1]  k == at[c][2]  n == at[c][3]
<1>1. at[c] \in Modules \X Keys \X Nat
  BY DEF TypeInv, TypeOK, Count
<1>2. m \in Modules /\ k \in Keys /\ n \in Nat
  BY <1>1
<1>3. count' = count \/ (n > 0 /\ count' = [count EXCEPT ![m][k] = @ + n])
  BY DEF Count
<1> HIDE DEF m, k, n
<1> QED BY <1>2, <1>3

\* Counts only grow.
LEMMA CountsGrow ==
    ASSUME TypeInv, NEW c \in Cpus, Count(c), NEW m \in Modules, NEW k \in Keys
    PROVE  count[m][k] <= count'[m][k]
<1>1. count \in [Modules -> [Keys -> Nat]]
  BY DEF TypeInv, TypeOK
<1>2. CASE count' = count
  BY <1>1, <1>2
<1>3. ASSUME NEW x \in Modules, NEW y \in Keys, NEW n \in Nat \ {0},
             count' = [count EXCEPT ![x][y] = @ + n]
      PROVE  count[m][k] <= count'[m][k]
  <2>1. count[m][k] \in Nat
    BY <1>1
  <2>2. count'[m][k] = count[m][k] \/ count'[m][k] = count[m][k] + n
    BY <1>1, <1>3
  <2> QED BY <2>1, <2>2
<1> QED BY <1>2, <1>3, CountStep

\* What a scan step does to the one counter it is about: it exports what was counted
\* since, or it forgets.
LEMMA SumStep ==
    ASSUME FeedInv, Sum
    PROVE  LET m == loop.mod  k == loop.key IN
           /\ m \in Modules /\ k \in Keys
           /\ \/ \E total \in last[m][k] .. count[m][k] :
                     /\ exported' = [exported EXCEPT ![m][k] = @ + (total - last[m][k])]
                     /\ last' = [last EXCEPT ![m][k] = total]
                     /\ forgotten' = forgotten
              \/ /\ last' = [last EXCEPT ![m][k] = 0]
                 /\ exported' = exported
                 /\ forgotten' = IF last[m][k] > 0 THEN forgotten \cup {<<m, k>>} ELSE forgotten
<1> DEFINE m == loop.mod  k == loop.key
<1>1. m \in Modules /\ k \in Keys
  BY DEF FeedInv, TypeInv, TypeOK, Sum
<1>2. PICK total \in loop.low .. count[m][k] : Export(m, k, total)
  BY DEF Sum
<1>3. /\ loop.low \in Nat /\ count[m][k] \in Nat /\ last[m][k] \in Nat
      /\ last[m][k] <= loop.low
  BY <1>1 DEF FeedInv, TypeInv, TypeOK, ReadInv, Sum
<1>4. total \in last[m][k] .. count[m][k] /\ total >= last[m][k]
  BY <1>2, <1>3
<1>5. CASE k \in allowed \cup {System}
  BY <1>1, <1>2, <1>4, <1>5 DEF Export
<1>6. CASE k \notin allowed \cup {System}
  BY <1>1, <1>2, <1>6 DEF Export
<1> QED BY <1>5, <1>6

\* ReadInv is kept by the collector's steps.
LEMMA FeedStep == FeedInv /\ [Next]_vars => FeedInv'
<1> SUFFICES ASSUME FeedInv, [Next]_vars PROVE ReadInv'
  BY TypeStep DEF FeedInv
<1> DEFINE Counters == <<count, last, exported, loop, forgotten>>
<1>1. ASSUME UNCHANGED Counters PROVE ReadInv'
  BY <1>1 DEF FeedInv, ReadInv
<1>2. ASSUME NEW c \in Cpus, Count(c) PROVE ReadInv'
  <2>1. /\ UNCHANGED <<last, exported, loop, forgotten>>
        /\ loop.mod \in Modules /\ loop.key \in Keys \cup {NoCgroup} /\ loop.low \in Nat
    BY <1>2 DEF Count, scan, FeedInv, TypeInv, TypeOK
  <2>2. \A m \in Modules, k \in Keys :
            /\ count[m][k] \in Nat /\ count'[m][k] \in Nat /\ last[m][k] \in Nat
            /\ count[m][k] <= count'[m][k]
    BY <1>2, CountsGrow, TypeStep DEF FeedInv, TypeInv, TypeOK
  <2> QED BY <2>1, <2>2 DEF FeedInv, ReadInv
<1>3. ASSUME NEW k \in Keys, Begin(k) PROVE ReadInv'
  <2>1. /\ loop' = [loop EXCEPT !.left = @ \ {k}, !.key = k, !.low = count[loop.mod][k]]
        /\ UNCHANGED <<count, last, exported, forgotten>>
    BY <1>3 DEF Begin, bpf
  <2>2. loop \in [todo : SUBSET Modules, mod : Modules, left : SUBSET Keys,
                  key : Keys \cup {NoCgroup}, low : Nat] /\ count[loop.mod][k] \in Nat
    BY DEF FeedInv, TypeInv, TypeOK
  <2>3. loop'.mod = loop.mod /\ loop'.key = k /\ loop'.low = count[loop.mod][k]
    BY <2>1, <2>2
  <2>4. last[loop.mod][k] <= count[loop.mod][k] /\ UNCHANGED <<count, last, exported, forgotten>>
    BY <2>1, <2>2 DEF FeedInv, TypeInv, TypeOK, ReadInv
  <2>5. loop'.key # NoCgroup => /\ last'[loop'.mod][loop'.key] <= loop'.low
                                /\ loop'.low <= count'[loop'.mod][loop'.key]
    BY <2>2, <2>3, <2>4
  <2> QED BY <2>4, <2>5 DEF FeedInv, ReadInv
<1>4. ASSUME Sum PROVE ReadInv'
  <2> DEFINE m == loop.mod  k == loop.key
  <2>1. loop'.key = NoCgroup /\ count' = count
    BY <1>4 DEF Sum, bpf, FeedInv, TypeInv, TypeOK
  <2>2. /\ last \in [Modules -> [Keys -> Nat]] /\ exported \in [Modules -> [Keys -> Nat]]
        /\ count \in [Modules -> [Keys -> Nat]] /\ m \in Modules /\ k \in Keys
    BY <1>4, SumStep DEF FeedInv, TypeInv, TypeOK
  <2>3. ASSUME NEW x \in Modules, NEW y \in Keys
        PROVE  /\ last'[x][y] <= count'[x][y]
               /\ <<x, y>> \notin forgotten' => exported'[x][y] = last'[x][y]
    <3>1. CASE \E total \in last[m][k] .. count[m][k] :
                   /\ exported' = [exported EXCEPT ![m][k] = @ + (total - last[m][k])]
                   /\ last' = [last EXCEPT ![m][k] = total]
                   /\ forgotten' = forgotten
      <4>1. PICK total \in last[m][k] .. count[m][k] :
                   /\ exported' = [exported EXCEPT ![m][k] = @ + (total - last[m][k])]
                   /\ last' = [last EXCEPT ![m][k] = total]
                   /\ forgotten' = forgotten
        BY <3>1
      <4>2. /\ last[x][y] <= count[x][y] /\ last[x][y] \in Nat /\ exported[x][y] \in Nat
            /\ count[x][y] \in Nat
            /\ <<x, y>> \notin forgotten => exported[x][y] = last[x][y]
        BY <2>2 DEF FeedInv, ReadInv
      <4>3. CASE x = m /\ y = k
        <5>1. last'[x][y] = total /\ exported'[x][y] = exported[x][y] + (total - last[x][y])
          BY <2>2, <4>1, <4>3
        <5>2. total \in Nat /\ total <= count[x][y]
          BY <4>1, <4>2, <4>3
        <5>3. <<x, y>> \notin forgotten => exported'[x][y] = total
          BY <4>2, <5>1, <5>2
        <5> QED BY <2>1, <4>1, <5>1, <5>2, <5>3
      <4>4. CASE ~(x = m /\ y = k)
        <5>1. last'[x][y] = last[x][y] /\ exported'[x][y] = exported[x][y]
          BY <2>2, <4>1, <4>4
        <5> QED BY <2>1, <4>1, <4>2, <5>1
      <4> QED BY <4>3, <4>4
    <3>2. CASE /\ last' = [last EXCEPT ![m][k] = 0]
               /\ exported' = exported
               /\ forgotten' = IF last[m][k] > 0 THEN forgotten \cup {<<m, k>>} ELSE forgotten
      <4>1. /\ last[x][y] <= count[x][y] /\ last[x][y] \in Nat /\ count[x][y] \in Nat
            /\ <<x, y>> \notin forgotten => exported[x][y] = last[x][y]
        BY <2>2 DEF FeedInv, ReadInv
      <4>2. CASE x = m /\ y = k
        <5>1. last'[x][y] = 0
          BY <2>2, <3>2, <4>2
        <5>2. <<x, y>> \notin forgotten' => <<x, y>> \notin forgotten /\ ~(last[x][y] > 0)
          BY <3>2, <4>2
        <5> QED BY <2>1, <3>2, <4>1, <5>1, <5>2
      <4>3. CASE ~(x = m /\ y = k)
        <5>1. last'[x][y] = last[x][y]
          BY <2>2, <3>2, <4>3
        <5> QED BY <2>1, <3>2, <4>1, <5>1
      <4> QED BY <4>2, <4>3
    <3> QED BY <1>4, SumStep, <3>1, <3>2
  <2> QED BY <2>1, <2>3 DEF ReadInv
<1>5. ASSUME NEW list \in Listings, Refresh(list) PROVE ReadInv'
  <2>1. loop'.key = loop.key /\ loop'.low = loop.low /\ loop'.mod = loop.mod
    BY <1>5 DEF Refresh, FeedInv, TypeInv, TypeOK
  <2> QED BY <1>5, <2>1 DEF Refresh, bpf, FeedInv, ReadInv
<1>6. ASSUME NEW m \in Modules, Open(m) PROVE ReadInv'
  <2>1. loop'.key = NoCgroup
    BY <1>6 DEF Open, FeedInv, TypeInv, TypeOK
  <2> QED BY <1>6, <2>1 DEF Open, bpf, FeedInv, ReadInv
<1>7. ASSUME NEW c \in Cpus, NEW m \in Modules, NEW k \in Keys, NEW n \in Amounts[m] \cup {1},
             Filter(c, m, k, n)
      PROVE  UNCHANGED Counters
  BY <1>7 DEF Filter, scan
<1>8. ASSUME Container PROVE UNCHANGED Counters
  BY <1>8 DEF Container, Create, Remove, bpf, scan
<1>9. ASSUME NEW p \in Posters, Handler(p) PROVE UNCHANGED Counters
  BY <1>9 DEF Handler, Decode, Default, Assign, Copy, WriteCfg, bpf, scan
<1>10. CASE UNCHANGED vars
  BY <1>1, <1>10 DEF vars, bpf, scan
<1> QED BY <1>1, <1>2, <1>3, <1>4, <1>5, <1>6, <1>7, <1>8, <1>9, <1>10 DEF Next, Program, Loop

\* NeverAhead: what the collector exports for a cgroup was counted for it, however the
\* scan overlaps the programs and the list changes, but for forgotten cgroups.
THEOREM ExporterNeverAhead == Spec => []NeverAhead
<1>1. Spec => []FeedInv
  BY FeedInit, FeedStep, PTL DEF Spec
<1>2. FeedInv => NeverAhead
  <2> SUFFICES ASSUME FeedInv, NEW m \in Modules, NEW k \in Keys, <<m, k>> \notin forgotten
               PROVE  exported[m][k] <= count[m][k]
    BY DEF NeverAhead
  <2> QED BY DEF FeedInv, TypeInv, TypeOK, ReadInv
<1> QED BY <1>1, <1>2, PTL

\* What the loop has read of a counter is on display, if it was forgotten before as well.
KeptInv == \A m \in Modules, k \in Keys : last[m][k] <= exported[m][k]

\* Only a sum changes what was read and what is displayed, and it raises both alike.
LEMMA KeptStep ==
    ASSUME FeedInv, KeptInv, [Next]_vars
    PROVE  KeptInv'
<1>1. ASSUME UNCHANGED <<last, exported>> PROVE KeptInv'
  BY <1>1 DEF KeptInv
<1>2. ASSUME Sum PROVE KeptInv'
  <2> DEFINE m == loop.mod  k == loop.key
  <2>1. /\ last \in [Modules -> [Keys -> Nat]] /\ exported \in [Modules -> [Keys -> Nat]]
        /\ count \in [Modules -> [Keys -> Nat]] /\ m \in Modules /\ k \in Keys
    BY <1>2, SumStep DEF FeedInv, TypeInv, TypeOK
  <2> SUFFICES ASSUME NEW x \in Modules, NEW y \in Keys
               PROVE  last'[x][y] <= exported'[x][y]
    BY DEF KeptInv
  <2>2. last[x][y] <= exported[x][y] /\ last[x][y] \in Nat /\ exported[x][y] \in Nat
    BY <2>1 DEF KeptInv
  <2>3. ASSUME NEW total \in last[m][k] .. count[m][k],
               exported' = [exported EXCEPT ![m][k] = @ + (total - last[m][k])],
               last' = [last EXCEPT ![m][k] = total]
        PROVE  last'[x][y] <= exported'[x][y]
    <3>1. CASE x = m /\ y = k
      <4>1. last'[x][y] = total /\ exported'[x][y] = exported[x][y] + (total - last[x][y])
        BY <2>1, <2>3, <3>1
      <4>2. total \in Nat
        BY <2>1, <2>3
      <4> QED BY <2>2, <4>1, <4>2
    <3>2. CASE ~(x = m /\ y = k)
      <4>1. last'[x][y] = last[x][y] /\ exported'[x][y] = exported[x][y]
        BY <2>1, <2>3, <3>2
      <4> QED BY <2>2, <4>1
    <3> QED BY <3>1, <3>2
  <2>4. ASSUME last' = [last EXCEPT ![m][k] = 0], exported' = exported
        PROVE  last'[x][y] <= exported'[x][y]
    <3>1. last'[x][y] \in {0, last[x][y]}
      BY <2>1, <2>4
    <3> QED BY <2>2, <2>4, <3>1
  <2> QED BY <1>2, SumStep, <2>3, <2>4
<1>3. ASSUME NEW c \in Cpus, Program(c) PROVE UNCHANGED <<last, exported>>
  BY <1>3 DEF Program, Count, Filter, scan
<1>4. ASSUME Loop, ~Sum PROVE UNCHANGED <<last, exported>>
  BY <1>4 DEF Loop, Refresh, Open, Begin
<1>5. ASSUME NEW p \in Posters, Handler(p) PROVE UNCHANGED <<last, exported>>
  BY <1>5 DEF Handler, Decode, Default, Assign, Copy, WriteCfg, scan
<1>6. ASSUME Container \/ UNCHANGED vars PROVE UNCHANGED <<last, exported>>
  BY <1>6 DEF Container, Create, Remove, vars, scan
<1> QED BY <1>1, <1>2, <1>3, <1>4, <1>5, <1>6 DEF Next

\* ScanCatchesUp: what the scan finds of an allowed key is displayed when it goes on, for
\* any number of CPUs that count meanwhile and whatever was forgotten: nothing that was
\* counted is passed over for good.
THEOREM ScansCatchUp == Spec => ScanCatchesUp
<1> DEFINE m == loop.mod  k == loop.key
           CatchesUp == k \in allowed \cup {System} /\ loop'.key = NoCgroup
                            => exported'[m][k] >= loop.low
<1>1. Init => FeedInv /\ KeptInv
  <2>1. Init => KeptInv
    BY DEF Init, KeptInv
  <2> QED BY <2>1, FeedInit
<1>2. FeedInv /\ KeptInv /\ [Next]_vars => FeedInv' /\ KeptInv'
  BY FeedStep, KeptStep
<1>3. FeedInv /\ KeptInv /\ [Next]_vars => CatchesUp
  <2> SUFFICES ASSUME FeedInv, KeptInv, [Next]_vars, k \in allowed \cup {System},
                      loop'.key = NoCgroup
               PROVE  exported'[m][k] >= loop.low
    OBVIOUS
  <2>1. k # NoCgroup
    BY CollectorAssumption DEF FeedInv, TypeInv, TypeOK, Keys
  <2>2. CASE Sum
    <3>1. PICK total \in loop.low .. count[m][k] : Export(m, k, total)
      BY <2>2 DEF Sum
    <3>2. /\ m \in Modules /\ k \in Keys
          /\ loop.low \in Nat /\ count[m][k] \in Nat /\ last[m][k] \in Nat
          /\ exported[m][k] \in Nat
          /\ last[m][k] <= loop.low /\ last[m][k] <= exported[m][k]
          /\ exported \in [Modules -> [Keys -> Nat]]
      BY <2>1, <2>2, SumStep DEF FeedInv, TypeInv, TypeOK, ReadInv, KeptInv
    <3>3. total \in Nat /\ total >= loop.low /\ total >= last[m][k]
      BY <3>1, <3>2
    <3>4. exported' = [exported EXCEPT ![m][k] = @ + (total - last[m][k])]
      BY <3>1, <3>2, <3>3 DEF Export
    <3>5. exported'[m][k] = exported[m][k] + (total - last[m][k])
      BY <3>2, <3>4
    <3> QED BY <3>2, <3>3, <3>5
  <2>3. CASE ~Sum
    <3>1. loop' = loop
      <4>1. ASSUME NEW c \in Cpus, Program(c) PROVE loop' = loop
        BY <4>1 DEF Program, Count, Filter, scan
      <4>2. ASSUME Loop PROVE FALSE
        BY <2>1, <2>3, <4>2 DEF Loop, Refresh, Ticking, Open, Begin
      <4>3. ASSUME NEW p \in Posters, Handler(p) PROVE loop' = loop
        BY <4>3 DEF Handler, Decode, Default, Assign, Copy, WriteCfg, scan
      <4>4. ASSUME Container \/ UNCHANGED vars PROVE loop' = loop
        BY <4>4 DEF Container, Create, Remove, vars, scan
      <4> QED BY <4>1, <4>2, <4>3, <4>4 DEF Next
    <3> QED BY <2>1, <3>1
  <2> QED BY <2>2, <2>3
<1>4. FeedInv /\ KeptInv /\ [Next]_vars =>
         [LET m_ == loop.mod  k_ == loop.key
          IN  k_ \in allowed \cup {System} /\ loop'.key = NoCgroup
                 => exported'[m_][k_] >= loop.low]_vars
  BY <1>3
<1> QED BY <1>1, <1>2, <1>4, PTL DEF Spec, ScanCatchesUp

-----------------------------------------------------------------------------
(* The feed *)

\* The counters as Feed numbers them.
LEMMA PerCounterOf ==
    ASSUME NEW f, NEW m \in Modules, NEW k \in Keys
    PROVE  PerCounter(f)[<<m, k>>] = f[m][k]
BY DEF PerCounter, FeedCounters

\* One entry of a map, or one counter, is set.
EntrySet(f, g, m, k, v) == g = [f EXCEPT ![m][k] = v]
CounterSet(f, g, x, v) == g = [f EXCEPT ![x] = v]

\* Changing one entry of a map changes the one counter.
LEMMA PerCounterSet ==
    ASSUME NEW f \in [Modules -> [Keys -> Nat]], NEW m \in Modules, NEW k \in Keys, NEW v,
           NEW g, EntrySet(f, g, m, k, v)
    PROVE  CounterSet(PerCounter(f), PerCounter(g), <<m, k>>, v)
<1> USE DEF EntrySet, CounterSet
<1>1. ASSUME NEW x \in FeedCounters
      PROVE  g[x[1]][x[2]] = IF x = <<m, k>> THEN v ELSE f[x[1]][x[2]]
  <2>1. x[1] \in Modules /\ x[2] \in Keys /\ x = <<x[1], x[2]>>
    BY DEF FeedCounters
  <2> QED BY <2>1
<1>2. PerCounter(g) = [x \in FeedCounters |-> IF x = <<m, k>> THEN v ELSE f[x[1]][x[2]]]
  BY <1>1 DEF PerCounter
<1>3. [PerCounter(f) EXCEPT ![<<m, k>>] = v]
        = [x \in FeedCounters |-> IF x = <<m, k>> THEN v ELSE f[x[1]][x[2]]]
  BY DEF PerCounter
<1> QED BY <1>2, <1>3

\* The steps of the collector are steps of the feed or leave its counters alone.
LEMMA FeedSimulation == FeedInv /\ FeedInv' /\ [Next]_vars => [Fed!Next]_Fed!vars
<1> SUFFICES ASSUME FeedInv, [Next]_vars PROVE [Fed!Next]_Fed!vars
  OBVIOUS
<1> DEFINE Counters == <<count, last, exported>>
<1>1. ASSUME UNCHANGED Counters PROVE UNCHANGED Fed!vars
  BY <1>1 DEF Fed!vars, PerCounter
<1>0. /\ count \in [Modules -> [Keys -> Nat]] /\ last \in [Modules -> [Keys -> Nat]]
      /\ exported \in [Modules -> [Keys -> Nat]]
  BY DEF FeedInv, TypeInv, TypeOK
<1>2. ASSUME NEW c \in Cpus, Count(c) PROVE [Fed!Next]_Fed!vars
  <2>1. UNCHANGED <<last, exported>>
    BY <1>2 DEF Count, scan
  <2>2. CASE count' = count
    BY <1>1, <2>1, <2>2
  <2>3. ASSUME NEW m \in Modules, NEW k \in Keys, NEW n \in Nat \ {0},
               count' = [count EXCEPT ![m][k] = @ + n]
        PROVE  Fed!Next
    <3>1. PerCounter(count') = [PerCounter(count) EXCEPT ![<<m, k>>] = count[m][k] + n]
      <4>1. EntrySet(count, count', m, k, count[m][k] + n)
        BY <2>3 DEF EntrySet
      <4>2. CounterSet(PerCounter(count), PerCounter(count'), <<m, k>>, count[m][k] + n)
        BY <1>0, <4>1, PerCounterSet
      <4> QED BY <4>2 DEF CounterSet
    <3>2. PerCounter(count)[<<m, k>>] = count[m][k] /\ count[m][k] \in Nat
      BY <1>0, PerCounterOf
    <3>3. <<m, k>> \in DOMAIN PerCounter(count) /\ <<m, k>> \in FeedCounters
      BY DEF PerCounter, FeedCounters
    <3>4. PerCounter(count')[<<m, k>>] = count[m][k] + n
      BY <3>1, <3>3
    <3>5. UNCHANGED <<PerCounter(last), PerCounter(exported)>>
      BY <2>1 DEF PerCounter
    <3>6. PerCounter(count')[<<m, k>>] > PerCounter(count)[<<m, k>>]
      BY <3>2, <3>4
    <3>7. PerCounter(count') = [PerCounter(count) EXCEPT ![<<m, k>>] = PerCounter(count')[<<m, k>>]]
      BY <3>1, <3>4
    <3>8. Fed!Count(<<m, k>>)
      BY <3>5, <3>6, <3>7 DEF Fed!Count
    <3> QED BY <3>3, <3>8 DEF Fed!Next
  <2> QED BY <1>2, <2>2, <2>3, CountStep DEF FeedInv
<1>3. ASSUME Sum PROVE [Fed!Next]_Fed!vars
  <2> DEFINE m == loop.mod  k == loop.key
  <2>1. m \in Modules /\ k \in Keys /\ count' = count
    BY <1>3, SumStep DEF Sum, bpf
  <2>2. <<m, k>> \in FeedCounters /\ UNCHANGED PerCounter(count)
    BY <2>1 DEF FeedCounters, PerCounter
  <2>3. /\ PerCounter(last)[<<m, k>>] = last[m][k]
        /\ PerCounter(exported)[<<m, k>>] = exported[m][k]
        /\ PerCounter(count)[<<m, k>>] = count[m][k]
    BY <2>1, PerCounterOf
  <2>4. ASSUME NEW total \in last[m][k] .. count[m][k],
               exported' = [exported EXCEPT ![m][k] = @ + (total - last[m][k])],
               last' = [last EXCEPT ![m][k] = total]
        PROVE  Fed!Publish(<<m, k>>)
    <3>1. /\ PerCounter(last') = [PerCounter(last) EXCEPT ![<<m, k>>] = total]
          /\ PerCounter(exported') =
                 [PerCounter(exported) EXCEPT ![<<m, k>>] = exported[m][k] + (total - last[m][k])]
      <4>1. /\ EntrySet(last, last', m, k, total)
            /\ EntrySet(exported, exported', m, k, exported[m][k] + (total - last[m][k]))
        BY <2>4 DEF EntrySet
      <4>2. /\ CounterSet(PerCounter(last), PerCounter(last'), <<m, k>>, total)
            /\ CounterSet(PerCounter(exported), PerCounter(exported'), <<m, k>>,
                          exported[m][k] + (total - last[m][k]))
        BY <1>0, <2>1, <4>1, PerCounterSet
      <4> QED BY <4>2 DEF CounterSet
    <3> QED BY <2>2, <2>3, <2>4, <3>1 DEF Fed!Publish
  <2>5. ASSUME last' = [last EXCEPT ![m][k] = 0], exported' = exported
        PROVE  Fed!Forget(<<m, k>>)
    <3>1. PerCounter(last') = [PerCounter(last) EXCEPT ![<<m, k>>] = 0]
      <4>1. EntrySet(last, last', m, k, 0)
        BY <2>5 DEF EntrySet
      <4>2. CounterSet(PerCounter(last), PerCounter(last'), <<m, k>>, 0)
        BY <1>0, <2>1, <4>1, PerCounterSet
      <4> QED BY <4>2 DEF CounterSet
    <3>2. UNCHANGED PerCounter(exported)
      BY <2>5 DEF PerCounter
    <3> QED BY <2>2, <3>1, <3>2 DEF Fed!Forget
  <2>6. Fed!Publish(<<m, k>>) \/ Fed!Forget(<<m, k>>)
    BY <1>3, <2>4, <2>5, SumStep
  <2> QED BY <2>2, <2>6 DEF Fed!Next
<1>4. ASSUME NEW list \in Listings, Refresh(list) PROVE UNCHANGED Counters
  BY <1>4 DEF Refresh, bpf
<1>5. ASSUME NEW m \in Modules, Open(m) PROVE UNCHANGED Counters
  BY <1>5 DEF Open, bpf
<1>6. ASSUME NEW k \in Keys, Begin(k) PROVE UNCHANGED Counters
  BY <1>6 DEF Begin, bpf
<1>7. ASSUME NEW c \in Cpus, NEW m \in Modules, NEW k \in Keys, NEW n \in Amounts[m] \cup {1},
             Filter(c, m, k, n)
      PROVE  UNCHANGED Counters
  BY <1>7 DEF Filter, scan
<1>8. ASSUME Container PROVE UNCHANGED Counters
  BY <1>8 DEF Container, Create, Remove, bpf, scan
<1>9. ASSUME NEW p \in Posters, Handler(p) PROVE UNCHANGED Counters
  BY <1>9 DEF Handler, Decode, Default, Assign, Copy, WriteCfg, bpf, scan
<1>10. ASSUME UNCHANGED vars PROVE UNCHANGED Counters
  BY <1>10 DEF vars, bpf, scan
<1> QED BY <1>1, <1>2, <1>3, <1>4, <1>5, <1>6, <1>7, <1>8, <1>9, <1>10 DEF Next, Program, Loop

\* ImplementsFeed: every step of the collector adds to one exported counter exactly what
\* was counted since the last time, or forgets, or leaves the counters alone.
THEOREM CollectorImplementsFeed == Spec => ImplementsFeed
<1>1. Spec => []FeedInv
  BY FeedInit, FeedStep, PTL DEF Spec
<1>2. Init => Fed!Init
  BY DEF Init, Fed!Init, PerCounter, FeedCounters
<1> QED BY <1>1, <1>2, FeedSimulation, PTL DEF Spec, ImplementsFeed, Fed!Spec

-----------------------------------------------------------------------------
(* What is shown *)

\* The list and the configurations name no cgroup but gocker's and posted targets.
WatchInv ==
    /\ allowed \subseteq Watched
    /\ cfg0.cgid \in Watched
    /\ \A p \in Posters : Working(p) => Conf(p).cgid \in Watched
    /\ \A p \in Posters : post[p].pc = "default" => Conf(p) \in Posts
    /\ OnlyWatched

ShownInv == TypeInv /\ WatchInv

\* At the start the list is gocker alone, which is the target too.
LEMMA WatchInit == Init => ShownInv
<1> SUFFICES ASSUME Init PROVE WatchInv
  BY TypeInit DEF ShownInv
<1>1. allowed \subseteq Watched /\ cfg0.cgid \in Watched
  BY DEF Init, InitialConfig, Watched
<1>2. OnlyWatched
  BY DEF Init, OnlyWatched
<1> QED BY <1>1, <1>2 DEF Init, WatchInv, Working, Idling

\* The target of what a handler copies is some configuration's.
LEMMA CopiedWatched ==
    ASSUME WatchInv, NEW p \in Posters, NEW c \in Copied(p)
    PROVE  c.cgid \in Watched
<1> DEFINE C == {cfg0} \cup {Conf(q) : q \in Doing("assign") \ {p}}
<1>1. \A x \in C : x.cgid \in Watched
  BY DEF WatchInv, Working, Doing
<1>2. PICK x \in C, y \in C, z \in C :
        c = [rate |-> x.rate, en |-> x.en, lvl |-> y.lvl, cgid |-> z.cgid]
  BY DEF Copied, Mixed
<1> QED BY <1>1, <1>2

\* The loop lists and shows what is watched.
LEMMA LoopKeepsWatch == ASSUME ShownInv, Loop PROVE WatchInv'
<1>1. UNCHANGED admin
  BY DEF Loop, Refresh, Open, Begin, Sum
<1>2. ASSUME NEW list \in Listings, Refresh(list) PROVE WatchInv'
  <2>1. list \subseteq Watched
    BY DEF Listings, Watched, ShownInv, WatchInv
  <2> QED BY <1>1, <1>2, <2>1
      DEF Refresh, admin, ShownInv, WatchInv, OnlyWatched, Working, Conf
<1>3. CASE Sum
  <2> DEFINE m == loop.mod  k == loop.key
  <2>1. m \in Modules /\ k \in Keys /\ exported \in [Modules -> [Keys -> Nat]]
    BY <1>3 DEF Sum, ShownInv, TypeInv, TypeOK
  <2>2. \/ UNCHANGED exported
        \/ /\ k \in Watched
           /\ \E n : exported' = [exported EXCEPT ![m][k] = n]
    BY <1>3 DEF Sum, Export, Watched, ShownInv, WatchInv
  <2>3. OnlyWatched'
    <3> SUFFICES ASSUME NEW x \in Modules, NEW y \in Keys, exported'[x][y] > 0
                 PROVE  y \in Watched
      BY DEF OnlyWatched
    <3>1. CASE exported'[x][y] = exported[x][y]
      BY <3>1 DEF ShownInv, WatchInv, OnlyWatched
    <3>2. CASE exported'[x][y] # exported[x][y]
      <4>1. k \in Watched
        BY <2>2, <3>2
      <4>2. y = k
        BY <2>1, <2>2, <3>2
      <4> QED BY <4>1, <4>2
    <3> QED BY <3>1, <3>2
  <2> QED BY <1>1, <1>3, <2>3 DEF Sum, admin, ShownInv, WatchInv, Working, Conf
<1>4. ASSUME (\E m \in Modules : Open(m)) \/ \E k \in Keys : Begin(k) PROVE WatchInv'
  BY <1>1, <1>4 DEF Open, Begin, admin, ShownInv, WatchInv, OnlyWatched, Working, Conf
<1> QED BY <1>2, <1>3, <1>4 DEF Loop

\* A handler works with targets that are watched.
LEMMA HandlerKeepsWatch == ASSUME ShownInv, NEW p \in Posters, Handler(p) PROVE WatchInv'
<1> DEFINE Doings == [pc : {"idle", "default", "assign", "copy", "write"},
                      conf : Configs, left : SUBSET Modules]
           Posted == /\ \A q \in Posters : Working(q) => Conf(q).cgid \in Watched
                     /\ \A q \in Posters : post[q].pc = "default" => Conf(q) \in Posts
<1>0. post \in [Posters -> Doings] /\ WatchInv
  BY DEF ShownInv, TypeInv, TypeOK
<1>a. UNCHANGED <<allowed, exported>>
  BY DEF Handler, Decode, Default, Assign, Copy, WriteCfg, scan
<1> SUFFICES Posted' /\ (cfg0.cgid \in Watched)'
  BY <1>0, <1>a DEF WatchInv, OnlyWatched
<1>1. ASSUME NEW in \in Posts, Decode(p, in) PROVE Posted' /\ (cfg0.cgid \in Watched)'
  BY <1>0, <1>1 DEF Decode, WatchInv, Working, Conf
<1>2. CASE Default(p)
  <2>1. PICK base \in Copied(p) :
          post' = [post EXCEPT ![p] = [pc |-> "assign", conf |-> Completed(post[p].conf, base),
                                       left |-> {}]]
    BY <1>2 DEF Default
  <2> DEFINE conf == Completed(post[p].conf, base)
  <2>2. conf.cgid \in Watched
    <3>1. base.cgid \in Watched
      BY <1>0, CopiedWatched
    <3>2. post[p].conf.cgid \in Watched
      BY <1>0, <1>2 DEF Default, WatchInv, Conf, Watched
    <3> QED BY <3>1, <3>2 DEF Completed
  <2> HIDE DEF conf
  <2>3. post'[p] = [pc |-> "assign", conf |-> conf, left |-> {}]
    BY <1>0, <2>1 DEF conf
  <2>4. \A q \in Posters \ {p} : post'[q] = post[q]
    BY <1>0, <2>1
  <2>5. Posted'
    BY <1>0, <2>2, <2>3, <2>4 DEF WatchInv, Working, Conf
  <2> QED BY <1>0, <1>2, <2>5 DEF Default, WatchInv
<1>3. CASE Assign(p)
  <2>1. post' = [post EXCEPT ![p].pc = "copy"] /\ post[p].pc = "assign" /\ cfg0' = Conf(p)
    BY <1>3 DEF Assign, Conf
  <2> QED BY <1>0, <2>1 DEF WatchInv, Working, Conf
<1>4. CASE Copy(p)
  <2>1. PICK conf \in Copied(p) :
          post' = [post EXCEPT ![p] = [pc |-> "write", conf |-> conf, left |-> Modules]]
    BY <1>4 DEF Copy
  <2>2. conf.cgid \in Watched
    BY <1>0, <2>1, CopiedWatched
  <2> QED BY <1>0, <1>4, <2>1, <2>2 DEF Copy, WatchInv, Working, Conf
<1>5. ASSUME NEW m \in Modules, WriteCfg(p, m) PROVE Posted' /\ (cfg0.cgid \in Watched)'
  <2> DEFINE rest == post[p].left \ {m}
             next == IF rest = {} THEN Idling ELSE [post[p] EXCEPT !.left = rest]
  <2>1. post' = [post EXCEPT ![p] = next] /\ post[p].pc = "write" /\ UNCHANGED cfg0
    BY <1>5 DEF WriteCfg
  <2>2. next.pc \in {"idle", "write"} /\ (next.pc = "write" => next.conf = post[p].conf)
    BY <1>0, <2>1 DEF Idling
  <2> HIDE DEF next
  <2> QED BY <1>0, <2>1, <2>2 DEF WatchInv, Working, Conf
<1> QED BY <1>1, <1>2, <1>3, <1>4, <1>5 DEF Handler

\* WatchInv is kept.
LEMMA WatchStep == ShownInv /\ [Next]_vars => ShownInv'
<1> SUFFICES ASSUME ShownInv, [Next]_vars PROVE WatchInv'
  BY TypeStep DEF ShownInv
<1>1. ASSUME UNCHANGED <<scan, admin>> PROVE WatchInv'
  BY <1>1 DEF ShownInv, WatchInv, OnlyWatched, Working, Conf, scan, admin
<1>2. ASSUME NEW c \in Cpus, Program(c) PROVE UNCHANGED <<scan, admin>>
  BY <1>2 DEF Program, Count, Filter
<1>3. ASSUME Container PROVE UNCHANGED <<scan, admin>>
  BY <1>3 DEF Container, Create, Remove
<1> QED BY <1>1, <1>2, <1>3, LoopKeepsWatch, HandlerKeepsWatch DEF Next, vars

\* OnlyWatched: what the programs count of other cgroups - all of them, when their filter
\* is off - is shown by no interleaving of refreshes that fail, scans and requests whose
\* configurations mix, for any targets that are posted.
THEOREM ShowsOnlyWatched == Spec => []OnlyWatched
<1>1. Spec => []ShownInv
  BY WatchInit, WatchStep, PTL DEF Spec
<1>2. ShownInv => OnlyWatched
  BY DEF ShownInv, WatchInv
<1> QED BY <1>1, <1>2, PTL
=============================================================================
