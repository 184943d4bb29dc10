--------------------------- MODULE LatencyProofs ----------------------------
(***************************************************************************)
(* Proofs about the latency exporter for any number of packets in flight,  *)
(* hashes and map elements: the types, that no hash leaks, and that what   *)
(* is lost or measured wrong is due to a full map or a shared hash.        *)
(***************************************************************************)
EXTENDS Latency, TLAPS

Holding == {"found", "out", "measured", "reported"}

\* A packet whose element was found has a pointer to it.
PtrInv == \A p \in Packets : stage[p] \in Holding => ptr[p] \in Elems

TypeInv == TypeOK /\ PtrInv

\* The values of the map's elements.
LEMMA ContentsType ==
    /\ \A t \in Times : [in |-> t, out |-> 0, delta |-> 0] \in Contents
    /\ \A x \in Contents :
           x.in \in Times /\ x.out \in Times /\ x.delta \in 0 .. Wrap - 1
    /\ \A x \in Contents : \A t \in Times, d \in 0 .. Wrap - 1 :
           [x EXCEPT !.out = t] \in Contents /\ [x EXCEPT !.delta = d] \in Contents
BY LatencyAssumption DEF Contents, Times

\* A difference of two times is a number of 64 bits, in whatever units.
LEMMA DifferenceType ==
    ASSUME NEW a \in Times, NEW b \in Times
    PROVE  /\ InUnits(b, a) \in 0 .. Wrap - 1
           /\ a >= b => InUnits(b, a) = (a - b) \div Unit
<1> DEFINE d == (a - b) % Wrap
<1>1. d \in 0 .. Wrap - 1 /\ (a >= b => d = a - b)
  BY LatencyAssumption DEF Times
<1> HIDE DEF d
<1>2. d \div Unit \in 0 .. Wrap - 1
  BY <1>1, LatencyAssumption
<1> QED BY <1>1, <1>2 DEF InUnits, d

\* The types hold at the start, ...
LEMMA TypeInit == Init => TypeInv
<1> SUFFICES ASSUME Init PROVE TypeInv
  OBVIOUS
<1>1. 0 \in Times /\ 0 \in 0 .. RingSize
  BY LatencyAssumption DEF Times
<1>2. elem \in [Elems -> Contents]
  BY <1>1, ContentsType DEF Init
<1>3. now \in Times /\ ring \in 0 .. RingSize /\ born \in [Packets -> Times]
  BY <1>1 DEF Init
<1> QED BY <1>2, <1>3 DEF Init, TypeInv, TypeOK, PtrInv, Holding, InFlight

\* ... ip_rcv keeps them, ...
LEMMA StoreKeepsTypes ==
    ASSUME TypeInv, NEW p \in Packets, NEW k \in Hashes,
           NoRoom(p, k) \/ \E e \in Elems : Store(p, k, e)
    PROVE  TypeInv'
<1>1. now' \in Times /\ Received(p, k)
  BY LatencyAssumption DEF Store, NoRoom, Received, TypeInv, TypeOK, Times
<1>2. elem' \in [Elems -> Contents]
  <2>1. Stored \in Contents
    BY <1>1, ContentsType DEF Stored, Received
  <2> QED BY <2>1 DEF Store, NoRoom, TypeInv, TypeOK
<1>3. shared' \in [Packets -> BOOLEAN]
  BY <1>1 DEF Received, TypeInv, TypeOK
<1>4. collided' \in BOOLEAN
  BY <1>1 DEF Received, TypeInv, TypeOK
<1>5. /\ stage' = [stage EXCEPT ![p] = "received"] /\ hash' = [hash EXCEPT ![p] = k]
      /\ born' = [born EXCEPT ![p] = now'] /\ UNCHANGED <<ptr, ring, reports, missed>>
  BY <1>1 DEF Received, Store, NoRoom
<1>6. /\ stage' \in [Packets -> {"idle", "received", "found", "out", "measured", "reported"}]
      /\ hash' \in [Packets -> Hashes \cup {None}] /\ born' \in [Packets -> Times]
      /\ \A q \in InFlight' : hash'[q] \in Hashes
  BY <1>1, <1>5 DEF TypeInv, TypeOK, InFlight
<1>7. PtrInv'
  BY <1>5 DEF TypeInv, TypeOK, PtrInv, Holding
<1>8. /\ entry' \in [Hashes -> Elems \cup {None}] /\ full' \in [Packets -> BOOLEAN]
      /\ stale' \subseteq Hashes
  <2>1. CASE NoRoom(p, k)
    BY <2>1 DEF NoRoom, TypeInv, TypeOK
  <2>2. ASSUME NEW e \in Elems, Store(p, k, e)
        PROVE  /\ entry' \in [Hashes -> Elems \cup {None}] /\ full' \in [Packets -> BOOLEAN]
               /\ stale' \subseteq Hashes
    BY <2>2 DEF Store, TypeInv, TypeOK
  <2> QED BY <2>1, <2>2
<1> QED BY <1>1, <1>2, <1>3, <1>4, <1>5, <1>6, <1>7, <1>8 DEF TypeInv, TypeOK

\* ... and so does every other step.
LEMMA TypeStep == TypeInv /\ [Next]_vars => TypeInv'
<1> SUFFICES ASSUME TypeInv, [Next]_vars PROVE TypeInv'
  OBVIOUS
<1>0. ASSUME NEW p \in Packets, NEW k \in Hashes, NoRoom(p, k) \/ \E e \in Elems : Store(p, k, e)
      PROVE  TypeInv'
  BY <1>0, StoreKeepsTypes
<1> USE DEF TypeInv, TypeOK, PtrInv, Holding, InFlight
<1>1. CASE UNCHANGED vars
  BY <1>1 DEF vars, kernel, history
<1>2. CASE Read
  BY <1>2, LatencyAssumption DEF Read, history
<1>3. ASSUME NEW p \in Packets, Drop(p) PROVE TypeInv'
  BY <1>3 DEF Drop
<1>4. ASSUME NEW p \in Packets, Lookup(p) PROVE TypeInv'
  BY <1>4 DEF Lookup, history
<1>5. ASSUME NEW p \in Packets, Miss(p) PROVE TypeInv'
  BY <1>5 DEF Miss
<1>6. ASSUME NEW p \in Packets, Out(p) PROVE TypeInv'
  <2>1. now' \in Times /\ ptr[p] \in Elems
    BY <1>6, LatencyAssumption DEF Out, Times
  <2>2. elem' = [elem EXCEPT ![ptr[p]] = [elem[ptr[p]] EXCEPT !.out = now']]
    BY <1>6 DEF Out
  <2>3. elem' \in [Elems -> Contents]
    BY <2>1, <2>2, ContentsType
  <2> QED BY <1>6, <2>1, <2>3 DEF Out, history
<1>7. ASSUME NEW p \in Packets, Delta(p) PROVE TypeInv'
  <2> DEFINE d == InUnits(elem[ptr[p]].in, elem[ptr[p]].out)
  <2>1. ptr[p] \in Elems /\ elem[ptr[p]] \in Contents
    BY <1>7 DEF Delta
  <2>2. d \in 0 .. Wrap - 1
    BY <2>1, ContentsType, DifferenceType
  <2>3. elem' = [elem EXCEPT ![ptr[p]] = [elem[ptr[p]] EXCEPT !.delta = d]]
    BY <1>7 DEF Delta
  <2> HIDE DEF d
  <2>4. elem' \in [Elems -> Contents]
    BY <2>1, <2>2, <2>3, ContentsType
  <2> QED BY <1>7, <2>4 DEF Delta, history
<1>8. ASSUME NEW p \in Packets, Report(p) PROVE TypeInv'
  <2>1. ptr[p] \in Elems /\ elem[ptr[p]] \in Contents
    BY <1>8 DEF Report
  <2>2. ring' \in 0 .. RingSize
    BY <1>8, LatencyAssumption DEF Report
  <2>3. reports' \subseteq
            [born : Times, shared : BOOLEAN, collided : BOOLEAN, what : Contents]
    BY <1>8, <2>1 DEF Report
  <2>4. UNCHANGED <<now, hash, ptr, entry, elem, born, shared, collided, full, stale, missed>>
    BY <1>8 DEF Report
  <2>5. stage' = [stage EXCEPT ![p] = "reported"] /\ stage[p] = "measured"
    BY <1>8 DEF Report
  <2>6. /\ stage' \in [Packets -> {"idle", "received", "found", "out", "measured", "reported"}]
        /\ PtrInv' /\ \A q \in InFlight' : hash'[q] \in Hashes
    BY <2>4, <2>5
  <2> QED BY <2>2, <2>3, <2>4, <2>6
<1>9. ASSUME NEW p \in Packets, Delete(p) PROVE TypeInv'
  BY <1>9 DEF Delete
<1> QED BY <1>0, <1>1, <1>2, <1>3, <1>4, <1>5, <1>6, <1>7, <1>8, <1>9 DEF Next, Probe

\* TypeOK of Latency: times and differences stay within 64 bits and the ring buffer
\* within its size, for any packets, hashes and map.
THEOREM LatencyTypeCorrect == Spec => []TypeOK
<1>1. Spec => []TypeInv
  BY TypeInit, TypeStep, PTL DEF Spec
<1>2. TypeInv => TypeOK
  BY DEF TypeInv
<1> QED BY <1>1, <1>2, PTL

-----------------------------------------------------------------------------
(* Leaks *)

LeakInv == TypeInv /\ NoLeak

\* A hash stays in the map for a packet in flight or after a drop.
LEMMA LeakStep == LeakInv /\ [Next]_vars => LeakInv'
<1> SUFFICES ASSUME LeakInv, [Next]_vars PROVE NoLeak'
  BY TypeStep DEF LeakInv
<1> USE DEF LeakInv, TypeInv, TypeOK, NoLeak, Used, InFlight
<1>1. CASE UNCHANGED vars
  BY <1>1 DEF vars, kernel, history
<1>2. CASE Read
  BY <1>2 DEF Read, history
<1>3. ASSUME NEW p \in Packets, NEW k \in Hashes, Received(p, k),
             \/ entry' = entry /\ stale' = stale
             \/ \E e \in Elems : entry' = [entry EXCEPT ![k] = e] /\ stale' = stale \ {k}
      PROVE  NoLeak'
  <2>1. p \in InFlight' /\ hash'[p] = k
    BY <1>3 DEF Received
  <2>2. \A q \in InFlight : q \in InFlight' /\ hash'[q] = hash[q]
    BY <1>3 DEF Received
  <2>3. \A x \in Hashes \ {k} : entry'[x] = entry[x] /\ (x \in stale => x \in stale')
    BY <1>3
  <2> QED BY <2>1, <2>2, <2>3
<1>4. ASSUME NEW p \in Packets, Drop(p) PROVE NoLeak'
  BY <1>4 DEF Drop
<1>5. ASSUME NEW p \in Packets, Lookup(p) PROVE NoLeak'
  BY <1>5 DEF Lookup, history
<1>6. ASSUME NEW p \in Packets, Miss(p) PROVE NoLeak'
  BY <1>6 DEF Miss
<1>7. ASSUME NEW p \in Packets, Out(p) \/ Delta(p) \/ Report(p) PROVE NoLeak'
  BY <1>7 DEF Out, Delta, Report, history
<1>8. ASSUME NEW p \in Packets, Delete(p) PROVE NoLeak'
  BY <1>8 DEF Delete
<1>9. ASSUME NEW p \in Packets, NEW k \in Hashes, NoRoom(p, k) \/ \E e \in Elems : Store(p, k, e)
      PROVE  NoLeak'
  BY <1>3, <1>9 DEF NoRoom, Store
<1> QED BY <1>1, <1>2, <1>4, <1>5, <1>6, <1>7, <1>8, <1>9 DEF Next, Probe

\* NoLeak: the map keeps no hash but of packets in flight and of dropped ones.
THEOREM HashesDoNotLeak == Spec => []NoLeak
<1>1. Init => LeakInv
  BY TypeInit DEF Init, LeakInv, NoLeak, Used
<1>2. Spec => []LeakInv
  BY <1>1, LeakStep, PTL DEF Spec
<1>3. LeakInv => NoLeak
  BY DEF LeakInv
<1> QED BY <1>2, <1>3, PTL

-----------------------------------------------------------------------------
(* Measurements *)

\* Packets in flight that have one hash know it.
SharedInv ==
    /\ \A p, q \in InFlight : p # q /\ hash[p] = hash[q] => shared[p] /\ shared[q]
    /\ \A p \in InFlight : shared[p] => collided

\* No element is used for two hashes.
ElemInv == \A k, l \in Used : entry[k] = entry[l] => k = l

\* A packet that shares its hash with nobody finds what ip_rcv stored for it, if there
\* was room, and holds the element that still belongs to its hash.
OwnInv ==
    \A p \in InFlight : ~shared[p] =>
        /\ stage[p] = "received" =>
               IF full[p] THEN entry[hash[p]] = None
               ELSE entry[hash[p]] # None /\ elem[entry[hash[p]]].in = born[p]
        /\ stage[p] \in {"found", "out", "measured"} =>
               entry[hash[p]] = ptr[p] /\ elem[ptr[p]].in = born[p]

\* As long as no hash was shared a packet's element holds its own times.
TimesInv ==
    /\ \A p \in Packets : born[p] <= now
    /\ ~collided => \A p \in Packets :
           /\ stage[p] \in {"out", "measured"} => elem[ptr[p]].out > born[p]
           /\ stage[p] = "measured" => elem[ptr[p]].delta = (elem[ptr[p]].out - born[p]) \div Unit

MeasureInv ==
    TypeInv /\ SharedInv /\ ElemInv /\ OwnInv /\ TimesInv /\ OwnMeasurement /\ LostOnlyWhenFull

LEMMA MeasureInit == Init => MeasureInv
BY TypeInit
   DEF Init, MeasureInv, SharedInv, ElemInv, OwnInv, TimesInv, OwnMeasurement, LostOnlyWhenFull,
       InFlight, Used

\* Two packets of which neither shares its hash have different elements.
LEMMA PointersDiffer ==
    ASSUME MeasureInv, NEW p \in InFlight, NEW q \in InFlight, p # q, ~shared[p], ~shared[q],
           stage[p] \in {"found", "out", "measured"}, stage[q] \in {"found", "out", "measured"}
    PROVE  ptr[p] # ptr[q]
<1>1. hash[p] # hash[q] /\ hash[p] \in Hashes /\ hash[q] \in Hashes
  BY DEF MeasureInv, SharedInv, TypeInv, TypeOK
<1>2. entry[hash[p]] = ptr[p] /\ entry[hash[q]] = ptr[q]
  BY DEF MeasureInv, OwnInv
<1>3. ptr[p] # None /\ ptr[q] # None
  BY LatencyAssumption DEF MeasureInv, TypeInv, PtrInv, Holding, InFlight
<1> QED BY <1>1, <1>2, <1>3 DEF MeasureInv, ElemInv, Used

\* ip_rcv: what it stores is its own, and packets that do not share a hash are not touched.
LEMMA ReceiveKeepsMeasures ==
    ASSUME MeasureInv, NEW p \in Packets, NEW k \in Hashes,
           NoRoom(p, k) \/ \E e \in Elems : Store(p, k, e)
    PROVE  SharedInv' /\ ElemInv' /\ OwnInv' /\ TimesInv' /\ OwnMeasurement' /\ LostOnlyWhenFull'
<1> DEFINE others == {q \in InFlight \ {p} : hash[q] = k}
<1> USE DEF MeasureInv, TypeInv, TypeOK
<1>1. Received(p, k)
  BY DEF NoRoom, Store
<1>2. /\ p \notin InFlight /\ InFlight' = InFlight \cup {p}
      /\ hash'[p] = k /\ \A q \in InFlight : hash'[q] = hash[q] /\ stage'[q] = stage[q] /\ q # p
      /\ stage'[p] = "received" /\ born'[p] = now' /\ now' = now + 1
      /\ \A q \in InFlight : born'[q] = born[q]
  BY <1>1 DEF Received, InFlight
<1>3. /\ shared'[p] = (others # {})
      /\ \A q \in InFlight : shared'[q] = (shared[q] \/ q \in others)
      /\ collided' = (collided \/ others # {})
  BY <1>1, <1>2 DEF Received, InFlight
<1>4. SharedInv'
  <2>1. ASSUME NEW a \in InFlight', NEW b \in InFlight', a # b, hash'[a] = hash'[b]
        PROVE  shared'[a] /\ shared'[b]
    <3>1. CASE a \in InFlight /\ b \in InFlight
      <4>1. shared[a] /\ shared[b]
        BY <1>2, <2>1, <3>1 DEF SharedInv
      <4> QED BY <1>3, <3>1, <4>1
    <3>2. CASE a = p
      <4>1. b \in others
        BY <1>2, <2>1, <3>2
      <4> QED BY <1>3, <3>2, <4>1
    <3>3. CASE b = p
      <4>1. a \in others
        BY <1>2, <2>1, <3>3
      <4> QED BY <1>3, <3>3, <4>1
    <3> QED BY <1>2, <3>1, <3>2, <3>3
  <2>2. ASSUME NEW a \in InFlight', shared'[a] PROVE collided'
    BY <1>2, <1>3, <2>2 DEF SharedInv
  <2> QED BY <2>1, <2>2 DEF SharedInv
<1>5. /\ UNCHANGED <<ptr, reports, missed>>
      /\ \/ entry[k] = None /\ UNCHANGED <<entry, elem>> /\ full'[p] = TRUE
         \/ \E e \in Unused : /\ entry' = [entry EXCEPT ![k] = e] /\ full'[p] = FALSE
                              /\ elem' = [elem EXCEPT ![e] = Stored] /\ e \in Elems
      /\ \A q \in InFlight : full'[q] = full[q]
  <2>1. CASE NoRoom(p, k)
    BY <1>2, <2>1 DEF NoRoom, InFlight
  <2>2. ASSUME NEW e \in Elems, Store(p, k, e)
        PROVE  /\ UNCHANGED <<ptr, reports, missed>> /\ e \in Unused
               /\ entry' = [entry EXCEPT ![k] = e] /\ full'[p] = FALSE
               /\ elem' = [elem EXCEPT ![e] = Stored]
               /\ \A q \in InFlight : full'[q] = full[q]
    BY <1>2, <2>2 DEF Store, InFlight
  <2> QED BY <2>1, <2>2
<1>6. ElemInv'
  BY <1>5, LatencyAssumption DEF ElemInv, Used, Unused
<1>7. ASSUME NEW q \in InFlight, ~shared'[q]
      PROVE  /\ hash[q] # k /\ ~shared[q] /\ hash[q] \in Hashes
             /\ entry'[hash[q]] = entry[hash[q]]
             /\ entry[hash[q]] # None => elem'[entry[hash[q]]] = elem[entry[hash[q]]]
  <2>1. hash[q] # k /\ ~shared[q] /\ hash[q] \in Hashes
    BY <1>2, <1>3, <1>7
  <2> QED BY <1>5, <2>1 DEF Unused
<1>8. OwnInv'
  <2> SUFFICES ASSUME NEW q \in InFlight', ~shared'[q]
               PROVE  /\ stage'[q] = "received" =>
                             IF full'[q] THEN entry'[hash'[q]] = None
                             ELSE entry'[hash'[q]] # None /\ elem'[entry'[hash'[q]]].in = born'[q]
                      /\ stage'[q] \in {"found", "out", "measured"} =>
                             entry'[hash'[q]] = ptr'[q] /\ elem'[ptr'[q]].in = born'[q]
    BY DEF OwnInv
  <2>1. CASE q = p
    <3>1. Stored.in = now'
      BY <1>2 DEF Stored
    <3> QED BY <1>2, <1>5, <2>1, <3>1, LatencyAssumption
  <2>2. CASE q # p
    <3>1. q \in InFlight
      BY <1>2, <2>2
    <3>2. stage[q] \in {"found", "out", "measured"} => ptr[q] # None
      BY <3>1, LatencyAssumption DEF PtrInv, Holding, InFlight
    <3>3. /\ stage'[q] = stage[q] /\ hash'[q] = hash[q] /\ born'[q] = born[q]
          /\ full'[q] = full[q] /\ ptr'[q] = ptr[q]
          /\ ~shared[q] /\ entry'[hash[q]] = entry[hash[q]]
          /\ entry[hash[q]] # None => elem'[entry[hash[q]]] = elem[entry[hash[q]]]
      BY <1>2, <1>5, <1>7, <3>1
    <3>4. /\ stage[q] = "received" =>
                 IF full[q] THEN entry[hash[q]] = None
                 ELSE entry[hash[q]] # None /\ elem[entry[hash[q]]].in = born[q]
          /\ stage[q] \in {"found", "out", "measured"} =>
                 entry[hash[q]] = ptr[q] /\ elem[ptr[q]].in = born[q]
      BY <3>1, <3>3 DEF OwnInv
    <3> QED BY <3>2, <3>3, <3>4
  <2> QED BY <2>1, <2>2
<1>9. TimesInv'
  <2>1. \A q \in Packets : born'[q] <= now'
    BY <1>1, <1>2 DEF Received, TimesInv, Times
  <2>2. ASSUME ~collided', NEW q \in Packets, stage'[q] \in {"out", "measured"}
        PROVE  q \in InFlight /\ ~shared'[q] /\ elem'[ptr'[q]] = elem[ptr[q]]
    <3>1. q \in InFlight
      BY <1>1, <2>2 DEF Received, InFlight
    <3>2. ~shared'[q]
      BY <1>2, <1>4, <2>2, <3>1 DEF SharedInv
    <3>3. ptr[q] # None /\ entry[hash[q]] = ptr[q]
      BY <1>2, <1>7, <2>2, <3>1, <3>2, LatencyAssumption DEF OwnInv, PtrInv, Holding
    <3> QED BY <1>5, <1>7, <3>1, <3>2, <3>3
  <2> QED BY <1>2, <1>3, <2>1, <2>2 DEF TimesInv
<1>10. OwnMeasurement' /\ LostOnlyWhenFull'
  BY <1>5 DEF OwnMeasurement, LostOnlyWhenFull
<1> QED BY <1>4, <1>6, <1>8, <1>9, <1>10

Kept == SharedInv /\ ElemInv /\ OwnInv /\ TimesInv /\ OwnMeasurement /\ LostOnlyWhenFull

\* A packet that is dropped or missed takes nothing with it.
LEMMA LeavingKeepsMeasures ==
    ASSUME MeasureInv, NEW p \in Packets, Drop(p) \/ Miss(p)
    PROVE  Kept'
<1> USE DEF MeasureInv, TypeInv, TypeOK
<1>1. /\ stage' = [stage EXCEPT ![p] = "idle"] /\ stage[p] = "received"
      /\ UNCHANGED <<now, hash, ptr, entry, elem, born, shared, collided, full, reports>>
  BY DEF Drop, Miss
<1>2. InFlight' \subseteq InFlight /\ \A q \in InFlight' : stage'[q] = stage[q]
  BY <1>1 DEF InFlight
<1>3. \A q \in Packets : stage'[q] \in {"out", "measured"} => stage'[q] = stage[q]
  BY <1>1
<1>4. LostOnlyWhenFull'
  <2>1. CASE Drop(p)
    BY <2>1 DEF Drop, LostOnlyWhenFull
  <2>2. CASE Miss(p)
    <3>1. shared[p] \/ full[p]
      BY <2>2 DEF Miss, OwnInv, InFlight
    <3> QED BY <2>2, <3>1 DEF Miss, LostOnlyWhenFull
  <2> QED BY <2>1, <2>2
<1>5. SharedInv' /\ ElemInv'
  BY <1>1, <1>2 DEF SharedInv, ElemInv, Used
<1>6. OwnInv'
  BY <1>1, <1>2 DEF OwnInv
<1>7. TimesInv' /\ OwnMeasurement'
  BY <1>1, <1>3 DEF TimesInv, OwnMeasurement
<1> QED BY <1>4, <1>5, <1>6, <1>7 DEF Kept

\* A packet that is found holds the element of its hash.
LEMMA LookupKeepsMeasures ==
    ASSUME MeasureInv, NEW p \in Packets, Lookup(p)
    PROVE  Kept'
<1> USE DEF MeasureInv, TypeInv, TypeOK
<1>1. /\ stage' = [stage EXCEPT ![p] = "found"] /\ stage[p] = "received"
      /\ ptr' = [ptr EXCEPT ![p] = entry[hash[p]]] /\ entry[hash[p]] # None
      /\ UNCHANGED <<now, hash, entry, elem, born, shared, collided, full, reports, missed>>
  BY DEF Lookup, history
<1>2. InFlight' = InFlight /\ p \in InFlight
  BY <1>1 DEF InFlight
<1>3. OwnInv'
  <2> SUFFICES ASSUME NEW q \in InFlight, ~shared[q]
               PROVE  /\ stage'[q] = "received" =>
                             IF full[q] THEN entry[hash[q]] = None
                             ELSE entry[hash[q]] # None /\ elem[entry[hash[q]]].in = born[q]
                      /\ stage'[q] \in {"found", "out", "measured"} =>
                             entry[hash[q]] = ptr'[q] /\ elem[ptr'[q]].in = born[q]
    BY <1>1, <1>2 DEF OwnInv
  <2>1. /\ stage[q] = "received" =>
               IF full[q] THEN entry[hash[q]] = None
               ELSE entry[hash[q]] # None /\ elem[entry[hash[q]]].in = born[q]
        /\ stage[q] \in {"found", "out", "measured"} =>
               entry[hash[q]] = ptr[q] /\ elem[ptr[q]].in = born[q]
    BY DEF OwnInv
  <2>2. CASE q = p
    BY <1>1, <1>2, <2>1, <2>2 DEF InFlight
  <2>3. CASE q # p
    BY <1>1, <2>1, <2>3 DEF InFlight
  <2> QED BY <2>2, <2>3
<1>4. SharedInv' /\ ElemInv' /\ OwnMeasurement' /\ LostOnlyWhenFull'
  BY <1>1, <1>2 DEF SharedInv, ElemInv, Used, OwnMeasurement, LostOnlyWhenFull
<1>5. TimesInv'
  BY <1>1 DEF TimesInv
<1> QED BY <1>3, <1>4, <1>5 DEF Kept

\* What a packet writes into its element is not the start of another's measurement, and
\* is nothing of another's as long as no hash was shared.
LEMMA WriteKeepsMeasures ==
    ASSUME MeasureInv, NEW p \in Packets, Out(p) \/ Delta(p)
    PROVE  Kept'
<1> USE DEF MeasureInv, TypeInv, TypeOK
<1>1. /\ p \in InFlight /\ ptr[p] \in Elems /\ elem[ptr[p]] \in Contents
      /\ stage[p] \in {"found", "out"} /\ stage'[p] \in {"out", "measured"}
      /\ \A q \in Packets \ {p} : stage'[q] = stage[q]
      /\ UNCHANGED <<hash, ptr, entry, born, shared, collided, full, reports, missed>>
  BY DEF Out, Delta, history, InFlight, PtrInv, Holding
<1>2. \A e \in Elems : elem'[e].in = elem[e].in /\ (e # ptr[p] => elem'[e] = elem[e])
  <2>1. elem[ptr[p]] \in Contents
    BY <1>1
  <2>2. \/ elem' = [elem EXCEPT ![ptr[p]].out = now + 1]
        \/ elem' = [elem EXCEPT ![ptr[p]].delta = InUnits(elem[ptr[p]].in, elem[ptr[p]].out)]
    BY DEF Out, Delta
  <2> QED BY <1>1, <2>1, <2>2 DEF Contents
<1>3. InFlight' = InFlight
  BY <1>1 DEF InFlight
<1>4. OwnInv'
  <2> SUFFICES ASSUME NEW q \in InFlight, ~shared[q]
               PROVE  /\ stage'[q] = "received" =>
                             IF full[q] THEN entry[hash[q]] = None
                             ELSE entry[hash[q]] # None /\ elem'[entry[hash[q]]].in = born[q]
                      /\ stage'[q] \in {"found", "out", "measured"} =>
                             entry[hash[q]] = ptr[q] /\ elem'[ptr[q]].in = born[q]
    BY <1>1, <1>3 DEF OwnInv
  <2>1. /\ stage[q] = "received" =>
               IF full[q] THEN entry[hash[q]] = None
               ELSE entry[hash[q]] # None /\ elem[entry[hash[q]]].in = born[q]
        /\ stage[q] \in {"found", "out", "measured"} =>
               entry[hash[q]] = ptr[q] /\ elem[ptr[q]].in = born[q]
    BY DEF OwnInv
  <2>2. hash[q] \in Hashes /\ (stage[q] \in {"found", "out", "measured"} => ptr[q] \in Elems)
    BY DEF PtrInv, Holding, InFlight
  <2>3. CASE q = p
    BY <1>1, <1>2, <2>1, <2>2, <2>3
  <2>4. CASE q # p
    BY <1>1, <1>2, <2>1, <2>2, <2>4 DEF InFlight
  <2> QED BY <2>3, <2>4
<1>5. SharedInv' /\ ElemInv' /\ OwnMeasurement' /\ LostOnlyWhenFull'
  BY <1>1, <1>3 DEF SharedInv, ElemInv, Used, OwnMeasurement, LostOnlyWhenFull
<1>6. TimesInv'
  <2>1. \A q \in Packets : born'[q] <= now'
    BY <1>1 DEF Out, Delta, TimesInv, Times
  <2>2. ASSUME ~collided, NEW q \in Packets, stage'[q] \in {"out", "measured"}, q # p
        PROVE  stage'[q] = stage[q] /\ elem'[ptr[q]] = elem[ptr[q]]
    <3>1. stage[q] = stage'[q] /\ q \in InFlight /\ ptr[q] \in Elems
      BY <1>1, <2>2 DEF InFlight, PtrInv, Holding
    <3>2. ptr[q] # ptr[p]
      BY <1>1, <2>2, <3>1, PointersDiffer DEF SharedInv
    <3> QED BY <1>2, <3>1, <3>2
  <2>3. ASSUME ~collided
        PROVE  /\ elem'[ptr[p]].out > born[p]
               /\ stage'[p] = "measured" => elem'[ptr[p]].delta = (elem'[ptr[p]].out - born[p]) \div Unit
    <3>1. CASE Out(p)
      <4>1. elem'[ptr[p]].out = now + 1 /\ stage'[p] = "out"
        BY <1>1, <3>1, ContentsType DEF Out, Contents
      <4> QED BY <4>1 DEF TimesInv, Times
    <3>2. CASE Delta(p)
      <4>1. elem[ptr[p]].out > born[p] /\ elem[ptr[p]].in = born[p]
        BY <1>1, <2>3, <3>2 DEF Delta, TimesInv, OwnInv, SharedInv
      <4>2. elem[ptr[p]].out \in Times /\ elem[ptr[p]].in \in Times
        BY <1>1, ContentsType
      <4>3. InUnits(elem[ptr[p]].in, elem[ptr[p]].out) = (elem[ptr[p]].out - elem[ptr[p]].in) \div Unit
        BY <4>1, <4>2, DifferenceType DEF Times
      <4>4. elem'[ptr[p]].out = elem[ptr[p]].out
        BY <1>1, <3>2 DEF Delta, Contents
      <4>5. elem'[ptr[p]].delta = InUnits(elem[ptr[p]].in, elem[ptr[p]].out)
        BY <1>1, <3>2 DEF Delta, Contents
      <4> QED BY <4>1, <4>3, <4>4, <4>5
    <3> QED BY <3>1, <3>2
  <2> QED BY <1>1, <2>1, <2>2, <2>3 DEF TimesInv
<1> QED BY <1>4, <1>5, <1>6 DEF Kept

\* What is sent is the packet's own measurement.
LEMMA ReportKeepsMeasures ==
    ASSUME MeasureInv, NEW p \in Packets, Report(p)
    PROVE  Kept'
<1> USE DEF MeasureInv, TypeInv, TypeOK
<1>1. /\ stage' = [stage EXCEPT ![p] = "reported"] /\ stage[p] = "measured"
      /\ UNCHANGED <<now, hash, ptr, entry, elem, born, shared, collided, full, missed>>
  BY DEF Report
<1>2. InFlight' = InFlight /\ p \in InFlight
  BY <1>1 DEF InFlight
<1>3. OwnMeasurement'
  <2> DEFINE r == [born |-> born[p], shared |-> shared[p], collided |-> collided,
                   what |-> elem[ptr[p]]]
  <2>1. reports' \subseteq reports \cup {r}
    BY DEF Report
  <2>2. ~shared[p] => elem[ptr[p]].in = born[p]
    BY <1>1, <1>2 DEF OwnInv
  <2>3. ~collided => elem[ptr[p]].out > born[p] /\ elem[ptr[p]].delta = (elem[ptr[p]].out - born[p]) \div Unit
    BY <1>1 DEF TimesInv
  <2> QED BY <2>1, <2>2, <2>3 DEF OwnMeasurement
<1>4. SharedInv' /\ ElemInv' /\ LostOnlyWhenFull'
  BY <1>1, <1>2 DEF SharedInv, ElemInv, Used, LostOnlyWhenFull
<1>5. OwnInv' /\ TimesInv'
  BY <1>1, <1>2 DEF OwnInv, TimesInv, InFlight
<1> QED BY <1>3, <1>4, <1>5 DEF Kept

\* A packet that deletes its hash deletes nothing of a packet that does not share it.
LEMMA DeleteKeepsMeasures ==
    ASSUME MeasureInv, NEW p \in Packets, Delete(p)
    PROVE  Kept'
<1> USE DEF MeasureInv, TypeInv, TypeOK
<1>1. /\ stage' = [stage EXCEPT ![p] = "idle"] /\ stage[p] = "reported"
      /\ ptr' = [ptr EXCEPT ![p] = None] /\ entry' = [entry EXCEPT ![hash[p]] = None]
      /\ UNCHANGED <<now, hash, elem, born, shared, collided, full, reports, missed>>
  BY DEF Delete
<1>2. /\ InFlight' = InFlight \ {p} /\ p \in InFlight
      /\ \A q \in InFlight' : stage'[q] = stage[q] /\ ptr'[q] = ptr[q] /\ hash[q] \in Hashes
  BY <1>1 DEF InFlight
<1>3. \A q \in InFlight' : ~shared[q] => entry'[hash[q]] = entry[hash[q]]
  <2> SUFFICES ASSUME NEW q \in InFlight', ~shared[q] PROVE entry'[hash[q]] = entry[hash[q]]
    OBVIOUS
  <2>1. hash[q] # hash[p]
    BY <1>2 DEF SharedInv
  <2> QED BY <1>1, <1>2, <2>1
<1>4. OwnInv'
  BY <1>1, <1>2, <1>3 DEF OwnInv
<1>5. SharedInv' /\ OwnMeasurement' /\ LostOnlyWhenFull'
  BY <1>1, <1>2 DEF SharedInv, OwnMeasurement, LostOnlyWhenFull
<1>6. ElemInv'
  BY <1>1, <1>2 DEF ElemInv, Used
<1>7. TimesInv'
  BY <1>1 DEF TimesInv
<1> QED BY <1>4, <1>5, <1>6, <1>7 DEF Kept

\* MeasureInv is kept.
LEMMA MeasureStep == MeasureInv /\ [Next]_vars => MeasureInv'
<1> SUFFICES ASSUME MeasureInv, [Next]_vars PROVE Kept'
  BY TypeStep DEF MeasureInv, Kept
<1>1. ASSUME UNCHANGED <<now, stage, hash, ptr, entry, elem, history>> PROVE Kept'
  BY <1>1 DEF Kept, MeasureInv, SharedInv, ElemInv, OwnInv, TimesInv, OwnMeasurement,
     LostOnlyWhenFull, InFlight, Used, history
<1>2. ASSUME NEW p \in Packets, NEW k \in Hashes, NoRoom(p, k) \/ \E e \in Elems : Store(p, k, e)
      PROVE  Kept'
  BY <1>2, ReceiveKeepsMeasures DEF Kept
<1>3. CASE Read \/ UNCHANGED vars
  BY <1>1, <1>3 DEF Read, vars, kernel
<1> QED BY <1>2, <1>3, LeavingKeepsMeasures, LookupKeepsMeasures, WriteKeepsMeasures,
           ReportKeepsMeasures, DeleteKeepsMeasures DEF Next, Probe

\* OwnMeasurement: a report is the measurement of its own packet, for any interleaving of
\* any number of packets, except where hashes were shared.
THEOREM ReportsAreOwn == Spec => []OwnMeasurement
<1>1. Spec => []MeasureInv
  BY MeasureInit, MeasureStep, PTL DEF Spec
<1>2. MeasureInv => OwnMeasurement
  BY DEF MeasureInv
<1> QED BY <1>1, <1>2, PTL

\* LostOnlyWhenFull: a packet that goes unmeasured shared its hash or met a full map.
THEOREM LossesExplained == Spec => []LostOnlyWhenFull
<1>1. Spec => []MeasureInv
  BY MeasureInit, MeasureStep, PTL DEF Spec
<1>2. MeasureInv => LostOnlyWhenFull
  BY DEF MeasureInv
<1> QED BY <1>1, <1>2, PTL
=============================================================================
