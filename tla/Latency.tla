------------------------------ MODULE Latency -------------------------------
(***************************************************************************)
(* The network latency exporter.  A probe on ip_rcv stores the time under  *)
(* the hash of the packet, a probe on ip_rcv_finish looks the hash up,     *)
(* writes the difference into the element it found, sends the element to   *)
(* user space and deletes the hash.                                        *)
(*                                                                         *)
(* The probes of different packets run at the same time on the CPUs.  The  *)
(* map is preallocated: an element that is deleted or replaced may be used *)
(* for another hash at once, while a probe still holds a pointer to it.    *)
(***************************************************************************)
EXTENDS Integers, FiniteSets

CONSTANTS
    Packets,       \* packets the stack works on at a time
    Hashes,        \* values of skb->hash: packets of a flow have the same
    Elems,         \* the elements of latency_map, with the spare ones for replacing
    MapSize,       \* max_entries of latency_map
    RingSize,      \* records that fit into the ring buffer
    Wrap,          \* a u64 holds 0 .. Wrap - 1
    Unit,          \* delta is in units of so many ticks: 1000
    None,
    MaxTime        \* bound: timestamps taken

ASSUME LatencyAssumption ==
    /\ IsFiniteSet(Elems) /\ MapSize \in Nat /\ MapSize < Cardinality(Elems)
    /\ None \notin Elems
    /\ RingSize \in Nat /\ MaxTime \in Nat
    /\ Wrap \in Nat /\ MaxTime < Wrap /\ Unit \in Nat \ {0}

VARIABLES
    now,       \* bpf_ktime_get_ns
    stage,     \* where the stack is with each packet
    hash,
    ptr,       \* the element ip_rcv_finish of the packet holds
    entry,     \* latency_map: the element of each hash
    elem,      \* the contents of the elements
    ring,      \* records in the ring buffer that the reader has not read
    born,      \* history: when the packet was received
    shared,    \* history: another packet in flight had its hash
    collided,  \* history: some packet was shared so far
    full,      \* history: there was no room for its hash
    stale,     \* history: hashes of packets dropped since the hash was stored or deleted
    reports,   \* history: what was sent to user space
    missed     \* history: packets that were finished without a measurement

kernel == <<now, stage, hash, ptr, entry, elem, ring>>
history == <<born, shared, collided, full, stale, reports, missed>>
vars == <<kernel, history>>

InFlight == {p \in Packets : stage[p] # "idle"}
Used == {k \in Hashes : entry[k] # None}
Unused == {e \in Elems : \A k \in Hashes : entry[k] # e}

Init ==
    /\ now = 0
    /\ stage = [p \in Packets |-> "idle"]
    /\ hash = [p \in Packets |-> None]
    /\ ptr = [p \in Packets |-> None]
    /\ entry = [k \in Hashes |-> None]
    /\ elem = [e \in Elems |-> [in |-> 0, out |-> 0, delta |-> 0]]
    /\ ring = 0
    /\ born = [p \in Packets |-> 0]
    /\ collided = FALSE /\ shared = [p \in Packets |-> FALSE] /\ full = [p \in Packets |-> FALSE]
    /\ stale = {} /\ reports = {} /\ missed = {}

(***************************************************************************)
(* ip_rcv                                                                  *)
(***************************************************************************)
\* What arrives has no measurement yet; from here on the packets with its hash share it.
Received(p, k) ==
    LET others == {q \in InFlight \ {p} : hash[q] = k} IN
    /\ stage[p] = "idle" /\ now < MaxTime
    /\ now' = now + 1 /\ born' = [born EXCEPT ![p] = now + 1]
    /\ stage' = [stage EXCEPT ![p] = "received"] /\ hash' = [hash EXCEPT ![p] = k]
    /\ shared' = [q \in Packets |-> IF q = p THEN others # {} ELSE shared[q] \/ q \in others]
    /\ collided' = (collided \/ others # {})

Stored == [in |-> now + 1, out |-> 0, delta |-> 0]

\* Wrong variant: an LRU map, where a new hash pushes another one out.
StoreEvicting(p, k, e) ==
    /\ Received(p, k)
    /\ e \in Unused
    /\ \E old \in Used \cup {k} :
           /\ old = k \/ Cardinality(Used) = MapSize
           /\ entry' = [[entry EXCEPT ![old] = None] EXCEPT ![k] = e]
    /\ elem' = [elem EXCEPT ![e] = Stored]
    /\ full' = [full EXCEPT ![p] = FALSE] /\ stale' = stale \ {k}
    /\ UNCHANGED <<ptr, ring, reports, missed>>

Store(p, k, e) ==
    /\ Received(p, k)
    /\ e \in Unused
    /\ entry[k] # None \/ Cardinality(Used) < MapSize
    /\ entry' = [entry EXCEPT ![k] = e]
    /\ elem' = [elem EXCEPT ![e] = Stored]
    /\ full' = [full EXCEPT ![p] = FALSE] /\ stale' = stale \ {k}
    /\ UNCHANGED <<ptr, ring, reports, missed>>

\* bpf_map_update_elem fails, and nobody looks at its result.
NoRoom(p, k) ==
    /\ Received(p, k)
    /\ entry[k] = None /\ Cardinality(Used) = MapSize
    /\ full' = [full EXCEPT ![p] = TRUE]
    /\ UNCHANGED <<ptr, entry, elem, ring, stale, reports, missed>>

\* ip_rcv itself or a netfilter hook drops the packet.
Drop(p) ==
    /\ stage[p] = "received" /\ stage' = [stage EXCEPT ![p] = "idle"]
    /\ stale' = stale \cup {hash[p]}
    /\ UNCHANGED <<now, hash, ptr, entry, elem, ring, born, shared, collided, full, reports, missed>>

(***************************************************************************)
(* ip_rcv_finish                                                           *)
(***************************************************************************)
\* Wrong variant: the hash is deleted before the element is used.
LookupTaking(p) ==
    /\ stage[p] = "received" /\ entry[hash[p]] # None
    /\ ptr' = [ptr EXCEPT ![p] = entry[hash[p]]]
    /\ entry' = [entry EXCEPT ![hash[p]] = None]
    /\ stage' = [stage EXCEPT ![p] = "found"]
    /\ UNCHANGED <<now, hash, elem, ring, history>>

Lookup(p) ==
    /\ stage[p] = "received" /\ entry[hash[p]] # None
    /\ ptr' = [ptr EXCEPT ![p] = entry[hash[p]]]
    /\ stage' = [stage EXCEPT ![p] = "found"]
    /\ UNCHANGED <<now, hash, entry, elem, ring, history>>

Miss(p) ==
    /\ stage[p] = "received" /\ entry[hash[p]] = None
    /\ stage' = [stage EXCEPT ![p] = "idle"]
    /\ missed' = missed \cup {[shared |-> shared[p], full |-> full[p]]}
    /\ UNCHANGED <<now, hash, ptr, entry, elem, ring, born, shared, collided, full, stale, reports>>

Out(p) ==
    /\ stage[p] = "found" /\ now < MaxTime
    /\ now' = now + 1
    /\ elem' = [elem EXCEPT ![ptr[p]].out = now + 1]
    /\ stage' = [stage EXCEPT ![p] = "out"]
    /\ UNCHANGED <<hash, ptr, entry, ring, history>>

\* The difference of two times, as unsigned numbers.
InUnits(in, out) == ((out - in) % Wrap) \div Unit

Delta(p) ==
    /\ stage[p] = "out"
    /\ elem' = [elem EXCEPT ![ptr[p]].delta = InUnits(elem[ptr[p]].in, elem[ptr[p]].out)]
    /\ stage' = [stage EXCEPT ![p] = "measured"]
    /\ UNCHANGED <<now, hash, ptr, entry, ring, history>>

\* Wrong variant: without a record the probe returns at once.
ReportOrLeave(p) ==
    /\ stage[p] = "measured"
    /\ IF ring < RingSize
       THEN /\ ring' = ring + 1 /\ stage' = [stage EXCEPT ![p] = "reported"]
            /\ reports' = reports \cup
                   {[born |-> born[p], shared |-> shared[p], collided |-> collided,
                     what |-> elem[ptr[p]]]}
       ELSE stage' = [stage EXCEPT ![p] = "idle"] /\ UNCHANGED <<ring, reports>>
    /\ UNCHANGED <<now, hash, ptr, entry, elem, born, shared, collided, full, stale, missed>>

Report(p) ==
    /\ stage[p] = "measured"
    /\ IF ring < RingSize
       THEN /\ ring' = ring + 1
            /\ reports' = reports \cup
                   {[born |-> born[p], shared |-> shared[p], collided |-> collided,
                     what |-> elem[ptr[p]]]}
       ELSE UNCHANGED <<ring, reports>>
    /\ stage' = [stage EXCEPT ![p] = "reported"]
    /\ UNCHANGED <<now, hash, ptr, entry, elem, born, shared, collided, full, stale, missed>>

Delete(p) ==
    /\ stage[p] = "reported"
    /\ entry' = [entry EXCEPT ![hash[p]] = None]
    /\ stage' = [stage EXCEPT ![p] = "idle"] /\ ptr' = [ptr EXCEPT ![p] = None]
    /\ stale' = stale \ {hash[p]}
    /\ UNCHANGED <<now, hash, elem, ring, born, shared, collided, full, reports, missed>>

(***************************************************************************)
(* The reader in user space                                                *)
(***************************************************************************)
Read ==
    /\ ring > 0 /\ ring' = ring - 1
    /\ UNCHANGED <<now, stage, hash, ptr, entry, elem, history>>

Probe(p) ==
    \/ \E k \in Hashes : NoRoom(p, k) \/ \E e \in Elems : Store(p, k, e)
    \/ Drop(p) \/ Lookup(p) \/ Miss(p) \/ Out(p) \/ Delta(p) \/ Report(p) \/ Delete(p)

Next == Read \/ \E p \in Packets : Probe(p)

Spec == Init /\ [][Next]_vars

(***************************************************************************)
(* Properties                                                              *)
(***************************************************************************)
Times == 0 .. MaxTime
Contents == [in : Times, out : Times, delta : 0 .. Wrap - 1]

TypeOK ==
    /\ now \in Times
    /\ stage \in [Packets -> {"idle", "received", "found", "out", "measured", "reported"}]
    /\ hash \in [Packets -> Hashes \cup {None}]
    /\ \A p \in InFlight : hash[p] \in Hashes
    /\ ptr \in [Packets -> Elems \cup {None}]
    /\ entry \in [Hashes -> Elems \cup {None}]
    /\ elem \in [Elems -> Contents]
    /\ ring \in 0 .. RingSize
    /\ born \in [Packets -> Times]
    /\ collided \in BOOLEAN /\ shared \in [Packets -> BOOLEAN] /\ full \in [Packets -> BOOLEAN]
    /\ stale \subseteq Hashes
    /\ reports \subseteq
           [born : Times, shared : BOOLEAN, collided : BOOLEAN, what : Contents]
    /\ missed \subseteq [shared : BOOLEAN, full : BOOLEAN]

\* What is sent for a packet starts at the time that packet was received, whatever
\* earlier packets left in the map, unless a packet in flight had the same hash.  The
\* difference is right as well as long as no two packets in flight had one hash: one
\* that finds its element deleted by the other may write into the element of a third.
OwnMeasurement ==
    \A r \in reports :
        /\ ~r.shared => r.what.in = r.born
        /\ ~r.collided => r.what.out > r.born /\ r.what.delta = (r.what.out - r.born) \div Unit

\* A packet goes unmeasured only where the map had no room for it or another packet
\* had the same hash.
LostOnlyWhenFull == \A r \in missed : r.shared \/ r.full

\* The map keeps hashes of packets in flight and of dropped ones, and nothing else:
\* a burst of packets does not fill it for good.
NoLeak == \A k \in Used : k \in stale \/ \E p \in InFlight : hash[p] = k
=============================================================================
