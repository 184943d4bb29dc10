-------------------------------- MODULE Feed --------------------------------
(***************************************************************************)
(* What the collector promises of the counters it exports: the kernel      *)
(* counts up, and the exporter adds to its own counter exactly what has    *)
(* been counted since it last looked.  One thing may happen besides: the   *)
(* exporter forgets how far it has read and starts again from zero.        *)
(***************************************************************************)
EXTENDS Naturals

CONSTANT Counters    \* the exported counters

VARIABLES
    counted,     \* what the kernel has counted
    seen,        \* how far the exporter has read
    exported     \* what the exporter shows

vars == <<counted, seen, exported>>

Init ==
    /\ counted = [c \in Counters |-> 0]
    /\ seen = [c \in Counters |-> 0]
    /\ exported = [c \in Counters |-> 0]

Count(c) ==
    /\ counted'[c] > counted[c]
    /\ counted' = [counted EXCEPT ![c] = counted'[c]]
    /\ UNCHANGED <<seen, exported>>

\* A reader may see a count that is a little old, but never one older than the last.
Publish(c) ==
    /\ \E n \in seen[c] .. counted[c] :
           /\ exported' = [exported EXCEPT ![c] = @ + (n - seen[c])]
           /\ seen' = [seen EXCEPT ![c] = n]
    /\ UNCHANGED counted

Forget(c) == seen' = [seen EXCEPT ![c] = 0] /\ UNCHANGED <<counted, exported>>

Next == \E c \in Counters : Count(c) \/ Publish(c) \/ Forget(c)

Spec == Init /\ [][Next]_vars
=============================================================================
