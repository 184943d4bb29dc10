------------------------------- MODULE IPPool -------------------------------
(***************************************************************************)
(* What internal/network/ipam.go promises: a pool of addresses of which    *)
(* each container owns at most one and no two containers the same one.  An *)
(* address is recorded before it is granted and revoked before it is given *)
(* back; a power loss falls back to an earlier state of the pool as a      *)
(* whole, never to a mixture or to nothing readable.                       *)
(***************************************************************************)
CONSTANTS Containers, Addresses, NoIP

VARIABLES
    pool,      \* the address on record for each container
    saved,     \* the records that survive a power loss
    granted    \* the address each container uses

poolVars == <<pool, saved, granted>>

Empty == [c \in Containers |-> NoIP]

Init == pool = Empty /\ saved = Empty /\ granted = Empty

Record(c, ip) ==
    /\ pool[c] = NoIP
    /\ \A d \in Containers : pool[d] # ip
    /\ pool' = [pool EXCEPT ![c] = ip]
    /\ UNCHANGED <<saved, granted>>

Grant(c) ==
    /\ pool[c] # NoIP
    /\ granted' = [granted EXCEPT ![c] = pool[c]]
    /\ UNCHANGED <<pool, saved>>

Revoke(c) ==
    /\ granted' = [granted EXCEPT ![c] = NoIP]
    /\ UNCHANGED <<pool, saved>>

Remove(c) ==
    /\ granted[c] = NoIP
    /\ pool' = [pool EXCEPT ![c] = NoIP]
    /\ UNCHANGED <<saved, granted>>

Commit ==
    /\ saved' = pool
    /\ UNCHANGED <<pool, granted>>

PowerLoss ==
    /\ pool' = saved
    /\ granted' = Empty
    /\ UNCHANGED saved

Next ==
    \/ \E c \in Containers :
         \/ \E ip \in Addresses : Record(c, ip)
         \/ Grant(c) \/ Revoke(c) \/ Remove(c)
    \/ Commit
    \/ PowerLoss

Spec == Init /\ [][Next]_poolVars
=============================================================================
