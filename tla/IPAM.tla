-------------------------------- MODULE IPAM --------------------------------
(***************************************************************************)
(* The address allocator of internal/network/ipam.go.  The allocations     *)
(* live in one JSON file, allocations.json, that every call loads, changes *)
(* and replaces through allocations.json.tmp.  ipamMu is a mutex of ONE OS *)
(* process: `gocker run` and `gocker stop` call the allocator in their own *)
(* CLI process, `gocker start` in the daemon, so the file is shared by     *)
(* callers the mutex does not order.                                       *)
(*                                                                         *)
(* An address is the host number of an address of the subnet: 0 is the     *)
(* network address, 1 the gateway and the bridge, LastHost the broadcast   *)
(* address; LastHost + 1 stands for a request that does not parse or lies  *)
(* outside the subnet.  A file that exists and has length zero loads as    *)
(* the empty state, exactly as "{}" does, so both are NoAllocation.        *)
(***************************************************************************)
EXTENDS Naturals, FiniteSets

CONSTANTS
    Callers,      \* goroutines (or whole CLI runs) that call the allocator
    Processes,    \* OS processes
    ProcessOf,    \* the process each caller lives in
    Containers,   \* container IDs
    LastHost,     \* host number of the broadcast address
    Requests,     \* the requested addresses callers may pass
    NoIP,         \* ""
    NoFile,       \* the name does not exist
    Garbled,      \* the file exists and json.Unmarshal rejects it
    NoCaller,     \* the mutex is free
    NoContainer   \* the container of a caller that is in no call

Hosts == 0 .. LastHost + 1
Gateway == 1

ASSUME IPAMAssumption ==
    /\ LastHost \in Nat /\ LastHost > 1
    /\ ProcessOf \in [Callers -> Processes]
    /\ NoIP \notin Hosts
    /\ Requests \subseteq Hosts \cup {NoIP}
    /\ NoCaller \notin Callers
    /\ NoContainer \notin Containers
    /\ NoFile # Garbled
    /\ NoFile \notin [Containers -> Hosts \cup {NoIP}]
    /\ Garbled \notin [Containers -> Hosts \cup {NoIP}]

\* ipAllocationState: a container without an entry is mapped to NoIP.
Allocations == [Containers -> Hosts \cup {NoIP}]
NoAllocation == [c \in Containers |-> NoIP]
FileContents == Allocations \cup {NoFile, Garbled}

VARIABLES
    alloc,        \* content of allocations.json
    tmp,          \* content of allocations.json.tmp
    allocSynced,  \* the data of allocations.json is on disk
    tmpSynced,    \* the data of allocations.json.tmp is on disk
    durable,      \* what allocations.json holds after a power loss
    mutex,        \* ipamMu of each process
    pc,           \* where each caller stands
    args,         \* the operation each caller is in, and its arguments
    state,        \* the state each caller is about to save
    fd,           \* the temporary file each caller has open
    result,       \* what each caller is about to be told
    granted       \* the address each container was last told is its own

files == <<alloc, tmp, allocSynced, tmpSynced, durable>>
vars == <<files, mutex, pc, args, state, fd, result, granted>>

Ops == {"allocate", "release", "get"}
Steps == {"idle", "lock", "load", "open", "write", "sync", "rename", "return"}

\* A descriptor is the name its inode has by now: a rename by another process
\* moves it from "tmp" to "alloc", a second one unlinks it.
Descriptors == {"none", "tmp", "alloc", "unlinked"}

TypeOK ==
    /\ alloc \in FileContents
    /\ tmp \in FileContents
    /\ allocSynced \in BOOLEAN
    /\ tmpSynced \in BOOLEAN
    /\ durable \in FileContents
    /\ mutex \in [Processes -> Callers \cup {NoCaller}]
    /\ pc \in [Callers -> Steps]
    /\ args \in [Callers -> [op: Ops, id: Containers \cup {NoContainer},
                            req: Hosts \cup {NoIP}]]
    /\ state \in [Callers -> Allocations]
    /\ fd \in [Callers -> Descriptors]
    /\ result \in [Callers -> [ip: Hosts \cup {NoIP}, ok: BOOLEAN]]
    /\ granted \in Allocations

-----------------------------------------------------------------------------
\* buildReservedIPs
Reserved == {0, Gateway, LastHost}

Usable == (0 .. LastHost) \ Reserved

Used(book) == {book[c] : c \in Containers} \ {NoIP}

Entries(book) == {c \in Containers : book[c] # NoIP}

\* Wrong variants: the addresses in use, or the reserved ones, not passed over.
FreeIgnoringUsed(book) == Usable
FreeIgnoringReserved(book) == (0 .. LastHost) \ Used(book)

Free(book) == Usable \ Used(book)

\* The address AllocateContainerIP settles on: the requested one if it is
\* usable and free, else the first free one of the scan over nextIP(subnet.IP),
\* nextIP(nextIP(subnet.IP)), ...; none if the scan leaves the subnet.
Picked(book, req) ==
    IF req \in Free(book) THEN {req}
    ELSE {h \in Free(book) : \A other \in Free(book) : h <= other}

\* What an inode that holds `old` holds after `new` is written from offset 0:
\* a text shorter than the one already there leaves that one's tail behind.
\* Texts with equally many entries differ by digits of addresses at most.
Overwrite(old, new) ==
    IF old \in {NoAllocation, new} THEN {new}
    ELSE IF old = Garbled THEN {Garbled, new}
    ELSE IF Cardinality(Entries(old)) > Cardinality(Entries(new)) THEN {Garbled}
    ELSE IF Cardinality(Entries(old)) = Cardinality(Entries(new)) THEN {Garbled, new}
    ELSE {new}

-----------------------------------------------------------------------------
NoArgs == [op |-> "get", id |-> NoContainer, req |-> NoIP]
Failed == [ip |-> NoIP, ok |-> FALSE]
Returned(ip) == [ip |-> ip, ok |-> TRUE]

Init ==
    /\ alloc = NoFile /\ allocSynced = TRUE
    /\ tmp = NoFile /\ tmpSynced = TRUE
    /\ durable = NoFile
    /\ mutex = [p \in Processes |-> NoCaller]
    /\ pc = [c \in Callers |-> "idle"]
    /\ args = [c \in Callers |-> NoArgs]
    /\ state = [c \in Callers |-> NoAllocation]
    /\ fd = [c \in Callers |-> "none"]
    /\ result = [c \in Callers |-> Failed]
    /\ granted = NoAllocation

At(c, step) == pc[c] = step
Goto(c, step) == pc' = [pc EXCEPT ![c] = step]

\* Entry of AllocateContainerIP, ReleaseContainerIP (also reached through
\* CleanupContainerNetwork) and GetAllocatedIP.
Call(c, op, id, req) ==
    /\ At(c, "idle") /\ Goto(c, "lock")
    /\ op # "allocate" => req = NoIP
    /\ args' = [args EXCEPT ![c] = [op |-> op, id |-> id, req |-> req]]
    /\ UNCHANGED <<files, mutex, state, fd, result, granted>>

\* Wrong variant: no ipamMu.Lock.
LockWithoutMutex(c) ==
    /\ At(c, "lock") /\ Goto(c, "load")
    /\ UNCHANGED <<files, mutex, args, state, fd, result, granted>>

Lock(c) ==
    /\ At(c, "lock") /\ Goto(c, "load")
    /\ mutex[ProcessOf[c]] = NoCaller
    /\ mutex' = [mutex EXCEPT ![ProcessOf[c]] = c]
    /\ UNCHANGED <<files, args, state, fd, result, granted>>

\* loadIPAllocationState on a file that can be read.
Loaded == IF alloc = NoFile THEN NoAllocation ELSE alloc

LoadFails(c) ==
    /\ At(c, "load") /\ Goto(c, "return")
    /\ result' = [result EXCEPT ![c] = Failed]
    /\ UNCHANGED <<files, mutex, args, state, fd, granted>>

\* Return without a save.
ReturnWith(c, r) ==
    /\ Goto(c, "return")
    /\ result' = [result EXCEPT ![c] = r]
    /\ UNCHANGED state

\* Go on to saveIPAllocationState with the changed state.
SaveWith(c, book, ip) ==
    /\ Goto(c, "open")
    /\ state' = [state EXCEPT ![c] = book]
    /\ result' = [result EXCEPT ![c] = Returned(ip)]

LoadForAllocate(c) ==
    LET id == args[c].id
    IN  /\ At(c, "load") /\ args[c].op = "allocate"
        /\ alloc # Garbled
        /\ \/ Loaded[id] # NoIP /\ ReturnWith(c, Returned(Loaded[id]))
           \/ /\ Loaded[id] = NoIP
              /\ \E ip \in Picked(Loaded, args[c].req) :
                   SaveWith(c, [Loaded EXCEPT ![id] = ip], ip)
           \/ Loaded[id] = NoIP /\ Free(Loaded) = {} /\ ReturnWith(c, Failed)
        /\ UNCHANGED <<files, mutex, args, fd, granted>>

\* From here on the caller no longer counts on the address it gives back.
LoadForRelease(c) ==
    LET id == args[c].id
    IN  /\ At(c, "load") /\ args[c].op = "release"
        /\ alloc # Garbled
        /\ \/ Loaded[id] = NoIP /\ ReturnWith(c, Returned(NoIP))
           \/ Loaded[id] # NoIP /\ SaveWith(c, [Loaded EXCEPT ![id] = NoIP], NoIP)
        /\ granted' = [granted EXCEPT ![id] = NoIP]
        /\ UNCHANGED <<files, mutex, args, fd>>

LoadForGet(c) ==
    /\ At(c, "load") /\ args[c].op = "get"
    /\ alloc # Garbled
    /\ ReturnWith(c, Returned(Loaded[args[c].id]))
    /\ UNCHANGED <<files, mutex, args, fd, granted>>

\* os.OpenFile(tmpPath, O_CREATE|O_WRONLY|O_TRUNC): the name is shared by all
\* processes, so this may truncate a file another one is writing.
OpenTmp(c) ==
    /\ At(c, "open") /\ Goto(c, "write")
    /\ fd' = [fd EXCEPT ![c] = "tmp"]
    /\ tmp' = NoAllocation /\ tmpSynced' = FALSE
    /\ UNCHANGED <<alloc, allocSynced, durable, mutex, args, state, result, granted>>

\* encoder.Encode(state): one write, to whatever inode the descriptor has.
Write(c) ==
    /\ At(c, "write") /\ Goto(c, "sync")
    /\ \/ /\ fd[c] = "tmp"
          /\ tmp' \in Overwrite(tmp, state[c]) /\ tmpSynced' = FALSE
          /\ UNCHANGED <<alloc, allocSynced>>
       \/ /\ fd[c] = "alloc"
          /\ alloc' \in Overwrite(alloc, state[c]) /\ allocSynced' = FALSE
          /\ UNCHANGED <<tmp, tmpSynced>>
       \/ fd[c] = "unlinked" /\ UNCHANGED <<alloc, allocSynced, tmp, tmpSynced>>
    /\ UNCHANGED <<durable, mutex, args, state, fd, result, granted>>

\* Wrong variant: no tmpFile.Sync.
SyncSkipped(c) ==
    /\ At(c, "sync") /\ Goto(c, "rename")
    /\ UNCHANGED <<files, mutex, args, state, fd, result, granted>>

Sync(c) ==
    /\ At(c, "sync") /\ Goto(c, "rename")
    /\ tmpSynced' = (tmpSynced \/ fd[c] = "tmp")
    /\ allocSynced' = (allocSynced \/ fd[c] = "alloc")
    /\ UNCHANGED <<alloc, tmp, durable, mutex, args, state, fd, result, granted>>

\* The name a descriptor's inode has once tmp was renamed over alloc.
AfterRename(d) == IF d = "tmp" THEN "alloc" ELSE IF d = "alloc" THEN "unlinked" ELSE d

\* os.Rename(tmpPath, NetworkAllocationFile), and the return that follows.
Rename(c) ==
    /\ At(c, "rename") /\ Goto(c, "return")
    /\ tmp # NoFile
    /\ alloc' = tmp /\ allocSynced' = tmpSynced
    /\ tmp' = NoFile /\ tmpSynced' = TRUE
    /\ fd' = [d \in Callers |-> IF d = c THEN "none" ELSE AfterRename(fd[d])]
    /\ UNCHANGED <<durable, mutex, args, state, result, granted>>

\* Wrong variant: the caller does not look at the error of the save.
SaveErrorIgnored(c) ==
    /\ pc[c] \in {"open", "write", "sync", "rename"}
    /\ Goto(c, "return")
    /\ fd' = [fd EXCEPT ![c] = "none"]
    /\ UNCHANGED <<files, mutex, args, state, result, granted>>

\* A failing step of saveIPAllocationState returns its error at once: the
\* temporary file stays, a failed Encode may have left part of its text in it.
SaveFails(c) ==
    /\ pc[c] \in {"open", "write", "sync", "rename"}
    /\ Goto(c, "return")
    /\ fd' = [fd EXCEPT ![c] = "none"]
    /\ result' = [result EXCEPT ![c] = Failed]
    /\ \/ UNCHANGED <<alloc, tmp>>
       \/ At(c, "write") /\ fd[c] = "tmp" /\ tmp' = Garbled /\ UNCHANGED alloc
       \/ At(c, "write") /\ fd[c] = "alloc" /\ alloc' = Garbled /\ UNCHANGED tmp
    /\ UNCHANGED <<allocSynced, tmpSynced, durable, mutex, args, state, granted>>

\* Wrong variant: a failed call returns without unlocking.
ReturnLocked(c) ==
    /\ At(c, "return") /\ Goto(c, "idle")
    /\ mutex' = IF result[c].ok THEN [mutex EXCEPT ![ProcessOf[c]] = NoCaller] ELSE mutex
    /\ args' = [args EXCEPT ![c] = NoArgs]
    /\ state' = [state EXCEPT ![c] = NoAllocation]
    /\ result' = [result EXCEPT ![c] = Failed]
    /\ UNCHANGED <<files, fd, granted>>

\* The deferred ipamMu.Unlock and the return to the caller, who takes an
\* address it is given for its container's own.
Return(c) ==
    /\ At(c, "return") /\ Goto(c, "idle")
    /\ mutex' = [mutex EXCEPT ![ProcessOf[c]] = NoCaller]
    /\ granted' = IF args[c].op = "allocate" /\ result[c].ok
                  THEN [granted EXCEPT ![args[c].id] = result[c].ip] ELSE granted
    /\ args' = [args EXCEPT ![c] = NoArgs]
    /\ state' = [state EXCEPT ![c] = NoAllocation]
    /\ result' = [result EXCEPT ![c] = Failed]
    /\ UNCHANGED <<files, fd>>

\* The callers in set C are gone, with all they had in memory.
Forget(C) ==
    /\ pc' = [c \in Callers |-> IF c \in C THEN "idle" ELSE pc[c]]
    /\ args' = [c \in Callers |-> IF c \in C THEN NoArgs ELSE args[c]]
    /\ state' = [c \in Callers |-> IF c \in C THEN NoAllocation ELSE state[c]]
    /\ fd' = [c \in Callers |-> IF c \in C THEN "none" ELSE fd[c]]
    /\ result' = [c \in Callers |-> IF c \in C THEN Failed ELSE result[c]]

\* A process dies (logrus.Fatalf, a signal); its successor starts afresh.
Crash(p) ==
    /\ \E c \in Callers : ProcessOf[c] = p /\ ~At(c, "idle")
    /\ mutex' = [mutex EXCEPT ![p] = NoCaller]
    /\ Forget({c \in Callers : ProcessOf[c] = p})
    /\ UNCHANGED <<files, granted>>

\* The file system writes the directory entry, and file data nobody synced
\* only perhaps, to disk at a moment of its own choosing.
Commit ==
    /\ durable # alloc
    /\ durable' \in IF allocSynced THEN {alloc} ELSE {alloc, NoAllocation, Garbled}
    /\ UNCHANGED <<alloc, tmp, allocSynced, tmpSynced, mutex, pc, args, state, fd,
                   result, granted>>

\* Power loss: every process and every container is gone.
PowerLoss ==
    /\ alloc' = durable /\ allocSynced' = TRUE
    /\ tmp' \in {NoFile, tmp, Garbled} /\ tmpSynced' = TRUE
    /\ mutex' = [p \in Processes |-> NoCaller]
    /\ Forget(Callers)
    /\ granted' = NoAllocation
    /\ UNCHANGED durable

Step(c) ==
    \/ LoadFails(c) \/ LoadForAllocate(c) \/ LoadForRelease(c) \/ LoadForGet(c)
    \/ OpenTmp(c) \/ Write(c) \/ Sync(c) \/ Rename(c) \/ SaveFails(c)
    \/ Return(c)

Next ==
    \/ \E c \in Callers :
         \/ \E op \in Ops, id \in Containers, req \in Requests \cup {NoIP} :
              Call(c, op, id, req)
         \/ Lock(c)
         \/ Step(c)
    \/ \E p \in Processes : Crash(p)
    \/ Commit
    \/ PowerLoss

Spec == Init /\ [][Next]_vars

-----------------------------------------------------------------------------
\* All callers share one ipamMu.
SingleProcess == \A c, d \in Callers : ProcessOf[c] = ProcessOf[d]

\* No two containers were given the same address: AllocateContainerIP passes
\* over the addresses the file says are used, whatever calls are in flight,
\* fail half-way or die.
UniqueGrants ==
    \A c, d \in Containers :
        c # d /\ granted[c] # NoIP => granted[c] # granted[d]

\* No container is given the network, gateway or broadcast address or one
\* outside the subnet, whatever it requested and however processes that do
\* not share ipamMu interleave on the file.
GrantsUsable == \A c \in Containers : granted[c] \in Usable \cup {NoIP}

\* An address that AllocateContainerIP returned is on record under its
\* container until ReleaseContainerIP is called for that container: no other
\* call's replacement of the file loses it.
GrantsRecorded ==
    \A c \in Containers :
        granted[c] # NoIP => /\ alloc \in Allocations
                             /\ alloc[c] = granted[c]

\* Neither the file nor what a power loss would leave of it is ever a text
\* json.Unmarshal rejects: every later call of the allocator would fail.
\* saveIPAllocationState syncs the temporary file before it renames it.
FileReadable == alloc # Garbled /\ durable # Garbled

\* The address a successful AllocateContainerIP records is the best one at
\* the moment the file is replaced: the requested one if it is usable and
\* free, else the lowest usable free one.
BestAddress ==
    [][\A c \in Callers :
         /\ pc[c] = "rename" /\ pc'[c] = "return" /\ result'[c].ok
         /\ args[c].op = "allocate"
         => LET ip == alloc'[args[c].id]
                free == Free(Loaded)
            IN  /\ ip \in free
                /\ args[c].req \in free => ip = args[c].req
                /\ args[c].req \notin free => \A h \in free : ip <= h]_vars

\* ipamMu of a process is locked exactly while one of its callers is between
\* Lock and Unlock, and by that one: no path of the three operations returns
\* with it locked, unlocks it for another caller or enters without it, and no
\* process that dies leaves the others' mutexes changed (ipam.go 26, 119, 233).
LockHeldInside ==
    /\ \A p \in Processes :
         mutex[p] # NoCaller => /\ ProcessOf[mutex[p]] = p
                                /\ pc[mutex[p]] \notin {"idle", "lock"}
    /\ \A c \in Callers :
         pc[c] \notin {"idle", "lock"} => mutex[ProcessOf[c]] = c

-----------------------------------------------------------------------------
\* The allocations a caller that loads file content f sees.
View(f) == IF f \in Allocations THEN f ELSE NoAllocation

\* One process implements the crash-atomic pool of addresses.
Pool == INSTANCE IPPool WITH
            pool <- View(alloc), saved <- View(durable), granted <- granted,
            Addresses <- Usable
ImplementsPool == Pool!Spec
=============================================================================
