----------------------------- MODULE IPAMProofs -----------------------------
(***************************************************************************)
(* Proofs about the allocator for any number of callers, containers and    *)
(* addresses: the types, the usability of every address handed out and the *)
(* mutexes for any assignment of callers to processes, the safety of the   *)
(* address book and the implementation of IPPool when all callers share    *)
(* one ipamMu.                                                             *)
(***************************************************************************)
EXTENDS IPAM, TLAPS

\* What a write leaves behind is the text that was written or no JSON.
LEMMA OverwriteResult ==
    ASSUME NEW old, NEW new, NEW f \in Overwrite(old, new)
    PROVE  f = new \/ f = Garbled
BY DEF Overwrite

\* The allocator only picks addresses that are free in the book it loaded.
LEMMA PickedIsFree ==
    ASSUME NEW book, NEW req, NEW ip \in Picked(book, req)
    PROVE  ip \in Free(book)
BY DEF Picked

\* A free address is a usable address of the subnet that no entry holds.
LEMMA FreeIsHost ==
    ASSUME NEW book, NEW ip \in Free(book)
    PROVE  /\ ip \in Hosts /\ ip \in Usable /\ ip # NoIP
           /\ \A c \in Containers : book[c] # ip
BY IPAMAssumption DEF Free, Usable, Used, Hosts

\* loadIPAllocationState on a file it accepts yields an address book.
LEMMA LoadedType ==
    ASSUME TypeOK, alloc # Garbled
    PROVE  Loaded \in Allocations
BY DEF TypeOK, FileContents, Loaded, NoAllocation, Allocations

\* What a caller gets back is a result: an address, an error or nothing.
LEMMA ResultType ==
    /\ Failed \in [ip: Hosts \cup {NoIP}, ok: BOOLEAN]
    /\ \A ip \in Hosts \cup {NoIP} : Returned(ip) \in [ip: Hosts \cup {NoIP}, ok: BOOLEAN]
BY DEF Failed, Returned

\* The arguments a caller holds are arguments or none.
LEMMA ArgsType ==
    /\ NoArgs \in [op: Ops, id: Containers \cup {NoContainer}, req: Hosts \cup {NoIP}]
    /\ NoAllocation \in Allocations
BY DEF NoArgs, Ops, NoAllocation, Allocations

-----------------------------------------------------------------------------
\* A caller in a call names a container.
InCall == \A c \in Callers : pc[c] # "idle" => args[c].id \in Containers

TypeInv == TypeOK /\ InCall

\* The types of the allocator's state, in every interleaving of any number of
\* processes: TypeInv is inductive.
THEOREM TypeStep == TypeInv /\ [Next]_vars => TypeInv'
<1> SUFFICES ASSUME TypeInv, [Next]_vars PROVE TypeInv'
  OBVIOUS
<1> USE IPAMAssumption
<1>1. ASSUME NEW c \in Callers, NEW op \in Ops, NEW id \in Containers,
             NEW req \in Requests \cup {NoIP}, Call(c, op, id, req)
      PROVE  TypeInv'
  BY <1>1 DEF Call, TypeInv, InCall, TypeOK, files, At, Goto, Steps
<1>2. ASSUME NEW c \in Callers, Lock(c) PROVE TypeInv'
  BY <1>2 DEF Lock, TypeInv, InCall, TypeOK, files, At, Goto, Steps
<1>3. ASSUME NEW c \in Callers, LoadFails(c) PROVE TypeInv'
  BY <1>3, ResultType DEF LoadFails, TypeInv, InCall, TypeOK, files, At, Goto, Steps
<1>4. ASSUME NEW c \in Callers, LoadForAllocate(c) PROVE TypeInv'
  <2>1. Loaded \in Allocations /\ args[c].id \in Containers
    BY <1>4, LoadedType DEF LoadForAllocate, TypeInv, InCall, At
  <2>2. Loaded[args[c].id] \in Hosts \cup {NoIP}
    BY <2>1 DEF Allocations
  <2>3. ASSUME NEW ip \in Picked(Loaded, args[c].req)
        PROVE  /\ ip \in Hosts \cup {NoIP}
               /\ [Loaded EXCEPT ![args[c].id] = ip] \in Allocations
    BY <2>1, <2>3, PickedIsFree, FreeIsHost DEF Allocations
  <2>4. ASSUME NEW r \in [ip: Hosts \cup {NoIP}, ok: BOOLEAN], ReturnWith(c, r)
        PROVE  TypeInv'
    BY <1>4, <2>4 DEF LoadForAllocate, ReturnWith, TypeInv, InCall, TypeOK, files,
                      At, Goto, Steps
  <2>5. ASSUME NEW ip \in Picked(Loaded, args[c].req),
               SaveWith(c, [Loaded EXCEPT ![args[c].id] = ip], ip)
        PROVE  TypeInv'
    <3>1. PICK book \in Allocations : SaveWith(c, book, ip)
      BY <2>3, <2>5
    <3>2. ip \in Hosts \cup {NoIP}
      BY <2>3
    <3> HIDE <2>5
    <3> QED
      BY <1>4, <3>1, <3>2, ResultType
         DEF LoadForAllocate, SaveWith, TypeInv, InCall, TypeOK, files, At, Goto, Steps
  <2> QED
    BY <1>4, <2>2, <2>4, <2>5, ResultType DEF LoadForAllocate
<1>5. ASSUME NEW c \in Callers, LoadForRelease(c) PROVE TypeInv'
  <2>1. Loaded \in Allocations /\ args[c].id \in Containers
    BY <1>5, LoadedType DEF LoadForRelease, TypeInv, InCall, At
  <2>2. /\ [Loaded EXCEPT ![args[c].id] = NoIP] \in Allocations
        /\ [granted EXCEPT ![args[c].id] = NoIP] \in Allocations
    BY <2>1 DEF Allocations, TypeInv, TypeOK
  <2>3. PICK book \in Allocations :
            \/ ReturnWith(c, Returned(NoIP))
            \/ SaveWith(c, book, NoIP)
    BY <1>5, <2>2 DEF LoadForRelease
  <2>4. granted' \in Allocations /\ UNCHANGED <<files, mutex, args, fd>>
    BY <1>5, <2>2 DEF LoadForRelease
  <2>5. args[c].id \in Containers
    BY <2>1
  <2>6. Returned(NoIP) \in [ip: Hosts \cup {NoIP}, ok: BOOLEAN]
    BY ResultType
  <2>7. CASE ReturnWith(c, Returned(NoIP))
    BY <2>4, <2>5, <2>6, <2>7
       DEF ReturnWith, TypeInv, InCall, TypeOK, files, Goto, Steps
  <2>8. CASE SaveWith(c, book, NoIP)
    BY <2>4, <2>5, <2>6, <2>8
       DEF SaveWith, TypeInv, InCall, TypeOK, files, Goto, Steps
  <2> QED BY <2>3, <2>7, <2>8
<1>6. ASSUME NEW c \in Callers, LoadForGet(c) PROVE TypeInv'
  <2>1. Loaded[args[c].id] \in Hosts \cup {NoIP}
    BY <1>6, LoadedType DEF LoadForGet, TypeInv, InCall, At, Allocations
  <2> QED
    BY <1>6, <2>1, ResultType
       DEF LoadForGet, ReturnWith, TypeInv, InCall, TypeOK, files, At, Goto, Steps
<1>7. ASSUME NEW c \in Callers, OpenTmp(c) PROVE TypeInv'
  BY <1>7, ArgsType
     DEF OpenTmp, TypeInv, InCall, TypeOK, At, Goto, Steps, Descriptors, FileContents
<1>8. ASSUME NEW c \in Callers, Write(c) PROVE TypeInv'
  <2>1. state[c] \in FileContents /\ Garbled \in FileContents
    BY DEF TypeInv, TypeOK, FileContents
  <2>2. /\ alloc' \in FileContents /\ tmp' \in FileContents
        /\ allocSynced' \in BOOLEAN /\ tmpSynced' \in BOOLEAN
    BY <1>8, <2>1, OverwriteResult DEF Write, TypeInv, TypeOK
  <2> QED
    BY <1>8, <2>2 DEF Write, TypeInv, InCall, TypeOK, At, Goto, Steps
<1>9. ASSUME NEW c \in Callers, Sync(c) PROVE TypeInv'
  BY <1>9 DEF Sync, TypeInv, InCall, TypeOK, At, Goto, Steps
<1>10. ASSUME NEW c \in Callers, Rename(c) PROVE TypeInv'
  BY <1>10
     DEF Rename, TypeInv, InCall, TypeOK, At, Goto, Steps, Descriptors, AfterRename,
         FileContents
<1>11. ASSUME NEW c \in Callers, SaveFails(c) PROVE TypeInv'
  BY <1>11, ResultType
     DEF SaveFails, TypeInv, InCall, TypeOK, At, Goto, Steps, Descriptors, FileContents
<1>12. ASSUME NEW c \in Callers, Return(c) PROVE TypeInv'
  <2>1. args[c].id \in Containers /\ result[c].ip \in Hosts \cup {NoIP}
    BY <1>12 DEF Return, TypeInv, InCall, TypeOK, At
  <2>2. [granted EXCEPT ![args[c].id] = result[c].ip] \in Allocations
    BY <2>1 DEF TypeInv, TypeOK, Allocations
  <2> QED
    BY <1>12, <2>2, ResultType, ArgsType
       DEF Return, TypeInv, InCall, TypeOK, files, At, Goto, Steps
<1>13. ASSUME NEW p \in Processes, Crash(p) PROVE TypeInv'
  BY <1>13, ResultType, ArgsType
     DEF Crash, Forget, TypeInv, InCall, TypeOK, files, Steps, Descriptors
<1>14. CASE Commit
  BY <1>14, ArgsType DEF Commit, TypeInv, InCall, TypeOK, FileContents
<1>15. CASE PowerLoss
  BY <1>15, ResultType, ArgsType
     DEF PowerLoss, Forget, TypeInv, InCall, TypeOK, Steps, Descriptors, FileContents
<1>16. CASE UNCHANGED vars
  BY <1>16 DEF vars, files, TypeInv, InCall, TypeOK
<1> QED
  BY <1>1, <1>2, <1>3, <1>4, <1>5, <1>6, <1>7, <1>8, <1>9, <1>10, <1>11, <1>12,
     <1>13, <1>14, <1>15, <1>16 DEF Next, Step

\* Every state of the allocator is well typed, however many processes share
\* the file.
THEOREM TypeCorrect == Spec => []TypeOK
<1>1. Init => TypeInv
  BY ResultType, ArgsType
     DEF Init, TypeInv, InCall, TypeOK, Steps, Descriptors, FileContents
<1>2. TypeInv => TypeOK
  BY DEF TypeInv
<1> QED BY <1>1, <1>2, TypeStep, PTL DEF Spec

-----------------------------------------------------------------------------
(* The mutexes of any number of processes *)

\* A caller that goes on inside leaves every mutex to its holder.
LEMMA InsideKeepsLock ==
    ASSUME TypeOK, LockHeldInside, NEW c \in Callers, NEW step \in Steps \ {"idle", "lock"},
           Goto(c, step), pc[c] \notin {"idle", "lock"}, UNCHANGED mutex
    PROVE  LockHeldInside'
BY DEF TypeOK, LockHeldInside, Goto

\* Every step keeps each mutex with the caller that is inside.
LEMMA LockStep ==
    ASSUME TypeOK, LockHeldInside, [Next]_vars
    PROVE  LockHeldInside'
<1> USE IPAMAssumption
<1>1. ASSUME NEW c \in Callers, NEW op, NEW id, NEW req, Call(c, op, id, req)
      PROVE  LockHeldInside'
  BY <1>1 DEF Call, At, Goto, TypeOK, LockHeldInside
<1>2. ASSUME NEW c \in Callers, Lock(c) PROVE LockHeldInside'
  BY <1>2 DEF Lock, At, Goto, TypeOK, LockHeldInside
<1>3. ASSUME NEW c \in Callers,
             \/ LoadFails(c) \/ LoadForAllocate(c) \/ LoadForRelease(c) \/ LoadForGet(c)
             \/ OpenTmp(c) \/ Write(c) \/ Sync(c) \/ Rename(c) \/ SaveFails(c)
      PROVE  LockHeldInside'
  <2>1. pc[c] \notin {"idle", "lock"} /\ UNCHANGED mutex
    BY <1>3 DEF LoadFails, LoadForAllocate, LoadForRelease, LoadForGet, OpenTmp, Write, Sync,
                Rename, SaveFails, At
  <2>2. \E step \in {"open", "write", "sync", "rename", "return"} : Goto(c, step)
    BY <1>3 DEF LoadFails, LoadForAllocate, LoadForRelease, LoadForGet, OpenTmp, Write, Sync,
                Rename, SaveFails, ReturnWith, SaveWith
  <2> QED BY <2>1, <2>2, InsideKeepsLock DEF Steps
<1>4. ASSUME NEW c \in Callers, Return(c) PROVE LockHeldInside'
  <2>1. ProcessOf[c] \in Processes /\ mutex[ProcessOf[c]] = c
    BY <1>4 DEF Return, At, LockHeldInside
  <2>2. /\ pc' = [pc EXCEPT ![c] = "idle"]
        /\ mutex' = [mutex EXCEPT ![ProcessOf[c]] = NoCaller]
    BY <1>4 DEF Return, Goto
  <2>3. ASSUME NEW p \in Processes, mutex'[p] # NoCaller
        PROVE  ProcessOf[mutex'[p]] = p /\ pc'[mutex'[p]] \notin {"idle", "lock"}
    <3>1. p # ProcessOf[c] /\ mutex'[p] = mutex[p]
      BY <2>1, <2>2, <2>3 DEF TypeOK
    <3>2. ProcessOf[mutex[p]] = p /\ pc[mutex[p]] \notin {"idle", "lock"}
      BY <2>3, <3>1 DEF LockHeldInside
    <3>3. mutex[p] # c
      BY <3>1, <3>2
    <3>4. mutex[p] \in Callers
      BY <2>3, <3>1 DEF TypeOK
    <3> QED BY <2>2, <3>1, <3>2, <3>3, <3>4 DEF TypeOK
  <2>4. ASSUME NEW d \in Callers, pc'[d] \notin {"idle", "lock"}
        PROVE  mutex'[ProcessOf[d]] = d
    <3>1. d # c /\ pc'[d] = pc[d]
      BY <2>2, <2>4 DEF TypeOK
    <3>2. mutex[ProcessOf[d]] = d
      BY <2>4, <3>1 DEF LockHeldInside
    <3> QED BY <2>1, <2>2, <3>1, <3>2 DEF TypeOK
  <2> QED BY <2>3, <2>4 DEF LockHeldInside
<1>5. ASSUME NEW p \in Processes, Crash(p) PROVE LockHeldInside'
  <2>1. /\ mutex' = [mutex EXCEPT ![p] = NoCaller]
        /\ \A c \in Callers : pc'[c] = IF ProcessOf[c] = p THEN "idle" ELSE pc[c]
    BY <1>5 DEF Crash, Forget
  <2> QED BY <2>1 DEF LockHeldInside, TypeOK
<1>6. ASSUME PowerLoss PROVE LockHeldInside'
  BY <1>6 DEF PowerLoss, Forget, LockHeldInside
<1>7. CASE Commit \/ UNCHANGED vars
  BY <1>7 DEF Commit, vars, LockHeldInside
<1>8. ASSUME NEW c \in Callers, Step(c) PROVE LockHeldInside'
  BY <1>3, <1>4, <1>8 DEF Step
<1> QED BY <1>1, <1>2, <1>5, <1>6, <1>7, <1>8 DEF Next

\* No path leaves ipamMu locked, for any number of processes and callers, failing calls
\* and deaths included: no later call waits for a lock that nobody will give back.
THEOREM LockReleased == Spec => []LockHeldInside
<1>1. Init => TypeInv /\ LockHeldInside
  <2>1. Init => TypeInv
    BY ResultType, ArgsType, IPAMAssumption
       DEF Init, TypeInv, InCall, TypeOK, Steps, Descriptors, FileContents
  <2>2. Init => LockHeldInside
    BY DEF Init, LockHeldInside
  <2> QED BY <2>1, <2>2
<1>2. TypeInv /\ LockHeldInside /\ [Next]_vars => TypeInv' /\ LockHeldInside'
  <2>1. TypeInv => TypeOK
    BY DEF TypeInv
  <2> QED BY <2>1, TypeStep, LockStep
<1> QED BY <1>1, <1>2, PTL DEF Spec

-----------------------------------------------------------------------------
\* The inductive invariant for callers that share one ipamMu.

Critical == {"load", "open", "write", "sync", "rename", "return"}
Saving == {"open", "write", "sync", "rename"}

\* A caller holds ipamMu exactly from Lock to Return.
MutexInv == \A c \in Callers : pc[c] \in Critical <=> mutex[ProcessOf[c]] = c

\* An address book in which no usable address occurs twice.
Sound(book) ==
    book \in Allocations =>
      \A c \in Containers :
        /\ book[c] \in Usable \cup {NoIP}
        /\ \A d \in Containers : c # d /\ book[c] # NoIP => book[c] # book[d]

BookInv == FileReadable /\ allocSynced = TRUE /\ Sound(alloc) /\ Sound(durable)

\* What a caller is about to save is the book on file but for its own entry.
SavingInv(c) ==
    pc[c] \in Saving =>
      \/ /\ args[c].op = "allocate"
         /\ Loaded[args[c].id] = NoIP
         /\ result[c].ip \in Picked(Loaded, args[c].req)
         /\ state[c] = [Loaded EXCEPT ![args[c].id] = result[c].ip]
      \/ /\ args[c].op = "release"
         /\ granted[args[c].id] = NoIP
         /\ state[c] = [Loaded EXCEPT ![args[c].id] = NoIP]

FdInv(c) == fd[c] = IF pc[c] \in {"write", "sync", "rename"} THEN "tmp" ELSE "none"

\* The temporary file belongs to the caller that has it open.
TmpInv(c) ==
    /\ pc[c] = "write" => tmp = NoAllocation
    /\ pc[c] \in {"sync", "rename"} => tmp = state[c]
    /\ pc[c] = "rename" => tmpSynced = TRUE

ReturnInv(c) ==
    pc[c] = "return" /\ args[c].op = "allocate" /\ result[c].ok =>
      /\ alloc \in Allocations
      /\ alloc[args[c].id] = result[c].ip
      /\ result[c].ip # NoIP

CallInv(c) == SavingInv(c) /\ FdInv(c) /\ TmpInv(c) /\ ReturnInv(c)

IInv ==
    /\ TypeInv
    /\ MutexInv
    /\ BookInv
    /\ \A c \in Callers : CallInv(c)
    /\ GrantsRecorded

\* A missing file and an empty address book give no address to two containers.
LEMMA EmptyIsSound == Sound(NoAllocation) /\ Sound(NoFile)
BY IPAMAssumption DEF Sound, NoAllocation, Allocations

\* Recording a free address and dropping an entry keep a book sound.
LEMMA RecordIsSound ==
    ASSUME NEW book \in Allocations, Sound(book), NEW id \in Containers,
           NEW ip \in Free(book)
    PROVE  Sound([book EXCEPT ![id] = ip])
BY FreeIsHost DEF Sound, Allocations

\* Releasing an address keeps an address book sound.
LEMMA RemoveIsSound ==
    ASSUME NEW book \in Allocations, Sound(book), NEW id \in Containers
    PROVE  Sound([book EXCEPT ![id] = NoIP])
BY DEF Sound, Allocations

\* Nobody else is past Lock while one caller is.
LEMMA Exclusive ==
    ASSUME SingleProcess, IInv, NEW c \in Callers, pc[c] \in Critical,
           NEW d \in Callers, d # c
    PROVE  pc[d] \in {"idle", "lock"} /\ fd[d] = "none"
<1>1. pc[d] \notin Critical
  BY DEF SingleProcess, IInv, MutexInv
<1>2. pc[d] \in Steps
  BY DEF IInv, TypeInv, TypeOK
<1>3. FdInv(d)
  BY DEF IInv, CallInv
<1> QED BY <1>1, <1>2, <1>3 DEF Critical, Steps, FdInv

\* A caller outside the critical section has nothing to keep.
LEMMA Quiet ==
    ASSUME NEW c \in Callers, pc[c] \in {"idle", "lock"}, fd[c] = "none"
    PROVE  CallInv(c)
BY DEF CallInv, SavingInv, FdInv, TmpInv, ReturnInv, Saving

\* A step inside the critical section leaves ipamMu where it is.
LEMMA StepInside ==
    ASSUME IInv, NEW c \in Callers, pc[c] \in Critical,
           NEW step \in Critical, Goto(c, step), UNCHANGED mutex
    PROVE  MutexInv'
BY DEF IInv, TypeInv, TypeOK, MutexInv, Goto

\* Only the caller that steps has to be looked at.
LEMMA OthersQuiet ==
    ASSUME SingleProcess, IInv, NEW c \in Callers, pc[c] \in Critical,
           NEW step, Goto(c, step),
           \A d \in Callers : d # c => fd'[d] = fd[d] \/ fd'[d] = AfterRename(fd[d]),
           CallInv(c)'
    PROVE  \A d \in Callers : CallInv(d)'
<1> SUFFICES ASSUME NEW d \in Callers, d # c PROVE CallInv(d)'
  OBVIOUS
<1>1. pc[d] \in {"idle", "lock"} /\ fd[d] = "none"
  BY Exclusive
<1>2. pc'[d] \in {"idle", "lock"} /\ fd'[d] = "none"
  BY <1>1 DEF Goto, AfterRename, IInv, TypeInv, TypeOK
<1> QED BY <1>2 DEF CallInv, SavingInv, FdInv, TmpInv, ReturnInv, Saving

\* Under one ipamMu every step of the allocator keeps the invariant.
THEOREM InvStep ==
    ASSUME SingleProcess, IInv, [Next]_vars
    PROVE  IInv'
<1> USE IPAMAssumption
<1>0. TypeInv'
  BY TypeStep DEF IInv
<1>1. ASSUME NEW c \in Callers, NEW op \in Ops, NEW id \in Containers,
             NEW req \in Requests \cup {NoIP}, Call(c, op, id, req)
      PROVE  IInv'
  <2>1. BookInv' /\ GrantsRecorded'
    BY <1>1 DEF Call, IInv, BookInv, GrantsRecorded, FileReadable, Sound, files
  <2>2. MutexInv'
    BY <1>1 DEF Call, IInv, MutexInv, TypeInv, TypeOK, At, Goto, Critical
  <2>3. ASSUME NEW d \in Callers PROVE CallInv(d)'
    <3>1. CASE d = c
      BY <1>1, <3>1
         DEF Call, IInv, CallInv, SavingInv, FdInv, TmpInv, ReturnInv, Saving,
             TypeInv, TypeOK, At, Goto
    <3>2. CASE d # c
      BY <1>1, <3>2
         DEF Call, IInv, CallInv, SavingInv, FdInv, TmpInv, ReturnInv, Saving,
             TypeInv, TypeOK, At, Goto, Loaded, files
    <3> QED BY <3>1, <3>2
  <2> QED BY <1>0, <2>1, <2>2, <2>3 DEF IInv
<1>2. ASSUME NEW c \in Callers, Lock(c) PROVE IInv'
  <2>1. BookInv' /\ GrantsRecorded'
    BY <1>2 DEF Lock, IInv, BookInv, GrantsRecorded, FileReadable, Sound, files
  <2>2. MutexInv'
    BY <1>2 DEF Lock, IInv, MutexInv, TypeInv, TypeOK, At, Goto, Critical, SingleProcess
  <2>3. ASSUME NEW d \in Callers PROVE CallInv(d)'
    <3>1. CASE d = c
      BY <1>2, <3>1
         DEF Lock, IInv, CallInv, SavingInv, FdInv, TmpInv, ReturnInv, Saving,
             TypeInv, TypeOK, At, Goto
    <3>2. CASE d # c
      BY <1>2, <3>2
         DEF Lock, IInv, CallInv, SavingInv, FdInv, TmpInv, ReturnInv, Saving,
             TypeInv, TypeOK, At, Goto, Loaded, files
    <3> QED BY <3>1, <3>2
  <2> QED BY <1>0, <2>1, <2>2, <2>3 DEF IInv
<1>3. ASSUME NEW c \in Callers, LoadFails(c) PROVE IInv'
  <2>1. BookInv' /\ GrantsRecorded'
    BY <1>3 DEF LoadFails, IInv, BookInv, GrantsRecorded, FileReadable, Sound, files
  <2>2. pc[c] \in Critical /\ Goto(c, "return") /\ "return" \in Critical
    BY <1>3 DEF LoadFails, At, Critical
  <2>3. CallInv(c)'
    BY <1>3 DEF LoadFails, IInv, CallInv, SavingInv, FdInv, TmpInv, ReturnInv, Saving,
                TypeInv, TypeOK, At, Goto, Failed
  <2>4. \A d \in Callers : CallInv(d)'
    BY <1>3, <2>2, <2>3, OthersQuiet DEF LoadFails
  <2>5. MutexInv'
    BY <1>3, <2>2, StepInside DEF LoadFails
  <2> QED BY <1>0, <2>1, <2>4, <2>5 DEF IInv
<1>4. ASSUME NEW c \in Callers, LoadForAllocate(c) PROVE IInv'
  <2>1. BookInv' /\ GrantsRecorded'
    BY <1>4 DEF LoadForAllocate, IInv, BookInv, GrantsRecorded, FileReadable, Sound, files
  <2>2. /\ pc[c] \in Critical /\ pc[c] = "load" /\ fd[c] = "none" /\ fd' = fd
        /\ args' = args /\ alloc' = alloc /\ mutex' = mutex
        /\ args[c].id \in Containers /\ args[c].op = "allocate"
    BY <1>4 DEF LoadForAllocate, At, Critical, IInv, CallInv, FdInv, TypeInv, InCall, files
  <2>3. ASSUME NEW r, r = Failed \/ (Loaded[args[c].id] # NoIP /\ r = Returned(Loaded[args[c].id])),
               ReturnWith(c, r)
        PROVE  CallInv(c)' /\ MutexInv'
    <3>1. pc'[c] = "return" /\ result'[c] = r
      BY <2>3 DEF ReturnWith, Goto, IInv, TypeInv, TypeOK
    <3>2. r.ok => /\ alloc' \in Allocations /\ alloc'[args'[c].id] = r.ip
                  /\ r.ip # NoIP
      <4>1. CASE r = Failed
        BY <4>1 DEF Failed
      <4>2. CASE r = Returned(Loaded[args[c].id]) /\ Loaded[args[c].id] # NoIP
        <5>1. Loaded = alloc /\ alloc # NoFile
          BY <2>2, <4>2 DEF Loaded, NoAllocation
        <5>2. alloc \in Allocations
          BY <1>4, <5>1 DEF LoadForAllocate, IInv, TypeInv, TypeOK, FileContents
        <5> QED BY <2>2, <4>2, <5>1, <5>2 DEF Returned
      <4> QED BY <2>3, <4>1, <4>2
    <3>3. ReturnInv(c)'
      BY <3>1, <3>2 DEF ReturnInv
    <3>4. SavingInv(c)' /\ FdInv(c)' /\ TmpInv(c)'
      BY <2>2, <3>1 DEF SavingInv, FdInv, TmpInv, Saving
    <3> QED BY <2>2, <2>3, <3>3, <3>4, StepInside DEF ReturnWith, Critical, CallInv
  <2>4. ASSUME NEW ip \in Picked(Loaded, args[c].req), Loaded[args[c].id] = NoIP,
               SaveWith(c, [Loaded EXCEPT ![args[c].id] = ip], ip)
        PROVE  CallInv(c)' /\ MutexInv'
    <3>1. pc'[c] = "open" /\ state'[c] = [Loaded EXCEPT ![args[c].id] = ip]
          /\ result'[c].ip = ip /\ Loaded' = Loaded
      BY <2>2, <2>4 DEF SaveWith, Goto, IInv, TypeInv, TypeOK, Returned, Loaded
    <3>2. SavingInv(c)'
      BY <2>2, <2>4, <3>1 DEF SavingInv
    <3>3. FdInv(c)' /\ TmpInv(c)' /\ ReturnInv(c)'
      BY <2>2, <3>1 DEF FdInv, TmpInv, ReturnInv
    <3> QED BY <2>2, <2>4, <3>2, <3>3, StepInside DEF SaveWith, Critical, CallInv
  <2>5. CallInv(c)' /\ MutexInv'
    BY <1>4, <2>3, <2>4 DEF LoadForAllocate
  <2>6. \E step : Goto(c, step)
    BY <1>4 DEF LoadForAllocate, ReturnWith, SaveWith
  <2>7. \A d \in Callers : CallInv(d)'
    BY <2>2, <2>5, <2>6, OthersQuiet
  <2> QED BY <1>0, <2>1, <2>5, <2>7 DEF IInv
<1>5. ASSUME NEW c \in Callers, LoadForRelease(c) PROVE IInv'
  <2>1. BookInv'
    BY <1>5 DEF LoadForRelease, IInv, BookInv, FileReadable, Sound, files
  <2>2. /\ pc[c] \in Critical /\ pc[c] = "load" /\ fd[c] = "none" /\ fd' = fd
        /\ args' = args /\ alloc' = alloc /\ mutex' = mutex
        /\ args[c].id \in Containers /\ args[c].op = "release"
        /\ granted' = [granted EXCEPT ![args[c].id] = NoIP]
    BY <1>5 DEF LoadForRelease, At, Critical, IInv, CallInv, FdInv, TypeInv, InCall, files
  <2>3. GrantsRecorded' /\ granted'[args[c].id] = NoIP
    BY <2>2 DEF IInv, GrantsRecorded, TypeInv, TypeOK, Allocations
  <2>4. ASSUME ReturnWith(c, Returned(NoIP)) PROVE CallInv(c)' /\ MutexInv'
    <3>1. CallInv(c)'
      BY <2>2, <2>4
         DEF ReturnWith, CallInv, SavingInv, FdInv, TmpInv, ReturnInv, Saving, IInv,
             TypeInv, TypeOK, Goto
    <3> QED BY <2>2, <2>4, <3>1, StepInside DEF ReturnWith, Critical
  <2>5. ASSUME SaveWith(c, [Loaded EXCEPT ![args[c].id] = NoIP], NoIP)
        PROVE  CallInv(c)' /\ MutexInv'
    <3>1. pc'[c] = "open" /\ state'[c] = [Loaded EXCEPT ![args[c].id] = NoIP]
          /\ Loaded' = Loaded
      BY <2>2, <2>5 DEF SaveWith, Goto, IInv, TypeInv, TypeOK, Returned, Loaded
    <3>2. SavingInv(c)'
      BY <2>2, <2>3, <3>1 DEF SavingInv
    <3>3. FdInv(c)' /\ TmpInv(c)' /\ ReturnInv(c)'
      BY <2>2, <3>1 DEF FdInv, TmpInv, ReturnInv
    <3> QED BY <2>2, <2>5, <3>2, <3>3, StepInside DEF SaveWith, Critical, CallInv
  <2>6. CallInv(c)' /\ MutexInv'
    BY <1>5, <2>4, <2>5 DEF LoadForRelease
  <2>7. \E step : Goto(c, step)
    BY <1>5 DEF LoadForRelease, ReturnWith, SaveWith
  <2>8. \A d \in Callers : CallInv(d)'
    BY <2>2, <2>6, <2>7, OthersQuiet
  <2> QED BY <1>0, <2>1, <2>3, <2>6, <2>8 DEF IInv
<1>6. ASSUME NEW c \in Callers, LoadForGet(c) PROVE IInv'
  <2>1. BookInv' /\ GrantsRecorded'
    BY <1>6 DEF LoadForGet, IInv, BookInv, GrantsRecorded, FileReadable, Sound, files
  <2>2. pc[c] \in Critical /\ Goto(c, "return") /\ "return" \in Critical
    BY <1>6 DEF LoadForGet, ReturnWith, At, Critical
  <2>3. CallInv(c)'
    BY <1>6 DEF LoadForGet, ReturnWith, IInv, CallInv, SavingInv, FdInv, TmpInv, ReturnInv,
                Saving, TypeInv, TypeOK, At, Goto
  <2>4. \A d \in Callers : CallInv(d)'
    BY <1>6, <2>2, <2>3, OthersQuiet DEF LoadForGet
  <2>5. MutexInv'
    BY <1>6, <2>2, StepInside DEF LoadForGet
  <2> QED BY <1>0, <2>1, <2>4, <2>5 DEF IInv
<1>7. ASSUME NEW c \in Callers, OpenTmp(c) PROVE IInv'
  <2>1. BookInv' /\ GrantsRecorded'
    BY <1>7 DEF OpenTmp, IInv, BookInv, GrantsRecorded, FileReadable, Sound
  <2>2. pc[c] \in Critical /\ Goto(c, "write") /\ "write" \in Critical
    BY <1>7 DEF OpenTmp, At, Critical
  <2>3. pc'[c] = "write" /\ fd'[c] = "tmp" /\ Loaded' = Loaded
    BY <1>7 DEF OpenTmp, Goto, IInv, TypeInv, TypeOK, Loaded
  <2>4. SavingInv(c)'
    BY <1>7, <2>3 DEF OpenTmp, IInv, CallInv, SavingInv, Saving, At
  <2>5. CallInv(c)'
    BY <1>7, <2>3, <2>4 DEF OpenTmp, CallInv, FdInv, TmpInv, ReturnInv
  <2>6. \A d \in Callers : d # c => fd'[d] = fd[d]
    BY <1>7 DEF OpenTmp, IInv, TypeInv, TypeOK
  <2>7. \A d \in Callers : CallInv(d)'
    BY <2>2, <2>5, <2>6, OthersQuiet
  <2>8. MutexInv'
    BY <1>7, <2>2, StepInside DEF OpenTmp
  <2> QED BY <1>0, <2>1, <2>7, <2>8 DEF IInv
<1>8. ASSUME NEW c \in Callers, Write(c) PROVE IInv'
  <2>1. fd[c] = "tmp" /\ tmp = NoAllocation
    BY <1>8 DEF Write, At, IInv, CallInv, FdInv, TmpInv
  <2>2. tmp' = state[c] /\ UNCHANGED <<alloc, allocSynced>>
    BY <1>8, <2>1 DEF Write, Overwrite
  <2>3. BookInv' /\ GrantsRecorded'
    BY <1>8, <2>2 DEF Write, IInv, BookInv, GrantsRecorded, FileReadable, Sound
  <2>4. pc[c] \in Critical /\ Goto(c, "sync") /\ "sync" \in Critical
    BY <1>8 DEF Write, At, Critical
  <2>5. pc'[c] = "sync" /\ Loaded' = Loaded
    BY <2>2, <2>4 DEF Goto, IInv, TypeInv, TypeOK, Loaded
  <2>6. SavingInv(c)'
    BY <1>8, <2>5 DEF Write, IInv, CallInv, SavingInv, Saving, At
  <2>7. CallInv(c)'
    BY <1>8, <2>1, <2>2, <2>5, <2>6 DEF Write, CallInv, FdInv, TmpInv, ReturnInv
  <2>8. \A d \in Callers : CallInv(d)'
    BY <1>8, <2>4, <2>7, OthersQuiet DEF Write
  <2>9. MutexInv'
    BY <1>8, <2>4, StepInside DEF Write
  <2> QED BY <1>0, <2>3, <2>8, <2>9 DEF IInv
<1>9. ASSUME NEW c \in Callers, Sync(c) PROVE IInv'
  <2>1. fd[c] = "tmp" /\ tmp = state[c]
    BY <1>9 DEF Sync, At, IInv, CallInv, FdInv, TmpInv
  <2>2. allocSynced' = TRUE /\ tmpSynced' = TRUE
    BY <1>9, <2>1 DEF Sync, IInv, BookInv
  <2>3. BookInv' /\ GrantsRecorded'
    BY <1>9, <2>2 DEF Sync, IInv, BookInv, GrantsRecorded, FileReadable, Sound
  <2>4. pc[c] \in Critical /\ Goto(c, "rename") /\ "rename" \in Critical
    BY <1>9 DEF Sync, At, Critical
  <2>5. pc'[c] = "rename" /\ Loaded' = Loaded
    BY <1>9, <2>4 DEF Sync, Goto, IInv, TypeInv, TypeOK, Loaded
  <2>6. SavingInv(c)'
    BY <1>9, <2>5 DEF Sync, IInv, CallInv, SavingInv, Saving, At
  <2>7. CallInv(c)'
    BY <1>9, <2>1, <2>2, <2>5, <2>6 DEF Sync, CallInv, FdInv, TmpInv, ReturnInv
  <2>8. \A d \in Callers : CallInv(d)'
    BY <1>9, <2>4, <2>7, OthersQuiet DEF Sync
  <2>9. MutexInv'
    BY <1>9, <2>4, StepInside DEF Sync
  <2> QED BY <1>0, <2>3, <2>8, <2>9 DEF IInv
<1>10. ASSUME NEW c \in Callers, Rename(c) PROVE IInv'
  <2>1. /\ pc[c] = "rename" /\ pc[c] \in Critical /\ pc[c] \in Saving
        /\ tmp = state[c] /\ tmpSynced = TRUE
        /\ args[c].id \in Containers
    BY <1>10 DEF Rename, At, Critical, Saving, IInv, CallInv, TmpInv, TypeInv, InCall
  <2>2. alloc' = state[c] /\ allocSynced' = TRUE /\ state[c] \in Allocations
    BY <1>10, <2>1 DEF Rename, IInv, TypeInv, TypeOK
  <2>3. Loaded \in Allocations /\ Sound(Loaded)
    BY LoadedType, EmptyIsSound DEF IInv, TypeInv, BookInv, FileReadable, Loaded
  <2>4. SavingInv(c)
    BY DEF IInv, CallInv
  <2>5. Sound(state[c])
    <3>1. ASSUME NEW ip \in Picked(Loaded, args[c].req)
          PROVE  Sound([Loaded EXCEPT ![args[c].id] = ip])
      <4>1. ip \in Free(Loaded)
        BY PickedIsFree
      <4> QED BY <2>1, <2>3, <4>1, RecordIsSound
    <3>2. Sound([Loaded EXCEPT ![args[c].id] = NoIP])
      BY <2>1, <2>3, RemoveIsSound
    <3> QED BY <2>1, <2>4, <3>1, <3>2 DEF SavingInv
  <2>6. BookInv'
    <3>1. alloc' # Garbled
      BY <2>2 DEF Allocations
    <3>2. durable' = durable /\ durable # Garbled /\ Sound(durable)
      BY <1>10 DEF Rename, IInv, BookInv, FileReadable
    <3> QED BY <2>2, <2>5, <3>1, <3>2 DEF BookInv, FileReadable, Sound
  <2>7. GrantsRecorded'
    <3> SUFFICES ASSUME NEW d \in Containers, granted'[d] # NoIP
                 PROVE  alloc'[d] = granted'[d]
      BY <2>2 DEF GrantsRecorded
    <3>1. granted[d] # NoIP /\ granted' = granted /\ Loaded = alloc /\ alloc[d] = granted[d]
      BY <1>10 DEF Rename, IInv, GrantsRecorded, Loaded, Allocations
    <3>2. d # args[c].id
      BY <2>1, <2>4, <3>1 DEF SavingInv
    <3> QED BY <2>1, <2>2, <2>3, <2>4, <3>1, <3>2 DEF SavingInv, Allocations
  <2>8. pc'[c] = "return" /\ fd'[c] = "none" /\ Goto(c, "return") /\ "return" \in Critical
    BY <1>10 DEF Rename, Goto, IInv, TypeInv, TypeOK, Critical
  <2>9. ReturnInv(c)'
    <3> SUFFICES ASSUME args[c].op = "allocate"
                 PROVE  alloc'[args[c].id] = result[c].ip /\ result[c].ip # NoIP
      BY <1>10, <2>2 DEF Rename, ReturnInv
    <3> QED
      BY <2>1, <2>2, <2>3, <2>4, PickedIsFree, FreeIsHost DEF SavingInv, Allocations
  <2>10. CallInv(c)'
    BY <2>8, <2>9 DEF CallInv, SavingInv, FdInv, TmpInv, Saving
  <2>11. \A d \in Callers : d # c => fd'[d] = AfterRename(fd[d])
    BY <1>10 DEF Rename
  <2>12. \A d \in Callers : CallInv(d)'
    BY <2>1, <2>8, <2>10, <2>11, OthersQuiet
  <2>13. MutexInv'
    BY <1>10, <2>1, <2>8, StepInside DEF Rename
  <2> QED BY <1>0, <2>6, <2>7, <2>12, <2>13 DEF IInv
<1>11. ASSUME NEW c \in Callers, SaveFails(c) PROVE IInv'
  <2>1. pc[c] \in Critical /\ Goto(c, "return") /\ "return" \in Critical
    BY <1>11 DEF SaveFails, Critical
  <2>2. UNCHANGED alloc
    BY <1>11 DEF SaveFails, At, IInv, CallInv, FdInv
  <2>3. BookInv' /\ GrantsRecorded'
    BY <1>11, <2>2 DEF SaveFails, IInv, BookInv, GrantsRecorded, FileReadable, Sound
  <2>4. pc'[c] = "return" /\ fd'[c] = "none" /\ result'[c] = Failed
    BY <1>11 DEF SaveFails, Goto, IInv, TypeInv, TypeOK
  <2>5. CallInv(c)'
    BY <2>4 DEF CallInv, SavingInv, FdInv, TmpInv, ReturnInv, Saving, Failed
  <2>6. \A d \in Callers : d # c => fd'[d] = fd[d]
    BY <1>11 DEF SaveFails, IInv, TypeInv, TypeOK
  <2>7. \A d \in Callers : CallInv(d)'
    BY <2>1, <2>5, <2>6, OthersQuiet
  <2>8. MutexInv'
    BY <1>11, <2>1, StepInside DEF SaveFails
  <2> QED BY <1>0, <2>3, <2>7, <2>8 DEF IInv
<1>12. ASSUME NEW c \in Callers, Return(c) PROVE IInv'
  <2>1. pc[c] = "return" /\ pc[c] \in Critical /\ Goto(c, "idle") /\ args[c].id \in Containers
    BY <1>12 DEF Return, At, Critical, IInv, TypeInv, InCall
  <2>2. fd[c] = "none" /\ ReturnInv(c)
    BY <2>1 DEF IInv, CallInv, FdInv
  <2>3. BookInv'
    BY <1>12 DEF Return, IInv, BookInv, FileReadable, Sound, files
  <2>4. GrantsRecorded'
    <3>1. CASE args[c].op = "allocate" /\ result[c].ok
      <4>1. /\ alloc \in Allocations /\ alloc' = alloc
            /\ alloc[args[c].id] = result[c].ip
            /\ granted' = [granted EXCEPT ![args[c].id] = result[c].ip]
        BY <1>12, <2>1, <2>2, <3>1 DEF Return, ReturnInv, files
      <4> QED
        BY <2>1, <4>1 DEF IInv, GrantsRecorded, TypeInv, TypeOK, Allocations
    <3>2. CASE ~(args[c].op = "allocate" /\ result[c].ok)
      BY <1>12, <3>2 DEF Return, IInv, GrantsRecorded, files
    <3> QED BY <3>1, <3>2
  <2>5. pc'[c] = "idle" /\ fd'[c] = "none" /\ fd' = fd
    BY <1>12, <2>1, <2>2 DEF Return, Goto, IInv, TypeInv, TypeOK
  <2>6. CallInv(c)'
    BY <2>5 DEF CallInv, SavingInv, FdInv, TmpInv, ReturnInv, Saving
  <2>7. \A d \in Callers : CallInv(d)'
    BY <2>1, <2>5, <2>6, OthersQuiet
  <2>8. ASSUME NEW d \in Callers PROVE pc'[d] \in Critical <=> mutex'[ProcessOf[d]] = d
    <3>1. ProcessOf[c] \in Processes /\ ProcessOf[d] = ProcessOf[c]
      BY DEF SingleProcess
    <3>2. mutex'[ProcessOf[d]] = NoCaller /\ NoCaller # d
      BY <1>12, <3>1 DEF Return, IInv, TypeInv, TypeOK
    <3>3. pc'[d] \in {"idle", "lock"}
      BY <2>1, <2>5, Exclusive DEF Goto, IInv, TypeInv, TypeOK
    <3> QED BY <3>2, <3>3 DEF Critical
  <2>9. MutexInv'
    BY <2>8 DEF MutexInv
  <2> QED BY <1>0, <2>3, <2>4, <2>7, <2>9 DEF IInv
<1>13. ASSUME NEW p \in Processes, Crash(p) PROVE IInv'
  <2>1. \A c \in Callers : ProcessOf[c] = p
    BY <1>13 DEF Crash, SingleProcess
  <2>2. BookInv' /\ GrantsRecorded'
    BY <1>13 DEF Crash, IInv, BookInv, GrantsRecorded, FileReadable, Sound, files
  <2>3. \A c \in Callers : pc'[c] = "idle" /\ fd'[c] = "none"
    BY <1>13, <2>1 DEF Crash, Forget
  <2>4. \A c \in Callers : mutex'[ProcessOf[c]] = NoCaller /\ NoCaller # c
    BY <1>13, <2>1 DEF Crash, IInv, TypeInv, TypeOK
  <2>5. MutexInv'
    BY <2>3, <2>4 DEF MutexInv, Critical
  <2>6. \A c \in Callers : CallInv(c)'
    BY <2>3 DEF CallInv, SavingInv, FdInv, TmpInv, ReturnInv, Saving
  <2> QED BY <1>0, <2>2, <2>5, <2>6 DEF IInv
<1>14. CASE Commit
  <2>1. durable' = alloc
    BY <1>14 DEF Commit, IInv, BookInv
  <2>2. BookInv' /\ GrantsRecorded' /\ MutexInv'
    BY <1>14, <2>1
       DEF Commit, IInv, BookInv, FileReadable, Sound, GrantsRecorded, MutexInv
  <2>3. \A c \in Callers : CallInv(c)'
    BY <1>14 DEF Commit, IInv, CallInv, SavingInv, FdInv, TmpInv, ReturnInv, Loaded
  <2> QED BY <1>0, <2>2, <2>3 DEF IInv
<1>15. CASE PowerLoss
  <2>1. BookInv'
    BY <1>15 DEF PowerLoss, IInv, BookInv, FileReadable, Sound
  <2>2. GrantsRecorded'
    BY <1>15 DEF PowerLoss, GrantsRecorded, NoAllocation
  <2>3. \A c \in Callers : pc'[c] = "idle" /\ fd'[c] = "none"
    BY <1>15 DEF PowerLoss, Forget
  <2>4. \A c \in Callers : mutex'[ProcessOf[c]] = NoCaller /\ NoCaller # c
    BY <1>15 DEF PowerLoss
  <2>5. MutexInv'
    BY <2>3, <2>4 DEF MutexInv, Critical
  <2>6. \A c \in Callers : CallInv(c)'
    BY <2>3 DEF CallInv, SavingInv, FdInv, TmpInv, ReturnInv, Saving
  <2> QED BY <1>0, <2>1, <2>2, <2>5, <2>6 DEF IInv
<1>16. CASE UNCHANGED vars
  <2>1. BookInv' /\ GrantsRecorded' /\ MutexInv'
    BY <1>16
       DEF vars, files, IInv, BookInv, FileReadable, Sound, GrantsRecorded, MutexInv
  <2>2. \A c \in Callers : CallInv(c)'
    BY <1>16 DEF vars, files, IInv, CallInv, SavingInv, FdInv, TmpInv, ReturnInv, Loaded
  <2> QED BY <1>0, <2>1, <2>2 DEF IInv
<1> QED
  BY <1>1, <1>2, <1>3, <1>4, <1>5, <1>6, <1>7, <1>8, <1>9, <1>10, <1>11, <1>12,
     <1>13, <1>14, <1>15, <1>16 DEF Next, Step

\* The inductive invariant holds before the first call.
LEMMA InvInit == Init => IInv
<1> SUFFICES ASSUME Init PROVE IInv
  OBVIOUS
<1>1. TypeInv
  BY ResultType, ArgsType
     DEF Init, TypeInv, InCall, TypeOK, Steps, Descriptors, FileContents
<1>2. BookInv /\ GrantsRecorded
  BY IPAMAssumption, EmptyIsSound
     DEF Init, BookInv, FileReadable, GrantsRecorded, NoAllocation
<1>3. MutexInv
  BY IPAMAssumption DEF Init, MutexInv, Critical
<1>4. \A c \in Callers : CallInv(c)
  BY DEF Init, CallInv, SavingInv, FdInv, TmpInv, ReturnInv, Saving
<1> QED BY <1>1, <1>2, <1>3, <1>4 DEF IInv

\* The invariant contains, or implies, the safety properties of IPAM.
LEMMA InvSafe ==
    ASSUME IInv
    PROVE  UniqueGrants /\ GrantsRecorded /\ GrantsUsable /\ FileReadable
<1>1. GrantsRecorded /\ FileReadable
  BY DEF IInv, BookInv
<1>2. UniqueGrants
  BY DEF IInv, GrantsRecorded, UniqueGrants, BookInv, Sound
<1>3. GrantsUsable
  BY DEF IInv, GrantsRecorded, GrantsUsable, BookInv, Sound
<1> QED BY <1>1, <1>2, <1>3

\* When all callers share one ipamMu, no two containers are ever given the
\* same address, an address on loan stays on record, and the file can always
\* be read, through failing writes, dying processes and power losses.
THEOREM AddressBookSafe ==
    SingleProcess => (Spec => [](UniqueGrants /\ GrantsRecorded /\ FileReadable))
<1> SUFFICES ASSUME SingleProcess
             PROVE  Spec => [](UniqueGrants /\ GrantsRecorded /\ FileReadable)
  OBVIOUS
<1>1. IInv /\ [Next]_vars => IInv'
  BY InvStep
<1>2. IInv => UniqueGrants /\ GrantsRecorded /\ FileReadable
  BY InvSafe
<1> QED BY <1>1, <1>2, InvInit, PTL DEF Spec

\* An address on loan stays on record until it is released, through calls,
\* failures, deaths and power losses.
THEOREM GrantsStayRecorded == SingleProcess => (Spec => []GrantsRecorded)
<1> SUFFICES ASSUME SingleProcess PROVE Spec => []GrantsRecorded
  OBVIOUS
<1>1. IInv /\ [Next]_vars => IInv'
  BY InvStep
<1>2. IInv => GrantsRecorded
  BY InvSafe
<1> QED BY <1>1, <1>2, InvInit, PTL DEF Spec

\* Neither the file nor what a power loss leaves of it is ever unreadable.
THEOREM FileStaysReadable == SingleProcess => (Spec => []FileReadable)
<1> SUFFICES ASSUME SingleProcess PROVE Spec => []FileReadable
  OBVIOUS
<1>1. IInv /\ [Next]_vars => IInv'
  BY InvStep
<1>2. IInv => FileReadable
  BY InvSafe
<1> QED BY <1>1, <1>2, InvInit, PTL DEF Spec

-----------------------------------------------------------------------------
\* The books that give away usable addresses only.  Unlike uniqueness this
\* needs no mutex: whatever processes that share the file do to each other,
\* every book one of them reads, has in memory or leaves on disk is such a one.
Books == [Containers -> Usable \cup {NoIP}]
BookFiles == Books \cup {NoFile, Garbled}

UsableInv ==
    /\ TypeInv
    /\ alloc \in BookFiles /\ tmp \in BookFiles /\ durable \in BookFiles
    /\ state \in [Callers -> Books]
    /\ \A c \in Callers : result[c].ip \in Usable \cup {NoIP}
    /\ granted \in Books

\* What the steps are made of stays within Books.
LEMMA BookFacts ==
    /\ NoAllocation \in Books
    /\ Failed.ip = NoIP
    /\ \A ip : Returned(ip).ip = ip
    /\ alloc \in BookFiles /\ alloc # Garbled => Loaded \in Books
    /\ \A book \in Books, id \in Containers, ip \in Usable \cup {NoIP} :
         /\ book[id] \in Usable \cup {NoIP}
         /\ [book EXCEPT ![id] = ip] \in Books
<1>1. NoAllocation \in Books
  BY DEF NoAllocation, Books
<1>2. alloc \in BookFiles /\ alloc # Garbled => Loaded \in Books
  BY <1>1 DEF Loaded, BookFiles
<1>3. ASSUME NEW book \in Books, NEW id \in Containers, NEW ip \in Usable \cup {NoIP}
      PROVE  book[id] \in Usable \cup {NoIP} /\ [book EXCEPT ![id] = ip] \in Books
  BY <1>3 DEF Books
<1> QED BY <1>1, <1>2, <1>3 DEF Failed, Returned

\* Every step of every process keeps the books within the usable addresses.
LEMMA UsableStep == UsableInv /\ [Next]_vars => UsableInv'
<1> SUFFICES ASSUME UsableInv, [Next]_vars PROVE UsableInv'
  OBVIOUS
<1>0. TypeInv' /\ TypeInv
  BY TypeStep DEF UsableInv
<1>1. ASSUME NEW c \in Callers, NEW op \in Ops, NEW id \in Containers,
             NEW req \in Requests \cup {NoIP}, Call(c, op, id, req)
      PROVE  UsableInv'
  BY <1>0, <1>1 DEF Call, UsableInv, files
<1>2. ASSUME NEW c \in Callers, Lock(c) PROVE UsableInv'
  BY <1>0, <1>2 DEF Lock, UsableInv, files
<1>3. ASSUME NEW c \in Callers, LoadFails(c) PROVE UsableInv'
  BY <1>0, <1>3, BookFacts DEF LoadFails, UsableInv, files, TypeInv, TypeOK
<1>4. ASSUME NEW c \in Callers, LoadForAllocate(c) PROVE UsableInv'
  <2>1. Loaded \in Books /\ args[c].id \in Containers
    BY <1>4, BookFacts DEF LoadForAllocate, UsableInv, TypeInv, InCall, At
  <2>2. Loaded[args[c].id] \in Usable \cup {NoIP}
    BY <2>1, BookFacts
  <2>3. \A ip \in Picked(Loaded, args[c].req) :
            ip \in Usable \cup {NoIP} /\ [Loaded EXCEPT ![args[c].id] = ip] \in Books
    BY <2>1, PickedIsFree, FreeIsHost, BookFacts
  <2>4. \/ \E r : r.ip \in Usable \cup {NoIP} /\ ReturnWith(c, r)
        \/ \E book \in Books, ip \in Usable \cup {NoIP} : SaveWith(c, book, ip)
    <3>1. CASE ReturnWith(c, Returned(Loaded[args[c].id]))
      BY <2>2, <3>1, BookFacts
    <3>2. CASE \E ip \in Picked(Loaded, args[c].req) :
                   SaveWith(c, [Loaded EXCEPT ![args[c].id] = ip], ip)
      BY <2>3, <3>2
    <3>3. CASE ReturnWith(c, Failed)
      BY <3>3, BookFacts
    <3> QED BY <1>4, <3>1, <3>2, <3>3 DEF LoadForAllocate
  <2>5. UNCHANGED <<files, mutex, args, fd, granted>>
    BY <1>4 DEF LoadForAllocate
  <2>6. ASSUME NEW r, r.ip \in Usable \cup {NoIP}, ReturnWith(c, r) PROVE UsableInv'
    BY <1>0, <2>5, <2>6 DEF ReturnWith, UsableInv, files, TypeInv, TypeOK
  <2>7. ASSUME NEW book \in Books, NEW ip \in Usable \cup {NoIP}, SaveWith(c, book, ip)
        PROVE  UsableInv'
    BY <1>0, <2>5, <2>7, BookFacts DEF SaveWith, UsableInv, files, TypeInv, TypeOK
  <2> QED BY <2>4, <2>6, <2>7
<1>5. ASSUME NEW c \in Callers, LoadForRelease(c) PROVE UsableInv'
  <2>1. Loaded \in Books /\ args[c].id \in Containers
    BY <1>5, BookFacts DEF LoadForRelease, UsableInv, TypeInv, InCall, At
  <2>2. /\ [Loaded EXCEPT ![args[c].id] = NoIP] \in Books
        /\ [granted EXCEPT ![args[c].id] = NoIP] \in Books
    BY <2>1, BookFacts DEF UsableInv
  <2>3. \/ ReturnWith(c, Returned(NoIP))
        \/ \E book \in Books : SaveWith(c, book, NoIP)
    BY <1>5, <2>2 DEF LoadForRelease
  <2>4. granted' \in Books /\ UNCHANGED <<files, mutex, args, fd>>
    BY <1>5, <2>2 DEF LoadForRelease
  <2>5. CASE ReturnWith(c, Returned(NoIP))
    BY <1>0, <2>4, <2>5, BookFacts DEF ReturnWith, UsableInv, files, TypeInv, TypeOK
  <2>6. ASSUME NEW book \in Books, SaveWith(c, book, NoIP) PROVE UsableInv'
    BY <1>0, <2>4, <2>6, BookFacts DEF SaveWith, UsableInv, files, TypeInv, TypeOK
  <2> QED BY <2>3, <2>5, <2>6
<1>6. ASSUME NEW c \in Callers, LoadForGet(c) PROVE UsableInv'
  <2>1. Loaded[args[c].id] \in Usable \cup {NoIP}
    BY <1>6, BookFacts DEF LoadForGet, UsableInv, TypeInv, InCall, At
  <2> QED
    BY <1>0, <1>6, <2>1, BookFacts
       DEF LoadForGet, ReturnWith, UsableInv, files, TypeInv, TypeOK
<1>7. ASSUME NEW c \in Callers, OpenTmp(c) PROVE UsableInv'
  BY <1>0, <1>7, BookFacts DEF OpenTmp, UsableInv, BookFiles
<1>8. ASSUME NEW c \in Callers, Write(c) PROVE UsableInv'
  <2>1. state[c] \in BookFiles /\ Garbled \in BookFiles
    BY DEF UsableInv, BookFiles
  <2>2. alloc' \in BookFiles /\ tmp' \in BookFiles
    BY <1>8, <2>1, OverwriteResult DEF Write, UsableInv
  <2> QED BY <1>0, <1>8, <2>2 DEF Write, UsableInv
<1>9. ASSUME NEW c \in Callers, Sync(c) PROVE UsableInv'
  BY <1>0, <1>9 DEF Sync, UsableInv
<1>10. ASSUME NEW c \in Callers, Rename(c) PROVE UsableInv'
  BY <1>0, <1>10 DEF Rename, UsableInv, BookFiles
<1>11. ASSUME NEW c \in Callers, SaveFails(c) PROVE UsableInv'
  BY <1>0, <1>11, BookFacts DEF SaveFails, UsableInv, BookFiles, TypeInv, TypeOK
<1>12. ASSUME NEW c \in Callers, Return(c) PROVE UsableInv'
  <2>1. args[c].id \in Containers /\ result[c].ip \in Usable \cup {NoIP}
    BY <1>12 DEF Return, UsableInv, TypeInv, InCall, At
  <2>2. granted' \in Books
    BY <1>12, <2>1, BookFacts DEF Return, UsableInv
  <2> QED
    BY <1>0, <1>12, <2>2, BookFacts DEF Return, UsableInv, files, TypeInv, TypeOK
<1>13. ASSUME NEW p \in Processes, Crash(p) PROVE UsableInv'
  BY <1>0, <1>13, BookFacts DEF Crash, Forget, UsableInv, files
<1>14. CASE Commit
  BY <1>0, <1>14, BookFacts DEF Commit, UsableInv, BookFiles
<1>15. CASE PowerLoss
  BY <1>0, <1>15, BookFacts DEF PowerLoss, Forget, UsableInv, BookFiles
<1>16. CASE UNCHANGED vars
  BY <1>0, <1>16 DEF vars, files, UsableInv
<1> QED
  BY <1>1, <1>2, <1>3, <1>4, <1>5, <1>6, <1>7, <1>8, <1>9, <1>10, <1>11, <1>12,
     <1>13, <1>14, <1>15, <1>16 DEF Next, Step

\* Nobody is ever given a reserved address or one outside the subnet, whatever
\* was requested, for any number of processes that do not share a mutex.
THEOREM GrantsAlwaysUsable == Spec => []GrantsUsable
<1>1. Init => UsableInv
  <2> SUFFICES ASSUME Init PROVE UsableInv
    OBVIOUS
  <2>1. TypeInv
    BY ResultType, ArgsType
       DEF Init, TypeInv, InCall, TypeOK, Steps, Descriptors, FileContents
  <2> QED BY <2>1, BookFacts DEF Init, UsableInv, BookFiles
<1>2. UsableInv => GrantsUsable
  BY DEF UsableInv, Books, GrantsUsable
<1> QED BY <1>1, <1>2, UsableStep, PTL DEF Spec

-----------------------------------------------------------------------------
\* The address that goes on file is the requested one or the lowest free one
\* of the book it replaces.
THEOREM BestAddressChosen == SingleProcess => (Spec => BestAddress)
<1> SUFFICES ASSUME SingleProcess PROVE Spec => BestAddress
  OBVIOUS
<1> DEFINE Best(c) ==
      /\ pc[c] = "rename" /\ pc'[c] = "return" /\ result'[c].ok
      /\ args[c].op = "allocate"
      => LET ip == alloc'[args[c].id]
             free == Free(Loaded)
         IN  /\ ip \in free
             /\ args[c].req \in free => ip = args[c].req
             /\ args[c].req \notin free => \A h \in free : ip <= h
<1>1. ASSUME IInv, [Next]_vars, NEW c \in Callers PROVE Best(c)
  <2> SUFFICES ASSUME pc[c] = "rename", pc'[c] = "return", result'[c].ok,
                      args[c].op = "allocate"
               PROVE  LET ip == alloc'[args[c].id]
                          free == Free(Loaded)
                      IN  /\ ip \in free
                          /\ args[c].req \in free => ip = args[c].req
                          /\ args[c].req \notin free => \A h \in free : ip <= h
    OBVIOUS
  <2>1. /\ SavingInv(c) /\ tmp = state[c] /\ args[c].id \in Containers
        /\ pc[c] \in Saving /\ pc[c] \in Critical
    BY <1>1 DEF IInv, CallInv, TmpInv, TypeInv, InCall, Saving, Critical
  <2>2. Loaded \in Allocations
    BY <1>1, LoadedType DEF IInv, TypeInv, BookInv, FileReadable
  <2>3. alloc'[args[c].id] \in Picked(Loaded, args[c].req)
    <3>1. Rename(c)
      <4>1. ASSUME SaveFails(c) PROVE FALSE
        BY <1>1, <4>1 DEF SaveFails, Failed, IInv, TypeInv, TypeOK
      <4>2. ASSUME NEW p \in Processes, Crash(p) PROVE FALSE
        BY <4>2 DEF Crash, Forget, SingleProcess
      <4>3. ASSUME PowerLoss \/ Commit \/ UNCHANGED vars PROVE FALSE
        BY <4>3 DEF PowerLoss, Forget, Commit, vars
      <4>4. PICK d \in Callers :
              \/ \E op \in Ops, id \in Containers, req \in Requests \cup {NoIP} :
                   Call(d, op, id, req)
              \/ Lock(d) \/ Step(d)
        BY <1>1, <4>2, <4>3 DEF Next
      <4>5. \E step : Goto(d, step)
        BY <4>4 DEF Call, Lock, Step, LoadFails, LoadForAllocate, LoadForRelease,
                    LoadForGet, ReturnWith, SaveWith, OpenTmp, Write, Sync, Rename,
                    SaveFails, Return
      <4>6. d = c
        BY <1>1, <4>5 DEF Goto, IInv, TypeInv, TypeOK
      <4> QED
        BY <4>1, <4>4, <4>6
           DEF Call, Lock, Step, LoadFails, LoadForAllocate, LoadForRelease, LoadForGet,
               OpenTmp, Write, Sync, Return, At
    <3> QED BY <2>1, <2>2, <3>1 DEF Rename, SavingInv, Allocations
  <2> QED BY <2>3 DEF Picked
<1>2. IInv /\ [Next]_vars => [\A c \in Callers : Best(c)]_vars
  BY <1>1
<1>3. IInv /\ [Next]_vars => IInv'
  BY InvStep
<1> QED BY <1>2, <1>3, InvInit, PTL DEF Spec, BestAddress

-----------------------------------------------------------------------------
\* The abstract pool a readable file stands for is the file itself.
LEMMA ViewOfFile ==
    ASSUME TypeOK, FileReadable
    PROVE  /\ View(alloc) = Loaded
           /\ View(alloc) \in Allocations /\ View(durable) \in Allocations
<1>1. NoAllocation \in Allocations /\ NoFile \notin Allocations
  BY IPAMAssumption DEF NoAllocation, Allocations
<1> QED BY <1>1 DEF TypeOK, FileReadable, View, Loaded, FileContents

\* A step that leaves both files and the grants alone is no step of the pool.
LEMMA PoolStutters ==
    ASSUME UNCHANGED <<alloc, durable, granted>>
    PROVE  UNCHANGED Pool!poolVars
BY DEF Pool!poolVars, View

\* Every step of the allocator under one ipamMu is a step of the pool.
LEMMA PoolStep ==
    ASSUME SingleProcess, IInv, IInv', [Next]_vars
    PROVE  [Pool!Next]_(Pool!poolVars)
<1> USE IPAMAssumption
<1>0. /\ View(alloc) = Loaded /\ View(alloc) \in Allocations
      /\ View(durable) \in Allocations /\ granted \in Allocations
  BY ViewOfFile DEF IInv, TypeInv, BookInv, TypeOK
<1>1. ASSUME NEW c \in Callers, LoadForRelease(c) PROVE Pool!Next
  <2>1. args[c].id \in Containers
    BY <1>1 DEF LoadForRelease, At, IInv, TypeInv, InCall
  <2>2. Pool!Revoke(args[c].id)
    BY <1>1 DEF LoadForRelease, files, Pool!Revoke, View
  <2> QED BY <2>1, <2>2 DEF Pool!Next
<1>2. ASSUME NEW c \in Callers, Rename(c) PROVE Pool!Next
  <2>1. /\ pc[c] \in Saving /\ SavingInv(c) /\ args[c].id \in Containers
        /\ tmp = state[c] /\ state[c] \in Allocations
    BY <1>2 DEF Rename, At, Saving, IInv, CallInv, TmpInv, TypeInv, InCall, TypeOK
  <2>2. View(alloc)' = state[c] /\ UNCHANGED <<View(durable), granted>>
    BY <1>2, <2>1 DEF Rename, View
  <2>3. CASE args[c].op = "allocate"
    <3>1. /\ result[c].ip \in Free(Loaded)
          /\ Loaded[args[c].id] = NoIP
          /\ state[c] = [Loaded EXCEPT ![args[c].id] = result[c].ip]
      BY <2>1, <2>3, PickedIsFree DEF SavingInv
    <3>2. Pool!Record(args[c].id, result[c].ip) /\ result[c].ip \in Usable
      BY <1>0, <2>2, <3>1, FreeIsHost DEF Pool!Record
    <3> QED BY <2>1, <3>2 DEF Pool!Next
  <2>4. CASE args[c].op = "release"
    <3>1. granted[args[c].id] = NoIP /\ state[c] = [Loaded EXCEPT ![args[c].id] = NoIP]
      BY <2>1, <2>4 DEF SavingInv
    <3>2. Pool!Remove(args[c].id)
      BY <1>0, <2>2, <3>1 DEF Pool!Remove
    <3> QED BY <2>1, <3>2 DEF Pool!Next
  <2> QED BY <2>1, <2>3, <2>4 DEF SavingInv
<1>3. ASSUME NEW c \in Callers, Return(c) PROVE [Pool!Next]_(Pool!poolVars)
  <2>1. CASE args[c].op = "allocate" /\ result[c].ok
    <3>1. args[c].id \in Containers /\ ReturnInv(c) /\ pc[c] = "return"
      BY <1>3 DEF Return, At, IInv, TypeInv, InCall, CallInv
    <3>2. View(alloc)[args[c].id] = result[c].ip /\ result[c].ip # NoIP
      BY <2>1, <3>1 DEF ReturnInv, View
    <3>3. Pool!Grant(args[c].id)
      BY <1>3, <2>1, <3>2 DEF Return, files, Pool!Grant, View
    <3> QED BY <3>1, <3>3 DEF Pool!Next
  <2>2. CASE ~(args[c].op = "allocate" /\ result[c].ok)
    BY <1>3, <2>2, PoolStutters DEF Return, files
  <2> QED BY <2>1, <2>2
<1>4. ASSUME Commit PROVE Pool!Next
  <2>1. durable' = alloc
    BY <1>4 DEF Commit, IInv, BookInv
  <2> QED BY <1>4, <2>1 DEF Commit, Pool!Commit, Pool!Next, View
<1>5. ASSUME PowerLoss PROVE Pool!Next
  BY <1>5 DEF PowerLoss, Pool!PowerLoss, Pool!Next, Pool!Empty, NoAllocation, View
<1>6. ASSUME NEW c \in Callers, Write(c) \/ SaveFails(c)
      PROVE  UNCHANGED <<alloc, durable, granted>>
  BY <1>6 DEF Write, SaveFails, At, IInv, CallInv, FdInv
<1>7. ASSUME NEW c \in Callers,
             \/ \E op \in Ops, id \in Containers, req \in Requests \cup {NoIP} :
                  Call(c, op, id, req)
             \/ Lock(c) \/ LoadFails(c) \/ LoadForAllocate(c) \/ LoadForGet(c)
             \/ OpenTmp(c) \/ Sync(c)
      PROVE  UNCHANGED <<alloc, durable, granted>>
  BY <1>7 DEF Call, Lock, LoadFails, LoadForAllocate, LoadForGet, OpenTmp, Sync, files
<1>8. ASSUME (\E p \in Processes : Crash(p)) \/ UNCHANGED vars
      PROVE  UNCHANGED <<alloc, durable, granted>>
  BY <1>8 DEF Crash, vars, files
<1> QED
  BY <1>1, <1>2, <1>3, <1>4, <1>5, <1>6, <1>7, <1>8, PoolStutters DEF Next, Step

\* The allocator implements the crash-atomic pool of addresses IPPool when all
\* callers share one ipamMu.
THEOREM AllocatorImplementsPool == SingleProcess => (Spec => ImplementsPool)
<1> SUFFICES ASSUME SingleProcess PROVE Spec => ImplementsPool
  OBVIOUS
<1>1. Init => Pool!Init
  BY IPAMAssumption DEF Init, Pool!Init, Pool!Empty, View, NoAllocation, Allocations
<1>2. IInv /\ [Next]_vars => IInv'
  BY InvStep
<1>3. IInv /\ IInv' /\ [Next]_vars => [Pool!Next]_(Pool!poolVars)
  BY PoolStep
<1> QED BY <1>1, <1>2, <1>3, InvInit, PTL DEF Spec, ImplementsPool, Pool!Spec
=============================================================================
