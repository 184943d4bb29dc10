---------------------------- MODULE ImagesProofs ----------------------------
(***************************************************************************)
(* Proofs about the image store, for any number of pulls at one time: its  *)
(* types, that every image in the manifest has been unpacked as far as     *)
(* Untar unpacks, that what was pulled is listed, and that an unreadable   *)
(* manifest stays.                                                         *)
(***************************************************************************)
EXTENDS Images, TLAPS

IInv == TypeOK /\ ListedIsComplete /\ OneUnpacks /\ PullersSound

\* The empty manifest is a manifest and lists nothing.
LEMMA EmptyManifestType == EmptyManifest \in Manifests /\ DOMAIN EmptyManifest = {}
<1>1. EmptyManifest \in [{} -> Ids]
  BY DEF EmptyManifest
<1>2. {} \in SUBSET Names
  OBVIOUS
<1>. QED
  BY <1>1, <1>2 DEF Manifests, EmptyManifest

\* A manifest is a function from some of the names to ids.
LEMMA ManifestType ==
    \A m \in Manifests : DOMAIN m \subseteq Names /\ m \in [DOMAIN m -> Ids]
  BY DEF Manifests

\* Entering an image into a manifest gives a manifest.
LEMMA EnteredType ==
    ASSUME NEW m \in Manifests, NEW n \in Names, NEW i \in Ids
    PROVE  Entered(m, n, i) \in Manifests
<1>1. DOMAIN m \subseteq Names /\ \A k \in DOMAIN m : m[k] \in Ids
  BY ManifestType
<1>2. Entered(m, n, i) \in [DOMAIN m \cup {n} -> Ids]
  BY <1>1 DEF Entered
<1>3. DOMAIN m \cup {n} \in SUBSET Names
  BY <1>1
<1>. QED
  BY <1>2, <1>3 DEF Manifests

\* The initial state is well typed.
LEMMA ImagesInitType == Init => TypeOK
<1>. SUFFICES ASSUME Init PROVE TypeOK
  OBVIOUS
<1>. USE DEF Init
<1>1. (CHOOSE n \in Names : TRUE) \in Names /\ (CHOOSE i \in Ids : TRUE) \in Ids
  BY ImagesAssumption
<1>2. name \in [Pullers -> Names] /\ id \in [Pullers -> Ids]
  BY <1>1
<1>3. list \in [Pullers -> Manifests]
  BY EmptyManifestType
<1>4. file \in [state : {"absent", "empty", "json", "garbled"}, list : Manifests]
  BY EmptyManifestType DEF NoFile
<1>5. overlapped \in BOOLEAN
  BY Zenon
<1>. QED
  BY <1>2, <1>3, <1>4, <1>5, ImagesAssumption DEF TypeOK, Archive, Unpacked

\* Every step keeps the types.
LEMMA ImagesStepType == TypeOK /\ [Next]_vars => TypeOK'
<1>. SUFFICES ASSUME TypeOK, [Next]_vars PROVE TypeOK'
  OBVIOUS
<1>. USE ImagesAssumption DEF TypeOK, At, Goto, local, store, bounds, history
<1>1. CASE UNCHANGED vars
  BY <1>1 DEF vars
<1>2. CASE Crash
  BY <1>2 DEF Crash
<1>3. ASSUME NEW p \in Pullers, PullImage(p) PROVE TypeOK'
  <2>1. CASE \E n \in Names : Call(p, n)
    BY <2>1 DEF Call
  <2>2. CASE \E i \in Ids : Fetch(p, i)
    BY <2>2 DEF Fetch
  <2>3. CASE Create(p)
    BY <2>3 DEF Create
  <2>4. CASE Export(p)
    <3>1. pos[p] + 1 \in Archive /\ pos[p] + 1 \in 0 .. Chunks
      BY <2>4 DEF Export, Archive
    <3>2. tar' \in [Ids -> SUBSET Archive]
      BY <2>4, <3>1 DEF Export
    <3>. QED
      BY <2>4, <3>1, <3>2 DEF Export
  <2>5. CASE Exported(p)
    BY <2>5 DEF Exported
  <2>6. CASE Untar(p)
    <3>1. pos[p] + 1 \in Archive /\ pos[p] + 1 \in 0 .. Chunks
      BY <2>6 DEF Untar, Archive
    <3>2. rootfs' \in [Ids -> SUBSET Unpacked]
      BY <2>6, <3>1 DEF Untar, Unpacked
    <3>. QED
      BY <2>6, <3>1, <3>2 DEF Untar
  <2>7. CASE Untarred(p)
    BY <2>7 DEF Untarred
  <2>8. CASE Read(p)
    <3>1. Entered(file.list, name[p], id[p]) \in Manifests
      BY EnteredType
    <3>2. list' \in [Pullers -> Manifests]
      BY <2>8, <3>1 DEF Read
    <3>. QED
      BY <2>8, <3>2 DEF Read
  <2>9. CASE Truncate(p)
    BY <2>9, EmptyManifestType DEF Truncate
  <2>10. CASE Write(p)
    BY <2>10, EmptyManifestType DEF Write
  <2>11. CASE WriteBreaks(p)
    BY <2>11, EmptyManifestType DEF WriteBreaks
  <2>12. CASE Fails(p)
    BY <2>12 DEF Fails
  <2>. QED
    BY <1>3, <2>1, <2>2, <2>3, <2>4, <2>5, <2>6, <2>7, <2>8, <2>9, <2>10, <2>11, <2>12
    DEF PullImage
<1>. QED
  BY <1>1, <1>2, <1>3 DEF Next

\* Every state of the image store is well typed, for any number of concurrent
\* pulls and any disk.
THEOREM ImagesTypeCorrect == Spec => []TypeOK
<1>. QED
  BY ImagesInitType, ImagesStepType, PTL DEF Spec

-----------------------------------------------------------------------------
\* The initial state satisfies the invariant: nothing is listed or under way.
LEMMA ImagesInit == Init => IInv
<1>. SUFFICES ASSUME Init PROVE IInv
  OBVIOUS
<1>1. TypeOK
  BY ImagesInitType
<1>2. DOMAIN file.list = {}
  BY EmptyManifestType DEF Init, NoFile
<1>3. \A p \in Pullers : pc[p] = "idle"
  BY DEF Init
<1>. QED
  BY <1>1, <1>2, <1>3 DEF IInv, ListedIsComplete, OneUnpacks, Unpacking, PullersSound, Sound, At

\* A complete image stays complete when trees only grow and spoiled images stay
\* spoiled.
LEMMA CompleteStays ==
    ASSUME TypeOK, TypeOK', spoiled \subseteq spoiled',
           \A i \in Ids : rootfs[i] \subseteq rootfs'[i]
    PROVE  \A i \in Ids : Complete(i) => Complete(i)'
<1>. SUFFICES ASSUME NEW i \in Ids, Complete(i) PROVE Complete(i)'
  OBVIOUS
<1>1. rootfs'[i] \subseteq Unpacked
  BY DEF TypeOK
<1>. QED
  BY <1>1 DEF Complete

\* The manifests only name images.
LEMMA ListsNameImages ==
    ASSUME TypeOK
    PROVE  /\ \A n \in DOMAIN file.list : file.list[n] \in Ids
           /\ \A p \in Pullers : \A n \in DOMAIN list[p] : list[p][n] \in Ids
<1>1. file.list \in Manifests
  BY DEF TypeOK
<1>2. \A p \in Pullers : list[p] \in Manifests
  BY DEF TypeOK
<1>. QED
  BY <1>1, <1>2, ManifestType

\* What a step of puller p must respect for the others to stay sound: their
\* own variables, and the archive of an image that is not spoiled.
Undisturbed(p) ==
    /\ \A q \in Pullers \ {p} :
         /\ pc'[q] = pc[q] /\ id'[q] = id[q] /\ pos'[q] = pos[q] /\ list'[q] = list[q]
         /\ Unpacking(q) /\ id[q] \notin spoiled' => tar[id[q]] \subseteq tar'[id[q]]
    /\ spoiled \subseteq spoiled'
    /\ \A i \in Ids : rootfs[i] \subseteq rootfs'[i]

\* Then only p itself and the manifest remain to be looked at.
LEMMA OthersStaySound ==
    ASSUME IInv, TypeOK', NEW p \in Pullers, Undisturbed(p)
    PROVE  \A q \in Pullers \ {p} : Sound(q)'
<1>. SUFFICES ASSUME NEW q \in Pullers, q # p PROVE Sound(q)'
  OBVIOUS
<1>1. \A i \in Ids : Complete(i) => Complete(i)'
  BY CompleteStays DEF IInv, Undisturbed
<1>2. pc'[q] = pc[q] /\ id'[q] = id[q] /\ pos'[q] = pos[q] /\ list'[q] = list[q]
  BY DEF Undisturbed
<1>3. id[q] \in Ids /\ id[q] \in spoiled => id[q] \in spoiled'
  BY DEF IInv, TypeOK, Undisturbed
<1>4. Sound(q)
  BY DEF IInv, PullersSound
<1>5. At(q, "export")' => (id[q] \in spoiled \/ 1 .. pos[q] \subseteq tar[id[q]])'
  BY <1>2, <1>3, <1>4 DEF Sound, At, Undisturbed, Unpacking
<1>6. At(q, "untar")' =>
        (\/ id[q] \in spoiled
         \/ tar[id[q]] = Archive /\ (1 .. pos[q]) \ Skipped \subseteq rootfs[id[q]])'
  <2>1. tar'[id[q]] \subseteq Archive /\ id[q] \in Ids
    BY DEF IInv, TypeOK, Archive
  <2>. QED
    BY <1>2, <1>3, <1>4, <2>1 DEF Sound, At, Undisturbed, Unpacking, Archive
<1>7. pc'[q] \in {"read", "truncate", "write"} => Complete(id[q])'
  <2>1. id[q] \in Ids
    BY DEF IInv, TypeOK
  <2>2. pc[q] \in {"read", "truncate", "write"} => Complete(id[q])
    BY <1>4 DEF Sound
  <2>. QED
    BY <1>1, <1>2, <2>1, <2>2 DEF Complete, Archive
<1>8. pc'[q] \in {"truncate", "write"} =>
        \A n \in DOMAIN list'[q] : Complete(list[q][n])'
  BY <1>1, <1>2, <1>4, ListsNameImages DEF IInv, Sound, Complete
<1>. QED
  BY <1>5, <1>6, <1>7, <1>8 DEF Sound, At

\* A puller that begins to unpack an image another one is unpacking spoils it.
Alone(p) ==
    pc'[p] \in {"export", "untar"} =>
        \/ Unpacking(p) /\ id'[p] = id[p]
        \/ \A q \in Pullers \ {p} : Unpacking(q) /\ id[q] = id'[p] => id'[p] \in spoiled'

\* A step of puller p keeps the invariant if it leaves the others undisturbed,
\* p itself sound and the manifest complete.
LEMMA PullerStep ==
    ASSUME IInv, TypeOK', NEW p \in Pullers, Undisturbed(p), Alone(p), Sound(p)',
           file' = file \/ ListedIsComplete'
    PROVE  IInv'
<1>1. PullersSound'
  <2>1. \A q \in Pullers \ {p} : Sound(q)'
    BY OthersStaySound
  <2>. QED
    BY <2>1 DEF PullersSound
<1>2. ListedIsComplete'
  <2>1. CASE file' = file
    <3>1. \A i \in Ids : Complete(i) => Complete(i)'
      BY CompleteStays DEF IInv, Undisturbed
    <3>2. \A n \in DOMAIN file.list : file.list[n] \in Ids
      BY ListsNameImages DEF IInv
    <3>. QED
      BY <2>1, <3>1, <3>2 DEF IInv, ListedIsComplete, Complete
  <2>. QED
    BY <2>1
<1>3. OneUnpacks'
  <2>. SUFFICES ASSUME NEW q \in Pullers, NEW r \in Pullers, q # r, id'[q] = id'[r],
                       Unpacking(q)', Unpacking(r)'
                PROVE  id'[q] \in spoiled'
    BY DEF OneUnpacks
  <2>1. \A s \in Pullers \ {p} : Unpacking(s)' => Unpacking(s) /\ id'[s] = id[s]
    BY DEF Undisturbed, Unpacking
  <2>2. \A s \in Pullers : s # p /\ Unpacking(s)' /\ Unpacking(p)' /\ id'[s] = id'[p]
          => id'[p] \in spoiled'
    <3>. SUFFICES ASSUME NEW s \in Pullers, s # p, Unpacking(s)', Unpacking(p)', id'[s] = id'[p]
                  PROVE  id'[p] \in spoiled'
      OBVIOUS
    <3>1. Unpacking(s) /\ id[s] = id'[p]
      BY <2>1
    <3>2. pc'[p] \in {"export", "untar"}
      BY DEF Unpacking
    <3>3. CASE Unpacking(p) /\ id'[p] = id[p]
      BY <3>1, <3>3 DEF IInv, OneUnpacks, Undisturbed
    <3>. QED
      BY <3>1, <3>2, <3>3 DEF Alone
  <2>3. CASE q # p /\ r # p
    BY <2>1, <2>3 DEF IInv, OneUnpacks, Undisturbed
  <2>. QED
    BY <2>2, <2>3
<1>. QED
  BY <1>1, <1>2, <1>3 DEF IInv

\* Every step keeps the invariant.
LEMMA ImagesStep == IInv /\ [Next]_vars => IInv'
<1>. SUFFICES ASSUME IInv, [Next]_vars PROVE IInv'
  OBVIOUS
<1>0. TypeOK /\ TypeOK'
  BY ImagesStepType DEF IInv
<1>1. CASE UNCHANGED vars
  BY <1>0, <1>1 DEF vars, local, store, bounds, history, IInv, TypeOK, ListedIsComplete, Complete,
     OneUnpacks, Unpacking, PullersSound, Sound, At
<1>2. CASE Crash
  <2>1. \A p \in Pullers : pc'[p] = "idle"
    BY <1>2 DEF Crash
  <2>2. UNCHANGED <<file, rootfs, spoiled>>
    BY <1>2 DEF Crash, store, history
  <2>3. ListedIsComplete'
    BY <2>2 DEF IInv, ListedIsComplete, Complete
  <2>4. OneUnpacks' /\ PullersSound'
    BY <2>1 DEF OneUnpacks, Unpacking, PullersSound, Sound, At
  <2>. QED
    BY <1>0, <2>3, <2>4 DEF IInv
<1>3. ASSUME NEW p \in Pullers, PullImage(p) PROVE IInv'
  <2>0. Sound(p) /\ id[p] \in Ids /\ pos[p] \in 0 .. Chunks
    BY <1>0 DEF IInv, PullersSound, TypeOK
  <2>. USE <1>0 DEF At, Goto, local, store, bounds, history, TypeOK
  <2>1. CASE \E n \in Names : Call(p, n)
    <3>1. Undisturbed(p) /\ Alone(p) /\ Sound(p)' /\ file' = file
      BY <2>1 DEF Call, Undisturbed, Alone, Sound
    <3>. QED
      BY <3>1, PullerStep
  <2>2. CASE \E i \in Ids : Fetch(p, i)
    <3>1. Undisturbed(p) /\ Alone(p) /\ Sound(p)' /\ file' = file
      BY <2>2 DEF Fetch, Undisturbed, Alone, Sound
    <3>. QED
      BY <3>1, PullerStep
  <2>3. CASE Create(p)
    <3>1. \A q \in Pullers \ {p} : Unpacking(q) /\ id[q] = id[p] => id[p] \in spoiled'
      BY <2>3 DEF Create, Contended, Unpacking
    <3>2. Undisturbed(p)
      BY <2>3, <3>1 DEF Create, Undisturbed
    <3>3. Alone(p)
      BY <2>3, <3>1 DEF Create, Alone
    <3>4. pc'[p] = "export" /\ 1 .. pos'[p] = {}
      BY <2>3, ImagesAssumption DEF Create
    <3>5. Sound(p)'
      BY <3>4 DEF Sound
    <3>6. file' = file
      BY <2>3 DEF Create
    <3>. QED
      BY <3>2, <3>3, <3>5, <3>6, PullerStep
  <2>4. CASE Export(p)
    <3>1. \A i \in Ids : tar[i] \subseteq tar'[i]
      BY <2>4 DEF Export
    <3>2. Undisturbed(p) /\ Alone(p) /\ file' = file
      BY <2>4, <3>1 DEF Export, Undisturbed, Alone, Unpacking
    <3>3. Sound(p)'
      <4>1. pc'[p] = "export" /\ pos'[p] = pos[p] + 1 /\ id'[p] = id[p] /\ spoiled' = spoiled
        BY <2>4 DEF Export
      <4>2. id[p] \in spoiled \/ 1 .. pos[p] \subseteq tar[id[p]]
        BY <2>0, <2>4 DEF Export, Sound
      <4>3. tar'[id[p]] = tar[id[p]] \cup {pos[p] + 1}
        BY <2>0, <2>4 DEF Export
      <4>4. 1 .. pos[p] + 1 = 1 .. pos[p] \cup {pos[p] + 1}
        BY <2>0, ImagesAssumption
      <4>. QED
        BY <4>1, <4>2, <4>3, <4>4 DEF Sound
    <3>. QED
      BY <3>2, <3>3, PullerStep
  <2>5. CASE Exported(p)
    <3>1. Undisturbed(p) /\ Alone(p) /\ file' = file
      BY <2>5 DEF Exported, Undisturbed, Alone, Unpacking
    <3>2. pc'[p] = "untar" /\ 1 .. pos'[p] = {}
      BY <2>5, ImagesAssumption DEF Exported
    <3>3. id[p] \in spoiled \/ tar[id[p]] = Archive
      <4>1. tar[id[p]] \subseteq Archive
        BY <2>0
      <4>. QED
        BY <2>0, <2>5, <4>1 DEF Exported, Sound, Archive
    <3>4. id'[p] = id[p] /\ spoiled' = spoiled /\ tar' = tar
      BY <2>5 DEF Exported
    <3>5. Sound(p)'
      BY <3>2, <3>3, <3>4 DEF Sound, Archive
    <3>. QED
      BY <3>1, <3>5, PullerStep
  <2>6. CASE Untar(p)
    <3>1. \A i \in Ids : rootfs[i] \subseteq rootfs'[i]
      BY <2>6 DEF Untar
    <3>2. Undisturbed(p) /\ Alone(p) /\ file' = file
      BY <2>6, <3>1 DEF Untar, Undisturbed, Alone, Unpacking
    <3>3. Sound(p)'
      <4>1. pc'[p] = "untar" /\ pos'[p] = pos[p] + 1 /\ id'[p] = id[p] /\ tar' = tar
        BY <2>6 DEF Untar
      <4>2. \/ id[p] \in spoiled
            \/ tar[id[p]] = Archive /\ (1 .. pos[p]) \ Skipped \subseteq rootfs[id[p]]
        BY <2>0, <2>6 DEF Untar, Sound
      <4>3. \/ id[p] \in spoiled'
            \/ /\ rootfs'[id[p]] = rootfs[id[p]] \cup ({pos[p] + 1} \ Skipped)
               /\ spoiled' = spoiled
        BY <2>0, <2>6 DEF Untar
      <4>4. 1 .. pos[p] + 1 = 1 .. pos[p] \cup {pos[p] + 1}
        BY <2>0, ImagesAssumption
      <4>5. spoiled \subseteq spoiled'
        BY <3>2 DEF Undisturbed
      <4>. QED
        BY <4>1, <4>2, <4>3, <4>4, <4>5 DEF Sound, Archive
    <3>. QED
      BY <3>2, <3>3, PullerStep
  <2>7. CASE Untarred(p)
    <3>1. Undisturbed(p) /\ Alone(p) /\ file' = file
      BY <2>7 DEF Untarred, Undisturbed, Alone
    <3>2. Complete(id[p])
      <4>1. rootfs[id[p]] \subseteq Unpacked
        BY <2>0
      <4>2. id[p] \notin spoiled => pos[p] = Chunks
        BY <2>0, <2>7, ImagesAssumption DEF Untarred, Sound, Archive
      <4>. QED
        BY <2>0, <2>7, <4>1, <4>2 DEF Untarred, Sound, Complete, Archive, Unpacked
    <3>3. pc'[p] = "read" /\ UNCHANGED <<id, rootfs, spoiled>>
      BY <2>7 DEF Untarred
    <3>4. Sound(p)'
      BY <3>2, <3>3 DEF Sound, Complete, Archive
    <3>. QED
      BY <3>1, <3>4, PullerStep
  <2>8. CASE Read(p)
    <3>1. Undisturbed(p) /\ Alone(p) /\ file' = file
      BY <2>8 DEF Read, Undisturbed, Alone
    <3>2. list'[p] = Entered(file.list, name[p], id[p])
      BY <2>8 DEF Read
    <3>3. Complete(id[p])
      BY <2>0, <2>8 DEF Read, Sound
    <3>4. \A n \in DOMAIN list'[p] : Complete(list'[p][n])
      BY <3>2, <3>3 DEF IInv, ListedIsComplete, Entered
    <3>5. pc'[p] = "truncate" /\ UNCHANGED <<id, rootfs, spoiled>>
      BY <2>8 DEF Read
    <3>6. Sound(p)'
      BY <3>3, <3>4, <3>5 DEF Sound, Complete, Archive
    <3>. QED
      BY <3>1, <3>6, PullerStep
  <2>9. CASE Truncate(p)
    <3>1. Undisturbed(p) /\ Alone(p)
      BY <2>9 DEF Truncate, Undisturbed, Alone
    <3>2. ListedIsComplete'
      BY <2>9, EmptyManifestType DEF Truncate, ListedIsComplete
    <3>3. pc[p] = "truncate" /\ pc'[p] = "write" /\ UNCHANGED <<id, list, rootfs, spoiled>>
      BY <2>9 DEF Truncate
    <3>4. Sound(p)'
      BY <2>0, <3>3 DEF Sound, Complete, Archive
    <3>. QED
      BY <3>1, <3>2, <3>4, PullerStep
  <2>10. CASE Write(p)
    <3>1. Undisturbed(p) /\ Alone(p) /\ Sound(p)'
      BY <2>10 DEF Write, Undisturbed, Alone, Sound
    <3>2. UNCHANGED <<rootfs, spoiled>>
      BY <2>10 DEF Write
    <3>3. \A n \in DOMAIN list[p] : Complete(list[p][n])
      BY <2>0, <2>10 DEF Write, Sound
    <3>4. file'.list \in {list[p], EmptyManifest}
      BY <2>10 DEF Write
    <3>5. ListedIsComplete'
      BY <3>2, <3>3, <3>4, EmptyManifestType DEF ListedIsComplete, Complete, Archive
    <3>. QED
      BY <3>1, <3>5, PullerStep
  <2>11. CASE WriteBreaks(p)
    <3>1. Undisturbed(p) /\ Alone(p) /\ Sound(p)'
      BY <2>11 DEF WriteBreaks, Undisturbed, Alone, Sound
    <3>2. ListedIsComplete'
      BY <2>11, EmptyManifestType DEF WriteBreaks, ListedIsComplete
    <3>. QED
      BY <3>1, <3>2, PullerStep
  <2>12. CASE Fails(p)
    <3>1. Undisturbed(p) /\ Alone(p) /\ Sound(p)' /\ file' = file
      BY <2>12 DEF Fails, Undisturbed, Alone, Sound
    <3>. QED
      BY <3>1, PullerStep
  <2>. QED
    BY <1>3, <2>1, <2>2, <2>3, <2>4, <2>5, <2>6, <2>7, <2>8, <2>9, <2>10, <2>11, <2>12
    DEF PullImage
<1>. QED
  BY <1>1, <1>2, <1>3 DEF Next

\* Every image the manifest lists has all the entries of its archive that Untar
\* makes, for any number of pulls at one time and any entries it passes over,
\* whatever fails and whenever the daemon dies; images two pulls unpacked at one
\* time and those an error was passed over in are excepted.
THEOREM ListedImagesComplete == Spec => []ListedIsComplete
<1>1. Init => IInv
  BY ImagesInit
<1>2. IInv /\ [Next]_vars => IInv'
  BY ImagesStep
<1>3. IInv => ListedIsComplete
  BY DEF IInv
<1>. QED
  BY <1>1, <1>2, <1>3, PTL DEF Spec

-----------------------------------------------------------------------------
\* The steps that touch what an update of the manifest is about.
Updating(p) == pc[p] \in {"truncate", "write"}

\* As long as no two updates overlapped, one puller at most is between its Read
\* and its Write; the manifest, and the one about to replace it, list all that
\* was pulled.  A missing file means that nothing was.
PulledInv ==
    ~overlapped =>
        /\ \A p, q \in Pullers : p # q /\ Updating(p) => ~Updating(q)
        /\ file.state = "json" => pulled \subseteq DOMAIN file.list
        /\ file.state = "absent" => pulled = {}
        /\ \A p \in Pullers : Updating(p) => pulled \cup {name[p]} \subseteq DOMAIN list[p]

\* Every step keeps PulledInv.
LEMMA PulledStep == TypeOK /\ PulledInv /\ [Next]_vars => PulledInv'
<1>. SUFFICES ASSUME TypeOK, PulledInv, [Next]_vars PROVE PulledInv'
  OBVIOUS
<1>. USE DEF At, Goto, local, store, bounds, history
<1>1. CASE UNCHANGED vars
  BY <1>1 DEF vars, PulledInv, Updating
<1>2. CASE Crash
  BY <1>2 DEF Crash, PulledInv, Updating
<1>3. ASSUME NEW p \in Pullers, PullImage(p) PROVE PulledInv'
  <2>0. pc \in [Pullers -> {"idle", "fetch", "create", "export", "untar", "read",
                            "truncate", "write"}]
        /\ name \in [Pullers -> Names] /\ list \in [Pullers -> Manifests]
    BY DEF TypeOK
  <2>1. CASE \E n \in Names : Call(p, n)
    BY <2>0, <2>1 DEF Call, PulledInv, Updating
  <2>2. CASE \E i \in Ids : Fetch(p, i)
    BY <2>0, <2>2 DEF Fetch, PulledInv, Updating
  <2>3. CASE Create(p)
    BY <2>0, <2>3 DEF Create, PulledInv, Updating
  <2>4. CASE Export(p)
    BY <2>4 DEF Export, PulledInv, Updating
  <2>5. CASE Exported(p)
    BY <2>0, <2>5 DEF Exported, PulledInv, Updating
  <2>6. CASE Untar(p)
    BY <2>6 DEF Untar, PulledInv, Updating
  <2>7. CASE Untarred(p)
    BY <2>0, <2>7 DEF Untarred, PulledInv, Updating
  <2>8. CASE Read(p)
    <3>. SUFFICES ASSUME ~overlapped' PROVE PulledInv'
      BY DEF PulledInv
    <3>1. ~overlapped /\ AtRest
      BY <2>8 DEF Read
    <3>2. \A q \in Pullers : q # p => ~Updating(q)'
      BY <2>0, <2>8, <3>1 DEF Read, AtRest, Updating
    <3>3. pulled \subseteq DOMAIN file.list
      BY <2>8, <3>1 DEF Read, PulledInv
    <3>4. list'[p] = Entered(file.list, name[p], id[p])
      BY <2>0, <2>8 DEF Read
    <3>5. DOMAIN list'[p] = DOMAIN file.list \cup {name[p]}
      BY <3>4 DEF Entered
    <3>6. UNCHANGED <<file, pulled, name>>
      BY <2>8 DEF Read
    <3>. QED
      BY <3>1, <3>2, <3>3, <3>5, <3>6 DEF PulledInv
  <2>9. CASE Truncate(p)
    BY <2>0, <2>9 DEF Truncate, PulledInv, Updating
  <2>10. CASE Write(p)
    <3>. SUFFICES ASSUME ~overlapped' PROVE PulledInv'
      BY DEF PulledInv
    <3>1. ~overlapped /\ Updating(p)
      BY <2>10 DEF Write, Updating
    <3>2. \A q \in Pullers : ~Updating(q)'
      BY <2>0, <2>10, <3>1 DEF Write, PulledInv, Updating
    <3>3. pulled' \subseteq DOMAIN list[p]
      BY <2>10, <3>1 DEF Write, PulledInv
    <3>4. \/ file' = [state |-> "json", list |-> list[p]]
          \/ file'.state = "garbled"
      BY <2>10 DEF Write
    <3>. QED
      BY <3>1, <3>2, <3>3, <3>4 DEF PulledInv
  <2>11. CASE WriteBreaks(p)
    BY <2>0, <2>11 DEF WriteBreaks, PulledInv, Updating
  <2>12. CASE Fails(p)
    BY <2>0, <2>12 DEF Fails, PulledInv, Updating
  <2>. QED
    BY <1>3, <2>1, <2>2, <2>3, <2>4, <2>5, <2>6, <2>7, <2>8, <2>9, <2>10, <2>11, <2>12
    DEF PullImage
<1>. QED
  BY <1>1, <1>2, <1>3 DEF Next

\* Whatever was reported pulled is listed, and found by run if it is a name and a
\* tag with one colon between them, for any number of pulls that do not update the
\* manifest at one time, whatever fails and whenever the daemon dies.
THEOREM PulledImagesListed == Spec => []PulledIsListed
<1>1. Init => PulledInv
  BY DEF Init, PulledInv, Updating, NoFile
<1>2. PulledInv => PulledIsListed
  <2>. SUFFICES ASSUME PulledInv, ~overlapped, file.state = "json"
                PROVE  /\ {Shown(n) : n \in pulled} \subseteq Listed
                       /\ \A n \in pulled : Len(n) = 2 => Found(n)
    BY DEF PulledIsListed
  <2>1. pulled \subseteq DOMAIN file.list
    BY DEF PulledInv
  <2>. QED
    BY <2>1 DEF Listed, ListImages, Found, Parse
<1>. QED
  BY <1>1, <1>2, ImagesInitType, ImagesStepType, PulledStep, PTL DEF Spec

\* A manifest that cannot be parsed is never overwritten: no pull gets past it.
THEOREM UnreadableStays == Spec => UnreadableKept
<1>. DEFINE Kept == AtRest /\ file.state \in {"empty", "garbled"} => AtRest' /\ file' = file
<1>1. ASSUME TypeOK, [Next]_vars PROVE Kept
  <2>. SUFFICES ASSUME AtRest, file.state \in {"empty", "garbled"}
                PROVE  AtRest' /\ file' = file
    OBVIOUS
  <2>. USE DEF At, Goto, local, store, bounds, history, AtRest
  <2>1. CASE UNCHANGED vars
    BY <2>1 DEF vars
  <2>2. CASE Crash
    BY <2>2 DEF Crash
  <2>3. ASSUME NEW p \in Pullers, PullImage(p) PROVE AtRest' /\ file' = file
    <3>1. ~Read(p) /\ ~Truncate(p) /\ ~Write(p) /\ ~WriteBreaks(p)
      BY DEF Read, Truncate, Write, WriteBreaks
    <3>2. file' = file
      BY <2>3, <3>1
         DEF PullImage, Call, Fetch, Create, Export, Exported, Untar, Untarred, Fails
    <3>3. pc' = pc \/ \E l \in {"idle", "fetch", "create", "export", "untar", "read"} :
                          pc' = [pc EXCEPT ![p] = l]
      BY <2>3, <3>1
         DEF PullImage, Call, Fetch, Create, Export, Exported, Untar, Untarred, Fails
    <3>4. ASSUME NEW l \in {"idle", "fetch", "create", "export", "untar", "read"},
                 pc' = [pc EXCEPT ![p] = l], NEW q \in Pullers
          PROVE  pc'[q] \notin {"truncate", "write"}
      <4>1. pc'[q] = IF q = p THEN l ELSE pc[q]
        BY <1>1, <3>4 DEF TypeOK
      <4>. QED
        BY <4>1
    <3>5. AtRest'
      BY <3>3, <3>4
    <3>. QED
      BY <3>2, <3>5
  <2>. QED
    BY <1>1, <2>1, <2>2, <2>3 DEF Next
<1>2. TypeOK /\ [Next]_vars => [Kept]_vars
  BY <1>1
<1>. QED
  BY <1>2, ImagesInitType, ImagesStepType, PTL DEF Spec, UnreadableKept
=============================================================================
