------------------------------- MODULE Images -------------------------------
(***************************************************************************)
(* The image store of the daemon: `gocker pull` unpacks an image under     *)
(* images/<id>/ and enters its name into images/manifest.json;             *)
(* `gocker images` lists the manifest and a starting container looks its   *)
(* root file system up in it.                                              *)
(*                                                                         *)
(* Every connection has a goroutine of its own and nothing is locked, so   *)
(* Pullers are the pulls the daemon works on at one time.  An archive is   *)
(* Chunks pieces, its entries; the archive and the unpacked tree of an     *)
(* image are the sets of the pieces they hold.  A name is the sequence of  *)
(* its parts between colons.                                               *)
(***************************************************************************)
EXTENDS Naturals, Sequences

CONSTANTS
    Pullers,      \* the goroutines that pull
    Names,        \* names users pull, each the sequence of its parts
    Ids,          \* image ids
    Chunks,       \* pieces of an archive
    Skipped,      \* those that are hard links, devices or pipes
    MaxPulls,     \* bound: pulls
    MaxCrashes    \* bound: crashes of the daemon

ASSUME ImagesAssumption ==
    /\ Names # {} /\ Ids # {}
    /\ Chunks \in Nat \ {0} /\ MaxPulls \in Nat /\ MaxCrashes \in Nat

VARIABLES
    pc,        \* what each puller does next
    name, id,  \* the image each puller pulls
    pos,       \* pieces each puller has exported, or unpacked
    list,      \* the manifest each puller writes back
    file,      \* manifest.json
    tar,       \* the pieces in images/<id>/image.tar
    rootfs,    \* the pieces in images/<id>/rootfs
    pulled,    \* names whose pull has reported success
    pulls, crashes,
    spoiled,    \* history: images that two pulls unpacked at one time, or where
                \* an error was passed over
    overlapped  \* history: two pulls updated the manifest at one time

local == <<name, id, pos, list>>
store == <<file, tar, rootfs>>
bounds == <<pulls, crashes>>
history == <<spoiled, overlapped>>
vars == <<pc, local, store, pulled, bounds, history>>

Manifests == UNION {[N -> Ids] : N \in SUBSET Names}
EmptyManifest == [n \in {} |-> CHOOSE i \in Ids : TRUE]
Archive == 1 .. Chunks

\* The entries Untar knows how to make.
Unpacked == Archive \ Skipped

TypeOK ==
    /\ pc \in [Pullers -> {"idle", "fetch", "create", "export", "untar", "read", "truncate",
                           "write"}]
    /\ name \in [Pullers -> Names] /\ id \in [Pullers -> Ids]
    /\ pos \in [Pullers -> 0 .. Chunks]
    /\ list \in [Pullers -> Manifests]
    /\ file \in [state : {"absent", "empty", "json", "garbled"}, list : Manifests]
    /\ tar \in [Ids -> SUBSET Archive] /\ rootfs \in [Ids -> SUBSET Unpacked]
    /\ pulled \subseteq Names
    /\ pulls \in 0 .. MaxPulls /\ crashes \in 0 .. MaxCrashes
    /\ spoiled \subseteq Ids /\ overlapped \in BOOLEAN

NoFile == [state |-> "absent", list |-> EmptyManifest]

Init ==
    /\ pc = [p \in Pullers |-> "idle"]
    /\ name = [p \in Pullers |-> CHOOSE n \in Names : TRUE]
    /\ id = [p \in Pullers |-> CHOOSE i \in Ids : TRUE]
    /\ pos = [p \in Pullers |-> 0]
    /\ list = [p \in Pullers |-> EmptyManifest]
    /\ file = NoFile
    /\ tar = [i \in Ids |-> {}] /\ rootfs = [i \in Ids |-> {}]
    /\ pulled = {} /\ pulls = 0 /\ crashes = 0
    /\ spoiled = {} /\ overlapped = FALSE

-----------------------------------------------------------------------------
\* pkg.Parse: a name without a tag means the tag latest, and one with two colons
\* (a registry with its port) nothing at all.
Parse(n) ==
    CASE Len(n) = 1 -> <<n[1], "latest">>
      [] Len(n) = 2 -> n
      [] OTHER      -> <<"", "">>

\* ListImages: the names in the manifest, none if there is no file.
ListImages == DOMAIN file.list

\* The images command shows the first two parts, the tag latest where there is none.
Shown(n) == <<n[1], IF Len(n) > 1 THEN n[2] ELSE "latest">>
Listed == {Shown(n) : n \in ListImages}

\* findImageRootfsPath for what the user types after run: the entry must be the
\* name and the tag that Parse gives.
Found(n) == file.state = "json" /\ Parse(n) \in DOMAIN file.list

\* A manifest with one entry set or added.
Entered(m, n, i) == [k \in DOMAIN m \cup {n} |-> IF k = n THEN i ELSE m[k]]

Goto(p, l) == pc' = [pc EXCEPT ![p] = l]
At(p, l) == pc[p] = l

-----------------------------------------------------------------------------
\* A pull request arrives.
Call(p, n) ==
    /\ At(p, "idle") /\ pulls < MaxPulls
    /\ pulls' = pulls + 1
    /\ name' = [name EXCEPT ![p] = n]
    /\ Goto(p, "fetch")
    /\ UNCHANGED <<id, pos, list, store, pulled, crashes, history>>

\* An error at any point is the answer to the user; what is on disk stays.
Fails(p) ==
    /\ ~At(p, "idle")
    /\ Goto(p, "idle")
    /\ UNCHANGED <<local, store, pulled, bounds, history>>

\* crane.Pull and the digest: the registry decides which image the name means.
Fetch(p, i) ==
    /\ At(p, "fetch")
    /\ id' = [id EXCEPT ![p] = i]
    /\ Goto(p, "create")
    /\ UNCHANGED <<name, pos, list, store, pulled, bounds, history>>

\* Another pull is exporting or unpacking the same image.
Contended(p) ==
    \E q \in Pullers \ {p} : id[q] = id[p] /\ pc[q] \in {"export", "untar"}

\* os.Create truncates an archive that is there.
Create(p) ==
    /\ At(p, "create")
    /\ tar' = [tar EXCEPT ![id[p]] = {}]
    /\ pos' = [pos EXCEPT ![p] = 0]
    /\ Goto(p, "export")
    /\ spoiled' = IF Contended(p) THEN spoiled \cup {id[p]} ELSE spoiled
    /\ UNCHANGED <<name, id, list, file, rootfs, pulled, bounds, overlapped>>

\* crane.Export writes the next piece at its own offset.
Export(p) ==
    /\ At(p, "export") /\ pos[p] < Chunks
    /\ pos' = [pos EXCEPT ![p] = @ + 1]
    /\ tar' = [tar EXCEPT ![id[p]] = @ \cup {pos[p] + 1}]
    /\ UNCHANGED <<pc, name, id, list, file, rootfs, pulled, bounds, history>>
Exported(p) ==
    /\ At(p, "export") /\ pos[p] = Chunks
    /\ pos' = [pos EXCEPT ![p] = 0]
    /\ Goto(p, "untar")
    /\ UNCHANGED <<name, id, list, store, pulled, bounds, history>>

\* Untar looks at the next entry: a directory, a file or a symbolic link goes into
\* the tree, over what is there; any other is passed over without a word.  The
\* errors of MkdirAll, Symlink and the copy are dropped and leave the entry out, or
\* half of it.
Untar(p) ==
    /\ At(p, "untar") /\ pos[p] < Chunks
    /\ pos[p] + 1 \in tar[id[p]]
    /\ pos' = [pos EXCEPT ![p] = @ + 1]
    /\ \/ /\ pos[p] + 1 \in Skipped
          /\ UNCHANGED <<rootfs, spoiled>>
       \/ /\ pos[p] + 1 \notin Skipped
          /\ rootfs' = [rootfs EXCEPT ![id[p]] = @ \cup {pos[p] + 1}]
          /\ UNCHANGED spoiled
       \/ /\ pos[p] + 1 \notin Skipped
          /\ spoiled' = spoiled \cup {id[p]}
          /\ UNCHANGED rootfs
    /\ UNCHANGED <<pc, name, id, list, file, tar, pulled, bounds, overlapped>>

\* Wrong variant: an archive that cannot be read is as good as unpacked.
UntarSkipped(p) ==
    /\ At(p, "untar")
    /\ Goto(p, "read")
    /\ UNCHANGED <<local, store, pulled, bounds, history>>

\* The end of the archive: the real one, or a piece that is missing because
\* another pull has truncated the file.  Nothing where a header should be, and
\* a block of zeros, are the end for the tar reader.
Untarred(p) ==
    /\ At(p, "untar")
    /\ pos[p] < Chunks => pos[p] + 1 \notin tar[id[p]]
    /\ Goto(p, "read")
    /\ UNCHANGED <<local, store, pulled, bounds, history>>

\* No pull is about to replace the manifest.
AtRest == \A p \in Pullers : pc[p] \notin {"truncate", "write"}

\* Wrong variant: a manifest that cannot be parsed counts as an empty one.
ReadAnything(p) ==
    /\ At(p, "read")
    /\ list' = [list EXCEPT ![p] = Entered(file.list, name[p], id[p])]
    /\ Goto(p, "truncate")
    /\ overlapped' = (overlapped \/ ~AtRest)
    /\ UNCHANGED <<name, id, pos, store, pulled, bounds, spoiled>>

\* Wrong variant: the new manifest holds the new entry alone.
ReadForgets(p) ==
    /\ At(p, "read") /\ file.state \in {"absent", "json"}
    /\ list' = [list EXCEPT ![p] = [n \in {name[p]} |-> id[p]]]
    /\ Goto(p, "truncate")
    /\ overlapped' = (overlapped \/ ~AtRest)
    /\ UNCHANGED <<name, id, pos, store, pulled, bounds, spoiled>>

\* updateManifest reads the manifest, or starts one, and enters the image; it
\* goes no further when there is a file it cannot parse.
Read(p) ==
    /\ At(p, "read") /\ file.state \in {"absent", "json"}
    /\ list' = [list EXCEPT ![p] = Entered(file.list, name[p], id[p])]
    /\ Goto(p, "truncate")
    /\ overlapped' = (overlapped \/ ~AtRest)
    /\ UNCHANGED <<name, id, pos, store, pulled, bounds, spoiled>>

\* os.WriteFile truncates the file, and then writes from its beginning: over
\* what another pull has written in between, of which an end may stay.
Truncate(p) ==
    /\ At(p, "truncate")
    /\ file' = [state |-> "empty", list |-> EmptyManifest]
    /\ Goto(p, "write")
    /\ UNCHANGED <<local, tar, rootfs, pulled, bounds, history>>

Write(p) ==
    /\ At(p, "write")
    /\ \/ file' = [state |-> "json", list |-> list[p]]
       \/ /\ file.state # "empty" /\ file # [state |-> "json", list |-> list[p]]
          /\ file' = [state |-> "garbled", list |-> EmptyManifest]
    /\ pulled' = pulled \cup {name[p]}
    /\ Goto(p, "idle")
    /\ UNCHANGED <<local, tar, rootfs, bounds, history>>

\* The disk is full in the middle of the manifest.
WriteBreaks(p) ==
    /\ At(p, "write")
    /\ file' = [state |-> "garbled", list |-> EmptyManifest]
    /\ Goto(p, "idle")
    /\ UNCHANGED <<local, tar, rootfs, pulled, bounds, history>>

\* The daemon dies and is started again.
Crash ==
    /\ crashes < MaxCrashes
    /\ crashes' = crashes + 1
    /\ pc' = [p \in Pullers |-> "idle"]
    /\ UNCHANGED <<local, store, pulled, pulls, history>>

PullImage(p) ==
    \/ \E n \in Names : Call(p, n)
    \/ \E i \in Ids : Fetch(p, i)
    \/ Create(p) \/ Export(p) \/ Exported(p) \/ Untar(p) \/ Untarred(p)
    \/ Read(p) \/ Truncate(p) \/ Write(p) \/ WriteBreaks(p) \/ Fails(p)

Next == Crash \/ \E p \in Pullers : PullImage(p)

Spec == Init /\ [][Next]_vars

-----------------------------------------------------------------------------
\* The image has been unpacked, if not two pulls at one time or an error that
\* Untar drops have spoiled it.
Complete(i) == i \in spoiled \/ rootfs[i] = Unpacked

\* What the manifest lists has all the directories, files and symbolic links of
\* its archive: a name is entered only after the archive has been gone through,
\* whatever fails or dies on the way and whatever other images are pulled
\* meanwhile, and pulling an image again takes nothing away from its tree.  Hard
\* links, which Untar does not make (manager.go 158), images pulled twice at one
\* time and errors passed over (146, 160, 166, 169) are excepted.
ListedIsComplete ==
    \A n \in DOMAIN file.list : Complete(file.list[n])

\* A manifest that cannot be parsed when no pull is about to replace it stays as
\* it is, for good: every pull from then on stops at it and none gets to the
\* point of writing, so that the entries of other images in it are not silently
\* lost to the next pull.
UnreadableKept ==
    [][AtRest /\ file.state \in {"empty", "garbled"} => AtRest' /\ file' = file]_vars

\* Every image whose pull has reported success is listed, and is found by run
\* if it was pulled with its tag from a registry named without a port (Parse makes
\* nothing of two colons, pkg/common.go 23), as long as the file is sound: pulling
\* one image does not drop another, unless both updated the manifest at one time.
PulledIsListed ==
    ~overlapped /\ AtRest /\ file.state = "json" =>
        /\ {Shown(n) : n \in pulled} \subseteq Listed
        /\ \A n \in pulled : Len(n) = 2 => Found(n)

\* The parts of the inductive invariant behind ListedIsComplete.  An image that
\* is not spoiled has one puller at most between Create and the end of Untar;
\* what that one has exported is in the archive, what it has unpacked is in the
\* tree, and no manifest about to be written lists an incomplete image.
Unpacking(p) == pc[p] \in {"export", "untar"}
OneUnpacks ==
    \A p, q \in Pullers :
        p # q /\ id[p] = id[q] /\ Unpacking(p) /\ Unpacking(q) => id[p] \in spoiled
Sound(p) ==
    /\ At(p, "export") => id[p] \in spoiled \/ 1 .. pos[p] \subseteq tar[id[p]]
    /\ At(p, "untar") =>
         \/ id[p] \in spoiled
         \/ tar[id[p]] = Archive /\ (1 .. pos[p]) \ Skipped \subseteq rootfs[id[p]]
    /\ pc[p] \in {"read", "truncate", "write"} => Complete(id[p])
    /\ pc[p] \in {"truncate", "write"} => \A n \in DOMAIN list[p] : Complete(list[p][n])
PullersSound == \A p \in Pullers : Sound(p)
=============================================================================
