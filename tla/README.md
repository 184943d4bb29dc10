# Gocker in TLA+

Gocker is a small container runtime: a command line tool (`gocker`), a daemon
(`gocker-daemon`) behind a unix socket, and a set of eBPF collectors.  This
directory specifies what is concurrent or can fail half-way in TLA+, model-checks
it with TLC, and proves its safety properties with TLAPS.

    tlc -workers 2 -config IPAM.cfg MCIPAM      # one run
    tlapm IPAMProofs.tla                         # one set of proofs

`PROJECT.json` lists the runs, the source lines behind every definition, the
wrong variant that each property catches, the hazards and the theorems.

## 1. Inventory

### The parts and their state

| part | source | state | operations |
|---|---|---|---|
| address management | `internal/network/ipam.go` | `allocations.json`, its `.tmp`, one `ipamMu` per OS process | allocate, release, get |
| container lifecycle | `internal/runtime.go`, `internal/container/manager.go`, `internal/remove.go`, `pkg/common.go` | a directory and `config.json` (status, PID, limits, address) per container; the kernel's PIDs | run, run through the daemon, start, stop, adjust, rm, ps |
| resource limits | `internal/container/cgroup.go` | one cgroup per container: limits and members | setup, adjust, cleanup, removal |
| container process | `internal/container/init.go`, `rootfs.go`, `internal/network/container.go` | blocked on its pipe, setting up, running the command, zombie | read the pipe, set up the root file system and the network, exec |
| terminal sessions | `internal/daemon/handlers.go`, `cmd/exec.go`, `cmd/start.go`, `internal/tty/io.go` | handler, waiter and copy goroutines; the socket; the pseudo terminal | exec and attached start, each with and without a terminal |
| image store | `internal/image/manager.go`, `cmd/pull.go`, `cmd/images.go` | `manifest.json`, an archive and a tree per image | pull, list, look up |
| daemon and protocol | `internal/daemon/daemon.go`, `internal/api/client.go` | the listening socket, one goroutine per connection | accept, dispatch |
| virtual network | `internal/network/bridge.go`, `veth.go`, `dns.go` | kernel objects: bridge, veth pairs, iptables rules | set up |
| metrics collector | `gocker-obsv/cmd/collector/main.go` | list of allowed cgroups, last value of every key, exported counters, `cfg0` | refresh the list, scan the maps each second, answer `/admin/config` |
| its BPF programs | `gocker-obsv/bpf/*.bpf.c` | per module `cfg_map`, per-CPU counts per cgroup, sampling counters; `pid_cgid`, `sys_enter_start` | filter, sample, count; remember and forget tasks and system calls |
| scheduler monitor | `eBPF/main.c`, `eBPF/sched_monitor.bpf.c` | `allowed_cgroups`, `cg_stats`, a ring buffer | walk the cgroups, attach, count and record events, poll |
| latency exporter | `eBPF/network/` | `latency_map`, a ring buffer | probes of `ip_rcv` and `ip_rcv_finish`, reader |
| page-fault exporter | `eBPF/pf-mvp/` | a ring buffer | the collector's predecessor |

### How they interact

* `run`, `stop`, `adjust` and `rm` execute in a CLI process of their own;
  `start`, `exec`, `pull` (and a `run` sent over the socket) in a goroutine of
  the daemon.  They meet in files and in kernel objects and hold no common lock.
* A parent spawns `/proc/self/exe init`, which blocks on a pipe until the parent
  sends the request with the container's address.  The parent waits for it,
  records "stopped", removes the cgroup and, in a deferred call, gives the
  address back.
* `stop` does not talk to the waiting parent: it signals the PID that it reads in
  `config.json`, writes "stopped" and releases the address itself.
* In a session, data flow through the command's terminal or pipes, the daemon's
  copy loops, the socket and the CLI's copy loops; every one of these can be full.

* The eBPF tools meet the rest only in the cgroups that gocker creates, fills and
  removes.  Their programs run on all CPUs at once, in the middle of whatever the
  kernel is doing, and share maps with a user-space process that reads or
  configures them meanwhile.

### What is hard about it

* *No lock across processes*: every read-modify-write of a shared file is a race
  between the CLI processes and the daemon.
* *Failure in the middle*: each operation is a dozen calls, each of which may
  fail, with clean-up in `defer`s and error branches that differ from operation
  to operation.
* *Death in the middle*: CLI processes are interrupted, the daemon is killed, the
  machine loses power, files are truncated before they are written.
* *PID reuse and zombies*: who may use a PID, and until when.
* *Waiting in circles*: copy loops, `cmd.Wait`, done channels and both ends of a
  socket.
* *Keys that outlive what they name*: task numbers, packet hashes and map elements
  are used again while a map still holds what an earlier owner left.
* *Readers and writers without a lock*: a configuration is replaced under a program
  that looks at it twice, a sum is taken while it grows, a tree is walked while it
  changes.

The list of hazards in `PROJECT.json` gives each of these at the line where it
bites, with the properties that cover it.

### What makes each part correct

* Addresses: no two containers share one; an address handed out is on record;
  the file is always readable, after a power loss too; the mutex is given back.
* Lifecycle: a worker acts only on its own child; no address is lost on an error
  path; "running" does not outlive the container; a command of `run` is confined
  to its cgroup; the limits on record are those in force; no container process blocks
  for ever.
* Sessions: output is not lost, sessions end, no goroutine is left behind.
* Images: what is listed is complete and what was pulled is listed.
* Collector: a counter shows what was counted, once; only admitted cgroups are
  counted (they are not: section 3) and only watched ones shown; a container that stays
  is exported.
* Tracers: an event goes to the cgroup of its own task, a call is measured from its
  own start.
* Scheduler monitor: the allow list misses no lasting cgroup; the statistics agree
  with the records.
* Latency exporter: a measurement is the packet's own, none is lost without a reason,
  and the map does not fill up with what is over.

## 2. Modules

| module | what it is |
|---|---|
| `IPAM` | the allocator, step by step, in any number of processes |
| `IPPool` | the abstract pool of addresses that it implements |
| `Lifecycle` | all operations on containers, with cgroups, PIDs and addresses |
| `Sessions` | one terminal session, all its threads |
| `Images` | the image store under concurrent pulls |
| `Collector` | counting programs, scan loop and configuration handlers of the collector |
| `Feed` | the abstract counter that it implements |
| `TaskTracers` | the programs that follow tasks: `sched`, `cpu`, `sys` |
| `SchedMonitor` | the scheduler monitor: walk, programs, ring buffer |
| `Latency` | the latency exporter: probes, map, ring buffer |
| `MCIPAM`, `MCLifecycle`, `MCImages`, `MCCollector`, `MCTaskTracers`, `MCSchedMonitor`, `MCLatency` | instances for TLC |
| `IPAMProofs`, `LifecycleProofs`, `SessionsProofs`, `ImagesProofs`, `CollectorProofs`, `TaskTracersProofs`, `SchedMonitorProofs`, `LatencyProofs` | theorems and proofs |

Operators whose comment begins with "Wrong variant" are plausible mistakes in the
operator that follows them.  No specification uses them: each one is there to
show that some property notices it when it is put in the operator's place.

### IPAM and IPPool

A caller is a goroutine, or a CLI process, in one of the three operations.  Its
program counter runs `lock`, `load`, `open`, `write`, `sync`, `rename`, `return`,
which are the calls of `ipam.go`; each may fail, and `SaveFails` leaves behind what
the failing call leaves behind.  The two files are contents together with "is on
disk" flags.  `durable` is what a power loss would leave of `allocations.json`:
`Commit` writes the directory entry back at any time, and data nobody has synced
may then be missing.  A descriptor is the name that its inode has by now, because
the `.tmp` name is shared by all processes and a rename by one of them moves the
file the other one is writing.  `granted` is a history variable: what each
container has been told.

Addresses are host numbers: 0, the gateway 1 and the broadcast address `LastHost`
are reserved, `LastHost + 1` stands for a request that does not parse or lies
outside the subnet.

`IPPool` records, grants, revokes, removes, commits and loses power atomically.
The refinement maps the pool to what a caller that loads the file would see.

### Lifecycle

A worker is whoever executes an operation.  `After` gives the order of the calls
of each operation: `start`, for instance, sets up the network, allocates, sends,
writes "running" and only then sets up the cgroup, while `run` allocates first and
sets up the cgroup before it sends.  The actions are those calls: `Allocate` and `Grant`,
`OpenConfig` and `EncodeConfig` (`WriteContainerInfo` truncates and then writes),
`Spawn`, `SetupCgroup`, `SetupVeth`, `Send`, `Wait`, `CleanupCgroup`, `Release` and
`GiveBack`, `Kill`, `ApplyLimits`, `RemoveCgroup`, `RemoveDir`, `Return`, and their
failures.  `Bailout` is where an error return goes: through the deferred release if the
worker has an address.

The address book is read (`Load`) and written back (`Save`) in two steps.  `Admitted` is
`ipamMu`: goroutines of the daemon come one after the other, CLI processes whenever they
like, and then one writes back what the other has changed.  A release that fails
(`ReleaseFails`) is a warning in the code; the worker forgets the address, the book does
not.  `WriteConfigFails` is an `os.Create` that fails and leaves the old text, or an
`Encode` that leaves half of the new one.  After an attached `start` the worker may stay
in `cmd.Wait` with its child reaped (`copiers`) until its client sends or hangs up
(`CopiersEnd`, which nobody owes); the run `AttachHang` shows why.

A PID is free, a process in one of the phases of `init.go`, or a zombie until its
parent waits; without a parent it is reaped at once.  `Kill` takes the PID out of
the file and hits whoever has it now, and SIGTERM may be ignored, as it is by the
init process of a PID namespace that has installed no handler.

Six sets are history, and the properties name them as their exceptions:

* `crashed`: the containers an operation on which died half-way;
* `stale`: those whose status a failed `start`, a last write that could not open the file
  or an `adjust` may have left behind;
* `early`: those whose address an operation gave back while another worker still held it
  (until the last holder gives it back too);
* `unsettled`: those whose limits two operations were setting at one time (`Setting`), or
  one could not set or record in full;
* `kept`: those whose release failed;
* `raced`: those that were in the book, or on their way there, while two processes were
  rewriting it.

Abstractions: how the book's file is written, and which of the free addresses is picked,
is IPAM's subject, so a requested address is one of the free ones; the three limits of a container are one value, zero
(`NoLimits`) or not, which `Applied` sets unless it is zero; an operation
that its first check refuses is not a step; container IDs are fresh.  A worker is
one `run`, so `stop --all` and `rm --all` are sequences of calls.

### Sessions

Chunks of data move through buffers of `Buf` chunks.  The threads are the daemon's
handler, the goroutine that `handleExec` leaves behind, the two copy loops of the
daemon (its own with a terminal, those of `os/exec` without), the command, and in
the CLI the main thread and its two loops.  `cmd.Wait` is two steps, because it
first reaps the command and then waits for the copy loops of `os/exec`.  The
command and the user do as they like; the CLI may be killed at any point.

`CopyInputUntilClosed` is `CheckDone`, a look at the done channel, and `PollStdin`, which
ends, reads, or goes round with nothing: after 200 ms, on a signal, or at once at the end
of a regular file.  `Polls` is such a round.

`Stuck` lists, thread by thread, what each one waits for when it waits: the negation of
the guards of its actions, put together by hand so that proofs can use it; `NeverStuck`
is stated, and proved, with it.  `Work` measures what the threads still have to do.

### Images

Pullers are the pulls the daemon works on at one time.  An archive and a tree are
the sets of the pieces they hold.  `Create` truncates the archive, `Export` and
`Untar` move piece by piece, a piece that is missing is the end of the archive for
the tar reader, one that is a hard link or a device (`Skipped`) is passed over, and an
error of `MkdirAll`, `Symlink` or the copy only leaves a piece out.  `Read`, `Truncate`
and `Write` are `updateManifest`.  The registry decides which image a name means, each
time anew.  A name is the sequence of its parts between colons: `Parse` is what `run`
makes of it (nothing, of three parts), `Shown` what the images command prints.

`spoiled` and `overlapped` are history: images two pulls unpacked at one time or
where an error was dropped, and that two pulls updated the manifest at one time.

### Collector and Feed

`Filter` and `Count` are the two halves of a program: the event passes
`in_target_subtree_current`, then `pass_sample`, and is added to its map.  Each half
loads the configuration for itself, so a handler may write in between, and what it
loads while a handler writes may be of either configuration, word by word (`Mixed`).
The two moduli differ as the code does: `mem` leaves its sampling counter alone when
the rate is 1, the others always count it up.  The key `System` is `kswapd_cnt`, which
neither filter nor list applies to.

The loop is `Refresh` (`refreshAllowed`, with what `collectAllowed` may have failed to
read), then for each map `Open`, and for each key `Begin` and `Sum`: the CPUs' values
are read one after the other, so the total lies between the counts before and after.
`Export` is the rule of differences, and the branch that forgets a key that is not on
the list.

A handler is `Decode`, `Default` (the zero values), `Assign` (`cfg0 = in`), `Copy` and
one `WriteCfg` per module; handlers and the loop share `cfg0` without a lock.  A user may
post anything, a target without its level included.

`Updated` is what `Map.Update` does to a module's entry.  The library marshals the four
fields of the Go struct one after the other, 20 bytes, and refuses what has not the
length of the map's value, 24 bytes with the padding of the C struct; `writeCfgAll` drops
that error.  So every entry keeps the zeros the kernel made it with, filter off and rate
1 (`load_cfg` reads 0 as 1), at the start and after every request.  `Marshalled` and
`ValueSize` are sums of field sizes: a module whose two structs agree is the same model
with other sums.  The branch of `Count` that samples and of `Admits` that compares
ancestors describe the programs, and are idle as long as no configuration reaches them.

`Feed` is what all this promises of one counter: count, publish the difference since
the last look, or forget how far one has read.  `forgotten` and `admitted` are history.
Containers are created and removed by gocker; a cgroup
directory never comes back with the same inode.

### TaskTracers

A number is free, or names a task that is alive or exiting, in a cgroup and perhaps in
a system call.  `on` says which is current on each CPU.  `Switch` is both
`sched_switch` programs, which run in the context of the task that is switched out,
after its exit too; `StatRuntime` may be about a task that runs on another CPU;
`SysEnter` filters and `SysExit` does not; `TakeNumber` is the execve of a thread that
does not lead its process.  `Evict` is the LRU maps'.  The target does not change here
and every event counts: filter changes and sampling are in `Collector`.

`home` is history: the cgroups of a number's task and of the one before it; `foreign`
and `strays` collect what was charged or measured wrong; `borrowed`, `taken` and
`old` name the reasons.

### SchedMonitor

`Enter`, `Pick` and `Leave` are the recursion of `walk_cgroup_tree`, while `Create` and
`Remove` change the tree: readdir returns what was there from opendir on and is still
there, and perhaps newer entries.  A program looks up, inserts, adds, reserves and
submits step by step; the one for runtimes adds before it reserves, the others after.
`log` holds all records reserved, `head` is where the reader stands.  `crowded` is
history: cgroups that met a full `cg_stats`.  An event of a cgroup keeps it from being
removed, since its current task is in it.

### Latency

`Store`/`NoRoom` is the probe on `ip_rcv`; `Lookup` (or `Miss`), `Out`, `Delta`,
`Report` and `Delete` are the one on `ip_rcv_finish`, in the steps between which
another CPU's probe may run.  Packets of one flow have one hash.  A deleted or replaced
element may be used for another hash at once, as in a preallocated BPF hash map, while
a probe still writes through its pointer.  Times are in ticks, `Unit` of them to a unit
of `delta`.  `born`, `shared`, `collided`, `full` and `stale` are history.

## 3. Runs

Passing runs:

| run | instance | what it shows |
|---|---|---|
| `IPAM` | two callers in one process, three containers, two usable addresses; requests for a usable address and for one outside the subnet; unbounded calls, crashes and power losses | `UniqueGrants`, `GrantsRecorded`, `FileReadable`, `GrantsUsable`, `LockHeldInside`, and the allocator implements `IPPool` |
| `Lifecycle` | a CLI worker and a daemon goroutine, two containers, two PIDs, one address and two limits, one of them zero; three calls of run, start, stop, adjust and rm, one crash | `ChildIsMine`, `AddressHasHolder`, `RunningHasWaiter`, `RunConfined`, `AddressExclusive`: what a failure or a crash spoils is confined to its container; `LimitsInForce`: the limits recorded for a running container are those its cgroup has |
| `LifecycleLive` | one CLI worker and one goroutine, one container, all six operations, three calls, one crash | `PipeHasWriter`, `ChildLeavesPipe`, `AddressReturned` |
| `Sessions` | the four kinds of session, standard input a terminal or pipe, or a file; buffers of one chunk, two chunks of output and one of input | `OutputDelivered`, `NeverStuck`, `SessionEnds`, `CopiersEnd`, `WorkRunsOut` |
| `Images` | two pullers; three names, with a tag, without one and with a port; two images, two pieces of which one is skipped, three pulls, one crash | `ListedIsComplete`, `PulledIsListed`, `UnreadableKept` |
| `Collector` | gocker, a container and a cgroup outside; modules `pf` and `mem`, one CPU, maps of one key; two events, one failed refresh, two posts by one handler: the one of the collector's README, which sets the rate only, and one that makes the container the target without its level | `NeverAhead`, `OnlyWatched`, `ScanCatchesUp`, `CaughtUp`, and the collector implements `Feed` |
| `TaskTracers` | two CPUs, two numbers, a container and a cgroup outside; three forks, two calls of read, execve or exit, one move or eviction | `ChargedToOwn`, `OwnLatency` |
| `SchedMonitor` | gocker, two containers, a cgroup inside one; two CPUs, one counted kind of event and runtimes; an allow list of three, statistics of one and a ring buffer of one entry; three events, two changes of the tree | `ConstantAllowed`, `Accounted` |
| `Latency` | three packets, hashes and elements, a map of two entries, a ring buffer of one record, five timestamps, two ticks to a unit | `OwnMeasurement`, `LostOnlyWhenFull`, `NoLeak` |

Runs that end in a counterexample.  Each property states what a comment or a help
text of the repository says, quoted under "findings" in `PROJECT.json`:

| run | property | the behaviour TLC shows |
|---|---|---|
| `IPAMRace` | `UniqueGrants` | two processes load the same allocations and pick the same address |
| `AttachHang` | `ExitIsRecorded` | after an attached `start` without a terminal, `cmd.Wait` waits for the CLI, and the CLI for the daemon |
| `CollectorFilter` | `OnlyAdmitted` | the initial configuration does not reach the maps, and an event of the cgroup outside gocker is counted |

### Why the bounds are enough

* Two usable addresses and three containers exhaust the subnet; two addresses are
  the least with which the requested and the lowest one differ.  One process with
  two callers is the whole argument about `ipamMu`; the theorems lift the bounds.
* In `Lifecycle` the races are between operations on one container, or on two that meet
  at the one address; two containers are the least that can, and with one address they
  do each time it is free.  The CLI worker and the goroutine are the two that no lock
  keeps apart, and between them they call every operation but `createAndRun`, which takes
  no address and is in `LifecycleLive`; three calls let a third one meet what two have
  left.  Two PIDs let two processes live and one PID be reused while the other is held.
  Two limits are the least of which one can be recorded while the other is in force, and
  one is the zero that is recorded without being set; the first `run` chooses one, an
  `adjust` another.  The theorems hold for any numbers.
* A buffer of one chunk is full after one write, so every loop meets a full and an
  empty buffer; two chunks of output let one be in flight while another waits.
* Two pieces are enough for an archive to be half there, three pulls for one pull to
  meet the leavings of another while a third runs.  One of the two pieces is skipped, the
  other is taken.

* `Collector`: a map of one key is full after one cgroup, two events on one key are the
  least that can be split by a scan or counted after a key was forgotten, and two posts
  are the least with which one configuration replaces another.  More CPUs
  or handlers only add to what `Mixed` and the range of a sum allow already; the
  theorems cover them.
* `TaskTracers`: three forks over two numbers use one number a second time while the
  other one is still in use, and a second time at that: the oldest entry that could be
  met is two tasks old.  Two CPUs let one program speak of the task of the other.
* `SchedMonitor`: three levels of cgroups with two siblings make the walk return to a
  directory it has left, two CPUs are enough to meet at one missing entry of the
  statistics, and sizes of one make full what can be full.
* `Latency`: with three packets two can share a hash while the third one gets the
  element of the first.  A map of two with three packets is full; five timestamps let
  two packets finish and a third one be received.

Deadlock is not checked where the system may stop: bounds on calls, sessions that
end, and pulls that are used up.  The IPAM runs check it.

Symmetry is used in safety runs only: over containers (and PIDs and CLI processes), which
occur in no order, over pullers, over CPUs and task numbers, and over packets, hashes and
elements.  The run `Lifecycle` also has a `VIEW`: `MCView` leaves out what nobody reads
before it is set again; 1.9 million states remain.

### Fairness

* Lifecycle: weak fairness of each worker's steps and of a container process up to
  its `exec`.  `Wait` is enabled once the child has ended and stays so.  The user's
  command owes nothing, the client of an attached `start` does not owe the byte or the
  hang-up that ends its copiers, and nobody owes a call or a crash.
* Sessions: weak fairness of each thread of the daemon and the CLI; none of the
  command, of the user, or of the death of the CLI.
* Collector: weak fairness of the loop, which a ticker drives until the collector ends,
  and of a program that has begun, which the kernel runs to its end.  Nobody owes an
  event, a container or a post.

IPAM, Images, TaskTracers, SchedMonitor and Latency state safety only.

## 4. Proofs

Everything here holds for all values of the constants under the named assumptions
(`IPAMAssumption`, `LifecycleAssumption`, `SessionsAssumption`, `ImagesAssumption`,
`CollectorAssumption`, `TaskTracersAssumption`, `SchedMonitorAssumption`,
`LatencyAssumption`): sets may be empty or infinite and bounds arbitrary unless said
otherwise.  The assumptions keep the "no such" values apart from the real ones; require
a usable name and image, a subnet with more than one host number, at least one module;
and say what the code relies on: every cgroup of the monitor's tree is below its root,
CPUs and map elements are finitely many, and the clock stays below 2^64.

All safety properties that a passing run checks are theorems.  Of the liveness properties
the safety halves are theorems too: that a child at its pipe always has somebody who will
serve it, that threads never wait in a circle and that only the polling of standard input
goes round for ever, and that a scan leaves nothing behind.
What is left to TLC is that fair threads then get there.  The types (`TypeOK` or `TypeInv`
of each module) are theorems, and so part of no run.

**IPAMProofs.**  `TypeCorrect` and `GrantsAlwaysUsable` hold for any assignment of
callers to processes: `UsableInv` says that every book there is, on file, in the
temporary file, on disk or in a caller's memory, gives usable addresses only, so it does
not matter whose book replaces whose.  The others assume `SingleProcess`: the run
`IPAMRace` shows that they are false without it.  `AddressBookSafe` proves
`UniqueGrants`, `GrantsRecorded` and `FileReadable` at once, `GrantsStayRecorded` and
`FileStaysReadable` state the latter two by themselves.  The invariant behind them says
that a caller holds the mutex exactly between `Lock` and `Return` (`MutexInv`), that the
books on file and on disk give no address twice (`BookInv`), that the state a caller is
about to save is the book on file but for its own entry (`SavingInv`), that the
temporary file belongs to the one caller that has it open and is on disk before it is
renamed (`FdInv`, `TmpInv`), and that what a caller is about to return is on record
(`ReturnInv`).  `UniqueGrants` is not inductive: it follows because what is granted is
on record and the record is sound.  `BestAddressChosen` (what `Picked` picks is what goes
on file, whatever happens in between) and `AllocatorImplementsPool` follow from the same
invariant, the second action by action: each step is a step of the
pool or leaves its view unchanged.  `LockReleased` does not assume one process and is
inductive with the types: it is what any caller may rely on however many processes there
are.

**LifecycleProofs.**  One invariant for the first four theorems.  `WorkerOK` ties where
a worker stands to what it holds (the steps of its operation, a child from `Spawn` to
`Wait`, an address only in `run` and `start` and never at the exit, a book in memory
between `Load` and `Save`); `ProcessInv` and `ChildIsMine` keep PIDs and workers together.
`BookInv` says what a worker may trust of the book it has read: two that are rewriting it
have raced (`Overlapped`), what was read of a container that has not raced is still what
the book says (`Current`), and a grant is for a container that had no entry
(`GrantsNew`).  So the book that a worker writes back changes its own entry and those of
raced containers only.  `RunningHasAuthor` strengthens `RunningHasWaiter`: the worker that will write
"stopped" has not begun to, because one that has already truncated the file no longer
accounts for a "running" that another one might write.  `RunIsConfined` adds two parts:
a live process that has a worker as its parent is the child that worker deals with
(`ParentInv`), and the child of `run` is in its cgroup from `SetupCgroup` on
(`ConfinedInv`), which no removal takes from under it, since a cgroup with live members
cannot be removed.

`PipeIsServed` needs `PipeInv`: a worker that has a child to look after and has not sent
yet has one that is at its pipe or dead, and one that has sent has one that is past it.
Whether it has sent is read off the order of the calls, and lemmas about `After` show
that only `Send` leads past that point.  `AddressesExclusive` is the longest argument,
since address, book, worker and process change at different times.  `LoanInv` links them
one by one: no address is in the book twice (`OneOwner`; raced containers excepted), a worker holds what the book
says unless it was given back early or raced for (`Loaned`), a live process has the address its parent
holds (`Held`), a live process without a parent was left by a crash (`OrphansCrashed`),
and none has an address before it was sent one (`InitBlank`).  Two processes with one
address then have parents that hold it, hence containers that own it in the book, hence
one container.  That `Spawn` takes a free PID and that a worker releases only after
`Wait` or `Kill` is where `WorkerOK` comes in again.

`LimitsStayInForce` relates a file and a cgroup that no step changes together.
`SettledInv` says what holds in between: of each settled container at most one worker is
setting the limits, and `SettledBy` what it has done so far, step by step: `run` and
`createAndRun` have not recorded "running" before, and from `SetupCgroup` on the cgroup
has their limits; `start` does it the other way round, so that before its `SetupCgroup`
a file that says "running" is its own; `adjust` has the old limits agree until it has
set the new ones, and then those in its memory.  When nobody is setting limits they
agree.  `BornInv` is needed where `run` begins: a fresh ID has no file and no worker.
The lemmas then say that a step touches only its own container (`StepLocal`), that a
step of a worker that sets nothing can at most stop the container or remove its cgroup
(`IdleSettles`), and that no operation comes back to setting limits (`AfterSetting`).

**SessionsProofs.**  `ControlInv` says what kind of session the handler is in from where
it stands, `CountInv` that no more is on its way than was produced, `CliInv` that the
CLI leaves its end of the socket open until the daemon has closed the other.
`DeliverInv` is the argument of `NoOutputLost`: what was produced is in the terminal or
pipe, in the copy loop's hand, in the socket or shown, and the loop stops only behind
the last chunk; it is false of `startTty`, which closes the terminal first (section 5).

`NoCircularWait` says where everybody may be waiting at once.  The facts it needs beyond
the types and `ControlInv` are in `WaitInv`: whose end of the socket is open, that a
handler that waits for a command has one, and that copy loops were started.  The proof
of the invariant is then a search for somebody who can go on, kind of session by kind of
session.  The lemma `StuckRests` says that `Stuck` means what it should: no thread can take a
step then, but the loop that polls in vain.  `OnlyPollingRepeats` proves that `Work` is a
natural number and that every step of a thread but those rounds makes it smaller, so that
together with `NeverStuck` a session left alone by its command and its user must come to
rest, polling apart, in a permitted place.

**ImagesProofs.**  `ListedImagesComplete` needs to know that an unspoiled image is
unpacked by one puller at most (`OneUnpacks`) and that every puller is `Sound`: what it
has exported is in the archive, what it has unpacked but for the skipped pieces is in the
tree, and the manifest it is about to write lists only complete images.  `OthersStaySound` reduces a step of one
puller to that puller and the manifest.  `PulledInv`, for `PulledImagesListed`: as long
as no two updated the manifest at one time, at most one puller is between `Read` and
`Write`, and both its list and the file contain all that was pulled.  `UnreadableStays`
is an action property and needs the types only.

**CollectorProofs.**  `ReadInv`: what the loop has last read of a key, the count it has
read before a sum, and the count itself are in this order, and a counter that was never
forgotten shows exactly what was last read.  It gives `ExporterNeverAhead`, and
`CollectorImplementsFeed` action by action.  `WatchInv`, for `ShowsOnlyWatched`: every
target there is, in `cfg0` or with a handler, is the initial one or one that was posted,
so that the list names watched cgroups only, and so do the counters that show anything.
It is indifferent to which configurations reach the programs.
`ScansCatchUp` is an action property and needs that a
counter shows at least what was last read of its key, forgotten or not (`KeptInv`): the
difference that `Export` adds then lifts it to what was counted before the scan.

**TaskTracersProofs.**  `RunInv` and `TaskInv` are about the kernel: a current task is
not free and current on one CPU.  `CacheInv`: a cached cgroup is one of the number's own
task, or of its predecessor if the task is alive: an exit clears the entry, and the last
switch of a task stores its own again, so no entry is two tasks old.  `StartInv`: an
entry of `sys_enter_start` belongs to the call its task is in, since every call but exit
returns; `OldInv` says that what an earlier call left is of exit or execve.

**SchedMonitorProofs.**  For `WalkComplete`, `TrailInv` gives the set of open directories
of the walk: from the current one to the root, each with its lasting entries read, open
or among those that were there at opendir; `WalkedInv` says that of a directory read to
its end all lasting subdirectories were read too, `DoneInv` that at the end the root was,
and that every cgroup is below the root does the rest.  For `StatisticsAccounted`,
`HoldInv` gives every record that is not submitted to one program, and `CountInv` counts:
records but for those whose program has yet to add, and for runtimes the records plus the
programs that have added and not yet reserved.  The counting is done with the
cardinality theorems of the library.

**LatencyProofs.**  `HashesDoNotLeak` is inductive with the types.  For `ReportsAreOwn` and
`LossesExplained`, `ElemInv` says that no element is used for two hashes, `OwnInv` that a
packet which shares its hash with none finds its own time under it, and `TimesInv` that as
long as no hash was shared the other two times are the packet's own as well.

### What stays with TLC

Liveness under fairness, and everything that speaks of `ENABLED`, is beyond the prover, so
`ChildLeavesPipe`, `AddressReturned`, `SessionEnds`, `CopiersEnd` and `CaughtUp` stay with
TLC.  So would inductions over data and RECURSIVE operators, of which these modules use
none.  Nothing else that a
run checks is unproved.

## 5. Observations without a run

The models show these behaviours too; the properties name them as exceptions or are
silent about them.

* A release of an address that fails is only warned about (`runtime.go` 68, `manager.go`
  215 and 428), so the address stays on file without a holder (`kept`).
* Two processes that rewrite the address book at one time may undo each other's grants
  and releases, or be given one address (`raced`; run `IPAMRace`).
* If the last write of `run` or `start` cannot open `config.json` the container stays
  "running" (`stale`).
* `start` writes "running" before `SetupCgroup` (`manager.go` 467, 472).  If that fails
  nobody corrects the status, and the container can be neither started nor removed.
* `adjust` writes back the whole record it read (`cgroup.go` 140), so a container that
  ends meanwhile is "running" again.
* The parent writes back the limits it has had in memory since it began (`runtime.go`
  160, `manager.go` 496); what `adjust` recorded meanwhile is lost.  `LimitsInForce` says
  that the record is right again with the next "running", because `start` sets what it
  read.
* A limit that is zero is recorded and not set (`setResourceLimits`), so the limit that
  was in force stays.  Two operations that set the limits of one container at one time
  may leave one's limits in force and the other's on record; an `adjust` that fails half
  way or cannot open `config.json`, or a `start` that fails in `SetupCgroup`, leaves limits in force or on record that
  nobody corrects.  These containers are `unsettled`.
* `stop` signals the PID that it read (`manager.go` 198), which may belong to another
  container by then.
* `CreateAndRun` allocates no address (`manager.go` 138); its container refuses the empty
  one and ends.
* `CopyInputUntilClosed` spins at the end of a regular file (`tty/io.go` 43): `PollStdin`
  goes round, and `WorkRunsOut` excepts it.
* A second pull of an image truncates the archive the first one is unpacking
  (`image/manager.go` 65); errors while entries are unpacked are dropped (160, 166, 169).
* Hard links are left out of every tree without a word (158): the applets of busybox, say.
* A name with a port (`localhost:5000/img:tag`) is pulled and listed, but `Parse` makes
  nothing of its three parts (`pkg/common.go` 23), so `run` never finds it; `images` shows
  its first two parts.
* A name pulled without a tag is recorded without one and is not found by `run`, which
  looks for `latest` (`rootfs.go` 201), though `images` lists it as `latest`.
* With a terminal `start` closes it before the output loop is done (`manager.go` 485).
* `rm` checks the status once (`remove.go` 92-93, "safety check: deleting a running
  container is not allowed"); a container that is started after the check loses its
  directory while it runs.
* `stop` releases the address after SIGTERM (`manager.go` 215), which the init process
  of a PID namespace ignores unless it installed a handler; the next container then gets
  the address too, though `ipam.go` 23 speaks of addresses "already taken".  Two starts
  of one container that pass the status check together (327) do the same: the first that
  ends gives back the address of both.  These containers are `early`, and
  `AddressExclusive` holds of all others.
* `exec` without a terminal returns at once and the deferred `Close` (`handlers.go` 21)
  cuts the connection of the running command, though the comments at 39 and 174 mean to
  prevent it.  `SessionEnds` says that the command ends all the same.
* Of two concurrent pulls the later write of the manifest drops the entry of the earlier
  one (`image/manager.go` 98), though `images` "lists all images that have been pulled"
  (`cmd/images.go` 21).

The collector and its programs:

* The exit handlers delete a task's entry of `pid_cgid` "so that no invalid data stay"
  (`cpu.bpf.c` 132, `sched.bpf.c` 90), but the task's last `sched_switch` comes after
  them and stores it again.  Whoever gets the number next is charged to that cgroup until
  it has been switched out once.
* `sched_stat_runtime` is also emitted for a task that runs on another CPU
  (`cpu.bpf.c` 147); its time then goes to the cgroup of whichever task is current.
* A request that leaves `enable_filter` out asks to turn the filter off, since the handler
  keeps its zero (`main.go` 600-611), while it keeps the other fields; the collector's
  README (lines 31-34, 109) posts such a request to change the sample rate.  A target may
  be posted without its level.
* Requests are not ordered, so which of two `cfg0` keeps is left to chance.  A scan that
  meets an unreadable directory forgets all other cgroups
  and later adds their whole counts again (`main.go` 671).

The scheduler monitor:

* `max_runtime_ns` is printed as the longest single run (`main.c` 99) and nothing writes it.
* A switch is counted for the "current (next)" task (`sched_monitor.bpf.c` 123), but in
  `sched_switch` the current task is the previous one.
* Runtimes below the threshold are not added up (178), though the comment at 160-168 says
  that the map accumulates all of a cgroup's time.
* A cgroup that is removed during the walk ends the monitor, one that is created after it
  is never allowed.  `err` is still 0 when the poll or making the ring buffer fails, so the
  exit status is that of success (`main.c` 268-303).

The latency exporter:

* Packets of one flow share a hash, so under load most measurements are of another packet,
  and one that finds its element deleted may write into the element of a third packet.
* The probe prints "ms" (`latency.c` 115) for nanoseconds divided by 1000.

The page-fault exporter's Go struct lacks the padding of the C struct it decodes
(`pf.bpf.c` 19-26), so the cgroup is read from the wrong place.

## 6. Not modelled

* The collector's memory.stat and pressure files (`main.go` 711-884): the same rule of
  differences as `Export`, over files instead of maps.
* The page-fault exporter: its filter and sampling are those of `Collector`, its ring
  buffer and its reader those of `SchedMonitor`.
* In `Latency`, a hash that the stack computes anew between the two probes: a packet then
  counts as two, one dropped and one missed.  Reserving, copying and submitting a report
  are one step.
* In `TaskTracers` and `SchedMonitor`, sampling and time stamps of records.  A program
  that would interrupt another one on its CPU is an event less: the kernel does not run
  one tracing program inside another.
* The JSON framing of requests and answers, flags, Gockerfiles, tables and logging:
  conversions without state.
* Mounts, `pivot_root`, DNS, the bridge, iptables: kernel configuration whose only
  effect on the modelled state is that it succeeds or fails.
* Names and ID prefixes in `findContainerInfo`, and the arithmetic of `nextIP` and
  `broadcastIP` (addresses are host numbers).
* Kernel type headers (generated, and by far the most lines of C in the repository),
  installation scripts, and `overlay.go`, which nobody calls.

## 7. Plan

Done: address management, the lifecycle with its cgroups and processes, sessions, images,
the collector with all its programs, the scheduler monitor and the latency exporter; all
their safety properties proved, and the safety halves of most liveness properties.

What could come next:

1. `Addresses`: `nextIP` and `broadcastIP` with carries at byte width against their
   arithmetic definition; the bridge and the veth names.
2. `Identifiers`: names and ID prefixes in `findContainerInfo`, ambiguous ones included.
3. Lifecycle with IPAM in place of the book that is read and written back whole.
4. The collector's files: memory.stat and pressure, with `pruneState`.
