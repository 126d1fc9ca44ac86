# ZigOs: a TLA+ model of its core

ZigOs is an experimental x86-64 UEFI operating system written in Zig. This
directory holds TLA+ specifications of the parts whose correctness is hard to
establish by testing, TLC configurations that model-check them on small
instances, and proofs checked by TLAPS that hold for every instance.

## Inventory

The kernel boots, brings up the hardware (`kernel.zig` and the drivers), runs
its boot experiments and then enters `runtime.run()`, one loop on one processor
that services timer ticks, terminal input, write-back, the network card and one
user process at a time. What each part keeps and does:

| part | state | operations | hard parts |
|---|---|---|---|
| persistent store (`runtime_persist.zig`) | two slots (header, payload) on a block device; generation, active slot, baseline payload, damage flag | mount, sync, file and data sync, check, write-back service | crash between requests, volatile cache, torn sectors, failing requests, generation wrap |
| process table (`runtime_process.zig`) | 64 slots with generation, PID, parent, group, state, wait reason and target, child count, terminal sequence; scheduler cursor | spawn, exit, fault, signals, stop/continue, sleep, block, wake, wait, reap, adoption, round robin | wakeups against exits, slot reuse, adoption half way through a group's death |
| user runtime (`runtime_user.zig`) | one CPL3 context per process, active context | dispatch, timer preemption, system calls, fault reporting, release of contexts | context and process tables must agree; self-kill; retry of blocked calls |
| boot policy (`runtime.zig`) | shell handle, shutdown flags | service loop, child policy of init, shutdown handshake | shutdown only after the shell was reaped |
| terminal (`runtime_tty.zig`) | controller, foreground group, input buffer | feed, read, foreground handoff, Ctrl-C/Ctrl-Z | readers across a handoff, signals to a group |
| lock and barrier (`synchronization.zig`) | ticket words, arrival count, generation | acquire, release, wait | real concurrency of processors, 32-bit wrap, barrier reuse |
| descriptors (`runtime_fd.zig`) | namespaces, shared open descriptions, pipes, sockets, advisory locks | open, dup, close, pipe I/O, flock, byte-range locks | last close against a blocked peer, lock upgrade, full tables |
| file system (`runtime_vfs.zig`, `runtime_page_pool.zig`) | nodes, mounts, open handles, page cache, dirty bitmap | create, link, unlink, rename, read/write, mount, reclaim | unlinked open files, dirty pages against sync and remount |
| TCP (`tcp_connection.zig`) | control block: state, sequence numbers, peer window, retransmission count | opens, send, close, segments, timer | loss, duplication, reordering, old incarnations, wrap |
| TCP sockets (`runtime_user.zig`) | slot table with generation, bound port, listener backlog, connection; blocked processes | socket, bind, listen, accept, connect, send, shutdown, close, packet and timer service | wakeups against blocked calls, shared listeners, last close, one owner per segment |
| other protocols (`dhcp.zig`, `dns.zig`, `ntp.zig`, `udp.zig`) | lease and query machines | packets, timers | loss, retries |
| memory (`memory.zig`, `heap.zig`, `paging.zig`) | frame bitmap, block list, page tables | allocate, free, map | double free, fragmentation bookkeeping |
| multiprocessor (`percpu.zig`, `smp.zig`, `scheduler.zig`, `preemptive.zig`) | per-CPU queues, thread tables | publish work, collect, switch | publication order |
| boot FAT backend (`runtime_boot_fat.zig`, `fat.zig`) | file and directory tables, claimed clusters, cached FAT sector, a cursor per file, quarantine reason | mount, quarantine, read | defects met half way through a scan, failing reads and what the caches hold after them |
| legacy kernel (`legacy/i686/kernel.zig`) | FAT12 cache, node and descriptor tables, current directories, and a volume on disk | descriptor calls, path calls, boot checks | two FAT copies and a directory written one sector at a time, two views of the root directory |
| legacy images (`create-legacy-fat12.py`, `verify-legacy-*.py`) | an image file | build, verify before and after the first boot | three programs with constants of their own |
| run lock of the QEMU gates | a lock file, work directories, child processes | acquire, recover, sweep, release | runs that overlap, fail or are killed anywhere |
| QEMU gates (`test-normal-boot.py` and four more) | what arrived on the serial line, a start offset | type, wait for a marker, check, judge the transcript | echo, late output, exits and timeouts: nothing on the wire says which line an output belongs to |
| persistence gate (`test-x86_64-persistence.py`) | an image and what earlier boots left in it | boot, kill, parse, damage, compare | parsers of its own, boot-local ticks |
| NVMe image builder (`create-nvme-test-image.py`) | an image file | layout, placement, corruption | regions at their limits, LBAs compiled in elsewhere |
| drivers, boot | hardware registers | | tied to hardware |

System calls reach the process table, the descriptors, the file system and the
terminal through `runtime_user.zig`; the main loop calls the same tables from
outside CPL3. Everything but the multiprocessor experiments runs on one
processor, and a handler runs to completion with the user context suspended:
the interleavings that matter are those of handlers, not of instructions. The
store is called synchronously, but the machine can lose power between any two
block requests.

Around the kernel stand Python scripts: builders of disk images, verifiers of
what a boot left on them, and gates that drive the shell in QEMU over a serial
line. A gate is a concurrent program: the guest runs on while the harness
reads, and a gate that can pass on a broken guest, or fail on a good one, is
worth little. The models of the gates therefore run each script against a
correct guest and against guests with one fault.

What makes each part correct, and where it is stated, follows per module; the
hazards behind the properties are listed with their lines in `PROJECT.json`.

## Modules

| module | what it is |
|---|---|
| `DurableStore` | abstract store: a snapshot is staged, published, acknowledged; a crash recovers the acknowledged or the published one |
| `PersistJournal` | `runtime_persist.zig`: commitSnapshot request by request, mount, device cache, crashes |
| `MCPersistJournal` | its TLC instance |
| `PersistJournalProofs` | TLAPS: the inductive invariant and seven theorems |
| `ProcessTable` | the operations of `runtime_process.zig` as operators on a table |
| `UserRuntime` | dispatcher, timer, system calls, terminal ownership and boot policy over that table |
| `MCUserRuntime` | its TLC instance |
| `UserRuntimeProofs` | TLAPS: what the table's operations keep, and six theorems about the runtime |
| `FifoLock` | abstract lock: waiters served in arrival order |
| `Synchronization` | `synchronization.zig`: one action per atomic access |
| `TcpConnection` | `tcp_connection.zig`: the operations on a control block |
| `TcpPair`, `MCTcpPair`, `TcpPairProofs` | two control blocks over an unreliable network; TLAPS proofs |
| `TcpSocket`, `MCTcpSocket`, `TcpSocketProofs` | the socket calls and packet service of `runtime_user.zig` over those blocks; TLAPS proofs |
| `MCSynchronization`, `SynchronizationProofs` | its TLC instance, and TLAPS proofs |
| `BootFatVolume` | a FAT16 volume as data; what is sound about one, without regard to who reads it |
| `BootFat` | `runtime_boot_fat.zig` over such a volume: mount, quarantine, reads |
| `NvmeImage` | `create-nvme-test-image.py`, which builds such a volume |
| `BootImage`, `MCBootImage`, `BootImageProofs` | their composition: an image is built, then booted; TLAPS proofs of the layout, the mount and the reads |
| `RunLock`, `MCRunLock`, `RunLockProofs` | the lock file of the gates; its TLC instances; TLAPS proofs |
| `ConsoleMarkers`, `ConsoleHarness` | the serial session the gates share: harness, wire, terminal, shell |
| `ConsoleScripts`, `NormalBootScript`, `MCConsole` | the lines, markers and checks of five gates, and the faults each is run against |
| `PersistenceTest`, `MCPersistenceTest`, `PersistenceTestProofs` | `test-x86_64-persistence.py`; its TLC instance; TLAPS proofs |
| `LegacyFat12` | the FAT12 driver of the legacy kernel, call by call and write by write |
| `LegacyImage` | `create-legacy-fat12.py` and the two verifiers over that volume |
| `LegacySession`, `MCLegacySession` | the two-boot gate that joins them |

### PersistJournal

`hdr` and `blk` are the media, `hdrCache` and `blkCache` the writes the device
still holds; `pc` is the place in `commitSnapshot`; `damaged`, `generation`,
`active`, `payload` are the fields of `Store`; `next` and `index` are the
snapshot being written and the loop counter. `acked` and `attempt` are history:
the last acknowledged snapshot and the one whose header write was issued.

`BeginCommit` is the call of `sync()` or a file sync on a store that is not
damaged; `WritePayload`, `FlushPayload`, `WriteHeader`, `FlushHeader` are the
requests in the order of the code, each with a failing twin that leaves the
sector old, new or torn and ends in `recordIoDamage`. A payload write goes to
the cache, the header write is force-unit-access and goes to the media.
`Destage...` is the device writing back on its own. `Crash` may tear whatever
was in flight, the header being written included. `Mount...` are the outcomes
of `mount()`. A checksum is the payload it was computed from, so a collision is
outside the model, as it is outside the code's promise.

Not modelled: how records are encoded in a payload, and what `restore` does
with them. A snapshot that fails to restore is a refused mount.

### ProcessTable and UserRuntime

`ProcessTable` follows `runtime_process.zig` function by function. A handle is
slot and generation, as in the code; `Resolves` is `resolve()`. `UserRuntime`
holds the table (`proc`), the scheduler's cursor, the next PID and terminal
sequence number, the slot at CPL3 (`cur`), the context of each slot (`ctx`:
none, active, or released by `finalize`), the terminal's controller and
foreground group, and the boot flags.

Kernel actions: `ServiceOne` (serviceOne and dispatch), `TickExpires`
(wakeExpired; which sleepers are due is nondeterministic), `IoReady` and
`TtyInput` (wakeMatching), `TtyInterrupt` and `TtySuspend` (Ctrl-C, Ctrl-Z),
`PowerOff`. User actions are the system calls, `UserFault`, and the timer. A
call that ends the stay at CPL3 goes through `ReturnToKernel`, the tail of
`dispatch`. User programs are arbitrary, except that PID 1 is the fixed image
`init.elf`, which spawns, waits, asks for shutdown and exits.

Not modelled: credentials (all processes inherit those of init), sessions
(there is one), names, limits other than children and CPU ticks.

### Synchronization

Each worker runs `runWorker` again and again. One action is one atomic access;
the unsynchronised counter is loaded and stored in two. `Modulus` stands for
2^32. The barrier's second load of the generation, after the spin loop has
ended, is an action of its own.

### TcpConnection, TcpPair and TcpSocket

`TcpConnection` has one operator per function of `tcp_connection.zig`. Each
returns what `Transition` does: accepted or not, the new block, the segment to
send. Reasons of rejection, statistics and tick values are left out. Whether a
deadline has passed is the caller's choice, so the backoff intervals do not
matter. `SeqModulus` stands for 2^32.

`TcpPair` joins an active and a passive block by a set of segments that are
never removed: each may be delivered any number of times, at any time, or
never. `Discard` is the close of a descriptor, which tells the peer nothing.
`irs` is history, the peer's first sequence number as each end took it.
`PairAssumption` keeps the sequence numbers of two incarnations of an end
apart, by more than a connection of `MaxSpan` bytes and a FIN runs, and a single
connection short of the modulus. The code derives its initial numbers from the
tick, and its documents do not claim more for them.

`TcpSocket` is the layer above. `sock` is `socket_slots`, `held` says which
process has a descriptor of which slot, `wait` is what a blocked process waits
for. The system calls are those of `runtime_user.zig`; a call that fails
changes nothing and is left out. `SegmentWhileConnecting`,
`SegmentWhenEstablished`, `ListenerSegment` and `ListenerSyn` are one packet in
`serviceTcpConnects`, `ConnectTimer` and `PendingTimer` one timer in its two
loops. Peers send any segment of `Inbound`. The runtime sends a reply only if
the block accepted the segment, unlike `TcpPair`, which sends every reply a
transition carries. Handing a segment to the card may fail. A process woken by
a stop and continue is not distinguished from one that was never blocked.

Not modelled: header encoding and checksums, the UDP half of the calls, `poll`,
`getsockname` and the options, the rotor of ephemeral ports (any free port is
chosen), and the read half of `shutdown`, a flag nothing reads yet.

### BootFat, NvmeImage and BootImage

`BootFatVolume` defines a volume (its FAT, its directories) and, by following
chains, `Sound`, `Defective` and `Owned`. It knows nothing of the backend.
`IsVolume` is what a device may hold: any FAT, with any entries and finitely many
directories, of at most the
65524 clusters that `parseBootSector` takes for FAT16; `BootFatAssumption` says it
of the foreign volumes, and of built images it is proved (`BuiltVolume`).
`BootFat` is `mount` with one step per device read: the directory queue, the
entries of a sector, the chain of each file, the claimed clusters, the count of
free ones; then `readFile` with its cursor and the cached FAT sector. Any device
read may fail, and then leaves its buffer alone. `NvmeImage` computes the layout
with the real numbers of `layout_for`, writes block by block in the order of
`build_image`. `BootImage` joins them: a device holds either a volume of unknown
making, or an image that was built and on which the backend is then started,
with what the boot sector, the FAT and the directories of that image say.

A cluster is one sector here, and the entries of a directory all lie in its first
cluster, which holds the end mark: a chain that goes on behind it is claimed and
validated, as in the code, but a directory that continues there is not read. That
publishing the mounted tables to the VFS may fail is not modelled.

### RunLock

`pc` is where each run is in `main`, `pid` the PID it has; `lock` is the lock
file, with the run that created it and the PID written in it; `work` are the
directories that exist. Creation and the write of the PID are two steps, as are
reading an owner, probing it and unlinking. Runs start whenever they like, and
the host gives out any PID that is free, to a run or to another program (`others`):
an owner that was read may be dead, or somebody else by the time it is probed.
`Crash` ends a process without `finally` or `atexit`. `Exits` are the ways out of
a run: past the release too, when the identity check raises first. A QEMU that
outlives its run (`process.wait` may time out) is no part of the state, since no
step asks for one; that nothing passes with a live QEMU is `NoQemuLeft` of
`ConsoleHarness`. `RecordsOwner = FALSE` is the lock of the persistence gate.
`company` and `sole` are history: who saw another run create the file while it
was acquiring, and who wrote its PID while no other run was between looking at
the file and acting on what it saw.

Not modelled: `os.kill(pid, 0)` counts a process of another user as not running
(the gates are run by one), and does something else on Windows.

### ConsoleHarness and its scripts

A chunk of serial output is the set of markers it contains, and the number of
the line the guest was running, which the harness cannot see. The host types,
waits (`BeginWait`, `ReadAvailable`, `MarkerFound`, `PollProcess`,
`WaitTimesOut` are the turns of `wait_for`), drains, checks and judges; the
guest echoes a line as it arrives, runs lines in turn and prints. Between them
are two wires. The shell keeps what the checks can tell apart: last status,
prompt, background job, conditional lists, malformed lines. A script is a
sequence of steps taken from `main` of the gate in the order of its code; a line
says what a correct guest prints and, for each fault, what a faulty one prints.
`OnTime` says that a guest answers within the timeouts and the drain windows of
the script: without it a correct guest can fail any gate by being slow. A gate
named in `Unreliable` is not `OnTime`, its setup may fail, and its QEMU may exit
at any moment or outlive its kill; there `OwnAnswer` and `ChecksSeeAll` claim
nothing, since both rest on the drain windows. `Pause` is a sleep and a drain
written in the script, `Glance` a `read_available` without a sleep, which may come
too early. A gate's `faults` are those it is run against, `missed` those of them
that no session can tell from a correct guest.

### PersistenceTest

Each step is one boot or the checks after it. The guest's journal mounts and
commits as `runtime_persist.zig` does, with at most one of eighteen faults
(`KnownFaults`); the fields of a header can be flipped one by one. A boot changes the file at any
tick of its own counter, the one another boot has recorded included (`Tied`).

### LegacyFat12, LegacyImage and LegacySession

`LegacyFat12` has one operator per function of the driver, from a machine to a
machine. The FAT is packed in twelve bits and cached; both copies are written a
sector at a time. A counter in the machine names the write at which the fault
of the call happens: it is reported failed and changed nothing, or the machine
stops before it. File contents are runs of named sources, so that equal
contents are equal values. `LegacyImage` builds the volume with every file and
size of `FILES`; the verifiers are translated with constants of their own.
`LegacySession` plays the plan: build, verify, first boot with the namespace
check, `SERVICE.ELF`, `PATHS.ELF` and `WRITER.ELF`, offline verification, second
boot. A program is the list of calls its machine code makes, and what the kernel
compares them with; of buffers that a program fills twice it finds the last
contents (`Overwritten`). A call is one step: nothing else uses the volume meanwhile.

Not modelled: failing reads; writes that are reported failed but reach the disk
(`ataTryWriteSector` compares what it reads back, and the flush or that read may
fail): after one a directory may stand on a cluster that is given out again for
data, and data read as a directory has no meaning here; paths naming `/` in a rename or removal (no program asks for one), and the
programs that leave the volume alone.

## Runs

Each run asks one question of one part. Where a property is a conjunction, its
conjuncts are named definitions of their own, so that a counterexample can be
narrowed down by checking them one by one.

| run | bounds | shows |
|---|---|---|
| `persist_journal` | 2 payload sectors, 3 payloads sharing sectors, generations to 3 | what any crash recovers; distinct generations; `check()` passes; the active slot is never touched; `PersistJournal` implements `DurableStore`; the inductive invariant |
| `user_runtime` | 3 slots, PIDs to 4, one I/O object | only the current process runs, contexts follow processes, shutdown comes after the shell (`RuntimeConsistent`); blocked terminal readers are in the foreground; termination is final; every runnable process is dispatched; child counts are exact and parents are alive or init (`FamilyExact`); no wait sleeps through a termination (`WaitNotLost`) |
| `synchronization` | 3 workers, words wrap at 3, 2 critical sections, 3 rounds | FIFO refinement, which includes exclusion; no lost update; nobody leaves the barrier early and a round has one result (`BarrierCorrect`); termination |
| `tcp_pair` | modulus 16, two opens per end, one byte and a FIN each way, one retransmission | sequence numbers agree; old duplicates never complete a handshake; no end stays half open |
| `tcp_socket` | 2 processes, 2 slots, backlog 1, 1 peer, windows 0 and 1, modulus 3 | nobody sleeps in accept beside a ready peer, in connect after its handshake or on a released slot (`SleepersServed`); one live block per port and peer, one owner per port (`OneOwner`); payload and FIN never move the block of a connected descriptor (`IngressDeferred`), which says nothing of a peer not accepted yet; every handshake ends |
| `tcp_writer` | 1 process, 1 slot | violated: see Findings |
| `run_lock` | 3 runs, 3 PIDs, one other process | a run that records its PID while nobody is half way keeps the lock and its directory (`SoleHolds`); only a killed run leaves a lock file; a run is refused only by a PID in use or after another one acquired beside it |
| `run_lock_overlap` | 2 runs, 2 PIDs | violated: see Findings |
| `console` | 7 sessions of five gates, 44 faults of the guest one at a time; in one session setup fails, QEMU exits, hangs or outlives its kill | a correct guest passes, 42 of the faults never do and the other two always (`VerdictExact`), no pass with QEMU alive; no wait is answered by an earlier line; no negative check comes too early; every session ends |
| `persistence_test` | 18 faults one at a time, ticks to 4, any ties | every fault is noticed, and a correct journal fails for a tie of its ticks and for nothing else (`VerdictExact`); the parsers agree with the kernel; any damaged field falls back |
| `boot_image` | every FAT of 3 clusters under a small tree, a 4-cluster file, a deep tree, one failing read, three reads; both block sizes, image sizes and placements around every limit, of which a sound and a cross-linked image are booted | only sound volumes are published and a quarantine names a true defect (`MountRight`); reads are right; regions are apart and GPT copies agree (`LayoutSound`); what was built reads back and boots as asked, and the fault LBAs of the gates are right (`ImageBoots`) |
| `legacy_session` | the first 65 clusters of the real volume, two faults, four boots, a fault at each of a call's first 16 writes | a shell only on a sound volume, and "verified" means verified (`OnlyOnSound`); shipped files and cached nodes stay right (`FilesKept`); the gate passes |

Why the bounds are enough to be interesting. Journal: three generations give
each slot a first and a second life and reach the exhausted counter; two
sectors give a half-written payload, and the payloads share sectors so that a
mixture of old and new can look like either. Processes: init, the shell and a
job with one PID more than slots reuse a slot with a new generation; a job whose
shell dies first is adopted by init, and `FamilyTree` and `WaitsKept` prove the
same for trees of any depth. Lock and barrier: words
wrap at the number of workers, the tightest modulus `WorkersAssumption` admits,
and three rounds wrap the generation once and let a fast worker lap a slow one.
TCP: two opens per end give old duplicates of every segment, and the client's
first numbers wrap inside a connection. Two processes share every descriptor by
inheritance; two slots hold a listener and what it accepted, or a dead
connection and its successor. Segments come with numbers in and out of sequence.
Run lock: three runs are a dead owner, the one that recovers its lock and the
one that comes in between; with as many PIDs, the PID of a dead run goes to another
run or to the other process. Boot FAT: three clusters and their FAT values give every
loop, cross-link, bad, free and wild link. The legacy volume has its real sizes,
and nothing is placed above cluster 63; two faults give a torn call and a second
one in what follows.

`CHECK_DEADLOCK FALSE` is given where the system may stop: the runtime when it is idle
or powered off or every PID of the bound is used up, the workers when
their rounds are over (`AllFinish` says that they never stop earlier), two TCP
ends when all opens of the bound are used, a socket table nobody uses, runs of a
gate that have all ended, a persistence gate with a verdict, a legacy gate that
has passed, was refused or has used up its boots.

### Fairness

`RunnableDispatched` assumes weak fairness of `ServiceOne` and `TimerPreempts`:
the main loop never leaves `run()`, and the APIC timer interrupts every
context, which runs with interrupts enabled. Nothing is assumed of user
programs, terminal input or devices. `AllFinish` assumes weak fairness of each
worker's steps: each is a processor of its own. The spin loops need no
fairness: only the load that ends one is an action. `HandshakeEnds` and
`HandshakesSettle` assume weak fairness of the timers alone: `serviceNetwork`
runs in every round of the main loop and examines every timer. `SessionEnds`
assumes weak fairness of the host, a process that is scheduled, and strong
fairness of `WaitTimesOut`: a wait loop that goes round for ever outlasts its
deadline. A guest that is `OnTime` is weakly fair too, being one that answers
before a timeout; nothing is assumed of the guest of an `Unreliable` gate or of
its QEMU. `GatePasses` assumes that
the phase or the call of the legacy session moves on while there is one.

### Findings

`tcp_writer`: a writer blocked on a closed window has nothing outstanding, and
`serviceTcpConnects` wakes writers only when a segment changes
`send_unacknowledged` (`runtime_user.zig:2646`). The ACK that opens the window
leaves the writer asleep, although `README.md:255` says that an ACK refreshes
the window and wakes the writer. By the same test a reset, or a shutdown by
another holder of the descriptor, does not wake a blocked writer either.

`run_lock_overlap`: the file is empty between its creation and the write of the
PID (`test-boot-fat-io-error.py:38`). A run that reads it then takes it for
stale, unlinks it and creates its own: both go on as holders. The same happens
when a run that judged a dead owner unlinks what another run has created since.
`verify-permanent-userspace.py:740` says that the gate "rejects duplicate
concurrent runs", and line 760 the same of the other gate. It does once the first
of them has recorded its PID with nobody half way, which is `SoleHolds`; two
holders sweep each other's work directories. The lock of the persistence gate,
which keeps no owner, does exclude (`BareLockExclusive`), and is never recovered.

Two more disagreements are stated by properties that hold, exactly, instead of a
run that fails:

- `VerdictExact` of `ConsoleHarness`: a shell whose `&&` never goes on
  (`and_never`), and one whose last stage of a pipeline is not seen
  (`pipeline_hidden`), pass the normal gate in every session. `pwd&&echo
  G259_AND_RAN` is waited for with the text its own echo contains, and nothing
  later tells a shell that ran only `pwd` from a correct one
  (`test-normal-boot.py:231`). The count at `:902` is to notice that "grouped
  pipeline did not retain visible final-stage execution" and is satisfied by
  other lines of the session.
- `VerdictExact` of `PersistenceTest`: "Stored timestamps are boot-local and
  same-tick ties are valid", says `test-x86_64-persistence.py:530`, but lines 514
  and 516 and their like after boot 3 reject a tie with the tick of another boot.
  A correct journal fails the gate for such a tie, and for nothing else.

### What the models show besides

These follow from the models too, and limit what the runs claim; no run is kept
for them.

- Run lock: a run may be refused because the PID of a dead owner belongs to
  another program by now, or to itself; and with overlapping starts a second dead
  creator uses up the two attempts, so that a run gives up with nobody alive. Both
  are what `RefusedOnlyInCompany` leaves open.
- QEMU may print a marker and exit between the read and the poll; `wait_for` then
  says that it exited before the marker (`test-normal-boot.py:70`). The verdict
  is a failure either way.
- A directory entry whose first cluster is 0 or 1 ends the boot with
  `NamespaceLimit` (`runtime_boot_fat.zig:335`), where `docs/THREAT-MODEL.md:128`
  speaks of a classified defect and a fallback; `MountRight` asks for a reason
  only of a quarantine.
- A process that sends signal 19 to itself becomes `stopped`, but `syscallKill`
  returns to it, and the next timer interrupt's `setRunnable`
  (`runtime_user.zig:821`) makes it runnable although nobody sent signal 18.

Two gaps of the TCP code are known to its roadmap: payload or FIN that arrives
between the handshake and `accept` is acknowledged and dropped (G314, G322), and
FINs that cross are both rejected (G323).

`WaitNotLost` leaves out one case on purpose: a zombie adopted by init while
init is already blocked in a wait for any child or a group. `reparentChildren`
does not wake init. The roadmap lists orphan reaping as open, so this is a known
gap.

## Proofs

`PersistJournalProofs` proves, for every set of payloads, slot size and largest
generation: `JournalInvariant`, `TypeCorrect`, `CrashRecovers`,
`GenerationsDiffer`, `CheckAlwaysPasses`, `ActiveSlotSafe` and `Refinement`.
The assumptions are the ones named in `PersistJournal`: payloads are non-empty
and fit the slot, and the marks for absent, torn and uncached sectors are not
contents. `CrashRecoversCommitted` is not inductive: it says nothing about the
device cache, nor why the payload under a fresh header is durable. `JournalInv`
adds three things. Of the two slots one, the active one while mounted, holds
the acknowledged snapshot with nothing cached over it (`Online`, `Offline`). The
other is older, unreadable, or holds the attempt over a payload that was
flushed before its header was written. And `CommitProgress` records what each
step of the commit has established for the next: the staged prefix, that the
target's blocks are clean after the flush, and that an undamaged idle store has
an empty cache. Each action is one lemma; mount needs `MountSelects`, that the
newest valid candidate is never older than the acknowledged snapshot.

`SynchronizationProofs` proves `SyncInvariant`, `SyncTypes`, `LockIsExclusive`,
`UpdatesKept`, `GenerationInvariant`, `BarrierSafe` and `LockIsFifo` for any
finite set of at least two workers not larger than the modulus, and any modulus,
number of iterations and rounds. The tickets between `serving` and `next` are
exactly those of the pending workers, each held once (`TicketsExact`); a new
ticket is nobody's because the pending workers are fewer than the modulus, which
is where that assumption is used. The barrier's invariant names the current round R and says where each worker is
relative to it; the arrival count is the number of workers waiting in R, by
cardinality lemmas. That the workers of a round return one generation, although
each loads the word twice, needs `GenerationInv`: the word is the number of
completed rounds modulo its width, and who has read it stands in the round that
the value belongs to. `BarrierSafe` combines both. `LockIsFifo` is the
refinement of `FifoLock`: the queue is the pending workers in the order of the distance
of their tickets from `serving`. Drawing a ticket puts a worker at the largest
distance, so it is appended; `Enter` wants distance zero, the head; `Release`
moves `serving` by one, which drops the head and shortens every distance; all
other steps leave queue and holder alone.

`RunLockProofs` proves for any set of runs and PIDs, any number of other processes
and any starts, under `RecordsOwner`: `LockInvariant`, `SoleRunHolds`,
`StaleLockRecovered` and `KilledRunsLeave`; without an owner, `BareLockExclusive`.
Exclusion of all runs does not hold, so what is proved is who does exclude the
others: the run that recorded its PID while nobody was between looking at the file
and acting on it. `SoleHolds` is not inductive, as it does not say why an unlink is
harmless. `SoleGuarded` adds that while such a run holds the lock nobody else is on
the way to an unlink or a write, that whoever probes has read its PID, and that
whoever leaves has not read its own; `PidsApart` that its PID is nobody else's, however
often the host gives PIDs out. `RetryIsFree` says that the second attempt finds no
file unless another run has created one meanwhile, and `CreatorStays` that the
creator of the file stays in the gate until the file is gone or it is killed.

`UserRuntimeProofs` proves for any number of slots, PIDs and I/O objects:
`RuntimeInvariant`, `Consistent`, `Readers`, `FamilyTree`, `WaitsKept` and
`TerminalStays`. None of the properties is inductive alone. `TableInv` says of the table that a slot is used exactly when it has a
state, that every process but init hangs below init or a parent that is alive
(`Rooted`), that counts are those of the tree (`KidsCounted`), and that a process
blocked in wait has a child it covers and none that has ended (`WaitsServed`).
Its first half shows that each operation of the table keeps it; a death inside a group is
the hard one, as reparenting, the parent's wakeup and the terminal number happen
in between. Ctrl-C goes over the slots one by one, a recursive function; what
each stage of it keeps is proved by induction on the slot. `RuntimeInv` adds the
counters (terminations so far and live processes share the PIDs given out, which
bounds the sequence numbers), the context at CPL3, the terminal's owner and the
boot policy: until there is a shell init holds the terminal, and the shell's
generation does not come back.

`TcpSocketProofs` proves for any numbers of processes, slots, backlog entries,
ports and peers, any segments and any modulus: `SocketInvariant`, `Sleeping`,
`Ownership` and `Deferral`. `SocketInv` strengthens the properties by what each
slot's record satisfies (`RecordSound`: a free slot holds nothing, a connecting
block is in SYN-SENT with its timer armed), by descriptors that name used slots,
which is why a sleeper's key stays valid until its last holder closes, and by
`Apart`: who shares a port has got through a handshake or is its one listener,
and no peer is twice among the live connections and backlog entries of a port.
What a segment can do to a block is stated once, as lemmas about
`HandleSegment` and `OnTimer`.

`TcpPairProofs` proves for any modulus, window, retry limit, any lists of initial
numbers that `PairAssumption` admits and any `MaxSpan`: `PairInvariant`,
`SequencesAgree` and `HandshakesAgree`. The properties speak of two paired ends,
but what threatens them are segments of connections that are long gone.
`PairInv` therefore ties every segment ever sent to an incarnation of its sender
(`SegmentSound`), and says of those of the present one that they carry nothing
beyond `send_next` and acknowledge nothing beyond `receive_next` (`SegmentOf`);
of every block in use that it is of the latest incarnation, within reach of its
start, and connected to some incarnation of the peer (`BlockSound`); and only of
two ends whose present incarnations know each other that received and
acknowledged numbers are in order (`Agree`). A delivered segment that the
handlers accept has exactly the expected numbers, and since incarnations are
apart these name one incarnation: the one the receiver is connected to. The proof
needs room for the FIN, so `PairAssumption` admits `MaxSpan` only up to the
modulus less two.

`BootImageProofs` proves `BuilderInvariant` and `ImageLayout` for every size of
the boot image, every gap and placement, and both block sizes. `BuilderInv` says
that what is written and what is pending make up the list of an accepted request.
The rest is arithmetic: `Ordered` is what the two layouts have in common, the order
of their parts, and from it and the comparisons that precede the first write each
of the fourteen writes of `build_image` keeps to its place.

It also proves `BootInvariant` and `ReadsAreTrue`, for any set of volumes,
sound or not, any built image, and any number of reads and failures. `ReadInv`
says that the FAT cache holds the sector it is labelled with; that each file the
mount has added has a chain whose first `size` values are clusters (`ChainTo`)
and, if it has one, a cursor that names a cluster of that chain (`FileSound`);
that a chain being validated has visited as many different FAT entries as it has
taken steps (`FileWalk`); and that a read stands at the cluster its offset and
the clusters it has copied call for (`ReadSound`). The reference `Walk` is a
recursive function of the volume. That it exists and obeys its equation
(`WalksExist`, `WalkEquation`) is an induction over its length, done with sets
of numbers and their least members (`SetInduction`) since the library's schema
cannot be instantiated here. That validation does not outrun the reference, whose
length is the number of entries in use, is a count of the visited clusters: they are
different entries in use, which is what the loop check of the mount guarantees. That the
bound on clusters is needed shows in `GoesOn`: with more of them an end marker
could be the number of a cluster.

Last it proves `MountInvariant` and `MountsRightly`, again for any set of volumes,
any sizes of the tables and any number of failures. `MountedSound` and
`QuarantineJust` speak of the end of a mount and compare it with a reference that
follows every chain anew, so the invariant has to say how far the mount has come.
`MountInv` does it with four notions. The *books* (`Books`) divide the entries seen
so far: those whose chain is claimed, the directory being scanned, and the queue,
each entry in exactly one place; an entry is its place and not its first cluster,
so that two entries of one chain are two. The *claims* (`Claims`) say that the
claimed clusters are those of the chains in the books and of the parts being
followed, that these chains end, are long enough and have no cluster in common.
A chain being followed has taken (`Taken`) the first n values of the reference
walk, all different; from that its end (`ChainStops`), its loop (`ChainLoops`) or
its being as long as the volume (`ChainFills`) is the end or the loop of the
reference, and a claimed cluster is one of another owner (`Crossing`). And when
the queue is empty the books hold every owner (`BooksComplete`), since the
directories that can be reached are the least set closed under subdirectories:
`DirectoriesClosed` shows by counting that the layers of the reference stop
growing in time, `DirectoriesLeast` that nothing else is in them. `Counted` is
what `countFreeClustersLocked` knows between two clusters. `Scan` joins these by
the step the mount is at; each action has one lemma (`...Moves`) and each error
one that finds the defect in the reference (`VisitDefect`, `LinkDefects`).

`PersistenceTestProofs` proves for any bound on the ticks and any of the faults:
`TestInvariant`, `FaultsAreNoticed`, `VerdictIsExact`, `HostParsesAsMounts` and
`AnyDamageFallsBack`. That a pass means no fault is not inductive: a guest could arrive
at the end with any. `TestInv` says for each place of `main` what the boots so far
have left in the two slots, tick by tick, and that a guest still in the test there has
none of the faults that an earlier boot or check notices (`Booted1` to `Checked5`).
Each step has a lemma (`...Goes`): with a fault of its class it fails, the checks
after boots 2 and 3 on a tie too, and otherwise the next place is reached. `ParsersAgree` needs no invariant, it holds of every
block; `FallsBackAnywhere` needs that the two written slots are sound and one
generation apart.

`RuntimeInv`, `SocketInv`, `PairInv`, `BuilderInv`, `ReadInv`, `MountInv`, `LockInv`
and `TestInv` were checked with TLC on the instances of the runs before they were
proved; the runs list the properties, which follow from them.

Only model-checked:

- liveness (`RunnableDispatched`, `AllFinish`, `HandshakeEnds`, `HandshakesSettle`,
  `SessionEnds`, `GatePasses`), which is beyond this prover;
- `ConsoleHarness`: `VerdictExact` compares five fixed scripts with the faults of
  their guests, a finite table that the runs cover completely; `OwnAnswer` and
  `ChecksSeeAll` depend on what these scripts type and wait for, and fail for others;
- `LegacySession`, whose driver is written with `RECURSIVE` operators;
- `ImageBoots`, which boots built images and follows the order of their files.

## Plan

Done: the journal and its abstract store; the process table and user runtime;
lock and barrier; TCP blocks and sockets; the boot FAT backend and its image;
the gates, their lock and sessions; the legacy volume. Next, in this order:

1. `Descriptors`: namespaces, shared open descriptions, pipes with blocking
   readers and writers, `flock` and byte-range locks; reference counts exact, no
   reader asleep on a pipe with bytes or without writers, conflicting locks
   never held. Composes with `ProcessTable`'s blocking.
2. UDP sockets: the one-frame transmit resource and its writers (G310).
3. `PageCache`: dirty bitmap, write-back queue and remount above `DurableStore`.
4. `Terminal` line discipline; `DhcpClient`; frame allocator and heap;
   per-CPU work publication.
5. Proofs: `ImageBoots`; `OwnAnswer` and `ChecksSeeAll` of `ConsoleHarness` for any
   script that keeps to the rules its scripts follow; pipe accounting once it is modelled.

## Not modelled

`verify-permanent-userspace.py`, nearly a third of the scripts, asserts that
given strings occur in given files: it has no state and no behaviour.
`generate-abi.py` and `build-assets.py` format constant tables. The machine code
that `create-legacy-fat12.py` assembles is modelled by the calls it makes, and
the programs among it that test processes, pipes and signals of the frozen
legacy kernel are not modelled, as that kernel's scheduler is not. Drivers,
interrupt controllers and the boot sequence are register protocols tied to
hardware. The descriptor layer, the file system, the page cache, UDP and memory
management could be modelled and are in the plan.
