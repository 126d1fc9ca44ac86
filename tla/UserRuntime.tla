----------------------------- MODULE UserRuntime -----------------------------
(***************************************************************************)
(* Process lifecycle of the normal boot profile: the dispatcher, the timer *)
(* interrupt and the process system calls of src/runtime_user.zig over the *)
(* process table of src/runtime_process.zig, with the terminal's ownership *)
(* and control keys (src/runtime_tty.zig) and the boot policy of           *)
(* src/runtime.zig: init, PID 1, may spawn one child, the shell, PID 2.    *)
(*                                                                         *)
(* There is one CPU: either one context runs at CPL3 (cur) or the kernel's *)
(* service loop does, and every handler runs to completion.  User programs *)
(* may issue any call at any time; only init.elf is a fixed image          *)
(* (sdk/zig/init.zig): it spawns, waits, asks for shutdown and exits, and  *)
(* takes none of the actions guarded with cur # InitSlot.                  *)
(***************************************************************************)
EXTENDS ProcessTable, Sequences

CONSTANTS MaxPid,      \* bound: spawns stop when the next PID would exceed it
          IoKeys       \* the objects a process can block on, the terminal apart

ASSUME BoundAssumption == MaxPid \in Nat \ {0}

VARIABLES proc,        \* Table.processes
          cursor,      \* Table.scheduler_cursor
          nextPid,     \* Table.next_pid
          nextSeq,     \* Table.next_terminal_sequence
          cur,         \* the slot whose context runs at CPL3, NoSlot or Off
          ctx,         \* the CPL3 context of each slot's occupant
          tty,         \* Tty.controller_handle and foreground_process_group
          boot         \* runtime state: shell_handle and the shutdown flags

vars == <<proc, cursor, nextPid, nextSeq, cur, ctx, tty, boot>>
system == <<tty, boot>>

Off == NumSlots + 1    \* finishRuntime() has been entered
InKernel == cur = NoSlot
InUser   == cur \in Slots
Live(s) == proc[s].used /\ ~Terminal(proc[s])
NoHandle == <<>>

Init ==
    /\ proc = [s \in Slots |->
                 IF s = InitSlot
                 THEN [FreeSlot(1) EXCEPT !.used = TRUE, !.pid = 1, !.group = 1,
                                          !.state = "runnable"]
                 ELSE FreeSlot(0)]
    /\ cursor = 0
    /\ nextPid = 2
    /\ nextSeq = 1
    /\ cur = NoSlot
    /\ ctx = [s \in Slots |-> IF s = InitSlot THEN "active" ELSE "none"]
    /\ tty = [controller |-> <<InitSlot, 1>>, foreground |-> 0]
    /\ boot = [shell |-> NoHandle, exitAsked |-> FALSE, shutdown |-> FALSE]

-----------------------------------------------------------------------------
(* The service loop.                                                       *)

(* serviceOne() picks the next runnable process and dispatch() enters it.  *)
ServiceOne ==
    /\ InKernel
    /\ RunnableSlots(proc) # {}
    /\ LET s == NextAfter(proc, cursor)
       IN /\ cursor' = s
          /\ cur' = s
          /\ proc' = SetRunning(proc, s)
    /\ UNCHANGED <<nextPid, nextSeq, ctx, system>>

(* wakeExpired() at the start of a tick.                                   *)
TickExpires ==
    /\ InKernel
    /\ \E expired \in SUBSET {s \in Slots : proc[s].state = "sleeping"} :
          /\ expired # {}
          /\ proc' = WakeExpired(proc, expired)
    /\ UNCHANGED <<cursor, nextPid, nextSeq, cur, ctx, system>>

(* A device or a peer makes an object ready.                               *)
IoReady(k) ==
    /\ InKernel
    /\ proc' = WakeMatching(proc, "io", <<k>>)
    /\ proc' # proc
    /\ UNCHANGED <<cursor, nextPid, nextSeq, cur, ctx, system>>

(* A submitted line, an end of file or a raw byte wakes every reader.      *)
TtyInput ==
    /\ InKernel
    /\ proc' = WakeMatching(proc, "terminal_read", NoTarget)
    /\ proc' # proc
    /\ UNCHANGED <<cursor, nextPid, nextSeq, cur, ctx, system>>

(* feed() sends through the controller's handle: once the shell is reaped  *)
(* the control keys signal nobody.                                         *)
ForegroundMembers ==
    IF tty.foreground # 0 /\ Resolves(proc, tty.controller)
    THEN GroupMembers(proc, tty.foreground) ELSE {}

(* Ctrl-C: signal 2 wakes the foreground group, then the default action    *)
(* ends each member.                                                       *)
TtyInterrupt ==
    LET members == ForegroundMembers
        woken == [s \in Slots |-> IF s \in members
                                  THEN Signal(proc, s, 2, nextSeq)[s]
                                  ELSE proc[s]]
    IN /\ InKernel
       /\ members # {}
       /\ proc' = ExitEach(woken, members, nextSeq)
       /\ nextSeq' = nextSeq + Cardinality(members)
       /\ UNCHANGED <<cursor, nextPid, cur, ctx, system>>

(* Ctrl-Z stops each member.                                               *)
TtySuspend ==
    LET members == ForegroundMembers
    IN /\ InKernel
       /\ members # {}
       /\ proc' = [s \in Slots |-> IF s \in members
                                    THEN Stop(proc, s)[s] ELSE proc[s]]
       /\ UNCHANGED <<cursor, nextPid, nextSeq, cur, ctx, system>>

(* The loop sees shutdown_requested and enters finishRuntime().            *)
PowerOff ==
    /\ InKernel
    /\ boot.shutdown
    /\ cur' = Off
    /\ UNCHANGED <<proc, cursor, nextPid, nextSeq, ctx, system>>

-----------------------------------------------------------------------------
(* Leaving CPL3.                                                           *)

(* The tail of dispatch(): a process still running becomes runnable, one   *)
(* that died in the handler is finalized.                                  *)
ReturnToKernel(p) ==
    /\ proc' = IF p[cur].state = "running" THEN SetRunnable(p, cur) ELSE p
    /\ ctx' = IF Terminal(p[cur]) THEN [ctx EXCEPT ![cur] = "released"] ELSE ctx
    /\ cur' = NoSlot

(* handleTimer(): whatever is not terminal is made runnable again.         *)
TimerPreempts ==
    /\ InUser
    /\ ReturnToKernel(SetRunnable(proc, cur))
    /\ UNCHANGED <<cursor, nextPid, nextSeq, system>>

(* accountTick() charges running processes only; at the CPU limit it exits.*)
TimerAtCpuLimit ==
    /\ InUser
    /\ proc[cur].state = "running"
    /\ ReturnToKernel(Exit(proc, cur, nextSeq))
    /\ nextSeq' = nextSeq + 1
    /\ UNCHANGED <<cursor, nextPid, system>>

SysExit ==
    /\ InUser
    /\ ReturnToKernel(Exit(proc, cur, nextSeq))
    /\ nextSeq' = nextSeq + 1
    /\ UNCHANGED <<cursor, nextPid, system>>

(* An exception, reported through the fault trampoline, or forceFault().   *)
UserFault ==
    /\ InUser
    /\ ReturnToKernel(Fault(proc, cur, nextSeq))
    /\ nextSeq' = nextSeq + 1
    /\ UNCHANGED <<cursor, nextPid, system>>

SysSleep ==
    /\ InUser
    /\ cur # InitSlot
    /\ ReturnToKernel(Sleep(proc, cur))
    /\ UNCHANGED <<cursor, nextPid, nextSeq, system>>

(* yield is setRunnable() as well.                                         *)
SysYield ==
    /\ InUser
    /\ cur # InitSlot
    /\ ReturnToKernel(SetRunnable(proc, cur))
    /\ UNCHANGED <<cursor, nextPid, nextSeq, system>>

(* A read, write or lock that cannot proceed.                              *)
SysBlockOnIo(k) ==
    /\ InUser
    /\ cur # InitSlot
    /\ ReturnToKernel(Block(proc, cur, "io", <<k>>))
    /\ UNCHANGED <<cursor, nextPid, nextSeq, system>>

(* Tty.read() with nothing buffered: only the foreground group may wait.   *)
SysReadTty ==
    /\ InUser
    /\ cur # InitSlot
    /\ tty.foreground # 0
    /\ proc[cur].group = tty.foreground
    /\ ReturnToKernel(Block(proc, cur, "terminal_read", NoTarget))
    /\ UNCHANGED <<cursor, nextPid, nextSeq, system>>

-----------------------------------------------------------------------------
(* spawn, kill and wait.                                                   *)

(* The child callback of the normal profile, configureNormalChild(): init  *)
(* gets its one child, PID 2, which leads its own group and takes over the *)
(* terminal.  Any other child of init is refused and discarded.            *)
ChildAllowed == cur = InitSlot => boot.shell = NoHandle /\ nextPid = 2

SpawnGroups == {proc[cur].group, nextPid}
               \cup {g \in 1..MaxPid : MayJoin(proc, cur, g)}

SysSpawn(group) ==
    LET s == LowestFree(proc)
        isShell == cur = InitSlot
        born == Spawn(proc, cur, nextPid, IF isShell THEN nextPid ELSE group)
    IN /\ InUser
       /\ nextPid <= MaxPid
       /\ MaySpawn(proc, cur)
       /\ group \in SpawnGroups
       /\ ChildAllowed
       /\ proc' = born
       /\ ctx' = [ctx EXCEPT ![s] = "active"]
       /\ nextPid' = nextPid + 1
       /\ tty' = IF isShell THEN [controller |-> HandleOf(born, s),
                                  foreground |-> nextPid]
                            ELSE tty
       /\ boot' = IF isShell THEN [boot EXCEPT !.shell = HandleOf(born, s)]
                             ELSE boot
       /\ UNCHANGED <<cursor, nextSeq, cur>>

(* setForegroundGroup(): the controller hands the terminal to its own      *)
(* group or to one led by an unreaped direct child, and wakes the readers. *)
MayForeground(p, g) ==
    /\ tty.controller = HandleOf(p, cur)
    /\ \/ g = p[cur].group
       \/ MayJoin(p, cur, g)

(* Mutant: the readers of the old foreground group are left blocked.       *)
SetForegroundGroupSilently(p, g) ==
    /\ tty' = [tty EXCEPT !.foreground = g]
    /\ proc' = p

SetForegroundGroup(p, g) ==
    /\ tty' = [tty EXCEPT !.foreground = g]
    /\ proc' = WakeMatching(p, "terminal_read", NoTarget)

SysSetForeground(g) ==
    /\ InUser
    /\ cur # InitSlot
    /\ MayForeground(proc, g)
    /\ SetForegroundGroup(proc, g)
    /\ UNCHANGED <<cursor, nextPid, nextSeq, cur, ctx, boot>>

(* spawnv with a new group and the foreground flag.                        *)
SysSpawnForeground ==
    LET born == Spawn(proc, cur, nextPid, nextPid)
    IN /\ InUser
       /\ cur # InitSlot
       /\ nextPid <= MaxPid
       /\ MaySpawn(proc, cur)
       /\ MayForeground(born, nextPid)
       /\ SetForegroundGroup(born, nextPid)
       /\ ctx' = [ctx EXCEPT ![LowestFree(proc)] = "active"]
       /\ nextPid' = nextPid + 1
       /\ UNCHANGED <<cursor, nextSeq, cur, boot>>

(* A later step of the spawn fails: rollbackProcess() or                   *)
(* discardSpawnedChild() exit the child and reap it at once.               *)
SysSpawnRolledBack ==
    LET s == LowestFree(proc)
        born == Spawn(proc, cur, nextPid, proc[cur].group)
    IN /\ InUser
       /\ nextPid <= MaxPid
       /\ MaySpawn(proc, cur)
       /\ proc' = ReapSlot(Exit(born, s, nextSeq), cur, s)
       /\ nextPid' = nextPid + 1
       /\ nextSeq' = nextSeq + 1
       /\ UNCHANGED <<cursor, cur, ctx, system>>

(* A group that may not be joined is refused after the PID was taken.      *)
SysSpawnBadGroup ==
    /\ InUser
    /\ cur # InitSlot
    /\ nextPid <= MaxPid
    /\ MaySpawn(proc, cur)
    /\ nextPid' = nextPid + 1
    /\ UNCHANGED <<proc, cursor, nextSeq, cur, ctx, system>>

(* Mutant: the target may be terminal.                                     *)
SysKillUnchecked(s, signal) ==
    /\ InUser
    /\ cur # InitSlot
    /\ proc[s].used
    /\ s # cur
    /\ proc' = Signal(proc, s, signal, nextSeq)
    /\ nextSeq' = IF signal = SIGKILL THEN nextSeq + 1 ELSE nextSeq
    /\ UNCHANGED <<cursor, nextPid, cur, ctx, system>>

(* Mutant: a self-kill returns to the caller.                              *)
SysKillReturns(s, signal) ==
    LET p == Signal(proc, s, signal, nextSeq)
    IN /\ InUser
       /\ cur # InitSlot
       /\ Live(s)
       /\ nextSeq' = IF signal = SIGKILL THEN nextSeq + 1 ELSE nextSeq
       /\ proc' = p
       /\ ctx' = IF Terminal(p[s]) THEN [ctx EXCEPT ![s] = "released"] ELSE ctx
       /\ UNCHANGED <<cursor, nextPid, cur, system>>

(* kill(): a foreign target that dies is finalized at once, a self-kill    *)
(* leaves through dispatch(), everything else returns to the caller.       *)
SysKill(s, signal) ==
    LET p == Signal(proc, s, signal, nextSeq)
    IN /\ InUser
       /\ cur # InitSlot
       /\ Live(s)
       /\ nextSeq' = IF signal = SIGKILL THEN nextSeq + 1 ELSE nextSeq
       /\ IF s = cur /\ Terminal(p[s])
          THEN ReturnToKernel(p)
          ELSE /\ proc' = p
               /\ ctx' = IF Terminal(p[s]) THEN [ctx EXCEPT ![s] = "released"]
                                           ELSE ctx
               /\ UNCHANGED cur
       /\ UNCHANGED <<cursor, nextPid, system>>

(* wait(): the first candidate to have terminated is finalized, reaped and *)
(* forgotten.                                                              *)
SysWaitReaps(which) ==
    LET C == Candidates(proc, cur, which)
        c == EarliestTerminal(proc, C)
    IN /\ InUser
       /\ \E x \in C : Terminal(proc[x])
       /\ proc' = ReapSlot(proc, cur, c)
       /\ ctx' = [ctx EXCEPT ![c] = "none"]
       /\ UNCHANGED <<cursor, nextPid, nextSeq, cur, system>>

(* No candidate has terminated: block, and retry the call when woken.      *)
SysWaitBlocks(which) ==
    LET C == Candidates(proc, cur, which)
    IN /\ InUser
       /\ C # {}
       /\ \A x \in C : ~Terminal(proc[x])
       /\ ReturnToKernel(BlockForChild(proc, cur, which))
       /\ UNCHANGED <<cursor, nextPid, nextSeq, system>>

(* requestNormalShutdown(): the shell asks and exits; init's own call is   *)
(* accepted only once the shell's handle names nobody.                     *)
SysShutdown ==
    /\ InUser
    /\ ~boot.shutdown
    /\ proc[cur].pid \in {1, 2}
    /\ \/ /\ HandleOf(proc, cur) = boot.shell
          /\ boot' = [boot EXCEPT !.exitAsked = TRUE]
       \/ /\ cur = InitSlot
          /\ boot.exitAsked
          /\ ~Resolves(proc, boot.shell)
          /\ boot' = [boot EXCEPT !.shutdown = TRUE]
    /\ ReturnToKernel(Exit(proc, cur, nextSeq))
    /\ nextSeq' = nextSeq + 1
    /\ UNCHANGED <<cursor, nextPid, tty>>

-----------------------------------------------------------------------------
Pids    == 1..MaxPid
Waits   == {<<"any">>} \cup ({"pid", "group"} \X Pids)
Signals == {2, SIGKILL, SIGCONT, SIGSTOP}

Kernel == \/ ServiceOne \/ TickExpires \/ TtyInput \/ PowerOff
          \/ \E k \in IoKeys : IoReady(k)
          \/ TtyInterrupt \/ TtySuspend
Timer == TimerPreempts \/ TimerAtCpuLimit
Syscall == \/ SysExit \/ UserFault \/ SysSleep \/ SysYield
           \/ \E k \in IoKeys : SysBlockOnIo(k)
           \/ SysReadTty
           \/ \E g \in Pids : SysSpawn(g) \/ SysSetForeground(g)
           \/ SysSpawnForeground \/ SysSpawnRolledBack \/ SysSpawnBadGroup
           \/ \E s \in Slots, signal \in Signals : SysKill(s, signal)
           \/ \E which \in Waits : SysWaitReaps(which) \/ SysWaitBlocks(which)
           \/ SysShutdown

Next == Kernel \/ Timer \/ Syscall

Spec == Init /\ [][Next]_vars

(* The timer keeps firing and the service loop keeps dispatching.          *)
FairSpec == Spec /\ WF_vars(ServiceOne) /\ WF_vars(TimerPreempts)

-----------------------------------------------------------------------------
(* Properties.                                                             *)

Handles == Slots \X (0..MaxPid)
TypeOK ==
    /\ DOMAIN proc = Slots
    /\ \A s \in Slots :
          /\ proc[s].used \in BOOLEAN /\ proc[s].wgroup \in BOOLEAN
          /\ proc[s].gen \in 0..MaxPid /\ proc[s].pid \in 0..MaxPid
          /\ proc[s].group \in 0..MaxPid /\ proc[s].seq \in 0..MaxPid
          /\ proc[s].parent \in Slots \cup {NoSlot}
          /\ proc[s].state \in States
          /\ proc[s].reason \in {"none", "sleep", "io", "terminal_read", "child"}
          /\ proc[s].kids \in 0..NumSlots
    /\ cursor \in Slots
    /\ nextPid \in 2..(MaxPid + 1)
    /\ nextSeq \in 1..(MaxPid + 1)
    /\ cur \in Slots \cup {NoSlot, Off}
    /\ ctx \in [Slots -> {"none", "active", "released"}]
    /\ tty \in [controller: Handles, foreground: 0..MaxPid]
    /\ boot \in [shell: Handles \cup {NoHandle}, exitAsked: BOOLEAN,
                 shutdown: BOOLEAN]

(* child_count, kept by increments, saturating decrements and transfers on *)
(* spawn, reap, exit and adoption, is the number of the table's slots that *)
(* name the process as their parent: the child quota never drifts.         *)
ChildCountExact ==
    \A s \in Slots : proc[s].used => proc[s].kids = Cardinality(Children(proc, s))

(* Every process but init has a parent in the table that can still wait    *)
(* for it, or init: a slot reused after a reap never inherits children of  *)
(* its former occupant.                                                    *)
OrphansAdopted ==
    \A s \in Slots \ {InitSlot} : proc[s].used =>
        \/ proc[s].parent = InitSlot
        \/ proc[s].parent \in Slots /\ Live(proc[s].parent)

(* Spawn, reap, exit, adoption and rollback keep the family tree whole.    *)
FamilyExact == ChildCountExact /\ OrphansAdopted

(* No lost wakeup: a process blocked in wait has a child the wait covers   *)
(* and none of them is terminal already, whatever exits, kills, faults,    *)
(* stops and continues happened since it blocked.  Init's waits for any    *)
(* child or a group are the exception: adoption does not wake init.        *)
WaitNotLost ==
    \A s \in Slots :
        proc[s].state = "blocked" /\ proc[s].reason = "child" =>
            LET C == {c \in Children(proc, s) : WaitCovers(proc, proc[s], c)}
            IN /\ C # {}
               /\ s # InitSlot \/ Len(proc[s].target) = 2 =>
                     \A c \in C : ~Terminal(proc[c])

(* Only the process at CPL3 is ever running, and it is alive with its      *)
(* context installed: a process killed, interrupted or reaped by another   *)
(* is never returned to.                                                   *)
OnlyCurrentRuns ==
    /\ \A s \in Slots : proc[s].state = "running" => s = cur
    /\ InUser => Live(cur) /\ ctx[cur] = "active"

(* The context table follows the process table: every live process has its *)
(* context, none survives its process, and resources are released only     *)
(* once the process is terminal.                                           *)
ContextMatches ==
    \A s \in Slots : /\ ctx[s] = "none" <=> ~proc[s].used
                     /\ ctx[s] = "released" => Terminal(proc[s])

(* Whoever is blocked reading the terminal is in the group that owns it:   *)
(* a reader left behind by a foreground handoff would sleep through every  *)
(* line meant for others and hold up the shell's cleanup.                  *)
ReadersInForeground ==
    \A s \in Slots : proc[s].state = "blocked" /\ proc[s].reason = "terminal_read"
        => proc[s].group = tty.foreground

(* Shutdown is reached only through the shell's own request, after init    *)
(* reaped it, and by then init has left CPL3 for good.                     *)
ShutdownAfterShell ==
    boot.shutdown => /\ boot.exitAsked
                     /\ ~Resolves(proc, boot.shell)
                     /\ proc[InitSlot].state = "zombie"

(* The process table, the CPL3 contexts and the boot policy agree after    *)
(* any series of kills, faults, rolled-back spawns, reaps and shutdown     *)
(* requests, slot reuse included.                                          *)
RuntimeConsistent == TypeOK /\ OnlyCurrentRuns /\ ContextMatches /\ ShutdownAfterShell

(* A terminal process changes only by being adopted or reaped: no late     *)
(* wakeup, signal, tick or dispatch revives it, and its place in the       *)
(* order of terminations is kept for wait.                                 *)
TerminalIsFinal ==
    [][\A s \in Slots : proc[s].used /\ Terminal(proc[s]) =>
          \/ /\ proc'[s].state = proc[s].state /\ proc'[s].seq = proc[s].seq
             /\ proc'[s].pid = proc[s].pid
          \/ ~proc'[s].used]_vars

(* Round robin: a runnable process is dispatched or stops being runnable,  *)
(* whatever the others do.                                                 *)
RunnableDispatched ==
    \A s \in Slots : proc[s].state = "runnable"
                        ~> cur = s \/ cur = Off \/ proc[s].state # "runnable"
=============================================================================
