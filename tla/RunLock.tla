------------------------------ MODULE RunLock ------------------------------
(***************************************************************************)
(* The run lock of the QEMU gates: the lock file that is to keep two runs  *)
(* of one gate apart, and the temporary work directory of each run.        *)
(*                                                                         *)
(* test-boot-fat-io-error.py and test-persistent-readonly-remount.py hold  *)
(* the same code: create the file exclusively, write the PID into it,      *)
(* recover a file whose owner is not running.  test-x86_64-persistence.py  *)
(* creates the file exclusively and keeps no owner (RecordsOwner = FALSE). *)
(* QEMU processes are not part of the state: no step of a gate asks for    *)
(* one that outlived its run.                                              *)
(***************************************************************************)
EXTENDS Naturals, FiniteSets

CONSTANTS
    Runs,          \* the processes that run the gate
    Pids,          \* the PIDs of the host, which it gives out again
    MaxOthers,     \* bound on the processes that are not runs of the gate
    RecordsOwner   \* the lock file holds the owner's PID

ASSUME RunLockAssumption == MaxOthers \in Nat /\ RecordsOwner \in BOOLEAN

NoFile  == [by |-> "nobody", pid |-> "nobody"]
Unknown == "nobody"   \* owner 0: missing, unreadable or empty lock file

ASSUME UnknownAssumption == Unknown \notin Runs /\ Unknown \notin Pids

VARIABLES
    pc,      \* where each run is
    pid,     \* the PID of each run that has started
    others,  \* PIDs in use by processes that are not runs of the gate
    lock,    \* the lock file: who created it, and the PID written in it
    seen,    \* the owner each run read last
    tries,   \* attempts of the acquire loop that ended in an unlink
    work,    \* runs whose work directory exists
    company, \* history: runs that saw another one create the file meanwhile
    sole     \* history: runs that took the lock while no other was half way

host    == <<pid, others>>
history == <<company, sole>>
vars    == <<pc, host, lock, seen, tries, work, history>>

MaxTries == 2

Acquiring == {"open", "inspect", "probe", "unlink", "record"}
Holding   == {"sweep", "make_work", "launch", "session", "release", "unlink_own"}
Leaving   == {"tidy", "atexit", "atexit_unlink"}
Over      == {"idle", "done", "refused", "dead"}
Locations == Acquiring \cup Holding \cup Leaving \cup Over

\* Where a run has not looked at the lock file, or will look at it again before
\* it unlinks anything.
Fresh == {"open", "inspect", "tidy", "atexit"} \cup Over

\* process_is_running: signal 0 reaches the PID, whoever has it by now.
IsRunning(x) == x \in others \/ \E q \in Runs : pc[q] \notin Over /\ pid[q] = x

Init ==
    /\ pc = [p \in Runs |-> "idle"]
    /\ pid = [p \in Runs |-> Unknown] /\ others = {}
    /\ lock = NoFile
    /\ seen = [p \in Runs |-> Unknown]
    /\ tries = [p \in Runs |-> 0]
    /\ work = {}
    /\ company = {} /\ sole = {}

Goto(p, l) == pc' = [pc EXCEPT ![p] = l]

----------------------------------------------------------------------------
(* acquire_run_lock *)

Start(p) ==
    /\ pc[p] = "idle"
    /\ \E x \in Pids : ~IsRunning(x) /\ pid' = [pid EXCEPT ![p] = x]
    /\ Goto(p, "open")
    /\ UNCHANGED <<others, lock, seen, tries, work, history>>

\* os.open with O_CREAT | O_EXCL creates an empty file ...
CreateLock(p) ==
    /\ pc[p] = "open"
    /\ lock = NoFile
    /\ lock' = [by |-> p, pid |-> Unknown]
    /\ Goto(p, IF RecordsOwner THEN "record" ELSE "sweep")
    /\ company' = company \cup {q \in Runs \ {p} : pc[q] \in Acquiring}
    /\ UNCHANGED <<host, seen, tries, work, sole>>

\* ... or raises FileExistsError, which ends a run that keeps no owner.
LockExists(p) ==
    /\ pc[p] = "open"
    /\ lock # NoFile
    /\ Goto(p, IF RecordsOwner THEN "inspect" ELSE "refused")
    /\ UNCHANGED <<host, lock, seen, tries, work, history>>

ReadOwner(p) ==
    /\ pc[p] = "inspect"
    /\ seen' = [seen EXCEPT ![p] = lock.pid]
    /\ Goto(p, "probe")
    /\ UNCHANGED <<host, lock, tries, work, history>>

\* Mutant: every recorded owner is taken for dead.
ProbeOwnerNever(p) ==
    /\ pc[p] = "probe"
    /\ Goto(p, "unlink")
    /\ UNCHANGED <<host, lock, seen, tries, work, history>>

ProbeOwner(p) ==
    /\ pc[p] = "probe"
    /\ Goto(p, IF IsRunning(seen[p]) THEN "refused" ELSE "unlink")
    /\ UNCHANGED <<host, lock, seen, tries, work, history>>

\* Mutant: range(1): the first attempt gives up after the unlink.
UnlinkStaleOnce(p) ==
    /\ pc[p] = "unlink"
    /\ lock' = NoFile
    /\ tries' = [tries EXCEPT ![p] = @ + 1]
    /\ Goto(p, "refused")
    /\ UNCHANGED <<host, seen, work, history>>

\* unlink(missing_ok=True) removes whatever file has the name by now.
UnlinkStale(p) ==
    /\ pc[p] = "unlink"
    /\ lock' = NoFile
    /\ tries' = [tries EXCEPT ![p] = @ + 1]
    /\ Goto(p, IF tries[p] + 1 < MaxTries THEN "open" ELSE "refused")
    /\ UNCHANGED <<host, seen, work, history>>

\* The PID goes to the file this run created, which may have lost its name.
RecordOwner(p) ==
    /\ pc[p] = "record"
    /\ lock' = IF lock.by = p THEN [lock EXCEPT !.pid = pid[p]] ELSE lock
    /\ sole' = IF lock.by = p /\ \A q \in Runs \ {p} : pc[q] \in Fresh
               THEN sole \cup {p} ELSE sole
    /\ Goto(p, "sweep")
    /\ UNCHANGED <<host, seen, tries, work, company>>

----------------------------------------------------------------------------
(* The run itself: stale work directories go, its own is made, QEMU runs. *)

RemoveStaleWorkdirs(p) ==
    /\ pc[p] = "sweep"
    /\ work' = {}
    /\ Goto(p, "make_work")
    /\ UNCHANGED <<host, lock, seen, tries, history>>

MakeWork(p) ==
    /\ pc[p] = "make_work"
    /\ work' = work \cup {p}
    /\ Goto(p, "launch")
    /\ UNCHANGED <<host, lock, seen, tries, history>>

\* Where a run goes when its work is over: to the release in its finally; or
\* past it, when the gate has none or the check that the shared zig-out kept
\* its identity raises first; without an owner, straight to the unlink.
Exits == IF RecordsOwner THEN {"release", "atexit"} ELSE {"unlink_own"}

\* The build or the image may fail before QEMU exists.
LaunchQemu(p) ==
    /\ pc[p] = "launch"
    /\ Goto(p, "session")
    /\ UNCHANGED <<host, lock, seen, tries, work, history>>

SetupFails(p) ==
    /\ pc[p] = "launch"
    /\ \E l \in Exits : Goto(p, l)
    /\ UNCHANGED <<host, lock, seen, tries, work, history>>

\* The finally of every outcome of the session kills QEMU and waits for it; the
\* run goes the same ways if that wait times out and QEMU is still there.
EndSession(p) ==
    /\ pc[p] = "session"
    /\ \E l \in Exits : Goto(p, l)
    /\ UNCHANGED <<host, lock, seen, tries, work, history>>

----------------------------------------------------------------------------
(* release_run_lock, from the finally and again from atexit. *)

ReadOwn(p) ==
    /\ pc[p] \in {"release", "atexit"}
    /\ seen' = [seen EXCEPT ![p] = lock.pid]
    /\ Goto(p, IF pc[p] = "release" THEN "unlink_own" ELSE "atexit_unlink")
    /\ UNCHANGED <<host, lock, tries, work, history>>

\* Mutant: the release only reads.
UnlinkOwnSkipped(p) ==
    /\ pc[p] \in {"unlink_own", "atexit_unlink"}
    /\ Goto(p, IF pc[p] = "unlink_own" /\ RecordsOwner THEN "tidy" ELSE "done")
    /\ UNCHANGED <<host, lock, seen, tries, work, history>>

\* A run that keeps no owner unlinks in its finally and has no second pass.
UnlinkOwn(p) ==
    /\ pc[p] \in {"unlink_own", "atexit_unlink"}
    /\ lock' = IF seen[p] = pid[p] \/ ~RecordsOwner THEN NoFile ELSE lock
    /\ Goto(p, IF pc[p] = "unlink_own" /\ RecordsOwner THEN "tidy" ELSE "done")
    /\ UNCHANGED <<host, seen, tries, work, history>>

\* A successful run removes its own directory, after the lock is gone.
Tidy(p) ==
    /\ pc[p] = "tidy"
    /\ work' \in {work, work \ {p}}
    /\ Goto(p, "atexit")
    /\ UNCHANGED <<host, lock, seen, tries, history>>

----------------------------------------------------------------------------
\* The process is killed: no finally and no atexit.
Crash(p) ==
    /\ pc[p] \notin Over
    /\ Goto(p, "dead")
    /\ UNCHANGED <<host, lock, seen, tries, work, history>>

\* The host starts and ends other processes, with any PID that is free.
OtherProcess ==
    /\ \/ /\ Cardinality(others) < MaxOthers
          /\ \E x \in Pids : ~IsRunning(x) /\ others' = others \cup {x}
       \/ \E x \in others : others' = others \ {x}
    /\ UNCHANGED <<pc, pid, lock, seen, tries, work, history>>

RunStep(p) ==
    \/ Start(p) \/ CreateLock(p) \/ LockExists(p)
    \/ ReadOwner(p) \/ ProbeOwner(p) \/ UnlinkStale(p) \/ RecordOwner(p)
    \/ RemoveStaleWorkdirs(p) \/ MakeWork(p) \/ LaunchQemu(p) \/ SetupFails(p)
    \/ EndSession(p) \/ ReadOwn(p) \/ UnlinkOwn(p) \/ Tidy(p) \/ Crash(p)

Next == (\E p \in Runs : RunStep(p)) \/ OtherProcess

Spec == Init /\ [][Next]_vars

----------------------------------------------------------------------------
(* Properties *)

Files == {NoFile} \cup [by : Runs, pid : Pids \cup {Unknown}]

\* Type correctness of the lock file, the runs, their PIDs and what they read.
TypeOK ==
    /\ pc \in [Runs -> Locations]
    /\ pid \in [Runs -> Pids \cup {Unknown}]
    /\ others \subseteq Pids
    /\ lock \in Files
    /\ seen \in [Runs -> Pids \cup {Unknown}]
    /\ tries \in [Runs -> 0..MaxTries]
    /\ work \subseteq Runs
    /\ company \subseteq Runs /\ sole \subseteq Runs

\* "rejects duplicate concurrent runs": at most one run is between its
\* acquire_run_lock and the unlink of its release_run_lock.
Exclusive ==
    \A p, q \in Runs : pc[p] \in Holding /\ pc[q] \in Holding => p = q

\* The directory of a run in its session is never swept by another run's
\* remove_stale_workdirs: the image QEMU writes stays where it is.
WorkdirKept(p) == pc[p] \in {"launch", "session", "release"} => p \in work

\* What acquire_run_lock does give: a run that wrote its PID while no other was
\* between looking at the file and acting on it has the lock to itself until
\* its release, however many runs start, give up, leave or die meanwhile and
\* whoever gets their PIDs; the file names it and nobody sweeps its directory.
SoleHolds ==
    /\ TypeOK
    /\ \A p \in sole : pc[p] \in Holding =>
         /\ \A q \in Runs \ {p} : pc[q] \notin Holding
         /\ lock = [by |-> p, pid |-> pid[p]]
         /\ WorkdirKept(p)

\* A lock left by a killed run, empty or with a PID that is free, is recovered:
\* a run is turned away only by a PID in use, or when others acquired meanwhile.
RefusedOnlyInCompany ==
    [][\A p \in Runs : pc[p] # "refused" /\ pc'[p] = "refused" =>
          (pc[p] = "probe" /\ IsRunning(seen[p])) \/ p \in company]_vars

\* A lock file outlives the run that created it only if that run was killed:
\* every other way out of the gate, past the release too, has removed it.
LeftOnlyByKilled ==
    \A p \in Runs : lock.by = p /\ pc[p] \in Over => pc[p] = "dead"

----------------------------------------------------------------------------
(* The inductive invariants *)

\* A PID in use is that of one process.
PidsApart ==
    \A p \in Runs : pc[p] \notin Over =>
        /\ pid[p] \in Pids \ others
        /\ \A q \in Runs \ {p} : pc[q] \notin Over => pid[q] # pid[p]

\* Why a sole holder keeps the lock: nobody is on its way to an unlink, and
\* who looks finds a PID in use that is not its own.
SolePast == \A p \in sole : pc[p] \notin {"idle"} \cup Acquiring
SoleGuarded ==
    \A p \in sole : pc[p] \in Holding =>
        /\ lock = [by |-> p, pid |-> pid[p]]
        /\ \A q \in Runs \ {p} :
             /\ pc[q] \notin Holding \cup {"record", "unlink"}
             /\ pc[q] = "probe" => seen[q] = pid[p]
             /\ pc[q] = "atexit_unlink" => seen[q] # pid[q]
SoleWork == \A p \in sole : WorkdirKept(p)

\* The second attempt finds no file unless another run has created one.
RetryIsFree ==
    \A p \in Runs :
        /\ pc[p] = "idle" => tries[p] = 0
        /\ pc[p] \in {"inspect", "probe", "unlink"} => tries[p] = 0 \/ (tries[p] = 1 /\ p \in company)
        /\ pc[p] = "open" => tries[p] = 0 \/ (tries[p] = 1 /\ (lock = NoFile \/ p \in company))

\* The creator of the file stays in the gate until the file is gone or it is
\* killed, and it reads its own PID before it leaves.
CreatorStays ==
    \A p \in Runs : lock.by = p =>
        /\ pc[p] \in {"record", "atexit", "atexit_unlink", "dead"} \cup Holding
        /\ pc[p] \in {"atexit", "atexit_unlink"} \cup Holding => lock.pid = pid[p]
        /\ pc[p] \in {"unlink_own", "atexit_unlink"} => seen[p] = pid[p]

\* The lock protocol as a whole, for runs that record their owner.
LockInv ==
    /\ TypeOK /\ PidsApart
    /\ SolePast /\ SoleGuarded /\ SoleWork
    /\ RetryIsFree /\ CreatorStays

\* The lock of the persistence gate, without an owner in the file: the run that
\* created the file is the only one past the open.
BareInv ==
    /\ TypeOK
    /\ \A p \in Runs : pc[p] \in Holding => lock.by = p
    /\ \A p \in Runs : pc[p] \in {"open"} \cup (Holding \ {"release"}) \cup Over
    /\ \A p \in Runs : WorkdirKept(p)

=============================================================================
