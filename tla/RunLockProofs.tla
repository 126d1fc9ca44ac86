---------------------------- MODULE RunLockProofs ----------------------------
(***************************************************************************)
(* Proofs about module RunLock, for any set of runs and PIDs, however the  *)
(* runs overlap and wherever they fail or are killed.                      *)
(*                                                                         *)
(* With an owner in the file LockInv is inductive; exclusion is not among  *)
(* its consequences, as two runs that acquire at once may both hold the    *)
(* lock, but a sole run has it to itself.  Without an owner the file alone *)
(* keeps the runs apart (BareInv).                                         *)
(***************************************************************************)
EXTENDS RunLock, TLAPS

USE DEF NoFile, Unknown, MaxTries, Files, Goto, Exits, host, history
USE DEF Acquiring, Holding, Leaving, Over, Locations, Fresh

(* Nobody has started and there is no file.                                *)
LEMMA InitLockInv == Init => LockInv
  BY UnknownAssumption
  DEF Init, LockInv, TypeOK, PidsApart, SolePast, SoleGuarded, SoleWork,
      RetryIsFree, CreatorStays

-----------------------------------------------------------------------------
(* acquire_run_lock, the run, release_run_lock.                            *)

(* A run that comes alive takes a PID nobody has, that of a holder least of *)
(* all, and has not looked at the lock yet.                                *)
LEMMA StartKeeps ==
    ASSUME LockInv, RecordsOwner, NEW p \in Runs, Start(p)
    PROVE  LockInv'
  <1>1. PidsApart'
    BY UnknownAssumption
    DEF LockInv, TypeOK, PidsApart, IsRunning, Start
  <1>2. SoleGuarded'
    BY UnknownAssumption
    DEF LockInv, TypeOK, PidsApart, SoleGuarded, Start
  <1>3. TypeOK' /\ SolePast' /\ SoleWork'
    BY UnknownAssumption
    DEF LockInv, TypeOK, SolePast, SoleWork, WorkdirKept, Start
  <1>4. RetryIsFree' /\ CreatorStays'
    BY UnknownAssumption
    DEF LockInv, TypeOK, RetryIsFree, CreatorStays, Start
  <1> QED BY <1>1, <1>2, <1>3, <1>4 DEF LockInv

(* There was no file, so no sole run holds the lock; whoever is acquiring  *)
(* has company now.                                                        *)
LEMMA CreateLockKeeps ==
    ASSUME LockInv, RecordsOwner, NEW p \in Runs, CreateLock(p)
    PROVE  LockInv'
  <1>1. SoleGuarded'
    BY UnknownAssumption
    DEF LockInv, TypeOK, SoleGuarded, CreateLock
  <1>2. TypeOK' /\ PidsApart' /\ SolePast'
    BY UnknownAssumption
    DEF LockInv, TypeOK, PidsApart, SolePast, CreateLock
  <1>3. SoleWork' /\ RetryIsFree' /\ CreatorStays'
    BY UnknownAssumption
    DEF LockInv, TypeOK, SoleWork, RetryIsFree, CreatorStays, WorkdirKept,
        CreateLock
  <1> QED BY <1>1, <1>2, <1>3 DEF LockInv

(* A second attempt that finds a file has company.                         *)
LEMMA LockExistsKeeps ==
    ASSUME LockInv, RecordsOwner, NEW p \in Runs, LockExists(p)
    PROVE  LockInv'
  <1>1. TypeOK' /\ PidsApart' /\ SolePast'
    BY UnknownAssumption
    DEF LockInv, TypeOK, PidsApart, SolePast, LockExists
  <1>2. SoleGuarded' /\ SoleWork' /\ RetryIsFree'
    BY UnknownAssumption
    DEF LockInv, TypeOK, SoleGuarded, SoleWork, RetryIsFree, WorkdirKept,
        LockExists
  <1>3. CreatorStays'
    BY UnknownAssumption
    DEF LockInv, TypeOK, CreatorStays, LockExists
  <1> QED BY <1>1, <1>2, <1>3 DEF LockInv

(* What is read under a sole holder is its PID.                            *)
LEMMA ReadOwnerKeeps ==
    ASSUME LockInv, RecordsOwner, NEW p \in Runs, ReadOwner(p)
    PROVE  LockInv'
  <1>1. SoleGuarded'
    BY UnknownAssumption
    DEF LockInv, TypeOK, SoleGuarded, ReadOwner
  <1>2. TypeOK' /\ PidsApart' /\ SolePast'
    BY UnknownAssumption
    DEF LockInv, TypeOK, PidsApart, SolePast, ReadOwner
  <1>3. SoleWork' /\ RetryIsFree' /\ CreatorStays'
    BY UnknownAssumption
    DEF LockInv, TypeOK, SoleWork, RetryIsFree, CreatorStays, WorkdirKept,
        ReadOwner
  <1> QED BY <1>1, <1>2, <1>3 DEF LockInv

(* The PID of a sole holder is in use: nobody goes on to the unlink.       *)
LEMMA ProbeOwnerKeeps ==
    ASSUME LockInv, RecordsOwner, NEW p \in Runs, ProbeOwner(p)
    PROVE  LockInv'
  <1>1. SoleGuarded'
    BY UnknownAssumption
    DEF LockInv, TypeOK, SoleGuarded, IsRunning, ProbeOwner
  <1>2. TypeOK' /\ PidsApart' /\ SolePast'
    BY UnknownAssumption
    DEF LockInv, TypeOK, PidsApart, SolePast, ProbeOwner
  <1>3. SoleWork' /\ RetryIsFree' /\ CreatorStays'
    BY UnknownAssumption
    DEF LockInv, TypeOK, SoleWork, RetryIsFree, CreatorStays, WorkdirKept,
        ProbeOwner
  <1> QED BY <1>1, <1>2, <1>3 DEF LockInv

(* Nobody unlinks under a sole holder; the next attempt finds no file.     *)
LEMMA UnlinkStaleKeeps ==
    ASSUME LockInv, RecordsOwner, NEW p \in Runs, UnlinkStale(p)
    PROVE  LockInv'
  <1>1. TypeOK'
    BY UnknownAssumption
    DEF LockInv, TypeOK, RetryIsFree, UnlinkStale
  <1>2. SoleGuarded'
    BY UnknownAssumption
    DEF LockInv, TypeOK, SoleGuarded, UnlinkStale
  <1>3. PidsApart' /\ SolePast' /\ SoleWork'
    BY UnknownAssumption
    DEF LockInv, TypeOK, PidsApart, SolePast, SoleWork, WorkdirKept,
        UnlinkStale
  <1>4. RetryIsFree' /\ CreatorStays'
    BY UnknownAssumption
    DEF LockInv, TypeOK, RetryIsFree, CreatorStays, UnlinkStale
  <1> QED BY <1>1, <1>2, <1>3, <1>4 DEF LockInv

(* A run that becomes sole finds the others away from the lock file.       *)
LEMMA RecordOwnerKeeps ==
    ASSUME LockInv, RecordsOwner, NEW p \in Runs, RecordOwner(p)
    PROVE  LockInv'
  <1>1. SoleGuarded'
    BY UnknownAssumption
    DEF LockInv, TypeOK, SolePast, SoleGuarded, RecordOwner
  <1>2. SoleWork'
    BY UnknownAssumption
    DEF LockInv, TypeOK, SoleGuarded, SoleWork, WorkdirKept, RecordOwner
  <1>3. CreatorStays'
    BY UnknownAssumption
    DEF LockInv, TypeOK, CreatorStays, RecordOwner
  <1>4. TypeOK' /\ PidsApart' /\ SolePast'
    BY UnknownAssumption
    DEF LockInv, TypeOK, PidsApart, SolePast, RecordOwner
  <1>5. RetryIsFree'
    BY UnknownAssumption
    DEF LockInv, TypeOK, RetryIsFree, RecordOwner
  <1> QED BY <1>1, <1>2, <1>3, <1>4, <1>5 DEF LockInv

(* The sweep of a run that is not sole meets no sole holder.               *)
LEMMA RemoveStaleWorkdirsKeeps ==
    ASSUME LockInv, RecordsOwner, NEW p \in Runs, RemoveStaleWorkdirs(p)
    PROVE  LockInv'
  <1>1. SoleWork'
    BY UnknownAssumption
    DEF LockInv, TypeOK, SoleGuarded, SoleWork, WorkdirKept,
        RemoveStaleWorkdirs
  <1>2. TypeOK' /\ PidsApart' /\ SolePast'
    BY UnknownAssumption
    DEF LockInv, TypeOK, PidsApart, SolePast, RemoveStaleWorkdirs
  <1>3. SoleGuarded' /\ RetryIsFree' /\ CreatorStays'
    BY UnknownAssumption
    DEF LockInv, TypeOK, SoleGuarded, RetryIsFree, CreatorStays,
        RemoveStaleWorkdirs
  <1> QED BY <1>1, <1>2, <1>3 DEF LockInv

(* A new directory disturbs nobody.                                        *)
LEMMA MakeWorkKeeps ==
    ASSUME LockInv, RecordsOwner, NEW p \in Runs, MakeWork(p)
    PROVE  LockInv'
  <1>1. TypeOK' /\ PidsApart' /\ SolePast'
    BY UnknownAssumption
    DEF LockInv, TypeOK, PidsApart, SolePast, MakeWork
  <1>2. SoleGuarded' /\ SoleWork' /\ RetryIsFree'
    BY UnknownAssumption
    DEF LockInv, TypeOK, SoleGuarded, SoleWork, RetryIsFree, WorkdirKept,
        MakeWork
  <1>3. CreatorStays'
    BY UnknownAssumption
    DEF LockInv, TypeOK, CreatorStays, MakeWork
  <1> QED BY <1>1, <1>2, <1>3 DEF LockInv

(* A step of a run that keeps its place among the holders.                 *)
LEMMA LaunchQemuKeeps ==
    ASSUME LockInv, RecordsOwner, NEW p \in Runs, LaunchQemu(p)
    PROVE  LockInv'
  <1>1. TypeOK' /\ PidsApart' /\ SolePast'
    BY UnknownAssumption
    DEF LockInv, TypeOK, PidsApart, SolePast, LaunchQemu
  <1>2. SoleGuarded' /\ SoleWork' /\ RetryIsFree'
    BY UnknownAssumption
    DEF LockInv, TypeOK, SoleGuarded, SoleWork, RetryIsFree, WorkdirKept,
        LaunchQemu
  <1>3. CreatorStays'
    BY UnknownAssumption
    DEF LockInv, TypeOK, CreatorStays, LaunchQemu
  <1> QED BY <1>1, <1>2, <1>3 DEF LockInv

(* A run that skips the release leaves its PID in the file for atexit.     *)
LEMMA SetupFailsKeeps ==
    ASSUME LockInv, RecordsOwner, NEW p \in Runs, SetupFails(p)
    PROVE  LockInv'
  <1>1. TypeOK' /\ PidsApart' /\ SolePast'
    BY UnknownAssumption
    DEF LockInv, TypeOK, PidsApart, SolePast, SetupFails
  <1>2. SoleGuarded' /\ SoleWork' /\ RetryIsFree'
    BY UnknownAssumption
    DEF LockInv, TypeOK, SoleGuarded, SoleWork, RetryIsFree, WorkdirKept,
        SetupFails
  <1>3. CreatorStays'
    BY UnknownAssumption
    DEF LockInv, TypeOK, CreatorStays, SetupFails
  <1> QED BY <1>1, <1>2, <1>3 DEF LockInv

(* The same after a session.                                               *)
LEMMA EndSessionKeeps ==
    ASSUME LockInv, RecordsOwner, NEW p \in Runs, EndSession(p)
    PROVE  LockInv'
  <1>1. TypeOK' /\ PidsApart' /\ SolePast'
    BY UnknownAssumption
    DEF LockInv, TypeOK, PidsApart, SolePast, EndSession
  <1>2. SoleGuarded' /\ SoleWork' /\ RetryIsFree'
    BY UnknownAssumption
    DEF LockInv, TypeOK, SoleGuarded, SoleWork, RetryIsFree, WorkdirKept,
        EndSession
  <1>3. CreatorStays'
    BY UnknownAssumption
    DEF LockInv, TypeOK, CreatorStays, EndSession
  <1> QED BY <1>1, <1>2, <1>3 DEF LockInv

(* The creator reads its own PID, and nobody else reads theirs in it.      *)
LEMMA ReadOwnKeeps ==
    ASSUME LockInv, RecordsOwner, NEW p \in Runs, ReadOwn(p)
    PROVE  LockInv'
  <1>1. SoleGuarded'
    BY UnknownAssumption
    DEF LockInv, TypeOK, PidsApart, SoleGuarded, CreatorStays, ReadOwn
  <1>2. TypeOK' /\ PidsApart' /\ SolePast'
    BY UnknownAssumption
    DEF LockInv, TypeOK, PidsApart, SolePast, ReadOwn
  <1>3. SoleWork' /\ RetryIsFree' /\ CreatorStays'
    BY UnknownAssumption
    DEF LockInv, TypeOK, SoleWork, RetryIsFree, CreatorStays, WorkdirKept,
        ReadOwn
  <1> QED BY <1>1, <1>2, <1>3 DEF LockInv

(* Who has read its own PID is not outside a sole holder.                  *)
LEMMA UnlinkOwnKeeps ==
    ASSUME LockInv, RecordsOwner, NEW p \in Runs, UnlinkOwn(p)
    PROVE  LockInv'
  <1>1. SoleGuarded'
    BY UnknownAssumption
    DEF LockInv, TypeOK, SoleGuarded, CreatorStays, UnlinkOwn
  <1>2. TypeOK' /\ PidsApart' /\ SolePast'
    BY UnknownAssumption
    DEF LockInv, TypeOK, PidsApart, SolePast, UnlinkOwn
  <1>3. SoleWork' /\ RetryIsFree' /\ CreatorStays'
    BY UnknownAssumption
    DEF LockInv, TypeOK, SoleWork, RetryIsFree, CreatorStays, WorkdirKept,
        UnlinkOwn
  <1> QED BY <1>1, <1>2, <1>3 DEF LockInv

(* The directory that goes belongs to a run that has left.                 *)
LEMMA TidyKeeps ==
    ASSUME LockInv, RecordsOwner, NEW p \in Runs, Tidy(p)
    PROVE  LockInv'
  <1>1. SoleWork'
    BY UnknownAssumption
    DEF LockInv, TypeOK, SoleGuarded, SoleWork, WorkdirKept, Tidy
  <1>2. TypeOK' /\ PidsApart' /\ SolePast'
    BY UnknownAssumption
    DEF LockInv, TypeOK, PidsApart, SolePast, Tidy
  <1>3. SoleGuarded' /\ RetryIsFree' /\ CreatorStays'
    BY UnknownAssumption
    DEF LockInv, TypeOK, SoleGuarded, RetryIsFree, CreatorStays, Tidy
  <1> QED BY <1>1, <1>2, <1>3 DEF LockInv

(* A process that dies only makes fewer processes run.                     *)
LEMMA CrashKeeps ==
    ASSUME LockInv, RecordsOwner, NEW p \in Runs, Crash(p)
    PROVE  LockInv'
  <1>1. TypeOK' /\ PidsApart' /\ SolePast'
    BY UnknownAssumption
    DEF LockInv, TypeOK, PidsApart, SolePast, Crash
  <1>2. SoleGuarded' /\ SoleWork' /\ RetryIsFree'
    BY UnknownAssumption
    DEF LockInv, TypeOK, SoleGuarded, SoleWork, RetryIsFree, WorkdirKept,
        Crash
  <1>3. CreatorStays'
    BY UnknownAssumption
    DEF LockInv, TypeOK, CreatorStays, Crash
  <1> QED BY <1>1, <1>2, <1>3 DEF LockInv

(* Another process takes a PID nobody has, or gives one up.                *)
LEMMA OtherProcessKeeps ==
    ASSUME LockInv, RecordsOwner, OtherProcess
    PROVE  LockInv'
  <1>1. TypeOK' /\ PidsApart'
    BY DEF LockInv, TypeOK, PidsApart, IsRunning, OtherProcess
  <1>2. SolePast' /\ SoleGuarded' /\ SoleWork' /\ RetryIsFree' /\ CreatorStays'
    BY DEF LockInv, SolePast, SoleGuarded, SoleWork, WorkdirKept,
           RetryIsFree, CreatorStays, OtherProcess
  <1> QED BY <1>1, <1>2 DEF LockInv

-----------------------------------------------------------------------------
(* A step of the system preserves the invariant.                           *)
LEMMA NextLockInv ==
    ASSUME LockInv, RecordsOwner, [Next]_vars
    PROVE  LockInv'
  <1>1. CASE UNCHANGED vars
    BY <1>1
    DEF vars, LockInv, TypeOK, PidsApart, SolePast, SoleGuarded, SoleWork,
        WorkdirKept, RetryIsFree, CreatorStays
  <1>2. CASE OtherProcess
    BY <1>2, OtherProcessKeeps
  <1>3. ASSUME NEW p \in Runs, RunStep(p)
        PROVE  LockInv'
    <2>1. CASE Start(p)
      BY <2>1, StartKeeps
    <2>2. CASE CreateLock(p)
      BY <2>2, CreateLockKeeps
    <2>3. CASE LockExists(p)
      BY <2>3, LockExistsKeeps
    <2>4. CASE ReadOwner(p)
      BY <2>4, ReadOwnerKeeps
    <2>5. CASE ProbeOwner(p)
      BY <2>5, ProbeOwnerKeeps
    <2>6. CASE UnlinkStale(p)
      BY <2>6, UnlinkStaleKeeps
    <2>7. CASE RecordOwner(p)
      BY <2>7, RecordOwnerKeeps
    <2>8. CASE RemoveStaleWorkdirs(p)
      BY <2>8, RemoveStaleWorkdirsKeeps
    <2>9. CASE MakeWork(p)
      BY <2>9, MakeWorkKeeps
    <2>10. CASE LaunchQemu(p)
      BY <2>10, LaunchQemuKeeps
    <2>11. CASE SetupFails(p)
      BY <2>11, SetupFailsKeeps
    <2>12. CASE EndSession(p)
      BY <2>12, EndSessionKeeps
    <2>13. CASE ReadOwn(p)
      BY <2>13, ReadOwnKeeps
    <2>14. CASE UnlinkOwn(p)
      BY <2>14, UnlinkOwnKeeps
    <2>15. CASE Tidy(p)
      BY <2>15, TidyKeeps
    <2>16. CASE Crash(p)
      BY <2>16, CrashKeeps
    <2> QED BY <1>3, <2>1, <2>2, <2>3, <2>4, <2>5, <2>6, <2>7, <2>8, <2>9, <2>10,
            <2>11, <2>12, <2>13, <2>14, <2>15, <2>16
            DEF RunStep
  <1> QED BY <1>1, <1>2, <1>3 DEF Next

(* The protocol of acquire_run_lock and release_run_lock as a whole,       *)
(* wherever the runs fail or die and whoever gets their PIDs.              *)
THEOREM LockInvariant ==
    ASSUME RecordsOwner
    PROVE  Spec => []LockInv
  <1>1. Init => LockInv
    BY InitLockInv
  <1>2. LockInv /\ [Next]_vars => LockInv'
    BY NextLockInv
  <1> QED BY <1>1, <1>2, PTL DEF Spec

(* A run that took the lock while no other was half way has it to itself   *)
(* until its release, the file names it and its directory stays.           *)
THEOREM SoleRunHolds ==
    ASSUME RecordsOwner
    PROVE  Spec => []SoleHolds
  <1>1. LockInv => SoleHolds
    BY DEF LockInv, SoleGuarded, SoleWork, SoleHolds
  <1> QED BY <1>1, LockInvariant, PTL

(* A lock file whose creator has ended was left by a kill.                 *)
THEOREM KilledRunsLeave ==
    ASSUME RecordsOwner
    PROVE  Spec => []LeftOnlyByKilled
  <1>1. LockInv => LeftOnlyByKilled
    BY DEF LockInv, CreatorStays, LeftOnlyByKilled
  <1> QED BY <1>1, LockInvariant, PTL

(* A run is refused by a PID in use, or after others acquired meanwhile: a *)
(* file left by a kill, empty or with a free PID, is recovered.            *)
THEOREM StaleLockRecovered ==
    ASSUME RecordsOwner
    PROVE  Spec => RefusedOnlyInCompany
  <1> DEFINE Refusal(p) == pc[p] # "refused" /\ pc'[p] = "refused"
             Just(p) == (pc[p] = "probe" /\ IsRunning(seen[p])) \/ p \in company
  <1>1. ASSUME LockInv, [Next]_vars, NEW p \in Runs, Refusal(p)
        PROVE  Just(p)
    <2>1. PICK q \in Runs : RunStep(q)
      BY <1>1 DEF Next, vars, OtherProcess
    <2>2. ProbeOwner(p) \/ UnlinkStale(p)
      BY <1>1, <2>1
      DEF LockInv, TypeOK, RunStep, Start, CreateLock, LockExists, ReadOwner,
          ProbeOwner, UnlinkStale, RecordOwner, RemoveStaleWorkdirs, MakeWork,
          LaunchQemu, SetupFails, EndSession, ReadOwn, UnlinkOwn, Tidy, Crash
    <2>3. CASE ProbeOwner(p)
      BY <1>1, <2>3 DEF LockInv, TypeOK, ProbeOwner
    <2>4. CASE UnlinkStale(p)
      BY <1>1, <2>4 DEF LockInv, TypeOK, UnlinkStale, RetryIsFree
    <2> QED BY <2>2, <2>3, <2>4
  <1>2. LockInv /\ [Next]_vars => [\A p \in Runs : Refusal(p) => Just(p)]_vars
    BY <1>1
  <1> QED BY <1>2, LockInvariant, PTL DEF Spec, RefusedOnlyInCompany

-----------------------------------------------------------------------------
(* The lock of the persistence gate: no owner and no recovery.             *)
LEMMA NextBareInv ==
    ASSUME BareInv, ~RecordsOwner, [Next]_vars
    PROVE  BareInv'
  <1> USE DEF BareInv, TypeOK, WorkdirKept
  <1>1. CASE UNCHANGED vars
    BY <1>1 DEF vars
  <1>2. CASE OtherProcess
    BY <1>2 DEF OtherProcess
  <1>3. ASSUME NEW p \in Runs, RunStep(p)
        PROVE  BareInv'
    <2>1. \/ Start(p) \/ CreateLock(p) \/ LockExists(p)
          \/ RemoveStaleWorkdirs(p) \/ MakeWork(p) \/ LaunchQemu(p)
          \/ SetupFails(p) \/ EndSession(p) \/ UnlinkOwn(p) \/ Crash(p)
      BY <1>3 DEF RunStep, ReadOwner, ProbeOwner, UnlinkStale, RecordOwner,
                  ReadOwn, Tidy
    <2>2. CASE Start(p) \/ LockExists(p) \/ Crash(p)
      BY <2>2 DEF Start, LockExists, Crash
    <2>3. CASE CreateLock(p)
      BY <2>3, UnknownAssumption DEF CreateLock
    <2>4. CASE RemoveStaleWorkdirs(p) \/ MakeWork(p)
      BY <2>4 DEF RemoveStaleWorkdirs, MakeWork
    <2>5. CASE LaunchQemu(p) \/ SetupFails(p) \/ EndSession(p)
      BY <2>5 DEF LaunchQemu, SetupFails, EndSession
    <2>6. CASE UnlinkOwn(p)
      BY <2>6 DEF UnlinkOwn
    <2> QED BY <2>1, <2>2, <2>3, <2>4, <2>5, <2>6
  <1> QED BY <1>1, <1>2, <1>3 DEF Next

(* test-x86_64-persistence.py: exclusive creation alone keeps the runs     *)
(* apart, whatever they interleave, and no live directory is swept.        *)
THEOREM BareLockExclusive ==
    ASSUME ~RecordsOwner
    PROVE  Spec => [](Exclusive /\ \A p \in Runs : WorkdirKept(p))
  <1>1. Init => BareInv
    BY UnknownAssumption DEF Init, BareInv, TypeOK, WorkdirKept
  <1>2. BareInv /\ [Next]_vars => BareInv'
    BY NextBareInv
  <1>3. BareInv => Exclusive /\ \A p \in Runs : WorkdirKept(p)
    BY DEF BareInv, Exclusive
  <1> QED BY <1>1, <1>2, <1>3, PTL DEF Spec

=============================================================================
