--------------------------- MODULE LegacySession ---------------------------
(***************************************************************************)
(* The two-boot gate of the legacy kernel: the image is built and checked,  *)
(* the first boot exercises the namespace, runs SERVICE.ELF, PATHS.ELF and  *)
(* WRITER.ELF from the shell and ends, the host reads the image back, and   *)
(* the second boot must find everything without writing.  Any sector write *)
(* of the first boot may fail, and the machine may stop before any of them *)
(* and be switched on again.                                               *)
(*                                                                         *)
(* A call is [f, args, ok, want]: the program ignores what it returns and   *)
(* the kernel compares the whole list when the program has exited; its own *)
(* calls (the namespace check) it compares at once.                        *)
(***************************************************************************)
EXTENDS LegacyImage

CONSTANTS MaxFaults,   \* faults in a behaviour
          MaxWrite,    \* a call's fault is at one of its first MaxWrite writes
          MaxBoots

VARIABLES machine, \* the machine of LegacyFat12
          phase,   \* where the gate is
          pc,      \* the next call of the phase's program
          fd,      \* the descriptor the program saved
          bad,     \* a result differed from the kernel's table
          faults, boots,
          sealed,  \* "first session verified" was printed
          verdict  \* of verify-legacy-persistence.py

vars == <<machine, phase, pc, fd, bad, faults, boots, sealed, verdict>>

Call(f, args, ok, want) == [f |-> f, args |-> args, ok |-> ok, want |-> want]
Abs(toks) == [abs |-> TRUE, toks |-> toks]
Rel(toks) == [abs |-> FALSE, toks |-> toks]

----------------------------------------------------------------------------
(* The programs *)

Temporary == Run("temporary", 0, 600)

\* verifyNamespaceLifecycle
LifecycleCalls == <<
    Call("open", <<"TEMP.BIN", {"read", "write", "create"}>>, TRUE, 1),
    Call("write", <<<<Temporary>>>>, TRUE, 600),
    Call("close", <<>>, TRUE, 0),
    Call("chain", <<"TEMP.BIN">>, TRUE, <<57, 58>>),
    Call("renamenode", <<"TEMP.BIN", "MOVED.BIN">>, TRUE, 0),
    Call("whole", <<"MOVED.BIN">>, TRUE, <<Temporary>>),
    Call("chain", <<"MOVED.BIN">>, TRUE, <<57, 58>>),
    Call("unlinknode", <<"MOVED.BIN">>, TRUE, 0),
    Call("entries", <<57, 58>>, TRUE, <<0, 0>>),
    Call("open", <<"REUSE.BIN", {"read", "write", "create"}>>, TRUE, 1),
    Call("write", <<<<Run("byte", 0, 1)>>>>, TRUE, 1),
    Call("close", <<>>, TRUE, 0),
    Call("chain", <<"REUSE.BIN">>, TRUE, <<57>>),
    Call("unlinknode", <<"REUSE.BIN">>, TRUE, 0),
    Call("entries", <<57, 58>>, TRUE, <<0, 0>>),
    Call("reload", <<>>, TRUE, 21) >>

\* build_service_elf: its file calls
ServiceCalls == <<
    Call("open", <<"TEMP2.BIN", {"read", "write", "create", "truncate"}>>, TRUE, 1),
    Call("write", <<<<Run("service", 0, 18)>>>>, TRUE, 18),
    Call("close", <<>>, TRUE, 0),
    Call("statnode", <<"TEMP2.BIN">>, TRUE, <<18, 57, FALSE, 1>>),
    Call("renamenode", <<"TEMP2.BIN", "RENAMED.BIN">>, TRUE, 0),
    Call("statnode", <<"RENAMED.BIN">>, TRUE, <<18, 57, FALSE, 1>>),
    Call("unlinknode", <<"RENAMED.BIN">>, TRUE, 0) >>

Home    == Abs(<<"HOME">>)
Docs    == Rel(<<"DOCS">>)
Empty   == Rel(<<"..", "EMPTY">>)
TempBin == Rel(<<"TEMP.BIN">>)
Renamed == Rel(<<"RENAMED.BIN">>)
Archive == Rel(<<"ARCHIVE">>)
Moved   == Rel(<<"MOVED.BIN">>)
Scratch == Rel(<<"DOCS", "SCRATCH.BIN">>)
Reuse   == Rel(<<"DOCS", "REUSE.BIN">>)
LogAbs  == Abs(<<"HOME", "ARCHIVE", "LOG.TXT">>)
OneByte == <<Run("path", 0, 1)>>

\* build_paths_elf, with the kernel's expected_results
PathsCalls == <<
    Call("getcwd", <<>>, TRUE, <<>>),
    Call("mkdir", <<Home>>, TRUE, 57),
    Call("chdir", <<Home>>, TRUE, 0),
    Call("getcwd", <<>>, TRUE, <<"HOME">>),
    Call("mkdir", <<Docs>>, TRUE, 58),
    Call("chdir", <<Docs>>, TRUE, 0),
    Call("getcwd", <<>>, TRUE, <<"HOME", "DOCS">>),
    Call("mkdir", <<Empty>>, TRUE, 59),
    Call("rmdir", <<Empty>>, TRUE, 0),
    Call("writepath", <<TempBin, <<PathPayload>>, {"create", "truncate"}>>, TRUE, 600),
    Call("stat", <<TempBin>>, TRUE, <<600, 59, FALSE, 2>>),
    Call("readpath", <<TempBin>>, TRUE, <<PathPayload>>),
    Call("rename", <<TempBin, Renamed>>, TRUE, 0),
    Call("rename", <<Renamed, Rel(<<"..", "MOVED.BIN">>)>>, TRUE, 0),
    Call("chdir", <<Empty>>, FALSE, 0),
    Call("chdir", <<Abs(<<>>)>>, TRUE, 0),
    Call("chdir", <<Home>>, TRUE, 0),
    Call("mkdir", <<Archive>>, TRUE, 61),
    Call("rename", <<Moved, Rel(<<"ARCHIVE", "LOG.TXT">>)>>, TRUE, 0),
    Call("rmdir", <<Archive>>, FALSE, 0),
    Call("list", <<Home>>, TRUE, <<<<"DOCS", TRUE>>, <<"ARCHIVE", TRUE>>>>),
    Call("list", <<Archive>>, TRUE, <<<<"LOG.TXT", FALSE>>>>),
    Call("stat", <<LogAbs>>, TRUE, <<600, 59, FALSE, 2>>),
    Call("readpath", <<LogAbs>>, TRUE, <<PathPayload>>),
    Call("writepath", <<Scratch, OneByte, {"create", "truncate"}>>, TRUE, 1),
    Call("unlink", <<Scratch>>, TRUE, 0),
    Call("writepath", <<Reuse, OneByte, {"create", "truncate"}>>, TRUE, 1),
    Call("unlink", <<Reuse>>, TRUE, 0),
    Call("chdir", <<Abs(<<>>)>>, TRUE, 0),
    Call("getcwd", <<>>, TRUE, <<>>) >>

\* build_writer_elf
WriterCalls == <<
    Call("open", <<"NOTES.TXT", {"read", "write", "create", "truncate"}>>, TRUE, 1),
    Call("write", <<<<WriterBase>>>>, TRUE, 700),
    Call("seek", <<0>>, TRUE, 0),
    Call("read", <<700>>, TRUE, <<WriterBase>>),
    Call("close", <<>>, TRUE, 0),
    Call("open", <<"NOTES.TXT", {"write", "append"}>>, TRUE, 1),
    Call("write", <<<<WriterSuffix>>>>, TRUE, 20),
    Call("close", <<>>, TRUE, 0) >>

Programs == [lifecycle |-> LifecycleCalls, service |-> ServiceCalls, paths |-> PathsCalls, writer |-> WriterCalls]

NodeBytes(m, name) ==
    LET k == VfsFindNode(m, name) IN IF k = 0 THEN <<>> ELSE FileBytes(m, m.nodes[k].cluster, m.nodes[k].size)

Perform(m, c) ==
    CASE c.f = "open"       -> VfsOpen(m, c.args[1], c.args[2])
      [] c.f = "write"      -> VfsWrite(m, fd, c.args[1])
      [] c.f = "read"       -> VfsRead(m, fd, c.args[1])
      [] c.f = "seek"       -> VfsSeek(m, fd, c.args[1])
      [] c.f = "close"      -> VfsClose(m, fd)
      [] c.f = "renamenode" -> VfsRenameNode(m, c.args[1], c.args[2])
      [] c.f = "unlinknode" -> VfsUnlinkNode(m, c.args[1])
      [] c.f = "statnode"   -> VfsStat(m, c.args[1])
      [] c.f = "whole"      -> Ok(m, NodeBytes(m, c.args[1]))
      [] c.f = "chain"      -> Ok(m, Chain(m.cache, m.nodes[VfsFindNode(m, c.args[1])].cluster))
      [] c.f = "entries"    -> Ok(m, <<FatReadEntry(m, c.args[1]), FatReadEntry(m, c.args[2])>>)
      [] c.f = "reload"     -> LET r == ReloadVfsRoot(m) IN IF r.ok THEN Ok(r, Len(r.nodes)) ELSE r
      [] c.f = "getcwd"     -> PathGetCwd(m)
      [] c.f = "chdir"      -> PathChangeDirectory(m, c.args[1])
      [] c.f = "mkdir"      -> PathMakeDirectory(m, c.args[1])
      [] c.f = "rmdir"      -> PathRemoveDirectory(m, c.args[1])
      [] c.f = "writepath"  -> PathWriteFile(m, c.args[1], c.args[2], c.args[3])
      [] c.f = "readpath"   -> PathReadFile(m, c.args[1])
      [] c.f = "stat"       -> PathStatFile(m, c.args[1])
      [] c.f = "list"       -> PathListDirectory(m, c.args[1])
      [] c.f = "rename"     -> PathRename(m, c.args[1], c.args[2])
      [] c.f = "unlink"     -> PathUnlink(m, c.args[1])

----------------------------------------------------------------------------
(* What the kernel checks of the volume *)

Cold(disk) == [disk |-> disk, cache |-> disk.fat[1], nodes |-> <<>>, fds |-> [i \in 1..FdLimit |-> ClosedFd],
               cwd |-> 0, left |-> 0, mode |-> "lost", ok |-> TRUE, val |-> 0]

NotesThere(m) == VfsFindNode(m, "NOTES.TXT") # 0
HomeThere(m)  == PathFindEntry(m, 0, "HOME").found

\* initializeVfsAndProcesses: the files by size, the contents of HELLO and BIG,
\* the first free cluster, and HOME there exactly if NOTES.TXT is
RootInventory(m) ==
    /\ Len(m.nodes) = (IF NotesThere(m) THEN 22 ELSE 21)
    /\ \A i \in DOMAIN FILES : LET k == VfsFindNode(m, FILES[i].name)
                               IN  k # 0 /\ m.nodes[k].size = FILES[i].size
    /\ LET k == VfsFindNode(m, "PATHS.ELF") IN m.nodes[k].cluster + 8 = 57
    /\ HomeThere(m) <=> NotesThere(m)
    /\ NodeBytes(m, "BIG.TXT") = Data("BIG.TXT", 1300)
    /\ NodeBytes(m, "HELLO.TXT") = Data("HELLO.TXT", 86)

VerifyPersistentHierarchy(m, notes) ==
    LET home == PathFindEntry(m, 0, "HOME")
        docs == PathFindEntry(m, home.cluster, "DOCS")
        arch == PathFindEntry(m, home.cluster, "ARCHIVE")
        log  == PathFindEntry(m, arch.cluster, "LOG.TXT")
    IN  /\ home.found /\ home.dir /\ home.cluster = 57
        /\ docs.found /\ docs.dir /\ docs.cluster = 58
        /\ arch.found /\ arch.dir /\ arch.cluster = 61
        /\ log.found /\ log.cluster = 59 /\ log.size = 600
        /\ FatReadEntry(m, 59) = 60 /\ IsEnd(FatReadEntry(m, 60))
        /\ PathFindEntry(m, 57, ".").cluster = 57 /\ PathDirectoryParent(m, 57) = 0
        /\ PathDirectoryParent(m, 58) = 57 /\ PathDirectoryParent(m, 61) = 57
        /\ PathDirectoryEmpty(m, 58)
        /\ PathReadFile(m, LogAbs).val = <<PathPayload>>
        /\ PathListDirectory(m, Home).val = <<<<"DOCS", TRUE>>, <<"ARCHIVE", TRUE>>>>
        /\ PathListDirectory(m, Abs(<<"HOME", "ARCHIVE">>)).val = <<<<"LOG.TXT", FALSE>>>>
        /\ FatReadEntry(m, 62) = (IF notes THEN 63 ELSE 0)

VerifyNotesFile(m) ==
    LET k == VfsFindNode(m, "NOTES.TXT")
    IN  /\ k # 0 /\ m.nodes[k].size = 720 /\ m.nodes[k].cluster = 62
        /\ NodeBytes(m, "NOTES.TXT") = WriterResult
        /\ FatReadEntry(m, 62) = 63 /\ IsEnd(FatReadEntry(m, 63))

NoResidue(m) == \A name \in {"TEMP.BIN", "MOVED.BIN", "REUSE.BIN"} : VfsFindNode(m, name) = 0

\* The contract of a program that has exited, besides its list of results.
ProgramContract(m) ==
    CASE phase = "service" -> /\ VfsFindNode(m, "TEMP2.BIN") = 0 /\ VfsFindNode(m, "RENAMED.BIN") = 0
                              /\ FatReadEntry(m, 57) = 0
      [] phase = "paths"  -> m.cwd = 0 /\ FatReadEntry(m, 62) = 0 /\ VerifyPersistentHierarchy(m, FALSE)
      [] phase = "writer" -> VerifyNotesFile(m)
      [] OTHER            -> TRUE

After == [lifecycle |-> "service", service |-> "paths", paths |-> "writer", writer |-> "exit"]

----------------------------------------------------------------------------
(* The gate *)

Init ==
    /\ machine = Cold(BuildVolume)
    /\ phase = "built" /\ pc = 1 /\ fd = 0 /\ bad = FALSE
    /\ faults = 0 /\ boots = 0 /\ sealed = FALSE /\ verdict = "none"

VerifyBios ==
    /\ phase = "built"
    /\ phase' = IF BiosAccepts(machine.disk) THEN "off" ELSE "refused"
    /\ UNCHANGED <<machine, pc, fd, bad, faults, boots, sealed, verdict>>

\* initializeVfsAndProcesses: the FAT cache, the nodes and the inventory; then
\* the first call of the namespace check, or the checks of what was persisted.
Booted(before) ==
    LET loaded == LoadFatCache(before)
        m      == ReloadVfsRoot(loaded)
        to(place, after) == [phase |-> place, machine |-> after]
    IN  IF ~loaded.ok \/ ~m.ok \/ ~RootInventory(m) \/ ~NoResidue(m) THEN to("halted", before)
        ELSE IF ~NotesThere(m) THEN to("lifecycle", m)
        ELSE IF VerifyPersistentHierarchy(m, TRUE) /\ VerifyNotesFile(m) THEN to("persistence", m)
        ELSE to("halted", before)

Boot ==
    /\ phase = "off" /\ boots < MaxBoots
    /\ phase' = Booted(machine).phase /\ machine' = Booted(machine).machine
    /\ boots' = boots + 1 /\ pc' = 1 /\ bad' = FALSE /\ fd' = 0
    /\ UNCHANGED <<faults, sealed, verdict>>

Running == phase \in DOMAIN Programs /\ pc <= Len(Programs[phase])
Done(m) == [m EXCEPT !.left = 0, !.mode = "lost", !.ok = TRUE, !.val = 0]
\* Mutant: only success is compared.
MatchesOutcome(r, c) == r.ok = c.ok

\* Calls whose buffer the kernel does not find as they left it: another call of
\* the program fills it again, or (WRITER.ELF) only the bytes read are counted.
Overwritten == [lifecycle |-> {}, service |-> {4}, paths |-> {11, 12}, writer |-> {4}]

Matches(r, c) ==
    /\ r.ok = c.ok
    /\ \/ r.val = c.want
       \/ pc \in Overwritten[phase] /\ (c.f \in {"read", "readpath"} => Length(r.val) = Length(c.want))

\* A fault is [left, mode]: which write of the call, and what happens to it.
NoFault == [left |-> 0, mode |-> "lost"]
Faults  == {NoFault} \cup
           (IF faults < MaxFaults THEN [left : 1..MaxWrite, mode : {"lost", "crash"}] ELSE {})
Calls(f) == Perform([machine EXCEPT !.left = f.left, !.mode = f.mode], Programs[phase][pc])

Proceed(r) ==
    LET c == Programs[phase][pc]
    IN  IF r.mode = "halted" \/ (phase = "lifecycle" /\ ~Matches(r, c))
        THEN /\ phase' = "halted" /\ machine' = Done(r)
             /\ UNCHANGED <<pc, fd, bad, boots, sealed, verdict>>
        ELSE /\ machine' = Done(r)
             /\ pc' = pc + 1
             /\ fd' = IF c.f = "open" THEN r.val ELSE fd
             /\ bad' = (bad \/ ~Matches(r, c))
             /\ UNCHANGED <<phase, boots, sealed, verdict>>

\* The call returns, all its sector writes done.
Returns(f, r) == f = NoFault /\ Proceed(r) /\ UNCHANGED faults

\* ataWriteSector gives up on one write of the call, which has that many.
WriteFails(f, r) ==
    /\ f # NoFault /\ f.mode = "lost" /\ r.left = 0
    /\ Proceed(r)
    /\ faults' = faults + 1

\* The machine stops before one write of the call.
PowerLost(f, r) ==
    /\ f.mode = "crash" /\ r.left = 1
    /\ machine' = Cold(r.disk)
    /\ phase' = "off" /\ pc' = 1 /\ fd' = 0 /\ bad' = FALSE
    /\ faults' = faults + 1
    /\ UNCHANGED <<boots, sealed, verdict>>

Step == Running /\ \E f \in Faults : \E r \in {Calls(f)} : Returns(f, r) \/ WriteFails(f, r) \/ PowerLost(f, r)

\* processFailure, or the next command of the plan
ProgramExits ==
    /\ phase \in DOMAIN Programs /\ pc > Len(Programs[phase])
    /\ phase' = IF bad \/ ~ProgramContract(machine) THEN "halted" ELSE After[phase]
    /\ pc' = 1 /\ fd' = 0
    /\ UNCHANGED <<machine, bad, faults, boots, sealed, verdict>>

FirstSessionExits ==
    /\ phase = "exit"
    /\ LET m == machine
       IN  IF (\A i \in DOMAIN m.fds : ~m.fds[i].open) /\ VerifyNotesFile(m) /\ Len(m.nodes) = 22
           THEN phase' = "verify" /\ sealed' = TRUE
           ELSE phase' = "halted" /\ sealed' = sealed
    /\ UNCHANGED <<machine, pc, fd, bad, faults, boots, verdict>>

VerifyPersistence ==
    /\ phase = "verify"
    /\ verdict' = IF PersistenceAccepts(machine.disk) THEN "accepted" ELSE "rejected"
    /\ phase' = IF PersistenceAccepts(machine.disk) THEN "off" ELSE "refused"
    /\ machine' = Cold(machine.disk)
    /\ UNCHANGED <<pc, fd, bad, faults, boots, sealed>>

SecondSessionExits ==
    /\ phase = "persistence"
    /\ phase' = IF VerifyNotesFile(machine) /\ Len(machine.nodes) = 22 THEN "passed" ELSE "halted"
    /\ UNCHANGED <<machine, pc, fd, bad, faults, boots, sealed, verdict>>

\* haltForever, and somebody switches the machine off and on
PowerCycle ==
    /\ phase = "halted" /\ boots < MaxBoots
    /\ phase' = "off" /\ machine' = Cold(machine.disk)
    /\ UNCHANGED <<pc, fd, bad, faults, boots, sealed, verdict>>

Next ==
    \/ VerifyBios \/ Boot \/ Step \/ ProgramExits
    \/ FirstSessionExits \/ VerifyPersistence \/ SecondSessionExits \/ PowerCycle

Phases == {"built", "off", "lifecycle", "service", "paths", "writer", "exit", "verify", "persistence",
           "halted", "refused", "passed"}

\* The guest and the harness keep going: nothing in the plan waits for anybody
\* else, so while there is a step to take the phase or the call moves on.
Busy     == phase \notin {"halted", "refused", "passed"} /\ (phase = "off" => boots < MaxBoots)
Progress == Busy /\ phase' \in Phases /\ pc' \in 1..31
Spec == Init /\ [][Next]_vars /\ WF_<<phase, pc>>(Progress)

----------------------------------------------------------------------------
(* Properties *)

\* The shapes: FAT copies of bytes, descriptors on nodes that exist.
TypeOK ==
    /\ phase \in Phases /\ pc \in 1..31 /\ faults \in 0..MaxFaults /\ boots \in 0..MaxBoots
    /\ \A copy \in 1..2 : machine.disk.fat[copy] \in [FatBytes -> 0..255]
    /\ \A i \in DOMAIN machine.fds : machine.fds[i].open => machine.fds[i].node \in DOMAIN machine.nodes
    /\ machine.left = 0

SoundEntry(fat, s) ==
    IF s.size = 0 /\ ~s.dir THEN s.cluster = 0
    ELSE Closed(fat, s.cluster) /\ Len(Chain(fat, s.cluster)) = (IF s.dir THEN 1 ELSE ClustersFor(s.size))

\* Both copies agree, every entry has a chain of its length, no cluster has two
\* owners, and no reserved cluster has none.
Sound(disk) ==
    LET fat == disk.fat[1]
    IN  /\ fat = disk.fat[2]
        /\ \A p \in Places(disk) : SoundEntry(fat, At(disk, p))
        /\ \A p, q \in Places(disk) : p # q => Holds(fat, disk, p) \cap Holds(fat, disk, q) = {}
        /\ {c \in 2..(ClusterCount + 1) : Entry(fat, c) # 0} = UNION {Holds(fat, disk, p) : p \in Places(disk)}

\* Wherever the first boot was cut off or a write failed, a later boot that
\* reaches the shell runs on a sound volume: the checks of loadFatCache,
\* reloadVfsRoot, the inventory and the namespace check leave no torn state
\* unnoticed.
ShellOnlyOnSound == phase = "persistence" \/ (phase = "service" /\ pc = 1) => Sound(machine.disk)

\* "first session verified" is printed only on an image that
\* verify-legacy-persistence.py accepts, and what that script accepts is sound.
SealMeansPersisted ==
    /\ sealed => PersistenceAccepts(machine.disk)
    /\ PersistenceAccepts(machine.disk) => Sound(machine.disk)

\* What a boot builds on and what the gate prints both rest on a sound volume.
OnlyOnSound == TypeOK /\ ShellOnlyOnSound /\ SealMeansPersisted

\* No fault at any write costs one of the 21 files the image was built with:
\* its entry, its chain and its bytes stay.
ShippedFilesKept ==
    \A i \in DOMAIN FILES :
        /\ i \in DOMAIN machine.disk.root
        /\ machine.disk.root[i] = Slot(FILES[i].name, FALSE, NextCluster[i], FILES[i].size)
        /\ LET r == ReadChain(machine.disk, NextCluster[i], FILES[i].size)
           IN  r.ok /\ r.data = Data(FILES[i].name, FILES[i].size)

\* While a program runs and no write has failed, vfs_nodes says what the root
\* directory on the disk says: the path calls go to the disk and do not tell it.
NodesCurrent ==
    faults = 0 /\ phase \in {"lifecycle", "service", "paths", "writer", "exit", "persistence"} =>
        machine.nodes = NodesOf(machine.disk)

\* The namespace survives the session, on the disk and in the kernel's table.
FilesKept == ShippedFilesKept /\ NodesCurrent

\* With no fault every call returns what the kernel's tables say, the host
\* verifiers accept both images and the second boot passes.
GatePasses == <>(faults > 0 \/ phase = "passed")
=============================================================================
