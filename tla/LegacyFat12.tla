---------------------------- MODULE LegacyFat12 ----------------------------
(***************************************************************************)
(* The FAT12 driver of the legacy i686 kernel: the packed FAT and its       *)
(* cache, the descriptor calls (vfs...) on the root directory, which keep a *)
(* table of nodes in memory, and the path calls (path...), which read the   *)
(* directories from the disk every time.                                   *)
(*                                                                         *)
(* Every call is an operator from a machine to a machine.  A machine is     *)
(*   disk   [fat: the two copies, as bytes; root: the slots of the root    *)
(*          directory in use; sec: the sector of each cluster; mbr: is     *)
(*          sector 0 untouched]                                            *)
(*   cache  the FAT in memory                                              *)
(*   nodes  vfs_nodes: the files of the root, as last loaded               *)
(*   fds    vfs_descriptors, of the one process that uses them at a time   *)
(*   cwd    the current directory, by cluster; 0 is the root               *)
(*   left   sector writes until the fault of this call; 0 if none          *)
(*   mode   what the fault is: the write is reported failed and changed    *)
(*          nothing ("lost"), or the machine stops before it ("crash");    *)
(*          "halted" after vfsFailure                                      *)
(*   ok, val  the result of the last call                                  *)
(* A call is one step: the kernel runs it with no other user of the volume. *)
(* Reads of the disk succeed.                                              *)
(*                                                                         *)
(* The bytes of a sector are runs [src, from, len] of a named source; a    *)
(* directory sector is a sequence of slots, ended by the first byte 0.     *)
(***************************************************************************)
EXTENDS Naturals, Sequences, FiniteSets

CONSTANTS FatSector,     \* bytes of a FAT sector; 512
          ClusterBytes,  \* bytes of a cluster, one sector; 512
          ClusterCount,  \* data clusters
          RootSlots,     \* 224
          DirSlots,      \* 16
          MaxFile,       \* 4096
          NodeLimit,     \* vfs_nodes.len
          FdLimit        \* vfs_descriptors.len

EOC   == 4095
IsEnd(value) == value >= 4088
Valid(c) == c >= 2 /\ c <= ClusterCount + 1

\* The bytes that hold the entries of clusters 0 .. ClusterCount + 1.
FatBytes == 0 .. (ClusterCount + 2 + (ClusterCount + 1) \div 2)
OffsetOf(c) == c + c \div 2

\* entry, fat_entry, fatReadEntry: a little-endian pair, its low or its high 12 bits
Entry(fat, c) ==
    LET pair == fat[OffsetOf(c)] + 256 * fat[OffsetOf(c) + 1]
    IN  IF c % 2 = 1 THEN pair \div 16 ELSE pair % 4096

\* Mutant: an even entry clears the whole pair.
UpdatedWhole(fat, c, value) ==
    LET o   == OffsetOf(c)
        new == IF c % 2 = 0 THEN value ELSE value * 16
    IN  [fat EXCEPT ![o] = new % 256, ![o + 1] = new \div 256]

\* fatWriteEntry: the pair with 12 of its bits replaced
Updated(fat, c, value) ==
    LET o    == OffsetOf(c)
        pair == fat[o] + 256 * fat[o + 1]
        new  == IF c % 2 = 0 THEN (pair \div 4096) * 4096 + value ELSE (pair % 16) + value * 16
    IN  [fat EXCEPT ![o] = new % 256, ![o + 1] = new \div 256]

RECURSIVE ChainFrom(_, _, _)
ChainFrom(fat, c, limit) ==
    IF ~Valid(c) \/ limit = 0 THEN <<>> ELSE <<c>> \o ChainFrom(fat, Entry(fat, c), limit - 1)
Chain(fat, c) == ChainFrom(fat, c, ClusterCount + 1)
ChainSet(fat, c) == {Chain(fat, c)[i] : i \in DOMAIN Chain(fat, c)}
Closed(fat, c) == Chain(fat, c) # <<>> /\ IsEnd(Entry(fat, Chain(fat, c)[Len(Chain(fat, c))]))

----------------------------------------------------------------------------
(* The device *)

Ok(m, v) == [m EXCEPT !.ok = TRUE, !.val = v]
Fail(m)  == [m EXCEPT !.ok = FALSE, !.val = 0]

\* ataWriteSector: the disk becomes d, unless the fault is at this write.
\* After a crash nothing lands any more.
DiskWrite(m, d) ==
    CASE m.left = 0                     -> Ok([m EXCEPT !.disk = d], 0)
      [] m.left > 1                     -> Ok([m EXCEPT !.disk = d, !.left = @ - 1], 0)
      [] m.left = 1 /\ m.mode = "lost"  -> Fail([m EXCEPT !.left = 0])
      [] m.left = 1 /\ m.mode = "crash" -> Fail(m)

\* The rest of a call, if it has come this far; and what it returns then.
Then(m, Rest(_)) == IF m.ok THEN Rest(m) ELSE m
Giving(m, v)     == IF m.ok THEN Ok(m, v) ELSE m

ZeroSector == [slots |-> <<>>, runs |-> <<>>]

----------------------------------------------------------------------------
(* The FAT *)

LoadFatCache(m) ==
    IF m.disk.fat[1] = m.disk.fat[2] THEN Ok([m EXCEPT !.cache = m.disk.fat[1]], 0) ELSE Fail(m)

FatReadEntry(m, c) == Entry(m.cache, c)

WriteFatSector(m, copy, s) ==
    DiskWrite(m, [m.disk EXCEPT !.fat[copy] =
        [i \in FatBytes |-> IF i \div FatSector = s THEN m.cache[i] ELSE @[i]]])

RECURSIVE WriteFatSectors(_, _)
WriteFatSectors(m, places) ==
    IF places = <<>> THEN Ok(m, 0)
    ELSE Then(WriteFatSector(m, Head(places)[1], Head(places)[2]),
              LAMBDA w : WriteFatSectors(w, Tail(places)))

\* The sectors of an entry: one, or two if it straddles them.
SectorsOf(c) ==
    LET first == OffsetOf(c) \div FatSector
        last  == (OffsetOf(c) + 1) \div FatSector
    IN  IF first = last THEN <<first>> ELSE <<first, last>>
InCopy(copy, sectors) == [i \in DOMAIN sectors |-> <<copy, sectors[i]>>]

\* The cache first, then the sectors of the entry in the first copy and in the second.
FatWriteEntry(m, c, value) ==
    IF ~Valid(c) \/ value > EOC THEN Fail(m)
    ELSE WriteFatSectors([m EXCEPT !.cache = Updated(@, c, value)],
                         InCopy(1, SectorsOf(c)) \o InCopy(2, SectorsOf(c)))

FirstOf(S) == IF S = {} THEN 0 ELSE CHOOSE i \in S : \A j \in S : i <= j

\* The data sector is zeroed before the FAT reserves the cluster.
Reserve(m, c) ==
    IF c = 0 THEN Fail(m)
    ELSE Giving(Then(DiskWrite(m, [m.disk EXCEPT !.sec[c] = ZeroSector]),
                     LAMBDA z : FatWriteEntry(z, c, EOC)), c)

\* First fit.
FatAllocateCluster(m) == Reserve(m, FirstOf({c \in 2..(ClusterCount + 1) : FatReadEntry(m, c) = 0}))

RECURSIVE FreeFrom(_, _, _)
FreeFrom(m, c, remaining) ==
    IF remaining = 0 \/ ~Valid(c) THEN Fail(m)
    ELSE LET next == FatReadEntry(m, c)
         IN  Then(FatWriteEntry(m, c, 0),
                  LAMBDA w : IF IsEnd(next) THEN Ok(w, 0) ELSE FreeFrom(w, next, remaining - 1))

FatFreeChain(m, first) == IF first = 0 THEN Ok(m, 0) ELSE FreeFrom(m, first, ClusterCount)

\* A step that failed: the chain so far is given back, and the call fails.
OrFree(m, first) == IF m.ok THEN m ELSE Fail(FatFreeChain(m, first))

\* The k-th cluster of a chain, 0 if the chain is shorter or leaves the volume.
RECURSIVE NthCluster(_, _, _)
NthCluster(m, c, k) ==
    IF ~Valid(c) THEN 0
    ELSE IF k = 0 THEN c
    ELSE NthCluster(m, FatReadEntry(m, c), k - 1)

ClustersFor(size) == (size + ClusterBytes - 1) \div ClusterBytes

\* validateFatChain: exactly as many clusters as the size needs
ValidateFatChain(m, first, size) ==
    LET last == NthCluster(m, first, ClustersFor(size) - 1)
    IN  last # 0 /\ IsEnd(FatReadEntry(m, last))

----------------------------------------------------------------------------
(* Bytes *)

RECURSIVE Take(_, _)
Take(runs, n) ==
    IF runs = <<>> \/ n = 0 THEN <<>>
    ELSE IF Head(runs).len <= n THEN <<Head(runs)>> \o Take(Tail(runs), n - Head(runs).len)
    ELSE <<[Head(runs) EXCEPT !.len = n]>>

RECURSIVE Drop(_, _)
Drop(runs, n) ==
    IF runs = <<>> \/ n = 0 THEN runs
    ELSE IF Head(runs).len <= n THEN Drop(Tail(runs), n - Head(runs).len)
    ELSE <<[Head(runs) EXCEPT !.from = @ + n, !.len = @ - n]>> \o Tail(runs)

RECURSIVE Length(_)
Length(runs) == IF runs = <<>> THEN 0 ELSE Head(runs).len + Length(Tail(runs))

\* Neighbouring runs of one source are one run.
RECURSIVE Joined(_)
Joined(runs) ==
    IF Len(runs) < 2 THEN runs
    ELSE LET a == runs[1]
             b == runs[2]
         IN  IF a.src = b.src /\ a.from + a.len = b.from
             THEN Joined(<<[a EXCEPT !.len = @ + b.len]>> \o Tail(Tail(runs)))
             ELSE <<a>> \o Joined(Tail(runs))

\* The bytes "within" .. of a sector replaced; a shorter sector is zero up to there.
Overlay(runs, within, chunk) ==
    LET head == Take(runs, within)
        gap  == within - Length(head)
    IN  Joined(head \o (IF gap = 0 THEN <<>> ELSE <<[src |-> "zero", from |-> 0, len |-> gap]>>)
               \o chunk \o Drop(runs, within + Length(chunk)))

----------------------------------------------------------------------------
(* Directories *)

Tombstone == "E5"
Deleted   == [name |-> Tombstone, dir |-> FALSE, cluster |-> 0, size |-> 0]
Slot(name, dir, cluster, size) == [name |-> name, dir |-> dir, cluster |-> cluster, size |-> size]

Slots(disk, d) == IF d = 0 THEN disk.root ELSE disk.sec[d].slots
Capacity(d) == IF d = 0 THEN RootSlots ELSE DirSlots

WriteSlot(m, d, i, s) ==
    LET placed(slots) == IF i <= Len(slots) THEN [slots EXCEPT ![i] = s] ELSE Append(slots, s)
    IN  DiskWrite(m, IF d = 0 THEN [m.disk EXCEPT !.root = placed(@)]
                     ELSE [m.disk EXCEPT !.sec[d] = [slots |-> placed(@.slots), runs |-> <<>>]])

\* pathFindFreeSlot and the scan of vfsCreateNode: 0 if the directory is full
FreeSlot(m, d) ==
    LET slots == Slots(m.disk, d)
        dead  == FirstOf({i \in DOMAIN slots : slots[i].name = Tombstone})
    IN  IF dead # 0 THEN dead ELSE IF Len(slots) < Capacity(d) THEN Len(slots) + 1 ELSE 0

\* A PathEntry; slot 0 stands for entry_lba 0, which a synthetic entry has.
NoEntry == [found |-> FALSE, parent |-> 0, slot |-> 0, name |-> "", dir |-> FALSE, cluster |-> 0, size |-> 0]

PathFindEntry(m, d, name) ==
    LET slots == Slots(m.disk, d)
        i     == FirstOf({j \in DOMAIN slots : slots[j].name = name})
    IN  IF i = 0 THEN NoEntry
        ELSE [found |-> TRUE, parent |-> d, slot |-> i, name |-> name,
              dir |-> slots[i].dir, cluster |-> slots[i].cluster, size |-> slots[i].size]

\* pathDirectoryParent of a directory that exists
PathDirectoryParent(m, d) == IF d = 0 THEN 0 ELSE PathFindEntry(m, d, "..").cluster

PathSyntheticDirectory(m, d) ==
    [NoEntry EXCEPT !.found = TRUE, !.cluster = d, !.parent = PathDirectoryParent(m, d), !.dir = TRUE]

\* A parsed path is [abs, toks]: the components without "." and repeated separators.
Nowhere == [found |-> FALSE, d |-> 0]
WalkInto(m, here, name) ==
    LET e == PathFindEntry(m, here.d, name)
    IN  IF ~here.found THEN Nowhere
        ELSE IF name = ".." THEN [found |-> TRUE, d |-> PathDirectoryParent(m, here.d)]
        ELSE IF e.found /\ e.dir /\ e.cluster >= 2 THEN [found |-> TRUE, d |-> e.cluster] ELSE Nowhere
WalkTo(m, d, toks) ==
    LET at[k \in 0..Len(toks)] == IF k = 0 THEN [found |-> TRUE, d |-> d] ELSE WalkInto(m, at[k - 1], toks[k])
    IN  at[Len(toks)]

StartOf(m, path) == IF path.abs THEN 0 ELSE m.cwd
Front(toks) == SubSeq(toks, 1, Len(toks) - 1)

PathResolve(m, path) ==
    IF path.toks = <<>> THEN PathSyntheticDirectory(m, StartOf(m, path))
    ELSE LET leaf == path.toks[Len(path.toks)]
             up   == WalkTo(m, StartOf(m, path), Front(path.toks))
         IN  IF ~up.found THEN NoEntry
             ELSE IF leaf = ".." THEN PathSyntheticDirectory(m, PathDirectoryParent(m, up.d))
             ELSE PathFindEntry(m, up.d, leaf)

PathResolveParent(m, path) ==
    IF path.toks = <<>> \/ path.toks[Len(path.toks)] = ".." THEN Nowhere
    ELSE WalkTo(m, StartOf(m, path), Front(path.toks))

Leaf(path) == path.toks[Len(path.toks)]

PathWriteSlot(m, d, i, s) ==
    IF i \in DOMAIN Slots(m.disk, d) /\ Slots(m.disk, d)[i].name # Tombstone THEN Fail(m)
    ELSE WriteSlot(m, d, i, s)

Live(m, e) == e.slot \in DOMAIN Slots(m.disk, e.parent) /\ Slots(m.disk, e.parent)[e.slot].name # Tombstone

PathUpdateEntry(m, e, cluster, size) ==
    IF ~Live(m, e) THEN Fail(m)
    ELSE WriteSlot(m, e.parent, e.slot,
                   [Slots(m.disk, e.parent)[e.slot] EXCEPT !.cluster = cluster, !.size = size])

\* A synthetic entry has no slot: what is deleted is in sector 0 of the disk.
PathDeleteEntry(m, e) ==
    IF e.slot = 0 THEN DiskWrite(m, [m.disk EXCEPT !.mbr = FALSE])
    ELSE IF ~Live(m, e) THEN Fail(m) ELSE WriteSlot(m, e.parent, e.slot, Deleted)

----------------------------------------------------------------------------
(* The path calls *)

\* The names below a directory, without the dots, in the order of the slots.
PathListDirectory(m, path) ==
    LET e == PathResolve(m, path)
        seen(s) == s.name \notin {Tombstone, ".", ".."}
    IN  IF ~e.found \/ ~e.dir THEN Fail(m)
        ELSE Ok(m, [i \in DOMAIN SelectSeq(Slots(m.disk, e.cluster), seen) |->
                       LET s == SelectSeq(Slots(m.disk, e.cluster), seen)[i] IN <<s.name, s.dir>>])

PathChildName(m, parent, child) ==
    LET slots == Slots(m.disk, parent)
        i == FirstOf({j \in DOMAIN slots : /\ slots[j].dir /\ slots[j].cluster = child
                                           /\ slots[j].name \notin {".", ".."}})
    IN  IF i = 0 THEN "" ELSE slots[i].name

RECURSIVE Ancestry(_, _)
Ancestry(m, d) ==
    IF d = 0 THEN <<>>
    ELSE Append(Ancestry(m, PathDirectoryParent(m, d)), PathChildName(m, PathDirectoryParent(m, d), d))

PathGetCwd(m) == Ok(m, Ancestry(m, m.cwd))

PathChangeDirectory(m, path) ==
    LET e == PathResolve(m, path)
    IN  IF e.found /\ e.dir THEN Ok([m EXCEPT !.cwd = e.cluster], 0) ELSE Fail(m)

PathInitializeDirectory(m, c, parent) ==
    DiskWrite(m, [m.disk EXCEPT !.sec[c] =
        [slots |-> <<Slot(".", TRUE, c, 0), Slot("..", TRUE, parent, 0)>>, runs |-> <<>>]])

PathMakeDirectory(m, path) ==
    LET up   == PathResolveParent(m, path)
        slot == FreeSlot(m, up.d)
        named(i, c) == PathWriteSlot(i, up.d, slot, Slot(Leaf(path), TRUE, c, 0))
    IN  IF ~up.found \/ PathFindEntry(m, up.d, Leaf(path)).found \/ slot = 0 THEN Fail(m)
        ELSE Then(FatAllocateCluster(m), LAMBDA a :
                 Giving(OrFree(Then(PathInitializeDirectory(a, a.val, up.d), LAMBDA i : named(i, a.val)), a.val), a.val))

PathDirectoryEmpty(m, d) == \A i \in DOMAIN Slots(m.disk, d) : Slots(m.disk, d)[i].name \in {Tombstone, ".", ".."}

PathRemoveDirectory(m, path) ==
    LET e == PathResolve(m, path)
    IN  IF ~e.found \/ ~e.dir \/ e.cluster < 2 \/ ~PathDirectoryEmpty(m, e.cluster) \/ m.cwd = e.cluster
        THEN Fail(m)
        ELSE Then(PathDeleteEntry(m, e), LAMBDA x : FatFreeChain(x, e.cluster))

RECURSIVE ReadRuns(_, _, _, _)
ReadRuns(m, first, k, size) ==
    IF size = 0 THEN <<>>
    ELSE LET n == IF size < ClusterBytes THEN size ELSE ClusterBytes
             c == NthCluster(m, first, k)
         IN  IF c = 0 THEN <<[src |-> "broken", from |-> 0, len |-> size]>>
             ELSE Take(Overlay(m.disk.sec[c].runs, ClusterBytes, <<>>), n) \o ReadRuns(m, first, k + 1, size - n)

\* The bytes of a file; "broken" marks what pathReadEntryData could not follow.
FileBytes(m, first, size) == Joined(ReadRuns(m, first, 0, size))
Broken(runs) == \E i \in DOMAIN runs : runs[i].src = "broken"

PathReadFile(m, path) ==
    LET e == PathResolve(m, path)
        b == FileBytes(m, e.cluster, e.size)
    IN  IF ~e.found \/ e.dir \/ e.size > MaxFile \/ Broken(b) THEN Fail(m) ELSE Ok(m, b)

\* The number of clusters; a chain that leaves the volume fails, a loop ends at the limit.
PathStatFile(m, path) ==
    LET e     == PathResolve(m, path)
        chain == Chain(m.cache, e.cluster)
        cut   == e.cluster # 0 /\ Len(chain) <= ClusterCount /\ ~Closed(m.cache, e.cluster)
    IN  IF ~e.found \/ cut THEN Fail(m) ELSE Ok(m, <<e.size, e.cluster, e.dir, Len(chain)>>)

\* pathAllocateData: each cluster is reserved, linked to the one before, then filled.
LinkAfter(m, previous, c) == IF previous = 0 THEN m ELSE FatWriteEntry(m, previous, c)
Filled(m, c, runs) == DiskWrite(m, [m.disk EXCEPT !.sec[c] = [slots |-> <<>>, runs |-> runs]])

RECURSIVE AllocateFrom(_, _, _, _)
AllocateFrom(m, data, first, previous) ==
    IF data = <<>> THEN Ok(m, first)
    ELSE Then(OrFree(FatAllocateCluster(m), first), LAMBDA a :
         LET start == IF first = 0 THEN a.val ELSE first
         IN  Then(OrFree(Then(LinkAfter(a, previous, a.val),
                              LAMBDA l : Filled(l, a.val, Take(data, ClusterBytes))), start),
                  LAMBDA w : AllocateFrom(w, Drop(data, ClusterBytes), start, a.val)))

PathAllocateData(m, data) == AllocateFrom(m, data, 0, 0)

\* The entry is committed when the new chain is complete; the old chain goes last.
PathCommit(a, d, name, old, size) ==
    LET slot == FreeSlot(a, d)
    IN  IF old.found
        THEN Then(OrFree(PathUpdateEntry(a, old, a.val, size), a.val), LAMBDA u : FatFreeChain(u, old.cluster))
        ELSE OrFree(IF slot = 0 THEN Fail(a) ELSE PathWriteSlot(a, d, slot, Slot(name, FALSE, a.val, size)), a.val)

WriteLimit == 2048
PathWriteFile(m, path, source, flags) ==
    LET up    == PathResolveParent(m, path)
        old   == PathFindEntry(m, up.d, Leaf(path))
        data  == IF old.found /\ "append" \in flags
                 THEN Joined(FileBytes(m, old.cluster, old.size) \o source) ELSE source
    IN  IF \/ ~up.found
           \/ ~old.found /\ "create" \notin flags
           \/ old.found /\ (old.dir \/ flags \cap {"append", "truncate"} = {})
           \/ Length(source) > WriteLimit \/ Length(data) > MaxFile \/ Broken(data)
        THEN Fail(m)
        ELSE Giving(Then(PathAllocateData(m, data),
                         LAMBDA a : PathCommit(a, up.d, Leaf(path), old, Length(data))), Length(source))

\* The name of a synthetic entry is written into sector 0 as well.
PathRenameHere(m, e, name) ==
    IF e.slot = 0 THEN DiskWrite(m, [m.disk EXCEPT !.mbr = FALSE])
    ELSE WriteSlot(m, e.parent, e.slot, [Slots(m.disk, e.parent)[e.slot] EXCEPT !.name = name])

\* The new entry, then the old one deleted; if that fails the new one is deleted.
PathMove(m, e, d, name) ==
    LET slot == FreeSlot(m, d)
        undone(x) == IF x.ok THEN x ELSE Fail(PathDeleteEntry(x, PathFindEntry(x, d, name)))
    IN  IF e.dir \/ slot = 0 THEN Fail(m)
        ELSE Then(PathWriteSlot(m, d, slot, Slot(name, e.dir, e.cluster, e.size)),
                  LAMBDA w : undone(PathDeleteEntry(w, e)))

PathRename(m, oldPath, newPath) ==
    LET e  == PathResolve(m, oldPath)
        up == PathResolveParent(m, newPath)
    IN  IF ~e.found \/ ~up.found \/ PathFindEntry(m, up.d, Leaf(newPath)).found THEN Fail(m)
        ELSE IF e.parent = up.d THEN PathRenameHere(m, e, Leaf(newPath))
        ELSE PathMove(m, e, up.d, Leaf(newPath))

PathUnlink(m, path) ==
    LET e == PathResolve(m, path)
    IN  IF ~e.found \/ e.dir THEN Fail(m)
        ELSE Then(PathDeleteEntry(m, e), LAMBDA x : FatFreeChain(x, e.cluster))

----------------------------------------------------------------------------
(* The descriptor calls *)

FileSlots(disk) == {i \in DOMAIN disk.root : disk.root[i].name # Tombstone /\ ~disk.root[i].dir}
NodeOf(disk, i) ==
    [name |-> disk.root[i].name, slot |-> i, cluster |-> disk.root[i].cluster, size |-> disk.root[i].size]

\* The root as reloadVfsRoot reads it, in the order of the slots.
NodesOf(disk) ==
    LET live(i) == i \in FileSlots(disk)
        order   == SelectSeq([i \in DOMAIN disk.root |-> i], live)
    IN  [k \in DOMAIN order |-> NodeOf(disk, order[k])]

NodeSound(m, n) ==
    /\ n.size <= MaxFile
    /\ n.size = 0 => n.cluster = 0
    /\ n.size # 0 => n.cluster >= 2 /\ ValidateFatChain(m, n.cluster, n.size)

\* vfsFailure does not return.
ReloadVfsRoot(m) ==
    LET nodes == NodesOf(m.disk)
    IN  IF Len(nodes) <= NodeLimit /\ \A k \in DOMAIN nodes : NodeSound(m, nodes[k])
        THEN Ok([m EXCEPT !.nodes = nodes], 0) ELSE [Fail(m) EXCEPT !.mode = "halted"]

VfsFindNode(m, name) == FirstOf({k \in DOMAIN m.nodes : m.nodes[k].name = name})

VfsCreateNode(m, name) ==
    LET i == FreeSlot(m, 0)
    IN  IF Len(m.nodes) >= NodeLimit \/ i = 0 THEN Fail(m)
        ELSE Then(WriteSlot(m, 0, i, Slot(name, FALSE, 0, 0)),
                  LAMBDA w : Ok([w EXCEPT !.nodes = Append(@, NodeOf(w.disk, i))], Len(m.nodes) + 1))

VfsRenameNode(m, old, new) ==
    LET k == VfsFindNode(m, old)
    IN  IF VfsFindNode(m, new) # 0 \/ k = 0 THEN Fail(m)
        ELSE Then(WriteSlot(m, 0, m.nodes[k].slot, [m.disk.root[m.nodes[k].slot] EXCEPT !.name = new]),
                  LAMBDA w : Ok([w EXCEPT !.nodes[k].name = new], 0))

VfsUnlinkNode(m, name) ==
    LET k == VfsFindNode(m, name)
    IN  IF k = 0 \/ (\E i \in DOMAIN m.fds : m.fds[i].open /\ m.fds[i].node = k) THEN Fail(m)
        ELSE Then(WriteSlot(m, 0, m.nodes[k].slot, Deleted),
                  LAMBDA w : Then(FatFreeChain(w, m.nodes[k].cluster), ReloadVfsRoot))

VfsUpdateNode(m, k) ==
    LET n == m.nodes[k]
    IN  WriteSlot(m, 0, n.slot, [m.disk.root[n.slot] EXCEPT !.cluster = n.cluster, !.size = n.size])

\* The chain is freed before the entry forgets it.
VfsTruncateNode(m, k) ==
    Then(FatFreeChain(m, m.nodes[k].cluster),
         LAMBDA f : VfsUpdateNode([f EXCEPT !.nodes[k].cluster = 0, !.nodes[k].size = 0], k))

RECURSIVE Reach(_, _, _)
Reach(m, c, ordinal) ==
    LET next == FatReadEntry(m, c)
    IN  CASE ordinal = 0 -> Ok(m, c)
          [] ordinal # 0 /\ IsEnd(next) ->
                Then(FatAllocateCluster(m), LAMBDA a :
                     Then(FatWriteEntry(a, c, a.val), LAMBDA l : Reach(l, a.val, ordinal - 1)))
          [] ordinal # 0 /\ ~IsEnd(next) -> IF Valid(next) THEN Reach(m, next, ordinal - 1) ELSE Fail(m)

\* vfsClusterAt with allocate: the chain grows up to the cluster asked for
VfsClusterAt(m, k, ordinal) ==
    IF m.nodes[k].cluster # 0 THEN Reach(m, m.nodes[k].cluster, ordinal)
    ELSE Then(FatAllocateCluster(m), LAMBDA a :
              Then(VfsUpdateNode([a EXCEPT !.nodes[k].cluster = a.val], k), LAMBDA u : Reach(u, a.val, ordinal)))

ClosedFd == [open |-> FALSE, node |-> 0, flags |-> {}, offset |-> 0]

VfsFindOrCreate(m, name, flags) ==
    LET k == VfsFindNode(m, name)
    IN  IF k # 0 THEN Ok(m, k) ELSE IF "create" \in flags THEN VfsCreateNode(m, name) ELSE Fail(m)

VfsDescribe(m, k, flags) ==
    LET i == FirstOf({j \in DOMAIN m.fds : ~m.fds[j].open})
    IN  IF i = 0 THEN Fail(m)
        ELSE Ok([m EXCEPT !.fds[i] = [open |-> TRUE, node |-> k, flags |-> flags,
                    offset |-> IF "append" \in flags THEN m.nodes[k].size ELSE 0]], i)

VfsOpen(m, name, flags) ==
    IF \/ flags \cap {"read", "write"} = {}
       \/ flags \cap {"truncate", "append"} # {} /\ "write" \notin flags
    THEN Fail(m)
    ELSE Then(VfsFindOrCreate(m, name, flags), LAMBDA c :
              Then(IF "truncate" \in flags THEN VfsTruncateNode(c, c.val) ELSE c,
                   LAMBDA t : VfsDescribe(t, c.val, flags)))

Usable(m, fd, flag) == fd \in DOMAIN m.fds /\ m.fds[fd].open /\ flag \in m.fds[fd].flags

VfsRead(m, fd, amount) ==
    LET d == m.fds[fd]
        n == m.nodes[d.node]
        b == Take(Drop(FileBytes(m, n.cluster, n.size), d.offset), amount)
    IN  IF ~Usable(m, fd, "read") \/ Broken(b) THEN Fail(m)
        ELSE Ok([m EXCEPT !.fds[fd].offset = @ + Length(b)], b)

RECURSIVE WriteChunks(_, _, _, _)
WriteChunks(m, k, at, data) ==
    IF data = <<>> THEN Ok(m, 0)
    ELSE LET within == at % ClusterBytes
             chunk  == Take(data, ClusterBytes - within)
             laid(c) == DiskWrite(c, [c.disk EXCEPT !.sec[c.val] =
                            [slots |-> <<>>, runs |-> Overlay(@.runs, within, chunk)]])
         IN  Then(Then(VfsClusterAt(m, k, at \div ClusterBytes), laid),
                  LAMBDA w : WriteChunks(w, k, at + Length(chunk), Drop(data, Length(chunk))))

\* Mutant: an append writes where the descriptor stands.
VfsWriteHere(m, fd, source) ==
    LET k   == m.fds[fd].node
        at  == 0
        end == at + Length(source)
    IN  IF ~Usable(m, fd, "write") \/ end > MaxFile THEN Fail(m)
        ELSE Giving(Then(WriteChunks(m, k, at, source),
                         LAMBDA w : IF end <= w.nodes[k].size THEN w
                                    ELSE VfsUpdateNode([w EXCEPT !.nodes[k].size = end], k)), Length(source))

VfsWrite(m, fd, source) ==
    LET k    == m.fds[fd].node
        at   == IF "append" \in m.fds[fd].flags THEN m.nodes[k].size ELSE m.fds[fd].offset
        end  == at + Length(source)
        grown(w) == IF end <= w.nodes[k].size THEN w ELSE VfsUpdateNode([w EXCEPT !.nodes[k].size = end], k)
        placed == [m EXCEPT !.fds[fd].offset = at]
    IN  IF ~Usable(m, fd, "write") THEN Fail(m)
        ELSE IF end > MaxFile THEN Fail(placed)
        ELSE Giving(Then(WriteChunks(placed, k, at, source),
                         LAMBDA w : grown([w EXCEPT !.fds[fd].offset = end])), Length(source))

VfsSeek(m, fd, position) ==
    IF fd \in DOMAIN m.fds /\ m.fds[fd].open /\ position <= m.nodes[m.fds[fd].node].size
    THEN Ok([m EXCEPT !.fds[fd].offset = position], position) ELSE Fail(m)

VfsClose(m, fd) ==
    IF fd \in DOMAIN m.fds /\ m.fds[fd].open THEN Ok([m EXCEPT !.fds[fd] = ClosedFd], 0) ELSE Fail(m)

VfsStat(m, name) ==
    LET k == VfsFindNode(m, name)
    IN  IF k = 0 THEN Fail(m) ELSE Ok(m, <<m.nodes[k].size, m.nodes[k].cluster, FALSE, 1>>)

----------------------------------------------------------------------------
(* What a volume should look like, as a reader of the disk sees it *)

Ordinary(s) == s.name \notin {Tombstone, ".", ".."}

RECURSIVE PlacesBelow(_, _, _)
PlacesBelow(disk, d, depth) ==
    LET mine == {i \in DOMAIN Slots(disk, d) : Ordinary(Slots(disk, d)[i])}
    IN  {<<d, i>> : i \in mine} \cup
        (IF depth = 0 THEN {}
         ELSE UNION {PlacesBelow(disk, Slots(disk, d)[i].cluster, depth - 1) :
                     i \in {j \in mine : Slots(disk, d)[j].dir /\ Valid(Slots(disk, d)[j].cluster)}})
\* pathResolve follows at most path_max_components names.
Places(disk) == PlacesBelow(disk, 0, 4)
At(disk, p) == Slots(disk, p[1])[p[2]]

Holds(fat, disk, p) == ChainSet(fat, At(disk, p).cluster)
=============================================================================
