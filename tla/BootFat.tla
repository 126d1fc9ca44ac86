------------------------------- MODULE BootFat -------------------------------
(***************************************************************************)
(* The read-only FAT16 backend of /boot (src/runtime_boot_fat.zig): the    *)
(* mount walks every directory and file chain once, claiming clusters, and *)
(* either publishes the volume or stops at the first defect; the runtime   *)
(* then quarantines a defective volume and falls back to embedded assets,  *)
(* while any other error ends the boot.  Reads walk a file's chain from a  *)
(* cursor kept per file.  Any device read may fail, and one that fails     *)
(* leaves the buffer it was to fill as it was (nvme.readBlock).            *)
(*                                                                         *)
(* mount and readFile hold io_lock throughout: their steps here separate   *)
(* the device reads, not threads.                                          *)
(***************************************************************************)
EXTENDS BootFatVolume

CONSTANTS Volumes,          \* the volumes that may be found on the device
          MaximumFiles, MaximumDirectories, MaximumDepth,
          MaxFailures,      \* bound: device reads that fail
          MaxReads          \* bound: calls of readFile

ASSUME BootFatAssumption ==
    /\ {MaximumFiles, MaximumDepth, MaxFailures, MaxReads} \subseteq Nat
    /\ MaximumDirectories \in Nat \ {0}
    /\ \A v \in Volumes : IsVolume(v)

VARIABLES vol,              \* the volume on the device
          pc,               \* what the backend does next; "off" without a device
          queue, staged,    \* directories to scan, and how many were staged
          todo,             \* entries of the current directory sector left
          dir, walk,        \* the directory and the file chain being followed
          claimed,          \* claimed_cluster_bitmap
          free,             \* free_clusters
          files,            \* file contexts: first cluster, size and cursor
          cached, buffer,   \* cached_fat_lba, and the sector fat_sector holds
          counters,         \* chain_loops, cross_links, out_of_range_links
          reason,           \* quarantine_reason, or the error of the mount
          read,             \* the call of readFile under way, or the last one
          failures, reads   \* failed device reads and reads so far

chainVars == <<dir, walk, claimed, free>>
vars == <<vol, pc, queue, staged, todo, chainVars, files, cached, buffer, counters, reason, read,
          failures, reads>>

NoSector == -1
Chain(first) == [cluster |-> first, visited |-> {}, count |-> 0, size |-> 0, depth |-> 0]
NoRead == [file |-> 0, offset |-> 0, count |-> 0, ordinal |-> 0, cluster |-> 0,
           got |-> <<>>, status |-> "idle"]

\* Backend{}: nothing staged, cached or counted
Backend ==
    /\ queue = <<[first |-> 0, depth |-> 0]>> /\ staged = 1 /\ todo = <<>>
    /\ dir = Chain(0) /\ walk = Chain(0) /\ claimed = {} /\ free = 0 /\ files = <<>>
    /\ cached = NoSector /\ buffer = NoSector
    /\ counters = [chain_loop |-> 0, cross_link |-> 0, out_of_range |-> 0]
    /\ reason = "none" /\ read = NoRead /\ failures = 0 /\ reads = 0

Init == vol \in Volumes /\ pc = "boot" /\ Backend

----------------------------------------------------------------------------
(* Errors *)

Quarantinable == {"chain_loop", "cross_link", "out_of_range", "corrupt"}

\* The error leaves the mount, and the runtime asks quarantine() about it.
Abort(err) ==
    /\ reason' = err
    /\ counters' = IF err \in DOMAIN counters THEN [counters EXCEPT ![err] = @ + 1] ELSE counters
    /\ IF err \in Quarantinable
       THEN pc' = "quarantined" /\ claimed' = {} /\ free' = 0 /\ files' = <<>> /\ staged' = 0 /\ cached' = NoSector
       ELSE pc' = "failed" /\ UNCHANGED <<claimed, free, files, staged, cached>>
    /\ UNCHANGED <<vol, queue, todo, dir, walk, buffer, read, reads>>

\* Mutant: a cluster that another chain owns is accepted.
ChainDefectUnclaimed(w) ==
    IF w.cluster \notin Clusters(vol) THEN "out_of_range"
    ELSE IF w.cluster \in w.visited THEN "chain_loop" ELSE "none"

\* markChainVisitedLocked, then claimClusterLocked
ChainDefect(w) ==
    IF w.cluster \notin Clusters(vol) THEN "out_of_range"
    ELSE IF w.cluster \in w.visited THEN "chain_loop"
    ELSE IF w.cluster \in claimed THEN "cross_link" ELSE "none"

Visit(w) == [w EXCEPT !.visited = @ \cup {w.cluster}, !.count = @ + 1]

----------------------------------------------------------------------------
(* readClusterLinkLocked: the FAT sector is read unless it is the cached one *)

Sector(c) == c \div vol.perSector
Hit(c)    == cached = Sector(c)
Fetch(c)  == cached' = Sector(c) /\ buffer' = IF Hit(c) THEN buffer ELSE Sector(c)

\* The entry of cluster c in the buffer: the sector it was last filled with.
Entry(c) == Value(vol, (IF Hit(c) THEN buffer ELSE Sector(c)) * vol.perSector + (c % vol.perSector))
Link(c)  == DecodeClusterLink(vol, Entry(c))

\* What a link that does not go on says of a chain, "none" if it may end.
LinkDefect(w) ==
    CASE Link(w.cluster) \in {"free", "bad"} -> "corrupt"
      [] Link(w.cluster) = "wild"            -> "out_of_range"
      [] Link(w.cluster) = "next"            -> IF w.count = vol.count THEN "chain_loop" ELSE "none"
      [] Link(w.cluster) = "end"             -> IF w.count < w.size THEN "corrupt" ELSE "none"

\* Any device read of the mount fails: IoFailure, which is never quarantined.
MountReads ==
    \/ pc = "boot"
    \/ pc = "scan" /\ queue # <<>> /\ Head(queue).first = 0
    \/ pc = "cluster" /\ ChainDefect(dir) = "none" /\ dir.count = 0
    \/ pc = "dirlink" /\ ~Hit(dir.cluster)
    \/ pc = "file" /\ ChainDefect(walk) = "none" /\ ~Hit(walk.cluster)
    \/ pc = "count" /\ walk.cluster \in Clusters(vol) /\ ~Hit(walk.cluster)

MountReadFails ==
    /\ failures < MaxFailures
    /\ MountReads
    /\ failures' = failures + 1
    /\ Abort("io")

----------------------------------------------------------------------------
(* mount: the directories in the order they were staged *)

ReadBootSector ==
    /\ pc = "boot" /\ pc' = "scan"
    /\ UNCHANGED <<vol, queue, staged, todo, chainVars, files, cached, buffer, counters, reason, read,
                   failures, reads>>

\* The loop of mount, and scanDirectoryLocked up to its first sector: the
\* root directory is an area of its own, every other directory a chain.
ScanDirectory ==
    /\ pc = "scan" /\ queue # <<>>
    /\ IF Head(queue).depth > MaximumDepth
       THEN Abort("namespace") /\ UNCHANGED failures
       ELSE /\ queue' = Tail(queue)
            /\ dir' = [Chain(Head(queue).first) EXCEPT !.depth = Head(queue).depth]
            /\ IF Head(queue).first = 0
               THEN pc' = "entry" /\ todo' = vol.root
               ELSE pc' = "cluster" /\ UNCHANGED todo
            /\ UNCHANGED <<vol, staged, walk, claimed, free, files, cached, buffer, counters, reason, read,
                           failures, reads>>

\* The end mark is in a directory's first cluster: later clusters are followed, not read.
DirectoryCluster ==
    /\ pc = "cluster"
    /\ IF ChainDefect(dir) # "none"
       THEN Abort(ChainDefect(dir)) /\ UNCHANGED failures
       ELSE /\ claimed' = claimed \cup {dir.cluster}
            /\ dir' = Visit(dir)
            /\ todo' = IF dir.count = 0 THEN Contents(vol, dir.cluster) ELSE <<>>
            /\ pc' = "entry"
            /\ UNCHANGED <<vol, queue, staged, walk, free, files, cached, buffer, counters, reason, read,
                           failures, reads>>

EndOfSector ==
    /\ pc = "entry" /\ todo = <<>>
    /\ pc' = IF dir.cluster = 0 THEN "scan" ELSE "dirlink"
    /\ UNCHANGED <<vol, queue, staged, todo, chainVars, files, cached, buffer, counters, reason, read,
                   failures, reads>>

DirectoryLink ==
    /\ pc = "dirlink"
    /\ IF LinkDefect(dir) # "none"
       THEN Abort(LinkDefect(dir)) /\ UNCHANGED failures
       ELSE /\ Fetch(dir.cluster)
            /\ IF Link(dir.cluster) = "next"
               THEN pc' = "cluster" /\ dir' = [dir EXCEPT !.cluster = Entry(dir.cluster)]
               ELSE pc' = "scan" /\ UNCHANGED dir
            /\ UNCHANGED <<vol, queue, staged, todo, walk, claimed, free, files, counters, reason, read,
                           failures, reads>>

\* scanDirectorySectorLocked, a directory: staged for later
StageDirectory ==
    /\ pc = "entry" /\ todo # <<>> /\ Head(todo).dir
    /\ IF Head(todo).first < 2 \/ staged >= MaximumDirectories
       THEN Abort("namespace") /\ UNCHANGED failures
       ELSE /\ queue' = Append(queue, [first |-> Head(todo).first, depth |-> dir.depth + 1])
            /\ staged' = staged + 1
            /\ todo' = Tail(todo)
            /\ UNCHANGED <<vol, pc, chainVars, files, cached, buffer, counters, reason, read, failures, reads>>

NewFile(e) == [first |-> e.first, size |-> e.size, cursorValid |-> FALSE, cluster |-> 0, ordinal |-> 0]

\* scanDirectorySectorLocked, a file: its chain is validated, then it is added
StageFile ==
    /\ pc = "entry" /\ todo # <<>> /\ ~Head(todo).dir
    /\ LET e == Head(todo) IN
       CASE Len(files) >= MaximumFiles -> Abort("namespace") /\ UNCHANGED failures
         [] Len(files) < MaximumFiles /\ Empty(e) ->
              /\ files' = Append(files, NewFile(e)) /\ todo' = Tail(todo)
              /\ UNCHANGED <<vol, pc, queue, staged, chainVars, cached, buffer, counters, reason, read, failures, reads>>
         [] Len(files) < MaximumFiles /\ ~Empty(e) /\ e.first < 2 -> Abort("out_of_range") /\ UNCHANGED failures
         [] OTHER ->
              /\ walk' = [Chain(e.first) EXCEPT !.size = e.size] /\ pc' = "file"
              /\ UNCHANGED <<vol, queue, staged, todo, dir, claimed, free, files, cached, buffer, counters, reason, read,
                             failures, reads>>

\* validateFileChainLocked, one turn of its loop
FileCluster ==
    /\ pc = "file"
    /\ LET seen == Visit(walk)
           d == IF ChainDefect(walk) # "none" THEN ChainDefect(walk) ELSE LinkDefect(seen)
       IN  IF d # "none" THEN Abort(d) /\ UNCHANGED failures
           ELSE /\ claimed' = claimed \cup {walk.cluster}
                /\ Fetch(walk.cluster)
                /\ IF Link(walk.cluster) = "next"
                   THEN walk' = [seen EXCEPT !.cluster = Entry(walk.cluster)] /\ UNCHANGED <<pc, files, todo>>
                   ELSE /\ walk' = seen /\ pc' = "entry"
                        /\ files' = Append(files, NewFile(Head(todo))) /\ todo' = Tail(todo)
                /\ UNCHANGED <<vol, queue, staged, dir, free, counters, reason, read, failures, reads>>

BeginCount ==
    /\ pc = "scan" /\ queue = <<>>
    /\ pc' = "count" /\ walk' = Chain(2)
    /\ UNCHANGED <<vol, queue, staged, todo, dir, claimed, free, files, cached, buffer, counters, reason, read,
                   failures, reads>>

\* countFreeClustersLocked looks at every entry, then the volume is published.
CountFree ==
    /\ pc = "count"
    /\ IF walk.cluster \notin Clusters(vol)
       THEN pc' = "mounted" /\ UNCHANGED <<vol, queue, staged, todo, chainVars, files, cached, buffer, counters, reason,
                                           read, failures, reads>>
       ELSE IF Link(walk.cluster) = "wild" THEN Abort("out_of_range") /\ UNCHANGED failures
       ELSE /\ free' = IF Link(walk.cluster) = "free" THEN free + 1 ELSE free
            /\ walk' = [walk EXCEPT !.cluster = @ + 1]
            /\ Fetch(walk.cluster)
            /\ UNCHANGED <<vol, pc, queue, staged, todo, dir, claimed, files, counters, reason, read, failures, reads>>

----------------------------------------------------------------------------
(* readFile *)

Reading == read.status \in {"seek", "copy", "next"}
ReadOnly(r) == read' = r /\ UNCHANGED <<vol, pc, queue, staged, todo, chainVars, counters, reason>>

\* a cursor beyond the offset is of no use: chains go one way
UsesCursor(f, ordinal) == f.cursorValid /\ ordinal >= f.ordinal

\* readFile up to the loops: offset below the size, count clipped to it
BeginRead(i, offset, count) ==
    /\ pc = "mounted" /\ ~Reading /\ reads < MaxReads
    /\ offset < files[i].size
    /\ LET f == files[i]
           use == UsesCursor(f, offset)
       IN  ReadOnly([file |-> i, offset |-> offset,
                     count |-> IF count < f.size - offset THEN count ELSE f.size - offset,
                     ordinal |-> IF use THEN f.ordinal ELSE 0,
                     cluster |-> IF use THEN f.cluster ELSE f.first,
                     got |-> <<>>, status |-> "seek"])
    /\ reads' = reads + 1
    /\ UNCHANGED <<files, cached, buffer, failures>>

\* One link on: towards the offset, or to the next cluster to copy.
Follow(then) ==
    /\ Fetch(read.cluster)
    /\ ReadOnly(IF Link(read.cluster) = "next"
                THEN [read EXCEPT !.cluster = Entry(read.cluster), !.ordinal = @ + 1, !.status = then]
                ELSE [read EXCEPT !.status = "corrupt"])
    /\ UNCHANGED <<files, failures, reads>>

Seek ==
    /\ read.status = "seek"
    /\ IF read.ordinal < read.offset THEN Follow("seek")
       ELSE ReadOnly([read EXCEPT !.status = "copy"]) /\ UNCHANGED <<files, cached, buffer, failures, reads>>

\* A cluster is copied, then the cursor is moved to it.
CopyCluster ==
    /\ read.status = "copy"
    /\ files' = [files EXCEPT ![read.file] = [@ EXCEPT !.cursorValid = TRUE, !.cluster = read.cluster,
                                                       !.ordinal = read.ordinal]]
    /\ ReadOnly([read EXCEPT !.got = Append(@, read.cluster),
                             !.status = IF Len(read.got) + 1 = read.count THEN "done" ELSE "next"])
    /\ UNCHANGED <<cached, buffer, failures, reads>>

NextCluster == read.status = "next" /\ Follow("copy")

\* Mutant: the cache is labelled before the read that fills it.
ReadFailsLabelled ==
    /\ failures < MaxFailures
    /\ read.status \in {"seek", "next"} /\ ~Hit(read.cluster)
    /\ cached' = Sector(read.cluster)
    /\ failures' = failures + 1
    /\ ReadOnly([read EXCEPT !.status = "io"])
    /\ UNCHANGED <<files, buffer, reads>>

\* A device read of readFile fails: the caller sees EIO, the cursor stays.
ReadFails ==
    /\ failures < MaxFailures
    /\ \/ read.status \in {"seek", "next"} /\ ~Hit(read.cluster)
       \/ read.status = "copy"
    /\ failures' = failures + 1
    /\ ReadOnly([read EXCEPT !.status = "io"])
    /\ UNCHANGED <<files, cached, buffer, reads>>

----------------------------------------------------------------------------
MountNext ==
    \/ ReadBootSector \/ ScanDirectory \/ DirectoryCluster \/ EndOfSector \/ DirectoryLink
    \/ StageDirectory \/ StageFile \/ FileCluster \/ BeginCount \/ CountFree \/ MountReadFails

ReadNext ==
    \/ \E i \in DOMAIN files :
          \E offset \in 0..(files[i].size - 1), count \in 1..files[i].size : BeginRead(i, offset, count)
    \/ Seek \/ CopyCluster \/ NextCluster \/ ReadFails

Done == pc \in {"mounted", "quarantined", "failed"} /\ ~Reading /\ UNCHANGED vars

Next == MountNext \/ ReadNext \/ Done

Spec == Init /\ [][Next]_vars

----------------------------------------------------------------------------
(* Properties *)

\* Type correctness, with the bounds of the staging tables: at most
\* MaximumFiles files and MaximumDirectories directories are ever held.
TypeOK ==
    /\ pc \in {"off", "boot", "scan", "cluster", "entry", "dirlink", "file", "count", "mounted", "quarantined", "failed"}
    /\ staged \in 0..MaximumDirectories /\ Len(files) \in 0..MaximumFiles
    /\ claimed \subseteq Clusters(vol) /\ free \in 0..vol.count
    /\ reason \in Quarantinable \cup {"none", "io", "namespace"}
    /\ read.status \in {"idle", "seek", "copy", "next", "done", "io", "corrupt"}

\* A volume is published only if it is sound: every chain ends, is long
\* enough and stays in the volume, and no cluster has two owners.  The
\* clusters the backend reports as claimed and as free are then exactly the
\* owned and the free ones, so Backend.validate holds.
MountedSound ==
    pc = "mounted" =>
        /\ Sound(vol)
        /\ claimed = Owned(vol) /\ free = FreeCount(vol)
        /\ \A k \in DOMAIN counters : counters[k] = 0

\* A quarantine names a defect the volume really has (a loop is a loop and
\* not a cross-link), whatever reads failed, and leaves what
\* validateQuarantine asks for; a device failure never quarantines.
QuarantineJust ==
    pc = "quarantined" =>
        /\ reason \in Quarantinable /\ Defective(vol, reason)
        /\ claimed = {} /\ files = <<>> /\ failures = 0
        /\ \A k \in DOMAIN counters : counters[k] = IF k = reason THEN 1 ELSE 0

\* What the runtime may rely on when mount() has returned, either way.
MountRight == TypeOK /\ MountedSound /\ QuarantineJust

\* A read that succeeds returns the clusters of the file at that offset, in
\* order, after any sequence of reads forwards, backwards and failed; and
\* a mounted volume never shows a read-time defect.
ReadsTrue ==
    /\ read.status # "corrupt"
    /\ read.status = "done" =>
           read.got = [k \in 1..read.count |-> Nth(vol, files[read.file].first, read.offset + k - 1)]
=============================================================================
