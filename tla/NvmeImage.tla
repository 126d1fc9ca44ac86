----------------------------- MODULE NvmeImage -----------------------------
(***************************************************************************)
(* scripts/create-nvme-test-image.py: the disk that the x86-64 gates boot. *)
(* A GPT with two partitions, a FAT16 file system in the first with the    *)
(* boot image and two small files, nothing in the second, which the kernel *)
(* uses for its journal.  The block written last to an LBA is what is      *)
(* there; a block is <<what, index>>.                                      *)
(***************************************************************************)
EXTENDS Integers, Sequences

CONSTANT Requests      \* the command lines: see Request

NotGiven == -1

\* the parsed arguments; "efi" is the size of the boot image in bytes
Request == [blockSize : Nat, efi : Nat \ {0}, corruption : {"none", "cross-link"},
            gap : Int, firstCluster : Nat \cup {NotGiven}]

VARIABLES req, stage, pending, disk

vars == <<req, stage, pending, disk>>

CeilDiv(a, b) == (a + b - 1) \div b

----------------------------------------------------------------------------
(* layout_for *)

EntryArrayBytes == 128 * 128
RootEntryCount  == 512

Sized(size) ==
    CASE size = 512  -> [total |-> 16 * 1024 * 1024, efiFirst |-> 2048, efiSectors |-> 16384,
                         alignment |-> 2048, perFat |-> 120]
      [] size = 4096 -> [total |-> 64 * 1024 * 1024, efiFirst |-> 256, efiSectors |-> 8192,
                         alignment |-> 256, perFat |-> 8]

DataFirst(s) == CeilDiv(s.efiFirst + s.efiSectors, s.alignment) * s.alignment

LayoutFor(size) ==
    LET s         == Sized(size)
        totalLbas == s.total \div size
        entries   == CeilDiv(EntryArrayBytes, size)
        rootDir   == CeilDiv(RootEntryCount * 32, size)
        metadata  == 1 + 2 * s.perFat + rootDir
    IN  [size |-> size, lastLba |-> totalLbas - 1, perFat |-> s.perFat,
         entrySectors |-> entries, primaryEntry |-> 2, backupEntry |-> totalLbas - 1 - entries,
         firstUsable |-> 2 + entries, lastUsable |-> totalLbas - 1 - entries - 1,
         efiFirst |-> s.efiFirst, efiLast |-> s.efiFirst + s.efiSectors - 1, efiSectors |-> s.efiSectors,
         dataFirst |-> DataFirst(s), dataLast |-> totalLbas - 1 - entries - 1,
         rootSectors |-> rootDir, firstFat |-> s.efiFirst + 1,
         rootDirectory |-> s.efiFirst + 1 + 2 * s.perFat, firstData |-> s.efiFirst + metadata,
         clusterCount |-> s.efiSectors - metadata]

\* the two checks of layout_for, after the block size itself
LayoutFits(l) ==
    /\ l.efiLast < l.dataFirst /\ l.dataLast - l.dataFirst + 1 >= 16
    /\ l.clusterCount \in 4085..65524

Layout == LayoutFor(req.blockSize)
LayoutAccepted == req.blockSize \in {512, 4096} /\ LayoutFits(Layout)

----------------------------------------------------------------------------
(* build_image: GPT and boot sector *)

GptHeader(current, backup, entry) ==
    [current |-> current, backup |-> backup, firstUsable |-> Layout.firstUsable,
     lastUsable |-> Layout.lastUsable, entry |-> entry]
PrimaryHeader == GptHeader(1, Layout.lastLba, Layout.primaryEntry)

BackupHeader == GptHeader(Layout.lastLba, 1, Layout.backupEntry)

PartitionEntries == <<[first |-> Layout.efiFirst, last |-> Layout.efiLast],
                      [first |-> Layout.dataFirst, last |-> Layout.dataLast]>>

BootSector ==
    [bytesPerSector |-> Layout.size, perCluster |-> 1, reserved |-> 1, fats |-> 2, rootEntries |-> RootEntryCount,
     total16 |-> IF Layout.efiSectors <= 65535 THEN Layout.efiSectors ELSE 0,
     total32 |-> IF Layout.efiSectors <= 65535 THEN 0 ELSE Layout.efiSectors,
     perFat |-> Layout.perFat]

----------------------------------------------------------------------------
(* build_image: where the files go, the FAT and the directories *)

FirstFileCluster == 4
FileClusters    == CeilDiv(req.efi, req.blockSize)
LastFileCluster == FirstFileCluster + FileClusters - 1

ReadmeCluster   == IF req.firstCluster # NotGiven THEN req.firstCluster ELSE LastFileCluster + 1 + req.gap
ConfigCluster   == ReadmeCluster + 1

\* Mutant: only the first of the two files is checked.
PlacementFitsLax ==
    /\ req.gap >= 0
    /\ ReadmeCluster > LastFileCluster
    /\ ReadmeCluster < Layout.clusterCount + 2

PlacementFits ==
    /\ req.gap >= 0
    /\ ReadmeCluster > LastFileCluster
    /\ ConfigCluster < Layout.clusterCount + 2

Fat ==
    [c \in (2..LastFileCluster) \cup {ReadmeCluster, ConfigCluster} |->
        IF c \in FirstFileCluster..(LastFileCluster - 1) THEN c + 1 ELSE 65535]

ConfigDirectoryCluster == IF req.corruption = "cross-link" THEN ReadmeCluster ELSE ConfigCluster

Directory(first) == [dir |-> TRUE, first |-> first, size |-> 0]
File(first, sectors) == [dir |-> FALSE, first |-> first, size |-> sectors]

RootDirectory == <<Directory(2), File(ReadmeCluster, 1)>>
EfiDirectory  == <<Directory(3)>>
BootDirectory == <<File(FirstFileCluster, FileClusters), File(ConfigDirectoryCluster, 1)>>

----------------------------------------------------------------------------
(* build_image: the writes, in order *)

Extent(what, lba, blocks) == [what |-> what, lba |-> lba, blocks |-> blocks]

\* Mutant: the small files are placed by cluster number.
ClusterLbaUnbased(c) == Layout.firstData + c

ClusterLba(c) == Layout.firstData + c - 2

Writes == <<
    Extent("mbr", 0, 1),
    Extent("header", 1, 1),
    Extent("entries", Layout.primaryEntry, Layout.entrySectors),
    Extent("entries", Layout.backupEntry, Layout.entrySectors),
    Extent("header", Layout.lastLba, 1),
    Extent("boot sector", Layout.efiFirst, 1),
    Extent("fat", Layout.firstFat, Layout.perFat),
    Extent("fat", Layout.firstFat + Layout.perFat, Layout.perFat),
    Extent("root directory", Layout.rootDirectory, Layout.rootSectors),
    Extent("efi directory", Layout.firstData, 1),
    Extent("boot directory", Layout.firstData + 1, 1),
    Extent("BOOTX64.EFI", Layout.firstData + 2, FileClusters),
    Extent("README.TXT", ClusterLba(ReadmeCluster), 1),
    Extent("BOOT.CFG", ClusterLba(ConfigCluster), 1)>>

Init == req \in Requests /\ stage = "layout" /\ pending = <<>> /\ disk = <<>>

\* layout_for raises
RefuseLayout ==
    /\ stage = "layout"
    /\ ~LayoutAccepted
    /\ stage' = "refused"
    /\ UNCHANGED <<req, pending, disk>>

\* build_image raises before it touches the output
RefusePlacement ==
    /\ stage = "layout"
    /\ LayoutAccepted /\ ~PlacementFits
    /\ stage' = "refused"
    /\ UNCHANGED <<req, pending, disk>>

\* open and truncate: every block reads as zeroes
CreateOutput ==
    /\ stage = "layout"
    /\ LayoutAccepted /\ PlacementFits
    /\ stage' = "writing" /\ pending' = Writes
    /\ UNCHANGED <<req, disk>>

WriteLba ==
    /\ stage = "writing" /\ pending # <<>>
    /\ disk' = Append(disk, Head(pending)) /\ pending' = Tail(pending)
    /\ UNCHANGED <<req, stage>>

\* the metadata that the gates read is the layout with the placement
WriteMetadata ==
    /\ stage = "writing" /\ pending = <<>>
    /\ stage' = "built"
    /\ UNCHANGED <<req, pending, disk>>

Done == stage \in {"refused", "built"} /\ UNCHANGED vars

Next == RefuseLayout \/ RefusePlacement \/ CreateOutput \/ WriteLba \/ WriteMetadata \/ Done

Spec == Init /\ [][Next]_vars

----------------------------------------------------------------------------
(* What the kernel makes of it: src/fat.zig and the journal *)

\* fat.parseBootSector
Parsed ==
    LET b        == BootSector
        total    == IF b.total16 # 0 THEN b.total16 ELSE b.total32
        rootDir  == CeilDiv(b.rootEntries * 32, b.bytesPerSector)
        metadata == b.reserved + b.fats * b.perFat + rootDir
    IN  [firstFat |-> PartitionEntries[1].first + b.reserved,
         rootDirectory |-> PartitionEntries[1].first + b.reserved + b.fats * b.perFat,
         firstData |-> PartitionEntries[1].first + metadata,
         count |-> (total - metadata) \div b.perCluster]

\* the file system as data: see BootFatVolume
Volume == [count |-> Parsed.count, perSector |-> Layout.size \div 2, fat |-> Fat, root |-> RootDirectory,
           dirs |-> [c \in {2, 3} |-> IF c = 2 THEN EfiDirectory ELSE BootDirectory]]

\* the block at an LBA: zeroes unless written, else by the last write
Covers(x, lba) == lba \in x.lba..(x.lba + x.blocks - 1)
BlockAt(lba) ==
    IF \E i \in DOMAIN disk : Covers(disk[i], lba)
    THEN LET i == CHOOSE k \in DOMAIN disk : /\ Covers(disk[k], lba)
                                             /\ \A m \in DOMAIN disk : Covers(disk[m], lba) => m <= k
         IN  <<disk[i].what, lba - disk[i].lba>>
    ELSE <<"zeroes", 0>>
Data(c) == BlockAt(Parsed.firstData + c - 2)

\* the journal's two headers and two payload areas of 64 KiB
JournalBlocks == 2 + 2 * CeilDiv(64 * 1024, req.blockSize)

----------------------------------------------------------------------------
(* Properties *)

\* Type correctness: the writes made and those still to be made are the whole list.
TypeOK ==
    /\ req \in Requests /\ stage \in {"layout", "refused", "writing", "built"}
    /\ stage \in {"writing", "built"} => disk \o pending = Writes
    /\ stage # "writing" => pending = <<>>

\* No write covers a block of another, the file system stays in the first
\* partition, and the second is left to the journal, which fits in it.
RegionsApart ==
    stage = "built" =>
        /\ \A i, j \in DOMAIN disk : i # j =>
               disk[i].lba + disk[i].blocks <= disk[j].lba \/ disk[j].lba + disk[j].blocks <= disk[i].lba
        /\ \A i \in 1..5 : \A p \in DOMAIN PartitionEntries :
               ~(disk[i].lba <= PartitionEntries[p].last /\ disk[i].lba + disk[i].blocks > PartitionEntries[p].first)
        /\ \A i \in 6..Len(disk) :
               disk[i].lba >= Layout.efiFirst /\ disk[i].lba + disk[i].blocks - 1 <= Layout.efiLast
        /\ Layout.efiLast < Layout.dataFirst
        /\ Layout.dataFirst + JournalBlocks - 1 <= Layout.dataLast

\* Each GPT header is where the other says it is, points at a whole copy of
\* the entry array, and the usable range holds both partitions and neither
\* header nor array.
GptAgrees ==
    stage = "built" =>
        /\ PrimaryHeader.backup = BackupHeader.current /\ BackupHeader.backup = PrimaryHeader.current
        /\ \A h \in {PrimaryHeader, BackupHeader} :
               /\ BlockAt(h.current) = <<"header", 0>>
               /\ \A k \in 0..(Layout.entrySectors - 1) : BlockAt(h.entry + k) = <<"entries", k>>
               /\ h.entry + Layout.entrySectors - 1 < h.firstUsable \/ h.entry > h.lastUsable
               /\ \A p \in DOMAIN PartitionEntries :
                      h.firstUsable <= PartitionEntries[p].first /\ PartitionEntries[p].last <= h.lastUsable
        /\ PrimaryHeader.entry # BackupHeader.entry

\* test-boot-fat-io-error.py: FAULT_CLUSTER, FAULT_LBA
FaultCluster == 15000
ReadFaultLba == 17319

\* test-persistent-readonly-remount.py: FAULT_LBA
WriteFaultLba == 18434

\* The LBAs that the fault-injection builds of the kernel have compiled in
\* are those of README.TXT and of the first payload block of the journal.
FaultTargetsHold ==
    stage = "built" /\ req.blockSize = 512 =>
        /\ req.firstCluster = FaultCluster => BlockAt(ReadFaultLba) = <<"README.TXT", 0>>
        /\ Layout.dataFirst + 2 = WriteFaultLba /\ BlockAt(WriteFaultLba) = <<"zeroes", 0>>
=============================================================================
