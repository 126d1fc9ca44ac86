----------------------------- MODULE BootImage -----------------------------
(***************************************************************************)
(* From the image builder to the mounted /boot: the device holds either a  *)
(* volume of unknown making, or an image that create-nvme-test-image.py    *)
(* (NvmeImage) has built and on which the kernel's read-only backend       *)
(* (BootFat) is then started.                                              *)
(***************************************************************************)
EXTENDS BootFat

CONSTANTS Requests,      \* command lines of the image builder
          Booted         \* bound: those whose image is booted as well

VARIABLES req, stage, pending, disk

N == INSTANCE NvmeImage

ASSUME RequestAssumption == Requests \subseteq N!Request /\ Booted \subseteq Requests

builder == <<req, stage, pending, disk>>
imageVars == <<vars, builder>>

NoVolume == [count |-> 0, perSector |-> 1, fat |-> <<>>, root |-> <<>>, dirs |-> <<>>]

ImageInit ==
    \/ Init /\ req = <<>> /\ stage = "foreign" /\ pending = <<>> /\ disk = <<>>
    \/ N!Init /\ vol = NoVolume /\ pc = "off" /\ Backend

Build == pc = "off" /\ N!Next /\ UNCHANGED vars

\* QEMU starts on the image; the kernel reads the boot sector, the FAT and
\* the directories off it.
BootFromImage ==
    /\ pc = "off" /\ stage = "built" /\ req \in Booted
    /\ vol' = N!Volume /\ pc' = "boot"
    /\ UNCHANGED <<queue, staged, todo, chainVars, files, cached, buffer, counters, reason, read, failures,
                   reads, builder>>

Run == pc # "off" /\ Next /\ UNCHANGED builder

ImageNext == Build \/ BootFromImage \/ Run

ImageSpec == ImageInit /\ [][ImageNext]_imageVars

----------------------------------------------------------------------------
(* Properties *)

\* For every command line the builder accepts: the file system, the two GPT
\* copies and the journal's partition do not overlap, each structure is where
\* the others say it is, and every write is made.
LayoutSound == pc = "off" => N!TypeOK /\ N!RegionsApart /\ N!GptAgrees

\* The kernel, from the boot sector, the FAT and the directories, finds
\* every block of every file; and FAT and directories are where it looks.
FilesReadBack ==
    /\ \A k \in 0..(2 * N!Layout.perFat - 1) : N!BlockAt(N!Parsed.firstFat + k)[1] = "fat"
    /\ N!BlockAt(N!Parsed.rootDirectory) = <<"root directory", 0>>
    /\ N!Data(2) = <<"efi directory", 0>> /\ N!Data(3) = <<"boot directory", 0>>
    /\ \A k \in 0..(N!FileClusters - 1) :
          N!Data(Nth(N!Volume, N!FirstFileCluster, k)) = <<"BOOTX64.EFI", k>>
    /\ N!Data(N!RootDirectory[2].first) = <<"README.TXT", 0>>
    /\ N!Data(N!BootDirectory[2].first)[1] = IF req.corruption = "none" THEN "BOOT.CFG" ELSE "README.TXT"

\* The volume is sound, for the reference of BootFatVolume, unless a
\* cross-link was asked for; then it has exactly that defect, and the
\* quarantine gate meets the reason it waits for.
VolumeAsAsked ==
    /\ Sound(N!Volume) <=> req.corruption = "none"
    /\ req.corruption = "cross-link" =>
          /\ Defective(N!Volume, "cross_link")
          /\ ~\E r \in {"chain_loop", "out_of_range", "corrupt"} : Defective(N!Volume, r)

\* The names of the files in the order in which the mount stages them.
FileNames == <<"README.TXT", "BOOTX64.EFI", "BOOT.CFG">>

\* An image made as asked boots as asked: the backend mounts it, or
\* quarantines it for the cross-link the gate waits for, and gives up on it
\* only after a device error; reads of its files return the blocks that the
\* builder wrote for them.
ImageBoots ==
    /\ stage = "built" /\ pc = "off" => FilesReadBack /\ VolumeAsAsked /\ N!FaultTargetsHold
    /\ stage = "built" =>
         /\ pc = "mounted" => req.corruption = "none" /\ Len(files) = Len(FileNames)
         /\ pc = "quarantined" => req.corruption = "cross-link" /\ reason = "cross_link"
         /\ pc = "failed" => failures > 0
         /\ read.status = "done" =>
              \A k \in DOMAIN read.got :
                 N!Data(read.got[k]) = <<FileNames[read.file], read.offset + k - 1>>
=============================================================================
