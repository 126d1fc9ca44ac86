--------------------------- MODULE BootImageProofs ---------------------------
(***************************************************************************)
(* Proofs about module BootImage: the layout of every image that the       *)
(* builder accepts, for every size of the boot image and every placement;  *)
(* that the reads of a mounted volume return what is on it, for every      *)
(* volume and any sequence of reads and device failures; and that the      *)
(* mount publishes sound volumes only, and quarantines for a defect that   *)
(* the volume has.                                                         *)
(***************************************************************************)
EXTENDS BootImage, NaturalsInduction, WellFoundedInduction, FiniteSetTheorems, TLAPS

(* A mount that gives up is not off.                                       *)
LEMMA AbortPc ==
    ASSUME NEW err, Abort(err)
    PROVE  pc' # "off"
  BY DEF Abort

(* A step of the backend does not bring the builder back.                  *)
LEMMA BackendStays ==
    ASSUME pc # "off", Next
    PROVE  pc' # "off"
  <1>1. CASE ReadBootSector
    BY <1>1 DEF ReadBootSector
  <1>2. CASE ScanDirectory
    BY <1>2, AbortPc DEF ScanDirectory
  <1>3. CASE DirectoryCluster
    BY <1>3, AbortPc DEF DirectoryCluster
  <1>4. CASE EndOfSector
    BY <1>4 DEF EndOfSector
  <1>5. CASE DirectoryLink
    BY <1>5, AbortPc DEF DirectoryLink
  <1>6. CASE StageDirectory
    BY <1>6, AbortPc DEF StageDirectory
  <1>7. CASE StageFile
    BY <1>7, AbortPc DEF StageFile
  <1>8. CASE FileCluster
    BY <1>8, AbortPc DEF FileCluster
  <1>9. CASE BeginCount
    BY <1>9 DEF BeginCount
  <1>10. CASE CountFree
    BY <1>10, AbortPc DEF CountFree
  <1>11. CASE MountReadFails
    BY <1>11, AbortPc DEF MountReadFails
  <1>12. CASE ReadNext \/ Done
    BY <1>12 DEF ReadNext, Done, BeginRead, Seek, CopyCluster, NextCluster, ReadFails,
                 Follow, ReadOnly, vars
  <1> QED BY <1>1, <1>2, <1>3, <1>4, <1>5, <1>6, <1>7, <1>8, <1>9, <1>10, <1>11, <1>12
          DEF Next, MountNext

(* The numbers of the layout with blocks of 512 bytes.                     *)
LEMMA Layout512 ==
    LET l == N!LayoutFor(512)
    IN /\ l.lastLba = 32767 /\ l.perFat = 120 /\ l.entrySectors = 32 /\ l.primaryEntry = 2
       /\ l.backupEntry = 32735 /\ l.firstUsable = 34 /\ l.lastUsable = 32734
       /\ l.efiFirst = 2048 /\ l.efiLast = 18431 /\ l.dataFirst = 18432 /\ l.dataLast = 32734
       /\ l.rootSectors = 32 /\ l.firstFat = 2049 /\ l.rootDirectory = 2289
       /\ l.firstData = 2321 /\ l.clusterCount = 16111
  BY DEF N!LayoutFor, N!Sized, N!CeilDiv, N!EntryArrayBytes, N!RootEntryCount, N!DataFirst

(* The numbers of the layout with blocks of 4096 bytes.                    *)
LEMMA Layout4096 ==
    LET l == N!LayoutFor(4096)
    IN /\ l.lastLba = 16383 /\ l.perFat = 8 /\ l.entrySectors = 4 /\ l.primaryEntry = 2
       /\ l.backupEntry = 16379 /\ l.firstUsable = 6 /\ l.lastUsable = 16378
       /\ l.efiFirst = 256 /\ l.efiLast = 8447 /\ l.dataFirst = 8448 /\ l.dataLast = 16378
       /\ l.rootSectors = 4 /\ l.firstFat = 257 /\ l.rootDirectory = 273
       /\ l.firstData = 277 /\ l.clusterCount = 8171
  BY DEF N!LayoutFor, N!Sized, N!CeilDiv, N!EntryArrayBytes, N!RootEntryCount, N!DataFirst

(* What a layout that is accepted has in common, whatever the block size:  *)
(* the order of its parts.                                                 *)
Ordered(l) ==
    /\ {l.lastLba, l.perFat, l.entrySectors, l.primaryEntry, l.backupEntry, l.firstUsable,
        l.lastUsable, l.efiFirst, l.efiLast, l.dataFirst, l.dataLast, l.rootSectors,
        l.firstFat, l.rootDirectory, l.firstData, l.clusterCount} \subseteq Nat
    /\ l.entrySectors > 0 /\ l.perFat > 0 /\ l.rootSectors > 0
    /\ l.primaryEntry = 2 /\ l.firstUsable = 2 + l.entrySectors
    /\ l.firstUsable <= l.efiFirst
    /\ l.firstFat = l.efiFirst + 1 /\ l.rootDirectory = l.firstFat + 2 * l.perFat
    /\ l.firstData = l.rootDirectory + l.rootSectors
    /\ l.efiLast + 1 = l.firstData + l.clusterCount
    /\ l.efiLast < l.dataFirst /\ l.dataFirst + 258 <= l.dataLast + 1
    /\ l.dataLast = l.lastUsable
    /\ l.backupEntry = l.lastUsable + 1 /\ l.lastLba = l.backupEntry + l.entrySectors

(* The two layouts are in order.                                           *)
LEMMA LayoutOrdered ==
    ASSUME N!LayoutAccepted
    PROVE  /\ Ordered(N!Layout)
           /\ N!Layout.dataFirst + N!JournalBlocks - 1 <= N!Layout.dataLast
  <1>1. CASE req.blockSize = 512
    <2>1. N!Layout = N!LayoutFor(512)
      BY <1>1 DEF N!Layout
    <2>2. N!JournalBlocks = 258
      BY <1>1 DEF N!JournalBlocks, N!CeilDiv
    <2> QED BY <2>1, <2>2, Layout512 DEF Ordered
  <1>2. CASE req.blockSize = 4096
    <2>1. N!Layout = N!LayoutFor(4096)
      BY <1>2 DEF N!Layout
    <2>2. N!JournalBlocks = 34
      BY <1>2 DEF N!JournalBlocks, N!CeilDiv
    <2> QED BY <2>1, <2>2, Layout4096 DEF Ordered
  <1> QED BY <1>1, <1>2 DEF N!LayoutAccepted

(* The boot image has a cluster at least, and the two small files follow   *)
(* it in the volume.                                                       *)
LEMMA Placed ==
    ASSUME req \in N!Request, N!LayoutAccepted, N!PlacementFits
    PROVE  /\ N!FileClusters \in Nat /\ N!FileClusters > 0
           /\ N!ReadmeCluster \in Int /\ N!ConfigCluster = N!ReadmeCluster + 1
           /\ N!ReadmeCluster >= 4 + N!FileClusters
           /\ N!ReadmeCluster <= N!Layout.clusterCount
  <1>1. /\ req.efi \in Nat /\ req.efi > 0 /\ req.gap \in Int
        /\ req.firstCluster \in Int
    BY DEF N!Request, N!NotGiven
  <1>2. N!FileClusters \in Nat /\ N!FileClusters > 0
    <2>1. \A n \in Nat \ {0} : /\ (n + 512 - 1) \div 512 \in Nat
                               /\ (n + 512 - 1) \div 512 > 0
                               /\ (n + 4096 - 1) \div 4096 \in Nat
                               /\ (n + 4096 - 1) \div 4096 > 0
      OBVIOUS
    <2> QED BY <1>1, <2>1 DEF N!LayoutAccepted, N!FileClusters, N!CeilDiv
  <1> HIDE DEF N!FileClusters
  <1>3. N!ReadmeCluster \in Int
    BY <1>1, <1>2 DEF N!ReadmeCluster, N!LastFileCluster, N!FirstFileCluster
  <1>4. N!Layout.clusterCount \in Int
    BY LayoutOrdered DEF Ordered
  <1> HIDE DEF N!ReadmeCluster, N!Layout
  <1> QED BY <1>2, <1>3, <1>4 DEF N!PlacementFits, N!ConfigCluster, N!LastFileCluster,
                                  N!FirstFileCluster

(* A write, field by field.                                                *)
LEMMA ExtentFields ==
    ASSUME NEW what, NEW lba, NEW blocks
    PROVE  LET x == N!Extent(what, lba, blocks)
           IN x.what = what /\ x.lba = lba /\ x.blocks = blocks
  BY DEF N!Extent

(* The writes, one by one.                                                 *)
LEMMA WriteList ==
    LET w == N!Writes
        l == N!Layout
    IN /\ Len(w) = 14 /\ DOMAIN w = 1 .. 14
       /\ w[1].what = "mbr" /\ w[1].lba = 0 /\ w[1].blocks = 1
       /\ w[2].what = "header" /\ w[2].lba = 1 /\ w[2].blocks = 1
       /\ w[3].what = "entries" /\ w[3].lba = l.primaryEntry /\ w[3].blocks = l.entrySectors
       /\ w[4].what = "entries" /\ w[4].lba = l.backupEntry /\ w[4].blocks = l.entrySectors
       /\ w[5].what = "header" /\ w[5].lba = l.lastLba /\ w[5].blocks = 1
       /\ w[6].lba = l.efiFirst /\ w[6].blocks = 1
       /\ w[7].lba = l.firstFat /\ w[7].blocks = l.perFat
       /\ w[8].lba = l.firstFat + l.perFat /\ w[8].blocks = l.perFat
       /\ w[9].lba = l.rootDirectory /\ w[9].blocks = l.rootSectors
       /\ w[10].lba = l.firstData /\ w[10].blocks = 1
       /\ w[11].lba = l.firstData + 1 /\ w[11].blocks = 1
       /\ w[12].lba = l.firstData + 2 /\ w[12].blocks = N!FileClusters
       /\ w[13].lba = l.firstData + N!ReadmeCluster - 2 /\ w[13].blocks = 1
       /\ w[14].lba = l.firstData + N!ConfigCluster - 2 /\ w[14].blocks = 1
  <1> DEFINE l == N!Layout
             w == N!Writes
             name == <<"boot sector", "fat", "fat", "root directory", "efi directory",
                       "boot directory", "BOOTX64.EFI", "README.TXT", "BOOT.CFG">>
  <1>1. /\ Len(w) = 14 /\ DOMAIN w = 1 .. 14
        /\ w[1] = N!Extent("mbr", 0, 1)
        /\ w[2] = N!Extent("header", 1, 1)
        /\ w[3] = N!Extent("entries", l.primaryEntry, l.entrySectors)
        /\ w[4] = N!Extent("entries", l.backupEntry, l.entrySectors)
        /\ w[5] = N!Extent("header", l.lastLba, 1)
        /\ w[6] = N!Extent(name[1], l.efiFirst, 1)
        /\ w[7] = N!Extent(name[2], l.firstFat, l.perFat)
        /\ w[8] = N!Extent(name[3], l.firstFat + l.perFat, l.perFat)
        /\ w[9] = N!Extent(name[4], l.rootDirectory, l.rootSectors)
        /\ w[10] = N!Extent(name[5], l.firstData, 1)
        /\ w[11] = N!Extent(name[6], l.firstData + 1, 1)
        /\ w[12] = N!Extent(name[7], l.firstData + 2, N!FileClusters)
        /\ w[13] = N!Extent(name[8], N!ClusterLba(N!ReadmeCluster), 1)
        /\ w[14] = N!Extent(name[9], N!ClusterLba(N!ConfigCluster), 1)
    BY DEF N!Writes
  <1> HIDE DEF w, l, name
  <1>2. /\ w[1].what = "mbr" /\ w[1].lba = 0 /\ w[1].blocks = 1
        /\ w[2].what = "header" /\ w[2].lba = 1 /\ w[2].blocks = 1
        /\ w[3].what = "entries" /\ w[3].lba = l.primaryEntry /\ w[3].blocks = l.entrySectors
        /\ w[4].what = "entries" /\ w[4].lba = l.backupEntry /\ w[4].blocks = l.entrySectors
        /\ w[5].what = "header" /\ w[5].lba = l.lastLba /\ w[5].blocks = 1
    BY <1>1, ExtentFields
  <1>3. /\ w[6].lba = l.efiFirst /\ w[6].blocks = 1
        /\ w[7].lba = l.firstFat /\ w[7].blocks = l.perFat
        /\ w[8].lba = l.firstFat + l.perFat /\ w[8].blocks = l.perFat
        /\ w[9].lba = l.rootDirectory /\ w[9].blocks = l.rootSectors
        /\ w[10].lba = l.firstData /\ w[10].blocks = 1
        /\ w[11].lba = l.firstData + 1 /\ w[11].blocks = 1
        /\ w[12].lba = l.firstData + 2 /\ w[12].blocks = N!FileClusters
        /\ w[13].lba = N!ClusterLba(N!ReadmeCluster) /\ w[13].blocks = 1
        /\ w[14].lba = N!ClusterLba(N!ConfigCluster) /\ w[14].blocks = 1
    BY <1>1, ExtentFields
  <1>4. /\ N!ClusterLba(N!ReadmeCluster) = l.firstData + N!ReadmeCluster - 2
        /\ N!ClusterLba(N!ConfigCluster) = l.firstData + N!ConfigCluster - 2
    BY DEF N!ClusterLba, l
  <1> QED BY <1>1, <1>2, <1>3, <1>4 DEF w, l

(* Fourteen values in a row are a sequence of any set that holds them.      *)
LEMMA FourteenSeq ==
    ASSUME NEW X, NEW a \in X, NEW b \in X, NEW c \in X, NEW d \in X, NEW e \in X,
           NEW f \in X, NEW g \in X, NEW h \in X, NEW i \in X, NEW j \in X, NEW k \in X,
           NEW l \in X, NEW m \in X, NEW n \in X
    PROVE  <<a, b, c, d, e, f, g, h, i, j, k, l, m, n>> \in Seq(X)
  OBVIOUS

(* The same for the set of exactly these values.                           *)
LEMMA OwnSeq ==
    ASSUME NEW s, NEW a, NEW b, NEW c, NEW d, NEW e, NEW f, NEW g, NEW h, NEW i, NEW j, NEW k,
           NEW l, NEW m, NEW n,
           s = <<a, b, c, d, e, f, g, h, i, j, k, l, m, n>>
    PROVE  s \in Seq({s[p] : p \in 1 .. 14})
  <1> DEFINE X == {s[p] : p \in 1 .. 14}
  <1>1. /\ a \in X /\ b \in X /\ c \in X /\ d \in X /\ e \in X /\ f \in X /\ g \in X
        /\ h \in X /\ i \in X /\ j \in X /\ k \in X /\ l \in X /\ m \in X /\ n \in X
    <2>1. /\ s[1] = a /\ s[2] = b /\ s[3] = c /\ s[4] = d /\ s[5] = e /\ s[6] = f /\ s[7] = g
          /\ s[8] = h /\ s[9] = i /\ s[10] = j /\ s[11] = k /\ s[12] = l /\ s[13] = m
          /\ s[14] = n
      OBVIOUS
    <2>2. \A p \in 1 .. 14 : s[p] \in X
      OBVIOUS
    <2> HIDE DEF X
    <2> QED BY <2>1, <2>2
  <1> HIDE DEF X
  <1> QED BY <1>1, FourteenSeq

(* The writes of the request's list.                                       *)
Listed == {N!Writes[p] : p \in 1 .. 14}

(* The list depends on the request alone.                                  *)
LEMMA SameRequest ==
    ASSUME req' = req
    PROVE  /\ N!Writes' = N!Writes
           /\ N!LayoutAccepted' = N!LayoutAccepted
           /\ N!PlacementFits' = N!PlacementFits
           /\ Listed' = Listed
  <1>1. N!Layout' = N!Layout
    BY DEF N!Layout
  <1>2. N!FileClusters' = N!FileClusters
    BY DEF N!FileClusters
  <1>3. N!ReadmeCluster' = N!ReadmeCluster /\ N!ConfigCluster' = N!ConfigCluster
    BY <1>2 DEF N!ReadmeCluster, N!ConfigCluster, N!LastFileCluster
  <1>4. N!Writes' = N!Writes
    BY <1>1, <1>2, <1>3, Zenon DEF N!Writes, N!ClusterLba
  <1>5. N!LayoutAccepted' = N!LayoutAccepted
    BY <1>1 DEF N!LayoutAccepted
  <1>6. N!PlacementFits' = N!PlacementFits
    BY <1>1, <1>2, <1>3 DEF N!PlacementFits, N!LastFileCluster
  <1> QED BY <1>4, <1>5, <1>6, Zenon DEF Listed

(* The list of writes is a sequence.                                       *)
LEMMA WritesSeq == N!Writes \in Seq(Listed)
  <1> DEFINE w == N!Writes
             l == N!Layout
  <1>1. \E name : w = <<
            N!Extent("mbr", 0, 1), N!Extent("header", 1, 1),
            N!Extent("entries", l.primaryEntry, l.entrySectors),
            N!Extent("entries", l.backupEntry, l.entrySectors),
            N!Extent("header", l.lastLba, 1),
            N!Extent(name[1], l.efiFirst, 1), N!Extent(name[2], l.firstFat, l.perFat),
            N!Extent(name[3], l.firstFat + l.perFat, l.perFat),
            N!Extent(name[4], l.rootDirectory, l.rootSectors),
            N!Extent(name[5], l.firstData, 1), N!Extent(name[6], l.firstData + 1, 1),
            N!Extent(name[7], l.firstData + 2, N!FileClusters),
            N!Extent(name[8], N!ClusterLba(N!ReadmeCluster), 1),
            N!Extent(name[9], N!ClusterLba(N!ConfigCluster), 1)>>
    <2> DEFINE name == <<"boot sector", "fat", "fat", "root directory", "efi directory",
                         "boot directory", "BOOTX64.EFI", "README.TXT", "BOOT.CFG">>
    <2> WITNESS name
    <2> QED BY DEF N!Writes
  <1> HIDE DEF w
  <1>2. w \in Seq({w[p] : p \in 1 .. 14})
    BY <1>1, OwnSeq
  <1> QED BY <1>2 DEF w, Listed

(* Taking the head of a list over to the end of another.                   *)
LEMMA TakeOver ==
    ASSUME NEW X, NEW s \in Seq(X), NEW t \in Seq(X), t # <<>>
    PROVE  /\ Append(s, Head(t)) \in Seq(X) /\ Tail(t) \in Seq(X)
           /\ Append(s, Head(t)) \o Tail(t) = s \o t
  OBVIOUS

(* The writes of the list are apart, and where they belong.                *)
LEMMA ListApart ==
    ASSUME req \in N!Request, N!LayoutAccepted, N!PlacementFits
    PROVE  LET w == N!Writes
               l == N!Layout
           IN /\ \A i, j \in 1 .. 14 : i # j =>
                    \/ w[i].lba + w[i].blocks <= w[j].lba
                    \/ w[j].lba + w[j].blocks <= w[i].lba
              /\ \A i \in 1 .. 14 : w[i].lba \in Int /\ w[i].blocks \in Int
              /\ \A i \in 1 .. 5 : \/ w[i].lba + w[i].blocks <= l.firstUsable
                                   \/ w[i].lba > l.lastUsable
              /\ \A i \in 6 .. 14 : /\ w[i].lba >= l.efiFirst
                                    /\ w[i].lba + w[i].blocks - 1 <= l.efiLast
  <1> DEFINE w == N!Writes
             l == N!Layout
             F == N!FileClusters
             R == N!ReadmeCluster
  <1>1. Ordered(l)
    BY LayoutOrdered
  <1>2. /\ F \in Nat /\ F > 0 /\ R \in Int /\ N!ConfigCluster = R + 1
        /\ R >= 4 + F /\ R <= l.clusterCount
    BY Placed
  <1>3. /\ w[1].lba = 0 /\ w[1].blocks = 1
        /\ w[2].lba = 1 /\ w[2].blocks = 1
        /\ w[3].lba = 2 /\ w[3].blocks = l.entrySectors
        /\ w[4].lba = l.backupEntry /\ w[4].blocks = l.entrySectors
        /\ w[5].lba = l.lastLba /\ w[5].blocks = 1
        /\ w[6].lba = l.efiFirst /\ w[6].blocks = 1
        /\ w[7].lba = l.firstFat /\ w[7].blocks = l.perFat
        /\ w[8].lba = l.firstFat + l.perFat /\ w[8].blocks = l.perFat
        /\ w[9].lba = l.rootDirectory /\ w[9].blocks = l.rootSectors
        /\ w[10].lba = l.firstData /\ w[10].blocks = 1
        /\ w[11].lba = l.firstData + 1 /\ w[11].blocks = 1
        /\ w[12].lba = l.firstData + 2 /\ w[12].blocks = F
        /\ w[13].lba = l.firstData + R - 2 /\ w[13].blocks = 1
        /\ w[14].lba = l.firstData + R - 1 /\ w[14].blocks = 1
    BY <1>1, <1>2, WriteList DEF Ordered
  <1> HIDE DEF w, l, F, R
  <1>4. \A i \in 1 .. 14 : \/ i = 1 \/ i = 2 \/ i = 3 \/ i = 4 \/ i = 5 \/ i = 6 \/ i = 7
                           \/ i = 8 \/ i = 9 \/ i = 10 \/ i = 11 \/ i = 12 \/ i = 13 \/ i = 14
    OBVIOUS
  <1>5. \A i \in 1 .. 14 : w[i].lba \in Int /\ w[i].blocks \in Int
    BY <1>1, <1>2, <1>3, <1>4 DEF Ordered
  <1>6. ASSUME NEW i \in 1 .. 14, NEW j \in 1 .. 14, i # j
        PROVE  \/ w[i].lba + w[i].blocks <= w[j].lba
               \/ w[j].lba + w[j].blocks <= w[i].lba
    BY <1>1, <1>2, <1>3, <1>4, <1>6 DEF Ordered
  <1>7. ASSUME NEW i \in 1 .. 5
        PROVE  w[i].lba + w[i].blocks <= l.firstUsable \/ w[i].lba > l.lastUsable
    BY <1>1, <1>2, <1>3, <1>4 DEF Ordered
  <1>8. ASSUME NEW i \in 6 .. 14
        PROVE  w[i].lba >= l.efiFirst /\ w[i].lba + w[i].blocks - 1 <= l.efiLast
    BY <1>1, <1>2, <1>3, <1>4 DEF Ordered
  <1> QED BY <1>5, <1>6, <1>7, <1>8 DEF w, l
----------------------------------------------------------------------------
(* The builder's invariant                                                 *)

(* While the builder is at work: what is on the disk and what is pending   *)
(* make up the list of an accepted request.                                *)
BuilderInv ==
    pc = "off" =>
        /\ req \in Requests /\ stage \in {"layout", "refused", "writing", "built"}
        /\ stage = "layout" => disk = <<>>
        /\ stage \in {"writing", "built"} =>
              disk \o pending = N!Writes /\ N!LayoutAccepted /\ N!PlacementFits
        /\ stage # "writing" => pending = <<>>
        /\ disk \in Seq(Listed) /\ pending \in Seq(Listed)

(* The builder starts with nothing written; a foreign volume is not its.   *)
LEMMA BuilderInit == ImageInit => BuilderInv
  <1> SUFFICES ASSUME ImageInit, pc = "off" PROVE BuilderInv
    BY DEF BuilderInv
  <1>1. ~Init
    BY DEF Init
  <1>2. N!Init
    BY <1>1 DEF ImageInit
  <1>3. <<>> \in Seq(Listed)
    OBVIOUS
  <1> QED BY <1>2, <1>3 DEF N!Init, BuilderInv

(* Each action of the builder keeps the invariant; once the kernel runs,   *)
(* the builder is not started again.                                       *)
LEMMA BuilderStep == BuilderInv /\ [ImageNext]_imageVars => BuilderInv'
  <1> SUFFICES ASSUME BuilderInv, [ImageNext]_imageVars PROVE BuilderInv'
    OBVIOUS
  <1>1. CASE pc # "off" \/ BootFromImage
    <2>1. pc' # "off"
      BY <1>1, BackendStays DEF ImageNext, Build, BootFromImage, Run, imageVars, vars
    <2> QED BY <2>1 DEF BuilderInv
  <1>2. CASE pc = "off" /\ ~BootFromImage
    <2>1. Build \/ UNCHANGED imageVars
      BY <1>2 DEF ImageNext, Run
    <2>2. pc' = "off" /\ (N!Next \/ UNCHANGED builder)
      BY <1>2, <2>1 DEF Build, imageVars, vars, builder
    <2>3. req' = req
      BY <2>2 DEF N!Next, N!RefuseLayout, N!RefusePlacement, N!CreateOutput, N!WriteLba,
                  N!WriteMetadata, N!Done, N!vars, builder
    <2>4. /\ N!Writes' = N!Writes /\ N!LayoutAccepted' = N!LayoutAccepted
          /\ N!PlacementFits' = N!PlacementFits /\ Listed' = Listed
      BY <2>3, SameRequest
    <2>5. /\ req \in Requests /\ stage \in {"layout", "refused", "writing", "built"}
          /\ stage = "layout" => disk = <<>>
          /\ stage \in {"writing", "built"} =>
                disk \o pending = N!Writes /\ N!LayoutAccepted /\ N!PlacementFits
          /\ stage # "writing" => pending = <<>>
          /\ disk \in Seq(Listed) /\ pending \in Seq(Listed)
      BY <1>2 DEF BuilderInv
    <2> HIDE DEF Listed
    <2>6. CASE N!RefuseLayout \/ N!RefusePlacement
      BY <2>2, <2>3, <2>4, <2>5, <2>6 DEF N!RefuseLayout, N!RefusePlacement, BuilderInv
    <2>7. CASE N!CreateOutput
      <3>1. /\ req' \in Requests /\ stage' = "writing" /\ disk' = <<>> /\ pending' = N!Writes
            /\ N!LayoutAccepted /\ N!PlacementFits
        BY <2>3, <2>5, <2>7 DEF N!CreateOutput
      <3>2. disk' \o pending' = N!Writes /\ disk' \in Seq(Listed) /\ pending' \in Seq(Listed)
        BY <3>1, WritesSeq
      <3> QED BY <2>2, <2>4, <3>1, <3>2 DEF BuilderInv
    <2>8. CASE N!WriteLba
      <3>1. /\ pending # <<>> /\ stage = "writing" /\ stage' = stage
            /\ disk' = Append(disk, Head(pending)) /\ pending' = Tail(pending)
        BY <2>8 DEF N!WriteLba
      <3>2. /\ disk' \in Seq(Listed) /\ pending' \in Seq(Listed)
            /\ disk' \o pending' = disk \o pending
        BY <2>5, <3>1, TakeOver
      <3> QED BY <2>2, <2>3, <2>4, <2>5, <3>1, <3>2 DEF BuilderInv
    <2>9. CASE N!WriteMetadata
      BY <2>2, <2>3, <2>4, <2>5, <2>9 DEF N!WriteMetadata, BuilderInv
    <2>10. CASE N!Done \/ UNCHANGED builder
      BY <2>2, <2>3, <2>4, <2>5, <2>10 DEF N!Done, N!vars, builder, BuilderInv
    <2> QED BY <2>2, <2>6, <2>7, <2>8, <2>9, <2>10 DEF N!Next
  <1> QED BY <1>1, <1>2

(* A finished image is the whole list, of an accepted request.             *)
LEMMA Finished ==
    ASSUME BuilderInv, pc = "off", stage = "built"
    PROVE  disk = N!Writes /\ req \in N!Request /\ N!LayoutAccepted /\ N!PlacementFits
  <1>1. /\ req \in Requests /\ disk \o pending = N!Writes /\ pending = <<>>
        /\ disk \in Seq(Listed) /\ N!LayoutAccepted /\ N!PlacementFits
    BY DEF BuilderInv
  <1>2. disk \o <<>> = disk
    BY <1>1
  <1> QED BY <1>1, <1>2, RequestAssumption

----------------------------------------------------------------------------
(* The layout                                                              *)

(* The partitions of the GPT.                                              *)
LEMMA Partitions ==
    /\ DOMAIN N!PartitionEntries = {1, 2}
    /\ N!PartitionEntries[1].first = N!Layout.efiFirst
    /\ N!PartitionEntries[1].last = N!Layout.efiLast
    /\ N!PartitionEntries[2].first = N!Layout.dataFirst
    /\ N!PartitionEntries[2].last = N!Layout.dataLast
  BY DEF N!PartitionEntries

(* The writes are apart and in their partition.                            *)
LEMMA Apart ==
    ASSUME BuilderInv, pc = "off"
    PROVE  N!RegionsApart
  <1> SUFFICES ASSUME stage = "built" PROVE N!RegionsApart
    BY DEF N!RegionsApart
  <1> DEFINE l == N!Layout
             w == N!Writes
  <1>1. disk = w /\ req \in N!Request /\ N!LayoutAccepted /\ N!PlacementFits
    BY Finished
  <1>2. Ordered(l) /\ l.dataFirst + N!JournalBlocks - 1 <= l.dataLast
    BY <1>1, LayoutOrdered
  <1>3. Len(disk) = 14 /\ DOMAIN disk = 1 .. 14
    BY <1>1, WriteList
  <1>4. /\ \A i, j \in 1 .. 14 : i # j =>
              \/ disk[i].lba + disk[i].blocks <= disk[j].lba
              \/ disk[j].lba + disk[j].blocks <= disk[i].lba
        /\ \A i \in 1 .. 14 : disk[i].lba \in Int /\ disk[i].blocks \in Int
        /\ \A i \in 1 .. 5 : \/ disk[i].lba + disk[i].blocks <= l.firstUsable
                             \/ disk[i].lba > l.lastUsable
        /\ \A i \in 6 .. 14 : /\ disk[i].lba >= l.efiFirst
                              /\ disk[i].lba + disk[i].blocks - 1 <= l.efiLast
    BY <1>1, ListApart
  <1> HIDE DEF w, l
  <1>5. ASSUME NEW i \in 1 .. 5, NEW p \in DOMAIN N!PartitionEntries
        PROVE  ~(/\ disk[i].lba <= N!PartitionEntries[p].last
                 /\ disk[i].lba + disk[i].blocks > N!PartitionEntries[p].first)
    <2>1. /\ l.firstUsable \in Int /\ l.efiFirst \in Int /\ l.efiLast \in Int
          /\ l.dataFirst \in Int /\ l.dataLast \in Int /\ l.lastUsable \in Int
          /\ l.firstUsable <= l.efiFirst /\ l.efiLast < l.dataFirst
          /\ l.dataFirst <= l.dataLast + 1 /\ l.dataLast = l.lastUsable
          /\ l.efiFirst <= l.efiLast
      BY <1>2 DEF Ordered
    <2>2. /\ N!PartitionEntries[p].first >= l.firstUsable
          /\ N!PartitionEntries[p].last <= l.lastUsable
          /\ N!PartitionEntries[p].first \in Int /\ N!PartitionEntries[p].last \in Int
      BY <2>1, Partitions DEF l
    <2>3. /\ disk[i].lba \in Int /\ disk[i].blocks \in Int
          /\ disk[i].lba + disk[i].blocks <= l.firstUsable \/ disk[i].lba > l.lastUsable
      BY <1>4
    <2> QED BY <2>1, <2>2, <2>3
  <1>6. l.efiLast < l.dataFirst
    BY <1>2 DEF Ordered
  <1> QED BY <1>2, <1>3, <1>4, <1>5, <1>6 DEF N!RegionsApart, l

(* In a finished image each block is that of the one write that covers it. *)
LEMMA BlockOf ==
    ASSUME disk = N!Writes, req \in N!Request, N!LayoutAccepted, N!PlacementFits,
           NEW i \in 1 .. 14, NEW k \in Nat, k < N!Writes[i].blocks
    PROVE  N!BlockAt(N!Writes[i].lba + k) = <<N!Writes[i].what, k>>
  <1> DEFINE w == N!Writes
             a == w[i].lba + k
  <1>1. DOMAIN disk = 1 .. 14
    BY WriteList
  <1>2. /\ \A m, n \in 1 .. 14 : m # n =>
              \/ w[m].lba + w[m].blocks <= w[n].lba
              \/ w[n].lba + w[n].blocks <= w[m].lba
        /\ \A m \in 1 .. 14 : w[m].lba \in Int /\ w[m].blocks \in Int
    BY ListApart
  <1>3. ASSUME NEW m \in 1 .. 14
        PROVE  N!Covers(w[m], a) <=> m = i
    <2>1. /\ w[m].lba \in Int /\ w[m].blocks \in Int /\ w[i].lba \in Int
          /\ w[i].blocks \in Int /\ k < w[i].blocks
      BY <1>2
    <2>2. m # i => \/ w[m].lba + w[m].blocks <= w[i].lba
                   \/ w[i].lba + w[i].blocks <= w[m].lba
      BY <1>2
    <2> HIDE DEF w
    <2>3. CASE m = i
      BY <2>1, <2>3 DEF N!Covers
    <2>4. CASE m # i
      BY <2>1, <2>2, <2>4 DEF N!Covers
    <2> QED BY <2>3, <2>4
  <1> HIDE DEF w
  <1>4. /\ \E m \in DOMAIN disk : N!Covers(disk[m], a)
        /\ (CHOOSE m \in DOMAIN disk : /\ N!Covers(disk[m], a)
                                       /\ \A n \in DOMAIN disk : N!Covers(disk[n], a) => n <= m) = i
    <2>1. N!Covers(disk[i], a) /\ \A n \in DOMAIN disk : N!Covers(disk[n], a) => n <= i
      BY <1>1, <1>3 DEF w
    <2>2. \A m \in DOMAIN disk : N!Covers(disk[m], a) => m = i
      BY <1>1, <1>3 DEF w
    <2> HIDE DEF N!Covers, a
    <2> QED BY <1>1, <2>1, <2>2
  <1>5. a - w[i].lba = k
    BY <1>2
  <1> HIDE DEF a
  <1>6. N!BlockAt(a) = <<disk[i].what, a - disk[i].lba>>
    BY <1>4, Zenon DEF N!BlockAt
  <1> QED BY <1>5, <1>6 DEF a, w

(* Both headers and both copies of the entry array are where the headers   *)
(* say.                                                                    *)
LEMMA Gpt ==
    ASSUME BuilderInv, pc = "off"
    PROVE  N!GptAgrees
  <1> SUFFICES ASSUME stage = "built" PROVE N!GptAgrees
    BY DEF N!GptAgrees
  <1> DEFINE l == N!Layout
             w == N!Writes
             P == N!PrimaryHeader
             B == N!BackupHeader
  <1>1. disk = w /\ req \in N!Request /\ N!LayoutAccepted /\ N!PlacementFits
    BY Finished
  <1>2. Ordered(l)
    BY <1>1, LayoutOrdered
  <1>3. /\ P.current = 1 /\ P.backup = l.lastLba /\ P.entry = l.primaryEntry
        /\ P.firstUsable = l.firstUsable /\ P.lastUsable = l.lastUsable
        /\ B.current = l.lastLba /\ B.backup = 1 /\ B.entry = l.backupEntry
        /\ B.firstUsable = l.firstUsable /\ B.lastUsable = l.lastUsable
    BY DEF N!PrimaryHeader, N!BackupHeader, N!GptHeader
  <1>4. /\ w[2].what = "header" /\ w[2].lba = 1 /\ w[2].blocks = 1
        /\ w[3].what = "entries" /\ w[3].lba = l.primaryEntry /\ w[3].blocks = l.entrySectors
        /\ w[4].what = "entries" /\ w[4].lba = l.backupEntry /\ w[4].blocks = l.entrySectors
        /\ w[5].what = "header" /\ w[5].lba = l.lastLba /\ w[5].blocks = 1
    BY WriteList
  <1>5. \A i \in 1 .. 14, k \in Nat :
            k < w[i].blocks => N!BlockAt(w[i].lba + k) = <<w[i].what, k>>
    BY <1>1, BlockOf
  <1> HIDE DEF w, l, P, B
  <1>6. /\ l.entrySectors \in Nat /\ l.primaryEntry \in Nat /\ l.backupEntry \in Nat
        /\ l.lastLba \in Nat /\ l.firstUsable \in Nat /\ l.lastUsable \in Nat
        /\ l.primaryEntry = 2 /\ l.firstUsable = 2 + l.entrySectors /\ l.entrySectors > 0
        /\ l.backupEntry = l.lastUsable + 1 /\ l.firstUsable <= l.efiFirst
        /\ l.efiLast < l.dataFirst /\ l.dataFirst <= l.dataLast + 1 /\ l.dataLast = l.lastUsable
        /\ l.efiFirst \in Nat /\ l.efiLast \in Nat /\ l.dataFirst \in Nat /\ l.dataLast \in Nat
        /\ l.efiFirst <= l.efiLast
    BY <1>2 DEF Ordered
  <1>7. N!BlockAt(P.current) = <<"header", 0>> /\ N!BlockAt(B.current) = <<"header", 0>>
    <2>1. \A i \in {2, 5} : 0 < w[i].blocks /\ w[i].lba + 0 = w[i].lba /\ i \in 1 .. 14
      BY <1>4, <1>6
    <2>2. \A i \in {2, 5} : N!BlockAt(w[i].lba) = <<w[i].what, 0>>
      <3> TAKE i \in {2, 5}
      <3>1. 0 < w[i].blocks => N!BlockAt(w[i].lba + 0) = <<w[i].what, 0>>
        BY <1>5, <2>1, Zenon
      <3> QED BY <2>1, <3>1, Zenon
    <2> QED BY <1>3, <1>4, <2>2
  <1>8. ASSUME NEW k \in 0 .. (l.entrySectors - 1)
        PROVE  /\ N!BlockAt(P.entry + k) = <<"entries", k>>
               /\ N!BlockAt(B.entry + k) = <<"entries", k>>
    <2>1. k \in Nat /\ k < l.entrySectors
      BY <1>6
    <2> QED BY <1>3, <1>4, <1>5, <2>1
  <1>9. ASSUME NEW p \in DOMAIN N!PartitionEntries
        PROVE  /\ l.firstUsable <= N!PartitionEntries[p].first
               /\ N!PartitionEntries[p].last <= l.lastUsable
    BY <1>6, Partitions DEF l
  <1>10. /\ P.entry + l.entrySectors - 1 < P.firstUsable
         /\ B.entry > B.lastUsable /\ P.entry # B.entry
    BY <1>3, <1>6
  <1>11. \A h \in {P, B} :
            /\ N!BlockAt(h.current) = <<"header", 0>>
            /\ \A k \in 0 .. (l.entrySectors - 1) : N!BlockAt(h.entry + k) = <<"entries", k>>
            /\ h.entry + l.entrySectors - 1 < h.firstUsable \/ h.entry > h.lastUsable
            /\ \A p \in DOMAIN N!PartitionEntries :
                  /\ h.firstUsable <= N!PartitionEntries[p].first
                  /\ N!PartitionEntries[p].last <= h.lastUsable
    BY <1>3, <1>7, <1>8, <1>9, <1>10
  <1>12. P.backup = B.current /\ B.backup = P.current
    BY <1>3
  <1> QED BY <1>10, <1>11, <1>12 DEF N!GptAgrees, l, P, B

(* The invariant holds throughout: builder, restart and kernel together.   *)
THEOREM BuilderInvariant == ImageSpec => []BuilderInv
  BY BuilderInit, BuilderStep, PTL DEF ImageSpec

(* LayoutSound, for every set of command lines, every size of the boot     *)
(* image and every placement of the small files: an image that the builder *)
(* finishes has its file system, both GPT copies and the journal's         *)
(* partition apart, and each structure where the others say it is.         *)
THEOREM ImageLayout == ImageSpec => []LayoutSound
  <1>1. BuilderInv => LayoutSound
    <2> SUFFICES ASSUME BuilderInv, pc = "off" PROVE N!TypeOK /\ N!RegionsApart /\ N!GptAgrees
      BY DEF LayoutSound
    <2>1. N!TypeOK
      BY DEF BuilderInv, N!TypeOK
    <2> QED BY <2>1, Apart, Gpt
  <1> QED BY <1>1, BuilderInvariant, PTL
-----------------------------------------------------------------------------
(* Reading a file                                                          *)

(* The last place that Walk gives the value of.                            *)
Steps(v) == Cardinality(DOMAIN v.fat) + 1

(* The first n clusters of a chain are clusters.                           *)
ChainTo(v, first, n) ==
    \A k \in 0 .. n - 1 : k <= Steps(v) /\ Walk(v, first)[k] \in Clusters(v)

(* A file of the mounted volume: its chain is long enough, and its cursor  *)
(* is where it says it is.                                                 *)
FileContext == [first : Nat, size : Nat, cursorValid : BOOLEAN, cluster : Nat, ordinal : Nat]

FileSound(v, f) ==
    /\ ChainTo(v, f.first, f.size)
    /\ f.cursorValid => f.ordinal < f.size /\ f.cluster = Walk(v, f.first)[f.ordinal]

ChainRecord == [cluster : Nat, visited : SUBSET Nat, count : Nat, size : Nat, depth : Nat]

(* The chain that validateFileChainLocked follows: each cluster it has     *)
(* visited is one of the FAT's entries, and none is visited twice.         *)
FileWalk ==
    pc = "file" =>
        /\ todo # <<>> /\ walk.size = Head(todo).size
        /\ walk \in ChainRecord /\ walk.visited \subseteq DOMAIN vol.fat
        /\ Cardinality(walk.visited) = walk.count
        /\ ChainTo(vol, Head(todo).first, walk.count)
        /\ walk.cluster = Walk(vol, Head(todo).first)[walk.count]

ReadCall == [file : Nat, offset : Nat, count : Nat, ordinal : Nat, cluster : Nat,
             got : Seq(Nat), status : {"idle", "seek", "copy", "next", "done", "io"}]

(* A call of readFile on the files fs, under way or the last one.           *)
ReadSound(v, fs, r) ==
    r.status \in {"seek", "copy", "next", "done"} =>
        /\ r.file \in DOMAIN fs
        /\ r.offset + r.count <= fs[r.file].size /\ r.ordinal < fs[r.file].size
        /\ r.cluster = Walk(v, fs[r.file].first)[r.ordinal]
        /\ \A k \in 1 .. Len(r.got) : r.got[k] = Walk(v, fs[r.file].first)[r.offset + k - 1]
        /\ r.status = "seek" => r.ordinal <= r.offset /\ Len(r.got) = 0 /\ r.count > 0
        /\ r.status = "copy" => r.ordinal = r.offset + Len(r.got) /\ Len(r.got) < r.count
        /\ r.status = "next" => r.ordinal + 1 = r.offset + Len(r.got) /\ Len(r.got) < r.count
        /\ r.status = "done" => Len(r.got) = r.count

(* The inductive invariant of the backend's reads.  What the FAT cache is  *)
(* labelled with is what it holds, also after a read that failed.          *)
ReadInv ==
    /\ pc = "off" => Backend
    /\ pc # "off" => IsVolume(vol)
    /\ cached # NoSector => cached = buffer
    /\ todo \in Seq(DirectoryEntry) /\ files \in Seq(FileContext)
    /\ pc # "off" => \A i \in DOMAIN files : FileSound(vol, files[i])
    /\ FileWalk
    /\ pc # "mounted" => read = NoRead
    /\ read \in ReadCall /\ ReadSound(vol, files, read)

BootInv == BuilderInv /\ ReadInv

-----------------------------------------------------------------------------
(* Chains                                                                  *)

(* Every nonempty set of numbers has a least one.                          *)
LEMMA LeastNumber ==
    ASSUME NEW S \in SUBSET Nat, S # {}
    PROVE  \E x \in S : \A y \in S : x <= y
  <1>1. IsWellFoundedOn(OpToRel(<, Nat), Nat)
    BY NatLessThanWellFounded
  <1>2. PICK x \in S : \A y \in S : ~ (<<y, x>> \in OpToRel(<, Nat))
    BY <1>1, WFMin, Zenon
  <1>3. \A y \in S : ~ (y < x)
    BY <1>2 DEF OpToRel
  <1> QED BY <1>3

(* Induction, with the property given as the set of numbers that have it.  *)
LEMMA SetInduction ==
    ASSUME NEW S, 0 \in S, \A n \in Nat : n \in S => n + 1 \in S
    PROVE  \A n \in Nat : n \in S
  <1> DEFINE T == {n \in Nat : n \notin S}
  <1> SUFFICES ASSUME T # {} PROVE FALSE
    OBVIOUS
  <1>1. PICK x \in T : \A y \in T : x <= y
    <2> HIDE DEF T
    <2>1. T \subseteq Nat
      BY DEF T
    <2> QED BY <2>1, LeastNumber
  <1>2. x # 0 /\ x \in Nat
    OBVIOUS
  <1>3. x - 1 \in T
    BY <1>2
  <1> QED BY <1>1, <1>2, <1>3

(* One link on; a value that is no cluster stays.                          *)
LinkOn(v, c) == IF c \in Clusters(v) THEN Value(v, c) ELSE c

WalkTo(n, g, v, first) ==
    g = [k \in 0..n |-> IF k = 0 THEN first ELSE LinkOn(v, g[k - 1])]

(* A walk exists for every length.                                         *)
LEMMA WalksExist ==
    ASSUME NEW v, NEW first
    PROVE  \A n \in Nat : \E g : WalkTo(n, g, v, first)
  <1> DEFINE S == {n \in Nat : \E g : WalkTo(n, g, v, first)}
  <1>1. 0 \in S
    <2> DEFINE g == [k \in 0..0 |-> first]
    <2>1. WalkTo(0, g, v, first)
      BY DEF WalkTo
    <2> HIDE DEF g
    <2> QED BY <2>1
  <1>2. ASSUME NEW n \in Nat, n \in S
        PROVE  n + 1 \in S
    <2>1. PICK g : WalkTo(n, g, v, first)
      BY <1>2
    <2> DEFINE h == [k \in 0..(n + 1) |-> IF k = n + 1 THEN LinkOn(v, g[n]) ELSE g[k]]
    <2>2. \A k \in 0..n : h[k] = g[k]
      OBVIOUS
    <2>3. h[n + 1] = LinkOn(v, h[n])
      OBVIOUS
    <2>4. ASSUME NEW k \in 0..(n + 1)
          PROVE  h[k] = IF k = 0 THEN first ELSE LinkOn(v, h[k - 1])
      <3>1. CASE k = n + 1
        <4>1. k # 0 /\ k - 1 = n
          BY <3>1
        <4> HIDE DEF h
        <4> QED BY <2>3, <3>1, <4>1
      <3>2. CASE k # n + 1
        <4>1. k \in 0..n /\ (k # 0 => k - 1 \in 0..n)
          BY <3>2
        <4>2. g[k] = IF k = 0 THEN first ELSE LinkOn(v, g[k - 1])
          BY <2>1, <4>1 DEF WalkTo
        <4> HIDE DEF h
        <4> QED BY <2>2, <4>1, <4>2
      <3> QED BY <3>1, <3>2
    <2>5. h = [k \in 0..(n + 1) |-> h[k]]
      OBVIOUS
    <2> HIDE DEF h
    <2>6. WalkTo(n + 1, h, v, first)
      BY <2>4, <2>5 DEF WalkTo
    <2> QED BY <2>6
  <1> HIDE DEF S
  <1>3. \A n \in Nat : n \in S
    BY <1>1, <1>2, SetInduction
  <1> QED BY <1>3 DEF S

(* What a volume is made of.                                               *)
LEMMA VolumeFacts ==
    ASSUME NEW v, IsVolume(v)
    PROVE  /\ v.count \in Nat /\ v.count <= 65524 /\ v.perSector \in Nat /\ v.perSector > 0
           /\ IsFiniteSet(DOMAIN v.fat) /\ Cardinality(DOMAIN v.fat) \in Nat
           /\ Steps(v) \in Nat /\ Steps(v) > 0
           /\ \A c : Value(v, c) \in Nat
           /\ \A c : Value(v, c) # 0 => c \in DOMAIN v.fat
           /\ \A c \in Clusters(v) : c \in Nat /\ c >= 2 /\ c <= 65525
  <1>1. /\ v.count \in Nat /\ v.count <= 65524 /\ v.perSector \in Nat /\ v.perSector > 0
        /\ DOMAIN v.fat \subseteq Clusters(v) /\ \A c \in DOMAIN v.fat : v.fat[c] \in Nat
    <2>1. /\ v.count \in Nat /\ v.count <= MaximumClusters /\ v.perSector \in Nat \ {0}
          /\ DOMAIN v.fat \subseteq Clusters(v) /\ \A c \in DOMAIN v.fat : v.fat[c] \in Nat
      BY Zenon DEF IsVolume
    <2>2. v.count \in Nat /\ v.count <= 65524 /\ v.perSector \in Nat /\ v.perSector > 0
      BY <2>1 DEF MaximumClusters
    <2> QED BY <2>1, <2>2
  <1>2. IsFiniteSet(Clusters(v))
    <2>1. 2 \in Int /\ v.count + 1 \in Int
      BY <1>1
    <2>2. IsFiniteSet(2 .. (v.count + 1))
      BY <2>1, FS_Interval, Zenon
    <2> QED BY <2>2 DEF Clusters
  <1>3. IsFiniteSet(DOMAIN v.fat)
    BY <1>1, <1>2, FS_Subset
  <1>4. Cardinality(DOMAIN v.fat) \in Nat
    BY <1>3, FS_CardinalityType
  <1>5. Steps(v) \in Nat /\ Steps(v) > 0
    BY <1>4 DEF Steps
  <1>6. \A c : Value(v, c) \in Nat /\ (Value(v, c) # 0 => c \in DOMAIN v.fat)
    BY <1>1 DEF Value
  <1>7. \A c \in Clusters(v) : c \in Nat /\ c >= 2 /\ c <= 65525
    BY <1>1 DEF Clusters
  <1> QED BY <1>1, <1>3, <1>4, <1>5, <1>6, <1>7

(* The walk of the reference, link by link.                                *)
LEMMA WalkEquation ==
    ASSUME NEW v, IsVolume(v), NEW first
    PROVE  /\ Walk(v, first)[0] = first
           /\ \A k \in Nat : k + 1 <= Steps(v) =>
                 Walk(v, first)[k + 1] = LinkOn(v, Walk(v, first)[k])
  <1> DEFINE n == Cardinality(DOMAIN v.fat) + 1
             w == Walk(v, first)
  <1>1. n \in Nat /\ n = Steps(v)
    BY VolumeFacts DEF Steps
  <1>2. w = CHOOSE g : WalkTo(n, g, v, first)
    BY DEF Walk, WalkTo, LinkOn
  <1> HIDE DEF w, n
  <1>3. \E g : WalkTo(n, g, v, first)
    BY <1>1, WalksExist
  <1>4. WalkTo(n, w, v, first)
    BY <1>2, <1>3
  <1>5. w[0] = first
    BY <1>1, <1>4 DEF WalkTo
  <1>6. ASSUME NEW k \in Nat, k + 1 <= n
        PROVE  w[k + 1] = LinkOn(v, w[k])
    <2>1. k + 1 \in 0..n /\ k + 1 # 0 /\ (k + 1) - 1 = k
      BY <1>1, <1>6
    <2> QED BY <1>4, <2>1 DEF WalkTo
  <1> QED BY <1>1, <1>5, <1>6 DEF w

(* A link goes on if and only if its value is a cluster: no marker is one. *)
LEMMA GoesOn ==
    ASSUME NEW v, IsVolume(v), NEW value \in Nat
    PROVE  /\ DecodeClusterLink(v, value) = "next" <=> value \in Clusters(v)
           /\ DecodeClusterLink(v, value) \in {"free", "bad", "end", "next", "wild"}
  <1>1. value \in Clusters(v) => value >= 2 /\ value <= 65525
    BY VolumeFacts
  <1> HIDE DEF Clusters
  <1> QED BY <1>1 DEF DecodeClusterLink, BadMarker, EndMarker

(* A number is its sector and its place in it.                             *)
LEMMA SectorPlace ==
    ASSUME NEW c \in Nat, NEW p \in Nat, p > 0
    PROVE  /\ (c \div p) * p + (c % p) = c
           /\ c \div p \in Nat
  <1>1. c = p * (c \div p) + (c % p)
    OBVIOUS
  <1>2. c \div p \in Int /\ c \div p >= 0 /\ c % p \in Int
    OBVIOUS
  <1>3. \A x, y \in Int : x * y = y * x
    OBVIOUS
  <1> QED BY <1>1, <1>2, <1>3

(* The cached sector holds the entry that is asked for.                    *)
LEMMA EntryRight ==
    ASSUME IsVolume(vol), cached # NoSector => cached = buffer, NEW c \in Nat
    PROVE  Entry(c) = Value(vol, c)
  <1>1. vol.perSector \in Nat /\ vol.perSector > 0
    BY VolumeFacts
  <1>2. Sector(c) \in Nat /\ Sector(c) * vol.perSector + (c % vol.perSector) = c
    BY <1>1, SectorPlace DEF Sector
  <1>3. Sector(c) # NoSector
    BY <1>2 DEF NoSector
  <1> HIDE DEF Sector
  <1>4. (IF Hit(c) THEN buffer ELSE Sector(c)) = Sector(c)
    BY <1>3 DEF Hit
  <1> QED BY <1>2, <1>4 DEF Entry

(* The first n clusters of a chain, one more of them.                      *)
LEMMA ChainLonger ==
    ASSUME NEW v, NEW first, NEW n \in Nat, ChainTo(v, first, n), n <= Steps(v),
           Walk(v, first)[n] \in Clusters(v)
    PROVE  ChainTo(v, first, n + 1)
  <1> SUFFICES ASSUME NEW k \in 0 .. (n + 1) - 1
               PROVE  k <= Steps(v) /\ Walk(v, first)[k] \in Clusters(v)
    BY DEF ChainTo
  <1>1. CASE k = n
    BY <1>1
  <1>2. CASE k # n
    <2>1. k \in 0 .. n - 1
      BY <1>2
    <2> QED BY <2>1 DEF ChainTo
  <1> QED BY <1>1, <1>2

(* The cache after a link was read.                                        *)
LEMMA FetchRight ==
    ASSUME cached # NoSector => cached = buffer, NEW c, Fetch(c)
    PROVE  cached' # NoSector => cached' = buffer'
  <1> HIDE DEF Sector
  <1> QED BY DEF Fetch, Hit

-----------------------------------------------------------------------------
(* The mount                                                               *)

(* What a step of the mount that publishes no call of readFile has to keep. *)
LEMMA MountKeeps ==
    ASSUME ReadInv, pc # "off", pc # "mounted", pc' # "off",
           vol' = vol, read' = read, FileWalk',
           cached' # NoSector => cached' = buffer',
           todo' \in Seq(DirectoryEntry), files' \in Seq(FileContext),
           \A i \in DOMAIN files' : FileSound(vol, files'[i])
    PROVE  ReadInv'
  <1>1. read = NoRead /\ IsVolume(vol)
    BY DEF ReadInv
  <1>2. \A i \in DOMAIN files' : FileSound(vol', files'[i])
    OBVIOUS
  <1>3. IsVolume(vol)'
    BY <1>1
  <1>4. NoRead \in ReadCall /\ NoRead.status = "idle"
    <2>1. <<>> \in Seq(Nat)
      OBVIOUS
    <2> QED BY <2>1 DEF NoRead, ReadCall
  <1>5. read' \in ReadCall /\ ReadSound(vol', files', read')
    <2> HIDE DEF NoRead
    <2> QED BY <1>1, <1>4 DEF ReadSound
  <1> QED BY <1>1, <1>2, <1>3, <1>5 DEF ReadInv

(* A mount that gives up holds no files, or those it had.                  *)
LEMMA AbortKeeps ==
    ASSUME ReadInv, pc # "off", pc # "mounted", NEW err, Abort(err)
    PROVE  ReadInv'
  <1>1. /\ vol' = vol /\ read' = read /\ todo' = todo /\ buffer' = buffer
        /\ pc' \in {"quarantined", "failed"}
        /\ files' = <<>> \/ files' = files
        /\ cached' = NoSector \/ cached' = cached
    BY DEF Abort
  <1>2. /\ todo \in Seq(DirectoryEntry) /\ files \in Seq(FileContext)
        /\ cached # NoSector => cached = buffer
        /\ \A i \in DOMAIN files : FileSound(vol, files[i])
    BY DEF ReadInv
  <1>3. files' \in Seq(FileContext) /\ \A i \in DOMAIN files' : FileSound(vol, files'[i])
    <2>1. <<>> \in Seq(FileContext) /\ DOMAIN <<>> = {}
      OBVIOUS
    <2> QED BY <1>1, <1>2, <2>1
  <1>4. FileWalk'
    BY <1>1 DEF FileWalk
  <1> QED BY <1>1, <1>2, <1>3, <1>4, MountKeeps

(* The entries of a directory.                                             *)
LEMMA ContentsType ==
    ASSUME NEW v, IsVolume(v), NEW d
    PROVE  Contents(v, d) \in Seq(DirectoryEntry)
  <1>1. v.root \in Seq(DirectoryEntry) /\ \A c \in DOMAIN v.dirs : v.dirs[c] \in Seq(DirectoryEntry)
    BY Zenon DEF IsVolume
  <1>2. <<>> \in Seq(DirectoryEntry)
    OBVIOUS
  <1> QED BY <1>1, <1>2 DEF Contents

(* The steps of the mount that leave files and chains of files alone.      *)
LEMMA ScanSteps ==
    ASSUME ReadInv,
           \/ ReadBootSector \/ ScanDirectory \/ DirectoryCluster \/ EndOfSector
           \/ DirectoryLink \/ StageDirectory \/ BeginCount \/ CountFree \/ MountReadFails
    PROVE  ReadInv'
  <1>1. /\ todo \in Seq(DirectoryEntry) /\ files \in Seq(FileContext)
        /\ cached # NoSector => cached = buffer
        /\ pc # "off" => IsVolume(vol) /\ \A i \in DOMAIN files : FileSound(vol, files[i])
    BY DEF ReadInv
  <1>2. IsVolume(vol) => vol.root \in Seq(DirectoryEntry)
    BY Zenon DEF IsVolume
  <1>3. todo # <<>> => Tail(todo) \in Seq(DirectoryEntry)
    BY <1>1
  <1>4. <<>> \in Seq(DirectoryEntry)
    OBVIOUS
  <1>5. CASE \E err : pc \notin {"off", "mounted"} /\ Abort(err)
    BY <1>5, AbortKeeps
  <1>6. CASE ReadBootSector
    <2>1. /\ pc = "boot" /\ pc' = "scan" /\ vol' = vol /\ read' = read /\ todo' = todo
          /\ files' = files /\ cached' = cached /\ buffer' = buffer
      BY <1>6 DEF ReadBootSector
    <2>2. FileWalk'
      BY <2>1 DEF FileWalk
    <2> QED BY <1>1, <2>1, <2>2, MountKeeps
  <1>7. CASE ScanDirectory
    <2>1. pc = "scan"
      BY <1>7 DEF ScanDirectory
    <2>2. \/ Abort("namespace")
          \/ /\ pc' \in {"entry", "cluster"} /\ vol' = vol /\ read' = read
             /\ todo' = vol.root \/ todo' = todo
             /\ files' = files /\ cached' = cached /\ buffer' = buffer
      BY <1>7 DEF ScanDirectory
    <2>3. CASE ~Abort("namespace")
      <3>1. FileWalk'
        BY <2>2, <2>3 DEF FileWalk
      <3> QED BY <1>1, <1>2, <2>1, <2>2, <2>3, <3>1, MountKeeps
    <2> QED BY <1>5, <2>1, <2>3
  <1>8. CASE DirectoryCluster
    <2>1. pc = "cluster"
      BY <1>8 DEF DirectoryCluster
    <2>2. \/ Abort(ChainDefect(dir))
          \/ /\ pc' = "entry" /\ vol' = vol /\ read' = read
             /\ todo' = Contents(vol, dir.cluster) \/ todo' = <<>>
             /\ files' = files /\ cached' = cached /\ buffer' = buffer
      BY <1>8 DEF DirectoryCluster
    <2>3. CASE ~Abort(ChainDefect(dir))
      <3>1. FileWalk'
        BY <2>2, <2>3 DEF FileWalk
      <3>2. todo' \in Seq(DirectoryEntry)
        BY <1>1, <1>4, <2>1, <2>2, <2>3, ContentsType
      <3> QED BY <1>1, <2>1, <2>2, <2>3, <3>1, <3>2, MountKeeps
    <2> QED BY <1>5, <2>1, <2>3
  <1>9. CASE EndOfSector
    <2>1. /\ pc = "entry" /\ pc' \in {"scan", "dirlink"} /\ vol' = vol /\ read' = read
          /\ todo' = todo /\ files' = files /\ cached' = cached /\ buffer' = buffer
      BY <1>9 DEF EndOfSector
    <2>2. FileWalk'
      BY <2>1 DEF FileWalk
    <2> QED BY <1>1, <2>1, <2>2, MountKeeps
  <1>10. CASE DirectoryLink
    <2>1. pc = "dirlink"
      BY <1>10 DEF DirectoryLink
    <2>2. \/ Abort(LinkDefect(dir))
          \/ /\ pc' \in {"cluster", "scan"} /\ vol' = vol /\ read' = read /\ todo' = todo
             /\ files' = files /\ Fetch(dir.cluster)
      BY <1>10 DEF DirectoryLink
    <2>3. CASE ~Abort(LinkDefect(dir))
      <3>1. FileWalk'
        BY <2>2, <2>3 DEF FileWalk
      <3>2. cached' # NoSector => cached' = buffer'
        BY <1>1, <2>2, <2>3, FetchRight
      <3> QED BY <1>1, <2>1, <2>2, <2>3, <3>1, <3>2, MountKeeps
    <2> QED BY <1>5, <2>1, <2>3
  <1>11. CASE StageDirectory
    <2>1. pc = "entry" /\ todo # <<>>
      BY <1>11 DEF StageDirectory
    <2>2. \/ Abort("namespace")
          \/ /\ pc' = pc /\ vol' = vol /\ read' = read /\ todo' = Tail(todo)
             /\ files' = files /\ cached' = cached /\ buffer' = buffer
      BY <1>11 DEF StageDirectory
    <2>3. CASE ~Abort("namespace")
      <3>1. FileWalk'
        BY <2>1, <2>2, <2>3 DEF FileWalk
      <3> QED BY <1>1, <1>3, <2>1, <2>2, <2>3, <3>1, MountKeeps
    <2> QED BY <1>5, <2>1, <2>3
  <1>12. CASE BeginCount
    <2>1. /\ pc = "scan" /\ pc' = "count" /\ vol' = vol /\ read' = read
          /\ todo' = todo /\ files' = files /\ cached' = cached /\ buffer' = buffer
      BY <1>12 DEF BeginCount
    <2>2. FileWalk'
      BY <2>1 DEF FileWalk
    <2> QED BY <1>1, <2>1, <2>2, MountKeeps
  <1>13. CASE CountFree
    <2>1. pc = "count"
      BY <1>13 DEF CountFree
    <2>2. \/ Abort("out_of_range")
          \/ /\ pc' \in {"count", "mounted"} /\ vol' = vol /\ read' = read
             /\ todo' = todo /\ files' = files
             /\ (cached' = cached /\ buffer' = buffer) \/ Fetch(walk.cluster)
      BY <1>13 DEF CountFree
    <2>3. CASE ~Abort("out_of_range")
      <3>1. FileWalk'
        BY <2>2, <2>3 DEF FileWalk
      <3>2. cached' # NoSector => cached' = buffer'
        BY <1>1, <2>2, <2>3, FetchRight
      <3> QED BY <1>1, <2>1, <2>2, <2>3, <3>1, <3>2, MountKeeps
    <2> QED BY <1>5, <2>1, <2>3
  <1>14. CASE MountReadFails
    <2>1. Abort("io") /\ pc \notin {"off", "mounted"}
      BY <1>14 DEF MountReadFails, MountReads
    <2> QED BY <1>5, <2>1
  <1> QED BY <1>6, <1>7, <1>8, <1>9, <1>10, <1>11, <1>12, <1>13, <1>14

(* A step along a chain, field by field.                                   *)
LEMMA VisitFields ==
    ASSUME NEW w \in ChainRecord
    PROVE  /\ Visit(w) \in ChainRecord /\ Visit(w).cluster = w.cluster
           /\ Visit(w).visited = w.visited \cup {w.cluster}
           /\ Visit(w).count = w.count + 1 /\ Visit(w).size = w.size
           /\ \A c \in Nat : /\ [Visit(w) EXCEPT !.cluster = c] \in ChainRecord
                             /\ [Visit(w) EXCEPT !.cluster = c].cluster = c
                             /\ [Visit(w) EXCEPT !.cluster = c].visited = Visit(w).visited
                             /\ [Visit(w) EXCEPT !.cluster = c].count = Visit(w).count
                             /\ [Visit(w) EXCEPT !.cluster = c].size = Visit(w).size
  <1>1. /\ Visit(w) \in ChainRecord /\ Visit(w).cluster = w.cluster
        /\ Visit(w).visited = w.visited \cup {w.cluster}
        /\ Visit(w).count = w.count + 1 /\ Visit(w).size = w.size
    <2>1. w.visited \cup {w.cluster} \in SUBSET Nat /\ w.count + 1 \in Nat
      BY DEF ChainRecord
    <2> DEFINE s == w.visited \cup {w.cluster}
               n == w.count + 1
    <2>2. Visit(w) = [w EXCEPT !.visited = s, !.count = n]
      BY DEF Visit
    <2> HIDE DEF s, n
    <2>3. /\ Visit(w) \in ChainRecord /\ Visit(w).cluster = w.cluster
          /\ Visit(w).visited = s /\ Visit(w).count = n /\ Visit(w).size = w.size
      BY <2>1, <2>2 DEF ChainRecord, s, n
    <2> QED BY <2>3 DEF s, n
  <1> HIDE DEF Visit
  <1> QED BY <1>1 DEF ChainRecord

(* A file as it is staged has no cursor.                                   *)
LEMMA NewFileSound ==
    ASSUME NEW e \in DirectoryEntry, NEW v
    PROVE  /\ NewFile(e) \in FileContext
           /\ ChainTo(v, e.first, e.size) => FileSound(v, NewFile(e))
  <1> HIDE DEF ChainTo
  <1> QED BY DEF DirectoryEntry, NewFile, FileContext, FileSound

(* One more file.                                                          *)
LEMMA FileAdded ==
    ASSUME files \in Seq(FileContext), NEW v, \A i \in DOMAIN files : FileSound(v, files[i]),
           NEW f \in FileContext, FileSound(v, f)
    PROVE  /\ Append(files, f) \in Seq(FileContext)
           /\ \A i \in DOMAIN Append(files, f) : FileSound(v, Append(files, f)[i])
  <1> HIDE DEF FileSound, FileContext
  <1>1. Append(files, f) \in Seq(FileContext) /\ Len(Append(files, f)) = Len(files) + 1
    OBVIOUS
  <1>2. ASSUME NEW i \in DOMAIN Append(files, f)
        PROVE  FileSound(v, Append(files, f)[i])
    <2>1. CASE i = Len(files) + 1
      <3>1. Append(files, f)[i] = f
        BY <2>1
      <3> QED BY <3>1
    <2>2. CASE i # Len(files) + 1
      <3>1. i \in DOMAIN files /\ Append(files, f)[i] = files[i]
        BY <2>2
      <3> QED BY <3>1
    <2> QED BY <2>1, <2>2
  <1> QED BY <1>1, <1>2

(* scanDirectorySectorLocked comes to a file.                              *)
LEMMA StageFileStep ==
    ASSUME ReadInv, StageFile
    PROVE  ReadInv'
  <1> DEFINE e == Head(todo)
  <1>1. /\ todo \in Seq(DirectoryEntry) /\ files \in Seq(FileContext)
        /\ cached # NoSector => cached = buffer
        /\ pc # "off" => IsVolume(vol) /\ \A i \in DOMAIN files : FileSound(vol, files[i])
    BY DEF ReadInv
  <1>2. pc = "entry" /\ todo # <<>>
    BY DEF StageFile
  <1>3. e \in DirectoryEntry /\ Tail(todo) \in Seq(DirectoryEntry) /\ IsVolume(vol)
    BY <1>1, <1>2
  <1>4. e.first \in Nat /\ e.size \in Nat
    BY <1>3 DEF DirectoryEntry
  <1>5. \/ \E err : Abort(err)
        \/ /\ Empty(e) /\ files' = Append(files, NewFile(e)) /\ todo' = Tail(todo)
           /\ pc' = pc /\ vol' = vol /\ read' = read /\ cached' = cached /\ buffer' = buffer
        \/ /\ walk' = [Chain(e.first) EXCEPT !.size = e.size] /\ pc' = "file" /\ todo' = todo
           /\ files' = files /\ vol' = vol /\ read' = read /\ cached' = cached /\ buffer' = buffer
    <2> HIDE DEF Abort
    <2>1. CASE Len(files) >= MaximumFiles
      BY <2>1 DEF StageFile
    <2>2. CASE Len(files) < MaximumFiles /\ Empty(e)
      BY <2>2 DEF StageFile
    <2>3. CASE Len(files) < MaximumFiles /\ ~Empty(e) /\ e.first < 2
      BY <2>3 DEF StageFile
    <2>4. CASE ~(Len(files) >= MaximumFiles) /\ ~(Len(files) < MaximumFiles /\ Empty(e))
               /\ ~(Len(files) < MaximumFiles /\ ~Empty(e) /\ e.first < 2)
      BY <2>4 DEF StageFile
    <2> QED BY <2>1, <2>2, <2>3, <2>4
  <1>6. CASE \E err : Abort(err)
    BY <1>2, <1>6, AbortKeeps
  <1>7. CASE /\ Empty(e) /\ files' = Append(files, NewFile(e)) /\ todo' = Tail(todo)
             /\ pc' = pc /\ vol' = vol /\ read' = read /\ cached' = cached /\ buffer' = buffer
    <2>1. ChainTo(vol, e.first, e.size)
      BY <1>7 DEF ChainTo, Empty
    <2>2. NewFile(e) \in FileContext /\ FileSound(vol, NewFile(e))
      BY <1>3, <2>1, NewFileSound
    <2>3. FileWalk'
      BY <1>2, <1>7 DEF FileWalk
    <2>4. files' \in Seq(FileContext) /\ \A i \in DOMAIN files' : FileSound(vol, files'[i])
      <3> HIDE DEF e
      <3> QED BY <1>1, <1>2, <1>7, <2>2, FileAdded
    <2> QED BY <1>1, <1>2, <1>3, <1>7, <2>3, <2>4, MountKeeps
  <1>8. CASE /\ walk' = [Chain(e.first) EXCEPT !.size = e.size] /\ pc' = "file" /\ todo' = todo
             /\ files' = files /\ vol' = vol /\ read' = read /\ cached' = cached /\ buffer' = buffer
    <2>1. /\ walk' \in ChainRecord /\ walk'.size = e.size /\ walk'.visited = {}
          /\ walk'.count = 0 /\ walk'.cluster = e.first
      BY <1>4, <1>8 DEF Chain, ChainRecord
    <2>2. ChainTo(vol, e.first, 0)
      BY DEF ChainTo
    <2>3. Walk(vol, e.first)[0] = e.first
      BY <1>3, WalkEquation
    <2>4. Cardinality({}) = 0
      BY FS_EmptySet
    <2>5. FileWalk'
      BY <1>2, <1>8, <2>1, <2>2, <2>3, <2>4 DEF FileWalk
    <2> QED BY <1>1, <1>2, <1>8, <2>5, MountKeeps
  <1> QED BY <1>5, <1>6, <1>7, <1>8

(* validateFileChainLocked takes a cluster: a chain that goes on is longer *)
(* by one, and one that ends is a file's.                                  *)
LEMMA FileClusterStep ==
    ASSUME ReadInv, FileCluster
    PROVE  ReadInv'
  <1> DEFINE e == Head(todo)
             c == walk.cluster
             n == walk.count
             seen == Visit(walk)
  <1>1. /\ todo \in Seq(DirectoryEntry) /\ files \in Seq(FileContext)
        /\ cached # NoSector => cached = buffer
        /\ pc # "off" => IsVolume(vol) /\ \A i \in DOMAIN files : FileSound(vol, files[i])
    BY DEF ReadInv
  <1>2. pc = "file"
    BY DEF FileCluster
  <1>3. /\ todo # <<>> /\ walk.size = e.size /\ walk \in ChainRecord
        /\ walk.visited \subseteq DOMAIN vol.fat /\ Cardinality(walk.visited) = n
        /\ ChainTo(vol, e.first, n) /\ c = Walk(vol, e.first)[n]
    BY <1>2 DEF ReadInv, FileWalk
  <1>4. IsVolume(vol) /\ e \in DirectoryEntry /\ Tail(todo) \in Seq(DirectoryEntry)
    BY <1>1, <1>2, <1>3
  <1>5. c \in Nat /\ n \in Nat /\ walk.size \in Nat
    BY <1>3 DEF ChainRecord
  <1>6. CASE \E err : Abort(err)
    BY <1>2, <1>6, AbortKeeps
  <1>7. CASE ~(\E err : Abort(err))
    <2>1. /\ ChainDefect(walk) = "none" /\ LinkDefect(seen) = "none" /\ Fetch(c)
          /\ vol' = vol /\ read' = read
          /\ Link(c) = "next" => /\ walk' = [seen EXCEPT !.cluster = Entry(c)]
                                 /\ pc' = pc /\ files' = files /\ todo' = todo
          /\ Link(c) # "next" => /\ pc' = "entry" /\ todo' = Tail(todo)
                                 /\ files' = Append(files, NewFile(e))
      <3> HIDE DEF Abort, ChainDefect, LinkDefect, Fetch, Link, Entry, Visit
      <3> QED BY <1>7 DEF FileCluster
    <2>2. c \in Clusters(vol) /\ c \notin walk.visited
      BY <2>1 DEF ChainDefect
    <2>3. Entry(c) = Value(vol, c) /\ Entry(c) \in Nat
      <3> HIDE DEF e, c, n, seen
      <3>1. Entry(c) = Value(vol, c)
        BY <1>1, <1>4, <1>5, EntryRight
      <3>2. Value(vol, c) \in Nat
        BY <1>4, VolumeFacts
      <3> QED BY <3>1, <3>2
    <2>4. /\ Link(c) = "next" <=> Entry(c) \in Clusters(vol)
          /\ Link(c) \in {"free", "bad", "end", "next", "wild"}
      BY <1>4, <2>3, GoesOn DEF Link
    <2>5. /\ seen \in ChainRecord /\ seen.cluster = c /\ seen.visited = walk.visited \cup {c}
          /\ seen.count = n + 1 /\ seen.size = walk.size
          /\ [seen EXCEPT !.cluster = Entry(c)] \in ChainRecord
          /\ [seen EXCEPT !.cluster = Entry(c)].cluster = Entry(c)
          /\ [seen EXCEPT !.cluster = Entry(c)].visited = seen.visited
          /\ [seen EXCEPT !.cluster = Entry(c)].count = n + 1
          /\ [seen EXCEPT !.cluster = Entry(c)].size = walk.size
      BY <1>3, <2>3, VisitFields
    <2>6. Link(c) \notin {"free", "bad", "wild"} /\ (Link(c) = "end" => n + 1 >= walk.size)
      <3> HIDE DEF Link, seen, c, n
      <3>1. Link(c) \notin {"free", "bad", "wild"}
        BY <2>1, <2>4, <2>5 DEF LinkDefect
      <3>2. Link(c) = "end" => ~(seen.count < seen.size)
        BY <2>1, <2>4, <2>5 DEF LinkDefect
      <3> QED BY <1>5, <2>5, <3>1, <3>2
    <2>7. IsFiniteSet(DOMAIN vol.fat) /\ Steps(vol) = Cardinality(DOMAIN vol.fat) + 1
          /\ Cardinality(DOMAIN vol.fat) \in Nat
      BY <1>4, VolumeFacts DEF Steps
    <2>8. IsFiniteSet(walk.visited) /\ n <= Cardinality(DOMAIN vol.fat)
      BY <1>3, <2>7, FS_Subset
    <2>9. ChainTo(vol, e.first, n + 1)
      <3>1. n <= Steps(vol)
        BY <1>5, <2>7, <2>8
      <3> HIDE DEF c, n, e, ChainTo, Steps
      <3> QED BY <1>3, <1>5, <2>2, <3>1, ChainLonger
    <2>10. cached' # NoSector => cached' = buffer'
      BY <1>1, <2>1, FetchRight
    <2>11. CASE Link(c) = "next"
      <3>1. c \in DOMAIN vol.fat
        <4>1. Value(vol, c) # 0
          BY <1>4, <2>3, <2>4, <2>11, VolumeFacts
        <4> QED BY <1>4, <4>1, VolumeFacts
      <3>2. /\ walk'.visited \subseteq DOMAIN vol.fat /\ walk' \in ChainRecord
            /\ walk'.size = e.size /\ walk'.count = n + 1 /\ walk'.cluster = Value(vol, c)
            /\ walk'.visited = walk.visited \cup {c}
        BY <1>3, <2>1, <2>3, <2>5, <2>11, <3>1
      <3>3. Cardinality(walk'.visited) = n + 1
        BY <1>3, <2>2, <2>8, <3>2, FS_AddElement
      <3>4. Walk(vol, e.first)[n + 1] = Value(vol, c)
        <4>1. n + 1 <= Steps(vol)
          <5>1. Cardinality(walk'.visited) <= Cardinality(DOMAIN vol.fat)
            BY <2>7, <3>2, FS_Subset
          <5> QED BY <1>5, <2>7, <3>3, <5>1
        <4>2. Walk(vol, e.first)[n + 1] = LinkOn(vol, Walk(vol, e.first)[n])
          <5> HIDE DEF Steps, n, e
          <5> QED BY <1>4, <1>5, <4>1, WalkEquation
        <4> QED BY <1>3, <2>2, <4>2 DEF LinkOn
      <3>5. FileWalk'
        <4>1. /\ todo' = todo /\ vol' = vol /\ e' = e
          BY <2>1, <2>11
        <4> HIDE DEF ChainTo
        <4> HIDE DEF n, c
        <4> QED BY <1>3, <2>9, <3>2, <3>3, <3>4, <4>1 DEF FileWalk
      <3>6. pc' = "file" /\ files' = files /\ todo' = todo
        BY <1>2, <2>1, <2>11
      <3> QED BY <1>1, <1>2, <2>1, <2>10, <3>5, <3>6, MountKeeps
    <2>12. CASE Link(c) # "next"
      <3>1. n + 1 >= e.size /\ e.size \in Nat
        BY <1>3, <1>5, <2>4, <2>6, <2>12
      <3>2. ChainTo(vol, e.first, e.size)
        <4>1. \A k \in 0 .. e.size - 1 : k \in 0 .. (n + 1) - 1
          BY <1>5, <3>1
        <4> HIDE DEF n, e
        <4> QED BY <2>9, <4>1 DEF ChainTo
      <3>3. NewFile(e) \in FileContext /\ FileSound(vol, NewFile(e))
        BY <1>4, <3>2, NewFileSound
      <3>4. pc' = "entry" /\ todo' = Tail(todo) /\ files' = Append(files, NewFile(e))
        BY <2>1, <2>12
      <3>5. files' \in Seq(FileContext) /\ \A i \in DOMAIN files' : FileSound(vol, files'[i])
        <4> HIDE DEF e
        <4> QED BY <1>1, <1>2, <3>3, <3>4, FileAdded
      <3>6. FileWalk'
        BY <3>4 DEF FileWalk
      <3> QED BY <1>2, <1>4, <2>1, <2>10, <3>4, <3>5, <3>6, MountKeeps
    <2> QED BY <2>11, <2>12
  <1> QED BY <1>6, <1>7

-----------------------------------------------------------------------------
(* The calls of readFile                                                   *)

(* What a step of readFile has to keep.                                    *)
LEMMA ReadKeeps ==
    ASSUME ReadInv, pc = "mounted", pc' = pc, vol' = vol, todo' = todo,
           cached' # NoSector => cached' = buffer',
           files' \in Seq(FileContext),
           \A i \in DOMAIN files' : FileSound(vol, files'[i]),
           read' \in ReadCall, ReadSound(vol, files', read')
    PROVE  ReadInv'
  <1>1. IsVolume(vol) /\ todo \in Seq(DirectoryEntry)
    BY DEF ReadInv
  <1>2. FileWalk'
    BY DEF FileWalk
  <1> QED BY <1>1, <1>2 DEF ReadInv

(* What is known of a call under way, and of its file.                     *)
LEMMA ReadFacts ==
    ASSUME ReadInv, read.status \in {"seek", "copy", "next"}
    PROVE  /\ pc = "mounted" /\ IsVolume(vol) /\ files \in Seq(FileContext)
           /\ cached # NoSector => cached = buffer
           /\ \A i \in DOMAIN files : FileSound(vol, files[i])
           /\ read \in ReadCall /\ ReadSound(vol, files, read)
           /\ read.file \in DOMAIN files /\ files[read.file] \in FileContext
           /\ read.ordinal \in Nat /\ read.offset \in Nat /\ read.count \in Nat
           /\ read.cluster \in Nat /\ read.got \in Seq(Nat)
           /\ files[read.file].size \in Nat
  <1>1. pc = "mounted"
    BY DEF ReadInv, NoRead
  <1>2. /\ IsVolume(vol) /\ files \in Seq(FileContext)
        /\ cached # NoSector => cached = buffer
        /\ \A i \in DOMAIN files : FileSound(vol, files[i])
        /\ read \in ReadCall /\ ReadSound(vol, files, read)
    BY <1>1 DEF ReadInv
  <1>3. read.file \in DOMAIN files
    BY <1>2 DEF ReadSound
  <1>4. files[read.file] \in FileContext
    <2> HIDE DEF FileContext
    <2> QED BY <1>2, <1>3
  <1>5. files[read.file].size \in Nat
    BY <1>4 DEF FileContext
  <1>6. /\ read.ordinal \in Nat /\ read.offset \in Nat /\ read.count \in Nat
        /\ read.cluster \in Nat /\ read.got \in Seq(Nat)
    BY <1>2 DEF ReadCall
  <1> QED BY <1>1, <1>2, <1>3, <1>4, <1>5, <1>6

(* readFile takes up the cursor, or starts from the first cluster.         *)
LEMMA BeginReadStep ==
    ASSUME ReadInv, NEW i \in DOMAIN files, NEW offset \in 0..(files[i].size - 1),
           NEW count \in 1..files[i].size, BeginRead(i, offset, count)
    PROVE  ReadInv'
  <1> DEFINE f == files[i]
             use == UsesCursor(f, offset)
             m == IF count < f.size - offset THEN count ELSE f.size - offset
             o == IF use THEN f.ordinal ELSE 0
             c == IF use THEN f.cluster ELSE f.first
             r == [file |-> i, offset |-> offset, count |-> m, ordinal |-> o, cluster |-> c,
                   got |-> <<>>, status |-> "seek"]
  <1>1. /\ pc = "mounted" /\ read' = r /\ vol' = vol /\ pc' = pc /\ todo' = todo
        /\ files' = files /\ cached' = cached /\ buffer' = buffer
    BY DEF BeginRead, ReadOnly
  <1>2. /\ IsVolume(vol) /\ files \in Seq(FileContext)
        /\ cached # NoSector => cached = buffer
        /\ \A j \in DOMAIN files : FileSound(vol, files[j])
    BY <1>1 DEF ReadInv
  <1>3. f \in FileContext /\ i \in Nat /\ FileSound(vol, f)
    <2> HIDE DEF FileContext, FileSound
    <2> QED BY <1>2
  <1>4. /\ f.size \in Nat /\ f.first \in Nat /\ f.ordinal \in Nat /\ f.cluster \in Nat
        /\ offset \in Nat /\ offset < f.size /\ count \in Nat /\ count > 0
    <2>1. f.size \in Nat /\ f.first \in Nat /\ f.ordinal \in Nat /\ f.cluster \in Nat
      BY <1>3 DEF FileContext
    <2> QED BY <2>1
  <1>5. m \in Nat /\ m > 0 /\ offset + m <= f.size
    BY <1>4
  <1>6. /\ o \in Nat /\ o <= offset /\ o < f.size /\ c \in Nat
        /\ c = Walk(vol, f.first)[o]
    <2>1. Walk(vol, f.first)[0] = f.first
      BY <1>2, WalkEquation
    <2>2. CASE use
      <3>1. f.ordinal <= offset /\ f.cluster = Walk(vol, f.first)[f.ordinal]
        BY <1>3, <1>4, <2>2 DEF UsesCursor, FileSound
      <3> HIDE DEF f
      <3> QED BY <1>4, <2>2, <3>1
    <2>3. CASE ~use
      <3> HIDE DEF f, use
      <3> QED BY <1>4, <2>1, <2>3
    <2> QED BY <2>2, <2>3
  <1> HIDE DEF f, use, m, o, c
  <1>7. r \in ReadCall /\ ReadSound(vol, files, r)
    <2>1. <<>> \in Seq(Nat) /\ Len(<<>>) = 0
      OBVIOUS
    <2>2. r \in ReadCall
      BY <1>3, <1>4, <1>5, <1>6, <2>1 DEF ReadCall
    <2>3. /\ r.file = i /\ r.offset = offset /\ r.count = m /\ r.ordinal = o /\ r.cluster = c
          /\ Len(r.got) = 0 /\ r.status = "seek"
      BY <2>1
    <2> HIDE DEF r
    <2>4. i \in DOMAIN files /\ f = files[i]
      BY DEF f
    <2> QED BY <1>4, <1>5, <1>6, <2>2, <2>3, <2>4 DEF ReadSound
  <1> HIDE DEF r
  <1> QED BY <1>1, <1>2, <1>7, ReadKeeps

(* readFile goes one link on: the chain of a mounted file is long enough,  *)
(* so that the link goes on, and leads to its next cluster.                *)
LEMMA FollowStep ==
    ASSUME ReadInv, read.status \in {"seek", "next"},
           read.ordinal + 1 < files[read.file].size,
           NEW then \in {"seek", "copy"}, Follow(then)
    PROVE  /\ pc = "mounted" /\ pc' = pc /\ vol' = vol /\ todo' = todo /\ files' = files
           /\ cached' # NoSector => cached' = buffer'
           /\ read' = [read EXCEPT !.cluster = Entry(read.cluster), !.ordinal = @ + 1,
                                   !.status = then]
           /\ Entry(read.cluster) \in Nat
           /\ Entry(read.cluster) = Walk(vol, files[read.file].first)[read.ordinal + 1]
  <1> DEFINE c == read.cluster
             f == files[read.file]
             o == read.ordinal
             w == Walk(vol, f.first)
  <1>1. /\ pc = "mounted" /\ IsVolume(vol)
        /\ cached # NoSector => cached = buffer
        /\ FileSound(vol, f) /\ o \in Nat /\ c \in Nat /\ f.size \in Nat /\ c = w[o]
    <2>1. ReadSound(vol, files, read)
      BY ReadFacts
    <2>2. c = w[o]
      BY <2>1 DEF ReadSound
    <2> QED BY <2>2, ReadFacts
  <1>2. /\ Fetch(c) /\ pc' = pc /\ vol' = vol /\ todo' = todo /\ files' = files
        /\ read' = IF Link(c) = "next"
                   THEN [read EXCEPT !.cluster = Entry(c), !.ordinal = @ + 1, !.status = then]
                   ELSE [read EXCEPT !.status = "corrupt"]
    BY DEF Follow, ReadOnly
  <1>3. /\ o <= Steps(vol) /\ w[o] \in Clusters(vol)
        /\ o + 1 <= Steps(vol) /\ w[o + 1] \in Clusters(vol)
    <2>1. o \in 0 .. f.size - 1 /\ o + 1 \in 0 .. f.size - 1
      BY <1>1
    <2>2. ChainTo(vol, f.first, f.size)
      BY <1>1 DEF FileSound
    <2> HIDE DEF f, o
    <2> QED BY <2>1, <2>2 DEF ChainTo
  <1>4. w[o + 1] = Value(vol, c)
    <2>1. w[o + 1] = LinkOn(vol, w[o])
      <3> HIDE DEF Steps, o, f
      <3> QED BY <1>1, <1>3, WalkEquation
    <2> QED BY <1>1, <1>3, <2>1 DEF LinkOn
  <1>5. Entry(c) = Value(vol, c)
    <2> HIDE DEF c, f, o, w
    <2> QED BY <1>1, EntryRight
  <1>6. Value(vol, c) \in Nat
    <2> HIDE DEF c, f, o, w
    <2> QED BY <1>1, VolumeFacts
  <1>7. Link(c) = "next"
    <2> HIDE DEF c, f, o, w, Entry
    <2> QED BY <1>1, <1>3, <1>4, <1>5, <1>6, GoesOn DEF Link
  <1>8. cached' # NoSector => cached' = buffer'
    BY <1>1, <1>2, FetchRight
  <1> HIDE DEF Entry, Link
  <1> QED BY <1>1, <1>2, <1>4, <1>5, <1>6, <1>7, <1>8

Statuses == {"idle", "seek", "copy", "next", "done", "io"}

(* A call that only comes to another status.                               *)
LEMMA CallStatus ==
    ASSUME NEW r \in ReadCall, NEW st \in Statuses, NEW q, q = [r EXCEPT !.status = st]
    PROVE  /\ q \in ReadCall /\ q.status = st /\ q.cluster = r.cluster
           /\ q.ordinal = r.ordinal /\ q.file = r.file /\ q.offset = r.offset
           /\ q.count = r.count /\ q.got = r.got
  BY DEF ReadCall, Statuses

(* The call after one link, and after one cluster was copied.              *)
Moved(r, c, st) == [r EXCEPT !.cluster = c, !.ordinal = @ + 1, !.status = st]
Copied(r, c, st) == [r EXCEPT !.got = Append(@, c), !.status = st]

(* A call that goes one link on keeps what it was asked and has copied.    *)
LEMMA CallOn ==
    ASSUME NEW r \in ReadCall, NEW st \in Statuses, NEW c \in Nat
    PROVE  /\ Moved(r, c, st) \in ReadCall /\ Moved(r, c, st).status = st
           /\ Moved(r, c, st).cluster = c /\ Moved(r, c, st).ordinal = r.ordinal + 1
           /\ Moved(r, c, st).file = r.file /\ Moved(r, c, st).offset = r.offset
           /\ Moved(r, c, st).count = r.count /\ Moved(r, c, st).got = r.got
  <1> DEFINE o == r.ordinal + 1
             q == Moved(r, c, st)
  <1>1. o \in Nat
    BY DEF ReadCall
  <1>2. q = [r EXCEPT !.cluster = c, !.ordinal = o, !.status = st]
    BY DEF Moved
  <1> HIDE DEF o, q
  <1>3. /\ q \in ReadCall /\ q.status = st /\ q.cluster = c
        /\ q.ordinal = o /\ q.file = r.file /\ q.offset = r.offset
        /\ q.count = r.count /\ q.got = r.got
    BY <1>1, <1>2 DEF ReadCall, Statuses
  <1> QED BY <1>3 DEF o, q

(* A call that copies a cluster stays on it.                               *)
LEMMA CallCopied ==
    ASSUME NEW r \in ReadCall, NEW st \in Statuses, NEW c \in Nat
    PROVE  /\ Copied(r, c, st) \in ReadCall /\ Copied(r, c, st).status = st
           /\ Copied(r, c, st).got = Append(r.got, c) /\ Copied(r, c, st).ordinal = r.ordinal
           /\ Copied(r, c, st).file = r.file /\ Copied(r, c, st).offset = r.offset
           /\ Copied(r, c, st).count = r.count /\ Copied(r, c, st).cluster = r.cluster
  <1> DEFINE g == Append(r.got, c)
             q == Copied(r, c, st)
  <1>1. g \in Seq(Nat)
    BY DEF ReadCall
  <1>2. q = [r EXCEPT !.got = g, !.status = st]
    BY DEF Copied
  <1> HIDE DEF g, q
  <1>3. /\ q \in ReadCall /\ q.status = st /\ q.got = g
        /\ q.ordinal = r.ordinal /\ q.file = r.file /\ q.offset = r.offset
        /\ q.count = r.count /\ q.cluster = r.cluster
    BY <1>1, <1>2 DEF ReadCall, Statuses
  <1> QED BY <1>3 DEF g, q

(* readFile on its way to the offset.                                      *)
LEMMA SeekStep ==
    ASSUME ReadInv, Seek
    PROVE  ReadInv'
  <1>1. read.status = "seek"
    BY DEF Seek
  <1>2. /\ pc = "mounted" /\ files \in Seq(FileContext)
        /\ \A i \in DOMAIN files : FileSound(vol, files[i])
        /\ cached # NoSector => cached = buffer
        /\ read \in ReadCall /\ ReadSound(vol, files, read) /\ read.file \in DOMAIN files
        /\ read.ordinal \in Nat /\ read.offset \in Nat /\ read.count \in Nat
        /\ read.cluster \in Nat /\ read.got \in Seq(Nat) /\ files[read.file].size \in Nat
    BY <1>1, ReadFacts
  <1>3. /\ read.offset + read.count <= files[read.file].size
        /\ read.ordinal <= read.offset /\ Len(read.got) = 0 /\ read.count > 0
        /\ read.ordinal < files[read.file].size
        /\ read.cluster = Walk(vol, files[read.file].first)[read.ordinal]
    BY <1>1, <1>2 DEF ReadSound
  <1>4. CASE read.ordinal < read.offset
    <2>1. Follow("seek") /\ read.ordinal + 1 < files[read.file].size
      BY <1>2, <1>3, <1>4 DEF Seek
    <2> DEFINE c == Entry(read.cluster)
               q == Moved(read, c, "seek")
    <2>2. /\ pc' = pc /\ vol' = vol /\ todo' = todo /\ files' = files
          /\ cached' # NoSector => cached' = buffer'
          /\ read' = q /\ c \in Nat
          /\ c = Walk(vol, files[read.file].first)[read.ordinal + 1]
      BY <1>1, <2>1, FollowStep DEF Moved
    <2> HIDE DEF c
    <2>3. /\ q \in ReadCall /\ q.status = "seek" /\ q.cluster = c
          /\ q.ordinal = read.ordinal + 1 /\ q.file = read.file /\ q.offset = read.offset
          /\ q.count = read.count /\ q.got = read.got
      <3>1. "seek" \in Statuses
        BY DEF Statuses
      <3>2. read \in ReadCall /\ c \in Nat
        BY <1>2, <2>2
      <3> QED BY <3>1, <3>2, CallOn
    <2> HIDE DEF q
    <2>4. ReadSound(vol, files, q)
      BY <1>2, <1>3, <1>4, <2>1, <2>2, <2>3 DEF ReadSound
    <2> QED BY <1>2, <2>2, <2>3, <2>4, ReadKeeps
  <1>5. CASE ~(read.ordinal < read.offset)
    <2> DEFINE q == [read EXCEPT !.status = "copy"]
    <2>1. /\ pc' = pc /\ vol' = vol /\ todo' = todo /\ files' = files
          /\ cached' = cached /\ buffer' = buffer /\ read' = q
      BY <1>5 DEF Seek, ReadOnly
    <2>2. /\ q \in ReadCall /\ q.status = "copy" /\ q.cluster = read.cluster
          /\ q.ordinal = read.ordinal /\ q.file = read.file /\ q.offset = read.offset
          /\ q.count = read.count /\ q.got = read.got
      <3>1. "copy" \in Statuses /\ q = [read EXCEPT !.status = "copy"]
        BY DEF Statuses
      <3> HIDE DEF q
      <3> QED BY <1>2, <3>1, CallStatus
    <2> HIDE DEF q
    <2>3. ReadSound(vol, files, q)
      BY <1>2, <1>3, <1>5, <2>2 DEF ReadSound
    <2> QED BY <1>2, <2>1, <2>2, <2>3, ReadKeeps
  <1> QED BY <1>4, <1>5

(* readFile on its way to the next cluster to copy.                        *)
LEMMA NextClusterStep ==
    ASSUME ReadInv, NextCluster
    PROVE  ReadInv'
  <1>1. read.status = "next" /\ Follow("copy")
    BY DEF NextCluster
  <1>2. /\ pc = "mounted" /\ files \in Seq(FileContext)
        /\ \A i \in DOMAIN files : FileSound(vol, files[i])
        /\ read \in ReadCall /\ ReadSound(vol, files, read) /\ read.file \in DOMAIN files
        /\ read.ordinal \in Nat /\ read.offset \in Nat /\ read.count \in Nat
        /\ read.cluster \in Nat /\ read.got \in Seq(Nat) /\ files[read.file].size \in Nat
    BY <1>1, ReadFacts
  <1>3. /\ read.offset + read.count <= files[read.file].size
        /\ read.ordinal + 1 = read.offset + Len(read.got) /\ Len(read.got) < read.count
        /\ \A k \in 1 .. Len(read.got) :
              read.got[k] = Walk(vol, files[read.file].first)[read.offset + k - 1]
    BY <1>1, <1>2 DEF ReadSound
  <1>4. Len(read.got) \in Nat
    BY <1>2
  <1>5. read.ordinal + 1 < files[read.file].size
    BY <1>2, <1>3, <1>4
  <1> DEFINE c == Entry(read.cluster)
             q == Moved(read, c, "copy")
  <1>6. /\ pc' = pc /\ vol' = vol /\ todo' = todo /\ files' = files
        /\ cached' # NoSector => cached' = buffer'
        /\ read' = q /\ c \in Nat
        /\ c = Walk(vol, files[read.file].first)[read.ordinal + 1]
    BY <1>1, <1>5, FollowStep DEF Moved
  <1> HIDE DEF c
  <1>7. /\ q \in ReadCall /\ q.status = "copy" /\ q.cluster = c
        /\ q.ordinal = read.ordinal + 1 /\ q.file = read.file /\ q.offset = read.offset
        /\ q.count = read.count /\ q.got = read.got
    <2>1. "copy" \in Statuses
      BY DEF Statuses
    <2>2. read \in ReadCall /\ c \in Nat
      BY <1>2, <1>6
    <2> QED BY <2>1, <2>2, CallOn
  <1> HIDE DEF q
  <1>8. ReadSound(vol, files, q)
    BY <1>2, <1>3, <1>4, <1>5, <1>6, <1>7 DEF ReadSound
  <1> QED BY <1>2, <1>6, <1>7, <1>8, ReadKeeps

(* A cluster is copied and the cursor moved to it.                         *)
LEMMA CopyStep ==
    ASSUME ReadInv, CopyCluster
    PROVE  ReadInv'
  <1> DEFINE i == read.file
             f == files[i]
             g == [f EXCEPT !.cursorValid = TRUE, !.cluster = read.cluster,
                            !.ordinal = read.ordinal]
             st == IF Len(read.got) + 1 = read.count THEN "done" ELSE "next"
             q == Copied(read, read.cluster, st)
  <1>1. read.status = "copy"
    BY DEF CopyCluster
  <1>2. /\ pc = "mounted" /\ files \in Seq(FileContext)
        /\ \A j \in DOMAIN files : FileSound(vol, files[j])
        /\ cached # NoSector => cached = buffer
        /\ read \in ReadCall /\ ReadSound(vol, files, read)
        /\ i \in DOMAIN files /\ f \in FileContext
        /\ read.ordinal \in Nat /\ read.offset \in Nat /\ read.count \in Nat
        /\ read.cluster \in Nat /\ read.got \in Seq(Nat) /\ f.size \in Nat
    BY <1>1, ReadFacts
  <1>3. /\ pc' = pc /\ vol' = vol /\ todo' = todo /\ cached' = cached /\ buffer' = buffer
        /\ files' = [files EXCEPT ![i] = g] /\ read' = q
    BY DEF CopyCluster, ReadOnly, Copied
  <1>4. /\ read.offset + read.count <= f.size /\ read.ordinal < f.size
        /\ read.cluster = Walk(vol, f.first)[read.ordinal]
        /\ read.ordinal = read.offset + Len(read.got) /\ Len(read.got) < read.count
        /\ \A k \in 1 .. Len(read.got) : read.got[k] = Walk(vol, f.first)[read.offset + k - 1]
    BY <1>1, <1>2 DEF ReadSound
  <1>5. Len(read.got) \in Nat /\ st \in {"done", "next"}
    BY <1>2
  <1>6. /\ g \in FileContext /\ g.first = f.first /\ g.size = f.size
        /\ g.ordinal = read.ordinal /\ g.cluster = read.cluster
    <2> HIDE DEF f
    <2> QED BY <1>2 DEF FileContext
  <1>7. FileSound(vol, g)
    <2>1. ChainTo(vol, f.first, f.size)
      BY <1>2 DEF FileSound
    <2> HIDE DEF f, g, ChainTo
    <2> QED BY <1>4, <1>6, <2>1 DEF FileSound
  <1>8. /\ q \in ReadCall /\ q.status = st /\ q.got = Append(read.got, read.cluster)
        /\ q.ordinal = read.ordinal /\ q.file = i /\ q.offset = read.offset
        /\ q.count = read.count /\ q.cluster = read.cluster
    <2>1. st \in Statuses
      BY <1>5 DEF Statuses
    <2> HIDE DEF st, i
    <2>2. read \in ReadCall /\ read.cluster \in Nat
      BY <1>2
    <2> QED BY <2>1, <2>2, CallCopied DEF i
  <1>9. /\ Len(q.got) = Len(read.got) + 1
        /\ \A k \in 1 .. Len(q.got) : q.got[k] = Walk(vol, f.first)[read.offset + k - 1]
    <2>1. Len(q.got) = Len(read.got) + 1
      <3> HIDE DEF q
      <3> QED BY <1>2, <1>8
    <2>2. ASSUME NEW k \in 1 .. Len(q.got)
          PROVE  q.got[k] = Walk(vol, f.first)[read.offset + k - 1]
      <3> HIDE DEF q, f
      <3>1. CASE k = Len(read.got) + 1
        <4>1. q.got[k] = read.cluster /\ read.offset + k - 1 = read.ordinal
          BY <1>2, <1>4, <1>5, <1>8, <3>1
        <4> QED BY <1>4, <4>1
      <3>2. CASE k # Len(read.got) + 1
        <4>1. k \in 1 .. Len(read.got)
          BY <1>5, <2>1, <3>2
        <4>2. q.got[k] = read.got[k]
          BY <1>2, <1>8, <4>1
        <4> QED BY <1>4, <4>1, <4>2
      <3> QED BY <3>1, <3>2
    <2> QED BY <2>1, <2>2
  <1> HIDE DEF g
  <1>10. /\ files' \in Seq(FileContext) /\ DOMAIN files' = DOMAIN files /\ files'[i] = g
         /\ \A j \in DOMAIN files : j # i => files'[j] = files[j]
    <2> HIDE DEF FileContext, i, f
    <2> QED BY <1>2, <1>3, <1>6
  <1>11. \A j \in DOMAIN files' : FileSound(vol, files'[j])
    <2> HIDE DEF FileSound, i
    <2> QED BY <1>2, <1>7, <1>10
  <1>12. ReadSound(vol, files', q)
    <2>1. /\ q.file \in DOMAIN files' /\ files'[q.file].size = f.size
          /\ files'[q.file].first = f.first
      <3> HIDE DEF q, i, f
      <3> QED BY <1>2, <1>6, <1>8, <1>10
    <2>2. /\ q.status = "next" \/ q.status = "done"
          /\ q.status = "next" => q.ordinal + 1 = q.offset + Len(q.got) /\ Len(q.got) < q.count
          /\ q.status = "done" => Len(q.got) = q.count
      <3>1. st = "done" => Len(read.got) + 1 = read.count
        OBVIOUS
      <3>2. st = "next" => Len(read.got) + 1 # read.count
        OBVIOUS
      <3>3. read.ordinal = read.offset + Len(read.got) /\ Len(read.got) < read.count
        BY <1>4
      <3>4. Len(q.got) = Len(read.got) + 1
        BY <1>9
      <3>5. /\ q.status = st /\ q.ordinal = read.ordinal /\ q.offset = read.offset
            /\ q.count = read.count
        BY <1>8
      <3>6. /\ Len(read.got) \in Nat /\ read.ordinal \in Nat /\ read.offset \in Nat
            /\ read.count \in Nat
        BY <1>2, <1>5
      <3> HIDE DEF q, st, f, i
      <3>7. CASE st = "done"
        BY <3>1, <3>4, <3>5, <3>6, <3>7
      <3>8. CASE st = "next"
        BY <3>2, <3>3, <3>4, <3>5, <3>6, <3>8
      <3> QED BY <1>5, <3>7, <3>8
    <2>3. /\ q.offset + q.count <= f.size /\ q.ordinal < f.size
          /\ q.cluster = Walk(vol, f.first)[q.ordinal]
          /\ \A k \in 1 .. Len(q.got) : q.got[k] = Walk(vol, f.first)[q.offset + k - 1]
      <3> HIDE DEF q, f
      <3> QED BY <1>4, <1>8, <1>9
    <2> HIDE DEF q, f, i
    <2> QED BY <2>1, <2>2, <2>3 DEF ReadSound
  <1> HIDE DEF q
  <1> QED BY <1>2, <1>3, <1>8, <1>10, <1>11, <1>12, ReadKeeps

(* A device read of readFile fails: the cursor, the cache and its label    *)
(* stay.                                                                   *)
LEMMA ReadFailsStep ==
    ASSUME ReadInv, ReadFails
    PROVE  ReadInv'
  <1> DEFINE q == [read EXCEPT !.status = "io"]
  <1>1. read.status \in {"seek", "copy", "next"}
    BY DEF ReadFails
  <1>2. /\ pc' = pc /\ vol' = vol /\ todo' = todo /\ files' = files
        /\ cached' = cached /\ buffer' = buffer /\ read' = q
    BY DEF ReadFails, ReadOnly
  <1>3. /\ pc = "mounted" /\ files \in Seq(FileContext)
        /\ \A i \in DOMAIN files : FileSound(vol, files[i])
        /\ cached # NoSector => cached = buffer
        /\ read \in ReadCall /\ read.cluster \in Nat
    BY <1>1, ReadFacts
  <1>4. q \in ReadCall /\ q.status = "io"
    <2>1. "io" \in Statuses /\ q = [read EXCEPT !.status = "io"]
      BY DEF Statuses
    <2> HIDE DEF q
    <2> QED BY <1>3, <2>1, CallStatus
  <1> HIDE DEF q
  <1>5. ReadSound(vol, files, q)
    BY <1>4 DEF ReadSound
  <1> QED BY <1>2, <1>3, <1>4, <1>5, ReadKeeps

-----------------------------------------------------------------------------
(* The device, the mount and the reads together                            *)

(* A backend that has done nothing yet, with or without a device.          *)
LEMMA FreshBackend ==
    Backend /\ (pc = "off" \/ (pc = "boot" /\ IsVolume(vol))) => ReadInv
  <1> SUFFICES ASSUME Backend, pc = "off" \/ (pc = "boot" /\ IsVolume(vol))
               PROVE  ReadInv
    OBVIOUS
  <1>1. /\ todo = <<>> /\ files = <<>> /\ cached = NoSector /\ read = NoRead
    BY DEF Backend
  <1>2. /\ <<>> \in Seq(DirectoryEntry) /\ <<>> \in Seq(FileContext) /\ <<>> \in Seq(Nat)
        /\ DOMAIN <<>> = {}
    OBVIOUS
  <1>3. NoRead \in ReadCall /\ NoRead.status = "idle"
    BY <1>2 DEF NoRead, ReadCall
  <1>4. ReadSound(vol, files, read)
    <2> HIDE DEF NoRead
    <2> QED BY <1>1, <1>3 DEF ReadSound
  <1>5. FileWalk
    BY DEF FileWalk
  <1> HIDE DEF NoRead, ReadCall, FileContext, DirectoryEntry, IsVolume, Backend
  <1> QED BY <1>1, <1>2, <1>3, <1>4, <1>5 DEF ReadInv

(* The entries of the directories that the builder makes.                  *)
LEMMA EntryTypes ==
    ASSUME NEW c \in Nat, NEW n \in Nat
    PROVE  N!Directory(c) \in DirectoryEntry /\ N!File(c, n) \in DirectoryEntry
  BY DEF N!Directory, N!File, DirectoryEntry

(* The kernel finds the number of clusters that the builder laid out.      *)
LEMMA ClustersParsed ==
    ASSUME N!LayoutAccepted
    PROVE  /\ N!Parsed.count = N!Layout.clusterCount
           /\ N!Parsed.count \in Nat /\ N!Parsed.count <= MaximumClusters
           /\ N!Layout.size \div 2 \in Nat \ {0}
  <1>1. CASE req.blockSize = 512
    <2>1. N!Layout = N!LayoutFor(512)
      BY <1>1 DEF N!Layout
    <2>2. N!Layout.size = 512 /\ N!Layout.efiSectors = 16384 /\ N!Layout.perFat = 120
      BY <2>1 DEF N!LayoutFor, N!Sized
    <2>3. N!Layout.clusterCount = 16111
      BY <2>1, Layout512
    <2> HIDE DEF N!Layout
    <2>4. N!Parsed.count = 16111
      BY <2>2 DEF N!Parsed, N!BootSector, N!CeilDiv, N!RootEntryCount
    <2> QED BY <2>2, <2>3, <2>4 DEF MaximumClusters
  <1>2. CASE req.blockSize = 4096
    <2>1. N!Layout = N!LayoutFor(4096)
      BY <1>2 DEF N!Layout
    <2>2. N!Layout.size = 4096 /\ N!Layout.efiSectors = 8192 /\ N!Layout.perFat = 8
      BY <2>1 DEF N!LayoutFor, N!Sized
    <2>3. N!Layout.clusterCount = 8171
      BY <2>1, Layout4096
    <2> HIDE DEF N!Layout
    <2>4. N!Parsed.count = 8171
      BY <2>2 DEF N!Parsed, N!BootSector, N!CeilDiv, N!RootEntryCount
    <2> QED BY <2>2, <2>3, <2>4 DEF MaximumClusters
  <1> QED BY <1>1, <1>2 DEF N!LayoutAccepted

(* What the builder makes is a volume, for every accepted request.         *)
LEMMA BuiltVolume ==
    ASSUME req \in N!Request, N!LayoutAccepted, N!PlacementFits
    PROVE  IsVolume(N!Volume)
  <1> DEFINE v == N!Volume
             F == N!FileClusters
             R == N!ReadmeCluster
             n == N!Parsed.count
  <1>1. /\ F \in Nat /\ F > 0 /\ R \in Int /\ N!ConfigCluster = R + 1 /\ R >= 4 + F
        /\ R <= n /\ n \in Nat /\ n <= MaximumClusters
    BY Placed, ClustersParsed
  <1>2. N!LastFileCluster = F + 3 /\ N!FirstFileCluster = 4
    BY <1>1 DEF N!LastFileCluster, N!FirstFileCluster
  <1>3. /\ v.count = n /\ v.perSector = N!Layout.size \div 2 /\ v.fat = N!Fat
        /\ v.root = N!RootDirectory
        /\ v.dirs = [c \in {2, 3} |-> IF c = 2 THEN N!EfiDirectory ELSE N!BootDirectory]
    BY DEF N!Volume
  <1> HIDE DEF F, R, n
  <1>4. DOMAIN N!Fat = (2 .. F + 3) \cup {R, R + 1}
    <2>1. DOMAIN N!Fat = (2 .. N!LastFileCluster) \cup {N!ReadmeCluster, N!ConfigCluster}
      BY DEF N!Fat
    <2>2. N!ReadmeCluster = R
      BY DEF R
    <2> QED BY <1>1, <1>2, <2>1, <2>2, Zenon
  <1>5. \A c \in DOMAIN N!Fat : N!Fat[c] = c + 1 \/ N!Fat[c] = 65535
    BY DEF N!Fat
  <1>6. DOMAIN N!Fat \subseteq 2 .. (n + 1) /\ \A c \in DOMAIN N!Fat : N!Fat[c] \in Nat
    BY <1>1, <1>4, <1>5
  <1>7. R \in Nat /\ R + 1 \in Nat /\ F \in Nat
    BY <1>1
  <1>8. N!ConfigDirectoryCluster \in Nat
    BY <1>1, <1>7 DEF N!ConfigDirectoryCluster, R
  <1>9. /\ N!RootDirectory \in Seq(DirectoryEntry) /\ N!EfiDirectory \in Seq(DirectoryEntry)
        /\ N!BootDirectory \in Seq(DirectoryEntry)
    <2>1. /\ N!Directory(2) \in DirectoryEntry /\ N!Directory(3) \in DirectoryEntry
          /\ N!File(R, 1) \in DirectoryEntry /\ N!File(4, F) \in DirectoryEntry
          /\ N!File(N!ConfigDirectoryCluster, 1) \in DirectoryEntry
      BY <1>7, <1>8, EntryTypes
    <2>2. /\ N!RootDirectory = <<N!Directory(2), N!File(R, 1)>>
          /\ N!EfiDirectory = <<N!Directory(3)>>
          /\ N!BootDirectory = <<N!File(4, F), N!File(N!ConfigDirectoryCluster, 1)>>
      BY <1>2 DEF N!RootDirectory, N!EfiDirectory, N!BootDirectory, R, F
    <2> HIDE DEF DirectoryEntry
    <2> QED BY <2>1, <2>2
  <1>10. \A d \in DOMAIN v.dirs : v.dirs[d] \in Seq(DirectoryEntry)
    <2> HIDE DEF v, DirectoryEntry
    <2> QED BY <1>3, <1>9
  <1>11. N!Layout.size \div 2 \in Nat \ {0}
    BY ClustersParsed
  <1>12. Clusters(v) = 2 .. (n + 1)
    BY <1>3 DEF Clusters
  <1> HIDE DEF v
  <1>13. IsVolume(v)
    <2>1. /\ v.count \in Nat /\ v.count <= MaximumClusters /\ v.perSector \in Nat \ {0}
      BY <1>1, <1>3, <1>11
    <2>2. /\ DOMAIN v.fat \subseteq Clusters(v) /\ \A c \in DOMAIN v.fat : v.fat[c] \in Nat
      BY <1>3, <1>6, <1>12
    <2>3. v.root \in Seq(DirectoryEntry)
      BY <1>3, <1>9
    <2>4. IsFiniteSet(DOMAIN v.dirs)
      <3>1. DOMAIN v.dirs = {2, 3}
        BY <1>3
      <3>2. IsFiniteSet({}) /\ IsFiniteSet({} \cup {2}) /\ IsFiniteSet(({} \cup {2}) \cup {3})
        BY FS_EmptySet, FS_AddElement, Zenon
      <3>3. {2, 3} = ({} \cup {2}) \cup {3}
        OBVIOUS
      <3> QED BY <3>1, <3>2, <3>3, Zenon
    <2> QED BY <1>10, <2>1, <2>2, <2>3, <2>4 DEF IsVolume
  <1> QED BY <1>13 DEF v

(* A step of readFile.                                                     *)
LEMMA ReadNextStep ==
    ASSUME ReadInv, ReadNext
    PROVE  ReadInv'
  <1>1. CASE \E i \in DOMAIN files :
                \E offset \in 0..(files[i].size - 1), count \in 1..files[i].size :
                    BeginRead(i, offset, count)
    BY <1>1, BeginReadStep
  <1> QED BY <1>1, SeekStep, CopyStep, NextClusterStep, ReadFailsStep DEF ReadNext

(* Nothing happens to the backend.                                         *)
LEMMA BackendUnchanged ==
    ASSUME ReadInv, UNCHANGED vars
    PROVE  ReadInv'
  <1>1. /\ pc' = pc /\ vol' = vol /\ cached' = cached /\ buffer' = buffer /\ todo' = todo
        /\ files' = files /\ read' = read /\ walk' = walk
    BY DEF vars, chainVars
  <1>2. Backend => Backend'
    BY DEF Backend, vars, chainVars
  <1>3. FileWalk => FileWalk'
    BY <1>1 DEF FileWalk
  <1> QED BY <1>1, <1>2, <1>3 DEF ReadInv

(* With a foreign volume or an image still to be built, nothing is read.   *)
LEMMA BootInit == ImageInit => BootInv
  <1> SUFFICES ASSUME ImageInit PROVE ReadInv
    BY BuilderInit DEF BootInv
  <1>1. CASE Init
    BY <1>1, BootFatAssumption, FreshBackend DEF Init
  <1>2. CASE ~Init
    BY <1>2, FreshBackend DEF ImageInit
  <1> QED BY <1>1, <1>2

(* Building, starting the kernel on what was built, mounting and reading.  *)
LEMMA BootStep == BootInv /\ [ImageNext]_imageVars => BootInv'
  <1> SUFFICES ASSUME BuilderInv, ReadInv, [ImageNext]_imageVars PROVE ReadInv'
    BY BuilderStep DEF BootInv
  <1>1. CASE UNCHANGED vars
    BY <1>1, BackendUnchanged
  <1>2. CASE BootFromImage
    <2>1. IsVolume(N!Volume)
      BY <1>2, Finished, BuiltVolume DEF BootFromImage
    <2>2. Backend
      BY <1>2 DEF ReadInv, BootFromImage
    <2>3. Backend' /\ pc' = "boot" /\ vol' = N!Volume
      BY <1>2, <2>2 DEF BootFromImage, Backend, chainVars
    <2>4. (Backend /\ (pc = "off" \/ (pc = "boot" /\ IsVolume(vol))))'
      BY <2>1, <2>3
    <2> QED BY <2>4, FreshBackend, PTL
  <1>3. CASE Run
    <2>1. CASE MountNext
      BY <2>1, ScanSteps, StageFileStep, FileClusterStep DEF MountNext
    <2>2. CASE ReadNext
      BY <2>2, ReadNextStep
    <2>3. CASE Done
      BY <2>3, BackendUnchanged DEF Done
    <2> QED BY <1>3, <2>1, <2>2, <2>3 DEF Run, Next
  <1> QED BY <1>1, <1>2, <1>3 DEF ImageNext, Build, imageVars

(* The invariant of image, mount and reads holds throughout.               *)
THEOREM BootInvariant == ImageSpec => []BootInv
  BY BootInit, BootStep, PTL DEF ImageSpec

(* ReadsTrue, for every set of volumes, every image and any number of      *)
(* calls and device failures: a read that succeeds returns the clusters of *)
(* the file at that offset, in order, and a mounted volume never shows a   *)
(* defect at read time.                                                    *)
THEOREM ReadsAreTrue == ImageSpec => []ReadsTrue
  <1>1. ReadInv => ReadsTrue
    <2> SUFFICES ASSUME ReadInv PROVE ReadsTrue
      OBVIOUS
    <2>1. read \in ReadCall /\ ReadSound(vol, files, read)
      BY DEF ReadInv
    <2>2. read.status # "corrupt" /\ read.got \in Seq(Nat)
      BY <2>1 DEF ReadCall
    <2>3. ASSUME read.status = "done"
          PROVE  read.got = [k \in 1..read.count |-> Nth(vol, files[read.file].first, read.offset + k - 1)]
      <3> DEFINE first == files[read.file].first
      <3>1. /\ Len(read.got) = read.count
            /\ \A k \in 1 .. Len(read.got) : read.got[k] = Walk(vol, first)[read.offset + k - 1]
        BY <2>1, <2>3 DEF ReadSound
      <3> HIDE DEF first
      <3>2. \A k \in 1 .. read.count : read.got[k] = Nth(vol, first, read.offset + k - 1)
        BY <3>1 DEF Nth
      <3>3. read.got = [k \in 1 .. read.count |-> read.got[k]]
        BY <2>2, <3>1
      <3> QED BY <3>2, <3>3 DEF first
    <2> QED BY <2>2, <2>3 DEF ReadsTrue
  <1> QED BY <1>1, BootInvariant, PTL DEF BootInv

-----------------------------------------------------------------------------
(* Mounting a volume                                                       *)

(* A directory that is staged is known by the place of its entry; the root *)
(* has none.                                                               *)
RootPlace == <<0, 0>>

(* The first cluster of the directory of an entry, 0 for the root.         *)
First(v, p) == IF p = RootPlace THEN 0 ELSE At(v, p).first

(* The entries of the directories that can be staged.                      *)
Staged(v) == {p \in Owners(v) : At(v, p).dir /\ At(v, p).first >= 2}

(* The entries read so far: those of the directories in S, and the first   *)
(* "pos" of directory "cur".                                               *)
Seen(v, S, cur, pos) == {p \in Places(v) : p[1] \in S \/ (p[1] = cur /\ p[2] <= pos)}

(* What is in a queue.                                                     *)
Listing(Q) == {Q[k] : k \in DOMAIN Q}

(* The mount's books.  W are the entries whose chains are claimed, H the   *)
(* directory being scanned, if any, Q those that are queued.  Together     *)
(* they are exactly the entries seen, each in one place.                   *)
Books(v, S, cur, pos, H, W, Q) ==
    /\ S \subseteq Directories(v) /\ pos \in Nat /\ W \subseteq Owners(v)
    /\ H \subseteq Staged(v) \cup {RootPlace} /\ Q \in Seq(Staged(v) \cup {RootPlace})
    /\ \A j, k \in DOMAIN Q : Q[j] = Q[k] => j = k
    /\ Listing(Q) \cap (W \cup H) = {} /\ H \cap W = {}
    /\ Seen(v, S, cur, pos) \cap Owners(v) \subseteq W \cup H \cup Listing(Q)
    /\ (W \cup H \cup Listing(Q)) \ {RootPlace} \subseteq Seen(v, S, cur, pos)
    /\ \A p \in W : At(v, p).dir => At(v, p).first \in S
    /\ 0 \notin S => RootPlace \in H \cup Listing(Q)
    /\ RootPlace \in Listing(Q) => S = {} /\ H = {} /\ W = {} /\ Len(Q) = 1
    /\ H = {} => pos = 0

(* The claims.  Chains that are claimed end, are long enough and have no   *)
(* cluster in common; dv and wv are what the directory and the file being  *)
(* followed have taken.                                                    *)
Claims(v, W, cl, dv, wv) ==
    /\ cl = (UNION {Cells(v, At(v, p).first) : p \in W}) \cup dv \cup wv
    /\ \A p \in W : Ends(v, At(v, p).first) /\ ~Short(v, At(v, p))
    /\ \A p, q \in W : p # q => Cells(v, At(v, p).first) \cap Cells(v, At(v, q).first) = {}
    /\ \A p \in W : Cells(v, At(v, p).first) \cap (dv \cup wv) = {}
    /\ dv \cap wv = {}

(* The first n clusters of a chain, none of them twice.                    *)
Taken(v, first, n, V) ==
    /\ n \in Nat /\ ChainTo(v, first, n) /\ V = {Walk(v, first)[k] : k \in 0 .. n - 1}
    /\ Cardinality(V) = n

(* A chain whose next cluster is to be visited.                            *)
Before(v, first, c) ==
    /\ c \in ChainRecord /\ Taken(v, first, c.count, c.visited) /\ c.visited \subseteq DOMAIN v.fat
    /\ c.cluster = Walk(v, first)[c.count] /\ (c.count = 0 \/ c.cluster \in Clusters(v))

(* A chain whose last cluster has been visited.                            *)
After(v, first, c) ==
    /\ c \in ChainRecord /\ Taken(v, first, c.count, c.visited) /\ c.count > 0
    /\ c.visited \ {c.cluster} \subseteq DOMAIN v.fat
    /\ c.cluster = Walk(v, first)[c.count - 1]

(* The rest of a directory.                                                *)
Rest(v, cur, pos, es) ==
    /\ pos + Len(es) = Len(Contents(v, cur))
    /\ \A k \in 1 .. Len(es) : es[k] = Contents(v, cur)[pos + k]

(* The queue, entry by entry.                                              *)
Queued(v, q, Q) ==
    /\ q \in Seq([first : Nat, depth : Nat]) /\ Len(q) = Len(Q)
    /\ \A k \in 1 .. Len(q) : q[k].first = First(v, Q[k])

(* Between two directories.                                                *)
Between(v, cl, S, cur, pos, W, Q) ==
    Books(v, S, cur, pos, {}, W, Q) /\ Claims(v, W, cl, {}, {}) /\ S \subseteq cl \cup {0}

(* The next cluster of a directory is to be visited.                       *)
Following(v, d, cl, S, cur, pos, home, W, Q) ==
    /\ Books(v, S, cur, pos, {home}, W, Q) /\ home # RootPlace /\ cur = First(v, home)
    /\ Claims(v, W, cl, d.visited, {}) /\ S \subseteq cl \cup {0}
    /\ Before(v, cur, d) /\ d.size = 0
    /\ IF d.count = 0 THEN pos = 0 ELSE cur \notin S /\ pos = Len(Contents(v, cur))

(* The entries of a directory are read; the root is an area, the others    *)
(* are chains.  wv is what a file being followed has taken.                *)
Within(v, d, es, cl, S, cur, pos, home, W, Q, wv) ==
    /\ Books(v, S, cur, pos, {home}, W, Q) /\ cur = First(v, home)
    /\ cur \notin S /\ Rest(v, cur, pos, es)
    /\ d \in ChainRecord /\ d.size = 0
    /\ home = RootPlace => d.cluster = 0
    /\ home # RootPlace => After(v, cur, d)
    /\ Claims(v, W, cl, IF home = RootPlace THEN {} ELSE d.visited, wv) /\ S \subseteq cl \cup {0}

(* The file being followed.                                                *)
InFile(v, es, w) ==
    /\ es # <<>> /\ ~Head(es).dir /\ ~Empty(Head(es)) /\ w.size = Head(es).size
    /\ Before(v, Head(es).first, w)

(* The mount before it counts.                                             *)
Scan(v, p, q, d, w, es, cl, S, cur, pos, home, W, Q) ==
    /\ Queued(v, q, Q)
    /\ p \in {"boot", "scan"} => Between(v, cl, S, cur, pos, W, Q)
    /\ p = "cluster" => Following(v, d, cl, S, cur, pos, home, W, Q)
    /\ p \in {"entry", "dirlink"} => Within(v, d, es, cl, S, cur, pos, home, W, Q, {})
    /\ p = "dirlink" => es = <<>> /\ home # RootPlace
    /\ p = "file" => Within(v, d, es, cl, S, cur, pos, home, W, Q, w.visited) /\ InFile(v, es, w)

(* Every chain is claimed, and is as it should be.                         *)
AllClaimed(v, cl) ==
    /\ cl = Owned(v) /\ ~CrossLinked(v)
    /\ \A p \in Owners(v) : Ends(v, At(v, p).first) /\ ~Short(v, At(v, p))

(* countFreeClustersLocked before cluster k.                               *)
Counted(v, k, n) ==
    /\ k \in 2 .. (v.count + 2)
    /\ \A c \in 2 .. (k - 1) : DecodeClusterLink(v, Value(v, c)) # "wild"
    /\ n = Cardinality({c \in 2 .. (k - 1) : Value(v, c) = 0})

(* The directories that are found when those in D are read as well.        *)
Wider(v, D) == D \cup UNION {Subdirectories(Contents(v, d)) : d \in D}

(* The first n layers of the directory tree.                               *)
LayersTo(n, g, v) ==
    g = [k \in 0..n |-> IF k = 0 THEN {0} ELSE Wider(v, g[k - 1])]

(* The layers of the directory tree exist for every depth.                 *)
LEMMA LayersExist ==
    ASSUME NEW v
    PROVE  \A n \in Nat : \E g : LayersTo(n, g, v)
  <1> DEFINE S == {n \in Nat : \E g : LayersTo(n, g, v)}
  <1>1. 0 \in S
    <2> DEFINE g == [k \in 0..0 |-> {0}]
    <2>1. LayersTo(0, g, v)
      BY DEF LayersTo
    <2> HIDE DEF g
    <2> QED BY <2>1
  <1>2. ASSUME NEW n \in Nat, n \in S
        PROVE  n + 1 \in S
    <2>1. PICK g : LayersTo(n, g, v)
      BY <1>2
    <2> DEFINE h == [k \in 0..(n + 1) |-> IF k = n + 1 THEN Wider(v, g[n]) ELSE g[k]]
    <2>2. \A k \in 0..n : h[k] = g[k]
      OBVIOUS
    <2>3. h[n + 1] = Wider(v, h[n])
      OBVIOUS
    <2>4. ASSUME NEW k \in 0..(n + 1)
          PROVE  h[k] = IF k = 0 THEN {0} ELSE Wider(v, h[k - 1])
      <3>1. CASE k = n + 1
        <4>1. k # 0 /\ k - 1 = n
          BY <3>1
        <4> HIDE DEF h
        <4> QED BY <2>3, <3>1, <4>1
      <3>2. CASE k # n + 1
        <4>1. k \in 0..n /\ (k # 0 => k - 1 \in 0..n)
          BY <3>2
        <4>2. g[k] = IF k = 0 THEN {0} ELSE Wider(v, g[k - 1])
          BY <2>1, <4>1 DEF LayersTo
        <4> HIDE DEF h
        <4> QED BY <2>2, <4>1, <4>2
      <3> QED BY <3>1, <3>2
    <2>5. h = [k \in 0..(n + 1) |-> h[k]]
      OBVIOUS
    <2> HIDE DEF h
    <2>6. LayersTo(n + 1, h, v)
      BY <2>4, <2>5 DEF LayersTo
    <2> QED BY <2>6
  <1> HIDE DEF S
  <1>3. \A n \in Nat : n \in S
    BY <1>1, <1>2, SetInduction
  <1> QED BY <1>3 DEF S

(* The layers of the reference.                                            *)
LEMMA LayerEquation ==
    ASSUME NEW v, IsVolume(v)
    PROVE  \E F : /\ Directories(v) = F[Cardinality(DOMAIN v.dirs) + 1] /\ F[0] = {0}
                  /\ \A k \in Nat : k <= Cardinality(DOMAIN v.dirs) => F[k + 1] = Wider(v, F[k])
  <1> DEFINE n == Cardinality(DOMAIN v.dirs) + 1
             F == CHOOSE g : LayersTo(n, g, v)
  <1>1. IsFiniteSet(DOMAIN v.dirs)
    BY Zenon DEF IsVolume
  <1>2. Cardinality(DOMAIN v.dirs) \in Nat /\ n \in Nat
    BY <1>1, FS_CardinalityType
  <1>3. Directories(v) = F[n]
    BY DEF Directories, LayersTo, Wider
  <1>4. LayersTo(n, F, v)
    <2> HIDE DEF n
    <2>1. \E g : LayersTo(n, g, v)
      BY <1>2, LayersExist
    <2> QED BY <2>1
  <1> HIDE DEF F
  <1>5. F[0] = {0}
    BY <1>2, <1>4 DEF LayersTo
  <1>6. ASSUME NEW k \in Nat, k <= Cardinality(DOMAIN v.dirs)
        PROVE  F[k + 1] = Wider(v, F[k])
    <2>1. k + 1 \in 0..n /\ k + 1 # 0 /\ (k + 1) - 1 = k
      BY <1>2, <1>6
    <2> QED BY <1>4, <2>1 DEF LayersTo
  <1> QED BY <1>3, <1>5, <1>6

(* The directories that can be reached are closed: each layer that is not  *)
(* has one directory more than the one before.                             *)
LEMMA DirectoriesClosed ==
    ASSUME NEW v, IsVolume(v)
    PROVE  Wider(v, Directories(v)) \subseteq Directories(v)
  <1> DEFINE D == DOMAIN v.dirs
             N1 == Cardinality(D)
  <1>1. PICK F : /\ Directories(v) = F[N1 + 1] /\ F[0] = {0}
                 /\ \A k \in Nat : k <= N1 => F[k + 1] = Wider(v, F[k])
    BY LayerEquation
  <1>2. IsFiniteSet(D)
    BY Zenon DEF IsVolume
  <1>3. N1 \in Nat
    BY <1>2, FS_CardinalityType
  <1>4. \A X : /\ IsFiniteSet(X \cap D) /\ Cardinality(X \cap D) \in Nat
               /\ Cardinality(X \cap D) <= N1
    <2> SUFFICES ASSUME NEW X
                 PROVE  /\ IsFiniteSet(X \cap D) /\ Cardinality(X \cap D) \in Nat
                        /\ Cardinality(X \cap D) <= N1
      OBVIOUS
    <2> DEFINE Y == X \cap D
    <2>1. Y \subseteq D
      OBVIOUS
    <2> HIDE DEF Y, D
    <2>2. IsFiniteSet(Y) /\ Cardinality(Y) <= Cardinality(D)
      BY <1>2, <2>1, FS_Subset
    <2>3. Cardinality(Y) \in Nat
      BY <2>2, FS_CardinalityType
    <2> QED BY <2>2, <2>3 DEF Y
  <1> DEFINE Closed(X) == Wider(v, X) \subseteq X
             T == {k \in Nat : k <= N1 + 1 => /\ 0 \in F[k]
                                              /\ Closed(F[k]) \/ Cardinality(F[k] \cap D) >= k}
  <1> HIDE DEF D
  <1>5. 0 \in T
    BY <1>1, <1>3, <1>4
  <1>6. ASSUME NEW k \in Nat, k \in T
        PROVE  k + 1 \in T
    <2> SUFFICES ASSUME k + 1 <= N1 + 1
                 PROVE  /\ 0 \in F[k + 1]
                        /\ Closed(F[k + 1]) \/ Cardinality(F[k + 1] \cap D) >= k + 1
      OBVIOUS
    <2>1. /\ k <= N1 /\ F[k + 1] = Wider(v, F[k]) /\ 0 \in F[k]
          /\ Closed(F[k]) \/ Cardinality(F[k] \cap D) >= k
      BY <1>1, <1>3, <1>6
    <2>2. F[k] \subseteq F[k + 1] /\ 0 \in F[k + 1]
      BY <2>1 DEF Wider
    <2>3. CASE Closed(F[k])
      <3>1. F[k + 1] = F[k]
        BY <2>1, <2>2, <2>3
      <3> QED BY <2>2, <2>3, <3>1
    <2>4. CASE Cardinality(F[k] \cap D) >= k /\ ~Closed(F[k + 1])
      <3>1. PICK d \in F[k + 1] : ~(Subdirectories(Contents(v, d)) \subseteq F[k + 1])
        BY <2>4 DEF Wider
      <3>2. d \notin F[k]
        BY <2>1, <3>1 DEF Wider
      <3>3. d \in D
        <4>1. Contents(v, d) # <<>>
          BY <3>1 DEF Subdirectories
        <4>2. d # 0
          BY <2>1, <3>2
        <4> QED BY <4>1, <4>2 DEF Contents, D
      <3> DEFINE A == F[k] \cap D
                 B == F[k + 1] \cap D
      <3>4. A \cup {d} \subseteq B /\ d \notin A
        BY <2>2, <3>1, <3>2, <3>3
      <3>5. IsFiniteSet(A) /\ IsFiniteSet(B) /\ Cardinality(A) \in Nat /\ Cardinality(B) \in Nat
            /\ Cardinality(A) >= k
        BY <1>4, <2>4
      <3> HIDE DEF A, B
      <3>6. Cardinality(A \cup {d}) = Cardinality(A) + 1
        BY <3>4, <3>5, FS_AddElement
      <3>7. Cardinality(A \cup {d}) <= Cardinality(B)
        BY <3>4, <3>5, FS_Subset
      <3>8. Cardinality(B) >= k + 1
        BY <3>5, <3>6, <3>7
      <3> QED BY <2>2, <3>8 DEF B
    <2> QED BY <2>1, <2>2, <2>3, <2>4
  <1>7. \A k \in Nat : k \in T
    <2> HIDE DEF T
    <2> QED BY <1>5, <1>6, SetInduction
  <1>8. Closed(F[N1 + 1]) \/ Cardinality(F[N1 + 1] \cap D) >= N1 + 1
    BY <1>3, <1>7
  <1>9. Closed(F[N1 + 1])
    BY <1>3, <1>4, <1>8
  <1> QED BY <1>1, <1>9

(* They are the least such set that has the root directory.                *)
LEMMA DirectoriesLeast ==
    ASSUME NEW v, IsVolume(v), NEW S, 0 \in S, Wider(v, S) \subseteq S
    PROVE  Directories(v) \subseteq S
  <1> DEFINE N1 == Cardinality(DOMAIN v.dirs)
  <1>1. PICK F : /\ Directories(v) = F[N1 + 1] /\ F[0] = {0}
                 /\ \A k \in Nat : k <= N1 => F[k + 1] = Wider(v, F[k])
    BY LayerEquation
  <1>2. IsFiniteSet(DOMAIN v.dirs)
    BY Zenon DEF IsVolume
  <1>3. N1 \in Nat
    BY <1>2, FS_CardinalityType
  <1> DEFINE T == {k \in Nat : k <= N1 + 1 => F[k] \subseteq S}
  <1> HIDE DEF N1
  <1>4. 0 \in T
    BY <1>1
  <1>5. ASSUME NEW k \in Nat, k \in T
        PROVE  k + 1 \in T
    <2> SUFFICES ASSUME k + 1 <= N1 + 1
                 PROVE  F[k + 1] \subseteq S
      OBVIOUS
    <2>1. F[k + 1] = Wider(v, F[k]) /\ F[k] \subseteq S
      BY <1>1, <1>3, <1>5
    <2> QED BY <2>1 DEF Wider
  <1>6. \A k \in Nat : k \in T
    <2> HIDE DEF T
    <2> QED BY <1>4, <1>5, SetInduction
  <1> QED BY <1>1, <1>3, <1>6

(* The root directory can be reached.                                      *)
LEMMA RootReached ==
    ASSUME NEW v, IsVolume(v)
    PROVE  0 \in Directories(v)
  <1> DEFINE N1 == Cardinality(DOMAIN v.dirs)
  <1>1. PICK F : /\ Directories(v) = F[N1 + 1] /\ F[0] = {0}
                 /\ \A k \in Nat : k <= N1 => F[k + 1] = Wider(v, F[k])
    BY LayerEquation
  <1>2. IsFiniteSet(DOMAIN v.dirs)
    BY Zenon DEF IsVolume
  <1>3. N1 \in Nat
    BY <1>2, FS_CardinalityType
  <1> DEFINE T == {k \in Nat : k <= N1 + 1 => 0 \in F[k]}
  <1> HIDE DEF N1
  <1>4. 0 \in T
    BY <1>1
  <1>5. ASSUME NEW k \in Nat, k \in T
        PROVE  k + 1 \in T
    <2> SUFFICES ASSUME k + 1 <= N1 + 1
                 PROVE  0 \in F[k + 1]
      OBVIOUS
    <2>1. F[k + 1] = Wider(v, F[k]) /\ 0 \in F[k]
      BY <1>1, <1>3, <1>5
    <2> QED BY <2>1 DEF Wider
  <1>6. \A k \in Nat : k \in T
    <2> HIDE DEF T
    <2> QED BY <1>4, <1>5, SetInduction
  <1> QED BY <1>1, <1>3, <1>6

-----------------------------------------------------------------------------
(* Chains that are followed                                                *)

(* A walk has a value for every step.                                      *)
LEMMA WalkDomain ==
    ASSUME NEW v, IsVolume(v), NEW first
    PROVE  DOMAIN Walk(v, first) = 0 .. Steps(v)
  <1> DEFINE n == Cardinality(DOMAIN v.fat) + 1
             w == Walk(v, first)
  <1>1. n \in Nat /\ n = Steps(v)
    BY VolumeFacts DEF Steps
  <1>2. w = CHOOSE g : WalkTo(n, g, v, first)
    BY DEF Walk, WalkTo, LinkOn
  <1> HIDE DEF w, n
  <1>3. \E g : WalkTo(n, g, v, first)
    BY <1>1, WalksExist
  <1>4. WalkTo(n, w, v, first)
    BY <1>2, <1>3
  <1>5. DOMAIN w = 0..n
    BY <1>4 DEF WalkTo
  <1> QED BY <1>1, <1>5 DEF w

(* The clusters of a chain are those that the walk meets.                  *)
LEMMA CellsAre ==
    ASSUME NEW v, IsVolume(v), NEW first
    PROVE  /\ Cells(v, first) = {Walk(v, first)[k] : k \in 0 .. Steps(v)} \cap Clusters(v)
           /\ Last(v, first) = Walk(v, first)[Steps(v)]
  <1>1. DOMAIN Walk(v, first) = 0 .. Steps(v)
    BY WalkDomain
  <1>2. Cells(v, first) = {Walk(v, first)[k] : k \in DOMAIN Walk(v, first)} \cap Clusters(v)
    BY DEF Cells
  <1>3. Last(v, first) = Walk(v, first)[Steps(v)]
    BY DEF Last, Steps
  <1> HIDE DEF Walk, Clusters, Steps
  <1> QED BY <1>1, <1>2, <1>3

(* What is taken of a chain is finite, no more than the FAT's entries and  *)
(* part of the chain.                                                      *)
LEMMA TakenFacts ==
    ASSUME NEW v, IsVolume(v), NEW first, NEW n \in Nat, NEW V, Taken(v, first, n, V)
    PROVE  /\ V \subseteq Clusters(v) /\ V \subseteq Cells(v, first) /\ IsFiniteSet(V)
           /\ Cardinality(V) = n /\ ChainTo(v, first, n)
           /\ V = {Walk(v, first)[k] : k \in 0 .. n - 1}
           /\ V \subseteq DOMAIN v.fat => n + 1 <= Steps(v)
           /\ n > 0 /\ V \ {Walk(v, first)[n - 1]} \subseteq DOMAIN v.fat => n <= Steps(v)
  <1>1. /\ ChainTo(v, first, n) /\ V = {Walk(v, first)[k] : k \in 0 .. n - 1}
        /\ Cardinality(V) = n
    BY Zenon DEF Taken
  <1>2. /\ v.count \in Nat /\ IsFiniteSet(DOMAIN v.fat) /\ Cardinality(DOMAIN v.fat) \in Nat
        /\ Steps(v) \in Nat /\ Steps(v) = Cardinality(DOMAIN v.fat) + 1
    BY VolumeFacts DEF Steps
  <1>3. IsFiniteSet(Clusters(v))
    <2>1. 2 \in Int /\ v.count + 1 \in Int
      BY <1>2
    <2>2. IsFiniteSet(2 .. (v.count + 1))
      BY <2>1, FS_Interval, Zenon
    <2> QED BY <2>2 DEF Clusters
  <1> HIDE DEF Clusters, Walk, Steps
  <1>4. V \subseteq Clusters(v)
    BY <1>1 DEF ChainTo
  <1>5. V \subseteq {Walk(v, first)[k] : k \in 0 .. Steps(v)}
    <2>1. \A k \in 0 .. n - 1 : k \in 0 .. Steps(v)
      BY <1>1, <1>2 DEF ChainTo
    <2> QED BY <1>1, <2>1
  <1>6. V \subseteq Cells(v, first)
    BY <1>4, <1>5, CellsAre
  <1>7. IsFiniteSet(V)
    BY <1>3, <1>4, FS_Subset
  <1>8. ASSUME V \subseteq DOMAIN v.fat
        PROVE  n + 1 <= Steps(v)
    <2>1. Cardinality(V) <= Cardinality(DOMAIN v.fat)
      BY <1>2, <1>8, FS_Subset
    <2> QED BY <1>1, <1>2, <2>1
  <1>9. ASSUME n > 0, V \ {Walk(v, first)[n - 1]} \subseteq DOMAIN v.fat
        PROVE  n <= Steps(v)
    <2> DEFINE c == Walk(v, first)[n - 1]
               U == V \ {c}
    <2>1. c \in V
      BY <1>1, <1>9
    <2>2. U \subseteq DOMAIN v.fat
      BY <1>9
    <2> HIDE DEF c
    <2>3. IsFiniteSet(U) /\ Cardinality(U) = Cardinality(V) - 1
      BY <1>7, <2>1, FS_RemoveElement
    <2> HIDE DEF U
    <2>4. Cardinality(U) <= Cardinality(DOMAIN v.fat)
      BY <1>2, <2>2, FS_Subset
    <2> QED BY <1>1, <1>2, <2>3, <2>4
  <1> QED BY <1>1, <1>4, <1>6, <1>7, <1>8, <1>9

(* One cluster more is taken.                                              *)
LEMMA TakeOne ==
    ASSUME NEW v, IsVolume(v), NEW first, NEW n \in Nat, NEW V, Taken(v, first, n, V),
           V \subseteq DOMAIN v.fat,
           Walk(v, first)[n] \in Clusters(v), Walk(v, first)[n] \notin V
    PROVE  Taken(v, first, n + 1, V \cup {Walk(v, first)[n]})
  <1>1. /\ IsFiniteSet(V) /\ Cardinality(V) = n /\ ChainTo(v, first, n) /\ n + 1 <= Steps(v)
        /\ V = {Walk(v, first)[k] : k \in 0 .. n - 1}
    BY TakenFacts
  <1>2. Steps(v) \in Nat
    BY VolumeFacts
  <1> HIDE DEF Clusters, Walk, Steps, ChainTo
  <1>3. ChainTo(v, first, n + 1)
    <2>1. n <= Steps(v)
      BY <1>1, <1>2
    <2> QED BY <1>1, <2>1, ChainLonger
  <1>4. V \cup {Walk(v, first)[n]} = {Walk(v, first)[k] : k \in 0 .. (n + 1) - 1}
    <2>1. \A k \in 0 .. (n + 1) - 1 : k = n \/ k \in 0 .. n - 1
      OBVIOUS
    <2>2. n \in 0 .. (n + 1) - 1 /\ \A k \in 0 .. n - 1 : k \in 0 .. (n + 1) - 1
      OBVIOUS
    <2> QED BY <1>1, <2>1, <2>2
  <1>5. Cardinality(V \cup {Walk(v, first)[n]}) = n + 1
    BY <1>1, FS_AddElement
  <1>6. n + 1 \in Nat
    OBVIOUS
  <1> QED BY <1>3, <1>4, <1>5, <1>6, Zenon DEF Taken

(* The link of the last cluster that was taken leads on.                   *)
LEMMA LinkNext ==
    ASSUME NEW v, IsVolume(v), NEW first, NEW n \in Nat, NEW V, Taken(v, first, n, V), n > 0,
           NEW c, c = Walk(v, first)[n - 1], V \ {c} \subseteq DOMAIN v.fat
    PROVE  /\ Walk(v, first)[n] = Value(v, c) /\ n <= Steps(v) /\ c \in V
           /\ Value(v, c) \in Clusters(v) => V \subseteq DOMAIN v.fat
  <1>1. n <= Steps(v) /\ V \subseteq Clusters(v) /\ V = {Walk(v, first)[k] : k \in 0 .. n - 1}
    <2>1. V \ {Walk(v, first)[n - 1]} \subseteq DOMAIN v.fat
      OBVIOUS
    <2>2. V \subseteq Clusters(v)
      BY TakenFacts
    <2>3. V = {Walk(v, first)[k] : k \in 0 .. n - 1}
      BY Zenon DEF Taken
    <2>4. n <= Steps(v)
      BY <2>1, TakenFacts
    <2> QED BY <2>2, <2>3, <2>4
  <1>2. c \in V
    BY <1>1
  <1>3. Walk(v, first)[n] = LinkOn(v, c)
    <2>1. n - 1 \in Nat /\ (n - 1) + 1 = n
      OBVIOUS
    <2> HIDE DEF Walk, Steps
    <2> QED BY <1>1, <2>1, WalkEquation
  <1>4. Walk(v, first)[n] = Value(v, c)
    BY <1>1, <1>2, <1>3 DEF LinkOn
  <1>5. Value(v, c) \in Clusters(v) => c \in DOMAIN v.fat
    <2>1. Value(v, c) \in Clusters(v) => Value(v, c) # 0
      BY VolumeFacts
    <2> QED BY <2>1, VolumeFacts
  <1> QED BY <1>1, <1>2, <1>4, <1>5

(* A chain ends with the first value that is no cluster.                   *)
LEMMA ChainStops ==
    ASSUME NEW v, IsVolume(v), NEW first, NEW n \in Nat, NEW V, Taken(v, first, n, V), n > 0,
           NEW c, c = Walk(v, first)[n - 1], V \ {c} \subseteq DOMAIN v.fat,
           Value(v, c) \notin Clusters(v)
    PROVE  Last(v, first) = Value(v, c) /\ Cells(v, first) = V /\ first \in Clusters(v)
  <1> DEFINE w == Walk(v, first)
             T == {k \in Nat : n + k <= Steps(v) => w[n + k] = Value(v, c)}
  <1>1. w[n] = Value(v, c) /\ n <= Steps(v)
    BY LinkNext
  <1>2. /\ V \subseteq Clusters(v) /\ V \subseteq Cells(v, first)
        /\ V = {w[k] : k \in 0 .. n - 1}
    <2>1. V \subseteq Clusters(v) /\ V \subseteq Cells(v, first)
      BY TakenFacts
    <2>2. V = {w[k] : k \in 0 .. n - 1}
      BY Zenon DEF Taken, w
    <2> QED BY <2>1, <2>2
  <1>3. Steps(v) \in Nat
    BY VolumeFacts
  <1>4. w[0] = first /\ \A k \in Nat : k + 1 <= Steps(v) => w[k + 1] = LinkOn(v, w[k])
    BY WalkEquation
  <1>5. Cells(v, first) = {w[k] : k \in 0 .. Steps(v)} \cap Clusters(v) /\ Last(v, first) = w[Steps(v)]
    BY CellsAre
  <1> HIDE DEF w, Clusters, Steps
  <1>6. 0 \in T
    BY <1>1
  <1>7. ASSUME NEW k \in Nat, k \in T
        PROVE  k + 1 \in T
    <2> SUFFICES ASSUME n + (k + 1) <= Steps(v)
                 PROVE  w[n + (k + 1)] = Value(v, c)
      OBVIOUS
    <2>1. w[n + k] = Value(v, c)
      BY <1>3, <1>7
    <2>2. n + k \in Nat /\ (n + k) + 1 = n + (k + 1)
      OBVIOUS
    <2>3. w[(n + k) + 1] = LinkOn(v, w[n + k])
      BY <1>4, <2>2
    <2> QED BY <2>1, <2>2, <2>3 DEF LinkOn
  <1>8. \A k \in Nat : k \in T
    <2> HIDE DEF T
    <2> QED BY <1>6, <1>7, SetInduction
  <1>9. \A k \in n .. Steps(v) : w[k] = Value(v, c)
    <2> SUFFICES ASSUME NEW k \in n .. Steps(v)
                 PROVE  w[k] = Value(v, c)
      OBVIOUS
    <2>1. k - n \in Nat /\ n + (k - n) = k /\ k <= Steps(v)
      BY <1>3
    <2>2. k - n \in T
      BY <1>8, <2>1
    <2> QED BY <2>1, <2>2
  <1>10. Last(v, first) = Value(v, c)
    BY <1>1, <1>3, <1>5, <1>9
  <1>11. Cells(v, first) \subseteq V
    <2> SUFFICES ASSUME NEW k \in 0 .. Steps(v), w[k] \in Clusters(v)
                 PROVE  w[k] \in V
      BY <1>5
    <2>1. k \in 0 .. n - 1
      BY <1>3, <1>9
    <2> QED BY <1>2, <2>1
  <1>12. first \in Clusters(v)
    <2>1. w[0] \in V
      BY <1>2
    <2> QED BY <1>2, <1>4, <2>1
  <1> QED BY <1>2, <1>10, <1>11, <1>12

(* A chain that comes back to what it has taken never ends.                *)
LEMMA ChainLoops ==
    ASSUME NEW v, IsVolume(v), NEW first, NEW n \in Nat, NEW V, Taken(v, first, n, V),
           V \subseteq DOMAIN v.fat, Walk(v, first)[n] \in V
    PROVE  Loops(v, first)
  <1> DEFINE w == Walk(v, first)
             T == {k \in Nat : k <= Steps(v) => w[k] \in V}
  <1>1. /\ V \subseteq Clusters(v) /\ n + 1 <= Steps(v)
        /\ V = {w[k] : k \in 0 .. n - 1}
    <2>1. V \subseteq Clusters(v) /\ n + 1 <= Steps(v)
      BY TakenFacts
    <2>2. V = {w[k] : k \in 0 .. n - 1}
      BY Zenon DEF Taken, w
    <2> QED BY <2>1, <2>2
  <1>2. Steps(v) \in Nat
    BY VolumeFacts
  <1>3. w[0] = first /\ \A k \in Nat : k + 1 <= Steps(v) => w[k + 1] = LinkOn(v, w[k])
    BY WalkEquation
  <1>4. Last(v, first) = w[Steps(v)]
    BY CellsAre
  <1>5. w[n] \in V
    OBVIOUS
  <1> HIDE DEF w, Clusters, Steps
  <1>6. 0 \in T
    BY <1>1, <1>5
  <1>7. ASSUME NEW k \in Nat, k \in T
        PROVE  k + 1 \in T
    <2> SUFFICES ASSUME k + 1 <= Steps(v)
                 PROVE  w[k + 1] \in V
      OBVIOUS
    <2>1. w[k] \in V /\ w[k + 1] = LinkOn(v, w[k])
      BY <1>2, <1>3, <1>7
    <2>2. PICK j \in 0 .. n - 1 : w[k] = w[j]
      BY <1>1, <2>1
    <2>3. w[j + 1] = LinkOn(v, w[j])
      BY <1>1, <1>2, <1>3
    <2>4. w[j + 1] \in V
      <3>1. j + 1 = n \/ j + 1 \in 0 .. n - 1
        OBVIOUS
      <3> QED BY <1>1, <1>5, <3>1
    <2> QED BY <2>1, <2>2, <2>3, <2>4
  <1>8. \A k \in Nat : k \in T
    <2> HIDE DEF T
    <2> QED BY <1>6, <1>7, SetInduction
  <1>9. w[Steps(v)] \in V
    BY <1>2, <1>8
  <1> QED BY <1>1, <1>4, <1>9 DEF Loops

(* A chain as long as the volume that still goes on never ends.            *)
LEMMA ChainFills ==
    ASSUME NEW v, IsVolume(v), NEW first, NEW n \in Nat, NEW V, Taken(v, first, n, V), n > 0,
           NEW c, c = Walk(v, first)[n - 1], V \ {c} \subseteq DOMAIN v.fat,
           Value(v, c) \in Clusters(v), n = v.count
    PROVE  Loops(v, first)
  <1>1. V \subseteq DOMAIN v.fat /\ Walk(v, first)[n] = Value(v, c)
    BY LinkNext
  <1>2. V \subseteq Clusters(v) /\ Cardinality(V) = n
    BY TakenFacts
  <1>3. IsFiniteSet(Clusters(v)) /\ Cardinality(Clusters(v)) = v.count
    <2>1. v.count \in Nat
      BY VolumeFacts
    <2>2. 2 \in Int /\ v.count + 1 \in Int
      BY <2>1
    <2>3. IsFiniteSet(2 .. (v.count + 1))
          /\ Cardinality(2 .. (v.count + 1)) = IF 2 > v.count + 1 THEN 0 ELSE (v.count + 1) - 2 + 1
      BY <2>2, FS_Interval, Zenon
    <2>4. Cardinality(2 .. (v.count + 1)) = v.count
      BY <2>1, <2>3
    <2> QED BY <2>3, <2>4 DEF Clusters
  <1>4. V = Clusters(v)
    <2> HIDE DEF Clusters
    <2> QED BY <1>2, <1>3, FS_Subset
  <1>5. Walk(v, first)[n] \in V
    BY <1>1, <1>4
  <1> QED BY <1>1, <1>5, ChainLoops

(* A cluster that the walk has come to belongs to the chain.               *)
LEMMA Meets ==
    ASSUME NEW v, IsVolume(v), NEW first, NEW n \in Nat, NEW V, Taken(v, first, n, V),
           V \subseteq DOMAIN v.fat, Walk(v, first)[n] \in Clusters(v)
    PROVE  Walk(v, first)[n] \in Cells(v, first)
  <1>1. n + 1 <= Steps(v) /\ Steps(v) \in Nat
    <2>1. n + 1 <= Steps(v)
      BY TakenFacts
    <2> QED BY <2>1, VolumeFacts
  <1>2. Cells(v, first) = {Walk(v, first)[k] : k \in 0 .. Steps(v)} \cap Clusters(v)
    BY CellsAre
  <1>3. n \in 0 .. Steps(v)
    BY <1>1
  <1> HIDE DEF Walk, Clusters, Steps
  <1> QED BY <1>2, <1>3

-----------------------------------------------------------------------------
(* Places of entries                                                       *)

(* An entry of a directory that can be reached.                            *)
LEMMA PlaceOf ==
    ASSUME NEW v, IsVolume(v), NEW d \in Directories(v), NEW i \in 1 .. Len(Contents(v, d))
    PROVE  /\ <<d, i>> \in Places(v) /\ <<d, i>>[1] = d /\ <<d, i>>[2] = i
           /\ At(v, <<d, i>>) = Contents(v, d)[i]
  <1>1. Contents(v, d) \in Seq(DirectoryEntry)
    BY ContentsType
  <1> HIDE DEF Contents, DirectoryEntry, Directories
  <1>2. i \in DOMAIN Contents(v, d)
    BY <1>1
  <1> QED BY <1>2 DEF Places, At

(* What is known of a place.                                               *)
LEMMA PlaceFacts ==
    ASSUME NEW v, IsVolume(v), NEW p \in Places(v)
    PROVE  /\ p = <<p[1], p[2]>> /\ p[1] \in Directories(v)
           /\ p[2] \in 1 .. Len(Contents(v, p[1])) /\ p[2] \in Nat /\ p[2] > 0
           /\ Len(Contents(v, p[1])) \in Nat /\ p # RootPlace
           /\ At(v, p) \in DirectoryEntry
           /\ At(v, p).dir => At(v, p).first \in Directories(v)
  <1> HIDE DEF Contents, DirectoryEntry, Directories
  <1>0. PICK d \in Directories(v) : \E i \in DOMAIN Contents(v, d) : p = <<d, i>>
    BY DEF Places
  <1>1. PICK i \in DOMAIN Contents(v, d) : p = <<d, i>>
    BY <1>0
  <1>2. p[1] = d /\ p[2] = i
    BY <1>1
  <1>3. Contents(v, d) \in Seq(DirectoryEntry)
    BY ContentsType
  <1>4. i \in 1 .. Len(Contents(v, d)) /\ Len(Contents(v, d)) \in Nat /\ i \in Nat /\ i > 0
    BY <1>1, <1>3
  <1>5. p # RootPlace
    BY <1>2, <1>4 DEF RootPlace
  <1>6. At(v, p) = Contents(v, d)[i]
    BY <1>2 DEF At
  <1>7. At(v, p) \in DirectoryEntry
    BY <1>1, <1>3, <1>6
  <1>8. At(v, p).dir => At(v, p).first \in Directories(v)
    <2>1. At(v, p).dir => At(v, p).first \in Subdirectories(Contents(v, d))
      BY <1>1, <1>6 DEF Subdirectories
    <2>2. Subdirectories(Contents(v, d)) \subseteq Wider(v, Directories(v))
      BY <1>1 DEF Wider
    <2> QED BY <2>1, <2>2, DirectoriesClosed
  <1> QED BY <1>1, <1>2, <1>4, <1>5, <1>7, <1>8

(* The first cluster of a staged directory is one that can be reached.     *)
LEMMA HomeReached ==
    ASSUME NEW v, IsVolume(v), NEW home \in Staged(v) \cup {RootPlace}
    PROVE  /\ First(v, home) \in Directories(v)
           /\ home # RootPlace => /\ home \in Owners(v) /\ First(v, home) = At(v, home).first
                                  /\ home \in Places(v) /\ First(v, home) \in Nat
                                  /\ First(v, home) >= 2 /\ At(v, home).dir
           /\ home = RootPlace => First(v, home) = 0
  <1>1. CASE home = RootPlace
    BY <1>1, RootReached DEF First
  <1>2. CASE home # RootPlace
    <2>1. home \in Owners(v) /\ At(v, home).dir /\ At(v, home).first >= 2 /\ home \in Places(v)
      BY <1>2 DEF Staged, Owners
    <2>2. At(v, home).first \in Directories(v) /\ At(v, home) \in DirectoryEntry
      BY <2>1, PlaceFacts
    <2>3. At(v, home).first \in Nat
      BY <2>2 DEF DirectoryEntry
    <2> QED BY <1>2, <2>1, <2>2, <2>3 DEF First
  <1> QED BY <1>1, <1>2

(* The first of a list without repetitions, and the rest.                  *)
LEMMA ListingTail ==
    ASSUME NEW X, NEW Q \in Seq(X), Q # <<>>, \A j, k \in DOMAIN Q : Q[j] = Q[k] => j = k
    PROVE  /\ Listing(Q) = {Head(Q)} \cup Listing(Tail(Q)) /\ Head(Q) \notin Listing(Tail(Q))
           /\ Tail(Q) \in Seq(X) /\ Head(Q) \in X
           /\ \A j, k \in DOMAIN Tail(Q) : Tail(Q)[j] = Tail(Q)[k] => j = k
           /\ Len(Q) = 1 => Listing(Tail(Q)) = {}
  <1> DEFINE R == Tail(Q)
  <1>1. /\ R \in Seq(X) /\ Head(Q) = Q[1] /\ Head(Q) \in X /\ Len(Q) \in Nat /\ Len(Q) > 0
        /\ DOMAIN Q = 1 .. Len(Q) /\ DOMAIN R = 1 .. Len(Q) - 1
        /\ \A k \in 1 .. Len(Q) - 1 : R[k] = Q[k + 1]
    OBVIOUS
  <1> HIDE DEF R
  <1>2. Listing(Q) = {Head(Q)} \cup Listing(R)
    <2>1. ASSUME NEW k \in DOMAIN Q
          PROVE  Q[k] \in {Head(Q)} \cup Listing(R)
      <3>1. CASE k = 1
        BY <1>1, <3>1
      <3>2. CASE k # 1
        <4>1. k - 1 \in 1 .. Len(Q) - 1 /\ (k - 1) + 1 = k
          BY <1>1, <3>2
        <4>2. R[k - 1] = Q[k]
          BY <1>1, <4>1
        <4> QED BY <1>1, <4>1, <4>2 DEF Listing
      <3> QED BY <3>1, <3>2
    <2>2. Head(Q) \in Listing(Q)
      <3>1. 1 \in DOMAIN Q
        BY <1>1
      <3> QED BY <1>1, <3>1 DEF Listing
    <2>3. ASSUME NEW k \in DOMAIN R
          PROVE  R[k] \in Listing(Q)
      <3>1. k + 1 \in DOMAIN Q /\ R[k] = Q[k + 1]
        BY <1>1
      <3> QED BY <3>1 DEF Listing
    <2> QED BY <2>1, <2>2, <2>3 DEF Listing
  <1>3. Head(Q) \notin Listing(R)
    <2> SUFFICES ASSUME NEW k \in DOMAIN R, R[k] = Q[1]
                 PROVE  FALSE
      BY <1>1 DEF Listing
    <2>1. k + 1 \in DOMAIN Q /\ 1 \in DOMAIN Q /\ Q[k + 1] = Q[1] /\ k + 1 # 1
      BY <1>1
    <2> QED BY <2>1
  <1>4. ASSUME NEW j \in DOMAIN R, NEW k \in DOMAIN R, R[j] = R[k]
        PROVE  j = k
    <2>1. j + 1 \in DOMAIN Q /\ k + 1 \in DOMAIN Q /\ Q[j + 1] = Q[k + 1] /\ j \in Int /\ k \in Int
      BY <1>1, <1>4
    <2>2. j + 1 = k + 1
      BY <2>1
    <2> QED BY <2>1, <2>2
  <1>5. Len(Q) = 1 => Listing(R) = {}
    BY <1>1 DEF Listing
  <1>6. R \in Seq(X) /\ Head(Q) \in X
    BY <1>1
  <1> QED BY <1>2, <1>3, <1>4, <1>5, <1>6 DEF R

(* One more in a list without repetitions.                                 *)
LEMMA ListingAppend ==
    ASSUME NEW X, NEW Q \in Seq(X), NEW x \in X, \A j, k \in DOMAIN Q : Q[j] = Q[k] => j = k,
           x \notin Listing(Q)
    PROVE  /\ Listing(Append(Q, x)) = Listing(Q) \cup {x} /\ Append(Q, x) \in Seq(X)
           /\ \A j, k \in DOMAIN Append(Q, x) : Append(Q, x)[j] = Append(Q, x)[k] => j = k
  <1> DEFINE R == Append(Q, x)
  <1>1. /\ R \in Seq(X) /\ Len(Q) \in Nat /\ DOMAIN Q = 1 .. Len(Q)
        /\ DOMAIN R = 1 .. Len(Q) + 1 /\ R[Len(Q) + 1] = x
        /\ \A k \in 1 .. Len(Q) : R[k] = Q[k]
    OBVIOUS
  <1> HIDE DEF R
  <1>2. \A k \in DOMAIN R : k = Len(Q) + 1 \/ k \in DOMAIN Q
    BY <1>1
  <1>3. /\ \A k \in DOMAIN Q : k \in DOMAIN R /\ R[k] = Q[k] /\ R[k] # x
        /\ Len(Q) + 1 \in DOMAIN R
    BY <1>1 DEF Listing
  <1>4. Listing(R) = Listing(Q) \cup {x}
    BY <1>1, <1>2, <1>3 DEF Listing
  <1>5. ASSUME NEW j \in DOMAIN R, NEW k \in DOMAIN R, R[j] = R[k]
        PROVE  j = k
    BY <1>1, <1>2, <1>3, <1>5
  <1> QED BY <1>1, <1>4, <1>5 DEF R

-----------------------------------------------------------------------------
(* The books                                                               *)

(* A place is within its directory.                                        *)
LEMMA PlaceWithin ==
    ASSUME NEW v, IsVolume(v)
    PROVE  \A p \in Places(v) : ~(p[2] <= 0) /\ p[2] <= Len(Contents(v, p[1]))
  <1> SUFFICES ASSUME NEW p \in Places(v)
               PROVE  ~(p[2] <= 0) /\ p[2] <= Len(Contents(v, p[1]))
    OBVIOUS
  <1>1. p[2] \in Nat /\ p[2] > 0 /\ Len(Contents(v, p[1])) \in Nat
        /\ p[2] \in 1 .. Len(Contents(v, p[1]))
    BY PlaceFacts
  <1> QED BY <1>1

(* Nothing is seen of a directory at its start.                            *)
LEMMA SeenStart ==
    ASSUME NEW v, IsVolume(v), NEW S, NEW cur
    PROVE  Seen(v, S, cur, 0) = {p \in Places(v) : p[1] \in S}
  <1> HIDE DEF Places, Contents
  <1> QED BY PlaceWithin DEF Seen

(* All of a directory is seen at its end.                                  *)
LEMMA SeenAll ==
    ASSUME NEW v, IsVolume(v), NEW S, NEW cur
    PROVE  Seen(v, S \cup {cur}, cur, 0) = Seen(v, S, cur, Len(Contents(v, cur)))
  <1> HIDE DEF Places, Contents
  <1>1. Seen(v, S, cur, Len(Contents(v, cur))) = {p \in Places(v) : p[1] \in S \cup {cur}}
    BY PlaceWithin DEF Seen
  <1>2. Seen(v, S \cup {cur}, cur, 0) = {p \in Places(v) : p[1] \in S \cup {cur}}
    BY PlaceWithin DEF Seen
  <1> QED BY <1>1, <1>2, Zenon

(* The next entry of the directory that is read is a new one.              *)
LEMMA NextPlace ==
    ASSUME NEW v, IsVolume(v), NEW S, NEW cur \in Directories(v), NEW pos \in Nat, NEW H, NEW W, NEW Q,
           Books(v, S, cur, pos, H, W, Q), cur \notin S, pos + 1 <= Len(Contents(v, cur))
    PROVE  /\ <<cur, pos + 1>> \in Places(v) /\ <<cur, pos + 1>> # RootPlace
           /\ At(v, <<cur, pos + 1>>) = Contents(v, cur)[pos + 1]
           /\ <<cur, pos + 1>> \notin W \cup H \cup Listing(Q)
           /\ Seen(v, S, cur, pos + 1) = Seen(v, S, cur, pos) \cup {<<cur, pos + 1>>}
  <1> DEFINE p == <<cur, pos + 1>>
  <1>1. Contents(v, cur) \in Seq(DirectoryEntry)
    BY ContentsType
  <1>2. pos + 1 \in 1 .. Len(Contents(v, cur))
    BY <1>1
  <1>3. /\ p \in Places(v) /\ p[1] = cur /\ p[2] = pos + 1
        /\ At(v, p) = Contents(v, cur)[pos + 1]
    BY <1>2, PlaceOf
  <1> HIDE DEF p
  <1>4. p # RootPlace
    BY <1>3, PlaceFacts
  <1>5. \A q \in Places(v) : q = <<q[1], q[2]>> /\ q[2] \in Nat
    BY PlaceFacts
  <1>6. p \notin Seen(v, S, cur, pos)
    BY <1>3 DEF Seen
  <1>7. p \notin W \cup H \cup Listing(Q)
    BY <1>4, <1>6, Zenon DEF Books
  <1>8. Seen(v, S, cur, pos + 1) = Seen(v, S, cur, pos) \cup {p}
    <2>1. ASSUME NEW q \in Places(v), q[1] = cur, q[2] <= pos + 1
          PROVE  q[2] <= pos \/ q = p
      <3>1. q[2] <= pos \/ q[2] = pos + 1
        BY <1>5, <2>1
      <3>2. q[2] = pos + 1 => q = p
        BY <1>5, <2>1 DEF p
      <3> QED BY <3>1, <3>2
    <2>2. \A q \in Places(v) : q[2] <= pos => q[2] <= pos + 1
      BY <1>5
    <2>3. p[2] <= pos + 1
      BY <1>3
    <2> QED BY <1>3, <2>1, <2>2, <2>3 DEF Seen
  <1> QED BY <1>3, <1>4, <1>7, <1>8 DEF p

(* The root is not an entry.                                               *)
LEMMA RootNoOwner ==
    ASSUME NEW v, IsVolume(v)
    PROVE  RootPlace \notin Owners(v) /\ Owners(v) \subseteq Places(v)
  <1>1. RootPlace \notin Places(v)
    BY PlaceFacts
  <1> QED BY <1>1 DEF Owners

(* mount starts with the root directory queued.                            *)
LEMMA BooksStart ==
    ASSUME NEW v, IsVolume(v)
    PROVE  Books(v, {}, 0, 0, {}, {}, <<RootPlace>>)
  <1> DEFINE Q == <<RootPlace>>
             X == Staged(v) \cup {RootPlace}
  <1>1. Seen(v, {}, 0, 0) = {}
    BY SeenStart
  <1>2. RootPlace \in X
    OBVIOUS
  <1> HIDE DEF X, RootPlace
  <1>3. Q \in Seq(X) /\ Len(Q) = 1 /\ DOMAIN Q = {1} /\ Q[1] = RootPlace
    BY <1>2
  <1> HIDE DEF Q
  <1>4. Listing(Q) = {RootPlace}
    BY <1>3 DEF Listing
  <1>5. \A j, k \in DOMAIN Q : Q[j] = Q[k] => j = k
    BY <1>3
  <1> HIDE DEF Listing, Seen
  <1>6. Books(v, {}, 0, 0, {}, {}, Q)
    BY <1>1, <1>3, <1>4, <1>5 DEF Books, X
  <1> QED BY <1>6 DEF Q

(* The directory that was queued first is taken up.                        *)
LEMMA BooksTakeUp ==
    ASSUME NEW v, IsVolume(v), NEW S, NEW cur, NEW pos, NEW W, NEW Q, NEW next,
           Books(v, S, cur, pos, {}, W, Q), Q # <<>>
    PROVE  Books(v, S, next, 0, {Head(Q)}, W, Tail(Q))
  <1> DEFINE X == Staged(v) \cup {RootPlace}
             R == Tail(Q)
             h == Head(Q)
  <1>1. /\ S \subseteq Directories(v) /\ pos \in Nat /\ W \subseteq Owners(v)
        /\ Q \in Seq(X) /\ \A j, k \in DOMAIN Q : Q[j] = Q[k] => j = k
        /\ Listing(Q) \cap (W \cup {}) = {}
        /\ Seen(v, S, cur, pos) \cap Owners(v) \subseteq W \cup {} \cup Listing(Q)
        /\ (W \cup {} \cup Listing(Q)) \ {RootPlace} \subseteq Seen(v, S, cur, pos)
        /\ \A p \in W : At(v, p).dir => At(v, p).first \in S
        /\ 0 \notin S => RootPlace \in {} \cup Listing(Q)
        /\ RootPlace \in Listing(Q) => S = {} /\ W = {} /\ Len(Q) = 1
        /\ pos = 0
    BY Zenon DEF Books
  <1> HIDE DEF X
  <1>2. /\ Listing(Q) = {h} \cup Listing(R) /\ h \notin Listing(R) /\ R \in Seq(X) /\ h \in X
        /\ \A j, k \in DOMAIN R : R[j] = R[k] => j = k
        /\ Len(Q) = 1 => Listing(R) = {}
    BY <1>1, ListingTail
  <1>3. Seen(v, S, next, 0) = Seen(v, S, cur, pos)
    <2>1. Seen(v, S, next, 0) = Seen(v, S, cur, 0)
      BY SeenStart
    <2> QED BY <1>1, <2>1, Zenon
  <1> HIDE DEF R, h, Listing, Seen, RootPlace
  <1>4. Books(v, S, next, 0, {h}, W, R)
    <2>1. /\ S \subseteq Directories(v) /\ 0 \in Nat /\ W \subseteq Owners(v) /\ {h} \subseteq X
          /\ R \in Seq(X) /\ \A j, k \in DOMAIN R : R[j] = R[k] => j = k
      BY <1>1, <1>2
    <2>2. Listing(R) \cap (W \cup {h}) = {} /\ {h} \cap W = {}
      BY <1>1, <1>2
    <2>3. /\ Seen(v, S, next, 0) \cap Owners(v) \subseteq W \cup {h} \cup Listing(R)
          /\ (W \cup {h} \cup Listing(R)) \ {RootPlace} \subseteq Seen(v, S, next, 0)
      BY <1>1, <1>2, <1>3
    <2>4. /\ \A p \in W : At(v, p).dir => At(v, p).first \in S
          /\ 0 \notin S => RootPlace \in {h} \cup Listing(R)
          /\ RootPlace \notin Listing(R)
      BY <1>1, <1>2
    <2> QED BY <2>1, <2>2, <2>3, <2>4 DEF Books, X
  <1> QED BY <1>4 DEF R, h

(* All of the root directory is read.                                      *)
LEMMA BooksLeaveRoot ==
    ASSUME NEW v, IsVolume(v), NEW S, NEW W, NEW Q,
           Books(v, S, 0, Len(Contents(v, 0)), {RootPlace}, W, Q)
    PROVE  Books(v, S \cup {0}, 0, 0, {}, W, Q)
  <1> DEFINE X == Staged(v) \cup {RootPlace}
             n == Len(Contents(v, 0))
  <1>1. /\ S \subseteq Directories(v) /\ W \subseteq Owners(v)
        /\ Q \in Seq(X) /\ \A j, k \in DOMAIN Q : Q[j] = Q[k] => j = k
        /\ Listing(Q) \cap (W \cup {RootPlace}) = {}
        /\ Seen(v, S, 0, n) \cap Owners(v) \subseteq W \cup {RootPlace} \cup Listing(Q)
        /\ (W \cup {RootPlace} \cup Listing(Q)) \ {RootPlace} \subseteq Seen(v, S, 0, n)
        /\ \A p \in W : At(v, p).dir => At(v, p).first \in S
    BY Zenon DEF Books
  <1>2. Seen(v, S \cup {0}, 0, 0) = Seen(v, S, 0, n)
    BY SeenAll
  <1>3. RootPlace \notin Owners(v) /\ 0 \in Directories(v)
    BY RootNoOwner, RootReached
  <1> HIDE DEF n, Listing, Seen, RootPlace
  <1>4. S \cup {0} \subseteq Directories(v) /\ 0 \in Nat /\ RootPlace \notin Listing(Q)
    BY <1>1, <1>3
  <1>5. /\ Seen(v, S \cup {0}, 0, 0) \cap Owners(v) \subseteq W \cup {} \cup Listing(Q)
        /\ (W \cup {} \cup Listing(Q)) \ {RootPlace} \subseteq Seen(v, S \cup {0}, 0, 0)
    BY <1>1, <1>2, <1>3
  <1>6. Listing(Q) \cap (W \cup {}) = {} /\ {} \cap W = {} /\ {} \subseteq X
    BY <1>1
  <1>7. \A p \in W : At(v, p).dir => At(v, p).first \in S \cup {0}
    BY <1>1
  <1> QED BY <1>1, <1>4, <1>5, <1>6, <1>7 DEF Books, X

(* All of another directory is read, and its chain claimed.                *)
LEMMA BooksLeave ==
    ASSUME NEW v, IsVolume(v), NEW S, NEW home, home # RootPlace, NEW cur, cur = First(v, home),
           NEW W, NEW Q, Books(v, S, cur, Len(Contents(v, cur)), {home}, W, Q)
    PROVE  Books(v, S \cup {cur}, cur, 0, {}, W \cup {home}, Q)
  <1> DEFINE X == Staged(v) \cup {RootPlace}
             n == Len(Contents(v, cur))
  <1>1. /\ S \subseteq Directories(v) /\ W \subseteq Owners(v) /\ {home} \subseteq X
        /\ Q \in Seq(X) /\ \A j, k \in DOMAIN Q : Q[j] = Q[k] => j = k
        /\ Listing(Q) \cap (W \cup {home}) = {} /\ {home} \cap W = {}
        /\ Seen(v, S, cur, n) \cap Owners(v) \subseteq W \cup {home} \cup Listing(Q)
        /\ (W \cup {home} \cup Listing(Q)) \ {RootPlace} \subseteq Seen(v, S, cur, n)
        /\ \A p \in W : At(v, p).dir => At(v, p).first \in S
        /\ 0 \notin S => RootPlace \in {home} \cup Listing(Q)
        /\ RootPlace \in Listing(Q) => {home} = {}
    BY Zenon DEF Books
  <1>2. Seen(v, S \cup {cur}, cur, 0) = Seen(v, S, cur, n)
    BY SeenAll
  <1>3. home \in X
    BY <1>1
  <1>4. cur \in Directories(v) /\ home \in Owners(v) /\ At(v, home).first = cur
    BY <1>3, HomeReached
  <1> HIDE DEF n, Listing, Seen, RootPlace, First
  <1>5. S \cup {cur} \subseteq Directories(v) /\ 0 \in Nat /\ RootPlace \notin Listing(Q) /\ 0 \in S
        /\ W \cup {home} \subseteq Owners(v)
    BY <1>1, <1>4
  <1>6. /\ Seen(v, S \cup {cur}, cur, 0) \cap Owners(v) \subseteq (W \cup {home}) \cup {} \cup Listing(Q)
        /\ ((W \cup {home}) \cup {} \cup Listing(Q)) \ {RootPlace} \subseteq Seen(v, S \cup {cur}, cur, 0)
    BY <1>1, <1>2
  <1>7. Listing(Q) \cap ((W \cup {home}) \cup {}) = {} /\ {} \cap (W \cup {home}) = {} /\ {} \subseteq X
    BY <1>1
  <1>8. \A p \in W \cup {home} : At(v, p).dir => At(v, p).first \in S \cup {cur}
    BY <1>1, <1>4
  <1> QED BY <1>1, <1>5, <1>6, <1>7, <1>8 DEF Books, X

(* A directory is staged.                                                  *)
LEMMA BooksStage ==
    ASSUME NEW v, IsVolume(v), NEW S, NEW cur \in Directories(v), NEW pos \in Nat, NEW home, NEW W, NEW Q,
           Books(v, S, cur, pos, {home}, W, Q), cur \notin S, pos + 1 <= Len(Contents(v, cur)),
           Contents(v, cur)[pos + 1].dir, Contents(v, cur)[pos + 1].first >= 2
    PROVE  Books(v, S, cur, pos + 1, {home}, W, Append(Q, <<cur, pos + 1>>))
  <1> DEFINE X == Staged(v) \cup {RootPlace}
             p == <<cur, pos + 1>>
             R == Append(Q, p)
  <1>1. /\ S \subseteq Directories(v) /\ W \subseteq Owners(v) /\ {home} \subseteq X
        /\ Q \in Seq(X) /\ \A j, k \in DOMAIN Q : Q[j] = Q[k] => j = k
        /\ Listing(Q) \cap (W \cup {home}) = {} /\ {home} \cap W = {}
        /\ Seen(v, S, cur, pos) \cap Owners(v) \subseteq W \cup {home} \cup Listing(Q)
        /\ (W \cup {home} \cup Listing(Q)) \ {RootPlace} \subseteq Seen(v, S, cur, pos)
        /\ \A q \in W : At(v, q).dir => At(v, q).first \in S
        /\ 0 \notin S => RootPlace \in {home} \cup Listing(Q)
        /\ RootPlace \in Listing(Q) => {home} = {}
    BY Zenon DEF Books
  <1>2. /\ p \in Places(v) /\ p # RootPlace /\ At(v, p) = Contents(v, cur)[pos + 1]
        /\ p \notin W \cup {home} \cup Listing(Q)
        /\ Seen(v, S, cur, pos + 1) = Seen(v, S, cur, pos) \cup {p}
    BY NextPlace
  <1> HIDE DEF p, Listing, Seen, RootPlace
  <1>3. p \in X
    BY <1>2 DEF Staged, Owners, Empty
  <1> HIDE DEF X
  <1>4. /\ Listing(R) = Listing(Q) \cup {p} /\ R \in Seq(X)
        /\ \A j, k \in DOMAIN R : R[j] = R[k] => j = k
    BY <1>1, <1>2, <1>3, ListingAppend
  <1> HIDE DEF R
  <1>5. Listing(R) \cap (W \cup {home}) = {} /\ pos + 1 \in Nat
    BY <1>1, <1>2, <1>4
  <1>6. /\ Seen(v, S, cur, pos + 1) \cap Owners(v) \subseteq W \cup {home} \cup Listing(R)
        /\ (W \cup {home} \cup Listing(R)) \ {RootPlace} \subseteq Seen(v, S, cur, pos + 1)
    BY <1>1, <1>2, <1>4
  <1>7. (0 \notin S => RootPlace \in {home} \cup Listing(R)) /\ RootPlace \notin Listing(R)
    BY <1>1, <1>2, <1>4
  <1>8. Books(v, S, cur, pos + 1, {home}, W, R)
    BY <1>1, <1>4, <1>5, <1>6, <1>7 DEF Books, X
  <1> QED BY <1>8 DEF R, p

(* An empty file has no chain.                                             *)
LEMMA BooksSkip ==
    ASSUME NEW v, IsVolume(v), NEW S, NEW cur \in Directories(v), NEW pos \in Nat, NEW home, NEW W, NEW Q,
           Books(v, S, cur, pos, {home}, W, Q), cur \notin S, pos + 1 <= Len(Contents(v, cur)),
           Empty(Contents(v, cur)[pos + 1])
    PROVE  Books(v, S, cur, pos + 1, {home}, W, Q)
  <1> DEFINE X == Staged(v) \cup {RootPlace}
             p == <<cur, pos + 1>>
  <1>1. /\ S \subseteq Directories(v) /\ W \subseteq Owners(v) /\ {home} \subseteq X
        /\ Q \in Seq(X) /\ \A j, k \in DOMAIN Q : Q[j] = Q[k] => j = k
        /\ Listing(Q) \cap (W \cup {home}) = {} /\ {home} \cap W = {}
        /\ Seen(v, S, cur, pos) \cap Owners(v) \subseteq W \cup {home} \cup Listing(Q)
        /\ (W \cup {home} \cup Listing(Q)) \ {RootPlace} \subseteq Seen(v, S, cur, pos)
        /\ \A q \in W : At(v, q).dir => At(v, q).first \in S
        /\ 0 \notin S => RootPlace \in {home} \cup Listing(Q)
        /\ RootPlace \in Listing(Q) => {home} = {}
    BY Zenon DEF Books
  <1>2. /\ At(v, p) = Contents(v, cur)[pos + 1]
        /\ Seen(v, S, cur, pos + 1) = Seen(v, S, cur, pos) \cup {p}
    BY NextPlace
  <1> HIDE DEF p, Listing, Seen, RootPlace, Empty
  <1>3. p \notin Owners(v)
    BY <1>2 DEF Owners
  <1>4. /\ Seen(v, S, cur, pos + 1) \cap Owners(v) \subseteq W \cup {home} \cup Listing(Q)
        /\ (W \cup {home} \cup Listing(Q)) \ {RootPlace} \subseteq Seen(v, S, cur, pos + 1)
    BY <1>1, <1>2, <1>3
  <1>5. pos + 1 \in Nat
    OBVIOUS
  <1> QED BY <1>1, <1>4, <1>5 DEF Books, X

(* The chain of a file is claimed.                                         *)
LEMMA BooksFile ==
    ASSUME NEW v, IsVolume(v), NEW S, NEW cur \in Directories(v), NEW pos \in Nat, NEW home, NEW W, NEW Q,
           Books(v, S, cur, pos, {home}, W, Q), cur \notin S, pos + 1 <= Len(Contents(v, cur)),
           ~Contents(v, cur)[pos + 1].dir, ~Empty(Contents(v, cur)[pos + 1])
    PROVE  Books(v, S, cur, pos + 1, {home}, W \cup {<<cur, pos + 1>>}, Q)
  <1> DEFINE X == Staged(v) \cup {RootPlace}
             p == <<cur, pos + 1>>
             U == W \cup {p}
  <1>1. /\ S \subseteq Directories(v) /\ W \subseteq Owners(v) /\ {home} \subseteq X
        /\ Q \in Seq(X) /\ \A j, k \in DOMAIN Q : Q[j] = Q[k] => j = k
        /\ Listing(Q) \cap (W \cup {home}) = {} /\ {home} \cap W = {}
        /\ Seen(v, S, cur, pos) \cap Owners(v) \subseteq W \cup {home} \cup Listing(Q)
        /\ (W \cup {home} \cup Listing(Q)) \ {RootPlace} \subseteq Seen(v, S, cur, pos)
        /\ \A q \in W : At(v, q).dir => At(v, q).first \in S
        /\ 0 \notin S => RootPlace \in {home} \cup Listing(Q)
        /\ RootPlace \in Listing(Q) => {home} = {}
    BY Zenon DEF Books
  <1>2. /\ p \in Places(v) /\ At(v, p) = Contents(v, cur)[pos + 1]
        /\ p \notin W \cup {home} \cup Listing(Q)
        /\ Seen(v, S, cur, pos + 1) = Seen(v, S, cur, pos) \cup {p}
    BY NextPlace
  <1> HIDE DEF p, Listing, Seen, RootPlace, Empty
  <1>3. p \in Owners(v)
    BY <1>2 DEF Owners
  <1>4. /\ Seen(v, S, cur, pos + 1) \cap Owners(v) \subseteq U \cup {home} \cup Listing(Q)
        /\ (U \cup {home} \cup Listing(Q)) \ {RootPlace} \subseteq Seen(v, S, cur, pos + 1)
    BY <1>1, <1>2, <1>3
  <1>5. /\ pos + 1 \in Nat /\ U \subseteq Owners(v) /\ {home} \cap U = {}
        /\ Listing(Q) \cap (U \cup {home}) = {}
        /\ \A q \in U : At(v, q).dir => At(v, q).first \in S
        /\ RootPlace \notin Listing(Q)
    BY <1>1, <1>2, <1>3
  <1> HIDE DEF U
  <1>6. Books(v, S, cur, pos + 1, {home}, U, Q)
    BY <1>1, <1>4, <1>5 DEF Books, X
  <1> QED BY <1>6 DEF U, p

-----------------------------------------------------------------------------
(* The claims                                                              *)

(* The directory and the file take part in the claims alike.               *)
LEMMA ClaimsSwap ==
    ASSUME NEW v, NEW W, NEW cl, NEW dv, NEW wv, Claims(v, W, cl, dv, wv)
    PROVE  Claims(v, W, cl, wv, dv)
  BY DEF Claims

(* A cluster that is not claimed is claimed.                               *)
LEMMA ClaimsTake ==
    ASSUME NEW v, NEW W, NEW cl, NEW dv, NEW wv, Claims(v, W, cl, dv, wv), NEW c, c \notin cl
    PROVE  Claims(v, W, cl \cup {c}, dv, wv \cup {c})
  <1> DEFINE U == UNION {Cells(v, At(v, p).first) : p \in W}
  <1>1. /\ cl = U \cup dv \cup wv /\ \A p \in W : Ends(v, At(v, p).first) /\ ~Short(v, At(v, p))
        /\ \A p, q \in W : p # q => Cells(v, At(v, p).first) \cap Cells(v, At(v, q).first) = {}
        /\ \A p \in W : Cells(v, At(v, p).first) \cap (dv \cup wv) = {}
        /\ dv \cap wv = {}
    BY DEF Claims
  <1>2. \A p \in W : Cells(v, At(v, p).first) \subseteq U
    OBVIOUS
  <1>3. cl \cup {c} = U \cup dv \cup (wv \cup {c})
    BY <1>1
  <1>4. \A p \in W : Cells(v, At(v, p).first) \cap (dv \cup (wv \cup {c})) = {}
    <2> HIDE DEF U
    <2> QED BY <1>1, <1>2
  <1>5. dv \cap (wv \cup {c}) = {}
    BY <1>1
  <1> QED BY <1>1, <1>3, <1>4, <1>5 DEF Claims

(* A chain that is claimed to its end has an owner.                        *)
LEMMA ClaimsDone ==
    ASSUME NEW v, NEW W, NEW cl, NEW dv, NEW wv, Claims(v, W, cl, dv, wv), NEW p,
           Cells(v, At(v, p).first) = wv, Ends(v, At(v, p).first), ~Short(v, At(v, p))
    PROVE  Claims(v, W \cup {p}, cl, dv, {})
  <1> DEFINE U == UNION {Cells(v, At(v, q).first) : q \in W}
             T == UNION {Cells(v, At(v, q).first) : q \in W \cup {p}}
  <1>1. /\ cl = U \cup dv \cup wv /\ \A q \in W : Ends(v, At(v, q).first) /\ ~Short(v, At(v, q))
        /\ \A q, r \in W : q # r => Cells(v, At(v, q).first) \cap Cells(v, At(v, r).first) = {}
        /\ \A q \in W : Cells(v, At(v, q).first) \cap (dv \cup wv) = {}
        /\ dv \cap wv = {}
    BY DEF Claims
  <1> HIDE DEF Cells, At, Ends, Short
  <1>2. T = U \cup wv
    OBVIOUS
  <1>3. cl = T \cup dv \cup {}
    BY <1>1, <1>2
  <1>4. \A q \in W \cup {p} : Ends(v, At(v, q).first) /\ ~Short(v, At(v, q))
    BY <1>1
  <1>5. \A q, r \in W \cup {p} : q # r => Cells(v, At(v, q).first) \cap Cells(v, At(v, r).first) = {}
    BY <1>1
  <1>6. \A q \in W \cup {p} : Cells(v, At(v, q).first) \cap (dv \cup {}) = {}
    BY <1>1
  <1>7. dv \cap {} = {}
    OBVIOUS
  <1> QED BY <1>3, <1>4, <1>5, <1>6, <1>7 DEF Claims

(* When no directory is left, every entry has been seen and each chain     *)
(* claimed.                                                                *)
LEMMA BooksComplete ==
    ASSUME NEW v, IsVolume(v), NEW S, NEW cur, NEW pos, NEW W, NEW Q,
           Books(v, S, cur, pos, {}, W, Q), Q = <<>>
    PROVE  W = Owners(v)
  <1>1. /\ S \subseteq Directories(v) /\ W \subseteq Owners(v)
        /\ Seen(v, S, cur, pos) \cap Owners(v) \subseteq W \cup {} \cup Listing(Q)
        /\ \A p \in W : At(v, p).dir => At(v, p).first \in S
        /\ 0 \notin S => RootPlace \in {} \cup Listing(Q)
        /\ pos = 0
    BY Zenon DEF Books
  <1>2. Listing(Q) = {}
    BY DEF Listing
  <1>3. 0 \in S
    BY <1>1, <1>2
  <1>4. Seen(v, S, cur, pos) = {p \in Places(v) : p[1] \in S}
    <2>1. Seen(v, S, cur, 0) = {p \in Places(v) : p[1] \in S}
      BY SeenStart
    <2> QED BY <1>1, <2>1, Zenon
  <1>5. ASSUME NEW p \in Owners(v), p[1] \in S
        PROVE  p \in W
    <2>1. p \in Places(v)
      BY DEF Owners
    <2> HIDE DEF Owners, Seen, Places, Listing
    <2> QED BY <1>1, <1>2, <1>4, <1>5, <2>1
  <1>6. ASSUME NEW d \in S, NEW i \in DOMAIN Contents(v, d), Contents(v, d)[i].dir
        PROVE  Contents(v, d)[i].first \in S
    <2>1. i \in 1 .. Len(Contents(v, d)) /\ d \in Directories(v)
      <3>1. Contents(v, d) \in Seq(DirectoryEntry)
        BY ContentsType
      <3> HIDE DEF Contents, DirectoryEntry
      <3> QED BY <1>1, <3>1
    <2> DEFINE p == <<d, i>>
    <2>2. p \in Places(v) /\ p[1] = d /\ At(v, p) = Contents(v, d)[i]
      BY <2>1, PlaceOf
    <2> HIDE DEF p
    <2>3. p \in Owners(v)
      BY <1>6, <2>2 DEF Owners, Empty
    <2>4. p \in W
      BY <1>5, <2>2, <2>3
    <2> QED BY <1>1, <1>6, <2>2, <2>4
  <1>7. Wider(v, S) \subseteq S
    BY <1>6 DEF Wider, Subdirectories
  <1>8. Directories(v) \subseteq S
    BY <1>3, <1>7, DirectoriesLeast
  <1>9. ASSUME NEW p \in Owners(v)
        PROVE  p \in W
    <2>1. p \in Places(v)
      BY DEF Owners
    <2>2. p[1] \in S
      BY <1>8, <2>1, PlaceFacts
    <2> QED BY <1>5, <2>2
  <1> QED BY <1>1, <1>9

(* What the mount has found out when it begins to count.                   *)
LEMMA ClaimsComplete ==
    ASSUME NEW v, NEW cl, Claims(v, Owners(v), cl, {}, {})
    PROVE  AllClaimed(v, cl)
  <1> HIDE DEF Owners, Cells, At, Ends, Short
  <1>1. /\ cl = (UNION {Cells(v, At(v, p).first) : p \in Owners(v)}) \cup {} \cup {}
        /\ \A p \in Owners(v) : Ends(v, At(v, p).first) /\ ~Short(v, At(v, p))
        /\ \A p, q \in Owners(v) : p # q => Cells(v, At(v, p).first) \cap Cells(v, At(v, q).first) = {}
    BY Zenon DEF Claims
  <1>2. cl = Owned(v)
    BY <1>1 DEF Owned
  <1>3. ~CrossLinked(v)
    BY <1>1 DEF CrossLinked
  <1> QED BY <1>1, <1>2, <1>3 DEF AllClaimed

-----------------------------------------------------------------------------
(* Links and defects                                                       *)

(* What a link says of the value.                                          *)
LEMMA LinkMeans ==
    ASSUME NEW v, IsVolume(v), NEW value \in Nat
    PROVE  /\ DecodeClusterLink(v, value) = "free" <=> value = 0
           /\ DecodeClusterLink(v, value) = "bad" => value = BadMarker /\ value \notin Clusters(v)
           /\ DecodeClusterLink(v, value) = "end" => value >= EndMarker /\ value \notin Clusters(v)
           /\ DecodeClusterLink(v, value) = "wild" => value # 0 /\ value \notin Clusters(v)
           /\ 0 \notin Clusters(v)
  <1>1. \A c \in Clusters(v) : c >= 2 /\ c <= 65525
    BY VolumeFacts
  <1> HIDE DEF Clusters
  <1> QED BY <1>1 DEF DecodeClusterLink, BadMarker, EndMarker

(* A wild link is one of the FAT's entries.                                *)
LEMMA WildLink ==
    ASSUME NEW v, IsVolume(v), NEW c, DecodeClusterLink(v, Value(v, c)) = "wild"
    PROVE  HasWildLink(v)
  <1>1. Value(v, c) \in Nat
    BY VolumeFacts
  <1>2. Value(v, c) # 0
    BY <1>1, LinkMeans
  <1>3. c \in DOMAIN v.fat
    BY <1>2, VolumeFacts
  <1>4. Value(v, c) = v.fat[c]
    BY <1>3 DEF Value
  <1> QED BY <1>3, <1>4 DEF HasWildLink

(* The classes of defects.                                                 *)
LEMMA DefectClasses ==
    ASSUME NEW v
    PROVE  /\ \A p \in Owners(v) : Loops(v, At(v, p).first) => Defective(v, "chain_loop")
           /\ CrossLinked(v) => Defective(v, "cross_link")
           /\ HasWildLink(v) => Defective(v, "out_of_range")
           /\ \A p \in Owners(v) : At(v, p).first \notin Clusters(v) => Defective(v, "out_of_range")
           /\ \A p \in Owners(v) :
                 Last(v, At(v, p).first) \in {0, BadMarker} \/ Short(v, At(v, p)) => Defective(v, "corrupt")
  <1> HIDE DEF Owners, Loops, CrossLinked, HasWildLink, Clusters, Last, Short, At, BadMarker
  <1> QED BY DEF Defective

-----------------------------------------------------------------------------
(* The phases of the mount                                                 *)

(* A chain that is just begun.                                             *)
LEMMA ChainBegins ==
    ASSUME NEW v, IsVolume(v), NEW c \in ChainRecord, c.visited = {}, c.count = 0
    PROVE  Before(v, c.cluster, c)
  <1>1. Walk(v, c.cluster)[0] = c.cluster
    BY WalkEquation
  <1>2. 0 .. 0 - 1 = {}
    OBVIOUS
  <1>3. Cardinality({}) = 0
    BY FS_EmptySet
  <1> HIDE DEF Walk, ChainRecord
  <1>4. Taken(v, c.cluster, 0, {})
    BY <1>2, <1>3 DEF Taken, ChainTo
  <1> QED BY <1>1, <1>4 DEF Before

(* The queue after its first entry was taken.                              *)
LEMMA QueuedTail ==
    ASSUME NEW v, NEW q, NEW X, NEW Q \in Seq(X), Queued(v, q, Q), q # <<>>
    PROVE  /\ Q # <<>> /\ Head(q).first = First(v, Head(Q)) /\ Head(q) \in [first : Nat, depth : Nat]
           /\ Queued(v, Tail(q), Tail(Q))
  <1> DEFINE E == [first : Nat, depth : Nat]
  <1>1. q \in Seq(E) /\ Len(q) = Len(Q) /\ \A k \in 1 .. Len(q) : q[k].first = First(v, Q[k])
    BY DEF Queued
  <1> HIDE DEF E
  <1>2. /\ Len(q) \in Nat /\ Len(q) > 0 /\ Head(q) = q[1] /\ Head(q) \in E /\ Tail(q) \in Seq(E)
        /\ Len(Tail(q)) = Len(q) - 1 /\ \A k \in 1 .. Len(q) - 1 : Tail(q)[k] = q[k + 1]
    BY <1>1
  <1>3. /\ Q # <<>> /\ Head(Q) = Q[1] /\ Len(Tail(Q)) = Len(Q) - 1
        /\ \A k \in 1 .. Len(Q) - 1 : Tail(Q)[k] = Q[k + 1]
    BY <1>1, <1>2
  <1>4. Head(q).first = First(v, Head(Q))
    BY <1>1, <1>2, <1>3
  <1>5. ASSUME NEW k \in 1 .. Len(Tail(q))
        PROVE  Tail(q)[k].first = First(v, Tail(Q)[k])
    <2>1. k + 1 \in 1 .. Len(q) /\ Tail(q)[k] = q[k + 1] /\ Tail(Q)[k] = Q[k + 1]
      BY <1>1, <1>2, <1>3
    <2> QED BY <1>1, <2>1
  <1>6. Len(Tail(q)) = Len(Tail(Q))
    BY <1>1, <1>2, <1>3
  <1> QED BY <1>2, <1>3, <1>4, <1>5, <1>6 DEF Queued, E

(* The queue with one entry more.                                          *)
LEMMA QueuedAppend ==
    ASSUME NEW v, NEW q, NEW X, NEW Q \in Seq(X), Queued(v, q, Q), NEW p \in X,
           NEW e \in [first : Nat, depth : Nat], e.first = First(v, p)
    PROVE  Queued(v, Append(q, e), Append(Q, p))
  <1> DEFINE E == [first : Nat, depth : Nat]
  <1>1. q \in Seq(E) /\ Len(q) = Len(Q) /\ \A k \in 1 .. Len(q) : q[k].first = First(v, Q[k])
    BY DEF Queued
  <1>2. e \in E
    OBVIOUS
  <1> HIDE DEF E
  <1>3. /\ Len(q) \in Nat /\ Append(q, e) \in Seq(E) /\ Len(Append(q, e)) = Len(q) + 1
        /\ Append(q, e)[Len(q) + 1] = e /\ \A k \in 1 .. Len(q) : Append(q, e)[k] = q[k]
    BY <1>1, <1>2
  <1>4. /\ Len(Append(Q, p)) = Len(q) + 1
        /\ Append(Q, p)[Len(q) + 1] = p /\ \A k \in 1 .. Len(q) : Append(Q, p)[k] = Q[k]
    BY <1>1
  <1>5. ASSUME NEW k \in 1 .. Len(q) + 1
        PROVE  Append(q, e)[k].first = First(v, Append(Q, p)[k])
    <2>1. CASE k = Len(q) + 1
      BY <1>3, <1>4, <2>1
    <2>2. CASE k # Len(q) + 1
      <3>1. k \in 1 .. Len(q)
        BY <1>3, <2>2
      <3> QED BY <1>1, <1>3, <1>4, <3>1
    <2> QED BY <2>1, <2>2
  <1> QED BY <1>3, <1>4, <1>5 DEF Queued, E

(* scanDirectoryLocked takes up the root directory.                        *)
LEMMA TakeUpRoot ==
    ASSUME NEW v, IsVolume(v), NEW cl, NEW S, NEW cur, NEW pos, NEW W, NEW Q,
           Between(v, cl, S, cur, pos, W, Q), Q # <<>>, First(v, Head(Q)) = 0,
           NEW d \in ChainRecord, d.cluster = 0, d.size = 0
    PROVE  Within(v, d, v.root, cl, S, 0, 0, Head(Q), W, Tail(Q), {})
  <1> DEFINE X == Staged(v) \cup {RootPlace}
  <1>1. Books(v, S, cur, pos, {}, W, Q) /\ Claims(v, W, cl, {}, {}) /\ S \subseteq cl \cup {0}
    BY Zenon DEF Between
  <1>2. /\ Q \in Seq(X) /\ \A j, k \in DOMAIN Q : Q[j] = Q[k] => j = k
        /\ RootPlace \in Listing(Q) => S = {}
    BY <1>1, Zenon DEF Books
  <1> HIDE DEF X
  <1>3. Head(Q) \in X /\ Head(Q) \in Listing(Q)
    BY <1>2, ListingTail
  <1>4. Head(Q) = RootPlace
    <2>1. Head(Q) \in Staged(v) \cup {RootPlace}
      BY <1>3 DEF X
    <2>2. Head(Q) # RootPlace => First(v, Head(Q)) >= 2
      BY <2>1, HomeReached
    <2> QED BY <2>2
  <1>5. S = {} /\ 0 \notin S
    BY <1>2, <1>3, <1>4
  <1>6. Books(v, S, 0, 0, {Head(Q)}, W, Tail(Q))
    BY <1>1, BooksTakeUp
  <1>7. Rest(v, 0, 0, v.root)
    <2>1. Contents(v, 0) = v.root /\ Contents(v, 0) \in Seq(DirectoryEntry)
      BY ContentsType DEF Contents
    <2> HIDE DEF DirectoryEntry
    <2> QED BY <2>1 DEF Rest
  <1> HIDE DEF Books, Rest, Claims, After, First
  <1> QED BY <1>1, <1>4, <1>5, <1>6, <1>7 DEF Within

(* It takes up another directory, at the start of its chain.               *)
LEMMA TakeUpChain ==
    ASSUME NEW v, IsVolume(v), NEW cl, NEW S, NEW cur, NEW pos, NEW W, NEW Q,
           Between(v, cl, S, cur, pos, W, Q), Q # <<>>, First(v, Head(Q)) # 0,
           NEW d \in ChainRecord, d.cluster = First(v, Head(Q)), d.size = 0, d.visited = {}, d.count = 0
    PROVE  Following(v, d, cl, S, First(v, Head(Q)), 0, Head(Q), W, Tail(Q))
  <1>1. Books(v, S, cur, pos, {}, W, Q) /\ Claims(v, W, cl, {}, {}) /\ S \subseteq cl \cup {0}
    BY Zenon DEF Between
  <1>2. Head(Q) # RootPlace
    BY DEF First
  <1>3. Books(v, S, First(v, Head(Q)), 0, {Head(Q)}, W, Tail(Q))
    BY <1>1, BooksTakeUp
  <1>4. Before(v, d.cluster, d)
    BY ChainBegins
  <1> HIDE DEF Books, Claims, Before, First, RootPlace
  <1> QED BY <1>1, <1>2, <1>3, <1>4 DEF Following

(* A cluster of a directory is visited; the first one holds its entries.   *)
LEMMA VisitDirectory ==
    ASSUME NEW v, IsVolume(v), NEW d, NEW cl, NEW S, NEW cur, NEW pos, NEW home, NEW W, NEW Q,
           Following(v, d, cl, S, cur, pos, home, W, Q),
           d.cluster \in Clusters(v), d.cluster \notin d.visited, d.cluster \notin cl,
           NEW es, es = IF d.count = 0 THEN Contents(v, d.cluster) ELSE <<>>
    PROVE  Within(v, Visit(d), es, cl \cup {d.cluster}, S, cur, pos, home, W, Q, {})
  <1>1. /\ Books(v, S, cur, pos, {home}, W, Q) /\ home # RootPlace /\ cur = First(v, home)
        /\ Claims(v, W, cl, d.visited, {}) /\ S \subseteq cl \cup {0}
        /\ Before(v, cur, d) /\ d.size = 0
        /\ IF d.count = 0 THEN pos = 0 ELSE cur \notin S /\ pos = Len(Contents(v, cur))
    BY Zenon DEF Following
  <1>2. /\ d \in ChainRecord /\ Taken(v, cur, d.count, d.visited) /\ d.visited \subseteq DOMAIN v.fat
        /\ d.cluster = Walk(v, cur)[d.count]
    BY <1>1, Zenon DEF Before
  <1>3. d.count \in Nat /\ d.cluster \in Nat
    BY <1>2 DEF ChainRecord
  <1>4. /\ Visit(d) \in ChainRecord /\ Visit(d).cluster = d.cluster
        /\ Visit(d).visited = d.visited \cup {d.cluster}
        /\ Visit(d).count = d.count + 1 /\ Visit(d).size = d.size
    BY <1>2, VisitFields
  <1>5. Taken(v, cur, d.count + 1, d.visited \cup {d.cluster})
    <2>1. Taken(v, cur, d.count + 1, d.visited \cup {Walk(v, cur)[d.count]})
      BY <1>2, <1>3, TakeOne
    <2> QED BY <1>2, <2>1, Zenon
  <1>6. After(v, cur, Visit(d))
    <2>1. d.count + 1 > 0 /\ (d.count + 1) - 1 = d.count
      BY <1>3
    <2> HIDE DEF Taken, Visit, ChainRecord
    <2> QED BY <1>2, <1>4, <1>5, <2>1 DEF After
  <1>7. Claims(v, W, cl \cup {d.cluster}, d.visited \cup {d.cluster}, {})
    <2>1. Claims(v, W, cl, {}, d.visited)
      BY <1>1, ClaimsSwap
    <2>2. Claims(v, W, cl \cup {d.cluster}, {}, d.visited \cup {d.cluster})
      BY <2>1, ClaimsTake
    <2> QED BY <2>2, ClaimsSwap
  <1>8. cur \notin S
    <2>1. CASE d.count = 0
      <3>1. d.cluster = cur
        BY <1>2, <2>1, WalkEquation
      <3>2. d.cluster # 0
        BY VolumeFacts
      <3> QED BY <1>1, <3>1, <3>2
    <2>2. CASE d.count # 0
      BY <1>1, <2>2
    <2> QED BY <2>1, <2>2
  <1>9. Rest(v, cur, pos, es)
    <2>1. Contents(v, cur) \in Seq(DirectoryEntry)
      BY ContentsType
    <2> HIDE DEF Contents, DirectoryEntry
    <2>2. CASE d.count = 0
      <3>1. d.cluster = cur
        BY <1>2, <2>2, WalkEquation
      <3> QED BY <1>1, <2>1, <2>2, <3>1 DEF Rest
    <2>3. CASE d.count # 0
      BY <1>1, <2>1, <2>3 DEF Rest
    <2> QED BY <2>2, <2>3
  <1> HIDE DEF Books, Claims, First, RootPlace, Visit, Rest, After
  <1> QED BY <1>1, <1>4, <1>6, <1>7, <1>8, <1>9 DEF Within

(* The end of the root directory.                                          *)
LEMMA LeaveRoot ==
    ASSUME NEW v, IsVolume(v), NEW d, NEW cl, NEW S, NEW cur, NEW pos, NEW home, NEW W, NEW Q, NEW es,
           Within(v, d, es, cl, S, cur, pos, home, W, Q, {}), es = <<>>, d.cluster = 0
    PROVE  home = RootPlace /\ Between(v, cl, S \cup {0}, 0, 0, W, Q)
  <1>1. /\ Books(v, S, cur, pos, {home}, W, Q) /\ cur = First(v, home) /\ Rest(v, cur, pos, es)
        /\ home # RootPlace => After(v, cur, d)
        /\ Claims(v, W, cl, IF home = RootPlace THEN {} ELSE d.visited, {}) /\ S \subseteq cl \cup {0}
    BY Zenon DEF Within
  <1>2. home = RootPlace
    <2> SUFFICES ASSUME home # RootPlace
                 PROVE  FALSE
      OBVIOUS
    <2>1. After(v, cur, d)
      BY <1>1
    <2>2. /\ d \in ChainRecord /\ Taken(v, cur, d.count, d.visited) /\ d.count > 0
          /\ d.visited \ {d.cluster} \subseteq DOMAIN v.fat /\ d.cluster = Walk(v, cur)[d.count - 1]
      BY <2>1, Zenon DEF After
    <2>3. d.count \in Nat
      BY <2>2 DEF ChainRecord
    <2>4. d.visited \subseteq Clusters(v)
      BY <2>2, <2>3, TakenFacts
    <2>5. d.cluster \in d.visited
      BY <2>2, <2>3, LinkNext
    <2> QED BY <2>4, <2>5, VolumeFacts
  <1>3. cur = 0
    BY <1>1, <1>2 DEF First
  <1>4. pos = Len(Contents(v, 0))
    <2>1. pos \in Nat
      BY <1>1, Zenon DEF Books
    <2> QED BY <1>1, <1>3, <2>1 DEF Rest
  <1>5. Books(v, S, 0, Len(Contents(v, 0)), {RootPlace}, W, Q)
    BY <1>1, <1>2, <1>3, <1>4, Zenon
  <1>6. Books(v, S \cup {0}, 0, 0, {}, W, Q)
    BY <1>5, BooksLeaveRoot
  <1>7. Claims(v, W, cl, {}, {})
    BY <1>1, <1>2
  <1>8. S \cup {0} \subseteq cl \cup {0}
    BY <1>1
  <1> QED BY <1>2, <1>6, <1>7, <1>8, Zenon DEF Between

(* What is known of the chain of the directory that is read.               *)
LEMMA DirectoryChain ==
    ASSUME NEW v, IsVolume(v), NEW d, NEW cl, NEW S, NEW cur, NEW pos, NEW home, NEW W, NEW Q, NEW es, NEW wv,
           Within(v, d, es, cl, S, cur, pos, home, W, Q, wv), home # RootPlace
    PROVE  /\ d \in ChainRecord /\ d.count \in Nat /\ d.cluster \in Nat /\ d.count > 0
           /\ Taken(v, cur, d.count, d.visited) /\ d.visited \ {d.cluster} \subseteq DOMAIN v.fat
           /\ d.cluster = Walk(v, cur)[d.count - 1] /\ d.size = 0
           /\ Walk(v, cur)[d.count] = Value(v, d.cluster) /\ d.cluster \in d.visited
           /\ d.cluster \in Clusters(v)
           /\ home \in Owners(v) /\ At(v, home).first = cur /\ At(v, home).dir /\ home \notin W
           /\ Claims(v, W, cl, d.visited, wv)
  <1>1. /\ Books(v, S, cur, pos, {home}, W, Q) /\ cur = First(v, home) /\ d.size = 0
        /\ After(v, cur, d)
        /\ Claims(v, W, cl, IF home = RootPlace THEN {} ELSE d.visited, wv)
    BY Zenon DEF Within
  <1>2. /\ d \in ChainRecord /\ Taken(v, cur, d.count, d.visited) /\ d.count > 0
        /\ d.visited \ {d.cluster} \subseteq DOMAIN v.fat /\ d.cluster = Walk(v, cur)[d.count - 1]
    BY <1>1, Zenon DEF After
  <1>3. d.count \in Nat /\ d.cluster \in Nat
    BY <1>2 DEF ChainRecord
  <1>4. Walk(v, cur)[d.count] = Value(v, d.cluster) /\ d.cluster \in d.visited
    BY <1>2, <1>3, LinkNext
  <1>5. d.visited \subseteq Clusters(v)
    BY <1>2, <1>3, TakenFacts
  <1>6. home \in Staged(v) \cup {RootPlace} /\ home \notin W
    <2>1. {home} \subseteq Staged(v) \cup {RootPlace} /\ {home} \cap W = {}
      BY <1>1, Zenon DEF Books
    <2> QED BY <2>1
  <1>7. home \in Owners(v) /\ At(v, home).first = cur /\ At(v, home).dir
    BY <1>1, <1>6, HomeReached
  <1>8. Claims(v, W, cl, d.visited, wv)
    BY <1>1
  <1> QED BY <1>1, <1>2, <1>3, <1>4, <1>5, <1>6, <1>7, <1>8

(* The chain of a directory goes on.                                       *)
LEMMA DirectoryGoesOn ==
    ASSUME NEW v, IsVolume(v), NEW d, NEW cl, NEW S, NEW cur, NEW pos, NEW home, NEW W, NEW Q, NEW es,
           Within(v, d, es, cl, S, cur, pos, home, W, Q, {}), es = <<>>, home # RootPlace,
           Value(v, d.cluster) \in Clusters(v)
    PROVE  Following(v, [d EXCEPT !.cluster = Value(v, d.cluster)], cl, S, cur, pos, home, W, Q)
  <1> DEFINE x == Value(v, d.cluster)
             n == [d EXCEPT !.cluster = x]
  <1>1. /\ Books(v, S, cur, pos, {home}, W, Q) /\ cur = First(v, home) /\ Rest(v, cur, pos, es)
        /\ cur \notin S /\ S \subseteq cl \cup {0}
    BY Zenon DEF Within
  <1>2. /\ d \in ChainRecord /\ d.count \in Nat /\ d.cluster \in Nat /\ d.count > 0
        /\ Taken(v, cur, d.count, d.visited) /\ d.visited \ {d.cluster} \subseteq DOMAIN v.fat
        /\ d.cluster = Walk(v, cur)[d.count - 1] /\ d.size = 0
        /\ Walk(v, cur)[d.count] = x /\ Claims(v, W, cl, d.visited, {})
    BY DirectoryChain
  <1>3. d.visited \subseteq DOMAIN v.fat
    BY <1>2, LinkNext
  <1>4. x \in Nat
    BY VolumeFacts
  <1> HIDE DEF x
  <1>5. n \in ChainRecord /\ n.cluster = x /\ n.visited = d.visited /\ n.count = d.count /\ n.size = d.size
    BY <1>2, <1>4 DEF ChainRecord
  <1>6. x \in Clusters(v)
    BY DEF x
  <1> HIDE DEF n
  <1>7. Before(v, cur, n)
    <2> HIDE DEF Taken, ChainRecord, Clusters
    <2> QED BY <1>2, <1>3, <1>5, <1>6 DEF Before
  <1>8. pos = Len(Contents(v, cur))
    <2>1. pos \in Nat
      BY <1>1, Zenon DEF Books
    <2> QED BY <1>1, <2>1 DEF Rest
  <1>9. Following(v, n, cl, S, cur, pos, home, W, Q)
    <2> HIDE DEF Books, Claims, First, RootPlace, Before
    <2> QED BY <1>1, <1>2, <1>5, <1>7, <1>8 DEF Following
  <1> QED BY <1>9 DEF n, x

(* The chain of a directory ends: it is claimed.                           *)
LEMMA DirectoryEnds ==
    ASSUME NEW v, IsVolume(v), NEW d, NEW cl, NEW S, NEW cur, NEW pos, NEW home, NEW W, NEW Q, NEW es,
           Within(v, d, es, cl, S, cur, pos, home, W, Q, {}), es = <<>>, home # RootPlace,
           Value(v, d.cluster) \notin Clusters(v), Value(v, d.cluster) >= EndMarker
    PROVE  Between(v, cl, S \cup {cur}, cur, 0, W \cup {home}, Q)
  <1>1. /\ Books(v, S, cur, pos, {home}, W, Q) /\ cur = First(v, home) /\ Rest(v, cur, pos, es)
        /\ cur \notin S /\ S \subseteq cl \cup {0}
    BY Zenon DEF Within
  <1>2. /\ d \in ChainRecord /\ d.count \in Nat /\ d.cluster \in Nat /\ d.count > 0
        /\ Taken(v, cur, d.count, d.visited) /\ d.visited \ {d.cluster} \subseteq DOMAIN v.fat
        /\ d.cluster = Walk(v, cur)[d.count - 1]
        /\ home \in Owners(v) /\ At(v, home).first = cur /\ At(v, home).dir
        /\ Claims(v, W, cl, d.visited, {})
    BY DirectoryChain
  <1>3. Last(v, cur) = Value(v, d.cluster) /\ Cells(v, cur) = d.visited /\ cur \in Clusters(v)
    BY <1>2, ChainStops
  <1>4. Ends(v, cur)
    BY <1>3 DEF Ends
  <1>5. ~Short(v, At(v, home))
    BY <1>2 DEF Short
  <1>6. Claims(v, W \cup {home}, cl, {}, {})
    <2>1. Claims(v, W, cl, {}, d.visited)
      BY <1>2, ClaimsSwap
    <2>2. Cells(v, At(v, home).first) = d.visited /\ Ends(v, At(v, home).first)
      BY <1>2, <1>3, <1>4
    <2> QED BY <1>5, <2>1, <2>2, ClaimsDone
  <1>7. pos = Len(Contents(v, cur))
    <2>1. pos \in Nat
      BY <1>1, Zenon DEF Books
    <2> QED BY <1>1, <2>1 DEF Rest
  <1>8. Books(v, S \cup {cur}, cur, 0, {}, W \cup {home}, Q)
    <2>1. Books(v, S, cur, Len(Contents(v, cur)), {home}, W, Q)
      BY <1>1, <1>7, Zenon
    <2> QED BY <1>1, <2>1, BooksLeave
  <1>9. S \cup {cur} \subseteq cl \cup {0}
    <2>1. cur \in d.visited
      <3>1. d.visited = {Walk(v, cur)[k] : k \in 0 .. d.count - 1}
        BY <1>2, Zenon DEF Taken
      <3>2. 0 \in 0 .. d.count - 1
        BY <1>2
      <3>3. Walk(v, cur)[0] = cur
        BY WalkEquation
      <3> HIDE DEF Walk
      <3> QED BY <3>1, <3>2, <3>3
    <2>2. d.visited \subseteq cl
      BY <1>2 DEF Claims
    <2> QED BY <1>1, <2>1, <2>2
  <1> QED BY <1>6, <1>8, <1>9, Zenon DEF Between

(* The entry that is read next, which is a new one.                        *)
EntryNext(v, es, S, cur, pos, home, W, Q) ==
    /\ cur \in Directories(v) /\ pos \in Nat /\ pos + 1 <= Len(Contents(v, cur))
    /\ Head(es) = Contents(v, cur)[pos + 1] /\ Rest(v, cur, pos + 1, Tail(es))
    /\ Books(v, S, cur, pos, {home}, W, Q) /\ cur \notin S
    /\ At(v, <<cur, pos + 1>>) = Head(es) /\ <<cur, pos + 1>> \in Places(v)
    /\ <<cur, pos + 1>> \notin W \cup {home} \cup Listing(Q)

(* The entries that are left begin with the next one of the directory.     *)
LEMMA NextEntry ==
    ASSUME NEW v, IsVolume(v), NEW d, NEW cl, NEW S, NEW cur, NEW pos, NEW home, NEW W, NEW Q, NEW wv,
           NEW es \in Seq(DirectoryEntry), es # <<>>,
           Within(v, d, es, cl, S, cur, pos, home, W, Q, wv)
    PROVE  EntryNext(v, es, S, cur, pos, home, W, Q)
  <1>1. /\ Books(v, S, cur, pos, {home}, W, Q) /\ cur = First(v, home)
        /\ cur \notin S /\ Rest(v, cur, pos, es)
    BY Zenon DEF Within
  <1>2. pos \in Nat /\ {home} \subseteq Staged(v) \cup {RootPlace}
    BY <1>1, Zenon DEF Books
  <1>3. cur \in Directories(v)
    <2>1. home \in Staged(v) \cup {RootPlace}
      BY <1>2
    <2> QED BY <1>1, <2>1, HomeReached
  <1>4. Contents(v, cur) \in Seq(DirectoryEntry)
    BY ContentsType
  <1>5. /\ pos + Len(es) = Len(Contents(v, cur))
        /\ \A k \in 1 .. Len(es) : es[k] = Contents(v, cur)[pos + k]
    BY <1>1 DEF Rest
  <1> HIDE DEF Contents, DirectoryEntry
  <1>6. /\ Len(es) \in Nat /\ Len(es) > 0 /\ Head(es) = es[1] /\ Len(Tail(es)) = Len(es) - 1
        /\ \A k \in 1 .. Len(es) - 1 : Tail(es)[k] = es[k + 1]
    OBVIOUS
  <1>7. pos + 1 <= Len(Contents(v, cur)) /\ Head(es) = Contents(v, cur)[pos + 1]
    BY <1>2, <1>5, <1>6
  <1>8. Rest(v, cur, pos + 1, Tail(es))
    <2>1. (pos + 1) + Len(Tail(es)) = Len(Contents(v, cur))
      BY <1>2, <1>5, <1>6
    <2>2. ASSUME NEW k \in 1 .. Len(Tail(es))
          PROVE  Tail(es)[k] = Contents(v, cur)[(pos + 1) + k]
      <3>1. k + 1 \in 1 .. Len(es) /\ Tail(es)[k] = es[k + 1] /\ pos + (k + 1) = (pos + 1) + k
        BY <1>2, <1>6
      <3> QED BY <1>5, <3>1
    <2> QED BY <2>1, <2>2 DEF Rest
  <1>9. /\ <<cur, pos + 1>> \in Places(v) /\ At(v, <<cur, pos + 1>>) = Contents(v, cur)[pos + 1]
        /\ <<cur, pos + 1>> \notin W \cup {home} \cup Listing(Q)
    BY <1>1, <1>2, <1>3, <1>7, NextPlace
  <1> QED BY <1>1, <1>2, <1>3, <1>7, <1>8, <1>9, Zenon DEF EntryNext

(* A subdirectory is staged.                                               *)
LEMMA StageKeeps ==
    ASSUME NEW v, IsVolume(v), NEW d, NEW cl, NEW S, NEW cur, NEW pos, NEW home, NEW W, NEW Q, NEW q,
           NEW es \in Seq(DirectoryEntry), es # <<>>,
           Within(v, d, es, cl, S, cur, pos, home, W, Q, {}), Queued(v, q, Q),
           Head(es).dir, Head(es).first >= 2,
           NEW e \in [first : Nat, depth : Nat], e.first = Head(es).first
    PROVE  /\ Within(v, d, Tail(es), cl, S, cur, pos + 1, home, W, Append(Q, <<cur, pos + 1>>), {})
           /\ Queued(v, Append(q, e), Append(Q, <<cur, pos + 1>>))
  <1> DEFINE p == <<cur, pos + 1>>
             X == Staged(v) \cup {RootPlace}
  <1>1. /\ cur = First(v, home) /\ d \in ChainRecord /\ d.size = 0
        /\ home = RootPlace => d.cluster = 0
        /\ home # RootPlace => After(v, cur, d)
        /\ Claims(v, W, cl, IF home = RootPlace THEN {} ELSE d.visited, {}) /\ S \subseteq cl \cup {0}
    BY Zenon DEF Within
  <1>2. /\ cur \in Directories(v) /\ pos \in Nat /\ pos + 1 <= Len(Contents(v, cur))
        /\ Head(es) = Contents(v, cur)[pos + 1] /\ Rest(v, cur, pos + 1, Tail(es))
        /\ Books(v, S, cur, pos, {home}, W, Q) /\ cur \notin S
        /\ At(v, p) = Head(es) /\ p \in Places(v)
    <2>1. EntryNext(v, es, S, cur, pos, home, W, Q)
      BY NextEntry
    <2> QED BY <2>1, Zenon DEF EntryNext
  <1>3. Books(v, S, cur, pos + 1, {home}, W, Append(Q, p))
    <2>1. Contents(v, cur)[pos + 1].dir /\ Contents(v, cur)[pos + 1].first >= 2
      BY <1>2
    <2> QED BY <1>2, <2>1, BooksStage
  <1> HIDE DEF p
  <1>4. Within(v, d, Tail(es), cl, S, cur, pos + 1, home, W, Append(Q, p), {})
    <2> HIDE DEF Books, Claims, First, RootPlace, After, Rest, ChainRecord
    <2> QED BY <1>1, <1>2, <1>3 DEF Within
  <1>5. Queued(v, Append(q, e), Append(Q, p))
    <2>1. p \in X /\ First(v, p) = e.first
      <3>1. p # RootPlace
        BY <1>2, PlaceFacts
      <3>2. p \in Staged(v)
        BY <1>2 DEF Staged, Owners, Empty
      <3> QED BY <1>2, <3>1, <3>2 DEF First
    <2>2. Q \in Seq(X)
      BY <1>2, Zenon DEF Books
    <2> HIDE DEF X
    <2> QED BY <2>1, <2>2, QueuedAppend
  <1> QED BY <1>4, <1>5 DEF p

(* An empty file is passed over.                                           *)
LEMMA EmptyKeeps ==
    ASSUME NEW v, IsVolume(v), NEW d, NEW cl, NEW S, NEW cur, NEW pos, NEW home, NEW W, NEW Q,
           NEW es \in Seq(DirectoryEntry), es # <<>>,
           Within(v, d, es, cl, S, cur, pos, home, W, Q, {}), Empty(Head(es))
    PROVE  Within(v, d, Tail(es), cl, S, cur, pos + 1, home, W, Q, {})
  <1>1. /\ cur = First(v, home) /\ d \in ChainRecord /\ d.size = 0
        /\ home = RootPlace => d.cluster = 0
        /\ home # RootPlace => After(v, cur, d)
        /\ Claims(v, W, cl, IF home = RootPlace THEN {} ELSE d.visited, {}) /\ S \subseteq cl \cup {0}
    BY Zenon DEF Within
  <1>2. /\ cur \in Directories(v) /\ pos \in Nat /\ pos + 1 <= Len(Contents(v, cur))
        /\ Head(es) = Contents(v, cur)[pos + 1] /\ Rest(v, cur, pos + 1, Tail(es))
        /\ Books(v, S, cur, pos, {home}, W, Q) /\ cur \notin S
    <2>1. EntryNext(v, es, S, cur, pos, home, W, Q)
      BY NextEntry
    <2> QED BY <2>1, Zenon DEF EntryNext
  <1>3. Books(v, S, cur, pos + 1, {home}, W, Q)
    <2>1. Empty(Contents(v, cur)[pos + 1])
      BY <1>2
    <2> QED BY <1>2, <2>1, BooksSkip
  <1> HIDE DEF Books, Claims, First, RootPlace, After, Rest, ChainRecord
  <1> QED BY <1>1, <1>2, <1>3 DEF Within

(* What is known of the chain of the file that is followed.                *)
FileNext(v, d, es, cl, cur, pos, home, W, w) ==
    /\ es # <<>> /\ w \in ChainRecord /\ w.count \in Nat /\ w.cluster \in Nat
    /\ Taken(v, Head(es).first, w.count, w.visited) /\ w.visited \subseteq DOMAIN v.fat
    /\ w.cluster = Walk(v, Head(es).first)[w.count] /\ w.size = Head(es).size
    /\ (w.count = 0 \/ w.cluster \in Clusters(v))
    /\ <<cur, pos + 1>> \in Owners(v) /\ At(v, <<cur, pos + 1>>) = Head(es) /\ ~Head(es).dir
    /\ <<cur, pos + 1>> \notin W \cup {home}
    /\ Claims(v, W, cl, IF home = RootPlace THEN {} ELSE d.visited, w.visited)

(* It is the chain of the entry that is read next.                         *)
LEMMA FileChain ==
    ASSUME NEW v, IsVolume(v), NEW d, NEW cl, NEW S, NEW cur, NEW pos, NEW home, NEW W, NEW Q, NEW w,
           NEW es \in Seq(DirectoryEntry),
           Within(v, d, es, cl, S, cur, pos, home, W, Q, w.visited), InFile(v, es, w)
    PROVE  FileNext(v, d, es, cl, cur, pos, home, W, w)
  <1>1. /\ es # <<>> /\ ~Head(es).dir /\ ~Empty(Head(es)) /\ w.size = Head(es).size
        /\ Before(v, Head(es).first, w)
    BY Zenon DEF InFile
  <1>2. /\ w \in ChainRecord /\ Taken(v, Head(es).first, w.count, w.visited)
        /\ w.visited \subseteq DOMAIN v.fat
        /\ w.cluster = Walk(v, Head(es).first)[w.count] /\ (w.count = 0 \/ w.cluster \in Clusters(v))
    BY <1>1, Zenon DEF Before
  <1>3. w.count \in Nat /\ w.cluster \in Nat
    BY <1>2 DEF ChainRecord
  <1>4. /\ At(v, <<cur, pos + 1>>) = Head(es) /\ <<cur, pos + 1>> \in Places(v)
        /\ <<cur, pos + 1>> \notin W \cup {home} \cup Listing(Q)
    <2>1. EntryNext(v, es, S, cur, pos, home, W, Q)
      BY <1>1, NextEntry
    <2> QED BY <2>1, Zenon DEF EntryNext
  <1>5. <<cur, pos + 1>> \in Owners(v)
    BY <1>1, <1>4 DEF Owners
  <1>6. Claims(v, W, cl, IF home = RootPlace THEN {} ELSE d.visited, w.visited)
    BY Zenon DEF Within
  <1>7. <<cur, pos + 1>> \notin W \cup {home}
    BY <1>4
  <1> QED BY <1>1, <1>2, <1>3, <1>4, <1>5, <1>6, <1>7, Zenon DEF FileNext

(* validateFileChainLocked begins.                                         *)
LEMMA FileBegins ==
    ASSUME NEW v, IsVolume(v), NEW es, es # <<>>, ~Head(es).dir, ~Empty(Head(es)),
           NEW w \in ChainRecord, w.visited = {}, w.count = 0, w.cluster = Head(es).first,
           w.size = Head(es).size
    PROVE  InFile(v, es, w)
  <1>1. Before(v, w.cluster, w)
    BY ChainBegins
  <1> HIDE DEF Before, Empty
  <1> QED BY <1>1 DEF InFile

(* The file being followed, with one cluster more.                         *)
FileLonger(v, d, es, cl, S, cur, pos, home, W, Q, w) ==
    /\ Within(v, d, es, cl \cup {w.cluster}, S, cur, pos, home, W, Q, w.visited \cup {w.cluster})
    /\ Taken(v, Head(es).first, w.count + 1, w.visited \cup {w.cluster})
    /\ w.cluster = Walk(v, Head(es).first)[(w.count + 1) - 1] /\ w.count + 1 > 0
    /\ (w.visited \cup {w.cluster}) \ {w.cluster} \subseteq DOMAIN v.fat

(* A cluster of a file is visited.                                         *)
LEMMA FileVisits ==
    ASSUME NEW v, IsVolume(v), NEW d, NEW cl, NEW S, NEW cur, NEW pos, NEW home, NEW W, NEW Q, NEW w,
           NEW es \in Seq(DirectoryEntry),
           Within(v, d, es, cl, S, cur, pos, home, W, Q, w.visited), InFile(v, es, w),
           w.cluster \in Clusters(v), w.cluster \notin w.visited, w.cluster \notin cl
    PROVE  FileLonger(v, d, es, cl, S, cur, pos, home, W, Q, w)
  <1>1. /\ w.count \in Nat /\ Taken(v, Head(es).first, w.count, w.visited)
        /\ w.visited \subseteq DOMAIN v.fat /\ w.cluster = Walk(v, Head(es).first)[w.count]
        /\ Claims(v, W, cl, IF home = RootPlace THEN {} ELSE d.visited, w.visited)
    <2>1. FileNext(v, d, es, cl, cur, pos, home, W, w)
      BY FileChain
    <2> QED BY <2>1, Zenon DEF FileNext
  <1>2. Taken(v, Head(es).first, w.count + 1, w.visited \cup {w.cluster})
    <2>1. Taken(v, Head(es).first, w.count + 1, w.visited \cup {Walk(v, Head(es).first)[w.count]})
      BY <1>1, TakeOne
    <2> QED BY <1>1, <2>1, Zenon
  <1>3. Claims(v, W, cl \cup {w.cluster}, IF home = RootPlace THEN {} ELSE d.visited, w.visited \cup {w.cluster})
    <2> DEFINE dv == IF home = RootPlace THEN {} ELSE d.visited
    <2>1. Claims(v, W, cl, dv, w.visited)
      BY <1>1
    <2> HIDE DEF dv
    <2>2. Claims(v, W, cl \cup {w.cluster}, dv, w.visited \cup {w.cluster})
      BY <2>1, ClaimsTake
    <2> QED BY <2>2 DEF dv
  <1>4. /\ Books(v, S, cur, pos, {home}, W, Q) /\ cur = First(v, home)
        /\ cur \notin S /\ Rest(v, cur, pos, es) /\ d \in ChainRecord /\ d.size = 0
        /\ home = RootPlace => d.cluster = 0
        /\ home # RootPlace => After(v, cur, d)
        /\ S \subseteq cl \cup {0}
    BY Zenon DEF Within
  <1>5. S \subseteq (cl \cup {w.cluster}) \cup {0}
    BY <1>4
  <1>6. Within(v, d, es, cl \cup {w.cluster}, S, cur, pos, home, W, Q, w.visited \cup {w.cluster})
    BY <1>3, <1>4, <1>5, Zenon DEF Within
  <1>7. (w.count + 1) - 1 = w.count /\ w.count + 1 > 0
    BY <1>1
  <1>8. (w.visited \cup {w.cluster}) \ {w.cluster} \subseteq DOMAIN v.fat
    BY <1>1
  <1>9. w.cluster = Walk(v, Head(es).first)[(w.count + 1) - 1]
    BY <1>1, <1>7, Zenon
  <1> QED BY <1>2, <1>6, <1>7, <1>8, <1>9, Zenon DEF FileLonger

(* The chain of a file goes on.                                            *)
LEMMA FileGoesOn ==
    ASSUME NEW v, IsVolume(v), NEW d, NEW cl, NEW S, NEW cur, NEW pos, NEW home, NEW W, NEW Q, NEW w,
           NEW es \in Seq(DirectoryEntry),
           Within(v, d, es, cl, S, cur, pos, home, W, Q, w.visited), InFile(v, es, w),
           w.cluster \in Clusters(v), w.cluster \notin w.visited, w.cluster \notin cl,
           Value(v, w.cluster) \in Clusters(v),
           NEW n \in ChainRecord, n.cluster = Value(v, w.cluster),
           n.visited = w.visited \cup {w.cluster}, n.count = w.count + 1, n.size = w.size
    PROVE  /\ Within(v, d, es, cl \cup {w.cluster}, S, cur, pos, home, W, Q, n.visited)
           /\ InFile(v, es, n)
  <1>1. /\ Within(v, d, es, cl \cup {w.cluster}, S, cur, pos, home, W, Q, n.visited)
        /\ Taken(v, Head(es).first, n.count, n.visited)
        /\ w.cluster = Walk(v, Head(es).first)[n.count - 1] /\ n.count > 0
        /\ n.visited \ {w.cluster} \subseteq DOMAIN v.fat
    <2>1. /\ Within(v, d, es, cl \cup {w.cluster}, S, cur, pos, home, W, Q, w.visited \cup {w.cluster})
          /\ Taken(v, Head(es).first, w.count + 1, w.visited \cup {w.cluster})
          /\ w.cluster = Walk(v, Head(es).first)[(w.count + 1) - 1] /\ w.count + 1 > 0
          /\ (w.visited \cup {w.cluster}) \ {w.cluster} \subseteq DOMAIN v.fat
      <3>1. FileLonger(v, d, es, cl, S, cur, pos, home, W, Q, w)
        BY FileVisits
      <3> QED BY <3>1, Zenon DEF FileLonger
    <2> QED BY <2>1, Zenon
  <1>2. n.count \in Nat
    BY DEF ChainRecord
  <1>3. Walk(v, Head(es).first)[n.count] = Value(v, w.cluster) /\ n.visited \subseteq DOMAIN v.fat
    BY <1>1, <1>2, LinkNext
  <1>4. Before(v, Head(es).first, n)
    <2> HIDE DEF Taken, ChainRecord, Clusters
    <2> QED BY <1>1, <1>3 DEF Before
  <1>5. es # <<>> /\ ~Head(es).dir /\ ~Empty(Head(es)) /\ w.size = Head(es).size
    BY Zenon DEF InFile
  <1>6. InFile(v, es, n)
    <2> HIDE DEF Before, Empty
    <2> QED BY <1>4, <1>5 DEF InFile
  <1> QED BY <1>1, <1>6

(* The chain of a file ends, and is long enough.                           *)
LEMMA FileEnds ==
    ASSUME NEW v, IsVolume(v), NEW d, NEW cl, NEW S, NEW cur, NEW pos, NEW home, NEW W, NEW Q, NEW w,
           NEW es \in Seq(DirectoryEntry),
           Within(v, d, es, cl, S, cur, pos, home, W, Q, w.visited), InFile(v, es, w),
           w.cluster \in Clusters(v), w.cluster \notin w.visited, w.cluster \notin cl,
           Value(v, w.cluster) \notin Clusters(v), Value(v, w.cluster) >= EndMarker,
           w.count + 1 >= w.size
    PROVE  Within(v, d, Tail(es), cl \cup {w.cluster}, S, cur, pos + 1, home, W \cup {<<cur, pos + 1>>}, Q, {})
  <1> DEFINE p == <<cur, pos + 1>>
             V == w.visited \cup {w.cluster}
             first == Head(es).first
             dv == IF home = RootPlace THEN {} ELSE d.visited
             c == cl \cup {w.cluster}
  <1>1. /\ Within(v, d, es, c, S, cur, pos, home, W, Q, V) /\ Taken(v, first, w.count + 1, V)
        /\ w.cluster = Walk(v, first)[(w.count + 1) - 1] /\ w.count + 1 > 0
        /\ V \ {w.cluster} \subseteq DOMAIN v.fat
    <2>1. FileLonger(v, d, es, cl, S, cur, pos, home, W, Q, w)
      BY FileVisits
    <2> QED BY <2>1, Zenon DEF FileLonger
  <1>2. /\ es # <<>> /\ w \in ChainRecord /\ w.count \in Nat /\ w.size = Head(es).size
        /\ p \in Owners(v) /\ At(v, p) = Head(es) /\ ~Head(es).dir
    <2>1. FileNext(v, d, es, cl, cur, pos, home, W, w)
      BY FileChain
    <2> QED BY <2>1, Zenon DEF FileNext
  <1>3. w.count + 1 \in Nat /\ w.size \in Nat
    BY <1>2 DEF ChainRecord
  <1>4. ~Empty(Head(es))
    BY Zenon DEF InFile
  <1> HIDE DEF V, first, p, c
  <1>5. Last(v, first) = Value(v, w.cluster) /\ Cells(v, first) = V /\ first \in Clusters(v)
    BY <1>1, <1>3, ChainStops
  <1>6. Cardinality(V) = w.count + 1
    BY <1>1, Zenon DEF Taken
  <1>7. Ends(v, At(v, p).first) /\ Cells(v, At(v, p).first) = V
    BY <1>2, <1>5 DEF Ends, first
  <1>8. ~Short(v, At(v, p))
    <2>1. ~(Cardinality(V) < At(v, p).size)
      BY <1>2, <1>3, <1>6
    <2> QED BY <1>7, <2>1 DEF Short
  <1>9. /\ cur = First(v, home) /\ d \in ChainRecord /\ d.size = 0
        /\ home = RootPlace => d.cluster = 0
        /\ home # RootPlace => After(v, cur, d)
        /\ Claims(v, W, c, dv, V) /\ S \subseteq c \cup {0}
    BY <1>1, Zenon DEF Within
  <1> HIDE DEF dv
  <1>10. Claims(v, W \cup {p}, c, dv, {})
    BY <1>7, <1>8, <1>9, ClaimsDone
  <1>11. /\ cur \in Directories(v) /\ pos \in Nat /\ pos + 1 <= Len(Contents(v, cur))
         /\ Head(es) = Contents(v, cur)[pos + 1] /\ Rest(v, cur, pos + 1, Tail(es))
         /\ Books(v, S, cur, pos, {home}, W, Q) /\ cur \notin S
    <2>1. EntryNext(v, es, S, cur, pos, home, W, Q)
      BY <1>1, <1>2, NextEntry
    <2> QED BY <2>1, Zenon DEF EntryNext
  <1>12. Books(v, S, cur, pos + 1, {home}, W \cup {p}, Q)
    <2>1. ~Contents(v, cur)[pos + 1].dir /\ ~Empty(Contents(v, cur)[pos + 1])
      BY <1>2, <1>4, <1>11
    <2> QED BY <1>11, <2>1, BooksFile DEF p
  <1>13. Within(v, d, Tail(es), c, S, cur, pos + 1, home, W \cup {p}, Q, {})
    BY <1>9, <1>10, <1>11, <1>12, Zenon DEF Within, dv
  <1> QED BY <1>13 DEF p, c

(* The scan is over.                                                       *)
LEMMA ScanOver ==
    ASSUME NEW v, IsVolume(v), NEW cl, NEW S, NEW cur, NEW pos, NEW W, NEW Q,
           Between(v, cl, S, cur, pos, W, Q), Q = <<>>
    PROVE  AllClaimed(v, cl)
  <1>1. Books(v, S, cur, pos, {}, W, Q) /\ Claims(v, W, cl, {}, {})
    BY Zenon DEF Between
  <1>2. W = Owners(v)
    BY <1>1, BooksComplete
  <1>3. Claims(v, Owners(v), cl, {}, {})
    BY <1>1, <1>2
  <1> QED BY <1>3, ClaimsComplete

-----------------------------------------------------------------------------
(* What the mount stops at                                                 *)

(* Two owners have a cluster in common.                                    *)
LEMMA Crossing ==
    ASSUME NEW v, IsVolume(v), NEW p \in Owners(v), NEW q \in Owners(v), q # p,
           NEW n \in Nat, NEW V, Taken(v, At(v, p).first, n, V), V \subseteq DOMAIN v.fat,
           Walk(v, At(v, p).first)[n] \in Clusters(v),
           Walk(v, At(v, p).first)[n] \in Cells(v, At(v, q).first)
    PROVE  Defective(v, "cross_link")
  <1> DEFINE first == At(v, p).first
  <1>1. Walk(v, first)[n] \in Cells(v, first)
    BY Meets
  <1> HIDE DEF Cells, Owners
  <1>2. CrossLinked(v)
    BY <1>1 DEF CrossLinked
  <1> QED BY <1>2, DefectClasses

(* A cluster that a chain comes to and that cannot be visited.             *)
LEMMA VisitDefect ==
    ASSUME NEW v, IsVolume(v), NEW p \in Owners(v), NEW first, first = At(v, p).first,
           NEW n \in Nat, NEW V, Taken(v, first, n, V), V \subseteq DOMAIN v.fat,
           NEW c, c = Walk(v, first)[n], n = 0 \/ c \in Clusters(v)
    PROVE  /\ c \notin Clusters(v) => Defective(v, "out_of_range")
           /\ c \in V => Defective(v, "chain_loop")
           /\ \A q \in Owners(v) : c \in Clusters(v) /\ q # p /\ c \in Cells(v, At(v, q).first)
                                     => Defective(v, "cross_link")
  <1>1. ASSUME c \notin Clusters(v)
        PROVE  Defective(v, "out_of_range")
    <2>1. c = first
      BY <1>1, WalkEquation
    <2> QED BY <1>1, <2>1, DefectClasses
  <1>2. ASSUME c \in V
        PROVE  Defective(v, "chain_loop")
    <2>1. Walk(v, first)[n] \in V
      BY <1>2
    <2>2. Loops(v, first)
      BY <2>1, ChainLoops
    <2> QED BY <2>2, DefectClasses
  <1>3. ASSUME NEW q \in Owners(v), c \in Clusters(v), q # p, c \in Cells(v, At(v, q).first)
        PROVE  Defective(v, "cross_link")
    BY <1>3, Crossing
  <1> QED BY <1>1, <1>2, <1>3

(* A link that a chain cannot go on with, or may not end with.             *)
LEMMA LinkDefects ==
    ASSUME NEW v, IsVolume(v), NEW p \in Owners(v), NEW first, first = At(v, p).first,
           NEW n \in Nat, NEW V, Taken(v, first, n, V), n > 0,
           NEW c, c = Walk(v, first)[n - 1], V \ {c} \subseteq DOMAIN v.fat,
           NEW link, link = DecodeClusterLink(v, Value(v, c))
    PROVE  /\ link \in {"free", "bad"} => Defective(v, "corrupt")
           /\ link = "wild" => Defective(v, "out_of_range")
           /\ link = "next" /\ n = v.count => Defective(v, "chain_loop")
           /\ link = "end" /\ ~At(v, p).dir /\ n < At(v, p).size => Defective(v, "corrupt")
  <1>1. Value(v, c) \in Nat
    BY VolumeFacts
  <1>2. ASSUME link \in {"free", "bad"}
        PROVE  Defective(v, "corrupt")
    <2>1. Value(v, c) \in {0, BadMarker} /\ Value(v, c) \notin Clusters(v)
      BY <1>1, <1>2, LinkMeans
    <2>2. Last(v, first) = Value(v, c)
      BY <2>1, ChainStops
    <2> QED BY <2>1, <2>2, DefectClasses
  <1>3. ASSUME link = "wild"
        PROVE  Defective(v, "out_of_range")
    <2>1. HasWildLink(v)
      BY <1>3, WildLink
    <2> QED BY <2>1, DefectClasses
  <1>4. ASSUME link = "next", n = v.count
        PROVE  Defective(v, "chain_loop")
    <2>1. Value(v, c) \in Clusters(v)
      BY <1>1, <1>4, GoesOn
    <2>2. Loops(v, first)
      BY <1>4, <2>1, ChainFills
    <2> QED BY <2>2, DefectClasses
  <1>5. ASSUME link = "end", ~At(v, p).dir, n < At(v, p).size
        PROVE  Defective(v, "corrupt")
    <2>1. Value(v, c) \notin Clusters(v)
      BY <1>1, <1>5, LinkMeans
    <2>2. Cells(v, first) = V
      BY <2>1, ChainStops
    <2>3. Cardinality(V) = n
      BY Zenon DEF Taken
    <2>4. Short(v, At(v, p))
      BY <1>5, <2>2, <2>3 DEF Short
    <2> QED BY <2>4, DefectClasses
  <1> QED BY <1>2, <1>3, <1>4, <1>5

(* The defects at the next cluster of a directory.                         *)
LEMMA DirectoryVisitDefect ==
    ASSUME NEW v, IsVolume(v), NEW d, NEW cl, NEW S, NEW cur, NEW pos, NEW home, NEW W, NEW Q,
           Following(v, d, cl, S, cur, pos, home, W, Q)
    PROVE  /\ d.cluster \notin Clusters(v) => Defective(v, "out_of_range")
           /\ d.cluster \in d.visited => Defective(v, "chain_loop")
           /\ d.cluster \in Clusters(v) /\ d.cluster \notin d.visited /\ d.cluster \in cl
                 => Defective(v, "cross_link")
  <1> DEFINE c == d.cluster
  <1>1. /\ Books(v, S, cur, pos, {home}, W, Q) /\ home # RootPlace /\ cur = First(v, home)
        /\ Claims(v, W, cl, d.visited, {}) /\ Before(v, cur, d)
    BY Zenon DEF Following
  <1>2. /\ d \in ChainRecord /\ Taken(v, cur, d.count, d.visited) /\ d.visited \subseteq DOMAIN v.fat
        /\ c = Walk(v, cur)[d.count] /\ (d.count = 0 \/ c \in Clusters(v))
    BY <1>1, Zenon DEF Before
  <1>3. d.count \in Nat
    BY <1>2 DEF ChainRecord
  <1>4. W \subseteq Owners(v) /\ {home} \subseteq Staged(v) \cup {RootPlace} /\ {home} \cap W = {}
    BY <1>1, Zenon DEF Books
  <1>5. home \in Owners(v) /\ cur = At(v, home).first
    <2>1. home \in Staged(v) \cup {RootPlace}
      BY <1>4
    <2> QED BY <1>1, <2>1, HomeReached
  <1>6. c \in cl /\ c \notin d.visited => \E q \in W : c \in Cells(v, At(v, q).first)
    <2>1. cl = (UNION {Cells(v, At(v, q).first) : q \in W}) \cup d.visited \cup {}
      BY <1>1, Zenon DEF Claims
    <2> QED BY <2>1
  <1> HIDE DEF c
  <1>7. /\ c \notin Clusters(v) => Defective(v, "out_of_range")
        /\ c \in d.visited => Defective(v, "chain_loop")
        /\ \A q \in Owners(v) : c \in Clusters(v) /\ q # home /\ c \in Cells(v, At(v, q).first)
                                  => Defective(v, "cross_link")
    BY <1>2, <1>3, <1>5, VisitDefect
  <1>8. \A q \in W : q \in Owners(v) /\ q # home
    BY <1>4
  <1> QED BY <1>6, <1>7, <1>8 DEF c

(* The defects of a link of a directory.                                   *)
LEMMA DirectoryLinkDefect ==
    ASSUME NEW v, IsVolume(v), NEW d, NEW cl, NEW S, NEW cur, NEW pos, NEW home, NEW W, NEW Q, NEW es,
           Within(v, d, es, cl, S, cur, pos, home, W, Q, {}), home # RootPlace,
           NEW link, link = DecodeClusterLink(v, Value(v, d.cluster))
    PROVE  /\ link \in {"free", "bad"} => Defective(v, "corrupt")
           /\ link = "wild" => Defective(v, "out_of_range")
           /\ link = "next" /\ d.count = v.count => Defective(v, "chain_loop")
  <1>1. /\ d.count \in Nat /\ d.count > 0 /\ Taken(v, cur, d.count, d.visited)
        /\ d.visited \ {d.cluster} \subseteq DOMAIN v.fat /\ d.cluster = Walk(v, cur)[d.count - 1]
        /\ home \in Owners(v) /\ At(v, home).first = cur
    BY DirectoryChain
  <1> QED BY <1>1, LinkDefects

(* The defects at the next cluster of a file.                              *)
LEMMA FileVisitDefect ==
    ASSUME NEW v, IsVolume(v), NEW d, NEW cl, NEW S, NEW cur, NEW pos, NEW home, NEW W, NEW Q, NEW w,
           NEW es \in Seq(DirectoryEntry),
           Within(v, d, es, cl, S, cur, pos, home, W, Q, w.visited), InFile(v, es, w)
    PROVE  /\ w.cluster \notin Clusters(v) => Defective(v, "out_of_range")
           /\ w.cluster \in w.visited => Defective(v, "chain_loop")
           /\ w.cluster \in Clusters(v) /\ w.cluster \notin w.visited /\ w.cluster \in cl
                 => Defective(v, "cross_link")
  <1> DEFINE c == w.cluster
             first == Head(es).first
             p == <<cur, pos + 1>>
             dv == IF home = RootPlace THEN {} ELSE d.visited
  <1>1. /\ w.count \in Nat /\ Taken(v, first, w.count, w.visited) /\ w.visited \subseteq DOMAIN v.fat
        /\ c = Walk(v, first)[w.count] /\ (w.count = 0 \/ c \in Clusters(v))
        /\ p \in Owners(v) /\ At(v, p) = Head(es) /\ p \notin W \cup {home}
        /\ Claims(v, W, cl, dv, w.visited)
    <2>1. FileNext(v, d, es, cl, cur, pos, home, W, w)
      BY FileChain
    <2> QED BY <2>1, Zenon DEF FileNext
  <1>2. W \subseteq Owners(v)
    BY Zenon DEF Within, Books
  <1>3. home # RootPlace => home \in Owners(v) /\ dv \subseteq Cells(v, At(v, home).first)
    <2> SUFFICES ASSUME home # RootPlace
                 PROVE  home \in Owners(v) /\ dv \subseteq Cells(v, At(v, home).first)
      OBVIOUS
    <2>1. d.count \in Nat /\ Taken(v, cur, d.count, d.visited) /\ home \in Owners(v) /\ At(v, home).first = cur
      BY DirectoryChain
    <2>2. d.visited \subseteq Cells(v, cur)
      BY <2>1, TakenFacts
    <2> QED BY <2>1, <2>2
  <1>4. home = RootPlace => dv = {}
    OBVIOUS
  <1>5. cl = (UNION {Cells(v, At(v, q).first) : q \in W}) \cup dv \cup w.visited
    BY <1>1, Zenon DEF Claims
  <1> HIDE DEF c, p, dv
  <1>6. c \in cl /\ c \notin w.visited
           => \E q \in Owners(v) : q # p /\ c \in Cells(v, At(v, q).first)
    <2> HIDE DEF Cells, At, Owners
    <2> QED BY <1>1, <1>2, <1>3, <1>4, <1>5
  <1>7. first = At(v, p).first
    BY <1>1
  <1> HIDE DEF first
  <1>8. /\ c \notin Clusters(v) => Defective(v, "out_of_range")
        /\ c \in w.visited => Defective(v, "chain_loop")
        /\ \A q \in Owners(v) : c \in Clusters(v) /\ q # p /\ c \in Cells(v, At(v, q).first)
                                  => Defective(v, "cross_link")
    <2>1. /\ w.count \in Nat /\ Taken(v, first, w.count, w.visited) /\ w.visited \subseteq DOMAIN v.fat
          /\ c = Walk(v, first)[w.count] /\ (w.count = 0 \/ c \in Clusters(v)) /\ p \in Owners(v)
      BY <1>1
    <2>2. c \notin Clusters(v) => Defective(v, "out_of_range")
      BY <1>7, <2>1, VisitDefect
    <2>3. c \in w.visited => Defective(v, "chain_loop")
      BY <1>7, <2>1, VisitDefect
    <2>4. ASSUME NEW q \in Owners(v), c \in Clusters(v), q # p, c \in Cells(v, At(v, q).first)
          PROVE  Defective(v, "cross_link")
      <3>1. Walk(v, At(v, p).first)[w.count] = c /\ Taken(v, At(v, p).first, w.count, w.visited)
        BY <1>7, <2>1
      <3> QED BY <2>1, <2>4, <3>1, Crossing
    <2> QED BY <2>2, <2>3, <2>4
  <1> QED BY <1>6, <1>8 DEF c

(* The defects of a link of a file.                                        *)
LEMMA FileLinkDefect ==
    ASSUME NEW v, IsVolume(v), NEW d, NEW cl, NEW S, NEW cur, NEW pos, NEW home, NEW W, NEW Q, NEW w,
           NEW es \in Seq(DirectoryEntry),
           Within(v, d, es, cl, S, cur, pos, home, W, Q, w.visited), InFile(v, es, w),
           w.cluster \in Clusters(v), w.cluster \notin w.visited, w.cluster \notin cl,
           NEW link, link = DecodeClusterLink(v, Value(v, w.cluster))
    PROVE  /\ link \in {"free", "bad"} => Defective(v, "corrupt")
           /\ link = "wild" => Defective(v, "out_of_range")
           /\ link = "next" /\ w.count + 1 = v.count => Defective(v, "chain_loop")
           /\ link = "end" /\ w.count + 1 < w.size => Defective(v, "corrupt")
  <1> DEFINE first == Head(es).first
             p == <<cur, pos + 1>>
             n == w.count + 1
             V == w.visited \cup {w.cluster}
  <1>1. /\ w.count \in Nat /\ p \in Owners(v) /\ At(v, p) = Head(es) /\ ~Head(es).dir
        /\ w.size = Head(es).size
    <2>1. FileNext(v, d, es, cl, cur, pos, home, W, w)
      BY FileChain
    <2> QED BY <2>1, Zenon DEF FileNext
  <1>2. /\ Taken(v, first, n, V) /\ w.cluster = Walk(v, first)[n - 1] /\ n > 0
        /\ V \ {w.cluster} \subseteq DOMAIN v.fat
    <2>1. FileLonger(v, d, es, cl, S, cur, pos, home, W, Q, w)
      BY FileVisits
    <2> QED BY <2>1, Zenon DEF FileLonger
  <1>3. n \in Nat /\ first = At(v, p).first
    BY <1>1
  <1> HIDE DEF first, p, n, V
  <1>4. /\ link \in {"free", "bad"} => Defective(v, "corrupt")
        /\ link = "wild" => Defective(v, "out_of_range")
        /\ link = "next" /\ n = v.count => Defective(v, "chain_loop")
        /\ link = "end" /\ ~At(v, p).dir /\ n < At(v, p).size => Defective(v, "corrupt")
    BY <1>1, <1>2, <1>3, LinkDefects
  <1> QED BY <1>1, <1>4 DEF n

-----------------------------------------------------------------------------
(* Counting                                                                *)

(* The clusters of a volume.                                               *)
LEMMA ClustersFinite ==
    ASSUME NEW v, IsVolume(v)
    PROVE  IsFiniteSet(Clusters(v)) /\ Cardinality(Clusters(v)) = v.count
  <1>1. v.count \in Nat
    BY VolumeFacts
  <1>2. 2 \in Int /\ v.count + 1 \in Int
    BY <1>1
  <1>3. IsFiniteSet(2 .. (v.count + 1))
        /\ Cardinality(2 .. (v.count + 1)) = IF 2 > v.count + 1 THEN 0 ELSE (v.count + 1) - 2 + 1
    BY <1>2, FS_Interval, Zenon
  <1>4. Cardinality(2 .. (v.count + 1)) = v.count
    BY <1>1, <1>3
  <1> QED BY <1>3, <1>4 DEF Clusters

(* The free clusters below k.                                              *)
FreeBelow(v, k) == {c \in 2 .. (k - 1) : Value(v, c) = 0}

(* They are clusters, and there are finitely many.                         *)
LEMMA FreeFinite ==
    ASSUME NEW v, IsVolume(v), NEW k \in 2 .. (v.count + 2)
    PROVE  /\ IsFiniteSet(FreeBelow(v, k)) /\ FreeBelow(v, k) \subseteq Clusters(v)
           /\ Cardinality(FreeBelow(v, k)) \in 0 .. v.count
  <1>1. v.count \in Nat
    BY VolumeFacts
  <1>2. FreeBelow(v, k) \subseteq Clusters(v)
    BY <1>1 DEF FreeBelow, Clusters
  <1> HIDE DEF FreeBelow, Clusters
  <1>3. IsFiniteSet(FreeBelow(v, k)) /\ Cardinality(FreeBelow(v, k)) <= v.count
    BY <1>2, ClustersFinite, FS_Subset
  <1>4. Cardinality(FreeBelow(v, k)) \in Nat
    BY <1>3, FS_CardinalityType
  <1> QED BY <1>1, <1>2, <1>3, <1>4

(* Nothing is counted at first.                                            *)
LEMMA CountBegins ==
    ASSUME NEW v, IsVolume(v)
    PROVE  Counted(v, 2, 0)
  <1>1. v.count \in Nat
    BY VolumeFacts
  <1>2. 2 .. (2 - 1) = {} /\ 2 \in 2 .. (v.count + 2)
    BY <1>1
  <1>3. {c \in 2 .. (2 - 1) : Value(v, c) = 0} = {}
    BY <1>2
  <1>4. Cardinality({}) = 0
    BY FS_EmptySet
  <1> QED BY <1>2, <1>3, <1>4 DEF Counted

(* One cluster more is looked at.                                          *)
LEMMA CountOn ==
    ASSUME NEW v, IsVolume(v), NEW k, NEW n, Counted(v, k, n), k \in Clusters(v),
           DecodeClusterLink(v, Value(v, k)) # "wild",
           NEW m, m = IF Value(v, k) = 0 THEN n + 1 ELSE n
    PROVE  Counted(v, k + 1, m)
  <1>1. v.count \in Nat
    BY VolumeFacts
  <1>2. k \in 2 .. (v.count + 2)
    BY Zenon DEF Counted
  <1>3. k \in Nat /\ k + 1 \in 2 .. (v.count + 2)
    BY <1>1, <1>2 DEF Clusters
  <1>4. \A c \in 2 .. (k - 1) : DecodeClusterLink(v, Value(v, c)) # "wild"
    BY Zenon DEF Counted
  <1>5. n = Cardinality(FreeBelow(v, k))
    BY Zenon DEF Counted, FreeBelow
  <1>6. \A c \in 2 .. ((k + 1) - 1) : c = k \/ c \in 2 .. (k - 1)
    BY <1>3
  <1>7. \A c \in 2 .. ((k + 1) - 1) : DecodeClusterLink(v, Value(v, c)) # "wild"
    BY <1>4, <1>6
  <1>8. m = Cardinality(FreeBelow(v, k + 1))
    <2>1. CASE Value(v, k) = 0
      <3>1. FreeBelow(v, k + 1) = FreeBelow(v, k) \cup {k} /\ k \notin FreeBelow(v, k)
        BY <1>2, <1>3, <2>1 DEF FreeBelow
      <3>2. IsFiniteSet(FreeBelow(v, k))
        BY <1>2, FreeFinite
      <3>3. Cardinality(FreeBelow(v, k) \cup {k}) = Cardinality(FreeBelow(v, k)) + 1
        BY <3>1, <3>2, FS_AddElement
      <3> QED BY <1>5, <2>1, <3>1, <3>3
    <2>2. CASE Value(v, k) # 0
      <3>1. FreeBelow(v, k + 1) = FreeBelow(v, k)
        BY <1>2, <1>3, <2>2 DEF FreeBelow
      <3> QED BY <1>5, <2>2, <3>1
    <2> QED BY <2>1, <2>2
  <1> QED BY <1>3, <1>7, <1>8, Zenon DEF Counted, FreeBelow

(* The count is in range.                                                  *)
LEMMA CountBound ==
    ASSUME NEW v, IsVolume(v), NEW k, NEW n, Counted(v, k, n)
    PROVE  n \in 0 .. v.count
  <1>1. k \in 2 .. (v.count + 2) /\ n = Cardinality(FreeBelow(v, k))
    BY Zenon DEF Counted, FreeBelow
  <1> QED BY <1>1, FreeFinite

(* All clusters are looked at.                                             *)
LEMMA CountDone ==
    ASSUME NEW v, IsVolume(v), NEW k, NEW n, Counted(v, k, n), k \notin Clusters(v)
    PROVE  ~HasWildLink(v) /\ n = FreeCount(v)
  <1> DEFINE T == {c \in DOMAIN v.fat : v.fat[c] # 0}
  <1>1. v.count \in Nat /\ IsFiniteSet(DOMAIN v.fat)
    BY VolumeFacts
  <1>2. /\ k \in 2 .. (v.count + 2) /\ n = Cardinality(FreeBelow(v, k))
        /\ \A c \in 2 .. (k - 1) : DecodeClusterLink(v, Value(v, c)) # "wild"
    BY Zenon DEF Counted, FreeBelow
  <1>3. k = v.count + 2
    BY <1>1, <1>2 DEF Clusters
  <1>4. 2 .. (k - 1) = Clusters(v)
    BY <1>1, <1>3 DEF Clusters
  <1>5. DOMAIN v.fat \subseteq Clusters(v)
    BY Zenon DEF IsVolume
  <1> HIDE DEF Clusters
  <1>6. \A c \in DOMAIN v.fat : Value(v, c) = v.fat[c]
    BY DEF Value
  <1>7. ~HasWildLink(v)
    BY <1>2, <1>4, <1>5, <1>6 DEF HasWildLink
  <1>8. FreeBelow(v, k) = Clusters(v) \ T
    BY <1>4, <1>5, <1>6 DEF FreeBelow, Value
  <1>9. T \subseteq Clusters(v)
    BY <1>5
  <1> HIDE DEF T
  <1>10. IsFiniteSet(T) /\ Cardinality(Clusters(v) \ T) = v.count - Cardinality(T)
    <2>1. IsFiniteSet(T)
      BY <1>9, ClustersFinite, FS_Subset
    <2>2. Clusters(v) \cap T = T
      BY <1>9
    <2>3. Cardinality(Clusters(v) \ T) = Cardinality(Clusters(v)) - Cardinality(Clusters(v) \cap T)
      BY ClustersFinite, FS_Difference, Zenon
    <2> QED BY <2>1, <2>2, <2>3, ClustersFinite
  <1>11. n = FreeCount(v)
    BY <1>2, <1>8, <1>10 DEF FreeCount, T
  <1> QED BY <1>7, <1>11

-----------------------------------------------------------------------------
(* The invariant of the mount                                              *)

(* What the mount does before it counts.                                   *)
Scanning == {"boot", "scan", "cluster", "entry", "dirlink", "file"}

(* No defect is counted.                                                   *)
NoCounts == [chain_loop |-> 0, cross_link |-> 0, out_of_range |-> 0]

(* The bounds of the staging tables; a file that is followed has a place.  *)
MountBounds ==
    /\ pc \in Scanning \cup {"off", "count", "mounted", "quarantined", "failed"}
    /\ staged \in 0..MaximumDirectories /\ Len(files) \in 0..MaximumFiles
    /\ pc = "file" => Len(files) < MaximumFiles
    /\ claimed \subseteq Clusters(vol) /\ free \in 0..vol.count
    /\ reason \in Quarantinable \cup {"none", "io", "namespace"}

(* Nothing is counted and no read has failed while the mount goes on.      *)
MountClean ==
    /\ pc \in Scanning \cup {"count", "mounted"} => counters = NoCounts
    /\ pc \in Scanning \cup {"count"} => failures = 0
    /\ pc \in Scanning => free = 0

(* The books and the claims are in order while directories are scanned.    *)
MountScan ==
    pc \in Scanning =>
        \E S, cur, pos, home, W, Q :
            Scan(vol, pc, queue, dir, walk, todo, claimed, S, cur, pos, home, W, Q)

(* Every chain is claimed while free clusters are counted.                 *)
MountCount ==
    pc = "count" =>
        AllClaimed(vol, claimed) /\ walk \in ChainRecord /\ Counted(vol, walk.cluster, free)

(* The inductive invariant of the mount.                                   *)
MountInv ==
    /\ pc = "off" => vol = NoVolume
    /\ MountBounds /\ MountClean /\ MountScan /\ MountCount
    /\ MountedSound /\ QuarantineJust

(* The mount begins.                                                       *)
LEMMA FreshMount ==
    Backend /\ ((pc = "off" /\ vol = NoVolume) \/ (pc = "boot" /\ IsVolume(vol))) => MountInv
  <1> SUFFICES ASSUME Backend, (pc = "off" /\ vol = NoVolume) \/ (pc = "boot" /\ IsVolume(vol))
               PROVE  MountInv
    OBVIOUS
  <1>1. /\ queue = <<[first |-> 0, depth |-> 0]>> /\ staged = 1 /\ claimed = {} /\ free = 0 /\ files = <<>>
        /\ counters = NoCounts /\ reason = "none" /\ failures = 0
    BY DEF Backend, NoCounts
  <1>2. pc \in {"off", "boot"} /\ vol.count \in Nat
    <2>1. CASE pc = "off"
      BY <2>1 DEF NoVolume
    <2>2. CASE pc # "off"
      BY <2>2, VolumeFacts
    <2> QED BY <2>1, <2>2
  <1>3. MountBounds
    <2>1. MaximumDirectories \in Nat /\ MaximumDirectories > 0 /\ MaximumFiles \in Nat
      BY BootFatAssumption
    <2>2. Len(files) = 0
      BY <1>1
    <2> QED BY <1>1, <1>2, <2>1, <2>2 DEF MountBounds, Scanning
  <1>4. MountClean
    BY <1>1 DEF MountClean
  <1>5. MountScan
    <2> SUFFICES ASSUME pc = "boot", IsVolume(vol)
                 PROVE  MountScan
      BY <1>2 DEF MountScan, Scanning
    <2>1. Books(vol, {}, 0, 0, {}, {}, <<RootPlace>>)
      BY BooksStart
    <2>2. Claims(vol, {}, {}, {}, {})
      BY DEF Claims
    <2>3. Between(vol, claimed, {}, 0, 0, {}, <<RootPlace>>)
      BY <1>1, <2>1, <2>2 DEF Between
    <2>4. Queued(vol, queue, <<RootPlace>>)
      <3> DEFINE E == [first : Nat, depth : Nat]
                 e == [first |-> 0, depth |-> 0]
      <3>1. e \in E /\ e.first = 0
        OBVIOUS
      <3>2. First(vol, RootPlace) = 0
        BY DEF First
      <3> HIDE DEF E, e, RootPlace, First
      <3>3. /\ queue = <<e>> /\ <<e>> \in Seq(E) /\ Len(<<e>>) = 1 /\ Len(<<RootPlace>>) = 1
            /\ <<e>>[1] = e /\ <<RootPlace>>[1] = RootPlace
        BY <1>1, <3>1 DEF e
      <3>4. \A k \in 1 .. 1 : k = 1
        OBVIOUS
      <3> QED BY <3>1, <3>2, <3>3, <3>4 DEF Queued, E
    <2>5. Scan(vol, pc, queue, dir, walk, todo, claimed, {}, 0, 0, RootPlace, {}, <<RootPlace>>)
      <3> HIDE DEF Between, Queued, RootPlace
      <3> QED BY <2>3, <2>4 DEF Scan
    <2> QED BY <2>5, Zenon DEF MountScan
  <1>6. MountCount /\ MountedSound /\ QuarantineJust
    BY <1>2 DEF MountCount, MountedSound, QuarantineJust
  <1>7. pc = "off" => vol = NoVolume
    OBVIOUS
  <1> HIDE DEF MountBounds, MountClean, MountScan, MountCount, MountedSound, QuarantineJust
  <1> QED BY <1>3, <1>4, <1>5, <1>6, <1>7 DEF MountInv

(* A step of the scan.                                                     *)
LEMMA MountMoves ==
    ASSUME MountInv, pc \in Scanning, pc' \in Scanning, vol' = vol, counters' = counters,
           failures' = failures, free' = free, reason' = reason,
           staged' \in 0..MaximumDirectories, Len(files') \in 0..MaximumFiles,
           pc' = "file" => Len(files') < MaximumFiles, claimed' \subseteq Clusters(vol),
           \E S, cur, pos, home, W, Q :
              Scan(vol, pc', queue', dir', walk', todo', claimed', S, cur, pos, home, W, Q)
    PROVE  MountInv'
  <1>1. MountBounds'
    BY DEF MountInv, MountBounds
  <1>2. MountClean'
    BY DEF MountInv, MountClean
  <1>3. MountScan'
    BY DEF MountScan
  <1>4. MountCount' /\ MountedSound' /\ QuarantineJust' /\ pc' # "off"
    BY DEF Scanning, MountCount, MountedSound, QuarantineJust
  <1> HIDE DEF MountBounds, MountClean, MountScan, MountCount, MountedSound, QuarantineJust
  <1> QED BY <1>1, <1>2, <1>3, <1>4 DEF MountInv

(* The mount stops: with a defect that the volume has, or with an error    *)
(* that is none of the volume's.                                           *)
LEMMA MountStops ==
    ASSUME MountInv, IsVolume(vol), pc \in Scanning \cup {"count"}, NEW err, Abort(err),
           err \in Quarantinable \cup {"io", "namespace"},
           err \in Quarantinable => Defective(vol, err) /\ failures' = failures
    PROVE  MountInv'
  <1>1. /\ reason' = err /\ vol' = vol
        /\ counters' = IF err \in DOMAIN counters THEN [counters EXCEPT ![err] = counters[err] + 1] ELSE counters
        /\ \/ /\ err \in Quarantinable /\ pc' = "quarantined" /\ claimed' = {} /\ free' = 0
              /\ files' = <<>> /\ staged' = 0
           \/ /\ err \notin Quarantinable /\ pc' = "failed" /\ claimed' = claimed /\ free' = free
              /\ files' = files /\ staged' = staged
    BY DEF Abort
  <1>2. /\ staged \in 0..MaximumDirectories /\ Len(files) \in 0..MaximumFiles
        /\ claimed \subseteq Clusters(vol) /\ free \in 0..vol.count
        /\ counters = NoCounts /\ failures = 0
    BY DEF MountInv, MountBounds, MountClean
  <1>3. vol.count \in Nat /\ MaximumFiles \in Nat /\ MaximumDirectories \in Nat
    BY VolumeFacts, BootFatAssumption
  <1>4. MountBounds'
    <2>1. CASE err \in Quarantinable
      <3>1. Len(files') = 0
        BY <1>1, <2>1
      <3> QED BY <1>1, <1>3, <2>1, <3>1 DEF MountBounds
    <2>2. CASE err \notin Quarantinable
      <3> HIDE DEF Quarantinable
      <3> QED BY <1>1, <1>2, <2>2 DEF MountBounds
    <2> QED BY <2>1, <2>2
  <1>5. QuarantineJust'
    <2> SUFFICES ASSUME err \in Quarantinable
                 PROVE  QuarantineJust'
      BY <1>1 DEF QuarantineJust
    <2>1. /\ DOMAIN NoCounts = {"chain_loop", "cross_link", "out_of_range"}
          /\ \A k \in DOMAIN NoCounts : NoCounts[k] = 0
      BY DEF NoCounts
    <2>2. \A k \in DOMAIN counters' : counters'[k] = IF k = err THEN 1 ELSE 0
      <3> HIDE DEF NoCounts
      <3>1. CASE err \in DOMAIN NoCounts
        <4>1. NoCounts[err] + 1 = 1
          BY <2>1, <3>1
        <4>2. counters' = [NoCounts EXCEPT ![err] = NoCounts[err] + 1]
          BY <1>1, <1>2, <3>1, Zenon
        <4>3. counters' = [NoCounts EXCEPT ![err] = 1]
          BY <4>1, <4>2, Zenon
        <4>4. counters' = [k \in DOMAIN NoCounts |-> IF k = err THEN 1 ELSE NoCounts[k]]
          BY <4>3
        <4> QED BY <2>1, <4>4
      <3>2. CASE err \notin DOMAIN NoCounts
        BY <1>1, <1>2, <2>1, <3>2
      <3> QED BY <3>1, <3>2
    <2>3. failures' = 0 /\ Defective(vol', err)
      BY <1>1, <1>2
    <2> HIDE DEF Quarantinable, Defective
    <2> QED BY <1>1, <2>2, <2>3 DEF QuarantineJust
  <1>6. MountClean' /\ MountScan' /\ MountCount' /\ MountedSound' /\ pc' # "off"
    BY <1>1 DEF MountClean, MountScan, MountCount, MountedSound, Scanning
  <1> HIDE DEF MountBounds, MountClean, MountScan, MountCount, MountedSound, QuarantineJust
  <1> QED BY <1>4, <1>5, <1>6 DEF MountInv

-----------------------------------------------------------------------------
(* The steps of the mount                                                  *)

(* What is known while the directories are scanned.                        *)
LEMMA ScanFacts ==
    ASSUME ReadInv, MountInv, pc \in Scanning
    PROVE  /\ IsVolume(vol) /\ todo \in Seq(DirectoryEntry) /\ files \in Seq(FileContext)
           /\ cached # NoSector => cached = buffer
           /\ claimed \subseteq Clusters(vol) /\ staged \in 0..MaximumDirectories
           /\ Len(files) \in 0..MaximumFiles /\ (pc = "file" => Len(files) < MaximumFiles)
           /\ \E S, cur, pos, home, W, Q :
                 Scan(vol, pc, queue, dir, walk, todo, claimed, S, cur, pos, home, W, Q)
  <1>1. pc # "off"
    BY DEF Scanning
  <1>2. MountBounds /\ MountScan
    BY DEF MountInv
  <1>3. /\ IsVolume(vol) /\ todo \in Seq(DirectoryEntry) /\ files \in Seq(FileContext)
        /\ cached # NoSector => cached = buffer
    BY <1>1 DEF ReadInv
  <1>4. \E S, cur, pos, home, W, Q :
           Scan(vol, pc, queue, dir, walk, todo, claimed, S, cur, pos, home, W, Q)
    BY <1>2, Zenon DEF MountScan
  <1> QED BY <1>2, <1>3, <1>4 DEF MountBounds

(* The variables that no step of the scan changes.                         *)
Held == vol' = vol /\ counters' = counters /\ failures' = failures /\ free' = free /\ reason' = reason

(* The next state of the scan.                                             *)
ScanAfter(S, cur, pos, home, W, Q) ==
    Scan(vol, pc', queue', dir', walk', todo', claimed', S, cur, pos, home, W, Q)

(* A step of the scan, given what the books say after it.                  *)
LEMMA ScanMoves ==
    ASSUME ReadInv, MountInv, pc \in Scanning, pc' \in Scanning, Held,
           staged' \in 0..MaximumDirectories, Len(files') \in 0..MaximumFiles,
           pc' = "file" => Len(files') < MaximumFiles, claimed' \subseteq Clusters(vol),
           NEW S, NEW cur, NEW pos, NEW home, NEW W, NEW Q, ScanAfter(S, cur, pos, home, W, Q)
    PROVE  MountInv'
  <1>1. \E S1, cur1, pos1, home1, W1, Q1 :
           Scan(vol, pc', queue', dir', walk', todo', claimed', S1, cur1, pos1, home1, W1, Q1)
    BY Zenon DEF ScanAfter
  <1>2. vol' = vol /\ counters' = counters /\ failures' = failures /\ free' = free /\ reason' = reason
    BY DEF Held
  <1> QED BY <1>1, <1>2, MountMoves

(* The boot sector is read.                                                *)
LEMMA BootSectorMoves ==
    ASSUME ReadInv, MountInv, ReadBootSector
    PROVE  MountInv'
  <1>1. /\ pc = "boot" /\ pc' = "scan" /\ queue' = queue /\ dir' = dir /\ walk' = walk /\ todo' = todo
        /\ claimed' = claimed /\ staged' = staged /\ files' = files
        /\ vol' = vol /\ counters' = counters /\ failures' = failures /\ free' = free /\ reason' = reason
    BY DEF ReadBootSector, chainVars
  <1>2. pc \in Scanning /\ pc' \in Scanning /\ Held /\ pc' # "file"
    BY <1>1 DEF Scanning, Held
  <1>3. PICK S, cur, pos, home, W, Q :
           Scan(vol, pc, queue, dir, walk, todo, claimed, S, cur, pos, home, W, Q)
    BY <1>2, ScanFacts
  <1>4. Queued(vol, queue, Q) /\ Between(vol, claimed, S, cur, pos, W, Q)
    BY <1>1, <1>3 DEF Scan
  <1>5. ScanAfter(S, cur, pos, home, W, Q)
    BY <1>1, <1>4 DEF ScanAfter, Scan
  <1>6. /\ staged' \in 0..MaximumDirectories /\ Len(files') \in 0..MaximumFiles
        /\ claimed' \subseteq Clusters(vol)
    BY <1>1, <1>2, ScanFacts
  <1> QED BY <1>2, <1>5, <1>6, ScanMoves

(* A mount that gives up for no defect of the volume's.                    *)
LEMMA NamespaceStops ==
    ASSUME ReadInv, MountInv, pc \in Scanning \cup {"count"}, NEW err \in {"io", "namespace"}, Abort(err)
    PROVE  MountInv'
  <1>1. IsVolume(vol)
    BY DEF ReadInv, Scanning
  <1>2. err \in Quarantinable \cup {"io", "namespace"} /\ err \notin Quarantinable
    BY DEF Quarantinable
  <1> QED BY <1>1, <1>2, MountStops

(* A mount that stops at a defect.                                         *)
LEMMA DefectStops ==
    ASSUME ReadInv, MountInv, pc \in Scanning \cup {"count"}, NEW err \in Quarantinable, Abort(err),
           UNCHANGED failures, Defective(vol, err)
    PROVE  MountInv'
  <1>1. IsVolume(vol)
    BY DEF ReadInv, Scanning
  <1> QED BY <1>1, MountStops

(* The directory that was staged first is taken up.                        *)
LEMMA ScanDirectoryMoves ==
    ASSUME ReadInv, MountInv, ScanDirectory
    PROVE  MountInv'
  <1>1. pc = "scan" /\ queue # <<>> /\ pc \in Scanning
    BY DEF ScanDirectory, Scanning
  <1>2. PICK S, cur, pos, home, W, Q :
           Scan(vol, pc, queue, dir, walk, todo, claimed, S, cur, pos, home, W, Q)
    BY <1>1, ScanFacts
  <1>3. Queued(vol, queue, Q) /\ Between(vol, claimed, S, cur, pos, W, Q)
    BY <1>1, <1>2 DEF Scan
  <1>4. Q \in Seq(Staged(vol) \cup {RootPlace})
    BY <1>3, Zenon DEF Between, Books
  <1>5. /\ Q # <<>> /\ Head(queue).first = First(vol, Head(Q)) /\ Head(queue) \in [first : Nat, depth : Nat]
        /\ Queued(vol, Tail(queue), Tail(Q))
    <2> DEFINE X == Staged(vol) \cup {RootPlace}
    <2>1. Q \in Seq(X)
      BY <1>4
    <2> HIDE DEF X
    <2> QED BY <1>1, <1>3, <2>1, QueuedTail
  <1>6. Head(queue).first \in Nat /\ Head(queue).depth \in Nat
    BY <1>5
  <1>7. IsVolume(vol)
    BY <1>1, ScanFacts
  <1>8. CASE Head(queue).depth > MaximumDepth
    <2>1. Abort("namespace")
      BY <1>8 DEF ScanDirectory
    <2> QED BY <1>1, <2>1, NamespaceStops
  <1>9. CASE ~(Head(queue).depth > MaximumDepth)
    <2>1. /\ queue' = Tail(queue) /\ dir' = [Chain(Head(queue).first) EXCEPT !.depth = Head(queue).depth]
          /\ Head(queue).first = 0 => pc' = "entry" /\ todo' = vol.root
          /\ Head(queue).first # 0 => pc' = "cluster"
          /\ vol' = vol /\ staged' = staged /\ claimed' = claimed /\ free' = free /\ files' = files
          /\ counters' = counters /\ reason' = reason /\ failures' = failures
      BY <1>9 DEF ScanDirectory
    <2>2. /\ dir' \in ChainRecord /\ dir'.cluster = Head(queue).first /\ dir'.size = 0
          /\ dir'.visited = {} /\ dir'.count = 0
      <3> DEFINE f == Head(queue).first
                 p == Head(queue).depth
      <3>1. f \in Nat /\ p \in Nat /\ dir' = [Chain(f) EXCEPT !.depth = p]
        BY <1>6, <2>1
      <3> SUFFICES /\ dir' \in ChainRecord /\ dir'.cluster = f /\ dir'.size = 0
                   /\ dir'.visited = {} /\ dir'.count = 0
        OBVIOUS
      <3> HIDE DEF f, p
      <3> QED BY <3>1 DEF Chain, ChainRecord
    <2>3. /\ staged' \in 0..MaximumDirectories /\ Len(files') \in 0..MaximumFiles
          /\ claimed' \subseteq Clusters(vol)
      BY <1>1, <2>1, ScanFacts
    <2>4. Held /\ pc' \in Scanning /\ pc' # "file"
      BY <2>1 DEF Held, Scanning
    <2>5. CASE Head(queue).first = 0
      <3>1. Within(vol, dir', vol.root, claimed, S, 0, 0, Head(Q), W, Tail(Q), {})
        <4>1. dir'.cluster = 0 /\ First(vol, Head(Q)) = 0
          BY <1>5, <2>2, <2>5
        <4> QED BY <1>3, <1>5, <1>7, <2>2, <4>1, TakeUpRoot
      <3>2. pc' = "entry" /\ todo' = vol.root
        BY <2>1, <2>5
      <3>3. ScanAfter(S, 0, 0, Head(Q), W, Tail(Q))
        BY <1>5, <2>1, <3>1, <3>2 DEF ScanAfter, Scan
      <3> QED BY <1>1, <2>3, <2>4, <3>3, ScanMoves
    <2>6. CASE Head(queue).first # 0
      <3>1. Following(vol, dir', claimed, S, First(vol, Head(Q)), 0, Head(Q), W, Tail(Q))
        <4>1. dir'.cluster = First(vol, Head(Q)) /\ First(vol, Head(Q)) # 0
          BY <1>5, <2>2, <2>6
        <4> QED BY <1>3, <1>5, <1>7, <2>2, <4>1, TakeUpChain
      <3>2. pc' = "cluster"
        BY <2>1, <2>6
      <3>3. ScanAfter(S, First(vol, Head(Q)), 0, Head(Q), W, Tail(Q))
        BY <1>5, <2>1, <3>1, <3>2 DEF ScanAfter, Scan
      <3> QED BY <1>1, <2>3, <2>4, <3>3, ScanMoves
    <2> QED BY <2>5, <2>6
  <1> QED BY <1>8, <1>9

(* What is wrong with a cluster that cannot be visited.                    *)
LEMMA ChainDefectMeans ==
    ASSUME NEW w
    PROVE  /\ ChainDefect(w) \in {"none", "out_of_range", "chain_loop", "cross_link"}
           /\ ChainDefect(w) = "none" =>
                 w.cluster \in Clusters(vol) /\ w.cluster \notin w.visited /\ w.cluster \notin claimed
           /\ ChainDefect(w) = "out_of_range" => w.cluster \notin Clusters(vol)
           /\ ChainDefect(w) = "chain_loop" => w.cluster \in w.visited
           /\ ChainDefect(w) = "cross_link" =>
                 w.cluster \in Clusters(vol) /\ w.cluster \notin w.visited /\ w.cluster \in claimed
  <1> DEFINE C == Clusters(vol)
  <1> SUFFICES
           /\ ChainDefect(w) \in {"none", "out_of_range", "chain_loop", "cross_link"}
           /\ ChainDefect(w) = "none" =>
                 w.cluster \in C /\ w.cluster \notin w.visited /\ w.cluster \notin claimed
           /\ ChainDefect(w) = "out_of_range" => w.cluster \notin C
           /\ ChainDefect(w) = "chain_loop" => w.cluster \in w.visited
           /\ ChainDefect(w) = "cross_link" =>
                 w.cluster \in C /\ w.cluster \notin w.visited /\ w.cluster \in claimed
    OBVIOUS
  <1>1. ChainDefect(w) = IF w.cluster \notin C THEN "out_of_range"
                         ELSE IF w.cluster \in w.visited THEN "chain_loop"
                         ELSE IF w.cluster \in claimed THEN "cross_link" ELSE "none"
    BY DEF ChainDefect
  <1> HIDE DEF C
  <1> QED BY <1>1

(* A cluster of a directory is visited, or is defective.                   *)
LEMMA DirectoryClusterMoves ==
    ASSUME ReadInv, MountInv, DirectoryCluster
    PROVE  MountInv'
  <1>1. pc = "cluster" /\ pc \in Scanning
    BY DEF DirectoryCluster, Scanning
  <1>2. PICK S, cur, pos, home, W, Q :
           Scan(vol, pc, queue, dir, walk, todo, claimed, S, cur, pos, home, W, Q)
    BY <1>1, ScanFacts
  <1>3. Queued(vol, queue, Q) /\ Following(vol, dir, claimed, S, cur, pos, home, W, Q)
    BY <1>1, <1>2 DEF Scan
  <1>4. IsVolume(vol) /\ claimed \subseteq Clusters(vol)
    BY <1>1, ScanFacts
  <1>5. CASE ChainDefect(dir) # "none"
    <2> DEFINE err == ChainDefect(dir)
    <2>1. Abort(err) /\ failures' = failures
      BY <1>5 DEF DirectoryCluster
    <2>2. err \in {"none", "out_of_range", "chain_loop", "cross_link"}
      BY ChainDefectMeans
    <2>3. err \in Quarantinable
      BY <1>5, <2>2 DEF Quarantinable
    <2>4. Defective(vol, err)
      <3>1. CASE err = "out_of_range"
        BY <1>3, <1>4, <3>1, ChainDefectMeans, DirectoryVisitDefect
      <3>2. CASE err = "chain_loop"
        BY <1>3, <1>4, <3>2, ChainDefectMeans, DirectoryVisitDefect
      <3>3. CASE err = "cross_link"
        BY <1>3, <1>4, <3>3, ChainDefectMeans, DirectoryVisitDefect
      <3> QED BY <1>5, <2>2, <3>1, <3>2, <3>3
    <2> HIDE DEF err
    <2> QED BY <1>1, <2>1, <2>3, <2>4, DefectStops
  <1>6. CASE ChainDefect(dir) = "none"
    <2>1. /\ claimed' = claimed \cup {dir.cluster} /\ dir' = Visit(dir) /\ pc' = "entry"
          /\ todo' = IF dir.count = 0 THEN Contents(vol, dir.cluster) ELSE <<>>
          /\ vol' = vol /\ queue' = queue /\ staged' = staged /\ free' = free /\ files' = files
          /\ counters' = counters /\ reason' = reason /\ failures' = failures
      BY <1>6 DEF DirectoryCluster
    <2>2. dir.cluster \in Clusters(vol) /\ dir.cluster \notin dir.visited /\ dir.cluster \notin claimed
      BY <1>6, ChainDefectMeans
    <2>3. Within(vol, dir', todo', claimed', S, cur, pos, home, W, Q, {})
      BY <1>3, <1>4, <2>1, <2>2, VisitDirectory
    <2>4. ScanAfter(S, cur, pos, home, W, Q)
      BY <1>3, <2>1, <2>3 DEF ScanAfter, Scan
    <2>5. /\ staged' \in 0..MaximumDirectories /\ Len(files') \in 0..MaximumFiles
          /\ claimed' \subseteq Clusters(vol)
      BY <1>1, <1>4, <2>1, <2>2, ScanFacts
    <2>6. Held /\ pc' \in Scanning /\ pc' # "file"
      BY <2>1 DEF Held, Scanning
    <2> QED BY <1>1, <2>4, <2>5, <2>6, ScanMoves
  <1> QED BY <1>5, <1>6

(* The entries of a sector are read: the root directory is one area.       *)
LEMMA EndOfSectorMoves ==
    ASSUME ReadInv, MountInv, EndOfSector
    PROVE  MountInv'
  <1>1. /\ pc = "entry" /\ todo = <<>> /\ pc' = IF dir.cluster = 0 THEN "scan" ELSE "dirlink"
        /\ queue' = queue /\ dir' = dir /\ walk' = walk /\ todo' = todo
        /\ claimed' = claimed /\ staged' = staged /\ files' = files
        /\ vol' = vol /\ counters' = counters /\ failures' = failures /\ free' = free /\ reason' = reason
    BY DEF EndOfSector, chainVars
  <1>2. pc \in Scanning /\ pc' \in Scanning /\ Held /\ pc' # "file"
    BY <1>1 DEF Scanning, Held
  <1>3. PICK S, cur, pos, home, W, Q :
           Scan(vol, pc, queue, dir, walk, todo, claimed, S, cur, pos, home, W, Q)
    BY <1>2, ScanFacts
  <1>4. Queued(vol, queue, Q) /\ Within(vol, dir, todo, claimed, S, cur, pos, home, W, Q, {})
    BY <1>1, <1>3 DEF Scan
  <1>5. /\ IsVolume(vol) /\ staged' \in 0..MaximumDirectories /\ Len(files') \in 0..MaximumFiles
        /\ claimed' \subseteq Clusters(vol)
    BY <1>1, <1>2, ScanFacts
  <1>6. CASE dir.cluster = 0
    <2>1. Between(vol, claimed, S \cup {0}, 0, 0, W, Q)
      BY <1>1, <1>4, <1>5, <1>6, LeaveRoot
    <2>2. ScanAfter(S \cup {0}, 0, 0, home, W, Q)
      BY <1>1, <1>4, <1>6, <2>1 DEF ScanAfter, Scan
    <2> QED BY <1>2, <1>5, <2>2, ScanMoves
  <1>7. CASE dir.cluster # 0
    <2>1. home # RootPlace
      BY <1>4, <1>7, Zenon DEF Within
    <2>2. ScanAfter(S, cur, pos, home, W, Q)
      BY <1>1, <1>4, <1>7, <2>1 DEF ScanAfter, Scan
    <2> QED BY <1>2, <1>5, <2>2, ScanMoves
  <1> QED BY <1>6, <1>7

(* What a link says of a chain, by the value that is on the volume.        *)
LEMMA LinkRight ==
    ASSUME IsVolume(vol), cached # NoSector => cached = buffer, NEW c \in Nat
    PROVE  /\ Entry(c) = Value(vol, c) /\ Link(c) = DecodeClusterLink(vol, Value(vol, c))
           /\ Link(c) \in {"free", "bad", "end", "next", "wild"}
           /\ Link(c) = "next" <=> Value(vol, c) \in Clusters(vol)
           /\ Link(c) = "end" => Value(vol, c) >= EndMarker
           /\ Link(c) = "free" <=> Value(vol, c) = 0
  <1>1. Entry(c) = Value(vol, c) /\ Value(vol, c) \in Nat
    BY EntryRight, VolumeFacts
  <1>2. Link(c) = DecodeClusterLink(vol, Value(vol, c))
    BY <1>1, Zenon DEF Link
  <1>3. /\ Link(c) \in {"free", "bad", "end", "next", "wild"}
        /\ Link(c) = "next" <=> Value(vol, c) \in Clusters(vol)
    BY <1>1, <1>2, GoesOn
  <1>4. Link(c) = "end" => Value(vol, c) >= EndMarker
    BY <1>1, <1>2, LinkMeans
  <1>5. Link(c) = "free" <=> Value(vol, c) = 0
    BY <1>1, <1>2, LinkMeans
  <1> QED BY <1>1, <1>2, <1>3, <1>4, <1>5

(* What LinkDefect says, by the link.                                      *)
LEMMA LinkDefectMeans ==
    ASSUME NEW w, NEW link, link = Link(w.cluster), link \in {"free", "bad", "end", "next", "wild"}
    PROVE  /\ LinkDefect(w) \in {"none", "corrupt", "out_of_range", "chain_loop"}
           /\ LinkDefect(w) = "none" =>
                 link \in {"next", "end"} /\ (link = "end" => ~(w.count < w.size))
           /\ LinkDefect(w) = "corrupt" => link \in {"free", "bad"} \/ (link = "end" /\ w.count < w.size)
           /\ LinkDefect(w) = "out_of_range" => link = "wild"
           /\ LinkDefect(w) = "chain_loop" => link = "next" /\ w.count = vol.count
  <1> DEFINE full == w.count = vol.count
             short == w.count < w.size
             d == LinkDefect(w)
  <1>1. /\ link \in {"free", "bad"} => d = "corrupt"
        /\ link = "wild" => d = "out_of_range"
        /\ link = "next" => d = IF full THEN "chain_loop" ELSE "none"
        /\ link = "end" => d = IF short THEN "corrupt" ELSE "none"
    BY DEF LinkDefect
  <1> SUFFICES
        /\ d \in {"none", "corrupt", "out_of_range", "chain_loop"}
        /\ d = "none" => link \in {"next", "end"} /\ (link = "end" => ~short)
        /\ d = "corrupt" => link \in {"free", "bad"} \/ (link = "end" /\ short)
        /\ d = "out_of_range" => link = "wild"
        /\ d = "chain_loop" => link = "next" /\ full
    OBVIOUS
  <1> HIDE DEF full, short, d
  <1> QED BY <1>1

(* The chain of a directory goes on, ends or is defective.                 *)
LEMMA DirectoryLinkMoves ==
    ASSUME ReadInv, MountInv, DirectoryLink
    PROVE  MountInv'
  <1> DEFINE link == Link(dir.cluster)
             value == Value(vol, dir.cluster)
  <1>1. pc = "dirlink" /\ pc \in Scanning
    BY DEF DirectoryLink, Scanning
  <1>2. PICK S, cur, pos, home, W, Q :
           Scan(vol, pc, queue, dir, walk, todo, claimed, S, cur, pos, home, W, Q)
    BY <1>1, ScanFacts
  <1>3. /\ Queued(vol, queue, Q) /\ Within(vol, dir, todo, claimed, S, cur, pos, home, W, Q, {})
        /\ todo = <<>> /\ home # RootPlace
    BY <1>1, <1>2 DEF Scan
  <1>4. IsVolume(vol) /\ claimed \subseteq Clusters(vol) /\ (cached # NoSector => cached = buffer)
    BY <1>1, ScanFacts
  <1>5. dir.cluster \in Nat /\ dir.count \in Nat /\ dir.size = 0
    BY <1>3, <1>4, DirectoryChain
  <1>6. /\ Entry(dir.cluster) = value /\ link = DecodeClusterLink(vol, value)
        /\ link \in {"free", "bad", "end", "next", "wild"}
        /\ link = "next" <=> value \in Clusters(vol)
        /\ link = "end" => value >= EndMarker
    BY <1>4, <1>5, LinkRight
  <1> HIDE DEF link, value
  <1>7. CASE LinkDefect(dir) # "none"
    <2> DEFINE err == LinkDefect(dir)
    <2>1. Abort(err) /\ failures' = failures
      BY <1>7 DEF DirectoryLink
    <2>2. /\ err \in {"none", "corrupt", "out_of_range", "chain_loop"}
          /\ err = "corrupt" => link \in {"free", "bad"} \/ (link = "end" /\ dir.count < dir.size)
          /\ err = "out_of_range" => link = "wild"
          /\ err = "chain_loop" => link = "next" /\ dir.count = vol.count
      BY <1>6, LinkDefectMeans DEF link
    <2>3. err \in Quarantinable
      BY <1>7, <2>2 DEF Quarantinable
    <2>4. /\ link \in {"free", "bad"} => Defective(vol, "corrupt")
          /\ link = "wild" => Defective(vol, "out_of_range")
          /\ link = "next" /\ dir.count = vol.count => Defective(vol, "chain_loop")
      <3>1. link = DecodeClusterLink(vol, Value(vol, dir.cluster))
        BY <1>6 DEF value
      <3> QED BY <1>3, <1>4, <3>1, DirectoryLinkDefect
    <2>5. ~(dir.count < dir.size)
      BY <1>5
    <2>6. Defective(vol, err)
      BY <1>7, <2>2, <2>4, <2>5, Zenon
    <2> HIDE DEF err
    <2> QED BY <1>1, <2>1, <2>3, <2>6, DefectStops
  <1>8. CASE LinkDefect(dir) = "none"
    <2>1. /\ link = "next" => pc' = "cluster" /\ dir' = [dir EXCEPT !.cluster = Entry(dir.cluster)]
          /\ link # "next" => pc' = "scan" /\ dir' = dir
          /\ vol' = vol /\ queue' = queue /\ staged' = staged /\ free' = free /\ files' = files
          /\ claimed' = claimed /\ counters' = counters /\ reason' = reason /\ failures' = failures
      BY <1>8 DEF DirectoryLink, link
    <2>2. link \in {"next", "end"}
      BY <1>6, <1>8, LinkDefectMeans DEF link
    <2>3. /\ staged' \in 0..MaximumDirectories /\ Len(files') \in 0..MaximumFiles
          /\ claimed' \subseteq Clusters(vol)
      BY <1>1, <2>1, ScanFacts
    <2>4. Held /\ pc' \in Scanning /\ pc' # "file"
      BY <2>1 DEF Held, Scanning
    <2>5. CASE link = "next"
      <3>1. Following(vol, [dir EXCEPT !.cluster = Value(vol, dir.cluster)], claimed, S, cur, pos, home, W, Q)
        <4>1. Value(vol, dir.cluster) \in Clusters(vol)
          BY <1>6, <2>5 DEF value
        <4> QED BY <1>3, <1>4, <4>1, DirectoryGoesOn
      <3>2. dir' = [dir EXCEPT !.cluster = Value(vol, dir.cluster)] /\ pc' = "cluster"
        BY <1>6, <2>1, <2>5, Zenon DEF value
      <3>3. Following(vol, dir', claimed, S, cur, pos, home, W, Q)
        BY <3>1, <3>2, Zenon
      <3>4. ScanAfter(S, cur, pos, home, W, Q)
        BY <1>3, <2>1, <3>2, <3>3 DEF ScanAfter, Scan
      <3> QED BY <1>1, <2>3, <2>4, <3>4, ScanMoves
    <2>6. CASE link # "next"
      <3>1. Between(vol, claimed, S \cup {cur}, cur, 0, W \cup {home}, Q)
        <4>1. Value(vol, dir.cluster) \notin Clusters(vol) /\ Value(vol, dir.cluster) >= EndMarker
          BY <1>6, <2>2, <2>6 DEF value
        <4> QED BY <1>3, <1>4, <4>1, DirectoryEnds
      <3>2. ScanAfter(S \cup {cur}, cur, 0, home, W \cup {home}, Q)
        BY <1>3, <2>1, <2>6, <3>1 DEF ScanAfter, Scan
      <3> QED BY <1>1, <2>3, <2>4, <3>2, ScanMoves
    <2> QED BY <2>5, <2>6
  <1> QED BY <1>7, <1>8

(* A subdirectory is staged, unless there is no place for it.              *)
LEMMA StageDirectoryMoves ==
    ASSUME ReadInv, MountInv, StageDirectory
    PROVE  MountInv'
  <1>1. pc = "entry" /\ pc \in Scanning /\ todo # <<>> /\ Head(todo).dir
    BY DEF StageDirectory, Scanning
  <1>2. PICK S, cur, pos, home, W, Q :
           Scan(vol, pc, queue, dir, walk, todo, claimed, S, cur, pos, home, W, Q)
    BY <1>1, ScanFacts
  <1>3. Queued(vol, queue, Q) /\ Within(vol, dir, todo, claimed, S, cur, pos, home, W, Q, {})
    BY <1>1, <1>2 DEF Scan
  <1>4. IsVolume(vol) /\ todo \in Seq(DirectoryEntry) /\ staged \in 0..MaximumDirectories
    BY <1>1, ScanFacts
  <1>5. Head(todo) \in DirectoryEntry
    BY <1>1, <1>4
  <1>6. Head(todo).first \in Nat /\ dir.depth \in Nat
    <2>1. dir \in ChainRecord
      BY <1>3, Zenon DEF Within
    <2> QED BY <1>5, <2>1 DEF DirectoryEntry, ChainRecord
  <1>7. CASE Head(todo).first < 2 \/ staged >= MaximumDirectories
    <2>1. Abort("namespace")
      BY <1>7 DEF StageDirectory
    <2> QED BY <1>1, <2>1, NamespaceStops
  <1>8. CASE ~(Head(todo).first < 2 \/ staged >= MaximumDirectories)
    <2> DEFINE e == [first |-> Head(todo).first, depth |-> dir.depth + 1]
    <2>1. /\ queue' = Append(queue, e) /\ staged' = staged + 1 /\ todo' = Tail(todo)
          /\ pc' = pc /\ dir' = dir /\ walk' = walk /\ vol' = vol /\ free' = free /\ files' = files
          /\ claimed' = claimed /\ counters' = counters /\ reason' = reason /\ failures' = failures
      BY <1>8 DEF StageDirectory, chainVars
    <2>2. e \in [first : Nat, depth : Nat] /\ e.first = Head(todo).first /\ Head(todo).first >= 2
      BY <1>6, <1>8
    <2> HIDE DEF e
    <2>3. /\ Within(vol, dir, Tail(todo), claimed, S, cur, pos + 1, home, W, Append(Q, <<cur, pos + 1>>), {})
          /\ Queued(vol, Append(queue, e), Append(Q, <<cur, pos + 1>>))
      BY <1>1, <1>3, <1>4, <2>2, StageKeeps
    <2>4. staged' \in 0..MaximumDirectories
      BY <1>4, <1>8, <2>1, BootFatAssumption
    <2>5. Len(files') \in 0..MaximumFiles /\ claimed' \subseteq Clusters(vol)
      BY <1>1, <2>1, ScanFacts
    <2>6. Held /\ pc' \in Scanning /\ pc' # "file"
      BY <1>1, <2>1 DEF Held
    <2>7. ScanAfter(S, cur, pos + 1, home, W, Append(Q, <<cur, pos + 1>>))
      BY <1>1, <2>1, <2>3 DEF ScanAfter, Scan
    <2> QED BY <1>1, <2>4, <2>5, <2>6, <2>7, ScanMoves
  <1> QED BY <1>7, <1>8

(* One more file has its place in the table.                               *)
LEMMA OneMoreFile ==
    ASSUME NEW X, NEW s \in Seq(X), NEW x \in X, NEW M \in Nat, Len(s) < M
    PROVE  Len(Append(s, x)) \in 0..M
  <1>1. Len(Append(s, x)) = Len(s) + 1 /\ Len(s) \in Nat
    OBVIOUS
  <1> QED BY <1>1

(* scanDirectorySectorLocked comes to a file.                              *)
LEMMA StageFileMoves ==
    ASSUME ReadInv, MountInv, StageFile
    PROVE  MountInv'
  <1> DEFINE e == Head(todo)
  <1>1. pc = "entry" /\ pc \in Scanning /\ todo # <<>> /\ ~Head(todo).dir
    BY DEF StageFile, Scanning
  <1>2. PICK S, cur, pos, home, W, Q :
           Scan(vol, pc, queue, dir, walk, todo, claimed, S, cur, pos, home, W, Q)
    BY <1>1, ScanFacts
  <1>3. Queued(vol, queue, Q) /\ Within(vol, dir, todo, claimed, S, cur, pos, home, W, Q, {})
    BY <1>1, <1>2 DEF Scan
  <1>4. /\ IsVolume(vol) /\ todo \in Seq(DirectoryEntry) /\ files \in Seq(FileContext)
        /\ claimed \subseteq Clusters(vol) /\ staged \in 0..MaximumDirectories
        /\ Len(files) \in 0..MaximumFiles /\ MaximumFiles \in Nat
    BY <1>1, ScanFacts, BootFatAssumption
  <1>5. e \in DirectoryEntry /\ e.first \in Nat /\ e.size \in Nat
    <2>1. e \in DirectoryEntry
      BY <1>1, <1>4
    <2> QED BY <2>1 DEF DirectoryEntry
  <1>6. CASE Len(files) >= MaximumFiles
    <2>1. Abort("namespace")
      <3>1. ~(Len(files) < MaximumFiles)
        BY <1>4, <1>6
      <3> QED BY <1>6, <3>1 DEF StageFile
    <2> QED BY <1>1, <2>1, NamespaceStops
  <1>7. ASSUME ~(Len(files) >= MaximumFiles)
        PROVE  Len(files) < MaximumFiles
    BY <1>4, <1>7
  <1>8. CASE ~(Len(files) >= MaximumFiles) /\ Empty(e)
    <2>1. /\ files' = Append(files, NewFile(e)) /\ todo' = Tail(todo) /\ vol' = vol /\ pc' = pc
          /\ queue' = queue /\ staged' = staged /\ dir' = dir /\ walk' = walk /\ claimed' = claimed
          /\ free' = free /\ counters' = counters /\ reason' = reason /\ failures' = failures
      BY <1>7, <1>8 DEF StageFile, chainVars
    <2>2. Within(vol, dir, Tail(todo), claimed, S, cur, pos + 1, home, W, Q, {})
      BY <1>1, <1>3, <1>4, <1>8, EmptyKeeps
    <2>3. Len(files') \in 0..MaximumFiles
      BY <1>4, <1>7, <1>8, <2>1, OneMoreFile
    <2>4. /\ Held /\ pc' \in Scanning /\ pc' # "file"
          /\ staged' \in 0..MaximumDirectories /\ claimed' \subseteq Clusters(vol)
      BY <1>1, <1>4, <2>1 DEF Held
    <2>5. ScanAfter(S, cur, pos + 1, home, W, Q)
      BY <1>1, <1>3, <2>1, <2>2 DEF ScanAfter, Scan
    <2> QED BY <1>1, <2>3, <2>4, <2>5, ScanMoves
  <1>9. CASE ~(Len(files) >= MaximumFiles) /\ ~Empty(e) /\ e.first < 2
    <2>1. Abort("out_of_range") /\ failures' = failures
      BY <1>7, <1>9 DEF StageFile
    <2>2. EntryNext(vol, todo, S, cur, pos, home, W, Q)
      BY <1>1, <1>3, <1>4, NextEntry
    <2>3. At(vol, <<cur, pos + 1>>) = e /\ <<cur, pos + 1>> \in Places(vol)
      BY <2>2, Zenon DEF EntryNext
    <2>4. <<cur, pos + 1>> \in Owners(vol)
      BY <1>9, <2>3, Zenon DEF Owners
    <2>5. e.first \notin Clusters(vol)
      <3>1. e.first \in Clusters(vol) => e.first >= 2
        BY <1>4, VolumeFacts
      <3> QED BY <1>5, <1>9, <3>1
    <2>6. Defective(vol, "out_of_range")
      <3>1. At(vol, <<cur, pos + 1>>).first \notin Clusters(vol)
        BY <2>3, <2>5, Zenon
      <3> QED BY <2>4, <3>1, DefectClasses
    <2>7. "out_of_range" \in Quarantinable
      BY DEF Quarantinable
    <2> QED BY <1>1, <2>1, <2>6, <2>7, DefectStops
  <1>10. CASE ~(Len(files) >= MaximumFiles) /\ ~Empty(e) /\ ~(e.first < 2)
    <2>1. /\ walk' = [Chain(e.first) EXCEPT !.size = e.size] /\ pc' = "file"
          /\ vol' = vol /\ queue' = queue /\ staged' = staged /\ todo' = todo /\ dir' = dir
          /\ claimed' = claimed /\ free' = free /\ files' = files
          /\ counters' = counters /\ reason' = reason /\ failures' = failures
      BY <1>10 DEF StageFile
    <2>2. /\ walk' \in ChainRecord /\ walk'.cluster = e.first /\ walk'.size = e.size
          /\ walk'.visited = {} /\ walk'.count = 0
      <3> DEFINE f == e.first
                 p == e.size
      <3>1. f \in Nat /\ p \in Nat /\ walk' = [Chain(f) EXCEPT !.size = p]
        BY <1>5, <2>1
      <3> SUFFICES /\ walk' \in ChainRecord /\ walk'.cluster = f /\ walk'.size = p
                   /\ walk'.visited = {} /\ walk'.count = 0
        OBVIOUS
      <3> HIDE DEF f, p
      <3> QED BY <3>1 DEF Chain, ChainRecord
    <2>3. InFile(vol, todo, walk')
      BY <1>1, <1>4, <1>10, <2>2, FileBegins
    <2>4. Within(vol, dir, todo, claimed, S, cur, pos, home, W, Q, walk'.visited)
      BY <1>3, <2>2
    <2>5. ScanAfter(S, cur, pos, home, W, Q)
      BY <1>3, <2>1, <2>3, <2>4 DEF ScanAfter, Scan
    <2>6. /\ Held /\ pc' \in Scanning /\ staged' \in 0..MaximumDirectories /\ claimed' \subseteq Clusters(vol)
          /\ Len(files') \in 0..MaximumFiles /\ Len(files') < MaximumFiles
      BY <1>4, <1>7, <1>10, <2>1 DEF Held, Scanning
    <2> QED BY <1>1, <2>5, <2>6, ScanMoves
  <1> QED BY <1>6, <1>8, <1>9, <1>10

(* validateFileChainLocked takes a cluster.                                *)
LEMMA FileClusterMoves ==
    ASSUME ReadInv, MountInv, FileCluster
    PROVE  MountInv'
  <1> DEFINE c == walk.cluster
             seen == Visit(walk)
             link == Link(walk.cluster)
             value == Value(vol, walk.cluster)
  <1>1. pc = "file" /\ pc \in Scanning
    BY DEF FileCluster, Scanning
  <1>2. PICK S, cur, pos, home, W, Q :
           Scan(vol, pc, queue, dir, walk, todo, claimed, S, cur, pos, home, W, Q)
    BY <1>1, ScanFacts
  <1>3. /\ Queued(vol, queue, Q) /\ Within(vol, dir, todo, claimed, S, cur, pos, home, W, Q, walk.visited)
        /\ InFile(vol, todo, walk)
    BY <1>1, <1>2 DEF Scan
  <1>4. /\ IsVolume(vol) /\ todo \in Seq(DirectoryEntry) /\ files \in Seq(FileContext)
        /\ cached # NoSector => cached = buffer
        /\ claimed \subseteq Clusters(vol) /\ staged \in 0..MaximumDirectories
        /\ Len(files) < MaximumFiles /\ Len(files) \in 0..MaximumFiles /\ MaximumFiles \in Nat
    BY <1>1, ScanFacts, BootFatAssumption
  <1>5. walk \in ChainRecord /\ walk.cluster \in Nat /\ walk.count \in Nat /\ walk.size \in Nat
    <2>1. walk \in ChainRecord
      BY <1>3, Zenon DEF InFile, Before
    <2> QED BY <2>1 DEF ChainRecord
  <1>6. /\ Entry(c) = value /\ link = DecodeClusterLink(vol, value)
        /\ link \in {"free", "bad", "end", "next", "wild"}
        /\ link = "next" <=> value \in Clusters(vol)
        /\ link = "end" => value >= EndMarker
    BY <1>4, <1>5, LinkRight
  <1>7. value \in Nat
    BY <1>4, VolumeFacts
  <1>8. /\ seen \in ChainRecord /\ seen.cluster = c /\ seen.visited = walk.visited \cup {c}
        /\ seen.count = walk.count + 1 /\ seen.size = walk.size
        /\ [seen EXCEPT !.cluster = value] \in ChainRecord
        /\ [seen EXCEPT !.cluster = value].cluster = value
        /\ [seen EXCEPT !.cluster = value].visited = seen.visited
        /\ [seen EXCEPT !.cluster = value].count = walk.count + 1
        /\ [seen EXCEPT !.cluster = value].size = walk.size
    BY <1>5, <1>7, VisitFields
  <1>9. Link(seen.cluster) = link
    BY <1>8
  <1>10. /\ LinkDefect(seen) \in {"none", "corrupt", "out_of_range", "chain_loop"}
         /\ LinkDefect(seen) = "none" =>
                 link \in {"next", "end"} /\ (link = "end" => ~(seen.count < seen.size))
         /\ LinkDefect(seen) = "corrupt" => link \in {"free", "bad"} \/ (link = "end" /\ seen.count < seen.size)
         /\ LinkDefect(seen) = "out_of_range" => link = "wild"
         /\ LinkDefect(seen) = "chain_loop" => link = "next" /\ seen.count = vol.count
    <2> HIDE DEF link, seen
    <2> QED BY <1>6, <1>9, LinkDefectMeans
  <1>11. CASE ChainDefect(walk) # "none"
    <2> DEFINE err == ChainDefect(walk)
    <2>1. Abort(err) /\ failures' = failures
      BY <1>11 DEF FileCluster
    <2>2. err \in {"none", "out_of_range", "chain_loop", "cross_link"}
      BY ChainDefectMeans
    <2>3. err \in Quarantinable
      BY <1>11, <2>2 DEF Quarantinable
    <2>4. Defective(vol, err)
      <3>1. CASE err = "out_of_range"
        BY <1>3, <1>4, <3>1, ChainDefectMeans, FileVisitDefect
      <3>2. CASE err = "chain_loop"
        BY <1>3, <1>4, <3>2, ChainDefectMeans, FileVisitDefect
      <3>3. CASE err = "cross_link"
        BY <1>3, <1>4, <3>3, ChainDefectMeans, FileVisitDefect
      <3> QED BY <1>11, <2>2, <3>1, <3>2, <3>3
    <2> HIDE DEF err
    <2> QED BY <1>1, <2>1, <2>3, <2>4, DefectStops
  <1>12. ASSUME ChainDefect(walk) = "none"
         PROVE  walk.cluster \in Clusters(vol) /\ walk.cluster \notin walk.visited /\ walk.cluster \notin claimed
    BY <1>12, ChainDefectMeans
  <1>13. CASE ChainDefect(walk) = "none" /\ LinkDefect(seen) # "none"
    <2> DEFINE err == LinkDefect(seen)
    <2>1. Abort(err) /\ failures' = failures
      BY <1>13 DEF FileCluster
    <2>2. err \in Quarantinable
      BY <1>10, <1>13 DEF Quarantinable
    <2>3. /\ link \in {"free", "bad"} => Defective(vol, "corrupt")
          /\ link = "wild" => Defective(vol, "out_of_range")
          /\ link = "next" /\ walk.count + 1 = vol.count => Defective(vol, "chain_loop")
          /\ link = "end" /\ walk.count + 1 < walk.size => Defective(vol, "corrupt")
      <3>1. link = DecodeClusterLink(vol, Value(vol, walk.cluster))
        BY <1>6
      <3> HIDE DEF link
      <3> QED BY <1>3, <1>4, <1>12, <1>13, <3>1, FileLinkDefect
    <2>4. Defective(vol, err)
      <3> HIDE DEF link, seen
      <3>1. /\ link = "end" /\ seen.count < seen.size => Defective(vol, "corrupt")
            /\ link = "next" /\ seen.count = vol.count => Defective(vol, "chain_loop")
        BY <1>8, <2>3
      <3> QED BY <1>10, <1>13, <2>3, <3>1, Zenon
    <2> HIDE DEF err
    <2> QED BY <1>1, <2>1, <2>2, <2>4, DefectStops
  <1>14. CASE ChainDefect(walk) = "none" /\ LinkDefect(seen) = "none"
    <2>1. /\ claimed' = claimed \cup {walk.cluster}
          /\ link = "next" => /\ walk' = [seen EXCEPT !.cluster = Entry(c)] /\ pc' = pc
                              /\ files' = files /\ todo' = todo
          /\ link # "next" => /\ walk' = seen /\ pc' = "entry" /\ todo' = Tail(todo)
                              /\ files' = Append(files, NewFile(Head(todo)))
          /\ vol' = vol /\ queue' = queue /\ staged' = staged /\ dir' = dir /\ free' = free
          /\ counters' = counters /\ reason' = reason /\ failures' = failures
      BY <1>14 DEF FileCluster
    <2>2. walk.cluster \in Clusters(vol) /\ walk.cluster \notin walk.visited /\ walk.cluster \notin claimed
      BY <1>12, <1>14
    <2>3. Held /\ staged' \in 0..MaximumDirectories /\ claimed' \subseteq Clusters(vol)
      BY <1>4, <2>1, <2>2 DEF Held
    <2>4. CASE link = "next"
      <3> DEFINE n == [seen EXCEPT !.cluster = value]
      <3>1. walk' = n /\ pc' = "file" /\ files' = files /\ todo' = todo
        BY <1>1, <1>6, <2>1, <2>4
      <3>2. /\ n \in ChainRecord /\ n.cluster = Value(vol, walk.cluster)
            /\ n.visited = walk.visited \cup {walk.cluster} /\ n.count = walk.count + 1
            /\ n.size = walk.size
        BY <1>8
      <3>3. Value(vol, walk.cluster) \in Clusters(vol)
        BY <1>6, <2>4
      <3> HIDE DEF n, link, value, seen, c
      <3>4. /\ Within(vol, dir, todo, claimed \cup {walk.cluster}, S, cur, pos, home, W, Q, n.visited)
            /\ InFile(vol, todo, n)
        BY <1>3, <1>4, <2>2, <3>2, <3>3, FileGoesOn
      <3>5. ScanAfter(S, cur, pos, home, W, Q)
        BY <1>3, <2>1, <3>1, <3>4 DEF ScanAfter, Scan
      <3>6. pc' \in Scanning /\ Len(files') \in 0..MaximumFiles /\ Len(files') < MaximumFiles
        BY <1>4, <3>1 DEF Scanning
      <3> QED BY <1>1, <2>3, <3>5, <3>6, ScanMoves
    <2>5. CASE link # "next"
      <3>1. pc' = "entry" /\ todo' = Tail(todo) /\ files' = Append(files, NewFile(Head(todo)))
        BY <2>1, <2>5
      <3>2. Value(vol, walk.cluster) \notin Clusters(vol) /\ Value(vol, walk.cluster) >= EndMarker
        BY <1>6, <1>10, <1>14, <2>5
      <3>3. walk.count + 1 >= walk.size
        <4>1. ~(seen.count < seen.size)
          BY <1>10, <1>14, <2>5
        <4> QED BY <1>5, <1>8, <4>1
      <3> HIDE DEF link, value, seen, c
      <3>4. Within(vol, dir, Tail(todo), claimed \cup {walk.cluster}, S, cur, pos + 1, home,
                   W \cup {<<cur, pos + 1>>}, Q, {})
        BY <1>3, <1>4, <2>2, <3>2, <3>3, FileEnds
      <3>5. ScanAfter(S, cur, pos + 1, home, W \cup {<<cur, pos + 1>>}, Q)
        BY <1>3, <2>1, <3>1, <3>4 DEF ScanAfter, Scan
      <3>6. Len(files') \in 0..MaximumFiles
        BY <1>4, <3>1, OneMoreFile
      <3>7. pc' \in Scanning /\ pc' # "file"
        BY <3>1 DEF Scanning
      <3> QED BY <1>1, <2>3, <3>5, <3>6, <3>7, ScanMoves
    <2> QED BY <2>4, <2>5
  <1> QED BY <1>11, <1>13, <1>14

(* No directory is left: every chain is claimed, and the count begins.     *)
LEMMA BeginCountMoves ==
    ASSUME ReadInv, MountInv, BeginCount
    PROVE  MountInv'
  <1>1. /\ pc = "scan" /\ queue = <<>> /\ pc' = "count" /\ walk' = Chain(2)
        /\ vol' = vol /\ staged' = staged /\ claimed' = claimed /\ free' = free /\ files' = files
        /\ counters' = counters /\ reason' = reason /\ failures' = failures
    BY DEF BeginCount
  <1>2. pc \in Scanning
    BY <1>1 DEF Scanning
  <1>3. PICK S, cur, pos, home, W, Q :
           Scan(vol, pc, queue, dir, walk, todo, claimed, S, cur, pos, home, W, Q)
    BY <1>2, ScanFacts
  <1>4. Queued(vol, queue, Q) /\ Between(vol, claimed, S, cur, pos, W, Q)
    BY <1>1, <1>3 DEF Scan
  <1>5. Q = <<>>
    <2> DEFINE X == Staged(vol) \cup {RootPlace}
    <2>1. Q \in Seq(X)
      BY <1>4, Zenon DEF Between, Books
    <2>2. Len(queue) = Len(Q)
      BY <1>4, Zenon DEF Queued
    <2> HIDE DEF X
    <2> QED BY <1>1, <2>1, <2>2
  <1>6. IsVolume(vol)
    BY <1>2, ScanFacts
  <1>7. AllClaimed(vol, claimed) /\ Counted(vol, 2, 0)
    BY <1>4, <1>5, <1>6, ScanOver, CountBegins
  <1>8. MountBounds /\ MountClean
    BY DEF MountInv
  <1>9. free = 0 /\ counters = NoCounts /\ failures = 0
    BY <1>2, <1>8 DEF MountClean
  <1>10. walk' \in ChainRecord /\ walk'.cluster = 2
    BY <1>1 DEF Chain, ChainRecord
  <1>11. MountBounds'
    BY <1>1, <1>8 DEF MountBounds
  <1>12. MountClean'
    BY <1>1, <1>9 DEF MountClean, Scanning
  <1>13. MountCount'
    BY <1>1, <1>7, <1>9, <1>10 DEF MountCount
  <1>14. MountScan' /\ MountedSound' /\ QuarantineJust' /\ pc' # "off"
    BY <1>1 DEF MountScan, MountedSound, QuarantineJust, Scanning
  <1> QED BY <1>11, <1>12, <1>13, <1>14 DEF MountInv

(* countFreeClustersLocked looks at a cluster, or is done with them all.   *)
LEMMA CountFreeMoves ==
    ASSUME ReadInv, MountInv, CountFree
    PROVE  MountInv'
  <1> DEFINE c == walk.cluster
  <1>1. pc = "count"
    BY DEF CountFree
  <1>2. IsVolume(vol) /\ (cached # NoSector => cached = buffer)
    BY <1>1 DEF ReadInv
  <1>3. MountBounds /\ MountClean
    BY DEF MountInv
  <1>4. counters = NoCounts /\ failures = 0
    BY <1>1, <1>3 DEF MountClean
  <1>5. AllClaimed(vol, claimed) /\ walk \in ChainRecord /\ Counted(vol, c, free) /\ c \in Nat
    <2>1. AllClaimed(vol, claimed) /\ walk \in ChainRecord /\ Counted(vol, c, free)
      BY <1>1 DEF MountInv, MountCount
    <2> QED BY <2>1 DEF ChainRecord
  <1>6. /\ Link(c) = DecodeClusterLink(vol, Value(vol, c))
        /\ Link(c) = "free" <=> Value(vol, c) = 0
    BY <1>2, <1>5, LinkRight
  <1>7. CASE c \notin Clusters(vol)
    <2>1. /\ pc' = "mounted" /\ vol' = vol /\ staged' = staged /\ claimed' = claimed /\ free' = free
          /\ files' = files /\ counters' = counters /\ reason' = reason /\ failures' = failures
      BY <1>7 DEF CountFree, chainVars
    <2>2. ~HasWildLink(vol) /\ free = FreeCount(vol)
      <3> HIDE DEF c
      <3> QED BY <1>2, <1>5, <1>7, CountDone
    <2>3. Sound(vol) /\ claimed = Owned(vol)
      BY <1>5, <2>2, Zenon DEF AllClaimed, Sound
    <2>4. \A k \in DOMAIN counters : counters[k] = 0
      BY <1>4 DEF NoCounts
    <2>5. MountedSound'
      BY <2>1, <2>2, <2>3, <2>4 DEF MountedSound
    <2>6. MountBounds'
      BY <1>3, <2>1 DEF MountBounds
    <2>7. MountClean' /\ MountScan' /\ MountCount' /\ QuarantineJust' /\ pc' # "off"
      BY <1>4, <2>1 DEF MountClean, MountScan, MountCount, QuarantineJust, Scanning
    <2> QED BY <2>5, <2>6, <2>7 DEF MountInv
  <1>8. CASE c \in Clusters(vol) /\ Link(c) = "wild"
    <2>1. Abort("out_of_range") /\ failures' = failures
      BY <1>8 DEF CountFree
    <2>2. Defective(vol, "out_of_range")
      <3>1. DecodeClusterLink(vol, Value(vol, c)) = "wild"
        BY <1>6, <1>8
      <3> HIDE DEF c
      <3>2. HasWildLink(vol)
        BY <1>2, <3>1, WildLink
      <3> QED BY <3>2, DefectClasses
    <2>3. "out_of_range" \in Quarantinable
      BY DEF Quarantinable
    <2> QED BY <1>1, <2>1, <2>2, <2>3, DefectStops
  <1>9. CASE c \in Clusters(vol) /\ Link(c) # "wild"
    <2>1. /\ free' = (IF Link(c) = "free" THEN free + 1 ELSE free)
          /\ walk' = [walk EXCEPT !.cluster = c + 1]
          /\ pc' = pc /\ vol' = vol /\ staged' = staged /\ claimed' = claimed
          /\ files' = files /\ counters' = counters /\ reason' = reason /\ failures' = failures
      BY <1>9 DEF CountFree
    <2>2. walk' \in ChainRecord /\ walk'.cluster = c + 1
      BY <1>5, <2>1 DEF ChainRecord
    <2>3. free' = IF Value(vol, c) = 0 THEN free + 1 ELSE free
      BY <1>6, <2>1
    <2>4. Counted(vol, c + 1, free')
      <3>1. DecodeClusterLink(vol, Value(vol, c)) # "wild"
        BY <1>6, <1>9
      <3> HIDE DEF c
      <3> QED BY <1>2, <1>5, <1>9, <2>3, <3>1, CountOn
    <2>5. free' \in 0..vol.count
      BY <1>2, <2>4, CountBound
    <2>6. MountBounds'
      BY <1>3, <2>1, <2>5 DEF MountBounds
    <2>7. MountClean' /\ MountScan' /\ MountedSound' /\ QuarantineJust' /\ pc' # "off"
      BY <1>1, <1>4, <2>1 DEF MountClean, MountScan, MountedSound, QuarantineJust, Scanning
    <2>8. MountCount'
      BY <1>5, <2>1, <2>2, <2>4 DEF MountCount
    <2> QED BY <2>6, <2>7, <2>8 DEF MountInv
  <1> QED BY <1>7, <1>8, <1>9

(* A device read of the mount fails.                                       *)
LEMMA MountReadStops ==
    ASSUME ReadInv, MountInv, MountReadFails
    PROVE  MountInv'
  <1>1. pc \in Scanning \cup {"count"} /\ Abort("io")
    BY DEF MountReadFails, MountReads, Scanning
  <1> QED BY <1>1, NamespaceStops

(* A step of readFile changes no table of the mount.                       *)
LEMMA ReadLeaves ==
    ASSUME ReadInv, ReadNext
    PROVE  /\ pc = "mounted" /\ pc' = pc /\ vol' = vol /\ claimed' = claimed /\ free' = free
           /\ counters' = counters /\ reason' = reason /\ staged' = staged
           /\ Len(files') = Len(files)
  <1>1. pc = "mounted"
    <2>1. CASE pc # "mounted"
      <3>1. read.status = "idle"
        BY <2>1 DEF ReadInv, NoRead
      <3> QED BY <2>1, <3>1 DEF ReadNext, BeginRead, Seek, CopyCluster, NextCluster, ReadFails
    <2> QED BY <2>1
  <1>2. CASE \E i \in DOMAIN files :
                \E offset \in 0..(files[i].size - 1), count \in 1..files[i].size : BeginRead(i, offset, count)
    BY <1>1, <1>2 DEF BeginRead, ReadOnly, chainVars
  <1>3. CASE Seek
    BY <1>1, <1>3 DEF Seek, Follow, ReadOnly, chainVars
  <1>4. CASE CopyCluster
    <2>1. files \in Seq(FileContext)
      BY DEF ReadInv
    <2>2. Len(files') = Len(files)
      BY <1>4, <2>1 DEF CopyCluster
    <2> QED BY <1>1, <1>4, <2>2 DEF CopyCluster, ReadOnly, chainVars
  <1>5. CASE NextCluster
    BY <1>1, <1>5 DEF NextCluster, Follow, ReadOnly, chainVars
  <1>6. CASE ReadFails
    BY <1>1, <1>6 DEF ReadFails, ReadOnly, chainVars
  <1> QED BY <1>2, <1>3, <1>4, <1>5, <1>6 DEF ReadNext

(* What the mount has left stays, whatever is read.                        *)
LEMMA ReadKeepsMount ==
    ASSUME ReadInv, MountInv, ReadNext
    PROVE  MountInv'
  <1>1. /\ pc = "mounted" /\ pc' = pc /\ vol' = vol /\ claimed' = claimed /\ free' = free
        /\ counters' = counters /\ reason' = reason /\ staged' = staged /\ Len(files') = Len(files)
    BY ReadLeaves
  <1>2. MountBounds'
    BY <1>1 DEF MountInv, MountBounds
  <1>3. MountedSound'
    <2>1. MountedSound
      BY DEF MountInv
    <2> QED BY <1>1, <2>1 DEF MountedSound
  <1>4. MountClean' /\ MountScan' /\ MountCount' /\ QuarantineJust' /\ pc' # "off"
    BY <1>1 DEF MountInv, MountClean, MountScan, MountCount, QuarantineJust, Scanning
  <1> QED BY <1>2, <1>3, <1>4 DEF MountInv

(* Nothing happens to the backend.                                         *)
LEMMA MountUnchanged ==
    ASSUME MountInv, UNCHANGED vars
    PROVE  MountInv'
  <1>1. /\ vol' = vol /\ pc' = pc /\ queue' = queue /\ staged' = staged /\ todo' = todo /\ dir' = dir
        /\ walk' = walk /\ claimed' = claimed /\ free' = free /\ files' = files
        /\ counters' = counters /\ reason' = reason /\ failures' = failures
    BY DEF vars, chainVars
  <1>2. MountBounds' /\ MountClean'
    BY <1>1 DEF MountInv, MountBounds, MountClean
  <1>3. MountScan'
    BY <1>1 DEF MountInv, MountScan
  <1>4. MountCount'
    BY <1>1 DEF MountInv, MountCount
  <1>5. MountedSound'
    BY <1>1 DEF MountInv, MountedSound
  <1>6. QuarantineJust'
    BY <1>1 DEF MountInv, QuarantineJust
  <1>7. pc' = "off" => vol' = NoVolume
    BY <1>1 DEF MountInv, NoVolume
  <1> QED BY <1>2, <1>3, <1>4, <1>5, <1>6, <1>7 DEF MountInv

(* The mount, on a foreign volume or before there is one.                  *)
LEMMA MountInit == ImageInit => MountInv
  <1> SUFFICES ASSUME ImageInit PROVE MountInv
    OBVIOUS
  <1>1. CASE Init
    BY <1>1, BootFatAssumption, FreshMount DEF Init
  <1>2. CASE ~Init
    BY <1>2, FreshMount DEF ImageInit
  <1> QED BY <1>1, <1>2

(* Every step keeps the invariant of the mount.                            *)
LEMMA MountStep == BootInv /\ MountInv /\ [ImageNext]_imageVars => MountInv'
  <1> SUFFICES ASSUME BuilderInv, ReadInv, MountInv, [ImageNext]_imageVars PROVE MountInv'
    BY DEF BootInv
  <1>1. CASE UNCHANGED vars
    BY <1>1, MountUnchanged
  <1>2. CASE BootFromImage
    <2>1. IsVolume(N!Volume)
      BY <1>2, Finished, BuiltVolume DEF BootFromImage
    <2>2. Backend
      BY <1>2 DEF ReadInv, BootFromImage
    <2>3. Backend' /\ pc' = "boot" /\ vol' = N!Volume
      BY <1>2, <2>2 DEF BootFromImage, Backend, chainVars
    <2>4. (Backend /\ ((pc = "off" /\ vol = NoVolume) \/ (pc = "boot" /\ IsVolume(vol))))'
      BY <2>1, <2>3
    <2> QED BY <2>4, FreshMount, PTL
  <1>3. CASE Run
    <2>1. CASE MountNext
      BY <2>1, BootSectorMoves, ScanDirectoryMoves, DirectoryClusterMoves, EndOfSectorMoves,
         DirectoryLinkMoves, StageDirectoryMoves, StageFileMoves, FileClusterMoves,
         BeginCountMoves, CountFreeMoves, MountReadStops DEF MountNext
    <2>2. CASE ReadNext
      BY <2>2, ReadKeepsMount
    <2>3. CASE Done
      BY <2>3, MountUnchanged DEF Done
    <2> QED BY <1>3, <2>1, <2>2, <2>3 DEF Run, Next
  <1> QED BY <1>1, <1>2, <1>3 DEF ImageNext, Build, imageVars

(* The invariant of the mount holds throughout.                            *)
THEOREM MountInvariant == ImageSpec => []MountInv
  BY MountInit, MountStep, BootInvariant, PTL DEF ImageSpec

(* MountRight, for every set of volumes, every image and any number of     *)
(* device failures: a volume that is published is sound, with exactly its  *)
(* owned clusters claimed and its free ones counted; one that is           *)
(* quarantined has the defect that is named; and the tables keep their     *)
(* bounds.                                                                 *)
THEOREM MountsRightly == ImageSpec => []MountRight
  <1>1. ReadInv /\ MountInv => MountRight
    <2> SUFFICES ASSUME ReadInv, MountInv PROVE MountRight
      OBVIOUS
    <2>1. read.status \in {"idle", "seek", "copy", "next", "done", "io", "corrupt"}
      BY DEF ReadInv, ReadCall
    <2>2. TypeOK
      BY <2>1 DEF MountInv, MountBounds, Scanning, TypeOK
    <2>3. MountedSound /\ QuarantineJust
      BY DEF MountInv
    <2> QED BY <2>2, <2>3 DEF MountRight
  <1> QED BY <1>1, BootInvariant, MountInvariant, PTL DEF BootInv
=============================================================================
