---------------------------- MODULE LegacyImage ----------------------------
(***************************************************************************)
(* The FAT12 volume as create-legacy-fat12.py builds it, and the two        *)
(* verifiers that read an image from outside: verify-legacy-bios.py before  *)
(* the first boot, verify-legacy-persistence.py after it.  The three have   *)
(* their own constants; so have the definitions here.                      *)
(*                                                                         *)
(* A file's bytes are one run of a source named after it, so equal runs     *)
(* stand for equal hashes.  The clusters that exist here are the first      *)
(* ClusterCount of the volume; nothing is ever placed above them.           *)
(***************************************************************************)
EXTENDS LegacyFat12

Run(src, from, len) == [src |-> src, from |-> from, len |-> len]
Data(name, size) == <<Run(name, 0, size)>>

----------------------------------------------------------------------------
(* create-legacy-fat12.py *)

\* build_elf: a header of 0x100 bytes before the one segment
HeaderBytes == 256
Elf(name, segment, memory) ==
    [name |-> name, size |-> HeaderBytes + segment, elf |-> TRUE, segment |-> segment, memory |-> memory]
Text(name, size) == [name |-> name, size |-> size, elf |-> FALSE, segment |-> 0, memory |-> 0]

WriterBase   == Run("base", 0, 700)
WriterSuffix == Run("suffix", 0, 20)
WriterResult == <<WriterBase, WriterSuffix>>
PathPayload  == Run("path", 0, 600)

\* Each segment ends with the last field its build function lays out.
FILES == <<
    Text("HELLO.TXT", 86),
    Elf("INIT.ELF", 128 + 39, 512),
    Elf("CAT.ELF", 168 + 86, 512),
    Text("BIG.TXT", 1300),
    Elf("SPINA.ELF", 8, 512),
    Elf("SPINB.ELF", 8, 512),
    Elf("FAULT.ELF", 6, 256),
    Elf("WRITER.ELF", 512 + Length(WriterResult), 4096),
    Elf("SERVICE.ELF", 1088 + 18, 4096),
    Elf("ORCH.ELF", 1664 + 17, 4096),
    Elf("CHILD.ELF", 640 + 17, 4096),
    Elf("ASYNC.ELF", 2048 + 32, 4096),
    Elf("WORKA.ELF", 544 + 6 * 4, 4096),
    Elf("WORKB.ELF", 512 + 4 * 4, 4096),
    Elf("LEAF.ELF", 384 + 13 * 4, 4096),
    Elf("GENRUN.ELF", 2560 + 48, 4096),
    Elf("REUSE.ELF", 384 + 6 * 4, 4096),
    Elf("FORKER.ELF", 864 + 6 * 4, 4096),
    Elf("EXECA.ELF", 384 + 5 * 4, 4096),
    Elf("EXECB.ELF", 384 + 5 * 4, 4096),
    Elf("PATHS.ELF", 3168 + PathPayload.len, 4096) >>

\* set_fat12_entry: a byte and a nibble, unlike the kernel's pair
SetFat12Entry(fat, c, value) ==
    LET o == OffsetOf(c)
    IN  IF c % 2 = 1
        THEN [fat EXCEPT ![o] = (@ % 16) + ((value % 16) * 16), ![o + 1] = (value \div 16) % 256]
        ELSE [fat EXCEPT ![o] = value % 256, ![o + 1] = ((@ \div 16) * 16) + ((value \div 256) % 16)]

ClusterCountOf(f) == LET n == (f.size + 511) \div 512 IN IF n = 0 THEN 1 ELSE n

\* next_cluster before file i
NextCluster == LET at[i \in 1..(Len(FILES) + 1)] ==
                       IF i = 1 THEN 2 ELSE at[i - 1] + ClusterCountOf(FILES[i - 1])
               IN  [i \in 1..(Len(FILES) + 1) |-> at[i]]

Linked(fat, i) ==
    LET first == NextCluster[i]
        last  == NextCluster[i + 1] - 1
        at[c \in (first - 1)..last] ==
            IF c < first THEN fat ELSE SetFat12Entry(at[c - 1], c, IF c < last THEN c + 1 ELSE EOC)
    IN  at[last]

BuiltFat ==
    LET empty == [i \in FatBytes |-> CASE i = 0 -> 240 [] i \in {1, 2} -> 255 [] OTHER -> 0]
        at[i \in 0..Len(FILES)] == IF i = 0 THEN empty ELSE Linked(at[i - 1], i)
    IN  at[Len(FILES)]

Owner(c) == {i \in DOMAIN FILES : NextCluster[i] <= c /\ c < NextCluster[i + 1]}

BuildVolume ==
    [fat  |-> <<BuiltFat, BuiltFat>>,
     root |-> [i \in DOMAIN FILES |-> Slot(FILES[i].name, FALSE, NextCluster[i], FILES[i].size)],
     sec  |-> [c \in 2..(ClusterCount + 1) |->
                 [slots |-> <<>>,
                  runs  |-> IF Owner(c) = {} THEN <<>>
                            ELSE LET i == CHOOSE i \in Owner(c) : TRUE
                                     k == c - NextCluster[i]
                                 IN  Take(Drop(Data(FILES[i].name, FILES[i].size), k * 512), 512)]],
     mbr  |-> TRUE]

----------------------------------------------------------------------------
(* verify-legacy-bios.py *)

Span(first, last) == [k \in 1..(last - first + 1) |-> first + k - 1]
EXPECTED == <<
    <<"HELLO.TXT", 86, Span(2, 2)>>,      <<"INIT.ELF", 423, Span(3, 3)>>,     <<"CAT.ELF", 510, Span(4, 4)>>,
    <<"BIG.TXT", 1300, Span(5, 7)>>,      <<"SPINA.ELF", 264, Span(8, 8)>>,    <<"SPINB.ELF", 264, Span(9, 9)>>,
    <<"FAULT.ELF", 262, Span(10, 10)>>,   <<"WRITER.ELF", 1488, Span(11, 13)>>, <<"SERVICE.ELF", 1362, Span(14, 16)>>,
    <<"ORCH.ELF", 1937, Span(17, 20)>>,   <<"CHILD.ELF", 913, Span(21, 22)>>,  <<"ASYNC.ELF", 2336, Span(23, 27)>>,
    <<"WORKA.ELF", 824, Span(28, 29)>>,   <<"WORKB.ELF", 784, Span(30, 31)>>,  <<"LEAF.ELF", 692, Span(32, 33)>>,
    <<"GENRUN.ELF", 2864, Span(34, 39)>>, <<"REUSE.ELF", 664, Span(40, 41)>>,  <<"FORKER.ELF", 1144, Span(42, 44)>>,
    <<"EXECA.ELF", 660, Span(45, 46)>>,   <<"EXECB.ELF", 660, Span(47, 48)>>,  <<"PATHS.ELF", 4024, Span(49, 56)>> >>

\* read_chain: "size" bytes along the first FAT; [ok, data, chain]
RECURSIVE ReadOn(_, _, _, _, _)
ReadOn(disk, c, size, data, chain) ==
    LET got  == data \o Take(Overlay(disk.sec[c].runs, 512, <<>>), 512)
        next == Entry(disk.fat[1], c)
        bad  == [ok |-> FALSE, data |-> <<>>, chain |-> chain]
    IN  IF ~Valid(c) THEN bad
        ELSE IF Length(got) >= size
             THEN IF IsEnd(next) THEN [ok |-> TRUE, data |-> Joined(Take(got, size)), chain |-> Append(chain, c)] ELSE bad
        ELSE IF IsEnd(next) THEN bad ELSE ReadOn(disk, next, size, got, Append(chain, c))
ReadChain(disk, first, size) == ReadOn(disk, first, size, <<>>, <<>>)

\* verify_elf, on the file the data came from
VerifyElf(name, data) ==
    \A i \in DOMAIN FILES :
        FILES[i].name = name /\ FILES[i].elf =>
            /\ HeaderBytes + FILES[i].segment = Length(data)
            /\ FILES[i].memory >= FILES[i].segment
            /\ FILES[i].memory <= 4096

BiosAccepts(disk) ==
    /\ disk.fat[1] = disk.fat[2]
    /\ disk.fat[1][0] = 240 /\ disk.fat[1][1] = 255 /\ disk.fat[1][2] = 255
    /\ \A i \in DOMAIN EXPECTED :
          LET s == disk.root[i]
              r == ReadChain(disk, s.cluster, s.size)
          IN  /\ s.name = EXPECTED[i][1] /\ ~s.dir
              /\ s.size = EXPECTED[i][2] /\ s.cluster = EXPECTED[i][3][1]
              /\ r.ok /\ r.chain = EXPECTED[i][3]
              /\ r.data = Data(s.name, s.size)
              /\ VerifyElf(s.name, r.data)
    /\ Len(disk.root) = Len(EXPECTED)
    /\ \A c \in 57..63 : Entry(disk.fat[1], c) = 0

----------------------------------------------------------------------------
(* verify-legacy-persistence.py; slots count from 1 here, from 0 there *)

CheckDirEntry(slots, index, name, dir, cluster, size) ==
    index + 1 \in DOMAIN slots /\ slots[index + 1] = Slot(name, dir, cluster, size)

GoneAt(slots, index) == index + 1 \in DOMAIN slots /\ slots[index + 1].name = Tombstone
EndsAt(slots, index) == Len(slots) = index

ReadTwoClusters(disk, first, second, size) ==
    Joined(Take(Overlay(disk.sec[first].runs, 512, <<>>) \o Overlay(disk.sec[second].runs, 512, <<>>), size))

HierarchyOnDisk(disk) ==
    LET home == disk.sec[57].slots
        docs == disk.sec[58].slots
        arch == disk.sec[61].slots
    IN  /\ CheckDirEntry(home, 0, ".", TRUE, 57, 0) /\ CheckDirEntry(home, 1, "..", TRUE, 0, 0)
        /\ CheckDirEntry(home, 2, "DOCS", TRUE, 58, 0) /\ GoneAt(home, 3)
        /\ CheckDirEntry(home, 4, "ARCHIVE", TRUE, 61, 0) /\ EndsAt(home, 5)
        /\ CheckDirEntry(docs, 0, ".", TRUE, 58, 0) /\ CheckDirEntry(docs, 1, "..", TRUE, 57, 0)
        /\ GoneAt(docs, 2) /\ EndsAt(docs, 3)
        /\ CheckDirEntry(arch, 0, ".", TRUE, 61, 0) /\ CheckDirEntry(arch, 1, "..", TRUE, 57, 0)
        /\ CheckDirEntry(arch, 2, "LOG.TXT", FALSE, 59, 600) /\ EndsAt(arch, 3)

ExpectedFat == [c \in 57..64 |-> CASE c = 59 -> 60 [] c = 62 -> 63 [] c = 64 -> 0 [] OTHER -> EOC]

PersistenceAccepts(disk) ==
    /\ disk.fat[1] = disk.fat[2]
    /\ Len(disk.root) = 23 /\ disk.root[21].name = "PATHS.ELF"
    /\ CheckDirEntry(disk.root, 21, "HOME", TRUE, 57, 0)
    /\ CheckDirEntry(disk.root, 22, "NOTES.TXT", FALSE, 62, 720)
    /\ HierarchyOnDisk(disk)
    /\ \A c \in 57..64 : LET actual == Entry(disk.fat[1], c)
                         IN  actual = ExpectedFat[c] \/ (IsEnd(actual) /\ IsEnd(ExpectedFat[c]))
    /\ ReadTwoClusters(disk, 59, 60, 600) = <<PathPayload>>
    /\ ReadTwoClusters(disk, 62, 63, 720) = WriterResult
=============================================================================
