--------------------------- MODULE BootFatVolume ---------------------------
(***************************************************************************)
(* A FAT16 volume as data, and what makes one sound, independently of the  *)
(* code that walks it.  A cluster is one sector, as in the images of       *)
(* create-nvme-test-image.py; sizes and offsets count sectors.             *)
(*                                                                         *)
(*   count      number of clusters, numbered from 2                        *)
(*   perSector  FAT entries in one sector of the FAT                       *)
(*   fat        the entries that are not free                              *)
(*   root       the entries of the root directory                          *)
(*   dirs       the entries of the directory that starts at a cluster      *)
(*                                                                         *)
(* A directory entry is [dir, first, size].                                *)
(***************************************************************************)
EXTENDS Integers, FiniteSets, Sequences

Clusters(v) == 2..(v.count + 1)
Value(v, c) == IF c \in DOMAIN v.fat THEN v.fat[c] ELSE 0

BadMarker == 65527
EndMarker == 65528

\* fat.decodeClusterLink for FAT16; "wild" is its null
DecodeClusterLink(v, value) ==
    CASE value = 0            -> "free"
      [] value = BadMarker    -> "bad"
      [] value >= EndMarker   -> "end"
      [] value \in Clusters(v) -> "next"
      [] OTHER                -> "wild"

Contents(v, d) == IF d = 0 THEN v.root ELSE IF d \in DOMAIN v.dirs THEN v.dirs[d] ELSE <<>>

\* fat.parseBootSector takes a volume for FAT16 up to this many clusters, so
\* that no marker is the number of a cluster.
MaximumClusters == 65524

DirectoryEntry == [dir : BOOLEAN, first : Nat, size : Nat]

IsVolume(v) ==
    /\ v.count \in Nat /\ v.count <= MaximumClusters /\ v.perSector \in Nat \ {0}
    /\ DOMAIN v.fat \subseteq Clusters(v) /\ \A c \in DOMAIN v.fat : v.fat[c] \in Nat
    /\ v.root \in Seq(DirectoryEntry)
    /\ IsFiniteSet(DOMAIN v.dirs) /\ \A d \in DOMAIN v.dirs : v.dirs[d] \in Seq(DirectoryEntry)

----------------------------------------------------------------------------
(* The reference: chains, ownership, soundness *)

\* The values met from "first" on; a value that is no cluster stays.
Walk(v, first) ==
    LET at[k \in 0..(Cardinality(DOMAIN v.fat) + 1)] ==
            IF k = 0 THEN first
            ELSE LET c == at[k - 1] IN IF c \in Clusters(v) THEN Value(v, c) ELSE c
    IN  at

Last(v, first)  == LET at == Walk(v, first) IN at[Cardinality(DOMAIN v.fat) + 1]
Cells(v, first) == LET at == Walk(v, first) IN {at[k] : k \in DOMAIN at} \cap Clusters(v)
Ends(v, first)  == first \in Clusters(v) /\ Last(v, first) >= EndMarker
Loops(v, first) == Last(v, first) \in Clusters(v)
Nth(v, first, k) == Walk(v, first)[k]

Subdirectories(entries) == {entries[i].first : i \in {j \in DOMAIN entries : entries[j].dir}}

\* The directories that can be reached, by first cluster.
Directories(v) ==
    LET found[k \in 0..(Cardinality(DOMAIN v.dirs) + 1)] ==
            IF k = 0 THEN {0}
            ELSE LET before == found[k - 1]
                 IN  before \cup UNION {Subdirectories(Contents(v, d)) : d \in before}
    IN  found[Cardinality(DOMAIN v.dirs) + 1]

\* The entries by place, so that two entries of the same chain are two owners.
Places(v)  == UNION {{<<d, i>> : i \in DOMAIN Contents(v, d)} : d \in Directories(v)}
At(v, p)   == Contents(v, p[1])[p[2]]
Empty(e)   == ~e.dir /\ e.first = 0 /\ e.size = 0
Owners(v)  == {p \in Places(v) : ~Empty(At(v, p))}
Owned(v)   == UNION {Cells(v, At(v, p).first) : p \in Owners(v)}

CrossLinked(v) ==
    \E p, q \in Owners(v) : p # q /\ Cells(v, At(v, p).first) \cap Cells(v, At(v, q).first) # {}
Short(v, e) == ~e.dir /\ Cardinality(Cells(v, e.first)) < e.size
HasWildLink(v) == \E c \in DOMAIN v.fat : DecodeClusterLink(v, v.fat[c]) = "wild"
FreeCount(v) == v.count - Cardinality({c \in DOMAIN v.fat : v.fat[c] # 0})

Sound(v) ==
    /\ \A p \in Owners(v) : Ends(v, At(v, p).first) /\ ~Short(v, At(v, p))
    /\ ~CrossLinked(v)
    /\ ~HasWildLink(v)

\* A defect of the class a quarantine reason names.
Defective(v, reason) ==
    CASE reason = "chain_loop"   -> \E p \in Owners(v) : Loops(v, At(v, p).first)
      [] reason = "cross_link"   -> CrossLinked(v)
      [] reason = "out_of_range" -> HasWildLink(v) \/ \E p \in Owners(v) : At(v, p).first \notin Clusters(v)
      [] reason = "corrupt"      -> \E p \in Owners(v) :
                                        \/ Last(v, At(v, p).first) \in {0, BadMarker}
                                        \/ Short(v, At(v, p))
=============================================================================
