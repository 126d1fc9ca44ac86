---------------------------- MODULE MCBootImage ----------------------------
(* Volumes: every FAT of three clusters below a fixed tree of one file and *)
(* one directory that holds a second file; then volumes with a long file,  *)
(* for reads, and with too many directories.  Images: both block sizes     *)
(* with the real geometry; boot images around one and two clusters and far *)
(* too large; placements at, next to and beyond the limits of the two      *)
(* file systems (16111 and 8171 clusters).                                 *)
EXTENDS BootImage, TLC

File(first, size) == [dir |-> FALSE, first |-> first, size |-> size]
Dir(first) == [dir |-> TRUE, first |-> first, size |-> 0]

Values == {0, 1, 2, 3, 4, BadMarker, EndMarker}

AnyVolume(a, d, b, fat) ==
    [count |-> 3, perSector |-> 2, fat |-> fat, root |-> <<a, Dir(d)>>, dirs |-> [c \in {d} |-> <<b>>]]

SmallVolumes ==
    {AnyVolume(a, d, b, fat) :
        a \in {File(0, 0), File(2, 1), File(2, 2)}, d \in {2, 3, 5},
        b \in {File(3, 1), File(4, 1), File(0, 1)}, fat \in [2..4 -> Values]}

LongChain(f) == [count |-> 6, perSector |-> 2, root |-> <<File(7, 4), Dir(3)>>, dirs |-> [c \in {3} |-> <<File(2, 1)>>],
                 fat |-> f]
LongVolumes ==
    {LongChain(<<>> @@ (7 :> 4) @@ (4 :> 6) @@ (6 :> 5) @@ (5 :> EndMarker) @@ (3 :> EndMarker) @@ (2 :> EndMarker))}

\* a directory below a directory below a directory, a fourth file
DeepVolumes ==
    {[count |-> 5, perSector |-> 2, root |-> r, dirs |-> (2 :> <<Dir(3)>>) @@ (3 :> <<Dir(4)>>),
      fat |-> [c \in 2..6 |-> EndMarker]] :
        r \in {<<Dir(2)>>, <<Dir(2), Dir(3), Dir(4)>>, <<File(6, 1), File(5, 1), File(4, 1), File(3, 1)>>}}

AllVolumes == SmallVolumes \cup LongVolumes \cup DeepVolumes

\* no --first-cluster on the command line: NotGiven of NvmeImage
NoCluster == -1

Sizes == {1, 512, 513, 4096, 4097, 8192, 70000000}

AllRequests ==
    [blockSize : {512, 4096, 1024}, efi : Sizes, corruption : {"none", "cross-link"}, gap : {-1, 0, 5},
     firstCluster : {NoCluster, 3, 4, 5, 6, 8170, 8171, 8172, 15000, 16110, 16111, 16112}]

\* images that the backend is then started on: a sound one and a cross-linked one
BootedRequests ==
    [blockSize : {4096}, efi : {8192}, corruption : {"none", "cross-link"}, gap : {5},
     firstCluster : {NoCluster}]
=============================================================================
