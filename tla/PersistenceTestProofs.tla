------------------------ MODULE PersistenceTestProofs ------------------------
(***************************************************************************)
(* Proofs about module PersistenceTest, for any bound on the ticks and any *)
(* set of the guest's faults: the persistence gate passes no faulty guest  *)
(* and fails a correct one for a tie of its ticks alone, its parsers agree *)
(* with the mount, and damage anywhere in the newest slot is answered by   *)
(* the slot before.                                                        *)
(***************************************************************************)
EXTENDS PersistenceTest, TLAPS

(* An image, slot by slot, and the three images.                           *)
Pair(a, b) == [s \in Slots |-> IF s = 0 THEN a ELSE b]
DiskOf(m, h, p) == [n \in Images |-> IF n = "main" THEN m ELSE IF n = "header" THEN h ELSE p]

(* A header block with its payload.                                        *)
IsBlock(b) ==
    b = [gen |-> b.gen, slot |-> b.slot, flipped |-> b.flipped, rotten |-> b.rotten, files |-> b.files]

(* One that a commit has written and nothing has damaged.                  *)
Good(b, s) ==
    IsBlock(b) /\ b.gen \in Nat /\ b.gen > 0 /\ b.slot = s /\ b.flipped = {} /\ b.rotten = FALSE

(* What is mounted off an image.                                           *)
Mounts(img, s) == Active(img) = s /\ Mounted(img) = img[s].files /\ MountedGen(img) = img[s].gen

-----------------------------------------------------------------------------
(* Blocks and images                                                       *)

(* The slots of an image.                                                  *)
LEMMA PairAt ==
    ASSUME NEW a, NEW b
    PROVE  /\ Pair(a, b)[0] = a /\ Pair(a, b)[1] = b /\ DOMAIN Pair(a, b) = Slots
           /\ \A c : [Pair(a, b) EXCEPT ![0] = c] = Pair(c, b)
           /\ \A c : [Pair(a, b) EXCEPT ![1] = c] = Pair(a, c)
           /\ Slots = {0, 1}
  <1>1. Pair(a, b)[0] = a /\ Pair(a, b)[1] = b /\ DOMAIN Pair(a, b) = Slots /\ Slots = {0, 1}
    BY DEF Pair, Slots
  <1>2. ASSUME NEW c
        PROVE  [Pair(a, b) EXCEPT ![0] = c] = Pair(c, b)
    BY DEF Pair, Slots
  <1>3. ASSUME NEW c
        PROVE  [Pair(a, b) EXCEPT ![1] = c] = Pair(a, c)
    <2>1. \A s \in Slots : [Pair(a, b) EXCEPT ![1] = c][s] = Pair(a, c)[s]
      BY DEF Pair, Slots
    <2> QED BY <2>1 DEF Pair
  <1> QED BY <1>1, <1>2, <1>3

(* Two images are equal if and only if their slots are.                    *)
LEMMA PairEqual ==
    ASSUME NEW a, NEW b, NEW c, NEW d, Pair(a, b) = Pair(c, d)
    PROVE  a = c /\ b = d
  BY PairAt

(* The three images of the disk.                                           *)
LEMMA DiskAt ==
    ASSUME NEW m, NEW h, NEW p
    PROVE  /\ DiskOf(m, h, p).main = m /\ DiskOf(m, h, p).header = h /\ DiskOf(m, h, p).payload = p
           /\ DOMAIN DiskOf(m, h, p) = Images
           /\ \A x : [DiskOf(m, h, p) EXCEPT !.main = x] = DiskOf(x, h, p)
           /\ \A x : [DiskOf(m, h, p) EXCEPT !.header = x] = DiskOf(m, x, p)
           /\ \A x : [DiskOf(m, h, p) EXCEPT !.payload = x] = DiskOf(m, h, x)
  BY DEF DiskOf, Images

(* What a commit writes is good.                                           *)
LEMMA SlotGood ==
    ASSUME NEW s, NEW gen \in Nat, gen > 0, NEW files
    PROVE  Good(Slot(s, gen, files), s) /\ Slot(s, gen, files).gen = gen /\ Slot(s, gen, files).files = files
  BY DEF Slot, Good, IsBlock

(* A good block is accepted by both parsers, whatever the guest's fault.   *)
LEMMA GoodRead ==
    ASSUME NEW b, NEW s, Good(b, s)
    PROVE  /\ ReadHeader(b, s) = "valid" /\ ParseHeader(b, s) = "ok" /\ ParseRecords(b) = "ok"
           /\ b.gen # 0 /\ b.gen \in Nat /\ ~b.rotten
  <1>1. b.flipped \cap Covered = {} /\ b.flipped \cap {"version", "size"} = {}
        /\ b.flipped \cap {"slot", "marker"} = {} /\ "magic" \notin b.flipped /\ "longLength" \notin b.flipped
    BY DEF Good
  <1>2. b.gen # 0 /\ b.gen \in Nat /\ ~b.rotten /\ b.slot = s
    BY DEF Good
  <1>3. ReadHeader(b, s) = "valid"
    BY <1>1, <1>2 DEF ReadHeader
  <1>4. ParseHeader(b, s) = "ok"
    BY <1>1, <1>2 DEF ParseHeader
  <1>5. ParseRecords(b) = "ok"
    BY <1>2 DEF ParseRecords
  <1> QED BY <1>2, <1>3, <1>4, <1>5

(* An empty block is absent to both.                                       *)
LEMMA BlankRead ==
    ASSUME NEW s
    PROVE  ReadHeader(Blank, s) = "absent" /\ ParseHeader(Blank, s) = "none" /\ IsBlock(Blank)
  BY DEF ReadHeader, ParseHeader, Blank, IsBlock

(* A good slot may be mounted.                                             *)
LEMMA GoodCandidate ==
    ASSUME NEW img, NEW s, Good(img[s], s)
    PROVE  ValidCandidate(img, s)
  BY GoodRead DEF ValidCandidate

(* An empty one may not.                                                   *)
LEMMA BlankCandidate ==
    ASSUME NEW img, NEW s, img[s] = Blank
    PROVE  ~ValidCandidate(img, s)
  BY BlankRead DEF ValidCandidate

(* One candidate is mounted.                                               *)
LEMMA OneMounts ==
    ASSUME NEW img, NEW s \in Slots, ValidCandidate(img, s), ~ValidCandidate(img, 1 - s), img[s].gen \in Nat
    PROVE  Mounts(img, s)
  <1>1. \A t \in Slots : ValidCandidate(img, t) <=> t = s
    BY DEF Slots
  <1>2. Select(img) = {s}
    <2> HIDE DEF Slots, ValidCandidate
    <2>1. {t \in Slots : ValidCandidate(img, t)} = {s}
      BY <1>1
    <2> QED BY <2>1 DEF Select
  <1>3. (CHOOSE t \in Select(img) : TRUE) = s /\ Select(img) # {}
    BY <1>2
  <1> QED BY <1>3 DEF Mounts, Active, Mounted, MountedGen

(* Of two candidates the newer one is mounted, or the older one by a guest *)
(* that has it wrong.                                                      *)
LEMMA TwoMount ==
    ASSUME NEW img, NEW s \in Slots, ValidCandidate(img, s), ValidCandidate(img, 1 - s),
           img[s].gen \in Nat, img[1 - s].gen \in Nat,
           IF fault = "mounts_older" THEN img[s].gen < img[1 - s].gen ELSE img[s].gen > img[1 - s].gen
    PROVE  Mounts(img, s)
  <1>1. {t \in Slots : ValidCandidate(img, t)} = {0, 1}
    BY DEF Slots
  <1>2. Select(img) = {r \in {0, 1} : \A t \in {0, 1} : IF fault = "mounts_older" THEN img[r].gen <= img[t].gen
                                                         ELSE img[r].gen >= img[t].gen}
    BY <1>1 DEF Select
  <1>3. Select(img) = {s}
    <2>1. CASE s = 0
      BY <1>2, <2>1
    <2>2. CASE s = 1
      BY <1>2, <2>2
    <2> QED BY <2>1, <2>2 DEF Slots
  <1>4. (CHOOSE t \in Select(img) : TRUE) = s /\ Select(img) # {}
    BY <1>3
  <1> QED BY <1>4 DEF Mounts, Active, Mounted, MountedGen

(* The other slot is written, with the next generation.                    *)
LEMMA Commits ==
    ASSUME NEW img, NEW s, Mounts(img, s), NEW files, fault \notin {"in_place", "no_commit"}
    PROVE  Commit(img, files) = [img EXCEPT ![1 - s] = Slot(1 - s, img[s].gen + 1, files)]
  BY DEF Commit, Mounts

(* Nothing is mounted off an empty image.                                  *)
LEMMA EmptyMounts ==
    ASSUME NEW img, img = Pair(Blank, Blank)
    PROVE  Active(img) = 1 /\ Mounted(img) = NoFiles /\ MountedGen(img) = 0
  <1>1. \A s \in Slots : ~ValidCandidate(img, s)
    BY PairAt, BlankCandidate
  <1>2. Select(img) = {}
    BY <1>1 DEF Select
  <1> QED BY <1>2 DEF Active, Mounted, MountedGen

-----------------------------------------------------------------------------
(* The states of the test                                                  *)

Empty == Pair(Blank, Blank)

(* The target's record and the files after the first three boots: t is the *)
(* tick at which it was made, u and w those at which it was changed.       *)
Target(c, m, h, mode, data) ==
    [created |-> c, modified |-> m, changed |-> h, accessed |-> c,
     mode |-> mode, owner |-> "root", data |-> data]
Files(tgt, other) == [message |-> {"one"}, target |-> tgt, other |-> other, count |-> 8]

T1(t)          == Target(t, t, t, "0600", "v1")
T2(t, u)       == Target(t, u, u, "0640", "v2")
T3(t, u, w, m) == Target(t, w, u, m, "v3")

F1(t)           == Files(T1(t), "sparse")
F2(t, u)        == Files(T2(t, u), IF fault = "fsync_all" THEN "dirty" ELSE "sparse")
F3(t, u, w)     == Files(T3(t, u, w, IF fault = "fdatasync_mode" THEN "0600" ELSE "0640"),
                         IF fault = "fdatasync_all" THEN "dirty" ELSE "sparse")
F4 == [message |-> {"one", "four"}, target |-> <<>>, other |-> "none", count |-> 3]

(* The faults by the boot or the check that notices them.                  *)
Boot1Faults  == {"in_place", "no_commit", "loses_record"}
Check2Faults == {"fsync_stale_mtime", "fsync_stale_ctime", "fsync_access", "fsync_created", "fsync_owner"}
Boot3Faults  == {"fsync_all", "mounts_older"}
Check3Faults == {"fdatasync_stale", "fdatasync_ctime", "fdatasync_access"}
Boot4Faults  == {"fdatasync_mode", "fdatasync_all"}
CopyFaults   == {"trusts_header", "trusts_payload", "rewrites"}

(* After each boot, before and after the check that follows it.            *)
Booted1(t) ==
    /\ fault \notin Boot1Faults
    /\ disk = DiskOf(Pair(Slot(0, 1, F1(t)), Blank), Empty, Empty)
    /\ pc = "check1" => before = Empty
    /\ pc = "boot2" => before = disk.main /\ target = T1(t)

Booted2(t, u, g) ==
    /\ fault \notin Boot1Faults
    /\ disk = DiskOf(Pair(Slot(0, 1, F1(t)), Slot(1, 2, g)), Empty, Empty)
    /\ g.message = {"one"} /\ g.count = 8
    /\ fault \in Check2Faults => ~SameExcept(T1(t), g.target, {"modified", "changed"})
    /\ fault \notin Check2Faults => g = F2(t, u)
    /\ pc = "check2" => before = Pair(Slot(0, 1, F1(t)), Blank) /\ target = T1(t)
    /\ pc = "boot3" => before = disk.main /\ target = g.target /\ fault \notin Check2Faults

Booted3(t, u, w, g) ==
    /\ fault \notin Boot1Faults \cup Check2Faults \cup Boot3Faults
    /\ disk = DiskOf(Pair(Slot(0, 3, g), Slot(1, 2, F2(t, u))), Empty, Empty)
    /\ g.message = {"one"} /\ g.count = 8
    /\ fault \in Check3Faults => ~SameExcept(T2(t, u), g.target, {"modified"})
    /\ fault \notin Check3Faults => g = F3(t, u, w)
    /\ pc = "check3" => before = Pair(Slot(0, 1, F1(t)), Slot(1, 2, F2(t, u))) /\ target = T2(t, u)
    /\ pc = "boot4" => before = disk.main /\ fault \notin Check3Faults

(* A block with one more byte flipped, and one whose payload is damaged.   *)
Flipped(b, f) == [b EXCEPT !.flipped = b.flipped \cup {f}]
Rotten(b)     == [b EXCEPT !.rotten = TRUE]

(* The image after boot 4, and its two damaged copies.                     *)
Image4(t, u, w)   == Pair(Slot(0, 3, F3(t, u, w)), Slot(1, 4, F4))
BadHeader         == Flipped(Slot(1, 4, F4), "crc")
BadPayload        == Rotten(Slot(1, 4, F4))
Header4(t, u, w)  == Pair(Slot(0, 3, F3(t, u, w)), BadHeader)
Payload4(t, u, w) == Pair(Slot(0, 3, F3(t, u, w)), BadPayload)

Booted4(t, u, w) ==
    /\ fault \in CopyFaults \cup {"none"}
    /\ disk = DiskOf(Image4(t, u, w), Empty, Empty)
    /\ before = Pair(Slot(0, 3, F3(t, u, w)), Slot(1, 2, F2(t, u)))

Copied(t, u, w) ==
    /\ fault \in CopyFaults \cup {"none"}
    /\ disk = DiskOf(Image4(t, u, w), Header4(t, u, w), Payload4(t, u, w))
    /\ pc = "boot5" => before = Header4(t, u, w)

Booted5(t, u, w) ==
    /\ fault \in {"none", "trusts_payload", "rewrites"}
    /\ disk = DiskOf(Image4(t, u, w),
                     IF fault = "rewrites" THEN Pair(Slot(0, 3, F3(t, u, w)), Blank) ELSE Header4(t, u, w),
                     Payload4(t, u, w))
    /\ before = Header4(t, u, w) /\ screen = {"one"}

Checked5(t, u, w) ==
    /\ fault \in {"none", "trusts_payload"}
    /\ disk = DiskOf(Image4(t, u, w), Header4(t, u, w), Payload4(t, u, w))
    /\ before = Payload4(t, u, w)
    /\ pc # "boot6" => fault = "none"
    /\ pc = "check6" => screen = {"one"}

(* Where the test is, and what is then on the images.                      *)
Reached ==
    /\ pc = "boot1" => disk = DiskOf(Empty, Empty, Empty) /\ before = Empty
    /\ pc \in {"check1", "boot2"} => \E t \in Ticks : Booted1(t)
    /\ pc \in {"check2", "boot3"} => \E t, u \in Ticks : \E g : Booted2(t, u, g)
    /\ pc \in {"check3", "boot4"} => \E t, u, w \in Ticks : \E g : Booted3(t, u, w, g)
    /\ pc = "check4" => \E t, u, w \in Ticks : Booted4(t, u, w)
    /\ pc \in {"probe", "boot5"} => \E t, u, w \in Ticks : Copied(t, u, w)
    /\ pc = "check5" => \E t, u, w \in Ticks : Booted5(t, u, w)
    /\ pc \in {"boot6", "check6", "end"} => \E t, u, w \in Ticks : Checked5(t, u, w)

(* The inductive invariant.  A guest that is still in the test at a point  *)
(* has none of the faults that are noticed before it.                      *)
TestInv ==
    /\ pc \in Points /\ fault \in KnownFaults /\ Reached
    /\ verdict = "pass" => fault = "none"
    /\ FailsOnTieOnly

(* What is on the images stays while nothing but the verdict changes.      *)
LEMMA StillReached ==
    ASSUME Reached, fault' = fault, disk' = disk, pc' = pc, before' = before,
           target' = target, screen' = screen
    PROVE  Reached'
  <1>1. /\ \A t : Booted1(t)' <=> Booted1(t)
        /\ \A t, u, g : Booted2(t, u, g)' <=> Booted2(t, u, g)
        /\ \A t, u, w, g : Booted3(t, u, w, g)' <=> Booted3(t, u, w, g)
    BY DEF Booted1, Booted2, Booted3, F2, F3
  <1>2. /\ \A t, u, w : Booted4(t, u, w)' <=> Booted4(t, u, w)
        /\ \A t, u, w : Copied(t, u, w)' <=> Copied(t, u, w)
        /\ \A t, u, w : Booted5(t, u, w)' <=> Booted5(t, u, w)
        /\ \A t, u, w : Checked5(t, u, w)' <=> Checked5(t, u, w)
    BY DEF Booted4, Copied, Booted5, Checked5, Image4, Header4, Payload4, F2, F3
  <1> QED BY <1>1, <1>2 DEF Reached

(* The test ends: with a pass of a guest without a fault, or on a tie.      *)
LEMMA Concludes ==
    ASSUME TestInv, NEW why, Fail(why), why = "pass" => fault = "none",
           fault = "none" => why = "pass" \/ (why \in {"check2", "check3"} /\ Tied)
    PROVE  TestInv'
  <1>1. /\ verdict' = why /\ fault' = fault /\ disk' = disk /\ pc' = pc /\ before' = before
        /\ target' = target /\ screen' = screen
    BY DEF Fail
  <1>2. Reached'
    BY <1>1, StillReached DEF TestInv
  <1>3. FailsOnTieOnly'
    BY <1>1 DEF FailsOnTieOnly, Tied
  <1> QED BY <1>1, <1>2, <1>3 DEF TestInv

(* The test stops: its guest has a fault.                                  *)
LEMMA Stops ==
    ASSUME TestInv, NEW why, Fail(why), why # "pass", fault # "none"
    PROVE  TestInv'
  BY Concludes

(* The test goes on.                                                       *)
LEMMA GoesOn ==
    ASSUME TestInv, NEW p, At(p), NEW q \in Points, Proceed(q), Reached'
    PROVE  TestInv'
  BY DEF TestInv, At, Proceed, FailsOnTieOnly

-----------------------------------------------------------------------------
(* What is mounted                                                         *)

(* The first slot is written, the second one empty or not to be mounted.   *)
LEMMA FirstOnly ==
    ASSUME NEW a, NEW b, NEW img, img = Pair(a, b), Good(a, 0), ~ValidCandidate(img, 1)
    PROVE  Mounts(img, 0) /\ Mounted(img) = a.files /\ MountedGen(img) = a.gen /\ Active(img) = 0
  <1>1. img[0] = a /\ img[1] = b /\ 0 \in Slots /\ 1 - 0 = 1
    BY PairAt
  <1>2. ValidCandidate(img, 0) /\ a.gen \in Nat
    BY <1>1, GoodCandidate, GoodRead
  <1>3. Mounts(img, 0)
    BY <1>1, <1>2, OneMounts
  <1> QED BY <1>1, <1>3 DEF Mounts

(* The second slot alone is written.                                       *)
LEMMA SecondOnly ==
    ASSUME NEW b, NEW img, img = Pair(Blank, b), Good(b, 1)
    PROVE  Active(img) = 1
  <1>1. img[0] = Blank /\ img[1] = b /\ 1 \in Slots /\ 1 - 1 = 0
    BY PairAt
  <1>2. ValidCandidate(img, 1) /\ b.gen \in Nat /\ ~ValidCandidate(img, 0)
    BY <1>1, GoodCandidate, GoodRead, BlankCandidate
  <1>3. Mounts(img, 1)
    BY <1>1, <1>2, OneMounts
  <1> QED BY <1>3 DEF Mounts

(* Both slots are written.                                                 *)
LEMMA BothWritten ==
    ASSUME NEW a, NEW b, NEW img, img = Pair(a, b), Good(a, 0), Good(b, 1)
    PROVE  /\ (IF fault = "mounts_older" THEN a.gen < b.gen ELSE a.gen > b.gen) =>
                 Mounts(img, 0) /\ Mounted(img) = a.files /\ MountedGen(img) = a.gen /\ Active(img) = 0
           /\ (IF fault = "mounts_older" THEN b.gen < a.gen ELSE b.gen > a.gen) =>
                 Mounts(img, 1) /\ Mounted(img) = b.files /\ MountedGen(img) = b.gen /\ Active(img) = 1
  <1>1. img[0] = a /\ img[1] = b /\ 0 \in Slots /\ 1 \in Slots /\ 1 - 0 = 1 /\ 1 - 1 = 0
    BY PairAt
  <1>2. ValidCandidate(img, 0) /\ a.gen \in Nat /\ ValidCandidate(img, 1) /\ b.gen \in Nat
    BY <1>1, GoodCandidate, GoodRead
  <1>3. (IF fault = "mounts_older" THEN a.gen < b.gen ELSE a.gen > b.gen) => Mounts(img, 0)
    BY <1>1, <1>2, TwoMount
  <1>4. (IF fault = "mounts_older" THEN b.gen < a.gen ELSE b.gen > a.gen) => Mounts(img, 1)
    BY <1>1, <1>2, TwoMount
  <1> QED BY <1>1, <1>3, <1>4 DEF Mounts

(* A commit to an empty image.                                             *)
LEMMA CommitEmpty ==
    ASSUME NEW files
    PROVE  Commit(Empty, files) = IF fault = "no_commit" THEN Empty
                                  ELSE IF fault = "in_place" THEN Pair(Blank, Slot(1, 1, files))
                                  ELSE Pair(Slot(0, 1, files), Blank)
  <1>1. Active(Empty) = 1 /\ MountedGen(Empty) = 0
    BY EmptyMounts DEF Empty
  <1>2. 0 + 1 = 1 /\ 1 - 1 = 0
    OBVIOUS
  <1>3. Commit(Empty, files) = IF fault = "no_commit" THEN Empty
                               ELSE IF fault = "in_place" THEN [Empty EXCEPT ![1] = Slot(1, 1, files)]
                               ELSE [Empty EXCEPT ![0] = Slot(0, 1, files)]
    BY <1>1, <1>2 DEF Commit
  <1>4. /\ [Empty EXCEPT ![1] = Slot(1, 1, files)] = Pair(Blank, Slot(1, 1, files))
        /\ [Empty EXCEPT ![0] = Slot(0, 1, files)] = Pair(Slot(0, 1, files), Blank)
    BY PairAt DEF Empty
  <1> QED BY <1>3, <1>4

(* A commit beside the first slot, and beside the second one.              *)
LEMMA CommitBeside ==
    ASSUME NEW a, NEW b, NEW img, img = Pair(a, b), NEW files, fault \notin {"in_place", "no_commit"}
    PROVE  /\ Active(img) = 0 => Commit(img, files) = Pair(a, Slot(1, MountedGen(img) + 1, files))
           /\ Active(img) = 1 => Commit(img, files) = Pair(Slot(0, MountedGen(img) + 1, files), b)
  <1>1. 1 - 0 = 1 /\ 1 - 1 = 0
    OBVIOUS
  <1>2. /\ Active(img) = 0 => Commit(img, files) = [img EXCEPT ![1] = Slot(1, MountedGen(img) + 1, files)]
        /\ Active(img) = 1 => Commit(img, files) = [img EXCEPT ![0] = Slot(0, MountedGen(img) + 1, files)]
    BY <1>1 DEF Commit
  <1> QED BY <1>2, PairAt

-----------------------------------------------------------------------------
(* The steps of the test                                                   *)

(* Boot 1 fills an empty image.                                            *)
LEMMA Boot1Goes ==
    ASSUME TestInv, Boot1
    PROVE  TestInv'
  <1>1. pc = "boot1" /\ verdict = "none" /\ At("boot1")
    BY DEF Boot1, At
  <1>2. disk = DiskOf(Empty, Empty, Empty) /\ before = Empty /\ disk.main = Empty
    BY <1>1, DiskAt DEF TestInv, Reached
  <1>3. PICK t \in Ticks :
           IF MountedGen(Populate(disk.main, t)) = 1 /\ Active(Populate(disk.main, t)) = 0
              /\ Mounted(Populate(disk.main, t)).count = 8
           THEN Session("main", Populate(disk.main, t), "check1") ELSE Fail("boot1")
    BY DEF Boot1
  <1> DEFINE img == Populate(disk.main, t)
             lost == [F1(t) EXCEPT !.count = 7]
  <1>4. img = Commit(Empty, IF fault = "loses_record" THEN lost ELSE F1(t))
    BY <1>2 DEF Populate, F1, Files, T1, Target, Times
  <1>5. F1(t).count = 8 /\ lost.count = 7
    BY DEF F1, Files
  <1>6. \A f : /\ Good(Slot(0, 1, f), 0) /\ Slot(0, 1, f).gen = 1 /\ Slot(0, 1, f).files = f
               /\ Good(Slot(1, 1, f), 1)
    BY SlotGood
  <1>7. \A f : LET i == Pair(Slot(0, 1, f), Blank)
               IN  Mounted(i) = f /\ MountedGen(i) = 1 /\ Active(i) = 0
    <2> TAKE f
    <2> DEFINE i == Pair(Slot(0, 1, f), Blank)
    <2>1. ~ValidCandidate(i, 1)
      BY PairAt, BlankCandidate
    <2> QED BY <1>6, <2>1, FirstOnly
  <1> HIDE DEF img, lost
  <1>8. CASE fault \in Boot1Faults
    <2>1. ~(MountedGen(img) = 1 /\ Active(img) = 0 /\ Mounted(img).count = 8)
      <3>1. CASE fault = "no_commit"
        <4>1. img = Empty /\ MountedGen(Empty) = 0
          BY <1>4, <3>1, CommitEmpty, EmptyMounts DEF Empty
        <4> QED BY <4>1
      <3>2. CASE fault = "in_place"
        <4>1. img = Pair(Blank, Slot(1, 1, F1(t)))
          BY <1>4, <3>2, CommitEmpty
        <4>2. Active(img) = 1
          BY <1>6, <4>1, SecondOnly
        <4> QED BY <4>2
      <3>3. CASE fault = "loses_record"
        <4>1. img = Pair(Slot(0, 1, lost), Blank)
          BY <1>4, <3>3, CommitEmpty
        <4>2. Mounted(img).count = 7
          BY <1>5, <1>7, <4>1
        <4> QED BY <4>2
      <3> QED BY <1>8, <3>1, <3>2, <3>3 DEF Boot1Faults
    <2>2. Fail("boot1")
      BY <1>3, <2>1 DEF img
    <2>3. fault # "none"
      BY <1>8 DEF Boot1Faults
    <2> QED BY <2>2, <2>3, Stops
  <1>9. CASE fault \notin Boot1Faults
    <2>1. img = Pair(Slot(0, 1, F1(t)), Blank)
      BY <1>4, <1>9, CommitEmpty DEF Boot1Faults
    <2>2. MountedGen(img) = 1 /\ Active(img) = 0 /\ Mounted(img).count = 8
      BY <1>5, <1>7, <2>1
    <2>3. Session("main", img, "check1")
      BY <1>3, <2>2 DEF img
    <2>4. /\ disk' = [disk EXCEPT !["main"] = img] /\ before' = before /\ fault' = fault /\ pc' = "check1"
          /\ Proceed("check1")
      BY <2>3 DEF Session, Proceed
    <2>5. disk' = DiskOf(img, Empty, Empty)
      BY <1>2, <2>4, DiskAt
    <2>6. Booted1(t)'
      BY <1>2, <1>9, <2>1, <2>4, <2>5 DEF Booted1
    <2>7. Reached'
      BY <2>4, <2>6 DEF Reached
    <2> QED BY <1>1, <2>4, <2>7, GoesOn DEF Points
  <1> QED BY <1>8, <1>9

(* A session changes one image.                                            *)
LEMMA SessionOf ==
    ASSUME NEW m, NEW h, NEW p, disk = DiskOf(m, h, p),
           NEW name \in Images, NEW img, NEW q, Session(name, img, q)
    PROVE  /\ disk' = (IF name = "main" THEN DiskOf(img, h, p) ELSE IF name = "header" THEN DiskOf(m, img, p)
                       ELSE DiskOf(m, h, img))
           /\ before' = before /\ target' = target /\ fault' = fault /\ pc' = q /\ Proceed(q)
           /\ screen' = Mounted(disk[name]).message \cup Mounted(img).message
  <1>1. /\ disk' = [disk EXCEPT ![name] = img] /\ before' = before /\ target' = target
        /\ screen' = Mounted(disk[name]).message \cup Mounted(img).message /\ Proceed(q)
    BY DEF Session
  <1>2. fault' = fault /\ pc' = q
    BY <1>1 DEF Proceed
  <1>3. /\ [DiskOf(m, h, p) EXCEPT !["main"] = img] = DiskOf(img, h, p)
        /\ [DiskOf(m, h, p) EXCEPT !["header"] = img] = DiskOf(m, img, p)
        /\ [DiskOf(m, h, p) EXCEPT !["payload"] = img] = DiskOf(m, h, img)
    BY DiskAt
  <1> QED BY <1>1, <1>2, <1>3 DEF Images

(* What both parsers make of a slot that a commit wrote, and of an image   *)
(* whose slots are compared.                                               *)
LEMMA SlotRead ==
    ASSUME NEW s, NEW gen \in Nat, gen > 0, NEW files
    PROVE  /\ ParseHeader(Slot(s, gen, files), s) = "ok" /\ ParseRecords(Slot(s, gen, files)) = "ok"
           /\ Slot(s, gen, files).gen = gen /\ Slot(s, gen, files).files = files
           /\ Slot(s, gen, files) # Blank
  <1>1. Good(Slot(s, gen, files), s) /\ Slot(s, gen, files).gen = gen /\ Slot(s, gen, files).files = files
    BY SlotGood
  <1>2. ParseHeader(Slot(s, gen, files), s) = "ok" /\ ParseRecords(Slot(s, gen, files)) = "ok"
    BY <1>1, GoodRead
  <1>3. Blank.gen = 0
    BY DEF Blank
  <1> QED BY <1>1, <1>2, <1>3

(* What the files hold after each of the four boots.                       *)
LEMMA Files1Hold ==
    ASSUME NEW t
    PROVE  F1(t).message = {"one"} /\ F1(t).count = 8 /\ F1(t).target = T1(t) /\ F1(t).other = "sparse"
  BY DEF F1, Files

(* The second.                                                             *)
LEMMA Files2Hold ==
    ASSUME NEW t, NEW u
    PROVE  /\ F2(t, u).message = {"one"} /\ F2(t, u).count = 8 /\ F2(t, u).target = T2(t, u)
           /\ F2(t, u).other = (IF fault = "fsync_all" THEN "dirty" ELSE "sparse")
  BY DEF F2, Files

(* The third.                                                              *)
LEMMA Files3Hold ==
    ASSUME NEW t, NEW u, NEW w
    PROVE  /\ F3(t, u, w).message = {"one"} /\ F3(t, u, w).count = 8
           /\ F3(t, u, w).target = T3(t, u, w, IF fault = "fdatasync_mode" THEN "0600" ELSE "0640")
           /\ F3(t, u, w).other = (IF fault = "fdatasync_all" THEN "dirty" ELSE "sparse")
  BY DEF F3, Files

(* The fourth.                                                             *)
LEMMA Files4Hold ==
    F4.message = {"one", "four"} /\ F4.count = 3
  BY DEF F4

(* A target and the other file replaced.                                   *)
Replaced(f, c, d) == [f EXCEPT !.target = c, !.other = d]

(* Nothing else of the files changes.                                      *)
LEMMA FilesWith ==
    ASSUME NEW a, NEW b, NEW c, NEW d
    PROVE  Replaced(Files(a, b), c, d) = Files(c, d)
  <1> DEFINE new == [Files(a, b) EXCEPT !.target = c, !.other = d]
  <1>1. DOMAIN new = {"message", "target", "other", "count"} /\ new = [k \in DOMAIN new |-> new[k]]
    BY DEF Files
  <1>2. DOMAIN Files(c, d) = DOMAIN new /\ Files(c, d) = [k \in DOMAIN new |-> Files(c, d)[k]]
    BY <1>1 DEF Files
  <1>3. /\ new.message = Files(c, d).message /\ new.target = Files(c, d).target
        /\ new.other = Files(c, d).other /\ new.count = Files(c, d).count
    BY DEF Files
  <1> HIDE DEF new
  <1>4. \A k \in DOMAIN new : new[k] = Files(c, d)[k]
    BY <1>1, <1>3
  <1>5. new = Files(c, d)
    BY <1>1, <1>2, <1>4
  <1> QED BY <1>5 DEF new, Replaced

(* Ticks are positive.                                                     *)
LEMMA TickPositive ==
    ASSUME NEW t \in Ticks
    PROVE  t \in Nat /\ t > 0 /\ t + 1 # t
  BY TickAssumption DEF Ticks

(* The first image, mounted.                                               *)
LEMMA MountFirst ==
    ASSUME NEW f
    PROVE  LET i == Pair(Slot(0, 1, f), Blank)
           IN  Mounted(i) = f /\ MountedGen(i) = 1 /\ Active(i) = 0
  <1> DEFINE i == Pair(Slot(0, 1, f), Blank)
  <1>1. ~ValidCandidate(i, 1)
    BY PairAt, BlankCandidate
  <1>2. Good(Slot(0, 1, f), 0) /\ Slot(0, 1, f).gen = 1 /\ Slot(0, 1, f).files = f
    BY SlotGood
  <1> QED BY <1>1, <1>2, FirstOnly

(* Two written slots, mounted.                                             *)
LEMMA MountTwo ==
    ASSUME NEW f, NEW g, NEW a \in Nat, NEW b \in Nat, a > 0, b > 0, fault # "mounts_older"
    PROVE  LET i == Pair(Slot(0, a, f), Slot(1, b, g))
           IN  /\ a > b => Mounted(i) = f /\ MountedGen(i) = a /\ Active(i) = 0
               /\ b > a => Mounted(i) = g /\ MountedGen(i) = b /\ Active(i) = 1
  <1>1. /\ Good(Slot(0, a, f), 0) /\ Slot(0, a, f).gen = a /\ Slot(0, a, f).files = f
        /\ Good(Slot(1, b, g), 1) /\ Slot(1, b, g).gen = b /\ Slot(1, b, g).files = g
    BY SlotGood
  <1> QED BY <1>1, BothWritten

(* The first check finds the first boot's files.                           *)
LEMMA Check1Goes ==
    ASSUME TestInv, Check1
    PROVE  TestInv'
  <1>1. pc = "check1" /\ At("check1")
    BY DEF Check1, At
  <1>2. PICK t \in Ticks : Booted1(t)
    BY <1>1 DEF TestInv, Reached
  <1>3. /\ fault \notin Boot1Faults /\ before = Empty
        /\ disk = DiskOf(Pair(Slot(0, 1, F1(t)), Blank), Empty, Empty)
    BY <1>1, <1>2 DEF Booted1
  <1>4. /\ disk.main = Pair(Slot(0, 1, F1(t)), Blank) /\ disk.main[0] = Slot(0, 1, F1(t))
        /\ disk.main[1] = Blank
    BY <1>3, DiskAt, PairAt
  <1>5. /\ ParseHeader(disk.main[0], 0) = "ok" /\ ParseRecords(disk.main[0]) = "ok"
        /\ disk.main[0].gen = 1 /\ disk.main[0].files = F1(t) /\ disk.main[0] # Blank
    BY <1>4, SlotRead
  <1>6. disk.main # before
    BY <1>3, <1>4, <1>5, PairAt DEF Empty
  <1>7. ParseHeader(disk.main[1], 1) = "none"
    BY <1>4, BlankRead
  <1>8. TargetRecord(disk.main[0]) = T1(t) /\ disk.main[0].files.count = 8
    BY <1>5, Files1Hold DEF TargetRecord
  <1>9. T1(t).created > 0 /\ T1(t).owner = "root"
    BY TickPositive DEF T1, Target
  <1>10. target' = T1(t) /\ before' = disk.main /\ Proceed("boot2") /\ disk' = disk
    BY <1>5, <1>6, <1>7, <1>8, <1>9 DEF Check1
  <1>11. pc' = "boot2" /\ fault' = fault
    BY <1>10 DEF Proceed
  <1>12. Booted1(t)'
    BY <1>3, <1>10, <1>11 DEF Booted1
  <1>13. Reached'
    BY <1>11, <1>12 DEF Reached
  <1> QED BY <1>1, <1>10, <1>13, GoesOn DEF Points

(* What fsync commits.                                                     *)
LEMMA FileSyncWrites ==
    ASSUME NEW t \in Ticks, NEW u \in Ticks, NEW img, Mounted(img) = F1(t)
    PROVE  \E g : /\ FileSync(img, u) = Commit(img, g)
                  /\ g.message = {"one"} /\ g.count = 8
                  /\ fault \in Check2Faults => ~SameExcept(T1(t), g.target, {"modified", "changed"})
                  /\ fault \notin Check2Faults => g = F2(t, u)
  <1> DEFINE tgt == [created |-> IF fault = "fsync_created" THEN t + 1 ELSE t,
                     modified |-> IF fault = "fsync_stale_mtime" THEN t ELSE u,
                     changed |-> IF fault = "fsync_stale_ctime" THEN t ELSE u,
                     accessed |-> IF fault = "fsync_access" THEN t + 1 ELSE t,
                     mode |-> "0640", owner |-> IF fault = "fsync_owner" THEN "nobody" ELSE "root",
                     data |-> "v2"]
             oth == IF fault = "fsync_all" THEN "dirty" ELSE "sparse"
             g   == Files(tgt, oth)
             new == [T1(t) EXCEPT !.modified = IF fault = "fsync_stale_mtime" THEN @ ELSE u,
                                  !.changed = IF fault = "fsync_stale_ctime" THEN @ ELSE u,
                                  !.accessed = IF fault = "fsync_access" THEN @ + 1 ELSE @,
                                  !.created = IF fault = "fsync_created" THEN @ + 1 ELSE @,
                                  !.owner = IF fault = "fsync_owner" THEN "nobody" ELSE @,
                                  !.mode = "0640", !.data = "v2"]
  <1>1. F1(t).target = T1(t) /\ F1(t).other = "sparse"
    BY Files1Hold
  <1>2. new = tgt
    <2>1. DOMAIN new = {"created", "modified", "changed", "accessed", "mode", "owner", "data"}
      BY DEF T1, Target
    <2>2. /\ new.created = tgt.created /\ new.modified = tgt.modified /\ new.changed = tgt.changed
          /\ new.accessed = tgt.accessed /\ new.mode = tgt.mode /\ new.owner = tgt.owner /\ new.data = tgt.data
      BY DEF T1, Target
    <2>3. new = [k \in DOMAIN new |-> new[k]]
      BY DEF T1
    <2>4. \A k \in DOMAIN new : new[k] = tgt[k]
      BY <2>1, <2>2
    <2>5. tgt = [k \in DOMAIN new |-> tgt[k]]
      BY <2>1
    <2> HIDE DEF new, tgt
    <2> QED BY <2>3, <2>4, <2>5
  <1> HIDE DEF tgt
  <1>3. [F1(t) EXCEPT !.target = tgt, !.other = IF fault = "fsync_all" THEN "dirty" ELSE @] = g
    <2>1. (IF fault = "fsync_all" THEN "dirty" ELSE F1(t).other) = oth
      BY <1>1
    <2> HIDE DEF oth
    <2>2. Replaced(F1(t), tgt, oth) = g
      BY FilesWith DEF F1
    <2> QED BY <2>1, <2>2 DEF Replaced
  <1>4. FileSync(img, u) = Commit(img, g)
    <2>1. Commit(img, [F1(t) EXCEPT !.target = new, !.other = IF fault = "fsync_all" THEN "dirty" ELSE @])
            = FileSync(img, u)
      BY <1>1 DEF FileSync
    <2> HIDE DEF new, g, oth
    <2> QED BY <1>2, <1>3, <2>1
  <1>5. g.message = {"one"} /\ g.count = 8 /\ g.target = tgt
    BY DEF Files
  <1>6. /\ tgt.created = (IF fault = "fsync_created" THEN t + 1 ELSE t)
        /\ tgt.modified = (IF fault = "fsync_stale_mtime" THEN t ELSE u)
        /\ tgt.changed = (IF fault = "fsync_stale_ctime" THEN t ELSE u)
        /\ tgt.accessed = (IF fault = "fsync_access" THEN t + 1 ELSE t)
        /\ tgt.owner = (IF fault = "fsync_owner" THEN "nobody" ELSE "root")
    BY DEF tgt
  <1>7. /\ T1(t).created = t /\ T1(t).modified = t /\ T1(t).changed = t /\ T1(t).accessed = t
        /\ T1(t).owner = "root"
    BY DEF T1, Target
  <1>8. ASSUME fault \in Check2Faults
        PROVE  ~SameExcept(T1(t), tgt, {"modified", "changed"})
    <2>1. t + 1 # t
      BY TickPositive
    <2>2. SUFFICES ASSUME SameExcept(T1(t), tgt, {"modified", "changed"}) PROVE FALSE
      OBVIOUS
    <2>3. /\ T1(t).created = tgt.created /\ T1(t).accessed = tgt.accessed /\ T1(t).owner = tgt.owner
          /\ T1(t).modified # tgt.modified /\ T1(t).changed # tgt.changed
      BY <2>2 DEF SameExcept
    <2> QED BY <1>6, <1>7, <1>8, <2>1, <2>3 DEF Check2Faults
  <1>9. ASSUME fault \notin Check2Faults
        PROVE  g = F2(t, u)
    <2>1. tgt = T2(t, u)
      <3>1. /\ fault # "fsync_created" /\ fault # "fsync_stale_mtime" /\ fault # "fsync_stale_ctime"
            /\ fault # "fsync_access" /\ fault # "fsync_owner"
        BY <1>9 DEF Check2Faults
      <3> QED BY <3>1 DEF tgt, T2, Target
    <2> QED BY <2>1 DEF F2
  <1> HIDE DEF g
  <1> QED BY <1>4, <1>5, <1>8, <1>9

(* Boot 2 commits beside the first boot's slot.                            *)
LEMMA Boot2Goes ==
    ASSUME TestInv, Boot2
    PROVE  TestInv'
  <1>1. pc = "boot2" /\ At("boot2")
    BY DEF Boot2, At
  <1>2. PICK t \in Ticks : Booted1(t)
    BY <1>1 DEF TestInv, Reached
  <1> DEFINE img == Pair(Slot(0, 1, F1(t)), Blank)
  <1>3. fault \notin Boot1Faults /\ disk = DiskOf(img, Empty, Empty) /\ before = disk.main /\ target = T1(t)
    BY <1>1, <1>2 DEF Booted1
  <1>4. disk.main = img
    BY <1>3, DiskAt
  <1>5. Mounted(img) = F1(t) /\ MountedGen(img) = 1 /\ Active(img) = 0
    BY MountFirst
  <1> HIDE DEF img
  <1>6. PICK u \in Ticks : Session("main", FileSync(img, u), "check2")
    BY <1>4 DEF Boot2
  <1>7. PICK g : /\ FileSync(img, u) = Commit(img, g)
                 /\ g.message = {"one"} /\ g.count = 8
                 /\ fault \in Check2Faults => ~SameExcept(T1(t), g.target, {"modified", "changed"})
                 /\ fault \notin Check2Faults => g = F2(t, u)
    BY <1>5, <1>6, FileSyncWrites
  <1>8. fault \notin {"in_place", "no_commit"} /\ 1 + 1 = 2
    BY <1>3 DEF Boot1Faults
  <1>9. Commit(img, g) = Pair(Slot(0, 1, F1(t)), Slot(1, 2, g))
    BY <1>5, <1>8, CommitBeside DEF img
  <1>10. /\ disk' = DiskOf(Pair(Slot(0, 1, F1(t)), Slot(1, 2, g)), Empty, Empty) /\ before' = before
         /\ target' = target /\ fault' = fault /\ pc' = "check2" /\ Proceed("check2")
    BY <1>3, <1>6, <1>7, <1>9, SessionOf DEF Images
  <1>11. Booted2(t, u, g)'
    BY <1>3, <1>4, <1>6, <1>7, <1>10 DEF Booted2, F2, img
  <1>12. Reached'
    BY <1>6, <1>10, <1>11 DEF Reached
  <1> QED BY <1>1, <1>10, <1>12, GoesOn DEF Points

(* The second check finds the target changed as fsync must change it, or   *)
(* stops.                                                                  *)
LEMMA Check2Goes ==
    ASSUME TestInv, Check2
    PROVE  TestInv'
  <1>1. pc = "check2" /\ At("check2")
    BY DEF Check2, At
  <1>2. PICK t \in Ticks, u \in Ticks : \E g : Booted2(t, u, g)
    BY <1>1 DEF TestInv, Reached
  <1>3. PICK g : Booted2(t, u, g)
    BY <1>2
  <1> DEFINE img == Pair(Slot(0, 1, F1(t)), Slot(1, 2, g))
  <1>4. /\ fault \notin Boot1Faults /\ disk = DiskOf(img, Empty, Empty)
        /\ g.message = {"one"} /\ g.count = 8
        /\ before = Pair(Slot(0, 1, F1(t)), Blank) /\ target = T1(t)
    BY <1>1, <1>3 DEF Booted2
  <1>5. disk.main = img /\ disk.main[0] = Slot(0, 1, F1(t)) /\ disk.main[1] = Slot(1, 2, g)
    BY <1>4, DiskAt, PairAt
  <1>6. /\ ParseHeader(disk.main[0], 0) = "ok" /\ disk.main[0].gen = 1 /\ disk.main[0].files = F1(t)
        /\ ParseHeader(disk.main[1], 1) = "ok" /\ disk.main[1].gen = 2 /\ disk.main[1].files = g
        /\ ParseRecords(disk.main[1]) = "ok" /\ disk.main[1] # Blank
    BY <1>5, SlotRead
  <1> DEFINE same == SameExcept(T1(t), g.target, {"modified", "changed"})
  <1>7. F1(t).count = 8
    BY Files1Hold
  <1>8. /\ disk.main # before /\ Generations(1, 2) /\ Counts(8, 8) /\ ParseRecords(disk.main[1]) = "ok"
        /\ TargetRecord(disk.main[1]) = g.target
    <2>1. before[1] = Blank
      BY <1>4, PairAt
    <2>2. disk.main # before
      BY <1>6, <2>1
    <2> QED BY <1>4, <1>6, <1>7, <2>2 DEF Generations, Counts, TargetRecord
  <1>9. CASE ~same
    <2>1. Fail("check2")
      BY <1>4, <1>8, <1>9 DEF Check2
    <2>2. fault = "none" => Tied
      <3>1. CASE fault \in Check2Faults
        BY <3>1 DEF Check2Faults
      <3>2. CASE fault \notin Check2Faults
        <4>1. g.target = T2(t, u)
          <5>1. g = F2(t, u)
            BY <1>3, <3>2 DEF Booted2
          <5> QED BY <5>1, Files2Hold
        <4>2. u = t
          <5>1. SUFFICES ASSUME u # t PROVE same
            BY <1>9
          <5>2. /\ T1(t).created = T2(t, u).created /\ T1(t).modified # T2(t, u).modified
                /\ T1(t).changed # T2(t, u).changed /\ T1(t).accessed = T2(t, u).accessed
                /\ T1(t).owner = T2(t, u).owner
            BY <5>1 DEF T1, T2, Target
          <5> QED BY <4>1, <5>2 DEF SameExcept
        <4>3. disk.main[0].files.target = T1(t) /\ disk.main[1].files.target = T2(t, u)
          BY <1>6, <4>1, Files1Hold
        <4> QED BY <4>2, <4>3 DEF Tied, T1, T2, Target
      <3> QED BY <3>1, <3>2
    <2> QED BY <2>1, <2>2, Concludes
  <1>10. CASE same
    <2>1. target' = g.target /\ before' = disk.main /\ Proceed("boot3") /\ disk' = disk
      <3> HIDE DEF img
      <3> QED BY <1>4, <1>8, <1>10 DEF Check2
    <2>2. pc' = "boot3" /\ fault' = fault
      BY <2>1 DEF Proceed
    <2>3. fault \notin Check2Faults /\ g = F2(t, u)
      BY <1>3, <1>10 DEF Booted2
    <2>4. Booted2(t, u, g)'
      BY <1>4, <2>1, <2>2, <2>3 DEF Booted2, F2
    <2>5. Reached'
      BY <2>2, <2>4 DEF Reached
    <2> QED BY <1>1, <2>1, <2>5, GoesOn DEF Points
  <1> QED BY <1>9, <1>10

(* What fdatasync commits.                                                 *)
LEMMA FileDataSyncWrites ==
    ASSUME NEW t \in Ticks, NEW u \in Ticks, NEW w \in Ticks, NEW img, Mounted(img) = F2(t, u),
           fault # "fsync_all"
    PROVE  \E g : /\ FileDataSync(img, w) = Commit(img, g)
                  /\ g.message = {"one"} /\ g.count = 8
                  /\ fault \in Check3Faults => ~SameExcept(T2(t, u), g.target, {"modified"})
                  /\ fault \notin Check3Faults => g = F3(t, u, w)
  <1> DEFINE tgt == [created |-> t,
                     modified |-> IF fault = "fdatasync_stale" THEN u ELSE w,
                     changed |-> IF fault = "fdatasync_ctime" THEN u + 1 ELSE u,
                     accessed |-> IF fault = "fdatasync_access" THEN t + 1 ELSE t,
                     mode |-> IF fault = "fdatasync_mode" THEN "0600" ELSE "0640",
                     owner |-> "root", data |-> "v3"]
             oth == IF fault = "fdatasync_all" THEN "dirty" ELSE "sparse"
             g   == Files(tgt, oth)
             new == [T2(t, u) EXCEPT !.modified = IF fault = "fdatasync_stale" THEN @ ELSE w,
                                     !.changed = IF fault = "fdatasync_ctime" THEN @ + 1 ELSE @,
                                     !.accessed = IF fault = "fdatasync_access" THEN @ + 1 ELSE @,
                                     !.mode = IF fault = "fdatasync_mode" THEN "0600" ELSE @,
                                     !.data = "v3"]
  <1>1. F2(t, u).target = T2(t, u) /\ F2(t, u).other = "sparse"
    BY Files2Hold
  <1>2. new = tgt
    <2>1. DOMAIN new = {"created", "modified", "changed", "accessed", "mode", "owner", "data"}
      BY DEF T2, Target
    <2>2. /\ new.created = tgt.created /\ new.modified = tgt.modified /\ new.changed = tgt.changed
          /\ new.accessed = tgt.accessed /\ new.mode = tgt.mode /\ new.owner = tgt.owner /\ new.data = tgt.data
      BY DEF T2, Target
    <2>3. new = [k \in DOMAIN new |-> new[k]]
      BY DEF T2
    <2>4. \A k \in DOMAIN new : new[k] = tgt[k]
      BY <2>1, <2>2
    <2>5. tgt = [k \in DOMAIN new |-> tgt[k]]
      BY <2>1
    <2> HIDE DEF new, tgt
    <2> QED BY <2>3, <2>4, <2>5
  <1> HIDE DEF tgt
  <1>3. [F2(t, u) EXCEPT !.target = tgt, !.other = IF fault = "fdatasync_all" THEN "dirty" ELSE @] = g
    <2>1. (IF fault = "fdatasync_all" THEN "dirty" ELSE F2(t, u).other) = oth
      BY <1>1
    <2> HIDE DEF oth
    <2>2. Replaced(F2(t, u), tgt, oth) = g
      BY FilesWith DEF F2
    <2> QED BY <2>1, <2>2 DEF Replaced
  <1>4. FileDataSync(img, w) = Commit(img, g)
    <2>1. Commit(img, [F2(t, u) EXCEPT !.target = new,
                                             !.other = IF fault = "fdatasync_all" THEN "dirty" ELSE @])
            = FileDataSync(img, w)
      BY <1>1 DEF FileDataSync
    <2> HIDE DEF new, g, oth
    <2> QED BY <1>2, <1>3, <2>1
  <1>5. g.message = {"one"} /\ g.count = 8 /\ g.target = tgt
    BY DEF Files
  <1>6. /\ tgt.modified = (IF fault = "fdatasync_stale" THEN u ELSE w)
        /\ tgt.changed = (IF fault = "fdatasync_ctime" THEN u + 1 ELSE u)
        /\ tgt.accessed = (IF fault = "fdatasync_access" THEN t + 1 ELSE t)
    BY DEF tgt
  <1>7. T2(t, u).modified = u /\ T2(t, u).changed = u /\ T2(t, u).accessed = t
    BY DEF T2, Target
  <1>8. ASSUME fault \in Check3Faults
        PROVE  ~SameExcept(T2(t, u), tgt, {"modified"})
    <2>1. t + 1 # t /\ u + 1 # u
      BY TickPositive
    <2>2. SUFFICES ASSUME SameExcept(T2(t, u), tgt, {"modified"}) PROVE FALSE
      OBVIOUS
    <2>3. /\ T2(t, u).accessed = tgt.accessed /\ T2(t, u).changed = tgt.changed
          /\ T2(t, u).modified # tgt.modified
      BY <2>2 DEF SameExcept
    <2> QED BY <1>6, <1>7, <1>8, <2>1, <2>3 DEF Check3Faults
  <1>9. ASSUME fault \notin Check3Faults
        PROVE  g = F3(t, u, w)
    <2>1. fault # "fdatasync_stale" /\ fault # "fdatasync_ctime" /\ fault # "fdatasync_access"
      BY <1>9 DEF Check3Faults
    <2>2. tgt = T3(t, u, w, IF fault = "fdatasync_mode" THEN "0600" ELSE "0640")
      BY <2>1 DEF tgt, T3, Target
    <2> QED BY <2>2 DEF F3
  <1> HIDE DEF g
  <1> QED BY <1>4, <1>5, <1>8, <1>9

(* Boot 3 refuses the volume of a guest that mounts the older slot or has  *)
(* synced more than fsync's file, and otherwise commits over the older one.*)
LEMMA Boot3Goes ==
    ASSUME TestInv, Boot3
    PROVE  TestInv'
  <1>1. pc = "boot3" /\ At("boot3")
    BY DEF Boot3, At
  <1>2. PICK t \in Ticks, u \in Ticks : \E g : Booted2(t, u, g)
    BY <1>1 DEF TestInv, Reached
  <1>3. PICK g : Booted2(t, u, g)
    BY <1>2
  <1> DEFINE img == Pair(Slot(0, 1, F1(t)), Slot(1, 2, F2(t, u)))
  <1>4. /\ fault \notin Boot1Faults /\ fault \notin Check2Faults /\ disk = DiskOf(img, Empty, Empty)
        /\ before = disk.main /\ target = g.target /\ g = F2(t, u)
    BY <1>1, <1>3 DEF Booted2
  <1>5. disk.main = img /\ target = T2(t, u)
    BY <1>4, DiskAt, Files2Hold
  <1>6. fault # "mounts_older" => Mounted(img) = F2(t, u) /\ MountedGen(img) = 2 /\ Active(img) = 1
    BY MountTwo
  <1>7. fault = "mounts_older" => Mounted(img) = F1(t)
    <2>1. /\ Good(Slot(0, 1, F1(t)), 0) /\ Slot(0, 1, F1(t)).gen = 1 /\ Slot(0, 1, F1(t)).files = F1(t)
          /\ Good(Slot(1, 2, F2(t, u)), 1) /\ Slot(1, 2, F2(t, u)).gen = 2
      BY SlotGood
    <2> QED BY <2>1, BothWritten
  <1> HIDE DEF img
  <1>8. CASE fault \in Boot3Faults
    <2>1. ~SyncedState(img)
      <3>1. F1(t).target = T1(t) /\ F2(t, u).other = (IF fault = "fsync_all" THEN "dirty" ELSE "sparse")
        BY Files1Hold, Files2Hold
      <3>2. T1(t).mode = "0600"
        BY DEF T1, Target
      <3>3. CASE fault = "mounts_older"
        BY <1>7, <3>1, <3>2, <3>3 DEF SyncedState
      <3>4. CASE fault = "fsync_all"
        BY <1>6, <3>1, <3>4 DEF SyncedState
      <3> QED BY <1>8, <3>3, <3>4 DEF Boot3Faults
    <2>2. Fail("boot3")
      BY <1>5, <2>1 DEF Boot3
    <2>3. fault # "none"
      BY <1>8 DEF Boot3Faults
    <2> QED BY <2>2, <2>3, Stops
  <1>9. CASE fault \notin Boot3Faults
    <2>1. fault # "mounts_older" /\ fault # "fsync_all" /\ fault \notin {"in_place", "no_commit"} /\ 2 + 1 = 3
      BY <1>4, <1>9 DEF Boot3Faults, Boot1Faults
    <2>2. /\ F2(t, u).target = T2(t, u) /\ F2(t, u).other = "sparse" /\ T2(t, u).modified = u
          /\ T2(t, u).mode = "0640" /\ T2(t, u).data = "v2"
      <3>1. F2(t, u).target = T2(t, u) /\ F2(t, u).other = "sparse"
        BY <2>1, Files2Hold
      <3> QED BY <3>1 DEF T2, Target
    <2>3. SyncedState(img)
      BY <1>6, <2>1, <2>2 DEF SyncedState
    <2>4. PICK w \in Ticks \ {1} : Session("main", FileDataSync(img, w), "check3")
      BY <1>5, <2>3 DEF Boot3
    <2>5. w \in Ticks
      BY <2>4
    <2>6. PICK f : /\ FileDataSync(img, w) = Commit(img, f)
                   /\ f.message = {"one"} /\ f.count = 8
                   /\ fault \in Check3Faults => ~SameExcept(T2(t, u), f.target, {"modified"})
                   /\ fault \notin Check3Faults => f = F3(t, u, w)
      BY <1>6, <2>1, <2>5, FileDataSyncWrites
    <2>7. Commit(img, f) = Pair(Slot(0, 3, f), Slot(1, 2, F2(t, u)))
      BY <1>6, <2>1, CommitBeside DEF img
    <2>8. /\ disk' = DiskOf(Pair(Slot(0, 3, f), Slot(1, 2, F2(t, u))), Empty, Empty) /\ before' = before
          /\ target' = target /\ fault' = fault /\ pc' = "check3" /\ Proceed("check3")
      BY <1>4, <2>4, <2>6, <2>7, SessionOf DEF Images
    <2>9. fault \notin Boot1Faults \cup Check2Faults \cup Boot3Faults
      BY <1>4, <1>9
    <2>10. Booted3(t, u, w, f)'
      BY <1>4, <1>5, <2>5, <2>6, <2>8, <2>9 DEF Booted3, F2, F3, img
    <2>11. Reached'
      BY <2>5, <2>8, <2>10 DEF Reached
    <2> QED BY <1>1, <2>8, <2>11, GoesOn DEF Points
  <1> QED BY <1>8, <1>9

(* The third check finds the target changed as fdatasync must change it,   *)
(* or stops.                                                               *)
LEMMA Check3Goes ==
    ASSUME TestInv, Check3
    PROVE  TestInv'
  <1>1. pc = "check3" /\ At("check3")
    BY DEF Check3, At
  <1>2. PICK t \in Ticks, u \in Ticks, w \in Ticks : \E g : Booted3(t, u, w, g)
    BY <1>1 DEF TestInv, Reached
  <1>3. PICK g : Booted3(t, u, w, g)
    BY <1>2
  <1> DEFINE img == Pair(Slot(0, 3, g), Slot(1, 2, F2(t, u)))
  <1>4. /\ fault \notin Boot1Faults \cup Check2Faults \cup Boot3Faults /\ disk = DiskOf(img, Empty, Empty)
        /\ g.message = {"one"} /\ g.count = 8
        /\ before = Pair(Slot(0, 1, F1(t)), Slot(1, 2, F2(t, u))) /\ target = T2(t, u)
    BY <1>1, <1>3 DEF Booted3
  <1>5. disk.main = img /\ disk.main[0] = Slot(0, 3, g) /\ disk.main[1] = Slot(1, 2, F2(t, u))
    BY <1>4, DiskAt, PairAt
  <1>6. /\ ParseHeader(disk.main[0], 0) = "ok" /\ disk.main[0].gen = 3 /\ disk.main[0].files = g
        /\ ParseHeader(disk.main[1], 1) = "ok" /\ disk.main[1].gen = 2 /\ disk.main[1].files = F2(t, u)
        /\ ParseRecords(disk.main[0]) = "ok" /\ Slot(0, 1, F1(t)).gen = 1
    BY <1>5, SlotRead
  <1> DEFINE same == SameExcept(T2(t, u), g.target, {"modified"})
  <1>7. F2(t, u).count = 8
    BY Files2Hold
  <1>8. /\ disk.main # before /\ Generations(3, 2) /\ Counts(8, 8) /\ ParseRecords(disk.main[0]) = "ok"
        /\ TargetRecord(disk.main[0]) = g.target
    <2>1. before[0] = Slot(0, 1, F1(t))
      BY <1>4, PairAt
    <2>2. disk.main # before
      BY <1>6, <2>1
    <2> QED BY <1>4, <1>6, <1>7, <2>2 DEF Generations, Counts, TargetRecord
  <1>9. CASE ~same
    <2>1. Fail("check3")
      BY <1>4, <1>8, <1>9 DEF Check3
    <2>2. fault = "none" => Tied
      <3>1. CASE fault \in Check3Faults
        BY <3>1 DEF Check3Faults
      <3>2. CASE fault \notin Check3Faults
        <4> DEFINE m == IF fault = "fdatasync_mode" THEN "0600" ELSE "0640"
        <4>1. g.target = T3(t, u, w, m)
          <5>1. g = F3(t, u, w)
            BY <1>3, <3>2 DEF Booted3
          <5> QED BY <5>1, Files3Hold
        <4> HIDE DEF m
        <4>2. w = u
          <5>1. SUFFICES ASSUME w # u PROVE same
            BY <1>9
          <5>2. /\ T2(t, u).created = T3(t, u, w, m).created /\ T2(t, u).modified # T3(t, u, w, m).modified
                /\ T2(t, u).changed = T3(t, u, w, m).changed /\ T2(t, u).accessed = T3(t, u, w, m).accessed
                /\ T2(t, u).owner = T3(t, u, w, m).owner
            BY <5>1 DEF T2, T3, Target
          <5> QED BY <4>1, <5>2 DEF SameExcept
        <4>3. F2(t, u).target = T2(t, u)
          BY Files2Hold
        <4>4. disk.main[0].files.target = T3(t, u, w, m) /\ disk.main[1].files.target = T2(t, u)
          BY <1>6, <4>1, <4>3
        <4> QED BY <4>2, <4>4 DEF Tied, T2, T3, Target
      <3> QED BY <3>1, <3>2
    <2> QED BY <2>1, <2>2, Concludes
  <1>10. CASE same
    <2>1. before' = disk.main /\ Proceed("boot4") /\ disk' = disk
      <3> HIDE DEF img
      <3> QED BY <1>4, <1>8, <1>10 DEF Check3
    <2>2. pc' = "boot4" /\ fault' = fault
      BY <2>1 DEF Proceed
    <2>3. fault \notin Check3Faults /\ g = F3(t, u, w)
      BY <1>3, <1>10 DEF Booted3
    <2>4. Booted3(t, u, w, g)'
      BY <1>4, <2>1, <2>2, <2>3 DEF Booted3, F2, F3
    <2>5. Reached'
      BY <2>2, <2>4 DEF Reached
    <2> QED BY <1>1, <2>1, <2>5, GoesOn DEF Points
  <1> QED BY <1>9, <1>10

(* The files that boot 4 commits.                                          *)
LEMMA CleanedUp ==
    ASSUME NEW a, NEW b
    PROVE  [Files(a, b) EXCEPT !.message = {"one", "four"}, !.target = <<>>, !.other = "none",
                               !.count = 3] = F4
  <1> DEFINE new == [Files(a, b) EXCEPT !.message = {"one", "four"}, !.target = <<>>, !.other = "none",
                                        !.count = 3]
  <1>1. DOMAIN new = {"message", "target", "other", "count"} /\ new = [k \in DOMAIN new |-> new[k]]
    BY DEF Files
  <1>2. F4 = [k \in DOMAIN new |-> F4[k]]
    BY <1>1 DEF F4
  <1>3. /\ new.message = F4.message /\ new.target = F4.target
        /\ new.other = F4.other /\ new.count = F4.count
    BY DEF Files, F4
  <1> HIDE DEF new
  <1>4. \A k \in DOMAIN new : new[k] = F4[k]
    BY <1>1, <1>3
  <1>5. new = F4
    BY <1>1, <1>2, <1>4
  <1> QED BY <1>5 DEF new

(* Boot 4 refuses what fdatasync should not have written, and otherwise    *)
(* removes its files.                                                      *)
LEMMA Boot4Goes ==
    ASSUME TestInv, Boot4
    PROVE  TestInv'
  <1>1. pc = "boot4" /\ At("boot4")
    BY DEF Boot4, At
  <1>2. PICK t \in Ticks, u \in Ticks, w \in Ticks : \E g : Booted3(t, u, w, g)
    BY <1>1 DEF TestInv, Reached
  <1>3. PICK g : Booted3(t, u, w, g)
    BY <1>2
  <1> DEFINE img == Pair(Slot(0, 3, F3(t, u, w)), Slot(1, 2, F2(t, u)))
             new == CleanUp(img)
  <1>4. /\ fault \notin Boot1Faults \cup Check2Faults \cup Boot3Faults /\ fault \notin Check3Faults
        /\ disk = DiskOf(img, Empty, Empty) /\ before = disk.main
    BY <1>1, <1>3 DEF Booted3
  <1>5. disk.main = img
    BY <1>4, DiskAt
  <1>6. fault # "mounts_older" /\ fault \notin {"in_place", "no_commit"} /\ 3 + 1 = 4
    BY <1>4 DEF Boot1Faults, Boot3Faults
  <1>7. Mounted(img) = F3(t, u, w) /\ MountedGen(img) = 3 /\ Active(img) = 0
    BY <1>6, MountTwo
  <1> HIDE DEF img
  <1>8. IF /\ "one" \in Mounted(img).message /\ VerifiedState(img)
           /\ MountedGen(new) = 4 /\ Active(new) = 1 /\ Mounted(new).count = 3
        THEN Session("main", new, "check4") ELSE Fail("boot4")
    BY <1>5 DEF Boot4
  <1>9. /\ F3(t, u, w).message = {"one"}
        /\ F3(t, u, w).target = T3(t, u, w, IF fault = "fdatasync_mode" THEN "0600" ELSE "0640")
        /\ F3(t, u, w).other = (IF fault = "fdatasync_all" THEN "dirty" ELSE "sparse")
    BY Files3Hold
  <1>10. \A m : T3(t, u, w, m).mode = m /\ T3(t, u, w, m).data = "v3"
    BY DEF T3, Target
  <1>11. CASE fault \in Boot4Faults
    <2>1. ~VerifiedState(img)
      <3>1. CASE fault = "fdatasync_mode"
        BY <1>7, <1>9, <1>10, <3>1 DEF VerifiedState
      <3>2. CASE fault = "fdatasync_all"
        BY <1>7, <1>9, <3>2 DEF VerifiedState
      <3> QED BY <1>11, <3>1, <3>2 DEF Boot4Faults
    <2>2. Fail("boot4")
      BY <1>8, <2>1
    <2>3. fault # "none"
      BY <1>11 DEF Boot4Faults
    <2> QED BY <2>2, <2>3, Stops
  <1>12. CASE fault \notin Boot4Faults
    <2>1. fault # "fdatasync_mode" /\ fault # "fdatasync_all"
      BY <1>12 DEF Boot4Faults
    <2>2. VerifiedState(img) /\ "one" \in Mounted(img).message
      BY <1>7, <1>9, <1>10, <2>1 DEF VerifiedState
    <2>3. new = Commit(img, F4)
      <3>1. [F3(t, u, w) EXCEPT !.message = {"one", "four"}, !.target = <<>>, !.other = "none",
                                !.count = 3] = F4
        BY CleanedUp DEF F3
      <3> QED BY <1>7, <3>1 DEF CleanUp
    <2>4. new = Image4(t, u, w)
      BY <1>6, <1>7, <2>3, CommitBeside DEF img, Image4
    <2>5. Mounted(new) = F4 /\ MountedGen(new) = 4 /\ Active(new) = 1
      BY <1>6, <2>4, MountTwo DEF Image4
    <2> HIDE DEF new
    <2>6. Session("main", new, "check4")
      BY <1>8, <2>2, <2>5, Files4Hold
    <2>7. /\ disk' = DiskOf(Image4(t, u, w), Empty, Empty) /\ before' = before
          /\ fault' = fault /\ pc' = "check4" /\ Proceed("check4")
      BY <1>4, <2>4, <2>6, SessionOf DEF Images
    <2>8. fault \in CopyFaults \cup {"none"}
      <3>1. fault \in KnownFaults
        BY DEF TestInv
      <3> QED BY <1>4, <1>12, <3>1 DEF KnownFaults, Boot1Faults, Check2Faults, Boot3Faults, Check3Faults,
                                       Boot4Faults, CopyFaults
    <2>9. Booted4(t, u, w)'
      BY <1>4, <1>5, <2>7, <2>8 DEF Booted4, Image4, F2, F3, img
    <2>10. Reached'
      BY <2>7, <2>9 DEF Reached
    <2> QED BY <1>1, <2>7, <2>10, GoesOn DEF Points
  <1> QED BY <1>11, <1>12

-----------------------------------------------------------------------------
(* Damage                                                                  *)

(* Damage to an image is damage to one slot of it.                         *)
LEMMA DamagedAt ==
    ASSUME NEW a, NEW b, NEW f
    PROVE  /\ Flip(Pair(a, b), 0, f) = Pair(Flipped(a, f), b)
           /\ Flip(Pair(a, b), 1, f) = Pair(a, Flipped(b, f))
           /\ Rot(Pair(a, b), 0) = Pair(Rotten(a), b) /\ Rot(Pair(a, b), 1) = Pair(a, Rotten(b))
  <1>1. /\ Flip(Pair(a, b), 0, f) = [Pair(a, b) EXCEPT ![0] = Flipped(a, f)]
        /\ Rot(Pair(a, b), 0) = [Pair(a, b) EXCEPT ![0] = Rotten(a)]
    BY PairAt DEF Flip, Rot, Flipped, Rotten
  <1>2. /\ Flip(Pair(a, b), 1, f) = [Pair(a, b) EXCEPT ![1] = Flipped(b, f)]
        /\ Rot(Pair(a, b), 1) = [Pair(a, b) EXCEPT ![1] = Rotten(b)]
    BY PairAt DEF Flip, Rot, Flipped, Rotten
  <1> QED BY <1>1, <1>2, PairAt

(* What is damaged, and nothing else, differs.                             *)
LEMMA DamagedBlock ==
    ASSUME NEW b, IsBlock(b), NEW f
    PROVE  /\ IsBlock(Flipped(b, f)) /\ IsBlock(Rotten(b))
           /\ Flipped(b, f).gen = b.gen /\ Flipped(b, f).slot = b.slot /\ Flipped(b, f).rotten = b.rotten
           /\ Flipped(b, f).files = b.files /\ Flipped(b, f).flipped = b.flipped \cup {f}
           /\ Rotten(b).gen = b.gen /\ Rotten(b).slot = b.slot /\ Rotten(b).rotten = TRUE
           /\ Rotten(b).files = b.files /\ Rotten(b).flipped = b.flipped
  <1> DEFINE r(x, y) == [gen |-> b.gen, slot |-> b.slot, flipped |-> x, rotten |-> y, files |-> b.files]
  <1>1. b = r(b.flipped, b.rotten)
    BY DEF IsBlock
  <1>2. \A x, y, z : [r(x, y) EXCEPT !.flipped = z] = r(z, y)
    OBVIOUS
  <1>3. \A x, y, z : [r(x, y) EXCEPT !.rotten = z] = r(x, z)
    OBVIOUS
  <1>4. \A x, y : /\ r(x, y).gen = b.gen /\ r(x, y).slot = b.slot /\ r(x, y).flipped = x
                  /\ r(x, y).rotten = y /\ r(x, y).files = b.files /\ IsBlock(r(x, y))
    BY DEF IsBlock
  <1> DEFINE yes == TRUE
  <1>5. Rotten(b) = [b EXCEPT !.rotten = yes]
    BY DEF Rotten
  <1> HIDE DEF r, yes
  <1>6. Flipped(b, f) = r(b.flipped \cup {f}, b.rotten)
    BY <1>1, <1>2 DEF Flipped
  <1>7. Rotten(b) = r(b.flipped, yes)
    BY <1>1, <1>3, <1>5
  <1>8. /\ IsBlock(Flipped(b, f)) /\ IsBlock(Rotten(b))
        /\ Flipped(b, f).gen = b.gen /\ Flipped(b, f).slot = b.slot /\ Flipped(b, f).rotten = b.rotten
        /\ Flipped(b, f).files = b.files /\ Flipped(b, f).flipped = b.flipped \cup {f}
    BY <1>4, <1>6, <1>7
  <1>9. /\ Rotten(b).gen = b.gen /\ Rotten(b).slot = b.slot /\ Rotten(b).rotten = yes
        /\ Rotten(b).files = b.files /\ Rotten(b).flipped = b.flipped
    BY <1>4, <1>7
  <1> QED BY <1>8, <1>9 DEF yes

(* What the parsers and the mount make of the two damaged slots.           *)
LEMMA BadSlots ==
    /\ BadHeader.gen = 4 /\ BadHeader.files = F4 /\ ~BadHeader.rotten
    /\ ParseHeader(BadHeader, 1) = "header_crc"
    /\ ReadHeader(BadHeader, 1) = (IF fault = "trusts_header" THEN "valid" ELSE "invalid")
    /\ BadPayload.gen = 4 /\ BadPayload.files = F4 /\ BadPayload.rotten
    /\ ParseHeader(BadPayload, 1) = "ok" /\ ParseRecords(BadPayload) = "payload_crc"
    /\ ReadHeader(BadPayload, 1) = "valid"
  <1> DEFINE b == Slot(1, 4, F4)
  <1>1. /\ IsBlock(b) /\ b.gen = 4 /\ b.slot = 1 /\ b.flipped = {} /\ ~b.rotten /\ b.files = F4
    BY DEF b, Slot, IsBlock
  <1> HIDE DEF b
  <1>2. /\ BadHeader.gen = 4 /\ BadHeader.slot = 1 /\ BadHeader.files = F4 /\ ~BadHeader.rotten
        /\ BadHeader.flipped = {"crc"}
    <2>1. /\ Flipped(b, "crc").gen = b.gen /\ Flipped(b, "crc").slot = b.slot
          /\ Flipped(b, "crc").files = b.files /\ Flipped(b, "crc").rotten = b.rotten
          /\ Flipped(b, "crc").flipped = b.flipped \cup {"crc"}
      <3>1. IsBlock(b)
        BY <1>1
      <3>2. \A f : /\ Flipped(b, f).gen = b.gen /\ Flipped(b, f).slot = b.slot
                   /\ Flipped(b, f).files = b.files /\ Flipped(b, f).rotten = b.rotten
                   /\ Flipped(b, f).flipped = b.flipped \cup {f}
        BY Zenon, <3>1, DamagedBlock
      <3> QED BY Zenon, <3>2
    <2>2. b.flipped \cup {"crc"} = {"crc"}
      BY <1>1
    <2>3. BadHeader = Flipped(b, "crc")
      BY DEF BadHeader, b
    <2> QED BY <1>1, <2>1, <2>2, <2>3
  <1>3. /\ BadPayload.gen = 4 /\ BadPayload.slot = 1 /\ BadPayload.files = F4 /\ BadPayload.rotten
        /\ BadPayload.flipped = {}
    BY <1>1, DamagedBlock DEF BadPayload, b
  <1>4. /\ {"crc"} \cap Covered # {} /\ {"crc"} \cap {"version", "size"} = {}
        /\ {"crc"} \cap {"slot", "marker"} = {} /\ "magic" \notin {"crc"} /\ "longLength" \notin {"crc"}
        /\ {"crc"} # {}
    BY DEF Covered, Fields
  <1>5. ParseHeader(BadHeader, 1) = "header_crc"
    BY <1>2, <1>4 DEF ParseHeader
  <1>6. ReadHeader(BadHeader, 1) = (IF fault = "trusts_header" THEN "valid" ELSE "invalid")
    BY <1>2, <1>4 DEF ReadHeader
  <1>7. ParseHeader(BadPayload, 1) = "ok" /\ ParseRecords(BadPayload) = "payload_crc"
    BY <1>3 DEF ParseHeader, ParseRecords
  <1>8. ReadHeader(BadPayload, 1) = "valid"
    BY <1>3 DEF ReadHeader
  <1> QED BY <1>2, <1>3, <1>5, <1>6, <1>7, <1>8

(* The fourth check makes the two damaged copies.                          *)
LEMMA Check4Goes ==
    ASSUME TestInv, Check4
    PROVE  TestInv'
  <1>1. pc = "check4" /\ At("check4")
    BY DEF Check4, At
  <1>2. PICK t \in Ticks, u \in Ticks, w \in Ticks : Booted4(t, u, w)
    BY <1>1 DEF TestInv, Reached
  <1>3. /\ fault \in CopyFaults \cup {"none"} /\ disk = DiskOf(Image4(t, u, w), Empty, Empty)
        /\ before = Pair(Slot(0, 3, F3(t, u, w)), Slot(1, 2, F2(t, u)))
    BY <1>2 DEF Booted4
  <1>4. disk.main = Image4(t, u, w)
    BY <1>3, DiskAt
  <1>5. disk.main[0] = Slot(0, 3, F3(t, u, w)) /\ disk.main[1] = Slot(1, 4, F4)
    BY <1>4, PairAt DEF Image4
  <1>6. /\ ParseHeader(disk.main[0], 0) = "ok" /\ disk.main[0].gen = 3 /\ disk.main[0].files = F3(t, u, w)
        /\ ParseHeader(disk.main[1], 1) = "ok" /\ disk.main[1].gen = 4 /\ disk.main[1].files = F4
        /\ Slot(1, 2, F2(t, u)).gen = 2
    BY <1>5, SlotRead
  <1>7. disk.main # before
    <2>1. before[1] = Slot(1, 2, F2(t, u))
      BY <1>3, PairAt
    <2> QED BY <1>6, <2>1
  <1>8. F3(t, u, w).count = 8 /\ F4.count = 3
    BY Files3Hold, Files4Hold
  <1>9. Generations(3, 4) /\ Counts(8, 3)
    BY <1>6, <1>8 DEF Generations, Counts
  <1>10. Flip(disk.main, 1, "crc") = Header4(t, u, w) /\ Rot(disk.main, 1) = Payload4(t, u, w)
    BY <1>4, DamagedAt DEF Image4, Header4, Payload4, BadHeader, BadPayload
  <1>11. /\ disk' = [disk EXCEPT !.header = Flip(disk.main, 1, "crc"), !.payload = Rot(disk.main, 1)]
         /\ Proceed("probe")
    BY <1>7, <1>9 DEF Check4
  <1>12. disk' = DiskOf(Image4(t, u, w), Header4(t, u, w), Payload4(t, u, w))
    <2> DEFINE h == Header4(t, u, w)
               p == Payload4(t, u, w)
               m == Image4(t, u, w)
    <2>1. disk' = [[DiskOf(m, Empty, Empty) EXCEPT !.header = h] EXCEPT !.payload = p]
      BY <1>3, <1>10, <1>11
    <2> HIDE DEF h, p, m
    <2>2. [DiskOf(m, Empty, Empty) EXCEPT !.header = h] = DiskOf(m, h, Empty)
      BY DiskAt
    <2>3. [DiskOf(m, h, Empty) EXCEPT !.payload = p] = DiskOf(m, h, p)
      BY DiskAt
    <2>4. disk' = DiskOf(m, h, p)
      BY <2>1, <2>2, <2>3
    <2> QED BY <2>4 DEF h, p, m
  <1>13. pc' = "probe" /\ fault' = fault
    BY <1>11 DEF Proceed
  <1>14. Copied(t, u, w)'
    BY <1>3, <1>12, <1>13 DEF Copied, Image4, Header4, Payload4, F3
  <1>15. Reached'
    BY <1>13, <1>14 DEF Reached
  <1> QED BY <1>1, <1>11, <1>15, GoesOn DEF Points

(* The host's parsers find both copies damaged as they were.               *)
LEMMA ProbeGoes ==
    ASSUME TestInv, Probe
    PROVE  TestInv'
  <1>1. pc = "probe" /\ At("probe")
    BY DEF Probe, At
  <1>2. PICK t \in Ticks, u \in Ticks, w \in Ticks : Copied(t, u, w)
    BY <1>1 DEF TestInv, Reached
  <1>3. /\ fault \in CopyFaults \cup {"none"}
        /\ disk = DiskOf(Image4(t, u, w), Header4(t, u, w), Payload4(t, u, w))
    BY <1>2 DEF Copied
  <1>4. disk.header = Header4(t, u, w) /\ disk.payload = Payload4(t, u, w)
    BY <1>3, DiskAt
  <1>5. /\ disk.header[0] = Slot(0, 3, F3(t, u, w)) /\ disk.header[1] = BadHeader
        /\ disk.payload[0] = Slot(0, 3, F3(t, u, w)) /\ disk.payload[1] = BadPayload
    BY <1>4, PairAt DEF Header4, Payload4
  <1>6. /\ ParseHeader(disk.header[0], 0) = "ok" /\ disk.header[0].gen = 3
        /\ ParseHeader(disk.payload[0], 0) = "ok" /\ disk.payload[0].gen = 3
    BY <1>5, SlotRead
  <1>7. /\ ParseHeader(disk.header[1], 1) = "header_crc"
        /\ ParseHeader(disk.payload[1], 1) = "ok" /\ disk.payload[1].gen = 4
        /\ ParseRecords(disk.payload[1]) = "payload_crc"
    BY <1>5, BadSlots
  <1>8. \A c \in {"header", "payload"} : ParseHeader(disk[c][0], 0) = "ok" /\ disk[c][0].gen = 3
    BY <1>6
  <1>9. before' = disk.header /\ Proceed("boot5") /\ disk' = disk
    BY <1>7, <1>8 DEF Probe
  <1>10. pc' = "boot5" /\ fault' = fault
    BY <1>9 DEF Proceed
  <1>11. Copied(t, u, w)'
    BY <1>3, <1>4, <1>9, <1>10 DEF Copied, Image4, Header4, Payload4, F3
  <1>12. Reached'
    BY <1>10, <1>11 DEF Reached
  <1> QED BY <1>1, <1>9, <1>12, GoesOn DEF Points

(* A damaged newest slot that the mount passes over.                       *)
LEMMA PassesOver ==
    ASSUME NEW f, NEW b, NEW img, img = Pair(Slot(0, 3, f), b), ~ValidCandidate(img, 1),
           ReadHeader(b, 1) \in {"invalid", "valid"}
    PROVE  /\ Mounted(img) = f
           /\ Report(img) = [gen |-> 3, slot |-> 0, count |-> f.count, recoveries |-> 1,
                             corrupt |-> IF ReadHeader(b, 1) = "invalid" THEN {1} ELSE {}]
  <1>1. Good(Slot(0, 3, f), 0) /\ Slot(0, 3, f).gen = 3 /\ Slot(0, 3, f).files = f
    BY SlotGood
  <1>2. Mounted(img) = f /\ MountedGen(img) = 3 /\ Active(img) = 0
    BY <1>1, FirstOnly
  <1>3. img[0] = Slot(0, 3, f) /\ img[1] = b /\ Slots = {0, 1}
    BY PairAt
  <1>4. ReadHeader(img[0], 0) = "valid" /\ ReadHeader(img[1], 1) = ReadHeader(b, 1)
    BY <1>1, <1>3, GoodRead
  <1>5. Recovered(img)
    BY <1>3, <1>4 DEF Recovered
  <1>6. CorruptHeaders(img) = (IF ReadHeader(b, 1) = "invalid" THEN {1} ELSE {})
    <2>1. CASE ReadHeader(b, 1) = "invalid"
      <3>1. \A s \in Slots : ReadHeader(img[s], s) = "invalid" <=> s = 1
        BY <1>3, <1>4, <2>1
      <3>2. CorruptHeaders(img) = {1}
        BY <1>3, <3>1 DEF CorruptHeaders
      <3> QED BY <2>1, <3>2
    <2>2. CASE ReadHeader(b, 1) # "invalid"
      <3>1. \A s \in Slots : ReadHeader(img[s], s) # "invalid"
        BY <1>3, <1>4, <2>2
      <3>2. CorruptHeaders(img) = {}
        BY <3>1 DEF CorruptHeaders
      <3> QED BY <2>2, <3>2
    <2> QED BY <2>1, <2>2
  <1> QED BY <1>2, <1>5, <1>6 DEF Report

(* A damaged newest slot that the guest mounts all the same.               *)
LEMMA Trusts ==
    ASSUME NEW f, NEW b, NEW img, img = Pair(Slot(0, 3, f), b), ValidCandidate(img, 1), b.gen = 4,
           fault # "mounts_older"
    PROVE  Report(img).gen = 4
  <1>1. Good(Slot(0, 3, f), 0) /\ Slot(0, 3, f).gen = 3
    BY SlotGood
  <1>2. img[0] = Slot(0, 3, f) /\ img[1] = b /\ 1 \in Slots /\ 1 - 1 = 0
    BY PairAt
  <1>3. ValidCandidate(img, 0)
    BY <1>1, <1>2, GoodCandidate
  <1>4. Mounts(img, 1)
    BY <1>1, <1>2, <1>3, TwoMount
  <1> QED BY <1>2, <1>4 DEF Mounts, Report

(* Boot 5 answers the flipped header with the slot before, or stops.       *)
LEMMA Boot5Goes ==
    ASSUME TestInv, Boot5
    PROVE  TestInv'
  <1>1. pc = "boot5" /\ At("boot5")
    BY DEF Boot5, RecoveryBoot, At
  <1>2. PICK t \in Ticks, u \in Ticks, w \in Ticks : Copied(t, u, w)
    BY <1>1 DEF TestInv, Reached
  <1> DEFINE img == Header4(t, u, w)
             f   == F3(t, u, w)
  <1>3. /\ fault \in CopyFaults \cup {"none"} /\ before = img
        /\ disk = DiskOf(Image4(t, u, w), img, Payload4(t, u, w))
    BY <1>1, <1>2 DEF Copied
  <1>4. disk.header = img /\ img = Pair(Slot(0, 3, f), BadHeader) /\ img[1] = BadHeader
    BY <1>3, DiskAt, PairAt DEF Header4
  <1>5. f.message = {"one"} /\ f.count = 8
    BY Files3Hold
  <1>6. fault # "mounts_older"
    BY <1>3 DEF CopyFaults
  <1> HIDE DEF img, f
  <1>7. IF /\ "one" \in Mounted(img).message
           /\ Report(img) = [gen |-> 3, slot |-> 0, count |-> 8, recoveries |-> 1, corrupt |-> {1}]
        THEN Session("header", Recovery("header"), "check5") ELSE Fail("boot5")
    BY <1>4 DEF Boot5, RecoveryBoot
  <1>8. CASE fault = "trusts_header"
    <2>1. ValidCandidate(img, 1)
      BY <1>4, <1>8, BadSlots DEF ValidCandidate
    <2>2. BadHeader.gen = 4
      BY BadSlots
    <2>3. Report(img).gen = 4
      BY <1>4, <1>6, <2>1, <2>2, Trusts
    <2>4. Fail("boot5")
      BY <1>7, <2>3
    <2> QED BY <1>8, <2>4, Stops
  <1>9. CASE fault # "trusts_header"
    <2>1. ReadHeader(BadHeader, 1) = "invalid"
      BY <1>9, BadSlots
    <2>2. ~ValidCandidate(img, 1)
      BY <1>4, <2>1 DEF ValidCandidate
    <2>3. /\ Mounted(img) = f
          /\ Report(img) = [gen |-> 3, slot |-> 0, count |-> f.count, recoveries |-> 1,
                            corrupt |-> IF ReadHeader(BadHeader, 1) = "invalid" THEN {1} ELSE {}]
      BY <1>4, <2>1, <2>2, PassesOver
    <2>4. Report(img) = [gen |-> 3, slot |-> 0, count |-> 8, recoveries |-> 1, corrupt |-> {1}]
      BY <1>5, <2>1, <2>3
    <2>5. Session("header", Recovery("header"), "check5")
      BY <1>5, <1>7, <2>3, <2>4
    <2> DEFINE after == IF fault = "rewrites" THEN Pair(Slot(0, 3, f), Blank) ELSE img
    <2>6. Recovery("header") = after
      BY <1>4, PairAt DEF Recovery
    <2>7. Mounted(after) = f
      <3>1. CASE fault = "rewrites"
        <4>1. ~ValidCandidate(Pair(Slot(0, 3, f), Blank), 1)
          BY PairAt, BlankCandidate
        <4>2. Good(Slot(0, 3, f), 0) /\ Slot(0, 3, f).files = f
          BY SlotGood
        <4> QED BY <3>1, <4>1, <4>2, FirstOnly
      <3>2. CASE fault # "rewrites"
        BY <2>3, <3>2
      <3> QED BY <3>1, <3>2
    <2> HIDE DEF after
    <2>8. /\ disk' = DiskOf(Image4(t, u, w), after, Payload4(t, u, w))
          /\ before' = before /\ fault' = fault /\ pc' = "check5" /\ Proceed("check5")
          /\ screen' = Mounted(disk["header"]).message \cup Mounted(after).message
      BY <1>3, <2>5, <2>6, SessionOf DEF Images
    <2>9. screen' = {"one"}
      BY <1>4, <1>5, <2>3, <2>7, <2>8
    <2>10. fault \in {"none", "trusts_payload", "rewrites"}
      BY <1>3, <1>9 DEF CopyFaults
    <2>11. Booted5(t, u, w)'
      BY <1>3, <2>8, <2>9, <2>10 DEF Booted5, after, img, f, Image4, Header4, Payload4, F3
    <2>12. Reached'
      BY <2>8, <2>11 DEF Reached
    <2> QED BY <1>1, <2>8, <2>12, GoesOn DEF Points
  <1> QED BY <1>8, <1>9

(* The fifth check finds the copy as it was, or stops.                     *)
LEMMA Check5Goes ==
    ASSUME TestInv, Check5
    PROVE  TestInv'
  <1>1. pc = "check5" /\ At("check5")
    BY DEF Check5, RecoveryCheck, At
  <1>2. PICK t \in Ticks, u \in Ticks, w \in Ticks : Booted5(t, u, w)
    BY <1>1 DEF TestInv, Reached
  <1> DEFINE img == IF fault = "rewrites" THEN Pair(Slot(0, 3, F3(t, u, w)), Blank) ELSE Header4(t, u, w)
  <1>3. /\ fault \in {"none", "trusts_payload", "rewrites"}
        /\ disk = DiskOf(Image4(t, u, w), img, Payload4(t, u, w))
        /\ before = Header4(t, u, w) /\ screen = {"one"}
    BY <1>2 DEF Booted5
  <1>4. disk.header = img /\ disk.payload = Payload4(t, u, w)
    BY <1>3, DiskAt
  <1>5. IF "four" \notin screen /\ disk.header = before
        THEN /\ before' = disk.payload /\ Proceed("boot6") /\ UNCHANGED <<disk, target, screen>>
        ELSE Fail("check5")
    BY DEF Check5, RecoveryCheck
  <1>6. CASE fault = "rewrites"
    <2>1. disk.header[1] = Blank /\ before[1] = BadHeader
      BY <1>3, <1>4, <1>6, PairAt DEF Header4
    <2>2. BadHeader.gen = 4 /\ Blank.gen = 0
      BY BadSlots DEF Blank
    <2>3. disk.header # before
      BY <2>1, <2>2
    <2>4. Fail("check5")
      BY <1>5, <2>3
    <2> QED BY <1>6, <2>4, Stops
  <1>7. CASE fault # "rewrites"
    <2>1. disk.header = before /\ "four" \notin screen
      BY <1>3, <1>4, <1>7
    <2>2. before' = disk.payload /\ Proceed("boot6") /\ disk' = disk
      BY <1>5, <2>1
    <2>3. pc' = "boot6" /\ fault' = fault
      BY <2>2 DEF Proceed
    <2>4. fault \in {"none", "trusts_payload"} /\ img = Header4(t, u, w)
      BY <1>3, <1>7
    <2>5. Checked5(t, u, w)'
      BY <1>3, <1>4, <2>2, <2>3, <2>4 DEF Checked5, Image4, Header4, Payload4, F3
    <2>6. Reached'
      BY <2>3, <2>5 DEF Reached
    <2> QED BY <1>1, <2>2, <2>6, GoesOn DEF Points
  <1> QED BY <1>6, <1>7

(* Boot 6 answers the flipped payload with the slot before, or stops.      *)
LEMMA Boot6Goes ==
    ASSUME TestInv, Boot6
    PROVE  TestInv'
  <1>1. pc = "boot6" /\ At("boot6")
    BY DEF Boot6, RecoveryBoot, At
  <1>2. PICK t \in Ticks, u \in Ticks, w \in Ticks : Checked5(t, u, w)
    BY <1>1 DEF TestInv, Reached
  <1> DEFINE img == Payload4(t, u, w)
             f   == F3(t, u, w)
  <1>3. /\ fault \in {"none", "trusts_payload"} /\ before = img
        /\ disk = DiskOf(Image4(t, u, w), Header4(t, u, w), img)
    BY <1>2 DEF Checked5
  <1>4. disk.payload = img /\ img = Pair(Slot(0, 3, f), BadPayload) /\ img[1] = BadPayload
    BY <1>3, DiskAt, PairAt DEF Payload4
  <1>5. f.message = {"one"} /\ f.count = 8
    BY Files3Hold
  <1> HIDE DEF img, f
  <1>6. IF /\ "one" \in Mounted(img).message
           /\ Report(img) = [gen |-> 3, slot |-> 0, count |-> 8, recoveries |-> 1, corrupt |-> {}]
        THEN Session("payload", Recovery("payload"), "check6") ELSE Fail("boot6")
    BY <1>4 DEF Boot6, RecoveryBoot
  <1>7. CASE fault = "trusts_payload"
    <2>1. ValidCandidate(img, 1)
      BY <1>4, <1>7, BadSlots DEF ValidCandidate
    <2>2. BadPayload.gen = 4
      BY BadSlots
    <2>3. Report(img).gen = 4
      BY <1>4, <1>7, <2>1, <2>2, Trusts
    <2>4. Fail("boot6")
      BY <1>6, <2>3
    <2> QED BY <1>7, <2>4, Stops
  <1>8. CASE fault = "none"
    <2>1. ReadHeader(BadPayload, 1) = "valid" /\ BadPayload.rotten
      BY BadSlots
    <2>2. ~ValidCandidate(img, 1)
      BY <1>4, <1>8, <2>1 DEF ValidCandidate
    <2>3. /\ Mounted(img) = f
          /\ Report(img) = [gen |-> 3, slot |-> 0, count |-> f.count, recoveries |-> 1,
                            corrupt |-> IF ReadHeader(BadPayload, 1) = "invalid" THEN {1} ELSE {}]
      BY <1>4, <2>1, <2>2, PassesOver
    <2>4. Report(img) = [gen |-> 3, slot |-> 0, count |-> 8, recoveries |-> 1, corrupt |-> {}]
      BY <1>5, <2>1, <2>3
    <2>5. Session("payload", Recovery("payload"), "check6")
      BY <1>5, <1>6, <2>3, <2>4
    <2>6. Recovery("payload") = img
      BY <1>4, <1>8 DEF Recovery
    <2>7. /\ disk' = DiskOf(Image4(t, u, w), Header4(t, u, w), img)
          /\ before' = before /\ fault' = fault /\ pc' = "check6" /\ Proceed("check6")
          /\ screen' = Mounted(disk["payload"]).message \cup Mounted(img).message
      BY <1>3, <2>5, <2>6, SessionOf DEF Images
    <2>8. screen' = {"one"}
      BY <1>4, <1>5, <2>3, <2>7
    <2>9. Checked5(t, u, w)'
      BY <1>3, <1>8, <2>7, <2>8 DEF Checked5, img, Image4, Header4, Payload4, F3
    <2>10. Reached'
      BY <2>7, <2>9 DEF Reached
    <2> QED BY <1>1, <2>7, <2>10, GoesOn DEF Points
  <1> QED BY <1>3, <1>7, <1>8

(* The sixth check finds this copy as it was.                              *)
LEMMA Check6Goes ==
    ASSUME TestInv, Check6
    PROVE  TestInv'
  <1>1. pc = "check6" /\ At("check6")
    BY DEF Check6, RecoveryCheck, At
  <1>2. PICK t \in Ticks, u \in Ticks, w \in Ticks : Checked5(t, u, w)
    BY <1>1 DEF TestInv, Reached
  <1>3. /\ fault = "none" /\ before = Payload4(t, u, w) /\ screen = {"one"}
        /\ disk = DiskOf(Image4(t, u, w), Header4(t, u, w), Payload4(t, u, w))
    BY <1>1, <1>2 DEF Checked5
  <1>4. disk.payload = before /\ "four" \notin screen
    BY <1>3, DiskAt
  <1>5. before' = disk.payload /\ Proceed("end") /\ disk' = disk
    BY <1>4 DEF Check6, RecoveryCheck
  <1>6. pc' = "end" /\ fault' = fault
    BY <1>5 DEF Proceed
  <1>7. Checked5(t, u, w)'
    BY <1>3, <1>4, <1>5, <1>6 DEF Checked5, Image4, Header4, Payload4, F3
  <1>8. Reached'
    BY <1>6, <1>7 DEF Reached
  <1> QED BY <1>1, <1>5, <1>8, GoesOn DEF Points

(* The guest that passes has no fault.                                     *)
LEMMA PassedGoes ==
    ASSUME TestInv, Passed
    PROVE  TestInv'
  <1>1. pc = "end" /\ Fail("pass")
    BY DEF Passed, At, Fail
  <1>2. fault = "none"
    <2>1. PICK t \in Ticks, u \in Ticks, w \in Ticks : Checked5(t, u, w)
      BY <1>1 DEF TestInv, Reached
    <2> QED BY <1>1, <2>1 DEF Checked5
  <1> QED BY <1>1, <1>2, Concludes

-----------------------------------------------------------------------------
(* The test                                                                *)

(* Wherever the test is, its images are what the boots so far have left.   *)
THEOREM TestInvariant == Spec => []TestInv
  <1>1. Init => TestInv
    <2>1. SUFFICES ASSUME Init PROVE TestInv
      OBVIOUS
    <2>2. fault \in KnownFaults
      BY <2>1, TickAssumption DEF Init
    <2>3. [s \in Slots |-> Blank] = Empty
      BY DEF Empty, Pair
    <2>4. disk = DiskOf(Empty, Empty, Empty)
      BY <2>1, <2>3 DEF Init, DiskOf
    <2>5. before = Empty
      BY <2>1, <2>4, DiskAt DEF Init
    <2>6. pc = "boot1" /\ verdict = "none"
      BY <2>1 DEF Init
    <2>7. Reached
      BY <2>4, <2>5, <2>6 DEF Reached
    <2> QED BY <2>2, <2>6, <2>7 DEF TestInv, Points, FailsOnTieOnly
  <1>2. TestInv /\ [Next]_vars => TestInv'
    <2>1. SUFFICES ASSUME TestInv, [Next]_vars PROVE TestInv'
      OBVIOUS
    <2>2. CASE UNCHANGED vars
      <3>1. /\ fault' = fault /\ disk' = disk /\ pc' = pc /\ before' = before
            /\ target' = target /\ screen' = screen /\ verdict' = verdict
        BY <2>2 DEF vars
      <3>2. Reached'
        BY <2>1, <3>1, StillReached DEF TestInv
      <3> QED BY <2>1, <3>1, <3>2 DEF TestInv, FailsOnTieOnly, Tied
    <2>3. CASE Next
      BY <2>1, <2>3, Boot1Goes, Check1Goes, Boot2Goes, Check2Goes, Boot3Goes, Check3Goes, Boot4Goes,
         Check4Goes, ProbeGoes, Boot5Goes, Check5Goes, Boot6Goes, Check6Goes, PassedGoes DEF Next
    <2> QED BY <2>1, <2>2, <2>3
  <1> QED BY <1>1, <1>2, PTL DEF Spec

-----------------------------------------------------------------------------
(* What follows                                                            *)

(* A slot's block as the type invariant has it, and the image of two.      *)
BlockOK(b, s) == b.gen \in 0..4 /\ b.flipped \subseteq Fields /\ (b.gen # 0 => b.slot = s)
ImageOK(img)  == BlockOK(img[0], 0) /\ BlockOK(img[1], 1)

(* The blocks the test meets.                                              *)
LEMMA BlocksOK ==
    /\ \A s : BlockOK(Blank, s)
    /\ \A s, f : \A g \in 1..4 : BlockOK(Slot(s, g, f), s)
    /\ BlockOK(BadHeader, 1) /\ BlockOK(BadPayload, 1)
  <1>1. \A s : BlockOK(Blank, s)
    BY DEF BlockOK, Blank
  <1>2. \A s, f : \A g \in 1..4 : BlockOK(Slot(s, g, f), s)
    BY DEF BlockOK, Slot
  <1> DEFINE b == Slot(1, 4, F4)
  <1>3. IsBlock(b) /\ b.gen = 4 /\ b.slot = 1 /\ b.flipped = {}
    BY DEF b, Slot, IsBlock
  <1> HIDE DEF b
  <1>4. /\ \A f : Flipped(b, f).gen = b.gen /\ Flipped(b, f).slot = b.slot
                  /\ Flipped(b, f).flipped = b.flipped \cup {f}
        /\ \A f : Rotten(b).gen = b.gen /\ Rotten(b).slot = b.slot /\ Rotten(b).flipped = b.flipped
    <2>1. IsBlock(b)
      BY <1>3
    <2> QED BY Zenon, <2>1, DamagedBlock
  <1>5. BlockOK(BadHeader, 1)
    <2>1. BadHeader = Flipped(b, "crc")
      BY DEF BadHeader, b
    <2>2. BadHeader.gen = 4 /\ BadHeader.slot = 1 /\ BadHeader.flipped = {} \cup {"crc"}
      <3>1. /\ Flipped(b, "crc").gen = b.gen /\ Flipped(b, "crc").slot = b.slot
            /\ Flipped(b, "crc").flipped = b.flipped \cup {"crc"}
        BY Zenon, <1>4
      <3> QED BY Zenon, <1>3, <2>1, <3>1
    <2> QED BY <2>2 DEF BlockOK, Fields
  <1>6. BlockOK(BadPayload, 1)
    <2>1. BadPayload = Rotten(b)
      BY DEF BadPayload, b
    <2>2. BadPayload.gen = 4 /\ BadPayload.slot = 1 /\ BadPayload.flipped = {}
      BY <1>3, <1>4, <2>1
    <2> QED BY <2>2 DEF BlockOK
  <1> QED BY <1>1, <1>2, <1>5, <1>6

(* The image a guest is at, and whether its slots are both written.        *)
LEMMA MainIs ==
    ASSUME TestInv
    PROVE  \E f, g : \/ disk.main = Empty \/ disk.main = Pair(Slot(0, 1, f), Blank)
                     \/ disk.main = Pair(Slot(0, 1, f), Slot(1, 2, g))
                     \/ disk.main = Pair(Slot(0, 3, f), Slot(1, 2, g))
                     \/ disk.main = Pair(Slot(0, 3, f), Slot(1, 4, g))
  <1>1. pc \in Points /\ Reached
    BY DEF TestInv
  <1>2. CASE pc = "boot1"
    <2>1. disk.main = Empty
      BY <1>1, <1>2, DiskAt DEF Reached
    <2> QED BY <2>1
  <1>3. CASE pc \in {"check1", "boot2"}
    <2>1. PICK t \in Ticks : Booted1(t)
      BY <1>1, <1>3 DEF Reached
    <2>2. disk.main = Pair(Slot(0, 1, F1(t)), Blank)
      BY <2>1, DiskAt DEF Booted1
    <2> QED BY <2>2
  <1>4. CASE pc \in {"check2", "boot3"}
    <2>1. PICK t \in Ticks, u \in Ticks : \E g : Booted2(t, u, g)
      BY <1>1, <1>4 DEF Reached
    <2>2. PICK g : Booted2(t, u, g)
      BY <2>1
    <2>3. disk.main = Pair(Slot(0, 1, F1(t)), Slot(1, 2, g))
      BY <2>2, DiskAt DEF Booted2
    <2> QED BY <2>3
  <1>5. CASE pc \in {"check3", "boot4"}
    <2>1. PICK t \in Ticks, u \in Ticks, w \in Ticks : \E g : Booted3(t, u, w, g)
      BY <1>1, <1>5 DEF Reached
    <2>2. PICK g : Booted3(t, u, w, g)
      BY <2>1
    <2>3. disk.main = Pair(Slot(0, 3, g), Slot(1, 2, F2(t, u)))
      BY <2>2, DiskAt DEF Booted3
    <2> QED BY <2>3
  <1>6. CASE pc \in {"check4", "probe", "boot5", "check5", "boot6", "check6", "end"}
    <2>1. \E t, u, w \in Ticks : Booted4(t, u, w) \/ Copied(t, u, w) \/ Booted5(t, u, w) \/ Checked5(t, u, w)
      BY <1>1, <1>6 DEF Reached
    <2>2. PICK t \in Ticks, u \in Ticks, w \in Ticks :
             Booted4(t, u, w) \/ Copied(t, u, w) \/ Booted5(t, u, w) \/ Checked5(t, u, w)
      BY <2>1
    <2>3. disk.main = Image4(t, u, w)
      BY <2>2, DiskAt DEF Booted4, Copied, Booted5, Checked5
    <2> QED BY <2>3 DEF Image4
  <1> QED BY <1>1, <1>2, <1>3, <1>4, <1>5, <1>6 DEF Points

(* The copies.                                                             *)
LEMMA CopiesAre ==
    ASSUME TestInv
    PROVE  /\ \E f : \/ disk.header = Empty \/ disk.header = Pair(Slot(0, 3, f), BadHeader)
                     \/ disk.header = Pair(Slot(0, 3, f), Blank)
           /\ \E f : disk.payload = Empty \/ disk.payload = Pair(Slot(0, 3, f), BadPayload)
  <1>1. pc \in Points /\ Reached
    BY DEF TestInv
  <1>2. CASE pc \in {"boot1", "check1", "boot2", "check2", "boot3", "check3", "boot4", "check4"}
    <2>1. \E m : disk = DiskOf(m, Empty, Empty)
      <3>1. CASE pc = "boot1"
        BY <1>1, <3>1 DEF Reached
      <3>2. CASE pc \in {"check1", "boot2"}
        BY <1>1, <3>2 DEF Reached, Booted1
      <3>3. CASE pc \in {"check2", "boot3"}
        BY <1>1, <3>3 DEF Reached, Booted2
      <3>4. CASE pc \in {"check3", "boot4"}
        BY <1>1, <3>4 DEF Reached, Booted3
      <3>5. CASE pc = "check4"
        BY <1>1, <3>5 DEF Reached, Booted4
      <3> QED BY <1>2, <3>1, <3>2, <3>3, <3>4, <3>5
    <2> QED BY <2>1, DiskAt
  <1>3. CASE pc \in {"probe", "boot5", "check5", "boot6", "check6", "end"}
    <2>1. \E t, u, w \in Ticks : Copied(t, u, w) \/ Booted5(t, u, w) \/ Checked5(t, u, w)
      BY <1>1, <1>3 DEF Reached
    <2>2. PICK t \in Ticks, u \in Ticks, w \in Ticks : Copied(t, u, w) \/ Booted5(t, u, w) \/ Checked5(t, u, w)
      BY <2>1
    <2> DEFINE cut == Pair(Slot(0, 3, F3(t, u, w)), Blank)
    <2>3. \E h \in {Header4(t, u, w), cut} : disk = DiskOf(Image4(t, u, w), h, Payload4(t, u, w))
      BY <2>2 DEF Copied, Booted5, Checked5
    <2>4. disk.header \in {Header4(t, u, w), cut} /\ disk.payload = Payload4(t, u, w)
      BY <2>3, DiskAt
    <2> QED BY <2>4 DEF Header4, Payload4
  <1> QED BY <1>1, <1>2, <1>3 DEF Points

(* The type invariant follows.                                             *)
LEMMA TestTypes ==
    TestInv => TypeOK
  <1>1. SUFFICES ASSUME TestInv PROVE TypeOK
    OBVIOUS
  <1>2. \A a, b : BlockOK(a, 0) /\ BlockOK(b, 1) => ImageOK(Pair(a, b))
    BY PairAt DEF ImageOK
  <1>3. ImageOK(Empty)
    BY <1>2, BlocksOK DEF Empty
  <1>4. ImageOK(disk.main)
    <2>1. PICK f, g : \/ disk.main = Empty \/ disk.main = Pair(Slot(0, 1, f), Blank)
                      \/ disk.main = Pair(Slot(0, 1, f), Slot(1, 2, g))
                      \/ disk.main = Pair(Slot(0, 3, f), Slot(1, 2, g))
                      \/ disk.main = Pair(Slot(0, 3, f), Slot(1, 4, g))
      BY <1>1, MainIs
    <2>2. /\ BlockOK(Slot(0, 1, f), 0) /\ BlockOK(Slot(0, 3, f), 0) /\ BlockOK(Blank, 1)
          /\ BlockOK(Slot(1, 2, g), 1) /\ BlockOK(Slot(1, 4, g), 1)
      BY BlocksOK
    <2> QED BY <1>2, <1>3, <2>1, <2>2
  <1>5. ImageOK(disk.header) /\ ImageOK(disk.payload)
    <2>1. \A f : BlockOK(Slot(0, 3, f), 0) /\ BlockOK(Blank, 1) /\ BlockOK(BadHeader, 1) /\ BlockOK(BadPayload, 1)
      BY BlocksOK
    <2> QED BY <1>1, <1>2, <1>3, <2>1, CopiesAre
  <1>6. \A n \in Images, s \in Slots : BlockOK(disk[n][s], s)
    BY <1>4, <1>5 DEF ImageOK, Images, Slots
  <1>7. pc \in Points
    BY <1>1 DEF TestInv
  <1> QED BY <1>6, <1>7 DEF TypeOK, BlockOK

(* A guest with any of the faults does not pass, whatever the ticks were.  *)
THEOREM FaultsAreNoticed == Spec => [](TypeOK /\ Detects)
  <1>1. TestInv => TypeOK /\ Detects
    <2>1. TestInv => Detects
      BY DEF TestInv, Detects
    <2> QED BY <2>1, TestTypes
  <1> QED BY <1>1, TestInvariant, PTL

(* The verdict of test-x86_64-persistence.py is wrong for ties of the       *)
(* boot-local ticks alone: no faulty guest passes, and a correct one fails  *)
(* only after two boots that changed the target at equal ticks.             *)
THEOREM VerdictIsExact == Spec => []VerdictExact
  <1>1. TestInv => VerdictExact
    <2>1. TestInv => Detects /\ FailsOnTieOnly
      BY DEF TestInv, Detects
    <2> QED BY <2>1, TestTypes DEF VerdictExact
  <1> QED BY <1>1, TestInvariant, PTL

-----------------------------------------------------------------------------
(* The parsers                                                             *)

(* Both accept a block for the same reasons.                               *)
LEMMA Agree ==
    ASSUME fault = "none", NEW img, NEW s
    PROVE  HostAccepts(img, s) = ValidCandidate(img, s)
  <1> DEFINE b == img[s]
  <1>1. {"version", "size"} \subseteq Covered /\ {"slot", "marker"} \subseteq Covered
        /\ "magic" \in Covered /\ "longLength" \in Covered
    BY DEF Covered, Fields
  <1>2. ParseHeader(b, s) = "ok" <=> b.gen # 0 /\ b.slot = s /\ b.flipped \cap Covered = {}
    <2>1. b.flipped \cap Covered = {} =>
             /\ b.flipped \cap {"version", "size"} = {} /\ b.flipped \cap {"slot", "marker"} = {}
             /\ "magic" \notin b.flipped /\ "longLength" \notin b.flipped
      BY <1>1
    <2> HIDE DEF b
    <2> QED BY <2>1 DEF ParseHeader
  <1>3. ReadHeader(b, s) = "valid" <=> b.gen # 0 /\ b.slot = s /\ b.flipped \cap Covered = {}
    BY DEF ReadHeader
  <1>4. ParseRecords(b) = "ok" <=> ~b.rotten
    BY DEF ParseRecords
  <1> QED BY <1>2, <1>3, <1>4 DEF HostAccepts, ValidCandidate

(* The host's parsers accept a slot exactly when a correct guest's mount   *)
(* would, on every image of the test and with one more byte flipped.       *)
THEOREM HostParsesAsMounts == Spec => []ParsersAgree
  <1>1. ParsersAgree
    BY Agree DEF ParsersAgree
  <1> QED BY <1>1, PTL

-----------------------------------------------------------------------------
(* Damage to the newest slot                                               *)

(* A block that is damaged under a checksum.                               *)
Damaged(b) == IsBlock(b) /\ (b.flipped \cap Covered # {} \/ b.rotten = TRUE)

(* A correct guest does not mount it.                                      *)
LEMMA DamagedNotMounted ==
    ASSUME fault = "none", NEW img, NEW s, Damaged(img[s])
    PROVE  ~ValidCandidate(img, s)
  BY DEF ValidCandidate, ReadHeader, Damaged

(* Damage under a checksum damages.                                        *)
LEMMA DamagedIs ==
    ASSUME NEW b, IsBlock(b)
    PROVE  (\A f \in Covered : Damaged(Flipped(b, f))) /\ Damaged(Rotten(b))
  <1>1. ASSUME NEW f \in Covered
        PROVE  Damaged(Flipped(b, f))
    <2>1. IsBlock(Flipped(b, f)) /\ Flipped(b, f).flipped = b.flipped \cup {f}
      BY DamagedBlock
    <2>2. f \in Flipped(b, f).flipped
      BY <2>1
    <2> QED BY <1>1, <2>1, <2>2 DEF Damaged
  <1>2. Damaged(Rotten(b))
    <2>1. \A f : IsBlock(Rotten(b)) /\ Rotten(b).rotten = TRUE
      BY Zenon, DamagedBlock
    <2> QED BY <2>1 DEF Damaged
  <1> QED BY <1>1, <1>2

(* The second slot is mounted when the first one cannot be.                *)
LEMMA SecondStays ==
    ASSUME NEW a, NEW b, NEW img, img = Pair(a, b), Good(b, 1), ~ValidCandidate(img, 0)
    PROVE  Mounted(img) = b.files /\ MountedGen(img) = b.gen
  <1>1. img[0] = a /\ img[1] = b /\ 1 \in Slots /\ 1 - 1 = 0
    BY PairAt
  <1>2. ValidCandidate(img, 1) /\ b.gen \in Nat
    BY <1>1, GoodCandidate, GoodRead
  <1>3. Mounts(img, 1)
    BY <1>1, <1>2, OneMounts
  <1> QED BY <1>1, <1>3 DEF Mounts

(* Of two good slots one generation apart, the older one is mounted when   *)
(* the newer one is damaged.                                               *)
LEMMA FallsBack ==
    ASSUME fault = "none", NEW a, NEW b, NEW img, img = Pair(a, b), Good(a, 0), Good(b, 1),
           a.gen = b.gen + 1 \/ b.gen = a.gen + 1
    PROVE  LET newest  == Active(img)
               damaged == {Flip(img, newest, f) : f \in Covered} \cup {Rot(img, newest)}
           IN  \A d \in damaged : MountedGen(d) = MountedGen(img) - 1 /\ Mounted(d) = img[1 - newest].files
  <1>1. a.gen \in Nat /\ b.gen \in Nat /\ IsBlock(a) /\ IsBlock(b)
    BY DEF Good
  <1>2. img[0] = a /\ img[1] = b /\ 1 - 0 = 1 /\ 1 - 1 = 0
    BY PairAt
  <1>3. CASE b.gen = a.gen + 1
    <2>1. Active(img) = 1 /\ MountedGen(img) = b.gen /\ b.gen - 1 = a.gen
      <3>1. b.gen > a.gen /\ b.gen - 1 = a.gen
        BY <1>1, <1>3
      <3> QED BY <3>1, BothWritten
    <2>2. ASSUME NEW x, Damaged(x)
          PROVE  Mounted(Pair(a, x)) = a.files /\ MountedGen(Pair(a, x)) = a.gen
      <3>1. Pair(a, x)[1] = x
        BY PairAt
      <3>2. ~ValidCandidate(Pair(a, x), 1)
        BY <2>2, <3>1, DamagedNotMounted
      <3> QED BY <3>2, FirstOnly
    <2>3. ASSUME NEW d \in {Flip(img, 1, f) : f \in Covered} \cup {Rot(img, 1)}
          PROVE  \E x : Damaged(x) /\ d = Pair(a, x)
      <3>1. \A f : Flip(img, 1, f) = Pair(a, Flipped(b, f)) /\ Rot(img, 1) = Pair(a, Rotten(b))
        BY DamagedAt
      <3>2. (\A f \in Covered : Damaged(Flipped(b, f))) /\ Damaged(Rotten(b))
        BY <1>1, DamagedIs
      <3> QED BY <2>3, <3>1, <3>2
    <2> QED BY <1>2, <2>1, <2>2, <2>3
  <1>4. CASE a.gen = b.gen + 1
    <2>1. Active(img) = 0 /\ MountedGen(img) = a.gen /\ a.gen - 1 = b.gen
      <3>1. a.gen > b.gen /\ a.gen - 1 = b.gen
        BY <1>1, <1>4
      <3> QED BY <3>1, BothWritten
    <2>2. ASSUME NEW x, Damaged(x)
          PROVE  Mounted(Pair(x, b)) = b.files /\ MountedGen(Pair(x, b)) = b.gen
      <3>1. Pair(x, b)[0] = x
        BY PairAt
      <3>2. ~ValidCandidate(Pair(x, b), 0)
        BY <2>2, <3>1, DamagedNotMounted
      <3> QED BY <3>2, SecondStays
    <2>3. ASSUME NEW d \in {Flip(img, 0, f) : f \in Covered} \cup {Rot(img, 0)}
          PROVE  \E x : Damaged(x) /\ d = Pair(x, b)
      <3>1. \A f : Flip(img, 0, f) = Pair(Flipped(a, f), b) /\ Rot(img, 0) = Pair(Rotten(a), b)
        BY DamagedAt
      <3>2. (\A f \in Covered : Damaged(Flipped(a, f))) /\ Damaged(Rotten(a))
        BY <1>1, DamagedIs
      <3> QED BY <2>3, <3>1, <3>2
    <2> QED BY <1>2, <2>1, <2>2, <2>3
  <1> QED BY <1>3, <1>4

(* Once both slots are written, damage anywhere under a checksum of the    *)
(* newest is answered by the generation before.                            *)
THEOREM AnyDamageFallsBack == Spec => []FallsBackAnywhere
  <1>1. TestInv => FallsBackAnywhere
    <2>1. SUFFICES ASSUME TestInv, fault = "none", \A s \in Slots : disk.main[s].gen # 0
                   PROVE  LET newest  == Active(disk.main)
                              damaged == {Flip(disk.main, newest, f) : f \in Covered} \cup {Rot(disk.main, newest)}
                          IN  \A img \in damaged : /\ MountedGen(img) = MountedGen(disk.main) - 1
                                                   /\ Mounted(img) = disk.main[1 - newest].files
      BY DEF FallsBackAnywhere
    <2>2. PICK f, g : \/ disk.main = Empty \/ disk.main = Pair(Slot(0, 1, f), Blank)
                      \/ disk.main = Pair(Slot(0, 1, f), Slot(1, 2, g))
                      \/ disk.main = Pair(Slot(0, 3, f), Slot(1, 2, g))
                      \/ disk.main = Pair(Slot(0, 3, f), Slot(1, 4, g))
      BY <2>1, MainIs
    <2>3. disk.main[1].gen # 0 /\ Blank.gen = 0
      BY <2>1 DEF Slots, Blank
    <2>4. disk.main # Empty /\ disk.main # Pair(Slot(0, 1, f), Blank)
      BY <2>3, PairAt DEF Empty
    <2>5. /\ Good(Slot(0, 1, f), 0) /\ Slot(0, 1, f).gen = 1 /\ Good(Slot(0, 3, f), 0) /\ Slot(0, 3, f).gen = 3
          /\ Good(Slot(1, 2, g), 1) /\ Slot(1, 2, g).gen = 2 /\ Good(Slot(1, 4, g), 1) /\ Slot(1, 4, g).gen = 4
      BY SlotGood
    <2>6. \E a, b : disk.main = Pair(a, b) /\ Good(a, 0) /\ Good(b, 1) /\ (a.gen = b.gen + 1 \/ b.gen = a.gen + 1)
      <3>1. 2 = 1 + 1 /\ 3 = 2 + 1 /\ 4 = 3 + 1
        OBVIOUS
      <3> QED BY <2>2, <2>4, <2>5, <3>1
    <2>7. PICK a, b : disk.main = Pair(a, b) /\ Good(a, 0) /\ Good(b, 1)
                      /\ (a.gen = b.gen + 1 \/ b.gen = a.gen + 1)
      BY <2>6
    <2> QED BY <2>1, <2>7, FallsBack
  <1> QED BY <1>1, TestInvariant, PTL
=====
