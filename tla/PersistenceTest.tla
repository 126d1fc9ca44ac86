--------------------------- MODULE PersistenceTest ---------------------------
(***************************************************************************)
(* test-x86_64-persistence.py: four boots of one image that must leave the *)
(* journal generations (1,-), (1,2), (3,2), (3,4), the last three ended by *)
(* killing QEMU; then two copies of the image with one byte of the newest  *)
(* slot flipped, each booted once.  Between boots the host reads the       *)
(* journal with parsers of its own.                                        *)
(*                                                                         *)
(* The guest is the journal as runtime_persist.zig mounts and commits it   *)
(* (how a commit survives a crash is PersistJournal's subject), with one   *)
(* fault at most; a tick is any value of the boot's 100 Hz counter.        *)
(***************************************************************************)
EXTENDS Naturals, Sequences

CONSTANTS MaxTick,   \* bound on the boot-local ticks
          Faults     \* of the guest; "none" for a correct one

\* What can be wrong with the guest: how each fault shows is said where it acts.
KnownFaults ==
    {"none", "trusts_header", "trusts_payload", "mounts_older", "in_place", "no_commit",
     "loses_record", "fsync_stale_mtime", "fsync_stale_ctime", "fsync_access", "fsync_created",
     "fsync_owner", "fsync_all", "fdatasync_stale", "fdatasync_ctime", "fdatasync_access",
     "fdatasync_mode", "fdatasync_all", "rewrites"}

ASSUME TickAssumption ==
    MaxTick \in Nat \ {0, 1} /\ Faults \subseteq KnownFaults

VARIABLES fault,
          disk,      \* the image and its two damaged copies: slots each
          pc,        \* the next step of main
          before,    \* the image as main last hashed it
          target,    \* what main remembers of the target's record
          screen,    \* markers the last boot printed
          verdict
vars == <<fault, disk, pc, before, target, screen, verdict>>

Slots == {0, 1}
Images == {"main", "header", "payload"}

\* Where a byte of the header block may be flipped.  Only the padding is
\* outside the checksum; a flipped length may stay in range or leave it.
Fields == {"magic", "version", "size", "generation", "length", "longLength",
           "payloadCrc", "slot", "count", "crc", "marker", "padding"}
Covered == Fields \ {"padding"}

Blank == [gen |-> 0, slot |-> 0, flipped |-> {}, rotten |-> FALSE, files |-> <<>>]

Slot(s, gen, files) ==
    [gen |-> gen, slot |-> s, flipped |-> {}, rotten |-> FALSE, files |-> files]

Flip(img, s, f) == [img EXCEPT ![s].flipped = @ \cup {f}]
Rot(img, s)     == [img EXCEPT ![s].rotten = TRUE]

----------------------------------------------------------------------------
(* The host's parsers *)

\* Mutant: the checksum of the header is not compared.
ParseHeaderNoCrc(b, s) ==
    IF b.gen = 0 /\ b.flipped = {} THEN "none"
    ELSE IF b.gen = 0 \/ "magic" \in b.flipped THEN "magic"
    ELSE IF "longLength" \in b.flipped THEN "length"
    ELSE IF b.flipped \cap {"version", "size"} # {} THEN "version"
    ELSE IF b.slot # s \/ b.flipped \cap {"slot", "marker"} # {} THEN "commit_fields"
    ELSE "ok"

\* the first complaint of parse_header, "none" for an empty block, or "ok"
ParseHeader(b, s) ==
    IF b.gen = 0 /\ b.flipped = {} THEN "none"
    ELSE IF b.gen = 0 \/ "magic" \in b.flipped THEN "magic"
    ELSE IF "longLength" \in b.flipped THEN "length"
    ELSE IF b.flipped \cap {"version", "size"} # {} THEN "version"
    ELSE IF b.slot # s \/ b.flipped \cap {"slot", "marker"} # {} THEN "commit_fields"
    ELSE IF b.flipped \cap Covered # {} THEN "header_crc"
    ELSE "ok"

ParseRecords(b) == IF b.rotten THEN "payload_crc" ELSE "ok"

\* timestamp_record: parse_records and the target in them, a regular file
TargetRecord(b) == b.files.target

HostAccepts(img, s) == ParseHeader(img[s], s) = "ok" /\ ParseRecords(img[s]) = "ok"

----------------------------------------------------------------------------
(* The guest *)

\* readHeader: absent, invalid or valid
ReadHeader(b, s) ==
    IF b.gen = 0 /\ b.flipped = {} THEN "absent"
    ELSE IF b.gen = 0 \/ b.slot # s \/ b.flipped \cap Covered # {}
    THEN (IF fault = "trusts_header" /\ b.gen # 0 THEN "valid" ELSE "invalid")
    ELSE "valid"

ValidCandidate(img, s) ==
    ReadHeader(img[s], s) = "valid" /\ (~img[s].rotten \/ fault = "trusts_payload")

\* Mutant: the newest header is taken before its payload is looked at.
SelectNewestHeader(img) ==
    LET valid == {s \in Slots : ReadHeader(img[s], s) = "valid"}
        best  == {s \in valid : \A t \in valid : img[s].gen >= img[t].gen}
    IN  {s \in best : ValidCandidate(img, s)}

\* mount: the newest slot of those whose header and payload both check
Select(img) ==
    LET valid == {s \in Slots : ValidCandidate(img, s)}
    IN  {s \in valid : \A t \in valid : IF fault = "mounts_older" THEN img[s].gen <= img[t].gen
                                        ELSE img[s].gen >= img[t].gen}

CorruptHeaders(img) == {s \in Slots : ReadHeader(img[s], s) = "invalid"}
Recovered(img) ==
    \/ \E s \in Slots : ReadHeader(img[s], s) # "absent" /\ ~ValidCandidate(img, s)
    \/ \A s \in Slots : ValidCandidate(img, s) /\ img[0].gen # img[1].gen

NoFiles == [message |-> {}, target |-> <<>>, other |-> "none", count |-> 0]
Mounted(img) == IF Select(img) = {} THEN NoFiles
                ELSE img[CHOOSE s \in Select(img) : TRUE].files
MountedGen(img) == IF Select(img) = {} THEN 0 ELSE img[CHOOSE s \in Select(img) : TRUE].gen
Active(img) == IF Select(img) = {} THEN 1 ELSE CHOOSE s \in Select(img) : TRUE

\* commitSnapshot: the other slot, the next generation
Commit(img, files) ==
    LET s == IF fault = "in_place" THEN Active(img) ELSE 1 - Active(img)
    IN  IF fault = "no_commit" THEN img
        ELSE [img EXCEPT ![s] = Slot(s, MountedGen(img) + 1, files)]

Ticks == 1..MaxTick
Times(c, m, ch, a) == [created |-> c, modified |-> m, changed |-> ch, accessed |-> a,
                       mode |-> "0600", owner |-> "root", data |-> "v1"]

\* boot 1: mkdir, write, cp, then fs.elf init, which ends in sync
Populate(img, t) ==
    LET files == [message |-> {"one"}, target |-> Times(t, t, t, t), other |-> "sparse", count |-> 8]
    IN  Commit(img, IF fault = "loses_record" THEN [files EXCEPT !.count = 7] ELSE files)

\* fs.elf fsync: the target is rewritten and re-moded at tick t, another file
\* is left dirty, fsync commits the target's record alone
FileSync(img, t) ==
    LET old == Mounted(img)
        new == [old.target EXCEPT !.modified = IF fault = "fsync_stale_mtime" THEN @ ELSE t,
                                  !.changed = IF fault = "fsync_stale_ctime" THEN @ ELSE t,
                                  !.accessed = IF fault = "fsync_access" THEN @ + 1 ELSE @,
                                  !.created = IF fault = "fsync_created" THEN @ + 1 ELSE @,
                                  !.owner = IF fault = "fsync_owner" THEN "nobody" ELSE @,
                                  !.mode = "0640", !.data = "v2"]
    IN  Commit(img, [old EXCEPT !.target = new,
                                !.other = IF fault = "fsync_all" THEN "dirty" ELSE @])

\* fs.elf fdatasync refuses a volume that does not hold what fsync committed
SyncedState(img) ==
    LET files == Mounted(img)
    IN  files.target.mode = "0640" /\ files.target.data = "v2" /\ files.other = "sparse"

\* then reads the target, rewrites and re-modes it at tick t, and fdatasync
\* commits its data, size and modification tick
FileDataSync(img, t) ==
    LET old == Mounted(img)
        new == [old.target EXCEPT !.modified = IF fault = "fdatasync_stale" THEN @ ELSE t,
                                  !.changed = IF fault = "fdatasync_ctime" THEN @ + 1 ELSE @,
                                  !.accessed = IF fault = "fdatasync_access" THEN @ + 1 ELSE @,
                                  !.mode = IF fault = "fdatasync_mode" THEN "0600" ELSE @,
                                  !.data = "v3"]
    IN  Commit(img, [old EXCEPT !.target = new,
                                !.other = IF fault = "fdatasync_all" THEN "dirty" ELSE @])

\* boot 4: append, then fs.elf verify, which removes its files and syncs
VerifiedState(img) ==
    LET files == Mounted(img)
    IN  files.target.mode = "0640" /\ files.target.data = "v3" /\ files.other = "sparse"

CleanUp(img) ==
    Commit(img, [Mounted(img) EXCEPT !.message = {"one", "four"}, !.target = <<>>,
                                     !.other = "none", !.count = 3])

\* what shutdown reports of the store
Report(img) ==
    [gen |-> MountedGen(img), slot |-> Active(img), count |-> Mounted(img).count,
     recoveries |-> IF Recovered(img) THEN 1 ELSE 0, corrupt |-> CorruptHeaders(img)]

----------------------------------------------------------------------------
(* main *)

At(p) == pc = p /\ verdict = "none"
Fail(why) == verdict' = why /\ UNCHANGED <<fault, disk, pc, before, target, screen>>
Proceed(p) == pc' = p /\ UNCHANGED <<fault, verdict>>

\* the run_boot's session was as asked: the image changes, QEMU is killed
Session(name, img, p) ==
    /\ disk' = [disk EXCEPT ![name] = img]
    /\ screen' = Mounted(disk[name]).message \cup Mounted(img).message
    /\ Proceed(p)
    /\ UNCHANGED <<before, target>>

Boot1 ==
    /\ At("boot1")
    /\ \E t \in Ticks :
         LET img == Populate(disk.main, t)
         IN  IF MountedGen(img) = 1 /\ Active(img) = 0 /\ Mounted(img).count = 8
             THEN Session("main", img, "check1") ELSE Fail("boot1")

Generations(a, b) == ParseHeader(disk.main[0], 0) = "ok" /\ ParseHeader(disk.main[1], 1) = "ok"
                     /\ disk.main[0].gen = a /\ disk.main[1].gen = b
Counts(a, b) == disk.main[0].files.count = a /\ disk.main[1].files.count = b

Check1 ==
    /\ At("check1")
    /\ IF /\ disk.main # before
          /\ ParseHeader(disk.main[0], 0) = "ok" /\ ParseHeader(disk.main[1], 1) = "none"
          /\ disk.main[0].gen = 1 /\ disk.main[0].files.count = 8
          /\ ParseRecords(disk.main[0]) = "ok"
          /\ TargetRecord(disk.main[0]).created > 0 /\ TargetRecord(disk.main[0]).owner = "root"
       THEN /\ target' = TargetRecord(disk.main[0]) /\ before' = disk.main
            /\ Proceed("boot2") /\ UNCHANGED <<disk, screen>>
       ELSE Fail("check1")

\* boots 2 and 3 end in a kill right after the program's exit status
Boot2 ==
    /\ At("boot2")
    /\ \E t \in Ticks : Session("main", FileSync(disk.main, t), "check2")

SameExcept(old, new, differ) ==
    \A f \in {"created", "modified", "changed", "accessed", "owner"} :
        (old[f] # new[f]) = (f \in differ)

Check2 ==
    /\ At("check2")
    /\ IF /\ disk.main # before
          /\ Generations(1, 2) /\ Counts(8, 8) /\ ParseRecords(disk.main[1]) = "ok"
          /\ SameExcept(target, TargetRecord(disk.main[1]), {"modified", "changed"})
       THEN /\ target' = TargetRecord(disk.main[1]) /\ before' = disk.main
            /\ Proceed("boot3") /\ UNCHANGED <<disk, screen>>
       ELSE Fail("check2")

\* "sleep 1" first: the counter has left its first value
Boot3 ==
    /\ At("boot3")
    /\ IF SyncedState(disk.main)
       THEN \E t \in Ticks \ {1} : Session("main", FileDataSync(disk.main, t), "check3")
       ELSE Fail("boot3")

\* Mutant: the change tick of fdatasync is not compared.
Check3Lax ==
    /\ At("check3")
    /\ IF /\ disk.main # before
          /\ Generations(3, 2) /\ Counts(8, 8) /\ ParseRecords(disk.main[0]) = "ok"
          /\ target.modified # TargetRecord(disk.main[0]).modified
       THEN /\ target' = TargetRecord(disk.main[0]) /\ before' = disk.main
            /\ Proceed("boot4") /\ UNCHANGED <<disk, screen>>
       ELSE Fail("check3")

Check3 ==
    /\ At("check3")
    /\ IF /\ disk.main # before
          /\ Generations(3, 2) /\ Counts(8, 8) /\ ParseRecords(disk.main[0]) = "ok"
          /\ SameExcept(target, TargetRecord(disk.main[0]), {"modified"})
       THEN /\ target' = TargetRecord(disk.main[0]) /\ before' = disk.main
            /\ Proceed("boot4") /\ UNCHANGED <<disk, screen>>
       ELSE Fail("check3")

Boot4 ==
    /\ At("boot4")
    /\ LET img == CleanUp(disk.main)
       IN  IF /\ "one" \in Mounted(disk.main).message /\ VerifiedState(disk.main)
              /\ MountedGen(img) = 4 /\ Active(img) = 1 /\ Mounted(img).count = 3
           THEN Session("main", img, "check4") ELSE Fail("boot4")

\* G250: two copies, byte 40 of the newest header (its checksum) flipped in
\* one, byte 4 of the newest payload in the other
Check4 ==
    /\ At("check4")
    /\ IF disk.main # before /\ Generations(3, 4) /\ Counts(8, 3)
       THEN /\ disk' = [disk EXCEPT !.header = Flip(disk.main, 1, "crc"),
                                    !.payload = Rot(disk.main, 1)]
            /\ Proceed("probe") /\ UNCHANGED <<before, target, screen>>
       ELSE Fail("check4")

Probe ==
    /\ At("probe")
    /\ IF /\ \A c \in {"header", "payload"} :
               ParseHeader(disk[c][0], 0) = "ok" /\ disk[c][0].gen = 3
          /\ ParseHeader(disk.header[1], 1) = "header_crc"
          /\ ParseHeader(disk.payload[1], 1) = "ok" /\ disk.payload[1].gen = 4
          /\ ParseRecords(disk.payload[1]) = "payload_crc"
       THEN /\ before' = disk.header /\ Proceed("boot5") /\ UNCHANGED <<disk, target, screen>>
       ELSE Fail("probe")

\* the recovery boots only read; a faulty guest repairs the copy
Recovery(name) ==
    IF fault = "rewrites" THEN [disk[name] EXCEPT ![1] = Blank] ELSE disk[name]

RecoveryBoot(name, rejected, here, there) ==
    /\ At(here)
    /\ LET r == Report(disk[name])
       IN  IF /\ "one" \in Mounted(disk[name]).message
              /\ r = [gen |-> 3, slot |-> 0, count |-> 8, recoveries |-> 1, corrupt |-> rejected]
           THEN Session(name, Recovery(name), there) ELSE Fail(here)

RecoveryCheck(name, next, here, there) ==
    /\ At(here)
    /\ IF "four" \notin screen /\ disk[name] = before
       THEN /\ before' = disk[next] /\ Proceed(there) /\ UNCHANGED <<disk, target, screen>>
       ELSE Fail(here)

Boot5  == RecoveryBoot("header", {1}, "boot5", "check5")
Check5 == RecoveryCheck("header", "payload", "check5", "boot6")
Boot6  == RecoveryBoot("payload", {}, "boot6", "check6")
Check6 == RecoveryCheck("payload", "payload", "check6", "end")

Passed == At("end") /\ verdict' = "pass" /\ UNCHANGED <<fault, disk, pc, before, target, screen>>

Init ==
    /\ fault \in Faults
    /\ disk = [n \in Images |-> [s \in Slots |-> Blank]]
    /\ pc = "boot1" /\ verdict = "none"
    /\ before = disk.main /\ target = <<>> /\ screen = {}

Next == \/ Boot1 \/ Check1 \/ Boot2 \/ Check2 \/ Boot3 \/ Check3 \/ Boot4 \/ Check4
        \/ Probe \/ Boot5 \/ Check5 \/ Boot6 \/ Check6 \/ Passed

Spec == Init /\ [][Next]_vars

----------------------------------------------------------------------------
(* Properties *)

Points == {"boot1", "check1", "boot2", "check2", "boot3", "check3", "boot4", "check4",
           "probe", "boot5", "check5", "boot6", "check6", "end"}

\* Type correctness; a slot's generation and its own number agree.
TypeOK ==
    /\ pc \in Points
    /\ \A n \in Images, s \in Slots :
         /\ disk[n][s].gen \in 0..4
         /\ disk[n][s].flipped \subseteq Fields
         /\ disk[n][s].gen # 0 => disk[n][s].slot = s

\* What the four boots and the two damaged copies are for: a guest whose
\* journal has one of the faults does not pass.
Detects == verdict = "pass" => fault = "none"

\* The target was changed at equal ticks of the boots behind the two slots.
Tied == disk.main[0].files.target.modified = disk.main[1].files.target.modified

\* A correct journal fails on nothing but such a tie: the script calls ties
\* valid (line 530), and its checks after boots 2 and 3 reject one.
FailsOnTieOnly ==
    fault = "none" => \/ verdict \in {"none", "pass"}
                      \/ verdict \in {"check2", "check3"} /\ Tied

\* No guest with one of the faults passes, and a correct one is failed for a
\* tie of its boot-local ticks and for nothing else.
VerdictExact == TypeOK /\ Detects /\ FailsOnTieOnly

\* The host's parsers accept a slot exactly when mount would, on every image
\* the test meets and with any one more byte of a header flipped.
ParsersAgree ==
    fault = "none" =>
        \A n \in Images, s \in Slots, f \in Fields :
            LET img == Flip(disk[n], s, f)
            IN  /\ HostAccepts(img, s) = ValidCandidate(img, s)
                /\ HostAccepts(disk[n], s) = ValidCandidate(disk[n], s)

\* G250 for every byte and not the two it flips: once both slots are written,
\* damage under a checksum of the newest is answered by the generation before.
FallsBackAnywhere ==
    fault = "none" /\ (\A s \in Slots : disk.main[s].gen # 0) =>
        LET newest  == Active(disk.main)
            damaged == {Flip(disk.main, newest, f) : f \in Covered} \cup {Rot(disk.main, newest)}
        IN  \A img \in damaged :
                /\ MountedGen(img) = MountedGen(disk.main) - 1
                /\ Mounted(img) = disk.main[1 - newest].files
=============================================================================
