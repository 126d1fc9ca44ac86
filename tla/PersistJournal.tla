--------------------------- MODULE PersistJournal ---------------------------
(***************************************************************************)
(* The A/B journal of src/runtime_persist.zig: Store.commitSnapshot,       *)
(* Store.mount and the block device underneath, with crashes at every      *)
(* point, a volatile device cache, torn sectors and failing requests.      *)
(*                                                                         *)
(* A payload is a non-empty sequence of sectors.  A checksum is modelled   *)
(* by the payload it was computed from: CRC collisions are outside the     *)
(* code's guarantee.  Records inside a payload are below this level.       *)
(***************************************************************************)
EXTENDS Integers, Sequences

CONSTANTS Sector,       \* the contents a payload sector can have
          Payloads,     \* the snapshots serialize() can produce
          MaxSectors,   \* sectors of a slot's payload area
          GenLimit,     \* the largest generation number, 2^64 - 1 in the code
          Zero, Torn,   \* an all-zero sector; a sector no checksum accepts
          Clean         \* no write of this sector is held in the device cache

ASSUME SizeAssumption == /\ MaxSectors \in Nat
                         /\ GenLimit \in Nat

ASSUME PayloadAssumption ==
    \A p \in Payloads : /\ p \in Seq(Sector)
                        /\ Len(p) \in 1..MaxSectors

Slots == {0, 1}
Other(s) == 1 - s

(* The fields of the header sector the reader relies on.                   *)
Header == [slot: Slots, generation: 1..GenLimit,
           length: 1..MaxSectors, crc: Payloads]

ASSUME MarksAssumption ==
    /\ Zero \notin Header /\ Torn \notin Header /\ Clean \notin Header
    /\ Zero \notin Sector /\ Torn \notin Sector /\ Clean \notin Sector
    /\ Zero # Torn /\ Zero # Clean /\ Torn # Clean

NoSnapshot == [gen |-> 0, data |-> <<>>]

VARIABLES
    hdr, blk,         \* the media: header and payload sectors of each slot
    hdrCache, blkCache, \* writes the device holds in its volatile cache
    pc,               \* "down", "refused", "idle" or the step of commitSnapshot
    damaged,          \* Store.damaged: the mount is read-only until reboot
    generation,       \* Store.generation
    active,           \* Store.active_slot
    payload,          \* Store.payload, the committed baseline in memory
    next,             \* Store.next_payload, the snapshot being committed
    index,            \* the payload sector the commit writes next
    acked,            \* history: the last acknowledged snapshot
    attempt           \* history: the snapshot a publication may have left

device == <<hdr, blk, hdrCache, blkCache>>
memory == <<damaged, generation, active, payload>>
vars == <<device, pc, memory, next, index, acked, attempt>>

HeaderBlock == Header \cup {Zero, Torn}
DataBlock   == Sector \cup {Zero, Torn}

-----------------------------------------------------------------------------
(* The device.                                                             *)

(* A read returns the cached write of a sector before its media contents.  *)
ReadHdr(s)    == IF hdrCache[s] = Clean THEN hdr[s] ELSE hdrCache[s]
ReadBlk(s, i) == IF blkCache[s][i] = Clean THEN blk[s][i] ELSE blkCache[s][i]

(* flush(): every cached write reaches the media.                          *)
FlushDevice ==
    /\ hdr' = [s \in Slots |-> ReadHdr(s)]
    /\ blk' = [s \in Slots |-> [i \in 1..MaxSectors |-> ReadBlk(s, i)]]
    /\ hdrCache' = [s \in Slots |-> Clean]
    /\ blkCache' = [s \in Slots |-> [i \in 1..MaxSectors |-> Clean]]

(* The device may write a cached sector back at any time, in any order.    *)
DestageHeader(s) ==
    /\ hdrCache[s] # Clean
    /\ hdr' = [hdr EXCEPT ![s] = hdrCache[s]]
    /\ hdrCache' = [hdrCache EXCEPT ![s] = Clean]
    /\ UNCHANGED <<blk, blkCache, pc, memory, next, index, acked, attempt>>

DestageBlock(s, i) ==
    /\ blkCache[s][i] # Clean
    /\ blk' = [blk EXCEPT ![s][i] = blkCache[s][i]]
    /\ blkCache' = [blkCache EXCEPT ![s][i] = Clean]
    /\ UNCHANGED <<hdr, hdrCache, pc, memory, next, index, acked, attempt>>

-----------------------------------------------------------------------------
(* Store.commitSnapshot, one step per device request.                      *)

(* Mutant: the commit always writes slot A.                                *)
TargetFixed == 0
Target == Other(active)

(* sync() and syncFileRecord() reach commitSnapshot only on a mounted,     *)
(* undamaged store.                                                        *)
BeginCommit(p) ==
    /\ pc = "idle"
    /\ ~damaged
    /\ next' = p
    /\ index' = 1
    /\ pc' = "payload"
    /\ UNCHANGED <<device, memory, acked, attempt>>

WritePayload ==
    /\ pc = "payload"
    /\ blkCache' = [blkCache EXCEPT ![Target][index] = next[index]]
    /\ index' = index + 1
    /\ pc' = IF index = Len(next) THEN "flush" ELSE "payload"
    /\ UNCHANGED <<hdr, blk, hdrCache, memory, next, acked, attempt>>

(* recordIoDamage: fail-stop.                                              *)
RecordIoDamage ==
    /\ damaged' = TRUE
    /\ pc' = "idle"
    /\ UNCHANGED <<generation, active, payload, next, index, acked>>

(* A write the device reports as failed may have had any effect.           *)
WritePayloadFails ==
    /\ pc = "payload"
    /\ \E b \in {blkCache[Target][index], next[index], Torn} :
          blkCache' = [blkCache EXCEPT ![Target][index] = b]
    /\ RecordIoDamage
    /\ UNCHANGED <<hdr, blk, hdrCache, attempt>>

(* Mutant: the payload is not flushed before the header is written.        *)
FlushPayloadSkipped ==
    /\ pc = "flush"
    /\ pc' = "header"
    /\ UNCHANGED <<device, memory, next, index, acked, attempt>>

FlushPayload ==
    /\ pc = "flush"
    /\ FlushDevice
    /\ pc' = "header"
    /\ UNCHANGED <<memory, next, index, acked, attempt>>

FlushPayloadFails ==
    /\ pc = "flush"
    /\ RecordIoDamage
    /\ UNCHANGED <<device, attempt>>

(* Mutant: the counter saturates.                                          *)
NextGenerationSaturating ==
    IF generation = GenLimit THEN GenLimit ELSE generation + 1

(* generation +% 1: the counter wraps to zero.                             *)
NextGeneration == IF generation = GenLimit THEN 0 ELSE generation + 1

(* The generation wrapped to zero: NoSpace, before the header is touched.  *)
GenerationExhausted ==
    /\ pc = "header"
    /\ NextGeneration = 0
    /\ pc' = "idle"
    /\ UNCHANGED <<device, memory, next, index, acked, attempt>>

(* Mutant: the header does not record which slot it was written for.       *)
NewHeaderAnySlot == [slot |-> 0, generation |-> NextGeneration,
                     length |-> Len(next), crc |-> next]

NewHeader == [slot |-> Target, generation |-> NextGeneration,
              length |-> Len(next), crc |-> next]

(* The header is written with force-unit-access: success means media.      *)
WriteHeader ==
    /\ pc = "header"
    /\ NextGeneration # 0
    /\ hdr' = [hdr EXCEPT ![Target] = NewHeader]
    /\ hdrCache' = [hdrCache EXCEPT ![Target] = Clean]
    /\ attempt' = [gen |-> NextGeneration, data |-> next]
    /\ pc' = "commit"
    /\ UNCHANGED <<blk, blkCache, memory, next, index, acked>>

WriteHeaderFails ==
    /\ pc = "header"
    /\ NextGeneration # 0
    /\ \/ \E h \in {hdr[Target], NewHeader, Torn} :
             /\ hdr' = [hdr EXCEPT ![Target] = h]
             /\ UNCHANGED hdrCache
       \/ /\ hdrCache' = [hdrCache EXCEPT ![Target] = NewHeader]
          /\ UNCHANGED hdr
    /\ attempt' = [gen |-> NextGeneration, data |-> next]
    /\ RecordIoDamage
    /\ UNCHANGED <<blk, blkCache>>

(* Mutant: the active slot is not switched after a commit.                 *)
FlushHeaderKeepsActive ==
    /\ pc = "commit"
    /\ FlushDevice
    /\ payload' = next
    /\ generation' = NextGeneration
    /\ acked' = attempt
    /\ pc' = "idle"
    /\ UNCHANGED <<damaged, active, next, index, attempt>>

(* Only after the last flush does the in-memory baseline move.             *)
FlushHeader ==
    /\ pc = "commit"
    /\ FlushDevice
    /\ payload' = next
    /\ generation' = NextGeneration
    /\ active' = Target
    /\ acked' = attempt
    /\ pc' = "idle"
    /\ UNCHANGED <<damaged, next, index, attempt>>

FlushHeaderFails ==
    /\ pc = "commit"
    /\ RecordIoDamage
    /\ UNCHANGED <<device, attempt>>

-----------------------------------------------------------------------------
(* Crash and Store.mount.                                                  *)

(* Power is lost: the cache vanishes, sectors being written may tear (the  *)
(* uncached header write included), and memory restarts from initialize(). *)
HeadersInFlight ==
    {s \in Slots : hdrCache[s] # Clean \/ (pc = "header" /\ s = Target)}
BlocksInFlight == {x \in Slots \X (1..MaxSectors) :
                      blkCache[x[1]][x[2]] # Clean}

Crash ==
    /\ \E torn \in SUBSET HeadersInFlight :
          hdr' = [s \in Slots |-> IF s \in torn THEN Torn ELSE hdr[s]]
    /\ \E torn \in SUBSET BlocksInFlight :
          blk' = [s \in Slots |-> [i \in 1..MaxSectors |->
                    IF <<s, i>> \in torn THEN Torn ELSE blk[s][i]]]
    /\ hdrCache' = [s \in Slots |-> Clean]
    /\ blkCache' = [s \in Slots |-> [i \in 1..MaxSectors |-> Clean]]
    /\ pc' = "down"
    /\ damaged' = FALSE
    /\ generation' = 0
    /\ active' = 1
    /\ payload' = <<>>
    /\ next' = <<>>
    /\ index' = 1
    /\ UNCHANGED <<acked, attempt>>

(* readHeader() and validatePayload(): a header that is not torn and names *)
(* its own slot, over a payload area that still has its checksum.          *)
HeaderValid(s) == ReadHdr(s) \in Header /\ ReadHdr(s).slot = s
CandidateValid(s) ==
    /\ HeaderValid(s)
    /\ \A i \in 1..ReadHdr(s).length : ReadBlk(s, i) = ReadHdr(s).crc[i]

(* Mutant: the first valid slot wins, whatever its generation.             *)
SelectedSlotFirst == IF CandidateValid(0) THEN 0 ELSE 1

(* The slot mount() selects when at least one candidate is valid.          *)
SelectedSlot ==
    IF CandidateValid(0) /\ CandidateValid(1)
    THEN IF ReadHdr(1).generation > ReadHdr(0).generation THEN 1 ELSE 0
    ELSE IF CandidateValid(0) THEN 0 ELSE 1

(* loadPayload() and restore(): the selected snapshot becomes the baseline.*)
MountSelected ==
    /\ pc = "down"
    /\ CandidateValid(0) \/ CandidateValid(1)
    /\ LET h == ReadHdr(SelectedSlot)
           p == [i \in 1..h.length |-> ReadBlk(SelectedSlot, i)]
       IN /\ generation' = h.generation
          /\ active' = SelectedSlot
          /\ payload' = p
          /\ acked' = [gen |-> h.generation, data |-> p]
    /\ attempt' = acked'
    /\ pc' = "idle"
    /\ UNCHANGED <<device, damaged, next, index>>

(* Both headers are absent: an empty tree at generation 0.                 *)
MountEmpty ==
    /\ pc = "down"
    /\ \A s \in Slots : ReadHdr(s) = Zero
    /\ acked' = NoSnapshot
    /\ attempt' = NoSnapshot
    /\ pc' = "idle"
    /\ UNCHANGED <<device, memory, next, index>>

(* No candidate, but not a blank partition: Error.Corrupt.                 *)
MountCorrupt ==
    /\ pc = "down"
    /\ \A s \in Slots : ~CandidateValid(s)
    /\ \E s \in Slots : ReadHdr(s) # Zero
    /\ pc' = "refused"
    /\ UNCHANGED <<device, memory, next, index, acked, attempt>>

(* A read fails while mounting: Error.Io, nothing is mounted.              *)
MountUnreadable ==
    /\ pc = "down"
    /\ pc' = "refused"
    /\ UNCHANGED <<device, memory, next, index, acked, attempt>>

-----------------------------------------------------------------------------
Init ==
    /\ hdr = [s \in Slots |-> Zero]
    /\ blk = [s \in Slots |-> [i \in 1..MaxSectors |-> Zero]]
    /\ hdrCache = [s \in Slots |-> Clean]
    /\ blkCache = [s \in Slots |-> [i \in 1..MaxSectors |-> Clean]]
    /\ pc = "down"
    /\ damaged = FALSE
    /\ generation = 0
    /\ active = 1
    /\ payload = <<>>
    /\ next = <<>>
    /\ index = 1
    /\ acked = NoSnapshot
    /\ attempt = NoSnapshot

CommitStep == \/ WritePayload \/ WritePayloadFails
              \/ FlushPayload \/ FlushPayloadFails
              \/ GenerationExhausted
              \/ WriteHeader \/ WriteHeaderFails
              \/ FlushHeader \/ FlushHeaderFails

Mount == MountSelected \/ MountEmpty \/ MountCorrupt \/ MountUnreadable

Destage == \E s \in Slots : \/ DestageHeader(s)
                            \/ \E i \in 1..MaxSectors : DestageBlock(s, i)

Next == \/ \E p \in Payloads : BeginCommit(p)
        \/ CommitStep
        \/ Mount
        \/ Destage
        \/ Crash

Spec == Init /\ [][Next]_vars

-----------------------------------------------------------------------------
(* Properties.                                                             *)

TypeOK ==
    /\ hdr \in [Slots -> HeaderBlock]
    /\ blk \in [Slots -> [1..MaxSectors -> DataBlock]]
    /\ hdrCache \in [Slots -> HeaderBlock \cup {Clean}]
    /\ blkCache \in [Slots -> [1..MaxSectors -> DataBlock \cup {Clean}]]
    /\ pc \in {"down", "refused", "idle", "payload", "flush", "header", "commit"}
    /\ damaged \in BOOLEAN
    /\ generation \in 0..GenLimit
    /\ active \in Slots
    /\ payload \in Payloads \cup {<<>>}
    /\ next \in Payloads \cup {<<>>}
    /\ index \in 1..(MaxSectors + 1)
    /\ acked \in [gen: 0..GenLimit, data: Payloads \cup {<<>>}]
    /\ attempt \in [gen: 0..GenLimit, data: Payloads \cup {<<>>}]

(* What the media alone holds, were the cache lost at this instant.        *)
MediaValid(s) ==
    /\ hdr[s] \in Header /\ hdr[s].slot = s
    /\ \A i \in 1..hdr[s].length : blk[s][i] = hdr[s].crc[i]
MediaSnapshot(s) == [gen |-> hdr[s].generation, data |-> hdr[s].crc]

(* At every instant, were power lost now, the newest valid slot on the     *)
(* media is the acknowledged snapshot or the one whose header write had    *)
(* been issued: commitSnapshot never leaves a window without a valid slot  *)
(* once a commit has been acknowledged, and a torn or half-written payload *)
(* is never the newest candidate of mount().                               *)
CrashRecoversCommitted ==
    LET valid == {s \in Slots : MediaValid(s)}
    IN /\ \A s \in valid :
             \/ MediaSnapshot(s) \in {acked, attempt}
             \/ hdr[s].generation < acked.gen
       /\ acked.gen > 0 => \E s \in valid : MediaSnapshot(s) \in {acked, attempt}

(* "The writer never intentionally emits equal generations in both slots": *)
(* two well-formed headers always differ, so mount()'s tie case is dead,   *)
(* across failed publications, crashes and remounts.                       *)
DistinctGenerations ==
    hdr[0] \in Header /\ hdr[1] \in Header
        => hdr[0].generation # hdr[1].generation

(* From mount to crash no request of a commit touches the active slot,     *)
(* neither on the media nor in the device cache.                           *)
SlotUntouched(s) == /\ hdr'[s] = hdr[s] /\ blk'[s] = blk[s]
                    /\ hdrCache'[s] = hdrCache[s] /\ blkCache'[s] = blkCache[s]
ActiveSlotUntouched ==
    [][pc # "down" /\ pc' # "down" => SlotUntouched(active)]_vars

(* Store.check() between commits: it passes on every store that is not     *)
(* damaged, and on a damaged one that has a committed generation.          *)
Check ==
    IF generation = 0 THEN \A s \in Slots : ReadHdr(s) = Zero
    ELSE CandidateValid(active) /\ ReadHdr(active).generation = generation
CheckPasses == pc = "idle" /\ (generation > 0 \/ ~damaged) => Check

(* The inductive invariant.  One slot, the active one while mounted, holds *)
(* the acknowledged snapshot on the media with nothing cached over it; the *)
(* other holds something older or unreadable, or the published attempt     *)
(* over a payload that had been flushed before its header was written.     *)
Holds(s, snap) == /\ hdr[s] \in Header
                  /\ hdr[s].generation = snap.gen
                  /\ hdr[s].crc = snap.data
                  /\ \A i \in 1..Len(snap.data) : blk[s][i] = snap.data[i]
BlocksClean(s) == \A i \in 1..MaxSectors : blkCache[s][i] = Clean
SlotClean(s)   == hdrCache[s] = Clean /\ BlocksClean(s)
Older(s)       == hdr[s] \in Header => hdr[s].generation < acked.gen
Newer          == /\ attempt.gen = acked.gen + 1
                  /\ attempt.data \in Payloads

CommittedSlot(s) == /\ IF acked.gen = 0 THEN hdr[s] = Zero ELSE Holds(s, acked)
                    /\ SlotClean(s)
SpareSlot(s) ==
    /\ \/ Older(s)
       \/ Newer /\ Holds(s, attempt) /\ BlocksClean(s)
    /\ \/ hdrCache[s] = Clean
       \/ /\ Newer /\ BlocksClean(s)
          /\ hdrCache[s] = [slot |-> s, generation |-> attempt.gen,
                            length |-> Len(attempt.data), crc |-> attempt.data]
          /\ \A i \in 1..Len(attempt.data) : blk[s][i] = attempt.data[i]

Committed(s) == CommittedSlot(s) /\ SpareSlot(Other(s))

HeadersOwnSlot ==
    \A s \in Slots : hdr[s] \in Header =>
        hdr[s].slot = s /\ hdr[s].length = Len(hdr[s].crc)

SnapshotsWellFormed ==
    /\ IF acked.gen = 0 THEN acked = NoSnapshot ELSE acked.data \in Payloads
    /\ attempt = acked \/ Newer

Offline == /\ ~damaged /\ generation = 0 /\ active = 1 /\ payload = <<>>
           /\ \A s \in Slots : SlotClean(s)
           /\ \E s \in Slots : Committed(s)
Online == /\ generation = acked.gen
          /\ payload = acked.data
          /\ Committed(active)

Staged(n) == \A i \in 1..n : ReadBlk(Target, i) = next[i]

(* What each step of commitSnapshot has established for the next one.      *)
CommitProgress ==
    /\ pc = "idle" /\ ~damaged =>
          attempt = acked /\ \A s \in Slots : SlotClean(s)
    /\ pc \in {"idle", "payload", "flush", "header"} /\ ~damaged /\ acked.gen = 0 =>
          hdr[Target] = Zero
    /\ pc \in {"payload", "flush", "header", "commit"} =>
          /\ ~damaged /\ next \in Payloads /\ hdrCache[Target] = Clean
    /\ pc \in {"payload", "flush", "header"} => attempt = acked
    /\ pc = "payload" => index \in 1..Len(next) /\ Staged(index - 1)
    /\ pc = "flush" => Staged(Len(next))
    /\ pc \in {"header", "commit"} => BlocksClean(Target) /\ Staged(Len(next))
    /\ pc = "commit" => /\ NextGeneration # 0
                        /\ attempt = [gen |-> NextGeneration, data |-> next]
                        /\ hdr[Target] = NewHeader

JournalInv == /\ TypeOK
              /\ HeadersOwnSlot
              /\ SnapshotsWellFormed
              /\ IF pc \in {"down", "refused"} THEN Offline ELSE Online
              /\ CommitProgress

(* The journal implements the abstract store: stale, torn and unpublished  *)
(* snapshots are never recovered, and a failed commit stops the writer.    *)
Status == IF damaged THEN "damaged"
          ELSE CASE pc \in {"down", "refused"} -> pc
                 [] pc = "idle" -> "ready"
                 [] pc \in {"payload", "flush", "header"} -> "staging"
                 [] pc = "commit" -> "publishing"
Abstract == INSTANCE DurableStore WITH status <- Status
ImplementsDurableStore == Abstract!Spec
=============================================================================
