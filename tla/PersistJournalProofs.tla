------------------------ MODULE PersistJournalProofs ------------------------
(***************************************************************************)
(* Machine-checked proofs about PersistJournal, for every payload set,     *)
(* slot size and generation limit.                                         *)
(***************************************************************************)
EXTENDS PersistJournal, TLAPS

USE DEF Slots, Other, Target

(* A payload has between one and MaxSectors sectors and is not empty.      *)
LEMMA PayloadFacts ==
    ASSUME NEW p \in Payloads
    PROVE  /\ Len(p) \in 1..MaxSectors /\ p # <<>>
           /\ p \in Seq(Sector)
           /\ \A i \in 1..Len(p) : p[i] \in Sector
  BY PayloadAssumption, SizeAssumption

(* The initial state, a blank partition, satisfies the invariant.          *)
LEMMA InitEstablishes == Init => JournalInv
<1> SUFFICES ASSUME Init PROVE JournalInv
  OBVIOUS
<1>a. NoSnapshot \in [gen: 0..GenLimit, data: Payloads \cup {<<>>}]
  BY SizeAssumption DEF NoSnapshot
<1>b. /\ blk \in [{0, 1} -> [1..MaxSectors -> DataBlock]]
      /\ hdr \in [{0, 1} -> HeaderBlock]
  BY DEF Init, DataBlock, HeaderBlock
<1>c. /\ blkCache \in [{0, 1} -> [1..MaxSectors -> DataBlock \cup {Clean}]]
      /\ hdrCache \in [{0, 1} -> HeaderBlock \cup {Clean}]
  BY DEF Init
<1>d. generation \in 0..GenLimit /\ active \in {0, 1} /\ index \in 1..(MaxSectors + 1)
  BY SizeAssumption DEF Init
<1>1. TypeOK
  BY <1>a, <1>b, <1>c, <1>d DEF Init, TypeOK
<1>2. HeadersOwnSlot /\ SnapshotsWellFormed /\ CommitProgress
  BY MarksAssumption DEF Init, HeadersOwnSlot, SnapshotsWellFormed,
     CommitProgress, NoSnapshot
<1>3. Offline
  BY MarksAssumption DEF Init, Offline, Committed, CommittedSlot, SpareSlot,
     SlotClean, BlocksClean, Older, NoSnapshot
<1> QED
  BY <1>1, <1>2, <1>3 DEF JournalInv, Init

(* A payload write extends the staged prefix in the inactive slot's cache. *)
LEMMA WritePayloadPreserves == JournalInv /\ WritePayload => JournalInv'
<1> SUFFICES ASSUME JournalInv, WritePayload PROVE JournalInv'
  OBVIOUS
<1> USE DEF WritePayload, memory
<1>0. /\ next \in Payloads /\ index \in 1..Len(next) /\ Len(next) \in 1..MaxSectors
      /\ next[index] \in Sector /\ next[index] # Clean
  BY PayloadFacts, MarksAssumption DEF JournalInv, CommitProgress
<1>1. TypeOK'
  BY <1>0, SizeAssumption DEF JournalInv, TypeOK, DataBlock
<1>2. HeadersOwnSlot' /\ SnapshotsWellFormed'
  BY DEF JournalInv, HeadersOwnSlot, SnapshotsWellFormed, Newer
<1>3. Online'
  BY <1>0 DEF JournalInv, TypeOK, Online, CommitProgress, Committed, CommittedSlot, SpareSlot,
     SlotClean, BlocksClean, Older, Holds, Newer
<1>4. CommitProgress'
  BY <1>0, SizeAssumption DEF JournalInv, TypeOK, CommitProgress, Staged, ReadBlk, NextGeneration,
     NewHeader
<1> QED
  BY <1>1, <1>2, <1>3, <1>4 DEF JournalInv

(* Starting a commit touches nothing but memory.                           *)
LEMMA BeginCommitPreserves ==
    ASSUME JournalInv, NEW p \in Payloads, BeginCommit(p)
    PROVE  JournalInv'
<1> USE DEF BeginCommit, memory, device
<1>1. TypeOK'
  BY PayloadFacts, SizeAssumption DEF JournalInv, TypeOK
<1>2. HeadersOwnSlot' /\ SnapshotsWellFormed'
  BY DEF JournalInv, HeadersOwnSlot, SnapshotsWellFormed, Newer
<1>3. Online'
  BY DEF JournalInv, Online, Committed, CommittedSlot, SpareSlot,
     SlotClean, BlocksClean, Older, Holds, Newer
<1>4. CommitProgress'
  BY PayloadFacts DEF JournalInv, TypeOK, CommitProgress, Staged, ReadBlk,
     SlotClean, NextGeneration, NewHeader
<1> QED
  BY <1>1, <1>2, <1>3, <1>4 DEF JournalInv

(* A failed payload write may leave anything in the inactive slot.         *)
LEMMA WritePayloadFailsPreserves == JournalInv /\ WritePayloadFails => JournalInv'
<1> SUFFICES ASSUME JournalInv, WritePayloadFails PROVE JournalInv'
  OBVIOUS
<1> USE DEF WritePayloadFails, RecordIoDamage
<1>0. /\ next \in Payloads /\ index \in 1..Len(next) /\ Len(next) \in 1..MaxSectors
      /\ next[index] \in Sector /\ next[index] # Clean
  BY PayloadFacts, MarksAssumption DEF JournalInv, CommitProgress
<1>1. TypeOK'
  BY <1>0, SizeAssumption DEF JournalInv, TypeOK, DataBlock
<1>2. HeadersOwnSlot' /\ SnapshotsWellFormed'
  BY DEF JournalInv, HeadersOwnSlot, SnapshotsWellFormed, Newer
<1>3. Online'
  BY <1>0 DEF JournalInv, TypeOK, Online, CommitProgress, Committed,
     CommittedSlot, SpareSlot, SlotClean, BlocksClean, Older, Holds, Newer
<1>4. CommitProgress'
  BY DEF CommitProgress
<1> QED
  BY <1>1, <1>2, <1>3, <1>4 DEF JournalInv

(* A flush empties the cache and leaves on the media what a read returned. *)
LEMMA FlushFacts ==
    ASSUME TypeOK, FlushDevice
    PROVE  /\ hdr' \in [Slots -> HeaderBlock]
           /\ blk' \in [Slots -> [1..MaxSectors -> DataBlock]]
           /\ hdrCache' \in [Slots -> HeaderBlock \cup {Clean}]
           /\ blkCache' \in [Slots -> [1..MaxSectors -> DataBlock \cup {Clean}]]
           /\ \A s \in Slots : /\ hdr'[s] = ReadHdr(s)
                              /\ hdrCache'[s] = Clean
                              /\ \A i \in 1..MaxSectors : /\ blk'[s][i] = ReadBlk(s, i)
                                                         /\ blkCache'[s][i] = Clean
<1>1. \A s \in Slots : ReadHdr(s) \in HeaderBlock
  BY DEF TypeOK, ReadHdr
<1>2. \A s \in Slots, i \in 1..MaxSectors : ReadBlk(s, i) \in DataBlock
  BY DEF TypeOK, ReadBlk
<1> QED
  BY <1>1, <1>2 DEF FlushDevice

(* The first flush makes the staged payload durable.                       *)
LEMMA FlushPayloadPreserves == JournalInv /\ FlushPayload => JournalInv'
<1> SUFFICES ASSUME JournalInv, FlushPayload PROVE JournalInv'
  OBVIOUS
<1> USE DEF FlushPayload, memory
<1>0. FlushDevice /\ TypeOK /\ next \in Payloads /\ active \in Slots
      /\ Len(next) \in 1..MaxSectors
  BY PayloadFacts DEF JournalInv, CommitProgress, TypeOK
<1>a. hdrCache[Target] = Clean /\ SlotClean(active)
  BY DEF JournalInv, CommitProgress, Online, Committed, CommittedSlot
<1>b. hdr'[0] = hdr[0] /\ hdr'[1] = hdr[1]
  BY <1>0, <1>a, FlushFacts DEF ReadHdr, SlotClean
<1>1. TypeOK'
  BY <1>0, FlushFacts DEF TypeOK
<1>2. HeadersOwnSlot' /\ SnapshotsWellFormed'
  BY <1>b DEF JournalInv, HeadersOwnSlot, SnapshotsWellFormed, Newer
<1>3. Online'
  <2>1. \A i \in 1..MaxSectors : blk'[active][i] = blk[active][i]
    BY <1>0, <1>a, FlushFacts DEF SlotClean, BlocksClean, ReadBlk
  <2>2. Older(Target)
    BY <1>a DEF JournalInv, Online, Committed, SpareSlot, CommitProgress, Newer, TypeOK
  <2>a. acked.gen # 0 => Len(acked.data) \in 1..MaxSectors
    BY PayloadFacts DEF JournalInv, SnapshotsWellFormed
  <2>b. SlotClean(active)'
    BY <1>0, FlushFacts DEF SlotClean, BlocksClean
  <2>c. hdr'[active] = hdr[active]
    BY <1>0, <1>b
  <2>3. CommittedSlot(active)'
    BY <1>0, <2>a, <2>b, <2>c, <2>1, SizeAssumption
       DEF JournalInv, Online, Committed, CommittedSlot, Holds
  <2>4. SpareSlot(Target)'
    BY <1>0, <1>b, <2>2, FlushFacts DEF SpareSlot, Older
  <2> QED
    BY <2>3, <2>4 DEF JournalInv, Online, Committed
<1>4. CommitProgress'
  <2>1. Target \in Slots /\ Target' = Target
    BY <1>0
  <2>a. \A i \in 1..Len(next) : ReadBlk(Target, i) = next[i]
    BY DEF JournalInv, CommitProgress, Staged
  <2>b. \A i \in 1..Len(next) : i \in 1..MaxSectors
    BY <1>0, SizeAssumption
  <2>2. \A i \in 1..Len(next) : blk'[Target][i] = next[i] /\ blkCache'[Target][i] = Clean
    BY <1>0, <2>1, <2>a, <2>b, FlushFacts
  <2>3. Staged(Len(next))' /\ BlocksClean(Target)' /\ hdrCache'[Target] = Clean
    BY <1>0, <2>1, <2>2, FlushFacts DEF Staged, ReadBlk, BlocksClean
  <2> QED
    BY <1>0, <1>b, <2>1, <2>3 DEF JournalInv, CommitProgress
<1> QED
  BY <1>1, <1>2, <1>3, <1>4 DEF JournalInv

(* A damaged store keeps every fact recovery needs.                        *)
LEMMA FailedFlushPreserves ==
    JournalInv /\ (FlushPayloadFails \/ FlushHeaderFails) => JournalInv'
<1> SUFFICES ASSUME JournalInv, FlushPayloadFails \/ FlushHeaderFails
             PROVE  JournalInv'
  OBVIOUS
<1> USE DEF FlushPayloadFails, FlushHeaderFails, RecordIoDamage, device
<1>1. TypeOK'
  BY DEF JournalInv, TypeOK
<1>2. HeadersOwnSlot' /\ SnapshotsWellFormed'
  BY DEF JournalInv, HeadersOwnSlot, SnapshotsWellFormed, Newer
<1>3. Online'
  BY DEF JournalInv, Online, Committed, CommittedSlot, SpareSlot,
     SlotClean, BlocksClean, Older, Holds, Newer
<1>4. CommitProgress'
  BY DEF CommitProgress
<1> QED
  BY <1>1, <1>2, <1>3, <1>4 DEF JournalInv

(* Refusing a commit at the last generation leaves the store as it was.    *)
LEMMA GenerationExhaustedPreserves == JournalInv /\ GenerationExhausted => JournalInv'
<1> SUFFICES ASSUME JournalInv, GenerationExhausted PROVE JournalInv'
  OBVIOUS
<1> USE DEF GenerationExhausted, memory, device
<1>1. TypeOK'
  BY DEF JournalInv, TypeOK
<1>2. HeadersOwnSlot' /\ SnapshotsWellFormed'
  BY DEF JournalInv, HeadersOwnSlot, SnapshotsWellFormed, Newer
<1>3. Online'
  BY DEF JournalInv, Online, Committed, CommittedSlot, SpareSlot,
     SlotClean, BlocksClean, Older, Holds, Newer
<1>4. CommitProgress'
  BY DEF JournalInv, TypeOK, CommitProgress, Online, Committed, CommittedSlot,
     SlotClean, BlocksClean
<1> QED
  BY <1>1, <1>2, <1>3, <1>4 DEF JournalInv
(* Once the payload flush has returned, the target slot's payload area on  *)
(* the media is the snapshot being committed.                              *)
LEMMA StagedOnMedia ==
    ASSUME JournalInv, pc \in {"header", "commit"}
    PROVE  /\ next \in Payloads /\ Len(next) \in 1..MaxSectors
           /\ BlocksClean(Target) /\ hdrCache[Target] = Clean
           /\ \A i \in 1..Len(next) : blk[Target][i] = next[i]
<1>1. /\ next \in Payloads /\ Len(next) \in 1..MaxSectors
      /\ BlocksClean(Target) /\ hdrCache[Target] = Clean
  BY PayloadFacts DEF JournalInv, CommitProgress
<1>2. \A i \in 1..Len(next) : ReadBlk(Target, i) = next[i]
  BY DEF JournalInv, CommitProgress, Staged
<1>3. \A i \in 1..Len(next) : i \in 1..MaxSectors
  BY <1>1, SizeAssumption
<1> QED
  BY <1>1, <1>2, <1>3 DEF BlocksClean, ReadBlk

(* The header written for a commit is well-formed and one generation newer.*)
LEMMA NewHeaderFacts ==
    ASSUME JournalInv, pc \in {"header", "commit"}, NextGeneration # 0
    PROVE  /\ NewHeader \in Header
           /\ NewHeader.generation = acked.gen + 1
           /\ NextGeneration = acked.gen + 1 /\ NextGeneration \in 1..GenLimit
           /\ [gen |-> NextGeneration, data |-> next]
                 \in [gen: 0..GenLimit, data: Payloads \cup {<<>>}]
<1>1. generation \in 0..GenLimit /\ active \in Slots /\ generation = acked.gen
  BY DEF JournalInv, TypeOK, Online
<1>2. NextGeneration = acked.gen + 1 /\ NextGeneration \in 1..GenLimit
  BY <1>1, SizeAssumption DEF NextGeneration
<1> QED
  BY <1>1, <1>2, StagedOnMedia DEF NewHeader, Header

(* The header write publishes a payload that is already on the media.      *)
LEMMA WriteHeaderPreserves == JournalInv /\ WriteHeader => JournalInv'
<1> SUFFICES ASSUME JournalInv, WriteHeader PROVE JournalInv'
  OBVIOUS
<1> USE DEF WriteHeader, memory
<1>0. TypeOK /\ active \in Slots /\ acked.gen \in Nat
  BY SizeAssumption DEF JournalInv, TypeOK
<1>a. /\ hdr'[Target] = NewHeader /\ hdr'[active] = hdr[active]
      /\ hdrCache'[Target] = Clean /\ hdrCache'[active] = hdrCache[active]
  BY <1>0 DEF TypeOK
<1>1. TypeOK'
  BY <1>0, NewHeaderFacts DEF TypeOK, HeaderBlock
<1>2. HeadersOwnSlot'
  BY <1>0, <1>a DEF JournalInv, HeadersOwnSlot, NewHeader
<1>3. SnapshotsWellFormed' /\ Newer'
  BY NewHeaderFacts, StagedOnMedia DEF JournalInv, SnapshotsWellFormed, Newer
<1>4. Online'
  <2>1. CommittedSlot(active)'
    BY <1>a DEF JournalInv, Online, Committed, CommittedSlot, SlotClean,
       BlocksClean, Holds
  <2>2. Holds(Target, attempt)' /\ BlocksClean(Target)'
    BY <1>a, NewHeaderFacts, StagedOnMedia DEF Holds, BlocksClean, NewHeader
  <2>3. SpareSlot(Target)'
    BY <1>a, <1>3, <2>2 DEF SpareSlot
  <2> QED
    BY <2>1, <2>3 DEF JournalInv, Online, Committed
<1>5. CommitProgress'
  BY <1>a, StagedOnMedia DEF JournalInv, CommitProgress, Staged, ReadBlk, BlocksClean,
     NewHeader, NextGeneration
<1> QED
  BY <1>1, <1>2, <1>3, <1>4, <1>5 DEF JournalInv

(* A failed header write may or may not have published the payload.        *)
LEMMA WriteHeaderFailsPreserves == JournalInv /\ WriteHeaderFails => JournalInv'
<1> SUFFICES ASSUME JournalInv, WriteHeaderFails PROVE JournalInv'
  OBVIOUS
<1> USE DEF WriteHeaderFails, RecordIoDamage
<1>0. TypeOK /\ active \in Slots /\ acked.gen \in Nat
  BY SizeAssumption DEF JournalInv, TypeOK
<1>a. /\ hdr'[Target] \in {hdr[Target], NewHeader, Torn}
      /\ hdrCache'[Target] \in {Clean, NewHeader}
      /\ hdr'[active] = hdr[active] /\ hdrCache'[active] = hdrCache[active]
  BY <1>0, StagedOnMedia DEF TypeOK
<1>1. TypeOK'
  BY <1>0, NewHeaderFacts DEF TypeOK, HeaderBlock
<1>2. HeadersOwnSlot'
  BY <1>0, <1>a, MarksAssumption DEF JournalInv, HeadersOwnSlot, NewHeader
<1>3. SnapshotsWellFormed' /\ Newer'
  BY NewHeaderFacts, StagedOnMedia DEF JournalInv, SnapshotsWellFormed, Newer
<1>4. Online'
  <2>1. CommittedSlot(active)'
    BY <1>a DEF JournalInv, Online, Committed, CommittedSlot, SlotClean,
       BlocksClean, Holds
  <2>2. hdr'[Target] = NewHeader => Holds(Target, attempt)'
    BY NewHeaderFacts, StagedOnMedia DEF Holds, NewHeader
  <2>3. hdr'[Target] # NewHeader => Older(Target)'
    BY <1>a, MarksAssumption DEF JournalInv, Online, Committed, SpareSlot, Older,
       CommitProgress, Newer, TypeOK
  <2>4. SpareSlot(Target)'
    BY <1>a, <1>3, <2>2, <2>3, StagedOnMedia DEF SpareSlot, NewHeader, BlocksClean
  <2> QED
    BY <2>1, <2>4 DEF JournalInv, Online, Committed
<1>5. CommitProgress'
  BY DEF CommitProgress
<1> QED
  BY <1>1, <1>2, <1>3, <1>4, <1>5 DEF JournalInv

(* The last flush acknowledges the attempt and moves the active slot.      *)
LEMMA FlushHeaderPreserves == JournalInv /\ FlushHeader => JournalInv'
<1> SUFFICES ASSUME JournalInv, FlushHeader PROVE JournalInv'
  OBVIOUS
<1> USE DEF FlushHeader
<1>0. TypeOK /\ FlushDevice /\ active \in Slots /\ NextGeneration # 0
  BY DEF JournalInv, TypeOK, CommitProgress
<1>a. SlotClean(active) /\ SlotClean(Target)
  BY StagedOnMedia DEF JournalInv, Online, Committed, CommittedSlot, SlotClean
<1>b. \A s \in Slots : hdr'[s] = hdr[s] /\ hdrCache'[s] = Clean
  BY <1>0, <1>a, FlushFacts DEF ReadHdr, SlotClean
<1>c. \A s \in Slots, i \in 1..MaxSectors :
         blk'[s][i] = blk[s][i] /\ blkCache'[s][i] = Clean
  BY <1>0, <1>a, FlushFacts DEF ReadBlk, SlotClean, BlocksClean
<1>d. /\ attempt = [gen |-> NextGeneration, data |-> next]
      /\ hdr[Target] = NewHeader /\ acked' = attempt
  BY DEF JournalInv, CommitProgress
<1>e. PICK t \in Slots : t = Target
  BY <1>0
<1>f. PICK u \in Slots : u = active
  BY <1>0
<1>1. TypeOK'
  BY <1>0, FlushFacts, NewHeaderFacts, StagedOnMedia DEF TypeOK
<1>2. HeadersOwnSlot'
  BY <1>b DEF JournalInv, HeadersOwnSlot
<1>3. SnapshotsWellFormed'
  BY <1>0, <1>d, NewHeaderFacts, StagedOnMedia DEF SnapshotsWellFormed
<1>4. Online'
  <2>1. Len(next) \in 1..MaxSectors /\ \A i \in 1..Len(next) : i \in 1..MaxSectors
    BY StagedOnMedia, SizeAssumption
  <2>2. Holds(t, attempt)'
    BY <1>0, <1>b, <1>c, <1>d, <1>e, <2>1, StagedOnMedia, NewHeaderFacts
       DEF Holds, NewHeader
  <2>3. \A s \in Slots : SlotClean(s)'
    BY <1>b, <1>c DEF SlotClean, BlocksClean
  <2>4. CommittedSlot(t)'
    BY <1>0, <1>d, <2>2, <2>3, NewHeaderFacts DEF CommittedSlot, Holds
  <2>5. hdr[active] \in Header => hdr[active].generation = acked.gen
    BY MarksAssumption DEF JournalInv, Online, Committed, CommittedSlot, Holds
  <2>6. SpareSlot(u)'
    BY <1>0, <1>b, <1>d, <1>f, <2>5, NewHeaderFacts DEF SpareSlot, Older, JournalInv, TypeOK
  <2> QED
    BY <1>0, <1>d, <1>e, <1>f, <2>4, <2>6 DEF Online, Committed
<1>5. CommitProgress'
  BY <1>b, <1>c, <1>d, NewHeaderFacts DEF CommitProgress, SlotClean, BlocksClean,
     JournalInv, TypeOK
<1> QED
  BY <1>1, <1>2, <1>3, <1>4, <1>5 DEF JournalInv

(* Writing a cached header back loses nothing.                             *)
LEMMA DestageHeaderPreserves ==
    ASSUME JournalInv, NEW s \in Slots, DestageHeader(s)
    PROVE  JournalInv'
<1> USE DEF DestageHeader, memory
<1>0. TypeOK /\ active \in Slots
  BY DEF JournalInv, TypeOK
<1>1. pc = "idle" /\ s = Target
  BY <1>0 DEF JournalInv, Offline, Online, Committed, CommittedSlot, SlotClean,
     CommitProgress, TypeOK
<1>2. /\ Newer /\ BlocksClean(s)
      /\ hdrCache[s] = [slot |-> s, generation |-> attempt.gen,
                        length |-> Len(attempt.data), crc |-> attempt.data]
      /\ \A i \in 1..Len(attempt.data) : blk[s][i] = attempt.data[i]
  BY <1>1 DEF JournalInv, Online, Committed, SpareSlot
<1>3. hdrCache[s] \in Header
  BY <1>0, <1>2, PayloadFacts, SizeAssumption DEF TypeOK, Header, Newer
<1>4. /\ hdr'[s] = hdrCache[s] /\ hdrCache'[s] = Clean
      /\ hdr'[active] = hdr[active] /\ hdrCache'[active] = hdrCache[active]
  BY <1>0, <1>1 DEF TypeOK
<1>5. TypeOK'
  BY <1>0, <1>3 DEF TypeOK, HeaderBlock
<1>6. HeadersOwnSlot' /\ SnapshotsWellFormed'
  BY <1>0, <1>1, <1>2, <1>4 DEF JournalInv, HeadersOwnSlot, SnapshotsWellFormed, Newer
<1>7. Online'
  <2>1. CommittedSlot(active)'
    BY <1>1, <1>4 DEF JournalInv, Online, Committed, CommittedSlot, SlotClean,
       BlocksClean, Holds
  <2>2. SpareSlot(s)'
    BY <1>2, <1>3, <1>4 DEF SpareSlot, Newer, Holds, BlocksClean
  <2> QED
    BY <1>1, <2>1, <2>2 DEF JournalInv, Online, Committed
<1>8. CommitProgress'
  BY <1>1 DEF JournalInv, CommitProgress, SlotClean
<1> QED
  BY <1>1, <1>5, <1>6, <1>7, <1>8 DEF JournalInv

(* Writing a cached payload sector back loses nothing.                     *)
LEMMA DestageBlockPreserves ==
    ASSUME JournalInv, NEW s \in Slots, NEW i \in 1..MaxSectors, DestageBlock(s, i)
    PROVE  JournalInv'
<1>0. TypeOK /\ active \in Slots /\ blkCache[s][i] \in DataBlock
  <2>1. TypeOK
    BY DEF JournalInv
  <2>2. active \in Slots /\ blkCache[s] \in [1..MaxSectors -> DataBlock \cup {Clean}]
    BY <2>1 DEF TypeOK
  <2>3. blkCache[s][i] \in DataBlock \cup {Clean} /\ blkCache[s][i] # Clean
    BY <2>2 DEF DestageBlock
  <2> QED
    BY <2>1, <2>2, <2>3
<1> USE DEF DestageBlock, memory
<1>1. pc \notin {"down", "refused", "header", "commit"} /\ s = Target /\ ~BlocksClean(s)
  BY <1>0 DEF JournalInv, Offline, Online, Committed, CommittedSlot, SlotClean,
     BlocksClean, CommitProgress, TypeOK
<1>2. /\ \A j \in 1..MaxSectors : /\ blk'[active][j] = blk[active][j]
                                 /\ blkCache'[active][j] = blkCache[active][j]
      /\ \A j \in 1..MaxSectors : ReadBlk(s, j)' = ReadBlk(s, j)
  BY <1>0, <1>1, MarksAssumption DEF TypeOK, ReadBlk, DataBlock
<1>5. TypeOK'
  BY <1>0 DEF TypeOK
<1>6. HeadersOwnSlot' /\ SnapshotsWellFormed'
  BY DEF JournalInv, HeadersOwnSlot, SnapshotsWellFormed, Newer
<1>7. Online'
  <2>a. acked.gen # 0 => \A j \in 1..Len(acked.data) : j \in 1..MaxSectors
    BY PayloadFacts, SizeAssumption DEF JournalInv, SnapshotsWellFormed
  <2>1. CommittedSlot(active)'
    BY <1>1, <1>2, <2>a DEF JournalInv, Online, Committed, CommittedSlot, SlotClean,
       BlocksClean, Holds
  <2>2. SpareSlot(s)'
    BY <1>1 DEF JournalInv, Online, Committed, SpareSlot, Older
  <2> QED
    BY <1>1, <2>1, <2>2 DEF JournalInv, Online, Committed
<1>8. CommitProgress'
  <2>1. pc = "idle" => damaged
    BY <1>1 DEF JournalInv, CommitProgress, SlotClean
  <2>2. pc \in {"payload", "flush"} => next \in Payloads /\ Len(next) \in 1..MaxSectors
    BY PayloadFacts DEF JournalInv, CommitProgress
  <2>3. pc = "payload" => Staged(index - 1)'
    BY <1>1, <1>2, <2>2, SizeAssumption DEF JournalInv, CommitProgress, Staged
  <2>4. pc = "flush" => Staged(Len(next))'
    BY <1>1, <1>2, <2>2, SizeAssumption DEF JournalInv, CommitProgress, Staged
  <2> QED
    BY <1>1, <2>1, <2>3, <2>4 DEF JournalInv, CommitProgress
<1> QED
  BY <1>1, <1>5, <1>6, <1>7, <1>8 DEF JournalInv

(* Losing the cache and tearing what was in flight spares the committed    *)
(* slot, and can only turn the other one older or unreadable.              *)
LEMMA CrashKeepsCommitted ==
    ASSUME JournalInv, Crash, NEW s \in Slots, Committed(s),
           pc = "header" => s = active
    PROVE  Committed(s)'
<1> USE DEF Crash
<1>0. TypeOK /\ active \in Slots
  BY DEF JournalInv, TypeOK
<1>1. s \notin HeadersInFlight /\ \A i \in 1..MaxSectors : <<s, i>> \notin BlocksInFlight
  BY <1>0 DEF Committed, CommittedSlot, SlotClean, BlocksClean, HeadersInFlight,
     BlocksInFlight
<1>2. hdr'[s] = hdr[s] /\ \A i \in 1..MaxSectors : blk'[s][i] = blk[s][i]
  BY <1>1
<1>3. \A x \in Slots : SlotClean(x)'
  BY DEF SlotClean, BlocksClean
<1>4. acked.gen # 0 => \A j \in 1..Len(acked.data) : j \in 1..MaxSectors
  BY PayloadFacts, SizeAssumption DEF JournalInv, SnapshotsWellFormed
<1>5. CommittedSlot(s)'
  BY <1>2, <1>3, <1>4 DEF Committed, CommittedSlot, Holds
<1>6. PICK t \in Slots : t = Other(s)
  OBVIOUS
<1>7. hdr'[t] \in {hdr[t], Torn}
  OBVIOUS
<1>8. CASE Older(t)
  BY <1>3, <1>6, <1>7, <1>8, MarksAssumption, <1>5
     DEF Older, SpareSlot, SlotClean, Committed
<1>9. CASE Newer /\ Holds(t, attempt) /\ BlocksClean(t)
  <2>1. \A i \in 1..MaxSectors : <<t, i>> \notin BlocksInFlight
    BY <1>9 DEF BlocksClean, BlocksInFlight
  <2>2. \A i \in 1..MaxSectors : blk'[t][i] = blk[t][i]
    BY <2>1
  <2>3. \A j \in 1..Len(attempt.data) : j \in 1..MaxSectors
    BY <1>9, PayloadFacts, SizeAssumption DEF Newer
  <2>4. SpareSlot(t)'
    BY <1>3, <1>7, <1>9, <2>2, <2>3, MarksAssumption
       DEF SpareSlot, Older, Newer, Holds, SlotClean
  <2> QED
    BY <1>5, <1>6, <2>4 DEF Committed
<1> QED
  BY <1>6, <1>8, <1>9 DEF Committed, SpareSlot

(* After a crash the media holds what the offline invariant promises.      *)
LEMMA CrashPreserves == JournalInv /\ Crash => JournalInv'
<1> SUFFICES ASSUME JournalInv, Crash PROVE JournalInv'
  OBVIOUS
<1>0. TypeOK /\ active \in Slots
  BY DEF JournalInv, TypeOK
<1>a. hdr' \in [Slots -> HeaderBlock] /\ \A s \in Slots : hdr'[s] \in {hdr[s], Torn}
  BY <1>0 DEF Crash, TypeOK, HeaderBlock
<1>c. blk' \in [Slots -> [1..MaxSectors -> DataBlock]]
  <2>1. PICK torn : blk' = [s \in Slots |-> [i \in 1..MaxSectors |->
                              IF <<s, i>> \in torn THEN Torn ELSE blk[s][i]]]
    BY DEF Crash
  <2>2. \A s \in Slots, i \in 1..MaxSectors :
           (IF <<s, i>> \in torn THEN Torn ELSE blk[s][i]) \in DataBlock
    BY <1>0 DEF TypeOK, DataBlock
  <2> QED
    BY <2>1, <2>2
<1>d. generation' \in 0..GenLimit /\ active' \in Slots /\ index' \in 1..(MaxSectors + 1)
  BY SizeAssumption DEF Crash
<1>b. /\ hdrCache' \in [Slots -> HeaderBlock \cup {Clean}]
      /\ blkCache' \in [Slots -> [1..MaxSectors -> DataBlock \cup {Clean}]]
  BY DEF Crash
<1>1. TypeOK'
  BY <1>0, <1>a, <1>b, <1>c, <1>d DEF Crash, TypeOK
<1>2. HeadersOwnSlot'
  BY <1>a, MarksAssumption DEF JournalInv, HeadersOwnSlot
<1>3. SnapshotsWellFormed'
  BY DEF JournalInv, SnapshotsWellFormed, Newer, Crash
<1>4. \A s \in Slots : SlotClean(s)'
  BY DEF Crash, SlotClean, BlocksClean
<1>5. \E s \in Slots : Committed(s)'
  <2>1. PICK s \in Slots : Committed(s) /\ (pc = "header" => s = active)
    BY <1>0 DEF JournalInv, Offline, Online
  <2> QED
    BY <2>1, CrashKeepsCommitted
<1>6. Offline'
  BY <1>4, <1>5 DEF Offline, Crash
<1>7. CommitProgress'
  BY DEF CommitProgress, Crash
<1> QED
  BY <1>1, <1>2, <1>3, <1>6, <1>7 DEF JournalInv, Crash
(* With empty caches a valid candidate's payload area is its header's      *)
(* checksummed snapshot, sector for sector.                                *)
LEMMA ValidPayload ==
    ASSUME JournalInv, NEW s \in Slots, SlotClean(s), CandidateValid(s)
    PROVE  /\ ReadHdr(s) = hdr[s] /\ hdr[s] \in Header
           /\ hdr[s].crc \in Payloads /\ hdr[s].generation \in 1..GenLimit
           /\ [i \in 1..hdr[s].length |-> ReadBlk(s, i)] = hdr[s].crc
<1>1. ReadHdr(s) = hdr[s] /\ hdr[s] \in Header
  BY DEF SlotClean, ReadHdr, CandidateValid, HeaderValid
<1>2. /\ hdr[s].crc \in Payloads /\ hdr[s].generation \in 1..GenLimit
      /\ hdr[s].length = Len(hdr[s].crc)
  BY <1>1 DEF Header, JournalInv, HeadersOwnSlot
<1>3. \A i \in 1..hdr[s].length : ReadBlk(s, i) = hdr[s].crc[i]
  BY <1>1 DEF CandidateValid
<1>4. hdr[s].crc \in Seq(Sector)
  BY <1>2, PayloadFacts
<1>5. hdr[s].crc = [i \in 1..Len(hdr[s].crc) |-> hdr[s].crc[i]]
  BY <1>4
<1> QED
  BY <1>1, <1>2, <1>3, <1>5

(* A slot that holds a snapshot on the media, nothing cached over it, is a *)
(* valid candidate.                                                        *)
LEMMA HeldIsValid ==
    ASSUME JournalInv, NEW s \in Slots, SlotClean(s), NEW snap, Holds(s, snap),
           snap.data \in Payloads
    PROVE  CandidateValid(s)
<1>1. ReadHdr(s) = hdr[s] /\ hdr[s] \in Header /\ hdr[s].slot = s
  BY DEF SlotClean, ReadHdr, Holds, JournalInv, HeadersOwnSlot
<1>2. hdr[s].length = Len(snap.data) /\ hdr[s].crc = snap.data
  BY <1>1 DEF Holds, JournalInv, HeadersOwnSlot
<1>3. \A i \in 1..Len(snap.data) : i \in 1..MaxSectors
  BY PayloadFacts, SizeAssumption
<1>4. \A i \in 1..Len(snap.data) : ReadBlk(s, i) = snap.data[i]
  BY <1>3 DEF ReadBlk, SlotClean, BlocksClean, Holds
<1> QED
  BY <1>1, <1>2, <1>4 DEF CandidateValid, HeaderValid

(* mount() selects the acknowledged snapshot or the published attempt, and *)
(* never goes back to an older generation.                                 *)
LEMMA MountSelects ==
    ASSUME JournalInv, MountSelected
    PROVE  /\ acked' \in {acked, attempt} /\ acked'.data \in Payloads
           /\ acked'.gen \in 1..GenLimit /\ acked'.gen >= acked.gen
           /\ Committed(active)' /\ active' \in Slots
           /\ generation' = acked'.gen /\ payload' = acked'.data /\ attempt' = acked'
<1>u. pc = "down" /\ UNCHANGED <<hdr, blk, hdrCache, blkCache>>
  BY DEF MountSelected, device
<1>0. TypeOK /\ acked.gen \in 0..GenLimit /\ attempt.gen \in 0..GenLimit
      /\ (\A s \in Slots : SlotClean(s)) /\ SnapshotsWellFormed
  BY <1>u DEF JournalInv, TypeOK, Offline
<1>1. PICK s \in Slots : Committed(s)
  BY <1>u DEF JournalInv, Offline
<1>2. PICK t \in Slots : t = Other(s)
  OBVIOUS
<1>3. PICK c \in Slots : c = SelectedSlot
  BY DEF SelectedSlot
<1>4. CandidateValid(c)
  BY <1>3 DEF MountSelected, SelectedSlot
<1>5. /\ active' = c /\ generation' = hdr[c].generation /\ payload' = hdr[c].crc
      /\ acked' = [gen |-> hdr[c].generation, data |-> hdr[c].crc] /\ attempt' = acked'
      /\ hdr[c] \in Header /\ hdr[c].crc \in Payloads /\ hdr[c].generation \in 1..GenLimit
  BY <1>0, <1>3, <1>4, ValidPayload DEF MountSelected
<1>6. Holds(c, acked)' /\ CommittedSlot(c)'
  <2>1. \A i \in 1..hdr[c].length : blk[c][i] = hdr[c].crc[i]
    <3>1. \A i \in 1..hdr[c].length : i \in 1..MaxSectors
      BY <1>5, SizeAssumption DEF Header
    <3>2. \A i \in 1..hdr[c].length : ReadBlk(c, i) = hdr[c].crc[i]
      BY <1>0, <1>4, ValidPayload DEF CandidateValid
    <3> QED
      BY <1>0, <3>1, <3>2 DEF SlotClean, BlocksClean, ReadBlk
  <2>2. hdr[c].length = Len(hdr[c].crc)
    BY <1>5 DEF JournalInv, HeadersOwnSlot
  <2>3. Holds(c, acked)'
    BY <1>u, <1>5, <2>1, <2>2 DEF Holds
  <2>4. SlotClean(c)'
    BY <1>u, <1>0 DEF SlotClean, BlocksClean
  <2>5. acked'.gen # 0
    BY <1>5, SizeAssumption
  <2> QED
    BY <2>3, <2>4, <2>5 DEF CommittedSlot
<1>7. CASE c = s
  <2>1. hdr[s] \in Header /\ acked.gen # 0 /\ Holds(s, acked)
    BY <1>1, <1>5, <1>7, MarksAssumption DEF Committed, CommittedSlot
  <2>2. acked' = acked
    BY <1>0, <1>5, <1>7, <2>1 DEF Holds, TypeOK
  <2>3. ~(Newer /\ Holds(t, attempt))
    <3> SUFFICES ASSUME Newer, Holds(t, attempt) PROVE FALSE
      OBVIOUS
    <3>1. CandidateValid(t) /\ hdr[t].generation = acked.gen + 1 /\ ReadHdr(t) = hdr[t]
      BY <1>0, HeldIsValid DEF Newer, Holds, SlotClean, ReadHdr
    <3>2. hdr[s].generation = acked.gen /\ ReadHdr(s) = hdr[s] /\ CandidateValid(s)
      BY <1>0, <1>4, <1>7, <2>1 DEF Holds, SlotClean, ReadHdr
    <3> QED
      BY <1>0, <1>2, <1>3, <1>7, <3>1, <3>2 DEF SelectedSlot
  <2>4. Older(t)
    BY <1>1, <1>2, <2>3 DEF Committed, SpareSlot
  <2>5. SpareSlot(t)'
    BY <1>u, <1>0, <2>2, <2>4 DEF SpareSlot, Older, SlotClean
  <2>6. Committed(active)'
    BY <1>2, <1>5, <1>6, <1>7, <2>5 DEF Committed
  <2> QED
    BY <1>0, <1>5, <2>2, <2>6, SizeAssumption
<1>8. CASE c = t
  <2>1. CASE Older(t)
    <3>1. acked.gen # 0 /\ Holds(s, acked) /\ acked.data \in Payloads
      BY <1>0, <1>1, <1>5, <1>8, <2>1
         DEF Older, Committed, CommittedSlot, SnapshotsWellFormed
    <3>2. CandidateValid(s) /\ ReadHdr(s).generation = acked.gen
      BY <1>0, <3>1, HeldIsValid DEF Holds, SlotClean, ReadHdr
    <3>3. ReadHdr(t).generation < acked.gen
      BY <1>0, <1>5, <1>8, <2>1 DEF Older, SlotClean, ReadHdr
    <3>4. ReadHdr(t).generation \in 1..GenLimit
      BY <1>0, <1>4, <1>5, <1>8, ValidPayload
    <3> QED
      BY <1>0, <1>2, <1>3, <1>4, <1>8, <3>2, <3>3, <3>4, SizeAssumption DEF SelectedSlot
  <2>2. CASE Newer /\ Holds(t, attempt)
    <3>1. acked' = attempt /\ acked'.gen = acked.gen + 1
      BY <1>0, <1>5, <1>8, <2>2 DEF Holds, Newer, TypeOK
    <3>2. hdr[s] \in Header => hdr[s].generation = acked.gen
      BY <1>1, MarksAssumption DEF Committed, CommittedSlot, Holds
    <3>3. SpareSlot(s)'
      BY <1>u, <1>0, <3>1, <3>2 DEF SpareSlot, Older, SlotClean
    <3>4. Committed(active)'
      BY <1>2, <1>5, <1>6, <1>8, <3>3 DEF Committed
    <3> QED
      BY <1>0, <1>5, <3>1, <3>4, SizeAssumption
  <2> QED
    BY <1>1, <1>2, <2>1, <2>2 DEF Committed, SpareSlot
<1> QED
  BY <1>2, <1>7, <1>8

(* Every outcome of mount() preserves the invariant.                       *)
LEMMA MountPreserves == JournalInv /\ Mount => JournalInv'
<1> SUFFICES ASSUME JournalInv, Mount PROVE JournalInv'
  OBVIOUS
<1>1. CASE MountSelected
  <2> USE <1>1 DEF MountSelected, device
  <2>1. TypeOK'
    BY MountSelects DEF JournalInv, TypeOK
  <2>2. HeadersOwnSlot' /\ SnapshotsWellFormed'
    BY MountSelects DEF JournalInv, HeadersOwnSlot, SnapshotsWellFormed
  <2>3. Online'
    BY MountSelects DEF Online
  <2>4. \A s \in Slots : SlotClean(s)'
    BY DEF JournalInv, Offline, SlotClean, BlocksClean
  <2>5. CommitProgress'
    BY <2>4, MountSelects DEF JournalInv, CommitProgress
  <2> QED
    BY <2>1, <2>2, <2>3, <2>5 DEF JournalInv
<1>2. CASE MountEmpty
  <2> USE <1>2 DEF MountEmpty, memory, device
  <2>0. (\A s \in Slots : SlotClean(s) /\ hdr[s] = Zero) /\ active = 1 /\ generation = 0
        /\ payload = <<>> /\ ~damaged
    BY DEF JournalInv, Offline, ReadHdr, SlotClean
  <2>a. acked = NoSnapshot
    BY <2>0, MarksAssumption DEF JournalInv, Offline, Committed, CommittedSlot, Holds,
       SnapshotsWellFormed
  <2>1. TypeOK'
    BY <2>a DEF JournalInv, TypeOK
  <2>2. HeadersOwnSlot' /\ SnapshotsWellFormed'
    BY DEF JournalInv, HeadersOwnSlot, SnapshotsWellFormed, NoSnapshot
  <2>3. Online' /\ CommitProgress'
    BY <2>0, MarksAssumption DEF Online, Committed, CommittedSlot, SpareSlot, SlotClean,
       BlocksClean, Older, CommitProgress, NoSnapshot
  <2> QED
    BY <2>1, <2>2, <2>3 DEF JournalInv
<1>3. CASE MountCorrupt \/ MountUnreadable
  <2> USE <1>3 DEF MountCorrupt, MountUnreadable, memory, device
  <2>1. TypeOK' /\ HeadersOwnSlot' /\ SnapshotsWellFormed'
    BY DEF JournalInv, TypeOK, HeadersOwnSlot, SnapshotsWellFormed, Newer
  <2>2. Offline'
    BY DEF JournalInv, Offline, Committed, CommittedSlot, SpareSlot, SlotClean,
       BlocksClean, Older, Newer, Holds
  <2>3. CommitProgress'
    BY DEF CommitProgress
  <2> QED
    BY <2>1, <2>2, <2>3 DEF JournalInv
<1> QED
  BY <1>1, <1>2, <1>3 DEF Mount

(* The invariant is a state predicate of vars.                             *)
LEMMA StutterPreserves == JournalInv /\ UNCHANGED vars => JournalInv'
<1> SUFFICES ASSUME JournalInv, UNCHANGED vars PROVE JournalInv'
  OBVIOUS
<1> USE DEF vars, device, memory
<1>1. TypeOK' /\ HeadersOwnSlot' /\ SnapshotsWellFormed'
  BY DEF JournalInv, TypeOK, HeadersOwnSlot, SnapshotsWellFormed, Newer
<1>2. IF pc' \in {"down", "refused"} THEN Offline' ELSE Online'
  BY DEF JournalInv, Offline, Online, Committed, CommittedSlot, SpareSlot, SlotClean,
     BlocksClean, Older, Newer, Holds
<1>3. CommitProgress'
  BY DEF JournalInv, CommitProgress, Staged, ReadBlk, SlotClean, BlocksClean,
     NewHeader, NextGeneration
<1> QED
  BY <1>1, <1>2, <1>3 DEF JournalInv

(* The invariant is inductive: one case per action of Next.                *)
LEMMA NextPreserves == JournalInv /\ [Next]_vars => JournalInv'
  BY BeginCommitPreserves, WritePayloadPreserves, WritePayloadFailsPreserves,
     FlushPayloadPreserves, FailedFlushPreserves, GenerationExhaustedPreserves,
     WriteHeaderPreserves, WriteHeaderFailsPreserves, FlushHeaderPreserves,
     DestageHeaderPreserves, DestageBlockPreserves, CrashPreserves, MountPreserves,
     StutterPreserves DEF Next, CommitStep, Destage

(* The inductive invariant holds in every reachable state of the journal.  *)
THEOREM JournalInvariant == Spec => []JournalInv
  BY InitEstablishes, NextPreserves, PTL DEF Spec

(* Type correctness of the journal's state.                                *)
THEOREM TypeCorrect == Spec => []TypeOK
  BY JournalInvariant, PTL DEF JournalInv
(* In every invariant state some slot holds the committed snapshot.        *)
LEMMA SomeCommitted == JournalInv => \E s \in Slots : Committed(s)
  BY DEF JournalInv, Offline, Online, TypeOK

(* A snapshot held on the media is a valid candidate after a crash.        *)
LEMMA HeldIsMediaValid ==
    ASSUME JournalInv, NEW s \in Slots, NEW snap, Holds(s, snap)
    PROVE  MediaValid(s) /\ hdr[s].generation = snap.gen /\ hdr[s].crc = snap.data
  BY DEF Holds, MediaValid, JournalInv, HeadersOwnSlot

(* At every instant a crash would leave the acknowledged snapshot or the   *)
(* published attempt as the newest valid slot of the media.                *)
THEOREM CrashRecovers == Spec => []CrashRecoversCommitted
<1>1. JournalInv => CrashRecoversCommitted
  <2> SUFFICES ASSUME JournalInv PROVE CrashRecoversCommitted
    OBVIOUS
  <2>0. /\ acked \in [gen: 0..GenLimit, data: Payloads \cup {<<>>}]
        /\ attempt \in [gen: 0..GenLimit, data: Payloads \cup {<<>>}]
    BY DEF JournalInv, TypeOK
  <2>1. PICK s \in Slots : Committed(s)
    BY SomeCommitted
  <2>2. PICK t \in Slots : t = Other(s)
    OBVIOUS
  <2>3. acked.gen = 0 => hdr[s] \notin Header
    BY <2>1, MarksAssumption DEF Committed, CommittedSlot
  <2>4. acked.gen # 0 => MediaValid(s) /\ MediaSnapshot(s) = acked
    BY <2>0, <2>1, HeldIsMediaValid DEF Committed, CommittedSlot, MediaSnapshot
  <2>5. Older(t) \/ (MediaValid(t) /\ MediaSnapshot(t) = attempt)
    BY <2>0, <2>1, <2>2, HeldIsMediaValid DEF Committed, SpareSlot, MediaSnapshot
  <2>6. \A x \in Slots : x = s \/ x = t
    BY <2>2
  <2>7. ASSUME NEW x \in Slots, MediaValid(x)
        PROVE  MediaSnapshot(x) \in {acked, attempt} \/ hdr[x].generation < acked.gen
    BY <2>3, <2>4, <2>5, <2>6, <2>7 DEF MediaValid, Older
  <2>8. acked.gen > 0 => \E x \in Slots : MediaValid(x) /\ MediaSnapshot(x) \in {acked, attempt}
    BY <2>0, <2>4
  <2> QED
    BY <2>7, <2>8 DEF CrashRecoversCommitted
<1> QED
  BY <1>1, JournalInvariant, PTL

(* The two slots never carry the same generation.                          *)
THEOREM GenerationsDiffer == Spec => []DistinctGenerations
<1>1. JournalInv => DistinctGenerations
  <2> SUFFICES ASSUME JournalInv, hdr[0] \in Header, hdr[1] \in Header
               PROVE  hdr[0].generation # hdr[1].generation
    BY DEF DistinctGenerations
  <2>1. PICK s \in Slots : Committed(s)
    BY SomeCommitted
  <2>2. PICK t \in Slots : t = Other(s)
    OBVIOUS
  <2>3. hdr[s].generation = acked.gen /\ acked.gen \in Nat
    BY <2>1, MarksAssumption, SizeAssumption
       DEF Committed, CommittedSlot, Holds, JournalInv, TypeOK
  <2>4. hdr[t].generation < acked.gen \/ hdr[t].generation = acked.gen + 1
    BY <2>1, <2>2 DEF Committed, SpareSlot, Older, Newer, Holds
  <2>5. hdr[t].generation # hdr[s].generation
    BY <2>3, <2>4, SizeAssumption DEF Header
  <2> QED
    BY <2>2, <2>5
<1> QED
  BY <1>1, JournalInvariant, PTL

(* Store.check() passes between commits.                                   *)
THEOREM CheckAlwaysPasses == Spec => []CheckPasses
<1>1. JournalInv => CheckPasses
  <2> SUFFICES ASSUME JournalInv, pc = "idle", generation > 0 \/ ~damaged PROVE Check
    BY DEF CheckPasses
  <2>0. Online /\ active \in Slots /\ generation \in Nat /\ generation = acked.gen
    BY SizeAssumption DEF JournalInv, TypeOK, Online
  <2>1. CASE generation = 0
    BY <2>0, <2>1 DEF Check, JournalInv, Online, Committed, CommittedSlot, CommitProgress,
       SlotClean, ReadHdr
  <2>2. CASE generation # 0
    <3>1. Holds(active, acked) /\ SlotClean(active) /\ acked.data \in Payloads
      BY <2>0, <2>2 DEF Online, Committed, CommittedSlot, JournalInv, SnapshotsWellFormed
    <3>2. CandidateValid(active)
      BY <2>0, <3>1, HeldIsValid
    <3> QED
      BY <2>0, <2>2, <3>1, <3>2 DEF Check, Holds, SlotClean, ReadHdr
  <2> QED
    BY <2>1, <2>2
<1> QED
  BY <1>1, JournalInvariant, PTL
(* Flushing leaves a slot with nothing cached as it is.                    *)
LEMMA FlushSparesCleanSlot ==
    ASSUME TypeOK, FlushDevice, NEW s \in Slots, SlotClean(s)
    PROVE  SlotUntouched(s)
<1>1. hdr'[s] = hdr[s] /\ hdrCache'[s] = hdrCache[s]
  BY FlushFacts DEF SlotClean, ReadHdr
<1>2. \A i \in 1..MaxSectors : blk'[s][i] = blk[s][i] /\ blkCache'[s][i] = blkCache[s][i]
  BY FlushFacts DEF SlotClean, BlocksClean, ReadBlk
<1>3. /\ blk[s] \in [1..MaxSectors -> DataBlock] /\ blk'[s] \in [1..MaxSectors -> DataBlock]
      /\ blkCache[s] \in [1..MaxSectors -> DataBlock \cup {Clean}]
      /\ blkCache'[s] \in [1..MaxSectors -> DataBlock \cup {Clean}]
  BY FlushFacts DEF TypeOK
<1>4. blk'[s] = blk[s]
  <2>1. /\ blk[s] = [i \in 1..MaxSectors |-> blk[s][i]]
        /\ blk'[s] = [i \in 1..MaxSectors |-> blk'[s][i]]
    BY <1>3
  <2> QED
    BY <1>2, <2>1, Zenon
<1>5. blkCache'[s] = blkCache[s]
  <2>1. /\ blkCache[s] = [i \in 1..MaxSectors |-> blkCache[s][i]]
        /\ blkCache'[s] = [i \in 1..MaxSectors |-> blkCache'[s][i]]
    BY <1>3
  <2> QED
    BY <1>2, <2>1, Zenon
<1> QED
  BY <1>1, <1>4, <1>5 DEF SlotUntouched

(* No step between mount and crash touches the active slot.                *)
THEOREM ActiveSlotSafe == Spec => ActiveSlotUntouched
<1>1. JournalInv /\ [Next]_vars =>
         [pc # "down" /\ pc' # "down" => SlotUntouched(active)]_vars
  <2> SUFFICES ASSUME JournalInv, Next, pc # "down", pc' # "down"
               PROVE  SlotUntouched(active)
    OBVIOUS
  <2>0. TypeOK /\ active \in Slots
    BY DEF JournalInv, TypeOK
  <2>1. pc # "refused" => SlotClean(active)
    BY <2>0 DEF JournalInv, Online, Committed, CommittedSlot, TypeOK
  <2>a. UNCHANGED device => SlotUntouched(active)
    BY DEF device, SlotUntouched
  <2>2. CASE \E p \in Payloads : BeginCommit(p)
    BY <2>2, <2>a DEF BeginCommit
  <2>3. CASE CommitStep
    <3>1. CASE WritePayload \/ WritePayloadFails
      BY <2>0, <3>1 DEF WritePayload, WritePayloadFails, SlotUntouched, TypeOK
    <3>2. CASE FlushPayload \/ FlushHeader
      BY <2>0, <2>1, <3>2, FlushSparesCleanSlot DEF FlushPayload, FlushHeader
    <3>3. CASE WriteHeader \/ WriteHeaderFails
      BY <2>0, <3>3 DEF WriteHeader, WriteHeaderFails, SlotUntouched, TypeOK
    <3>4. CASE FlushPayloadFails \/ FlushHeaderFails \/ GenerationExhausted
      BY <2>a, <3>4 DEF FlushPayloadFails, FlushHeaderFails, GenerationExhausted
    <3> QED
      BY <2>3, <3>1, <3>2, <3>3, <3>4 DEF CommitStep
  <2>4. CASE Destage
    <3>1. ASSUME NEW s \in Slots, DestageHeader(s) PROVE SlotUntouched(active)
      BY <2>0, <2>1, <3>1 DEF DestageHeader, SlotUntouched, SlotClean, TypeOK,
         JournalInv, Offline
    <3>2. ASSUME NEW s \in Slots, NEW i \in 1..MaxSectors, DestageBlock(s, i)
          PROVE  SlotUntouched(active)
      <4>1. s # active
        BY <2>0, <2>1, <3>2 DEF DestageBlock, SlotClean, BlocksClean, JournalInv, Offline
      <4> QED
        BY <2>0, <3>2, <4>1 DEF DestageBlock, SlotUntouched, TypeOK
    <3> QED
      BY <2>4, <3>1, <3>2 DEF Destage
  <2>5. CASE Mount \/ Crash
    BY <2>5 DEF Mount, MountSelected, MountEmpty, MountCorrupt, MountUnreadable, Crash
  <2> QED
    BY <2>2, <2>3, <2>4, <2>5 DEF Next
<1> QED
  BY <1>1, JournalInvariant, PTL DEF Spec, ActiveSlotUntouched

-----------------------------------------------------------------------------
(* The journal implements DurableStore.                                    *)

(* The abstract status in each of the journal's control states.            *)
LEMMA StatusFacts ==
    ASSUME JournalInv
    PROVE  /\ pc \in {"down", "refused"} => ~damaged /\ Status = pc
           /\ pc = "idle" => Status = IF damaged THEN "damaged" ELSE "ready"
           /\ pc \in {"payload", "flush", "header"} => ~damaged /\ Status = "staging"
           /\ pc = "commit" => ~damaged /\ Status = "publishing"
  BY DEF JournalInv, Offline, CommitProgress, Status

(* Every step of the journal is a step of the abstract store or changes    *)
(* nothing it can see.                                                     *)
LEMMA StepImplements ==
    ASSUME JournalInv, JournalInv', Next
    PROVE  [Abstract!Next]_(Abstract!vars)
<1> USE DEF Abstract!Next, Abstract!vars
<1>0. /\ acked.gen \in 0..GenLimit /\ generation \in 0..GenLimit
      /\ (pc \notin {"down", "refused"} => generation = acked.gen)
  BY DEF JournalInv, TypeOK, Online
<1>a. /\ pc' \in {"down", "refused"} => Status' = pc'
      /\ pc' = "idle" => Status' = IF damaged' THEN "damaged" ELSE "ready"
      /\ pc' \in {"payload", "flush", "header"} => Status' = "staging"
      /\ pc' = "commit" => Status' = "publishing"
  BY DEF JournalInv, Offline, CommitProgress, Status
<1>1. CASE \E p \in Payloads : BeginCommit(p)
  BY <1>a, <1>1, StatusFacts DEF BeginCommit, memory, Abstract!Stage
<1>2. CASE WritePayload \/ FlushPayload
  BY <1>a, <1>2, StatusFacts DEF WritePayload, FlushPayload, memory
<1>3. CASE WritePayloadFails \/ FlushPayloadFails \/ FlushHeaderFails
  BY <1>a, <1>3, StatusFacts DEF WritePayloadFails, FlushPayloadFails, FlushHeaderFails,
     RecordIoDamage, Abstract!Fail
<1>4. CASE GenerationExhausted
  <2>1. acked.gen = GenLimit
    BY <1>0, <1>4, SizeAssumption DEF GenerationExhausted, NextGeneration
  <2> QED
    BY <1>a, <1>4, <2>1, StatusFacts
       DEF GenerationExhausted, memory, Abstract!RejectFull, JournalInv, CommitProgress
<1>5. CASE WriteHeader
  BY <1>0, <1>a, <1>5, StatusFacts, NewHeaderFacts, StagedOnMedia, SizeAssumption
     DEF WriteHeader, memory, Abstract!Publish
<1>6. CASE WriteHeaderFails
  BY <1>0, <1>a, <1>6, StatusFacts, NewHeaderFacts, StagedOnMedia, SizeAssumption
     DEF WriteHeaderFails, RecordIoDamage, Abstract!Publish
<1>7. CASE FlushHeader
  BY <1>a, <1>7, StatusFacts DEF FlushHeader, Abstract!Acknowledge
<1>8. CASE Crash
  BY <1>a, <1>8 DEF Crash, Abstract!Crash
<1>9. CASE MountSelected
  BY <1>a, <1>9, StatusFacts, MountSelects DEF MountSelected, Abstract!Recover
<1>10. CASE MountEmpty
  <2>1. acked = NoSnapshot
    BY <1>10, MarksAssumption DEF MountEmpty, JournalInv, Offline, Committed,
       CommittedSlot, Holds, SnapshotsWellFormed, ReadHdr, SlotClean
  <2> QED
    BY <1>a, <1>10, <2>1, StatusFacts DEF MountEmpty, memory, Abstract!Recover
<1>11. CASE MountCorrupt \/ MountUnreadable
  BY <1>a, <1>11, StatusFacts DEF MountCorrupt, MountUnreadable, Abstract!RefuseUnreadable
<1>12. CASE Destage
  <2>1. UNCHANGED <<pc, damaged, acked, attempt>>
    BY <1>12 DEF Destage, DestageHeader, DestageBlock, memory
  <2>2. Status' = Status
    BY <2>1 DEF Status
  <2> QED
    BY <2>1, <2>2
<1> QED
  BY <1>1, <1>2, <1>3, <1>4, <1>5, <1>6, <1>7, <1>8, <1>9, <1>10, <1>11, <1>12
     DEF Next, CommitStep, Mount

(* The A/B journal implements the abstract durable store: whatever crashes *)
(* and failures happen, a mount returns the acknowledged snapshot or the   *)
(* one being published, and a failed commit stops the writer.              *)
THEOREM Refinement == Spec => ImplementsDurableStore
<1>1. Init => Abstract!Init
  BY DEF Init, Abstract!Init, Status, NoSnapshot, Abstract!NoSnapshot
<1>2. JournalInv /\ JournalInv' /\ [Next]_vars => [Abstract!Next]_(Abstract!vars)
  <2>1. UNCHANGED vars => UNCHANGED Abstract!vars
    BY DEF vars, device, memory, Abstract!vars, Status
  <2> QED
    BY <2>1, StepImplements
<1> QED
  BY <1>1, <1>2, JournalInvariant, PTL DEF Spec, ImplementsDurableStore, Abstract!Spec
=============================================================================
