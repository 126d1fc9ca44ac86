------------------------ MODULE SynchronizationProofs ------------------------
(***************************************************************************)
(* Proofs about module Synchronization, for any set of workers no larger   *)
(* than the modulus, any number of iterations and any number of rounds.    *)
(***************************************************************************)
EXTENDS Synchronization, Sequences, FiniteSetTheorems, TLAPS

(* The constants as numbers.                                               *)
LEMMA ConstantFacts ==
    /\ Modulus \in Nat /\ Modulus >= 2
    /\ Participants \in Nat /\ Participants >= 2 /\ Participants <= Modulus
    /\ Iterations \in Nat /\ Iterations >= 1 /\ Rounds \in Nat
  BY WorkersAssumption, BoundsAssumption, FS_CardinalityType DEF Participants

(* The wrapping increment stays in the word and never stands still.        *)
LEMMA IncWord ==
    ASSUME NEW x \in Words
    PROVE  Inc(x) \in Words /\ Inc(x) # x
  BY ConstantFacts DEF Inc, Words

(* The pending workers are finitely many, at most all of them.             *)
LEMMA PendingFinite ==
    /\ IsFiniteSet(Pending)
    /\ Cardinality(Pending) \in Nat
    /\ Cardinality(Pending) <= Participants
  BY WorkersAssumption, FS_Subset, FS_CardinalityType DEF Pending, Participants

(* The same in the next state.                                             *)
LEMMA PendingFinitePrime ==
    /\ IsFiniteSet(Pending')
    /\ Cardinality(Pending') \in Nat
    /\ Cardinality(Pending') <= Participants
  BY WorkersAssumption, FS_Subset, FS_CardinalityType DEF Pending, Participants

-----------------------------------------------------------------------------
(* The ticket lock.                                                        *)

(* A step that leaves the lock, the tickets and the set of pending workers *)
(* alone, and lets nobody into the critical section, preserves LockInv.    *)
LEMMA LockFrame ==
    ASSUME LockInv, UNCHANGED <<lock, ticket>>,
           Pending' = Pending, Critical' \subseteq Critical
    PROVE  LockInv'
  BY DEF LockInv, TicketsExact, lock, Offset, Wrap

(* next is at the end of the window of pending tickets, so the new ticket  *)
(* is nobody's: this is where Participants <= Modulus is needed.           *)
LEMMA TakeTicketLock ==
    ASSUME TypeOK, LockInv, NEW w \in Workers, TakeTicket(w)
    PROVE  LockInv'
  <1> DEFINE n == Cardinality(Pending)
  <1>1. w \notin Pending /\ Pending' = Pending \cup {w} /\ Critical' = Critical
    BY DEF TakeTicket, Goto, Pending, Critical, CriticalPlaces, TypeOK
  <1>2. Cardinality(Pending') = n + 1 /\ n \in Nat /\ n < Modulus
    BY <1>1, PendingFinite, PendingFinitePrime, FS_AddElement, ConstantFacts
  <1>3. /\ serving \in Words /\ next \in Words /\ serving' = serving
        /\ next' = Inc(next) /\ ticket' = [ticket EXCEPT ![w] = next]
        /\ ticket \in [Workers -> Words]
    BY DEF TypeOK, TakeTicket
  <1>4. next = Wrap(serving + n)
    BY DEF LockInv, TicketsExact
  <1> HIDE DEF n
  <1>5. next' = Wrap(serving' + (n + 1)) /\ Offset(next) = n
    BY <1>2, <1>3, <1>4, ConstantFacts DEF Wrap, Offset, Inc, Words
  <1>6. \A v \in Pending : ticket'[v] = ticket[v] /\ Offset(ticket[v]) < n
    BY <1>1, <1>3 DEF LockInv, TicketsExact, Pending, n
  <1>7. \A v \in Pending' : Offset(ticket'[v]) < n + 1
    BY <1>1, <1>2, <1>3, <1>5, <1>6, ConstantFacts DEF Offset, Words, Pending
  <1>8. \A u, v \in Pending' : ticket'[u] = ticket'[v] => u = v
    <2> SUFFICES ASSUME NEW u \in Pending', NEW v \in Pending', ticket'[u] = ticket'[v]
                 PROVE  u = v
      OBVIOUS
    <2>1. CASE u \in Pending /\ v \in Pending
      BY <2>1, <1>6 DEF LockInv, TicketsExact
    <2>2. CASE u = w \/ v = w
      <3>1. ticket'[w] = next
        BY <1>3
      <3>2. \A x \in Pending : ticket'[x] # next
        BY <1>2, <1>5, <1>6
      <3> QED BY <2>2, <3>1, <3>2, <1>1
    <2> QED BY <2>1, <2>2, <1>1
  <1>9. TicketsExact'
    BY <1>2, <1>3, <1>5, <1>7, <1>8 DEF TicketsExact, Offset, Wrap
  <1>10. \A v \in Critical' : ticket'[v] = serving'
    BY <1>1, <1>3, <1>6 DEF LockInv, Critical, Pending
  <1> QED BY <1>9, <1>10 DEF LockInv

(* The worker that leaves the spin loop holds the ticket being served.     *)
LEMMA EnterLock ==
    ASSUME TypeOK, LockInv, NEW w \in Workers, Enter(w)
    PROVE  LockInv'
  <1>1. Pending' = Pending /\ Critical' = Critical \cup {w}
    BY DEF Enter, Goto, Pending, Critical, CriticalPlaces, TypeOK
  <1>2. UNCHANGED <<next, serving, ticket>> /\ ticket[w] = serving
    BY DEF Enter, lock, locals
  <1> QED BY <1>1, <1>2 DEF LockInv, TicketsExact, Offset, Wrap

(* serving moves on, and every other offset falls by one.                  *)
LEMMA ReleaseLock ==
    ASSUME TypeOK, LockInv, NEW w \in Workers, Release(w)
    PROVE  LockInv'
  <1> DEFINE n == Cardinality(Pending)
  <1>1. w \in Critical /\ w \in Pending
    BY DEF Release, Goto, Pending, Critical, CriticalPlaces
  <1>2. Pending' = Pending \ {w} /\ Critical' = Critical \ {w}
    BY DEF Release, Goto, Pending, Critical, CriticalPlaces, TypeOK
  <1>3. Cardinality(Pending') = n - 1 /\ n \in Nat /\ n <= Modulus /\ n - 1 \in Nat
    BY <1>1, <1>2, PendingFinite, PendingFinitePrime, FS_RemoveElement, ConstantFacts
  <1>4. /\ serving \in Words /\ next \in Words /\ serving' = Inc(serving)
        /\ next' = next /\ ticket' = ticket /\ ticket \in [Workers -> Words]
    BY DEF TypeOK, Release
  <1>5. /\ next = Wrap(serving + n) /\ ticket[w] = serving
        /\ \A v \in Pending : Offset(ticket[v]) < n
        /\ \A u, v \in Pending : ticket[u] = ticket[v] => u = v
    BY <1>1 DEF LockInv, TicketsExact
  <1> HIDE DEF n
  <1>6. next' = Wrap(serving' + (n - 1))
    BY <1>3, <1>4, <1>5, ConstantFacts DEF Wrap, Inc, Words
  <1>7. ASSUME NEW v \in Pending'
        PROVE  (Offset(ticket[v]))' < n - 1 /\ ticket[v] # serving
    <2>1. v \in Pending /\ v # w /\ v \in Workers
      BY <1>2 DEF Pending
    <2>2. ticket[v] \in Words /\ ticket[v] # serving /\ Offset(ticket[v]) < n
      BY <2>1, <1>1, <1>4, <1>5
    <2> QED BY <2>2, <1>3, <1>4, ConstantFacts DEF Offset, Inc, Words
  <1>8. TicketsExact'
    BY <1>2, <1>3, <1>4, <1>5, <1>6, <1>7 DEF TicketsExact, Wrap
  <1>9. Critical' = {}
    BY <1>1, <1>2, <1>5 DEF LockInv, Critical, Pending
  <1> QED BY <1>8, <1>9 DEF LockInv

(* Every step preserves LockInv.                                           *)
LEMMA LockStepInv ==
    ASSUME TypeOK, LockInv, NEW w \in Workers, Step(w)
    PROVE  LockInv'
  <1>1. CASE TakeTicket(w)
    BY <1>1, TakeTicketLock
  <1>2. CASE Enter(w)
    BY <1>2, EnterLock
  <1>3. CASE Release(w)
    BY <1>3, ReleaseLock
  <1>4. CASE LoadCounter(w) \/ StoreCounter(w)
    <2>1. Pending' = Pending /\ Critical' = Critical
      BY <1>4 DEF LoadCounter, StoreCounter, Goto, Pending, Critical,
                  CriticalPlaces, TypeOK
    <2>2. UNCHANGED <<lock, ticket>>
      BY <1>4 DEF LoadCounter, StoreCounter, lock, locals
    <2> QED BY <2>1, <2>2, LockFrame
  <1>5. CASE BarrierStep(w)
    <2>1. Pending' = Pending /\ Critical' = Critical
      BY <1>5 DEF BarrierStep, ReadGeneration, Arrive, ResetArrived, Goto,
                  BumpGeneration, SeeRelease, ReloadGeneration, Pending,
                  Critical, CriticalPlaces, TypeOK
    <2>2. UNCHANGED <<lock, ticket>>
      BY <1>5 DEF BarrierStep, ReadGeneration, Arrive, ResetArrived, Return,
                  BumpGeneration, SeeRelease, ReloadGeneration, lock, locals
    <2> QED BY <2>1, <2>2, LockFrame
  <1> QED BY <1>1, <1>2, <1>3, <1>4, <1>5 DEF Step, LockStep

(* Two workers in the critical section would hold the same ticket.         *)
LEMMA LockExcludes ==
    ASSUME LockInv
    PROVE  MutualExclusion
  BY DEF LockInv, TicketsExact, MutualExclusion, Critical, Pending

(* Only the holder of the lock stores, so a loaded value stays current.    *)
LEMMA NoLostUpdateStep ==
    ASSUME TypeOK, LockInv, NoLostUpdate, NEW w \in Workers, Step(w)
    PROVE  NoLostUpdate'
  <1>1. CASE LoadCounter(w)
    BY <1>1 DEF LoadCounter, Goto, NoLostUpdate, TypeOK
  <1>2. CASE StoreCounter(w)
    <2>1. \A v \in Workers : pc[v] = "store" => v = w
      BY <1>2, LockExcludes
         DEF MutualExclusion, Critical, CriticalPlaces, StoreCounter, Goto
    <2> QED BY <1>2, <2>1 DEF StoreCounter, Goto, NoLostUpdate, TypeOK
  <1>3. CASE TakeTicket(w) \/ Enter(w) \/ Release(w)
    BY <1>3 DEF TakeTicket, Enter, Release, Goto, NoLostUpdate, TypeOK, locals
  <1>4. CASE BarrierStep(w)
    BY <1>4 DEF BarrierStep, ReadGeneration, Arrive, ResetArrived, Goto, Return,
                BumpGeneration, SeeRelease, ReloadGeneration, NoLostUpdate,
                TypeOK, locals
  <1> QED BY <1>1, <1>2, <1>3, <1>4 DEF Step, LockStep

-----------------------------------------------------------------------------
(* Types and loop counters.                                                *)

(* The loop counters stay below their bounds.                              *)
LEMMA LocalBoundsStep ==
    ASSUME TypeOK, LocalBounds, NEW w \in Workers, Step(w)
    PROVE  LocalBounds'
  <1> USE ConstantFacts
  <1>1. CASE TakeTicket(w)
    BY <1>1 DEF TakeTicket, Goto, LocalBounds, TypeOK, CriticalPlaces
  <1>2. CASE Enter(w) \/ LoadCounter(w) \/ StoreCounter(w)
    BY <1>2 DEF Enter, LoadCounter, StoreCounter, Goto, LocalBounds, TypeOK,
                CriticalPlaces, locals
  <1>3. CASE Release(w)
    BY <1>3 DEF Release, Goto, LocalBounds, TypeOK, CriticalPlaces
  <1>4. CASE ReadGeneration(w) \/ Arrive(w) \/ ResetArrived(w) \/ SeeRelease(w)
    BY <1>4 DEF ReadGeneration, Arrive, ResetArrived, SeeRelease, Goto,
                LocalBounds, TypeOK, CriticalPlaces, locals
  <1>5. CASE BumpGeneration(w) \/ ReloadGeneration(w)
    BY <1>5 DEF BumpGeneration, ReloadGeneration, Return, Goto, LocalBounds,
                TypeOK, CriticalPlaces
  <1> QED BY <1>1, <1>2, <1>3, <1>4, <1>5 DEF Step, LockStep, BarrierStep

(* The barrier's word never exceeds the number of participants: an arrival *)
(* finds itself outside the set it is counted against.                     *)
LEMMA ArrivalCount ==
    ASSUME NEW R, BarrierAt(R), NEW w \in Workers, pc[w] = "arrive"
    PROVE  /\ IsFiniteSet(Arrived(R)) /\ w \notin Arrived(R)
           /\ arrived = Cardinality(Arrived(R)) /\ arrived \in Nat
           /\ arrived + 1 <= Participants
           /\ arrived + 1 = Participants => Arrived(R) \cup {w} = Workers
  <1>1. ~ \E v \in Workers : pc[v] = "bump"
    BY DEF BarrierAt, Completing
  <1>2. IsFiniteSet(Arrived(R)) /\ Cardinality(Arrived(R)) \in Nat
    BY WorkersAssumption, FS_Subset, FS_CardinalityType DEF Arrived
  <1>3. w \notin Arrived(R)
    BY DEF Arrived
  <1>4. Cardinality(Arrived(R) \cup {w}) = Cardinality(Arrived(R)) + 1
    BY <1>2, <1>3, FS_AddElement
  <1>5. Arrived(R) \cup {w} \in SUBSET Workers
    BY DEF Arrived
  <1>6. /\ Cardinality(Arrived(R) \cup {w}) <= Cardinality(Workers)
        /\ Cardinality(Workers) = Cardinality(Arrived(R) \cup {w})
              => Workers = Arrived(R) \cup {w}
    BY <1>5, WorkersAssumption, FS_Subset
  <1>7. arrived = Cardinality(Arrived(R))
    BY <1>1 DEF BarrierAt
  <1> QED BY <1>2, <1>3, <1>4, <1>6, <1>7 DEF Participants

(* Every step preserves the types of the state.                            *)
LEMMA TypeStep ==
    ASSUME SyncInv, NEW w \in Workers, Step(w)
    PROVE  TypeOK'
  <1> USE ConstantFacts, IncWord
  <1>1. TypeOK /\ LocalBounds
    BY DEF SyncInv
  <1>2. CASE TakeTicket(w)
    BY <1>1, <1>2 DEF TakeTicket, Goto, TypeOK, Places, barrier
  <1>3. CASE Enter(w)
    BY <1>1, <1>3 DEF Enter, Goto, TypeOK, Places, lock, barrier, locals
  <1>4. CASE LoadCounter(w)
    BY <1>1, <1>4 DEF LoadCounter, Goto, TypeOK, Places, lock, barrier
  <1>5. CASE StoreCounter(w)
    BY <1>1, <1>5 DEF StoreCounter, Goto, TypeOK, Places, lock, barrier, locals
  <1>6. CASE Release(w)
    <2>1. iteration[w] + 1 \in 0..Iterations
      BY <1>1, <1>6 DEF Release, Goto, LocalBounds, CriticalPlaces, TypeOK
    <2> QED BY <1>1, <1>6, <2>1 DEF Release, Goto, TypeOK, Places, barrier
  <1>7. CASE ReadGeneration(w)
    BY <1>1, <1>7 DEF ReadGeneration, Goto, TypeOK, Places, lock, barrier
  <1>8. CASE Arrive(w)
    <2>1. PICK R \in 0..Rounds : BarrierAt(R)
      BY DEF SyncInv, BarrierInv
    <2>2. arrived' \in 0..Participants
      BY <1>8, <2>1, ArrivalCount DEF Arrive, Goto
    <2> QED BY <1>1, <1>8, <2>2 DEF Arrive, Goto, TypeOK, Places, lock, locals
  <1>9. CASE ResetArrived(w)
    BY <1>1, <1>9 DEF ResetArrived, Goto, TypeOK, Places, lock, locals
  <1>10. CASE BumpGeneration(w) \/ ReloadGeneration(w)
    <2>1. round[w] + 1 \in 0..Rounds
      BY <1>1, <1>10 DEF BumpGeneration, ReloadGeneration, Goto, LocalBounds, TypeOK
    <2> QED BY <1>1, <1>10, <2>1 DEF BumpGeneration, ReloadGeneration, Return,
                 Goto, TypeOK, Places, lock
  <1>11. CASE SeeRelease(w)
    BY <1>1, <1>11 DEF SeeRelease, Goto, TypeOK, Places, lock, barrier, locals
  <1> QED BY <1>2, <1>3, <1>4, <1>5, <1>6, <1>7, <1>8, <1>9, <1>10, <1>11
          DEF Step, LockStep, BarrierStep

-----------------------------------------------------------------------------
(* The barrier.                                                            *)

(* Moving between places before the arrival does not concern the barrier.  *)
LEMMA BarrierFrame ==
    ASSUME TypeOK, NEW R \in 0..Rounds, BarrierAt(R), NEW w \in Workers, NEW to,
           pc' = [pc EXCEPT ![w] = to],
           pc[w] \in BeforeBarrier \ {"arrive"}, to \in BeforeBarrier \ {"arrive"},
           UNCHANGED <<barrier, seen, round>>
    PROVE  BarrierAt(R)'
  <1>1. Arrived(R)' = Arrived(R)
    BY DEF Arrived, BeforeBarrier, TypeOK
  <1>2. \A v \in Workers : PlaceInRound(v, R)'
    BY DEF BarrierAt, PlaceInRound, Completing, BeforeBarrier, TypeOK, barrier
  <1>3. /\ \A v \in Workers : Completing(v)' <=> Completing(v)
        /\ \A v \in Workers : pc'[v] = "bump" <=> pc[v] = "bump"
        /\ \A v \in Workers : pc[v] = "wait" => pc'[v] = "wait"
    BY DEF Completing, BeforeBarrier, TypeOK
  <1> QED BY <1>1, <1>2, <1>3 DEF BarrierAt, barrier

(* Before arriving, a worker reads the generation of its own round.        *)
LEMMA ReadGenerationBarrier ==
    ASSUME TypeOK, NEW R \in 0..Rounds, BarrierAt(R), NEW w \in Workers,
           ReadGeneration(w)
    PROVE  BarrierAt(R)'
  <1>1. Arrived(R)' = Arrived(R)
    BY DEF Arrived, ReadGeneration, Goto, TypeOK
  <1>2. \A v \in Workers : PlaceInRound(v, R)'
    BY DEF BarrierAt, PlaceInRound, Completing, BeforeBarrier, TypeOK, barrier,
           ReadGeneration, Goto
  <1>3. /\ \A v \in Workers : Completing(v)' <=> Completing(v)
        /\ \A v \in Workers : pc'[v] = "bump" <=> pc[v] = "bump"
        /\ \A v \in Workers : pc[v] = "wait" => pc'[v] = "wait"
    BY DEF Completing, TypeOK, ReadGeneration, Goto
  <1> QED BY <1>1, <1>2, <1>3 DEF BarrierAt, barrier, ReadGeneration

(* The last arrival, and only it, finds everybody else waiting.            *)
LEMMA ArriveBarrier ==
    ASSUME TypeOK, NEW R \in 0..Rounds, BarrierAt(R), NEW w \in Workers, Arrive(w)
    PROVE  BarrierAt(R)'
  <1>1. pc[w] = "arrive" /\ round[w] = R /\ seen[w] = generation
    BY DEF Arrive, Goto, BarrierAt, PlaceInRound, BeforeBarrier
  <1>2. \A v \in Workers : ~Completing(v)
    BY <1>1 DEF BarrierAt, Completing
  <1>3. /\ UNCHANGED <<generation, seen, round>> /\ arrived' = arrived + 1
        /\ pc' = [pc EXCEPT ![w] = IF arrived + 1 = Participants
                                   THEN "reset" ELSE "wait"]
    BY DEF Arrive, Goto, locals
  <1>4. Arrived(R)' = Arrived(R) \cup {w}
    BY <1>1, <1>3 DEF Arrived, TypeOK
  <1>5. arrived' = Cardinality(Arrived(R)')
    <2>1. /\ IsFiniteSet(Arrived(R)) /\ w \notin Arrived(R)
          /\ arrived = Cardinality(Arrived(R))
      BY <1>1, ArrivalCount
    <2>2. Cardinality(Arrived(R) \cup {w}) = Cardinality(Arrived(R)) + 1
      BY <2>1, FS_AddElement
    <2> QED BY <1>3, <1>4, <2>1, <2>2
  <1>6. \A v \in Workers : pc'[v] # "bump"
    BY <1>2, <1>3 DEF Completing, TypeOK
  <1>7. \A v \in Workers : PlaceInRound(v, R)'
    BY <1>1, <1>3 DEF BarrierAt, PlaceInRound, Completing, BeforeBarrier, TypeOK
  <1>8. ASSUME NEW u \in Workers, Completing(u)', NEW v \in Workers \ {u}
        PROVE  pc'[v] = "wait" /\ round'[v] = R
    <2>1. u = w /\ arrived + 1 = Participants
      BY <1>2, <1>3, <1>8 DEF Completing, TypeOK
    <2>2. v \in Arrived(R)
      BY <2>1, <1>1, ArrivalCount
    <2> QED BY <2>1, <2>2, <1>2, <1>3 DEF Arrived, Completing, TypeOK
  <1> QED BY <1>5, <1>6, <1>7, <1>8 DEF BarrierAt

(* The last arrival clears the count while everybody else waits.           *)
LEMMA ResetArrivedBarrier ==
    ASSUME TypeOK, NEW R \in 0..Rounds, BarrierAt(R), NEW w \in Workers,
           ResetArrived(w)
    PROVE  BarrierAt(R)'
  <1>1. /\ pc[w] = "reset" /\ pc' = [pc EXCEPT ![w] = "bump"] /\ arrived' = 0
        /\ UNCHANGED <<generation, seen, round>>
    BY DEF ResetArrived, Goto, locals
  <1>2. \A v \in Workers \ {w} : pc[v] = "wait" /\ round[v] = R
    BY <1>1 DEF BarrierAt, Completing
  <1>3. pc'[w] = "bump" /\ \A v \in Workers \ {w} : pc'[v] = "wait"
    BY <1>1, <1>2 DEF TypeOK
  <1>4. \A v \in Workers : PlaceInRound(v, R)'
    BY <1>1, <1>3 DEF BarrierAt, PlaceInRound, Completing, BeforeBarrier
  <1> QED BY <1>1, <1>2, <1>3, <1>4 DEF BarrierAt, Completing

(* The new generation opens round R + 1, with everybody else still to leave.*)
LEMMA BumpGenerationBarrier ==
    ASSUME TypeOK, LocalBounds, NEW R \in 0..Rounds, BarrierAt(R),
           NEW w \in Workers, BumpGeneration(w)
    PROVE  R + 1 \in 0..Rounds /\ BarrierAt(R + 1)'
  <1>1. /\ pc[w] = "bump" /\ pc' = [pc EXCEPT ![w] = "ticket"]
        /\ generation' = Inc(generation) /\ round' = [round EXCEPT ![w] = @ + 1]
        /\ UNCHANGED <<arrived, seen>>
    BY DEF BumpGeneration, Goto, Return
  <1>2. round[w] = R /\ R < Rounds /\ arrived = 0
    BY <1>1 DEF BarrierAt, PlaceInRound, Completing, LocalBounds
  <1>3. \A v \in Workers \ {w} : /\ pc[v] = "wait" /\ round[v] = R
                                 /\ seen[v] = generation
    BY <1>1 DEF BarrierAt, Completing, PlaceInRound
  <1>4. /\ pc'[w] = "ticket" /\ round'[w] = R + 1
        /\ \A v \in Workers \ {w} : /\ pc'[v] = "wait" /\ round'[v] = R
                                   /\ Inc(seen'[v]) = generation'
    BY <1>1, <1>2, <1>3 DEF TypeOK
  <1>5. \A v \in Workers : PlaceInRound(v, R + 1)'
    BY <1>4 DEF PlaceInRound, Completing, BeforeBarrier, Inc
  <1>6. Arrived(R + 1)' = {}
    BY <1>4 DEF Arrived
  <1>7. arrived' = Cardinality(Arrived(R + 1)')
    BY <1>1, <1>2, <1>6, FS_EmptySet
  <1>8. \A v \in Workers : ~Completing(v)' /\ pc'[v] # "bump"
    BY <1>4 DEF Completing
  <1>9. BarrierAt(R + 1)'
    BY <1>5, <1>7, <1>8 DEF BarrierAt
  <1>10. R + 1 \in 0..Rounds
    BY <1>2, ConstantFacts
  <1> QED BY <1>9, <1>10

(* Whoever sees the word change belongs to the round before.               *)
LEMMA LeaveBarrier ==
    ASSUME TypeOK, NEW R \in 0..Rounds, BarrierAt(R), NEW w \in Workers,
           SeeRelease(w) \/ ReloadGeneration(w)
    PROVE  BarrierAt(R)'
  <1>1. round[w] = R - 1 /\ pc[w] \in {"wait", "reload"}
    BY DEF SeeRelease, ReloadGeneration, Goto, BarrierAt, PlaceInRound
  <1>2. \A v \in Workers : ~Completing(v)
    BY <1>1 DEF BarrierAt, Completing
  <1>3. /\ UNCHANGED <<arrived, generation, seen>>
        /\ \/ pc' = [pc EXCEPT ![w] = "reload"] /\ round' = round
           \/ pc' = [pc EXCEPT ![w] = "ticket"] /\ round' = [round EXCEPT ![w] = R]
    BY <1>1 DEF SeeRelease, ReloadGeneration, Return, Goto, barrier, locals, TypeOK
  <1>4. Arrived(R)' = Arrived(R)
    BY <1>1, <1>3 DEF Arrived, TypeOK
  <1>5. \A v \in Workers : ~Completing(v)' /\ pc'[v] # "bump"
    BY <1>2, <1>3 DEF Completing, TypeOK
  <1>6. \A v \in Workers : PlaceInRound(v, R)'
    BY <1>1, <1>3 DEF BarrierAt, PlaceInRound, Completing, BeforeBarrier, TypeOK
  <1> QED BY <1>2, <1>3, <1>4, <1>5, <1>6 DEF BarrierAt, Completing

(* Every step preserves the barrier's invariant: one case per action.      *)
LEMMA BarrierStepInv ==
    ASSUME TypeOK, LocalBounds, BarrierInv, NEW w \in Workers, Step(w)
    PROVE  BarrierInv'
  <1>1. PICK R \in 0..Rounds : BarrierAt(R)
    BY DEF BarrierInv
  <1>2. CASE LockStep(w)
    <2>1. PICK to \in BeforeBarrier \ {"arrive"} : pc' = [pc EXCEPT ![w] = to]
      BY <1>2 DEF LockStep, TakeTicket, Enter, LoadCounter, StoreCounter,
                  Release, Goto, BeforeBarrier
    <2>2. pc[w] \in BeforeBarrier \ {"arrive"} /\ UNCHANGED <<barrier, seen, round>>
      BY <1>2 DEF LockStep, TakeTicket, Enter, LoadCounter, StoreCounter,
                  Release, Goto, BeforeBarrier, locals
    <2> QED BY <1>1, <2>1, <2>2, BarrierFrame DEF BarrierInv
  <1>3. CASE ReadGeneration(w)
    BY <1>1, <1>3, ReadGenerationBarrier DEF BarrierInv
  <1>4. CASE Arrive(w)
    BY <1>1, <1>4, ArriveBarrier DEF BarrierInv
  <1>5. CASE ResetArrived(w)
    BY <1>1, <1>5, ResetArrivedBarrier DEF BarrierInv
  <1>6. CASE BumpGeneration(w)
    BY <1>1, <1>6, BumpGenerationBarrier DEF BarrierInv
  <1>7. CASE SeeRelease(w) \/ ReloadGeneration(w)
    BY <1>1, <1>7, LeaveBarrier DEF BarrierInv
  <1> QED BY <1>2, <1>3, <1>4, <1>5, <1>6, <1>7 DEF Step, BarrierStep

-----------------------------------------------------------------------------
(* The invariant and what follows from it.                                 *)

(* The initial state satisfies the invariant.                              *)
LEMMA InitInv ==
    ASSUME Init
    PROVE  SyncInv
  <1> USE ConstantFacts
  <1>1. TypeOK
    BY DEF Init, TypeOK, Words, Places
  <1>2. Pending = {} /\ Critical = {}
    BY DEF Init, Pending, Critical, CriticalPlaces
  <1>3. LockInv
    BY <1>2, FS_EmptySet DEF Init, LockInv, TicketsExact, Wrap
  <1>4. NoLostUpdate /\ LocalBounds
    BY DEF Init, NoLostUpdate, LocalBounds
  <1>5. Arrived(0) = {}
    BY DEF Init, Arrived
  <1>6. BarrierAt(0)
    BY <1>5, FS_EmptySet DEF Init, BarrierAt, PlaceInRound, Completing
  <1> QED BY <1>1, <1>3, <1>4, <1>6 DEF SyncInv, BarrierInv

(* The invariant is a state predicate of vars.                             *)
LEMMA StutterInv ==
    ASSUME SyncInv, UNCHANGED vars
    PROVE  SyncInv'
  <1> USE DEF SyncInv, vars, lock, barrier, locals
  <1>1. TypeOK'
    BY DEF TypeOK
  <1>2. LockInv'
    <2>1. Pending' = Pending /\ Critical' = Critical
      BY DEF Pending, Critical
    <2> QED BY <2>1, LockFrame
  <1>3. NoLostUpdate' /\ LocalBounds'
    BY DEF NoLostUpdate, LocalBounds
  <1>4. BarrierInv'
    <2>1. PICK R \in 0..Rounds : BarrierAt(R)
      BY DEF BarrierInv
    <2>2. Arrived(R)' = Arrived(R)
      BY DEF Arrived
    <2>3. BarrierAt(R)'
      BY <2>1, <2>2 DEF BarrierAt, PlaceInRound, Completing
    <2> QED BY <2>3 DEF BarrierInv
  <1> QED BY <1>1, <1>2, <1>3, <1>4

(* SyncInv is an invariant, whatever the number of workers, the iterations *)
(* and the rounds, as long as the workers do not outnumber the tickets.    *)
THEOREM SyncInvariant == Spec => []SyncInv
  <1>1. Init => SyncInv
    BY InitInv
  <1>2. SyncInv /\ [Next]_vars => SyncInv'
    <2> SUFFICES ASSUME SyncInv, [Next]_vars PROVE SyncInv'
      OBVIOUS
    <2>1. ASSUME NEW w \in Workers, Step(w) PROVE SyncInv'
      BY <2>1, TypeStep, LockStepInv, NoLostUpdateStep, LocalBoundsStep,
         BarrierStepInv DEF SyncInv
    <2>2. CASE UNCHANGED vars
      BY <2>2, StutterInv
    <2> QED BY <2>1, <2>2 DEF Next
  <1> QED BY <1>1, <1>2, PTL DEF Spec

(* Type correctness.                                                       *)
THEOREM SyncTypes == Spec => []TypeOK
  <1>1. SyncInv => TypeOK
    BY DEF SyncInv
  <1> QED BY <1>1, SyncInvariant, PTL

(* acquire() and release() exclude each other across the wrap of their     *)
(* 32-bit words.                                                           *)
THEOREM LockIsExclusive == Spec => []MutualExclusion
  <1>1. SyncInv => MutualExclusion
    BY LockExcludes DEF SyncInv
  <1> QED BY <1>1, SyncInvariant, PTL

(* No increment of the protected counter is lost.                          *)
THEOREM UpdatesKept == Spec => []NoLostUpdate
  <1>1. SyncInv => NoLostUpdate
    BY DEF SyncInv
  <1> QED BY <1>1, SyncInvariant, PTL

-----------------------------------------------------------------------------
(* The generation word.                                                    *)

(* The remainder that the generation word keeps of a round number.         *)
LEMMA Remainder ==
    ASSUME NEW q \in Nat, NEW r \in 0..(Modulus - 1)
    PROVE  (Modulus * q + r) % Modulus = r
  BY ConstantFacts, SMTT(30)

(* The wrapping increment counts modulo the width of the word.             *)
LEMMA IncCounts ==
    ASSUME NEW R \in Nat
    PROVE  Inc(R % Modulus) = (R + 1) % Modulus
  <1> DEFINE q == R \div Modulus
             r == R % Modulus
  <1>1. q \in Nat /\ r \in 0..(Modulus - 1) /\ R = Modulus * q + r
    BY ConstantFacts, SMTT(30)
  <1>2. CASE r = Modulus - 1
    <2>1. R + 1 = Modulus * (q + 1) + 0 /\ 0 \in 0..(Modulus - 1) /\ q + 1 \in Nat
      BY <1>1, <1>2, ConstantFacts, SMTT(30)
    <2> HIDE DEF q, r
    <2>2. (Modulus * (q + 1) + 0) % Modulus = 0
      BY <2>1, Remainder
    <2> QED BY <2>1, <2>2, <1>2 DEF Inc, r
  <1>3. CASE r # Modulus - 1
    <2>1. R + 1 = Modulus * q + (r + 1)
      BY <1>1, ConstantFacts, SMTT(30)
    <2>2. r + 1 \in 0..(Modulus - 1)
      BY <1>1, <1>3, ConstantFacts
    <2> HIDE DEF q, r
    <2>3. (Modulus * q + (r + 1)) % Modulus = r + 1
      BY <1>1, <2>2, Remainder
    <2> QED BY <2>1, <2>3, <1>3 DEF Inc, r
  <1> QED BY <1>2, <1>3

(* A step that completes no round and returns from none.                   *)
LEMMA GenerationFrame ==
    ASSUME GenerationInv, UNCHANGED <<generation, round, result>>,
           \A R \in 0..Rounds : BarrierAt(R) => BarrierAt(R)'
    PROVE  GenerationInv'
  <1>1. PICK R \in 0..Rounds : BarrierAt(R) /\ generation = R % Modulus
    BY DEF GenerationInv
  <1>2. BarrierAt(R)' /\ generation' = R % Modulus
    BY <1>1
  <1>3. SameGeneration'
    BY DEF GenerationInv, SameGeneration
  <1> QED BY <1>2, <1>3 DEF GenerationInv

(* The last arrival opens the next round and returns its number.           *)
LEMMA BumpGenerationCounts ==
    ASSUME SyncInv, GenerationInv, NEW w \in Workers, BumpGeneration(w)
    PROVE  GenerationInv'
  <1>1. PICK R \in 0..Rounds : BarrierAt(R) /\ generation = R % Modulus
    BY DEF GenerationInv
  <1>2. R + 1 \in 0..Rounds /\ BarrierAt(R + 1)'
    BY <1>1, BumpGenerationBarrier DEF SyncInv
  <1>3. round[w] = R /\ seen[w] = generation
    BY <1>1 DEF BumpGeneration, Goto, BarrierAt, PlaceInRound, Completing
  <1>4. Inc(generation) = (R + 1) % Modulus
    BY <1>1, IncCounts, ConstantFacts
  <1>5. /\ generation' = Inc(generation)
        /\ result' = [result EXCEPT ![w] = Inc(generation)]
        /\ round' = [round EXCEPT ![w] = R + 1]
    BY <1>3 DEF BumpGeneration, Return
  <1>6. SameGeneration'
    BY <1>4, <1>5 DEF SameGeneration, GenerationInv, SyncInv, TypeOK
  <1>7. generation' = (R + 1) % Modulus
    BY <1>4, <1>5
  <1> QED BY <1>2, <1>6, <1>7 DEF GenerationInv

(* The others leave their round with the word that opened the next one.    *)
LEMMA ReloadGenerationCounts ==
    ASSUME SyncInv, GenerationInv, NEW w \in Workers, ReloadGeneration(w)
    PROVE  GenerationInv'
  <1>1. PICK R \in 0..Rounds : BarrierAt(R) /\ generation = R % Modulus
    BY DEF GenerationInv
  <1>2. BarrierAt(R)'
    BY <1>1, LeaveBarrier DEF SyncInv
  <1>3. round[w] = R - 1
    BY <1>1 DEF ReloadGeneration, Goto, BarrierAt, PlaceInRound
  <1>4. /\ generation' = generation
        /\ result' = [result EXCEPT ![w] = generation]
        /\ round' = [round EXCEPT ![w] = R]
    BY <1>3, ConstantFacts DEF ReloadGeneration, Return
  <1>5. SameGeneration'
    BY <1>1, <1>4 DEF SameGeneration, GenerationInv, SyncInv, TypeOK
  <1> QED BY <1>1, <1>2, <1>4, <1>5 DEF GenerationInv

(* Every step preserves it: one case per action of the barrier.            *)
LEMMA GenerationStep ==
    ASSUME SyncInv, GenerationInv, NEW w \in Workers, Step(w)
    PROVE  GenerationInv'
  <1>1. CASE LockStep(w)
    <2>1. PICK to \in BeforeBarrier \ {"arrive"} : pc' = [pc EXCEPT ![w] = to]
      BY <1>1 DEF LockStep, TakeTicket, Enter, LoadCounter, StoreCounter,
                  Release, Goto, BeforeBarrier
    <2>2. /\ pc[w] \in BeforeBarrier \ {"arrive"}
          /\ UNCHANGED <<barrier, seen, round, result>>
      BY <1>1 DEF LockStep, TakeTicket, Enter, LoadCounter, StoreCounter,
                  Release, Goto, BeforeBarrier, locals
    <2>3. \A R \in 0..Rounds : BarrierAt(R) => BarrierAt(R)'
      BY <2>1, <2>2, BarrierFrame DEF SyncInv
    <2> QED BY <2>2, <2>3, GenerationFrame DEF barrier
  <1>2. CASE ReadGeneration(w)
    <2>1. \A R \in 0..Rounds : BarrierAt(R) => BarrierAt(R)'
      BY <1>2, ReadGenerationBarrier DEF SyncInv
    <2> QED BY <1>2, <2>1, GenerationFrame DEF ReadGeneration, barrier
  <1>3. CASE Arrive(w)
    <2>1. \A R \in 0..Rounds : BarrierAt(R) => BarrierAt(R)'
      BY <1>3, ArriveBarrier DEF SyncInv
    <2> QED BY <1>3, <2>1, GenerationFrame DEF Arrive, locals
  <1>4. CASE ResetArrived(w)
    <2>1. \A R \in 0..Rounds : BarrierAt(R) => BarrierAt(R)'
      BY <1>4, ResetArrivedBarrier DEF SyncInv
    <2> QED BY <1>4, <2>1, GenerationFrame DEF ResetArrived, locals
  <1>5. CASE SeeRelease(w)
    <2>1. \A R \in 0..Rounds : BarrierAt(R) => BarrierAt(R)'
      BY <1>5, LeaveBarrier DEF SyncInv
    <2> QED BY <1>5, <2>1, GenerationFrame DEF SeeRelease, barrier, locals
  <1>6. CASE BumpGeneration(w)
    BY <1>6, BumpGenerationCounts
  <1>7. CASE ReloadGeneration(w)
    BY <1>7, ReloadGenerationCounts
  <1> QED BY <1>1, <1>2, <1>3, <1>4, <1>5, <1>6, <1>7 DEF Step, BarrierStep

(* Before the first round the word and the count of rounds agree.          *)
LEMMA GenerationInit ==
    ASSUME Init
    PROVE  GenerationInv
  <1>1. SyncInv
    BY InitInv
  <1>2. 0 % Modulus = 0
    BY ConstantFacts
  <1>3. BarrierAt(0)
    BY <1>1, ConstantFacts, FS_EmptySet
       DEF Init, BarrierAt, PlaceInRound, BeforeBarrier, Completing, Arrived
  <1> QED BY <1>2, <1>3, ConstantFacts DEF Init, GenerationInv, SameGeneration

(* A stuttering step keeps them in agreement.                              *)
LEMMA GenerationStutter ==
    ASSUME GenerationInv, UNCHANGED vars
    PROVE  GenerationInv'
  <1>1. \A R \in 0..Rounds : BarrierAt(R) => BarrierAt(R)'
    BY DEF vars, lock, barrier, locals, BarrierAt, PlaceInRound, Completing, Arrived
  <1> QED BY <1>1, GenerationFrame DEF vars, barrier, locals

(* The generation word counts the rounds of the barrier.                   *)
THEOREM GenerationInvariant == Spec => []GenerationInv
  <1>1. Init => GenerationInv
    BY GenerationInit
  <1>2. SyncInv /\ GenerationInv /\ [Next]_vars => GenerationInv'
    <2> SUFFICES ASSUME SyncInv, GenerationInv, [Next]_vars PROVE GenerationInv'
      OBVIOUS
    <2>1. ASSUME NEW w \in Workers, Step(w) PROVE GenerationInv'
      BY <2>1, GenerationStep
    <2>2. CASE UNCHANGED vars
      BY <2>2, GenerationStutter
    <2> QED BY <2>1, <2>2 DEF Next
  <1> QED BY <1>1, <1>2, SyncInvariant, PTL DEF Spec

(* Nobody leaves a round of Barrier.wait() before everybody has entered it,*)
(* and all participants of a round return the same generation.             *)
THEOREM BarrierSafe == Spec => []BarrierCorrect
  <1>1. SyncInv => BarrierHolds
    <2> SUFFICES ASSUME SyncInv, NEW v \in Workers, NEW w \in Workers
                 PROVE  round[w] <= Arrivals(v)
      BY DEF BarrierHolds
    <2>1. PICK R \in 0..Rounds : BarrierAt(R)
      BY DEF SyncInv, BarrierInv
    <2>2. \A u \in Workers : pc[u] \in Places /\ round[u] \in Nat
      BY ConstantFacts DEF SyncInv, TypeOK
    <2>3. round[w] <= R
      BY <2>1, <2>2, ConstantFacts
         DEF BarrierAt, PlaceInRound, Places, BeforeBarrier, Completing
    <2>4. R <= Arrivals(v)
      BY <2>1, <2>2, ConstantFacts
         DEF BarrierAt, PlaceInRound, Places, BeforeBarrier, Completing, Arrivals
    <2> QED BY <2>2, <2>3, <2>4, ConstantFacts DEF Arrivals
  <1>2. GenerationInv => SameGeneration
    BY DEF GenerationInv
  <1>3. BarrierHolds /\ SameGeneration => BarrierCorrect
    BY DEF BarrierCorrect
  <1> QED BY <1>1, <1>2, <1>3, SyncInvariant, GenerationInvariant, PTL

-----------------------------------------------------------------------------
(* The refinement of FifoLock.                                             *)

(* A set whose members carry distinct numbers below its size, listed by    *)
(* number: every member is listed, at its number plus one, and no other.   *)
Listing(P, f) == [i \in 1..Cardinality(P) |-> CHOOSE w \in P : f[w] = i - 1]

(* The listing is exact: it pairs the members with 1..Cardinality(P).      *)
LEMMA ListingExact ==
    ASSUME NEW P, IsFiniteSet(P), NEW f \in [P -> 0..(Cardinality(P) - 1)],
           \A v, w \in P : f[v] = f[w] => v = w
    PROVE  /\ \A i \in 1..Cardinality(P) :
                 Listing(P, f)[i] \in P /\ f[Listing(P, f)[i]] = i - 1
           /\ \A w \in P : /\ f[w] + 1 \in 1..Cardinality(P)
                           /\ Listing(P, f)[f[w] + 1] = w
  <1> DEFINE n == Cardinality(P)
  <1>1. n \in Nat
    BY FS_CardinalityType
  <1>2. IsFiniteSet(0..(n - 1)) /\ Cardinality(0..(n - 1)) = n
    BY <1>1, FS_Interval
  <1>3. f \in Injection(P, 0..(n - 1))
    BY DEF Injection, IsInjective
  <1>4. f \in Surjection(P, 0..(n - 1))
    <2> HIDE DEF n
    <2> QED BY <1>2, <1>3, FS_Injection DEF n
  <1>5. ASSUME NEW i \in 1..n
        PROVE  \E w \in P : f[w] = i - 1
    <2>1. i - 1 \in 0..(n - 1)
      BY <1>1
    <2> QED BY <1>4, <2>1 DEF Surjection
  <1>6. \A i \in 1..n : Listing(P, f)[i] \in P /\ f[Listing(P, f)[i]] = i - 1
    BY <1>5 DEF Listing
  <1>7. ASSUME NEW w \in P
        PROVE  f[w] + 1 \in 1..n /\ Listing(P, f)[f[w] + 1] = w
    <2>1. f[w] + 1 \in 1..n /\ (f[w] + 1) - 1 = f[w]
      BY <1>1
    <2>2. /\ Listing(P, f)[f[w] + 1] \in P
          /\ f[Listing(P, f)[f[w] + 1]] = (f[w] + 1) - 1
      BY <2>1, <1>6
    <2> QED BY <2>1, <2>2
  <1> QED BY <1>6, <1>7

Number == [w \in Pending |-> Offset(ticket[w])]

(* The offsets of the pending workers number them: the queue lists them.   *)
LEMMA QueueIsListing ==
    ASSUME TypeOK, LockInv
    PROVE  /\ Number \in [Pending -> 0..(Cardinality(Pending) - 1)]
           /\ \A v, w \in Pending : Number[v] = Number[w] => v = w
           /\ Queue = Listing(Pending, Number)
  <1>1. ASSUME NEW w \in Pending
        PROVE  /\ ticket[w] \in Words /\ serving \in Words
               /\ Offset(ticket[w]) \in 0..(Cardinality(Pending) - 1)
    <2>1. ticket[w] \in Words /\ serving \in Words
      BY DEF TypeOK, Pending
    <2>2. Offset(ticket[w]) < Cardinality(Pending)
      BY DEF LockInv, TicketsExact
    <2> QED BY <2>1, <2>2, PendingFinite, ConstantFacts DEF Offset, Words
  <1>2. ASSUME NEW v \in Pending, NEW w \in Pending,
               Offset(ticket[v]) = Offset(ticket[w])
        PROVE  v = w
    <2>1. ticket[v] = ticket[w]
      BY <1>1, <1>2, ConstantFacts DEF Offset, Words
    <2> QED BY <2>1 DEF LockInv, TicketsExact
  <1>3. Queue = Listing(Pending, Number)
    BY DEF Queue, Listing, Number
  <1> QED BY <1>1, <1>2, <1>3 DEF Number

(* The same in the next state.                                             *)
LEMMA QueueIsListingPrime ==
    ASSUME TypeOK', LockInv'
    PROVE  /\ Number' \in [Pending' -> 0..(Cardinality(Pending') - 1)]
           /\ \A v, w \in Pending' : Number'[v] = Number'[w] => v = w
           /\ Queue' = Listing(Pending', Number')
  <1>1. ASSUME NEW w \in Pending'
        PROVE  /\ ticket'[w] \in Words /\ serving' \in Words
               /\ (Offset(ticket[w]))' \in 0..(Cardinality(Pending') - 1)
    <2>1. ticket'[w] \in Words /\ serving' \in Words
      BY DEF TypeOK, Pending
    <2>2. (Offset(ticket[w]))' < Cardinality(Pending')
      BY DEF LockInv, TicketsExact
    <2> QED BY <2>1, <2>2, PendingFinitePrime, ConstantFacts DEF Offset, Words
  <1>2. ASSUME NEW v \in Pending', NEW w \in Pending',
               (Offset(ticket[v]))' = (Offset(ticket[w]))'
        PROVE  v = w
    <2>1. ticket'[v] = ticket'[w]
      BY <1>1, <1>2, ConstantFacts DEF Offset, Words
    <2> QED BY <2>1 DEF LockInv, TicketsExact
  <1>3. Queue' = Listing(Pending', Number')
    BY DEF Queue, Listing, Number
  <1> QED BY <1>1, <1>2, <1>3 DEF Number

(* The queue as a sequence of workers.                                     *)
LEMMA QueueSeq ==
    ASSUME TypeOK, LockInv
    PROVE  /\ Queue \in Seq(Workers) /\ Len(Queue) = Cardinality(Pending)
           /\ DOMAIN Queue = 1..Cardinality(Pending)
           /\ \A i \in DOMAIN Queue :
                 Queue[i] \in Pending /\ Number[Queue[i]] = i - 1
           /\ \A w \in Pending : /\ Number[w] + 1 \in DOMAIN Queue
                                 /\ Queue[Number[w] + 1] = w
  <1> DEFINE n == Cardinality(Pending)
  <1>1. n \in Nat /\ IsFiniteSet(Pending)
    BY PendingFinite
  <1>2. /\ \A i \in 1..n : Queue[i] \in Pending /\ Number[Queue[i]] = i - 1
        /\ \A w \in Pending : /\ Number[w] + 1 \in 1..n
                              /\ Queue[Number[w] + 1] = w
    BY <1>1, QueueIsListing, ListingExact
  <1>3. DOMAIN Queue = 1..n /\ Queue = [i \in 1..n |-> Queue[i]]
    BY DEF Queue
  <1>4. Pending \subseteq Workers
    BY DEF Pending
  <1> HIDE DEF n
  <1>5. Queue \in [1..n -> Workers]
    BY <1>2, <1>3, <1>4
  <1>6. Queue \in Seq(Workers) /\ Len(Queue) = n
    BY <1>1, <1>3, <1>5
  <1> QED BY <1>2, <1>3, <1>6 DEF n

(* The same in the next state.                                             *)
LEMMA QueueSeqPrime ==
    ASSUME TypeOK', LockInv'
    PROVE  /\ Queue' \in Seq(Workers) /\ Len(Queue') = Cardinality(Pending')
           /\ DOMAIN Queue' = 1..Cardinality(Pending')
           /\ \A i \in DOMAIN Queue' :
                 Queue'[i] \in Pending' /\ Number'[Queue'[i]] = i - 1
           /\ \A w \in Pending' : /\ Number'[w] + 1 \in DOMAIN Queue'
                                  /\ Queue'[Number'[w] + 1] = w
  <1> DEFINE n == Cardinality(Pending')
  <1>1. n \in Nat /\ IsFiniteSet(Pending')
    BY PendingFinitePrime
  <1>2. /\ \A i \in 1..n : Queue'[i] \in Pending' /\ Number'[Queue'[i]] = i - 1
        /\ \A w \in Pending' : /\ Number'[w] + 1 \in 1..n
                               /\ Queue'[Number'[w] + 1] = w
    BY <1>1, QueueIsListingPrime, ListingExact
  <1>3. DOMAIN Queue' = 1..n /\ Queue' = [i \in 1..n |-> Queue'[i]]
    BY DEF Queue
  <1>4. Pending' \subseteq Workers
    BY DEF Pending
  <1> HIDE DEF n
  <1>5. Queue' \in [1..n -> Workers]
    BY <1>2, <1>3, <1>4
  <1>6. Queue' \in Seq(Workers) /\ Len(Queue') = n
    BY <1>1, <1>3, <1>5
  <1> QED BY <1>2, <1>3, <1>6 DEF n

(* Taking a ticket appends the worker to the queue: its offset is the      *)
(* number of the workers already pending.                                  *)
LEMMA TakeTicketIsRequest ==
    ASSUME TypeOK, LockInv, TypeOK', LockInv', NEW w \in Workers, TakeTicket(w)
    PROVE  Fifo!Request(w)
  <1> DEFINE n == Cardinality(Pending)
  <1>1. w \notin Pending /\ Pending' = Pending \cup {w} /\ Critical' = Critical
    BY DEF TakeTicket, Goto, Pending, Critical, CriticalPlaces, TypeOK
  <1>2. Cardinality(Pending') = n + 1 /\ n \in Nat /\ n < Modulus
    BY <1>1, PendingFinite, PendingFinitePrime, FS_AddElement, ConstantFacts
  <1>3. /\ serving \in Words /\ next \in Words /\ serving' = serving
        /\ ticket' = [ticket EXCEPT ![w] = next]
        /\ ticket \in [Workers -> Words] /\ next = Wrap(serving + n)
    BY DEF TypeOK, TakeTicket, LockInv, TicketsExact
  <1> HIDE DEF n
  <1>4. Offset(next) = n
    BY <1>2, <1>3, ConstantFacts DEF Wrap, Offset, Words
  <1>5. \A v \in Pending : Number'[v] = Number[v]
    <2>1. \A v \in Pending : v # w /\ v \in Workers /\ v \in Pending'
      BY <1>1 DEF Pending
    <2> QED BY <1>3, <2>1 DEF Number, Offset
  <1>6. Number'[w] = n
    <2>1. w \in Pending' /\ ticket'[w] = next
      BY <1>1, <1>3
    <2> QED BY <1>3, <1>4, <2>1 DEF Number, Offset
  <1>7. Queue'[n + 1] = w
    BY <1>1, <1>6, QueueSeqPrime
  <1>8. ASSUME NEW i \in 1..n
        PROVE  Queue'[i] = Queue[i]
    <2>1. Queue[i] \in Pending /\ Number[Queue[i]] = i - 1
      BY QueueSeq DEF n
    <2>2. Queue'[Number'[Queue[i]] + 1] = Queue[i]
      BY <2>1, <1>1, QueueSeqPrime
    <2> QED BY <2>1, <2>2, <1>5
  <1>9. Queue' = Append(Queue, w)
    <2>1. Queue \in Seq(Workers) /\ Len(Queue) = n
      BY QueueSeq DEF n
    <2>2. Queue' \in Seq(Workers) /\ Len(Queue') = n + 1
      BY <1>2, QueueSeqPrime
    <2> QED BY <1>2, <1>7, <1>8, <2>1, <2>2
  <1>10. \A i \in DOMAIN Queue : Queue[i] # w
    BY <1>1, QueueSeq
  <1> QED BY <1>1, <1>9, <1>10 DEF Fifo!Request

(* The spin loop ends only for the head of the queue, and with nobody in   *)
(* the critical section: a worker in it would hold the same ticket.        *)
LEMMA EnterIsEnter ==
    ASSUME TypeOK, LockInv, TypeOK', LockInv', NEW w \in Workers, Enter(w)
    PROVE  Fifo!Enter(w)
  <1>1. Pending' = Pending /\ Critical' = Critical \cup {w} /\ w \in Pending
    BY DEF Enter, Goto, Pending, Critical, CriticalPlaces, TypeOK
  <1>2. /\ UNCHANGED <<next, serving, ticket>> /\ ticket[w] = serving
        /\ w \notin Critical
    BY DEF Enter, lock, locals, Goto, Critical, CriticalPlaces
  <1>3. Critical = {}
    BY <1>1, <1>2 DEF LockInv, TicketsExact, Critical, Pending
  <1>4. Queue' = Queue
    BY <1>1, <1>2 DEF Queue, Offset
  <1>5. Number[w] = 0
    BY <1>1, <1>2, ConstantFacts DEF Number, Offset, TypeOK, Words
  <1>6. Queue[1] = w /\ 1 \in DOMAIN Queue
    BY <1>1, <1>5, QueueSeq
  <1>7. Queue # <<>> /\ w = Head(Queue)
    BY <1>6, QueueSeq
  <1> QED BY <1>1, <1>3, <1>4, <1>7 DEF Fifo!Enter

(* The release takes the head from the queue: every other offset falls by  *)
(* one.                                                                    *)
LEMMA ReleaseIsLeave ==
    ASSUME TypeOK, LockInv, TypeOK', LockInv', NEW w \in Workers, Release(w)
    PROVE  Fifo!Leave(w)
  <1> DEFINE n == Cardinality(Pending)
  <1>1. w \in Critical /\ w \in Pending
    BY DEF Release, Goto, Pending, Critical, CriticalPlaces
  <1>2. Pending' = Pending \ {w} /\ Critical' = Critical \ {w}
    BY DEF Release, Goto, Pending, Critical, CriticalPlaces, TypeOK
  <1>3. Cardinality(Pending') = n - 1 /\ n \in Nat /\ n <= Modulus /\ n - 1 \in Nat
    BY <1>1, <1>2, PendingFinite, PendingFinitePrime, FS_RemoveElement, ConstantFacts
  <1>4. /\ serving \in Words /\ serving' = Inc(serving)
        /\ ticket' = ticket /\ ticket \in [Workers -> Words]
    BY DEF TypeOK, Release
  <1>5. ticket[w] = serving /\ \A v \in Pending \ {w} : ticket[v] # serving
    BY <1>1 DEF LockInv, TicketsExact
  <1>6. Critical' = {}
    BY <1>1, <1>2, <1>5 DEF LockInv, Critical, Pending
  <1> HIDE DEF n
  <1>7. ASSUME NEW v \in Pending'
        PROVE  v \in Pending /\ Number'[v] = Number[v] - 1
    <2>1. v \in Pending /\ v # w /\ v \in Workers
      BY <1>2 DEF Pending
    <2>2. ticket[v] \in Words /\ ticket[v] # serving /\ ticket'[v] = ticket[v]
      BY <2>1, <1>4, <1>5
    <2>3. (Offset(ticket[v]))' = Offset(ticket[v]) - 1
      BY <2>2, <1>4, ConstantFacts DEF Offset, Inc, Words
    <2> QED BY <2>1, <2>3 DEF Number
  <1>8. ASSUME NEW i \in 1..(n - 1)
        PROVE  Queue'[i] = Queue[i + 1]
    <2>1. Queue'[i] \in Pending' /\ Number'[Queue'[i]] = i - 1
      BY <1>3, QueueSeqPrime
    <2>2. Queue'[i] \in Pending /\ Number[Queue'[i]] \in Int
      BY <2>1, <1>7, QueueIsListing
    <2>3. Number[Queue'[i]] = i
      BY <2>1, <2>2, <1>3, <1>7
    <2>4. Queue[Number[Queue'[i]] + 1] = Queue'[i]
      BY <2>2, QueueSeq
    <2> QED BY <2>3, <2>4
  <1>9. Queue' = Tail(Queue)
    <2>1. Queue \in Seq(Workers) /\ Len(Queue) = n
      BY QueueSeq DEF n
    <2>2. Queue' \in Seq(Workers) /\ Len(Queue') = n - 1
      BY <1>3, QueueSeqPrime
    <2>3. Tail(Queue) \in Seq(Workers) /\ Len(Tail(Queue)) = n - 1
      BY <1>3, <2>1
    <2>4. \A i \in 1..(n - 1) : Tail(Queue)[i] = Queue[i + 1]
      BY <1>3, <2>1
    <2> QED BY <1>3, <1>8, <2>2, <2>3, <2>4
  <1> QED BY <1>1, <1>6, <1>9 DEF Fifo!Leave

(* Every other step leaves the queue and the critical section alone.       *)
LEMMA OtherStepsStutter ==
    ASSUME TypeOK, NEW w \in Workers,
           LoadCounter(w) \/ StoreCounter(w) \/ BarrierStep(w)
    PROVE  UNCHANGED <<Queue, Critical>>
  <1>1. Pending' = Pending /\ Critical' = Critical
    BY DEF LoadCounter, StoreCounter, BarrierStep, ReadGeneration, Arrive,
           ResetArrived, Goto, BumpGeneration, SeeRelease, ReloadGeneration,
           Pending, Critical, CriticalPlaces, TypeOK
  <1>2. UNCHANGED <<serving, ticket>>
    BY DEF LoadCounter, StoreCounter, BarrierStep, ReadGeneration, Arrive,
           ResetArrived, Return, BumpGeneration, SeeRelease, ReloadGeneration,
           lock, locals
  <1> QED BY <1>1, <1>2 DEF Queue, Offset

(* The ticket lock implements the FIFO lock for any number of workers that *)
(* the words can tell apart, across every wrap: requests are served one at *)
(* a time, in the order in which acquire() drew the tickets.               *)
THEOREM LockIsFifo == Spec => ImplementsFifoLock
  <1>1. Init => Fifo!Init
    <2> SUFFICES ASSUME Init PROVE Fifo!Init
      OBVIOUS
    <2>1. Pending = {} /\ Critical = {}
      BY DEF Init, Pending, Critical, CriticalPlaces
    <2>2. Queue = <<>>
      BY <2>1, FS_EmptySet DEF Queue
    <2> QED BY <2>1, <2>2 DEF Fifo!Init
  <1>2. SyncInv /\ SyncInv' /\ [Next]_vars => [Fifo!Next]_(Fifo!lockVars)
    <2> SUFFICES ASSUME SyncInv, SyncInv', [Next]_vars
                 PROVE  Fifo!Next \/ UNCHANGED <<Queue, Critical>>
      BY DEF Fifo!lockVars
    <2>1. TypeOK /\ LockInv /\ TypeOK' /\ LockInv'
      BY DEF SyncInv
    <2>2. ASSUME NEW w \in Workers, TakeTicket(w) PROVE Fifo!Next
      BY <2>1, <2>2, TakeTicketIsRequest DEF Fifo!Next
    <2>3. ASSUME NEW w \in Workers, Enter(w) PROVE Fifo!Next
      BY <2>1, <2>3, EnterIsEnter DEF Fifo!Next
    <2>4. ASSUME NEW w \in Workers, Release(w) PROVE Fifo!Next
      BY <2>1, <2>4, ReleaseIsLeave DEF Fifo!Next
    <2>5. ASSUME NEW w \in Workers,
                 LoadCounter(w) \/ StoreCounter(w) \/ BarrierStep(w)
          PROVE  UNCHANGED <<Queue, Critical>>
      BY <2>1, <2>5, OtherStepsStutter
    <2>6. CASE UNCHANGED vars
      BY <2>6 DEF vars, lock, locals, Queue, Offset, Pending, Critical
    <2> QED BY <2>2, <2>3, <2>4, <2>5, <2>6 DEF Next, Step, LockStep
  <1> QED BY <1>1, <1>2, SyncInvariant, PTL
          DEF Spec, ImplementsFifoLock, Fifo!Spec
=============================================================================
