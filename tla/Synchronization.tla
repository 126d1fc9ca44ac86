--------------------------- MODULE Synchronization ---------------------------
(***************************************************************************)
(* src/synchronization.zig: the ticket lock and the reusable barrier, run  *)
(* by concurrent workers as runWorker() does.  One action is one atomic    *)
(* access to shared memory; the counter the lock protects is read and      *)
(* written in two steps.  The 32-bit words wrap at Modulus.                *)
(*                                                                         *)
(* The checksum is updated beside the counter and left out.                *)
(***************************************************************************)
EXTENDS Integers, FiniteSets

CONSTANTS Workers,      \* Barrier.participants workers
          Modulus,      \* 2^32 in the code
          Iterations,   \* critical sections of one runWorker() call
          Rounds        \* bound: how often the experiment is run

ASSUME WorkersAssumption == /\ IsFiniteSet(Workers)
                            /\ Cardinality(Workers) >= 2
                            /\ Cardinality(Workers) <= Modulus
ASSUME BoundsAssumption == /\ Modulus \in Nat
                           /\ Iterations \in Nat \ {0}
                           /\ Rounds \in Nat

Participants == Cardinality(Workers)
Words == 0..(Modulus - 1)
Inc(x) == IF x = Modulus - 1 THEN 0 ELSE x + 1    \* x +% 1

VARIABLES next, serving,        \* TicketLock
          arrived, generation,  \* Barrier
          counter,              \* Experiment.counter
          pc,                   \* where each worker is
          ticket, loaded, seen, \* its local copies: ticket, counter, generation
          iteration, round,     \* its loop counters
          result                \* its last WorkerResult.final_barrier_generation

lock    == <<next, serving>>
barrier == <<arrived, generation>>
locals  == <<ticket, loaded, seen, iteration, round, result>>
vars    == <<lock, barrier, counter, pc, locals>>

Init ==
    /\ next = 0 /\ serving = 0
    /\ arrived = 0 /\ generation = 0
    /\ counter = 0
    /\ pc = [w \in Workers |-> "ticket"]
    /\ ticket = [w \in Workers |-> 0]
    /\ loaded = [w \in Workers |-> 0]
    /\ seen = [w \in Workers |-> 0]
    /\ iteration = [w \in Workers |-> 0]
    /\ round = [w \in Workers |-> 0]
    /\ result = [w \in Workers |-> 0]

Goto(w, from, to) == pc[w] = from /\ pc' = [pc EXCEPT ![w] = to]

-----------------------------------------------------------------------------
(* TicketLock and the critical section.                                    *)

TakeTicket(w) ==
    /\ round[w] < Rounds
    /\ Goto(w, "ticket", "spin")
    /\ ticket' = [ticket EXCEPT ![w] = next]
    /\ next' = Inc(next)
    /\ UNCHANGED <<serving, barrier, counter, loaded, seen, iteration, round,
                   result>>

(* Mutant: the spin loop is left after any load.                           *)
EnterUnchecked(w) ==
    /\ Goto(w, "spin", "load")
    /\ UNCHANGED <<lock, barrier, counter, locals>>

(* The spin loop's last load: the only one that ends it.                   *)
Enter(w) ==
    /\ Goto(w, "spin", "load")
    /\ serving = ticket[w]
    /\ UNCHANGED <<lock, barrier, counter, locals>>

(* Mutant: the lock is released as soon as the counter has been read.      *)
LoadCounterAndRelease(w) ==
    /\ Goto(w, "load", "store")
    /\ loaded' = [loaded EXCEPT ![w] = counter]
    /\ serving' = Inc(serving)
    /\ UNCHANGED <<next, barrier, counter, ticket, seen, iteration, round, result>>

LoadCounter(w) ==
    /\ Goto(w, "load", "store")
    /\ loaded' = [loaded EXCEPT ![w] = counter]
    /\ UNCHANGED <<lock, barrier, counter, ticket, seen, iteration, round, result>>

StoreCounter(w) ==
    /\ Goto(w, "store", "release")
    /\ counter' = loaded[w] + 1
    /\ UNCHANGED <<lock, barrier, locals>>

Release(w) ==
    /\ Goto(w, "release",
            IF iteration[w] + 1 = Iterations THEN "generation" ELSE "ticket")
    /\ serving' = Inc(serving)
    /\ iteration' = [iteration EXCEPT ![w] = @ + 1]
    /\ UNCHANGED <<next, barrier, counter, ticket, loaded, seen, round, result>>

-----------------------------------------------------------------------------
(* Barrier.wait().                                                         *)

ReadGeneration(w) ==
    /\ Goto(w, "generation", "arrive")
    /\ seen' = [seen EXCEPT ![w] = generation]
    /\ UNCHANGED <<lock, barrier, counter, ticket, loaded, iteration, round, result>>

Arrive(w) ==
    /\ Goto(w, "arrive", IF arrived + 1 = Participants THEN "reset" ELSE "wait")
    /\ arrived' = arrived + 1
    /\ UNCHANGED <<lock, generation, counter, locals>>

(* Mutant: the arrival count is not reset.                                 *)
ResetArrivedSkipped(w) ==
    /\ Goto(w, "reset", "bump")
    /\ UNCHANGED <<lock, barrier, counter, locals>>

ResetArrived(w) ==
    /\ Goto(w, "reset", "bump")
    /\ arrived' = 0
    /\ UNCHANGED <<lock, generation, counter, locals>>

(* runWorker() returns and is called again.                                *)
Return(w, value) ==
    /\ result' = [result EXCEPT ![w] = value]
    /\ round' = [round EXCEPT ![w] = @ + 1]
    /\ iteration' = [iteration EXCEPT ![w] = 0]
    /\ UNCHANGED <<lock, arrived, counter, ticket, loaded, seen>>

(* Mutant: the last arrival returns the generation it had read.            *)
BumpGenerationStale(w) ==
    /\ Goto(w, "bump", "ticket")
    /\ generation' = Inc(generation)
    /\ Return(w, seen[w])

(* The last arrival returns the generation it had read, plus one.          *)
BumpGeneration(w) ==
    /\ Goto(w, "bump", "ticket")
    /\ generation' = Inc(generation)
    /\ Return(w, Inc(seen[w]))

(* The others see the word change, then load it once more.                 *)
SeeRelease(w) ==
    /\ Goto(w, "wait", "reload")
    /\ generation # seen[w]
    /\ UNCHANGED <<lock, barrier, counter, locals>>

ReloadGeneration(w) ==
    /\ Goto(w, "reload", "ticket")
    /\ Return(w, generation)
    /\ UNCHANGED generation

-----------------------------------------------------------------------------
LockStep(w) == \/ TakeTicket(w) \/ Enter(w) \/ LoadCounter(w)
               \/ StoreCounter(w) \/ Release(w)
BarrierStep(w) == \/ ReadGeneration(w) \/ Arrive(w) \/ ResetArrived(w)
                  \/ BumpGeneration(w) \/ SeeRelease(w) \/ ReloadGeneration(w)
Step(w) == LockStep(w) \/ BarrierStep(w)

Finished == \A w \in Workers : pc[w] = "ticket" /\ round[w] = Rounds

Next == \E w \in Workers : Step(w)

Spec == Init /\ [][Next]_vars

(* Each worker is a processor of its own and keeps executing.              *)
FairSpec == Spec /\ \A w \in Workers : WF_vars(Step(w))

-----------------------------------------------------------------------------
(* Properties.                                                             *)

Places == {"ticket", "spin", "load", "store", "release", "generation",
           "arrive", "reset", "bump", "wait", "reload"}
TypeOK ==
    /\ next \in Words /\ serving \in Words
    /\ arrived \in 0..Participants /\ generation \in Words
    /\ counter \in Nat
    /\ pc \in [Workers -> Places]
    /\ ticket \in [Workers -> Words]
    /\ loaded \in [Workers -> Nat]
    /\ seen \in [Workers -> Words]
    /\ iteration \in [Workers -> 0..Iterations]
    /\ round \in [Workers -> 0..Rounds]
    /\ result \in [Workers -> Words]

CriticalPlaces == {"load", "store", "release"}
Critical == {w \in Workers : pc[w] \in CriticalPlaces}
Pending  == {w \in Workers : pc[w] \in CriticalPlaces \cup {"spin"}}

(* At most one worker is between acquire() and release(), also once the    *)
(* 32-bit ticket words have wrapped.                                       *)
MutualExclusion == \A v, w \in Critical : v = w

(* The worker that is about to store holds the current counter: no update  *)
(* of the unsynchronised counter is ever lost.                             *)
NoLostUpdate == \A w \in Workers : pc[w] = "store" => loaded[w] = counter

(* The ticket arithmetic.  A worker's offset is the number of releases that *)
(* must come before it enters.                                             *)
Wrap(x) == IF x >= Modulus THEN x - Modulus ELSE x
Offset(t) == IF t >= serving THEN t - serving ELSE t - serving + Modulus

(* The tickets between serving and next are exactly the pending workers'   *)
(* ones, each held once: acquire() never hands out a ticket still in use,  *)
(* and no release leaves serving at a ticket nobody holds.                 *)
TicketsExact ==
    /\ next = Wrap(serving + Cardinality(Pending))
    /\ \A w \in Pending : Offset(ticket[w]) < Cardinality(Pending)
    /\ \A v, w \in Pending : ticket[v] = ticket[w] => v = w

(* Nobody leaves a round of the barrier before everybody has entered it.   *)
BeforeBarrier == {"ticket", "spin", "load", "store", "release", "generation",
                  "arrive"}
Arrivals(w) == IF pc[w] \in BeforeBarrier THEN round[w] ELSE round[w] + 1
BarrierHolds == \A v, w \in Workers : round[w] <= Arrivals(v)

(* The inductive invariant.  The tickets between serving and next are the  *)
(* pending workers' ones, each held once; in the barrier's current round R *)
(* a worker is before the barrier, has arrived, or has yet to leave round  *)
(* R - 1; and from the last arrival to the new generation all have arrived.*)
LockInv == /\ TicketsExact
           /\ \A w \in Critical : ticket[w] = serving

LocalBounds ==
    \A w \in Workers :
        /\ pc[w] # "ticket" => round[w] < Rounds
        /\ pc[w] \in {"ticket", "spin"} \cup CriticalPlaces => iteration[w] < Iterations

Arrived(R) == {w \in Workers : pc[w] \in {"wait", "reset"} /\ round[w] = R}
Completing(w) == pc[w] \in {"reset", "bump"}

PlaceInRound(w, R) ==
    /\ pc[w] \in BeforeBarrier => round[w] = R
    /\ pc[w] = "arrive" => seen[w] = generation
    /\ Completing(w) => round[w] = R /\ seen[w] = generation
    /\ pc[w] = "wait" => \/ round[w] = R /\ seen[w] = generation
                         \/ round[w] = R - 1 /\ Inc(seen[w]) = generation
    /\ pc[w] = "reload" => round[w] = R - 1

BarrierAt(R) ==
    /\ \A w \in Workers : PlaceInRound(w, R)
    /\ \A w \in Workers : Completing(w) =>
          \A v \in Workers \ {w} : pc[v] = "wait" /\ round[v] = R
    /\ arrived = IF \E w \in Workers : pc[w] = "bump" THEN 0
                 ELSE Cardinality(Arrived(R))

BarrierInv == \E R \in 0..Rounds : BarrierAt(R)

SyncInv == TypeOK /\ LockInv /\ NoLostUpdate /\ LocalBounds /\ BarrierInv

(* wait() returns the same generation to every participant of a round,     *)
(* although all but the last load it again after having been released.     *)
SameGeneration == \A w \in Workers : result[w] = round[w] % Modulus

(* The reused barrier: nobody leaves early, and those who leave a round    *)
(* agree on its generation, also once the word has wrapped.                *)
BarrierCorrect == BarrierHolds /\ SameGeneration

(* What makes SameGeneration inductive: the generation word counts the     *)
(* barrier's current round.                                                *)
GenerationInv ==
    /\ SameGeneration
    /\ \E R \in 0..Rounds : BarrierAt(R) /\ generation = R % Modulus

(* The lock and its waiters implement a FIFO queue: service is in the      *)
(* order in which tickets were taken.                                      *)
Queue == [i \in 1..Cardinality(Pending) |->
            CHOOSE w \in Pending : Offset(ticket[w]) = i - 1]
Fifo == INSTANCE FifoLock WITH queue <- Queue, inside <- Critical
ImplementsFifoLock == Fifo!Spec

(* Every worker finishes every round: neither the lock nor the reused      *)
(* barrier ever leaves anyone spinning.                                    *)
AllFinish == <>Finished
=============================================================================
