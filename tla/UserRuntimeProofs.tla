-------------------------- MODULE UserRuntimeProofs --------------------------
(***************************************************************************)
(* Proofs about modules ProcessTable and UserRuntime, for any number of    *)
(* slots, PIDs and I/O keys.  First what the operations of ProcessTable    *)
(* keep of the table: the family tree and its child counts, the waits of   *)
(* blocked parents, and the identity of every process.  Then, on those     *)
(* lemmas, the properties of UserRuntime's runs are invariants of every    *)
(* handler of the dispatcher, the timer, the terminal and the process      *)
(* system calls.                                                           *)
(***************************************************************************)
EXTENDS UserRuntime, FiniteSetTheorems, TLAPS

-----------------------------------------------------------------------------
(* The table                                                               *)

Reasons == {"none", "sleep", "io", "terminal_read", "child"}
Targets == Seq(Nat \cup IoKeys)
Record  == [used: BOOLEAN, gen: Nat, pid: Nat, parent: Slots \cup {NoSlot},
            group: Nat, state: States, reason: Reasons, target: Targets,
            wgroup: BOOLEAN, seq: Nat, kids: Nat]

Waiting(r) == r.state = "blocked" /\ r.reason = "child"
Reading(r) == r.state = "blocked" /\ r.reason = "terminal_read"
Awaited(p, s) == {c \in Children(p, s) : WaitCovers(p, p[s], c)}

(* The table's invariant.  A used slot has a state, init is never reaped,  *)
(* every other process hangs below init or a parent that can wait for it,  *)
(* child counts are exact, and no wait has lost its wakeup.                *)
SlotsUsed(p) ==
    /\ \A s \in Slots : p[s].used <=> p[s].state # "free"
    /\ \A s \in Slots : p[s].used => p[s].group # 0
    /\ \A s \in Slots : ~p[s].used => p[s].kids = 0

Rooted(p) ==
    /\ p[InitSlot].used /\ p[InitSlot].parent = NoSlot
    /\ \A s \in Slots \ {InitSlot} : p[s].used =>
          /\ p[s].parent \in Slots \ {s}
          /\ \/ p[s].parent = InitSlot
             \/ p[p[s].parent].used /\ ~Terminal(p[p[s].parent])

KidsCounted(p) ==
    \A s \in Slots : p[s].used => p[s].kids = Cardinality(Children(p, s))

WaitsServed(p) ==
    /\ \A s \in Slots : Waiting(p[s]) =>
          /\ Awaited(p, s) # {}
          /\ s # InitSlot \/ Len(p[s].target) = 2 =>
                \A c \in Awaited(p, s) : ~Terminal(p[c])
    /\ \A s \in Slots : Reading(p[s]) => p[s].target = NoTarget

Shape(p)    == p \in [Slots -> Record]
Family(p)   == Shape(p) /\ SlotsUsed(p) /\ Rooted(p) /\ KidsCounted(p)
TableInv(p) == Family(p) /\ WaitsServed(p)

-----------------------------------------------------------------------------
(* Natural numbers and slots.                                              *)

(* Every nonempty set of numbers has a least one.                          *)
LEMMA LeastNumber ==
    ASSUME NEW S \in SUBSET Nat, S # {}
    PROVE  \E x \in S : \A y \in S : x <= y
  <1>1. IsWellFoundedOn(OpToRel(<, Nat), Nat)
    BY NatLessThanWellFounded
  <1>2. PICK x \in S : \A y \in S : ~ (<<y, x>> \in OpToRel(<, Nat))
    BY <1>1, WFMin, Zenon
  <1>3. \A y \in S : ~ (y < x)
    BY <1>2 DEF OpToRel
  <1> QED BY <1>3

(* Induction, with the property given as the set of numbers that have it.  *)
LEMMA SetInduction ==
    ASSUME NEW S, 0 \in S, \A n \in Nat : n \in S => n + 1 \in S
    PROVE  \A n \in Nat : n \in S
  <1> DEFINE T == {n \in Nat : n \notin S}
  <1> SUFFICES ASSUME T # {} PROVE FALSE
    OBVIOUS
  <1>1. PICK x \in T : \A y \in T : x <= y
    <2> HIDE DEF T
    <2>1. T \subseteq Nat
      BY DEF T
    <2> QED BY <2>1, LeastNumber
  <1>2. x # 0 /\ x \in Nat
    OBVIOUS
  <1>3. x - 1 \in T
    BY <1>2
  <1> QED BY <1>1, <1>2, <1>3

(* The table has NumSlots slots; slot 0 is init's and invalid_slot is none *)
(* of them.                                                                *)
LEMMA SlotFacts ==
    /\ NumSlots \in Nat /\ NumSlots > 0
    /\ InitSlot \in Slots /\ NoSlot \notin Slots /\ Slots \subseteq Nat
    /\ IsFiniteSet(Slots) /\ Cardinality(Slots) = NumSlots
  <1>1. NumSlots \in Nat /\ NumSlots > 0
    BY TableAssumption
  <1>2. IsFiniteSet(0..(NumSlots - 1)) /\ Cardinality(0..(NumSlots - 1)) = NumSlots
    BY <1>1, FS_Interval
  <1> QED BY <1>1, <1>2 DEF Slots, InitSlot, NoSlot

(* Targets of different lengths differ, and a handle names one slot.       *)
LEMMA TargetFacts ==
    /\ NoTarget \in Targets
    /\ \A k \in IoKeys : <<k>> \in Targets
    /\ \A g \in Nat : <<g>> \in Targets
    /\ \A s \in Slots, n \in Nat : <<s, n>> \in Targets
  BY SlotFacts DEF NoTarget, Targets

(* The children of a slot are finitely many slots.                         *)
LEMMA ChildrenFinite ==
    ASSUME NEW p, NEW s
    PROVE  /\ IsFiniteSet(Children(p, s)) /\ Cardinality(Children(p, s)) \in Nat
           /\ Cardinality(Children(p, s)) <= NumSlots
  <1>1. Children(p, s) \in SUBSET Slots
    BY DEF Children
  <1> QED BY <1>1, SlotFacts, FS_Subset, FS_CardinalityType

(* A record of the table, field by field.                                  *)
LEMMA RecordFields ==
    ASSUME NEW r \in Record
    PROVE  /\ r.used \in BOOLEAN /\ r.gen \in Nat /\ r.pid \in Nat
           /\ r.parent \in Slots \cup {NoSlot} /\ r.group \in Nat
           /\ r.state \in States /\ r.reason \in Reasons /\ r.target \in Targets
           /\ r.wgroup \in BOOLEAN /\ r.seq \in Nat /\ r.kids \in Nat
  BY DEF Record

-----------------------------------------------------------------------------
(* Changes of state.                                                       *)

SameProcess(r, q) ==
    q.used = r.used /\ q.gen = r.gen /\ q.pid = r.pid /\ q.group = r.group

(* A change of state that neither ends a process nor starts a wait for a   *)
(* child.                                                                  *)
Calm(r, q) ==
    /\ q \in Record /\ SameProcess(r, q)
    /\ q.parent = r.parent /\ q.kids = r.kids /\ q.seq = r.seq
    /\ Terminal(r) \/ Terminal(q) => q.state = r.state
    /\ q.state = "free" <=> r.state = "free"
    /\ q = r \/ (~Waiting(q) /\ (Reading(q) => q.target = NoTarget))

(* Leaving a process alone is a change of that kind.                       *)
LEMMA CalmSame ==
    ASSUME NEW r \in Record
    PROVE  Calm(r, r)
  BY DEF Calm, SameProcess

(* Such changes keep the family tree and the child counts.                 *)
LEMMA CalmFamily ==
    ASSUME NEW p, NEW q, Family(p), q \in [Slots -> Record],
           \A s \in Slots : Calm(p[s], q[s])
    PROVE  /\ Family(q)
           /\ \A s \in Slots : Children(q, s) = Children(p, s)
  <1>1. \A s \in Slots : Children(q, s) = Children(p, s)
    BY DEF Calm, SameProcess, Children
  <1>2. SlotsUsed(q)
    BY DEF Calm, SameProcess, SlotsUsed, Family
  <1>3. Rooted(q)
    <2>1. Rooted(p)
      BY DEF Family
    <2>2. \A s \in Slots : /\ q[s].used = p[s].used /\ q[s].parent = p[s].parent
                           /\ Terminal(q[s]) => Terminal(p[s])
      BY DEF Calm, SameProcess, Terminal
    <2> QED BY <2>1, <2>2, SlotFacts DEF Rooted
  <1>4. KidsCounted(q)
    BY <1>1 DEF Calm, SameProcess, KidsCounted, Family
  <1> QED BY <1>1, <1>2, <1>3, <1>4 DEF Family, Shape

(* They also keep every wait of a blocked parent.                          *)
LEMMA CalmTable ==
    ASSUME NEW p, NEW q, TableInv(p), q \in [Slots -> Record],
           \A s \in Slots : Calm(p[s], q[s])
    PROVE  TableInv(q)
  <1>1. Family(q) /\ \A s \in Slots : Children(q, s) = Children(p, s)
    BY CalmFamily DEF TableInv
  <1>2. \A s \in Slots : /\ q[s].gen = p[s].gen /\ q[s].group = p[s].group
                         /\ Terminal(q[s]) => Terminal(p[s])
    BY DEF Calm, SameProcess, Terminal
  <1>3. ASSUME NEW s \in Slots, q[s] = p[s]
        PROVE  Awaited(q, s) = Awaited(p, s)
    <2>1. \A c \in Children(p, s) : WaitCovers(q, q[s], c) <=> WaitCovers(p, p[s], c)
      BY <1>2, <1>3 DEF WaitCovers, HandleOf, Children
    <2> QED BY <1>1, <2>1 DEF Awaited
  <1>4. \A s \in Slots : Awaited(p, s) \subseteq Slots
    BY DEF Awaited, Children
  <1>5. WaitsServed(q)
    <2>1. WaitsServed(p)
      BY DEF TableInv
    <2>2. \A s \in Slots : q[s] = p[s] \/ ~Waiting(q[s])
      BY DEF Calm
    <2>3. \A s \in Slots : q[s] = p[s] \/ (Reading(q[s]) => q[s].target = NoTarget)
      BY DEF Calm
    <2> QED BY <1>2, <1>3, <1>4, <2>1, <2>2, <2>3 DEF WaitsServed
  <1> QED BY <1>1, <1>5 DEF TableInv

(* The updates of one record.                                              *)
LEMMA WakeSlotCalm ==
    ASSUME NEW r \in Record, ~Terminal(r), r.state # "free"
    PROVE  /\ Calm(r, WakeSlot(r)) /\ WakeSlot(r).state = "runnable"
           /\ Calm(r, [WakeSlot(r) EXCEPT !.state = "running"])
           /\ [WakeSlot(r) EXCEPT !.state = "running"].state = "running"
  <1>1. NoTarget \in Targets /\ "none" \in Reasons
    BY TargetFacts DEF Reasons
  <1>2. "runnable" \in States /\ "running" \in States
    BY DEF States
  <1> HIDE DEF NoTarget
  <1> QED BY <1>1, <1>2 DEF WakeSlot, Record, Calm, SameProcess, Terminal, Waiting, Reading

(* The other updates, named so that the provers can match them.            *)
InState(r, st)       == [r EXCEPT !.state = st]
InStateFor(r, st, re) == [r EXCEPT !.state = st, !.reason = re]
Released(r) == [r EXCEPT !.state = "runnable", !.reason = "none", !.target = NoTarget]
BlockedOn(r, re, t)  == [r EXCEPT !.state = "blocked", !.reason = re,
                                  !.target = t, !.wgroup = FALSE]

(* Stopping, continuing and sleeping change a state and a wait reason.     *)
LEMMA StateOnlyCalm ==
    ASSUME NEW r \in Record, ~Terminal(r), r.state # "free",
           NEW st \in {"runnable", "stopped", "sleeping"}, NEW re \in {"none", "sleep"}
    PROVE  /\ Calm(r, InState(r, st)) /\ InState(r, st).state = st
           /\ Calm(r, InStateFor(r, st, re)) /\ InStateFor(r, st, re).state = st
  <1>1. st \in States /\ re \in Reasons
    BY DEF States, Reasons
  <1> QED BY <1>1 DEF InState, InStateFor, Record, Calm, SameProcess, Terminal,
                      Waiting, Reading

(* A wakeup through wakeMatching() is such a change.                       *)
LEMMA MatchedCalm ==
    ASSUME NEW r \in Record, ~Terminal(r), r.state # "free"
    PROVE  Calm(r, Released(r)) /\ Released(r).state = "runnable"
  <1>1. NoTarget \in Targets /\ "none" \in Reasons /\ "runnable" \in States
    BY TargetFacts DEF Reasons, States
  <1> HIDE DEF NoTarget
  <1> QED BY <1>1 DEF Released, Record, Calm, SameProcess, Terminal, Waiting, Reading

(* Blocking on I/O or on the terminal is such a change.                    *)
LEMMA BlockCalm ==
    ASSUME NEW r \in Record, ~Terminal(r), r.state # "free",
           NEW t \in Targets, NEW re \in {"io", "terminal_read"},
           re = "terminal_read" => t = NoTarget
    PROVE  /\ Calm(r, BlockedOn(r, re, t))
           /\ BlockedOn(r, re, t).state = "blocked"
           /\ BlockedOn(r, re, t).reason = re
  <1>1. re \in Reasons /\ "blocked" \in States
    BY DEF Reasons, States
  <1> HIDE DEF NoTarget
  <1> QED BY <1>1 DEF BlockedOn, Record, Calm, SameProcess, Terminal, Waiting, Reading

-----------------------------------------------------------------------------
(* The table operations that change states only.                           *)

CalmStep(p, q) == q \in [Slots -> Record] /\ \A s \in Slots : Calm(p[s], q[s])

(* One slot is updated.                                                    *)
LEMMA CalmUpdate ==
    ASSUME NEW p, Shape(p), NEW s \in Slots, NEW r, Calm(p[s], r)
    PROVE  CalmStep(p, [p EXCEPT ![s] = r])
  BY CalmSame DEF CalmStep, Shape, Calm

(* setRunnable() wakes one process, unless it is terminal.                 *)
LEMMA SetRunnableCalm ==
    ASSUME NEW p, Shape(p), NEW s \in Slots, p[s].state # "free"
    PROVE  /\ CalmStep(p, SetRunnable(p, s))
           /\ \A x \in Slots \ {s} : SetRunnable(p, s)[x] = p[x]
           /\ SetRunnable(p, s)[s].state =
                 IF Terminal(p[s]) THEN p[s].state ELSE "runnable"
  <1>1. p[s] \in Record
    BY DEF Shape
  <1>2. CASE Terminal(p[s])
    BY <1>2, CalmSame DEF SetRunnable, CalmStep, Shape
  <1>3. CASE ~Terminal(p[s])
    <2>1. Calm(p[s], WakeSlot(p[s])) /\ WakeSlot(p[s]).state = "runnable"
      BY <1>1, <1>3, WakeSlotCalm
    <2>2. SetRunnable(p, s) = [p EXCEPT ![s] = WakeSlot(p[s])]
      BY <1>3 DEF SetRunnable
    <2>3. CalmStep(p, [p EXCEPT ![s] = WakeSlot(p[s])])
      BY <2>1, CalmUpdate
    <2> QED BY <1>3, <2>1, <2>2, <2>3 DEF Shape
  <1> QED BY <1>2, <1>3

(* setRunning() demotes whoever ran and leaves one process running.        *)
LEMMA SetRunningCalm ==
    ASSUME NEW p, Shape(p), NEW s \in Slots, p[s].state = "runnable"
    PROVE  /\ CalmStep(p, SetRunning(p, s))
           /\ \A x \in Slots \ {s} : SetRunning(p, s)[x].state # "running"
                                     \/ ~p[x].used
           /\ \A x \in Slots : Reading(SetRunning(p, s)[x]) =>
                                  x # s /\ SetRunning(p, s)[x] = p[x]
           /\ SetRunning(p, s)[s].state = "running"
  <1> DEFINE q == SetRunning(p, s)
  <1>1. ASSUME NEW x \in Slots
        PROVE  /\ Calm(p[x], q[x])
               /\ x # s => q[x].state # "running" \/ ~p[x].used
               /\ Reading(q[x]) => x # s /\ q[x] = p[x]
               /\ x = s => q[x].state = "running"
    <2>1. p[x] \in Record
      BY DEF Shape
    <2>2. CASE x = s
      <3>1. q[x] = [WakeSlot(p[x]) EXCEPT !.state = "running"]
        BY <2>2 DEF SetRunning
      <3> QED BY <2>1, <2>2, <3>1, WakeSlotCalm DEF Terminal, Reading
    <2>3. CASE x # s /\ p[x].used /\ p[x].state = "running"
      <3>1. q[x] = InState(p[x], "runnable")
        BY <2>3 DEF SetRunning, InState
      <3> QED BY <2>1, <2>3, <3>1, StateOnlyCalm DEF Terminal, Reading
    <2>4. CASE x # s /\ ~(p[x].used /\ p[x].state = "running")
      <3>1. q[x] = p[x]
        BY <2>4 DEF SetRunning
      <3> QED BY <2>1, <2>4, <3>1, CalmSame
    <2> QED BY <2>2, <2>3, <2>4
  <1>2. q \in [Slots -> Record]
    <2>1. q = [x \in Slots |-> q[x]]
      BY DEF SetRunning
    <2> QED BY <1>1, <2>1 DEF Calm
  <1> QED BY <1>1, <1>2 DEF CalmStep

(* sleep() changes the caller alone.                                       *)
LEMMA SleepCalm ==
    ASSUME NEW p, Shape(p), NEW s \in Slots, ~Terminal(p[s]), p[s].state # "free"
    PROVE  /\ CalmStep(p, Sleep(p, s)) /\ Sleep(p, s)[s].state = "sleeping"
           /\ \A x \in Slots \ {s} : Sleep(p, s)[x] = p[x]
  <1> DEFINE r == InStateFor(p[s], "sleeping", "sleep")
  <1>1. Calm(p[s], r) /\ r.state = "sleeping"
    BY StateOnlyCalm DEF Shape
  <1>2. Sleep(p, s) = [p EXCEPT ![s] = r]
    BY DEF Sleep, InStateFor
  <1> HIDE DEF r
  <1>3. CalmStep(p, [p EXCEPT ![s] = r])
    BY <1>1, CalmUpdate
  <1> QED BY <1>1, <1>2, <1>3 DEF Shape

(* stop() changes one process alone.                                       *)
LEMMA StopCalm ==
    ASSUME NEW p, Shape(p), NEW s \in Slots, ~Terminal(p[s]), p[s].state # "free"
    PROVE  /\ CalmStep(p, Stop(p, s)) /\ Stop(p, s)[s].state = "stopped"
           /\ \A x \in Slots \ {s} : Stop(p, s)[x] = p[x]
  <1> DEFINE r == InStateFor(p[s], "stopped", "none")
  <1>1. Calm(p[s], r) /\ r.state = "stopped"
    BY StateOnlyCalm DEF Shape
  <1>2. Stop(p, s) = [p EXCEPT ![s] = r]
    BY DEF Stop, InStateFor
  <1> HIDE DEF r
  <1>3. CalmStep(p, [p EXCEPT ![s] = r])
    BY <1>1, CalmUpdate
  <1> QED BY <1>1, <1>2, <1>3 DEF Shape

(* block() changes the caller alone.                                       *)
LEMMA BlockTableCalm ==
    ASSUME NEW p, Shape(p), NEW s \in Slots, ~Terminal(p[s]), p[s].state # "free",
           NEW t \in Targets, NEW re \in {"io", "terminal_read"},
           re = "terminal_read" => t = NoTarget
    PROVE  /\ CalmStep(p, Block(p, s, re, t)) /\ Block(p, s, re, t)[s].state = "blocked"
           /\ Block(p, s, re, t)[s].reason = re
           /\ \A x \in Slots \ {s} : Block(p, s, re, t)[x] = p[x]
  <1> DEFINE r == BlockedOn(p[s], re, t)
  <1>1. Calm(p[s], r) /\ r.state = "blocked" /\ r.reason = re
    <2>1. p[s] \in Record
      BY DEF Shape
    <2> QED BY <2>1, BlockCalm
  <1>2. Block(p, s, re, t) = [p EXCEPT ![s] = r]
    BY DEF Block, BlockedOn
  <1> HIDE DEF r
  <1>3. CalmStep(p, [p EXCEPT ![s] = r])
    BY <1>1, CalmUpdate
  <1> QED BY <1>1, <1>2, <1>3 DEF Shape

(* wakeExpired() makes sleepers runnable and changes nobody else.          *)
LEMMA WakeExpiredCalm ==
    ASSUME NEW p, Shape(p), NEW E \in SUBSET {s \in Slots : p[s].state = "sleeping"}
    PROVE  /\ CalmStep(p, WakeExpired(p, E))
           /\ \A x \in Slots : \/ WakeExpired(p, E)[x] = p[x]
                               \/ WakeExpired(p, E)[x].state = "runnable"
  <1> DEFINE q == WakeExpired(p, E)
  <1>1. ASSUME NEW x \in Slots
        PROVE  Calm(p[x], q[x]) /\ (q[x] = p[x] \/ q[x].state = "runnable")
    <2>1. p[x] \in Record
      BY DEF Shape
    <2>2. CASE x \in E
      <3>1. q[x] = InStateFor(p[x], "runnable", "none")
        BY <2>2 DEF WakeExpired, InStateFor
      <3>2. ~Terminal(p[x]) /\ p[x].state # "free"
        <4>1. p[x].state = "sleeping"
          BY <2>2
        <4> QED BY <4>1 DEF Terminal
      <3> QED BY <2>1, <3>1, <3>2, StateOnlyCalm
    <2>3. CASE x \notin E
      <3>1. q[x] = p[x]
        BY <2>3 DEF WakeExpired
      <3> QED BY <2>1, <3>1, CalmSame
    <2> QED BY <2>2, <2>3
  <1>2. q \in [Slots -> Record]
    <2>1. q = [x \in Slots |-> q[x]]
      BY DEF WakeExpired
    <2> QED BY <1>1, <2>1 DEF Calm
  <1> QED BY <1>1, <1>2 DEF CalmStep

(* wakeMatching() makes every process with that wait runnable, and only    *)
(* blocked processes change.                                               *)
LEMMA WakeMatchingCalm ==
    ASSUME NEW p, Shape(p), NEW re, NEW t
    PROVE  /\ CalmStep(p, WakeMatching(p, re, t))
           /\ \A x \in Slots : \/ WakeMatching(p, re, t)[x] = p[x]
                               \/ WakeMatching(p, re, t)[x].state = "runnable"
           /\ \A x \in Slots :
                p[x].used /\ p[x].state = "blocked" /\ p[x].reason = re /\ p[x].target = t
                  => WakeMatching(p, re, t)[x].state = "runnable"
           /\ \A x \in Slots : p[x].state # "blocked" => WakeMatching(p, re, t)[x] = p[x]
  <1> DEFINE q == WakeMatching(p, re, t)
             hit(x) == /\ p[x].used /\ p[x].state = "blocked" /\ p[x].reason = re
                       /\ p[x].target = t
  <1>1. ASSUME NEW x \in Slots
        PROVE  /\ Calm(p[x], q[x])
               /\ hit(x) => q[x].state = "runnable"
               /\ ~hit(x) => q[x] = p[x]
    <2>1. p[x] \in Record
      BY DEF Shape
    <2>2. CASE hit(x)
      <3>1. q[x] = Released(p[x])
        BY <2>2 DEF WakeMatching, Released
      <3>2. ~Terminal(p[x]) /\ p[x].state # "free"
        BY <2>2 DEF Terminal
      <3> QED BY <2>1, <2>2, <3>1, <3>2, MatchedCalm
    <2>3. CASE ~hit(x)
      <3>1. q[x] = p[x]
        BY <2>3 DEF WakeMatching
      <3> QED BY <2>1, <2>3, <3>1, CalmSame
    <2> QED BY <2>2, <2>3
  <1>2. q \in [Slots -> Record]
    <2>1. q = [x \in Slots |-> q[x]]
      BY DEF WakeMatching
    <2> QED BY <1>1, <2>1 DEF Calm
  <1> QED BY <1>1, <1>2 DEF CalmStep

-----------------------------------------------------------------------------
(* Termination.                                                            *)

(* r becomes q, the same process with the same relatives, but terminal.    *)
EndsAs(r, q) == /\ q \in Record /\ SameProcess(r, q) /\ Terminal(q)
                /\ q.parent = r.parent /\ q.kids = r.kids

Marked(p, s, r) == ReparentChildren([p EXCEPT ![s] = r], s)
Rehung(r, o, k) == [r EXCEPT !.parent = o, !.kids = k]

(* What the end of s does to the table: s is terminal, its children pass   *)
(* to init, a parent that waits may be woken, nothing else changes.        *)
Ended(p, q, s, r) ==
    /\ q[s].state = r.state /\ q[s].seq = r.seq /\ q[s].parent = p[s].parent
    /\ \A x \in Slots : SameProcess(p[x], q[x])
    /\ \A x \in Slots \ {s} :
          /\ q[x].seq = p[x].seq
          /\ \/ q[x].state = p[x].state /\ q[x].reason = p[x].reason
             \/ Waiting(p[x]) /\ q[x].state = "runnable"

(* A record with a new parent and child count, field by field.             *)
LEMMA RehungFields ==
    ASSUME NEW r \in Record, NEW o \in Slots \cup {NoSlot}, NEW k \in Nat
    PROVE  LET q == Rehung(r, o, k)
           IN /\ q \in Record /\ SameProcess(r, q)
              /\ q.parent = o /\ q.kids = k /\ q.state = r.state
              /\ q.reason = r.reason /\ q.target = r.target
              /\ q.wgroup = r.wgroup /\ q.seq = r.seq
  BY DEF Rehung, Record, SameProcess

(* Nobody is its own parent.                                               *)
LEMMA NotOwnParent ==
    ASSUME NEW p, Family(p), NEW s \in Slots, p[s].used
    PROVE  p[s].parent # s
  BY SlotFacts DEF Family, Rooted

(* The adoption, slot by slot.                                             *)
LEMMA MarkedFields ==
    ASSUME NEW p, Family(p), NEW s \in Slots, p[s].used, NEW r, EndsAs(p[s], r)
    PROVE  LET A == Children(p, s)
               k == Cardinality(A)
               n == Marked(p, s, r)
           IN /\ n \in [Slots -> Record]
              /\ \A x \in Slots :
                    /\ SameProcess(p[x], n[x])
                    /\ n[x].parent = IF x \in A THEN InitSlot ELSE p[x].parent
                    /\ n[x].kids = IF x = s THEN IF x = InitSlot THEN k ELSE 0
                                   ELSE IF x = InitSlot THEN p[x].kids + k
                                   ELSE p[x].kids
              /\ \A x \in Slots \ {s} :
                    /\ n[x].state = p[x].state /\ n[x].reason = p[x].reason
                    /\ n[x].target = p[x].target /\ n[x].wgroup = p[x].wgroup
                    /\ n[x].seq = p[x].seq
              /\ n[s].state = r.state /\ n[s].seq = r.seq
  <1> DEFINE A == Children(p, s)
             k == Cardinality(A)
             n == Marked(p, s, r)
             m == [p EXCEPT ![s] = r]
             K(x) == IF x = s THEN IF x = InitSlot THEN k ELSE 0
                     ELSE IF x = InitSlot THEN p[x].kids + k ELSE p[x].kids
             O(x) == IF x \in A THEN InitSlot ELSE p[x].parent
  <1>1. /\ m \in [Slots -> Record] /\ m[s] = r
        /\ \A x \in Slots \ {s} : m[x] = p[x]
    BY DEF Family, Shape, EndsAs
  <1>2. \A x \in Slots : m[x].used = p[x].used /\ m[x].parent = p[x].parent
                         /\ m[x].kids = p[x].kids
    BY <1>1 DEF EndsAs, SameProcess
  <1>3. Children(m, s) = A
    BY <1>2 DEF Children
  <1>4. k \in Nat /\ p[s].kids = k
    BY ChildrenFinite DEF Family, KidsCounted
  <1>5. \A x \in Slots : p[x].kids \in Nat /\ p[x].parent \in Slots \cup {NoSlot}
    BY RecordFields DEF Family, Shape
  <1>6. \A x \in Slots : K(x) \in Nat /\ O(x) \in Slots \cup {NoSlot}
    BY <1>4, <1>5, SlotFacts
  <1>7. ASSUME NEW x \in Slots
        PROVE  n[x] = Rehung(m[x], O(x), K(x))
    <2>1. n[x] = [m[x] EXCEPT
              !.parent = IF x \in A THEN InitSlot ELSE m[x].parent,
              !.kids = LET j == IF x = s THEN Monus(m[x].kids, k) ELSE m[x].kids
                       IN IF x = InitSlot THEN j + k ELSE j]
      <3>1. n = ReparentChildren(m, s)
        BY DEF Marked
      <3> HIDE DEF m, n, A
      <3> QED BY <1>3, <3>1 DEF ReparentChildren
    <2>2. Monus(k, k) = 0 /\ 0 + k = k
      BY <1>4 DEF Monus
    <2>3. K(x) = LET j == IF x = s THEN Monus(m[x].kids, k) ELSE m[x].kids
                 IN IF x = InitSlot THEN j + k ELSE j
      BY <1>2, <1>4, <2>2
    <2> HIDE DEF K, m, n, A, k
    <2> QED BY <2>1, <2>3, <1>2 DEF Rehung
  <1>8. n = [x \in Slots |-> n[x]]
    BY DEF Marked, ReparentChildren
  <1> HIDE DEF K, O, m, n, A, k
  <1>9. ASSUME NEW x \in Slots
        PROVE  /\ n[x] \in Record /\ SameProcess(m[x], n[x])
               /\ n[x].parent = O(x) /\ n[x].kids = K(x)
               /\ n[x].state = m[x].state /\ n[x].reason = m[x].reason
               /\ n[x].target = m[x].target /\ n[x].wgroup = m[x].wgroup
               /\ n[x].seq = m[x].seq
    BY <1>1, <1>6, <1>7, RehungFields
  <1>10. n \in [Slots -> Record]
    BY <1>8, <1>9
  <1>11. \A x \in Slots : SameProcess(p[x], n[x])
    BY <1>1, <1>9 DEF SameProcess, EndsAs
  <1> QED BY <1>1, <1>9, <1>10, <1>11 DEF K, O, A, k, n

(* Adoption keeps the tree and its counts.                                 *)
LEMMA MarkedFamily ==
    ASSUME NEW p, Family(p), NEW s \in Slots, p[s].used, NEW r, EndsAs(p[s], r)
    PROVE  LET n == Marked(p, s, r)
           IN /\ Family(n)
              /\ n[s].parent = p[s].parent
              /\ \A x \in Slots \ {InitSlot, s} : Children(n, x) = Children(p, x)
              /\ \A x \in Slots \ {s} : Children(p, x) \subseteq Children(n, x)
  <1> DEFINE A == Children(p, s)
             k == Cardinality(A)
             n == Marked(p, s, r)
  <1>1. /\ n \in [Slots -> Record]
        /\ \A x \in Slots :
              /\ SameProcess(p[x], n[x])
              /\ n[x].parent = IF x \in A THEN InitSlot ELSE p[x].parent
              /\ n[x].kids = IF x = s THEN IF x = InitSlot THEN k ELSE 0
                             ELSE IF x = InitSlot THEN p[x].kids + k
                             ELSE p[x].kids
        /\ \A x \in Slots \ {s} : n[x].state = p[x].state
        /\ n[s].state = r.state
    BY MarkedFields
  <1> HIDE DEF n
  <1>2. \A x \in Slots : n[x].used = p[x].used
    BY <1>1 DEF SameProcess
  <1>3. s \notin A /\ n[s].parent = p[s].parent
    BY <1>1, NotOwnParent DEF Children
  <1>4. ASSUME NEW x \in Slots \ {InitSlot, s}
        PROVE  Children(n, x) = Children(p, x)
    BY <1>1, <1>2 DEF Children
  <1>5. ASSUME s # InitSlot
        PROVE  Children(n, s) = {}
    BY <1>1, <1>2, <1>5 DEF Children
  <1>6. ASSUME s # InitSlot
        PROVE  Children(n, InitSlot) = Children(p, InitSlot) \cup A
    BY <1>1, <1>2, <1>6, SlotFacts DEF Children
  <1>7. ASSUME s = InitSlot
        PROVE  Children(n, InitSlot) = Children(p, InitSlot)
    BY <1>1, <1>2, <1>7, SlotFacts DEF Children
  <1>8. KidsCounted(n)
    <2> SUFFICES ASSUME NEW x \in Slots, n[x].used
                 PROVE  n[x].kids = Cardinality(Children(n, x))
      BY DEF KidsCounted
    <2>1. p[x].used /\ p[x].kids = Cardinality(Children(p, x))
      BY <1>2 DEF Family, KidsCounted
    <2>2. CASE x \notin {InitSlot, s}
      BY <2>1, <2>2, <1>1, <1>4
    <2>3. CASE x = s /\ s # InitSlot
      BY <2>3, <1>1, <1>5, FS_EmptySet
    <2>4. CASE x = s /\ s = InitSlot
      BY <2>4, <1>1, <1>7
    <2>5. CASE x = InitSlot /\ s # InitSlot
      <3>1. Children(p, InitSlot) \cap A = {}
        BY <2>5 DEF Children
      <3>2. Cardinality(Children(p, InitSlot) \cup A) =
               Cardinality(Children(p, InitSlot)) + k
               - Cardinality(Children(p, InitSlot) \cap A)
        BY ChildrenFinite, FS_Union
      <3>3. Cardinality(Children(p, InitSlot)) \in Nat /\ k \in Nat
        BY ChildrenFinite
      <3>4. Cardinality(Children(p, InitSlot) \cap A) = 0
        BY <3>1, FS_EmptySet
      <3>5. n[x].kids = Cardinality(Children(p, InitSlot)) + k
        BY <2>1, <2>5, <1>1
      <3>6. Children(n, x) = Children(p, InitSlot) \cup A
        BY <2>5, <1>6
      <3> HIDE DEF k, A
      <3> QED BY <3>2, <3>3, <3>4, <3>5, <3>6
    <2> QED BY <2>2, <2>3, <2>4, <2>5
  <1>9. SlotsUsed(n)
    <2>1. SlotsUsed(p)
      BY DEF Family
    <2>2. \A x \in Slots : n[x].group = p[x].group
      BY <1>1 DEF SameProcess
    <2>3. n[s].state # "free" /\ n[s].used
      BY <1>1, <1>2 DEF EndsAs, Terminal
    <2>4. InitSlot \in Slots /\ p[InitSlot].used
      BY SlotFacts DEF Family, Rooted
    <2> QED BY <1>1, <1>2, <2>1, <2>2, <2>3, <2>4 DEF SlotsUsed
  <1>10. Rooted(n)
    <2>1. Rooted(p)
      BY DEF Family
    <2>2. n[InitSlot].used /\ n[InitSlot].parent = NoSlot
      <3>1. InitSlot \notin A
        BY <2>1, SlotFacts DEF Rooted, Children
      <3> QED BY <3>1, <2>1, <1>1, <1>2, SlotFacts DEF Rooted
    <2>3. ASSUME NEW x \in Slots \ {InitSlot}, n[x].used
          PROVE  /\ n[x].parent \in Slots \ {x}
                 /\ \/ n[x].parent = InitSlot
                    \/ n[n[x].parent].used /\ ~Terminal(n[n[x].parent])
      <3>1. p[x].used
        BY <2>3, <1>2
      <3>2. CASE x \in A
        BY <3>2, <1>1, SlotFacts
      <3>3. CASE x \notin A
        <4>1. n[x].parent = p[x].parent /\ p[x].parent # s
          BY <3>1, <3>3, <1>1 DEF Children
        <4>2. /\ p[x].parent \in Slots \ {x}
              /\ \/ p[x].parent = InitSlot
                 \/ p[p[x].parent].used /\ ~Terminal(p[p[x].parent])
          BY <2>1, <3>1 DEF Rooted
        <4> QED BY <4>1, <4>2, <1>1, <1>2 DEF Terminal
      <3> QED BY <3>2, <3>3
    <2> QED BY <2>2, <2>3 DEF Rooted
  <1>11. \A x \in Slots \ {s} : Children(p, x) \subseteq Children(n, x)
    BY <1>4, <1>6
  <1> QED BY <1>1, <1>3, <1>4, <1>8, <1>9, <1>10, <1>11 DEF Family, Shape, n

(* A wait for one process, and only that, has a target of two parts.       *)
LEMMA CoverByHandle ==
    ASSUME NEW p, NEW r, NEW c, Len(r.target) = 2, WaitCovers(p, r, c)
    PROVE  r.target = <<c, p[c].gen>>
  BY DEF WaitCovers, NoTarget, HandleOf

(* WakeParent() changes one state at most, and leaves no wait that covers  *)
(* the process it is called for.                                           *)
LEMMA WakeParentCalm ==
    ASSUME NEW n, Shape(n), NEW s \in Slots
    PROVE  LET q == WakeParent(n, s)
           IN /\ CalmStep(n, q)
              /\ \A x \in Slots : q[x] = n[x] \/ (Waiting(n[x]) /\ q[x].state = "runnable")
              /\ \A x \in Slots : n[x].used /\ Waiting(q[x]) /\ n[s].parent = x
                                    => ~WaitCovers(n, n[x], s)
  <1> DEFINE x == n[s].parent
             hit == /\ x \in Slots /\ n[x].used
                    /\ n[x].state = "blocked" /\ n[x].reason = "child"
                    /\ WaitCovers(n, n[x], s)
             q == WakeParent(n, s)
  <1>1. CASE hit
    <2>1. q = SetRunnable(n, x) /\ x \in Slots /\ Waiting(n[x])
      BY <1>1 DEF WakeParent, Waiting
    <2>2. ~Terminal(n[x]) /\ n[x].state # "free"
      BY <2>1 DEF Waiting, Terminal
    <2>3. /\ CalmStep(n, SetRunnable(n, x))
          /\ \A y \in Slots \ {x} : SetRunnable(n, x)[y] = n[y]
          /\ SetRunnable(n, x)[x].state = "runnable"
      BY <2>1, <2>2, SetRunnableCalm
    <2> HIDE DEF q
    <2>4. \A y \in Slots : q[y] = n[y] \/ (Waiting(n[y]) /\ q[y].state = "runnable")
      BY <2>1, <2>3
    <2>5. \A y \in Slots : Waiting(q[y]) => y # x
      BY <2>1, <2>3 DEF Waiting
    <2> QED BY <2>1, <2>3, <2>4, <2>5 DEF q
  <1>2. CASE ~hit
    <2>1. q = n
      BY <1>2 DEF WakeParent
    <2>2. CalmStep(n, n)
      BY CalmSame DEF CalmStep, Shape
    <2> QED BY <1>2, <2>1, <2>2 DEF Waiting
  <1> QED BY <1>1, <1>2

(* The end of a process, adoption of its children and the wakeup of its    *)
(* parent included, keeps the table's invariant.                           *)
LEMMA EndTable ==
    ASSUME NEW p, TableInv(p), NEW s \in Slots, p[s].used, NEW r, EndsAs(p[s], r)
    PROVE  LET q == WakeParent(Marked(p, s, r), s)
           IN TableInv(q) /\ Ended(p, q, s, r)
  <1> DEFINE A == Children(p, s)
             n == Marked(p, s, r)
             q == WakeParent(n, s)
  <1>0. Family(p) /\ WaitsServed(p)
    BY DEF TableInv
  <1>1. /\ n \in [Slots -> Record]
        /\ \A x \in Slots :
              /\ SameProcess(p[x], n[x])
              /\ n[x].parent = IF x \in A THEN InitSlot ELSE p[x].parent
        /\ \A x \in Slots \ {s} :
              /\ n[x].state = p[x].state /\ n[x].reason = p[x].reason
              /\ n[x].target = p[x].target /\ n[x].wgroup = p[x].wgroup
              /\ n[x].seq = p[x].seq
        /\ n[s].state = r.state /\ n[s].seq = r.seq
    BY <1>0, MarkedFields
  <1>2. /\ Family(n) /\ n[s].parent = p[s].parent
        /\ \A x \in Slots \ {InitSlot, s} : Children(n, x) = Children(p, x)
        /\ \A x \in Slots \ {s} : Children(p, x) \subseteq Children(n, x)
    BY <1>0, MarkedFamily
  <1> HIDE DEF n
  <1>3. /\ CalmStep(n, q)
        /\ \A x \in Slots : q[x] = n[x] \/ (Waiting(n[x]) /\ q[x].state = "runnable")
        /\ \A x \in Slots : n[x].used /\ Waiting(q[x]) /\ n[s].parent = x
                              => ~WaitCovers(n, n[x], s)
    BY <1>2, WakeParentCalm DEF Family
  <1> HIDE DEF q
  <1>4. Family(q) /\ \A x \in Slots : Children(q, x) = Children(n, x)
    BY <1>2, <1>3, CalmFamily DEF CalmStep
  <1>5. \A x \in Slots : /\ SameProcess(p[x], q[x])
                         /\ q[x].gen = p[x].gen /\ q[x].group = p[x].group
                         /\ n[x].gen = p[x].gen /\ n[x].group = p[x].group
                         /\ q[x].seq = n[x].seq /\ q[x].parent = n[x].parent
    BY <1>1, <1>3 DEF CalmStep, Calm, SameProcess
  <1>6. Terminal(n[s]) /\ q[s] = n[s]
    BY <1>1, <1>3 DEF EndsAs, Terminal, Waiting
  <1>7. \A x \in Slots \ {s} : Terminal(q[x]) => Terminal(p[x])
    BY <1>1, <1>3 DEF Terminal
  <1>8. ASSUME NEW x \in Slots, Waiting(q[x])
        PROVE  /\ Awaited(q, x) # {}
               /\ x # InitSlot \/ Len(q[x].target) = 2 =>
                     \A c \in Awaited(q, x) : ~Terminal(q[c])
    <2>1. q[x] = n[x] /\ x # s
      BY <1>3, <1>6, <1>8 DEF Waiting, Terminal
    <2>2. /\ Waiting(p[x]) /\ p[x].target = q[x].target
          /\ p[x].wgroup = q[x].wgroup
      BY <1>1, <1>8, <2>1 DEF Waiting
    <2>3. /\ Awaited(p, x) # {}
          /\ x # InitSlot \/ Len(q[x].target) = 2 =>
                \A c \in Awaited(p, x) : ~Terminal(p[c])
      BY <1>0, <2>2 DEF WaitsServed
    <2>4. \A c \in Slots : WaitCovers(q, q[x], c) <=> WaitCovers(p, p[x], c)
      BY <1>5, <2>2 DEF WaitCovers, HandleOf
    <2>5. Awaited(p, x) \subseteq Awaited(q, x) /\ Awaited(p, x) \subseteq Slots
      BY <1>2, <1>4, <2>1, <2>4 DEF Awaited, Children
    <2>6. s \notin Awaited(q, x)
      <3> SUFFICES ASSUME s \in Awaited(q, x) PROVE FALSE
        OBVIOUS
      <3>1. q[s].parent = x /\ WaitCovers(q, q[x], s)
        BY DEF Awaited, Children
      <3>2. WaitCovers(n, n[x], s)
        BY <2>1, <3>1, <1>5 DEF WaitCovers, HandleOf
      <3>3. n[x].used
        BY <1>2, <1>8, <2>1 DEF Family, SlotsUsed, Waiting
      <3> QED BY <3>1, <3>2, <3>3, <1>3, <1>5, <1>8
    <2>7. ASSUME x # InitSlot \/ Len(q[x].target) = 2, NEW c \in Awaited(q, x)
          PROVE  ~Terminal(q[c])
      <3>1. c \in Slots /\ c # s
        BY <2>6 DEF Awaited, Children
      <3>2. c \in Awaited(p, x)
        <4>1. CASE x # InitSlot
          BY <4>1, <1>2, <1>4, <2>1, <2>4, <3>1 DEF Awaited
        <4>2. CASE Len(q[x].target) = 2
          <5>1. PICK d \in Awaited(p, x) : TRUE
            BY <2>3
          <5>2. WaitCovers(p, p[x], d) /\ WaitCovers(p, p[x], c)
            BY <2>4, <3>1, <5>1 DEF Awaited
          <5>3. p[x].target = <<d, p[d].gen>> /\ p[x].target = <<c, p[c].gen>>
            BY <2>2, <4>2, <5>2, CoverByHandle
          <5>4. c = d
            BY <5>3
          <5> QED BY <5>1, <5>4
        <4> QED BY <2>7, <4>1, <4>2
      <3> QED BY <2>3, <2>7, <3>1, <3>2, <1>7
    <2> QED BY <2>3, <2>5, <2>7
  <1>9. ASSUME NEW x \in Slots, Reading(q[x])
        PROVE  q[x].target = NoTarget
    <2>1. q[x] = n[x] /\ x # s
      BY <1>3, <1>6, <1>9 DEF Reading, Terminal
    <2>2. Reading(p[x]) /\ p[x].target = q[x].target
      BY <1>1, <1>9, <2>1 DEF Reading
    <2> QED BY <1>0, <2>2 DEF WaitsServed
  <1>10. TableInv(q)
    BY <1>4, <1>8, <1>9 DEF TableInv, WaitsServed
  <1>11. \A x \in Slots \ {s} :
            /\ q[x].seq = p[x].seq
            /\ \/ q[x].state = p[x].state /\ q[x].reason = p[x].reason
               \/ Waiting(p[x]) /\ q[x].state = "runnable"
    BY <1>1, <1>3, <1>5 DEF Waiting
  <1>12. Ended(p, q, s, r)
    BY <1>1, <1>2, <1>5, <1>6, <1>11 DEF Ended
  <1> QED BY <1>10, <1>12 DEF q, n

(* exit(), from any state that is not terminal.                            *)
LEMMA ExitTable ==
    ASSUME NEW p, TableInv(p), NEW s \in Slots, p[s].used, NEW seq \in Nat
    PROVE  LET q == Exit(p, s, seq)
           IN /\ TableInv(q)
              /\ \E r : Ended(p, q, s, r) /\ r.state = "zombie" /\ r.seq = seq
  <1> DEFINE r == [p[s] EXCEPT !.state = "zombie", !.seq = seq,
                               !.reason = "none", !.target = NoTarget]
  <1>1. p[s] \in Record
    BY DEF TableInv, Family, Shape
  <1>2. EndsAs(p[s], r) /\ r.state = "zombie" /\ r.seq = seq
    <2>1. NoTarget \in Targets /\ "none" \in Reasons /\ "zombie" \in States
      BY TargetFacts DEF Reasons, States
    <2> HIDE DEF NoTarget
    <2> QED BY <1>1, <2>1 DEF EndsAs, Record, SameProcess, Terminal
  <1>3. Exit(p, s, seq) = WakeParent(Marked(p, s, r), s)
    BY DEF Exit, Marked
  <1> HIDE DEF r
  <1> QED BY <1>2, <1>3, EndTable

(* fault() ends a process in the same way.                                 *)
LEMMA FaultTable ==
    ASSUME NEW p, TableInv(p), NEW s \in Slots, p[s].used, NEW seq \in Nat
    PROVE  LET q == Fault(p, s, seq)
           IN /\ TableInv(q)
              /\ \E r : Ended(p, q, s, r) /\ r.state = "faulted" /\ r.seq = seq
  <1> DEFINE r == [p[s] EXCEPT !.state = "faulted", !.seq = seq, !.reason = "none"]
  <1>1. p[s] \in Record
    BY DEF TableInv, Family, Shape
  <1>2. EndsAs(p[s], r) /\ r.state = "faulted" /\ r.seq = seq
    <2>1. "none" \in Reasons /\ "faulted" \in States
      BY DEF Reasons, States
    <2> QED BY <1>1, <2>1 DEF EndsAs, Record, SameProcess, Terminal
  <1>3. Fault(p, s, seq) = WakeParent(Marked(p, s, r), s)
    BY DEF Fault, Marked
  <1> HIDE DEF r
  <1> QED BY <1>2, <1>3, EndTable

-----------------------------------------------------------------------------
(* Creation.                                                               *)

(* The scan for a free slot finds one when there is one.                   *)
LEMMA LowestFreeFacts ==
    ASSUME NEW p, FreeSlots(p) # {}
    PROVE  LowestFree(p) \in Slots /\ ~p[LowestFree(p)].used
  <1>1. FreeSlots(p) \in SUBSET Nat
    BY SlotFacts DEF FreeSlots
  <1>2. \E s \in FreeSlots(p) : \A t \in FreeSlots(p) : s <= t
    BY <1>1, LeastNumber
  <1>3. LowestFree(p) \in FreeSlots(p)
    BY <1>2 DEF LowestFree
  <1> QED BY <1>3 DEF FreeSlots

Newborn(g, pid, parent, group) ==
    [FreeSlot(g) EXCEPT !.used = TRUE, !.pid = pid, !.parent = parent,
                        !.group = group, !.state = "runnable"]

(* The record of a new process, field by field.                            *)
LEMMA NewbornFields ==
    ASSUME NEW g \in Nat, NEW pid \in Nat, NEW parent \in Slots, NEW group \in Nat
    PROVE  LET r == Newborn(g, pid, parent, group)
           IN /\ r \in Record /\ r.used /\ r.gen = g /\ r.pid = pid
              /\ r.parent = parent /\ r.group = group /\ r.state = "runnable"
              /\ r.seq = 0 /\ r.kids = 0
  <1>1. NoTarget \in Targets /\ "none" \in Reasons /\ "runnable" \in States
    BY TargetFacts DEF Reasons, States
  <1> HIDE DEF NoTarget
  <1> QED BY <1>1 DEF Newborn, FreeSlot, Record

WithKids(r, k) == [r EXCEPT !.kids = k]

(* A record with a new child count, field by field.                        *)
LEMMA WithKidsFields ==
    ASSUME NEW r \in Record, NEW k \in Nat
    PROVE  LET q == WithKids(r, k)
           IN /\ q \in Record /\ SameProcess(r, q) /\ q.kids = k
              /\ q.parent = r.parent /\ q.state = r.state /\ q.reason = r.reason
              /\ q.target = r.target /\ q.wgroup = r.wgroup /\ q.seq = r.seq
  BY DEF WithKids, Record, SameProcess

(* What a spawn does to the table: one free slot gets its next occupant.   *)
Born(p, q, s, parent, pid, group) ==
    /\ s \in Slots /\ ~p[s].used /\ s # parent
    /\ q[s].used /\ q[s].gen = p[s].gen + 1 /\ q[s].pid = pid
    /\ q[s].parent = parent /\ q[s].group = group
    /\ q[s].state = "runnable" /\ q[s].seq = 0
    /\ \A x \in Slots \ {s} :
          /\ SameProcess(p[x], q[x]) /\ q[x].parent = p[x].parent
          /\ q[x].state = p[x].state /\ q[x].reason = p[x].reason
          /\ q[x].seq = p[x].seq

(* spawn() keeps the table's invariant: the child is counted, and its slot *)
(* inherits nobody's children or waits.                                    *)
LEMMA SpawnTable ==
    ASSUME NEW p, TableInv(p), NEW parent \in Slots, p[parent].used,
           parent = InitSlot \/ ~Terminal(p[parent]), ~Waiting(p[parent]),
           FreeSlots(p) # {}, NEW pid \in Nat, NEW group \in Nat \ {0}
    PROVE  LET q == Spawn(p, parent, pid, group)
           IN TableInv(q) /\ Born(p, q, LowestFree(p), parent, pid, group)
  <1> DEFINE s == LowestFree(p)
             q == Spawn(p, parent, pid, group)
             r == Newborn(p[s].gen + 1, pid, parent, group)
             o == WithKids(p[parent], p[parent].kids + 1)
  <1>0. /\ Shape(p) /\ SlotsUsed(p) /\ Rooted(p) /\ KidsCounted(p)
        /\ WaitsServed(p) /\ p \in [Slots -> Record]
    BY DEF TableInv, Family, Shape
  <1>1. s \in Slots /\ ~p[s].used /\ s # parent
    BY LowestFreeFacts
  <1>2. p[s].gen + 1 \in Nat /\ p[parent].kids + 1 \in Nat /\ p[parent] \in Record
    BY <1>0, <1>1, RecordFields
  <1>3. /\ r \in Record /\ r.used /\ r.gen = p[s].gen + 1 /\ r.pid = pid
        /\ r.parent = parent /\ r.group = group /\ r.state = "runnable"
        /\ r.seq = 0 /\ r.kids = 0
    BY <1>2, NewbornFields
  <1>4. /\ o \in Record /\ SameProcess(p[parent], o) /\ o.kids = p[parent].kids + 1
        /\ o.parent = p[parent].parent /\ o.state = p[parent].state
        /\ o.reason = p[parent].reason /\ o.target = p[parent].target
        /\ o.wgroup = p[parent].wgroup /\ o.seq = p[parent].seq
    BY <1>2, WithKidsFields
  <1>5. q = [p EXCEPT ![s] = r, ![parent] = o]
    <2>1. q = [p EXCEPT ![s] = r, ![parent].kids = @ + 1]
      BY DEF Spawn, Newborn
    <2> HIDE DEF r, s, q
    <2> QED BY <1>0, <1>1, <2>1 DEF WithKids
  <1> HIDE DEF s, q, r, o
  <1>6. /\ q \in [Slots -> Record] /\ q[s] = r /\ q[parent] = o
        /\ \A x \in Slots \ {s, parent} : q[x] = p[x]
    BY <1>0, <1>1, <1>3, <1>4, <1>5
  <1>7. \A x \in Slots \ {s} :
           /\ SameProcess(p[x], q[x]) /\ q[x].parent = p[x].parent
           /\ q[x].state = p[x].state /\ q[x].reason = p[x].reason
           /\ q[x].seq = p[x].seq
    BY <1>4, <1>6 DEF SameProcess
  <1>8. Born(p, q, s, parent, pid, group)
    BY <1>1, <1>3, <1>6, <1>7 DEF Born
  <1>9. \A x \in Slots : p[x].used => p[x].parent # s
    BY <1>0, <1>1, SlotFacts DEF Rooted
  <1>10. ASSUME NEW x \in Slots
         PROVE  Children(q, x) = IF x = parent THEN Children(p, x) \cup {s}
                                               ELSE Children(p, x)
    <2>1. \A c \in Slots \ {s} : q[c].used = p[c].used /\ q[c].parent = p[c].parent
      BY <1>7 DEF SameProcess
    <2>2. q[s].used /\ q[s].parent = parent /\ ~p[s].used /\ s \in Slots
      BY <1>1, <1>3, <1>6
    <2> QED BY <2>1, <2>2 DEF Children
  <1>11. KidsCounted(q)
    <2> SUFFICES ASSUME NEW x \in Slots, q[x].used
                 PROVE  q[x].kids = Cardinality(Children(q, x))
      BY DEF KidsCounted
    <2>1. CASE x = s
      <3>1. Children(q, s) = {}
        BY <1>1, <1>9, <1>10 DEF Children
      <3> QED BY <2>1, <3>1, <1>3, <1>6, FS_EmptySet
    <2>2. CASE x = parent
      <3>1. s \notin Children(p, x)
        BY <1>1 DEF Children
      <3>2. Cardinality(Children(p, x) \cup {s}) = Cardinality(Children(p, x)) + 1
        BY <3>1, ChildrenFinite, FS_AddElement
      <3>3. p[x].kids = Cardinality(Children(p, x))
        BY <2>2, <1>0 DEF KidsCounted
      <3> QED BY <2>2, <3>2, <3>3, <1>4, <1>6, <1>10
    <2>3. CASE x \notin {s, parent}
      BY <2>3, <1>0, <1>6, <1>10 DEF KidsCounted
    <2> QED BY <2>1, <2>2, <2>3
  <1>12. SlotsUsed(q)
    <2>1. ASSUME NEW x \in Slots
          PROVE  /\ q[x].used <=> q[x].state # "free"
                 /\ q[x].used => q[x].group # 0
                 /\ ~q[x].used => q[x].kids = 0
      <3>1. CASE x = s
        BY <3>1, <1>3, <1>6
      <3>2. CASE x # s
        <4>1. /\ q[x].used = p[x].used /\ q[x].state = p[x].state
              /\ q[x].group = p[x].group
          BY <3>2, <1>7 DEF SameProcess
        <4>2. ~p[x].used => q[x].kids = p[x].kids
          BY <3>2, <1>6
        <4> QED BY <4>1, <4>2, <1>0 DEF SlotsUsed
      <3> QED BY <3>1, <3>2
    <2> QED BY <2>1 DEF SlotsUsed
  <1>13. Rooted(q)
    <2>1. s # InitSlot
      BY <1>0, <1>1 DEF Rooted
    <2>2. ASSUME NEW x \in Slots \ {InitSlot}, q[x].used
          PROVE  /\ q[x].parent \in Slots \ {x}
                 /\ \/ q[x].parent = InitSlot
                    \/ q[q[x].parent].used /\ ~Terminal(q[q[x].parent])
      <3>1. CASE x = s
        BY <3>1, <1>1, <1>3, <1>4, <1>6 DEF SameProcess, Terminal
      <3>2. CASE x # s
        <4>1. p[x].used /\ q[x].parent = p[x].parent /\ p[x].parent # s
          BY <2>2, <3>2, <1>7, <1>9 DEF SameProcess
        <4> DEFINE y == p[x].parent
        <4>2. /\ y \in Slots \ {x, s}
              /\ y = InitSlot \/ (p[y].used /\ ~Terminal(p[y]))
          BY <4>1, <1>0 DEF Rooted
        <4>3. q[y].used = p[y].used /\ q[y].state = p[y].state
          BY <4>2, <1>7 DEF SameProcess
        <4> QED BY <4>1, <4>2, <4>3 DEF Terminal
      <3> QED BY <3>1, <3>2
    <2> QED BY <2>1, <2>2, <1>0, <1>7, SlotFacts DEF Rooted, SameProcess
  <1>14. WaitsServed(q)
    <2>1. ASSUME NEW x \in Slots, Waiting(q[x])
          PROVE  /\ q[x] = p[x] /\ Awaited(q, x) = Awaited(p, x)
                 /\ \A c \in Awaited(p, x) : Terminal(q[c]) => Terminal(p[c])
      <3>1. x # s /\ x # parent /\ q[x] = p[x]
        BY <2>1, <1>3, <1>4, <1>6 DEF Waiting
      <3>2. \A c \in Children(p, x) : c \in Slots \ {s}
        BY <1>1 DEF Children
      <3>3. \A c \in Children(p, x) : WaitCovers(q, q[x], c) <=> WaitCovers(p, p[x], c)
        BY <3>1, <3>2, <1>7 DEF WaitCovers, HandleOf, SameProcess
      <3> QED BY <3>1, <3>2, <3>3, <1>7, <1>10 DEF Awaited, Terminal
    <2>2. ASSUME NEW x \in Slots, Reading(q[x])
          PROVE  q[x].target = NoTarget
      <3>1. x # s
        BY <2>2, <1>3, <1>6 DEF Reading
      <3>2. Reading(p[x]) /\ q[x].target = p[x].target
        BY <2>2, <3>1, <1>4, <1>6 DEF Reading
      <3> QED BY <3>2, <1>0 DEF WaitsServed
    <2> QED BY <2>1, <2>2, <1>0 DEF WaitsServed
  <1> QED BY <1>6, <1>8, <1>11, <1>12, <1>13, <1>14
          DEF TableInv, Family, Shape, q, s

-----------------------------------------------------------------------------
(* Reaping and waiting.                                                    *)

(* Reaping empties one slot, which keeps only its generation.              *)
Reaped(p, q, c) ==
    /\ ~q[c].used /\ q[c].gen = p[c].gen /\ q[c].state = "free" /\ q[c].seq = 0
    /\ q[c].pid = 0 /\ q[c].group = 0
    /\ \A x \in Slots \ {c} :
          /\ SameProcess(p[x], q[x]) /\ q[x].parent = p[x].parent
          /\ q[x].state = p[x].state /\ q[x].reason = p[x].reason
          /\ q[x].seq = p[x].seq

(* The record of a reaped slot, field by field.                            *)
LEMMA FreeSlotFields ==
    ASSUME NEW g \in Nat
    PROVE  LET r == FreeSlot(g)
           IN /\ r \in Record /\ ~r.used /\ r.gen = g /\ r.state = "free"
              /\ r.seq = 0 /\ r.kids = 0 /\ r.pid = 0 /\ r.group = 0
  <1>1. /\ NoTarget \in Targets /\ "none" \in Reasons /\ "free" \in States
        /\ NoSlot \in Slots \cup {NoSlot}
    BY TargetFacts DEF Reasons, States
  <1> HIDE DEF NoTarget, NoSlot
  <1> QED BY <1>1 DEF FreeSlot, Record

(* A terminal child has no children of its own: they passed to init when   *)
(* it ended.                                                               *)
LEMMA TerminalChildless ==
    ASSUME NEW p, Family(p), NEW c \in Slots \ {InitSlot}, Terminal(p[c])
    PROVE  Children(p, c) = {}
  BY SlotFacts DEF Family, Rooted, Children

(* reapSlot() of a terminal child keeps the table's invariant.             *)
LEMMA ReapTable ==
    ASSUME NEW p, TableInv(p), NEW parent \in Slots, p[parent].used,
           ~Waiting(p[parent]), NEW c \in Children(p, parent), Terminal(p[c])
    PROVE  LET q == ReapSlot(p, parent, c)
           IN TableInv(q) /\ Reaped(p, q, c) /\ c # InitSlot /\ c # parent
  <1> DEFINE q == ReapSlot(p, parent, c)
             r == FreeSlot(p[c].gen)
             o == WithKids(p[parent], Monus(p[parent].kids, 1))
  <1>0. /\ Family(p) /\ Shape(p) /\ SlotsUsed(p) /\ Rooted(p) /\ KidsCounted(p)
        /\ WaitsServed(p) /\ p \in [Slots -> Record]
    BY DEF TableInv, Family, Shape
  <1>1. c \in Slots /\ p[c].used /\ p[c].parent = parent
    BY DEF Children
  <1>2. c # parent /\ c # InitSlot
    BY <1>0, <1>1, NotOwnParent, SlotFacts DEF Rooted
  <1>3. /\ p[c].gen \in Nat /\ p[parent].kids \in Nat /\ p[parent] \in Record
        /\ Monus(p[parent].kids, 1) \in Nat
    BY <1>0, <1>1, RecordFields DEF Monus
  <1>4. /\ r \in Record /\ ~r.used /\ r.gen = p[c].gen /\ r.state = "free"
        /\ r.seq = 0 /\ r.kids = 0 /\ r.pid = 0 /\ r.group = 0
    BY <1>3, FreeSlotFields
  <1>5. /\ o \in Record /\ SameProcess(p[parent], o)
        /\ o.kids = Monus(p[parent].kids, 1)
        /\ o.parent = p[parent].parent /\ o.state = p[parent].state
        /\ o.reason = p[parent].reason /\ o.target = p[parent].target
        /\ o.wgroup = p[parent].wgroup /\ o.seq = p[parent].seq
    BY <1>3, WithKidsFields
  <1>6. q = [p EXCEPT ![c] = r, ![parent] = o]
    <2>1. q = [p EXCEPT ![c] = r, ![parent].kids = Monus(@, 1)]
      BY DEF ReapSlot
    <2> HIDE DEF r, q
    <2> QED BY <1>0, <1>1, <1>2, <2>1 DEF WithKids
  <1> HIDE DEF q, r, o
  <1>7. /\ q \in [Slots -> Record] /\ q[c] = r /\ q[parent] = o
        /\ \A x \in Slots \ {c, parent} : q[x] = p[x]
    BY <1>0, <1>1, <1>2, <1>4, <1>5, <1>6
  <1>8. \A x \in Slots \ {c} :
           /\ SameProcess(p[x], q[x]) /\ q[x].parent = p[x].parent
           /\ q[x].state = p[x].state /\ q[x].reason = p[x].reason
           /\ q[x].seq = p[x].seq
    BY <1>5, <1>7 DEF SameProcess
  <1>9. Reaped(p, q, c)
    BY <1>4, <1>7, <1>8 DEF Reaped
  <1>10. \A x \in Slots : p[x].used => p[x].parent # c
    BY <1>0, <1>1, <1>2, TerminalChildless DEF Children
  <1>11. ASSUME NEW x \in Slots
         PROVE  Children(q, x) = IF x = parent THEN Children(p, x) \ {c}
                                               ELSE Children(p, x)
    <2>1. \A y \in Slots \ {c} : q[y].used = p[y].used /\ q[y].parent = p[y].parent
      BY <1>8 DEF SameProcess
    <2>2. ~q[c].used /\ p[c].parent = parent
      BY <1>1, <1>4, <1>7
    <2> QED BY <2>1, <2>2, <1>1 DEF Children
  <1>12. KidsCounted(q)
    <2> SUFFICES ASSUME NEW x \in Slots, q[x].used
                 PROVE  q[x].kids = Cardinality(Children(q, x))
      BY DEF KidsCounted
    <2>1. x # c
      BY <1>4, <1>7
    <2>2. CASE x = parent
      <3>1. Cardinality(Children(p, x) \ {c}) = Cardinality(Children(p, x)) - 1
        BY <2>2, ChildrenFinite, FS_RemoveElement
      <3>2. p[x].kids = Cardinality(Children(p, x))
        BY <2>2, <1>0 DEF KidsCounted
      <3>3. Cardinality(Children(p, x)) \in Nat /\ Cardinality(Children(p, x) \ {c}) \in Nat
        BY <1>11, <2>2, ChildrenFinite
      <3>4. Monus(p[x].kids, 1) = Cardinality(Children(p, x)) - 1
        BY <3>1, <3>2, <3>3 DEF Monus
      <3> QED BY <2>2, <3>1, <3>4, <1>5, <1>7, <1>11
    <2>3. CASE x # parent
      BY <2>1, <2>3, <1>0, <1>7, <1>11 DEF KidsCounted
    <2> QED BY <2>2, <2>3
  <1>13. SlotsUsed(q)
    <2>1. ASSUME NEW x \in Slots
          PROVE  /\ q[x].used <=> q[x].state # "free"
                 /\ q[x].used => q[x].group # 0
                 /\ ~q[x].used => q[x].kids = 0
      <3>1. CASE x = c
        BY <3>1, <1>4, <1>7
      <3>2. CASE x # c
        <4>1. /\ q[x].used = p[x].used /\ q[x].state = p[x].state
              /\ q[x].group = p[x].group
          BY <3>2, <1>8 DEF SameProcess
        <4>2. ~p[x].used => q[x].kids = p[x].kids
          BY <3>2, <1>7
        <4> QED BY <4>1, <4>2, <1>0 DEF SlotsUsed
      <3> QED BY <3>1, <3>2
    <2> QED BY <2>1 DEF SlotsUsed
  <1>14. Rooted(q)
    <2>1. ASSUME NEW x \in Slots \ {InitSlot}, q[x].used
          PROVE  /\ q[x].parent \in Slots \ {x}
                 /\ \/ q[x].parent = InitSlot
                    \/ q[q[x].parent].used /\ ~Terminal(q[q[x].parent])
      <3>1. x # c
        BY <2>1, <1>4, <1>7
      <3>2. p[x].used /\ q[x].parent = p[x].parent /\ p[x].parent # c
        BY <2>1, <3>1, <1>8, <1>10 DEF SameProcess
      <3> DEFINE y == p[x].parent
      <3>3. /\ y \in Slots \ {x, c}
            /\ y = InitSlot \/ (p[y].used /\ ~Terminal(p[y]))
        BY <3>2, <1>0 DEF Rooted
      <3>4. q[y].used = p[y].used /\ q[y].state = p[y].state
        BY <3>3, <1>8 DEF SameProcess
      <3> QED BY <3>2, <3>3, <3>4 DEF Terminal
    <2>2. q[InitSlot].used /\ q[InitSlot].parent = NoSlot
      BY <1>0, <1>2, <1>8, SlotFacts DEF Rooted, SameProcess
    <2> QED BY <2>1, <2>2 DEF Rooted
  <1>15. WaitsServed(q)
    <2>1. ASSUME NEW x \in Slots, Waiting(q[x])
          PROVE  /\ q[x] = p[x] /\ Awaited(q, x) = Awaited(p, x)
                 /\ \A d \in Awaited(p, x) : Terminal(q[d]) => Terminal(p[d])
      <3>1. x # c /\ x # parent /\ q[x] = p[x]
        BY <2>1, <1>4, <1>5, <1>7 DEF Waiting
      <3>2. \A d \in Children(p, x) : d \in Slots \ {c}
        BY <1>1, <3>1 DEF Children
      <3>3. \A d \in Children(p, x) : WaitCovers(q, q[x], d) <=> WaitCovers(p, p[x], d)
        BY <3>1, <3>2, <1>8 DEF WaitCovers, HandleOf, SameProcess
      <3> QED BY <3>1, <3>2, <3>3, <1>8, <1>11 DEF Awaited, Terminal
    <2>2. ASSUME NEW x \in Slots, Reading(q[x])
          PROVE  q[x].target = NoTarget
      <3>1. x # c
        BY <2>2, <1>4, <1>7 DEF Reading
      <3>2. Reading(p[x]) /\ q[x].target = p[x].target
        BY <2>2, <3>1, <1>5, <1>7 DEF Reading
      <3> QED BY <3>2, <1>0 DEF WaitsServed
    <2> QED BY <2>1, <2>2, <1>0 DEF WaitsServed
  <1> QED BY <1>2, <1>7, <1>9, <1>12, <1>13, <1>14, <1>15
          DEF TableInv, Family, Shape, q

(* The child wait() reaps is a terminal candidate.                         *)
LEMMA EarliestTerminalFacts ==
    ASSUME NEW p, Shape(p), NEW C \in SUBSET Slots, \E c \in C : Terminal(p[c])
    PROVE  EarliestTerminal(p, C) \in C /\ Terminal(p[EarliestTerminal(p, C)])
  <1> DEFINE T == {c \in C : Terminal(p[c])}
             N == {n \in Nat : \E c \in T : p[c].seq = n}
  <1>1. \A c \in T : p[c].seq \in Nat
    BY RecordFields DEF Shape
  <1>2. PICK n \in N : \A m \in N : n <= m
    <2>1. N # {} /\ N \in SUBSET Nat
      BY <1>1
    <2> HIDE DEF N
    <2> QED BY <2>1, LeastNumber
  <1>3. PICK c \in T : p[c].seq = n
    BY <1>2
  <1>4. \A d \in T : n <= p[d].seq
    BY <1>1, <1>2
  <1>5. \E x \in C : /\ Terminal(p[x])
                     /\ \A d \in C : Terminal(p[d]) => p[x].seq <= p[d].seq
    BY <1>3, <1>4
  <1> QED BY <1>5 DEF EarliestTerminal

(* The scheduler's scan finds a runnable slot when there is one.           *)
LEMMA NextAfterFacts ==
    ASSUME NEW p, NEW from \in Slots, RunnableSlots(p) # {}
    PROVE  /\ NextAfter(p, from) \in Slots /\ p[NextAfter(p, from)].used
           /\ p[NextAfter(p, from)].state = "runnable"
  <1> DEFINE R == RunnableSlots(p)
             N == {n \in Nat : \E s \in R : Distance(from, s) = n}
  <1>1. \A s \in R : s \in Slots /\ Distance(from, s) \in Nat
    BY SlotFacts DEF RunnableSlots, Distance, Slots
  <1>2. PICK n \in N : \A m \in N : n <= m
    <2>1. N # {} /\ N \in SUBSET Nat
      BY <1>1
    <2> HIDE DEF N
    <2> QED BY <2>1, LeastNumber
  <1>3. PICK s \in R : Distance(from, s) = n
    BY <1>2
  <1>4. \A t \in R : n <= Distance(from, t)
    BY <1>1, <1>2
  <1>5. \E x \in R : \A t \in R : Distance(from, x) <= Distance(from, t)
    BY <1>3, <1>4
  <1>6. NextAfter(p, from) \in R
    BY <1>5 DEF NextAfter
  <1> QED BY <1>6 DEF RunnableSlots

(* A wait blocks only on live children it covers.                          *)
WaitTarget(p, c, which) ==
    CASE which[1] = "any"   -> NoTarget
      [] which[1] = "pid"   -> HandleOf(p, c)
      [] which[1] = "group" -> <<which[2]>>

WaitingFor(r, t, g) == [r EXCEPT !.state = "blocked", !.reason = "child",
                                 !.target = t, !.wgroup = g]

(* The record of a parent blocked in wait, field by field.                 *)
LEMMA WaitingForFields ==
    ASSUME NEW r \in Record, NEW t \in Targets, NEW g \in BOOLEAN
    PROVE  LET q == WaitingFor(r, t, g)
           IN /\ q \in Record /\ SameProcess(r, q) /\ q.parent = r.parent
              /\ q.kids = r.kids /\ q.seq = r.seq /\ q.state = "blocked"
              /\ q.reason = "child" /\ q.target = t /\ q.wgroup = g
  <1>1. "child" \in Reasons /\ "blocked" \in States
    BY DEF Reasons, States
  <1> QED BY <1>1 DEF WaitingFor, Record, SameProcess

(* The three kinds of wait: each covers exactly the candidates, or the one *)
(* candidate chosen by its PID.                                            *)
LEMMA WaitKinds ==
    ASSUME NEW p, Shape(p), NEW s \in Slots, NEW which \in Waits,
           NEW c \in Candidates(p, s, which), NEW r, r.wgroup = (which[1] = "group"),
           r.target = WaitTarget(p, c, which)
    PROVE  /\ WaitTarget(p, c, which) \in Targets
           /\ WaitCovers(p, r, c)
           /\ \A d \in Children(p, s) :
                 WaitCovers(p, r, d) => d \in Candidates(p, s, which)
  <1>1. c \in Children(p, s) /\ c \in Slots /\ p[c].gen \in Nat /\ p[c].group \in Nat
    BY RecordFields DEF Candidates, Children, Shape
  <1>2. CASE which = <<"any">>
    <2>1. which[1] = "any" /\ r.target = NoTarget /\ WaitTarget(p, c, which) = NoTarget
      BY <1>2 DEF WaitTarget
    <2>2. Candidates(p, s, which) = Children(p, s)
      BY <2>1 DEF Candidates, Children
    <2> QED BY <2>1, <2>2, TargetFacts DEF WaitCovers
  <1>3. ASSUME NEW n \in Pids, which = <<"pid", n>>
        PROVE  /\ WaitTarget(p, c, which) \in Targets /\ WaitCovers(p, r, c)
               /\ \A d \in Children(p, s) :
                     WaitCovers(p, r, d) => d \in Candidates(p, s, which)
    <2>1. which[1] = "pid" /\ which[1] # "any" /\ which[1] # "group"
      BY <1>3
    <2>2. r.target = <<c, p[c].gen>> /\ WaitTarget(p, c, which) = <<c, p[c].gen>>
      BY <2>1 DEF WaitTarget, HandleOf
    <2>3. ~r.wgroup
      BY <2>1
    <2>4. \A d : WaitCovers(p, r, d) <=> d = c
      BY <2>2, <2>3 DEF WaitCovers, HandleOf, NoTarget
    <2> QED BY <1>1, <2>2, <2>4, TargetFacts
  <1>4. ASSUME NEW n \in Pids, which = <<"group", n>>
        PROVE  /\ WaitTarget(p, c, which) \in Targets /\ WaitCovers(p, r, c)
               /\ \A d \in Children(p, s) :
                     WaitCovers(p, r, d) => d \in Candidates(p, s, which)
    <2>1. which[1] = "group" /\ which[1] # "any" /\ which[1] # "pid" /\ which[2] = n
      BY <1>4
    <2>2. r.target = <<n>> /\ WaitTarget(p, c, which) = <<n>> /\ r.wgroup
      BY <2>1 DEF WaitTarget
    <2>3. \A d \in Children(p, s) : d \in Candidates(p, s, which) <=> p[d].group = n
      BY <2>1 DEF Candidates
    <2>4. \A d : WaitCovers(p, r, d) <=> p[d].group = n
      BY <2>2 DEF WaitCovers, NoTarget
    <2>5. n \in Nat
      BY BoundAssumption DEF Pids
    <2> QED BY <1>1, <2>2, <2>3, <2>4, <2>5, TargetFacts
  <1>5. \/ which = <<"any">>
        \/ \E n \in Pids : which = <<"pid", n>>
        \/ \E n \in Pids : which = <<"group", n>>
    BY DEF Waits
  <1> QED BY <1>2, <1>3, <1>4, <1>5

(* wait() with live candidates only keeps the table's invariant: the wait  *)
(* it starts covers a live child and no terminal one.                      *)
LEMMA BlockForChildTable ==
    ASSUME NEW p, TableInv(p), NEW s \in Slots, p[s].used, ~Terminal(p[s]),
           NEW which \in Waits, Candidates(p, s, which) # {},
           \A x \in Candidates(p, s, which) : ~Terminal(p[x])
    PROVE  LET q == BlockForChild(p, s, which)
           IN /\ TableInv(q)
              /\ q[s].state = "blocked" /\ q[s].reason = "child"
              /\ SameProcess(p[s], q[s]) /\ q[s].seq = p[s].seq
              /\ \A x \in Slots \ {s} : q[x] = p[x]
  <1> DEFINE C == Candidates(p, s, which)
             c == CHOOSE x \in Candidates(p, s, which) : TRUE
             t == WaitTarget(p, c, which)
             g == which[1] = "group"
             r == WaitingFor(p[s], t, g)
             q == BlockForChild(p, s, which)
  <1>0. /\ Family(p) /\ Shape(p) /\ SlotsUsed(p) /\ Rooted(p) /\ KidsCounted(p)
        /\ WaitsServed(p) /\ p \in [Slots -> Record]
    BY DEF TableInv, Family, Shape
  <1>1. c \in Candidates(p, s, which)
    OBVIOUS
  <1>2. q = [p EXCEPT ![s] = r]
    BY DEF BlockForChild, WaitTarget, WaitingFor
  <1>3. t \in Targets
    <2> DEFINE u == [target |-> t, wgroup |-> g]
    <2>1. u.target = WaitTarget(p, c, which) /\ u.wgroup = (which[1] = "group")
      OBVIOUS
    <2> HIDE DEF u, c
    <2> QED BY <1>0, <1>1, <2>1, WaitKinds
  <1> HIDE DEF c
  <1>4. g \in BOOLEAN
    OBVIOUS
  <1> HIDE DEF t, g, q
  <1>5. /\ r \in Record /\ SameProcess(p[s], r) /\ r.parent = p[s].parent
        /\ r.kids = p[s].kids /\ r.seq = p[s].seq /\ r.state = "blocked"
        /\ r.reason = "child" /\ r.target = t /\ r.wgroup = g
    BY <1>0, <1>3, <1>4, WaitingForFields
  <1> HIDE DEF r
  <1>6. /\ q \in [Slots -> Record] /\ q[s] = r
        /\ \A x \in Slots \ {s} : q[x] = p[x]
    BY <1>0, <1>2, <1>5
  <1>7. \A x \in Slots :
           /\ SameProcess(p[x], q[x]) /\ q[x].parent = p[x].parent
           /\ q[x].kids = p[x].kids /\ q[x].used = p[x].used
           /\ q[x].gen = p[x].gen /\ q[x].group = p[x].group
           /\ Terminal(q[x]) => Terminal(p[x])
    BY <1>5, <1>6 DEF SameProcess, Terminal
  <1>8. \A x \in Slots : Children(q, x) = Children(p, x)
    BY <1>7 DEF Children
  <1>9. KidsCounted(q)
    BY <1>0, <1>7, <1>8 DEF KidsCounted
  <1>10. SlotsUsed(q)
    <2>1. \A x \in Slots : q[x].state = "free" <=> p[x].state = "free"
      BY <1>0, <1>5, <1>6 DEF SlotsUsed
    <2> QED BY <1>0, <1>7, <2>1 DEF SlotsUsed
  <1>11. Rooted(q)
    BY <1>0, <1>7, SlotFacts DEF Rooted
  <1>12. \A x, d \in Slots : x # s =>
            (WaitCovers(q, q[x], d) <=> WaitCovers(p, p[x], d))
    BY <1>6, <1>7 DEF WaitCovers, HandleOf
  <1>13. \A x \in Slots \ {s} : Awaited(q, x) = Awaited(p, x)
    BY <1>8, <1>12 DEF Awaited, Children
  <1>14. c \in Awaited(q, s) /\ \A d \in Awaited(q, s) : ~Terminal(q[d])
    <2>1. /\ WaitCovers(p, r, c)
          /\ \A d \in Children(p, s) :
                WaitCovers(p, r, d) => d \in Candidates(p, s, which)
      BY <1>0, <1>1, <1>5, WaitKinds DEF t, g
    <2>2. \A d \in Slots : WaitCovers(q, q[s], d) <=> WaitCovers(p, r, d)
      BY <1>6, <1>7 DEF WaitCovers, HandleOf
    <2>3. c \in Children(p, s) /\ Children(p, s) \subseteq Slots
      BY <1>1 DEF Candidates, Children
    <2> QED BY <1>1, <1>7, <1>8, <2>1, <2>2, <2>3 DEF Awaited
  <1>15. ASSUME NEW x \in Slots, Waiting(q[x])
         PROVE  /\ Awaited(q, x) # {}
                /\ x # InitSlot \/ Len(q[x].target) = 2 =>
                      \A d \in Awaited(q, x) : ~Terminal(q[d])
    <2>1. CASE x = s
      BY <2>1, <1>14
    <2>2. CASE x # s
      <3>1. q[x] = p[x] /\ Awaited(q, x) = Awaited(p, x) /\ Awaited(p, x) \subseteq Slots
        BY <2>2, <1>6, <1>13 DEF Awaited, Children
      <3> QED BY <3>1, <1>0, <1>7, <1>15 DEF WaitsServed
    <2> QED BY <2>1, <2>2
  <1>16. ASSUME NEW x \in Slots, Reading(q[x])
         PROVE  q[x].target = NoTarget
    <2>1. x # s
      BY <1>16, <1>5, <1>6 DEF Reading
    <2> QED BY <2>1, <1>0, <1>6, <1>16 DEF WaitsServed
  <1>17. TableInv(q)
    BY <1>6, <1>9, <1>10, <1>11, <1>15, <1>16
       DEF TableInv, Family, Shape, WaitsServed
  <1> QED BY <1>5, <1>6, <1>7, <1>17 DEF q

-----------------------------------------------------------------------------
(* The foreground group ends, one member after another.                    *)

PassSlot(t, n, M, seq) ==
    IF n - 1 \in M
    THEN Exit(t, n - 1, seq + Cardinality({m \in M : m < n - 1}))
    ELSE t

StagesTo(k, g, p, M, seq) ==
    g = [n \in 0..k |-> IF n = 0 THEN p ELSE PassSlot(g[n - 1], n, M, seq)]

(* A function with these stages exists for every length.                   *)
LEMMA StagesExist ==
    ASSUME NEW p, NEW M, NEW seq
    PROVE  \A k \in Nat : \E g : StagesTo(k, g, p, M, seq)
  <1> DEFINE S == {k \in Nat : \E g : StagesTo(k, g, p, M, seq)}
  <1>1. 0 \in S
    <2> DEFINE g == [n \in 0..0 |-> p]
    <2>1. StagesTo(0, g, p, M, seq)
      BY DEF StagesTo
    <2> HIDE DEF g
    <2> QED BY <2>1
  <1>2. ASSUME NEW k \in Nat, k \in S
        PROVE  k + 1 \in S
    <2>1. PICK g : StagesTo(k, g, p, M, seq)
      BY <1>2
    <2> DEFINE h == [n \in 0..(k + 1) |->
                       IF n = k + 1 THEN PassSlot(g[k], k + 1, M, seq) ELSE g[n]]
    <2>2. \A n \in 0..k : h[n] = g[n]
      OBVIOUS
    <2>3. h[k + 1] = PassSlot(h[k], k + 1, M, seq)
      OBVIOUS
    <2>4. ASSUME NEW n \in 0..(k + 1)
          PROVE  h[n] = IF n = 0 THEN p ELSE PassSlot(h[n - 1], n, M, seq)
      <3>1. CASE n = k + 1
        <4>1. n # 0 /\ n - 1 = k
          BY <3>1
        <4> HIDE DEF h
        <4> QED BY <2>3, <3>1, <4>1
      <3>2. CASE n # k + 1
        <4>1. n \in 0..k /\ (n # 0 => n - 1 \in 0..k)
          BY <3>2
        <4>2. g[n] = IF n = 0 THEN p ELSE PassSlot(g[n - 1], n, M, seq)
          BY <2>1, <4>1 DEF StagesTo
        <4> HIDE DEF h
        <4> QED BY <2>2, <4>1, <4>2
      <3> QED BY <3>1, <3>2
    <2>5. h = [n \in 0..(k + 1) |-> h[n]]
      OBVIOUS
    <2> HIDE DEF h
    <2>6. StagesTo(k + 1, h, p, M, seq)
      BY <2>4, <2>5 DEF StagesTo
    <2> QED BY <2>6
  <1> HIDE DEF S
  <1>3. \A k \in Nat : k \in S
    BY <1>1, <1>2, SetInduction
  <1> QED BY <1>3 DEF S

(* One slot is passed at a time; a member exits with the number of members *)
(* before it.                                                              *)
LEMMA StagesEquation ==
    ASSUME NEW p, NEW M, NEW seq
    PROVE  StagesTo(NumSlots, ExitStages(p, M, seq), p, M, seq)
  <1>1. \E g : StagesTo(NumSlots, g, p, M, seq)
    BY StagesExist, SlotFacts
  <1>2. ExitStages(p, M, seq) = CHOOSE g : StagesTo(NumSlots, g, p, M, seq)
    BY DEF ExitStages, StagesTo, PassSlot
  <1> QED BY <1>1, <1>2

(* A process the exits pass over: untouched, or woken from its wait.       *)
Spared(r, q) == /\ SameProcess(r, q) /\ q.seq = r.seq
                /\ \/ q.state = r.state /\ q.reason = r.reason
                   \/ Waiting(r) /\ q.state = "runnable"

Passed(p, q, M, n, top) ==
    /\ TableInv(q)
    /\ \A x \in Slots : SameProcess(p[x], q[x])
    /\ \A x \in Slots : x \notin M \/ x >= n => Spared(p[x], q[x])
    /\ \A x \in M : x < n => q[x].state = "zombie" /\ q[x].seq < top

(* By induction over the slots: after n of them the invariant holds, the   *)
(* members among them are zombies, and the others were spared.             *)
LEMMA StagesPassed ==
    ASSUME NEW p, TableInv(p), NEW M \in SUBSET Slots, NEW seq \in Nat,
           \A m \in M : p[m].used
    PROVE  \A n \in Nat : n <= NumSlots =>
              Passed(p, ExitStages(p, M, seq)[n], M, n, seq + Cardinality(M))
  <1> DEFINE f == ExitStages(p, M, seq)
             top == seq + Cardinality(M)
             S == {n \in Nat : n <= NumSlots => Passed(p, f[n], M, n, top)}
  <1>1. /\ f[0] = p
        /\ \A n \in Nat : n + 1 <= NumSlots => f[n + 1] = PassSlot(f[n], n + 1, M, seq)
    <2>1. StagesTo(NumSlots, f, p, M, seq)
      BY StagesEquation
    <2> HIDE DEF f
    <2>2. \A n \in 0..NumSlots : f[n] = IF n = 0 THEN p
                                        ELSE PassSlot(f[n - 1], n, M, seq)
      BY <2>1 DEF StagesTo
    <2>3. 0 \in 0..NumSlots /\ \A n \in Nat : n + 1 <= NumSlots =>
             n + 1 \in 0..NumSlots /\ n + 1 # 0 /\ (n + 1) - 1 = n
      BY SlotFacts
    <2> QED BY <2>2, <2>3
  <1> HIDE DEF f
  <1>2. 0 \in S
    <2>1. \A x \in Slots : SameProcess(p[x], p[x]) /\ Spared(p[x], p[x])
      BY DEF SameProcess, Spared
    <2>2. \A x \in M : ~ (x < 0)
      BY SlotFacts
    <2> QED BY <1>1, <2>1, <2>2 DEF Passed
  <1>3. ASSUME NEW n \in Nat, n \in S
        PROVE  n + 1 \in S
    <2> SUFFICES ASSUME n + 1 <= NumSlots
                 PROVE  Passed(p, f[n + 1], M, n + 1, top)
      OBVIOUS
    <2> DEFINE t == f[n]
               q == f[n + 1]
    <2>1. Passed(p, t, M, n, top) /\ n \in Slots
      BY <1>3, SlotFacts DEF Slots
    <2>2. (n + 1) - 1 = n
      OBVIOUS
    <2>3. CASE n \notin M
      <3>1. q = t
        BY <2>2, <2>3, <1>1 DEF PassSlot
      <3>2. \A x \in M : x < n + 1 => x < n
        BY <2>3, SlotFacts
      <3>3. \A x \in Slots : x >= n + 1 => x >= n
        BY SlotFacts
      <3> HIDE DEF q, t, top
      <3> QED BY <2>1, <3>1, <3>2, <3>3 DEF Passed, q
    <2>4. CASE n \in M
      <3> DEFINE L == {m \in M : m < n}
                 num == seq + Cardinality(L)
      <3>1. q = Exit(t, n, num)
        BY <2>2, <2>4, <1>1 DEF PassSlot
      <3>2. num \in Nat /\ num < top /\ top \in Nat
        <4>1. IsFiniteSet(M) /\ Cardinality(M) \in Nat
          BY SlotFacts, FS_Subset, FS_CardinalityType
        <4>2. L \subseteq M \ {n} /\ IsFiniteSet(M \ {n})
              /\ Cardinality(M \ {n}) = Cardinality(M) - 1
          BY <2>4, <4>1, SlotFacts, FS_RemoveElement
        <4>3. IsFiniteSet(L) /\ Cardinality(L) <= Cardinality(M) - 1
              /\ Cardinality(L) \in Nat
          BY <4>2, FS_Subset, FS_CardinalityType
        <4> HIDE DEF L
        <4> QED BY <4>1, <4>3
      <3>3. TableInv(t) /\ t[n].used
        BY <2>1, <2>4 DEF Passed, SameProcess
      <3> HIDE DEF q, t, num, top
      <3>4. PICK r : /\ TableInv(q) /\ Ended(t, q, n, r)
                     /\ r.state = "zombie" /\ r.seq = num
        BY <2>1, <3>1, <3>2, <3>3, ExitTable
      <3>5. \A x \in Slots : SameProcess(p[x], q[x])
        BY <2>1, <3>4 DEF Passed, Ended, SameProcess
      <3>6. ASSUME NEW x \in Slots, x \notin M \/ x >= n + 1
            PROVE  Spared(p[x], q[x])
        <4>1. x # n /\ (x \notin M \/ x >= n)
          BY <2>4, <3>6, SlotFacts
        <4>2. Spared(p[x], t[x])
          BY <2>1, <4>1 DEF Passed
        <4>3. /\ q[x].seq = t[x].seq
              /\ \/ q[x].state = t[x].state /\ q[x].reason = t[x].reason
                 \/ Waiting(t[x]) /\ q[x].state = "runnable"
          BY <3>4, <4>1 DEF Ended
        <4> QED BY <3>5, <4>2, <4>3 DEF Spared, Waiting
      <3>7. ASSUME NEW x \in M, x < n + 1
            PROVE  q[x].state = "zombie" /\ q[x].seq < top
        <4>1. CASE x = n
          BY <3>2, <3>4, <4>1 DEF Ended
        <4>2. CASE x # n
          <5>1. t[x].state = "zombie" /\ t[x].seq < top /\ x \in Slots \ {n}
            BY <2>1, <3>7, <4>2, SlotFacts DEF Passed
          <5> QED BY <3>4, <5>1 DEF Ended, Waiting
        <4> QED BY <4>1, <4>2
      <3> QED BY <3>4, <3>5, <3>6, <3>7 DEF Passed, q
    <2> QED BY <2>3, <2>4
  <1> HIDE DEF S
  <1>4. \A n \in Nat : n \in S
    BY <1>2, <1>3, SetInduction
  <1> QED BY <1>4 DEF S, f

(* applyInterruptDefault() as a whole.                                     *)
LEMMA ExitEachTable ==
    ASSUME NEW p, TableInv(p), NEW M \in SUBSET Slots, NEW seq \in Nat,
           \A m \in M : p[m].used
    PROVE  LET q == ExitEach(p, M, seq)
           IN /\ TableInv(q)
              /\ \A x \in Slots : SameProcess(p[x], q[x])
              /\ \A x \in Slots \ M : Spared(p[x], q[x])
              /\ \A x \in M : /\ q[x].state = "zombie"
                              /\ q[x].seq < seq + Cardinality(M)
  <1>1. Passed(p, ExitEach(p, M, seq), M, NumSlots, seq + Cardinality(M))
    BY StagesPassed, SlotFacts DEF ExitEach
  <1>2. \A x \in M : x < NumSlots
    BY SlotFacts DEF Slots
  <1> QED BY <1>1, <1>2 DEF Passed

-----------------------------------------------------------------------------
(* Signals.                                                                *)

(* Every signal but SIGKILL changes at most the state of its target, and   *)
(* makes nobody run or wait.                                               *)
LEMMA SignalCalm ==
    ASSUME NEW p, Shape(p), NEW s \in Slots, p[s].used, ~Terminal(p[s]),
           p[s].state # "free", NEW signal \in Signals, signal # SIGKILL, NEW seq
    PROVE  LET q == Signal(p, s, signal, seq)
           IN /\ CalmStep(p, q)
              /\ \A x \in Slots \ {s} : q[x] = p[x]
              /\ q[s] = p[s] \/ q[s].state \in {"runnable", "stopped"}
  <1> DEFINE q == Signal(p, s, signal, seq)
  <1>1. CASE signal = SIGSTOP
    <2>1. q = Stop(p, s)
      BY <1>1 DEF Signal, SIGKILL, SIGSTOP, SIGCONT
    <2> QED BY <2>1, StopCalm
  <1>2. CASE signal = SIGCONT /\ p[s].state = "stopped"
    <2>1. q = [p EXCEPT ![s] = InState(p[s], "runnable")]
      BY <1>2 DEF Signal, SIGKILL, SIGSTOP, SIGCONT, InState
    <2>2. /\ Calm(p[s], InState(p[s], "runnable"))
          /\ InState(p[s], "runnable").state = "runnable"
      BY StateOnlyCalm DEF Shape
    <2>3. CalmStep(p, [p EXCEPT ![s] = InState(p[s], "runnable")])
      BY <2>2, CalmUpdate
    <2> QED BY <2>1, <2>2, <2>3 DEF Shape
  <1>3. CASE signal # SIGSTOP /\ ~(signal = SIGCONT /\ p[s].state = "stopped")
    <2>1. q = IF p[s].state \in {"blocked", "sleeping"} THEN SetRunnable(p, s) ELSE p
      BY <1>3 DEF Signal
    <2>2. CASE p[s].state \in {"blocked", "sleeping"}
      BY <2>1, <2>2, SetRunnableCalm
    <2>3. CASE p[s].state \notin {"blocked", "sleeping"}
      BY <2>1, <2>3, CalmSame DEF CalmStep, Shape
    <2> QED BY <2>2, <2>3
  <1> QED BY <1>1, <1>2, <1>3

-----------------------------------------------------------------------------
(* The runtime                                                             *)

LiveSlots(p) == {s \in Slots : p[s].used /\ ~Terminal(p[s])}

(* The inductive invariant.  Beside the table: the counters, every live    *)
(* process having a PID of its own and every terminated one a number; the  *)
(* one context at CPL3; the terminal's owner; and the boot policy.         *)
Counters ==
    /\ cursor \in Slots /\ nextPid \in 2..(MaxPid + 1) /\ nextSeq \in Nat
    /\ nextSeq + Cardinality(LiveSlots(proc)) <= nextPid
    /\ \A s \in Slots : /\ proc[s].gen < nextPid /\ proc[s].seq < nextSeq
                        /\ proc[s].pid <= MaxPid /\ proc[s].group <= MaxPid

Cpu ==
    /\ cur \in Slots \cup {NoSlot, Off}
    /\ ctx \in [Slots -> {"none", "active", "released"}]
    /\ OnlyCurrentRuns /\ ContextMatches
    /\ InUser => proc[cur].state \in {"running", "runnable", "stopped"}

TtyOwned ==
    /\ tty \in [controller: Handles, foreground: 0..MaxPid]
    /\ ReadersInForeground
    /\ boot.shell = NoHandle => tty.foreground = 0 /\ tty.controller[1] = InitSlot

BootPolicy ==
    /\ boot \in [shell: Handles \cup {NoHandle}, exitAsked: BOOLEAN, shutdown: BOOLEAN]
    /\ boot.shell # NoHandle => proc[boot.shell[1]].gen >= boot.shell[2]
    /\ boot.exitAsked => boot.shell # NoHandle
    /\ ShutdownAfterShell

RuntimeInv == TableInv(proc) /\ Counters /\ Cpu /\ TtyOwned /\ BootPolicy

(* What a step may do to a terminal process.                               *)
FinalStep ==
    \A s \in Slots : proc[s].used /\ Terminal(proc[s]) =>
        \/ /\ proc'[s].state = proc[s].state /\ proc'[s].seq = proc[s].seq
           /\ proc'[s].pid = proc[s].pid
        \/ ~proc'[s].used

-----------------------------------------------------------------------------
(* A table that a handler may leave, with the termination counter at n.    *)

Keeps(p, q) ==
    \A x \in Slots :
        /\ SameProcess(p[x], q[x])
        /\ Terminal(p[x]) => q[x].state = p[x].state /\ q[x].seq = p[x].seq

Result(q, n) ==
    /\ TableInv(q) /\ Keeps(proc, q) /\ n \in Nat
    /\ n + Cardinality(LiveSlots(q)) <= nextPid
    /\ \A x \in Slots : /\ q[x].seq < n
                        /\ Reading(q[x]) => q[x].group = tty.foreground
                        /\ q[x].state = "running" => x = cur

(* The live processes are finitely many.                                   *)
LEMMA LiveFinite ==
    ASSUME NEW p
    PROVE  IsFiniteSet(LiveSlots(p)) /\ Cardinality(LiveSlots(p)) \in Nat
  <1>1. LiveSlots(p) \in SUBSET Slots
    BY DEF LiveSlots
  <1> QED BY <1>1, SlotFacts, FS_Subset, FS_CardinalityType

(* The process at CPL3 is alive and waits for nothing.                     *)
LEMMA CurrentFacts ==
    ASSUME RuntimeInv, InUser
    PROVE  /\ cur \in Slots /\ proc[cur].used /\ ~Terminal(proc[cur])
           /\ proc[cur].state \notin {"free", "blocked"}
           /\ ~Waiting(proc[cur]) /\ ~Reading(proc[cur])
           /\ ctx[cur] = "active"
  BY DEF RuntimeInv, Cpu, OnlyCurrentRuns, InUser, Live, Waiting, Reading

(* A change of states that makes nobody run and lets only the foreground   *)
(* group wait for the terminal.                                            *)
LEMMA CalmResult ==
    ASSUME RuntimeInv, NEW q, CalmStep(proc, q),
           \A x \in Slots :
              /\ q[x] = proc[x] \/ q[x].state # "running"
              /\ q[x] = proc[x] \/ (Reading(q[x]) => proc[x].group = tty.foreground)
    PROVE  Result(q, nextSeq)
  <1>1. TableInv(q)
    BY CalmTable DEF RuntimeInv, CalmStep
  <1>2. \A x \in Slots :
           /\ SameProcess(proc[x], q[x]) /\ q[x].seq = proc[x].seq
           /\ q[x].group = proc[x].group /\ q[x].used = proc[x].used
           /\ Terminal(proc[x]) \/ Terminal(q[x]) => q[x].state = proc[x].state
    BY DEF CalmStep, Calm, SameProcess
  <1>3. LiveSlots(q) = LiveSlots(proc)
    BY <1>2 DEF LiveSlots, Terminal
  <1>4. ASSUME NEW x \in Slots
        PROVE  /\ q[x].seq < nextSeq
               /\ Reading(q[x]) => q[x].group = tty.foreground
               /\ q[x].state = "running" => x = cur
    <2>1. q[x].seq < nextSeq
      BY <1>2 DEF RuntimeInv, Counters
    <2>2. Reading(q[x]) => q[x].group = tty.foreground
      BY <1>2 DEF RuntimeInv, TtyOwned, ReadersInForeground, Reading
    <2>3. q[x].state = "running" => x = cur
      BY DEF RuntimeInv, Cpu, OnlyCurrentRuns
    <2> QED BY <2>1, <2>2, <2>3
  <1> QED BY <1>1, <1>2, <1>3, <1>4 DEF Result, Keeps, RuntimeInv, Counters

(* The end of one live process.                                            *)
LEMMA EndResult ==
    ASSUME RuntimeInv, NEW s \in Slots, Live(s), NEW q, NEW r, TableInv(q),
           Ended(proc, q, s, r), Terminal(r), r.seq = nextSeq
    PROVE  Result(q, nextSeq + 1) /\ Terminal(q[s])
  <1>1. /\ \A x \in Slots : SameProcess(proc[x], q[x]) /\ q[x].used = proc[x].used
                            /\ q[x].group = proc[x].group
        /\ q[s].state = r.state /\ q[s].seq = nextSeq
        /\ \A x \in Slots \ {s} :
              /\ q[x].seq = proc[x].seq
              /\ \/ q[x].state = proc[x].state /\ q[x].reason = proc[x].reason
                 \/ Waiting(proc[x]) /\ q[x].state = "runnable"
    BY DEF Ended, SameProcess
  <1>2. Terminal(q[s])
    BY <1>1 DEF Terminal
  <1>3. LiveSlots(q) = LiveSlots(proc) \ {s} /\ s \in LiveSlots(proc)
    BY <1>1, <1>2 DEF LiveSlots, Live, Terminal, Waiting
  <1>4. Cardinality(LiveSlots(q)) = Cardinality(LiveSlots(proc)) - 1
    BY <1>3, LiveFinite, FS_RemoveElement
  <1>5. Keeps(proc, q)
    BY <1>1 DEF Keeps, Live, Terminal, Waiting
  <1>6. nextSeq \in Nat /\ nextPid \in Nat
        /\ nextSeq + Cardinality(LiveSlots(proc)) <= nextPid
        /\ \A x \in Slots : proc[x].seq < nextSeq
    BY BoundAssumption DEF RuntimeInv, Counters
  <1>7. \A x \in Slots : proc[x].seq \in Nat
    BY RecordFields DEF RuntimeInv, TableInv, Family, Shape
  <1>8. ASSUME NEW x \in Slots
        PROVE  /\ q[x].seq < nextSeq + 1
               /\ Reading(q[x]) => q[x].group = tty.foreground
               /\ q[x].state = "running" => x = cur
    <2>1. q[x].seq < nextSeq + 1
      BY <1>1, <1>6, <1>7
    <2>2. Reading(q[x]) => Reading(proc[x])
      BY <1>1, <1>2 DEF Reading, Waiting, Terminal
    <2>3. q[x].state = "running" => proc[x].state = "running"
      BY <1>1, <1>2 DEF Waiting, Terminal
    <2> QED BY <1>1, <2>1, <2>2, <2>3
            DEF RuntimeInv, TtyOwned, ReadersInForeground, Reading, Cpu, OnlyCurrentRuns
  <1> QED BY <1>2, <1>4, <1>5, <1>6, <1>8, LiveFinite DEF Result

(* The parts of the invariant that follow from a handler's result.         *)
LEMMA ResultCounters ==
    ASSUME RuntimeInv, Result(proc', nextSeq'), cursor' \in Slots, nextPid' = nextPid
    PROVE  Counters'
  BY DEF RuntimeInv, Counters, Result, Keeps, SameProcess, LiveSlots

(* The same for the boot policy: no identity changes.                      *)
LEMMA ResultBoot ==
    ASSUME RuntimeInv, Keeps(proc, proc'), boot' = boot
    PROVE  BootPolicy'
  <1>1. BootPolicy
    BY DEF RuntimeInv
  <1>2. \A x \in Slots : /\ proc'[x].gen = proc[x].gen /\ proc'[x].used = proc[x].used
                         /\ Terminal(proc[x]) => proc'[x].state = proc[x].state
    BY DEF Keeps, SameProcess
  <1>3. boot.shell # NoHandle => boot.shell[1] \in Slots
    BY <1>1 DEF BootPolicy, Handles
  <1> QED BY <1>1, <1>2, <1>3, SlotFacts
          DEF BootPolicy, ShutdownAfterShell, Resolves, Terminal

(* The same for the terminal's owner.                                      *)
LEMMA ResultTty ==
    ASSUME RuntimeInv, Result(proc', nextSeq'), tty' = tty,
           boot' = boot \/ (boot'.shell = boot.shell)
    PROVE  TtyOwned'
  BY DEF RuntimeInv, TtyOwned, Result, ReadersInForeground, Reading

(* A handler that keeps identities keeps the end of a terminal process.    *)
LEMMA KeepsFinal ==
    ASSUME Keeps(proc, proc')
    PROVE  FinalStep
  BY DEF Keeps, SameProcess, FinalStep

-----------------------------------------------------------------------------
(* Leaving CPL3.                                                           *)

(* The tail of dispatch() after a handler with result p: nobody is left    *)
(* running, and the context of a process that died is released.            *)
LEMMA ReturnFacts ==
    ASSUME RuntimeInv, InUser, NEW p, Result(p, nextSeq'), ReturnToKernel(p)
    PROVE  Result(proc', nextSeq') /\ Cpu'
  <1>1. cur \in Slots /\ TableInv(p) /\ Shape(p) /\ Keeps(proc, p)
    BY DEF InUser, Result, TableInv, Family
  <1>2. /\ CalmStep(p, proc') /\ TableInv(proc')
        /\ \A x \in Slots : proc'[x].state # "running"
        /\ \A x \in Slots : proc'[x] = p[x] \/ proc'[x].state = "runnable"
    <2>1. CASE p[cur].state = "running"
      <3>1. proc' = SetRunnable(p, cur) /\ ~Terminal(p[cur])
        BY <2>1 DEF ReturnToKernel, Terminal
      <3>2. /\ CalmStep(p, proc') /\ proc'[cur].state = "runnable"
            /\ \A x \in Slots \ {cur} : proc'[x] = p[x]
        BY <1>1, <2>1, <3>1, SetRunnableCalm
      <3>3. TableInv(proc')
        BY <1>1, <3>2, CalmTable DEF CalmStep
      <3> QED BY <1>1, <3>2, <3>3 DEF Result
    <2>2. CASE p[cur].state # "running"
      <3>1. proc' = p
        BY <2>2 DEF ReturnToKernel
      <3>2. CalmStep(p, p)
        BY <1>1, CalmSame DEF CalmStep, Shape
      <3> QED BY <1>1, <2>2, <3>1, <3>2 DEF Result
    <2> QED BY <2>1, <2>2
  <1>3. \A x \in Slots :
           /\ SameProcess(p[x], proc'[x]) /\ proc'[x].seq = p[x].seq
           /\ proc'[x].used = p[x].used /\ proc'[x].group = p[x].group
           /\ Terminal(p[x]) \/ Terminal(proc'[x]) => proc'[x].state = p[x].state
    BY <1>2 DEF CalmStep, Calm, SameProcess
  <1>4. LiveSlots(proc') = LiveSlots(p)
    BY <1>3 DEF LiveSlots, Terminal
  <1>5. Keeps(proc, proc')
    BY <1>1, <1>3 DEF Keeps, SameProcess, Terminal
  <1>6. Result(proc', nextSeq')
    <2>1. \A x \in Slots : Reading(proc'[x]) => proc'[x].group = tty.foreground
      BY <1>2 DEF Result, Reading
    <2> QED BY <1>2, <1>3, <1>4, <1>5, <2>1 DEF Result
  <1>7. /\ cur' = NoSlot
        /\ ctx' = IF Terminal(p[cur]) THEN [ctx EXCEPT ![cur] = "released"] ELSE ctx
    BY DEF ReturnToKernel
  <1>8. ~InUser' /\ OnlyCurrentRuns'
    BY <1>2, <1>7, SlotFacts DEF InUser, OnlyCurrentRuns
  <1>9. ctx \in [Slots -> {"none", "active", "released"}] /\ ContextMatches
    BY DEF RuntimeInv, Cpu
  <1>10. proc[cur].used
    BY CurrentFacts
  <1>11. ContextMatches'
    <2> SUFFICES ASSUME NEW x \in Slots
                 PROVE  /\ ctx'[x] = "none" <=> ~proc'[x].used
                        /\ ctx'[x] = "released" => Terminal(proc'[x])
      BY DEF ContextMatches
    <2>1. proc'[x].used = proc[x].used /\ (Terminal(proc[x]) => Terminal(proc'[x]))
      BY <1>5 DEF Keeps, SameProcess, Terminal
    <2>2. CASE x = cur /\ Terminal(p[cur])
      BY <1>3, <1>7, <1>9, <1>10, <2>1, <2>2 DEF Terminal
    <2>3. CASE ~(x = cur /\ Terminal(p[cur]))
      <3>1. ctx'[x] = ctx[x]
        BY <1>7, <1>9, <2>3
      <3> QED BY <1>9, <2>1, <3>1 DEF ContextMatches
    <2> QED BY <2>2, <2>3
  <1> QED BY <1>6, <1>7, <1>8, <1>9, <1>11 DEF Cpu

(* Such a step keeps the invariant, when it leaves the rest alone.         *)
LEMMA ReturnStep ==
    ASSUME RuntimeInv, InUser, NEW p, Result(p, nextSeq'), ReturnToKernel(p),
           UNCHANGED <<cursor, nextPid, system>>
    PROVE  RuntimeInv' /\ FinalStep
  <1>1. Result(proc', nextSeq') /\ Cpu'
    BY ReturnFacts
  <1>2. TableInv(proc') /\ Keeps(proc, proc')
    BY <1>1 DEF Result
  <1>3. cursor' \in Slots /\ nextPid' = nextPid /\ tty' = tty /\ boot' = boot
    BY DEF RuntimeInv, Counters, system
  <1>4. Counters' /\ BootPolicy' /\ TtyOwned'
    BY <1>1, <1>2, <1>3, ResultCounters, ResultBoot, ResultTty
  <1> QED BY <1>1, <1>2, <1>4, KeepsFinal DEF RuntimeInv

(* A handler that stays where it was.                                      *)
LEMMA StayStep ==
    ASSUME RuntimeInv, Result(proc', nextSeq'),
           UNCHANGED <<cursor, nextPid, cur, system>>,
           ctx' \in [Slots -> {"none", "active", "released"}], ContextMatches',
           InUser => /\ ctx'[cur] = "active"
                     /\ proc'[cur].state \in {"running", "runnable", "stopped"}
    PROVE  RuntimeInv' /\ FinalStep
  <1>1. TableInv(proc') /\ Keeps(proc, proc')
    BY DEF Result
  <1>2. cursor' \in Slots /\ nextPid' = nextPid /\ tty' = tty /\ boot' = boot
    BY DEF RuntimeInv, Counters, system
  <1>3. Counters' /\ BootPolicy' /\ TtyOwned'
    BY <1>1, <1>2, ResultCounters, ResultBoot, ResultTty
  <1>4. OnlyCurrentRuns'
    <2>1. \A x \in Slots : proc'[x].state = "running" => x = cur'
      BY DEF Result
    <2>2. ASSUME InUser'
          PROVE  Live(cur)' /\ ctx'[cur'] = "active"
      <3>1. InUser /\ cur' = cur /\ proc[cur].used
        BY <2>2, CurrentFacts DEF InUser
      <3>2. proc'[cur].used
        BY <1>1, <3>1 DEF Keeps, SameProcess, InUser
      <3> QED BY <3>1, <3>2 DEF Live, Terminal
    <2> QED BY <2>1, <2>2 DEF OnlyCurrentRuns
  <1>5. Cpu'
    BY <1>4 DEF RuntimeInv, Cpu, InUser
  <1> QED BY <1>1, <1>3, <1>5, KeepsFinal DEF RuntimeInv

(* The same with the contexts unchanged.                                   *)
LEMMA CalmContexts ==
    ASSUME RuntimeInv, Keeps(proc, proc'), ctx' = ctx
    PROVE  ctx' \in [Slots -> {"none", "active", "released"}] /\ ContextMatches'
  BY DEF RuntimeInv, Cpu, ContextMatches, Keeps, SameProcess, Terminal

(* A handler of the service loop, with nobody at CPL3.                     *)
LEMMA KernelStep ==
    ASSUME RuntimeInv, InKernel, Result(proc', nextSeq'),
           UNCHANGED <<cursor, nextPid, cur, ctx, system>>
    PROVE  RuntimeInv' /\ FinalStep
  <1>1. ~InUser
    BY SlotFacts DEF InKernel, InUser
  <1>2. ctx' \in [Slots -> {"none", "active", "released"}] /\ ContextMatches'
    BY CalmContexts DEF Result
  <1> QED BY <1>1, <1>2, StayStep

-----------------------------------------------------------------------------
(* The service loop.                                                       *)

(* The table's type, with a state for every used slot.                     *)
LEMMA ProcShape ==
    ASSUME RuntimeInv
    PROVE  /\ Shape(proc) /\ proc \in [Slots -> Record]
           /\ \A s \in Slots : proc[s].used <=> proc[s].state # "free"
  BY DEF RuntimeInv, TableInv, Family, Shape, SlotsUsed

(* serviceOne(): the process it enters is alive and has its context.       *)
LEMMA ServiceOneStep ==
    ASSUME RuntimeInv, ServiceOne
    PROVE  RuntimeInv' /\ FinalStep
  <1> DEFINE s == NextAfter(proc, cursor)
  <1>1. /\ InKernel /\ cursor' = s /\ cur' = s /\ proc' = SetRunning(proc, s)
        /\ UNCHANGED <<nextPid, nextSeq, ctx, tty, boot>>
    BY DEF ServiceOne, system
  <1>2. cursor \in Slots /\ RunnableSlots(proc) # {}
    BY DEF RuntimeInv, Counters, ServiceOne
  <1>3. s \in Slots /\ proc[s].used /\ proc[s].state = "runnable"
    BY <1>2, NextAfterFacts
  <1> HIDE DEF s
  <1>4. /\ CalmStep(proc, proc') /\ proc'[s].state = "running"
        /\ \A x \in Slots \ {s} : proc'[x].state # "running" \/ ~proc[x].used
        /\ \A x \in Slots : Reading(proc'[x]) => x # s /\ proc'[x] = proc[x]
    BY <1>1, <1>3, ProcShape, SetRunningCalm
  <1>5. TableInv(proc')
    BY <1>4, CalmTable DEF RuntimeInv, CalmStep
  <1>6. \A x \in Slots :
           /\ SameProcess(proc[x], proc'[x]) /\ proc'[x].seq = proc[x].seq
           /\ proc'[x].group = proc[x].group /\ proc'[x].used = proc[x].used
           /\ Terminal(proc[x]) \/ Terminal(proc'[x]) => proc'[x].state = proc[x].state
    BY <1>4 DEF CalmStep, Calm, SameProcess
  <1>7. Keeps(proc, proc')
    BY <1>6 DEF Keeps
  <1>8. LiveSlots(proc') = LiveSlots(proc)
    BY <1>6 DEF LiveSlots, Terminal
  <1>9. \A x \in Slots : proc'[x].state = "running" => x = s
    <2>1. \A x \in Slots : ~proc'[x].used => proc'[x].state = "free"
      BY <1>5 DEF TableInv, Family, SlotsUsed
    <2> QED BY <1>4, <1>6, <2>1
  <1>10. Counters'
    BY <1>1, <1>3, <1>6, <1>8 DEF RuntimeInv, Counters, SameProcess
  <1>11. TtyOwned'
    BY <1>1, <1>4, <1>6 DEF RuntimeInv, TtyOwned, ReadersInForeground, Reading
  <1>12. BootPolicy'
    BY <1>1, <1>7, ResultBoot
  <1>13. ctx' \in [Slots -> {"none", "active", "released"}] /\ ContextMatches'
    BY <1>1, <1>7, CalmContexts
  <1>14. ctx'[s] = "active"
    BY <1>1, <1>3 DEF RuntimeInv, Cpu, ContextMatches, Terminal
  <1>15. Cpu'
    BY <1>1, <1>3, <1>4, <1>6, <1>9, <1>13, <1>14
       DEF Cpu, OnlyCurrentRuns, InUser, Live, Terminal
  <1> QED BY <1>5, <1>7, <1>10, <1>11, <1>12, <1>15, KeepsFinal DEF RuntimeInv

(* wakeExpired() on a tick.                                                *)
LEMMA TickExpiresStep ==
    ASSUME RuntimeInv, TickExpires
    PROVE  RuntimeInv' /\ FinalStep
  <1>1. PICK E \in SUBSET {s \in Slots : proc[s].state = "sleeping"} :
           proc' = WakeExpired(proc, E)
    BY DEF TickExpires
  <1>2. /\ CalmStep(proc, proc')
        /\ \A x \in Slots : proc'[x] = proc[x] \/ proc'[x].state = "runnable"
    BY <1>1, ProcShape, WakeExpiredCalm
  <1>3. Result(proc', nextSeq)
    BY <1>2, CalmResult DEF Reading
  <1> QED BY <1>3, KernelStep DEF TickExpires

(* A device, a peer or the terminal wakes whoever waits for it.            *)
LEMMA WakeStep ==
    ASSUME RuntimeInv, InKernel, NEW re, NEW t, proc' = WakeMatching(proc, re, t),
           UNCHANGED <<cursor, nextPid, nextSeq, cur, ctx, system>>
    PROVE  RuntimeInv' /\ FinalStep
  <1>1. /\ CalmStep(proc, proc')
        /\ \A x \in Slots : proc'[x] = proc[x] \/ proc'[x].state = "runnable"
    BY ProcShape, WakeMatchingCalm
  <1>2. Result(proc', nextSeq)
    BY <1>1, CalmResult DEF Reading
  <1> QED BY <1>2, KernelStep

(* finishRuntime() is entered from the service loop, with nobody running.  *)
LEMMA PowerOffStep ==
    ASSUME RuntimeInv, PowerOff
    PROVE  RuntimeInv' /\ FinalStep
  <1>1. /\ InKernel /\ cur' = Off
        /\ UNCHANGED <<proc, cursor, nextPid, nextSeq, ctx, tty, boot>>
    BY DEF PowerOff, system
  <1>2. \A x \in Slots : proc'[x].state # "running"
    BY <1>1, SlotFacts DEF RuntimeInv, Cpu, OnlyCurrentRuns, InKernel
  <1>3. ~InUser' /\ Off \notin Slots
    BY <1>1, SlotFacts DEF InUser, Off, Slots
  <1>4. Cpu'
    BY <1>1, <1>2, <1>3 DEF RuntimeInv, Cpu, OnlyCurrentRuns, ContextMatches
  <1>5. Counters' /\ TtyOwned' /\ BootPolicy' /\ TableInv(proc')
    BY <1>1 DEF RuntimeInv, Counters, TtyOwned, ReadersInForeground, BootPolicy,
                ShutdownAfterShell
  <1> QED BY <1>1, <1>4, <1>5 DEF RuntimeInv, FinalStep

(* The control keys reach live processes only.                             *)
LEMMA MembersFacts ==
    /\ ForegroundMembers \in SUBSET Slots
    /\ \A s \in ForegroundMembers : proc[s].used /\ ~Terminal(proc[s])
  BY DEF ForegroundMembers, GroupMembers

(* Ctrl-Z stops the foreground group.                                      *)
LEMMA TtySuspendStep ==
    ASSUME RuntimeInv, TtySuspend
    PROVE  RuntimeInv' /\ FinalStep
  <1> DEFINE M == ForegroundMembers
  <1>1. /\ proc' = [s \in Slots |-> IF s \in M THEN Stop(proc, s)[s] ELSE proc[s]]
        /\ InKernel /\ UNCHANGED <<cursor, nextPid, nextSeq, cur, ctx, system>>
    BY DEF TtySuspend
  <1>2. ASSUME NEW x \in Slots
        PROVE  /\ Calm(proc[x], proc'[x])
               /\ proc'[x] = proc[x] \/ proc'[x].state = "stopped"
    <2>1. CASE x \in M
      <3>1. proc[x].used /\ ~Terminal(proc[x]) /\ proc[x].state # "free"
        BY <2>1, MembersFacts, ProcShape
      <3>2. CalmStep(proc, Stop(proc, x)) /\ Stop(proc, x)[x].state = "stopped"
        BY <3>1, ProcShape, StopCalm
      <3> QED BY <1>1, <2>1, <3>2 DEF CalmStep
    <2>2. CASE x \notin M
      BY <1>1, <2>2, ProcShape, CalmSame
    <2> QED BY <2>1, <2>2
  <1>3. CalmStep(proc, proc')
    <2>1. proc' = [x \in Slots |-> proc'[x]]
      BY <1>1
    <2> QED BY <1>2, <2>1 DEF CalmStep, Calm
  <1>4. Result(proc', nextSeq)
    BY <1>2, <1>3, CalmResult DEF Reading
  <1> QED BY <1>1, <1>4, KernelStep

(* Ctrl-C ends the foreground group, one number per member.                *)
LEMMA TtyInterruptStep ==
    ASSUME RuntimeInv, TtyInterrupt
    PROVE  RuntimeInv' /\ FinalStep
  <1> DEFINE M == ForegroundMembers
             woken == [s \in Slots |-> IF s \in M
                                       THEN Signal(proc, s, 2, nextSeq)[s]
                                       ELSE proc[s]]
             k == Cardinality(M)
  <1>1. /\ proc' = ExitEach(woken, M, nextSeq) /\ nextSeq' = nextSeq + k
        /\ InKernel /\ UNCHANGED <<cursor, nextPid, cur, ctx, system>>
    BY DEF TtyInterrupt
  <1>2. ASSUME NEW x \in Slots
        PROVE  Calm(proc[x], woken[x]) /\ (x \notin M => woken[x] = proc[x])
    <2>1. CASE x \in M
      <3>1. proc[x].used /\ ~Terminal(proc[x]) /\ proc[x].state # "free"
        BY <2>1, MembersFacts, ProcShape
      <3>2. 2 \in Signals /\ 2 # SIGKILL
        BY DEF Signals, SIGKILL
      <3>3. CalmStep(proc, Signal(proc, x, 2, nextSeq))
        BY <3>1, <3>2, ProcShape, SignalCalm
      <3> QED BY <2>1, <3>3 DEF CalmStep
    <2>2. CASE x \notin M
      BY <2>2, ProcShape, CalmSame
    <2> QED BY <2>1, <2>2
  <1>3. TableInv(woken)
    <2>1. woken \in [Slots -> Record]
      <3>1. woken = [x \in Slots |-> woken[x]]
        OBVIOUS
      <3> HIDE DEF woken
      <3> QED BY <1>2, <3>1 DEF Calm
    <2> HIDE DEF woken
    <2> QED BY <1>2, <2>1, CalmTable DEF RuntimeInv
  <1> HIDE DEF woken
  <1>4. \A x \in M : woken[x].used
    BY <1>2, MembersFacts DEF Calm, SameProcess
  <1>5. /\ nextSeq \in Nat /\ nextPid \in Nat /\ k \in Nat
        /\ nextSeq + Cardinality(LiveSlots(proc)) <= nextPid
        /\ IsFiniteSet(M)
    <2>1. IsFiniteSet(M)
      BY MembersFacts, SlotFacts, FS_Subset
    <2> HIDE DEF M
    <2>2. k \in Nat
      BY <2>1, FS_CardinalityType
    <2>3. /\ nextSeq \in Nat /\ nextPid \in Nat
          /\ nextSeq + Cardinality(LiveSlots(proc)) <= nextPid
      BY BoundAssumption DEF RuntimeInv, Counters
    <2> QED BY <2>1, <2>2, <2>3
  <1>6. /\ TableInv(proc')
        /\ \A x \in Slots : SameProcess(woken[x], proc'[x])
        /\ \A x \in Slots \ M : Spared(woken[x], proc'[x])
        /\ \A x \in M : proc'[x].state = "zombie" /\ proc'[x].seq < nextSeq + k
    BY <1>1, <1>3, <1>4, <1>5, MembersFacts, ExitEachTable
  <1> HIDE DEF M, k
  <1>7. \A x \in Slots : /\ SameProcess(proc[x], proc'[x])
                         /\ proc'[x].used = proc[x].used
                         /\ proc'[x].group = proc[x].group
    BY <1>2, <1>6 DEF Calm, SameProcess
  <1>8. \A x \in Slots \ M :
           /\ proc'[x].seq = proc[x].seq
           /\ \/ proc'[x].state = proc[x].state /\ proc'[x].reason = proc[x].reason
              \/ Waiting(proc[x]) /\ proc'[x].state = "runnable"
    BY <1>2, <1>6 DEF Spared
  <1>9. \A x \in M : x \in Slots /\ proc[x].used /\ ~Terminal(proc[x])
    BY MembersFacts DEF M
  <1>10. Keeps(proc, proc')
    BY <1>7, <1>8, <1>9 DEF Keeps, Waiting, Terminal
  <1>11. LiveSlots(proc') = LiveSlots(proc) \ M /\ M \in SUBSET LiveSlots(proc)
    BY <1>6, <1>7, <1>8, <1>9 DEF LiveSlots, Waiting, Terminal
  <1>12. Cardinality(LiveSlots(proc) \ M) = Cardinality(LiveSlots(proc)) - k
    <2>1. Cardinality(LiveSlots(proc) \ M) =
             Cardinality(LiveSlots(proc)) - Cardinality(LiveSlots(proc) \cap M)
      BY <1>5, LiveFinite, FS_Difference
    <2>2. LiveSlots(proc) \cap M = M
      BY <1>11
    <2> QED BY <2>1, <2>2 DEF k
  <1>13. ASSUME NEW x \in Slots
         PROVE  /\ proc'[x].seq < nextSeq + k
                /\ Reading(proc'[x]) => proc'[x].group = tty.foreground
                /\ proc'[x].state = "running" => x = cur
    <2>1. CASE x \in M
      BY <1>6, <2>1 DEF Reading
    <2>2. CASE x \notin M
      <3>1. proc[x].seq < nextSeq /\ proc[x].seq \in Nat
        BY ProcShape, RecordFields DEF RuntimeInv, Counters
      <3>2. proc'[x].seq < nextSeq + k
        BY <1>5, <1>8, <2>2, <3>1
      <3>3. Reading(proc'[x]) => Reading(proc[x])
        BY <1>8, <2>2 DEF Reading, Waiting
      <3>4. proc'[x].state = "running" => proc[x].state = "running"
        BY <1>8, <2>2
      <3> QED BY <1>7, <3>2, <3>3, <3>4
              DEF RuntimeInv, TtyOwned, ReadersInForeground, Reading, Cpu, OnlyCurrentRuns
    <2> QED BY <2>1, <2>2
  <1>14. Result(proc', nextSeq')
    <2>1. nextSeq + k \in Nat /\ (nextSeq + k) + Cardinality(LiveSlots(proc')) <= nextPid
      BY <1>5, <1>11, <1>12, LiveFinite
    <2> QED BY <1>1, <1>6, <1>10, <1>13, <2>1 DEF Result
  <1> QED BY <1>1, <1>14, KernelStep

-----------------------------------------------------------------------------
(* The timer and the calls that give up the CPU.                           *)

(* The timer and yield.                                                    *)
LEMMA YieldStep ==
    ASSUME RuntimeInv, InUser, ReturnToKernel(SetRunnable(proc, cur)),
           UNCHANGED <<cursor, nextPid, nextSeq, system>>
    PROVE  RuntimeInv' /\ FinalStep
  <1>1. /\ CalmStep(proc, SetRunnable(proc, cur))
        /\ \A x \in Slots \ {cur} : SetRunnable(proc, cur)[x] = proc[x]
        /\ SetRunnable(proc, cur)[cur].state = "runnable"
    BY CurrentFacts, ProcShape, SetRunnableCalm
  <1>2. Result(SetRunnable(proc, cur), nextSeq)
    <2> DEFINE q == SetRunnable(proc, cur)
    <2>1. CalmStep(proc, q) /\ \A x \in Slots : q[x] = proc[x] \/ q[x].state = "runnable"
      BY <1>1
    <2> HIDE DEF q
    <2>2. Result(q, nextSeq)
      BY <2>1, CalmResult DEF Reading
    <2> QED BY <2>2 DEF q
  <1> QED BY <1>2, ReturnStep

(* sleep.                                                                  *)
LEMMA SleepStep ==
    ASSUME RuntimeInv, SysSleep
    PROVE  RuntimeInv' /\ FinalStep
  <1> DEFINE q == Sleep(proc, cur)
  <1>1. /\ InUser /\ ReturnToKernel(q)
        /\ UNCHANGED <<cursor, nextPid, nextSeq, system>>
    BY DEF SysSleep
  <1>2. /\ CalmStep(proc, q) /\ q[cur].state = "sleeping"
        /\ \A x \in Slots \ {cur} : q[x] = proc[x]
    BY <1>1, CurrentFacts, ProcShape, SleepCalm
  <1> HIDE DEF q
  <1>3. Result(q, nextSeq)
    BY <1>2, CalmResult DEF Reading
  <1> QED BY <1>1, <1>3, ReturnStep

(* A blocked read, write or lock, on the terminal only from its foreground *)
(* group.                                                                  *)
LEMMA BlockStep ==
    ASSUME RuntimeInv, InUser, NEW re \in {"io", "terminal_read"}, NEW t \in Targets,
           re = "terminal_read" => t = NoTarget /\ proc[cur].group = tty.foreground,
           ReturnToKernel(Block(proc, cur, re, t)),
           UNCHANGED <<cursor, nextPid, nextSeq, system>>
    PROVE  RuntimeInv' /\ FinalStep
  <1> DEFINE q == Block(proc, cur, re, t)
  <1>1. /\ CalmStep(proc, q) /\ q[cur].state = "blocked" /\ q[cur].reason = re
        /\ \A x \in Slots \ {cur} : q[x] = proc[x]
    BY CurrentFacts, ProcShape, BlockTableCalm
  <1> HIDE DEF q
  <1>2. Result(q, nextSeq)
    BY <1>1, CalmResult DEF Reading
  <1> QED BY <1>2, ReturnStep DEF q

(* exit, fault and the CPU limit.                                          *)
LEMMA LeaveStep ==
    ASSUME RuntimeInv, InUser, NEW p,
           p = Exit(proc, cur, nextSeq) \/ p = Fault(proc, cur, nextSeq)
    PROVE  Result(p, nextSeq + 1) /\ Terminal(p[cur])
           /\ (p = Exit(proc, cur, nextSeq) => p[cur].state = "zombie")
  <1>1. cur \in Slots /\ proc[cur].used /\ Live(cur) /\ TableInv(proc) /\ nextSeq \in Nat
    BY CurrentFacts DEF Live, RuntimeInv, Counters
  <1>2. CASE p = Exit(proc, cur, nextSeq)
    <2>1. PICK r : /\ TableInv(p) /\ Ended(proc, p, cur, r)
                   /\ r.state = "zombie" /\ r.seq = nextSeq
      BY <1>1, <1>2, ExitTable
    <2>2. Terminal(r)
      BY <2>1 DEF Terminal
    <2>3. Result(p, nextSeq + 1) /\ Terminal(p[cur])
      BY <1>1, <2>1, <2>2, EndResult
    <2> QED BY <2>1, <2>3 DEF Ended
  <1>3. CASE p # Exit(proc, cur, nextSeq)
    <2>1. PICK r : /\ TableInv(p) /\ Ended(proc, p, cur, r)
                   /\ r.state = "faulted" /\ r.seq = nextSeq
      BY <1>1, <1>3, FaultTable
    <2>2. Terminal(r)
      BY <2>1 DEF Terminal
    <2> QED BY <1>1, <1>3, <2>1, <2>2, EndResult
  <1> QED BY <1>2, <1>3

(* Such a handler leaves through dispatch().                               *)
LEMMA ExitStep ==
    ASSUME RuntimeInv, InUser, NEW p,
           p = Exit(proc, cur, nextSeq) \/ p = Fault(proc, cur, nextSeq),
           ReturnToKernel(p), nextSeq' = nextSeq + 1,
           UNCHANGED <<cursor, nextPid, system>>
    PROVE  RuntimeInv' /\ FinalStep
  <1>1. Result(p, nextSeq')
    BY LeaveStep
  <1> QED BY <1>1, ReturnStep

(* The shell's and init's shutdown calls: init is a zombie and the shell's *)
(* handle names nobody once shutdown is set.                               *)
LEMMA ShutdownStep ==
    ASSUME RuntimeInv, SysShutdown
    PROVE  RuntimeInv' /\ FinalStep
  <1> DEFINE p == Exit(proc, cur, nextSeq)
  <1>1. /\ InUser /\ ReturnToKernel(p) /\ nextSeq' = nextSeq + 1 /\ ~boot.shutdown
        /\ UNCHANGED <<cursor, nextPid, tty>>
        /\ \/ /\ HandleOf(proc, cur) = boot.shell
              /\ boot' = [boot EXCEPT !.exitAsked = TRUE]
           \/ /\ cur = InitSlot /\ boot.exitAsked /\ ~Resolves(proc, boot.shell)
              /\ boot' = [boot EXCEPT !.shutdown = TRUE]
    BY DEF SysShutdown
  <1>2. Result(p, nextSeq') /\ Terminal(p[cur]) /\ p[cur].state = "zombie"
    BY <1>1, LeaveStep
  <1> HIDE DEF p
  <1>3. Result(proc', nextSeq') /\ Cpu'
    BY <1>1, <1>2, ReturnFacts
  <1>4. TableInv(proc') /\ Keeps(proc, proc') /\ proc' = p
    BY <1>1, <1>2, <1>3 DEF Result, ReturnToKernel
  <1>5. cursor' \in Slots /\ nextPid' = nextPid
    BY <1>1 DEF RuntimeInv, Counters
  <1>6. /\ boot \in [shell: Handles \cup {NoHandle}, exitAsked: BOOLEAN, shutdown: BOOLEAN]
        /\ boot.shell # NoHandle => proc[boot.shell[1]].gen >= boot.shell[2]
        /\ boot.exitAsked => boot.shell # NoHandle
    BY DEF RuntimeInv, BootPolicy
  <1>7. /\ boot'.shell = boot.shell
        /\ boot' \in [shell: Handles \cup {NoHandle}, exitAsked: BOOLEAN, shutdown: BOOLEAN]
    BY <1>1, <1>6
  <1>8. Counters' /\ TtyOwned'
    BY <1>1, <1>3, <1>5, <1>7, ResultCounters, ResultTty
  <1>9. boot'.exitAsked => boot'.shell # NoHandle
    BY <1>1, <1>6 DEF HandleOf, NoHandle
  <1>10. boot.shell # NoHandle => boot.shell[1] \in Slots
    BY <1>6 DEF Handles
  <1>11. boot'.shell # NoHandle => proc'[boot'.shell[1]].gen >= boot'.shell[2]
    BY <1>4, <1>6, <1>7, <1>10 DEF Keeps, SameProcess
  <1>12. ShutdownAfterShell'
    <2> SUFFICES ASSUME boot'.shutdown
                 PROVE  /\ boot'.exitAsked /\ ~Resolves(proc', boot'.shell)
                        /\ proc'[InitSlot].state = "zombie"
      BY DEF ShutdownAfterShell
    <2>1. cur = InitSlot /\ boot.exitAsked /\ ~Resolves(proc, boot.shell)
          /\ boot'.exitAsked
      BY <1>1, <1>6
    <2>2. boot.shell[1] \in Slots
      BY <2>1, <1>6, <1>10
    <2>3. ~Resolves(proc', boot.shell)
      BY <2>1, <2>2, <1>4 DEF Resolves, Keeps, SameProcess
    <2> QED BY <2>1, <2>3, <1>2, <1>4, <1>7
  <1>13. BootPolicy'
    BY <1>7, <1>9, <1>11, <1>12 DEF BootPolicy
  <1> QED BY <1>3, <1>4, <1>8, <1>13, KeepsFinal DEF RuntimeInv

-----------------------------------------------------------------------------
(* kill and wait.                                                          *)

(* kill(): the caller returns to CPL3 unless it killed itself.             *)
LEMMA KillStep ==
    ASSUME RuntimeInv, NEW s \in Slots, NEW signal \in Signals, SysKill(s, signal)
    PROVE  RuntimeInv' /\ FinalStep
  <1> DEFINE q == Signal(proc, s, signal, nextSeq)
  <1>1. /\ InUser /\ Live(s) /\ UNCHANGED <<cursor, nextPid, system>>
        /\ nextSeq' = IF signal = SIGKILL THEN nextSeq + 1 ELSE nextSeq
        /\ s = cur /\ Terminal(q[s]) => ReturnToKernel(q)
        /\ ~(s = cur /\ Terminal(q[s])) =>
              /\ proc' = q /\ cur' = cur
              /\ ctx' = IF Terminal(q[s]) THEN [ctx EXCEPT ![s] = "released"] ELSE ctx
    BY DEF SysKill
  <1>2. /\ proc[s].used /\ ~Terminal(proc[s]) /\ proc[s].state # "free"
        /\ cur \in Slots /\ ctx[cur] = "active" /\ ~Waiting(proc[cur])
        /\ proc[cur].state \in {"running", "runnable", "stopped"}
        /\ TableInv(proc) /\ nextSeq \in Nat
        /\ ctx \in [Slots -> {"none", "active", "released"}] /\ ContextMatches
    BY <1>1, ProcShape, CurrentFacts DEF Live, RuntimeInv, Counters, Cpu
  <1>3. CASE signal = SIGKILL
    <2>1. q = Exit(proc, s, nextSeq)
      BY <1>3 DEF Signal, SIGKILL, SIGSTOP, SIGCONT
    <2> HIDE DEF q
    <2>2. PICK r : /\ TableInv(q) /\ Ended(proc, q, s, r)
                   /\ r.state = "zombie" /\ r.seq = nextSeq
      BY <1>2, <2>1, ExitTable
    <2>3. Result(q, nextSeq') /\ Terminal(q[s])
      BY <1>1, <1>3, <2>2, EndResult DEF Terminal
    <2>4. CASE s = cur
      BY <1>1, <2>3, <2>4, ReturnStep
    <2>5. CASE s # cur
      <3>1. proc' = q /\ cur' = cur /\ ctx' = [ctx EXCEPT ![s] = "released"]
        BY <1>1, <2>3, <2>5
      <3>2. proc'[cur].state \in {"running", "runnable", "stopped"}
        BY <1>2, <2>2, <2>5, <3>1 DEF Ended
      <3>3. \A x \in Slots : /\ proc'[x].used = proc[x].used
                             /\ Terminal(proc[x]) => Terminal(proc'[x])
        BY <2>3, <3>1 DEF Result, Keeps, SameProcess, Terminal
      <3>4. ContextMatches'
        BY <1>2, <2>3, <3>1, <3>3 DEF ContextMatches
      <3>5. ctx' \in [Slots -> {"none", "active", "released"}] /\ ctx'[cur] = "active"
        BY <1>2, <2>5, <3>1
      <3> QED BY <1>1, <2>3, <3>1, <3>2, <3>4, <3>5, StayStep
    <2> QED BY <2>4, <2>5
  <1>4. CASE signal # SIGKILL
    <2>1. /\ CalmStep(proc, q) /\ \A x \in Slots \ {s} : q[x] = proc[x]
          /\ q[s] = proc[s] \/ q[s].state \in {"runnable", "stopped"}
      BY <1>2, <1>4, ProcShape, SignalCalm
    <2> HIDE DEF q
    <2>2. ~Terminal(q[s])
      BY <1>2, <2>1 DEF Terminal
    <2>3. Result(q, nextSeq)
      BY <2>1, CalmResult DEF Reading
    <2>4. proc' = q /\ ctx' = ctx /\ cur' = cur /\ nextSeq' = nextSeq
      BY <1>1, <1>4, <2>2
    <2>5. proc'[cur].state \in {"running", "runnable", "stopped"}
      BY <1>2, <2>1, <2>4
    <2>6. ctx' \in [Slots -> {"none", "active", "released"}] /\ ContextMatches'
      BY <2>3, <2>4, CalmContexts DEF Result
    <2> QED BY <1>1, <1>2, <2>3, <2>4, <2>5, <2>6, StayStep
  <1> QED BY <1>3, <1>4

(* wait() with a terminated child: the slot and its context are given back.*)
LEMMA ReapStep ==
    ASSUME RuntimeInv, NEW which \in Waits, SysWaitReaps(which)
    PROVE  RuntimeInv' /\ FinalStep
  <1> DEFINE C == Candidates(proc, cur, which)
             c == EarliestTerminal(proc, C)
  <1>1. /\ InUser /\ \E x \in C : Terminal(proc[x])
        /\ proc' = ReapSlot(proc, cur, c) /\ ctx' = [ctx EXCEPT ![c] = "none"]
        /\ UNCHANGED <<cursor, nextPid, nextSeq, cur, tty, boot>>
    BY DEF SysWaitReaps, system
  <1>2. C \in SUBSET Children(proc, cur) /\ C \in SUBSET Slots
    BY DEF Candidates, Children
  <1> HIDE DEF C
  <1>3. c \in C /\ Terminal(proc[c])
    BY <1>1, <1>2, ProcShape, EarliestTerminalFacts
  <1> HIDE DEF c
  <1>4. c \in Slots /\ c \in Children(proc, cur)
    BY <1>2, <1>3
  <1>5. TableInv(proc') /\ Reaped(proc, proc', c) /\ c # InitSlot /\ c # cur
    BY <1>1, <1>3, <1>4, CurrentFacts, ReapTable DEF RuntimeInv
  <1>6. /\ \A x \in Slots \ {c} :
              /\ proc'[x].used = proc[x].used /\ proc'[x].gen = proc[x].gen
              /\ proc'[x].pid = proc[x].pid /\ proc'[x].group = proc[x].group
              /\ proc'[x].state = proc[x].state /\ proc'[x].reason = proc[x].reason
              /\ proc'[x].seq = proc[x].seq
        /\ ~proc'[c].used /\ proc'[c].gen = proc[c].gen /\ proc'[c].state = "free"
        /\ proc'[c].seq = 0 /\ proc'[c].pid = 0 /\ proc'[c].group = 0
    BY <1>5 DEF Reaped, SameProcess
  <1>7. LiveSlots(proc') = LiveSlots(proc)
    BY <1>3, <1>6 DEF LiveSlots, Terminal
  <1>8. Counters'
    <2>1. 0 < nextSeq /\ 0 <= MaxPid
      BY <1>4, ProcShape, RecordFields, BoundAssumption DEF RuntimeInv, Counters
    <2> QED BY <1>1, <1>6, <1>7, <2>1 DEF RuntimeInv, Counters
  <1>9. Cpu'
    BY <1>1, <1>4, <1>5, <1>6
       DEF RuntimeInv, Cpu, OnlyCurrentRuns, ContextMatches, InUser, Live, Terminal
  <1>10. TtyOwned'
    BY <1>1, <1>6 DEF RuntimeInv, TtyOwned, ReadersInForeground
  <1>11. BootPolicy'
    <2>1. BootPolicy
      BY DEF RuntimeInv
    <2>2. boot.shell # NoHandle => boot.shell[1] \in Slots
      BY <2>1 DEF BootPolicy, Handles
    <2> QED BY <1>1, <1>5, <1>6, <2>1, <2>2, SlotFacts
            DEF BootPolicy, ShutdownAfterShell, Resolves
  <1>12. FinalStep
    BY <1>6 DEF FinalStep
  <1> QED BY <1>5, <1>8, <1>9, <1>10, <1>11, <1>12 DEF RuntimeInv

(* wait() with live candidates only: the caller blocks.                    *)
LEMMA WaitStep ==
    ASSUME RuntimeInv, NEW which \in Waits, SysWaitBlocks(which)
    PROVE  RuntimeInv' /\ FinalStep
  <1> DEFINE q == BlockForChild(proc, cur, which)
  <1>1. /\ InUser /\ Candidates(proc, cur, which) # {}
        /\ \A x \in Candidates(proc, cur, which) : ~Terminal(proc[x])
        /\ ReturnToKernel(q) /\ UNCHANGED <<cursor, nextPid, nextSeq, system>>
    BY DEF SysWaitBlocks
  <1>2. cur \in Slots /\ proc[cur].used /\ ~Terminal(proc[cur]) /\ TableInv(proc)
    BY <1>1, CurrentFacts DEF RuntimeInv
  <1>3. /\ TableInv(q) /\ q[cur].state = "blocked" /\ q[cur].reason = "child"
        /\ SameProcess(proc[cur], q[cur]) /\ q[cur].seq = proc[cur].seq
        /\ \A x \in Slots \ {cur} : q[x] = proc[x]
    BY <1>1, <1>2, BlockForChildTable
  <1> HIDE DEF q
  <1>4. Keeps(proc, q)
    BY <1>2, <1>3 DEF Keeps, SameProcess
  <1>5. LiveSlots(q) = LiveSlots(proc)
    BY <1>2, <1>3 DEF LiveSlots, SameProcess, Terminal
  <1>6. ASSUME NEW x \in Slots
        PROVE  /\ q[x].seq < nextSeq
               /\ Reading(q[x]) => q[x].group = tty.foreground
               /\ q[x].state = "running" => x = cur
    BY <1>2, <1>3 DEF RuntimeInv, Counters, TtyOwned, ReadersInForeground, Reading,
                      Cpu, OnlyCurrentRuns
  <1>7. Result(q, nextSeq)
    BY <1>3, <1>4, <1>5, <1>6 DEF Result, RuntimeInv, Counters
  <1> QED BY <1>1, <1>7, ReturnStep

-----------------------------------------------------------------------------
(* spawn.                                                                  *)

(* The table after a handler gave the free slot s a new generation: every  *)
(* other process keeps its identity, and a terminal one its end.           *)
Fresh(q, s) ==
    /\ s \in Slots /\ ~proc[s].used /\ q[s].gen = proc[s].gen + 1
    /\ \A x \in Slots \ {s} :
          /\ SameProcess(proc[x], q[x])
          /\ Terminal(proc[x]) => q[x].state = proc[x].state /\ q[x].seq = proc[x].seq

(* A new generation never revives the shell's handle, and ends nobody.     *)
LEMMA FreshPolicy ==
    ASSUME RuntimeInv, NEW s, Fresh(proc', s)
    PROVE  FinalStep /\ (boot' = boot => BootPolicy')
  <1>1. BootPolicy /\ proc[InitSlot].used /\ proc \in [Slots -> Record]
    BY DEF RuntimeInv, TableInv, Family, Rooted, Shape
  <1>2. boot.shell # NoHandle => boot.shell[1] \in Slots /\ boot.shell[2] \in Nat
    BY <1>1 DEF BootPolicy, Handles
  <1>3. /\ s \in Slots /\ s # InitSlot /\ proc[s].gen \in Nat
        /\ proc'[s].gen = proc[s].gen + 1
        /\ \A x \in Slots \ {s} :
              /\ proc'[x].used = proc[x].used /\ proc'[x].gen = proc[x].gen
              /\ proc'[x].pid = proc[x].pid
              /\ Terminal(proc[x]) => /\ proc'[x].state = proc[x].state
                                      /\ proc'[x].seq = proc[x].seq
    BY <1>1, RecordFields DEF Fresh, SameProcess
  <1>4. FinalStep
    BY <1>3 DEF FinalStep, Fresh
  <1>5. ASSUME boot' = boot
        PROVE  BootPolicy'
    <2>1. boot'.shell # NoHandle => proc'[boot'.shell[1]].gen >= boot'.shell[2]
      <3>1. CASE boot.shell[1] = s
        BY <1>1, <1>2, <1>3, <1>5, <3>1 DEF BootPolicy
      <3>2. CASE boot.shell[1] # s
        BY <1>1, <1>2, <1>3, <1>5, <3>2 DEF BootPolicy
      <3> QED BY <3>1, <3>2
    <2>2. ASSUME boot.shutdown
          PROVE  ~Resolves(proc', boot.shell) /\ proc'[InitSlot].state = "zombie"
      <3>1. boot.shell # NoHandle /\ ~Resolves(proc, boot.shell)
            /\ proc[InitSlot].state = "zombie" /\ proc[boot.shell[1]].gen >= boot.shell[2]
        BY <1>1, <2>2 DEF BootPolicy, ShutdownAfterShell
      <3>2. CASE boot.shell[1] = s
        BY <1>2, <1>3, <3>1, <3>2, SlotFacts DEF Resolves, Terminal
      <3>3. CASE boot.shell[1] # s
        BY <1>2, <1>3, <3>1, <3>3, SlotFacts DEF Resolves, Terminal
      <3> QED BY <3>2, <3>3
    <2> QED BY <1>1, <1>5, <2>1, <2>2 DEF BootPolicy, ShutdownAfterShell
  <1> QED BY <1>4, <1>5

(* What the caller of spawn may rely on.                                   *)
LEMMA SpawnFacts ==
    ASSUME RuntimeInv, InUser, nextPid <= MaxPid, MaySpawn(proc, cur), NEW g \in 1..MaxPid
    PROVE  LET q == Spawn(proc, cur, nextPid, g)
           IN TableInv(q) /\ Born(proc, q, LowestFree(proc), cur, nextPid, g)
  <1>1. /\ cur \in Slots /\ proc[cur].used /\ ~Terminal(proc[cur])
        /\ ~Waiting(proc[cur]) /\ TableInv(proc) /\ FreeSlots(proc) # {}
        /\ nextPid \in Nat /\ g \in Nat \ {0}
    BY CurrentFacts, BoundAssumption DEF RuntimeInv, Counters, MaySpawn
  <1> QED BY <1>1, SpawnTable

(* A child is born in slot s of table q; the readers may be woken as well. *)
LEMMA BornStep ==
    ASSUME RuntimeInv, InUser, nextPid <= MaxPid, NEW g \in 1..MaxPid,
           NEW s, NEW q, TableInv(q), Born(proc, q, s, cur, nextPid, g),
           CalmStep(q, proc'),
           \A x \in Slots :
              proc'[x] = q[x] \/ (Reading(q[x]) /\ proc'[x].state = "runnable"),
           nextPid' = nextPid + 1, ctx' = [ctx EXCEPT ![s] = "active"],
           UNCHANGED <<cursor, nextSeq, cur>>
    PROVE  /\ TableInv(proc') /\ Counters' /\ Cpu' /\ FinalStep
           /\ Fresh(proc', s) /\ (boot' = boot => BootPolicy')
           /\ \A x \in Slots : Reading(proc'[x]) =>
                 Reading(proc[x]) /\ proc'[x].group = proc[x].group
           /\ \A x \in Slots : Reading(q[x]) => Reading(proc[x])
  <1>1. /\ s \in Slots /\ ~proc[s].used /\ s # cur
        /\ q[s].used /\ q[s].gen = proc[s].gen + 1 /\ q[s].pid = nextPid
        /\ q[s].group = g /\ q[s].state = "runnable" /\ q[s].seq = 0
        /\ \A x \in Slots \ {s} :
              /\ q[x].used = proc[x].used /\ q[x].gen = proc[x].gen
              /\ q[x].pid = proc[x].pid /\ q[x].group = proc[x].group
              /\ q[x].state = proc[x].state /\ q[x].reason = proc[x].reason
              /\ q[x].seq = proc[x].seq
    BY DEF Born, SameProcess
  <1>2. TableInv(proc')
    BY CalmTable DEF CalmStep
  <1>3. \A x \in Slots :
           /\ proc'[x].used = q[x].used /\ proc'[x].gen = q[x].gen
           /\ proc'[x].pid = q[x].pid /\ proc'[x].group = q[x].group
           /\ proc'[x].seq = q[x].seq
           /\ \/ proc'[x].state = q[x].state /\ proc'[x].reason = q[x].reason
              \/ q[x].state = "blocked" /\ proc'[x].state = "runnable"
    BY DEF CalmStep, Calm, SameProcess, Reading
  <1>4. /\ proc'[s].used /\ proc'[s].gen = proc[s].gen + 1 /\ proc'[s].pid = nextPid
        /\ proc'[s].group = g /\ proc'[s].state = "runnable" /\ proc'[s].seq = 0
    BY <1>1, <1>3
  <1>5. \A x \in Slots \ {s} :
           /\ proc'[x].used = proc[x].used /\ proc'[x].gen = proc[x].gen
           /\ proc'[x].pid = proc[x].pid /\ proc'[x].group = proc[x].group
           /\ proc'[x].seq = proc[x].seq
           /\ \/ proc'[x].state = proc[x].state /\ proc'[x].reason = proc[x].reason
              \/ proc[x].state = "blocked" /\ proc'[x].state = "runnable"
    BY <1>1, <1>3
  <1>6. Fresh(proc', s)
    BY <1>1, <1>4, <1>5 DEF Fresh, SameProcess, Terminal
  <1>7. LiveSlots(proc') = LiveSlots(proc) \cup {s} /\ s \notin LiveSlots(proc)
    BY <1>1, <1>4, <1>5 DEF LiveSlots, Terminal
  <1>8. Cardinality(LiveSlots(proc')) = Cardinality(LiveSlots(proc)) + 1
    BY <1>7, LiveFinite, FS_AddElement
  <1>9. Counters'
    <2>1. /\ cursor \in Slots /\ nextPid \in 2..(MaxPid + 1) /\ nextSeq \in Nat
          /\ nextSeq + Cardinality(LiveSlots(proc)) <= nextPid /\ MaxPid \in Nat
          /\ \A x \in Slots : /\ proc[x].gen < nextPid /\ proc[x].seq < nextSeq
                              /\ proc[x].pid <= MaxPid /\ proc[x].group <= MaxPid
                              /\ proc[x].gen \in Nat /\ proc[x].seq \in Nat
      BY ProcShape, RecordFields, BoundAssumption DEF RuntimeInv, Counters
    <2>2. nextPid' \in 2..(MaxPid + 1) /\ nextPid \in Nat
      BY <2>1
    <2>3. nextSeq + Cardinality(LiveSlots(proc')) <= nextPid + 1
      BY <1>8, <2>1, <2>2, LiveFinite
    <2>4. \A x \in Slots : /\ proc'[x].gen < nextPid + 1 /\ proc'[x].seq < nextSeq
                           /\ proc'[x].pid <= MaxPid /\ proc'[x].group <= MaxPid
      <3>1. \A x \in Slots \ {s} :
               /\ proc'[x].gen < nextPid + 1 /\ proc'[x].seq < nextSeq
               /\ proc'[x].pid <= MaxPid /\ proc'[x].group <= MaxPid
        BY <1>5, <2>1, <2>2
      <3>2. /\ proc'[s].gen < nextPid + 1 /\ proc'[s].seq < nextSeq
            /\ proc'[s].pid <= MaxPid /\ proc'[s].group <= MaxPid
        BY <1>1, <1>4, <2>1, <2>2
      <3> QED BY <3>1, <3>2
    <2> QED BY <2>1, <2>2, <2>3, <2>4 DEF Counters
  <1>10. Cpu'
    <2>1. /\ cur \in Slots /\ ctx[cur] = "active" /\ proc[cur].used
          /\ proc[cur].state \in {"running", "runnable", "stopped"}
          /\ ctx \in [Slots -> {"none", "active", "released"}]
          /\ OnlyCurrentRuns /\ ContextMatches
      BY CurrentFacts DEF RuntimeInv, Cpu
    <2>2. ctx' \in [Slots -> {"none", "active", "released"}] /\ ctx'[cur] = "active"
      BY <1>1, <2>1
    <2>3. ContextMatches'
      BY <1>1, <1>4, <1>5, <2>1 DEF ContextMatches, Terminal
    <2>4. proc'[cur].used /\ proc'[cur].state \in {"running", "runnable", "stopped"}
      BY <1>1, <1>5, <2>1
    <2>5. OnlyCurrentRuns'
      BY <1>4, <1>5, <2>1, <2>2, <2>4 DEF OnlyCurrentRuns, Live, Terminal
    <2> QED BY <2>1, <2>2, <2>3, <2>4, <2>5 DEF Cpu
  <1>11. \A x \in Slots : Reading(proc'[x]) =>
            Reading(proc[x]) /\ proc'[x].group = proc[x].group
    BY <1>4, <1>5 DEF Reading
  <1>12. \A x \in Slots : Reading(q[x]) => Reading(proc[x])
    BY <1>1 DEF Reading
  <1> QED BY <1>2, <1>6, <1>9, <1>10, <1>11, <1>12, FreshPolicy

(* Nobody waits for the terminal before the shell has it.                  *)
LEMMA NoReaderYet ==
    ASSUME RuntimeInv, boot.shell = NoHandle, NEW x \in Slots
    PROVE  ~Reading(proc[x])
  <1>1. proc[x].state = "blocked" => proc[x].used /\ proc[x].group # 0
    BY DEF RuntimeInv, TableInv, Family, SlotsUsed
  <1> QED BY <1>1 DEF RuntimeInv, TtyOwned, ReadersInForeground, Reading

(* spawn(), init's one child included, which takes over the terminal.      *)
LEMMA SpawnStep ==
    ASSUME RuntimeInv, NEW group \in Pids, SysSpawn(group)
    PROVE  RuntimeInv' /\ FinalStep
  <1> DEFINE s == LowestFree(proc)
             g == IF cur = InitSlot THEN nextPid ELSE group
             q == Spawn(proc, cur, nextPid, g)
  <1>1. /\ InUser /\ nextPid <= MaxPid /\ MaySpawn(proc, cur) /\ ChildAllowed
        /\ proc' = q /\ ctx' = [ctx EXCEPT ![s] = "active"] /\ nextPid' = nextPid + 1
        /\ UNCHANGED <<cursor, nextSeq, cur>>
        /\ tty' = IF cur = InitSlot
                  THEN [controller |-> HandleOf(q, s), foreground |-> nextPid] ELSE tty
        /\ boot' = IF cur = InitSlot THEN [boot EXCEPT !.shell = HandleOf(q, s)] ELSE boot
    BY DEF SysSpawn
  <1>2. nextPid \in 2..(MaxPid + 1) /\ MaxPid \in Nat /\ g \in 1..MaxPid
    BY <1>1, BoundAssumption DEF RuntimeInv, Counters, Pids
  <1> HIDE DEF g
  <1>3. TableInv(q) /\ Born(proc, q, s, cur, nextPid, g)
    BY <1>1, <1>2, SpawnFacts
  <1> HIDE DEF q, s
  <1>4. CalmStep(q, proc')
    BY <1>1, <1>3, CalmSame DEF CalmStep, TableInv, Family, Shape
  <1>5. /\ TableInv(proc') /\ Counters' /\ Cpu' /\ FinalStep
        /\ Fresh(proc', s) /\ (boot' = boot => BootPolicy')
        /\ \A x \in Slots : Reading(proc'[x]) =>
              Reading(proc[x]) /\ proc'[x].group = proc[x].group
    BY <1>1, <1>2, <1>3, <1>4, BornStep
  <1>6. CASE cur # InitSlot
    <2>1. tty' = tty /\ boot' = boot
      BY <1>1, <1>6
    <2>2. TtyOwned'
      BY <1>5, <2>1 DEF RuntimeInv, TtyOwned, ReadersInForeground, Reading
    <2> QED BY <1>5, <2>1, <2>2 DEF RuntimeInv
  <1>7. CASE cur = InitSlot
    <2>1. /\ boot.shell = NoHandle /\ nextPid = 2
          /\ tty' = [controller |-> HandleOf(q, s), foreground |-> nextPid]
          /\ boot' = [boot EXCEPT !.shell = HandleOf(q, s)]
      BY <1>1, <1>7 DEF ChildAllowed
    <2>2. HandleOf(q, s) \in Handles
      <3>1. s \in Slots /\ q[s].gen = proc[s].gen + 1
        BY <1>3 DEF Born
      <3>2. proc[s].gen \in Nat /\ proc[s].gen < nextPid
        BY <3>1, ProcShape, RecordFields DEF RuntimeInv, Counters
      <3> QED BY <1>1, <1>2, <3>1, <3>2 DEF HandleOf, Handles
    <2>3. HandleOf(q, s) # NoHandle
      BY DEF HandleOf, NoHandle
    <2>4. \A x \in Slots : ~Reading(proc'[x])
      BY <1>5, <2>1, NoReaderYet
    <2>5. tty' \in [controller: Handles, foreground: 0..MaxPid]
      BY <1>1, <1>2, <2>1, <2>2
    <2>6. /\ boot \in [shell: Handles \cup {NoHandle}, exitAsked: BOOLEAN,
                       shutdown: BOOLEAN]
          /\ ~boot.shutdown /\ ~boot.exitAsked
      BY <1>1, <1>7, <2>1, CurrentFacts DEF RuntimeInv, BootPolicy, ShutdownAfterShell
    <2>7. /\ boot' \in [shell: Handles \cup {NoHandle}, exitAsked: BOOLEAN,
                        shutdown: BOOLEAN]
          /\ boot'.shell = HandleOf(q, s) /\ ~boot'.shutdown /\ ~boot'.exitAsked
      BY <2>1, <2>2, <2>6
    <2>8. TtyOwned'
      BY <2>3, <2>4, <2>5, <2>7 DEF TtyOwned, ReadersInForeground, Reading
    <2>9. proc'[boot'.shell[1]].gen >= boot'.shell[2]
      <3>1. boot'.shell[1] = s /\ boot'.shell[2] = proc'[s].gen
        BY <1>1, <2>7 DEF HandleOf
      <3>2. s \in Slots /\ proc' \in [Slots -> Record]
        BY <1>3, <1>5 DEF Born, TableInv, Family, Shape
      <3>3. proc'[s].gen \in Nat
        BY <3>2, RecordFields
      <3> QED BY <3>1, <3>3
    <2>10. BootPolicy'
      BY <2>7, <2>9 DEF BootPolicy, ShutdownAfterShell
    <2> QED BY <1>5, <2>8, <2>10 DEF RuntimeInv
  <1> QED BY <1>6, <1>7

(* After setForegroundGroup() nobody waits for the terminal.               *)
LEMMA ReadersWoken ==
    ASSUME NEW p, TableInv(p)
    PROVE  LET q == WakeMatching(p, "terminal_read", NoTarget)
           IN /\ CalmStep(p, q) /\ \A x \in Slots : ~Reading(q[x])
              /\ \A x \in Slots :
                    q[x] = p[x] \/ (Reading(p[x]) /\ q[x].state = "runnable")
  <1> DEFINE q == WakeMatching(p, "terminal_read", NoTarget)
             hit(x) == /\ p[x].used /\ p[x].state = "blocked"
                       /\ p[x].reason = "terminal_read" /\ p[x].target = NoTarget
  <1>1. /\ CalmStep(p, q)
        /\ \A x \in Slots : q[x] = p[x] \/ q[x].state = "runnable"
        /\ \A x \in Slots : hit(x) => q[x].state = "runnable"
    BY WakeMatchingCalm DEF TableInv, Family
  <1>2. \A x \in Slots : ~hit(x) => q[x] = p[x]
    BY DEF WakeMatching
  <1>3. \A x \in Slots : Reading(p[x]) <=> hit(x)
    BY DEF TableInv, Family, SlotsUsed, WaitsServed, Reading
  <1> HIDE DEF q, hit
  <1>4. \A x \in Slots : ~Reading(q[x])
    BY <1>1, <1>2, <1>3 DEF Reading
  <1>5. \A x \in Slots : q[x] = p[x] \/ (Reading(p[x]) /\ q[x].state = "runnable")
    BY <1>1, <1>2, <1>3
  <1> QED BY <1>1, <1>4, <1>5 DEF q

(* The terminal passes to group g, with no reader left behind.             *)
LEMMA HandOver ==
    ASSUME RuntimeInv, NEW p, NEW g \in 1..MaxPid, InUser, cur # InitSlot,
           tty.controller = HandleOf(p, cur), tty' = [tty EXCEPT !.foreground = g],
           boot' = boot, \A x \in Slots : ~Reading(proc'[x])
    PROVE  TtyOwned'
  <1>1. tty \in [controller: Handles, foreground: 0..MaxPid] /\ g \in 0..MaxPid
    BY BoundAssumption DEF RuntimeInv, TtyOwned
  <1>2. tty' \in [controller: Handles, foreground: 0..MaxPid]
    BY <1>1
  <1>3. tty.controller[1] = cur
    BY DEF HandleOf
  <1>4. boot.shell # NoHandle
    BY <1>3 DEF RuntimeInv, TtyOwned
  <1> QED BY <1>2, <1>4 DEF TtyOwned, ReadersInForeground, Reading

(* setForegroundGroup() from the terminal's controller.                    *)
LEMMA SetForegroundStep ==
    ASSUME RuntimeInv, NEW g \in Pids, SysSetForeground(g)
    PROVE  RuntimeInv' /\ FinalStep
  <1>1. /\ InUser /\ cur # InitSlot /\ tty.controller = HandleOf(proc, cur)
        /\ tty' = [tty EXCEPT !.foreground = g] /\ TableInv(proc)
        /\ proc' = WakeMatching(proc, "terminal_read", NoTarget)
        /\ UNCHANGED <<cursor, nextPid, nextSeq, cur, ctx, boot>>
    BY DEF SysSetForeground, MayForeground, SetForegroundGroup, RuntimeInv
  <1>2. /\ CalmStep(proc, proc') /\ \A x \in Slots : ~Reading(proc'[x])
        /\ \A x \in Slots :
              proc'[x] = proc[x] \/ (Reading(proc[x]) /\ proc'[x].state = "runnable")
    BY <1>1, ReadersWoken
  <1>3. Result(proc', nextSeq)
    BY <1>2, CalmResult DEF Reading
  <1>4. TableInv(proc') /\ Keeps(proc, proc')
    BY <1>3 DEF Result
  <1>5. cursor' \in Slots /\ nextPid' = nextPid /\ nextSeq' = nextSeq
    BY <1>1 DEF RuntimeInv, Counters
  <1>6. Counters' /\ BootPolicy' /\ FinalStep
    BY <1>1, <1>3, <1>4, <1>5, ResultCounters, ResultBoot, KeepsFinal
  <1>7. TtyOwned'
    BY <1>1, <1>2, HandOver DEF Pids
  <1>8. ctx' \in [Slots -> {"none", "active", "released"}] /\ ContextMatches'
    BY <1>1, <1>4, CalmContexts
  <1>9. cur \in Slots /\ proc'[cur] = proc[cur]
    BY <1>1, <1>2, CurrentFacts
  <1>10. OnlyCurrentRuns'
    BY <1>1, <1>2, <1>9 DEF RuntimeInv, Cpu, OnlyCurrentRuns, InUser, Live
  <1>11. Cpu'
    BY <1>1, <1>8, <1>9, <1>10 DEF RuntimeInv, Cpu, InUser
  <1> QED BY <1>4, <1>6, <1>7, <1>11 DEF RuntimeInv

(* spawnv with a new group that takes the terminal at once.                *)
LEMMA SpawnForegroundStep ==
    ASSUME RuntimeInv, SysSpawnForeground
    PROVE  RuntimeInv' /\ FinalStep
  <1> DEFINE s == LowestFree(proc)
             q == Spawn(proc, cur, nextPid, nextPid)
  <1>1. /\ InUser /\ cur # InitSlot /\ nextPid <= MaxPid /\ MaySpawn(proc, cur)
        /\ tty.controller = HandleOf(q, cur)
        /\ tty' = [tty EXCEPT !.foreground = nextPid]
        /\ proc' = WakeMatching(q, "terminal_read", NoTarget)
        /\ ctx' = [ctx EXCEPT ![s] = "active"] /\ nextPid' = nextPid + 1
        /\ UNCHANGED <<cursor, nextSeq, cur, boot>>
    BY DEF SysSpawnForeground, MayForeground, SetForegroundGroup
  <1>2. nextPid \in 1..MaxPid
    BY <1>1, BoundAssumption DEF RuntimeInv, Counters
  <1>3. TableInv(q) /\ Born(proc, q, s, cur, nextPid, nextPid)
    BY <1>1, <1>2, SpawnFacts
  <1> HIDE DEF q, s
  <1>4. /\ CalmStep(q, proc') /\ \A x \in Slots : ~Reading(proc'[x])
        /\ \A x \in Slots :
              proc'[x] = q[x] \/ (Reading(q[x]) /\ proc'[x].state = "runnable")
    BY <1>1, <1>3, ReadersWoken
  <1>5. TableInv(proc') /\ Counters' /\ Cpu' /\ FinalStep /\ (boot' = boot => BootPolicy')
    BY <1>1, <1>2, <1>3, <1>4, BornStep
  <1>6. TtyOwned'
    BY <1>1, <1>2, <1>4, HandOver
  <1> QED BY <1>1, <1>5, <1>6 DEF RuntimeInv

(* A spawn that is rolled back leaves a fresh generation and no process.   *)
LEMMA RolledBackStep ==
    ASSUME RuntimeInv, SysSpawnRolledBack
    PROVE  RuntimeInv' /\ FinalStep
  <1> DEFINE s == LowestFree(proc)
             g == proc[cur].group
             born == Spawn(proc, cur, nextPid, g)
             gone == Exit(born, s, nextSeq)
  <1>1. /\ InUser /\ nextPid <= MaxPid /\ MaySpawn(proc, cur)
        /\ proc' = ReapSlot(gone, cur, s) /\ nextPid' = nextPid + 1
        /\ nextSeq' = nextSeq + 1 /\ UNCHANGED <<cursor, cur, ctx, tty, boot>>
    BY DEF SysSpawnRolledBack, system
  <1>2. /\ cur \in Slots /\ ~Waiting(proc[cur]) /\ proc[cur].used
        /\ ~Terminal(proc[cur]) /\ ctx[cur] = "active"
        /\ proc[cur].state \in {"running", "runnable", "stopped"}
    BY <1>1, CurrentFacts DEF RuntimeInv, Cpu
  <1>3. g \in 1..MaxPid
    <2>1. g \in Nat /\ g # 0 /\ g <= MaxPid
      BY <1>2, ProcShape, RecordFields
         DEF RuntimeInv, TableInv, Family, SlotsUsed, Counters
    <2> QED BY <2>1, BoundAssumption
  <1> HIDE DEF g
  <1>4. TableInv(born) /\ Born(proc, born, s, cur, nextPid, g)
    BY <1>1, <1>3, SpawnFacts
  <1> HIDE DEF born, s
  <1>5. /\ s \in Slots /\ ~proc[s].used /\ s # cur /\ born[s].used
        /\ born[s].gen = proc[s].gen + 1 /\ born[s].parent = cur
    BY <1>4 DEF Born
  <1>6. /\ nextSeq \in Nat /\ nextPid \in 2..(MaxPid + 1) /\ MaxPid \in Nat
        /\ nextSeq + Cardinality(LiveSlots(proc)) <= nextPid /\ cursor \in Slots
        /\ \A x \in Slots : /\ proc[x].gen < nextPid /\ proc[x].seq < nextSeq
                            /\ proc[x].pid <= MaxPid /\ proc[x].group <= MaxPid
                            /\ proc[x].gen \in Nat /\ proc[x].seq \in Nat
    BY ProcShape, RecordFields, BoundAssumption DEF RuntimeInv, Counters
  <1>7. PICK r : TableInv(gone) /\ Ended(born, gone, s, r) /\ r.state = "zombie"
    BY <1>4, <1>5, <1>6, ExitTable
  <1> HIDE DEF gone
  <1>8. /\ gone[s].used /\ gone[s].gen = born[s].gen /\ gone[s].parent = cur
        /\ Terminal(gone[s]) /\ s \in Children(gone, cur)
    BY <1>5, <1>7 DEF Ended, SameProcess, Terminal, Children
  <1>9. /\ gone[cur].used /\ ~Waiting(gone[cur])
        /\ gone[cur].state = proc[cur].state
    BY <1>2, <1>4, <1>5, <1>7 DEF Ended, Born, SameProcess, Waiting
  <1>10. TableInv(proc') /\ Reaped(gone, proc', s)
    BY <1>1, <1>2, <1>7, <1>8, <1>9, ReapTable
  <1>11. \A x \in Slots \ {s} :
            /\ proc'[x].used = proc[x].used /\ proc'[x].gen = proc[x].gen
            /\ proc'[x].pid = proc[x].pid /\ proc'[x].group = proc[x].group
            /\ proc'[x].seq = proc[x].seq
            /\ \/ proc'[x].state = proc[x].state /\ proc'[x].reason = proc[x].reason
               \/ Waiting(proc[x]) /\ proc'[x].state = "runnable"
    <2>1. \A x \in Slots \ {s} :
             /\ SameProcess(proc[x], born[x]) /\ born[x].seq = proc[x].seq
             /\ born[x].state = proc[x].state /\ born[x].reason = proc[x].reason
      BY <1>4 DEF Born
    <2>2. \A x \in Slots \ {s} :
             /\ SameProcess(born[x], gone[x]) /\ gone[x].seq = born[x].seq
             /\ \/ gone[x].state = born[x].state /\ gone[x].reason = born[x].reason
                \/ Waiting(born[x]) /\ gone[x].state = "runnable"
      BY <1>7 DEF Ended
    <2>3. \A x \in Slots \ {s} :
             /\ SameProcess(gone[x], proc'[x]) /\ proc'[x].seq = gone[x].seq
             /\ proc'[x].state = gone[x].state /\ proc'[x].reason = gone[x].reason
      BY <1>10 DEF Reaped
    <2> QED BY <2>1, <2>2, <2>3 DEF SameProcess, Waiting
  <1>12. /\ ~proc'[s].used /\ proc'[s].gen = proc[s].gen + 1 /\ proc'[s].state = "free"
         /\ proc'[s].seq = 0 /\ proc'[s].pid = 0 /\ proc'[s].group = 0
    BY <1>5, <1>8, <1>10 DEF Reaped
  <1>13. Fresh(proc', s)
    BY <1>5, <1>11, <1>12 DEF Fresh, SameProcess, Waiting, Terminal
  <1>14. LiveSlots(proc') = LiveSlots(proc)
    BY <1>5, <1>11, <1>12 DEF LiveSlots, Waiting, Terminal
  <1>15. Counters'
    <2>1. nextPid' \in 2..(MaxPid + 1) /\ nextPid \in Nat /\ nextSeq' \in Nat
      BY <1>1, <1>6
    <2>2. nextSeq' + Cardinality(LiveSlots(proc')) <= nextPid'
      BY <1>1, <1>6, <1>14, <2>1, LiveFinite
    <2>3. ASSUME NEW x \in Slots
          PROVE  /\ proc'[x].gen < nextPid' /\ proc'[x].seq < nextSeq'
                 /\ proc'[x].pid <= MaxPid /\ proc'[x].group <= MaxPid
      <3>1. CASE x = s
        BY <1>1, <1>5, <1>6, <1>12, <2>1, <3>1
      <3>2. CASE x # s
        BY <1>1, <1>6, <1>11, <2>1, <3>2
      <3> QED BY <3>1, <3>2
    <2> QED BY <1>1, <1>6, <2>1, <2>2, <2>3 DEF Counters
  <1>16. Cpu'
    <2>1. /\ ctx \in [Slots -> {"none", "active", "released"}]
          /\ OnlyCurrentRuns /\ ContextMatches
      BY DEF RuntimeInv, Cpu
    <2>2. ContextMatches'
      BY <1>1, <1>5, <1>11, <1>12, <2>1 DEF ContextMatches, Waiting, Terminal
    <2>3. proc'[cur].used /\ proc'[cur].state = proc[cur].state
      BY <1>2, <1>5, <1>11
    <2>4. OnlyCurrentRuns'
      BY <1>1, <1>2, <1>11, <1>12, <2>1, <2>3 DEF OnlyCurrentRuns, Live, Terminal
    <2> QED BY <1>1, <1>2, <2>1, <2>2, <2>3, <2>4 DEF Cpu
  <1>17. TtyOwned'
    BY <1>1, <1>11, <1>12 DEF RuntimeInv, TtyOwned, ReadersInForeground
  <1>18. FinalStep /\ BootPolicy'
    BY <1>1, <1>13, FreshPolicy
  <1> QED BY <1>10, <1>15, <1>16, <1>17, <1>18 DEF RuntimeInv

(* A refused spawn only uses up a PID.                                     *)
LEMMA BadGroupStep ==
    ASSUME RuntimeInv, SysSpawnBadGroup
    PROVE  RuntimeInv' /\ FinalStep
  <1>1. /\ nextPid <= MaxPid /\ nextPid' = nextPid + 1
        /\ UNCHANGED <<proc, cursor, nextSeq, cur, ctx, tty, boot>>
    BY DEF SysSpawnBadGroup, system
  <1>2. /\ nextPid \in 2..(MaxPid + 1) /\ MaxPid \in Nat /\ nextSeq \in Nat
        /\ \A x \in Slots : proc[x].gen \in Nat
    BY ProcShape, RecordFields, BoundAssumption DEF RuntimeInv, Counters
  <1>3. Counters'
    BY <1>1, <1>2, LiveFinite DEF RuntimeInv, Counters
  <1> QED BY <1>1, <1>3
          DEF RuntimeInv, Cpu, OnlyCurrentRuns, ContextMatches, InUser, Live, TtyOwned,
              ReadersInForeground, BootPolicy, ShutdownAfterShell, FinalStep

-----------------------------------------------------------------------------
(* The invariant.                                                          *)

(* The table that initialize() leaves holds init alone.                    *)
LEMMA InitTable ==
    ASSUME Init
    PROVE  TableInv(proc) /\ LiveSlots(proc) = {InitSlot}
  <1> DEFINE r == [FreeSlot(1) EXCEPT !.used = TRUE, !.pid = 1, !.group = 1,
                                      !.state = "runnable"]
             f == FreeSlot(0)
  <1>1. proc = [s \in Slots |-> IF s = InitSlot THEN r ELSE f]
    BY DEF Init
  <1>2. /\ r \in Record /\ r.used /\ r.group = 1 /\ r.state = "runnable"
        /\ r.parent = NoSlot /\ r.kids = 0
    <2>1. NoTarget \in Targets /\ "none" \in Reasons /\ "runnable" \in States
      BY TargetFacts DEF Reasons, States
    <2> HIDE DEF NoTarget
    <2> QED BY <2>1 DEF FreeSlot, Record
  <1>3. /\ f \in Record /\ ~f.used /\ f.state = "free" /\ f.kids = 0
    BY FreeSlotFields
  <1> HIDE DEF r, f
  <1>4. /\ proc[InitSlot] = r /\ \A s \in Slots \ {InitSlot} : proc[s] = f
        /\ proc \in [Slots -> Record]
    BY <1>1, <1>2, <1>3, SlotFacts
  <1>5. \A s \in Slots : Children(proc, s) = {}
    BY <1>2, <1>3, <1>4, SlotFacts DEF Children
  <1>6. SlotsUsed(proc) /\ Rooted(proc)
    BY <1>2, <1>3, <1>4 DEF SlotsUsed, Rooted
  <1>7. KidsCounted(proc)
    BY <1>2, <1>3, <1>4, <1>5, FS_EmptySet DEF KidsCounted
  <1>8. WaitsServed(proc)
    BY <1>2, <1>3, <1>4 DEF WaitsServed, Waiting, Reading
  <1>9. LiveSlots(proc) = {InitSlot}
    BY <1>2, <1>3, <1>4, SlotFacts DEF LiveSlots, Terminal
  <1> QED BY <1>4, <1>6, <1>7, <1>8, <1>9 DEF TableInv, Family, Shape

(* The invariant holds when init has been spawned.                         *)
LEMMA InitInv == Init => RuntimeInv
  <1> SUFFICES ASSUME Init PROVE RuntimeInv
    OBVIOUS
  <1>1. TableInv(proc) /\ LiveSlots(proc) = {InitSlot}
    BY InitTable
  <1>2. Cardinality(LiveSlots(proc)) = 1
    BY <1>1, FS_Singleton
  <1>3. /\ proc[InitSlot].gen = 1 /\ proc[InitSlot].seq = 0 /\ proc[InitSlot].pid = 1
        /\ proc[InitSlot].group = 1 /\ proc[InitSlot].used
        /\ proc[InitSlot].state = "runnable"
        /\ \A s \in Slots \ {InitSlot} :
              /\ proc[s].gen = 0 /\ proc[s].seq = 0 /\ proc[s].pid = 0
              /\ proc[s].group = 0 /\ ~proc[s].used /\ proc[s].state = "free"
    BY SlotFacts DEF Init, FreeSlot
  <1>4. /\ cursor = 0 /\ nextPid = 2 /\ nextSeq = 1 /\ cur = NoSlot
        /\ ctx = [s \in Slots |-> IF s = InitSlot THEN "active" ELSE "none"]
        /\ tty = [controller |-> <<InitSlot, 1>>, foreground |-> 0]
        /\ boot = [shell |-> NoHandle, exitAsked |-> FALSE, shutdown |-> FALSE]
    BY DEF Init
  <1>5. MaxPid \in Nat /\ MaxPid >= 1 /\ InitSlot \in Slots /\ InitSlot = 0
        /\ NoSlot \notin Slots
    BY SlotFacts, BoundAssumption DEF InitSlot
  <1>6. Counters
    BY <1>2, <1>3, <1>4, <1>5 DEF Counters
  <1>7. Cpu
    BY <1>3, <1>4, <1>5 DEF Cpu, OnlyCurrentRuns, ContextMatches, InUser, Terminal
  <1>8. TtyOwned
    <2>1. tty.controller \in Handles /\ tty.controller[1] = InitSlot
      BY <1>4, <1>5 DEF Handles
    <2>2. tty \in [controller: Handles, foreground: 0..MaxPid] /\ tty.foreground = 0
      BY <1>4, <1>5, <2>1
    <2> QED BY <1>3, <2>1, <2>2 DEF TtyOwned, ReadersInForeground
  <1>9. BootPolicy
    BY <1>4 DEF BootPolicy, ShutdownAfterShell
  <1> QED BY <1>1, <1>6, <1>7, <1>8, <1>9 DEF RuntimeInv

(* Every handler keeps the invariant and the end of every process.         *)
LEMMA NextInv ==
    ASSUME RuntimeInv, [Next]_vars
    PROVE  RuntimeInv' /\ FinalStep
  <1>1. CASE ServiceOne
    BY <1>1, ServiceOneStep
  <1>2. CASE TickExpires
    BY <1>2, TickExpiresStep
  <1>3. CASE TtyInput
    BY <1>3, WakeStep DEF TtyInput
  <1>4. CASE PowerOff
    BY <1>4, PowerOffStep
  <1>5. CASE \E k \in IoKeys : IoReady(k)
    BY <1>5, WakeStep DEF IoReady
  <1>6. CASE TtyInterrupt
    BY <1>6, TtyInterruptStep
  <1>7. CASE TtySuspend
    BY <1>7, TtySuspendStep
  <1>8. CASE Timer
    BY <1>8, YieldStep, ExitStep DEF Timer, TimerPreempts, TimerAtCpuLimit
  <1>9. CASE SysExit \/ UserFault
    BY <1>9, ExitStep DEF SysExit, UserFault
  <1>10. CASE SysSleep
    BY <1>10, SleepStep
  <1>11. CASE SysYield
    BY <1>11, YieldStep DEF SysYield
  <1>12. CASE \E k \in IoKeys : SysBlockOnIo(k)
    <2>1. PICK k \in IoKeys : SysBlockOnIo(k)
      BY <1>12
    <2>2. <<k>> \in Targets
      BY TargetFacts
    <2> QED BY <2>1, <2>2, BlockStep DEF SysBlockOnIo
  <1>13. CASE SysReadTty
    <2>1. NoTarget \in Targets
      BY TargetFacts
    <2> QED BY <1>13, <2>1, BlockStep DEF SysReadTty
  <1>14. CASE \E g \in Pids : SysSpawn(g) \/ SysSetForeground(g)
    BY <1>14, SpawnStep, SetForegroundStep
  <1>15. CASE SysSpawnForeground
    BY <1>15, SpawnForegroundStep
  <1>16. CASE SysSpawnRolledBack
    BY <1>16, RolledBackStep
  <1>17. CASE SysSpawnBadGroup
    BY <1>17, BadGroupStep
  <1>18. CASE \E s \in Slots, signal \in Signals : SysKill(s, signal)
    BY <1>18, KillStep
  <1>19. CASE \E which \in Waits : SysWaitReaps(which) \/ SysWaitBlocks(which)
    BY <1>19, ReapStep, WaitStep
  <1>20. CASE SysShutdown
    BY <1>20, ShutdownStep
  <1>21. CASE UNCHANGED vars
    BY <1>21 DEF vars, RuntimeInv, Counters, Cpu, OnlyCurrentRuns, ContextMatches, InUser,
                 Live, TtyOwned, ReadersInForeground, BootPolicy, ShutdownAfterShell,
                 FinalStep
  <1> QED BY <1>1, <1>2, <1>3, <1>4, <1>5, <1>6, <1>7, <1>8, <1>9, <1>10, <1>11, <1>12,
             <1>13, <1>14, <1>15, <1>16, <1>17, <1>18, <1>19, <1>20, <1>21
          DEF Next, Kernel, Syscall

(* The table, the counters, the CPU, the terminal and the boot policy stay *)
(* consistent whatever the processes call and whatever the devices do.     *)
THEOREM RuntimeInvariant == Spec => []RuntimeInv
  <1>1. RuntimeInv /\ [Next]_vars => RuntimeInv'
    BY NextInv
  <1> QED BY <1>1, InitInv, PTL DEF Spec

(* RuntimeConsistent: the bounds of the counters follow from the budget    *)
(* that live processes and terminations share, kids from the child count.  *)
THEOREM Consistent == Spec => []RuntimeConsistent
  <1>1. RuntimeInv => RuntimeConsistent
    <2> SUFFICES ASSUME RuntimeInv PROVE RuntimeConsistent
      OBVIOUS
    <2>1. /\ MaxPid \in Nat /\ nextPid \in 2..(MaxPid + 1) /\ nextSeq \in Nat
          /\ nextSeq <= nextPid /\ cursor \in Slots
      BY LiveFinite, BoundAssumption DEF RuntimeInv, Counters
    <2>2. ASSUME NEW s \in Slots
          PROVE  /\ proc[s].used \in BOOLEAN /\ proc[s].wgroup \in BOOLEAN
                 /\ proc[s].gen \in 0..MaxPid /\ proc[s].pid \in 0..MaxPid
                 /\ proc[s].group \in 0..MaxPid /\ proc[s].seq \in 0..MaxPid
                 /\ proc[s].parent \in Slots \cup {NoSlot}
                 /\ proc[s].state \in States /\ proc[s].reason \in Reasons
                 /\ proc[s].kids \in 0..NumSlots
                 /\ nextSeq >= 1
      <3>1. /\ proc[s] \in Record /\ proc[s].used \in BOOLEAN /\ proc[s].wgroup \in BOOLEAN
            /\ proc[s].gen \in Nat /\ proc[s].pid \in Nat /\ proc[s].group \in Nat
            /\ proc[s].seq \in Nat /\ proc[s].kids \in Nat
            /\ proc[s].parent \in Slots \cup {NoSlot}
            /\ proc[s].state \in States /\ proc[s].reason \in Reasons
        BY ProcShape, RecordFields
      <3>2. /\ proc[s].gen < nextPid /\ proc[s].seq < nextSeq
            /\ proc[s].pid <= MaxPid /\ proc[s].group <= MaxPid
        BY DEF RuntimeInv, Counters
      <3>3. proc[s].kids = 0 \/ proc[s].kids = Cardinality(Children(proc, s))
        BY <3>1 DEF RuntimeInv, TableInv, Family, SlotsUsed, KidsCounted
      <3>4. proc[s].kids <= NumSlots
        BY <3>3, SlotFacts, ChildrenFinite
      <3>5. proc[s].kids \in 0..NumSlots
        BY <3>1, <3>4, SlotFacts
      <3>6. /\ proc[s].gen \in 0..MaxPid /\ proc[s].pid \in 0..MaxPid /\ nextSeq >= 1
            /\ proc[s].group \in 0..MaxPid /\ proc[s].seq \in 0..MaxPid
        BY <2>1, <3>1, <3>2
      <3> QED BY <3>1, <3>5, <3>6
    <2>3. nextSeq \in 1..(MaxPid + 1)
      BY <2>1, <2>2, SlotFacts
    <2>4. DOMAIN proc = Slots
      BY ProcShape
    <2>5. TypeOK
      BY <2>1, <2>2, <2>3, <2>4 DEF TypeOK, RuntimeInv, Cpu, TtyOwned, BootPolicy, Reasons
    <2> QED BY <2>5 DEF RuntimeConsistent, RuntimeInv, Cpu, BootPolicy
  <1> QED BY <1>1, RuntimeInvariant, PTL

(* A process blocked on the terminal is in the foreground group, after any *)
(* foreground handoff, stop, continue or exit.                             *)
THEOREM Readers == Spec => []ReadersInForeground
  <1>1. RuntimeInv => ReadersInForeground
    BY DEF RuntimeInv, TtyOwned
  <1> QED BY <1>1, RuntimeInvariant, PTL

(* Child counts are exact and every orphan has init for a parent.          *)
THEOREM FamilyTree == Spec => []FamilyExact
  <1>1. RuntimeInv => FamilyExact
    BY DEF RuntimeInv, TableInv, Family, Rooted, KidsCounted, FamilyExact,
           ChildCountExact, OrphansAdopted, Live
  <1> QED BY <1>1, RuntimeInvariant, PTL

(* No process blocked in wait has missed the end of a child it waits for.  *)
THEOREM WaitsKept == Spec => []WaitNotLost
  <1>1. RuntimeInv => WaitNotLost
    BY DEF RuntimeInv, TableInv, WaitsServed, Waiting, Awaited, WaitNotLost
  <1> QED BY <1>1, RuntimeInvariant, PTL

(* A terminated process is never revived, and keeps its place in the order *)
(* of terminations until it is reaped.                                     *)
THEOREM TerminalStays == Spec => TerminalIsFinal
  <1>1. RuntimeInv /\ [Next]_vars =>
           [\A s \in Slots : proc[s].used /\ Terminal(proc[s]) =>
               \/ /\ proc'[s].state = proc[s].state /\ proc'[s].seq = proc[s].seq
                  /\ proc'[s].pid = proc[s].pid
               \/ ~proc'[s].used]_vars
    BY NextInv DEF FinalStep
  <1> QED BY <1>1, RuntimeInvariant, PTL DEF Spec, TerminalIsFinal
=============================================================================
