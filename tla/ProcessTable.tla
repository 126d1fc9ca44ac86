---------------------------- MODULE ProcessTable ----------------------------
(***************************************************************************)
(* The process table of src/runtime_process.zig as operators on a table p, *)
(* a function from slots to process records.  The kernel calls them one at *)
(* a time; module UserRuntime holds the table and the handlers that call.  *)
(*                                                                         *)
(* Left out: names, arguments, credentials (every process inherits its     *)
(* parent's), working directories, counters, resource figures, the pending *)
(* signal word (nothing at run time takes a signal from it) and tick       *)
(* values: which sleepers have expired is an input of WakeExpired.         *)
(***************************************************************************)
EXTENDS Integers, FiniteSets

CONSTANTS NumSlots,     \* maximum_processes, 64 in the code
          MaxChildren   \* Limits.maximum_children

ASSUME TableAssumption == NumSlots \in Nat \ {0} /\ MaxChildren \in Nat

Slots    == 0..(NumSlots - 1)
NoSlot   == NumSlots            \* invalid_slot
InitSlot == 0                   \* initialize() spawns init into slot 0

States == {"free", "runnable", "running", "sleeping", "blocked", "stopped",
           "zombie", "faulted"}

(* A wait target is a handle, a process group, an I/O key or nothing.      *)
NoTarget     == <<>>
HandleOf(p, s) == <<s, p[s].gen>>

(* The cleared slot reapSlot() leaves: only the generation survives.       *)
FreeSlot(gen) ==
    [used |-> FALSE, gen |-> gen, pid |-> 0, parent |-> NoSlot, group |-> 0,
     state |-> "free", reason |-> "none", target |-> NoTarget,
     wgroup |-> FALSE, seq |-> 0, kids |-> 0]

Terminal(r) == r.state \in {"zombie", "faulted"}
Monus(a, b) == IF a > b THEN a - b ELSE 0

Children(p, s) == {c \in Slots : p[c].used /\ p[c].parent = s}

(* resolve(): a handle names a slot's current occupant or nothing.         *)
Resolves(p, h) == p[h[1]].used /\ p[h[1]].gen = h[2]

-----------------------------------------------------------------------------
(* Scheduling and blocking.                                                *)

WakeSlot(r) == [r EXCEPT !.state = "runnable", !.reason = "none",
                         !.target = NoTarget, !.wgroup = FALSE]

(* A terminal process is refused (AlreadyTerminal), here and below.        *)
SetRunnable(p, s) == IF Terminal(p[s]) THEN p ELSE [p EXCEPT ![s] = WakeSlot(@)]

(* The process that was running is demoted, the target becomes the one.    *)
SetRunning(p, s) ==
    [x \in Slots |->
        IF x = s THEN [WakeSlot(p[x]) EXCEPT !.state = "running"]
        ELSE IF p[x].used /\ p[x].state = "running"
             THEN [p[x] EXCEPT !.state = "runnable"]
             ELSE p[x]]

(* scheduleNextEligible(): the first runnable slot after the cursor,       *)
(* wrapping round to the cursor itself.                                    *)
Distance(cursor, s) == IF s > cursor THEN s - cursor ELSE s + NumSlots - cursor
RunnableSlots(p) == {s \in Slots : p[s].used /\ p[s].state = "runnable"}

(* Mutant: the scan always starts at slot 0.                               *)
LowestRunnable(p, cursor) ==
    CHOOSE s \in RunnableSlots(p) : \A t \in RunnableSlots(p) : s <= t

NextAfter(p, cursor) ==
    CHOOSE s \in RunnableSlots(p) :
        \A t \in RunnableSlots(p) : Distance(cursor, s) <= Distance(cursor, t)

Sleep(p, s) == [p EXCEPT ![s] = [@ EXCEPT !.state = "sleeping", !.reason = "sleep"]]

Block(p, s, reason, target) ==
    [p EXCEPT ![s] = [@ EXCEPT !.state = "blocked", !.reason = reason,
                               !.target = target, !.wgroup = FALSE]]

(* wakeExpired() on the sleepers whose tick has come.                      *)
WakeExpired(p, expired) ==
    [s \in Slots |-> IF s \in expired
                     THEN [p[s] EXCEPT !.state = "runnable", !.reason = "none"]
                     ELSE p[s]]

(* wakeMatching(reason, target, all = true).                               *)
WakeMatching(p, reason, target) ==
    [s \in Slots |->
        IF p[s].used /\ p[s].state = "blocked" /\ p[s].reason = reason
                     /\ p[s].target = target
        THEN [p[s] EXCEPT !.state = "runnable", !.reason = "none",
                          !.target = NoTarget]
        ELSE p[s]]

Stop(p, s) == [p EXCEPT ![s] = [@ EXCEPT !.state = "stopped", !.reason = "none"]]

-----------------------------------------------------------------------------
(* Termination.                                                            *)

(* Mutant: init's child count is not raised.                               *)
ReparentUncounted(p, dead) ==
    LET adopted == Children(p, dead)
    IN [s \in Slots |-> [p[s] EXCEPT
            !.parent = IF s \in adopted THEN InitSlot ELSE @,
            !.kids = IF s = dead THEN Monus(@, Cardinality(adopted)) ELSE @]]

(* Children of the dead slot pass to init, terminal ones included.         *)
ReparentChildren(p, dead) ==
    LET adopted == Children(p, dead)
        n == Cardinality(adopted)
        Kids(s) == LET k == IF s = dead THEN Monus(p[s].kids, n) ELSE p[s].kids
                   IN IF s = InitSlot THEN k + n ELSE k
    IN [s \in Slots |-> [p[s] EXCEPT
            !.parent = IF s \in adopted THEN InitSlot ELSE @,
            !.kids = Kids(s)]]

(* Does the wait a blocked parent r is in cover the child c?               *)
WaitCovers(p, r, c) ==
    \/ r.target = NoTarget
    \/ r.wgroup /\ r.target = <<p[c].group>>
    \/ ~r.wgroup /\ r.target = HandleOf(p, c)

(* Mutant: only a wait for any child or for this handle is woken.          *)
WakeParentByHandle(p, c) ==
    LET s == p[c].parent
    IN IF /\ s \in Slots /\ p[s].used
          /\ p[s].state = "blocked" /\ p[s].reason = "child"
          /\ p[s].target \in {NoTarget, HandleOf(p, c)}
       THEN SetRunnable(p, s) ELSE p

WakeParent(p, c) ==
    LET s == p[c].parent
    IN IF /\ s \in Slots /\ p[s].used
          /\ p[s].state = "blocked" /\ p[s].reason = "child"
          /\ WaitCovers(p, p[s], c)
       THEN SetRunnable(p, s) ELSE p

Exit(p, s, seq) ==
    WakeParent(ReparentChildren(
        [p EXCEPT ![s] = [@ EXCEPT !.state = "zombie", !.seq = seq,
                                   !.reason = "none", !.target = NoTarget]],
        s), s)

Fault(p, s, seq) ==
    WakeParent(ReparentChildren(
        [p EXCEPT ![s] = [@ EXCEPT !.state = "faulted", !.seq = seq,
                                   !.reason = "none"]],
        s), s)

(* sendSignal() to a slot that is not terminal.                            *)
SIGKILL == 9
SIGCONT == 18
SIGSTOP == 19
Signal(p, s, signal, seq) ==
    CASE signal = SIGKILL -> Exit(p, s, seq)
      [] signal = SIGSTOP -> Stop(p, s)
      [] signal = SIGCONT /\ p[s].state = "stopped" ->
            [p EXCEPT ![s].state = "runnable"]
      [] OTHER -> IF p[s].state \in {"blocked", "sleeping"}
                  THEN SetRunnable(p, s) ELSE p

GroupMembers(p, g) ==
    {s \in Slots : p[s].used /\ p[s].group = g /\ ~Terminal(p[s])}

(* applyInterruptDefault(): the members exit one after another, in slot    *)
(* order, each reparenting its children and waking its parent of then.     *)
(* The table after the first n slots have been passed, for each n.         *)
ExitStages(p, members, seq) ==
    LET after[n \in 0..NumSlots] ==
            IF n = 0 THEN p
            ELSE IF n - 1 \in members
                 THEN Exit(after[n - 1], n - 1,
                           seq + Cardinality({m \in members : m < n - 1}))
                 ELSE after[n - 1]
    IN after

ExitEach(p, members, seq) == ExitStages(p, members, seq)[NumSlots]

-----------------------------------------------------------------------------
(* Creation and reaping.                                                   *)

FreeSlots(p) == {s \in Slots : ~p[s].used}
LowestFree(p) == CHOOSE s \in FreeSlots(p) : \A t \in FreeSlots(p) : s <= t

MaySpawn(p, parent) == /\ p[parent].kids < MaxChildren
                       /\ FreeSlots(p) # {}

(* The group a spawn asks for: inherited, its own, or one led by a sibling.*)
MayJoin(p, parent, g) ==
    \E l \in Slots : /\ p[l].used /\ p[l].pid = g
                     /\ p[l].parent = parent /\ p[l].group = g

Spawn(p, parent, pid, group) ==
    LET s == LowestFree(p)
    IN [p EXCEPT
          ![s] = [FreeSlot(p[s].gen + 1) EXCEPT
                    !.used = TRUE, !.pid = pid, !.parent = parent,
                    !.group = group, !.state = "runnable"],
          ![parent].kids = @ + 1]

(* Which children a wait call is about.                                    *)
Candidates(p, parent, which) ==
    {c \in Children(p, parent) :
        CASE which[1] = "any"   -> TRUE
          [] which[1] = "pid"   -> p[c].pid = which[2]
          [] which[1] = "group" -> p[c].group = which[2]}

(* The candidate that terminated first.                                    *)
EarliestTerminal(p, C) ==
    CHOOSE c \in C : /\ Terminal(p[c])
                     /\ \A d \in C : Terminal(p[d]) => p[c].seq <= p[d].seq

ReapSlot(p, parent, c) ==
    [p EXCEPT ![c] = FreeSlot(@.gen), ![parent].kids = Monus(@, 1)]

(* wait() and waitGroup() with no terminal candidate.                      *)
BlockForChild(p, parent, which) ==
    LET c == CHOOSE x \in Candidates(p, parent, which) : TRUE
    IN [p EXCEPT ![parent] = [@ EXCEPT
            !.state = "blocked", !.reason = "child",
            !.target = CASE which[1] = "any"   -> NoTarget
                         [] which[1] = "pid"   -> HandleOf(p, c)
                         [] which[1] = "group" -> <<which[2]>>,
            !.wgroup = (which[1] = "group")]]
=============================================================================
