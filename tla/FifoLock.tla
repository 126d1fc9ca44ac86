------------------------------ MODULE FifoLock ------------------------------
(***************************************************************************)
(* What a ticket lock promises: requests are served one at a time, in the  *)
(* order in which they were made.                                          *)
(***************************************************************************)
EXTENDS Sequences, FiniteSets

CONSTANT Workers

VARIABLES queue,    \* the requests not yet released, oldest first
          inside    \* the workers in their critical section

lockVars == <<queue, inside>>

Init == queue = <<>> /\ inside = {}

Request(w) ==
    /\ \A i \in DOMAIN queue : queue[i] # w
    /\ queue' = Append(queue, w)
    /\ UNCHANGED inside

Enter(w) ==
    /\ queue # <<>> /\ w = Head(queue)
    /\ inside = {}
    /\ inside' = {w}
    /\ UNCHANGED queue

Leave(w) ==
    /\ w \in inside
    /\ inside' = {}
    /\ queue' = Tail(queue)

Next == \E w \in Workers : Request(w) \/ Enter(w) \/ Leave(w)

Spec == Init /\ [][Next]_lockVars
=============================================================================
