---------------------------- MODULE DurableStore ----------------------------
(***************************************************************************)
(* What the /persist journal promises its callers, without slots, headers, *)
(* checksums or device caches: a commit is first staged, then published,   *)
(* then acknowledged.  A crash while a snapshot is staged loses it and     *)
(* nothing else; a crash or a failure once it is being published leaves    *)
(* either the acknowledged snapshot or the published one, and the next     *)
(* successful mount decides which.  runtime_persist.zig implements it      *)
(* (module PersistJournal).                                                *)
(***************************************************************************)
EXTENDS Integers, Sequences

CONSTANTS Payloads,   \* the snapshots serialize() can produce
          GenLimit    \* the largest generation number, 2^64 - 1 in the code

VARIABLES acked,      \* the last snapshot whose commit returned success
          attempt,    \* the one a publication may have replaced it by
          status      \* what the store is doing

vars == <<acked, attempt, status>>

NoSnapshot == [gen |-> 0, data |-> <<>>]

Init == /\ acked = NoSnapshot
        /\ attempt = NoSnapshot
        /\ status = "down"

(* A commit begins: nothing it does before publication can be recovered.   *)
Stage == /\ status = "ready"
         /\ status' = "staging"
         /\ UNCHANGED <<acked, attempt>>

(* From here on a recovery may return the new snapshot.                    *)
Publish(p) == /\ status = "staging"
              /\ acked.gen < GenLimit
              /\ attempt' = [gen |-> acked.gen + 1, data |-> p]
              /\ status' \in {"publishing", "damaged"}
              /\ UNCHANGED acked

Acknowledge == /\ status = "publishing"
               /\ acked' = attempt
               /\ status' = "ready"
               /\ UNCHANGED attempt

(* The generation would wrap: the commit is refused, nothing is published. *)
RejectFull == /\ status = "staging"
              /\ acked.gen = GenLimit
              /\ status' = "ready"
              /\ UNCHANGED <<acked, attempt>>

(* A device error: the store serves reads only until the next boot.        *)
Fail == /\ status \in {"staging", "publishing"}
        /\ status' = "damaged"
        /\ UNCHANGED <<acked, attempt>>

Crash == /\ status' = "down"
         /\ UNCHANGED <<acked, attempt>>

Recover == /\ status = "down"
           /\ acked' \in {acked, attempt}
           /\ attempt' = acked'
           /\ status' = "ready"

(* A mount that meets a read error mounts nothing and forgets nothing.     *)
RefuseUnreadable == /\ status = "down"
                    /\ status' = "refused"
                    /\ UNCHANGED <<acked, attempt>>

Next == \/ Stage
        \/ \E p \in Payloads : Publish(p)
        \/ Acknowledge
        \/ RejectFull
        \/ Fail
        \/ Crash
        \/ Recover
        \/ RefuseUnreadable

Spec == Init /\ [][Next]_vars
=============================================================================
