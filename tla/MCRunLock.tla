----------------------------- MODULE MCRunLock -----------------------------
(* Three runs of one gate: a holder, one that recovers its lock after a    *)
(* crash, and one that comes in between; as many PIDs, so that the host    *)
(* has to give out the PID of a dead run again.                            *)
EXTENDS RunLock, TLC

RunsAndPids == Permutations(Runs) \cup Permutations(Pids)
=============================================================================
