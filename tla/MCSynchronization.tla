-------------------------- MODULE MCSynchronization --------------------------
(* Three workers on words that wrap at three, the tightest modulus that    *)
(* WorkersAssumption allows: tickets and generations wrap within the run.  *)
EXTENDS Synchronization
=============================================================================
