----------------------------- MODULE MCConsole -----------------------------
(* The gates, each with the faults of the guest that it is run against and *)
(* those of them that no session notices, because the marker is in the     *)
(* echo of the line (test-normal-boot.py:231) or a count is satisfied by   *)
(* other lines (:902).  "failing" is the diskless gate again, in an        *)
(* environment that may fail.                                              *)
EXTENDS ConsoleHarness, NormalBootScript

Facing(g, flaws) == [g EXCEPT !.faults = {"none"} \cup flaws]
Misses(g, flaws) == [g EXCEPT !.missed = flaws]

NormalFaults ==
    {"and_never", "and_always", "or_never", "or_always", "list_stops", "runs_prefix", "no_limit",
     "rename_keeps", "builtin_stage", "pipeline_hidden", "pipeline_detached", "bg_blocks",
     "fg_detached", "env_unbounded", "capture_leaks", "expands_early", "glob_first", "glob_literal",
     "tilde_named", "tilde_unbounded", "history_lost", "mkdir_lost", "rm_keeps", "cp_truncates",
     "cp_short", "mv_copies", "mv_short", "head_unbounded", "tail_unbounded", "grep_all",
     "hexdump_unbounded", "df_excess", "edit_one_read", "edit_keeps", "user_first"}

AllGates ==
    [normal     |-> Misses(Facing(NormalBoot, NormalFaults), {"and_never", "pipeline_hidden"}),
     history    |-> Facing(HistoryBoot, {"history_lost"}),
     diskless   |-> Facing(Diskless, {"write_lost"}),
     failing    |-> Facing(Diskless, {"write_lost"}),
     remount    |-> Facing(Remount, {"stays_writable", "error_swallowed"}),
     ioError    |-> Facing(IoError, {"error_swallowed", "error_sticks", "rename_keeps"}),
     quarantine |-> Facing(Quarantine, {"not_quarantined", "rename_keeps"})]

Failing == {"failing"}
=============================================================================
