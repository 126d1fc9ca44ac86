-------------------------- MODULE MCPersistJournal --------------------------
(* A small instance of the journal for TLC.                                *)
EXTENDS PersistJournal

CONSTANTS a, b

MCSector == {a, b}

(* Two snapshots of different lengths that share a sector, so that an      *)
(* interrupted overwrite leaves prefixes that look like the old payload.   *)
MCPayloads == {<<a>>, <<a, b>>, <<b, a>>}
=============================================================================
