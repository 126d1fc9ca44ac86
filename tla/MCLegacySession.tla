-------------------------- MODULE MCLegacySession --------------------------
(* The gate on the first 65 clusters of the real volume.                    *)
EXTENDS LegacySession
=============================================================================
