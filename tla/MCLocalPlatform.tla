-------------------------- MODULE MCLocalPlatform --------------------------
(* Jobs that share one snapshot and two runs.                              *)
EXTENDS LocalPlatform

CONSTANTS j1, j2, j3

MCKey == {"baseline", "attempt"}
MCRequest == Job \X MCKey
MCKeyOf == [r \in MCRequest |-> r[2]]
MCParent == [k \in MCKey |-> IF k = "baseline" THEN "base" ELSE "baseline"]
=============================================================================
