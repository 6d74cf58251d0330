---------------------------- MODULE MCModelClient ----------------------------
(* The model client on a small instance.                                   *)
EXTENDS ModelClient

MCActual == (MaxRetry + 1) * MaxUsage
=============================================================================
