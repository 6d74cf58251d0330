------------------------------ MODULE MCJobRun ------------------------------
(* One job of a few tasks and cancels, in several surroundings.            *)
EXTENDS JobRun
=============================================================================
