------------------------------ MODULE MCTaskRun ------------------------------
(* One task on small instances.                                            *)
EXTENDS TaskRun
=============================================================================
