---------------------------- MODULE MCWaveRunner ----------------------------
(* Every acyclic plan of a few tasks and files.                            *)
EXTENDS WaveRunner
=============================================================================
