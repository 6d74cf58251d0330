---------------------------- MODULE MCSandboxRun ----------------------------
(* An attempt shares one permit with an integration or a baseline, so that *)
(* one waits for the other, and each can send its operation twice.         *)
EXTENDS SandboxRun, TLC

CONSTANTS a, i

MCScripts == {(a :> "attempt") @@ (i :> "integration"), (a :> "attempt") @@ (i :> "baseline")}
=============================================================================
