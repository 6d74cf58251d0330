---------------------------- MODULE TaskSchedule ----------------------------
(***************************************************************************)
(* What the waves promise about the tasks of a plan: a task starts after   *)
(* every task it depends on has settled, while no task that edits its file *)
(* runs, and at most MaxParallel run at once.                              *)
(***************************************************************************)
EXTENDS Naturals, FiniteSets

CONSTANTS Tasks, Files, MaxParallel

VARIABLES
  deps,    \* per task, the tasks it depends on
  file,    \* per task, the file it edits
  status   \* per task, where it is

vars == <<deps, file, status>>

Init ==
  /\ deps \in [Tasks -> SUBSET Tasks]
  /\ file \in [Tasks -> Files]
  /\ status = [t \in Tasks |-> "idle"]

Running == {t \in Tasks : status[t] = "running"}

Start(t) ==
  /\ status[t] = "idle"
  /\ \A d \in deps[t] : status[d] = "settled"
  /\ \A u \in Running : file[u] # file[t]
  /\ Cardinality(Running) < MaxParallel
  /\ status' = [status EXCEPT ![t] = "running"]
  /\ UNCHANGED <<deps, file>>

(* A running task settles, or is lost to an exception.                     *)
End(t) ==
  /\ status[t] = "running"
  /\ \E s \in {"settled", "lost"} : status' = [status EXCEPT ![t] = s]
  /\ UNCHANGED <<deps, file>>

Next == \E t \in Tasks : Start(t) \/ End(t)

Spec == Init /\ [][Next]_vars
=============================================================================
