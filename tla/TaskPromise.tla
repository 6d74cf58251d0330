----------------------------- MODULE TaskPromise -----------------------------
(***************************************************************************)
(* What the scheduler promises about one task: attempts are judged once,   *)
(* and the task is settled once, verified by an attempt that passed or     *)
(* discarded.                                                              *)
(***************************************************************************)
EXTENDS Naturals

CONSTANTS
  Attempt,      \* the attempt rows a task can have
  Verdicts,     \* the verdicts a row can end with
  Ok            \* the verdict of an attempt that passed

VARIABLES
  task,         \* the state of the task row
  winner,       \* its winning_attempt_id, or 0
  verdict       \* per attempt, "none" (no row), "open" or its verdict

vars == <<task, winner, verdict>>

Init ==
  /\ task = "pending"
  /\ winner = 0
  /\ verdict = [n \in Attempt |-> "none"]

Start ==
  /\ task = "pending"
  /\ task' = "running"
  /\ UNCHANGED <<winner, verdict>>

Open(n) ==
  /\ task = "running"
  /\ verdict[n] = "none"
  /\ verdict' = [verdict EXCEPT ![n] = "open"]
  /\ UNCHANGED <<task, winner>>

Judge(n, v) ==
  /\ task = "running"
  /\ verdict[n] = "open"
  /\ verdict' = [verdict EXCEPT ![n] = v]
  /\ UNCHANGED <<task, winner>>

Verify(n) ==
  /\ task = "running"
  /\ verdict[n] = Ok
  /\ task' = "verified"
  /\ winner' = n
  /\ UNCHANGED verdict

Discard ==
  /\ task = "running"
  /\ task' = "discarded"
  /\ UNCHANGED <<winner, verdict>>

Next ==
  \/ Start
  \/ \E n \in Attempt :
       \/ Open(n)
       \/ \E v \in Verdicts : Judge(n, v)
       \/ Verify(n)
  \/ Discard

Spec == Init /\ [][Next]_vars
=============================================================================
