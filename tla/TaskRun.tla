------------------------------- MODULE TaskRun -------------------------------
(***************************************************************************)
(* One task of a job (principal/orchestrator/scheduler.py, run_task): the  *)
(* race of the first-round candidates, the cancellation of the losers, the *)
(* repairs, the timeouts, and the cancellation of the job around it.       *)
(*                                                                         *)
(* Coroutines switch at awaits only, and the writes of one action (rows,   *)
(* artifacts, events) have no await between them.  The model calls and the *)
(* sandbox runs are abstracted to how they end.                            *)
(***************************************************************************)
EXTENDS Naturals

CONSTANTS
  Fanout,         \* candidates_per_task: candidates of the first round
  MaxRepairs,     \* max_repairs: steps of the repair loop
  CanRaise,       \* whether an attempt can end with an exception nobody expects
  Python311       \* whether asyncio.wait_for is that of Python 3.11

ASSUME TaskRunAssumption ==
  /\ Fanout \in Nat /\ Fanout > 0
  /\ MaxRepairs \in Nat
  /\ CanRaise \in BOOLEAN
  /\ Python311 \in BOOLEAN

First == 1..Fanout
Attempt == 1..(Fanout + MaxRepairs)

(* The verdict column of an attempt row.  "diffparse", "model" and         *)
(* "refused" are all stored as "error": no diff in the answer, a model     *)
(* failure with an infrastructure code, and any other PrincipalError of    *)
(* the model client (the budget's).  "local" is scope or syntax.           *)
Errors == {"diffparse", "model", "refused"}
Verdicts == Errors \cup {"ok", "local", "red", "infrastructure", "cancelled"}

VARIABLES
  stage,        \* where run_task is, see TypeOK
  at,           \* per attempt, where its coroutine is, see TypeOK
  verdict,      \* per attempt, "none" without a row, "open" for NULL
  info,         \* per attempt, _informativeness plus one
  seen,         \* first-round candidates _first_green has looked at
  failures,     \* those of them it returns as settled red
  best,         \* the outcome _first_green returns, or 0
  ending,       \* why coroutines are being stopped
  step,         \* the attempt of the repair loop
  lastDiff,     \* the attempt whose diff the next repair reads, or 0
  lastRun,      \* the attempt whose test run it reads, or 0
  task,         \* the state of the task row
  winner,       \* winning_attempt_id, or 0
  infra,        \* whether the discard_reason is an infrastructure one
  cancelled     \* the job has been cancelled

race == <<seen, failures, best>>
repair == <<step, lastDiff, lastRun>>
row == <<task, winner, infra>>
vars == <<stage, at, verdict, info, race, ending, repair, row, cancelled>>

Init ==
  /\ stage = "queued"
  /\ at = [n \in Attempt |-> "none"]
  /\ verdict = [n \in Attempt |-> "none"]
  /\ info = [n \in Attempt |-> 0]
  /\ seen = {} /\ failures = {} /\ best = 0
  /\ ending = "none"
  /\ step = 0 /\ lastDiff = 0 /\ lastRun = 0
  /\ task = "pending" /\ winner = 0 /\ infra = FALSE
  /\ cancelled = FALSE

Working == {"model", "sandbox"}
Stoppable == {"created"} \cup Working
Ended(n) == at[n] \in {"done", "raised"}

-----------------------------------------------------------------------------
(* The coroutine of one attempt (_one_candidate, _repair_once).            *)

(* It creates the attempt row and calls the model.                         *)
Open(n) ==
  /\ at[n] = "created"
  /\ at' = [at EXCEPT ![n] = "model"]
  /\ verdict' = [verdict EXCEPT ![n] = "open"]
  /\ UNCHANGED <<stage, info, race, ending, repair, row, cancelled>>

(* The model answered with a diff that passes the local gates.             *)
EnterSandbox(n) ==
  /\ at[n] = "model"
  /\ at' = [at EXCEPT ![n] = "sandbox"]
  /\ UNCHANGED <<stage, verdict, info, race, ending, repair, row, cancelled>>

(* The attempt returns its verdict, with i the informativeness of its run  *)
(* (0 not judged, 1 no run, 2 a bare run, 3 a run with a report).          *)
Judge(n, v, i) ==
  /\ at' = [at EXCEPT ![n] = "done"]
  /\ verdict' = [verdict EXCEPT ![n] = v]
  /\ info' = [info EXCEPT ![n] = i]
  /\ UNCHANGED <<stage, race, ending, repair, row, cancelled>>

FailBeforeSandbox(n) ==
  /\ at[n] = "model"
  /\ \E v \in Errors \cup {"local"} : Judge(n, v, 1)

(* Sandbox outcomes: green; red; a diff that did not apply (a syntax       *)
(* verdict with a run); or the platform failed.                            *)
LeaveSandbox(n) ==
  /\ at[n] = "sandbox"
  /\ \/ Judge(n, "ok", 3)
     \/ \E v \in {"red", "local"}, i \in {2, 3} : Judge(n, v, i)
     \/ Judge(n, "infrastructure", 0)

(* An exception that is no PrincipalError (a dropped connection to the     *)
(* model provider) leaves the row without a verdict.                       *)
Raise(n) ==
  /\ CanRaise
  /\ at[n] \in Working
  /\ at' = [at EXCEPT ![n] = "raised"]
  /\ UNCHANGED <<stage, verdict, info, race, ending, repair, row, cancelled>>

(* The cancelled coroutine has cancelled its sandbox operation and records *)
(* its verdict.                                                            *)
StopEnds(n) ==
  /\ at[n] = "stopping"
  /\ at' = [at EXCEPT ![n] = "stopped"]
  /\ verdict' = [verdict EXCEPT ![n] = "cancelled"]
  /\ UNCHANGED <<stage, info, race, ending, repair, row, cancelled>>

AttemptStep(n) ==
  Open(n) \/ EnterSandbox(n) \/ FailBeforeSandbox(n) \/ LeaveSandbox(n) \/ StopEnds(n)

-----------------------------------------------------------------------------
(* run_task.                                                               *)

(* A slot of the wave's semaphore is free.                                 *)
Start ==
  /\ stage = "queued"
  /\ stage' = "pack"
  /\ task' = "running"
  /\ UNCHANGED <<at, verdict, info, race, ending, repair, winner, infra, cancelled>>

Over == stage' = "over"

Discard(inconclusive) ==
  /\ Over
  /\ task' = "discarded"
  /\ infra' = inconclusive
  /\ UNCHANGED winner

Verify(n) ==
  /\ Over
  /\ task' = "verified"
  /\ winner' = n
  /\ UNCHANGED infra

PackTimeout ==
  /\ stage = "pack"
  /\ Discard(TRUE)
  /\ UNCHANGED <<at, verdict, info, race, ending, repair, cancelled>>

(* The candidates are created as tasks of their own; none has run yet.     *)
StartRace ==
  /\ stage = "pack"
  /\ stage' = "race"
  /\ at' = [n \in Attempt |-> IF n \in First THEN "created" ELSE "none"]
  /\ UNCHANGED <<verdict, info, race, ending, repair, row, cancelled>>

(* Mutant of Stopped: nothing is cancelled.                                *)
StoppedNothing == at

(* Mutant of Stopped: a candidate that has just ended is cancelled too.    *)
StoppedEveryone ==
  [n \in Attempt |->
     CASE at[n] = "created" -> "none"
       [] at[n] \in Working \cup {"done"} -> "stopping"
       [] OTHER -> at[n]]

(* Cancelling coroutines: one that has not begun never will, and has no    *)
(* row; the others meet CancelledError at their await.                     *)
Stopped ==
  [n \in Attempt |->
     CASE at[n] = "created" -> "none"
       [] at[n] \in Working -> "stopping"
       [] OTHER -> at[n]]

(* asyncio.wait returns every candidate that has ended by now, in no       *)
(* order.  A green one is the winner and the pending ones are cancelled.   *)
CollectWinner ==
  /\ stage = "race"
  /\ \E n \in First \ seen : at[n] = "done" /\ verdict[n] = "ok" /\ best' = n
  /\ at' = Stopped
  /\ stage' = "stopping"
  /\ ending' = "won"
  /\ UNCHANGED <<verdict, info, seen, failures, repair, row, cancelled>>

(* Mutant of CollectLosers: only one of the returned candidates is read.   *)
CollectOverlooking ==
  /\ stage = "race"
  /\ LET new == {n \in First \ seen : Ended(n)} IN
       /\ \E n \in new : at[n] = "done" => verdict[n] # "ok"
       /\ seen' = seen \cup new
       /\ failures' = failures \cup {n \in new : at[n] = "done"}
       /\ stage' = IF seen' = First THEN "returned" ELSE "race"
  /\ UNCHANGED <<at, verdict, info, best, ending, repair, row, cancelled>>

(* None of them is green: those that raised are dropped with a warning.    *)
CollectLosers ==
  /\ stage = "race"
  /\ LET new == {n \in First \ seen : Ended(n)} IN
       /\ new # {}
       /\ \A n \in new : at[n] = "done" => verdict[n] # "ok"
       /\ seen' = seen \cup new
       /\ failures' = failures \cup {n \in new : at[n] = "done"}
       /\ stage' = IF seen' = First THEN "returned" ELSE "race"
  /\ UNCHANGED <<at, verdict, info, best, ending, repair, row, cancelled>>

(* asyncio.wait_for gives up: on the race, also while _first_green already *)
(* holds a winner and waits for the losers to stop, or on a repair.        *)
Timeout ==
  /\ \/ stage = "race"
     \/ stage = "stopping" /\ ending = "won"
     \/ stage = "repair" /\ at[step] \in Stoppable
  /\ at' = Stopped
  /\ stage' = "stopping"
  /\ ending' = "timeout"
  /\ UNCHANGED <<verdict, info, race, repair, row, cancelled>>

(* _every_attempt_inconclusive.                                            *)
EveryAttemptInconclusive ==
  /\ \E n \in Attempt : verdict[n] # "none"
  /\ \A n \in Attempt : verdict[n] \in {"none", "infrastructure"}

(* The coroutines have stopped.                                            *)
StoppedAll ==
  /\ stage = "stopping"
  /\ \A n \in Attempt : at[n] # "stopping"
  /\ \/ ending = "won" /\ stage' = "returned" /\ UNCHANGED row
     \/ ending = "timeout" /\ Discard(step = 0 \/ EveryAttemptInconclusive)
     \/ ending = "cancelled" /\ Over /\ UNCHANGED row
  /\ ending' = "none"
  /\ UNCHANGED <<at, verdict, info, race, repair, cancelled>>

(* _first_green has returned: its winner settles the task.                 *)
RaceWon ==
  /\ stage = "returned"
  /\ best # 0
  /\ Verify(best)
  /\ UNCHANGED <<at, verdict, info, race, ending, repair, cancelled>>

AllInconclusive ==
  failures # {} /\ \A n \in failures : verdict[n] = "infrastructure"

RaceInconclusive ==
  /\ stage = "returned"
  /\ best = 0
  /\ AllInconclusive
  /\ Discard(TRUE)
  /\ UNCHANGED <<at, verdict, info, race, ending, repair, cancelled>>

HasDiff(n) == verdict[n] \notin Errors
HasRun(n) == info[n] > 1

(* The next step of the repair loop, after `diff` and `run`; a repair when *)
(* there is a diff to read and a fresh candidate of the Super model else.  *)
StartStep(n, diff, run) ==
  /\ lastDiff' = diff
  /\ lastRun' = run
  /\ IF n \in Attempt
     THEN /\ stage' = "repair"
          /\ step' = n
          /\ at' = [at EXCEPT ![n] = "created"]
          /\ UNCHANGED row
     ELSE /\ Discard(EveryAttemptInconclusive)
          /\ UNCHANGED <<at, step>>

(* The most informative failure seeds the first repair; attempt ids break  *)
(* the ties, and within a millisecond they have no order.                  *)
RaceLost ==
  /\ stage = "returned"
  /\ best = 0
  /\ ~AllInconclusive
  /\ IF failures = {}
     THEN StartStep(Fanout + 1, 0, 0)
     ELSE \E s \in failures :
            /\ \A n \in failures : info[n] <= info[s]
            /\ StartStep(Fanout + 1, IF HasDiff(s) THEN s ELSE 0,
                                     IF HasRun(s) THEN s ELSE 0)
  /\ UNCHANGED <<verdict, info, race, ending, cancelled>>

RepairWon ==
  /\ stage = "repair"
  /\ at[step] = "done" /\ verdict[step] = "ok"
  /\ Verify(step)
  /\ UNCHANGED <<at, verdict, info, race, ending, repair, cancelled>>

(* A platform failure ends the loop.                                       *)
RepairInconclusive ==
  /\ stage = "repair"
  /\ at[step] = "done" /\ verdict[step] = "infrastructure"
  /\ Discard(EveryAttemptInconclusive)
  /\ UNCHANGED <<at, verdict, info, race, ending, repair, cancelled>>

(* Mutant of RepairLost: the newest diff and the newest run are kept apart. *)
RepairLostUnpaired ==
  /\ stage = "repair"
  /\ at[step] = "done" /\ verdict[step] \notin {"ok", "infrastructure"}
  /\ StartStep(step + 1, IF HasDiff(step) THEN step ELSE lastDiff,
                         IF HasRun(step) THEN step ELSE lastRun)
  /\ UNCHANGED <<verdict, info, race, ending, cancelled>>

(* Mutant of RepairLost: a rejection at a local gate is no failed repair.  *)
RepairLostAtTests ==
  /\ stage = "repair"
  /\ at[step] = "done" /\ verdict[step] \notin {"ok", "infrastructure", "local"}
  /\ StartStep(step + 1, step, step)
  /\ UNCHANGED <<verdict, info, race, ending, cancelled>>

(* A step that reached a sandbox is the next pair of diff and failures.    *)
RepairLost ==
  /\ stage = "repair"
  /\ at[step] = "done" /\ verdict[step] \notin {"ok", "infrastructure"}
  /\ IF HasRun(step)
     THEN StartStep(step + 1, step, step)
     ELSE StartStep(step + 1, lastDiff, lastRun)
  /\ UNCHANGED <<verdict, info, race, ending, cancelled>>

(* The exception of a repair leaves run_task, and the gather of the wave.  *)
RepairRaised ==
  /\ stage = "repair"
  /\ at[step] = "raised"
  /\ Over
  /\ UNCHANGED <<at, verdict, info, race, ending, repair, row, cancelled>>

TaskStep ==
  \/ Start \/ PackTimeout \/ StartRace
  \/ CollectWinner \/ CollectLosers \/ Timeout \/ StoppedAll
  \/ RaceWon \/ RaceInconclusive \/ RaceLost
  \/ RepairWon \/ RepairInconclusive \/ RepairLost \/ RepairRaised

-----------------------------------------------------------------------------
(* The job is cancelled around the task.                                   *)

(* What wait_for waits for is over, and run_task has not resumed yet.      *)
Answered ==
  \/ stage = "pack"
  \/ stage = "returned"
  \/ stage = "repair" /\ Ended(step)

CancelWaiting ==
  /\ stage \in {"queued", "pack"}
  /\ Over
  /\ UNCHANGED <<at, ending>>

CancelWorking ==
  /\ stage \in {"race", "repair", "stopping"}
  /\ ~Answered
  /\ ~(Python311 /\ ending = "timeout")
  /\ at' = Stopped
  /\ stage' = "stopping"
  /\ ending' = "cancelled"

(* wait_for of Python 3.11, waiting for a timed-out coroutine to stop,     *)
(* passes the cancellation on at once and leaves the coroutine to itself.  *)
CancelTimeout ==
  /\ Python311
  /\ stage = "stopping" /\ ending = "timeout"
  /\ Over
  /\ ending' = "none"
  /\ UNCHANGED at

(* wait_for of Python 3.11 returns the answer and drops the cancellation.  *)
CancelSwallowed ==
  /\ Python311
  /\ Answered
  /\ UNCHANGED <<stage, at, ending>>

Cancel ==
  /\ ~cancelled
  /\ cancelled' = TRUE
  /\ CancelWaiting \/ CancelWorking \/ CancelTimeout \/ CancelSwallowed
  /\ UNCHANGED <<verdict, info, race, repair, row>>

Next ==
  \/ TaskStep
  \/ \E n \in Attempt : AttemptStep(n) \/ Raise(n)
  \/ Cancel
  \/ stage = "over" /\ UNCHANGED vars

Spec == Init /\ [][Next]_vars

(* The event loop resumes whatever can run, and a timeout ends a wait that *)
(* nothing else ends.  Cancelling is not fair.                             *)
FairSpec ==
  Spec /\ WF_vars(TaskStep) /\ \A n \in Attempt : WF_vars(AttemptStep(n))

-----------------------------------------------------------------------------

TypeOK ==
  /\ stage \in {"queued", "pack", "race", "stopping", "returned", "repair", "over"}
  /\ at \in [Attempt -> {"none", "created", "model", "sandbox", "done",
                         "raised", "stopping", "stopped"}]
  /\ verdict \in [Attempt -> {"none", "open"} \cup Verdicts]
  /\ info \in [Attempt -> 0..3]
  /\ seen \in SUBSET First /\ failures \in SUBSET seen
  /\ best \in First \cup {0}
  /\ ending \in {"none", "won", "timeout", "cancelled"}
  /\ step \in Attempt \cup {0}
  /\ lastDiff \in Attempt \cup {0} /\ lastRun \in Attempt \cup {0}
  /\ task \in {"pending", "running", "verified", "discarded"}
  /\ winner \in Attempt \cup {0}
  /\ infra \in BOOLEAN
  /\ cancelled \in BOOLEAN

(* When run_task is over no coroutine of it runs on that has not been told *)
(* to stop, and when it settled the task all of them have stopped (README  *)
(* "cancels the losers").                                                  *)
NoOrphans ==
  stage = "over" =>
    \A n \in Attempt : /\ at[n] \notin Stoppable
                       /\ task # "running" => at[n] # "stopping"

(* A task discarded on its merits, and not for lack of time or platform,   *)
(* has no attempt that passed.                                             *)
GreenNeverExhausted ==
  task = "discarded" /\ ~infra => \A n \in Attempt : verdict[n] # "ok"

(* A repair reads the failures of the very diff it reads (scheduler.py:484 *)
(* "as a pair").                                                           *)
SeedIsPair == lastRun # 0 => lastRun = lastDiff

(* Every attempt that is over has a verdict, unless it raised what nobody  *)
(* expects (scheduler.py `_record_cancelled`: "Without a verdict the row   *)
(* read as still running for the rest of the job's life").                 *)
AttemptsJudged ==
  \A n \in Attempt : at[n] \in {"done", "stopped"} => verdict[n] # "open"

(* Nothing of a task is left behind: no coroutine and no open row.         *)
NothingLeftBehind == NoOrphans /\ AttemptsJudged

(* Not so (README, disagreements): a task is discarded on its merits only  *)
(* if some attempt failed for a reason of its own (docs/SPEC.md:767 of     *)
(* MODEL_EMPTY_RESPONSE "Counts as infrastructure, not model quality").    *)
PlatformNeverBlamed ==
  task = "discarded" /\ ~infra
    => \E n \in Attempt :
         verdict[n] \notin {"none", "open", "model", "infrastructure", "cancelled"}

(* The scheduler keeps the promise: verdicts are final, and the task is    *)
(* settled once, and verified only by an attempt that passed.              *)
Promise == INSTANCE TaskPromise WITH Ok <- "ok"

PromiseSpec == Promise!Spec

(* Every task is over in the end, whatever its attempts do.                *)
TaskEnds == stage = "queued" ~> stage = "over"
=============================================================================
