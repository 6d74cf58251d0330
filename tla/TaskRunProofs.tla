---------------------------- MODULE TaskRunProofs ----------------------------
(* The scheduler of one task, for every fan-out and number of repairs, and *)
(* under every fault: its inductive invariant, the safety properties that  *)
(* follow from it, and that it keeps its promise.                          *)
EXTENDS TaskRun, TLAPS

(* Where the coroutine of an attempt is fixes its row.                     *)
AttemptState(n) ==
  /\ at[n] \in {"none", "created"} => verdict[n] = "none"
  /\ at[n] \in Working \cup {"raised", "stopping"} => verdict[n] = "open"
  /\ at[n] = "done" => verdict[n] \in Verdicts \ {"cancelled"}
  /\ at[n] = "stopped" => verdict[n] = "cancelled"
  /\ at[n] # "done" => info[n] = 0
  /\ info[n] > 1 => verdict[n] \notin Errors

AttemptInv == \A n \in Attempt : AttemptState(n)

Quiet(n) == at[n] \notin Stoppable \cup {"stopping"}

(* Where run_task is fixes what runs, and what the row says.               *)
StageInv ==
  /\ stage \in {"queued", "pack"} => \A n \in Attempt : at[n] = "none"
  /\ stage = "race" => \A n \in Attempt : at[n] # "stopping"
  /\ stage = "stopping" => \A n \in Attempt : at[n] \notin Stoppable
  /\ stage = "returned" => \A n \in Attempt : Quiet(n)
  /\ stage = "repair" => \A n \in Attempt : n # step => Quiet(n)
  /\ stage = "repair" => step > Fanout /\ at[step] \in Stoppable \cup {"done", "raised"}
  /\ stage \in {"queued", "pack", "race", "returned"} => step = 0
  /\ stage # "over" => \A n \in Attempt : n > Fanout /\ n > step => at[n] = "none"
  /\ stage # "stopping" => ending = "none"
  /\ stage = "queued" => task = "pending"
  /\ stage \notin {"queued", "over"} => task = "running"

(* What _first_green has looked at was red, and what it returns is green.  *)
RaceInv ==
  /\ \A n \in seen : Ended(n) /\ verdict[n] # "ok"
  /\ failures = {n \in seen : at[n] = "done"}
  /\ best # 0 => at[best] = "done" /\ verdict[best] = "ok"
  /\ ending = "won" => best # 0 /\ step = 0
  /\ stage = "returned" /\ best = 0 => seen = First

(* Once the repairs have begun nothing is green but the last of them.      *)
GreenInv ==
  step # 0 /\ stage # "over" =>
    \A n \in Attempt : verdict[n] = "ok" => n = step /\ stage = "repair"

IInv ==
  /\ TypeOK /\ AttemptInv /\ StageInv /\ RaceInv /\ GreenInv
  /\ NoOrphans /\ GreenNeverExhausted /\ SeedIsPair

-----------------------------------------------------------------------------
(* The attempts of a task: the first round, and the repairs after it.      *)
LEMMA Attempts ==
  /\ First \subseteq Attempt /\ Attempt \subseteq Nat /\ 0 \notin Attempt
  /\ \A n \in Attempt : n \in First \/ n > Fanout
  /\ \A n \in First : n <= Fanout
BY TaskRunAssumption DEF First, Attempt

(* Cancelling takes whoever can be stopped to a stop, and nobody else.     *)
LEMMA StoppedStops ==
  ASSUME TypeOK, at' = Stopped
  PROVE  /\ at' \in [Attempt -> {"none", "created", "model", "sandbox", "done",
                                 "raised", "stopping", "stopped"}]
         /\ \A n \in Attempt :
              /\ at[n] = "created" => at'[n] = "none"
              /\ at[n] \in Working => at'[n] = "stopping"
              /\ at[n] \notin Stoppable => at'[n] = at[n]
              /\ at'[n] \notin Stoppable
BY DEF TypeOK, Stopped, Working, Stoppable

LEMMA InitIInv == Init => IInv
<1> SUFFICES ASSUME Init PROVE IInv
  OBVIOUS
<1> USE TaskRunAssumption, Attempts DEF Init
<1>1. TypeOK
  <2>1. infra \in BOOLEAN /\ cancelled \in BOOLEAN
    BY Zenon
  <2> QED BY <2>1 DEF TypeOK, Verdicts
<1>2. AttemptInv
  BY DEF AttemptInv, AttemptState, Working
<1>3. StageInv
  BY DEF StageInv
<1>4. RaceInv
  BY DEF RaceInv
<1>5. GreenInv /\ NoOrphans /\ GreenNeverExhausted /\ SeedIsPair
  BY DEF GreenInv, NoOrphans, GreenNeverExhausted, SeedIsPair
<1> QED BY <1>1, <1>2, <1>3, <1>4, <1>5 DEF IInv

-----------------------------------------------------------------------------
(* An attempt moves while its task goes on around it: what each conjunct   *)
(* needs to know of such a step.                                           *)
LEMMA AttemptMoves ==
  ASSUME IInv, NEW n \in Attempt, NEW to, NEW v, NEW i,
         at[n] \in Stoppable \cup {"stopping"},
         at' = [at EXCEPT ![n] = to],
         verdict' = [verdict EXCEPT ![n] = v],
         info' = [info EXCEPT ![n] = i],
         UNCHANGED <<stage, race, ending, repair, row, cancelled>>,
         to \in {"model", "sandbox", "done", "raised", "stopped"},
         at[n] = "stopping" <=> to = "stopped",
         v \in {"none", "open"} \cup Verdicts, i \in 0..3,
         to \in {"model", "sandbox", "raised"} => v = "open" /\ i = 0,
         to = "done" => v \in Verdicts \ {"cancelled"},
         to = "stopped" => v = "cancelled" /\ i = 0,
         i > 1 => v \notin Errors
  PROVE  IInv'
<1> USE DEF IInv
<1>0. /\ stage' = stage /\ ending' = ending /\ step' = step /\ task' = task /\ infra' = infra
      /\ seen' = seen /\ failures' = failures /\ best' = best
      /\ lastDiff' = lastDiff /\ lastRun' = lastRun /\ winner' = winner
      /\ cancelled' = cancelled
  BY DEF race, repair, row
<1>1. /\ at'[n] = to /\ verdict'[n] = v /\ info'[n] = i
      /\ \A m \in Attempt : m # n => at'[m] = at[m] /\ verdict'[m] = verdict[m] /\ info'[m] = info[m]
  BY DEF TypeOK
<1>2. TypeOK'
  BY <1>0 DEF TypeOK
<1>3. AttemptInv'
  <2> SUFFICES ASSUME NEW m \in Attempt PROVE AttemptState(m)'
    BY DEF AttemptInv
  <2>1. CASE m = n
    BY <1>1, <2>1 DEF AttemptState, Working, Errors
  <2>2. CASE m # n
    BY <1>1, <2>2 DEF AttemptInv, AttemptState
  <2> QED BY <2>1, <2>2
<1>4. stage \notin {"queued", "pack", "returned"} /\ task # "verified" /\ task # "discarded"
  BY DEF StageInv, Quiet, Stoppable, Working, NoOrphans, TypeOK
<1>5. StageInv'
  BY <1>0, <1>1, <1>4 DEF StageInv, Quiet, Stoppable, Working
<1>6. n \notin seen /\ n # best
  BY Attempts DEF RaceInv, Ended, Stoppable, Working, TypeOK
<1>7. RaceInv'
  BY <1>0, <1>1, <1>6, <1>4, Attempts DEF RaceInv, Ended, TypeOK
<1>8. GreenInv'
  BY <1>0, <1>1, <1>4 DEF GreenInv, StageInv, Quiet, Stoppable, Working, TypeOK, Verdicts
<1>9. NoOrphans'
  BY <1>0, <1>1 DEF NoOrphans, Stoppable, Working
<1>10. GreenNeverExhausted' /\ SeedIsPair'
  BY <1>0, <1>4 DEF GreenNeverExhausted, SeedIsPair
<1> QED BY <1>2, <1>3, <1>5, <1>7, <1>8, <1>9, <1>10

LEMMA AttemptKeeps ==
  ASSUME IInv, NEW n \in Attempt, AttemptStep(n) \/ Raise(n)
  PROVE  IInv'
<1> USE DEF Working, Stoppable, Errors, Verdicts
<1>1. /\ verdict = [verdict EXCEPT ![n] = verdict[n]]
      /\ info = [info EXCEPT ![n] = info[n]]
      /\ verdict[n] \in {"none", "open"} \cup Verdicts /\ info[n] \in 0..3
  BY DEF IInv, TypeOK
<1>2. /\ at[n] \in {"created"} \cup Working \cup {"stopping"} => info[n] = 0
      /\ at[n] \in Working \cup {"stopping"} => verdict[n] = "open"
  BY DEF IInv, AttemptInv, AttemptState
<1>3. CASE Open(n)
  BY <1>1, <1>2, <1>3, AttemptMoves DEF Open
<1>4. CASE EnterSandbox(n)
  BY <1>1, <1>2, <1>4, AttemptMoves DEF EnterSandbox
<1>5. ASSUME at[n] \in Working, NEW v, NEW i, v \in Verdicts \ {"cancelled"}, i \in 0..3,
             i > 1 => v \notin Errors, Judge(n, v, i)
      PROVE  IInv'
  BY <1>5, AttemptMoves DEF Judge
<1>6. CASE FailBeforeSandbox(n)
  <2>1. PICK v \in Errors \cup {"local"} : Judge(n, v, 1)
    BY <1>6 DEF FailBeforeSandbox
  <2> QED BY <1>5, <1>6, <2>1 DEF FailBeforeSandbox
<1>7. CASE LeaveSandbox(n)
  <2>1. CASE Judge(n, "ok", 3)
    BY <1>5, <1>7, <2>1 DEF LeaveSandbox
  <2>2. CASE \E v \in {"red", "local"}, i \in {2, 3} : Judge(n, v, i)
    <3>1. PICK v \in {"red", "local"}, i \in {2, 3} : Judge(n, v, i)
      BY <2>2
    <3> QED BY <1>5, <1>7, <3>1 DEF LeaveSandbox
  <2>3. CASE Judge(n, "infrastructure", 0)
    BY <1>5, <1>7, <2>3 DEF LeaveSandbox
  <2> QED BY <1>7, <2>1, <2>2, <2>3 DEF LeaveSandbox
<1>8. CASE StopEnds(n)
  BY <1>1, <1>2, <1>8, AttemptMoves DEF StopEnds
<1>9. CASE Raise(n)
  <2>1. /\ at[n] \in Working /\ at' = [at EXCEPT ![n] = "raised"]
        /\ verdict' = verdict /\ info' = info
        /\ UNCHANGED <<stage, race, ending, repair, row, cancelled>>
    BY <1>9, Zenon DEF Raise
  <2> QED BY <1>1, <1>2, <2>1, AttemptMoves
<1> QED BY <1>3, <1>4, <1>6, <1>7, <1>8, <1>9 DEF AttemptStep

-----------------------------------------------------------------------------
(* The steps of run_task, by what they have in common.                     *)

(* Coroutines are told to stop, with a winner or without.                  *)
LEMMA StopKeeps ==
  ASSUME IInv, stage \in {"race", "stopping", "repair"},
         stage = "repair" => ~Ended(step),
         at' = Stopped, stage' = "stopping",
         ending' \in {"won", "timeout", "cancelled"},
         best' \in First \cup {0},
         best' # 0 => at[best'] = "done" /\ verdict[best'] = "ok",
         ending' = "won" => best' # 0 /\ step = 0,
         cancelled' \in BOOLEAN,
         UNCHANGED <<verdict, info, seen, failures, repair, row>>
  PROVE  IInv'
<1> USE DEF IInv
<1>0. /\ step' = step /\ lastDiff' = lastDiff /\ lastRun' = lastRun
      /\ task' = task /\ winner' = winner /\ infra' = infra
      /\ seen' = seen /\ failures' = failures /\ verdict' = verdict /\ info' = info
  BY DEF repair, row
<1>1. /\ at' \in [Attempt -> {"none", "created", "model", "sandbox", "done",
                              "raised", "stopping", "stopped"}]
      /\ \A n \in Attempt :
           /\ at[n] = "created" => at'[n] = "none"
           /\ at[n] \in Working => at'[n] = "stopping"
           /\ at[n] \notin Stoppable => at'[n] = at[n]
           /\ at'[n] \notin Stoppable
  BY StoppedStops
<1>2. TypeOK'
  BY <1>0, <1>1 DEF TypeOK
<1>3. AttemptInv'
  <2> SUFFICES ASSUME NEW n \in Attempt PROVE AttemptState(n)'
    BY DEF AttemptInv
  <2> QED BY <1>0, <1>1 DEF AttemptInv, AttemptState, Working, Stoppable
<1>4. StageInv'
  BY <1>0, <1>1 DEF StageInv, Stoppable, Working
<1>5. RaceInv'
  <2>1. \A n \in Attempt : (at'[n] = "done" <=> at[n] = "done")
                          /\ (at'[n] = "raised" <=> at[n] = "raised")
    BY <1>1 DEF Stoppable, Working, TypeOK
  <2> QED BY <1>0, <2>1, Attempts DEF RaceInv, Ended, TypeOK
<1>6. GreenInv'
  <2> SUFFICES ASSUME step # 0, NEW n \in Attempt, verdict[n] = "ok" PROVE FALSE
    BY <1>0 DEF GreenInv
  <2>1. n = step /\ stage = "repair"
    BY DEF GreenInv
  <2> QED BY <2>1 DEF AttemptInv, AttemptState, Ended, StageInv, Stoppable, Working
<1>7. NoOrphans' /\ GreenNeverExhausted' /\ SeedIsPair'
  BY <1>0 DEF NoOrphans, GreenNeverExhausted, SeedIsPair
<1> QED BY <1>2, <1>3, <1>4, <1>5, <1>6, <1>7

(* The task is over while nothing of it runs: discarded, verified, or left *)
(* as it is by a cancellation.                                             *)
LEMMA OverKeeps ==
  ASSUME IInv, Over, ending' = "none",
         UNCHANGED <<at, verdict, info, race, step>>,
         \A n \in Attempt : at[n] \notin Stoppable,
         task' # "running" => \A n \in Attempt : at[n] # "stopping",
         task' \in {"pending", "running", "verified", "discarded"},
         winner' \in Attempt \cup {0}, infra' \in BOOLEAN, cancelled' \in BOOLEAN,
         task' = "discarded" /\ ~infra' => \A n \in Attempt : verdict[n] # "ok",
         lastDiff' \in Attempt \cup {0}, lastRun' \in Attempt \cup {0},
         lastRun' # 0 => lastRun' = lastDiff'
  PROVE  IInv'
<1> USE DEF IInv, Over
<1>0. seen' = seen /\ failures' = failures /\ best' = best /\ step' = step
  BY DEF race
<1>1. TypeOK'
  BY <1>0 DEF TypeOK
<1>2. AttemptInv'
  BY DEF AttemptInv, AttemptState
<1>3. StageInv'
  BY DEF StageInv
<1>4. RaceInv' /\ GreenInv'
  BY <1>0 DEF RaceInv, Ended, GreenInv
<1>5. NoOrphans' /\ SeedIsPair'
  BY DEF NoOrphans, SeedIsPair
<1>6. GreenNeverExhausted'
  BY Zenon DEF GreenNeverExhausted
<1> QED BY <1>1, <1>2, <1>3, <1>4, <1>5, <1>6

(* EveryAttemptInconclusive and AllInconclusive are truth values, and the  *)
(* first excludes a green attempt.                                         *)
LEMMA Inconclusive ==
  /\ EveryAttemptInconclusive \in BOOLEAN
  /\ EveryAttemptInconclusive => \A n \in Attempt : verdict[n] # "ok"
<1>1. EveryAttemptInconclusive => \A n \in Attempt : verdict[n] # "ok"
  BY DEF EveryAttemptInconclusive
<1>2. EveryAttemptInconclusive \in BOOLEAN
  BY Zenon DEF EveryAttemptInconclusive
<1> QED BY <1>1, <1>2

(* The repair loop goes on with a new attempt, or has used up its steps.   *)
LEMMA StartStepKeeps ==
  ASSUME IInv, stage \in {"returned", "repair"},
         NEW n \in Nat, n > Fanout, n > step,
         NEW diff \in Attempt \cup {0}, NEW run \in Attempt \cup {0},
         run # 0 => run = diff,
         \A m \in Attempt : Quiet(m) /\ verdict[m] # "ok",
         StartStep(n, diff, run),
         UNCHANGED <<verdict, info, race, ending, cancelled>>
  PROVE  IInv'
<1> USE DEF IInv
<1>0. /\ ending = "none" /\ task = "running"
      /\ lastDiff' = diff /\ lastRun' = run
      /\ seen' = seen /\ failures' = failures /\ best' = best
  BY DEF StageInv, StartStep, race
<1>1. CASE n \in Attempt
  <2>1. /\ stage' = "repair" /\ step' = n /\ at' = [at EXCEPT ![n] = "created"]
        /\ task' = task /\ winner' = winner /\ infra' = infra
    BY <1>1, Zenon DEF StartStep, row
  <2>2. at[n] = "none" /\ verdict[n] = "none" /\ info[n] = 0 /\ n # 0 /\ n \notin First
    BY <1>1, Attempts, TaskRunAssumption DEF StageInv, AttemptInv, AttemptState
  <2>3. at'[n] = "created" /\ \A m \in Attempt : m # n => at'[m] = at[m]
    BY <1>1, <2>1 DEF TypeOK
  <2>4. TypeOK'
    BY <1>0, <1>1, <2>1 DEF TypeOK
  <2>5. AttemptInv'
    BY <2>2, <2>3 DEF AttemptInv, AttemptState, Working
  <2>6. StageInv'
    <3>1. \A m \in Attempt : m > Fanout /\ m > n => m > step /\ m # n
      BY Attempts DEF TypeOK
    <3>2. \A m \in Attempt : m > Fanout /\ m > n => at'[m] = "none"
      BY <2>3, <3>1 DEF StageInv
    <3>3. \A m \in Attempt : m # n => Quiet(m)'
      BY <2>3 DEF Quiet
    <3> QED BY <1>0, <1>1, <2>1, <2>2, <2>3, <3>2, <3>3 DEF StageInv, Stoppable
  <2>7. RaceInv'
    BY <1>0, <2>1, <2>2, <2>3, Attempts DEF RaceInv, Ended, TypeOK
  <2>8. GreenInv' /\ NoOrphans' /\ SeedIsPair'
    BY <1>0, <2>1 DEF GreenInv, NoOrphans, SeedIsPair
  <2>9. GreenNeverExhausted'
    BY <1>0, <2>1 DEF GreenNeverExhausted
  <2> QED BY <2>4, <2>5, <2>6, <2>7, <2>8, <2>9
<1>2. CASE n \notin Attempt
  <2>1. /\ Over /\ task' = "discarded" /\ infra' = EveryAttemptInconclusive
        /\ winner' = winner /\ at' = at /\ step' = step
    BY <1>2, Zenon DEF StartStep, Discard
  <2>2. infra' \in BOOLEAN
    BY <2>1, Inconclusive, Zenon
  <2>3. \A m \in Attempt : at[m] \notin Stoppable /\ at[m] # "stopping"
    BY DEF Quiet
  <2> QED BY <1>0, <2>1, <2>2, <2>3, OverKeeps DEF TypeOK
<1> QED BY <1>1, <1>2

(* A task discarded while nothing of it runs, on its merits only when      *)
(* nothing of it is green.                                                 *)
LEMMA DiscardKeeps ==
  ASSUME IInv, NEW b \in BOOLEAN, Discard(b), ending' = "none",
         UNCHANGED <<at, verdict, info, race, repair, cancelled>>,
         \A n \in Attempt : Quiet(n),
         ~b => \A n \in Attempt : verdict[n] # "ok"
  PROVE  IInv'
<1>1. /\ Over /\ task' = "discarded" /\ winner' = winner
      /\ lastDiff' = lastDiff /\ lastRun' = lastRun /\ step' = step
  BY Zenon DEF Discard, repair
<1>2. infra' \in BOOLEAN /\ (~infra' => \A n \in Attempt : verdict[n] # "ok")
  BY Zenon DEF Discard
<1>3. \A n \in Attempt : at[n] \notin Stoppable /\ at[n] # "stopping"
  BY DEF Quiet
<1> QED BY <1>1, <1>2, <1>3, OverKeeps DEF IInv, TypeOK, SeedIsPair

LEMMA VerifyKeeps ==
  ASSUME IInv, NEW n \in Attempt, Verify(n), ending = "none",
         UNCHANGED <<at, verdict, info, race, ending, repair, cancelled>>,
         \A m \in Attempt : Quiet(m)
  PROVE  IInv'
<1>1. /\ Over /\ task' = "verified" /\ winner' = n /\ infra' = infra
      /\ lastDiff' = lastDiff /\ lastRun' = lastRun /\ step' = step
  BY Zenon DEF Verify, repair
<1>3. \A m \in Attempt : at[m] \notin Stoppable /\ at[m] # "stopping"
  BY DEF Quiet
<1> QED BY <1>1, <1>3, OverKeeps DEF IInv, TypeOK, SeedIsPair

-----------------------------------------------------------------------------
LEMMA StartKeeps == IInv /\ (Start \/ StartRace) => IInv'
<1> SUFFICES ASSUME IInv PROVE Start \/ StartRace => IInv'
  OBVIOUS
<1> USE DEF IInv
<1>1. ASSUME Start PROVE IInv'
  <2>0. /\ stage = "queued" /\ stage' = "pack" /\ task' = "running" /\ ending' = ending
        /\ at' = at /\ verdict' = verdict /\ info' = info /\ step' = step
        /\ lastDiff' = lastDiff /\ lastRun' = lastRun /\ winner' = winner /\ infra' = infra
        /\ seen' = seen /\ failures' = failures /\ best' = best /\ cancelled' = cancelled
    BY <1>1 DEF Start, race, repair
  <2>1. TypeOK' /\ AttemptInv'
    BY <2>0 DEF TypeOK, AttemptInv, AttemptState
  <2>2. StageInv'
    BY <2>0 DEF StageInv
  <2>3. RaceInv' /\ GreenInv'
    BY <2>0 DEF RaceInv, GreenInv, Ended, StageInv
  <2>4. NoOrphans' /\ GreenNeverExhausted' /\ SeedIsPair'
    BY <2>0 DEF NoOrphans, GreenNeverExhausted, SeedIsPair
  <2> QED BY <2>1, <2>2, <2>3, <2>4
<1>2. ASSUME StartRace PROVE IInv'
  <2>0. /\ stage = "pack" /\ stage' = "race" /\ task' = task /\ ending' = ending
        /\ verdict' = verdict /\ info' = info /\ step' = step
        /\ lastDiff' = lastDiff /\ lastRun' = lastRun /\ winner' = winner /\ infra' = infra
        /\ seen' = seen /\ failures' = failures /\ best' = best /\ cancelled' = cancelled
    BY <1>2 DEF StartRace, race, repair, row
  <2>1. /\ at' \in [Attempt -> {"none", "created"}]
        /\ \A n \in Attempt : n > Fanout => at'[n] = "none"
    BY <1>2, Attempts, TaskRunAssumption DEF StartRace
  <2>2. \A n \in Attempt : at[n] = "none" /\ verdict[n] = "none" /\ info[n] = 0
    BY <2>0 DEF StageInv, AttemptInv, AttemptState
  <2>3. TypeOK'
    BY <2>0, <2>1 DEF TypeOK
  <2>4. AttemptInv'
    BY <2>0, <2>1, <2>2 DEF AttemptInv, AttemptState, Working
  <2>5. StageInv'
    BY <2>0, <2>1 DEF StageInv
  <2>6. RaceInv' /\ GreenInv'
    BY <2>0, <2>2, Attempts DEF RaceInv, GreenInv, Ended, StageInv, TypeOK
  <2>7. NoOrphans' /\ GreenNeverExhausted' /\ SeedIsPair'
    BY <2>0 DEF NoOrphans, GreenNeverExhausted, SeedIsPair
  <2> QED BY <2>3, <2>4, <2>5, <2>6, <2>7
<1> QED BY <1>1, <1>2

LEMMA CollectKeeps == IInv /\ (CollectWinner \/ CollectLosers) => IInv'
<1> SUFFICES ASSUME IInv PROVE CollectWinner \/ CollectLosers => IInv'
  OBVIOUS
<1> USE DEF IInv
<1>1. ASSUME CollectWinner PROVE IInv'
  <2>1. PICK n \in First \ seen : at[n] = "done" /\ verdict[n] = "ok" /\ best' = n
    BY <1>1 DEF CollectWinner
  <2>2. /\ stage = "race" /\ at' = Stopped /\ stage' = "stopping" /\ ending' = "won"
        /\ UNCHANGED <<verdict, info, seen, failures, repair, row>> /\ cancelled' = cancelled
    BY <1>1 DEF CollectWinner
  <2>3. step = 0 /\ n # 0
    BY <2>2, Attempts DEF StageInv
  <2> QED BY <2>1, <2>2, <2>3, StopKeeps DEF TypeOK
<1>2. ASSUME CollectLosers PROVE IInv'
  <2> DEFINE new == {n \in First \ seen : Ended(n)}
  <2>0. /\ stage = "race" /\ task' = task /\ ending' = ending /\ at' = at
        /\ verdict' = verdict /\ info' = info /\ step' = step
        /\ lastDiff' = lastDiff /\ lastRun' = lastRun /\ winner' = winner /\ infra' = infra
        /\ best' = best /\ cancelled' = cancelled
    BY <1>2 DEF CollectLosers, repair, row
  <2>1. /\ \A n \in new : at[n] = "done" => verdict[n] # "ok"
        /\ seen' = seen \cup new
        /\ failures' = failures \cup {n \in new : at[n] = "done"}
        /\ stage' = IF seen' = First THEN "returned" ELSE "race"
    BY <1>2 DEF CollectLosers
  <2>2. TypeOK'
    BY <2>0, <2>1 DEF TypeOK
  <2>3. AttemptInv'
    BY <2>0 DEF AttemptInv, AttemptState
  <2>4. \A n \in seen' : Ended(n) /\ verdict[n] # "ok"
    BY <2>1, Attempts DEF RaceInv, Ended, AttemptInv, AttemptState
  <2>5. StageInv'
    <3>1. CASE seen' = First
      <4>1. \A n \in Attempt : Quiet(n)
        BY <2>0, <2>4, <3>1, Attempts DEF StageInv, Quiet, Ended, Stoppable, Working, TypeOK
      <4> QED BY <2>0, <2>1, <3>1, <4>1 DEF StageInv, Quiet
    <3>2. CASE seen' # First
      BY <2>0, <2>1, <3>2 DEF StageInv
    <3> QED BY <3>1, <3>2
  <2>6. RaceInv'
    BY <2>0, <2>1, <2>4 DEF RaceInv, Ended
  <2>7. GreenInv'
    BY <2>0 DEF GreenInv, StageInv
  <2>8. NoOrphans' /\ GreenNeverExhausted' /\ SeedIsPair'
    BY <2>0, <2>1 DEF NoOrphans, GreenNeverExhausted, SeedIsPair
  <2> QED BY <2>2, <2>3, <2>5, <2>6, <2>7, <2>8
<1> QED BY <1>1, <1>2

LEMMA TimeoutKeeps == IInv /\ Timeout => IInv'
<1> SUFFICES ASSUME IInv, Timeout PROVE IInv'
  OBVIOUS
<1>1. stage = "repair" => ~Ended(step)
  BY DEF Timeout, Ended, Stoppable, Working
<1>2. /\ stage \in {"race", "stopping", "repair"}
      /\ UNCHANGED <<verdict, info, seen, failures, repair, row>>
      /\ best' = best /\ cancelled' = cancelled
      /\ at' = Stopped /\ stage' = "stopping" /\ ending' = "timeout"
  BY DEF Timeout, race
<1> QED BY <1>1, <1>2, StopKeeps DEF IInv, TypeOK, RaceInv

LEMMA StoppedAllKeeps == IInv /\ StoppedAll => IInv'
<1> SUFFICES ASSUME IInv, StoppedAll PROVE IInv'
  OBVIOUS
<1> USE DEF IInv
<1>0. /\ stage = "stopping" /\ ending' = "none"
      /\ at' = at /\ verdict' = verdict /\ info' = info
      /\ UNCHANGED race /\ UNCHANGED repair /\ cancelled' = cancelled
      /\ \A n \in Attempt : Quiet(n)
  BY DEF StoppedAll, StageInv, Quiet
<1>a. /\ seen' = seen /\ failures' = failures /\ best' = best /\ step' = step
      /\ lastDiff' = lastDiff /\ lastRun' = lastRun
  BY <1>0 DEF race, repair
<1>1. CASE ending = "won" /\ stage' = "returned" /\ UNCHANGED row
  <2>0. task' = task /\ winner' = winner /\ infra' = infra
    BY <1>1 DEF row
  <2>1. TypeOK' /\ AttemptInv'
    BY <1>0, <1>a, <1>1, <2>0 DEF TypeOK, AttemptInv, AttemptState
  <2>2. StageInv'
    BY <1>0, <1>a, <1>1, <2>0 DEF StageInv, RaceInv, Quiet
  <2>3. RaceInv' /\ GreenInv'
    BY <1>0, <1>a, <1>1 DEF RaceInv, Ended, GreenInv
  <2>4. NoOrphans' /\ GreenNeverExhausted' /\ SeedIsPair'
    BY <1>0, <1>a, <1>1, <2>0 DEF NoOrphans, GreenNeverExhausted, SeedIsPair
  <2> QED BY <2>1, <2>2, <2>3, <2>4
<1>2. CASE ending = "timeout" /\ Discard(step = 0 \/ EveryAttemptInconclusive)
  <2>1. step # 0 => \A n \in Attempt : verdict[n] # "ok"
    BY <1>0 DEF GreenInv
  <2>2. (step = 0 \/ EveryAttemptInconclusive) \in BOOLEAN
    OBVIOUS
  <2> QED BY <1>0, <1>2, <2>1, <2>2, DiscardKeeps
<1>3. CASE ending = "cancelled" /\ Over /\ UNCHANGED row
  <2>0. task' = task /\ winner' = winner /\ infra' = infra /\ task = "running"
    BY <1>0, <1>3 DEF row, StageInv
  <2> QED BY <1>0, <1>a, <1>3, <2>0, OverKeeps DEF TypeOK, SeedIsPair, Quiet
<1> QED BY <1>1, <1>2, <1>3 DEF StoppedAll

(* _first_green has returned.                                              *)
LEMMA ReturnedKeeps == IInv /\ (RaceWon \/ RaceInconclusive \/ RaceLost) => IInv'
<1> SUFFICES ASSUME IInv PROVE RaceWon \/ RaceInconclusive \/ RaceLost => IInv'
  OBVIOUS
<1> USE DEF IInv
<1>0. ASSUME stage = "returned"
      PROVE  ending = "none" /\ step = 0 /\ \A n \in Attempt : Quiet(n)
  BY <1>0 DEF StageInv
<1>1. ASSUME RaceWon PROVE IInv'
  <2>1. stage = "returned" /\ best \in Attempt /\ Verify(best)
    BY <1>1, Attempts DEF RaceWon, TypeOK
  <2> QED BY <1>0, <1>1, <2>1, VerifyKeeps DEF RaceWon
<1>2. ASSUME stage = "returned", best = 0, NEW n \in Attempt PROVE verdict[n] # "ok"
  <2>1. CASE n \in First
    BY <1>2, <2>1 DEF RaceInv
  <2>2. CASE n \notin First
    BY <1>0, <1>2, <2>2, Attempts DEF StageInv, AttemptInv, AttemptState
  <2> QED BY <2>1, <2>2
<1>3. ASSUME RaceInconclusive PROVE IInv'
  BY <1>0, <1>3, DiscardKeeps DEF RaceInconclusive
<1>4. ASSUME RaceLost PROVE IInv'
  <2>0. /\ stage = "returned" /\ best = 0
        /\ UNCHANGED <<verdict, info, race, ending, cancelled>>
    BY <1>4 DEF RaceLost
  <2>1. Fanout + 1 \in Nat /\ Fanout + 1 > Fanout /\ Fanout + 1 > step
    BY <1>0, <2>0, TaskRunAssumption
  <2>2. PICK diff \in Attempt \cup {0}, run \in Attempt \cup {0} :
          StartStep(Fanout + 1, diff, run) /\ (run # 0 => run = diff)
    <3>1. CASE failures = {}
      BY <1>4, <3>1 DEF RaceLost
    <3>2. CASE failures # {}
      <4>1. PICK s \in failures : StartStep(Fanout + 1, IF HasDiff(s) THEN s ELSE 0,
                                                       IF HasRun(s) THEN s ELSE 0)
        BY <1>4, <3>2 DEF RaceLost
      <4>2. s \in Attempt /\ (HasRun(s) => HasDiff(s))
        BY Attempts DEF TypeOK, AttemptInv, AttemptState, HasRun, HasDiff
      <4> QED BY <4>1, <4>2
    <3> QED BY <3>1, <3>2
  <2> QED BY <1>0, <1>2, <2>0, <2>1, <2>2, StartStepKeeps
<1> QED BY <1>1, <1>3, <1>4

LEMMA RepairKeeps ==
  IInv /\ (RepairWon \/ RepairInconclusive \/ RepairLost \/ RepairRaised) => IInv'
<1> SUFFICES ASSUME IInv, stage = "repair", Ended(step)
             PROVE  RepairWon \/ RepairInconclusive \/ RepairLost \/ RepairRaised => IInv'
  BY DEF RepairWon, RepairInconclusive, RepairLost, RepairRaised, Ended
<1> USE DEF IInv
<1>0. /\ ending = "none" /\ step \in Attempt /\ step # 0 /\ task = "running"
      /\ \A n \in Attempt : Quiet(n)
  BY TaskRunAssumption DEF StageInv, TypeOK, Quiet, Ended, Stoppable, Working
<1>1. ASSUME verdict[step] # "ok", NEW n \in Attempt PROVE verdict[n] # "ok"
  BY <1>0, <1>1 DEF GreenInv
<1>2. ASSUME RepairWon PROVE IInv'
  BY <1>0, <1>2, VerifyKeeps DEF RepairWon
<1>3. ASSUME RepairInconclusive PROVE IInv'
  BY <1>0, <1>1, <1>3, Inconclusive, DiscardKeeps DEF RepairInconclusive
<1>4. ASSUME RepairLost PROVE IInv'
  <2>1. UNCHANGED <<verdict, info, race, ending, cancelled>> /\ verdict[step] # "ok"
    BY <1>4 DEF RepairLost
  <2>2. step + 1 \in Nat /\ step + 1 > Fanout /\ step + 1 > step
    BY <1>0, Attempts, TaskRunAssumption DEF StageInv
  <2>3. PICK diff \in Attempt \cup {0}, run \in Attempt \cup {0} :
          StartStep(step + 1, diff, run) /\ (run # 0 => run = diff)
    <3>1. CASE HasRun(step)
      BY <1>0, <1>4, <3>1 DEF RepairLost
    <3>2. CASE ~HasRun(step)
      BY <1>4, <3>2 DEF RepairLost, TypeOK, SeedIsPair
    <3> QED BY <3>1, <3>2
  <2> QED BY <1>0, <1>1, <2>1, <2>2, <2>3, StartStepKeeps
<1>5. ASSUME RepairRaised PROVE IInv'
  <2>1. /\ Over /\ UNCHANGED <<at, verdict, info, race, step>> /\ ending' = "none"
        /\ lastDiff' = lastDiff /\ lastRun' = lastRun
        /\ task' = task /\ winner' = winner /\ infra' = infra /\ cancelled' = cancelled
    BY <1>0, <1>5 DEF RepairRaised, repair, row
  <2> QED BY <1>0, <2>1, OverKeeps DEF TypeOK, SeedIsPair, Quiet
<1> QED BY <1>2, <1>3, <1>4, <1>5

LEMMA CancelKeeps == IInv /\ Cancel => IInv'
<1> SUFFICES ASSUME IInv, Cancel PROVE IInv'
  OBVIOUS
<1> USE DEF IInv
<1>0. /\ cancelled' \in BOOLEAN
      /\ verdict' = verdict /\ info' = info
      /\ seen' = seen /\ failures' = failures /\ best' = best /\ step' = step
      /\ lastDiff' = lastDiff /\ lastRun' = lastRun
      /\ task' = task /\ winner' = winner /\ infra' = infra
      /\ UNCHANGED <<race, repair, row>>
  BY Zenon DEF Cancel, race, repair, row
<1>1. CASE CancelWaiting
  <2>1. \A n \in Attempt : at[n] = "none"
    BY <1>1 DEF CancelWaiting, StageInv
  <2>2. Over /\ at' = at /\ ending' = "none" /\ task \in {"pending", "running"}
    BY <1>1 DEF CancelWaiting, StageInv
  <2> QED BY <1>0, <2>1, <2>2, OverKeeps DEF TypeOK, SeedIsPair, Stoppable, Working
<1>2. CASE CancelWorking
  <2>1. stage = "repair" => ~Ended(step)
    BY <1>2 DEF CancelWorking, Answered
  <2>2. /\ stage \in {"race", "stopping", "repair"}
        /\ at' = Stopped /\ stage' = "stopping" /\ ending' = "cancelled"
    BY <1>2, Zenon DEF CancelWorking
  <2> QED BY <1>0, <2>1, <2>2, StopKeeps DEF TypeOK, RaceInv
<1>3. CASE CancelTimeout
  <2>1. stage = "stopping" /\ Over /\ ending' = "none" /\ at' = at
    BY <1>3, Zenon DEF CancelTimeout
  <2>2. task = "running" /\ \A n \in Attempt : at[n] \notin Stoppable
    BY <2>1 DEF StageInv
  <2> QED BY <1>0, <2>1, <2>2, OverKeeps DEF TypeOK, SeedIsPair
<1>4. CASE CancelSwallowed
  <2>1. stage' = stage /\ at' = at /\ ending' = ending
    BY <1>4, Zenon DEF CancelSwallowed
  <2>2. TypeOK' /\ AttemptInv'
    BY <1>0, <2>1 DEF TypeOK, AttemptInv, AttemptState
  <2>3. StageInv' /\ RaceInv' /\ GreenInv'
    BY <1>0, <2>1 DEF StageInv, Quiet, RaceInv, Ended, GreenInv
  <2>4. NoOrphans' /\ GreenNeverExhausted' /\ SeedIsPair'
    BY <1>0, <2>1 DEF NoOrphans, GreenNeverExhausted, SeedIsPair
  <2> QED BY <2>2, <2>3, <2>4
<1> QED BY <1>1, <1>2, <1>3, <1>4 DEF Cancel

LEMMA NextIInv == IInv /\ [Next]_vars => IInv'
<1> SUFFICES ASSUME IInv, [Next]_vars PROVE IInv'
  OBVIOUS
<1>1. CASE TaskStep
  <2>1. CASE PackTimeout
    <3>1. /\ stage = "pack" /\ Discard(TRUE) /\ ending' = ending
          /\ UNCHANGED <<at, verdict, info, race, repair, cancelled>>
      BY <2>1 DEF PackTimeout
    <3>2. ending = "none" /\ \A n \in Attempt : Quiet(n)
      BY <3>1 DEF IInv, StageInv, Quiet, Stoppable, Working
    <3> QED BY <3>1, <3>2, DiscardKeeps
  <2> QED
    BY <1>1, <2>1, StartKeeps, CollectKeeps, TimeoutKeeps, StoppedAllKeeps, ReturnedKeeps,
       RepairKeeps DEF TaskStep
<1>2. CASE \E n \in Attempt : AttemptStep(n) \/ Raise(n)
  BY <1>2, AttemptKeeps
<1>3. CASE Cancel
  BY <1>3, CancelKeeps
<1>4. CASE UNCHANGED vars
  <2>1. TypeOK' /\ AttemptInv'
    BY <1>4 DEF vars, race, repair, row, IInv, TypeOK, AttemptInv, AttemptState
  <2>2. StageInv' /\ RaceInv' /\ GreenInv'
    BY <1>4 DEF vars, race, repair, row, IInv, StageInv, Quiet, RaceInv, Ended, GreenInv
  <2>3. NoOrphans' /\ SeedIsPair' /\ GreenNeverExhausted'
    BY <1>4 DEF vars, race, repair, row, IInv, NoOrphans, GreenNeverExhausted, SeedIsPair
  <2> QED BY <2>1, <2>2, <2>3 DEF IInv
<1> QED BY <1>1, <1>2, <1>3, <1>4 DEF Next

(* The invariant of the scheduler.                                         *)
THEOREM TaskInvariant == Spec => []IInv
<1> QED BY InitIInv, NextIInv, PTL DEF Spec

(* When run_task is over no coroutine of it runs on and no ended attempt   *)
(* has an open row, whatever was cancelled, timed out or raised.           *)
THEOREM TaskLeavesNothing == Spec => []NothingLeftBehind
<1>1. IInv => NothingLeftBehind
  BY DEF IInv, NothingLeftBehind, AttemptsJudged, AttemptInv, AttemptState, Verdicts, Errors
<1> QED BY <1>1, TaskInvariant, PTL

(* No attempt of a task discarded on its merits had passed.                *)
THEOREM GreenIsKept == Spec => []GreenNeverExhausted
<1>1. IInv => GreenNeverExhausted
  BY DEF IInv
<1> QED BY <1>1, TaskInvariant, PTL

(* A repair reads a diff and the test run of that diff.                    *)
THEOREM RepairsReadPairs == Spec => []SeedIsPair
<1>1. IInv => SeedIsPair
  BY DEF IInv
<1> QED BY <1>1, TaskInvariant, PTL

-----------------------------------------------------------------------------
(* The scheduler keeps its promise.                                        *)

LEMMA AttemptKeepsPromise ==
  ASSUME IInv, NEW n \in Attempt, AttemptStep(n) \/ Raise(n)
  PROVE  [Promise!Next]_(Promise!vars)
<1> USE DEF Promise!Next, Promise!vars
<1>0. /\ at[n] \in Stoppable \cup {"stopping"} => task = "running"
      /\ at[n] = "created" => verdict[n] = "none"
      /\ at[n] \in Working \cup {"stopping"} => verdict[n] = "open"
  BY DEF IInv, StageInv, NoOrphans, AttemptInv, AttemptState, TypeOK, Stoppable, Working
<1>1. CASE Open(n)
  BY <1>0, <1>1 DEF Open, Promise!Open, row, Stoppable
<1>2. CASE EnterSandbox(n) \/ Raise(n)
  BY <1>2 DEF EnterSandbox, Raise, row
<1>3. ASSUME at[n] \in Working, NEW v \in Verdicts, NEW i, Judge(n, v, i)
      PROVE  Promise!Next
  BY <1>0, <1>3 DEF Judge, Promise!Judge, row, Stoppable
<1>4. CASE FailBeforeSandbox(n)
  BY <1>3, <1>4 DEF FailBeforeSandbox, Working, Verdicts
<1>5. CASE LeaveSandbox(n)
  BY <1>3, <1>5 DEF LeaveSandbox, Working, Verdicts
<1>6. CASE StopEnds(n)
  <2>1. Promise!Judge(n, "cancelled")
    BY <1>0, <1>6 DEF StopEnds, Promise!Judge, row
  <2> QED BY <2>1 DEF Verdicts
<1> QED BY <1>1, <1>2, <1>4, <1>5, <1>6 DEF AttemptStep

LEMMA NextKeepsPromise == IInv /\ [Next]_vars => [Promise!Next]_(Promise!vars)
<1> SUFFICES ASSUME IInv, [Next]_vars PROVE [Promise!Next]_(Promise!vars)
  OBVIOUS
<1> USE DEF Promise!Next, Promise!vars
<1>1. ASSUME UNCHANGED <<verdict, row>> PROVE [Promise!Next]_(Promise!vars)
  BY <1>1 DEF row
<1>2. ASSUME NEW b, Discard(b), stage \notin {"queued", "over"}, verdict' = verdict
      PROVE  Promise!Discard
  BY <1>2 DEF Discard, Promise!Discard, IInv, StageInv
<1>3. ASSUME NEW n \in Attempt, Verify(n), verdict[n] = "ok", verdict' = verdict,
             stage \notin {"queued", "over"}
      PROVE  Promise!Verify(n)
  BY <1>3 DEF Verify, Promise!Verify, IInv, StageInv
<1>4. ASSUME NEW n, NEW diff, NEW run, StartStep(n, diff, run), verdict' = verdict,
             stage \notin {"queued", "over"}
      PROVE  [Promise!Next]_(Promise!vars)
  BY <1>1, <1>2, <1>4, Zenon DEF StartStep
<1>5. CASE TaskStep
  <2>1. CASE Start
    BY <2>1 DEF Start, Promise!Start, IInv, StageInv
  <2>2. CASE StartRace \/ CollectWinner \/ CollectLosers \/ Timeout \/ RepairRaised
    BY <2>2, <1>1 DEF StartRace, CollectWinner, CollectLosers, Timeout, RepairRaised
  <2>3. CASE PackTimeout \/ RaceInconclusive \/ RepairInconclusive
    BY <2>3, <1>2 DEF PackTimeout, RaceInconclusive, RepairInconclusive
  <2>4. CASE StoppedAll
    BY <2>4, <1>1, <1>2 DEF StoppedAll
  <2>5. CASE RaceWon
    BY <2>5, <1>3, Attempts DEF RaceWon, IInv, RaceInv, TypeOK
  <2>6. CASE RepairWon
    BY <2>6, <1>3, Attempts, TaskRunAssumption DEF RepairWon, IInv, StageInv, TypeOK
  <2>7. CASE RaceLost \/ RepairLost
    BY <2>7, <1>4 DEF RaceLost, RepairLost
  <2> QED BY <1>5, <2>1, <2>2, <2>3, <2>4, <2>5, <2>6, <2>7 DEF TaskStep
<1>6. CASE \E n \in Attempt : AttemptStep(n) \/ Raise(n)
  BY <1>6, AttemptKeepsPromise
<1>7. CASE Cancel
  BY <1>7, <1>1 DEF Cancel
<1>8. CASE UNCHANGED vars
  BY <1>8, <1>1 DEF vars
<1> QED BY <1>5, <1>6, <1>7, <1>8 DEF Next

(* The scheduler implements TaskPromise: verdicts are final, and a task is *)
(* settled once, verified only by an attempt that passed.                  *)
THEOREM TaskKeepsPromise == Spec => PromiseSpec
<1>1. Init => Promise!Init
  BY DEF Init, Promise!Init
<1> QED BY <1>1, TaskInvariant, NextKeepsPromise, PTL DEF Spec, PromiseSpec, Promise!Spec
=============================================================================
