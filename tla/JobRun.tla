------------------------------- MODULE JobRun -------------------------------
(***************************************************************************)
(* One job from its creation to its terminal state: the coroutine          *)
(* run_job or run_plan_only (principal/orchestrator/job.py), the tasks its *)
(* waves gather, the handlers of POST /jobs/{id}/cancel                    *)
(* (principal/api/routes.py), the pull request, and a crash of the server. *)
(*                                                                         *)
(* Coroutines switch at awaits only, so an action is what runs between two *)
(* of them: the end of one await and all that follows up to the next.      *)
(* A task is abstracted to how it settles (TaskRun has its inside), the    *)
(* order of the tasks to one gather (WaveRunner has the waves).             *)
(***************************************************************************)
EXTENDS Outcome

CONSTANTS
  Tasks,          \* the task rows the planner and the cleanup can create
  Handlers,       \* calls of the cancel route
  MaxParallel,    \* max_parallel_tasks
  DiscardPercent, \* max_discard_ratio
  Surroundings    \* the sets of faults a job can be run with

(* "raise": run_task can end with an exception.  "crash": the server can   *)
(* stop, once.  "cut": the sandbox can cut an integration run short.       *)
(* "python311": asyncio.wait_for is that of Python 3.11.                   *)
Faults == {"raise", "crash", "cut", "python311"}

ASSUME JobRunAssumption ==
  /\ IsFiniteSet(Tasks)
  /\ MaxParallel \in Nat /\ MaxParallel > 0
  /\ DiscardPercent \in 0..100
  /\ Surroundings \subseteq SUBSET Faults

VARIABLES
  faults,       \* what can go wrong around this job
  server,       \* "fresh", "down" or "restarted"
  dry,          \* the request asked for a dry run
  ungated,      \* bench_accept_without_gates
  phase,        \* the await the coroutine is at
  row,          \* the job row: state, stop_reason, whether pr_url is set
  task,         \* the task rows
  live,         \* the tasks of the gather that have not ended
  stopping,     \* those of them that were cancelled
  gather,       \* what the coroutine waiting for the gather will get
  cancelling,   \* the coroutine was cancelled and has not been told
  handler,      \* the cancel handlers
  checks,       \* the result events of the checks, see TypeOK
  applied,      \* the tasks whose diffs the last integration run applied
  pr,           \* the branch and the pull request at GitHub
  ends,         \* terminal events in the log
  late          \* whether an event follows a terminal one

job == <<faults, server, dry, ungated>>
tasks == <<task, live, stopping, gather>>
api == <<handler>>
log == <<ends, late>>
vars == <<job, phase, row, tasks, cancelling, api, checks, applied, pr, log>>

Finished == {"verified", "discarded", "inconclusive"}
In(states) == {t \in Tasks : task[t] \in states}
Verified == In({"verified"})
Terminal == row.state \in TerminalStates

(* Awaits of a sandbox run, which wait in asyncio.wait_for.                *)
SandboxPhases == {"Baselining", "Characterising", "CleanupExecuting",
                  "Integrating", "Retrying", "Auditing"}
Phases == {"Queued", "Ingesting", "Mapping", "Planning", "Executing", "Waves",
           "CleanupWaves", "Publishing", "Pushing", "over"}
          \cup SandboxPhases

(* The job row and the results, as far as the properties tell them apart.  *)
JobRows ==
  [state : TerminalStates \cup Phases, pr : BOOLEAN,
   reason : {"none", "dry_run", "no_net", "raised", "none_verified",
             "discard_cap", "integration", "conflict", "check", "error",
             "cancelled"}]

Results ==
  [integration : {"none", "pass", "fail"}, cut : BOOLEAN,
   security : {"none", "clean", "introduced"},
   impact : {"none", "clean", "warn", "uncheckable", "defect"},
   strength : {"none", "at_floor", "below_floor", "unavailable"},
   uncovered : BOOLEAN]

NoChecks == [integration |-> "none", cut |-> FALSE, security |-> "none",
             impact |-> "none", strength |-> "none", uncovered |-> FALSE]

Init ==
  /\ faults \in Surroundings
  /\ server = "fresh" /\ dry \in BOOLEAN /\ ungated \in BOOLEAN
  /\ phase = "Queued"
  /\ row = [state |-> "Ingesting", reason |-> "none", pr |-> FALSE]
  /\ task = [t \in Tasks |-> "absent"]
  /\ live = {} /\ stopping = {} /\ gather = "none"
  /\ cancelling = FALSE
  /\ handler = [h \in Handlers |-> "idle"]
  /\ checks = NoChecks
  /\ applied = {} /\ pr = "none"
  /\ ends = 0 /\ late = FALSE

-----------------------------------------------------------------------------
(* The event log, the job row, and how an await ends.                      *)

Emit == /\ late' = (late \/ ends > 0)
        /\ UNCHANGED ends

EmitEnd == /\ late' = (late \/ ends > 0)
           /\ ends' = ends + 1

SetRow(state, reason) == row' = [row EXCEPT !.state = state, !.reason = reason]
SetState(state) == row' = [row EXCEPT !.state = state]

(* The coroutine writes a terminal row and its event in one transaction    *)
(* and returns.                                                            *)
End(state, reason) ==
  /\ SetRow(state, reason)
  /\ EmitEnd
  /\ phase' = "over"

(* The await of the coroutine returns or raises.  A cancelled one is told  *)
(* so instead, unless it is in the wait_for of Python 3.11 with the result *)
(* at hand: then the cancellation is dropped.                              *)
Awake ==
  /\ \/ ~cancelling
     \/ "python311" \in faults /\ phase \in SandboxPhases
  /\ cancelling' = FALSE

(* The coroutine goes from one await to the next, with state the new job   *)
(* state.                                                                  *)
Advance(from, to, state) ==
  /\ phase = from /\ Awake
  /\ phase' = to
  /\ SetState(state)
  /\ Emit

-----------------------------------------------------------------------------
(* From ingestion to the plan.                                             *)

Ingest ==
  /\ Advance("Queued", "Ingesting", "Ingesting")
  /\ UNCHANGED <<job, tasks, api, checks, applied, pr>>

Snapshot ==
  /\ Advance("Ingesting", "Baselining", "Baselining")
  /\ UNCHANGED <<job, tasks, api, checks, applied, pr>>

BaselineGreen ==
  /\ Advance("Baselining", "Mapping", "Mapping")
  /\ UNCHANGED <<job, tasks, api, checks, applied, pr>>

(* The graph is built and the target found.  A target without a covering   *)
(* test is characterised first; a dry run goes on to plan.                 *)
Map ==
  /\ \/ Advance("Mapping", "Planning", "Planning")
     \/ ~dry /\ Advance("Mapping", "Characterising", "Characterising")
  /\ UNCHANGED <<job, tasks, api, checks, applied, pr>>

(* The generated tests are good enough, or the job stops.                  *)
Characterise ==
  /\ \/ Advance("Characterising", "Planning", "Planning")
     \/ /\ phase = "Characterising" /\ Awake
        /\ End("NoSafetyNet", "no_net")
  /\ UNCHANGED <<job, tasks, api, checks, applied, pr>>

(* Mutant of PlanReady: the dry run returns without a terminal state.       *)
PlanReadyDryUnended ==
  /\ phase = "Planning" /\ Awake
  /\ phase' = IF dry THEN "over" ELSE "Executing"
  /\ SetState(IF dry THEN "Planning" ELSE "Executing")
  /\ Emit
  /\ \E plan \in (SUBSET Tasks) \ {{}} :
       task' = [t \in Tasks |-> IF t \in plan THEN "pending" ELSE task[t]]
  /\ UNCHANGED <<job, live, stopping, gather, api, checks, applied, pr>>

PlanReady ==
  /\ \E plan \in (SUBSET Tasks) \ {{}} :
       task' = [t \in Tasks |-> IF t \in plan THEN "pending" ELSE task[t]]
  /\ \/ ~dry /\ Advance("Planning", "Executing", "Executing")
     \/ /\ dry /\ phase = "Planning" /\ Awake
        /\ End("Done", "dry_run")
  /\ UNCHANGED <<job, live, stopping, gather, api, checks, applied, pr>>

-----------------------------------------------------------------------------
(* The waves: a gather of tasks, without return_exceptions.                *)

(* The gather starts with every task of the set created and none begun.    *)
Gather(ts) ==
  /\ live' = ts /\ stopping' = {} /\ gather' = "racing"

(* _execute starts the waves of the plan.                                  *)
Launch ==
  /\ phase = "Executing" /\ Awake
  /\ phase' = "Waves"
  /\ Gather(In({"pending"}))
  /\ UNCHANGED <<job, row, task, api, checks, applied, pr, log>>

InWaves == phase \in {"Waves", "CleanupWaves"}
GatherWaits == gather \in {"racing", "stopping"}

(* What the gather gets from a task that ends: the first that ends with an *)
(* exception or cancelled decides, the others go on by themselves.         *)
Leave(t, how) ==
  /\ live' = live \ {t}
  /\ stopping' = stopping \ {t}
  /\ gather' = IF GatherWaits /\ how # "returned" THEN how
               ELSE IF gather = "stopping" /\ live = {t} THEN "cancelled"
               ELSE gather

(* The task passes the semaphore and begins (run_task).                    *)
StartTask(t) ==
  /\ t \in live \ stopping /\ task[t] = "pending"
  /\ Cardinality(live \cap In({"running"})) < MaxParallel
  /\ task' = [task EXCEPT ![t] = "running"]
  /\ Emit
  /\ UNCHANGED <<job, phase, row, live, stopping, gather, cancelling, api, checks, applied, pr>>

(* It ends verified or discarded.  A cancelled one does so only when the   *)
(* cancellation was dropped inside it.                                     *)
SettleTask(t) ==
  /\ t \in live /\ task[t] = "running"
  /\ t \in stopping => "python311" \in faults
  /\ \E s \in Finished : task' = [task EXCEPT ![t] = s]
  /\ Leave(t, "returned")
  /\ Emit
  /\ UNCHANGED <<job, phase, row, cancelling, api, checks, applied, pr>>

(* It ends with an exception; the row stays as it is.                      *)
RaiseTask(t) ==
  /\ "raise" \in faults
  /\ t \in live /\ task[t] = "running"
  /\ t \in stopping => "python311" \in faults
  /\ Leave(t, "raised")
  /\ UNCHANGED <<job, phase, row, task, cancelling, api, checks, applied, pr, log>>

(* It ends cancelled.  One that had begun records its open attempts.       *)
StopTask(t) ==
  /\ t \in stopping
  /\ Leave(t, "cancelled")
  /\ IF task[t] = "running" THEN Emit ELSE UNCHANGED log
  /\ UNCHANGED <<job, phase, row, task, cancelling, api, checks, applied, pr>>

(* The exception the gather got ends the job; its other tasks live on.     *)
AbortWaves ==
  /\ InWaves /\ gather = "raised" /\ Awake
  /\ gather' = "none"
  /\ End("Aborted", "raised")
  /\ UNCHANGED <<job, task, live, stopping, api, checks, applied, pr>>

(* The gather got the cancellation.                                        *)
CancelWaves ==
  /\ InWaves /\ gather = "cancelled"
  /\ gather' = "none" /\ phase' = "over" /\ cancelling' = FALSE
  /\ UNCHANGED <<job, row, task, live, stopping, api, checks, applied, pr, log>>

-----------------------------------------------------------------------------
(* From the end of the waves to the integration run.                       *)

ExceedsDiscardCap ==
  Cardinality(In({"discarded", "inconclusive"})) * 100
    > DiscardPercent * Cardinality(Tasks \ In({"absent"}))

(* _integrate_and_publish up to the integration run.                       *)
EnterIntegration ==
  /\ gather' = "none"
  /\ \/ /\ Verified = {}
        /\ End("NoPR", "none_verified")
        /\ UNCHANGED applied
     \/ /\ Verified # {}
        /\ phase' = "Integrating" /\ SetState("Integrating")
        /\ applied' = Verified
        /\ Emit

GatherDone(p) ==
  /\ phase = p /\ gather = "racing" /\ live = {} /\ Awake

(* Too many discards stop the job; with orphans found among the verified   *)
(* diffs the cleanup comes first.                                          *)
WavesDone ==
  /\ GatherDone("Waves")
  /\ \/ /\ ExceedsDiscardCap
        /\ gather' = "none"
        /\ End("NoPR", "discard_cap")
        /\ UNCHANGED applied
     \/ /\ ~ExceedsDiscardCap
        /\ EnterIntegration
     \/ /\ ~ExceedsDiscardCap /\ Verified # {}
        /\ gather' = "none" /\ phase' = "CleanupExecuting"
        /\ SetState("CleanupExecuting")
        /\ Emit
        /\ UNCHANGED applied
  /\ UNCHANGED <<job, task, live, stopping, api, checks, pr>>

(* The probe integration of the refactor diffs is green, and the cleanup   *)
(* tasks run on its image; or it is not, and there is no cleanup.          *)
CleanupProbed ==
  /\ phase = "CleanupExecuting" /\ Awake
  /\ \/ \E extra \in (SUBSET In({"absent"})) \ {{}} :
          /\ task' = [t \in Tasks |-> IF t \in extra THEN "pending" ELSE task[t]]
          /\ Gather(extra)
          /\ phase' = "CleanupWaves"
          /\ Emit
          /\ UNCHANGED <<row, applied>>
     \/ /\ EnterIntegration
        /\ UNCHANGED <<task, live, stopping>>
  /\ UNCHANGED <<job, api, checks, pr>>

CleanupDone ==
  /\ GatherDone("CleanupWaves")
  /\ EnterIntegration
  /\ UNCHANGED <<job, task, live, stopping, api, checks, pr>>

-----------------------------------------------------------------------------
(* The integration run and the checks behind it.                           *)

Integrated == phase \in {"Integrating", "Retrying"} /\ Awake

(* The run is not green, in the words of the platform or of the tests; the *)
(* terminal event follows in a transaction of its own.                     *)
IntegrationRed ==
  /\ Integrated
  /\ \E cut \in BOOLEAN :
       /\ cut => "cut" \in faults
       /\ checks' = [checks EXCEPT !.integration = "fail", !.cut = cut]
  /\ End("NoPR", "integration")
  /\ UNCHANGED <<job, tasks, api, applied, pr>>

(* Mutant of IntegrationConflict: the dropped diff stays in the list.      *)
IntegrationConflictKept ==
  /\ phase = "Integrating" /\ Awake
  /\ \E t \in applied : task' = [task EXCEPT ![t] = "discarded"]
  /\ phase' = "Retrying"
  /\ Emit
  /\ UNCHANGED <<job, row, live, stopping, gather, api, checks, applied, pr>>

(* One diff does not apply over the ones before it: it is dropped, once,   *)
(* and the rest run again.                                                 *)
IntegrationConflict ==
  /\ phase = "Integrating" /\ Awake
  /\ \E t \in applied :
       /\ task' = [task EXCEPT ![t] = "discarded"]
       /\ applied' = applied \ {t}
       /\ \/ /\ applied = {t}
             /\ End("NoPR", "conflict")
          \/ /\ applied # {t}
             /\ phase' = "Retrying"
             /\ Emit /\ UNCHANGED row
  /\ UNCHANGED <<job, live, stopping, gather, api, checks, pr>>

(* The checks that need no await, in order: behaviour, security, impact.   *)
(* A record of results, and where they lead.                               *)
CheckResults ==
  {c \in [integration : {"pass", "fail"}, cut : {FALSE},
          security : {"none", "clean", "introduced"},
          impact : {"none", "clean", "warn", "uncheckable", "defect"},
          strength : {"none"}, uncovered : BOOLEAN] :
     /\ c.security = "none" <=> c.integration = "fail"
     /\ c.impact = "none" <=> (c.security # "clean" \/ ungated)}

Blocked(c) ==
  \/ c.integration = "fail"
  \/ c.security = "introduced"
  \/ c.impact \in {"uncheckable", "defect"}

IntegrationGreen ==
  /\ Integrated
  /\ \E c \in CheckResults :
       /\ checks' = c
       /\ \/ /\ Blocked(c)
             /\ End("NoPR", "check")
          \/ /\ ~Blocked(c) /\ ~ungated
             /\ phase' = "Auditing"
             /\ Emit /\ UNCHANGED row
          \/ /\ ~Blocked(c)
             /\ phase' = "Publishing" /\ SetState("Publishing")
             /\ Emit
  /\ UNCHANGED <<job, tasks, api, applied, pr>>

AuditDone ==
  /\ Advance("Auditing", "Publishing", "Publishing")
  /\ \E s \in {"at_floor", "below_floor", "unavailable"} :
       checks' = [checks EXCEPT !.strength = s]
  /\ UNCHANGED <<job, tasks, api, applied, pr>>

-----------------------------------------------------------------------------
(* Publishing.                                                             *)

(* The report is written.  An ungated run ends here; the other opens the   *)
(* pull request, or has no repository to open it in.                       *)
ReportDone ==
  /\ phase = "Publishing" /\ Awake
  /\ \/ End("Done", "none")
     \/ /\ ~ungated
        /\ phase' = "Pushing"
        /\ UNCHANGED <<row, log>>
  /\ UNCHANGED <<job, tasks, api, checks, applied, pr>>

(* git pushes the branch, and GitHub opens the pull request, while the     *)
(* coroutine waits for the answer.                                         *)
GitHub ==
  /\ phase = "Pushing"
  /\ \/ pr = "none" /\ pr' = "pushed"
     \/ pr = "pushed" /\ pr' = "opened"
  /\ UNCHANGED <<job, phase, row, tasks, cancelling, api, checks, applied, log>>

(* The answer: the link first, then Done.                                  *)
PullRequestOpened ==
  /\ phase = "Pushing" /\ pr = "opened" /\ Awake
  /\ row' = [row EXCEPT !.state = "Done", !.pr = TRUE]
  /\ EmitEnd
  /\ phase' = "over"
  /\ UNCHANGED <<job, tasks, api, checks, applied, pr>>

(* git or GitHub refused: Done without a link.                             *)
PublishFailed ==
  /\ phase = "Pushing" /\ pr # "opened" /\ Awake
  /\ End("Done", "none")
  /\ UNCHANGED <<job, tasks, api, checks, applied, pr>>

-----------------------------------------------------------------------------
(* An exception at an await, the end of a cancelled coroutine, the cancel  *)
(* route, and the crash.                                                   *)

(* run_job and run_plan_only turn every exception into Aborted.  The       *)
(* report is the one await that cannot raise.                              *)
Abort ==
  /\ phase \in Phases \ {"Queued", "Waves", "CleanupWaves", "Publishing", "over"}
  /\ Awake
  /\ End("Aborted", "error")
  /\ UNCHANGED <<job, tasks, api, checks, applied, pr>>

(* The coroutine is told, and no handler of run_job catches it.            *)
Unwind ==
  /\ phase # "over" /\ cancelling
  /\ phase' = "over" /\ cancelling' = FALSE /\ gather' = "none"
  /\ UNCHANGED <<job, row, task, live, stopping, api, checks, applied, pr, log>>

(* Mutant of CancelTask: the coroutine is left running.                    *)
CancelTaskNothing == UNCHANGED <<stopping, gather, cancelling>>

(* task.cancel(): a gather that waits passes it on to its tasks.           *)
CancelTask ==
  IF InWaves /\ GatherWaits /\ live # {}
    THEN /\ stopping' = live /\ gather' = "stopping"
         /\ UNCHANGED cancelling
    ELSE /\ cancelling' = (phase # "over")
         /\ UNCHANGED <<stopping, gather>>

WriteCancelled ==
  /\ SetRow("NoPR", "cancelled")
  /\ EmitEnd

(* The route refuses a finished job, cancels the coroutine, and cancels    *)
(* the operations of its open attempts, if any, before it writes.          *)
Cancel(h) ==
  /\ server # "down" /\ handler[h] = "idle"
  /\ ~Terminal
  /\ CancelTask
  /\ \/ /\ In({"running"}) # {}
        /\ handler' = [handler EXCEPT ![h] = "waiting"]
        /\ UNCHANGED <<row, log>>
     \/ /\ handler' = [handler EXCEPT ![h] = "answered"]
        /\ WriteCancelled
  /\ UNCHANGED <<job, phase, task, live, checks, applied, pr>>

(* Mutant of CancelWrites: an operation that cannot be cancelled ends the  *)
(* handler.                                                                *)
CancelWritesOrFails(h) ==
  /\ handler[h] = "waiting"
  /\ handler' = [handler EXCEPT ![h] = "answered"]
  /\ WriteCancelled \/ UNCHANGED <<row, log>>
  /\ UNCHANGED <<job, phase, tasks, cancelling, checks, applied, pr>>

CancelWrites(h) ==
  /\ handler[h] = "waiting"
  /\ handler' = [handler EXCEPT ![h] = "answered"]
  /\ WriteCancelled
  /\ UNCHANGED <<job, phase, tasks, cancelling, checks, applied, pr>>

(* Everything but the database and GitHub is lost.                         *)
Stop ==
  /\ "crash" \in faults /\ server = "fresh"
  /\ server' = "down" /\ UNCHANGED <<faults, dry, ungated>>
  /\ phase' = "over" /\ cancelling' = FALSE
  /\ live' = {} /\ stopping' = {} /\ gather' = "none" /\ UNCHANGED task
  /\ handler' = [h \in Handlers |->
                   IF handler[h] = "waiting" THEN "answered" ELSE handler[h]]

Crash ==
  /\ Stop
  /\ UNCHANGED <<row, checks, applied, pr, log>>

(* Between the two transactions of a red integration run.                  *)
CrashBeforeEnd ==
  /\ Integrated /\ Stop
  /\ checks' = [checks EXCEPT !.integration = "fail"]
  /\ SetRow("NoPR", "integration")
  /\ Emit
  /\ UNCHANGED <<applied, pr>>

(* The server comes back; nothing resumes the job.                         *)
Restart ==
  /\ server = "down"
  /\ server' = "restarted"
  /\ UNCHANGED <<faults, dry, ungated, phase, row, tasks, cancelling, api, checks, applied, pr, log>>

-----------------------------------------------------------------------------
Coroutine ==
  \/ Ingest \/ Snapshot \/ BaselineGreen \/ Map \/ Characterise \/ PlanReady
  \/ Launch \/ AbortWaves \/ CancelWaves \/ WavesDone
  \/ CleanupProbed \/ CleanupDone
  \/ IntegrationRed \/ IntegrationConflict \/ IntegrationGreen \/ AuditDone
  \/ ReportDone \/ PullRequestOpened \/ PublishFailed
  \/ Abort \/ Unwind

TaskStep(t) == StartTask(t) \/ SettleTask(t) \/ RaiseTask(t) \/ StopTask(t)

Next ==
  \/ Coroutine
  \/ \E t \in Tasks : TaskStep(t)
  \/ \E h \in Handlers : Cancel(h) \/ CancelWrites(h)
  \/ GitHub
  \/ Crash \/ CrashBeforeEnd \/ Restart

Spec == Init /\ [][Next]_vars

(* Every await ends: model calls, sandbox runs and tasks have timeouts,    *)
(* and git and the cancelled operations are taken to answer.               *)
FairSpec ==
  /\ Spec
  /\ WF_vars(Coroutine) /\ WF_vars(GitHub)
  /\ \A t \in Tasks : WF_vars(TaskStep(t))
  /\ \A h \in Handlers : WF_vars(CancelWrites(h))

-----------------------------------------------------------------------------
(* Properties.                                                             *)

TypeOK ==
  /\ faults \in SUBSET Faults
  /\ server \in {"fresh", "down", "restarted"}
  /\ dry \in BOOLEAN /\ ungated \in BOOLEAN
  /\ phase \in Phases
  /\ row \in JobRows
  /\ task \in [Tasks -> {"absent", "pending", "running"} \cup Finished]
  /\ live \subseteq Tasks /\ stopping \subseteq live
  /\ gather \in {"none", "racing", "stopping", "raised", "cancelled"}
  /\ gather # "none" => InWaves
  /\ cancelling \in BOOLEAN
  /\ handler \in [Handlers -> {"idle", "waiting", "answered"}]
  /\ checks \in Results
  /\ applied \subseteq Tasks
  /\ pr \in {"none", "pushed", "opened"}
  /\ ends \in Nat /\ late \in BOOLEAN

(* A job that has ended keeps its state, reason and link: neither a cancel *)
(* nor what is left of the coroutine rewrites them (routes.py refuses a    *)
(* finished job, and stops the coroutine before it writes).  Python 3.11   *)
(* can drop the cancellation, and then the coroutine does.                 *)
EndStands ==
  [][Terminal /\ "python311" \notin faults => row' = row]_vars

(* A job row that is terminal has its terminal event, or a client's stream *)
(* never ends (stream.py knows the end by the event, not by the row).  A   *)
(* crash can come between the two.                                         *)
EndAnnounced == Terminal /\ "crash" \notin faults => ends > 0

(* Done is the last event: the stream closes at it, and what is written    *)
(* after it reaches no client (_finish_done).                              *)
DoneIsLast == row.state = "Done" /\ "python311" \notin faults => ~late

(* When the job has ended by itself none of its tasks still runs, spends   *)
(* tokens or holds sandbox operations (docs/SPEC.md:91 "Drains in-flight   *)
(* work, then aborts").                                                    *)
TasksDrained == Terminal /\ row.reason # "cancelled" => live = {}

(* So it is unless a task raised.                                          *)
NothingOutlivesEnd == "raise" \notin faults => TasksDrained

(* The end of a job is one: announced, the last word, not rewritten, and   *)
(* nothing of the job runs on.                                             *)
EndIsFinal == EndStands /\ [](EndAnnounced /\ DoneIsLast /\ NothingOutlivesEnd)

(* What goes to GitHub is what the last integration run applied, all the   *)
(* tasks the job calls verified, after every check passed; a dry or an     *)
(* ungated run pushes nothing.                                             *)
PublishedIsTested ==
  pr # "none" =>
    /\ ~dry /\ ~ungated
    /\ checks.integration = "pass" /\ ~Blocked(checks)
    /\ applied # {} /\ applied = Verified

Signals ==
  [state |-> row.state, reason |-> row.reason,
   verified |-> Verified,
   discarded |-> In({"discarded", "inconclusive"}),
   inconclusive |-> In({"inconclusive"}),
   integration |-> checks.integration, security |-> checks.security,
   impact |-> checks.impact, strength |-> checks.strength,
   uncovered |-> checks.uncovered]

Result == Classify(Signals)

(* VERIFIED is said of a run only when every task it created, the cleanup  *)
(* ones included, was in the integration run that passed.                  *)
VerifiedIsWhole ==
  Result = "VERIFIED" =>
    /\ applied = Tasks \ In({"absent"})
    /\ checks.integration = "pass" /\ ~Blocked(checks)

(* Not so (README, disagreements): FAILED is said of a patch only after a  *)
(* check that ran to its end said no (runner.py:49-50, of a run the        *)
(* platform cut short: "nothing downstream may count it as RED").          *)
FailedOnVerdict == Result = "FAILED" => Blocked(checks) /\ ~checks.cut

(* So it is while the platform cuts no integration run short.              *)
FailedIsKnown == "cut" \notin faults => FailedOnVerdict

(* Neither verdict is given away.                                          *)
VerdictIsEarned == VerifiedIsWhole /\ FailedIsKnown

(* Every job ends and stays so, unless the server stops: whatever raises,  *)
(* is cut short or is cancelled (run_job's handlers write the end).        *)
JobEnds == "crash" \notin faults => <>[]Terminal

(* A cancel that was accepted ends the job as cancelled.                   *)
CancelTakes ==
  \A h \in Handlers :
    handler[h] = "waiting" /\ "crash" \notin faults ~> row.reason = "cancelled"
=============================================================================
