----------------------------- MODULE JobProofs -----------------------------
(***************************************************************************)
(* Proofs about the job pipeline (principal/orchestrator/job.py), for any  *)
(* tasks, cancels and surroundings: one job from its creation to its end   *)
(* (JobRun), and the test rows that the jobs of one commit share           *)
(* (SafetyNet).                                                            *)
(*                                                                         *)
(* The invariant of JobRun says what the coroutine may rely on at each     *)
(* await.  RowsFit: which tasks are open and which of them the gather      *)
(* still holds.  TestedFirst: past the integration run the diffs applied   *)
(* are those called verified.  EndedByItself: what the coroutine ended is  *)
(* over.  CancelHolds: once the row is terminal, or a handler waits to     *)
(* make it so, the coroutine writes no more; this is what a dropped        *)
(* cancellation breaks.  OneEnd: the log has an end when the row has.      *)
(***************************************************************************)
EXTENDS JobRun, SafetyNet, TLAPS

Ahead == {"Queued", "Ingesting", "Baselining", "Mapping", "Characterising",
          "Planning"}
Behind == {"Integrating", "Retrying", "Auditing", "Publishing", "Pushing"}

Open == In({"pending", "running"})

RowsFit ==
  /\ phase \in Ahead => live = {} /\ In({"absent"}) = Tasks
  /\ phase = "Executing" => live = {} /\ In({"running"}) = {}
  /\ phase \in Behind \cup {"CleanupExecuting"} => live = {} /\ Open = {}
  /\ gather = "racing" => Open \subseteq live /\ stopping = {}
  /\ gather = "raised" => "raise" \in faults
  /\ InWaves => gather # "none"
  /\ dry => phase \in Ahead \cup {"over"}
  /\ phase \in {"Auditing", "Pushing"} => ~ungated

Tested ==
  /\ checks.integration = "pass" /\ ~Blocked(checks)
  /\ applied = Verified /\ applied # {} /\ Open = {}

TestedFirst ==
  /\ phase \in {"Integrating", "Retrying"} => applied = Verified /\ applied # {}
  /\ phase \in {"Auditing", "Publishing", "Pushing"} => Tested
  /\ pr # "none" =>
       phase \in {"Pushing", "over"} /\ live = {} /\ ~dry /\ ~ungated /\ Tested
  /\ row.state = "Done" =>
       phase = "over" /\ live = {} /\ (row.reason # "dry_run" => Tested)

EndedByItself ==
  /\ Terminal /\ row.reason # "cancelled" =>
       phase = "over" /\ ("raise" \notin faults => live = {})
  /\ "cut" \notin faults => ~checks.cut

Waiting == \E h \in Handlers : handler[h] = "waiting"

(* The coroutine is over, or the next thing it hears is the cancellation.  *)
Doomed ==
  \/ phase = "over" \/ cancelling
  \/ InWaves /\ (gather = "cancelled" \/ (gather = "stopping" /\ stopping = live))

CancelHolds ==
  "python311" \notin faults =>
    /\ Terminal \/ Waiting => Doomed
    /\ Waiting /\ Terminal => row.state = "NoPR" /\ row.reason = "cancelled"

OneEnd ==
  /\ late => ends > 0
  /\ EndAnnounced
  /\ "python311" \notin faults => (ends > 0 => Terminal)
  /\ DoneIsLast

Inv == TypeOK /\ RowsFit /\ TestedFirst /\ EndedByItself /\ CancelHolds /\ OneEnd

-----------------------------------------------------------------------------
LEMMA InitInv == Init => Inv
<1> SUFFICES ASSUME Init PROVE Inv OBVIOUS
<1> USE DEF Init
<1>1. TypeOK
  BY JobRunAssumption DEF TypeOK, JobRows, Results, NoChecks, Phases, InWaves
<1>2. RowsFit BY DEF RowsFit, Ahead, Behind, Open, In, InWaves
<1>3. TestedFirst BY DEF TestedFirst
<1>4. EndedByItself BY DEF EndedByItself, Terminal, TerminalStates, NoChecks
<1>5. CancelHolds BY DEF CancelHolds, Waiting, Terminal, TerminalStates
<1>6. OneEnd BY DEF OneEnd, EndAnnounced, DoneIsLast, Terminal, TerminalStates
<1> QED BY <1>1, <1>2, <1>3, <1>4, <1>5, <1>6 DEF Inv

-----------------------------------------------------------------------------
(* Types, a variable or two at a time.                                     *)

LEMMA RowType == ASSUME TypeOK, Next PROVE row' \in JobRows
<1> USE DEF SetRow, SetState, End, Advance
<1>1. CASE Ingest \/ Snapshot \/ BaselineGreen \/ Map \/ Characterise \/ PlanReady
  BY <1>1 DEF TypeOK, JobRows, Phases, SandboxPhases, TerminalStates,
     Ingest, Snapshot, BaselineGreen, Map, Characterise, PlanReady
<1>2. CASE Launch \/ AbortWaves \/ CancelWaves \/ WavesDone \/ CleanupProbed \/ CleanupDone
  BY <1>2 DEF TypeOK, JobRows, Phases, SandboxPhases, TerminalStates,
     Launch, AbortWaves, CancelWaves, WavesDone, CleanupProbed, CleanupDone,
     EnterIntegration
<1>3. CASE \/ IntegrationRed \/ IntegrationConflict \/ IntegrationGreen \/ AuditDone
           \/ ReportDone \/ PullRequestOpened \/ PublishFailed \/ Abort \/ Unwind
  BY <1>3 DEF TypeOK, JobRows, Phases, SandboxPhases, TerminalStates,
     IntegrationRed, IntegrationConflict, IntegrationGreen, AuditDone,
     ReportDone, PullRequestOpened, PublishFailed, Abort, Unwind
<1>4. CASE \E t \in Tasks : TaskStep(t)
  BY <1>4 DEF TypeOK, TaskStep, StartTask, SettleTask, RaiseTask, StopTask
<1>5. CASE \E h \in Handlers : Cancel(h) \/ CancelWrites(h)
  BY <1>5 DEF TypeOK, JobRows, TerminalStates, Cancel, CancelWrites, WriteCancelled
<1>6. CASE GitHub \/ Crash \/ CrashBeforeEnd \/ Restart
  BY <1>6 DEF TypeOK, JobRows, TerminalStates, GitHub, Crash, CrashBeforeEnd, Restart
<1> QED BY <1>1, <1>2, <1>3, <1>4, <1>5, <1>6 DEF Next, Coroutine

(* Every event is written with the flag that says whether it comes late.   *)
LEMMA LogStep == ASSUME Next PROVE Emit \/ EmitEnd \/ UNCHANGED log
BY DEF Next, Coroutine, TaskStep, Advance, End, WriteCancelled, EnterIntegration,
   Ingest, Snapshot, BaselineGreen, Map, Characterise, PlanReady, Launch, AbortWaves,
   CancelWaves, WavesDone, CleanupProbed, CleanupDone, IntegrationRed,
   IntegrationConflict, IntegrationGreen, AuditDone, ReportDone, PullRequestOpened,
   PublishFailed, Abort, Unwind, GitHub, Crash, CrashBeforeEnd, Restart, StartTask,
   SettleTask, RaiseTask, StopTask, Cancel, CancelWrites, log

LEMMA LogType == ASSUME TypeOK, Next PROVE ends' \in Nat /\ late' \in BOOLEAN
<1>1. CASE Emit BY <1>1 DEF Emit, TypeOK
<1>2. CASE EmitEnd BY <1>2 DEF EmitEnd, TypeOK
<1>3. CASE UNCHANGED log BY <1>3 DEF log, TypeOK
<1> QED BY <1>1, <1>2, <1>3, LogStep

LEMMA ChecksType == ASSUME TypeOK, Next PROVE checks' \in Results
<1>1. CASE IntegrationRed
  BY <1>1 DEF IntegrationRed, TypeOK, Results
<1>2. CASE IntegrationGreen
  BY <1>2 DEF IntegrationGreen, CheckResults, Results
<1>3. CASE AuditDone
  BY <1>3 DEF AuditDone, TypeOK, Results
<1>4. CASE CrashBeforeEnd
  BY <1>4 DEF CrashBeforeEnd, TypeOK, Results
<1>5. CASE UNCHANGED checks
  BY <1>5 DEF TypeOK
<1> QED
  BY <1>1, <1>2, <1>3, <1>4, <1>5 DEF Next, Coroutine, TaskStep,
     Ingest, Snapshot, BaselineGreen, Map, Characterise, PlanReady, Launch, AbortWaves,
     CancelWaves, WavesDone, CleanupProbed, CleanupDone, IntegrationConflict, ReportDone,
     PullRequestOpened, PublishFailed, Abort, Unwind, GitHub, Crash, Restart, StartTask,
     SettleTask, RaiseTask, StopTask, Cancel, CancelWrites

(* What the gather gets is one of its answers, and leaving it takes a task *)
(* from both sets.                                                         *)
LEMMA LeaveShape ==
  ASSUME TypeOK, NEW t \in Tasks, NEW how \in {"returned", "raised", "cancelled"},
         Leave(t, how)
  PROVE  /\ live' = live \ {t} /\ stopping' = stopping \ {t}
         /\ gather' \in {"none", "racing", "stopping", "raised", "cancelled"}
         /\ gather' = "none" <=> gather = "none"
         /\ gather' = "racing" => gather = "racing" /\ how = "returned"
         /\ gather' = "stopping" => gather = "stopping"
         /\ gather \in {"raised", "cancelled"} => gather' = gather
         /\ gather' = "raised" => gather = "raised" \/ how = "raised"
BY DEF Leave, TypeOK, GatherWaits

LEMMA TypeKept == ASSUME TypeOK, [Next]_vars PROVE TypeOK'
<1>0. CASE UNCHANGED vars
  BY <1>0 DEF TypeOK, vars, job, tasks, api, log, InWaves
<1> SUFFICES ASSUME Next PROVE TypeOK'
  BY <1>0
<1> USE DEF TypeOK, Next, Coroutine, TaskStep, Advance, End, job, tasks, api,
    Ingest, Snapshot, BaselineGreen, Map, Characterise, PlanReady, Launch, AbortWaves,
    CancelWaves, WavesDone, CleanupProbed, CleanupDone, IntegrationRed,
    IntegrationConflict, IntegrationGreen, AuditDone, ReportDone, PullRequestOpened,
    PublishFailed, Abort, Unwind, GitHub, Crash, CrashBeforeEnd, Restart, StartTask,
    SettleTask, RaiseTask, StopTask, Cancel, CancelWrites, Stop, EnterIntegration
<1>1. /\ faults' \in SUBSET Faults /\ server' \in {"fresh", "down", "restarted"}
      /\ dry' \in BOOLEAN /\ ungated' \in BOOLEAN
  OBVIOUS
<1>2. phase' \in Phases
  BY DEF Phases, SandboxPhases
<1>3. task' \in [Tasks -> {"absent", "pending", "running"} \cup Finished]
  BY DEF Finished, In
<1>4. live' \subseteq Tasks /\ stopping' \subseteq live'
  BY DEF Gather, GatherDone, Leave, CancelTask, In
<1>5. gather' \in {"none", "racing", "stopping", "raised", "cancelled"}
  BY DEF Gather, Leave, CancelTask
<1>6. gather' # "none" => InWaves'
  BY DEF Gather, GatherDone, GatherWaits, Leave, CancelTask, InWaves, Integrated,
     SandboxPhases, Phases
<1>7. cancelling' \in BOOLEAN
  BY DEF Awake, Integrated, GatherDone, CancelTask
<1>8. handler' \in [Handlers -> {"idle", "waiting", "answered"}]
  OBVIOUS
<1>9. applied' \subseteq Tasks /\ pr' \in {"none", "pushed", "opened"}
  BY DEF Verified, In
<1> QED
  BY <1>1, <1>2, <1>3, <1>4, <1>5, <1>6, <1>7, <1>8, <1>9, RowType, ChecksType, LogType
  DEF TypeOK

-----------------------------------------------------------------------------
(* The parts of the invariant, each over every step.                       *)

LEMMA RowsFitKept == ASSUME Inv, Next PROVE RowsFit'
<1> USE DEF Inv, RowsFit, InWaves, job, tasks
<1>1. CASE Ingest \/ Snapshot \/ BaselineGreen \/ Map \/ Characterise
  BY <1>1 DEF Ingest, Snapshot, BaselineGreen, Map, Characterise, Advance, End,
     Ahead, Behind, Open, In
<1>2. CASE PlanReady
  BY <1>2 DEF PlanReady, Advance, End, TypeOK, Ahead, Behind, Open, In
<1>3. CASE Launch
  BY <1>3 DEF Launch, Gather, Ahead, Behind, Open, In
<1>4. CASE AbortWaves \/ CancelWaves
  BY <1>4 DEF AbortWaves, CancelWaves, End, Ahead, Behind, Open, In
<1>5. CASE WavesDone \/ CleanupDone
  BY <1>5 DEF WavesDone, CleanupDone, GatherDone, EnterIntegration, End, Ahead, Behind, Open, In
<1>6. CASE CleanupProbed
  BY <1>6 DEF CleanupProbed, Gather, EnterIntegration, End, TypeOK, Ahead, Behind, Open, In
<1>7. CASE IntegrationConflict
  BY <1>7 DEF IntegrationConflict, End, TypeOK, Ahead, Behind, Open, In
<1>8a. CASE IntegrationRed \/ AuditDone
  <2>1. phase' \in {"over", "Publishing"} /\ phase \in Behind
    BY <1>8a DEF IntegrationRed, AuditDone, Integrated, Advance, End, Behind
  <2>2. UNCHANGED <<faults, dry, ungated, task, live, stopping, gather>>
    BY <1>8a DEF IntegrationRed, AuditDone
  <2> QED BY <2>1, <2>2 DEF TypeOK, Ahead, Behind, Open, In
<1>8. CASE IntegrationGreen
  <2>1. phase' \in {"over", "Publishing"} \/ (phase' = "Auditing" /\ ~ungated)
    BY <1>8 DEF IntegrationGreen, End
  <2> QED
    BY <1>8, <2>1 DEF IntegrationGreen, Integrated, TypeOK, Ahead, Behind, Open, In
<1>9. CASE ReportDone \/ PullRequestOpened \/ PublishFailed \/ Abort \/ Unwind
  BY <1>9 DEF ReportDone, PullRequestOpened, PublishFailed, Abort, Unwind, End,
     TypeOK, Ahead, Behind, Open, In
<1>10. ASSUME NEW t \in Tasks, TaskStep(t) PROVE RowsFit'
  <2>1. CASE StartTask(t)
    BY <2>1 DEF StartTask, TypeOK, Ahead, Behind, Open, In
  <2>2. CASE SettleTask(t)
    BY <2>2, LeaveShape DEF SettleTask, TypeOK, Finished, Ahead, Behind, Open, In
  <2>3. CASE RaiseTask(t)
    BY <2>3, LeaveShape DEF RaiseTask, TypeOK, Ahead, Behind, Open, In
  <2>4. CASE StopTask(t)
    BY <2>4, LeaveShape DEF StopTask, TypeOK, Ahead, Behind, Open, In
  <2> QED BY <1>10, <2>1, <2>2, <2>3, <2>4 DEF TaskStep
<1>11. CASE \E h \in Handlers : Cancel(h) \/ CancelWrites(h)
  BY <1>11 DEF Cancel, CancelWrites, CancelTask, Ahead, Behind, Open, In
<1>12. CASE GitHub \/ Crash \/ CrashBeforeEnd \/ Restart
  BY <1>12 DEF GitHub, Crash, CrashBeforeEnd, Restart, Stop, Ahead, Behind, Open, In
<1> QED
  BY <1>1, <1>2, <1>3, <1>4, <1>5, <1>6, <1>7, <1>8, <1>8a, <1>9, <1>10, <1>11, <1>12
  DEF Next, Coroutine

(* The results and the diffs of a tested change stay while the coroutine   *)
(* is past them, for then no task of the job is live.                      *)
LEMMA TestedFirstKept == ASSUME Inv, Next PROVE TestedFirst'
<1> USE DEF Inv, TestedFirst, Tested, Verified, Open, In, TypeOK, JobRows, Phases,
    SandboxPhases, TerminalStates, job, tasks
<1>1. CASE Ingest \/ Snapshot \/ BaselineGreen \/ Map \/ Characterise
  BY <1>1 DEF Ingest, Snapshot, BaselineGreen, Map, Characterise, Advance, End,
     SetState, SetRow
<1>2. CASE PlanReady
  BY <1>2 DEF PlanReady, Advance, End, SetState, SetRow, RowsFit, Ahead
<1>3. CASE Launch \/ AbortWaves \/ CancelWaves
  BY <1>3 DEF Launch, AbortWaves, CancelWaves, InWaves, End, SetRow
<1>4. CASE WavesDone \/ CleanupDone
  BY <1>4 DEF WavesDone, CleanupDone, GatherDone, EnterIntegration, End, SetState, SetRow
<1>5. CASE CleanupProbed
  BY <1>5 DEF CleanupProbed, Gather, EnterIntegration, End, SetState, SetRow
<1>6. CASE IntegrationConflict
  <2>1. PICK t \in applied :
          /\ task' = [task EXCEPT ![t] = "discarded"]
          /\ applied' = applied \ {t}
          /\ \/ phase' = "over" /\ row'.state = "NoPR"
             \/ phase' = "Retrying" /\ row' = row /\ applied # {t}
    BY <1>6 DEF IntegrationConflict, End, SetRow
  <2>2. phase = "Integrating" /\ pr' = "none" /\ row.state # "Done"
    BY <1>6 DEF IntegrationConflict
  <2>3. applied' = Verified'
    BY <2>1, <2>2
  <2> QED BY <2>1, <2>2, <2>3
<1>7. CASE IntegrationRed
  BY <1>7 DEF IntegrationRed, Integrated, End, SetRow
<1>8. CASE IntegrationGreen
  <2>1. PICK c \in CheckResults :
          /\ checks' = c
          /\ \/ row'.state = "NoPR" /\ phase' = "over"
             \/ /\ ~Blocked(c) /\ phase' \in {"Auditing", "Publishing"}
                /\ row'.state # "Done"
    BY <1>8 DEF IntegrationGreen, Integrated, End, SetState, SetRow
  <2>2. ~Blocked(c) => c.integration = "pass"
    BY DEF CheckResults, Blocked
  <2> QED BY <1>8, <2>1, <2>2 DEF IntegrationGreen, Integrated, RowsFit, Behind
<1>9. CASE AuditDone
  BY <1>9 DEF AuditDone, Advance, SetState, Blocked, Results
<1>10. CASE ReportDone \/ PullRequestOpened \/ PublishFailed
  BY <1>10 DEF ReportDone, PullRequestOpened, PublishFailed, End, SetRow, RowsFit, Ahead, Behind
<1>11. CASE Abort \/ Unwind
  <2>1. UNCHANGED <<job, task, live, checks, applied, pr>> /\ phase' = "over"
    BY <1>11 DEF Abort, Unwind, End
  <2>2. row'.state = "Done" => row.state = "Done" /\ phase # "over"
    BY <1>11 DEF Abort, Unwind, End, SetRow
  <2>3. pr # "none" => live = {} /\ ~dry /\ ~ungated /\ Tested
    OBVIOUS
  <2> QED BY <2>1, <2>2, <2>3
<1>12. ASSUME NEW t \in Tasks, TaskStep(t) PROVE TestedFirst'
  <2>1. CASE StartTask(t)
    BY <2>1 DEF StartTask, RowsFit, Behind
  <2>2. CASE SettleTask(t)
    BY <2>2, LeaveShape DEF SettleTask, RowsFit, Behind
  <2>3. CASE RaiseTask(t) \/ StopTask(t)
    BY <2>3, LeaveShape DEF RaiseTask, StopTask
  <2> QED BY <1>12, <2>1, <2>2, <2>3 DEF TaskStep
<1>13. ASSUME NEW h \in Handlers, Cancel(h) \/ CancelWrites(h) PROVE TestedFirst'
  <2>1. row' = row \/ row'.state = "NoPR"
    BY <1>13 DEF Cancel, CancelWrites, WriteCancelled, SetRow
  <2> QED BY <1>13, <2>1 DEF Cancel, CancelWrites
<1>14. CASE GitHub \/ Restart
  BY <1>14 DEF GitHub, Restart, RowsFit, Ahead, Behind
<1>15. CASE Crash
  BY <1>15 DEF Crash, Stop
<1>16. CASE CrashBeforeEnd
  BY <1>16 DEF CrashBeforeEnd, Stop, Integrated, SetRow
<1> QED
  BY <1>1, <1>2, <1>3, <1>4, <1>5, <1>6, <1>7, <1>8, <1>9, <1>10, <1>11, <1>12, <1>13,
     <1>14, <1>15, <1>16
  DEF Next, Coroutine

(* A job that the coroutine ended is over, and its tasks have ended unless *)
(* one of them raised.                                                     *)
LEMMA EndedByItselfKept == ASSUME Inv, Next PROVE EndedByItself'
<1> USE DEF Inv, EndedByItself, Terminal, TerminalStates, TypeOK, JobRows, job, tasks
<1>1. "cut" \notin faults' => ~checks'.cut
  <2>1. CASE IntegrationRed
    BY <2>1 DEF IntegrationRed, Results
  <2>2. CASE IntegrationGreen
    BY <2>2 DEF IntegrationGreen, CheckResults
  <2>3. CASE AuditDone
    BY <2>3 DEF AuditDone, Results
  <2>4. CASE CrashBeforeEnd
    BY <2>4 DEF CrashBeforeEnd, Stop, Results
  <2>5. CASE UNCHANGED <<faults, checks>>
    BY <2>5
  <2> QED
    BY <2>1, <2>2, <2>3, <2>4, <2>5 DEF Next, Coroutine, TaskStep,
       Ingest, Snapshot, BaselineGreen, Map, Characterise, PlanReady, Launch, AbortWaves,
       CancelWaves, WavesDone, CleanupProbed, CleanupDone, IntegrationConflict, ReportDone,
       PullRequestOpened, PublishFailed, Abort, Unwind, GitHub, Crash, Restart, Stop,
       StartTask, SettleTask, RaiseTask, StopTask, Cancel, CancelWrites
<1> SUFFICES ASSUME Terminal', row'.reason # "cancelled"
             PROVE  phase' = "over" /\ ("raise" \notin faults' => live' = {})
  BY <1>1 DEF EndedByItself
<1>2. CASE Ingest \/ Snapshot \/ BaselineGreen \/ Map \/ Characterise
  BY <1>2 DEF Ingest, Snapshot, BaselineGreen, Map, Characterise, Advance, End,
     SetState, SetRow, RowsFit, Ahead
<1>3. CASE PlanReady
  BY <1>3 DEF PlanReady, Advance, End, SetState, RowsFit, Ahead
<1>4. CASE Launch \/ AbortWaves \/ CancelWaves
  BY <1>4 DEF Launch, AbortWaves, CancelWaves, End, InWaves, RowsFit
<1>5. CASE WavesDone \/ CleanupDone
  BY <1>5 DEF WavesDone, CleanupDone, GatherDone, EnterIntegration, End, SetState
<1>6. CASE CleanupProbed
  BY <1>6 DEF CleanupProbed, EnterIntegration, End, SetState, RowsFit
<1>7. CASE IntegrationRed \/ IntegrationConflict
  BY <1>7 DEF IntegrationRed, IntegrationConflict, Integrated, End, RowsFit, Behind
<1>8. CASE IntegrationGreen \/ AuditDone
  BY <1>8 DEF IntegrationGreen, AuditDone, Integrated, Advance, End, SetState, RowsFit, Behind
<1>9. CASE ReportDone \/ PullRequestOpened \/ PublishFailed
  BY <1>9 DEF ReportDone, PullRequestOpened, PublishFailed, End, RowsFit, Behind
<1>10. CASE Abort \/ Unwind
  BY <1>10 DEF Abort, Unwind, End, RowsFit, Ahead, Behind, Phases, SandboxPhases
<1>11. ASSUME NEW t \in Tasks, TaskStep(t)
       PROVE  phase' = "over" /\ ("raise" \notin faults' => live' = {})
  BY <1>11 DEF TaskStep, StartTask, SettleTask, RaiseTask, StopTask, Leave
<1>12. CASE \E h \in Handlers : Cancel(h) \/ CancelWrites(h)
  BY <1>12 DEF Cancel, CancelWrites, WriteCancelled, SetRow
<1>13. CASE GitHub \/ Crash \/ CrashBeforeEnd \/ Restart
  BY <1>13 DEF GitHub, Crash, CrashBeforeEnd, Restart, Stop
<1> QED
  BY <1>2, <1>3, <1>4, <1>5, <1>6, <1>7, <1>8, <1>9, <1>10, <1>11, <1>12, <1>13
  DEF Next, Coroutine

-----------------------------------------------------------------------------
(* The end of the job: who writes it, and that it stands.                  *)

(* The steps of the coroutine that need it awake.                          *)
Runs ==
  \/ Ingest \/ Snapshot \/ BaselineGreen \/ Map \/ Characterise \/ PlanReady
  \/ Launch \/ AbortWaves \/ WavesDone \/ CleanupProbed \/ CleanupDone
  \/ IntegrationRed \/ IntegrationConflict \/ IntegrationGreen \/ AuditDone
  \/ ReportDone \/ PullRequestOpened \/ PublishFailed \/ Abort

(* An awake coroutine whose gather was not cancelled has seen no end of    *)
(* its job and no handler on the way to one.                               *)
LEMMA RunsMeetNoEnd ==
  ASSUME Inv, Runs \/ (Integrated /\ CrashBeforeEnd), "python311" \notin faults
  PROVE  ~Terminal /\ ~Waiting
<1>1. Awake /\ phase # "over"
  BY DEF Runs, Advance, Integrated, GatherDone, Inv, TypeOK, Phases, SandboxPhases, InWaves,
     Ingest, Snapshot, BaselineGreen, Map, Characterise, PlanReady, Launch, AbortWaves,
     WavesDone, CleanupProbed, CleanupDone, IntegrationRed, IntegrationConflict,
     IntegrationGreen, AuditDone, ReportDone, PullRequestOpened, PublishFailed, Abort
<1>2. gather \notin {"stopping", "cancelled"}
  BY DEF Runs, Advance, Integrated, GatherDone, Inv, TypeOK, InWaves, CrashBeforeEnd,
     Ingest, Snapshot, BaselineGreen, Map, Characterise, PlanReady, Launch, AbortWaves,
     WavesDone, CleanupProbed, CleanupDone, IntegrationRed, IntegrationConflict,
     IntegrationGreen, AuditDone, ReportDone, PullRequestOpened, PublishFailed, Abort
<1> QED BY <1>1, <1>2 DEF Inv, Awake, CancelHolds, Doomed

(* A terminal row is written by a coroutine that is over with it, or by    *)
(* the cancel route, with the terminal event, if the process lives on.     *)
LEMMA EndStep ==
  ASSUME Inv, Next, ~Terminal, Terminal'
  PROVE  /\ EmitEnd \/ CrashBeforeEnd
         /\ phase' = "over" \/ \E h \in Handlers : Cancel(h) \/ CancelWrites(h)
<1> USE DEF Inv, Terminal, TerminalStates, TypeOK, JobRows, End, SetState, SetRow
<1>1. CASE Ingest \/ Snapshot \/ BaselineGreen \/ Map \/ Characterise \/ PlanReady
  BY <1>1 DEF Ingest, Snapshot, BaselineGreen, Map, Characterise, PlanReady, Advance
<1>2. CASE Launch \/ AbortWaves \/ CancelWaves \/ WavesDone \/ CleanupProbed \/ CleanupDone
  BY <1>2 DEF Launch, AbortWaves, CancelWaves, WavesDone, CleanupProbed, CleanupDone,
     EnterIntegration
<1>3. CASE IntegrationRed \/ IntegrationConflict \/ IntegrationGreen \/ AuditDone
  BY <1>3 DEF IntegrationRed, IntegrationConflict, IntegrationGreen, AuditDone, Advance
<1>4. CASE ReportDone \/ PullRequestOpened \/ PublishFailed \/ Abort \/ Unwind
  BY <1>4 DEF ReportDone, PullRequestOpened, PublishFailed, Abort, Unwind
<1>5. CASE \E t \in Tasks : TaskStep(t)
  BY <1>5 DEF TaskStep, StartTask, SettleTask, RaiseTask, StopTask
<1>6. CASE \E h \in Handlers : Cancel(h) \/ CancelWrites(h)
  BY <1>6 DEF Cancel, CancelWrites, WriteCancelled
<1>7. CASE GitHub \/ Crash \/ CrashBeforeEnd \/ Restart
  BY <1>7 DEF GitHub, Crash, CrashBeforeEnd, Restart, Stop
<1> QED BY <1>1, <1>2, <1>3, <1>4, <1>5, <1>6, <1>7 DEF Next, Coroutine

(* The terminal event comes with a terminal row.                           *)
LEMMA EventStep == ASSUME Inv, Next PROVE UNCHANGED ends \/ Terminal'
<1> USE DEF Inv, Terminal, TerminalStates, TypeOK, JobRows, End, SetRow, Emit, log
<1>1. CASE Ingest \/ Snapshot \/ BaselineGreen \/ Map \/ Characterise \/ PlanReady
  BY <1>1 DEF Ingest, Snapshot, BaselineGreen, Map, Characterise, PlanReady, Advance
<1>2. CASE Launch \/ AbortWaves \/ CancelWaves \/ WavesDone \/ CleanupProbed \/ CleanupDone
  BY <1>2 DEF Launch, AbortWaves, CancelWaves, WavesDone, CleanupProbed, CleanupDone,
     EnterIntegration
<1>3. CASE IntegrationRed \/ IntegrationConflict \/ IntegrationGreen \/ AuditDone
  BY <1>3 DEF IntegrationRed, IntegrationConflict, IntegrationGreen, AuditDone, Advance
<1>4. CASE ReportDone \/ PullRequestOpened \/ PublishFailed \/ Abort \/ Unwind
  BY <1>4 DEF ReportDone, PullRequestOpened, PublishFailed, Abort, Unwind
<1>5. CASE \E t \in Tasks : TaskStep(t)
  BY <1>5 DEF TaskStep, StartTask, SettleTask, RaiseTask, StopTask
<1>6. CASE \E h \in Handlers : Cancel(h) \/ CancelWrites(h)
  BY <1>6 DEF Cancel, CancelWrites, WriteCancelled
<1>7. CASE GitHub \/ Crash \/ CrashBeforeEnd \/ Restart
  BY <1>7 DEF GitHub, Crash, CrashBeforeEnd, Restart
<1> QED BY <1>1, <1>2, <1>3, <1>4, <1>5, <1>6, <1>7 DEF Next, Coroutine

(* A terminal row is not written again, but by a handler that writes what  *)
(* it holds already.                                                       *)
LEMMA EndStandsStep ==
  ASSUME Inv, Next, Terminal, "python311" \notin faults
  PROVE  row' = row
<1>1. ~Runs /\ ~CrashBeforeEnd
  BY RunsMeetNoEnd DEF CrashBeforeEnd
<1>2. CASE CancelWaves \/ Unwind \/ GitHub \/ Crash \/ Restart
  BY <1>2 DEF CancelWaves, Unwind, GitHub, Crash, Restart
<1>3. CASE \E t \in Tasks : TaskStep(t)
  BY <1>3 DEF TaskStep, StartTask, SettleTask, RaiseTask, StopTask
<1>4. CASE \E h \in Handlers : Cancel(h)
  BY <1>4 DEF Cancel
<1>5. ASSUME NEW h \in Handlers, CancelWrites(h) PROVE row' = row
  <2>1. row.state = "NoPR" /\ row.reason = "cancelled"
    BY <1>5 DEF CancelWrites, Waiting, Inv, CancelHolds
  <2> QED BY <1>5, <2>1 DEF CancelWrites, WriteCancelled, SetRow, Inv, TypeOK, JobRows
<1> QED BY <1>1, <1>2, <1>3, <1>4, <1>5 DEF Next, Coroutine, Runs

(* While a handler waits, or the row is terminal, the coroutine is over or *)
(* hears of its cancellation next.                                         *)
LEMMA CancelHoldsKept == ASSUME Inv, Next PROVE CancelHolds'
<1> USE DEF Inv, CancelHolds, Waiting
<1> SUFFICES ASSUME "python311" \notin faults
             PROVE  /\ (Terminal \/ Waiting)' => Doomed'
                    /\ (Waiting /\ Terminal)' => row'.state = "NoPR" /\ row'.reason = "cancelled"
  <2>1. faults' = faults
    BY DEF Next, Coroutine, TaskStep, job, Ingest, Snapshot, BaselineGreen, Map, Characterise,
       PlanReady, Launch, AbortWaves, CancelWaves, WavesDone, CleanupProbed, CleanupDone,
       IntegrationRed, IntegrationConflict, IntegrationGreen, AuditDone, ReportDone,
       PullRequestOpened, PublishFailed, Abort, Unwind, GitHub, Crash, CrashBeforeEnd,
       Restart, Stop, StartTask, SettleTask, RaiseTask, StopTask, Cancel, CancelWrites
  <2> QED BY <2>1
<1>1. CASE Runs
  <2>1. handler' = handler /\ ~Waiting /\ ~Terminal
    BY <1>1, RunsMeetNoEnd DEF Runs, api, Ingest, Snapshot, BaselineGreen, Map,
       Characterise, PlanReady, Launch, AbortWaves, WavesDone, CleanupProbed, CleanupDone,
       IntegrationRed, IntegrationConflict, IntegrationGreen, AuditDone, ReportDone,
       PullRequestOpened, PublishFailed, Abort
  <2>2. \A h \in Handlers : ~Cancel(h) /\ ~CancelWrites(h)
    BY <2>1 DEF Cancel, CancelWrites, TypeOK
  <2>3. Terminal' => phase' = "over"
    BY <2>1, <2>2, EndStep DEF Doomed
  <2> QED BY <2>1, <2>3 DEF Doomed
<1>2. CASE CancelWaves \/ Unwind
  BY <1>2 DEF CancelWaves, Unwind, Doomed, Terminal, api
<1>3. ASSUME NEW t \in Tasks, TaskStep(t)
      PROVE  /\ (Terminal \/ Waiting)' => Doomed'
             /\ (Waiting /\ Terminal)' => row'.state = "NoPR" /\ row'.reason = "cancelled"
  <2>1. UNCHANGED <<row, handler, phase, cancelling>>
    BY <1>3 DEF TaskStep, StartTask, SettleTask, RaiseTask, StopTask, api
  <2>2. Doomed => Doomed'
    <3> SUFFICES ASSUME InWaves, gather = "cancelled" \/ (gather = "stopping" /\ stopping = live)
                 PROVE  gather' = "cancelled" \/ (gather' = "stopping" /\ stopping' = live')
      BY <2>1 DEF Doomed, InWaves
    <3>1. CASE StartTask(t) BY <3>1 DEF StartTask
    <3>2. CASE SettleTask(t) BY <3>2, LeaveShape DEF SettleTask
    <3>3. CASE RaiseTask(t) BY <3>3, LeaveShape DEF RaiseTask
    <3>4. CASE StopTask(t) BY <3>4 DEF StopTask, Leave, GatherWaits
    <3> QED BY <1>3, <3>1, <3>2, <3>3, <3>4 DEF TaskStep
  <2> QED BY <2>1, <2>2 DEF Terminal
<1>4. ASSUME NEW h \in Handlers, Cancel(h)
      PROVE  /\ (Terminal \/ Waiting)' => Doomed'
             /\ (Waiting /\ Terminal)' => row'.state = "NoPR" /\ row'.reason = "cancelled"
  <2>1. Doomed'
    BY <1>4 DEF Cancel, CancelTask, Doomed, InWaves, GatherWaits, TypeOK
  <2>2. ~Terminal' \/ (row'.state = "NoPR" /\ row'.reason = "cancelled")
    BY <1>4 DEF Cancel, WriteCancelled, SetRow, Terminal, TypeOK, JobRows
  <2> QED BY <2>1, <2>2
<1>5. ASSUME NEW h \in Handlers, CancelWrites(h)
      PROVE  /\ (Terminal \/ Waiting)' => Doomed'
             /\ (Waiting /\ Terminal)' => row'.state = "NoPR" /\ row'.reason = "cancelled"
  <2>1. Doomed /\ UNCHANGED <<phase, cancelling, gather, stopping, live>>
    BY <1>5 DEF CancelWrites, tasks
  <2>2. row'.state = "NoPR" /\ row'.reason = "cancelled"
    BY <1>5 DEF CancelWrites, WriteCancelled, SetRow, TypeOK, JobRows
  <2> QED BY <2>1, <2>2 DEF Doomed, InWaves
<1>6. CASE GitHub \/ Restart
  BY <1>6 DEF GitHub, Restart, Doomed, Terminal, InWaves, tasks, api
<1>7. CASE Crash \/ CrashBeforeEnd
  <2>1. phase' = "over" /\ ~Waiting'
    BY <1>7 DEF Crash, CrashBeforeEnd, Stop
  <2> QED BY <2>1 DEF Doomed
<1> QED
  BY <1>1, <1>2, <1>3, <1>4, <1>5, <1>6, <1>7 DEF Next, Coroutine, Runs

LEMMA OneEndKept == ASSUME Inv, Next PROVE OneEnd'
<1> USE DEF Inv, OneEnd
<1>1. faults' = faults /\ ends \in Nat /\ late \in BOOLEAN
  BY DEF Next, Coroutine, TaskStep, job, TypeOK, Ingest, Snapshot, BaselineGreen, Map,
     Characterise, PlanReady, Launch, AbortWaves, CancelWaves, WavesDone, CleanupProbed,
     CleanupDone, IntegrationRed, IntegrationConflict, IntegrationGreen, AuditDone,
     ReportDone, PullRequestOpened, PublishFailed, Abort, Unwind, GitHub, Crash,
     CrashBeforeEnd, Restart, Stop, StartTask, SettleTask, RaiseTask, StopTask, Cancel,
     CancelWrites
<1>2. ends' \in {ends, ends + 1} /\ (late' => late \/ ends > 0)
  <2>1. CASE Emit BY <2>1, <1>1 DEF Emit
  <2>2. CASE EmitEnd BY <2>2, <1>1 DEF EmitEnd
  <2>3. CASE UNCHANGED log BY <2>3 DEF log
  <2> QED BY <2>1, <2>2, <2>3, LogStep
<1>3. late' => ends' > 0
  BY <1>1, <1>2
<1>4. EndAnnounced'
  <2>1. CASE CrashBeforeEnd
    BY <2>1, <1>1 DEF CrashBeforeEnd, Stop, EndAnnounced
  <2>2. CASE EmitEnd
    BY <2>2, <1>1 DEF EmitEnd, EndAnnounced
  <2>3. CASE Terminal
    BY <2>3, <1>1, <1>2 DEF EndAnnounced
  <2> QED BY <2>1, <2>2, <2>3, EndStep DEF EndAnnounced
<1>5. ASSUME "python311" \notin faults, ends' > 0 PROVE Terminal'
  <2>1. CASE ends > 0
    BY <2>1, <1>5, EndStandsStep DEF Terminal
  <2>2. CASE ~(ends > 0)
    BY <2>2, <1>5, EventStep
  <2> QED BY <2>1, <2>2
<1>6. DoneIsLast'
  <2> SUFFICES ASSUME row'.state = "Done", "python311" \notin faults
               PROVE  ~late'
    BY <1>1 DEF DoneIsLast
  <2>1. CASE ~Terminal
    BY <2>1, <1>2
  <2>2. CASE Terminal
    <3>1. row' = row /\ live = {} /\ phase = "over"
      BY <2>2, EndStandsStep DEF TestedFirst
    <3>2. ~Runs /\ ~CrashBeforeEnd
      BY <2>2, RunsMeetNoEnd DEF CrashBeforeEnd
    <3>3. \A h \in Handlers : ~Cancel(h) /\ ~CancelWrites(h)
      BY <2>2, <3>1 DEF Cancel, CancelWrites, CancelHolds, Waiting
    <3>4. \A t \in Tasks : ~TaskStep(t)
      BY <3>1 DEF TaskStep, StartTask, SettleTask, RaiseTask, StopTask, TypeOK
    <3>5. UNCHANGED log
      BY <3>2, <3>3, <3>4 DEF Next, Coroutine, Runs, CancelWaves, Unwind, GitHub, Crash, Restart
    <3> QED BY <3>1, <3>5 DEF DoneIsLast, log
  <2> QED BY <2>1, <2>2
<1> QED BY <1>1, <1>3, <1>4, <1>5, <1>6

LEMMA InvHolds == Spec => []Inv
<1>1. Inv /\ UNCHANGED vars => Inv'
  BY DEF vars, job, tasks, api, log, Inv, TypeOK, InWaves, RowsFit, Open, In, TestedFirst,
     Tested, Verified, EndedByItself, Terminal, CancelHolds, Waiting, Doomed, OneEnd,
     EndAnnounced, DoneIsLast
<1>2. Inv /\ Next => Inv'
  <2> SUFFICES ASSUME Inv, Next PROVE Inv'
    OBVIOUS
  <2>1. TypeOK'
    BY TypeKept DEF Inv
  <2> QED
    BY <2>1, RowsFitKept, TestedFirstKept, EndedByItselfKept, CancelHoldsKept, OneEndKept
    DEF Inv
<1> QED BY InitInv, <1>1, <1>2, PTL DEF Spec

-----------------------------------------------------------------------------
(* The variables of a job keep their types, whatever is raised, cut short, *)
(* cancelled or crashed.                                                   *)
THEOREM JobTypeCorrect == Spec => []TypeOK
<1>1. Inv => TypeOK BY DEF Inv
<1> QED BY InvHolds, <1>1, PTL

(* What goes to GitHub is what the last integration run applied, all the   *)
(* verified tasks, after every check passed; never of a dry or an ungated  *)
(* run (_integrate_and_publish).                                           *)
THEOREM PublishedStaysTested == Spec => []PublishedIsTested
<1>1. Inv => PublishedIsTested
  BY DEF Inv, TestedFirst, Tested, PublishedIsTested
<1> QED BY InvHolds, <1>1, PTL

(* VERIFIED is said of whole, integrated runs only, and FAILED only after  *)
(* a check that ran to its end, while no run is cut short (classify,       *)
(* gather_signals).                                                        *)
THEOREM VerdictStaysEarned == Spec => []VerdictIsEarned
<1>1. Inv => VerifiedIsWhole
  <2> SUFFICES ASSUME Inv, Result = "VERIFIED"
               PROVE  /\ applied = Tasks \ In({"absent"})
                      /\ checks.integration = "pass" /\ ~Blocked(checks)
    BY DEF VerifiedIsWhole
  <2>1. Signals.state = "Done" /\ ClassifyDone(Signals) = "VERIFIED"
    BY DEF Result, Classify, ClassifyNoPR
  <2>2. row.state = "Done" /\ row.reason # "dry_run" /\ In({"discarded", "inconclusive"}) = {}
    BY <2>1 DEF ClassifyDone, OpenCaveats, Signals
  <2>3. Tested
    BY <2>2 DEF Inv, TestedFirst
  <2> QED BY <2>2, <2>3 DEF Tested, Verified, Open, In, Inv, TypeOK, Finished
<1>2. Inv => FailedIsKnown
  <2> SUFFICES ASSUME Inv, "cut" \notin faults, Result = "FAILED"
               PROVE  Blocked(checks) /\ ~checks.cut
    BY DEF FailedIsKnown, FailedOnVerdict
  <2>1. ClassifyNoPR(Signals) = "FAILED"
    BY DEF Result, Classify, ClassifyDone
  <2>2. \/ checks.impact = "defect" \/ checks.integration = "fail"
        \/ checks.security = "introduced"
    BY <2>1 DEF ClassifyNoPR, Signals
  <2> QED BY <2>2 DEF Blocked, Inv, EndedByItself
<1>3. Inv => VerdictIsEarned BY <1>1, <1>2 DEF VerdictIsEarned
<1> QED BY InvHolds, <1>3, PTL

(* The end of a job is one: its row is not rewritten, a terminal event     *)
(* announces it, Done is the last event, and no task outlives an end the   *)
(* job came to by itself, unless one raised (routes.py, _finish_done).     *)
THEOREM EndStaysFinal == Spec => EndIsFinal
<1> DEFINE Stands == Terminal /\ "python311" \notin faults => row' = row
<1> DEFINE Final == EndAnnounced /\ DoneIsLast /\ NothingOutlivesEnd
<1>1. Inv /\ [Next]_vars => [Stands]_vars
  BY EndStandsStep
<1>2. Inv => Final
  BY DEF Inv, OneEnd, EndedByItself, NothingOutlivesEnd, TasksDrained
<1> HIDE DEF Stands, Final
<1>3. Spec => [][Stands]_vars /\ []Final
  BY InvHolds, <1>1, <1>2, PTL DEF Spec
<1> QED BY <1>3 DEF Stands, Final, EndIsFinal, EndStands

-----------------------------------------------------------------------------
(***************************************************************************)
(* The jobs of one commit.  Rows outlive the job that wrote them, so the   *)
(* invariant says whose they are: RowsHaveOrigin traces a generated row to *)
(* the artifact of some job, and NetIsOwn ties what a job holds to its own *)
(* target and its own rows.                                                *)
(***************************************************************************)

(* A row of the repository's tests names a test every image holds.         *)
RowsAreReal ==
  \A e \in edges : e.source # "characterisation" => e.test \in RepoTests

(* A row of a generated test is about the target of a job that holds it.   *)
RowsHaveOrigin ==
  \A e \in edges : e.source = "characterisation" =>
    \E k \in Jobs : e.symbol = Target(k) /\ e.test \in artifact[k]

(* What a job writes and holds is about its own target, the image and the  *)
(* artifact agree, and the functions of the suite have rows.               *)
NetIsOwn ==
  \A j \in Jobs :
    /\ \A t \in written[j] : t.file = PathOf[Fqn[Target(j)]]
    /\ \A t \in image[j] : t.file = PathOf[Fqn[Target(j)]]
    /\ artifact[j] = image[j]
    /\ \A t \in image[j] : t.name \notin Methods =>
         \E e \in edges : e.source = "characterisation" /\ e.test = t

(* Until its net is established a job holds nothing and ran nothing.       *)
NothingYet ==
  \A j \in Jobs : progress[j] \in {"baselining", "asking", "proving"} =>
    image[j] = {} /\ gate[j] = {}

NetInv ==
  /\ NetTypeOK /\ RowsAreReal /\ RowsHaveOrigin /\ NetIsOwn /\ NothingYet
  /\ GateRunsOnDisk /\ NetOrBorrowed /\ NetPublished

(* The fields of a test and of a row.                                      *)
LEMMA TestShape ==
  /\ \A s \in Symbols : RepoTest(s) \in RepoTests
  /\ \A r \in Requests, n \in Names :
       /\ Generated(r, n) \in GeneratedTests
       /\ Generated(r, n).file = PathOf[r] /\ Generated(r, n).name = n
  /\ \A t \in GeneratedTests, r \in Requests : [t EXCEPT !.file = PathOf[r]] \in GeneratedTests
  /\ \A t \in GeneratedTests, r \in Requests :
       t.file = PathOf[r] => [t EXCEPT !.file = PathOf[r]] = t
  /\ \A t \in GeneratedTests : t \notin RepoTests
BY DEF RepoTests, GeneratedTests, RepoTest, Generated

(* A request resolves to a symbol, which has a full name.                  *)
LEMMA TargetType ==
  ASSUME NetTypeOK, NEW j \in Jobs
  PROVE  asked[j] \in Requests /\ Target(j) \in Symbols /\ Fqn[Target(j)] \in Requests
BY SafetyNetAssumption DEF NetTypeOK, Target

LEMMA RowShape ==
  ASSUME NEW S \in SUBSET Symbols, NEW source \in {"import", "coverage"}
  PROVE  /\ Rows(S, source) \subseteq Edges
         /\ \A e \in Rows(S, source) : e.source = source /\ e.test \in RepoTests
BY TestShape DEF Rows, Edges, Tests

(* The map adds rows of the repository's tests and keeps the others.       *)
LEMMA MappedShape ==
  ASSUME NEW reported \in BOOLEAN
  PROVE  /\ edges \subseteq Mapped(reported)
         /\ \A e \in Mapped(reported) :
              e \in edges \/ (e \in Edges /\ e.source # "characterisation" /\ e.test \in RepoTests)
<1>1. /\ ImportRows \subseteq Edges
      /\ \A e \in ImportRows : e.source = "import" /\ e.test \in RepoTests
  BY RowShape DEF ImportRows
<1>2. /\ CoverageRows \subseteq Edges
      /\ \A e \in CoverageRows : e.source = "coverage" /\ e.test \in RepoTests
  BY RowShape DEF CoverageRows
<1> QED BY <1>1, <1>2 DEF Mapped

(* The radius and the selection name tests.                                *)
LEMMA RadiusType ==
  ASSUME NEW E \in SUBSET Edges, NEW s \in Symbols
  PROVE  RadiusTests(s, E) \subseteq Tests
BY DEF RadiusTests, TestsCovering, Edges

(* What a candidate is run with lies on the image of its job: only rows of *)
(* the repository's tests are chosen.                                      *)
LEMMA SelectionOnDisk ==
  ASSUME RowsAreReal, NEW j, NEW f
  PROVE  SelectTests(j, f) \subseteq OnDisk(j)
<1>1. \A e \in Chosen(f, edges) : e \in edges /\ e.source # "characterisation"
  BY DEF Chosen, TestsCovering
<1> QED BY <1>1 DEF SelectTests, OnDisk, RowsAreReal

LEMMA NetInitInv == NetInit => NetInv
<1> SUFFICES ASSUME NetInit PROVE NetInv OBVIOUS
<1> QED BY DEF NetInit, NetInv, NetTypeOK, RowsAreReal, RowsHaveOrigin, NetIsOwn, NothingYet,
               GateRunsOnDisk, NetOrBorrowed, NetPublished, InExecution

LEMMA MapCoveredInv == ASSUME NetInv, NEW j \in Jobs, MapCovered(j) PROVE NetInv'
<1> USE DEF NetInv, Target
<1>1. PICK reported \in BOOLEAN :
        /\ ~NeedsCharacterisation(Target(j), Mapped(reported))
        /\ edges' = Mapped(reported)
        /\ radius' = [radius EXCEPT ![j] = RadiusTests(Target(j), Mapped(reported))]
  BY DEF MapCovered
<1>2. /\ progress[j] = "baselining" /\ built' = TRUE
      /\ progress' = [progress EXCEPT ![j] = "executing"]
      /\ UNCHANGED <<own, asked, written, image, artifact, gate, published>>
  BY DEF MapCovered, net
<1>3. /\ edges \subseteq edges' /\ edges' \subseteq Edges
      /\ \A e \in edges' :
           e \in edges \/ (e.source # "characterisation" /\ e.test \in RepoTests)
  BY <1>1, MappedShape DEF NetTypeOK
<1>4. NetTypeOK'
  <2>1. RadiusTests(Target(j), Mapped(reported)) \subseteq Tests
    BY <1>1, <1>3, RadiusType, TargetType DEF NetTypeOK
  <2> QED BY <1>1, <1>2, <1>3, <2>1 DEF NetTypeOK
<1>5. RowsAreReal' /\ RowsHaveOrigin'
  BY <1>2, <1>3 DEF RowsAreReal, RowsHaveOrigin
<1>6. NetIsOwn' /\ NothingYet' /\ GateRunsOnDisk'
  BY <1>2, <1>3 DEF NetIsOwn, NothingYet, GateRunsOnDisk, OnDisk, NetTypeOK
<1>7. NetOrBorrowed'
  <2>1. PICK e \in edges' : e.symbol = Target(j)
    BY <1>1 DEF NeedsCharacterisation, TestsCovering
  <2>2. CASE e.source # "characterisation"
    BY <2>1, <2>2, <1>2, <1>3 DEF NetOrBorrowed, Covered, InExecution, NetTypeOK
  <2>3. CASE e.source = "characterisation"
    <3>1. PICK k \in Jobs : e.symbol = Target(k) /\ e.test \in artifact[k]
      BY <2>3, <1>5, <1>2 DEF RowsHaveOrigin
    <3>2. k # j /\ Target(k) = Target(j) /\ artifact[k] # {}
      BY <3>1, <2>1, <1>2 DEF NetIsOwn, NothingYet
    <3> QED BY <3>1, <3>2, <1>2, <1>3 DEF NetOrBorrowed, Covered, InExecution, NetTypeOK
  <2> QED BY <2>2, <2>3
<1>8. NetPublished'
  BY <1>2 DEF NetPublished, NetTypeOK
<1> QED BY <1>4, <1>5, <1>6, <1>7, <1>8

(* The two other ends of the map add rows and run nothing.                 *)
LEMMA MapOtherInv ==
  ASSUME NetInv, NEW j \in Jobs, MapUncovered(j) \/ MapDry(j) PROVE NetInv'
<1> USE DEF NetInv, Target
<1>1. PICK reported \in BOOLEAN :
        /\ edges' = Mapped(reported)
        /\ radius' \in {radius, [radius EXCEPT ![j] = RadiusTests(Target(j), Mapped(reported))]}
  BY DEF MapUncovered, MapDry
<1>2. /\ progress[j] = "baselining" /\ built' = TRUE
      /\ progress' \in {[progress EXCEPT ![j] = "asking"], [progress EXCEPT ![j] = "dry"]}
      /\ UNCHANGED <<own, asked, written, image, artifact, gate, published>>
  BY DEF MapUncovered, MapDry, net
<1>3. /\ edges \subseteq edges' /\ edges' \subseteq Edges
      /\ \A e \in edges' :
           e \in edges \/ (e.source # "characterisation" /\ e.test \in RepoTests)
  BY <1>1, MappedShape DEF NetTypeOK
<1>4. NetTypeOK'
  <2>1. RadiusTests(Target(j), Mapped(reported)) \subseteq Tests
    BY <1>1, <1>3, RadiusType, TargetType DEF NetTypeOK
  <2> QED BY <1>1, <1>2, <1>3, <2>1 DEF NetTypeOK
<1>5. RowsAreReal' /\ RowsHaveOrigin'
  BY <1>2, <1>3 DEF RowsAreReal, RowsHaveOrigin
<1>6. NetIsOwn' /\ NothingYet' /\ GateRunsOnDisk'
  BY <1>2, <1>3 DEF NetIsOwn, NothingYet, GateRunsOnDisk, OnDisk, NetTypeOK
<1>7. NetOrBorrowed' /\ NetPublished'
  BY <1>2, <1>3 DEF NetOrBorrowed, Covered, InExecution, NetPublished, NetTypeOK
<1> QED BY <1>4, <1>5, <1>6, <1>7

LEMMA WriteInv == ASSUME NetInv, NEW j \in Jobs, Write(j) PROVE NetInv'
<1> USE DEF NetInv, Target
<1>1. PICK N \in SUBSET Names :
        written' = [written EXCEPT ![j] = {Generated(Fqn[Target(j)], n) : n \in N}]
  BY DEF Write
<1>2. \A t \in {Generated(Fqn[Target(j)], n) : n \in N} : t \in GeneratedTests /\ t.file = PathOf[Fqn[Target(j)]]
  BY TestShape, TargetType DEF NetTypeOK
<1>3. /\ progress[j] = "asking" /\ progress' = [progress EXCEPT ![j] = "proving"]
      /\ UNCHANGED <<own, built, edges, asked, image, artifact, radius, gate, published>>
  BY DEF Write, rows
<1>4. NetTypeOK' BY <1>1, <1>2, <1>3 DEF NetTypeOK
<1>5. RowsAreReal' /\ RowsHaveOrigin' /\ NothingYet' /\ GateRunsOnDisk'
  BY <1>3 DEF RowsAreReal, RowsHaveOrigin, NothingYet, GateRunsOnDisk, OnDisk, NetTypeOK
<1>6. NetIsOwn' BY <1>1, <1>2, <1>3 DEF NetIsOwn, NetTypeOK
<1>7. NetOrBorrowed' /\ NetPublished'
  BY <1>3 DEF NetOrBorrowed, Covered, InExecution, NetPublished, NetTypeOK
<1> QED BY <1>4, <1>5, <1>6, <1>7

LEMMA EstablishInv == ASSUME NetInv, NEW j \in Jobs, Establish(j) PROVE NetInv'
<1> USE DEF NetInv, Target
<1>1. /\ progress[j] = "proving" /\ written[j] # {}
      /\ artifact' = [artifact EXCEPT ![j] = written[j]]
      /\ image' = [image EXCEPT ![j] = written[j]]
      /\ edges' = edges \cup Registered(j)
      /\ radius' = [radius EXCEPT ![j] = RadiusTests(Target(j), edges')]
      /\ progress' = [progress EXCEPT ![j] = "executing"]
      /\ UNCHANGED <<own, built, asked, written, gate, published>>
  BY DEF Establish, Rebaselined
<1>2. \A t \in written[j] : t \in GeneratedTests /\ t.file = PathOf[Fqn[Target(j)]]
  BY DEF NetIsOwn, NetTypeOK
<1> DEFINE Row(t) == [symbol |-> Target(j), test |-> t, source |-> "characterisation"]
<1>2a. /\ \A e \in Registered(j) : \E t \in written[j] : e = Row(t)
       /\ \A t \in written[j] : t.name \notin Methods => Row(t) \in Registered(j)
  BY DEF Registered
<1>2b. \A t \in written[j] : Row(t) \in Edges
  BY <1>2, TargetType DEF Edges, Tests, NetTypeOK
<1>3. /\ Registered(j) \subseteq Edges
      /\ \A e \in Registered(j) :
           e.source = "characterisation" /\ e.symbol = Target(j) /\ e.test \in written[j]
      /\ \A t \in written[j] : t.name \notin Methods =>
           \E e \in Registered(j) : e.source = "characterisation" /\ e.test = t
  <2>1. \A t : Row(t).source = "characterisation" /\ Row(t).symbol = Target(j) /\ Row(t).test = t
    OBVIOUS
  <2> HIDE DEF Row
  <2> QED BY <2>1, <1>2a, <1>2b
<1>4. NetTypeOK'
  <2>1. edges' \subseteq Edges BY <1>1, <1>3 DEF NetTypeOK
  <2>2. RadiusTests(Target(j), edges') \subseteq Tests BY <2>1, RadiusType, TargetType DEF NetTypeOK
  <2> QED BY <1>1, <2>1, <2>2 DEF NetTypeOK
<1>5. RowsAreReal' BY <1>1, <1>3 DEF RowsAreReal
<1>6. RowsHaveOrigin'
  <2> SUFFICES ASSUME NEW e \in edges', e.source = "characterisation"
               PROVE  \E k \in Jobs : e.symbol = Target(k) /\ e.test \in artifact'[k]
    BY <1>1 DEF RowsHaveOrigin
  <2>1. CASE e \in Registered(j) BY <2>1, <1>1, <1>3 DEF NetTypeOK
  <2>2. CASE e \in edges
    <3>1. PICK k \in Jobs : e.symbol = Target(k) /\ e.test \in artifact[k]
      BY <2>2 DEF RowsHaveOrigin
    <3>2. k # j BY <3>1, <1>1 DEF NetIsOwn, NothingYet
    <3> QED BY <3>1, <3>2, <1>1 DEF NetTypeOK
  <2> QED BY <2>1, <2>2, <1>1
<1>7. NetIsOwn'
  <2> SUFFICES ASSUME NEW i \in Jobs
               PROVE  /\ \A t \in written[i] : t.file = PathOf[Fqn[Target(i)]]
                      /\ \A t \in image'[i] : t.file = PathOf[Fqn[Target(i)]]
                      /\ artifact'[i] = image'[i]
                      /\ \A t \in image'[i] : t.name \notin Methods =>
                           \E e \in edges' : e.source = "characterisation" /\ e.test = t
    BY <1>1 DEF NetIsOwn
  <2>1. CASE i = j BY <2>1, <1>1, <1>2, <1>3 DEF NetTypeOK
  <2>2. CASE i # j BY <2>2, <1>1 DEF NetIsOwn, NetTypeOK
  <2> QED BY <2>1, <2>2
<1>8. NothingYet' BY <1>1 DEF NothingYet, NetTypeOK
<1>9. GateRunsOnDisk' BY <1>1 DEF GateRunsOnDisk, NothingYet, OnDisk, NetTypeOK
<1>10. NetOrBorrowed'
  <2> SUFFICES ASSUME NEW i \in Jobs, InExecution(i)'
               PROVE  \/ Covered(Target(i))'
                      \/ image'[i] # {}
                      \/ \E k \in Jobs \ {i} : Target(k) = Target(i) /\ artifact'[k] # {}
    BY <1>1 DEF NetOrBorrowed
  <2>1. CASE i = j BY <2>1, <1>1, <1>2 DEF NetTypeOK
  <2>2. CASE i # j
    <3>1. InExecution(i) /\ image'[i] = image[i]
      BY <2>2, <1>1 DEF InExecution, NetTypeOK
    <3>2. \A k \in Jobs : artifact[k] \subseteq artifact'[k]
      BY <1>1 DEF NetIsOwn, NothingYet, NetTypeOK
    <3>3. Covered(Target(i)) => Covered(Target(i))'
      BY <1>1 DEF Covered
    <3> QED BY <3>1, <3>2, <3>3 DEF NetOrBorrowed
  <2> QED BY <2>1, <2>2
<1>11. NetPublished' BY <1>1 DEF NetPublished, NetTypeOK
<1> QED BY <1>4, <1>5, <1>6, <1>7, <1>8, <1>9, <1>10, <1>11

LEMMA GateInv == ASSUME NetInv, NEW j \in Jobs, Gate(j) PROVE NetInv'
<1> USE DEF NetInv, Target
<1>1. PICK s \in Reach[Target(j)] :
        gate' = [gate EXCEPT ![j] = {[file |-> FileOf[s], tests |-> SelectTests(j, FileOf[s])]}]
  BY DEF Gate
<1>2. /\ progress[j] = "executing"
      /\ UNCHANGED <<own, built, edges, asked, progress, written, image, artifact, radius, published>>
  BY DEF Gate, rows, net
<1>3. SelectTests(j, FileOf[s]) \subseteq OnDisk(j) BY SelectionOnDisk
<1>4. FileOf[s] \in Files BY SafetyNetAssumption, TargetType DEF NetTypeOK
<1>5. OnDisk(j) \subseteq Tests BY DEF OnDisk, Tests, NetTypeOK
<1>6. NetTypeOK' BY <1>1, <1>2, <1>3, <1>4, <1>5 DEF NetTypeOK
<1>7. RowsAreReal' /\ RowsHaveOrigin' /\ NetIsOwn'
  BY <1>2 DEF RowsAreReal, RowsHaveOrigin, NetIsOwn
<1>8. NothingYet' BY <1>1, <1>2 DEF NothingYet, NetTypeOK
<1>9. GateRunsOnDisk' BY <1>1, <1>2, <1>3 DEF GateRunsOnDisk, OnDisk, NetTypeOK
<1>10. NetOrBorrowed' /\ NetPublished'
  BY <1>2 DEF NetOrBorrowed, Covered, InExecution, NetPublished
<1> QED BY <1>6, <1>7, <1>8, <1>9, <1>10

LEMMA PublishInv == ASSUME NetInv, NEW j \in Jobs, Publish(j) PROVE NetInv'
<1> USE DEF NetInv, Target
<1>1. /\ progress[j] = "executing"
      /\ published' = [published EXCEPT ![j] = CharacterisationDiff(j)]
      /\ progress' = [progress EXCEPT ![j] = "published"]
      /\ UNCHANGED <<own, built, edges, asked, written, image, artifact, radius, gate>>
  BY DEF Publish, rows, net
<1> DEFINE asAsked == {[t EXCEPT !.file = PathOf[asked[j]]] : t \in image[j]}
<1>2. image[j] \subseteq GeneratedTests /\ asked[j] \in Requests
  BY DEF NetTypeOK
<1>3. CharacterisationDiff(j) \in {{}, asAsked} /\ asAsked \subseteq GeneratedTests
  BY <1>2, TestShape DEF CharacterisationDiff, NetIsOwn
<1>3a. ASSUME PathOf[asked[j]] = PathOf[Fqn[Target(j)]]
       PROVE  /\ asAsked = image[j]
              /\ (\E t \in image[j] : HasRow(t)) => CharacterisationDiff(j) = image[j]
  <2>1. \A t \in image[j] : [t EXCEPT !.file = PathOf[asked[j]]] = t
    BY <1>2, <1>3a, TestShape DEF NetIsOwn
  <2>2. asAsked = image[j]
    BY <2>1
  <2>3. ASSUME \E t \in image[j] : HasRow(t)
        PROVE  \E e \in edges : e.source = "characterisation" /\ e.test.file = PathOf[asked[j]]
    BY <1>3a, <2>3 DEF NetIsOwn, HasRow
  <2>4. ASSUME \E t \in image[j] : HasRow(t) PROVE CharacterisationDiff(j) = asAsked
    BY <2>3, <2>4 DEF CharacterisationDiff, NetIsOwn
  <2> HIDE DEF asAsked
  <2> QED BY <2>2, <2>4
<1>4. NetTypeOK' BY <1>1, <1>3 DEF NetTypeOK
<1>5. RowsAreReal' /\ RowsHaveOrigin' /\ NetIsOwn' /\ NothingYet' /\ GateRunsOnDisk'
  BY <1>1 DEF RowsAreReal, RowsHaveOrigin, NetIsOwn, NothingYet, GateRunsOnDisk, OnDisk, NetTypeOK
<1>6. NetOrBorrowed' BY <1>1 DEF NetOrBorrowed, Covered, InExecution, NetTypeOK
<1>7. NetPublished'
  <2> SUFFICES ASSUME NEW i \in Jobs, progress'[i] = "published"
      PROVE /\ published'[i] # {} =>
                 published'[i] = {[t EXCEPT !.file = PathOf[asked[i]]] : t \in image[i]}
            /\ PathOf[asked[i]] = PathOf[Fqn[Target(i)]] =>
                 /\ published'[i] \subseteq image[i]
                 /\ (\E t \in image[i] : HasRow(t)) => published'[i] = image[i]
    BY <1>1 DEF NetPublished
  <2>1. CASE i = j
    <3>1. published'[j] = CharacterisationDiff(j) BY <1>1 DEF NetTypeOK
    <3> QED BY <2>1, <3>1, <1>3, <1>3a
  <2>2. CASE i # j
    BY <2>2, <1>1 DEF NetPublished, NetTypeOK
  <2> QED BY <2>1, <2>2
<1> QED BY <1>4, <1>5, <1>6, <1>7

(* The jobs that give up keep their rows and what they hold.               *)
LEMMA GiveUpInv == ASSUME NetInv, NEW j \in Jobs, Refuse(j) \/ GiveUp(j) PROVE NetInv'
<1> USE DEF NetInv, Target
<1>1. /\ progress' \in {[progress EXCEPT ![j] = "refused"], [progress EXCEPT ![j] = "stopped"]}
      /\ UNCHANGED <<own, built, edges, asked, written, image, artifact, radius, gate, published>>
  BY DEF Refuse, GiveUp, rows, net
<1>2. NetTypeOK' BY <1>1 DEF NetTypeOK
<1>3. RowsAreReal' /\ RowsHaveOrigin' /\ NetIsOwn' /\ NothingYet' /\ GateRunsOnDisk'
  BY <1>1 DEF RowsAreReal, RowsHaveOrigin, NetIsOwn, NothingYet, GateRunsOnDisk, OnDisk, NetTypeOK
<1>4. NetOrBorrowed' /\ NetPublished'
  BY <1>1 DEF NetOrBorrowed, Covered, InExecution, NetPublished, NetTypeOK
<1> QED BY <1>2, <1>3, <1>4

LEMMA NetStutterInv == ASSUME NetInv, UNCHANGED netVars PROVE NetInv'
BY DEF NetInv, Target, netVars, rows, net, NetTypeOK, RowsAreReal, RowsHaveOrigin, NetIsOwn, NothingYet,
       GateRunsOnDisk, OnDisk, NetOrBorrowed, Covered, InExecution, NetPublished

LEMMA NetInvHolds == NetSpec => []NetInv
<1>1. NetInv /\ [NetNext]_netVars => NetInv'
  BY MapCoveredInv, MapOtherInv, WriteInv, EstablishInv, GateInv, PublishInv, GiveUpInv,
     NetStutterInv DEF NetNext
<1> QED BY NetInitInv, <1>1, PTL DEF NetSpec

(* The rows, the images and the runs keep their types.                     *)
THEOREM NetTypeCorrect == NetSpec => []NetTypeOK
<1>1. NetInv => NetTypeOK BY DEF NetInv
<1> QED BY NetInvHolds, <1>1, PTL

(* Whatever other jobs register on the commit, a candidate is run with     *)
(* tests that its image holds (select_tests).                              *)
THEOREM GateStaysOnDisk == NetSpec => []GateRunsOnDisk
<1>1. NetInv => GateRunsOnDisk BY DEF NetInv
<1> QED BY NetInvHolds, <1>1, PTL

(* A job in execution has a covered target, its own net or the rows of     *)
(* another job's (_characterise).                                          *)
THEOREM NetIsThere == NetSpec => []NetOrBorrowed
<1>1. NetInv => NetOrBorrowed BY DEF NetInv
<1> QED BY NetInvHolds, <1>1, PTL

(* A pull request carries the generated tests of its own job or none; and  *)
(* all of them, as they ran, when one has a row and the target was asked   *)
(* for by a name of the file of its full name (_characterisation_diff).    *)
THEOREM PublishedNetIsOwn == NetSpec => []NetPublished
<1>1. NetInv => NetPublished BY DEF NetInv
<1> QED BY NetInvHolds, <1>1, PTL
=============================================================================
