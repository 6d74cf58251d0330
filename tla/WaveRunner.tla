----------------------------- MODULE WaveRunner -----------------------------
(***************************************************************************)
(* The waves of a job: order_waves (principal/orchestrator/ordering.py)    *)
(* and WaveRunner.run_waves with _dependency_patch                         *)
(* (principal/orchestrator/scheduler.py), over a plan that validate_plan   *)
(* (principal/agents/planner.py) let through.  A task is its seq; run_task *)
(* is abstracted to how it ends (TaskRun has its inside).                  *)
(***************************************************************************)
EXTENDS Naturals, FiniteSets

CONSTANTS
  Tasks,        \* the seqs of the plan
  Files,        \* the files of the blast radius
  MaxParallel,  \* the permits of the semaphore
  CanRaise      \* whether run_task can end with an exception

ASSUME WaveRunnerAssumption ==
  /\ Tasks \subseteq Nat /\ IsFiniteSet(Tasks)
  /\ MaxParallel \in Nat /\ MaxParallel > 0
  /\ CanRaise \in BOOLEAN

VARIABLES
  deps,      \* depends_on, per task
  file,      \* target_file, per task
  stage,     \* "ordering", "between", "wave", "raised" or "ended"
  formed,    \* the waves order_waves has formed
  waveOf,    \* per task, the number of its wave, or 0
  wave,      \* the wave that runs, or ran last
  patch,     \* base_patches, per task: the tasks whose diffs it holds
  waiting,   \* tasks of the gather that wait for the semaphore
  running,   \* tasks of the gather that hold it
  result     \* per task, how it settled

plan == <<deps, file>>
order == <<formed, waveOf>>
vars == <<plan, stage, order, wave, patch, waiting, running, result>>

(* validate_plan: the dependencies have no cycle, that is, in any set of   *)
(* tasks one depends on none of the set.                                   *)
Acyclic(dep) ==
  \A S \in (SUBSET Tasks) \ {{}} : \E t \in S : dep[t] \cap S = {}

Init ==
  /\ deps \in {d \in [Tasks -> SUBSET Tasks] : Acyclic(d)}
  /\ file \in [Tasks -> Files]
  /\ stage = "ordering"
  /\ formed = 0 /\ waveOf = [t \in Tasks |-> 0]
  /\ wave = 0
  /\ patch = [t \in Tasks |-> {}]
  /\ waiting = {} /\ running = {}
  /\ result = [t \in Tasks |-> "none"]

-----------------------------------------------------------------------------
(* order_waves.                                                            *)

Remaining == {t \in Tasks : waveOf[t] = 0}
Ready == {t \in Remaining : deps[t] \cap Remaining = {}}

(* Mutant of NextWave: the file claim is left to the planner.              *)
NextWaveUnclaimed == Ready

(* Of the ready tasks of one file, the one of the lowest seq.              *)
NextWave == {t \in Ready : \A u \in Ready : file[u] = file[t] => t <= u}

FormWave ==
  /\ stage = "ordering" /\ Ready # {}
  /\ formed' = formed + 1
  /\ waveOf' = [t \in Tasks |-> IF t \in NextWave THEN formed + 1 ELSE waveOf[t]]
  /\ UNCHANGED <<plan, stage, wave, patch, waiting, running, result>>

Ordered ==
  /\ stage = "ordering" /\ Remaining = {}
  /\ stage' = "between"
  /\ UNCHANGED <<plan, order, wave, patch, waiting, running, result>>

-----------------------------------------------------------------------------
(* run_waves.                                                              *)

(* The tasks t depends on, transitively.                                   *)
Upstream(t) ==
  {s \in Tasks : \A S \in SUBSET Tasks :
     deps[t] \subseteq S /\ (\A u \in S : deps[u] \subseteq S) => s \in S}

(* Mutant of DependencyPatch: the direct dependencies only.                *)
DependencyPatchDirect(t) ==
  {s \in deps[t] : result[s] = "verified" /\ file[s] # file[t]}

(* Their verified diffs, but not to the file of t itself.                  *)
DependencyPatch(t) ==
  {s \in Upstream(t) : result[s] = "verified" /\ file[s] # file[t]}

WaveTasks(w) == {t \in Tasks : waveOf[t] = w}

(* The patches of a wave are built before its gather starts.               *)
BeginWave ==
  /\ stage = "between" /\ wave < formed
  /\ stage' = "wave" /\ wave' = wave + 1
  /\ patch' = [t \in Tasks |->
                IF t \in WaveTasks(wave + 1) THEN DependencyPatch(t) ELSE patch[t]]
  /\ waiting' = WaveTasks(wave + 1)
  /\ UNCHANGED <<plan, order, running, result>>

StartTask(t) ==
  /\ t \in waiting
  /\ Cardinality(running) < MaxParallel
  /\ waiting' = waiting \ {t} /\ running' = running \cup {t}
  /\ UNCHANGED <<plan, stage, order, wave, patch, result>>

SettleTask(t) ==
  /\ t \in running
  /\ running' = running \ {t}
  /\ \E s \in {"verified", "discarded"} : result' = [result EXCEPT ![t] = s]
  /\ UNCHANGED <<plan, stage, order, wave, patch, waiting>>

(* The exception ends the gather and the waves; the tasks it has created   *)
(* go on.                                                                  *)
RaiseTask(t) ==
  /\ CanRaise
  /\ t \in running
  /\ running' = running \ {t}
  /\ result' = [result EXCEPT ![t] = "raised"]
  /\ stage' = "raised"
  /\ UNCHANGED <<plan, order, wave, patch, waiting>>

(* Mutant of EndWave: the last wave is taken for the end.                  *)
EndWaveStuck ==
  /\ stage = "wave" /\ waiting = {} /\ running = {} /\ wave = formed
  /\ stage' = "between"
  /\ UNCHANGED <<plan, order, wave, patch, waiting, running, result>>

EndWave ==
  /\ stage = "wave" /\ waiting = {} /\ running = {}
  /\ stage' = "between"
  /\ UNCHANGED <<plan, order, wave, patch, waiting, running, result>>

EndWaves ==
  /\ stage = "between" /\ wave = formed
  /\ stage' = "ended"
  /\ UNCHANGED <<plan, order, wave, patch, waiting, running, result>>

TaskStep(t) == StartTask(t) \/ SettleTask(t) \/ RaiseTask(t)

Next ==
  \/ FormWave \/ Ordered
  \/ BeginWave \/ EndWave \/ EndWaves
  \/ \E t \in Tasks : TaskStep(t)

Spec == Init /\ [][Next]_vars

(* Every task ends: its attempts have timeouts (TaskRun, TaskEnds).        *)
FairSpec ==
  /\ Spec
  /\ WF_vars(FormWave \/ Ordered \/ BeginWave \/ EndWave \/ EndWaves)
  /\ \A t \in Tasks : WF_vars(TaskStep(t))

-----------------------------------------------------------------------------
(* Properties.                                                             *)

TypeOK ==
  /\ deps \in [Tasks -> SUBSET Tasks] /\ file \in [Tasks -> Files]
  /\ stage \in {"ordering", "between", "wave", "raised", "ended"}
  /\ formed \in Nat /\ waveOf \in [Tasks -> Nat]
  /\ wave \in Nat /\ wave <= formed
  /\ patch \in [Tasks -> SUBSET Tasks]
  /\ waiting \subseteq Tasks /\ running \subseteq Tasks
  /\ result \in [Tasks -> {"none", "verified", "discarded", "raised"}]

(* order_waves raises DependencyCycle when tasks remain and none is ready: *)
(* never for a plan that validate_plan let through.                        *)
NeverACycle == stage = "ordering" /\ Remaining # {} => Ready # {}

(* A task that has started was given the diff of every verified task it    *)
(* depends on, however indirectly, other than to its own file: it is       *)
(* tested on the tree integration builds (_dependency_patch).              *)
TestedOnIntegratedTree ==
  \A t \in Tasks :
    t \in running \/ result[t] # "none" =>
      patch[t] = {s \in Upstream(t) : result[s] = "verified" /\ file[s] # file[t]}

(* When the waves have ended every task of the plan has settled.           *)
NothingForgotten ==
  stage = "ended" => \A t \in Tasks : result[t] \in {"verified", "discarded"}

(* The waves schedule the tasks as promised.                               *)
status ==
  [t \in Tasks |-> CASE t \in running -> "running"
                     [] t \notin running /\ result[t] = "none" -> "idle"
                     [] t \notin running /\ result[t] = "raised" -> "lost"
                     [] OTHER -> "settled"]
Schedule == INSTANCE TaskSchedule
ScheduleSpec == Schedule!Spec

(* The waves end, with every task settled or one of them lost.             *)
WavesEnd == <>(stage \in {"ended", "raised"})
=============================================================================
