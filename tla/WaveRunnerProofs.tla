-------------------------- MODULE WaveRunnerProofs --------------------------
(***************************************************************************)
(* Proofs about WaveRunner, for every set of tasks, every plan without a   *)
(* cycle, and every number of permits: the waves are well formed, each     *)
(* task is tested on the tree its dependencies leave, nothing is           *)
(* forgotten, and the waves implement TaskSchedule.                        *)
(***************************************************************************)
EXTENDS WaveRunner, TLAPS

Settled(t) == result[t] \in {"verified", "discarded"}

(* What order_waves establishes: a wave is for tasks whose dependencies    *)
(* are in earlier ones, and no two tasks of a wave edit one file.          *)
OrderInv ==
  /\ Acyclic(deps)
  /\ \A t \in Tasks : waveOf[t] <= formed
  /\ \A t \in Tasks : waveOf[t] # 0 =>
       \A u \in deps[t] : waveOf[u] # 0 /\ waveOf[u] < waveOf[t]
  /\ \A t, u \in Tasks :
       t # u /\ waveOf[t] # 0 /\ waveOf[t] = waveOf[u] => file[t] # file[u]
  /\ stage # "ordering" => \A t \in Tasks : waveOf[t] # 0
  /\ stage = "ordering" => wave = 0 /\ waiting = {} /\ running = {}

(* What run_waves keeps: the tasks of the gather are of the current wave,  *)
(* those of earlier waves have settled, those of later ones not begun.     *)
RunInv ==
  /\ waiting \cap running = {}
  /\ \A t \in waiting \cup running :
       waveOf[t] # 0 /\ waveOf[t] = wave /\ result[t] = "none"
  /\ \A t \in Tasks : waveOf[t] = 0 \/ wave < waveOf[t] => result[t] = "none"
  /\ \A t \in Tasks : waveOf[t] # 0 /\ waveOf[t] < wave => Settled(t)
  /\ stage \in {"between", "ended"} =>
       /\ waiting = {} /\ running = {}
       /\ \A t \in Tasks : waveOf[t] = wave /\ waveOf[t] # 0 => Settled(t)
  /\ stage = "wave" =>
       \A t \in Tasks : waveOf[t] = wave =>
         t \in waiting \/ t \in running \/ Settled(t)
  /\ stage = "ended" => wave = formed

(* The patch of a task of a wave that has begun is what it would be now.   *)
PatchInv ==
  \A t \in Tasks : waveOf[t] # 0 /\ waveOf[t] <= wave => patch[t] = DependencyPatch(t)

IInv == TypeOK /\ OrderInv /\ RunInv /\ PatchInv

-----------------------------------------------------------------------------
(* Everything a task depends on, however indirectly, is in an earlier wave *)
(* than its own (_dependency_patch reads only what has settled).           *)
LEMMA UpstreamEarlier ==
  ASSUME TypeOK, OrderInv, NEW t \in Tasks, waveOf[t] # 0, NEW s \in Upstream(t)
  PROVE  s \in Tasks /\ waveOf[s] # 0 /\ waveOf[s] < waveOf[t]
<1> DEFINE S == {u \in Tasks : waveOf[u] # 0 /\ waveOf[u] < waveOf[t]}
<1>1. S \in SUBSET Tasks
  OBVIOUS
<1>2. deps[t] \subseteq S
  BY DEF TypeOK, OrderInv
<1>3. \A u \in S : deps[u] \subseteq S
  <2> SUFFICES ASSUME NEW u \in S, NEW v \in deps[u]
               PROVE  v \in S
    OBVIOUS
  <2>1. v \in Tasks /\ waveOf[v] # 0 /\ waveOf[v] < waveOf[u]
    BY DEF TypeOK, OrderInv
  <2>2. waveOf[v] \in Nat /\ waveOf[u] \in Nat /\ waveOf[t] \in Nat
    BY <2>1 DEF TypeOK
  <2> QED
    BY <2>1, <2>2
<1>4. s \in S
  <2> HIDE DEF S
  <2> QED
    BY <1>1, <1>2, <1>3 DEF Upstream
<1> QED
  BY <1>4

(* A plan without a cycle always has a ready task while any remains, so    *)
(* order_waves never raises DependencyCycle on a validated plan.           *)
LEMMA SomeReady ==
  ASSUME OrderInv, Remaining # {}
  PROVE  Ready # {}
<1>1. Remaining \in (SUBSET Tasks) \ {{}}
  BY DEF Remaining
<1>2. PICK t \in Remaining : deps[t] \cap Remaining = {}
  <2> DEFINE R == Remaining
  <2>1. R \in (SUBSET Tasks) \ {{}}
    BY <1>1
  <2>2. \A S \in (SUBSET Tasks) \ {{}} : \E t \in S : deps[t] \cap S = {}
    BY DEF OrderInv, Acyclic
  <2> HIDE DEF R
  <2>3. \E t \in R : deps[t] \cap R = {}
    BY <2>1, <2>2
  <2> QED
    BY <2>3 DEF R
<1> QED
  BY <1>2 DEF Ready

(* The patch of a task depends on tasks of earlier waves only.             *)
LEMMA PatchKept ==
  ASSUME TypeOK, OrderInv, UNCHANGED <<deps, file, waveOf>>,
         NEW t \in Tasks, waveOf[t] # 0,
         \A s \in Tasks : waveOf[s] < waveOf[t] => result'[s] = result[s]
  PROVE  DependencyPatch(t)' = DependencyPatch(t)
<1>1. \A s \in Upstream(t) : result'[s] = result[s]
  BY UpstreamEarlier
<1>2. Upstream(t)' = Upstream(t)
  BY DEF Upstream
<1> QED
  BY <1>1, <1>2 DEF DependencyPatch

LEMMA InitInv == Init => IInv
<1> SUFFICES ASSUME Init PROVE IInv
  OBVIOUS
<1>1. TypeOK
  BY DEF Init, TypeOK
<1>2. OrderInv
  BY DEF Init, OrderInv
<1>3. RunInv
  BY DEF Init, RunInv
<1>4. PatchInv
  BY DEF Init, PatchInv
<1> QED
  BY <1>1, <1>2, <1>3, <1>4 DEF IInv

LEMMA FormWaveInv ==
  ASSUME IInv, FormWave
  PROVE  IInv'
<1> USE WaveRunnerAssumption DEF FormWave, plan, order
<1>0. TypeOK /\ OrderInv /\ RunInv /\ PatchInv
  BY DEF IInv
<1>1. wave = 0 /\ waiting = {} /\ running = {}
  BY <1>0 DEF OrderInv
<1>2. /\ formed \in Nat
      /\ \A t \in Tasks : waveOf[t] \in Nat /\ waveOf[t] <= formed
  BY <1>0 DEF TypeOK, OrderInv
<1>3. /\ \A t \in Tasks : t \in NextWave => waveOf[t] = 0 /\ waveOf'[t] = formed + 1
      /\ \A t \in Tasks : t \notin NextWave => waveOf'[t] = waveOf[t]
  BY DEF NextWave, Ready, Remaining
<1>4. TypeOK'
  BY <1>0, <1>2 DEF TypeOK
<1>5. OrderInv'
  <2>1. Acyclic(deps)'
    BY <1>0 DEF OrderInv, Acyclic
  <2>2. (\A t \in Tasks : waveOf[t] <= formed)'
    BY <1>2, <1>3
  <2>3. (\A t \in Tasks : waveOf[t] # 0 =>
           \A u \in deps[t] : waveOf[u] # 0 /\ waveOf[u] < waveOf[t])'
    <3> SUFFICES ASSUME NEW t \in Tasks, waveOf'[t] # 0, NEW u \in deps[t]
                 PROVE  waveOf'[u] # 0 /\ waveOf'[u] < waveOf'[t]
      OBVIOUS
    <3>1. u \in Tasks
      BY <1>0 DEF TypeOK
    <3>2. CASE t \in NextWave
      <4>1. u \notin Remaining
        BY <3>2 DEF NextWave, Ready
      <4>2. waveOf[u] # 0 /\ u \notin NextWave
        BY <4>1, <3>1 DEF Remaining, NextWave, Ready
      <4> QED
        BY <4>2, <3>1, <3>2, <1>2, <1>3
    <3>3. CASE t \notin NextWave
      <4>1. waveOf[t] # 0 /\ waveOf'[t] = waveOf[t]
        BY <3>3, <1>3
      <4>2. waveOf[u] # 0 /\ waveOf[u] < waveOf[t]
        BY <4>1, <1>0 DEF OrderInv
      <4> QED
        BY <4>1, <4>2, <3>1, <1>3
    <3> QED
      BY <3>2, <3>3
  <2>4. (\A t, u \in Tasks :
           t # u /\ waveOf[t] # 0 /\ waveOf[t] = waveOf[u] => file[t] # file[u])'
    <3> SUFFICES ASSUME NEW t \in Tasks, NEW u \in Tasks, t # u,
                        waveOf'[t] # 0, waveOf'[t] = waveOf'[u]
                 PROVE  file[t] # file[u]
      OBVIOUS
    <3>1. CASE t \in NextWave /\ u \in NextWave
      <4>1. file[u] = file[t] => t <= u /\ u <= t
        BY <3>1 DEF NextWave
      <4>2. t \in Nat /\ u \in Nat
        BY DEF WaveRunnerAssumption
      <4> QED
        BY <4>1, <4>2
    <3>2. CASE t \notin NextWave /\ u \notin NextWave
      BY <3>2, <1>0, <1>3 DEF OrderInv
    <3>3. CASE t \in NextWave /\ u \notin NextWave
      BY <3>3, <1>2, <1>3
    <3>4. CASE t \notin NextWave /\ u \in NextWave
      BY <3>4, <1>2, <1>3
    <3> QED
      BY <3>1, <3>2, <3>3, <3>4
  <2> QED
    BY <2>1, <2>2, <2>3, <2>4, <1>1 DEF OrderInv
<1>6. RunInv'
  <2>1. \A t \in Tasks : result[t] = "none"
    BY <1>0, <1>1, <1>2 DEF RunInv
  <2>2. \A t \in Tasks : waveOf'[t] \in Nat
    BY <1>2, <1>3
  <2> QED
    BY <1>1, <2>1, <2>2 DEF RunInv, Settled
<1>7. PatchInv'
  <2>1. \A t \in Tasks : waveOf'[t] \in Nat
    BY <1>2, <1>3
  <2> QED
    BY <1>1, <2>1 DEF PatchInv
<1> QED
  BY <1>4, <1>5, <1>6, <1>7 DEF IInv

LEMMA OrderedInv ==
  ASSUME IInv, Ordered
  PROVE  IInv'
<1> USE DEF Ordered, plan, order
<1>1. TypeOK'
  BY DEF IInv, TypeOK
<1>2. OrderInv'
  <2>1. Acyclic(deps)'
    BY DEF IInv, OrderInv, Acyclic
  <2> QED
    BY <2>1 DEF IInv, OrderInv, Remaining
<1>3. RunInv'
  BY DEF IInv, OrderInv, RunInv, Settled
<1>4. PatchInv'
  BY DEF IInv, PatchInv, DependencyPatch, Upstream
<1> QED
  BY <1>1, <1>2, <1>3, <1>4 DEF IInv

LEMMA BeginWaveInv ==
  ASSUME IInv, BeginWave
  PROVE  IInv'
<1> USE DEF BeginWave, plan, order
<1>0. TypeOK /\ OrderInv /\ RunInv /\ PatchInv
  BY DEF IInv
<1>1. /\ wave \in Nat /\ formed \in Nat /\ wave < formed
      /\ \A t \in Tasks : waveOf[t] \in Nat /\ waveOf[t] # 0
  BY <1>0 DEF TypeOK, OrderInv
<1>2. TypeOK'
  <2>1. \A t \in Tasks : DependencyPatch(t) \subseteq Tasks
    BY DEF DependencyPatch, Upstream
  <2> QED
    BY <1>0, <1>1, <2>1 DEF TypeOK, WaveTasks
<1>3. OrderInv'
  <2>1. Acyclic(deps)'
    BY <1>0 DEF OrderInv, Acyclic
  <2> QED
    BY <1>0, <2>1 DEF OrderInv
<1>4. RunInv'
  BY <1>0, <1>1 DEF RunInv, Settled, WaveTasks
<1>5. PatchInv'
  <2> SUFFICES ASSUME NEW t \in Tasks, waveOf[t] <= wave + 1
               PROVE  patch'[t] = DependencyPatch(t)'
    BY DEF PatchInv
  <2>1. DependencyPatch(t)' = DependencyPatch(t)
    BY <1>0, <1>1, PatchKept
  <2>2. CASE waveOf[t] = wave + 1
    BY <2>1, <2>2 DEF WaveTasks
  <2>3. CASE waveOf[t] <= wave
    <3>1. patch'[t] = patch[t]
      BY <2>3, <1>1 DEF WaveTasks
    <3> QED
      BY <2>1, <2>3, <3>1, <1>0, <1>1 DEF PatchInv
  <2> QED
    BY <2>2, <2>3, <1>1
<1> QED
  BY <1>2, <1>3, <1>4, <1>5 DEF IInv

LEMMA StartTaskInv ==
  ASSUME IInv, NEW t \in Tasks, StartTask(t)
  PROVE  IInv'
<1> USE DEF StartTask, plan, order
<1>1. TypeOK'
  BY DEF IInv, TypeOK
<1>2. OrderInv'
  <2>1. Acyclic(deps)'
    BY DEF IInv, OrderInv, Acyclic
  <2> QED
    BY <2>1 DEF IInv, OrderInv
<1>3. RunInv'
  BY DEF IInv, RunInv, Settled
<1>4. PatchInv'
  BY DEF IInv, PatchInv, DependencyPatch, Upstream
<1> QED
  BY <1>1, <1>2, <1>3, <1>4 DEF IInv

(* A task of the current wave that ends disturbs no patch in use.          *)
LEMMA EndTaskPatch ==
  ASSUME IInv, NEW t \in running, NEW s,
         result' = [result EXCEPT ![t] = s],
         UNCHANGED <<deps, file, waveOf, wave, patch>>
  PROVE  PatchInv'
<1>0. TypeOK /\ OrderInv /\ RunInv /\ PatchInv /\ t \in Tasks
  BY DEF IInv, TypeOK
<1> SUFFICES ASSUME NEW u \in Tasks, waveOf[u] # 0, waveOf[u] <= wave
             PROVE  patch[u] = DependencyPatch(u)'
  BY DEF PatchInv
<1>1. waveOf[t] = wave /\ wave \in Nat /\ \A v \in Tasks : waveOf[v] \in Nat
  BY <1>0 DEF RunInv, TypeOK
<1>2. \A v \in Tasks : waveOf[v] < waveOf[u] => result'[v] = result[v]
  BY <1>0, <1>1 DEF TypeOK
<1>3. DependencyPatch(u)' = DependencyPatch(u)
  BY <1>0, <1>2, PatchKept
<1> QED
  BY <1>0, <1>3 DEF PatchInv

LEMMA SettleTaskInv ==
  ASSUME IInv, NEW t \in Tasks, SettleTask(t)
  PROVE  IInv'
<1> USE DEF SettleTask, plan, order
<1>0. TypeOK /\ OrderInv /\ RunInv
  BY DEF IInv
<1>1. PICK s \in {"verified", "discarded"} : result' = [result EXCEPT ![t] = s]
  OBVIOUS
<1>2. TypeOK'
  BY <1>0, <1>1 DEF TypeOK
<1>3. OrderInv'
  <2>1. Acyclic(deps)'
    BY <1>0 DEF OrderInv, Acyclic
  <2> QED
    BY <1>0, <2>1 DEF OrderInv
<1>4. RunInv'
  <2>1. waveOf[t] = wave /\ wave # 0 /\ wave \in Nat
    BY <1>0 DEF RunInv, TypeOK
  <2>2. \A u \in Tasks : u # t => result'[u] = result[u]
    BY <1>0, <1>1 DEF TypeOK
  <2>3. result'[t] = s
    BY <1>0, <1>1 DEF TypeOK
  <2>4. t \notin waiting /\ stage \notin {"between", "ended"}
    BY <1>0 DEF RunInv
  <2> QED
    BY <1>0, <2>1, <2>2, <2>3, <2>4 DEF RunInv, Settled, TypeOK
<1>5. PatchInv'
  BY <1>1, EndTaskPatch
<1> QED
  BY <1>2, <1>3, <1>4, <1>5 DEF IInv

LEMMA RaiseTaskInv ==
  ASSUME IInv, NEW t \in Tasks, RaiseTask(t)
  PROVE  IInv'
<1> USE DEF RaiseTask, plan, order
<1>0. TypeOK /\ OrderInv /\ RunInv
  BY DEF IInv
<1>2. TypeOK'
  BY <1>0 DEF TypeOK
<1>3. OrderInv'
  <2>1. Acyclic(deps)'
    BY <1>0 DEF OrderInv, Acyclic
  <2>2. stage # "ordering"
    BY <1>0 DEF OrderInv
  <2> QED
    BY <1>0, <2>1, <2>2 DEF OrderInv
<1>4. RunInv'
  <2>1. waveOf[t] = wave /\ wave # 0 /\ wave \in Nat
    BY <1>0 DEF RunInv, TypeOK
  <2>2. \A u \in Tasks : u # t => result'[u] = result[u]
    BY <1>0 DEF TypeOK
  <2>3. t \notin waiting
    BY <1>0 DEF RunInv
  <2> QED
    BY <1>0, <2>1, <2>2, <2>3 DEF RunInv, Settled, TypeOK
<1>5. PatchInv'
  BY EndTaskPatch
<1> QED
  BY <1>2, <1>3, <1>4, <1>5 DEF IInv

LEMMA EndWaveInv ==
  ASSUME IInv, EndWave \/ EndWaves
  PROVE  IInv'
<1> USE DEF EndWave, EndWaves, plan, order
<1>1. TypeOK'
  BY DEF IInv, TypeOK
<1>2. OrderInv'
  <2>1. Acyclic(deps)'
    BY DEF IInv, OrderInv, Acyclic
  <2> QED
    BY <2>1 DEF IInv, OrderInv
<1>3. RunInv'
  BY DEF IInv, RunInv, Settled, TypeOK
<1>4. PatchInv'
  BY DEF IInv, PatchInv, DependencyPatch, Upstream
<1> QED
  BY <1>1, <1>2, <1>3, <1>4 DEF IInv

LEMMA StutterInv ==
  ASSUME IInv, UNCHANGED vars
  PROVE  IInv'
<1> USE DEF vars, plan, order
<1>1. TypeOK'
  BY DEF IInv, TypeOK
<1>2. OrderInv'
  BY DEF IInv, OrderInv, Acyclic
<1>3. RunInv'
  BY DEF IInv, RunInv, Settled
<1>4. PatchInv'
  BY DEF IInv, PatchInv, DependencyPatch, Upstream
<1> QED
  BY <1>1, <1>2, <1>3, <1>4 DEF IInv

LEMMA NextInv == IInv /\ [Next]_vars => IInv'
BY FormWaveInv, OrderedInv, BeginWaveInv, StartTaskInv, SettleTaskInv, RaiseTaskInv,
   EndWaveInv, StutterInv DEF Next, TaskStep

LEMMA Invariance == Spec => []IInv
BY InitInv, NextInv, PTL DEF Spec

-----------------------------------------------------------------------------
(* The variables of the waves keep their types (run_waves).                *)
THEOREM WaveTypeCorrect == Spec => []TypeOK
<1>1. IInv => TypeOK
  BY DEF IInv
<1> QED
  BY <1>1, Invariance, PTL

(* order_waves forms waves until no task remains: whatever the plan, as    *)
(* long as it has no cycle, it never raises DependencyCycle.               *)
THEOREM OrderNeverStuck == Spec => []NeverACycle
<1>1. IInv => NeverACycle
  BY SomeReady DEF IInv, NeverACycle
<1> QED
  BY <1>1, Invariance, PTL

(* A task that has begun works on the diffs of all it depends on, whatever *)
(* else settles while it runs (_dependency_patch).                         *)
THEOREM PatchIsIntegratedTree == Spec => []TestedOnIntegratedTree
<1>1. IInv => TestedOnIntegratedTree
  <2> SUFFICES ASSUME IInv, NEW t \in Tasks, t \in running \/ result[t] # "none"
               PROVE  patch[t] = DependencyPatch(t)
    BY DEF TestedOnIntegratedTree, DependencyPatch
  <2>1. waveOf[t] \in Nat /\ wave \in Nat
    BY DEF IInv, TypeOK
  <2>2. waveOf[t] # 0 /\ waveOf[t] <= wave
    BY <2>1 DEF IInv, RunInv
  <2> QED
    BY <2>2 DEF IInv, PatchInv
<1> QED
  BY <1>1, Invariance, PTL

(* run_waves returns only when every task of the plan has settled.         *)
THEOREM WavesForgetNothing == Spec => []NothingForgotten
<1>1. IInv => NothingForgotten
  <2> SUFFICES ASSUME IInv, stage = "ended", NEW t \in Tasks
               PROVE  Settled(t)
    BY DEF NothingForgotten, Settled
  <2>1. waveOf[t] \in Nat /\ wave \in Nat /\ formed \in Nat
    BY DEF IInv, TypeOK
  <2>2. waveOf[t] # 0 /\ waveOf[t] <= formed /\ wave = formed
    BY DEF IInv, OrderInv, RunInv
  <2> QED
    BY <2>1, <2>2 DEF IInv, RunInv
<1> QED
  BY <1>1, Invariance, PTL

-----------------------------------------------------------------------------
(* The waves as a schedule.                                                *)

LEMMA StatusValue ==
  ASSUME TypeOK, NEW t \in Tasks
  PROVE  /\ status[t] = "running" <=> t \in running
         /\ status[t] = "idle" <=> t \notin running /\ result[t] = "none"
         /\ status[t] = "lost" <=> t \notin running /\ result[t] = "raised"
         /\ status[t] = "settled" <=> t \notin running /\ Settled(t)
BY DEF status, Settled, TypeOK

(* A step that leaves running and result alone is none of the schedule.    *)
LEMMA StatusKept ==
  ASSUME UNCHANGED <<running, result>>
  PROVE  status' = status
BY DEF status

LEMMA StartRefines ==
  ASSUME IInv, NEW t \in Tasks, StartTask(t)
  PROVE  Schedule!Start(t)
<1> USE DEF StartTask, plan, order
<1>0. TypeOK /\ OrderInv /\ RunInv
  BY DEF IInv
<1>1. waveOf[t] # 0 /\ waveOf[t] = wave /\ result[t] = "none" /\ t \notin running
  BY <1>0 DEF RunInv
<1>2. status[t] = "idle"
  BY <1>0, <1>1, StatusValue
<1>3. ASSUME NEW d \in deps[t]
      PROVE  status[d] = "settled"
  <2>1. d \in Tasks /\ waveOf[d] # 0 /\ waveOf[d] < wave
    BY <1>0, <1>1 DEF TypeOK, OrderInv
  <2>2. Settled(d)
    BY <1>0, <2>1 DEF RunInv
  <2>3. d \notin running
    BY <1>0, <2>1 DEF RunInv, TypeOK
  <2> QED
    BY <1>0, <2>1, <2>2, <2>3, StatusValue
<1>4. Schedule!Running = running
  BY <1>0, StatusValue DEF Schedule!Running, TypeOK
<1>5. ASSUME NEW u \in running
      PROVE  file[u] # file[t]
  <2>1. u \in Tasks /\ u # t /\ waveOf[u] = waveOf[t]
    BY <1>0, <1>1 DEF RunInv, TypeOK
  <2> QED
    BY <1>0, <1>1, <2>1 DEF OrderInv
<1>6. status' = [status EXCEPT ![t] = "running"]
  <2>1. \A u \in Tasks : u # t => (u \in running' <=> u \in running)
    OBVIOUS
  <2> QED
    BY <2>1 DEF status
<1>7. Schedule!Cardinality(running) = Cardinality(running)
  BY DEF Schedule!Cardinality, Cardinality
<1> QED
  BY <1>2, <1>3, <1>4, <1>5, <1>6, <1>7 DEF Schedule!Start

LEMMA EndRefines ==
  ASSUME IInv, NEW t \in Tasks, SettleTask(t) \/ RaiseTask(t)
  PROVE  Schedule!End(t)
<1>0. TypeOK /\ t \in running
  BY DEF IInv, SettleTask, RaiseTask
<1>1. status[t] = "running"
  BY <1>0, StatusValue
<1>2. PICK s \in {"verified", "discarded", "raised"} : result' = [result EXCEPT ![t] = s]
  BY DEF SettleTask, RaiseTask
<1>3. running' = running \ {t} /\ UNCHANGED <<deps, file>>
  BY DEF SettleTask, RaiseTask, plan
<1>4. result'[t] = s /\ \A u \in Tasks : u # t => result'[u] = result[u]
  BY <1>0, <1>2 DEF TypeOK
<1>5. \A u \in Tasks : u # t => (u \in running' <=> u \in running)
  BY <1>3
<1>6. status' = [status EXCEPT ![t] = IF s = "raised" THEN "lost" ELSE "settled"]
  BY <1>3, <1>4, <1>5 DEF status
<1> QED
  BY <1>1, <1>3, <1>6 DEF Schedule!End

(* Tasks start after what they depend on, alone in their file and within   *)
(* the permits: run_waves implements the schedule.                         *)
THEOREM WavesImplementSchedule == Spec => ScheduleSpec
<1>1. Init => Schedule!Init
  <2> SUFFICES ASSUME Init
               PROVE  Schedule!Init
    OBVIOUS
  <2>1. status = [t \in Tasks |-> "idle"]
    BY DEF Init, status
  <2> QED
    BY <2>1 DEF Init, Schedule!Init
<1>2. IInv /\ [Next]_vars => [Schedule!Next]_Schedule!vars
  <2> SUFFICES ASSUME IInv, [Next]_vars
               PROVE  [Schedule!Next]_Schedule!vars
    OBVIOUS
  <2>1. CASE \/ FormWave \/ Ordered \/ BeginWave \/ EndWave \/ EndWaves
             \/ UNCHANGED vars
    <3>1. UNCHANGED <<deps, file, running, result>>
      BY <2>1 DEF FormWave, Ordered, BeginWave, EndWave, EndWaves, vars, plan, order
    <3> QED
      BY <3>1, StatusKept DEF Schedule!vars
  <2>2. CASE \E t \in Tasks : TaskStep(t)
    BY <2>2, StartRefines, EndRefines DEF TaskStep, Schedule!Next
  <2> QED
    BY <2>1, <2>2 DEF Next
<1> QED
  BY <1>1, <1>2, Invariance, PTL DEF Spec, ScheduleSpec, Schedule!Spec
=============================================================================
