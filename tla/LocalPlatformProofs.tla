------------------------ MODULE LocalPlatformProofs ------------------------
(***************************************************************************)
(* Proofs about LocalPlatform, for any number of jobs, git calls and       *)
(* restarts.  The invariant has a part for each lock (whoever builds or    *)
(* executes holds it), a part for what the marker and the remembered       *)
(* results stand for, and a part that ties a job's runs to its snapshot.   *)
(***************************************************************************)
EXTENDS LocalPlatform, TLAPS

AtStates == {"idle", "waiting", "git", "has", "done", "failed", "cancelled", "gone"}
RunStates == {"idle", "waiting", "running", "overdue", "dying", "ok", "red", "timedout",
              "cancelled", "error"}
Active == {"running", "overdue", "dying"}

(* What the proofs need of the types.                                      *)
Typed ==
  /\ at \in [Job -> AtStates]
  /\ marked \in BOOLEAN /\ exposed \in BOOLEAN
  /\ run \in [Request -> RunStates]
  /\ lock \in [Key -> Request \cup {Free}]
  /\ child \in [Key -> SUBSET Request]
  /\ dir \in [Key -> {"none", "partial", "used"}]
  /\ started \in [Key -> {"none", "fresh", "partial", "used"}]
  /\ finished \in [Key -> {"none", "ok", "red", "timedout"}]
  /\ images \subseteq Key

(* Whoever builds holds the lock, before the marker is set.                *)
BuilderOwns == \A j \in Job : at[j] = "git" => owner = j /\ ~marked

(* Without an older git at work a build leads from a partial tree to a     *)
(* whole one, and a tree is handed out only once marked.                   *)
Unexposed == ~exposed => foreign = {} /\ \A j \in Job : at[j] = "git" => tree = "partial"
HasIsMarked == \A j \in Job : at[j] = "has" => marked

SnapInv == BuilderOwns /\ Unexposed /\ HasIsMarked /\ MarkedIsWhole

(* The lock of a directory, the call that is executing and its script are  *)
(* one and the same.                                                       *)
LockHolds == \A k \in Key : child[k] = IF lock[k] = Free THEN {} ELSE {lock[k]}
ActiveHolds ==
  \A r \in Request : run[r] \in Active =>
    lock[KeyOf[r]] = r /\ started[KeyOf[r]] \in {"fresh", "partial"}

(* A used directory nobody works in has a remembered result, and what is   *)
(* remembered is never executed again.                                     *)
UsedIsKnown == \A k \in Key : dir[k] = "used" /\ lock[k] = Free => finished[k] # "none"
KnownIsFree == \A k \in Key : finished[k] # "none" => lock[k] = Free
ImagesKnown == \A k \in images : finished[k] # "none"

FakeInv ==
  LockHolds /\ ActiveHolds /\ UsedIsKnown /\ KnownIsFree /\ ImagesKnown /\ StartsFromParent

(* A job has its snapshot as long as a run of it is under way.             *)
AskedHave ==
  \A r \in Request : run[r] \in Active \cup {"waiting"} => at[r[1]] = "has"
AttemptAfter ==
  \A j \in Job :
    /\ run[Attempt(j)] # "idle" => run[Baseline(j)] \in {"ok", "error"}
    /\ run[Attempt(j)] \in Active \cup {"waiting"} => run[Baseline(j)] = "ok"

(* What is being measured, and what was, is the whole tree.                *)
ClonedWhole == lock["baseline"] # Free /\ ~exposed => cloned = "whole"

JobInv == AskedHave /\ AttemptAfter /\ ClonedWhole /\ BaselineOfWholeTree

Inv == Typed /\ SnapInv /\ FakeInv /\ JobInv

-----------------------------------------------------------------------------
LEMMA Shape ==
  /\ Nobody \notin Job /\ Free \notin Request
  /\ Key = {"baseline", "attempt"} /\ Request = Job \X Key
  /\ \A r \in Request : KeyOf[r] = r[2] /\ KeyOf[r] \in Key /\ r[1] \in Job
  /\ \A j \in Job :
       /\ Baseline(j) \in Request /\ Attempt(j) \in Request
       /\ Baseline(j) # Attempt(j)
       /\ Baseline(j)[1] = j /\ Attempt(j)[1] = j
       /\ KeyOf[Baseline(j)] = "baseline" /\ KeyOf[Attempt(j)] = "attempt"
  /\ \A r \in Request : r = Baseline(r[1]) \/ r = Attempt(r[1])
BY SnapshotAssumption, FakeSandboxAssumption, LocalPlatformAssumption
DEF Runs, Baseline, Attempt

LEMMA InitInv == Init => Inv
<1> SUFFICES ASSUME Init PROVE Inv OBVIOUS
<1>1. Typed
  BY Shape DEF Init, SnapInit, FakeInit, Typed, AtStates, RunStates
<1>2. SnapInv
  BY DEF Init, SnapInit, SnapInv, BuilderOwns, Unexposed, HasIsMarked, MarkedIsWhole
<1>3. FakeInv
  BY Shape DEF Init, FakeInit, FakeInv, LockHolds, ActiveHolds, UsedIsKnown, KnownIsFree,
         ImagesKnown, StartsFromParent, Active
<1>4. JobInv
  BY Shape DEF Init, FakeInit, JobInv, AskedHave, AttemptAfter, ClonedWhole,
         BaselineOfWholeTree, Active
<1> QED BY <1>1, <1>2, <1>3, <1>4 DEF Inv

-----------------------------------------------------------------------------
(* Steps of the snapshot.                                                  *)

LEMMA BuildInv ==
  ASSUME Typed, SnapInv, NEW j \in Job, Build(j)
  PROVE  SnapInv'
<1> USE DEF SnapInv
<1>1. \A k \in Job : at[k] # "git" /\ at[k] # "has"
  BY Shape DEF Build, MyTurn, BuilderOwns, HasIsMarked
<1>2. /\ owner' = j /\ tree' = "partial" /\ marked' = FALSE
      /\ at' = [at EXCEPT ![j] = "git"]
      /\ foreign' = gits /\ exposed' = (exposed \/ gits # {})
  BY DEF Build, Rebuild
<1> QED BY <1>1, <1>2 DEF Typed, BuilderOwns, Unexposed, HasIsMarked, MarkedIsWhole

LEMMA GitEndsInv ==
  ASSUME Typed, SnapInv, NEW j \in Job, GitEnds(j)
  PROVE  SnapInv'
<1> USE DEF SnapInv
<1>1. CASE left[j] > 1
  BY <1>1 DEF GitEnds, BuilderOwns, Unexposed, HasIsMarked, MarkedIsWhole
<1>2. CASE ~(left[j] > 1)
  <2>1. /\ at[j] = "git" /\ at' = [at EXCEPT ![j] = "has"] /\ marked' = TRUE
        /\ tree' = (IF tree = "partial" THEN "whole" ELSE tree)
        /\ owner' = Nobody /\ UNCHANGED <<foreign, exposed>>
    BY <1>2 DEF GitEnds, Release
  <2>2. \A k \in Job : k # j => at'[k] # "git"
    BY <2>1 DEF Typed, BuilderOwns
  <2>3. at'[j] = "has"
    BY <2>1 DEF Typed
  <2> QED BY <2>1, <2>2, <2>3 DEF BuilderOwns, Unexposed, HasIsMarked, MarkedIsWhole
<1> QED BY <1>1, <1>2

LEMMA SnapshotStepKeeps ==
  ASSUME Typed, SnapInv, NEW j \in Job,
         Want(j) \/ SnapStep(j) \/ SnapTrouble(j) \/ ReadDone(j)
  PROVE  /\ SnapInv'
         /\ at' \in [Job -> AtStates] /\ marked' \in BOOLEAN /\ exposed' \in BOOLEAN
         /\ exposed => exposed'
         /\ \A k \in Job : at[k] = "has" /\ at'[k] # "has" => k = j /\ ReadDone(j)
<1> USE DEF SnapInv, AtStates
<1>1. CASE Want(j)
  BY <1>1 DEF Want, Typed, BuilderOwns, Unexposed, HasIsMarked, MarkedIsWhole
<1>2. CASE Reuse(j)
  BY <1>2 DEF Reuse, MyTurn, Typed, BuilderOwns, Unexposed, HasIsMarked, MarkedIsWhole
<1>3. CASE Build(j)
  <2>1. SnapInv' BY <1>3, BuildInv
  <2> QED BY <1>3, <2>1 DEF Build, MyTurn, Rebuild, Typed
<1>4. CASE GitEnds(j)
  <2>1. SnapInv' BY <1>4, GitEndsInv
  <2>2. CASE left[j] > 1 BY <1>4, <2>1, <2>2 DEF GitEnds, Typed
  <2>3. CASE ~(left[j] > 1) BY <1>4, <2>1, <2>3 DEF GitEnds, Typed
  <2> QED BY <2>2, <2>3
<1>5. CASE BuildFails(j)
  BY <1>5, Shape
  DEF BuildFails, MyTurn, Typed, BuilderOwns, Unexposed, HasIsMarked, MarkedIsWhole
<1>6. CASE GitFails(j)
  BY <1>6 DEF GitFails, Release, Typed, BuilderOwns, Unexposed, HasIsMarked, MarkedIsWhole
<1>7. CASE SnapCancel(j)
  BY <1>7 DEF SnapCancel, Typed, BuilderOwns, Unexposed, HasIsMarked, MarkedIsWhole
<1>8. CASE StrayEnds(j)
  BY <1>8 DEF StrayEnds, Typed, BuilderOwns, Unexposed, HasIsMarked, MarkedIsWhole
<1>9. CASE ReadDone(j)
  BY <1>9 DEF ReadDone, Typed, BuilderOwns, Unexposed, HasIsMarked, MarkedIsWhole
<1> QED BY <1>1, <1>2, <1>3, <1>4, <1>5, <1>6, <1>7, <1>8, <1>9 DEF SnapStep, SnapTrouble

(* A job that has its tree keeps it while a run of it is under way.        *)
LEMMA SnapshotStepInv == Inv /\ SnapshotStep => Inv'
<1> SUFFICES ASSUME Inv, SnapshotStep PROVE Inv' OBVIOUS
<1> USE DEF Inv
<1>1. PICK j \in Job : Want(j) \/ SnapStep(j) \/ SnapTrouble(j) \/ (RunsOver(j) /\ ReadDone(j))
  BY DEF SnapshotStep
<1>2. UNCHANGED <<dir, started, finished, images, lock, child, run, cloned>>
  BY DEF SnapshotStep, fakeVars, store
<1>3. /\ SnapInv'
      /\ at' \in [Job -> AtStates] /\ marked' \in BOOLEAN /\ exposed' \in BOOLEAN
      /\ exposed => exposed'
      /\ \A k \in Job : at[k] = "has" /\ at'[k] # "has" => k = j /\ ReadDone(j)
  BY <1>1, SnapshotStepKeeps
<1>4. Typed'
  BY <1>2, <1>3 DEF Typed
<1>5. FakeInv'
  BY <1>2 DEF FakeInv, LockHolds, ActiveHolds, UsedIsKnown, KnownIsFree, ImagesKnown,
              StartsFromParent
<1>6. AskedHave'
  <2>1. CASE RunsOver(j)
    <3>1. run[Baseline(j)] \notin Active \cup {"waiting"}
      BY <2>1, Shape DEF RunsOver, Ended, Active, JobInv, AttemptAfter
    <3>2. run[Attempt(j)] \notin Active \cup {"waiting"}
      BY <2>1, Shape DEF RunsOver, Ended, Active, JobInv, AttemptAfter
    <3> QED BY <3>1, <3>2, <1>2, <1>3, Shape DEF JobInv, AskedHave
  <2>2. CASE ~ReadDone(j)
    BY <2>2, <1>2, <1>3, Shape DEF JobInv, AskedHave
  <2>3. CASE ReadDone(j) /\ ~RunsOver(j)
    <3>1. at[j] = "has" /\ at' = [at EXCEPT ![j] = "done"]
      BY <2>3 DEF ReadDone
    <3>2. FALSE
      BY <2>3, <3>1, <1>1, Shape
      DEF Typed, Want, SnapStep, SnapTrouble, Reuse, Build, MyTurn, GitEnds, BuildFails,
          GitFails, SnapCancel, StrayEnds
    <3> QED BY <3>2
  <2> QED BY <2>1, <2>2, <2>3
<1>7. JobInv'
  BY <1>2, <1>3, <1>6 DEF JobInv, AttemptAfter, ClonedWhole, BaselineOfWholeTree, Attempt, Baseline
<1> QED BY <1>3, <1>4, <1>5, <1>7

-----------------------------------------------------------------------------
(* Steps of the runs: none of them touches the snapshot.                   *)

LEMMA ExecuteInv ==
  ASSUME Inv, NEW r \in Request, NEW k \in Key, Turn(r, k), finished[k] = "none", Launch(r, k),
         UNCHANGED <<finished, images, snapVars>>,
         cloned' = IF r[2] = "baseline" THEN tree ELSE cloned
  PROVE  Inv'
<1> USE DEF Inv
<1>1. /\ run[r] = "waiting" /\ k = KeyOf[r] /\ lock[k] = Free /\ child[k] = {}
      /\ dir[k] \in {"none", "partial"}
  BY DEF Turn, FakeInv, LockHolds, UsedIsKnown, Typed
<1>2. /\ started' = [started EXCEPT ![k] = IF dir[k] = "none" THEN "fresh" ELSE dir[k]]
      /\ dir' = [dir EXCEPT ![k] = "used"]
      /\ child' = [child EXCEPT ![k] = @ \cup {r}]
      /\ lock' = [lock EXCEPT ![k] = r]
      /\ run' = [run EXCEPT ![r] = "running"]
  BY DEF Launch, Moves
<1>3. UNCHANGED <<tree, marked, owner, at, foreign, exposed>>
  BY DEF snapVars
<1>4. Typed'
  BY <1>1, <1>2, <1>3 DEF Typed, RunStates
<1>5. SnapInv'
  BY <1>3 DEF SnapInv, BuilderOwns, Unexposed, HasIsMarked, MarkedIsWhole
<1>6. \A q \in Request : q # r /\ run[q] \in Active => KeyOf[q] # k
  BY <1>1, Shape DEF FakeInv, ActiveHolds
<1>7. FakeInv'
  <2>1. LockHolds'
    <3>1. child'[k] = {r} /\ lock'[k] = r /\ r # Free
      BY <1>1, <1>2, Shape DEF Typed
    <3>2. \A i \in Key \ {k} : child'[i] = child[i] /\ lock'[i] = lock[i]
      BY <1>2 DEF Typed
    <3> QED BY <3>1, <3>2 DEF FakeInv, LockHolds
  <2>2. ActiveHolds'
    BY <1>1, <1>2, <1>6, Shape DEF FakeInv, ActiveHolds, Typed
  <2>3. UsedIsKnown' /\ KnownIsFree' /\ ImagesKnown' /\ StartsFromParent'
    BY <1>1, <1>2, Shape
    DEF FakeInv, UsedIsKnown, KnownIsFree, ImagesKnown, StartsFromParent, Typed
  <2> QED BY <2>1, <2>2, <2>3 DEF FakeInv
<1>8. at[r[1]] = "has" /\ (~exposed => tree = "whole")
  BY <1>1, Shape DEF JobInv, AskedHave, SnapInv, HasIsMarked, MarkedIsWhole
<1>9. JobInv'
  <2>1. AskedHave'
    BY <1>2, <1>3, <1>8 DEF JobInv, AskedHave, Typed
  <2>2. AttemptAfter'
    BY <1>1, <1>2, Shape DEF JobInv, AttemptAfter, Typed
  <2>3. ClonedWhole' /\ BaselineOfWholeTree'
    BY <1>1, <1>2, <1>3, <1>8, Shape DEF JobInv, ClonedWhole, BaselineOfWholeTree, Typed
  <2> QED BY <2>1, <2>2, <2>3 DEF JobInv
<1> QED BY <1>4, <1>5, <1>7, <1>9

(* The order of a job's runs survives a move of a call that was in order.  *)
LEMMA AttemptAfterKept ==
  ASSUME Typed, AttemptAfter, NEW r \in Request, NEW to,
         run' = [run EXCEPT ![r] = to],
         r = Attempt(r[1]) => run[Baseline(r[1])] = "ok",
         r = Baseline(r[1]) => run[Attempt(r[1])] = "idle"
  PROVE  AttemptAfter'
<1> SUFFICES ASSUME NEW j \in Job
             PROVE  /\ run'[Attempt(j)] # "idle" => run'[Baseline(j)] \in {"ok", "error"}
                    /\ run'[Attempt(j)] \in Active \cup {"waiting"} => run'[Baseline(j)] = "ok"
  BY DEF AttemptAfter, Attempt, Baseline
<1>1. /\ Baseline(j) \in Request /\ Attempt(j) \in Request /\ Baseline(j) # Attempt(j)
      /\ Baseline(j)[1] = j /\ Attempt(j)[1] = j
  BY Shape
<1>2. CASE r = Attempt(j)
  BY <1>1, <1>2 DEF Typed
<1>3. CASE r = Baseline(j)
  <2>1. run'[Attempt(j)] = "idle"
    BY <1>1, <1>3 DEF Typed
  <2> QED BY <2>1 DEF Active
<1>4. CASE r # Attempt(j) /\ r # Baseline(j)
  BY <1>1, <1>4 DEF Typed, AttemptAfter
<1> QED BY <1>2, <1>3, <1>4

(* The three ways a call lets go of its directory: with a result (ok, red  *)
(* or timed out), and by removing it after a cancellation.                 *)
LEMMA SettleInv ==
  ASSUME Inv, NEW r \in Request, run[r] \in Active,
         NEW how \in {"ok", "red", "timedout"}, Settle(r, KeyOf[r], how),
         UNCHANGED <<snapVars, cloned>>
  PROVE  Inv'
<1> USE DEF Inv
<1> DEFINE k == KeyOf[r]
<1>1. /\ k \in Key /\ lock[k] = r /\ r # Free /\ child[k] = {r}
      /\ started[k] \in {"fresh", "partial"} /\ finished[k] = "none"
  BY Shape DEF FakeInv, LockHolds, ActiveHolds, KnownIsFree, Typed
<1>2. /\ finished' = [finished EXCEPT ![k] = how]
      /\ images' = images \cup {k}
      /\ child' = [child EXCEPT ![k] = @ \ {r}]
      /\ lock' = [lock EXCEPT ![k] = Free]
      /\ run' = [run EXCEPT ![r] = how]
      /\ UNCHANGED <<dir, started>>
  BY DEF Settle, Unlock, Moves
<1>3. UNCHANGED <<tree, marked, owner, at, foreign, exposed, cloned>>
  BY DEF snapVars
<1> HIDE DEF k
<1>4. Typed'
  BY <1>1, <1>2, <1>3 DEF Typed, RunStates
<1>5. SnapInv'
  BY <1>3 DEF SnapInv, BuilderOwns, Unexposed, HasIsMarked, MarkedIsWhole
<1>6. LockHolds'
  <2>1. child'[k] = {} /\ lock'[k] = Free
    BY <1>1, <1>2 DEF Typed
  <2>2. \A i \in Key \ {k} : child'[i] = child[i] /\ lock'[i] = lock[i]
    BY <1>2 DEF Typed
  <2> QED BY <2>1, <2>2 DEF FakeInv, LockHolds
<1>7. ActiveHolds'
  <2>1. \A q \in Request : q # r /\ run[q] \in Active => KeyOf[q] # k
    BY <1>1 DEF FakeInv, ActiveHolds
  <2>2. run'[r] \notin Active
    BY <1>2 DEF Typed, Active
  <2> QED BY <1>2, <2>1, <2>2, Shape DEF FakeInv, ActiveHolds, Typed
<1>8. UsedIsKnown' /\ KnownIsFree' /\ ImagesKnown' /\ StartsFromParent'
  BY <1>1, <1>2, Shape
  DEF FakeInv, UsedIsKnown, KnownIsFree, ImagesKnown, StartsFromParent, Typed
<1>9. JobInv'
  <2>1. how \notin Active \cup {"waiting"}
    BY DEF Active
  <2>2. AskedHave'
    BY <1>2, <1>3, <2>1 DEF JobInv, AskedHave, Typed
  <2>3. AttemptAfter'
    <3>1. r = Attempt(r[1]) => run[Baseline(r[1])] = "ok"
      BY Shape DEF JobInv, AttemptAfter
    <3>2. r = Baseline(r[1]) => run[Attempt(r[1])] = "idle"
      BY Shape DEF JobInv, AttemptAfter, Active
    <3> QED BY <1>2, <3>1, <3>2, AttemptAfterKept DEF JobInv
  <2>4. ClonedWhole' /\ BaselineOfWholeTree'
    BY <1>1, <1>2, <1>3, Shape DEF JobInv, ClonedWhole, BaselineOfWholeTree, Typed
  <2> QED BY <2>2, <2>3, <2>4 DEF JobInv
<1> QED BY <1>4, <1>5, <1>6, <1>7, <1>8, <1>9 DEF FakeInv

LEMMA DroppedInv ==
  ASSUME Inv, NEW r \in Request, Dropped(r), UNCHANGED <<snapVars, cloned>>
  PROVE  Inv'
<1> USE DEF Inv
<1> DEFINE k == KeyOf[r]
<1>1. /\ run[r] = "dying" /\ k \in Key /\ lock[k] = r /\ r # Free /\ child[k] = {r}
      /\ finished[k] = "none"
  BY Shape DEF Dropped, Active, FakeInv, LockHolds, ActiveHolds, KnownIsFree, Typed
<1>2. /\ child' = [child EXCEPT ![k] = @ \ {r}]
      /\ dir' = [dir EXCEPT ![k] = "none"]
      /\ lock' = [lock EXCEPT ![k] = Free]
      /\ run' = [run EXCEPT ![r] = "cancelled"]
      /\ UNCHANGED <<started, finished, images>>
  BY DEF Dropped, Unlock, Moves, store
<1>3. UNCHANGED <<tree, marked, owner, at, foreign, exposed, cloned>>
  BY DEF snapVars
<1> HIDE DEF k
<1>4. Typed'
  BY <1>1, <1>2, <1>3 DEF Typed, RunStates
<1>5. SnapInv'
  BY <1>3 DEF SnapInv, BuilderOwns, Unexposed, HasIsMarked, MarkedIsWhole
<1>6. LockHolds'
  <2>1. child'[k] = {} /\ lock'[k] = Free
    BY <1>1, <1>2 DEF Typed
  <2>2. \A i \in Key \ {k} : child'[i] = child[i] /\ lock'[i] = lock[i]
    BY <1>2 DEF Typed
  <2> QED BY <2>1, <2>2 DEF FakeInv, LockHolds
<1>7. ActiveHolds'
  <2>1. \A q \in Request : q # r /\ run[q] \in Active => KeyOf[q] # k
    BY <1>1 DEF FakeInv, ActiveHolds
  <2>2. run'[r] \notin Active
    BY <1>2 DEF Typed, Active
  <2> QED BY <1>2, <2>1, <2>2, Shape DEF FakeInv, ActiveHolds, Typed
<1>8. UsedIsKnown' /\ KnownIsFree' /\ ImagesKnown' /\ StartsFromParent'
  BY <1>1, <1>2, Shape
  DEF FakeInv, UsedIsKnown, KnownIsFree, ImagesKnown, StartsFromParent, Typed
<1>9. JobInv'
  <2>2. AskedHave'
    BY <1>2, <1>3 DEF JobInv, AskedHave, Typed, Active
  <2>3. AttemptAfter'
    <3>1. r = Attempt(r[1]) => run[Baseline(r[1])] = "ok"
      BY <1>1, Shape DEF JobInv, AttemptAfter, Active
    <3>2. r = Baseline(r[1]) => run[Attempt(r[1])] = "idle"
      BY <1>1, Shape DEF JobInv, AttemptAfter
    <3> QED BY <1>2, <3>1, <3>2, AttemptAfterKept DEF JobInv
  <2>4. ClonedWhole' /\ BaselineOfWholeTree'
    BY <1>1, <1>2, <1>3, Shape DEF JobInv, ClonedWhole, BaselineOfWholeTree, Typed
  <2> QED BY <2>2, <2>3, <2>4 DEF JobInv
<1> QED BY <1>4, <1>5, <1>6, <1>7, <1>8, <1>9 DEF FakeInv

(* Steps that change neither a lock, nor what runs in a directory: a call  *)
(* moves on, perhaps leaving a partial copy behind.                        *)
LEMMA MovesInv ==
  ASSUME Inv, NEW r \in Request, NEW to \in RunStates, Moves(r, to),
         UNCHANGED <<lock, child, started, finished, images, snapVars, cloned>>,
         dir' \in [Key -> {"none", "partial", "used"}],
         \A k \in Key : dir'[k] = "used" => dir[k] = "used",
         to \in Active => run[r] \in Active,
         to = "waiting" => at[r[1]] = "has",
         r = Attempt(r[1]) => run[Baseline(r[1])] = "ok",
         r = Baseline(r[1]) => run[Attempt(r[1])] = "idle"
  PROVE  Inv'
<1> USE DEF Inv
<1>1. run' = [run EXCEPT ![r] = to]
  BY DEF Moves
<1>2. UNCHANGED <<tree, marked, owner, at, foreign, exposed>>
  BY DEF snapVars
<1>3. Typed'
  BY <1>1, <1>2 DEF Typed
<1>4. SnapInv'
  BY <1>2 DEF SnapInv, BuilderOwns, Unexposed, HasIsMarked, MarkedIsWhole
<1>5. ActiveHolds'
  BY <1>1 DEF FakeInv, ActiveHolds, Typed
<1>6. FakeInv'
  BY <1>5 DEF FakeInv, LockHolds, UsedIsKnown, KnownIsFree, ImagesKnown, StartsFromParent
<1>7. AskedHave'
  BY <1>1, <1>2 DEF JobInv, AskedHave, Typed
<1>8. AttemptAfter'
  BY <1>1, AttemptAfterKept DEF JobInv
<1>9. JobInv'
  BY <1>2, <1>7, <1>8 DEF JobInv, ClonedWhole, BaselineOfWholeTree
<1> QED BY <1>3, <1>4, <1>6, <1>9

LEMMA AskInv ==
  ASSUME Inv, NEW r \in Request, MayAsk(r), Ask(r), UNCHANGED <<snapVars, cloned>>
  PROVE  Inv'
<1>1. /\ run[r] = "idle" /\ Moves(r, "waiting") /\ at[r[1]] = "has"
      /\ UNCHANGED <<dir, lock, child, started, finished, images, snapVars, cloned>>
  BY DEF MayAsk, Ask, store
<1>2. r = Attempt(r[1]) => run[Baseline(r[1])] = "ok"
  <2> SUFFICES ASSUME r = Attempt(r[1]) PROVE run[Baseline(r[1])] = "ok" OBVIOUS
  <2>1. r[2] = "attempt" BY Shape DEF Attempt
  <2> QED BY <2>1 DEF MayAsk
<1>3. r = Baseline(r[1]) => run[Attempt(r[1])] = "idle"
  BY <1>1, Shape DEF Inv, JobInv, AttemptAfter
<1>4. dir' \in [Key -> {"none", "partial", "used"}]
  BY <1>1 DEF Inv, Typed
<1> QED BY <1>1, <1>2, <1>3, <1>4, MovesInv DEF RunStates, Active

(* A call that waits or runs is in order.                                  *)
LEMMA InOrder ==
  ASSUME Inv, NEW r \in Request, run[r] \in Active \cup {"waiting"}
  PROVE  /\ r = Attempt(r[1]) => run[Baseline(r[1])] = "ok"
         /\ r = Baseline(r[1]) => run[Attempt(r[1])] = "idle"
<1>1. r[1] \in Job BY Shape
<1> QED BY <1>1, Shape DEF Inv, JobInv, AttemptAfter, Active

LEMMA RememberInv ==
  ASSUME Inv, NEW r \in Request, Remember(r), UNCHANGED <<snapVars, cloned>>
  PROVE  Inv'
<1>1. PICK k \in Key : Turn(r, k) /\ finished[k] # "none" /\ Moves(r, finished[k])
  BY DEF Remember
<1>2. /\ run[r] = "waiting" /\ finished[k] \in {"ok", "red", "timedout"}
      /\ UNCHANGED <<dir, lock, child, started, finished, images>>
  BY <1>1 DEF Remember, Turn, store, Inv, Typed
<1>3. dir' \in [Key -> {"none", "partial", "used"}]
  BY <1>2 DEF Inv, Typed
<1> QED BY <1>1, <1>2, <1>3, InOrder, MovesInv DEF RunStates, Active

LEMMA CopyFailsInv ==
  ASSUME Inv, NEW r \in Request, CopyFails(r), UNCHANGED <<snapVars, cloned>>
  PROVE  Inv'
<1>1. PICK k \in Key : /\ Turn(r, k) /\ dir[k] = "none"
                       /\ dir' = [dir EXCEPT ![k] = "partial"]
  BY DEF CopyFails
<1>2. /\ run[r] = "waiting" /\ Moves(r, "error")
      /\ UNCHANGED <<lock, child, started, finished, images>>
  BY <1>1 DEF CopyFails, Turn, store
<1>3. /\ dir' \in [Key -> {"none", "partial", "used"}]
      /\ \A i \in Key : dir'[i] = "used" => dir[i] = "used"
  BY <1>1 DEF Inv, Typed
<1> QED BY <1>2, <1>3, InOrder, MovesInv DEF RunStates, Active

LEMMA OverdueInv ==
  ASSUME Inv, NEW r \in Request, Overdue(r), UNCHANGED <<snapVars, cloned>>
  PROVE  Inv'
<1>1. /\ run[r] = "running" /\ Moves(r, "overdue")
      /\ UNCHANGED <<dir, lock, child, started, finished, images>>
  BY DEF Overdue, store
<1>2. dir' \in [Key -> {"none", "partial", "used"}]
  BY <1>1 DEF Inv, Typed
<1> QED BY <1>1, <1>2, InOrder, MovesInv DEF RunStates, Active

LEMMA FakeCancelInv ==
  ASSUME Inv, NEW r \in Request, FakeCancel(r), UNCHANGED <<snapVars, cloned>>
  PROVE  Inv'
<1>1. PICK to \in {"cancelled", "dying"} :
        /\ Moves(r, to)
        /\ run[r] \in Active \cup {"waiting"}
        /\ to = "dying" => run[r] \in Active
  BY DEF FakeCancel, Active
<1>2. UNCHANGED <<dir, lock, child, started, finished, images>>
  BY DEF FakeCancel, store
<1>3. dir' \in [Key -> {"none", "partial", "used"}]
  BY <1>2 DEF Inv, Typed
<1> QED BY <1>1, <1>2, <1>3, InOrder, MovesInv DEF RunStates, Active

(* The script cannot be launched: as if it had run and failed at once.     *)
LEMMA LaunchFailsInv ==
  ASSUME Inv, NEW r \in Request, LaunchFails(r), UNCHANGED <<snapVars, cloned>>
  PROVE  Inv'
<1> USE DEF Inv
<1>1. PICK k \in Key :
        /\ Turn(r, k) /\ finished[k] = "none"
        /\ started' = [started EXCEPT ![k] = IF dir[k] = "none" THEN "fresh" ELSE dir[k]]
        /\ dir' = [dir EXCEPT ![k] = "used"]
        /\ finished' = [finished EXCEPT ![k] = "red"]
        /\ images' = images \cup {k}
  BY DEF LaunchFails
<1>2. /\ run[r] = "waiting" /\ lock[k] = Free /\ dir[k] \in {"none", "partial"}
      /\ run' = [run EXCEPT ![r] = "red"]
      /\ UNCHANGED <<lock, child>>
  BY <1>1 DEF Turn, FakeInv, UsedIsKnown, Typed, LaunchFails, Moves
<1>3. UNCHANGED <<tree, marked, owner, at, foreign, exposed, cloned>>
  BY DEF snapVars
<1>4. Typed'
  BY <1>1, <1>2, <1>3 DEF Typed, RunStates
<1>5. SnapInv'
  BY <1>3 DEF SnapInv, BuilderOwns, Unexposed, HasIsMarked, MarkedIsWhole
<1>6. ActiveHolds'
  <2>1. \A q \in Request : run'[q] \in Active => run[q] \in Active /\ lock[KeyOf[q]] = q
    BY <1>2 DEF FakeInv, ActiveHolds, Typed, Active
  <2>2. \A q \in Request : run'[q] \in Active => KeyOf[q] # k
    BY <2>1, <1>2, Shape
  <2> QED BY <1>1, <1>2, <2>1, <2>2, Shape DEF FakeInv, ActiveHolds, Typed
<1>7. LockHolds' /\ UsedIsKnown' /\ KnownIsFree' /\ ImagesKnown' /\ StartsFromParent'
  BY <1>1, <1>2
  DEF FakeInv, LockHolds, UsedIsKnown, KnownIsFree, ImagesKnown, StartsFromParent, Typed
<1>8. AskedHave'
  BY <1>2, <1>3 DEF JobInv, AskedHave, Typed, Active
<1>9. AttemptAfter'
  BY <1>2, InOrder, AttemptAfterKept DEF JobInv
<1>10. ClonedWhole' /\ BaselineOfWholeTree'
  BY <1>1, <1>2, <1>3, Shape DEF JobInv, ClonedWhole, BaselineOfWholeTree, Typed
<1> QED BY <1>4, <1>5, <1>6, <1>7, <1>8, <1>9, <1>10 DEF FakeInv, JobInv

(* A restart keeps the directory of the snapshot and nothing else.         *)
LEMMA RestartInv == Inv /\ Restart => Inv'
<1> SUFFICES ASSUME Inv, Restart PROVE Inv' OBVIOUS
<1> USE DEF Inv
<1>1. /\ foreign' = {} /\ at' = [j \in Job |-> IF at[j] = "idle" THEN "idle" ELSE "gone"]
      /\ UNCHANGED <<tree, marked, exposed, cloned>>
  BY DEF Restart, Crash
<1>2. /\ dir' = [k \in Key |-> "none"] /\ started' = [k \in Key |-> "none"]
      /\ finished' = [k \in Key |-> "none"] /\ images' = {}
      /\ lock' = [k \in Key |-> Free] /\ child' = [k \in Key |-> {}]
      /\ run' = [r \in Request |-> IF at[r[1]] = "idle" THEN "idle" ELSE "error"]
  BY DEF Restart
<1>3. Typed'
  BY <1>1, <1>2 DEF Typed, AtStates, RunStates
<1>4. SnapInv'
  BY <1>1 DEF SnapInv, BuilderOwns, Unexposed, HasIsMarked, MarkedIsWhole
<1>5. FakeInv'
  BY <1>2
  DEF FakeInv, LockHolds, ActiveHolds, UsedIsKnown, KnownIsFree, ImagesKnown,
      StartsFromParent, Active
<1>6. JobInv'
  <2>1. AskedHave'
    BY <1>2 DEF AskedHave, Active
  <2>2. AttemptAfter'
    BY <1>2, Shape DEF AttemptAfter, Active
  <2>3. ClonedWhole' /\ BaselineOfWholeTree'
    BY <1>2, Shape DEF ClonedWhole, BaselineOfWholeTree
  <2> QED BY <2>1, <2>2, <2>3 DEF JobInv
<1> QED BY <1>3, <1>4, <1>5, <1>6

LEMMA StutterInv == Inv /\ UNCHANGED vars => Inv'
BY DEF Inv, vars, snapVars, fakeVars, store, Typed, SnapInv, BuilderOwns, Unexposed, HasIsMarked,
       MarkedIsWhole, FakeInv, LockHolds, ActiveHolds, UsedIsKnown, KnownIsFree, ImagesKnown,
       StartsFromParent, JobInv, AskedHave, AttemptAfter, ClonedWhole, BaselineOfWholeTree,
       Baseline, Attempt

LEMMA NextInv == Inv /\ [Next]_vars => Inv'
<1> SUFFICES ASSUME Inv, [Next]_vars PROVE Inv' OBVIOUS
<1>1. CASE SnapshotStep
  BY <1>1, SnapshotStepInv
<1>2. CASE Restart
  BY <1>2, RestartInv
<1>3. ASSUME NEW r \in Request, Served(r) PROVE Inv'
  <2>1. CASE Execute(r) /\ cloned' = IF r[2] = "baseline" THEN tree ELSE cloned
    <3>1. PICK k \in Key : Turn(r, k) /\ finished[k] = "none" /\ Launch(r, k)
      BY <2>1 DEF Execute
    <3>2. UNCHANGED <<finished, images, snapVars>>
      BY <2>1, <1>3 DEF Execute, Served
    <3> QED BY <2>1, <3>1, <3>2, ExecuteInv
  <2>2. CASE Remember(r) /\ UNCHANGED cloned
    BY <1>3, <2>2, RememberInv DEF Served
  <2>3. CASE Reaped(r) /\ UNCHANGED cloned
    BY <1>3, <2>3, SettleInv DEF Served, Reaped, Active
  <2>4. CASE Dropped(r) /\ UNCHANGED cloned
    BY <1>3, <2>4, DroppedInv DEF Served
  <2>5. CASE Overdue(r) /\ UNCHANGED cloned
    BY <1>3, <2>5, OverdueInv DEF Served
  <2> QED BY <1>3, <2>1, <2>2, <2>3, <2>4, <2>5 DEF Served
<1>4. ASSUME NEW r \in Request,
             (MayAsk(r) /\ Ask(r)) \/ Exit(r) \/ FakeTrouble(r), UNCHANGED <<snapVars, cloned>>
      PROVE  Inv'
  <2>1. CASE MayAsk(r) /\ Ask(r)
    BY <1>4, <2>1, AskInv
  <2>2. CASE Exit(r)
    <3>1. PICK how \in {"ok", "red"} : run[r] = "running" /\ Settle(r, KeyOf[r], how)
      BY <2>2 DEF Exit
    <3> QED BY <1>4, <3>1, SettleInv DEF Active
  <2>3. CASE CopyFails(r)
    BY <1>4, <2>3, CopyFailsInv
  <2>4. CASE LaunchFails(r)
    BY <1>4, <2>4, LaunchFailsInv
  <2>5. CASE FakeCancel(r)
    BY <1>4, <2>5, FakeCancelInv
  <2> QED BY <1>4, <2>1, <2>2, <2>3, <2>4, <2>5 DEF FakeTrouble
<1>5. CASE UNCHANGED vars
  BY <1>5, StutterInv
<1> QED BY <1>1, <1>2, <1>3, <1>4, <1>5 DEF Next, RunStep

THEOREM Invariant == Spec => []Inv
<1> QED BY InitInv, NextInv, PTL DEF Spec

-----------------------------------------------------------------------------
(* A baseline that passed was measured on the whole tree, for any number   *)
(* of jobs, cancellations and restarts (BaselineOfWholeTree).              *)
THEOREM WholeTree == Spec => []BaselineOfWholeTree
<1>1. Inv => BaselineOfWholeTree
  BY DEF Inv, JobInv
<1> QED BY <1>1, Invariant, PTL

(* A directory of the local sandbox is used by one script, that of the     *)
(* call that holds its lock.                                               *)
THEOREM OneAtATime == Spec => []OneScript
<1>1. Inv => OneScript
  BY DEF Inv, FakeInv, LockHolds, OneScript, Typed
<1> QED BY <1>1, Invariant, PTL

(* The bound on restarts is one on a number.                               *)
Counted == crashes \in Nat

LEMMA CrashesCounted == Spec => []Counted
<1>1. Init => Counted
  BY DEF Init, SnapInit, Counted
<1>2. Counted /\ [Next]_vars => Counted'
  <2> SUFFICES ASSUME crashes \in Nat, [Next]_vars PROVE crashes' \in Nat BY DEF Counted
  <2>1. CASE SnapshotStep
    BY <2>1
    DEF SnapshotStep, Want, SnapStep, SnapTrouble, Reuse, Build, GitEnds, BuildFails, GitFails,
        SnapCancel, StrayEnds, ReadDone
  <2>2. CASE Restart
    BY <2>2 DEF Restart, Crash
  <2>3. CASE (\E r \in Request : RunStep(r)) \/ UNCHANGED vars
    BY <2>3 DEF RunStep, Served, vars, snapVars
  <2> QED BY <2>1, <2>2, <2>3 DEF Next
<1> QED BY <1>1, <1>2, PTL DEF Spec

(* An image begins as a copy of its parent and is never touched again.     *)
LEMMA ImageStep ==
  ASSUME Inv, Inv', Counted, [Next]_vars
  PROVE  StartsFromParent' /\ (crashes' = crashes =>
            \A k \in images : k \in images' /\ dir'[k] = dir[k] /\ child'[k] = {})
<1> USE DEF Inv
<1>1. StartsFromParent'
  BY DEF FakeInv
<1> SUFFICES ASSUME crashes' = crashes, NEW k \in images
             PROVE  k \in images' /\ dir'[k] = dir[k] /\ child'[k] = {}
  BY <1>1
<1>2. k \in Key /\ finished[k] # "none" /\ lock[k] = Free
  BY DEF FakeInv, ImagesKnown, KnownIsFree, Typed
<1>3. k \in images' => child'[k] = {}
  BY DEF FakeInv, ImagesKnown, KnownIsFree, LockHolds, Typed
<1>4. \A r \in Request : run[r] \in Active => KeyOf[r] # k
  BY <1>2, Shape DEF FakeInv, ActiveHolds
<1>5. k \in images' /\ dir'[k] = dir[k]
  <2>1. CASE SnapshotStep \/ UNCHANGED vars
    BY <2>1 DEF SnapshotStep, vars, fakeVars, store
  <2>2. CASE Restart
    BY <2>2 DEF Restart, Crash, Counted
  <2>3. ASSUME NEW r \in Request, RunStep(r) PROVE k \in images' /\ dir'[k] = dir[k]
    <3>1. CASE Ask(r) \/ Remember(r) \/ Overdue(r)
      BY <3>1 DEF Ask, Remember, Overdue, store
    <3>2. CASE Execute(r)
      BY <3>2, <1>2 DEF Execute, Launch, Typed
    <3>3. CASE Reaped(r) \/ Exit(r)
      BY <3>3 DEF Reaped, Exit, Settle
    <3>4. CASE Dropped(r)
      BY <3>4, <1>2, <1>4 DEF Dropped, Active, store, Typed
    <3>5. CASE CopyFails(r)
      BY <3>5, <1>2 DEF CopyFails, store, Typed
    <3>6. CASE LaunchFails(r)
      BY <3>6, <1>2 DEF LaunchFails, Typed
    <3>7. CASE FakeCancel(r)
      BY <3>7 DEF FakeCancel, store
    <3> QED BY <2>3, <3>1, <3>2, <3>3, <3>4, <3>5, <3>6, <3>7 DEF RunStep, Served, FakeTrouble
  <2> QED BY <2>1, <2>2, <2>3 DEF Next
<1> QED BY <1>3, <1>5

(* What an image holds is what its script made of its parent, for as long  *)
(* as the process lives (ImagesAreForks).                                  *)
THEOREM Forks == Spec => ImagesAreForks
<1>1. ASSUME Inv, Inv', Counted, [Next]_vars
      PROVE  [/\ StartsFromParent'
              /\ crashes' = crashes =>
                   \A k \in images : k \in images' /\ dir'[k] = dir[k] /\ child'[k] = {}]_vars
  BY <1>1, ImageStep
<1> QED BY <1>1, Invariant, CrashesCounted, PTL DEF Spec, ImagesAreForks
=============================================================================
