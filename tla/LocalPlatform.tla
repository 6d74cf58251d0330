--------------------------- MODULE LocalPlatform ---------------------------
(***************************************************************************)
(* Jobs on the local platform (principal/orchestrator/job.py without       *)
(* credentials): every job takes the snapshot of the one repository and    *)
(* commit, clones it in its baseline run, and runs an attempt on the image *)
(* of that.  The runs of all jobs are the same, so they share directories. *)
(***************************************************************************)
EXTENDS Snapshot, FakeSandbox

Runs == {"baseline", "attempt"}

ASSUME LocalPlatformAssumption ==
  /\ Key = Runs /\ Request = Job \X Runs
  /\ KeyOf = [r \in Request |-> r[2]]
  /\ Parent = [k \in Key |-> IF k = "baseline" THEN "base" ELSE "baseline"]

VARIABLE
  cloned       \* the tree the last baseline script has cloned

vars == <<snapVars, fakeVars, cloned>>

Init == SnapInit /\ FakeInit /\ cloned = "none"

Baseline(j) == <<j, "baseline">>
Attempt(j) == <<j, "attempt">>
Ended(r) == run[r] \in {"ok", "red", "timedout", "cancelled", "error"}

(* What a job calls, in order: the snapshot first, an attempt only after a *)
(* green baseline.                                                         *)
MayAsk(r) ==
  /\ at[r[1]] = "has"
  /\ r[2] = "attempt" => run[Baseline(r[1])] = "ok"

(* A job has ended its runs, for good or because one of them was not ok.   *)
RunsOver(j) ==
  \/ Ended(Baseline(j)) /\ run[Baseline(j)] # "ok"
  \/ Ended(Attempt(j))

SnapshotStep ==
  /\ \E j \in Job : Want(j) \/ SnapStep(j) \/ SnapTrouble(j) \/ (RunsOver(j) /\ ReadDone(j))
  /\ UNCHANGED <<fakeVars, cloned>>

Served(r) ==
  /\ \/ Execute(r) /\ cloned' = IF r[2] = "baseline" THEN tree ELSE cloned
     \/ (Remember(r) \/ Reaped(r) \/ Dropped(r) \/ Overdue(r)) /\ UNCHANGED cloned
  /\ UNCHANGED snapVars

RunStep(r) ==
  \/ Served(r)
  \/ /\ (MayAsk(r) /\ Ask(r)) \/ Exit(r) \/ FakeTrouble(r)
     /\ UNCHANGED <<snapVars, cloned>>

(* A restart leaves the sandbox's directories behind and starts with an    *)
(* empty root; the calls of the jobs it stopped are gone.                  *)
Restart ==
  /\ Crash
  /\ dir' = [k \in Key |-> "none"]
  /\ started' = [k \in Key |-> "none"]
  /\ finished' = [k \in Key |-> "none"]
  /\ images' = {}
  /\ lock' = [k \in Key |-> Free]
  /\ line' = [k \in Key |-> << >>]
  /\ child' = [k \in Key |-> {}]
  /\ run' = [r \in Request |-> IF at[r[1]] = "idle" THEN "idle" ELSE "error"]
  /\ UNCHANGED cloned

Next == SnapshotStep \/ (\E r \in Request : RunStep(r)) \/ Restart

(* Coroutines that can run do, git calls end, a timeout fires.  Nothing is *)
(* promised of the scripts.                                                *)
Fairness ==
  /\ \A j \in Job : WF_vars(SnapStep(j) /\ UNCHANGED <<fakeVars, cloned>>)
  /\ \A r \in Request : WF_vars(Served(r))

Spec == Init /\ [][Next]_vars
FairSpec == Spec /\ Fairness

-----------------------------------------------------------------------------
(* A baseline is measured on the whole tree: what its script cloned was    *)
(* complete, unless a cancelled build's git had been at work in it.        *)
BaselineOfWholeTree == finished["baseline"] = "ok" /\ ~exposed => cloned = "whole"

(* An image is what its script made of a copy of its parent (see           *)
(* StartsFromParent), and stays so: once a run has returned it no script   *)
(* runs in its directory, and it is not removed while the process lives.   *)
ImagesAreForks ==
  [][/\ StartsFromParent'
     /\ crashes' = crashes =>
          \A k \in images : k \in images' /\ dir'[k] = dir[k] /\ child'[k] = {}]_vars

Waiting(j) == at[j] = "waiting" \/ \E k \in Runs : run[<<j, k>>] = "waiting"

(* Whoever waits for a snapshot or for a run is served, failed or          *)
(* cancelled in the end: no lock is kept for ever.                         *)
NobodyWaitsForEver == \A j \in Job : Waiting(j) ~> ~Waiting(j)
=============================================================================
