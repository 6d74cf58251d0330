------------------------------ MODULE Snapshot ------------------------------
(***************************************************************************)
(* The local copy of a repository at a commit (ensure_snapshot in          *)
(* principal/sandbox/baseline.py): one destination, the lock that          *)
(* serialises its builds, the marker that ends a build, and the jobs that  *)
(* want it.  git runs in processes of its own, and a cancelled coroutine   *)
(* does not end the one it waits for.                                      *)
(***************************************************************************)
EXTENDS Naturals, Sequences, FiniteSets

CONSTANTS
  Job,           \* the jobs that ask for this repository and commit
  Nobody,        \* no job: a lock that is free
  GitCalls,      \* calls of _git in one build: six after a copy, two for a clone
  MaxCrashes     \* bound: how often the process restarts

ASSUME SnapshotAssumption ==
  /\ Nobody \notin Job
  /\ GitCalls \in Nat \ {0} /\ MaxCrashes \in Nat

VARIABLES
  tree,        \* the destination: "none", "partial", "whole" or "mixed"
  marked,      \* whether .principal-ok is there
  owner,       \* the job that holds the lock
  waiting,     \* the jobs in the lock's queue
  at,          \* where a job is, see SnapTypeOK
  left,        \* git calls the build of a job still has to make
  gits,        \* the jobs a git process of which is running
  foreign,     \* those of them that started before the present tree was made
  exposed,     \* history: a tree was made while an older git was running
  crashes

snapVars == <<tree, marked, owner, waiting, at, left, gits, foreign, exposed, crashes>>

SnapInit ==
  /\ tree = "none" /\ marked = FALSE
  /\ owner = Nobody /\ waiting = << >>
  /\ at = [j \in Job |-> "idle"]
  /\ left = [j \in Job |-> 0]
  /\ gits = {} /\ foreign = {}
  /\ exposed = FALSE /\ crashes = 0

(* A job calls ensure_snapshot and joins the queue of the lock.            *)
Want(j) ==
  /\ at[j] = "idle"
  /\ at' = [at EXCEPT ![j] = "waiting"]
  /\ waiting' = Append(waiting, j)
  /\ UNCHANGED <<tree, marked, owner, left, gits, foreign, exposed, crashes>>

MyTurn(j) ==
  /\ at[j] = "waiting" /\ owner = Nobody
  /\ waiting # << >> /\ Head(waiting) = j

(* Mutant of Reuse: any directory that is there will do.                   *)
ReuseAnyTree(j) ==
  /\ MyTurn(j) /\ tree # "none"
  /\ waiting' = Tail(waiting)
  /\ at' = [at EXCEPT ![j] = "has"]
  /\ UNCHANGED <<tree, marked, owner, left, gits, foreign, exposed, crashes>>

(* The marker is there: the tree is handed out as it is.                   *)
Reuse(j) ==
  /\ MyTurn(j) /\ marked
  /\ waiting' = Tail(waiting)
  /\ at' = [at EXCEPT ![j] = "has"]
  /\ UNCHANGED <<tree, marked, owner, left, gits, foreign, exposed, crashes>>

(* No marker: what is there is removed and made again, without an await,   *)
(* up to the first call of git.                                            *)
Rebuild(j) ==
  /\ owner' = j
  /\ tree' = "partial" /\ marked' = FALSE
  /\ at' = [at EXCEPT ![j] = "git"]
  /\ left' = [left EXCEPT ![j] = GitCalls]
  /\ foreign' = gits
  /\ gits' = gits \cup {j}
  /\ exposed' = (exposed \/ gits # {})

Build(j) ==
  /\ MyTurn(j) /\ ~marked
  /\ waiting' = Tail(waiting)
  /\ Rebuild(j)
  /\ UNCHANGED crashes

(* An older git still running makes the removal incomplete: the copy or    *)
(* the clone finds the destination in its way and raises.                  *)
BuildFails(j) ==
  /\ MyTurn(j) /\ ~marked /\ gits # {}
  /\ waiting' = Tail(waiting)
  /\ tree' = "mixed"
  /\ at' = [at EXCEPT ![j] = "failed"]
  /\ UNCHANGED <<marked, owner, left, gits, foreign, exposed, crashes>>

Release == owner' = Nobody

(* The git call a job waits for ends well: the next one, or the marker.    *)
GitEnds(j) ==
  /\ at[j] = "git"
  /\ left' = [left EXCEPT ![j] = @ - 1]
  /\ IF left[j] > 1
     THEN UNCHANGED <<tree, marked, owner, at, gits>>
     ELSE /\ gits' = gits \ {j}
          /\ tree' = IF tree = "partial" THEN "whole" ELSE tree
          /\ marked' = TRUE
          /\ at' = [at EXCEPT ![j] = "has"]
          /\ Release
  /\ UNCHANGED <<waiting, foreign, exposed, crashes>>

GitFails(j) ==
  /\ at[j] = "git"
  /\ gits' = gits \ {j}
  /\ at' = [at EXCEPT ![j] = "failed"]
  /\ Release
  /\ UNCHANGED <<tree, marked, waiting, left, foreign, exposed, crashes>>

(* Mutant of SnapCancel: only git's own failure releases the lock.         *)
CancelHoldsLock(j) ==
  /\ at[j] \in {"waiting", "git"}
  /\ at' = [at EXCEPT ![j] = "cancelled"]
  /\ waiting' = SelectSeq(waiting, LAMBDA k : k # j)
  /\ UNCHANGED <<tree, marked, owner, left, gits, foreign, exposed, crashes>>

(* The job is cancelled at an await: the lock is released and the git      *)
(* process runs on.                                                        *)
SnapCancel(j) ==
  /\ at[j] \in {"waiting", "git"}
  /\ at' = [at EXCEPT ![j] = "cancelled"]
  /\ waiting' = SelectSeq(waiting, LAMBDA k : k # j)
  /\ owner' = IF owner = j THEN Nobody ELSE owner
  /\ UNCHANGED <<tree, marked, left, gits, foreign, exposed, crashes>>

(* A git nobody waits for ends.  When the tree has been made again since,  *)
(* it may have written into it.                                            *)
StrayEnds(j) ==
  /\ j \in gits /\ at[j] = "cancelled"
  /\ gits' = gits \ {j} /\ foreign' = foreign \ {j}
  /\ tree' \in {tree} \cup (IF j \in foreign THEN {"mixed"} ELSE {})
  /\ UNCHANGED <<marked, owner, waiting, at, left, exposed, crashes>>

(* The job goes on with the tree, and is done with it later.               *)
ReadDone(j) ==
  /\ at[j] = "has"
  /\ at' = [at EXCEPT ![j] = "done"]
  /\ UNCHANGED <<tree, marked, owner, waiting, left, gits, foreign, exposed, crashes>>

(* The process is restarted.  The directory is all that survives.          *)
Crash ==
  /\ crashes < MaxCrashes
  /\ crashes' = crashes + 1
  /\ owner' = Nobody /\ waiting' = << >>
  /\ gits' = {} /\ foreign' = {}
  /\ at' = [j \in Job |-> IF at[j] = "idle" THEN "idle" ELSE "gone"]
  /\ UNCHANGED <<tree, marked, left, exposed>>

SnapStep(j) == Reuse(j) \/ Build(j) \/ GitEnds(j)
SnapTrouble(j) == BuildFails(j) \/ GitFails(j) \/ SnapCancel(j) \/ StrayEnds(j)

SnapNext ==
  \/ \E j \in Job : Want(j) \/ SnapStep(j) \/ SnapTrouble(j) \/ ReadDone(j)
  \/ Crash

SnapSpec == SnapInit /\ [][SnapNext]_snapVars

-----------------------------------------------------------------------------
(* Every variable stays in its domain.                                     *)
SnapTypeOK ==
  /\ tree \in {"none", "partial", "whole", "mixed"}
  /\ marked \in BOOLEAN
  /\ owner \in Job \cup {Nobody}
  /\ waiting \in Seq(Job)
  /\ at \in [Job -> {"idle", "waiting", "git", "has", "done", "failed", "cancelled", "gone"}]
  /\ left \in [Job -> 0..GitCalls]
  /\ gits \subseteq Job /\ foreign \subseteq gits
  /\ exposed \in BOOLEAN
  /\ crashes \in 0..MaxCrashes

(* A marked tree is whole, after any order of builds, failures, crashes    *)
(* and cancellations, unless it was made while the git of a cancelled      *)
(* build was still running.                                                *)
MarkedIsWhole == marked /\ ~exposed => tree = "whole"

(* The lock lets one job build at a time: the others wait, even while the  *)
(* one that builds is between two calls of git.                            *)
OneBuilder == \A j, k \in Job : at[j] = "git" /\ at[k] = "git" => j = k

(* No job takes down a tree another job is reading.                        *)
ReadersUndisturbed ==
  [][\A j \in Job : at[j] = "has" /\ at'[j] = "has" /\ ~exposed' => tree' = tree]_snapVars

(* Not so (README, disagreements): the reason given for the lock is that   *)
(* two builds must never work in one directory (baseline.py:57-59), but    *)
(* the git of a cancelled build runs on after its lock is released.        *)
OneWriter == Cardinality(gits) <= 1
=============================================================================
