----------------------------- MODULE FakeSandbox -----------------------------
(***************************************************************************)
(* The sandbox on this machine (principal/sandbox/fake.py).  A run is      *)
(* named by its parent and its script, and identical runs are one          *)
(* execution in one directory: the first caller copies the parent and runs *)
(* the script, the others wait for the lock and get what it remembered.    *)
(***************************************************************************)
EXTENDS Naturals, Sequences

CONSTANTS
  Key,           \* the content hashes of a parent and a script
  Parent,        \* per key, the key of its parent image, or "base"
  Request,       \* calls of run
  KeyOf,         \* per call, the key of what it runs
  Free           \* no call: a lock that is free

ASSUME FakeSandboxAssumption ==
  /\ Free \notin Request
  /\ KeyOf \in [Request -> Key]
  /\ Parent \in [Key -> Key \cup {"base"}]

VARIABLES
  dir,         \* per key: "none", "partial" (a copy that failed) or "used"
  started,     \* per key, what its directory was when the last script began
  finished,    \* per key, the result remembered for it, or "none"
  images,      \* the keys with an image
  lock,        \* per key, the call that holds its lock
  line,        \* per key, the calls that wait for it
  child,       \* per key, the calls whose script is running in its directory
  run          \* where a call is or what it returned, see FakeTypeOK

store == <<started, finished, images>>
fakeVars == <<dir, store, lock, line, child, run>>

FakeInit ==
  /\ dir = [k \in Key |-> "none"]
  /\ started = [k \in Key |-> "none"]
  /\ finished = [k \in Key |-> "none"]
  /\ images = {}
  /\ lock = [k \in Key |-> Free]
  /\ line = [k \in Key |-> << >>]
  /\ child = [k \in Key |-> {}]
  /\ run = [r \in Request |-> "idle"]

Moves(r, to) == run' = [run EXCEPT ![r] = to]
Unlock(k) == lock' = [lock EXCEPT ![k] = Free]
HasParent(k) == Parent[k] = "base" \/ Parent[k] \in images

Ask(r) ==
  /\ run[r] = "idle" /\ HasParent(KeyOf[r])
  /\ Moves(r, "waiting")
  /\ line' = [line EXCEPT ![KeyOf[r]] = Append(@, r)]
  /\ UNCHANGED <<dir, store, lock, child>>

Turn(r, k) ==
  /\ run[r] = "waiting" /\ k = KeyOf[r] /\ lock[k] = Free
  /\ line[k] # << >> /\ Head(line[k]) = r
  /\ line' = [line EXCEPT ![k] = Tail(@)]

(* Somebody ran it already.                                                *)
Remember(r) ==
  /\ \E k \in Key : Turn(r, k) /\ finished[k] # "none" /\ Moves(r, finished[k])
  /\ UNCHANGED <<dir, store, lock, child>>

(* The directory is copied from the parent unless it exists, and the       *)
(* script begins.                                                          *)
Launch(r, k) ==
  LET found == IF dir[k] = "none" THEN "fresh" ELSE dir[k] IN
    /\ started' = [started EXCEPT ![k] = found]
    /\ dir' = [dir EXCEPT ![k] = "used"]
    /\ child' = [child EXCEPT ![k] = @ \cup {r}]
    /\ lock' = [lock EXCEPT ![k] = r]
    /\ Moves(r, "running")

Execute(r) ==
  /\ \E k \in Key : Turn(r, k) /\ finished[k] = "none" /\ Launch(r, k)
  /\ UNCHANGED <<finished, images>>

(* The copy fails half way, outside the try: the directory stays.          *)
CopyFails(r) ==
  /\ \E k \in Key :
       /\ Turn(r, k) /\ finished[k] = "none" /\ dir[k] = "none"
       /\ dir' = [dir EXCEPT ![k] = "partial"]
  /\ Moves(r, "error")
  /\ UNCHANGED <<store, lock, child>>

(* The result of an execution is remembered and its image registered,      *)
(* whatever the result is: green or red, timed out, or not even launched.  *)
Settle(r, k, how) ==
  /\ finished' = [finished EXCEPT ![k] = how]
  /\ images' = images \cup {k}
  /\ child' = [child EXCEPT ![k] = @ \ {r}]
  /\ Unlock(k)
  /\ Moves(r, how)
  /\ UNCHANGED <<dir, started, line>>

Exit(r) ==
  /\ run[r] = "running"
  /\ \E how \in {"ok", "red"} : Settle(r, KeyOf[r], how)

(* The script cannot be launched: exit status 1, remembered.               *)
LaunchFails(r) ==
  /\ \E k \in Key :
       /\ Turn(r, k) /\ finished[k] = "none"
       /\ started' = [started EXCEPT ![k] = IF dir[k] = "none" THEN "fresh" ELSE dir[k]]
       /\ dir' = [dir EXCEPT ![k] = "used"]
       /\ finished' = [finished EXCEPT ![k] = "red"]
       /\ images' = images \cup {k}
  /\ Moves(r, "red")
  /\ UNCHANGED <<lock, child>>

(* wait_for ends, or the caller is cancelled: the script and all it        *)
(* started are killed and waited for.                                      *)
Overdue(r) ==
  /\ run[r] = "running"
  /\ Moves(r, "overdue")
  /\ UNCHANGED <<dir, store, lock, line, child>>

Reaped(r) ==
  /\ run[r] = "overdue"
  /\ Settle(r, KeyOf[r], "timedout")

(* Mutant of FakeCancel: the lock is released and the directory removed    *)
(* while the script runs on.                                               *)
CancelUnreaped(r) ==
  LET k == KeyOf[r] IN
    /\ run[r] \in {"running", "overdue"}
    /\ Moves(r, "cancelled")
    /\ dir' = [dir EXCEPT ![k] = "none"]
    /\ Unlock(k)
    /\ UNCHANGED <<store, line, child>>

FakeCancel(r) ==
  \/ /\ run[r] = "waiting"
     /\ Moves(r, "cancelled")
     /\ line' = [line EXCEPT ![KeyOf[r]] = SelectSeq(@, LAMBDA q : q # r)]
     /\ UNCHANGED <<dir, store, lock, child>>
  \/ /\ run[r] \in {"running", "overdue"}
     /\ Moves(r, "dying")
     /\ UNCHANGED <<dir, store, lock, line, child>>

(* Mutant of Dropped: what the cancelled run left is kept.                 *)
Kept(r) ==
  LET k == KeyOf[r] IN
    /\ run[r] = "dying"
    /\ child' = [child EXCEPT ![k] = @ \ {r}]
    /\ Unlock(k)
    /\ Moves(r, "cancelled")
    /\ UNCHANGED <<dir, store, line>>

(* The child is gone: the directory is removed, the lock released.         *)
Dropped(r) ==
  LET k == KeyOf[r] IN
    /\ run[r] = "dying"
    /\ child' = [child EXCEPT ![k] = @ \ {r}]
    /\ dir' = [dir EXCEPT ![k] = "none"]
    /\ Unlock(k)
    /\ Moves(r, "cancelled")
    /\ UNCHANGED <<store, line>>

FakeStep(r) == Remember(r) \/ Execute(r) \/ Reaped(r) \/ Dropped(r)
FakeTrouble(r) == CopyFails(r) \/ LaunchFails(r) \/ FakeCancel(r)

FakeNext ==
  \E r \in Request : Ask(r) \/ FakeStep(r) \/ Exit(r) \/ Overdue(r) \/ FakeTrouble(r)

FakeSpec == FakeInit /\ [][FakeNext]_fakeVars

-----------------------------------------------------------------------------
(* Every variable stays in its domain.                                     *)
FakeTypeOK ==
  /\ dir \in [Key -> {"none", "partial", "used"}]
  /\ started \in [Key -> {"none", "fresh", "partial", "used"}]
  /\ finished \in [Key -> {"none", "ok", "red", "timedout"}]
  /\ images \subseteq Key
  /\ lock \in [Key -> Request \cup {Free}]
  /\ line \in [Key -> Seq(Request)]
  /\ child \in [Key -> SUBSET Request]
  /\ run \in [Request -> {"idle", "waiting", "running", "overdue", "dying", "ok", "red",
                          "timedout", "cancelled", "error"}]

(* A directory is used by one script at a time, the script of the call     *)
(* that holds its lock, cancelled and timed-out ones included.             *)
OneScript ==
  \A k \in Key, r \in Request : r \in child[k] => lock[k] = r /\ child[k] = {r}

(* A remembered result comes from an execution that began in an untouched  *)
(* copy of the parent, never in the debris of a run before it, unless the  *)
(* copy itself had failed.                                                 *)
StartsFromParent == \A k \in Key : finished[k] # "none" => started[k] \in {"fresh", "partial"}
=============================================================================
