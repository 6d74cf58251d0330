----------------------------- MODULE SandboxRun -----------------------------
(***************************************************************************)
(* Runs on the remote sandbox platform: ContreeSandbox.run                 *)
(* (principal/sandbox/client.py) with its semaphore, retries, timeout and  *)
(* cancellation, the scripts it sends (scripts.py), and what the run that  *)
(* comes back is taken for (runner.py, gates/tests.py, baseline.py).       *)
(*                                                                         *)
(* An operation belongs to a call and to one of its tries; the platform    *)
(* and the client library are modelled from how client.py uses them.       *)
(***************************************************************************)
EXTENDS Integers, Sequences, FiniteSets

CONSTANTS
  Call,           \* calls of run
  Scripts,        \* the assignments of a script to every call
  Attempts,       \* _TRANSIENT_ATTEMPTS
  MaxInflight     \* permits of the semaphore

ASSUME SandboxAssumption ==
  /\ Scripts \subseteq [Call -> {"baseline", "attempt", "integration"}]
  /\ Attempts \in Nat \ {0} /\ MaxInflight \in Nat \ {0}
  /\ IsFiniteSet(Call)

Try == 1..Attempts

VARIABLES
  script,      \* what each call runs
  queue,       \* calls waiting for the semaphore, first come first served
  permits,     \* free permits
  at,          \* where the coroutine of a call is, see TypeOK
  try,         \* the number of its current try, 0 before the first
  known,       \* its tries whose operation id it was told
  why,         \* what its clean-up ends with: "timeout" or "cancelled"
  outcome,     \* what the call returns or raises, "none" before
  result,      \* the run a call has read
  op,          \* per call and try, the operation on the platform
  unstopped    \* operations whose cancellation failed or was cut off itself

client == <<script, queue, permits, at, try, known, why, outcome, result>>
platform == <<op, unstopped>>
vars == <<client, platform>>

-----------------------------------------------------------------------------
(* What a script can have done when its operation ends.  "cut" is a run    *)
(* stopped from outside: with its whole machine (then nothing is emitted)  *)
(* or pytest alone, by the OOM killer.  A fork of C0 starts with the       *)
(* /tmp/report.json of the baseline's green run in it, which is emitted    *)
(* when pytest ends before it has written its own.                         *)

Ran(exit, report, end) == [exit |-> exit, report |-> report, end |-> end]

TimedOut == -1       \* the platform's exit status of an operation at its timeout
Stopped == {TimedOut, 124, 137, 143}

LeftReport(kind) == IF kind = "baseline" THEN "none" ELSE "left"
NotApplied(kind) == CASE kind = "baseline" -> 97
                      [] kind = "attempt" -> 90
                      [] kind = "integration" -> 91

Results(kind) ==
  {Ran(0, "own", "whole"), Ran(1, "own", "whole")}        \* green, red
  \cup {Ran(4, LeftReport(kind), "whole")}                \* pytest cannot start
  \cup {Ran(137, LeftReport(kind), "cut")}                \* pytest killed
  \cup {Ran(e, "none", "cut") : e \in Stopped}            \* the machine killed
  \cup {Ran(NotApplied(kind), "none", "whole")}

InfraExitCodes == {124, 137, 143}

(* _parse and the gate over it.                                            *)
ApplyFailed(r) == r.exit = 90
Infrastructure(r) == ~ApplyFailed(r) /\ r.report = "none" /\ r.exit \in InfraExitCodes
Failed(r) == r.report = "own" /\ r.exit = 1
Errors(r) == r.report = "none" /\ r.exit # 0
(* Mutant: the exit status is not looked at.                               *)
GreenByReport(r) == ~Failed(r) /\ ~Errors(r) /\ ~ApplyFailed(r)
Green(r) == r.exit = 0 /\ ~Failed(r) /\ ~Errors(r) /\ ~ApplyFailed(r)

GateVerdict(r) ==
  CASE ApplyFailed(r) -> "syntax"
    [] Infrastructure(r) -> "infrastructure"
    [] Green(r) -> "ok"
    [] OTHER -> "red"

IntegrationVerdict(r) == IF r.exit = 91 THEN "conflict" ELSE GateVerdict(r)

(* build_baseline: a cut baseline run is a red one.                        *)
BaselineVerdict(r) == IF r.exit # 0 \/ Failed(r) THEN "red" ELSE "ok"

Verdict(kind, r) ==
  CASE kind = "baseline" -> BaselineVerdict(r)
    [] kind = "attempt" -> GateVerdict(r)
    [] kind = "integration" -> IntegrationVerdict(r)

-----------------------------------------------------------------------------
NoResult == Ran(0, "none", "whole")

Init ==
  /\ script \in Scripts
  /\ queue = << >> /\ permits = MaxInflight
  /\ at = [c \in Call |-> "idle"]
  /\ try = [c \in Call |-> 0]
  /\ known = [c \in Call |-> {}]
  /\ why = [c \in Call |-> "none"]
  /\ outcome = [c \in Call |-> "none"]
  /\ op = [c \in Call |-> [n \in Try |-> "none"]]
  /\ result = [c \in Call |-> NoResult]
  /\ unstopped = [c \in Call |-> {}]

(* op_holder["id"]: the last id the sink was given.                        *)
Held(c) == IF known[c] = {} THEN 0 ELSE CHOOSE n \in known[c] : \A m \in known[c] : m <= n

Inside == {"starting", "watching", "backoff"}    \* wait_for is running

Unsent == <<script, permits, try, known, why, result, platform>>

JoinQueue(c) ==
  /\ at' = [at EXCEPT ![c] = "queued"]
  /\ queue' = Append(queue, c)
  /\ UNCHANGED <<outcome, Unsent>>

(* The call is made.  The baseline looks its base image up first, with     *)
(* retries of its own and no semaphore.                                    *)
Begin(c) ==
  /\ at[c] = "idle"
  /\ IF script[c] = "baseline"
     THEN at' = [at EXCEPT ![c] = "using"] /\ UNCHANGED <<queue, outcome, Unsent>>
     ELSE JoinQueue(c)

Use(c) == at[c] = "using" /\ JoinQueue(c)

UseFails(c) ==
  /\ at[c] = "using"
  /\ at' = [at EXCEPT ![c] = "done"]
  /\ outcome' = [outcome EXCEPT ![c] = "failed"]
  /\ UNCHANGED <<queue, Unsent>>

(* A try sends the request that starts the operation.                      *)
Send(c) ==
  /\ try' = [try EXCEPT ![c] = @ + 1]
  /\ at' = [at EXCEPT ![c] = "starting"]
  /\ op' = [op EXCEPT ![c][try[c] + 1] = "sent"]
  /\ UNCHANGED <<script, known, why, outcome, result, unstopped>>

Enter(c) ==
  /\ at[c] = "queued" /\ Head(queue) = c /\ permits > 0
  /\ queue' = Tail(queue)
  /\ permits' = permits - 1
  /\ Send(c)

Retry(c) ==
  /\ at[c] = "backoff"
  /\ Send(c)
  /\ UNCHANGED <<queue, permits>>

(* The coroutine leaves the semaphore and ends.                            *)
End(c, with) ==
  /\ at' = [at EXCEPT ![c] = "done"]
  /\ outcome' = [outcome EXCEPT ![c] = with]
  /\ permits' = permits + 1

(* The request is answered: the probe hands the id to the sink.            *)
Started(c) ==
  /\ at[c] = "starting"
  /\ op[c][try[c]] \notin {"none", "sent"}
  /\ at' = [at EXCEPT ![c] = "watching"]
  /\ known' = [known EXCEPT ![c] = @ \cup {try[c]}]
  /\ UNCHANGED <<script, queue, permits, try, why, outcome, result, platform>>

(* _retrying: a transient failure, to be tried again or the last one.      *)
TryFailed(c) ==
  IF try[c] < Attempts
  THEN /\ at' = [at EXCEPT ![c] = "backoff"]
       /\ UNCHANGED <<permits, outcome>>
  ELSE End(c, "failed")

(* The request fails with a 5xx or without an answer: the platform may     *)
(* have accepted it, or may accept it later.                               *)
StartFails(c) ==
  /\ at[c] = "starting"
  /\ TryFailed(c)
  /\ UNCHANGED <<script, queue, try, known, why, result, platform>>

(* A 403, or another failure that is not transient, before an operation.   *)
StartRefused(c) ==
  /\ at[c] = "starting"
  /\ op[c][try[c]] = "sent"
  /\ End(c, "failed")
  /\ op' = [op EXCEPT ![c][try[c]] = "none"]
  /\ UNCHANGED <<script, queue, try, known, why, result, unstopped>>

Stop(c, n) == op' = [op EXCEPT ![c][n] = IF @ = "running" THEN "stopped" ELSE @]
NotStopped(c, n) ==
  /\ unstopped' = [unstopped EXCEPT ![c] = @ \cup {n}]
  /\ UNCHANGED op

(* Eight polls in a row fail, or one for a reason that is not transient;   *)
(* the client library cancels the operation, if it can, and raises.        *)
PollsFail(c) ==
  /\ at[c] = "watching"
  /\ TryFailed(c) \/ End(c, "failed")
  /\ \/ Stop(c, try[c]) /\ UNCHANGED unstopped
     \/ NotStopped(c, try[c])
  /\ UNCHANGED <<script, queue, try, known, why, result>>

(* The operation has finished and its result is read.                      *)
Receive(c) ==
  /\ at[c] = "watching"
  /\ op[c][try[c]] = "finished"
  /\ \E r \in Results(script[c]) :
       /\ result' = [result EXCEPT ![c] = r]
       /\ End(c, Verdict(script[c], r))
  /\ UNCHANGED <<script, queue, try, known, why, platform>>

(* Mutant: the operation is left to itself.                                *)
GiveUpAtOnce(c, reason) == End(c, reason) /\ UNCHANGED why

(* The wait is over: cancel the operation it knows, then raise.            *)
GiveUp(c, reason) ==
  IF Held(c) = 0
  THEN End(c, reason) /\ UNCHANGED why
  ELSE /\ at' = [at EXCEPT ![c] = "stopping"]
       /\ why' = [why EXCEPT ![c] = reason]
       /\ UNCHANGED <<permits, outcome>>

(* Mutant of TimeOut: no deadline once the operation is known.             *)
TimeOutOnceKnown(c) ==
  /\ at[c] \in {"starting", "backoff"}
  /\ GiveUp(c, "timeout")
  /\ UNCHANGED <<script, queue, try, known, result, platform>>

(* wait_for reaches timeout_s + 60.                                        *)
TimeOut(c) ==
  /\ at[c] \in Inside
  /\ GiveUp(c, "timeout")
  /\ UNCHANGED <<script, queue, try, known, result, platform>>

(* The caller is cancelled, which it can be at every await.                *)
Cancel(c) ==
  \/ /\ at[c] \in {"using", "queued"}
     /\ at' = [at EXCEPT ![c] = "done"]
     /\ outcome' = [outcome EXCEPT ![c] = "cancelled"]
     /\ queue' = SelectSeq(queue, LAMBDA d : d # c)
     /\ UNCHANGED <<script, permits, try, known, why, result, platform>>
  \/ /\ at[c] \in Inside
     /\ GiveUp(c, "cancelled")
     /\ UNCHANGED <<script, queue, try, known, result, platform>>
  \/ /\ at[c] = "stopping"            \* in the middle of _cancel_quietly
     /\ End(c, "cancelled")
     /\ \/ Stop(c, Held(c)) /\ UNCHANGED unstopped
        \/ NotStopped(c, Held(c))
     /\ UNCHANGED <<script, queue, try, known, why, result>>

(* Mutant: the permit is not handed back when the wait is given up.        *)
StopEndsWithPermit(c) ==
  /\ at[c] = "stopping"
  /\ at' = [at EXCEPT ![c] = "done"]
  /\ outcome' = [outcome EXCEPT ![c] = why[c]]
  /\ \/ Stop(c, Held(c)) /\ UNCHANGED unstopped
     \/ NotStopped(c, Held(c))
  /\ UNCHANGED <<script, queue, permits, try, known, why, result>>

(* _cancel_quietly returns, whether the platform did it or not.            *)
StopEnds(c) ==
  /\ at[c] = "stopping"
  /\ End(c, why[c])
  /\ \/ Stop(c, Held(c)) /\ UNCHANGED unstopped
     \/ NotStopped(c, Held(c))
  /\ UNCHANGED <<script, queue, try, known, why, result>>

-----------------------------------------------------------------------------
(* The platform.                                                           *)

Accept(c, n) ==
  /\ op[c][n] = "sent"
  /\ op' = [op EXCEPT ![c][n] = "running"]
  /\ UNCHANGED <<client, unstopped>>

Finish(c, n) ==
  /\ op[c][n] = "running"
  /\ op' = [op EXCEPT ![c][n] = "finished"]
  /\ UNCHANGED <<client, unstopped>>

Coroutine(c) ==
  Begin(c) \/ Use(c) \/ Enter(c) \/ Retry(c) \/ Started(c) \/ Receive(c) \/ StopEnds(c)
Fault(c) == UseFails(c) \/ StartFails(c) \/ StartRefused(c) \/ PollsFail(c) \/ Cancel(c)
Platform(c) == \E n \in Try : Accept(c, n) \/ Finish(c, n)

Next == \E c \in Call : Coroutine(c) \/ TimeOut(c) \/ Fault(c) \/ Platform(c)

(* Ready coroutines run and timers fire; the platform promises nothing     *)
(* about operations, and answers a cancellation somehow.                   *)
Fairness == \A c \in Call : WF_vars(Coroutine(c)) /\ WF_vars(TimeOut(c))

Spec == Init /\ [][Next]_vars
FairSpec == Spec /\ Fairness

-----------------------------------------------------------------------------
(* Every variable stays in its domain.                                     *)
TypeOK ==
  /\ script \in Scripts
  /\ queue \in Seq(Call) /\ permits \in 0..MaxInflight
  /\ at \in [Call -> {"idle", "using", "queued", "stopping", "done"} \cup Inside]
  /\ try \in [Call -> 0..Attempts] /\ known \in [Call -> SUBSET Try]
  /\ why \in [Call -> {"none", "timeout", "cancelled"}]
  /\ outcome \in [Call -> {"none", "failed", "timeout", "cancelled", "ok", "red",
                          "infrastructure", "syntax", "conflict"}]
  /\ op \in [Call -> [Try -> {"none", "sent", "running", "finished", "stopped"}]]
  /\ result \in [Call -> {NoResult} \cup UNION {Results(script[c]) : c \in Call}]
  /\ unstopped \in [Call -> SUBSET Try]

(* No permit of the semaphore is lost or invented, however a call ends.    *)
Holders == {c \in Call : at[c] \in Inside \cup {"stopping"}}
PermitsBalance == permits + Cardinality(Holders) = MaxInflight

(* An operation whose start was answered does not outlive the interest in  *)
(* it: when its call has ended, or goes on with another operation, it is   *)
(* over, or its cancellation was asked for and did not succeed.            *)
Wanted(c, n) == at[c] \notin {"done", "backoff"} /\ (n = try[c] \/ n = Held(c))
KnownIsStopped ==
  \A c \in Call, n \in Try :
    op[c][n] = "running" /\ n \in known[c] /\ ~Wanted(c, n) => n \in unstopped[c]

(* A call reports success only for its last operation, which ran pytest to *)
(* the end, green by its own report and by its exit status.  What an image *)
(* carries over from its parent never makes a run green.                   *)
OkIsGreenRun ==
  \A c \in Call : outcome[c] = "ok" =>
    /\ op[c][try[c]] = "finished"
    /\ result[c] = Ran(0, "own", "whole")

(* A run that was cut short is never a verdict against the patch           *)
(* (runner.py: "nothing downstream may count it as RED").                  *)
CutIsNeverRed ==
  \A c \in Call : script[c] = "attempt" /\ outcome[c] = "red" => result[c].end # "cut"

(* Every call ends, even when its operation never does.                    *)
CallsEnd == \A c \in Call : at[c] = "queued" ~> at[c] = "done"
=============================================================================
