-------------------------- MODULE SandboxRunProofs --------------------------
(***************************************************************************)
(* Proofs about SandboxRun, for any number of calls, tries and permits: no *)
(* permit is lost, no operation a call was told of outlives the interest   *)
(* in it, and only a green run is reported as success.                     *)
(***************************************************************************)
EXTENDS SandboxRun, FiniteSetTheorems, TLAPS

Kinds == {"baseline", "attempt", "integration"}
Holding == Inside \cup {"stopping"}
States == {"idle", "using", "queued", "done"} \cup Holding
OpStates == {"none", "sent", "running", "finished", "stopped"}
Outcomes == {"none", "failed", "timeout", "cancelled", "ok", "red", "infrastructure", "syntax",
             "conflict"}
RunResults == [exit : Int, report : {"none", "own", "left"}, end : {"whole", "cut"}]

(* What the proofs need of the types.                                      *)
Typed ==
  /\ script \in [Call -> Kinds]
  /\ permits \in Int
  /\ at \in [Call -> States]
  /\ try \in [Call -> 0..Attempts]
  /\ known \in [Call -> SUBSET Try]
  /\ why \in [Call -> {"none", "timeout", "cancelled"}]
  /\ outcome \in [Call -> Outcomes]
  /\ op \in [Call -> [Try -> OpStates]]
  /\ result \in [Call -> RunResults]
  /\ unstopped \in [Call -> SUBSET Try]

(* Tries are sent one after the other, each at most once.                  *)
TriesInOrder(c) ==
  /\ at[c] \in {"starting", "watching"} => try[c] \in Try
  /\ at[c] = "backoff" => try[c] < Attempts
  /\ at[c] \in {"idle", "using", "queued"} => try[c] = 0

(* An operation is known once its request was answered, the current one    *)
(* exactly while it is watched, and the known ones have a latest.          *)
KnownAnswered(c) ==
  /\ \A n \in known[c] : n <= try[c] /\ op[c][n] \notin {"none", "sent"}
  /\ at[c] = "watching" => try[c] \in known[c]
  /\ at[c] = "starting" => try[c] \notin known[c]
  /\ known[c] # {} => \E n \in known[c] : \A m \in known[c] : m <= n

(* Among the operations a call knows, only the one it watches or is about  *)
(* to stop may be running without a cancellation that failed.              *)
Watched(c) ==
  CASE at[c] = "watching" -> {try[c]}
    [] at[c] = "stopping" -> {Held(c)}
    [] OTHER -> {}
OthersStopped(c) ==
  \A n \in known[c] : op[c][n] = "running" /\ n \notin Watched(c) => n \in unstopped[c]

(* A call that stops an operation knows which, and why.                    *)
StopHasReason(c) ==
  at[c] = "stopping" => known[c] # {} /\ why[c] \in {"timeout", "cancelled"}

OpInv(c) == TriesInOrder(c) /\ KnownAnswered(c) /\ OthersStopped(c) /\ StopHasReason(c)

(* A call has an outcome when it has ended, and what "ok" stands for.      *)
OutcomeInv(c) ==
  /\ outcome[c] # "none" => at[c] = "done"
  /\ outcome[c] = "ok" =>
       try[c] \in Try /\ op[c][try[c]] = "finished" /\ result[c] = Ran(0, "own", "whole")

Inv == Typed /\ PermitsBalance /\ \A c \in Call : OpInv(c) /\ OutcomeInv(c)

-----------------------------------------------------------------------------
(* What a gate makes of a result: "ok" only of a green run.                *)
LEMMA VerdictShape ==
  ASSUME NEW kind \in Kinds, NEW r \in Results(kind)
  PROVE  /\ r \in RunResults
         /\ Verdict(kind, r) \in Outcomes \ {"none"}
         /\ Verdict(kind, r) = "ok" => r = Ran(0, "own", "whole")
<1>1. NotApplied(kind) \in {90, 91, 97} /\ LeftReport(kind) \in {"none", "left"}
  <2>1. NotApplied(kind) \in {90, 91, 97}
    <3>1. CASE kind = "baseline" BY <3>1 DEF NotApplied
    <3>2. CASE kind = "attempt" BY <3>2 DEF NotApplied
    <3>3. CASE kind = "integration" BY <3>3 DEF NotApplied
    <3> QED BY <3>1, <3>2, <3>3 DEF Kinds
  <2> QED BY <2>1 DEF LeftReport
<1>2. r \in RunResults /\ (r.exit = 0 => r = Ran(0, "own", "whole"))
  <2>1. CASE r \in {Ran(0, "own", "whole"), Ran(1, "own", "whole")}
    BY <2>1 DEF Ran, RunResults
  <2>2. CASE r \in {Ran(4, LeftReport(kind), "whole"), Ran(137, LeftReport(kind), "cut")}
    BY <1>1, <2>2 DEF Ran, RunResults
  <2>3. CASE \E e \in Stopped : r = Ran(e, "none", "cut")
    BY <2>3 DEF Ran, RunResults, Stopped, TimedOut
  <2>4. CASE r = Ran(NotApplied(kind), "none", "whole")
    BY <1>1, <2>4 DEF Ran, RunResults
  <2> QED BY <2>1, <2>2, <2>3, <2>4 DEF Results
<1>3. Verdict(kind, r) \in Outcomes \ {"none"}
  BY DEF Kinds, Verdict, BaselineVerdict, GateVerdict, IntegrationVerdict, Outcomes
<1>4. Verdict(kind, r) = "ok" => r.exit = 0
  BY DEF Kinds, Verdict, BaselineVerdict, GateVerdict, IntegrationVerdict, Green
<1> QED BY <1>1, <1>2, <1>3, <1>4

(* The operation a call holds: none, or the latest it knows.               *)
LEMMA HeldIsLatest ==
  ASSUME NEW c \in Call, Typed, KnownAnswered(c)
  PROVE  /\ Held(c) = 0 <=> known[c] = {}
         /\ known[c] # {} => Held(c) \in known[c]
         /\ try[c] \in known[c] => Held(c) = try[c]
<1>1. known[c] \subseteq Try /\ known[c] \subseteq Nat /\ 0 \notin Try /\ try[c] \in Nat
  BY SandboxAssumption DEF Typed, Try
<1>2. CASE known[c] = {}
  BY <1>2 DEF Held
<1>3. CASE known[c] # {}
  <2> DEFINE IsLatest(n) == n \in known[c] /\ \A m \in known[c] : m <= n
  <2>1. \E n : IsLatest(n)
    BY <1>3 DEF KnownAnswered
  <2>2. Held(c) = CHOOSE n \in known[c] : \A m \in known[c] : m <= n
    BY <1>3 DEF Held
  <2>3. IsLatest(Held(c))
    BY <2>1, <2>2
  <2>4. try[c] \in known[c] => Held(c) = try[c]
    BY <1>1, <2>3 DEF KnownAnswered
  <2> QED BY <1>1, <1>3, <2>3, <2>4
<1> QED BY <1>2, <1>3

-----------------------------------------------------------------------------
(* The permits.                                                            *)

LEMMA HoldersFinite == IsFiniteSet(Holders) /\ Cardinality(Holders) \in Nat
<1>1. Holders \in SUBSET Call
  BY DEF Holders
<1> QED BY <1>1, FS_Subset, FS_CardinalityType, SandboxAssumption

LEMMA PermitKept ==
  ASSUME Typed, PermitsBalance, NEW c \in Call, NEW to \in States,
         at' = [at EXCEPT ![c] = to], at[c] \in Holding <=> to \in Holding, permits' = permits
  PROVE  PermitsBalance'
<1>1. Holders' = Holders
  BY DEF Holders, Holding, Typed
<1> QED BY <1>1 DEF PermitsBalance

LEMMA PermitTaken ==
  ASSUME Typed, PermitsBalance, NEW c \in Call, NEW to \in Holding,
         at' = [at EXCEPT ![c] = to], at[c] \notin Holding, permits' = permits - 1
  PROVE  PermitsBalance'
<1>1. Holders' = Holders \cup {c} /\ c \notin Holders
  BY DEF Holders, Holding, Typed
<1>2. Cardinality(Holders') = Cardinality(Holders) + 1
  BY <1>1, HoldersFinite, FS_AddElement
<1> QED BY <1>2, HoldersFinite, SandboxAssumption DEF PermitsBalance, Typed

LEMMA PermitReturned ==
  ASSUME Typed, PermitsBalance, NEW c \in Call,
         at' = [at EXCEPT ![c] = "done"], at[c] \in Holding, permits' = permits + 1
  PROVE  PermitsBalance'
<1>1. Holders' = Holders \ {c} /\ c \in Holders
  BY DEF Holders, Holding, Inside, Typed
<1>2. Cardinality(Holders') = Cardinality(Holders) - 1
  BY <1>1, HoldersFinite, FS_RemoveElement
<1> QED BY <1>2, HoldersFinite, SandboxAssumption DEF PermitsBalance, Typed

-----------------------------------------------------------------------------
LEMMA InitInv == Init => Inv
<1> SUFFICES ASSUME Init PROVE Inv OBVIOUS
<1>1. Typed
  BY SandboxAssumption
  DEF Init, Typed, Kinds, States, Holding, OpStates, Outcomes, RunResults, NoResult, Ran
<1>2. PermitsBalance
  <2>1. Holders = {}
    BY DEF Init, Holders, Inside
  <2> QED BY <2>1, FS_EmptySet, SandboxAssumption DEF Init, PermitsBalance
<1>3. ASSUME NEW c \in Call PROVE OpInv(c) /\ OutcomeInv(c)
  BY SandboxAssumption
  DEF Init, OpInv, TriesInOrder, KnownAnswered, OthersStopped, StopHasReason, OutcomeInv
<1> QED BY <1>1, <1>2, <1>3 DEF Inv

(* A step of one call leaves the others as they are.                       *)
Same(d) ==
  /\ at'[d] = at[d] /\ try'[d] = try[d] /\ known'[d] = known[d] /\ why'[d] = why[d]
  /\ outcome'[d] = outcome[d] /\ op'[d] = op[d] /\ result'[d] = result[d]
  /\ unstopped'[d] = unstopped[d]

LEMMA SameInv ==
  ASSUME NEW d \in Call, OpInv(d), OutcomeInv(d), Same(d)
  PROVE  OpInv(d)' /\ OutcomeInv(d)'
<1>1. Held(d)' = Held(d)
  BY DEF Same, Held
<1>2. Watched(d)' = Watched(d)
  BY <1>1 DEF Same, Watched
<1>3. TriesInOrder(d)' /\ KnownAnswered(d)' /\ StopHasReason(d)' /\ OutcomeInv(d)'
  BY DEF Same, OpInv, TriesInOrder, KnownAnswered, StopHasReason, OutcomeInv
<1>4. OthersStopped(d)'
  BY <1>2 DEF Same, OpInv, OthersStopped
<1> QED BY <1>3, <1>4 DEF OpInv

(* The steps of a coroutine: what each makes of its own call.              *)
Others(c) == \A d \in Call \ {c} : Same(d)

LEMMA OneCallMoves ==
  ASSUME Inv, NEW c \in Call, Others(c), Typed', PermitsBalance', OpInv(c)', OutcomeInv(c)'
  PROVE  Inv'
<1>1. ASSUME NEW d \in Call \ {c} PROVE OpInv(d)' /\ OutcomeInv(d)'
  BY SameInv DEF Inv, Others
<1> QED BY <1>1 DEF Inv

(* Joining the queue, by way of the base image or at once, and leaving it. *)
LEMMA QueueInv ==
  ASSUME Inv, NEW c \in Call, NEW to \in {"using", "queued", "done"},
         NEW with \in {"none", "failed", "cancelled"},
         at[c] \in {"idle", "using", "queued"},
         at' = [at EXCEPT ![c] = to],
         outcome' = [outcome EXCEPT ![c] = with], with # "none" => to = "done",
         UNCHANGED <<script, permits, try, known, why, result, platform>>
  PROVE  Inv'
<1> USE DEF Inv, platform
<1>1. Typed'
  BY DEF Typed, States, Outcomes
<1>2. PermitsBalance'
  BY PermitKept DEF States, Holding, Inside
<1>3. Others(c)
  BY DEF Others, Same, Typed
<1>4. OpInv(c)'
  <2>1. at'[c] = to BY DEF Typed
  <2>2. TriesInOrder(c)' /\ KnownAnswered(c)' /\ StopHasReason(c)'
    BY <2>1 DEF OpInv, TriesInOrder, KnownAnswered, StopHasReason
  <2>3. OthersStopped(c)'
    BY <2>1 DEF OpInv, OthersStopped, Watched
  <2> QED BY <2>2, <2>3 DEF OpInv
<1>5. OutcomeInv(c)'
  BY DEF OutcomeInv, Typed
<1> QED BY <1>1, <1>2, <1>3, <1>4, <1>5, OneCallMoves

LEMMA SendInv ==
  ASSUME Inv, NEW c \in Call, Send(c), try[c] < Attempts, PermitsBalance', permits' \in Int,
         at[c] \in {"queued", "backoff"}
  PROVE  Inv'
<1> USE DEF Inv
<1> DEFINE n == try[c] + 1
<1>1. /\ n \in Try /\ try' = [try EXCEPT ![c] = n]
      /\ at' = [at EXCEPT ![c] = "starting"]
      /\ op' = [op EXCEPT ![c][n] = "sent"]
      /\ UNCHANGED <<script, known, why, outcome, result, unstopped>>
  BY SandboxAssumption DEF Send, Typed, Try
<1>2. Typed'
  BY <1>1 DEF Typed, States, Holding, Inside, OpStates, Try
<1>3. Others(c)
  BY <1>1 DEF Others, Same, Typed
<1>4. /\ at'[c] = "starting" /\ try'[c] = n /\ n \notin known[c]
      /\ \A m \in known[c] : m < n /\ op'[c][m] = op[c][m]
  BY <1>1, SandboxAssumption DEF Typed, OpInv, KnownAnswered, Try
<1>5. TriesInOrder(c)' /\ StopHasReason(c)'
  BY <1>1, <1>4 DEF TriesInOrder, StopHasReason
<1>6. KnownAnswered(c)'
  <2>1. \A m \in known'[c] : m <= n /\ op'[c][m] \notin {"none", "sent"}
    BY <1>1, <1>4, SandboxAssumption DEF OpInv, KnownAnswered, Typed, Try
  <2> QED BY <1>1, <1>4, <2>1 DEF OpInv, KnownAnswered
<1>7. OthersStopped(c)'
  BY <1>1, <1>4 DEF OpInv, OthersStopped, Watched, Typed
<1>8. OutcomeInv(c)'
  <2>1. outcome'[c] = "none"
    BY <1>1 DEF OutcomeInv
  <2> QED BY <2>1 DEF OutcomeInv
<1> QED BY <1>2, <1>3, <1>5, <1>6, <1>7, <1>8, OneCallMoves DEF OpInv

LEMMA StartedInv == ASSUME Inv, NEW c \in Call, Started(c) PROVE Inv'
<1> USE DEF Inv
<1>1. /\ at[c] = "starting" /\ try[c] \in Try
      /\ op[c][try[c]] \notin {"none", "sent"}
      /\ at' = [at EXCEPT ![c] = "watching"]
      /\ known' = [known EXCEPT ![c] = @ \cup {try[c]}]
      /\ UNCHANGED <<script, permits, try, why, outcome, result, op, unstopped>>
  BY DEF Started, platform, OpInv, TriesInOrder
<1>2. Typed'
  BY <1>1 DEF Typed, States, Holding, Inside
<1>3. PermitsBalance'
  BY <1>1, PermitKept DEF States, Holding, Inside
<1>4. Others(c)
  BY <1>1 DEF Others, Same, Typed
<1>5. at'[c] = "watching" /\ known'[c] = known[c] \cup {try[c]}
  BY <1>1 DEF Typed
<1>6. TriesInOrder(c)' /\ StopHasReason(c)' /\ OutcomeInv(c)'
  BY <1>1, <1>5 DEF TriesInOrder, StopHasReason, OutcomeInv
<1>7. KnownAnswered(c)'
  <2>1. \A m \in known'[c] : m <= try[c] /\ op[c][m] \notin {"none", "sent"}
    BY <1>1, <1>5, SandboxAssumption DEF OpInv, KnownAnswered, Try
  <2>2. try[c] \in known'[c]
    BY <1>5
  <2> QED BY <1>1, <1>5, <2>1, <2>2 DEF KnownAnswered
<1>8. OthersStopped(c)'
  BY <1>1, <1>5 DEF OpInv, OthersStopped, Watched
<1> QED BY <1>2, <1>3, <1>4, <1>6, <1>7, <1>8, OneCallMoves DEF OpInv

(* A call leaves what it was doing, to try again or for good, and none of  *)
(* the operations it knows runs on unless its cancellation failed.         *)
LEMMA LeaveInv ==
  ASSUME Inv, NEW c \in Call, NEW to \in {"backoff", "done"}, NEW with \in Outcomes,
         at[c] \in Holding,
         at' = [at EXCEPT ![c] = to], outcome' = [outcome EXCEPT ![c] = with],
         to = "backoff" => try[c] < Attempts /\ with = "none" /\ permits' = permits,
         to = "done" => permits' = permits + 1,
         op' \in [Call -> [Try -> OpStates]], unstopped' \in [Call -> SUBSET Try],
         result' \in [Call -> RunResults],
         \A d \in Call \ {c} :
           op'[d] = op[d] /\ unstopped'[d] = unstopped[d] /\ result'[d] = result[d],
         \A n \in known[c] :
           /\ op'[c][n] \notin {"none", "sent"}
           /\ op'[c][n] = "running" => n \in unstopped'[c],
         with = "ok" =>
           try[c] \in Try /\ op'[c][try[c]] = "finished" /\ result'[c] = Ran(0, "own", "whole"),
         UNCHANGED <<script, try, known, why>>
  PROVE  Inv'
<1> USE DEF Inv
<1>1. Typed'
  <2>1. permits' \in Int
    BY DEF Typed
  <2>2. at' \in [Call -> States] /\ outcome' \in [Call -> Outcomes]
    BY DEF Typed, States, Holding, Inside
  <2> QED BY <2>1, <2>2 DEF Typed
<1>2. PermitsBalance'
  BY PermitKept, PermitReturned DEF States, Holding, Inside
<1>3. Others(c)
  BY DEF Others, Same, Typed
<1>4. at'[c] = to /\ outcome'[c] = with
  BY DEF Typed
<1>5. TriesInOrder(c)' /\ StopHasReason(c)' /\ OutcomeInv(c)'
  BY <1>4 DEF OpInv, TriesInOrder, StopHasReason, OutcomeInv
<1>6. KnownAnswered(c)'
  BY <1>4 DEF OpInv, KnownAnswered
<1>7. OthersStopped(c)'
  BY DEF OthersStopped
<1> QED BY <1>1, <1>2, <1>3, <1>5, <1>6, <1>7, OneCallMoves DEF OpInv

(* The cancellation of the one operation that may still be running.        *)
LEMMA Letting ==
  ASSUME Inv, NEW c \in Call, NEW n \in Try, Watched(c) \subseteq {n},
         \/ Stop(c, n) /\ UNCHANGED unstopped
         \/ NotStopped(c, n)
  PROVE  /\ op' \in [Call -> [Try -> OpStates]] /\ unstopped' \in [Call -> SUBSET Try]
         /\ \A d \in Call \ {c} : op'[d] = op[d] /\ unstopped'[d] = unstopped[d]
         /\ \A m \in known[c] :
              /\ op'[c][m] \notin {"none", "sent"}
              /\ op'[c][m] = "running" => m \in unstopped'[c]
<1> USE DEF Inv
<1>1. /\ op[c] \in [Try -> OpStates] /\ unstopped[c] \in SUBSET Try /\ known[c] \in SUBSET Try
      /\ \A m \in known[c] : op[c][m] \notin {"none", "sent"}
      /\ \A m \in known[c] : op[c][m] = "running" /\ m # n => m \in unstopped[c]
  BY DEF Typed, OpInv, KnownAnswered, OthersStopped
<1>2. CASE Stop(c, n) /\ UNCHANGED unstopped
  <2> DEFINE after == [op[c] EXCEPT ![n] = IF op[c][n] = "running" THEN "stopped" ELSE op[c][n]]
  <2>1. op' = [op EXCEPT ![c] = after]
    BY <1>2 DEF Stop, Typed
  <2>2. after \in [Try -> OpStates]
    BY <1>1 DEF OpStates
  <2>3. /\ op' \in [Call -> [Try -> OpStates]] /\ op'[c] = after
        /\ \A d \in Call \ {c} : op'[d] = op[d]
    BY <2>1, <2>2 DEF Typed
  <2> QED BY <1>1, <1>2, <2>3 DEF Typed
<1>3. CASE NotStopped(c, n)
  BY <1>1, <1>3 DEF NotStopped, Typed
<1> QED BY <1>2, <1>3

(* A call outside a watch knows no operation it would have to stop.        *)
LEMMA NothingToStop ==
  ASSUME Inv, NEW c \in Call, at[c] \notin {"watching", "stopping"}
  PROVE  \A n \in known[c] :
           /\ op[c][n] \notin {"none", "sent"}
           /\ op[c][n] = "running" => n \in unstopped[c]
BY DEF Inv, OpInv, KnownAnswered, OthersStopped, Watched

LEMMA StartFailsInv == ASSUME Inv, NEW c \in Call, StartFails(c) PROVE Inv'
<1> USE DEF Inv
<1>1. at[c] = "starting" /\ outcome[c] = "none"
  BY DEF StartFails, OutcomeInv
<1>2. /\ UNCHANGED <<script, try, known, why, result, op, unstopped>>
      /\ op' \in [Call -> [Try -> OpStates]] /\ unstopped' \in [Call -> SUBSET Try]
      /\ result' \in [Call -> RunResults]
  BY DEF StartFails, platform, Typed
<1>3. CASE try[c] < Attempts
  <2>1. outcome' = [outcome EXCEPT ![c] = "none"]
    BY <1>1, <1>3 DEF StartFails, TryFailed, Typed
  <2> QED BY <1>1, <1>2, <1>3, <2>1, NothingToStop, LeaveInv
          DEF StartFails, TryFailed, Holding, Inside, Outcomes
<1>4. CASE ~(try[c] < Attempts)
  BY <1>1, <1>2, <1>4, NothingToStop, LeaveInv
  DEF StartFails, TryFailed, End, Holding, Inside, Outcomes
<1> QED BY <1>3, <1>4

LEMMA StartRefusedInv == ASSUME Inv, NEW c \in Call, StartRefused(c) PROVE Inv'
<1> USE DEF Inv
<1>1. /\ at[c] = "starting" /\ try[c] \in Try /\ try[c] \notin known[c]
      /\ at' = [at EXCEPT ![c] = "done"] /\ outcome' = [outcome EXCEPT ![c] = "failed"]
      /\ permits' = permits + 1
      /\ op' = [op EXCEPT ![c][try[c]] = "none"]
      /\ UNCHANGED <<script, try, known, why, result, unstopped>>
  BY DEF StartRefused, End, OpInv, TriesInOrder, KnownAnswered
<1>2. /\ op' \in [Call -> [Try -> OpStates]]
      /\ \A d \in Call \ {c} : op'[d] = op[d]
      /\ \A n \in known[c] : op'[c][n] = op[c][n]
  BY <1>1 DEF Typed, OpStates
<1>3. unstopped' \in [Call -> SUBSET Try] /\ result' \in [Call -> RunResults]
  BY <1>1 DEF Typed
<1> QED BY <1>1, <1>2, <1>3, NothingToStop, LeaveInv DEF Holding, Inside, Outcomes

LEMMA PollsFailInv == ASSUME Inv, NEW c \in Call, PollsFail(c) PROVE Inv'
<1> USE DEF Inv
<1>1. /\ at[c] = "watching" /\ outcome[c] = "none" /\ try[c] \in Try
      /\ Watched(c) = {try[c]}
      /\ UNCHANGED <<script, try, known, why, result>>
  BY DEF PollsFail, OutcomeInv, OpInv, TriesInOrder, Watched
<1>2. /\ op' \in [Call -> [Try -> OpStates]] /\ unstopped' \in [Call -> SUBSET Try]
      /\ \A d \in Call \ {c} : op'[d] = op[d] /\ unstopped'[d] = unstopped[d]
      /\ \A m \in known[c] :
           /\ op'[c][m] \notin {"none", "sent"}
           /\ op'[c][m] = "running" => m \in unstopped'[c]
  BY <1>1, Letting DEF PollsFail
<1>3. result' \in [Call -> RunResults]
  BY <1>1 DEF Typed
<1>4. CASE TryFailed(c) /\ try[c] < Attempts
  <2>1. outcome' = [outcome EXCEPT ![c] = "none"]
    BY <1>1, <1>4 DEF PollsFail, TryFailed, Typed
  <2> QED BY <1>1, <1>2, <1>3, <1>4, <2>1, LeaveInv
          DEF PollsFail, TryFailed, Holding, Inside, Outcomes
<1>5. CASE End(c, "failed")
  BY <1>1, <1>2, <1>3, <1>5, LeaveInv DEF PollsFail, End, Holding, Inside, Outcomes
<1> QED BY <1>4, <1>5 DEF PollsFail, TryFailed

LEMMA ReceiveInv == ASSUME Inv, NEW c \in Call, Receive(c) PROVE Inv'
<1> USE DEF Inv
<1>1. PICK r \in Results(script[c]) :
        result' = [result EXCEPT ![c] = r] /\ End(c, Verdict(script[c], r))
  BY DEF Receive
<1>2. /\ at[c] = "watching" /\ try[c] \in Try /\ op[c][try[c]] = "finished"
      /\ UNCHANGED <<script, try, known, why, op, unstopped>>
      /\ script[c] \in Kinds
  BY DEF Receive, platform, OpInv, TriesInOrder, Typed
<1> DEFINE with == Verdict(script[c], r)
<1>3. with \in Outcomes /\ r \in RunResults /\ (with = "ok" => r = Ran(0, "own", "whole"))
  BY <1>2, VerdictShape
<1>4. at' = [at EXCEPT ![c] = "done"] /\ outcome' = [outcome EXCEPT ![c] = with]
      /\ permits' = permits + 1
  BY <1>1 DEF End
<1> HIDE DEF with
<1>5. /\ result' \in [Call -> RunResults] /\ result'[c] = r
      /\ \A d \in Call \ {c} : result'[d] = result[d]
  BY <1>1, <1>3 DEF Typed
<1>6. \A n \in known[c] :
        /\ op[c][n] \notin {"none", "sent"}
        /\ op[c][n] = "running" => n \in unstopped[c]
  BY <1>2 DEF OpInv, KnownAnswered, OthersStopped, Watched
<1>7. op' \in [Call -> [Try -> OpStates]] /\ unstopped' \in [Call -> SUBSET Try]
  BY <1>2 DEF Typed
<1> QED BY <1>2, <1>3, <1>4, <1>5, <1>6, <1>7, LeaveInv DEF Holding, Inside
LEMMA GiveUpInv ==
  ASSUME Inv, NEW c \in Call, NEW reason \in {"timeout", "cancelled"},
         at[c] \in Inside, GiveUp(c, reason),
         UNCHANGED <<script, try, known, result, platform>>
  PROVE  Inv'
<1> USE DEF Inv
<1>1. /\ UNCHANGED <<script, try, known, result, op, unstopped>>
      /\ op' \in [Call -> [Try -> OpStates]] /\ unstopped' \in [Call -> SUBSET Try]
      /\ result' \in [Call -> RunResults]
  BY DEF platform, Typed
<1>2. Held(c) = 0 <=> known[c] = {}
  BY HeldIsLatest DEF OpInv
<1>3. CASE Held(c) = 0
  BY <1>1, <1>2, <1>3, LeaveInv DEF GiveUp, End, Holding, Outcomes
<1>4. CASE Held(c) # 0
  <2>1. /\ at' = [at EXCEPT ![c] = "stopping"] /\ why' = [why EXCEPT ![c] = reason]
        /\ UNCHANGED <<permits, outcome>>
    BY <1>4 DEF GiveUp
  <2>2. Typed'
    BY <1>1, <2>1 DEF Typed, States, Holding
  <2>3. PermitsBalance'
    BY <2>1, PermitKept DEF States, Holding
  <2>4. Others(c)
    BY <1>1, <2>1 DEF Others, Same, Typed
  <2>5. at'[c] = "stopping" /\ why'[c] = reason
    BY <2>1 DEF Typed
  <2>6. TriesInOrder(c)' /\ KnownAnswered(c)' /\ StopHasReason(c)' /\ OutcomeInv(c)'
    BY <1>1, <1>2, <1>4, <2>1, <2>5
    DEF OpInv, TriesInOrder, KnownAnswered, StopHasReason, OutcomeInv, Inside
  <2>7. OthersStopped(c)'
    <3>1. Watched(c)' = {Held(c)}
      BY <1>1, <2>5 DEF Watched, Held
    <3>2. Watched(c) \subseteq {Held(c)}
      <4>1. CASE at[c] = "watching"
        BY <4>1, HeldIsLatest DEF Watched, OpInv, KnownAnswered
      <4>2. CASE at[c] # "watching"
        BY <4>2 DEF Watched, Inside
      <4> QED BY <4>1, <4>2
    <3> QED BY <1>1, <3>1, <3>2 DEF OpInv, OthersStopped
  <2> QED BY <2>2, <2>3, <2>4, <2>6, <2>7, OneCallMoves DEF OpInv
<1> QED BY <1>3, <1>4

(* The cancellation of the operation a call holds, answered or cut off.    *)
LEMMA StopInv ==
  ASSUME Inv, NEW c \in Call, NEW with \in {"timeout", "cancelled"}, at[c] = "stopping",
         End(c, with),
         \/ Stop(c, Held(c)) /\ UNCHANGED unstopped
         \/ NotStopped(c, Held(c)),
         UNCHANGED <<script, try, known, why, result>>
  PROVE  Inv'
<1> USE DEF Inv
<1>1. Watched(c) = {Held(c)} /\ result' \in [Call -> RunResults]
  BY DEF Watched, Typed
<1>2. CASE known[c] # {}
  <2>1. Held(c) \in Try
    BY <1>2, HeldIsLatest DEF OpInv, Typed
  <2>2. /\ op' \in [Call -> [Try -> OpStates]] /\ unstopped' \in [Call -> SUBSET Try]
        /\ \A d \in Call \ {c} : op'[d] = op[d] /\ unstopped'[d] = unstopped[d]
        /\ \A m \in known[c] :
             /\ op'[c][m] \notin {"none", "sent"}
             /\ op'[c][m] = "running" => m \in unstopped'[c]
    BY <1>1, <2>1, Letting
  <2> QED BY <1>1, <2>2, LeaveInv DEF End, Holding, Outcomes
<1>3. CASE known[c] = {}
  BY <1>3 DEF OpInv, StopHasReason
<1> QED BY <1>2, <1>3
LEMMA CancelInv == ASSUME Inv, NEW c \in Call, Cancel(c) PROVE Inv'
<1>1. CASE at[c] \in {"using", "queued"}
  <2>1. /\ at' = [at EXCEPT ![c] = "done"] /\ outcome' = [outcome EXCEPT ![c] = "cancelled"]
        /\ UNCHANGED <<script, permits, try, known, why, result, platform>>
    BY <1>1 DEF Cancel, Inside
  <2> QED BY <1>1, <2>1, QueueInv
<1>2. CASE at[c] \in Inside
  <2>1. GiveUp(c, "cancelled") /\ UNCHANGED <<script, try, known, result, platform>>
    BY <1>2 DEF Cancel, Inside
  <2> QED BY <1>2, <2>1, GiveUpInv
<1>3. CASE at[c] = "stopping"
  <2>1. /\ End(c, "cancelled")
        /\ \/ Stop(c, Held(c)) /\ UNCHANGED unstopped
           \/ NotStopped(c, Held(c))
        /\ UNCHANGED <<script, try, known, why, result>>
    BY <1>3 DEF Cancel, Inside
  <2> QED BY <1>3, <2>1, StopInv
<1> QED BY <1>1, <1>2, <1>3 DEF Cancel

LEMMA EnterInv == ASSUME Inv, NEW c \in Call, Enter(c) PROVE Inv'
<1> USE DEF Inv
<1>1. /\ at[c] = "queued" /\ permits > 0 /\ permits' = permits - 1 /\ Send(c)
      /\ at' = [at EXCEPT ![c] = "starting"]
  BY DEF Enter, Send
<1>2. try[c] < Attempts
  BY <1>1, SandboxAssumption DEF OpInv, TriesInOrder
<1>3. PermitsBalance'
  BY <1>1, PermitTaken DEF Holding, Inside
<1> QED BY <1>1, <1>2, <1>3, SendInv DEF Typed

LEMMA RetryInv == ASSUME Inv, NEW c \in Call, Retry(c) PROVE Inv'
<1> USE DEF Inv
<1>1. /\ at[c] = "backoff" /\ permits' = permits /\ Send(c)
      /\ at' = [at EXCEPT ![c] = "starting"]
  BY DEF Retry, Send
<1>2. try[c] < Attempts
  BY <1>1 DEF OpInv, TriesInOrder
<1>3. PermitsBalance'
  BY <1>1, PermitKept DEF States, Holding, Inside
<1> QED BY <1>1, <1>2, <1>3, SendInv DEF Typed

(* The steps of the platform, which change one operation.                  *)
LEMMA PlatformInv ==
  ASSUME Inv, NEW c \in Call, NEW n \in Try, Accept(c, n) \/ Finish(c, n)
  PROVE  Inv'
<1> USE DEF Inv
<1>1. PICK after \in {"running", "finished"} :
        /\ op' = [op EXCEPT ![c][n] = after]
        /\ after = "running" => op[c][n] = "sent"
        /\ after = "finished" => op[c][n] = "running"
        /\ UNCHANGED <<client, unstopped>>
  BY DEF Accept, Finish
<1>2. /\ op' \in [Call -> [Try -> OpStates]] /\ op'[c][n] = after
      /\ \A d \in Call \ {c} : op'[d] = op[d]
      /\ \A m \in Try : m # n => op'[c][m] = op[c][m]
  BY <1>1 DEF Typed, OpStates
<1>3. UNCHANGED <<script, permits, at, try, known, why, outcome, result, unstopped>>
  BY <1>1 DEF client
<1>4. Typed'
  BY <1>2, <1>3 DEF Typed
<1>5. PermitsBalance'
  BY <1>3 DEF PermitsBalance, Holders
<1>6. Others(c)
  BY <1>2, <1>3 DEF Others, Same
<1>7. TriesInOrder(c)' /\ StopHasReason(c)'
  BY <1>3 DEF OpInv, TriesInOrder, StopHasReason
<1>8. KnownAnswered(c)'
  <2>1. \A m \in known[c] : m \in Try /\ m <= try[c] /\ op[c][m] \notin {"none", "sent"}
    BY DEF OpInv, KnownAnswered, Typed
  <2>2. \A m \in known[c] : op'[c][m] \notin {"none", "sent"}
    BY <1>1, <1>2, <2>1
  <2> QED BY <1>3, <2>1, <2>2 DEF OpInv, KnownAnswered
<1>9. OthersStopped(c)'
  <2>1. Watched(c)' = Watched(c)
    BY <1>3 DEF Watched, Held
  <2>2. n \in known[c] => after = "finished"
    BY <1>1 DEF OpInv, KnownAnswered
  <2> QED BY <1>2, <1>3, <2>1, <2>2 DEF OpInv, OthersStopped, Typed
<1>10. OutcomeInv(c)'
  BY <1>1, <1>2, <1>3 DEF OutcomeInv
<1> QED BY <1>4, <1>5, <1>6, <1>7, <1>8, <1>9, <1>10, OneCallMoves DEF OpInv

LEMMA StutterInv == Inv /\ UNCHANGED vars => Inv'
<1> SUFFICES ASSUME Inv, UNCHANGED vars PROVE Inv' OBVIOUS
<1>1. UNCHANGED <<script, permits, at, try, known, why, outcome, result, op, unstopped>>
  BY DEF vars, client, platform
<1>2. Typed' /\ PermitsBalance'
  BY <1>1 DEF Inv, Typed, PermitsBalance, Holders
<1>3. ASSUME NEW d \in Call PROVE OpInv(d)' /\ OutcomeInv(d)'
  BY <1>1, SameInv DEF Inv, Same
<1> QED BY <1>2, <1>3 DEF Inv

LEMMA NextInv == Inv /\ [Next]_vars => Inv'
<1> SUFFICES ASSUME Inv, [Next]_vars PROVE Inv' OBVIOUS
<1>1. ASSUME NEW c \in Call, Coroutine(c) PROVE Inv'
  <2>0. outcome[c] # "none" => at[c] = "done"
    BY DEF Inv, OutcomeInv
  <2>1. CASE Begin(c) \/ Use(c)
    <3>1. PICK to \in {"using", "queued"} :
            /\ at[c] \in {"idle", "using"} /\ at' = [at EXCEPT ![c] = to]
            /\ UNCHANGED <<outcome, script, permits, try, known, why, result, platform>>
      BY <2>1 DEF Begin, Use, JoinQueue, Unsent
    <3>2. outcome' = [outcome EXCEPT ![c] = "none"]
      BY <2>0, <3>1 DEF Inv, Typed
    <3> QED BY <3>1, <3>2, QueueInv
  <2>2. CASE Enter(c) BY <2>2, EnterInv
  <2>3. CASE Retry(c) BY <2>3, RetryInv
  <2>4. CASE Started(c) BY <2>4, StartedInv
  <2>5. CASE Receive(c) BY <2>5, ReceiveInv
  <2>6. CASE StopEnds(c)
    <3>1. why[c] \in {"timeout", "cancelled"}
      BY <2>6 DEF StopEnds, Inv, OpInv, StopHasReason
    <3> QED BY <2>6, <3>1, StopInv DEF StopEnds
  <2> QED BY <1>1, <2>1, <2>2, <2>3, <2>4, <2>5, <2>6 DEF Coroutine
<1>2. ASSUME NEW c \in Call, TimeOut(c) PROVE Inv'
  BY <1>2, GiveUpInv DEF TimeOut
<1>3. ASSUME NEW c \in Call, Fault(c) PROVE Inv'
  <2>1. CASE UseFails(c)
    BY <2>1, QueueInv DEF UseFails, Unsent
  <2>2. CASE StartFails(c) BY <2>2, StartFailsInv
  <2>3. CASE StartRefused(c) BY <2>3, StartRefusedInv
  <2>4. CASE PollsFail(c) BY <2>4, PollsFailInv
  <2>5. CASE Cancel(c) BY <2>5, CancelInv
  <2> QED BY <1>3, <2>1, <2>2, <2>3, <2>4, <2>5 DEF Fault
<1>4. ASSUME NEW c \in Call, Platform(c) PROVE Inv'
  BY <1>4, PlatformInv DEF Platform
<1>5. CASE UNCHANGED vars
  BY <1>5, StutterInv
<1> QED BY <1>1, <1>2, <1>3, <1>4, <1>5 DEF Next

THEOREM Invariant == Spec => []Inv
<1> QED BY InitInv, NextInv, PTL DEF Spec

-----------------------------------------------------------------------------
(* The semaphore's permits balance, however calls end (PermitsBalance).    *)
THEOREM NoPermitLost == Spec => []PermitsBalance
<1>1. Inv => PermitsBalance
  BY DEF Inv
<1> QED BY <1>1, Invariant, PTL

(* No operation a call was told of outlives the interest in it, unless its *)
(* cancellation failed (KnownIsStopped).                                   *)
THEOREM KnownStopped == Spec => []KnownIsStopped
<1>1. Inv => KnownIsStopped
  <2> SUFFICES ASSUME Inv, NEW c \in Call, NEW n \in Try,
                      op[c][n] = "running", n \in known[c], ~Wanted(c, n)
               PROVE  n \in unstopped[c]
    BY DEF KnownIsStopped
  <2>1. n \notin Watched(c)
    BY DEF Watched, Wanted
  <2> QED BY <2>1 DEF Inv, OpInv, OthersStopped
<1> QED BY <1>1, Invariant, PTL

(* A call that reports success read a green run (OkIsGreenRun).            *)
THEOREM OkIsGreen == Spec => []OkIsGreenRun
<1>1. Inv => OkIsGreenRun
  BY DEF Inv, OutcomeInv, OkIsGreenRun
<1> QED BY <1>1, Invariant, PTL
=============================================================================
