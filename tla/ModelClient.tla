----------------------------- MODULE ModelClient -----------------------------
(***************************************************************************)
(* principal/models/client.py: ModelClient.complete and its retry loop,    *)
(* run by several coroutines of one job at once (the scheduler races three *)
(* candidates per task, several tasks per wave).                           *)
(*                                                                         *)
(* A coroutine switches only at an await: while the provider request is in *)
(* flight and during a backoff sleep.  Each action below is the code from  *)
(* one await to the next.  A call slot is used again when its call ends.   *)
(***************************************************************************)
EXTENDS TokenBudget

CONSTANTS
  Key,          \* what a call asks: model, messages, temperature and protocol
  NoKey,        \* the key of no call
  CacheOn,      \* whether the client was built with a DiskCache
  MaxRetry,     \* the 3 of `attempts <= 3`
  MaxUsage      \* the most usage one reply can carry

ASSUME ClientAssumption ==
  /\ Key # {} /\ NoKey \notin Key
  /\ CacheOn \in BOOLEAN
  /\ MaxRetry \in Nat
  /\ MaxUsage \in Nat
  /\ (MaxRetry + 1) * MaxUsage <= MaxActual

(* The protocol levels, from the weakest: TEXT, TOOLS, SCHEMA.             *)
Protocol == 0..2
TEXT == 0

NoUsage == -1         \* no entry in the cache

VARIABLES
  pc,           \* per call: "idle", "request" (in flight) or "backoff"
  key,          \* per call, the key it asked for
  protocol,     \* per call, the protocol the next request is shaped in
  attempts,     \* per call, the requests sent so far
  abandoned,    \* per call, usage of the blank replies thrown away
  cache         \* the DiskCache: the usage of the stored completion

vars == <<budgetVars, pc, key, protocol, attempts, abandoned, cache>>

Init ==
  /\ BudgetInit
  /\ pc = [c \in Call |-> "idle"]
  /\ key = [c \in Call |-> NoKey]
  /\ protocol = [c \in Call |-> TEXT]
  /\ attempts = [c \in Call |-> 0]
  /\ abandoned = [c \in Call |-> 0]
  /\ cache = [k \in Key |-> NoUsage]

-----------------------------------------------------------------------------
(* The call of slot c is over and its frame is gone.                       *)
End(c) ==
  /\ pc' = [pc EXCEPT ![c] = "idle"]
  /\ key' = [key EXCEPT ![c] = NoKey]
  /\ protocol' = [protocol EXCEPT ![c] = TEXT]
  /\ attempts' = [attempts EXCEPT ![c] = 0]
  /\ abandoned' = [abandoned EXCEPT ![c] = 0]

Cached(k) == CacheOn /\ cache[k] # NoUsage

(* `complete` up to its first await: reserve, look in the cache, send the  *)
(* first request.  A refused reservation raises and changes nothing.       *)
Ask(c, k, p, estimate) ==
  /\ pc[c] = "idle"
  /\ ~Cached(k)
  /\ Reserve(c, estimate)
  /\ pc' = [pc EXCEPT ![c] = "request"]
  /\ key' = [key EXCEPT ![c] = k]
  /\ protocol' = [protocol EXCEPT ![c] = p]
  /\ attempts' = [attempts EXCEPT ![c] = 1]
  /\ UNCHANGED <<abandoned, cache>>

(* A hit is charged the usage stored with the completion.                  *)
AskHit(c, k, estimate) ==
  /\ pc[c] = "idle"
  /\ Cached(k)
  /\ Charge(c, estimate, cache[k])
  /\ UNCHANGED <<pc, key, protocol, attempts, abandoned, cache>>

(* A reply with text: the completion is charged with every abandoned reply *)
(* before it, recorded, and stored with its own usage only.                *)
Reply(c, usage) ==
  /\ pc[c] = "request"
  /\ Settle(c, usage + abandoned[c])
  /\ cache' = IF CacheOn THEN [cache EXCEPT ![key[c]] = usage] ELSE cache
  /\ End(c)

(* Mutant of GiveUp: the billed usage is forgotten with the reservation.   *)
GiveUpRefunding(c, billedUsage) ==
  /\ Release(c)
  /\ End(c)
  /\ UNCHANGED cache

(* Mutant of GiveUp: the billed usage is recorded, but not charged.        *)
GiveUpRecordingOnly(c, billedUsage) ==
  /\ spent' = spent - reserved[c]
  /\ reserved' = [reserved EXCEPT ![c] = 0]
  /\ recorded' = recorded + billedUsage
  /\ End(c)
  /\ UNCHANGED cache

(* The exception handler of `complete` for an error raised by `failed`,    *)
(* which carries the abandoned usage out of the loop.                      *)
GiveUp(c, billedUsage) ==
  /\ IF billedUsage > 0 THEN Settle(c, billedUsage) ELSE Release(c)
  /\ End(c)
  /\ UNCHANGED cache

Sleep(c) ==
  /\ attempts[c] <= MaxRetry
  /\ pc' = [pc EXCEPT ![c] = "backoff"]
  /\ UNCHANGED <<budgetVars, key, protocol, attempts, cache>>

(* A blank reply was generated and billed; it is retried while attempts    *)
(* last.                                                                   *)
Blank(c, usage) ==
  /\ pc[c] = "request"
  /\ \/ Sleep(c) /\ abandoned' = [abandoned EXCEPT ![c] = @ + usage]
     \/ attempts[c] > MaxRetry /\ GiveUp(c, abandoned[c] + usage)

(* 429, 5xx and timeouts.                                                  *)
Transient(c) ==
  /\ pc[c] = "request"
  /\ \/ Sleep(c) /\ UNCHANGED abandoned
     \/ attempts[c] > MaxRetry /\ GiveUp(c, abandoned[c])

(* Any other API status error, a 400 in the TEXT protocol among them.      *)
Rejected(c) ==
  /\ pc[c] = "request"
  /\ GiveUp(c, abandoned[c])

(* A 400 in a structured protocol: down one level and send again at once,  *)
(* whatever `attempts` is.                                                 *)
Downgrade(c) ==
  /\ pc[c] = "request"
  /\ protocol[c] # TEXT
  /\ protocol' = [protocol EXCEPT ![c] = @ - 1]
  /\ attempts' = [attempts EXCEPT ![c] = @ + 1]
  /\ UNCHANGED <<budgetVars, pc, key, abandoned, cache>>

(* Mutant of Resend: a retry is not counted as an attempt.                 *)
ResendUncounted(c) ==
  /\ pc[c] = "backoff"
  /\ pc' = [pc EXCEPT ![c] = "request"]
  /\ UNCHANGED <<budgetVars, key, protocol, attempts, abandoned, cache>>

(* The backoff sleep is over: the next request is sent.                    *)
Resend(c) ==
  /\ pc[c] = "backoff"
  /\ pc' = [pc EXCEPT ![c] = "request"]
  /\ attempts' = [attempts EXCEPT ![c] = @ + 1]
  /\ UNCHANGED <<budgetVars, key, protocol, abandoned, cache>>

(* An exception the loop does not raise through `failed` (a connection     *)
(* error that is no timeout, a reply without choices): it carries no       *)
(* billed usage, so the reservation is released whole.                     *)
Escape(c) ==
  /\ pc[c] = "request"
  /\ Release(c)
  /\ End(c)
  /\ UNCHANGED cache

(* Mutant of Cancel: CancelledError slips past an `except Exception`.      *)
CancelLeaking(c) ==
  /\ pc[c] # "idle"
  /\ End(c)
  /\ UNCHANGED <<budgetVars, cache>>

(* The scheduler cancels the coroutine at either await.  CancelledError    *)
(* carries no billed usage.                                                *)
Cancel(c) ==
  /\ pc[c] # "idle"
  /\ Release(c)
  /\ End(c)
  /\ UNCHANGED cache

Answer(c) ==
  \/ \E u \in 0..MaxUsage : Reply(c, u) \/ Blank(c, u)
  \/ Transient(c)
  \/ Rejected(c)
  \/ Downgrade(c)
  \/ Escape(c)

Next ==
  \E c \in Call :
    \/ \E e \in Estimates, k \in Key :
         (\E p \in Protocol : Ask(c, k, p, e)) \/ AskHit(c, k, e)
    \/ Answer(c)
    \/ Resend(c)
    \/ Cancel(c)

Spec == Init /\ [][Next]_vars

(* The SDK request has a timeout and a backoff is a finite sleep, so a     *)
(* call that waits is eventually resumed.                                  *)
FairSpec == Spec /\ \A c \in Call : WF_vars(Answer(c)) /\ WF_vars(Resend(c))

-----------------------------------------------------------------------------

TypeOK ==
  /\ BudgetTypeOK
  /\ pc \in [Call -> {"idle", "request", "backoff"}]
  /\ key \in [Call -> Key \cup {NoKey}]
  /\ protocol \in [Call -> Protocol]
  /\ attempts \in [Call -> Nat]
  /\ abandoned \in [Call -> Nat]
  /\ cache \in [Key -> 0..MaxUsage \cup {NoUsage}]

(* Every reservation is settled or released exactly once: a slot holds one *)
(* exactly while its call runs (budget.py: "Every caller of `reserve` must *)
(* eventually call exactly one of the two, or the reservation leaks").     *)
NoLeakedReservation ==
  \A c \in Call : reserved[c] > 0 <=> pc[c] # "idle"

(* The retry state of one call: where it waits tells how often it has      *)
(* asked and how much abandoned usage it can carry.                        *)
CallState(c) ==
  \/ /\ pc[c] = "idle"
     /\ protocol[c] = TEXT /\ attempts[c] = 0 /\ abandoned[c] = 0
  \/ /\ pc[c] = "request"
     /\ attempts[c] > 0
     /\ attempts[c] + protocol[c] <= MaxRetry + 3
     /\ abandoned[c] <= (attempts[c] - 1) * MaxUsage
     /\ abandoned[c] <= MaxRetry * MaxUsage
  \/ /\ pc[c] = "backoff"
     /\ attempts[c] > 0 /\ attempts[c] <= MaxRetry
     /\ abandoned[c] <= attempts[c] * MaxUsage

CallStates == \A c \in Call : CallState(c)

(* The retry loop sends at most MaxRetry + 1 requests and one more per     *)
(* protocol level it steps down, and carries a blank reply forward at most *)
(* MaxRetry times, so what one call can be charged is MaxActual.           *)
RetriesBounded ==
  \A c \in Call :
    /\ attempts[c] + protocol[c] <= MaxRetry + 3
    /\ abandoned[c] + MaxUsage <= MaxActual

(* A call that ends by its own answer is charged every blank reply it got  *)
(* on the way, whether it then succeeded or gave up (client.py             *)
(* `billed_usage`: "those tokens were spent").                             *)
AbandonedUsageRecorded ==
  [][\A c \in Call :
       (\/ \E u \in 0..MaxUsage : Reply(c, u) \/ Blank(c, u)
        \/ Transient(c)
        \/ Rejected(c)) /\ pc'[c] = "idle"
         => recorded' >= recorded + abandoned[c]]_vars

(* A call that reached the provider ends and gives its reservation back.   *)
CallsEnd == \A c \in Call : pc[c] # "idle" ~> reserved[c] = 0
=============================================================================
