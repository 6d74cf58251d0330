----------------------------- MODULE TokenBudget -----------------------------
(***************************************************************************)
(* The token budget of one job (principal/models/budget.py) as the model   *)
(* client uses it: a call reserves an estimate, and later either settles   *)
(* the reservation to what the provider billed or releases it.             *)
(*                                                                         *)
(* Every operation is one SQLite transaction on the job row, so it is one  *)
(* action here.  `recorded` is the sum of the `billed_tokens` of the       *)
(* job's model.call events; the client writes that event right after the   *)
(* settlement with no await in between, so no other coroutine runs between *)
(* the two and they are one step.                                          *)
(***************************************************************************)
EXTENDS Integers, FiniteSets, FiniteSetsExt

CONSTANTS
  Call,         \* the concurrent model calls a job can have in flight
  Budget,       \* job.token_budget
  Estimates,    \* the estimates a call can reserve (prompt + max_tokens)
  MaxActual     \* the most one call can be billed, abandoned replies included

ASSUME BudgetAssumption ==
  /\ IsFiniteSet(Call)
  /\ Budget \in Nat
  /\ \A e \in Estimates : e \in Nat /\ e > 0    \* estimate_tokens is at least 1
  /\ MaxActual \in Nat

VARIABLES
  spent,        \* job.tokens_spent
  reserved,     \* per call, the estimate it holds; 0 when it holds none
  recorded      \* the sum of billed_tokens over the job's model.call events

budgetVars == <<spent, reserved, recorded>>

InFlight == {c \in Call : reserved[c] > 0}

BudgetInit ==
  /\ spent = 0
  /\ reserved = [c \in Call |-> 0]
  /\ recorded = 0

(* Mutant of Reserve: the cap is looked at somewhere else.                 *)
ReserveUnchecked(c, estimate) ==
  /\ reserved[c] = 0
  /\ spent' = spent + estimate
  /\ reserved' = [reserved EXCEPT ![c] = estimate]
  /\ UNCHANGED recorded

(* TokenBudget.reserve: the check and the provisional spend are one        *)
(* transaction.                                                            *)
Reserve(c, estimate) ==
  /\ reserved[c] = 0
  /\ spent + estimate <= Budget
  /\ spent' = spent + estimate
  /\ reserved' = [reserved EXCEPT ![c] = estimate]
  /\ UNCHANGED recorded

(* TokenBudget.settle, with the model.call record that follows it.         *)
Settle(c, actual) ==
  /\ reserved[c] > 0
  /\ spent' = spent + (actual - reserved[c])
  /\ reserved' = [reserved EXCEPT ![c] = 0]
  /\ recorded' = recorded + actual

(* TokenBudget.release: the whole reservation comes back.                  *)
Release(c) ==
  /\ reserved[c] > 0
  /\ spent' = spent - reserved[c]
  /\ reserved' = [reserved EXCEPT ![c] = 0]
  /\ UNCHANGED recorded

(* A cache hit reserves and settles without an await in between.           *)
Charge(c, estimate, actual) ==
  /\ reserved[c] = 0
  /\ spent + estimate <= Budget
  /\ spent' = spent + actual
  /\ recorded' = recorded + actual
  /\ UNCHANGED reserved

BudgetNext ==
  \E c \in Call :
    \/ \E e \in Estimates :
         \/ Reserve(c, e)
         \/ \E a \in 0..MaxActual : Charge(c, e, a)
    \/ \E a \in 0..MaxActual : Settle(c, a)
    \/ Release(c)

BudgetSpec == BudgetInit /\ [][BudgetNext]_budgetVars

-----------------------------------------------------------------------------

BudgetTypeOK ==
  /\ spent \in Int
  /\ reserved \in [Call -> Estimates \cup {0}]
  /\ recorded \in Nat

(* What the evidence bundle calls `unattributed_tokens` is zero once the   *)
(* calls have ended: tokens_spent is the sum of the model.call records     *)
(* plus the reservations still held (client.py `_record_call`: "the        *)
(* records sum to `tokens_spent`").                                        *)
LedgerBalances ==
  spent = recorded + MapThenSumSet(LAMBDA c : reserved[c], Call)

(* The cap can be overrun, because a call is billed what it used and not   *)
(* what it estimated, but only by the calls that were in flight when the   *)
(* budget ran out: a call still in flight can add at most MaxActual, and   *)
(* none is admitted past the cap (budget.py: "the second concurrent call   *)
(* sees the first call's reservation already counted").                    *)
OverrunBounded ==
  spent + Cardinality(InFlight) * MaxActual
    <= Budget + Cardinality(Call) * MaxActual

(* A job that is already over its budget gets no further call: while spent *)
(* is above the cap the set of reservations only shrinks.                  *)
NoAdmissionOverBudget ==
  [][spent > Budget => \A c \in Call : reserved'[c] \in {0, reserved[c]}]_budgetVars
=============================================================================
