-------------------------- MODULE ModelClientProofs --------------------------
(* The ledger of TokenBudget, for every budget, every set of estimates and *)
(* every finite set of calls; then the model client, for every number of   *)
(* calls, keys and retries: its inductive invariant, and that it uses the  *)
(* budget as TokenBudget says, so that the ledger's theorems are its own.  *)
EXTENDS ModelClient, FiniteSetTheorems, TLAPS

-----------------------------------------------------------------------------
(* The ledger.                                                             *)

(* The ledger keeps its types: a reservation is an estimate or nothing.    *)
THEOREM BudgetTypeCorrect == BudgetSpec => []BudgetTypeOK
<1> USE BudgetAssumption DEF BudgetTypeOK
<1>1. BudgetInit => BudgetTypeOK
  BY DEF BudgetInit
<1>2. BudgetTypeOK /\ [BudgetNext]_budgetVars => BudgetTypeOK'
  <2> SUFFICES ASSUME BudgetTypeOK, [BudgetNext]_budgetVars
               PROVE  BudgetTypeOK'
    OBVIOUS
  <2>1. ASSUME NEW c \in Call, NEW e \in Estimates, Reserve(c, e)
        PROVE  BudgetTypeOK'
    BY <2>1 DEF Reserve
  <2>2. ASSUME NEW c \in Call, NEW e \in Estimates, NEW a \in 0..MaxActual,
               Charge(c, e, a)
        PROVE  BudgetTypeOK'
    BY <2>2 DEF Charge
  <2>3. ASSUME NEW c \in Call, NEW a \in 0..MaxActual, Settle(c, a)
        PROVE  BudgetTypeOK'
    BY <2>3 DEF Settle
  <2>4. ASSUME NEW c \in Call, Release(c)
        PROVE  BudgetTypeOK'
    BY <2>4 DEF Release
  <2>5. CASE UNCHANGED budgetVars
    BY <2>5 DEF budgetVars
  <2> QED
    BY <2>1, <2>2, <2>3, <2>4, <2>5 DEF BudgetNext
<1> QED
  BY <1>1, <1>2, PTL DEF BudgetSpec

-----------------------------------------------------------------------------
(* What a call holds is a number of tokens.                                *)
LEMMA ReservedIsNat ==
  ASSUME BudgetTypeOK, NEW c \in Call
  PROVE  reserved[c] \in Nat
<1>1. reserved[c] \in Estimates \cup {0}
  BY DEF BudgetTypeOK
<1> QED
  BY <1>1, BudgetAssumption

(* How the set of calls in flight moves with a reservation.                *)

LEMMA InFlightFinite ==
  /\ IsFiniteSet(InFlight)
  /\ Cardinality(InFlight) \in Nat
  /\ Cardinality(Call) \in Nat
  /\ Cardinality(InFlight) <= Cardinality(Call)
BY BudgetAssumption, FS_Subset, FS_CardinalityType DEF InFlight

(* A call that takes a reservation joins the calls in flight.              *)
LEMMA InFlightGrows ==
  ASSUME BudgetTypeOK, NEW c \in Call, NEW e \in Estimates,
         reserved[c] = 0, reserved' = [reserved EXCEPT ![c] = e]
  PROVE  /\ Cardinality(InFlight') = Cardinality(InFlight) + 1
         /\ Cardinality(InFlight') <= Cardinality(Call)
<1>1. InFlight' = InFlight \cup {c} /\ c \notin InFlight
  BY BudgetAssumption DEF BudgetTypeOK, InFlight
<1>2. InFlight' \subseteq Call
  BY DEF InFlight
<1> QED
  BY <1>1, <1>2, InFlightFinite, FS_AddElement, FS_Subset, BudgetAssumption

(* A call that gives its reservation back leaves them.                     *)
LEMMA InFlightShrinks ==
  ASSUME BudgetTypeOK, NEW c \in Call,
         reserved[c] > 0, reserved' = [reserved EXCEPT ![c] = 0]
  PROVE  Cardinality(InFlight') = Cardinality(InFlight) - 1
<1>1. InFlight' = InFlight \ {c} /\ c \in InFlight
  BY BudgetAssumption DEF BudgetTypeOK, InFlight
<1> QED
  BY <1>1, InFlightFinite, FS_RemoveElement

(* A cache hit is charged in one step, so its call was not in flight.      *)
LEMMA RoomForOneMore ==
  ASSUME BudgetTypeOK, NEW c \in Call, reserved[c] = 0
  PROVE  Cardinality(InFlight) + 1 <= Cardinality(Call)
<1>1. c \notin InFlight /\ InFlight \cup {c} \subseteq Call
  BY DEF BudgetTypeOK, InFlight
<1> QED
  BY <1>1, InFlightFinite, FS_AddElement, FS_Subset, BudgetAssumption

-----------------------------------------------------------------------------
(* The cap is overrun by at most what the calls in flight can add.         *)
(* OverrunBounded is inductive with the types: a reservation is admitted   *)
(* only under the cap, and every other step that raises `spent` takes its  *)
(* call out of flight.                                                     *)
THEOREM OverrunIsBounded == BudgetSpec => []OverrunBounded
<1> USE BudgetAssumption
<1>1. BudgetInit => OverrunBounded
  <2> SUFFICES ASSUME BudgetInit PROVE OverrunBounded
    OBVIOUS
  <2>1. InFlight = {}
    BY DEF BudgetInit, InFlight
  <2>2. Cardinality(InFlight) = 0 /\ 0 * MaxActual = 0
    BY <2>1, FS_EmptySet
  <2>3. Cardinality(Call) * MaxActual \in Nat
    BY InFlightFinite
  <2> QED
    BY <2>2, <2>3 DEF BudgetInit, OverrunBounded
<1>2. BudgetTypeOK /\ OverrunBounded /\ [BudgetNext]_budgetVars => OverrunBounded'
  <2> SUFFICES ASSUME BudgetTypeOK, OverrunBounded, [BudgetNext]_budgetVars
               PROVE  OverrunBounded'
    OBVIOUS
  <2> DEFINE n == Cardinality(InFlight)
             N == Cardinality(Call)
  <2>0. /\ n \in Nat /\ N \in Nat /\ n <= N
        /\ n * MaxActual \in Nat /\ N * MaxActual \in Nat
        /\ spent \in Int
        /\ spent + n * MaxActual <= Budget + N * MaxActual
    BY InFlightFinite DEF BudgetTypeOK, OverrunBounded
  <2>1. ASSUME NEW c \in Call, NEW e \in Estimates, Reserve(c, e)
        PROVE  OverrunBounded'
    <3>1. n' = n + 1 /\ n' <= N
      BY <2>1, InFlightGrows DEF Reserve
    <3>2. spent' <= Budget /\ spent' \in Int
      BY <2>1 DEF Reserve, BudgetTypeOK
    <3>3. n' \in Nat /\ n' * MaxActual <= N * MaxActual
      <4> HIDE DEF n, N
      <4> QED BY <2>0, <3>1
    <3> QED
      BY <2>0, <3>2, <3>3 DEF OverrunBounded
  <2>2. ASSUME NEW c \in Call, NEW e \in Estimates, NEW a \in 0..MaxActual,
               Charge(c, e, a)
        PROVE  OverrunBounded'
    <3>1. n + 1 <= N
      BY <2>2, RoomForOneMore DEF Charge
    <3>2. n' = n
      BY <2>2 DEF Charge, InFlight
    <3>3. spent' <= Budget + MaxActual /\ spent' \in Int
      BY <2>2 DEF Charge, BudgetTypeOK
    <3>4. n * MaxActual + MaxActual <= N * MaxActual
      <4> HIDE DEF n, N
      <4>1. (n + 1) * MaxActual <= N * MaxActual
        BY <2>0, <3>1
      <4>2. (n + 1) * MaxActual = n * MaxActual + MaxActual
        BY <2>0
      <4> QED BY <4>1, <4>2
    <3> QED
      BY <2>0, <3>2, <3>3, <3>4 DEF OverrunBounded
  <2>3. ASSUME NEW c \in Call, NEW a \in 0..MaxActual, Settle(c, a)
        PROVE  OverrunBounded'
    <3>1. n' = n - 1
      BY <2>3, InFlightShrinks DEF Settle
    <3>2. spent' <= spent + MaxActual /\ spent' \in Int
      BY ReservedIsNat, <2>0, <2>3 DEF Settle
    <3>3. n' * MaxActual = n * MaxActual - MaxActual
      <4> HIDE DEF n
      <4> QED BY <2>0, <3>1
    <3> QED
      BY <2>0, <3>2, <3>3 DEF OverrunBounded
  <2>4. ASSUME NEW c \in Call, Release(c)
        PROVE  OverrunBounded'
    <3>1. n' = n - 1
      BY <2>4, InFlightShrinks DEF Release
    <3>2. spent' <= spent /\ spent' \in Int
      BY ReservedIsNat, <2>0, <2>4 DEF Release
    <3>3. n' * MaxActual = n * MaxActual - MaxActual
      <4> HIDE DEF n
      <4> QED BY <2>0, <3>1
    <3> QED
      BY <2>0, <3>2, <3>3 DEF OverrunBounded
  <2>5. CASE UNCHANGED budgetVars
    BY <2>5 DEF budgetVars, OverrunBounded, InFlight
  <2> QED
    BY <2>1, <2>2, <2>3, <2>4, <2>5 DEF BudgetNext
<1> QED
  BY <1>1, <1>2, BudgetTypeCorrect, PTL DEF BudgetSpec

(* Nothing is reserved while the job is over its budget.                   *)
THEOREM OverBudgetAdmitsNothing == BudgetSpec => NoAdmissionOverBudget
<1> DEFINE Admission ==
      spent > Budget => \A c \in Call : reserved'[c] \in {0, reserved[c]}
<1>1. BudgetTypeOK /\ [BudgetNext]_budgetVars => [Admission]_budgetVars
  <2> SUFFICES ASSUME BudgetTypeOK, BudgetNext, spent > Budget,
                      NEW d \in Call
               PROVE  reserved'[d] \in {0, reserved[d]}
    BY DEF budgetVars
  <2> USE BudgetAssumption DEF BudgetTypeOK
  <2>1. ASSUME NEW c \in Call, NEW e \in Estimates, Reserve(c, e)
        PROVE  FALSE
    BY <2>1 DEF Reserve
  <2>2. ASSUME NEW c \in Call, NEW e \in Estimates, NEW a \in 0..MaxActual,
               Charge(c, e, a)
        PROVE  reserved' = reserved
    BY <2>2 DEF Charge
  <2>3. ASSUME NEW c \in Call, NEW a \in 0..MaxActual, Settle(c, a)
        PROVE  reserved'[d] \in {0, reserved[d]}
    BY <2>3 DEF Settle
  <2>4. ASSUME NEW c \in Call, Release(c)
        PROVE  reserved'[d] \in {0, reserved[d]}
    BY <2>4 DEF Release
  <2> QED
    BY <2>1, <2>2, <2>3, <2>4 DEF BudgetNext
<1> QED
  BY <1>1, BudgetTypeCorrect, PTL DEF BudgetSpec, NoAdmissionOverBudget

-----------------------------------------------------------------------------
(* The model client.                                                       *)


(* Products the arithmetic of the abandoned usage needs.                   *)
LEMMA OneMoreReply ==
  ASSUME NEW n \in Nat, NEW u \in Nat
  PROVE  (n + 1) * u = n * u + u /\ n * u \in Nat
OBVIOUS

LEMMA FewerReplies ==
  ASSUME NEW m \in Nat, NEW n \in Nat, NEW u \in Nat, m <= n
  PROVE  m * u <= n * u
OBVIOUS

(* The invariant that is inductive: which await a call waits at fixes what *)
(* it has reserved, asked and abandoned.                                   *)
IInv == TypeOK /\ NoLeakedReservation /\ CallStates

(* A call never carries more than MaxRetry blank replies.                  *)
LEMMA AbandonedAtMost ==
  ASSUME IInv, NEW c \in Call
  PROVE  /\ abandoned[c] <= MaxRetry * MaxUsage
         /\ abandoned[c] + MaxUsage <= MaxActual
<1> USE ClientAssumption DEF IInv, TypeOK
<1>0. abandoned[c] \in Nat /\ attempts[c] \in Nat
  OBVIOUS
<1>1. /\ MaxRetry * MaxUsage \in Nat
      /\ (MaxRetry + 1) * MaxUsage = MaxRetry * MaxUsage + MaxUsage
  BY OneMoreReply
<1>2. abandoned[c] <= MaxRetry * MaxUsage
  <2>1. CASE pc[c] = "idle"
    BY <2>1, <1>0, <1>1 DEF CallStates, CallState
  <2>2. CASE pc[c] = "request"
    BY <2>2 DEF CallStates, CallState
  <2>3. CASE pc[c] = "backoff"
    <3>1. attempts[c] <= MaxRetry /\ abandoned[c] <= attempts[c] * MaxUsage
      BY <2>3 DEF CallStates, CallState
    <3>2. attempts[c] * MaxUsage <= MaxRetry * MaxUsage
      BY <3>1, <1>0, FewerReplies
    <3> QED
      BY <3>1, <3>2, <1>0, <1>1, OneMoreReply
  <2> QED
    BY <2>1, <2>2, <2>3
<1> QED
  BY <1>0, <1>1, <1>2, BudgetAssumption

(* A call whose slot is free holds nothing; one that waits holds an        *)
(* estimate.                                                               *)
LEMMA ReservationOfCall ==
  ASSUME IInv, NEW c \in Call
  PROVE  /\ pc[c] = "idle" => reserved[c] = 0
         /\ pc[c] # "idle" => reserved[c] > 0
BY ReservedIsNat DEF IInv, TypeOK, NoLeakedReservation

-----------------------------------------------------------------------------
(* Every step of the client is an operation of the ledger, or leaves it    *)
(* alone.                                                                  *)

LEMMA GiveUpIsLedger ==
  ASSUME IInv, NEW c \in Call, NEW u \in 0..MaxActual, GiveUp(c, u)
  PROVE  BudgetNext
BY DEF GiveUp, BudgetNext

LEMMA BlankUsage ==
  ASSUME IInv, NEW c \in Call, NEW u \in 0..MaxUsage
  PROVE  /\ abandoned[c] \in 0..MaxActual
         /\ abandoned[c] + u \in 0..MaxActual
BY AbandonedAtMost, ClientAssumption, BudgetAssumption DEF IInv, TypeOK

LEMMA AnswerIsLedger ==
  ASSUME IInv, NEW c \in Call, Answer(c)
  PROVE  [BudgetNext]_budgetVars
<1>0. 0 \in 0..MaxUsage
  BY ClientAssumption
<1>1. ASSUME NEW u \in 0..MaxUsage, Reply(c, u)
      PROVE  BudgetNext
  <2>1. u + abandoned[c] \in 0..MaxActual
    BY BlankUsage, ClientAssumption DEF IInv, TypeOK
  <2> QED
    BY <1>1, <2>1 DEF Reply, BudgetNext
<1>2. ASSUME NEW u \in 0..MaxUsage, Blank(c, u)
      PROVE  [BudgetNext]_budgetVars
  <2>1. CASE Sleep(c)
    BY <2>1 DEF Sleep
  <2>2. CASE GiveUp(c, abandoned[c] + u)
    BY <2>2, GiveUpIsLedger, BlankUsage
  <2> QED
    BY <1>2, <2>1, <2>2 DEF Blank
<1>3. ASSUME Transient(c)
      PROVE  [BudgetNext]_budgetVars
  <2>1. CASE Sleep(c)
    BY <2>1 DEF Sleep
  <2>2. CASE GiveUp(c, abandoned[c])
    BY <2>2, <1>0, GiveUpIsLedger, BlankUsage
  <2> QED
    BY <1>3, <2>1, <2>2 DEF Transient
<1>4. ASSUME Rejected(c)
      PROVE  BudgetNext
  BY <1>4, <1>0, GiveUpIsLedger, BlankUsage DEF Rejected
<1>5. ASSUME Downgrade(c)
      PROVE  UNCHANGED budgetVars
  BY <1>5 DEF Downgrade
<1>6. ASSUME Escape(c)
      PROVE  BudgetNext
  BY <1>6 DEF Escape, BudgetNext
<1> QED
  BY <1>1, <1>2, <1>3, <1>4, <1>5, <1>6 DEF Answer

LEMMA NextIsLedger ==
  ASSUME IInv, [Next]_vars
  PROVE  [BudgetNext]_budgetVars
<1>1. ASSUME NEW c \in Call, NEW e \in Estimates, NEW k \in Key, NEW p \in Protocol,
             Ask(c, k, p, e)
      PROVE  BudgetNext
  BY <1>1 DEF Ask, BudgetNext
<1>2. ASSUME NEW c \in Call, NEW e \in Estimates, NEW k \in Key, AskHit(c, k, e)
      PROVE  BudgetNext
  <2>1. cache[k] \in 0..MaxUsage
    BY <1>2 DEF AskHit, Cached, IInv, TypeOK
  <2>2. cache[k] \in 0..MaxActual
    <3>1. 0 \in 0..MaxUsage /\ MaxUsage \in 0..MaxUsage
      BY ClientAssumption
    <3>2. MaxUsage <= MaxActual
      BY AbandonedAtMost, ClientAssumption, BudgetAssumption DEF IInv, TypeOK
    <3> QED
      BY <2>1, <3>2, ClientAssumption, BudgetAssumption
  <2> QED
    BY <1>2, <2>2 DEF AskHit, BudgetNext
<1>3. ASSUME NEW c \in Call, Answer(c)
      PROVE  [BudgetNext]_budgetVars
  BY <1>3, AnswerIsLedger
<1>4. ASSUME NEW c \in Call, Resend(c)
      PROVE  UNCHANGED budgetVars
  BY <1>4 DEF Resend
<1>5. ASSUME NEW c \in Call, Cancel(c)
      PROVE  BudgetNext
  BY <1>5 DEF Cancel, BudgetNext
<1>6. CASE UNCHANGED vars
  BY <1>6 DEF vars
<1> QED
  BY <1>1, <1>2, <1>3, <1>4, <1>5, <1>6 DEF Next

-----------------------------------------------------------------------------
(* IInv is preserved: what each step does to the call that takes it, the   *)
(* other calls being left alone.                                           *)

(* The call of c ends: its slot is free and its frame reset.               *)
LEMMA EndPreserves ==
  ASSUME IInv, NEW c \in Call, End(c), BudgetTypeOK',
         reserved' = [reserved EXCEPT ![c] = 0],
         cache' \in [Key -> 0..MaxUsage \cup {NoUsage}]
  PROVE  IInv'
<1> USE DEF IInv, TypeOK
<1>1. TypeOK'
  BY DEF End, Protocol, TEXT
<1>2. NoLeakedReservation'
  BY DEF NoLeakedReservation, End, BudgetTypeOK
<1>3. ASSUME NEW d \in Call PROVE CallState(d)'
  <2>1. CASE d = c
    BY <2>1 DEF CallState, End
  <2>2. CASE d # c
    BY <2>2 DEF CallState, CallStates, End
  <2> QED
    BY <2>1, <2>2
<1> QED
  BY <1>1, <1>2, <1>3 DEF CallStates

(* A step that leaves the ledger alone keeps the types of the ledger.      *)
LEMMA LedgerTypesKept ==
  ASSUME IInv, [Next]_vars
  PROVE  BudgetTypeOK'
<1> USE BudgetAssumption DEF BudgetTypeOK
<1>1. [BudgetNext]_budgetVars /\ BudgetTypeOK
  BY NextIsLedger DEF IInv, TypeOK
<1>2. ASSUME NEW c \in Call, NEW e \in Estimates, Reserve(c, e)
      PROVE  BudgetTypeOK'
  BY <1>1, <1>2 DEF Reserve
<1>3. ASSUME NEW c \in Call, NEW e \in Estimates, NEW a \in 0..MaxActual,
             Charge(c, e, a)
      PROVE  BudgetTypeOK'
  BY <1>1, <1>3 DEF Charge
<1>4. ASSUME NEW c \in Call, NEW a \in 0..MaxActual, Settle(c, a)
      PROVE  BudgetTypeOK'
  BY <1>1, <1>4 DEF Settle
<1>5. ASSUME NEW c \in Call, Release(c)
      PROVE  BudgetTypeOK'
  BY <1>1, <1>5 DEF Release
<1>6. CASE UNCHANGED budgetVars
  BY <1>1, <1>6 DEF budgetVars
<1> QED
  BY <1>1, <1>2, <1>3, <1>4, <1>5, <1>6 DEF BudgetNext

LEMMA GiveUpPreserves ==
  ASSUME IInv, [Next]_vars, NEW c \in Call, NEW u \in 0..MaxActual, GiveUp(c, u)
  PROVE  IInv'
<1>1. reserved' = [reserved EXCEPT ![c] = 0] /\ End(c)
  BY DEF GiveUp, Settle, Release
<1>2. cache' \in [Key -> 0..MaxUsage \cup {NoUsage}]
  BY DEF GiveUp, IInv, TypeOK
<1> QED
  BY <1>1, <1>2, LedgerTypesKept, EndPreserves

(* The call of c goes to sleep after a failed request.                     *)
LEMMA SleepPreserves ==
  ASSUME IInv, NEW c \in Call, pc[c] = "request", Sleep(c),
         NEW u \in 0..MaxUsage, abandoned' = [abandoned EXCEPT ![c] = @ + u]
  PROVE  IInv'
<1> USE ClientAssumption DEF IInv, TypeOK
<1>1. TypeOK'
  BY DEF Sleep, budgetVars, BudgetTypeOK
<1>2. NoLeakedReservation'
  BY DEF NoLeakedReservation, Sleep, budgetVars
<1>3. ASSUME NEW d \in Call PROVE CallState(d)'
  <2>1. CASE d = c
    <3>1. /\ attempts[c] \in Nat /\ attempts[c] > 0 /\ attempts[c] <= MaxRetry
          /\ abandoned[c] \in Nat
          /\ abandoned[c] <= (attempts[c] - 1) * MaxUsage
      BY DEF CallStates, CallState, Sleep
    <3>2. (attempts[c] - 1) * MaxUsage + MaxUsage = attempts[c] * MaxUsage
      <4>1. attempts[c] - 1 \in Nat
        BY <3>1
      <4>2. (attempts[c] - 1) + 1 = attempts[c]
        BY <3>1
      <4> QED BY <4>1, <4>2, OneMoreReply
    <3>3. (attempts[c] - 1) * MaxUsage \in Nat /\ attempts[c] * MaxUsage \in Nat
      BY <3>1, OneMoreReply
    <3>4. abandoned[c] + u <= attempts[c] * MaxUsage
      BY <3>1, <3>2, <3>3
    <3> QED
      BY <2>1, <3>1, <3>4 DEF CallState, Sleep
  <2>2. CASE d # c
    BY <2>2 DEF CallState, CallStates, Sleep
  <2> QED
    BY <2>1, <2>2
<1> QED
  BY <1>1, <1>2, <1>3 DEF CallStates

(* A new call: one request sent, nothing abandoned.                        *)
LEMMA AskPreserves ==
  ASSUME IInv, [Next]_vars, NEW c \in Call, NEW k \in Key, NEW p \in Protocol,
         NEW e \in Estimates, Ask(c, k, p, e)
  PROVE  IInv'
<1> USE ClientAssumption DEF IInv, TypeOK
<1>1. TypeOK'
  BY LedgerTypesKept DEF Ask
<1>2. NoLeakedReservation'
  BY BudgetAssumption DEF NoLeakedReservation, Ask, Reserve, BudgetTypeOK
<1>3. ASSUME NEW d \in Call PROVE CallState(d)'
  <2>1. CASE d = c
    <3>1. abandoned[c] = 0 /\ MaxRetry * MaxUsage \in Nat /\ (1 - 1) * MaxUsage = 0
      BY OneMoreReply DEF CallStates, CallState, Ask
    <3> QED
      BY <2>1, <3>1 DEF CallState, Ask, Protocol
  <2>2. CASE d # c
    BY <2>2 DEF CallState, CallStates, Ask
  <2> QED
    BY <2>1, <2>2
<1> QED
  BY <1>1, <1>2, <1>3 DEF CallStates

(* A further request of a running call.                                    *)
LEMMA DowngradePreserves ==
  ASSUME IInv, NEW c \in Call, Downgrade(c)
  PROVE  IInv'
<1> USE ClientAssumption DEF IInv, TypeOK
<1>1. TypeOK'
  BY DEF Downgrade, budgetVars, BudgetTypeOK, Protocol, TEXT
<1>2. NoLeakedReservation'
  BY DEF NoLeakedReservation, Downgrade, budgetVars
<1>3. ASSUME NEW d \in Call PROVE CallState(d)'
  <2>1. CASE d = c
    <3>1. /\ attempts[c] \in Nat /\ attempts[c] > 0
          /\ abandoned[c] \in Nat
          /\ abandoned[c] <= (attempts[c] - 1) * MaxUsage
          /\ abandoned[c] <= MaxRetry * MaxUsage
          /\ attempts[c] + protocol[c] <= MaxRetry + 3
          /\ protocol[c] \in 1..2
      BY DEF CallStates, CallState, Downgrade, Protocol, TEXT
    <3>2. (attempts[c] - 1) * MaxUsage <= attempts[c] * MaxUsage
      BY <3>1, FewerReplies
    <3>3. (attempts[c] - 1) * MaxUsage \in Nat /\ attempts[c] * MaxUsage \in Nat
      BY <3>1, OneMoreReply
    <3>4. abandoned[c] <= ((attempts[c] + 1) - 1) * MaxUsage
      BY <3>1, <3>2, <3>3
    <3> QED
      BY <2>1, <3>1, <3>4 DEF CallState, Downgrade
  <2>2. CASE d # c
    BY <2>2 DEF CallState, CallStates, Downgrade
  <2> QED
    BY <2>1, <2>2
<1> QED
  BY <1>1, <1>2, <1>3 DEF CallStates

LEMMA ResendPreserves ==
  ASSUME IInv, NEW c \in Call, Resend(c)
  PROVE  IInv'
<1> USE ClientAssumption DEF IInv, TypeOK
<1>1. TypeOK'
  BY DEF Resend, budgetVars, BudgetTypeOK
<1>2. NoLeakedReservation'
  BY DEF NoLeakedReservation, Resend, budgetVars
<1>3. ASSUME NEW d \in Call PROVE CallState(d)'
  <2>1. CASE d = c
    <3>1. /\ attempts[c] \in Nat /\ attempts[c] > 0 /\ attempts[c] <= MaxRetry
          /\ abandoned[c] <= attempts[c] * MaxUsage
          /\ protocol[c] \in 0..2
      BY DEF CallStates, CallState, Resend, Protocol
    <3>2. abandoned[c] <= MaxRetry * MaxUsage
      BY AbandonedAtMost
    <3>3. abandoned[c] <= ((attempts[c] + 1) - 1) * MaxUsage
      BY <3>1
    <3> QED
      BY <2>1, <3>1, <3>2, <3>3 DEF CallState, Resend
  <2>2. CASE d # c
    BY <2>2 DEF CallState, CallStates, Resend
  <2> QED
    BY <2>1, <2>2
<1> QED
  BY <1>1, <1>2, <1>3 DEF CallStates

LEMMA AnswerPreserves ==
  ASSUME IInv, [Next]_vars, NEW c \in Call, Answer(c)
  PROVE  IInv'
<1>0. 0 \in 0..MaxUsage
  BY ClientAssumption
<1>1. ASSUME NEW u \in 0..MaxUsage, Reply(c, u)
      PROVE  IInv'
  <2>1. End(c) /\ reserved' = [reserved EXCEPT ![c] = 0]
    BY <1>1 DEF Reply, Settle
  <2>2. cache' \in [Key -> 0..MaxUsage \cup {NoUsage}]
    BY <1>1 DEF Reply, IInv, TypeOK
  <2> QED
    BY <2>1, <2>2, LedgerTypesKept, EndPreserves
<1>2. ASSUME NEW u \in 0..MaxUsage, Blank(c, u)
      PROVE  IInv'
  <2>1. CASE Sleep(c) /\ abandoned' = [abandoned EXCEPT ![c] = @ + u]
    BY <1>2, <2>1, SleepPreserves DEF Blank
  <2>2. CASE GiveUp(c, abandoned[c] + u)
    BY <2>2, GiveUpPreserves, BlankUsage
  <2> QED
    BY <1>2, <2>1, <2>2 DEF Blank
<1>3. ASSUME Transient(c)
      PROVE  IInv'
  <2>1. CASE Sleep(c) /\ UNCHANGED abandoned
    <3>1. abandoned' = [abandoned EXCEPT ![c] = @ + 0]
      BY <2>1 DEF IInv, TypeOK
    <3> QED
      BY <1>0, <1>3, <2>1, <3>1, SleepPreserves DEF Transient
  <2>2. CASE GiveUp(c, abandoned[c])
    BY <2>2, <1>0, GiveUpPreserves, BlankUsage
  <2> QED
    BY <1>3, <2>1, <2>2 DEF Transient
<1>4. ASSUME Rejected(c)
      PROVE  IInv'
  BY <1>4, <1>0, GiveUpPreserves, BlankUsage DEF Rejected
<1>5. ASSUME Downgrade(c)
      PROVE  IInv'
  BY <1>5, DowngradePreserves
<1>6. ASSUME Escape(c)
      PROVE  IInv'
  BY <1>6, LedgerTypesKept, EndPreserves DEF Escape, Release, IInv, TypeOK
<1> QED
  BY <1>1, <1>2, <1>3, <1>4, <1>5, <1>6 DEF Answer

LEMMA InitIInv == Init => IInv
<1> SUFFICES ASSUME Init PROVE IInv
  OBVIOUS
<1> USE BudgetAssumption, ClientAssumption DEF Init, BudgetInit
<1>1. TypeOK
  BY DEF TypeOK, BudgetTypeOK, Protocol, TEXT
<1>2. NoLeakedReservation
  BY DEF NoLeakedReservation
<1>3. CallStates
  BY DEF CallStates, CallState
<1> QED
  BY <1>1, <1>2, <1>3 DEF IInv

LEMMA NextIInv == IInv /\ [Next]_vars => IInv'
<1> SUFFICES ASSUME IInv, [Next]_vars PROVE IInv'
  OBVIOUS
<1>1. ASSUME NEW c \in Call, NEW e \in Estimates, NEW k \in Key, NEW p \in Protocol,
             Ask(c, k, p, e)
      PROVE  IInv'
  BY <1>1, AskPreserves
<1>2. ASSUME NEW c \in Call, NEW e \in Estimates, NEW k \in Key, AskHit(c, k, e)
      PROVE  IInv'
  BY <1>2, LedgerTypesKept
     DEF IInv, TypeOK, NoLeakedReservation, CallStates, CallState, AskHit, Charge
<1>3. ASSUME NEW c \in Call, Answer(c)
      PROVE  IInv'
  BY <1>3, AnswerPreserves
<1>4. ASSUME NEW c \in Call, Resend(c)
      PROVE  IInv'
  BY <1>4, ResendPreserves
<1>5. ASSUME NEW c \in Call, Cancel(c)
      PROVE  IInv'
  BY <1>5, LedgerTypesKept, EndPreserves DEF Cancel, Release, IInv, TypeOK
<1>6. CASE UNCHANGED vars
  BY <1>6 DEF vars, budgetVars, IInv, TypeOK, BudgetTypeOK, NoLeakedReservation,
              CallStates, CallState
<1> QED
  BY <1>1, <1>2, <1>3, <1>4, <1>5, <1>6 DEF Next

-----------------------------------------------------------------------------
(* The client keeps its types, never leaks a reservation, and bounds what  *)
(* one call retries and abandons.                                          *)
THEOREM ClientInvariant == Spec => []IInv
BY InitIInv, NextIInv, PTL DEF Spec

(* A reservation is held exactly while its call runs, so every call        *)
(* settles or releases what it reserved, on every path out of `complete`.  *)
THEOREM ReservationsMatchCalls == Spec => []NoLeakedReservation
<1>1. IInv => NoLeakedReservation
  BY DEF IInv
<1> QED
  BY <1>1, ClientInvariant, PTL

(* A call sends at most MaxRetry + 3 requests and is charged at most       *)
(* MaxActual.                                                              *)
THEOREM CallRetriesBounded == Spec => []RetriesBounded
<1>1. IInv => RetriesBounded
  <2> SUFFICES ASSUME IInv, NEW c \in Call
               PROVE  /\ attempts[c] + protocol[c] <= MaxRetry + 3
                      /\ abandoned[c] + MaxUsage <= MaxActual
    BY DEF RetriesBounded
  <2>1. attempts[c] + protocol[c] <= MaxRetry + 3
    BY ClientAssumption DEF IInv, TypeOK, CallStates, CallState, Protocol, TEXT
  <2> QED
    BY <2>1, AbandonedAtMost
<1> QED
  BY <1>1, ClientInvariant, PTL

(* The client implements the ledger: every step of complete and of its     *)
(* retry loop is one operation of TokenBudget or leaves the ledger alone.  *)
THEOREM ClientImplementsBudget == Spec => BudgetSpec
<1>1. Init => BudgetInit
  BY DEF Init
<1>2. IInv /\ [Next]_vars => [BudgetNext]_budgetVars
  BY NextIsLedger
<1> QED
  BY <1>1, <1>2, ClientInvariant, PTL DEF Spec, BudgetSpec

(* So the bound on the overrun holds of the client.                        *)
THEOREM ClientOverrunBounded == Spec => []OverrunBounded
BY ClientImplementsBudget, OverrunIsBounded, PTL
-----------------------------------------------------------------------------
(* What a call that gives up, or answers, leaves in `recorded`.            *)
LEMMA GiveUpRecords ==
  ASSUME IInv, NEW c \in Call, NEW u \in Nat, GiveUp(c, u)
  PROVE  recorded' = recorded + u
<1>1. recorded \in Nat
  BY DEF IInv, TypeOK, BudgetTypeOK
<1>2. CASE u > 0
  BY <1>2 DEF GiveUp, Settle
<1>3. CASE u = 0
  BY <1>1, <1>3 DEF GiveUp, Release
<1> QED
  BY <1>2, <1>3

(* A call that sleeps goes on.                                             *)
LEMMA SleepGoesOn ==
  ASSUME IInv, NEW c \in Call, Sleep(c)
  PROVE  pc'[c] = "backoff"
BY DEF IInv, TypeOK, Sleep

(* A call that ends by its own answer is charged every blank reply it got  *)
(* on the way, however the answers mixed and whether it then succeeded or  *)
(* gave up.                                                                *)
THEOREM AbandonedUsageCharged == Spec => AbandonedUsageRecorded
<1> DEFINE Answered(c) ==
             \/ \E u \in 0..MaxUsage : Reply(c, u) \/ Blank(c, u)
             \/ Transient(c)
             \/ Rejected(c)
           Charged == \A c \in Call :
             Answered(c) /\ pc'[c] = "idle" => recorded' >= recorded + abandoned[c]
<1>1. IInv /\ [Next]_vars => [Charged]_vars
  <2> SUFFICES ASSUME IInv, NEW c \in Call, Answered(c), pc'[c] = "idle"
               PROVE  recorded' >= recorded + abandoned[c]
    OBVIOUS
  <2>0. abandoned[c] \in Nat /\ recorded \in Nat /\ 0..MaxUsage \subseteq Nat
    BY ClientAssumption DEF IInv, TypeOK, BudgetTypeOK
  <2>1. ASSUME NEW u \in 0..MaxUsage, Reply(c, u)
        PROVE  recorded' >= recorded + abandoned[c]
    BY <2>0, <2>1 DEF Reply, Settle
  <2>2. ASSUME NEW u \in 0..MaxUsage, Blank(c, u)
        PROVE  recorded' >= recorded + abandoned[c]
    <3>1. GiveUp(c, abandoned[c] + u)
      BY <2>2, SleepGoesOn DEF Blank
    <3>2. recorded' = recorded + (abandoned[c] + u)
      BY <2>0, <3>1, GiveUpRecords
    <3> QED
      BY <2>0, <3>2
  <2>3. ASSUME Transient(c)
        PROVE  recorded' >= recorded + abandoned[c]
    <3>1. GiveUp(c, abandoned[c])
      BY <2>3, SleepGoesOn DEF Transient
    <3> QED
      BY <2>0, <3>1, GiveUpRecords
  <2>4. ASSUME Rejected(c)
        PROVE  recorded' >= recorded + abandoned[c]
    BY <2>0, <2>4, GiveUpRecords DEF Rejected
  <2> QED
    BY <2>1, <2>2, <2>3, <2>4
<1> QED
  BY <1>1, ClientInvariant, PTL DEF Spec, AbandonedUsageRecorded
=============================================================================
