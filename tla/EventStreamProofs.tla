-------------------------- MODULE EventStreamProofs --------------------------
(* The stream delivers the log in order to every client of a job that      *)
(* replays in one page, and to every client that never lags; MCEventStream *)
(* shows what happens to a lagging client of a longer job.                 *)
EXTENDS EventStream, SequenceTheorems, TLAPS

(* The jobs the promise is proved for.                                     *)
SmallJob == MaxEvents < Page \/ MaxEvents <= QueueSize

(* The seq after which the generator still has to deliver from the queue.  *)
Base == IF pc = "replay" THEN pageEnd ELSE maxSeq

(* Where the generator is in the log.                                      *)
Position ==
  /\ Len(got) <= Len(log) /\ Len(log) <= MaxEvents
  /\ Subscribed => maxSeq = Len(got)
  /\ pc = "replay" => maxSeq <= pageEnd /\ pageEnd <= Len(log)

(* A queue that has not overflowed holds the tail of the log, and reaches  *)
(* back to where the replay ends.                                          *)
WholeQueue ==
  Subscribed /\ ~lagged =>
    /\ Len(queue) <= Len(log)
    /\ \A i \in 1..Len(queue) : queue[i] = (Len(log) - Len(queue)) + i
    /\ (pc = "replay" /\ more) \/ Len(log) - Len(queue) <= Base

(* With one page the queue and the replay do not overlap.                  *)
NoOverlap ==
  MaxEvents < Page =>
    /\ pc = "replay" => ~more
    /\ Subscribed /\ ~lagged => Len(log) - Len(queue) = Base

(* A queue that has overflowed starts with the next event to deliver, so   *)
(* the generator looks at the lag before it can reach the hole.            *)
LaggedQueue ==
  lagged =>
    /\ MaxEvents < Page
    /\ pc \in {"replay", "live"} =>
         queue # <<>> /\ queue[1] = Base + 1 /\ Base < Len(log)

IInv == TypeOK /\ InOrder /\ Position /\ WholeQueue /\ NoOverlap /\ LaggedQueue

LEMMA LastIdIsLength ==
  ASSUME TypeOK, InOrder
  PROVE  LastId = Len(got)
BY DEF TypeOK, InOrder, LastId

(* Delivering the next event keeps the order.                              *)
LEMMA YieldNext ==
  ASSUME TypeOK, InOrder, NEW s, s = Len(got) + 1, Yield(s)
  PROVE  /\ InOrder'
         /\ Len(got') = Len(got) + 1
         /\ got' \in Seq(Nat)
         /\ maxSeq' = Len(got')
<1>1. got' = Append(got, s) /\ got \in Seq(Nat) /\ s \in Nat
  BY DEF Yield, TypeOK
<1>2. Len(got') = Len(got) + 1 /\ got' \in Seq(Nat)
  BY <1>1
<1>3. \A i \in 1..Len(got') : got'[i] = i
  <2> SUFFICES ASSUME NEW i \in 1..Len(got') PROVE got'[i] = i
    OBVIOUS
  <2>1. CASE i \in 1..Len(got)
    <3>1. got[i] = i
      BY <2>1 DEF InOrder
    <3> QED
      BY <2>1, <3>1, <1>1
  <2>2. CASE i = Len(got) + 1
    BY <2>2, <1>1
  <2> QED
    BY <2>1, <2>2, <1>1, <1>2
<1>4. DOMAIN got' = 1..Len(got') /\ got' = [i \in DOMAIN got' |-> got'[i]]
  BY <1>2
<1>5. InOrder'
  BY <1>3, <1>4 DEF InOrder
<1> QED
  BY <1>2, <1>5 DEF Yield

(* A generator that is off constrains nothing but the client.              *)
LEMMA OffIsQuiet ==
  ASSUME TypeOK, InOrder, Len(got) <= Len(log), Len(log) <= MaxEvents,
         pc = "off", lagged = FALSE
  PROVE  IInv
<1>1. Position
  BY DEF Position, Subscribed
<1>2. WholeQueue /\ NoOverlap /\ LaggedQueue
  BY DEF WholeQueue, NoOverlap, LaggedQueue, Subscribed
<1> QED
  BY <1>1, <1>2 DEF IInv

LEMMA InitIInv == Init => IInv
<1> SUFFICES ASSUME Init PROVE IInv
  OBVIOUS
<1>1. Len(got) = 0 /\ Len(log) = 0 /\ Len(queue) = 0
  BY DEF Init
<1>2. got \in Seq(Nat) /\ log \in Seq(BOOLEAN) /\ queue \in Seq(Nat)
  BY DEF Init
<1>3. pc = "off" /\ lagged = FALSE /\ more = FALSE /\ closed = FALSE
  BY DEF Init
<1>4. maxSeq = 0 /\ pageEnd = 0 /\ drops = 0
  BY DEF Init
<1>5. TypeOK
  <2>1. lagged \in BOOLEAN /\ more \in BOOLEAN /\ closed \in BOOLEAN
    BY <1>3
  <2>2. pc \in {"off", "replay", "live", "check"}
    BY <1>3
  <2> QED
    BY <1>1, <1>2, <1>4, <2>1, <2>2, StreamAssumption DEF TypeOK
<1>6. Len(got) <= Len(log) /\ Len(log) <= MaxEvents
  BY <1>1, StreamAssumption
<1>7. InOrder
  BY <1>1 DEF InOrder, Init
<1> QED
  BY <1>3, <1>5, <1>6, <1>7, OffIsQuiet

(* The generator ends: nothing of the connection is left.                  *)
LEMMA UnsubscribePreserves ==
  ASSUME TypeOK, InOrder', Len(log) <= MaxEvents, Unsubscribe,
         got' \in Seq(Nat), log' = log, Len(got') <= Len(log),
         maxSeq' \in Nat, UNCHANGED <<pageEnd, more>>, closed' \in BOOLEAN,
         drops' \in Nat
  PROVE  IInv'
<1>1. TypeOK'
  <2>1. queue' \in Seq(Nat) /\ Len(queue') = 0
    BY DEF Unsubscribe
  <2>2. lagged' \in BOOLEAN /\ pc' = "off"
    BY DEF Unsubscribe
  <2> QED
    BY <2>1, <2>2, StreamAssumption DEF TypeOK
<1>2. Position'
  BY DEF Position, Subscribed, Unsubscribe
<1>3. WholeQueue' /\ NoOverlap' /\ LaggedQueue'
  BY DEF WholeQueue, NoOverlap, LaggedQueue, Subscribed, Unsubscribe
<1> QED
  BY <1>1, <1>2, <1>3 DEF IInv

LEMMA EmitPreserves ==
  ASSUME SmallJob, IInv, NEW t \in BOOLEAN, Emit(t)
  PROVE  IInv'
<1> USE StreamAssumption DEF IInv
<1>1. log' = Append(log, t) /\ log' \in Seq(BOOLEAN) /\ Len(log') = Len(log) + 1
  BY DEF Emit, TypeOK
<1>a. /\ UNCHANGED <<pc, maxSeq, pageEnd, more, got, closed, drops>>
      /\ Len(log) < MaxEvents /\ Len(log) \in Nat /\ Len(got) \in Nat
  BY DEF Emit, TypeOK
<1>b. InOrder'
  BY <1>a DEF InOrder
<1>c. Position'
  BY <1>1, <1>a DEF Position, Subscribed, TypeOK
<1>2. InOrder' /\ Position'
  BY <1>b, <1>c
<1>3. CASE ~Subscribed
  <2>1. UNCHANGED <<queue, lagged, pc, maxSeq, pageEnd, more>>
    BY <1>3 DEF Emit
  <2>2. TypeOK'
    BY <1>1, <2>1 DEF Emit, TypeOK
  <2>3. WholeQueue' /\ NoOverlap' /\ LaggedQueue'
    BY <1>3, <2>1 DEF WholeQueue, NoOverlap, LaggedQueue, Subscribed
  <2> QED
    BY <1>2, <2>2, <2>3
<1>4. CASE Subscribed /\ Len(queue) < QueueSize
  <2>1. queue' = Append(queue, Len(log) + 1) /\ lagged' = lagged /\ pc' = pc
    BY <1>4 DEF Emit
  <2>2. Len(queue') = Len(queue) + 1 /\ queue' \in Seq(Nat)
    BY <2>1 DEF TypeOK
  <2>3. TypeOK'
    BY <1>1, <1>4, <2>1, <2>2 DEF Emit, TypeOK
  <2>4. Base' = Base /\ Subscribed' = Subscribed
    BY <2>1 DEF Base, Subscribed, Emit
  <2>5. WholeQueue'
    <3> SUFFICES ASSUME ~lagged
                 PROVE  /\ Len(queue') <= Len(log')
                        /\ \A i \in 1..Len(queue') :
                              queue'[i] = (Len(log') - Len(queue')) + i
                        /\ (pc = "replay" /\ more) \/ Len(log') - Len(queue') <= Base
      BY <1>4, <2>1, <2>4 DEF WholeQueue, Emit
    <3>1. Len(log') - Len(queue') = Len(log) - Len(queue)
      BY <1>1, <2>2 DEF TypeOK
    <3>2. ASSUME NEW i \in 1..Len(queue')
          PROVE  queue'[i] = (Len(log') - Len(queue')) + i
      <4>1. CASE i \in 1..Len(queue)
        BY <4>1, <1>4, <2>1, <3>1 DEF WholeQueue, TypeOK
      <4>2. CASE i = Len(queue) + 1
        BY <4>2, <2>1, <3>1, <1>1 DEF TypeOK
      <4> QED
        BY <4>1, <4>2, <2>2 DEF TypeOK
    <3> QED
      BY <1>1, <1>4, <2>2, <3>1, <3>2 DEF WholeQueue, TypeOK
  <2>6. NoOverlap'
    BY <1>1, <2>1, <2>2, <2>4 DEF NoOverlap, Emit, TypeOK
  <2>7. LaggedQueue'
    <3> SUFFICES ASSUME lagged
                 PROVE  /\ MaxEvents < Page
                        /\ pc \in {"replay", "live"} =>
                             queue' # <<>> /\ queue'[1] = Base + 1 /\ Base < Len(log')
      BY <2>1, <2>4 DEF LaggedQueue
    <3>1. CASE pc \in {"replay", "live"}
      <4>1. queue # <<>> /\ queue[1] = Base + 1 /\ Base < Len(log)
        BY <3>1 DEF LaggedQueue
      <4>a. Len(queue) > 0 /\ queue \in Seq(Nat) /\ Len(log) + 1 \in Nat
        BY <4>1 DEF TypeOK
      <4>b. queue'[1] = queue[1]
        BY <2>1, <4>a
      <4>2. queue' # <<>> /\ queue'[1] = queue[1]
        BY <2>2, <4>a, <4>b
      <4>3. Base < Len(log')
        BY <1>1, <4>1 DEF Base, TypeOK
      <4> QED
        BY <4>1, <4>2, <4>3 DEF LaggedQueue
    <3>2. CASE pc \notin {"replay", "live"}
      BY <3>2 DEF LaggedQueue
    <3> QED
      BY <3>1, <3>2
  <2> QED
    BY <1>2, <2>3, <2>5, <2>6, <2>7
<1>5. CASE Subscribed /\ ~(Len(queue) < QueueSize)
  <2>1. queue' = queue /\ lagged' = TRUE /\ pc' = pc
    BY <1>5 DEF Emit
  <2>2. TypeOK'
    BY <1>1, <2>1 DEF Emit, TypeOK
  <2>3. Base' = Base /\ Subscribed' = Subscribed
    BY <2>1 DEF Base, Subscribed, Emit
  <2>4. Len(queue) = QueueSize /\ Len(queue) \in Nat /\ Len(log) \in Nat
    BY <1>5 DEF TypeOK
  <2>5. MaxEvents < Page
    <3>1. CASE lagged
      BY <3>1 DEF LaggedQueue
    <3>2. CASE ~lagged
      <4>1. Len(queue) <= Len(log) /\ Len(log) < MaxEvents
        BY <1>5, <3>2 DEF WholeQueue, Emit
      <4> QED
        BY <4>1, <2>4 DEF SmallJob
    <3> QED
      BY <3>1, <3>2
  <2>6. ASSUME pc \in {"replay", "live"}
        PROVE  queue # <<>> /\ queue[1] = Base + 1 /\ Base < Len(log')
    <3>1. CASE lagged
      BY <1>1, <2>4, <2>6, <3>1 DEF LaggedQueue, Base, TypeOK
    <3>2. CASE ~lagged
      <4>1. 1 \in 1..Len(queue)
        BY <2>4
      <4>2. queue[1] = (Len(log) - Len(queue)) + 1
        BY <1>5, <3>2, <4>1 DEF WholeQueue
      <4>3. Len(log) - Len(queue) = Base
        BY <1>5, <2>5, <3>2 DEF NoOverlap
      <4>4. Base < Len(log')
        BY <1>1, <2>4, <4>3, StreamAssumption
      <4>5. queue # <<>> /\ queue[1] = Base + 1
        BY <4>1, <4>2, <4>3 DEF TypeOK
      <4> QED
        BY <4>4, <4>5
    <3> QED
      BY <3>1, <3>2
  <2> QED
    BY <1>2, <2>1, <2>2, <2>3, <2>5, <2>6
       DEF WholeQueue, NoOverlap, LaggedQueue, Emit
<1> QED
  BY <1>3, <1>4, <1>5

-----------------------------------------------------------------------------
(* The queries of the replay.                                              *)

LEMMA QueryPosition ==
  ASSUME TypeOK, Position, NEW s \in Nat, s <= Len(log), Query(s)
  PROVE  /\ pageEnd' \in Nat /\ more' \in BOOLEAN
         /\ pc' \in {"replay", "live"}
         /\ s <= pageEnd' /\ pageEnd' <= Len(log)
         /\ pc' = "live" => s = Len(log)
         /\ ~more' => pageEnd' = Len(log)
         /\ MaxEvents < Page => ~more'
<1>1. Len(log) \in Nat /\ Len(log) <= MaxEvents /\ Page \in Nat /\ Page > 0
      /\ MaxEvents \in Nat
  BY StreamAssumption DEF TypeOK, Position
<1>2. pageEnd' = IF Len(log) - s > Page THEN s + Page ELSE Len(log)
  BY DEF Query
<1>3. more' = (Len(log) - s >= Page)
  BY DEF Query
<1>4. pc' = IF Len(log) > s THEN "replay" ELSE "live"
  BY DEF Query
<1>5. pageEnd' \in Nat /\ s <= pageEnd' /\ pageEnd' <= Len(log)
  BY <1>1, <1>2
<1>6. more' \in BOOLEAN
  BY <1>3
<1>7. more' <=> Len(log) - s >= Page
  BY <1>3
<1>8. (~more' => pageEnd' = Len(log)) /\ (MaxEvents < Page => ~more')
  BY <1>1, <1>2, <1>7
<1>9. pc' \in {"replay", "live"} /\ (pc' = "live" => s = Len(log))
  BY <1>1, <1>4
<1> QED
  BY <1>5, <1>6, <1>8, <1>9

LEMMA ConnectPreserves ==
  ASSUME SmallJob, IInv, Connect
  PROVE  IInv'
<1> USE DEF IInv
<1>1. LastId = Len(got) /\ Len(got) \in Nat /\ Len(got) <= Len(log)
  BY LastIdIsLength DEF TypeOK, Position
<1>2. /\ pageEnd' \in Nat /\ more' \in BOOLEAN
      /\ pc' \in {"replay", "live"}
      /\ Len(got) <= pageEnd' /\ pageEnd' <= Len(log)
      /\ pc' = "live" => Len(got) = Len(log)
      /\ ~more' => pageEnd' = Len(log)
      /\ MaxEvents < Page => ~more'
  BY <1>1, QueryPosition DEF Connect
<1>3. /\ lagged' = FALSE /\ maxSeq' = Len(got)
      /\ UNCHANGED <<log, got, closed, drops>>
  BY <1>1 DEF Connect
<1>6. queue' \in Seq(Nat) /\ Len(queue') = 0
  BY DEF Connect
<1>4. TypeOK'
  <2>1. lagged' \in BOOLEAN /\ closed' \in BOOLEAN /\ maxSeq' \in Nat
    BY <1>1, <1>3 DEF TypeOK
  <2>2. log' \in Seq(BOOLEAN) /\ got' \in Seq(Nat) /\ drops' \in Nat
    BY <1>3 DEF TypeOK
  <2> QED
    BY <1>2, <1>6, <2>1, <2>2, StreamAssumption DEF TypeOK
<1>5. InOrder' /\ Position'
  BY <1>1, <1>2, <1>3 DEF InOrder, Position
<1>7. WholeQueue'
  BY <1>1, <1>2, <1>3, <1>6 DEF WholeQueue, Base, TypeOK
<1>8. NoOverlap' /\ LaggedQueue'
  BY <1>1, <1>2, <1>3, <1>6 DEF NoOverlap, LaggedQueue, Base, TypeOK
<1> QED
  BY <1>4, <1>5, <1>7, <1>8

LEMMA ReplayRowPreserves ==
  ASSUME SmallJob, IInv, ReplayRow
  PROVE  IInv'
<1> USE DEF IInv
<1>1. /\ maxSeq = Len(got) /\ Len(got) < pageEnd /\ pageEnd <= Len(log)
      /\ Len(got) \in Nat /\ Len(log) \in Nat /\ pageEnd \in Nat
  BY DEF ReplayRow, Position, Subscribed, TypeOK
<1>2. InOrder' /\ got' \in Seq(Nat) /\ Len(got') = Len(got) + 1 /\ maxSeq' = Len(got')
  BY <1>1, YieldNext DEF ReplayRow
<1>3. CASE log[maxSeq + 1]
  <2>1. Unsubscribe
    BY <1>3 DEF ReplayRow
  <2>2. Len(got') <= Len(log) /\ maxSeq' \in Nat /\ Len(log) <= MaxEvents
    BY <1>1, <1>2 DEF Position
  <2>3. UNCHANGED <<log, pageEnd, more>> /\ closed' \in BOOLEAN /\ drops' \in Nat
    BY DEF ReplayRow, TypeOK
  <2> QED
    BY <1>2, <2>1, <2>2, <2>3, UnsubscribePreserves
<1>4. CASE ~log[maxSeq + 1]
  <2>1. UNCHANGED <<log, pageEnd, more, closed, drops, pc, queue, lagged>>
    BY <1>4 DEF ReplayRow
  <2>2. TypeOK'
    BY <1>1, <1>2, <2>1 DEF TypeOK
  <2>3. Position'
    BY <1>1, <1>2, <2>1 DEF Position, Subscribed
  <2>4. Base' = Base /\ Subscribed' = Subscribed
    BY <2>1 DEF Base, Subscribed, ReplayRow
  <2>5. WholeQueue' /\ NoOverlap' /\ LaggedQueue'
    BY <2>1, <2>4 DEF WholeQueue, NoOverlap, LaggedQueue
  <2> QED
    BY <1>2, <2>2, <2>3, <2>5
<1> QED
  BY <1>3, <1>4

LEMMA ReplayPagePreserves ==
  ASSUME SmallJob, IInv, ReplayPage
  PROVE  IInv'
<1> USE DEF IInv
<1>1. /\ pc = "replay" /\ maxSeq = Len(got) /\ maxSeq = pageEnd /\ maxSeq <= Len(log)
      /\ Subscribed /\ Len(got) \in Nat /\ Len(log) \in Nat /\ Len(queue) \in Nat
      /\ UNCHANGED <<log, queue, lagged, maxSeq, got, closed, drops>>
  BY DEF ReplayPage, Position, Subscribed, TypeOK
<1>2. InOrder'
  BY <1>1 DEF InOrder
<1>3. CASE more
  <2>1. /\ pageEnd' \in Nat /\ more' \in BOOLEAN
        /\ pc' \in {"replay", "live"}
        /\ maxSeq <= pageEnd' /\ pageEnd' <= Len(log)
        /\ pc' = "live" => maxSeq = Len(log)
        /\ ~more' => pageEnd' = Len(log)
    BY <1>1, <1>3, QueryPosition DEF ReplayPage
  <2>2. ~(MaxEvents < Page)
    BY <1>1, <1>3 DEF NoOverlap
  <2>3. TypeOK' /\ Position'
    BY <1>1, <2>1 DEF TypeOK, Position, Subscribed
  <2>4. ~lagged /\ Subscribed'
    BY <2>1, <2>2 DEF LaggedQueue, Subscribed
  <2>5. WholeQueue'
    <3>1. Len(log) - Len(queue) <= Len(log) /\ Len(queue) <= Len(log)
      BY <1>1, <2>4 DEF WholeQueue
    <3> QED
      BY <1>1, <2>1, <2>4, <3>1 DEF WholeQueue, Base
  <2>6. NoOverlap' /\ LaggedQueue'
    BY <1>1, <2>2, <2>4 DEF NoOverlap, LaggedQueue
  <2> QED
    BY <1>2, <2>3, <2>5, <2>6
<1>4. CASE ~more
  <2>1. pc' = "live" /\ UNCHANGED <<pageEnd, more>>
    BY <1>4 DEF ReplayPage
  <2>2. TypeOK' /\ Position'
    BY <1>1, <2>1 DEF TypeOK, Position, Subscribed
  <2>3. Base' = Base /\ Subscribed'
    BY <1>1, <2>1 DEF Base, Subscribed
  <2>4. WholeQueue' /\ NoOverlap' /\ LaggedQueue'
    BY <1>1, <1>4, <2>1, <2>3 DEF WholeQueue, NoOverlap, LaggedQueue
  <2> QED
    BY <1>2, <2>2, <2>4
<1> QED
  BY <1>3, <1>4

-----------------------------------------------------------------------------
(* The live loop.                                                          *)

(* The head of the queue is the next event to deliver or one delivered     *)
(* already, never a later one.                                             *)
LEMMA HeadOfQueue ==
  ASSUME IInv, pc = "live", queue # <<>>
  PROVE  /\ Head(queue) = queue[1] /\ Head(queue) \in Nat
         /\ maxSeq = Len(got) /\ Len(got) \in Nat
         /\ Head(queue) <= maxSeq + 1 /\ Head(queue) <= Len(log)
         /\ lagged \/ MaxEvents < Page => Head(queue) = maxSeq + 1
         /\ Len(Tail(queue)) = Len(queue) - 1 /\ Tail(queue) \in Seq(Nat)
         /\ \A i \in 1..Len(Tail(queue)) : Tail(queue)[i] = queue[i + 1]
<1> USE DEF IInv
<1>1. /\ Len(queue) \in Nat /\ Len(queue) > 0 /\ Len(log) \in Nat
      /\ queue \in Seq(Nat)
  BY DEF TypeOK
<1>2. /\ Head(queue) = queue[1] /\ Head(queue) \in Nat
      /\ Len(Tail(queue)) = Len(queue) - 1 /\ Tail(queue) \in Seq(Nat)
      /\ \A i \in 1..Len(Tail(queue)) : Tail(queue)[i] = queue[i + 1]
  BY <1>1
<1>3. Base = maxSeq /\ Subscribed /\ maxSeq = Len(got) /\ Len(got) \in Nat
  BY DEF Base, Subscribed, Position, TypeOK
<1>4. CASE lagged
  BY <1>2, <1>3, <1>4 DEF LaggedQueue
<1>5. CASE ~lagged
  <2>1. queue[1] = (Len(log) - Len(queue)) + 1
    BY <1>1, <1>3, <1>5 DEF WholeQueue
  <2>2. Len(log) - Len(queue) <= maxSeq /\ Len(queue) <= Len(log)
    BY <1>3, <1>5 DEF WholeQueue
  <2>3. MaxEvents < Page => Len(log) - Len(queue) = maxSeq
    BY <1>3, <1>5 DEF NoOverlap
  <2> QED
    BY <1>1, <1>2, <1>3, <1>5, <2>1, <2>2, <2>3
<1> QED
  BY <1>4, <1>5

(* Taking the head off a queue that has not overflowed.                    *)
LEMMA TailOfQueue ==
  ASSUME IInv, pc = "live", queue # <<>>, queue' = Tail(queue), log' = log,
         ~lagged
  PROVE  /\ Len(queue') <= Len(log')
         /\ \A i \in 1..Len(queue') : queue'[i] = (Len(log') - Len(queue')) + i
         /\ Len(log') - Len(queue') = queue[1]
<1> USE DEF IInv
<1>1. /\ Len(queue) \in Nat /\ Len(queue) > 0 /\ Len(log) \in Nat
      /\ Len(queue') = Len(queue) - 1
      /\ \A i \in 1..Len(queue') : queue'[i] = queue[i + 1]
  BY HeadOfQueue DEF TypeOK
<1>2. /\ \A i \in 1..Len(queue) : queue[i] = (Len(log) - Len(queue)) + i
      /\ Len(queue) <= Len(log)
  BY DEF WholeQueue, Subscribed
<1>3. ASSUME NEW i \in 1..Len(queue')
      PROVE  queue'[i] = (Len(log') - Len(queue')) + i
  <2>1. i + 1 \in 1..Len(queue) /\ i \in Nat
    BY <1>1
  <2>2. queue[i + 1] = (Len(log) - Len(queue)) + (i + 1)
    BY <1>2, <2>1
  <2> QED
    BY <1>1, <2>1, <2>2
<1> QED
  BY <1>1, <1>2, <1>3

LEMMA LiveSkipPreserves ==
  ASSUME SmallJob, IInv, LiveSkip
  PROVE  IInv'
<1> USE DEF IInv
<1>1. /\ pc = "live" /\ queue # <<>> /\ Head(queue) <= maxSeq
      /\ queue' = Tail(queue)
      /\ UNCHANGED <<log, lagged, pc, maxSeq, pageEnd, more, got, closed, drops>>
  BY DEF LiveSkip, Skipping
<1>2. ~lagged /\ ~(MaxEvents < Page)
  BY <1>1, HeadOfQueue
<1>3. Len(queue') = Len(queue) - 1 /\ queue' \in Seq(Nat)
  BY <1>1, HeadOfQueue
<1>4. TypeOK'
  <2>1. Len(queue') <= QueueSize
    BY <1>3, StreamAssumption DEF TypeOK
  <2>2. UNCHANGED <<log, lagged, pc, maxSeq, pageEnd, more, got, closed, drops>>
    BY <1>1
  <2> QED
    BY <1>3, <2>1, <2>2 DEF TypeOK
<1>5. InOrder' /\ Position'
  BY <1>1 DEF InOrder, Position, Subscribed
<1>6. WholeQueue'
  BY <1>1, <1>2, TailOfQueue, HeadOfQueue DEF WholeQueue, Base
<1>7. NoOverlap' /\ LaggedQueue'
  BY <1>1, <1>2 DEF NoOverlap, LaggedQueue
<1> QED
  BY <1>4, <1>5, <1>6, <1>7

LEMMA LiveYieldPreserves ==
  ASSUME SmallJob, IInv, LiveYield
  PROVE  IInv'
<1> USE DEF IInv
<1>1. /\ pc = "live" /\ queue # <<>> /\ Head(queue) > maxSeq
      /\ UNCHANGED <<log, pageEnd, more, closed, drops>>
      /\ Yield(Head(queue))
  BY DEF LiveYield
<1>2. Head(queue) = Len(got) + 1 /\ Head(queue) <= Len(log) /\ Head(queue) \in Nat
  BY <1>1, HeadOfQueue
<1>3. InOrder' /\ got' \in Seq(Nat) /\ Len(got') = Len(got) + 1 /\ maxSeq' = Len(got')
  BY <1>1, <1>2, YieldNext
<1>4. Len(got') <= Len(log) /\ maxSeq' \in Nat /\ Len(log) <= MaxEvents
  BY <1>2, <1>3 DEF Position, TypeOK
<1>5. CASE log[Head(queue)]
  <2>1. Unsubscribe
    BY <1>5 DEF LiveYield
  <2>2. closed' \in BOOLEAN /\ drops' \in Nat
    BY <1>1 DEF TypeOK
  <2> QED
    BY <1>1, <1>3, <1>4, <2>1, <2>2, UnsubscribePreserves
<1>6. CASE ~log[Head(queue)]
  <2>1. pc' = "check" /\ queue' = Tail(queue) /\ lagged' = lagged
    BY <1>6 DEF LiveYield
  <2>2. Len(queue') = Len(queue) - 1 /\ queue' \in Seq(Nat)
    BY <1>1, <2>1, HeadOfQueue
  <2>3. TypeOK'
    <3>1. Len(queue') <= QueueSize
      BY <2>2, StreamAssumption DEF TypeOK
    <3>2. UNCHANGED <<log, lagged, pageEnd, more, closed, drops>> /\ pc' = "check"
      BY <1>1, <2>1
    <3> QED
      BY <1>3, <1>4, <2>2, <3>1, <3>2 DEF TypeOK
  <2>4. Position'
    BY <1>1, <1>3, <1>4, <2>1 DEF Position, Subscribed
  <2>5. Base' = Len(got') /\ Base' = Head(queue)
    BY <1>2, <1>3, <2>1 DEF Base
  <2>6. WholeQueue' /\ NoOverlap'
    <3>1. CASE lagged
      BY <2>1, <3>1 DEF WholeQueue, NoOverlap
    <3>2. CASE ~lagged
      <4>1. /\ Len(queue') <= Len(log')
            /\ \A i \in 1..Len(queue') :
                  queue'[i] = (Len(log') - Len(queue')) + i
            /\ Len(log') - Len(queue') = queue[1]
        BY <1>1, <2>1, <3>2, TailOfQueue
      <4>2. queue[1] = Base'
        BY <1>1, <2>5, HeadOfQueue
      <4>3. Len(log') - Len(queue') <= Base'
        BY <1>2, <2>5, <4>1, <4>2
      <4> QED
        BY <2>1, <4>1, <4>2, <4>3 DEF WholeQueue, NoOverlap
    <3> QED
      BY <3>1, <3>2
  <2>7. LaggedQueue'
    BY <2>1 DEF LaggedQueue
  <2> QED
    BY <1>3, <2>3, <2>4, <2>6, <2>7
<1> QED
  BY <1>5, <1>6

LEMMA CheckLagPreserves ==
  ASSUME SmallJob, IInv, CheckLag
  PROVE  IInv'
<1> USE DEF IInv
<1>1. pc = "check" /\ UNCHANGED <<log, maxSeq, pageEnd, more, got, closed, drops>>
  BY DEF CheckLag
<1>2. /\ InOrder' /\ got' \in Seq(Nat) /\ Len(got') <= Len(log)
      /\ Len(log) <= MaxEvents /\ maxSeq' \in Nat
      /\ closed' \in BOOLEAN /\ drops' \in Nat
  BY <1>1 DEF InOrder, Position, TypeOK
<1>3. CASE lagged
  BY <1>1, <1>2, <1>3, UnsubscribePreserves DEF CheckLag
<1>4. CASE ~lagged
  <2>1. pc' = "live" /\ UNCHANGED <<queue, lagged>>
    BY <1>4 DEF CheckLag
  <2>2. TypeOK' /\ Position'
    BY <1>1, <2>1 DEF TypeOK, Position, Subscribed
  <2>3. Base' = Base /\ Subscribed
    BY <1>1, <2>1 DEF Base, Subscribed
  <2>4. WholeQueue' /\ NoOverlap' /\ LaggedQueue'
    BY <1>1, <1>4, <2>1, <2>3 DEF WholeQueue, NoOverlap, LaggedQueue
  <2> QED
    BY <1>2, <2>2, <2>4
<1> QED
  BY <1>3, <1>4

LEMMA EndOfConnectionPreserves ==
  ASSUME IInv, Drop \/ Drain
  PROVE  IInv'
<1> USE DEF IInv
<1>1. Unsubscribe /\ UNCHANGED <<log, maxSeq, pageEnd, more, got>>
  BY DEF Drop, Drain
<1>2. closed' \in BOOLEAN /\ drops' \in Nat
  <2>1. CASE Drop
    <3>1. closed' = closed /\ drops' = drops + 1
      BY <2>1 DEF Drop
    <3> QED
      BY <3>1 DEF TypeOK
  <2>2. CASE Drain
    <3>1. closed' = TRUE /\ drops' = drops
      BY <2>2 DEF Drain
    <3> QED
      BY <3>1 DEF TypeOK
  <2> QED
    BY <2>1, <2>2
<1>3. /\ InOrder' /\ got' \in Seq(Nat) /\ Len(got') <= Len(log)
      /\ Len(log) <= MaxEvents /\ maxSeq' \in Nat
  BY <1>1 DEF InOrder, Position, TypeOK
<1> QED
  BY <1>1, <1>2, <1>3, UnsubscribePreserves

LEMMA StutterPreserves ==
  ASSUME IInv, UNCHANGED vars
  PROVE  IInv'
BY DEF IInv, vars, server, TypeOK, InOrder, Position, WholeQueue, NoOverlap,
       LaggedQueue, Base, Subscribed

LEMMA NextIInv ==
  ASSUME SmallJob, IInv, [Next]_vars
  PROVE  IInv'
<1>1. ASSUME NEW t \in BOOLEAN, Emit(t) PROVE IInv'
  BY <1>1, EmitPreserves
<1>2. CASE Stream
  BY <1>2, ConnectPreserves, ReplayRowPreserves, ReplayPagePreserves,
     LiveSkipPreserves, LiveYieldPreserves, CheckLagPreserves DEF Stream
<1>3. CASE Drop \/ Drain
  BY <1>3, EndOfConnectionPreserves
<1>4. CASE UNCHANGED vars
  BY <1>4, StutterPreserves
<1> QED
  BY <1>1, <1>2, <1>3, <1>4 DEF Next

-----------------------------------------------------------------------------
(* The theorems.                                                           *)

LEMMA StreamInvariant == ASSUME SmallJob PROVE Spec => []IInv
<1>1. Init => IInv
  BY InitIInv
<1>2. IInv /\ [Next]_vars => IInv'
  BY NextIInv
<1> QED
  BY <1>1, <1>2, PTL DEF Spec

(* The variables keep their types, and a subscriber's queue its bound.     *)
THEOREM StreamTypeCorrect == ASSUME SmallJob PROVE Spec => []TypeOK
<1>1. IInv => TypeOK
  BY DEF IInv
<1> QED
  BY <1>1, StreamInvariant, PTL

(* A client of such a job holds a prefix of the log, however often its     *)
(* connection dropped or its queue overflowed.                             *)
THEOREM SmallJobInOrder == ASSUME SmallJob PROVE Spec => []InOrder
<1>1. IInv => InOrder
  BY DEF IInv
<1> QED
  BY <1>1, StreamInvariant, PTL

(* To such a job's client the stream is ordered delivery.                  *)
THEOREM SmallJobDelivery == ASSUME SmallJob PROVE Spec => DeliverySpec
<1>1. Init => Delivery!Init
  BY DEF Init, Delivery!Init
<1>2. ASSUME IInv, IInv', [Next]_vars PROVE [Delivery!Next]_<<log, got>>
  <2> USE <1>2 DEF IInv, Delivery!Next, Delivery!Commit, Delivery!Deliver
  <2>1. ASSUME NEW t \in BOOLEAN, Emit(t) PROVE Delivery!Next
    BY <2>1 DEF Emit
  <2>2. CASE ReplayRow
    <3>1. maxSeq = Len(got) /\ Len(got) < Len(log)
      BY <2>2 DEF ReplayRow, Position, Subscribed, TypeOK
    <3>2. got' = Append(got, Len(got) + 1) /\ log' = log
      BY <2>2, <3>1 DEF ReplayRow, Yield
    <3> QED
      BY <3>1, <3>2
  <2>3. CASE LiveYield
    <3>1. Head(queue) = Len(got) + 1 /\ Len(got) < Len(log)
      <4>1. pc = "live" /\ queue # <<>> /\ Head(queue) > maxSeq
        BY <2>3 DEF LiveYield
      <4>2. /\ Head(queue) \in Nat /\ maxSeq = Len(got) /\ Len(got) \in Nat
            /\ Head(queue) <= maxSeq + 1 /\ Head(queue) <= Len(log)
        BY <4>1, HeadOfQueue
      <4>3. Len(log) \in Nat
        BY DEF TypeOK
      <4> QED
        BY <4>1, <4>2, <4>3
    <3>2. got' = Append(got, Len(got) + 1) /\ log' = log
      BY <2>3, <3>1 DEF LiveYield, Yield
    <3> QED
      BY <3>1, <3>2
  <2>4. CASE Connect \/ ReplayPage \/ LiveSkip \/ CheckLag \/ Drop \/ Drain
    BY <2>4 DEF Connect, ReplayPage, LiveSkip, CheckLag, Drop, Drain
  <2>5. CASE UNCHANGED vars
    BY <2>5 DEF vars
  <2> QED
    BY <1>2, <2>1, <2>2, <2>3, <2>4, <2>5 DEF Next, Stream
<1> QED
  BY <1>1, <1>2, StreamInvariant, PTL DEF Spec, DeliverySpec, Delivery!Spec
=============================================================================
