----------------------------- MODULE EventStream -----------------------------
(***************************************************************************)
(* The live event stream of one job: EventLog (principal/db/events.py)     *)
(* appends events and feeds the queue of a subscriber, job_event_stream    *)
(* (principal/api/stream.py) replays the table and then follows the queue, *)
(* and the dashboard's EventSource (useJobStream.js) reconnects with the   *)
(* last id it saw until it has drained past a terminal event.              *)
(*                                                                         *)
(* A connection has a queue and a generator of its own, so one client is   *)
(* enough.  The generator runs from one suspension to the next: it is      *)
(* suspended at a yield, at the queue.get() of an empty queue and, with    *)
(* PRINCIPAL_SLOW_MO_MS set, in the sleep before an event (the event it    *)
(* then holds still counts as queued).  An event that the network loses    *)
(* was never received, so it is as if it had not been yielded.             *)
(***************************************************************************)
EXTENDS Naturals, Sequences

CONSTANTS
  Page,         \* _REPLAY_PAGE: rows per replay query
  QueueSize,    \* maxsize of a subscriber's queue
  MaxEvents,    \* bound: events the job emits
  MaxDrops      \* bound: times the network drops the connection

ASSUME StreamAssumption ==
  /\ Page \in Nat /\ Page > 0
  /\ QueueSize \in Nat /\ QueueSize > 0
  /\ MaxEvents \in Nat
  /\ MaxDrops \in Nat

VARIABLES
  log,          \* the event table: seq i is log[i], TRUE for a terminal event
  queue,        \* the subscriber's asyncio.Queue, of seqs
  lagged,       \* whether the queue has overflowed (EventLog._lagged)
  pc,           \* the generator: "off", "replay", "live" or "check"
  maxSeq,       \* max_seq, the last seq yielded
  pageEnd,      \* the last row of the page being replayed
  more,         \* whether that page was full, so another query follows
  got,          \* the client: the seqs received, in order
  closed,       \* the client has called es.close()
  drops         \* connections dropped so far

server == <<queue, lagged, pc, maxSeq, pageEnd, more>>
vars == <<log, server, got, closed, drops>>

Subscribed == pc # "off"

(* The id the EventSource sends as Last-Event-ID.                          *)
LastId == IF got = <<>> THEN 0 ELSE got[Len(got)]

(* The generator is working through duplicates: queue.get() of a queue     *)
(* that is not empty does not suspend, so nobody else runs.                *)
Skipping == pc = "live" /\ queue # <<>> /\ Head(queue) <= maxSeq

GotTerminal == \E i \in 1..Len(got) : log[got[i]]

Init ==
  /\ log = <<>>
  /\ queue = <<>> /\ lagged = FALSE
  /\ pc = "off" /\ maxSeq = 0 /\ pageEnd = 0 /\ more = FALSE
  /\ got = <<>> /\ closed = FALSE
  /\ drops = 0

-----------------------------------------------------------------------------
(* Mutant of Emit: the queue is registered only once the replay is over.   *)
EmitToLive(terminal) ==
  /\ ~Skipping
  /\ Len(log) < MaxEvents
  /\ log' = Append(log, terminal)
  /\ IF pc \in {"off", "replay"}
     THEN UNCHANGED <<queue, lagged>>
     ELSE IF Len(queue) < QueueSize
          THEN queue' = Append(queue, Len(log) + 1) /\ UNCHANGED lagged
          ELSE lagged' = TRUE /\ UNCHANGED queue
  /\ UNCHANGED <<pc, maxSeq, pageEnd, more, got, closed, drops>>

(* EventLog.emit: the row is committed and then put on the queue of the    *)
(* subscriber; a full queue marks the subscriber lagged and drops it.      *)
Emit(terminal) ==
  /\ ~Skipping
  /\ Len(log) < MaxEvents
  /\ log' = Append(log, terminal)
  /\ IF ~Subscribed
     THEN UNCHANGED <<queue, lagged>>
     ELSE IF Len(queue) < QueueSize
          THEN queue' = Append(queue, Len(log) + 1) /\ UNCHANGED lagged
          ELSE lagged' = TRUE /\ UNCHANGED queue
  /\ UNCHANGED <<pc, maxSeq, pageEnd, more, got, closed, drops>>

(* EventLog.unsubscribe, in the generator's finally.                       *)
Unsubscribe ==
  /\ pc' = "off"
  /\ queue' = <<>>
  /\ lagged' = FALSE

(* One query of EventLog.replay after seq `after`: up to Page rows.        *)
Query(after) ==
  /\ pageEnd' = IF Len(log) - after > Page THEN after + Page ELSE Len(log)
  /\ more' = (Len(log) - after >= Page)
  /\ pc' = IF Len(log) > after THEN "replay" ELSE "live"

(* The client connects: subscribe, then the first query, with no await     *)
(* between the two.                                                        *)
Connect ==
  /\ ~closed
  /\ pc = "off"
  /\ queue' = <<>> /\ lagged' = FALSE
  /\ maxSeq' = LastId
  /\ Query(LastId)
  /\ UNCHANGED <<log, got, closed, drops>>

Yield(seq) ==
  /\ got' = Append(got, seq)
  /\ maxSeq' = seq

(* The next row of the page.  A terminal event ends the response.          *)
ReplayRow ==
  /\ pc = "replay"
  /\ maxSeq < pageEnd
  /\ Yield(maxSeq + 1)
  /\ IF log[maxSeq + 1] THEN Unsubscribe ELSE UNCHANGED <<pc, queue, lagged>>
  /\ UNCHANGED <<log, pageEnd, more, closed, drops>>

(* The page is used up: query again after a full one, else follow the      *)
(* queue.                                                                  *)
ReplayPage ==
  /\ pc = "replay"
  /\ maxSeq = pageEnd
  /\ IF more THEN Query(maxSeq) ELSE pc' = "live" /\ UNCHANGED <<pageEnd, more>>
  /\ UNCHANGED <<log, queue, lagged, maxSeq, got, closed, drops>>

(* An event the replay already delivered is skipped, and nothing else is   *)
(* looked at.                                                              *)
LiveSkip ==
  /\ Skipping
  /\ queue' = Tail(queue)
  /\ UNCHANGED <<log, lagged, pc, maxSeq, pageEnd, more, got, closed, drops>>

LiveYield ==
  /\ pc = "live"
  /\ queue # <<>>
  /\ Head(queue) > maxSeq
  /\ Yield(Head(queue))
  /\ IF log[Head(queue)]
     THEN Unsubscribe
     ELSE pc' = "check" /\ queue' = Tail(queue) /\ UNCHANGED lagged
  /\ UNCHANGED <<log, pageEnd, more, closed, drops>>

(* Mutant of CheckLag: nobody asks whether the queue overflowed.           *)
CheckNothing ==
  /\ pc = "check"
  /\ pc' = "live"
  /\ UNCHANGED <<log, queue, lagged, maxSeq, pageEnd, more, got, closed, drops>>

(* After the yield: a lagged subscriber is told to resync from max_seq and *)
(* the response ends.                                                      *)
CheckLag ==
  /\ pc = "check"
  /\ IF lagged THEN Unsubscribe ELSE pc' = "live" /\ UNCHANGED <<queue, lagged>>
  /\ UNCHANGED <<log, maxSeq, pageEnd, more, got, closed, drops>>

(* The network drops the connection; the generator is closed.              *)
Drop ==
  /\ Subscribed /\ ~Skipping
  /\ drops < MaxDrops
  /\ drops' = drops + 1
  /\ Unsubscribe
  /\ UNCHANGED <<log, maxSeq, pageEnd, more, got, closed>>

(* DRAIN_MS after a terminal event the dashboard closes the EventSource.   *)
Drain ==
  /\ ~closed /\ ~Skipping
  /\ GotTerminal
  /\ closed' = TRUE
  /\ Unsubscribe
  /\ UNCHANGED <<log, maxSeq, pageEnd, more, got, drops>>

Stream == Connect \/ ReplayRow \/ ReplayPage \/ LiveSkip \/ LiveYield \/ CheckLag

Next ==
  \/ \E terminal \in BOOLEAN : Emit(terminal)
  \/ Stream
  \/ Drop
  \/ Drain

Spec == Init /\ [][Next]_vars

(* The event loop resumes a generator whose await is over, the EventSource *)
(* reconnects by itself, and the drain timer fires.  Emitting and dropping *)
(* are not fair.                                                           *)
FairSpec == Spec /\ WF_vars(Stream) /\ WF_vars(Drain)

-----------------------------------------------------------------------------

TypeOK ==
  /\ log \in Seq(BOOLEAN)
  /\ queue \in Seq(Nat) /\ Len(queue) <= QueueSize
  /\ lagged \in BOOLEAN
  /\ pc \in {"off", "replay", "live", "check"}
  /\ maxSeq \in Nat /\ pageEnd \in Nat
  /\ more \in BOOLEAN
  /\ got \in Seq(Nat)
  /\ closed \in BOOLEAN
  /\ drops \in Nat

(* The client has the log from its start with no hole, nothing twice and   *)
(* nothing out of order (events.py:113 "a client cannot detect a hole in a *)
(* stream it never received").                                             *)
InOrder == got = [i \in 1..Len(got) |-> i]

(* The stream implements ordered delivery: every step of the generator     *)
(* delivers the next event or none.                                        *)
Delivery == INSTANCE OrderedDelivery

DeliverySpec == Delivery!Spec

(* A client that follows the job learns that it ended (stream.py:22: the   *)
(* terminal event is not lost between replay and subscription).            *)
TerminalReachesClient == (\E i \in 1..Len(log) : log[i]) ~> closed
=============================================================================
