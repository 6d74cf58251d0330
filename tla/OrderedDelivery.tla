--------------------------- MODULE OrderedDelivery ---------------------------
(***************************************************************************)
(* What the event stream promises a client: it receives the log, every     *)
(* event once and in order, whatever the connections in between did.       *)
(***************************************************************************)
EXTENDS Naturals, Sequences

VARIABLES
  log,        \* the committed events of the job, TRUE for a terminal one
  got         \* the seqs the client has received, in the order it did

Init ==
  /\ log = <<>>
  /\ got = <<>>

Commit ==
  /\ \E terminal \in BOOLEAN : log' = Append(log, terminal)
  /\ UNCHANGED got

Deliver ==
  /\ Len(got) < Len(log)
  /\ got' = Append(got, Len(got) + 1)
  /\ UNCHANGED log

Next == Commit \/ Deliver

Spec == Init /\ [][Next]_<<log, got>>
=============================================================================
