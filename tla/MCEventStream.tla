---------------------------- MODULE MCEventStream ----------------------------
(* The event stream on small logs, pages and queues.                       *)
EXTENDS EventStream
=============================================================================
