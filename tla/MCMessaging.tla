----------------------------- MODULE MCMessaging ------------------------------
(***************************************************************************)
(* Messaging with the transports and the disturbances it is checked with.  *)
(***************************************************************************)
EXTENDS Messaging

Layer(transport, iterable, raising, timeouts, eventful) ==
  [transport |-> transport, iterable |-> iterable, deaths |-> raising, giveups |-> timeouts,
   events |-> eventful]

\* The queues as WorkerProcessGroup uses them, with one disturbance at a time, and
\* the pipes both ways.
AllLayers ==
  {Layer("queue", TRUE, 1, 0, FALSE), Layer("queue", TRUE, 0, 1, FALSE),
   Layer("queue", TRUE, 0, 0, TRUE), Layer("pipe", FALSE, 1, 0, FALSE),
   Layer("pipe", TRUE, 0, 0, FALSE)}
PutsIntoPipes == {Layer("pipe", FALSE, 0, 0, FALSE)}
=============================================================================
