-------------------------- MODULE RequestLifecycle --------------------------
(***************************************************************************)
(* What the coordinator promises about each request, without the threads,  *)
(* queues and messages that keep the promise: requests are created in      *)
(* order, move forward only, complete only from processing, and are        *)
(* finished exactly once, under one outcome.                               *)
(***************************************************************************)
EXTENDS Naturals

CONSTANT Request   \* a set of naturals, in creation order

VARIABLES
  life,       \* the stage of each request
  outcomes    \* how many requests ended in each way

Outcome == {"completed", "errored", "cancelled"}
Stage == {"new", "queued", "pending", "processing", "done"}

LifecycleTypeOK ==
  /\ life \in [Request -> Stage]
  /\ outcomes \in [Outcome -> Nat]

LifecycleInit ==
  /\ life = [r \in Request |-> "new"]
  /\ outcomes = [o \in Outcome |-> 0]

Create(r) ==
  /\ life[r] = "new"
  /\ \A earlier \in Request : earlier < r => life[earlier] # "new"
  /\ life' = [life EXCEPT ![r] = "queued"]
  /\ UNCHANGED outcomes

Claim(r) ==
  /\ life[r] = "queued"
  /\ life' = [life EXCEPT ![r] = "pending"]
  /\ UNCHANGED outcomes

Start(r) ==
  /\ life[r] = "pending"
  /\ life' = [life EXCEPT ![r] = "processing"]
  /\ UNCHANGED outcomes

Finish(r, o) ==
  /\ life[r] \in {"queued", "pending", "processing"}
  /\ o = "completed" => life[r] = "processing"
  /\ life' = [life EXCEPT ![r] = "done"]
  /\ outcomes' = [outcomes EXCEPT ![o] = @ + 1]

LifecycleNext ==
  \E r \in Request :
    \/ Create(r) \/ Claim(r) \/ Start(r)
    \/ \E o \in Outcome : Finish(r, o)

LifecycleSpec == LifecycleInit /\ [][LifecycleNext]_<<life, outcomes>>
=============================================================================
