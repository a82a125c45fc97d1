-------------------------- MODULE WorkerGroupState --------------------------
(***************************************************************************)
(* The state the coordinator keeps of every request of a benchmark run,    *)
(* and how one status update changes it (scheduler/worker_group.py, class  *)
(* WorkerGroupState, with scheduler/schemas/state.py and                   *)
(* scheduler/constraints/).  No variables here: the operators map one      *)
(* tracking record to the next, under the lock that update_state holds.    *)
(***************************************************************************)
EXTENDS Naturals, FiniteSets

CONSTANTS
  NumRequests,   \* length of the dataset, in nodes (requests)
  Constraints,   \* names of the constraints the run is started with
  MaxRequests,   \* limit of "max_requests"
  MinRequests,   \* limit of "min_requests"
  MaxErrors      \* limit of "max_errors"

ConstraintNames == {"max_requests", "min_requests", "max_errors", "max_duration"}

ASSUME StateAssumption ==
  /\ NumRequests \in Nat
  /\ Constraints \subseteq ConstraintNames
  /\ MaxRequests \in Nat \ {0}
  /\ MinRequests \in Nat \ {0}
  /\ MaxErrors \in Nat \ {0}

\* Requests are numbered in the order in which the generator creates them.
Request == 1 .. NumRequests

TerminalStatus == {"completed", "errored", "cancelled"}

\* What a worker may publish; "queued" is the generator's own update.
WorkerStatus == {"pending", "in_progress", "first_token"} \cup TerminalStatus

Status == {"queued"} \cup WorkerStatus

Tracking ==
  [queued : SUBSET Request, pending : SUBSET Request, processing : SUBSET Request,
   created : Nat, processed : Nat,
   successful : Nat, errored : Nat, cancelled : Nat,
   constraints : SUBSET (ConstraintNames \cup {"requests_exhausted"}),
   endQueuing : BOOLEAN, endProcessing : BOOLEAN]

InitialTracking ==
  [queued |-> {}, pending |-> {}, processing |-> {},
   created |-> 0, processed |-> 0, successful |-> 0, errored |-> 0, cancelled |-> 0,
   constraints |-> Constraints, endQueuing |-> FALSE, endProcessing |-> FALSE]

(***************************************************************************)
(* _finalize_terminal_request: "completed" counts only for a request that  *)
(* is processing; an error or a cancellation takes the request out of      *)
(* whichever set holds it; a request no set holds was finalized before.    *)
(***************************************************************************)
\* Mutant: a completion counts even if the request was finalized before.
FinalizableTwice(st, r, status) ==
  status = "completed" \/ r \in st.queued \cup st.pending \cup st.processing
Finalizable(st, r, status) ==
  IF status = "completed"
  THEN r \in st.processing
  ELSE r \in st.queued \cup st.pending \cup st.processing

Finalized(st, r, status) ==
  [st EXCEPT !.queued = @ \ {r},
             !.pending = @ \ {r},
             !.processing = @ \ {r},
             !.processed = @ + 1,
             !.successful = IF status = "completed" THEN @ + 1 ELSE @,
             !.errored = IF status = "errored" THEN @ + 1 ELSE @,
             !.cancelled = IF status = "cancelled" THEN @ + 1 ELSE @]

\* _update_state_request_counts, one line per status of the update.
\* Mutant: "pending" is not checked against an earlier terminal update.
CountedBlindly(st, r, status) ==
  IF status = "queued" THEN
    [st EXCEPT !.queued = @ \cup {r}, !.created = @ + 1]
  ELSE IF status = "pending" THEN
    [st EXCEPT !.queued = @ \ {r}, !.pending = @ \cup {r}]
  ELSE IF status \in TerminalStatus /\ Finalizable(st, r, status) THEN
    Finalized(st, r, status)
  ELSE st

Counted(st, r, status) ==
  IF status = "queued" THEN
    [st EXCEPT !.queued = @ \cup {r}, !.created = @ + 1]
  ELSE IF status = "pending" /\ r \in st.queued THEN
    [st EXCEPT !.queued = @ \ {r}, !.pending = @ \cup {r}]
  ELSE IF status = "in_progress" /\ r \in st.pending THEN
    [st EXCEPT !.pending = @ \ {r}, !.processing = @ \cup {r}]
  ELSE IF status \in TerminalStatus /\ Finalizable(st, r, status) THEN
    Finalized(st, r, status)
  ELSE st

(***************************************************************************)
(* The constraints, as the disjunction of the actions they return.  The    *)
(* generator registers "requests_exhausted" with the number of requests it *)
(* has created, which is NumRequests when the dataset has run dry.         *)
(***************************************************************************)
\* Mutant: max_requests off by one.
StopsQueuingLate(st, timeUp) ==
  "max_requests" \in st.constraints /\ st.created > MaxRequests

StopsQueuing(st, timeUp) ==
  \/ "max_requests" \in st.constraints /\ st.created >= MaxRequests
  \/ "min_requests" \in st.constraints /\ st.processed >= MinRequests
  \/ "max_errors" \in st.constraints /\ st.errored >= MaxErrors
  \/ "max_duration" \in st.constraints /\ timeUp
  \/ "requests_exhausted" \in st.constraints /\ st.created >= NumRequests

\* Mutant: requests_exhausted off by one.
StopsProcessingNever(st, timeUp) ==
  "requests_exhausted" \in st.constraints /\ st.processed > NumRequests

StopsProcessing(st, timeUp) ==
  \/ "max_requests" \in st.constraints /\ st.processed >= MaxRequests
  \/ "min_requests" \in st.constraints /\ st.processed >= MinRequests
  \/ "max_errors" \in st.constraints /\ st.errored >= MaxErrors
  \/ "max_duration" \in st.constraints /\ timeUp
  \/ "requests_exhausted" \in st.constraints /\ st.processed >= NumRequests

\* _update_with_constraints: end_queuing_time and end_processing_time are set once.
Constrained(st, timeUp) ==
  [st EXCEPT !.endQueuing = @ \/ StopsQueuing(st, timeUp),
             !.endProcessing = @ \/ StopsProcessing(st, timeUp)]

\* update_state(info): count the update, then evaluate every constraint.
Updated(st, r, status, timeUp) == Constrained(Counted(st, r, status), timeUp)

\* update_state(add_constraints = requests_exhausted), at the end of the dataset.
Exhausted(st, timeUp) ==
  Constrained([st EXCEPT !.constraints = @ \cup {"requests_exhausted"}], timeUp)

\* The requests the coordinator still tracks.
Live(st) == st.queued \cup st.pending \cup st.processing

=============================================================================
