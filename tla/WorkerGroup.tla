----------------------------- MODULE WorkerGroup -----------------------------
(***************************************************************************)
(* One benchmark run of the scheduler: the coordinator of                  *)
(* scheduler/worker_group.py and the worker processes of                   *)
(* scheduler/worker.py, from the first request drawn from the dataset to   *)
(* the end of request_updates().                                           *)
(*                                                                         *)
(* Threads and processes:                                                  *)
(*   generator  the send thread, running requests_generator;               *)
(*   receiver   the receive thread, running received_callback;             *)
(*   consumer   the coroutine that iterates over request_updates();        *)
(*   monitor    _process_health_monitor;                                   *)
(*   workers    one event loop each, with AsyncLimit[w] slots.             *)
(* They share the tracking record st (under its lock), five events, the    *)
(* bounded pending queue, one stream of updates per worker and the         *)
(* consumer's buffer.                                                      *)
(***************************************************************************)
EXTENDS WorkerGroupState, Integers, Sequences

CONSTANTS
  GraphOf,          \* the conversation graph each request belongs to
  Parents,          \* the requests that must complete before a request starts
  Workers,          \* the worker processes
  NoWorker,         \* the holder of a request no worker has fetched
  AsyncLimit,       \* slots of each worker
  MaxPending,       \* capacity of the pending queue, in graphs
  OptionalUpdates,  \* which of "retarget" and "first_token" workers publish
  BackendMayFail,   \* whether backend.resolve may raise
  DatasetMayFail,   \* whether the dataset iterator may raise
  MaxCrashes        \* bound: worker processes that die on their own

\* A conversation is numbered through before the next one starts.
NumberedByGraph ==
  \A r, x, y \in Request :
    r <= x /\ x <= y /\ GraphOf[r] = GraphOf[y] => GraphOf[x] = GraphOf[r]

ASSUME GroupAssumption ==
  /\ GraphOf \in [Request -> Nat]
  /\ NumberedByGraph
  /\ Parents \in [Request -> SUBSET Request]
  /\ NoWorker \notin Workers
  /\ AsyncLimit \in [Workers -> Nat \ {0}]
  /\ MaxPending \in Nat \ {0}
  /\ OptionalUpdates \subseteq {"retarget", "first_token"}
  /\ BackendMayFail \in BOOLEAN
  /\ DatasetMayFail \in BOOLEAN
  /\ MaxCrashes \in Nat

VARIABLES
  st,                 \* WorkerGroupState._state and the three id sets
  timeUp,             \* max_duration has elapsed
  genPc,              \* control point of the generator
  genStop,            \* its local stop_queueing
  pendingQ,           \* graphs sent and not fetched, each a set of requests
  stopSend,           \* stop_send_requests_event
  requestsGenerated,  \* requests_generated_event
  constraintReached,  \* constraint_reached_event
  shutdownEvent,      \* shutdown_event
  errorEvent,         \* error_event
  chan,               \* updates of each worker on their way to the receiver
  cb,                 \* the receiver's control point, update and snapshot
  buffer,             \* buffer_receive_queue of the coordinator
  consumer,           \* control point of request_updates
  yielded,            \* last status yielded for each request
  mode,               \* stage of each worker's _process_requests
  fetching,           \* stage of each worker's receive thread
  holder,             \* the worker that fetched each request
  phase,              \* what the worker has done with the request
  status,             \* RequestInfo.status on the worker
  aborted             \* graphs a worker has aborted

genVars == <<genPc, genStop>>
events == <<stopSend, requestsGenerated, constraintReached, shutdownEvent, errorEvent>>
workerVars == <<mode, fetching, holder, phase, status, aborted>>
vars == <<st, timeUp, genVars, pendingQ, events, chan, cb, buffer, consumer, yielded,
          workerVars>>

Update == [id : Request, status : Status]

GenPc == {"pull", "node", "buffer", "send", "resume", "exhausted", "stop", "done", "failed"}
Consumer == {"get", "timeout", "setConstraint", "setStop", "done", "raised"}
Fetching == {"polling", "foundEmpty", "stopped"}
Mode == {"run", "cancelling", "cancel", "exited", "dead"}
Phase == {"unknown", "held", "claimed", "running", "completed", "ended"}

Callback ==
  [pc : {"idle", "check", "put"}, worker : Workers \cup {NoWorker},
   noneQueued : BOOLEAN, allProcessed : BOOLEAN, stopProcessing : BOOLEAN,
   update : Update \cup {<<>>}]

Idle == [pc |-> "idle", worker |-> NoWorker, noneQueued |-> FALSE,
         allProcessed |-> FALSE, stopProcessing |-> FALSE, update |-> <<>>]

TypeOK ==
  /\ st \in Tracking
  /\ timeUp \in BOOLEAN
  /\ genPc \in GenPc /\ genStop \in BOOLEAN
  /\ pendingQ \in Seq(SUBSET Request)
  /\ stopSend \in BOOLEAN /\ requestsGenerated \in BOOLEAN
  /\ constraintReached \in BOOLEAN /\ shutdownEvent \in BOOLEAN /\ errorEvent \in BOOLEAN
  /\ chan \in [Workers -> Seq([id : Request, status : WorkerStatus])]
  /\ cb \in Callback
  /\ buffer \in Seq(Update)
  /\ consumer \in Consumer
  /\ yielded \in [Request -> Status \cup {"none"}]
  /\ mode \in [Workers -> Mode]
  /\ fetching \in [Workers -> Fetching]
  /\ holder \in [Request -> Workers \cup {NoWorker}]
  /\ phase \in [Request -> Phase]
  /\ status \in [Request -> Status]
  /\ aborted \subseteq Nat

Init ==
  /\ st = InitialTracking
  /\ timeUp = FALSE
  /\ genPc = "pull" /\ genStop = FALSE
  /\ pendingQ = <<>>
  /\ stopSend = FALSE /\ requestsGenerated = FALSE
  /\ constraintReached = FALSE /\ shutdownEvent = FALSE /\ errorEvent = FALSE
  /\ chan = [w \in Workers |-> <<>>]
  /\ cb = Idle
  /\ buffer = <<>>
  /\ consumer = "get"
  /\ yielded = [r \in Request |-> "none"]
  /\ mode = [w \in Workers |-> "run"]
  /\ fetching = [w \in Workers |-> "polling"]
  /\ holder = [r \in Request |-> NoWorker]
  /\ phase = [r \in Request |-> "unknown"]
  /\ status = [r \in Request |-> "queued"]
  /\ aborted = {}

(***************************************************************************)
(* The generator.  It is a Python generator that the send thread advances, *)
(* so its frame also waits while the yielded graph is put on the queue:    *)
(* that put blocks while the queue is full, and the code after the yield   *)
(* runs only when the thread asks for the next graph.                      *)
(***************************************************************************)
Newest == st.created
\* Mutant: the end of the dataset does not end a graph.
EndsGraphUnlessLast(r) == r < NumRequests /\ GraphOf[r + 1] # GraphOf[r]
EndsGraph(r) == r = NumRequests \/ GraphOf[r + 1] # GraphOf[r]
QueuedGraph == {r \in 1 .. Newest : GraphOf[r] = GraphOf[Newest]}

\* next(requests): the dataset produces a graph, runs dry, or raises.
GeneratorPulls ==
  /\ genPc = "pull"
  /\ \/ genPc' = (IF st.created < NumRequests THEN "node" ELSE "exhausted")
        /\ UNCHANGED errorEvent
     \/ DatasetMayFail /\ genPc' = "failed" /\ errorEvent' = TRUE
  /\ UNCHANGED <<st, timeUp, genStop, pendingQ, stopSend, requestsGenerated,
                 constraintReached, shutdownEvent, chan, cb, buffer, consumer, yielded,
                 workerVars>>

\* One node of the graph, in topological order: count it and evaluate constraints.
GeneratorQueues ==
  /\ genPc = "node"
  /\ st' = Updated(st, Newest + 1, "queued", timeUp)
  /\ genStop' = st'.endQueuing
  /\ genPc' = "buffer"
  /\ UNCHANGED <<timeUp, pendingQ, events, chan, cb, buffer, consumer, yielded, workerVars>>

\* The node's "queued" update goes to the consumer; a stop cuts the graph short.
GeneratorBuffers ==
  /\ genPc = "buffer"
  /\ buffer' = Append(buffer, [id |-> Newest, status |-> "queued"])
  /\ genPc' = IF genStop \/ EndsGraph(Newest) THEN "send" ELSE "node"
  /\ UNCHANGED <<st, timeUp, genStop, pendingQ, events, chan, cb, consumer, yielded,
                 workerVars>>

\* pending_queue.put: retried until there is room.
GeneratorSends ==
  /\ genPc = "send"
  /\ Len(pendingQ) < MaxPending
  /\ pendingQ' = Append(pendingQ, QueuedGraph)
  /\ genPc' = "resume"
  /\ UNCHANGED <<st, timeUp, genStop, events, chan, cb, buffer, consumer, yielded, workerVars>>

\* Back in the generator after the yield.
GeneratorResumes ==
  /\ genPc = "resume"
  /\ stopSend' = (stopSend \/ genStop)
  /\ genPc' = IF genStop THEN "done" ELSE "pull"
  /\ UNCHANGED <<st, timeUp, genStop, pendingQ, requestsGenerated, constraintReached,
                 shutdownEvent, errorEvent, chan, cb, buffer, consumer, yielded, workerVars>>

\* The dataset is exhausted: register the constraint, then stop sending.
GeneratorExhausts ==
  /\ genPc = "exhausted"
  /\ st' = Exhausted(st, timeUp)
  /\ genPc' = "stop"
  /\ UNCHANGED <<timeUp, genStop, pendingQ, events, chan, cb, buffer, consumer, yielded,
                 workerVars>>

GeneratorStops ==
  /\ genPc = "stop"
  /\ stopSend' = TRUE
  /\ genPc' = "done"
  /\ UNCHANGED <<st, timeUp, genStop, pendingQ, requestsGenerated, constraintReached,
                 shutdownEvent, errorEvent, chan, cb, buffer, consumer, yielded, workerVars>>

Generator ==
  \/ GeneratorPulls \/ GeneratorQueues \/ GeneratorBuffers \/ GeneratorSends
  \/ GeneratorResumes \/ GeneratorExhausts \/ GeneratorStops

(***************************************************************************)
(* The receiver: the callback updates the state and keeps a snapshot, then *)
(* decides on the events from that snapshot, and only then is the update   *)
(* put into the consumer's buffer.                                         *)
(***************************************************************************)
ReceiverCounts(w) ==
  /\ cb.pc = "idle"
  /\ chan[w] # <<>>
  /\ LET update == Head(chan[w]) IN
       /\ st' = Updated(st, update.id, update.status, timeUp)
       /\ cb' = [pc |-> "check", worker |-> w, update |-> update,
                 noneQueued |-> st'.queued = {},
                 allProcessed |-> st'.processed = st'.created,
                 stopProcessing |-> st'.endProcessing]
  /\ chan' = [chan EXCEPT ![w] = Tail(@)]
  /\ UNCHANGED <<timeUp, genVars, pendingQ, events, buffer, consumer, yielded, workerVars>>

GeneratedNow == requestsGenerated \/ (cb.noneQueued /\ stopSend)
ReachedNow == constraintReached \/ cb.stopProcessing
\* Mutant: the shutdown does not wait for a constraint to stop processing.
AllDoneUnlimited == cb.allProcessed /\ stopSend /\ GeneratedNow
AllDone == cb.allProcessed /\ stopSend /\ GeneratedNow /\ ReachedNow

ReceiverChecks ==
  /\ cb.pc = "check"
  /\ requestsGenerated' = GeneratedNow
  /\ constraintReached' = ReachedNow
  /\ shutdownEvent' = (shutdownEvent \/ AllDone)
  /\ cb' = [cb EXCEPT !.pc = "put"]
  /\ UNCHANGED <<st, timeUp, genVars, pendingQ, stopSend, errorEvent, chan, buffer, consumer,
                 yielded, workerVars>>

\* Mutant: the receive thread checks its stop criteria before the put.
DeliveredUnlessStopped == IF shutdownEvent THEN buffer ELSE Append(buffer, cb.update)
Delivered == Append(buffer, cb.update)

ReceiverBuffers ==
  /\ cb.pc = "put"
  /\ buffer' = Delivered
  /\ cb' = Idle
  /\ UNCHANGED <<st, timeUp, genVars, pendingQ, events, chan, consumer, yielded, workerVars>>

Receiver == (\E w \in Workers : ReceiverCounts(w)) \/ ReceiverChecks \/ ReceiverBuffers

(***************************************************************************)
(* The consumer.  Every wait is bounded by the poll interval, so a timeout *)
(* needs an empty buffer; the error event is read before every wait.       *)
(***************************************************************************)
\* Mutant: the error event is read once only, before the first wait.
NextWaitUnchecked == "get"
NextWait == IF errorEvent THEN "raised" ELSE "get"

ConsumerYields ==
  /\ consumer = "get"
  /\ buffer # <<>>
  /\ yielded' = [yielded EXCEPT ![Head(buffer).id] = Head(buffer).status]
  /\ buffer' = Tail(buffer)
  /\ consumer' = NextWait
  /\ UNCHANGED <<st, timeUp, genVars, pendingQ, events, chan, cb, workerVars>>

\* Mutant: the wait for an update has no timeout.
ConsumerWaitsForever == FALSE

ConsumerTimesOut ==
  /\ consumer = "get"
  /\ buffer = <<>>
  /\ consumer' = "timeout"
  /\ UNCHANGED <<st, timeUp, genVars, pendingQ, events, chan, cb, buffer, yielded, workerVars>>

ConsumerFinishes ==
  /\ consumer = "timeout"
  /\ shutdownEvent
  /\ consumer' = "done"
  /\ UNCHANGED <<st, timeUp, genVars, pendingQ, events, chan, cb, buffer, yielded, workerVars>>

\* Mutant: a timeout only starts the next wait.
ConsumerPollsNothing ==
  /\ consumer = "timeout"
  /\ ~shutdownEvent
  /\ consumer' = NextWait
  /\ UNCHANGED <<st, timeUp, genVars, pendingQ, events, chan, cb, buffer, yielded, workerVars>>

\* The poll for time-based constraints: update_state() without an update.
ConsumerPolls ==
  /\ consumer = "timeout"
  /\ ~shutdownEvent
  /\ st' = Constrained(st, timeUp)
  /\ consumer' = IF st'.endProcessing THEN "setConstraint"
                 ELSE IF st'.endQueuing THEN "setStop" ELSE NextWait
  /\ UNCHANGED <<timeUp, genVars, pendingQ, events, chan, cb, buffer, yielded, workerVars>>

\* stop_processing was returned with stop_queueing: every constraint sets both.
ConsumerSetsConstraint ==
  /\ consumer = "setConstraint"
  /\ constraintReached' = TRUE
  /\ consumer' = IF st.endQueuing THEN "setStop" ELSE NextWait
  /\ UNCHANGED <<st, timeUp, genVars, pendingQ, stopSend, requestsGenerated, shutdownEvent,
                 errorEvent, chan, cb, buffer, yielded, workerVars>>

ConsumerSetsStop ==
  /\ consumer = "setStop"
  /\ stopSend' = TRUE
  /\ consumer' = NextWait
  /\ UNCHANGED <<st, timeUp, genVars, pendingQ, requestsGenerated, constraintReached,
                 shutdownEvent, errorEvent, chan, cb, buffer, yielded, workerVars>>

ConsumerSteps ==
  \/ ConsumerYields \/ ConsumerTimesOut \/ ConsumerFinishes \/ ConsumerPolls
  \/ ConsumerSetsConstraint \/ ConsumerSetsStop

(***************************************************************************)
(* The workers.  Publish is _send_update: an update whose status the       *)
(* request already has is dropped.  A slot holds a request from its claim  *)
(* to its end.                                                             *)
(***************************************************************************)
Nodes(w, g) == {r \in Request : holder[r] = w /\ GraphOf[r] = g}
InFlight(w) == {r \in Request : holder[r] = w /\ phase[r] \in {"claimed", "running"}}
\* Mutant: the cancel loop does not leave out the nodes that have completed.
UnfinishedOrCompleted(w) == {r \in Request : holder[r] = w /\ phase[r] \in {"held", "completed"}}
Unfinished(w) == {r \in Request : holder[r] = w /\ phase[r] = "held"}

Publication(r, new) == IF status[r] = new THEN <<>> ELSE <<[id |-> r, status |-> new]>>

Publish(w, r, new) ==
  /\ chan' = [chan EXCEPT ![w] = @ \o Publication(r, new)]
  /\ status' = [status EXCEPT ![r] = new]

\* The orders in which the nodes in S may be cancelled: that of graph.nodes, which is
\* the dataset's, or that of a set when the graph was cut short.
CancelOrders(S) ==
  {order \in [1 .. Cardinality(S) -> S] :
     \A i, j \in 1 .. Cardinality(S) : i # j => order[i] # order[j]}
Cancellations(order) == [i \in DOMAIN order |-> [id |-> order[i], status |-> "cancelled"]]

(***************************************************************************)
(* A slot reports how its node r ended, then _abort_remaining_nodes        *)
(* cancels every other node of the graph that has not completed, whether   *)
(* or not a sibling slot is working on it, and drops the graph.            *)
(***************************************************************************)
EndsAndAborts(w, r, new) ==
  LET rest == {x \in Nodes(w, GraphOf[r]) \ {r} :
                 phase[x] # "completed" /\ status[x] # "cancelled"}
  IN /\ \E order \in CancelOrders(rest) :
          chan' = [chan EXCEPT ![w] = @ \o Publication(r, new) \o Cancellations(order)]
     /\ status' = [x \in Request |-> IF x = r THEN new
                                     ELSE IF x \in rest THEN "cancelled" ELSE status[x]]
     /\ phase' = [x \in Request |->
                    IF x = r \/ (x \in rest /\ phase[x] = "held") THEN "ended" ELSE phase[x]]
     /\ aborted' = aborted \cup {GraphOf[r]}

Claimable(w, r) ==
  /\ holder[r] = w
  /\ phase[r] = "held"
  /\ GraphOf[r] \notin aborted
  /\ \A p \in Parents[r] : phase[p] = "completed"

\* Mutant: the semaphore is released before its task has ended.
FreeSlotsPlusOne(w) == AsyncLimit[w] + 1 - Cardinality(InFlight(w))
FreeSlots(w) == AsyncLimit[w] - Cardinality(InFlight(w))
ReadyGraphs(w) == {GraphOf[r] : r \in {x \in Request : Claimable(w, x)}}

(***************************************************************************)
(* The receive thread polls the queue while a slot (or the cancel loop)    *)
(* waits for a graph.  The demand of a slot is withdrawn only after the    *)
(* slot has been woken, so one graph more than the slots need can be       *)
(* fetched.  The thread counts the polls that found the queue empty and    *)
(* ends once requests_generated is set; it does not look at the queue      *)
(* again before it ends, so what it saw may be out of date.                *)
(***************************************************************************)
WantsGraph(w) ==
  \/ mode[w] = "run" /\ FreeSlots(w) > 0 /\ Cardinality(ReadyGraphs(w)) <= FreeSlots(w)
  \/ mode[w] = "cancel"

WorkerFetches(w) ==
  /\ fetching[w] # "stopped"
  /\ pendingQ # <<>>
  /\ WantsGraph(w)
  /\ holder' = [r \in Request |-> IF r \in Head(pendingQ) THEN w ELSE holder[r]]
  /\ phase' = [r \in Request |-> IF r \in Head(pendingQ) THEN "held" ELSE phase[r]]
  /\ pendingQ' = Tail(pendingQ)
  /\ fetching' = [fetching EXCEPT ![w] = "polling"]
  /\ UNCHANGED <<st, timeUp, genVars, events, chan, cb, buffer, consumer, yielded,
                 mode, status, aborted>>

WorkerFindsEmpty(w) ==
  /\ fetching[w] = "polling"
  /\ pendingQ = <<>>
  /\ WantsGraph(w)
  /\ fetching' = [fetching EXCEPT ![w] = "foundEmpty"]
  /\ UNCHANGED <<st, timeUp, genVars, pendingQ, events, chan, cb, buffer, consumer, yielded,
                 mode, holder, phase, status, aborted>>

FetchingOver(w) == requestsGenerated /\ fetching[w] = "foundEmpty"

WorkerStopsFetching(w) ==
  /\ fetching[w] # "stopped"
  /\ mode[w] \in {"run", "cancelling", "cancel"}
  /\ FetchingOver(w)
  /\ fetching' = [fetching EXCEPT ![w] = "stopped"]
  /\ UNCHANGED <<st, timeUp, genVars, pendingQ, events, chan, cb, buffer, consumer, yielded,
                 mode, holder, phase, status, aborted>>

\* A free slot claims a node whose parents have completed: _prepare_node.
SlotClaims(w, r) ==
  /\ mode[w] = "run"
  /\ Claimable(w, r)
  /\ FreeSlots(w) > 0
  /\ phase' = [phase EXCEPT ![r] = "claimed"]
  /\ Publish(w, r, "pending")
  /\ UNCHANGED <<st, timeUp, genVars, pendingQ, events, cb, buffer, consumer, yielded,
                 mode, fetching, holder, aborted>>

\* The strategy moves the start of a dequeued request: "pending" is sent again.
SlotRetargets(w, r) ==
  /\ "retarget" \in OptionalUpdates
  /\ mode[w] = "run" /\ holder[r] = w /\ phase[r] = "claimed"
  /\ status[r] # "pending"
  /\ Publish(w, r, "pending")
  /\ UNCHANGED <<st, timeUp, genVars, pendingQ, events, cb, buffer, consumer, yielded,
                 mode, fetching, holder, phase, aborted>>

\* _schedule_request: the target start has come, the backend is called.
SlotStarts(w, r) ==
  /\ mode[w] = "run" /\ holder[r] = w /\ phase[r] = "claimed"
  /\ phase' = [phase EXCEPT ![r] = "running"]
  /\ Publish(w, r, "in_progress")
  /\ UNCHANGED <<st, timeUp, genVars, pendingQ, events, cb, buffer, consumer, yielded,
                 mode, fetching, holder, aborted>>

SlotStreams(w, r) ==
  /\ "first_token" \in OptionalUpdates
  /\ mode[w] = "run" /\ holder[r] = w /\ phase[r] = "running"
  /\ status[r] # "first_token"
  /\ Publish(w, r, "first_token")
  /\ UNCHANGED <<st, timeUp, genVars, pendingQ, events, cb, buffer, consumer, yielded,
                 mode, fetching, holder, phase, aborted>>

SlotCompletes(w, r) ==
  /\ mode[w] = "run" /\ holder[r] = w /\ phase[r] = "running"
  /\ phase' = [phase EXCEPT ![r] = "completed"]
  /\ Publish(w, r, "completed")
  /\ UNCHANGED <<st, timeUp, genVars, pendingQ, events, cb, buffer, consumer, yielded,
                 mode, fetching, holder, aborted>>

SlotFails(w, r) ==
  /\ BackendMayFail
  /\ mode[w] = "run" /\ holder[r] = w /\ phase[r] = "running"
  /\ EndsAndAborts(w, r, "errored")
  /\ UNCHANGED <<st, timeUp, genVars, pendingQ, events, cb, buffer, consumer, yielded,
                 mode, fetching, holder>>

\* constraint_reached: cancel the slots, let each report, then sweep the rest.
WorkerSeesConstraint(w) ==
  /\ mode[w] = "run"
  /\ constraintReached
  /\ mode' = [mode EXCEPT ![w] = "cancelling"]
  /\ UNCHANGED <<st, timeUp, genVars, pendingQ, events, chan, cb, buffer, consumer, yielded,
                 fetching, holder, phase, status, aborted>>

SlotCancelled(w, r) ==
  /\ mode[w] = "cancelling"
  /\ r \in InFlight(w)
  /\ EndsAndAborts(w, r, "cancelled")
  /\ UNCHANGED <<st, timeUp, genVars, pendingQ, events, cb, buffer, consumer, yielded,
                 mode, fetching, holder>>

\* _cancel_requests_loop: the held graphs first, then every graph fetched later.
WorkerSweeps(w) ==
  /\ \/ mode[w] = "cancelling" /\ InFlight(w) = {}
     \/ mode[w] = "cancel" /\ Unfinished(w) # {}
  /\ mode' = [mode EXCEPT ![w] = "cancel"]
  /\ \E order \in CancelOrders(Unfinished(w)) :
       chan' = [chan EXCEPT ![w] = @ \o Cancellations(order)]
  /\ status' = [r \in Request |-> IF r \in Unfinished(w) THEN "cancelled" ELSE status[r]]
  /\ phase' = [r \in Request |-> IF r \in Unfinished(w) THEN "ended" ELSE phase[r]]
  /\ UNCHANGED <<st, timeUp, genVars, pendingQ, events, cb, buffer, consumer, yielded,
                 fetching, holder, aborted>>

\* _stop_monitor ends the worker on the shutdown or the error event.
WorkerExits(w) ==
  /\ mode[w] \in {"run", "cancelling", "cancel"}
  /\ shutdownEvent \/ errorEvent
  /\ mode' = [mode EXCEPT ![w] = "exited"]
  /\ UNCHANGED <<st, timeUp, genVars, pendingQ, events, chan, cb, buffer, consumer, yielded,
                 fetching, holder, phase, status, aborted>>

\* A worker process is killed (signal, out of memory): nothing more is published, and
\* the updates still in its send buffer are lost.
WorkerDies(w) ==
  /\ mode[w] \in {"run", "cancelling", "cancel"}
  /\ Cardinality({v \in Workers : mode[v] = "dead"}) < MaxCrashes
  /\ mode' = [mode EXCEPT ![w] = "dead"]
  /\ \E sent \in 0 .. Len(chan[w]) : chan' = [chan EXCEPT ![w] = SubSeq(@, 1, sent)]
  /\ UNCHANGED <<st, timeUp, genVars, pendingQ, events, cb, buffer, consumer, yielded,
                 fetching, holder, phase, status, aborted>>

\* The health monitor finds a process that ended with a non-zero exit code.
MonitorFindsDead ==
  /\ \E w \in Workers : mode[w] = "dead"
  /\ ~errorEvent
  /\ consumer \notin {"done", "raised"}
  /\ errorEvent' = TRUE
  /\ UNCHANGED <<st, timeUp, genVars, pendingQ, stopSend, requestsGenerated,
                 constraintReached, shutdownEvent, chan, cb, buffer, consumer, yielded,
                 workerVars>>

TimePasses ==
  /\ "max_duration" \in Constraints
  /\ ~timeUp
  /\ timeUp' = TRUE
  /\ UNCHANGED <<st, genVars, pendingQ, events, chan, cb, buffer, consumer, yielded, workerVars>>

SlotProgress(w, r) ==
  \/ SlotClaims(w, r) \/ SlotStarts(w, r) \/ SlotCompletes(w, r) \/ SlotCancelled(w, r)

\* request_updates has returned or raised: what is left is the group's shutdown().
Ended == consumer \in {"done", "raised"} /\ UNCHANGED vars

Next ==
  \/ Generator \/ Receiver \/ ConsumerSteps \/ MonitorFindsDead \/ TimePasses
  \/ \E w \in Workers :
       \/ WorkerFetches(w) \/ WorkerFindsEmpty(w) \/ WorkerStopsFetching(w)
       \/ WorkerSeesConstraint(w) \/ WorkerSweeps(w) \/ WorkerExits(w) \/ WorkerDies(w)
       \/ \E r \in Request : \/ SlotProgress(w, r) \/ SlotRetargets(w, r)
                             \/ SlotStreams(w, r) \/ SlotFails(w, r)
  \/ Ended

Spec == Init /\ [][Next]_vars

(***************************************************************************)
(* Every thread and event loop keeps running while the run lasts.  Nothing *)
(* is assumed of failures or optional updates; SlotProgress assumes that   *)
(* the backend answers.                                                    *)
(***************************************************************************)
Fairness ==
  /\ WF_vars(Generator) /\ WF_vars(Receiver) /\ WF_vars(ConsumerSteps)
  /\ WF_vars(MonitorFindsDead) /\ WF_vars(TimePasses)
  /\ \A w \in Workers :
       /\ WF_vars(WorkerSeesConstraint(w)) /\ WF_vars(WorkerSweeps(w))
       /\ WF_vars(WorkerExits(w)) /\ WF_vars(WorkerFetches(w))
       /\ \A r \in Request : WF_vars(SlotProgress(w, r))

FairSpec == Spec /\ Fairness

\* The coordinator alone: the workers may sleep for ever, until a target start.
CoordinatorFairSpec ==
  Spec /\ WF_vars(Generator) /\ WF_vars(Receiver) /\ WF_vars(ConsumerSteps)

-----------------------------------------------------------------------------
(***************************************************************************)
(* Safety.                                                                 *)
(***************************************************************************)

\* The three id sets are disjoint and every created request is counted exactly
\* once, as tracked or as processed, and every processed one under exactly one
\* outcome, whatever racing, repeated or late updates the workers publish.
CountsConsistent ==
  /\ st.queued \cap st.pending = {} /\ st.queued \cap st.processing = {}
  /\ st.pending \cap st.processing = {}
  /\ st.created = Cardinality(Live(st)) + st.processed
  /\ st.processed = st.successful + st.errored + st.cancelled

\* The generator will create and send nothing more.
GenerationOver == genPc \in {"stop", "done"} \/ (genPc = "resume" /\ genStop)

\* The callback shuts the workers down only when nothing is left to process: no
\* request is tracked and the generator will not create another.
ShutdownMeansAllProcessed ==
  shutdownEvent => Live(st) = {} /\ GenerationOver

\* The coordinator never counts more requests at a worker than the worker has
\* slots, although it counts from updates that arrive late and an abort ends
\* requests whose slots are still busy.
SlotsRespected ==
  \A w \in Workers :
    Cardinality({r \in st.pending \cup st.processing : holder[r] = w}) <= AsyncLimit[w]

\* max_requests is exact: a graph is cut at the limit and no request beyond it is
\* created, even when the limit falls inside a conversation.
NeverExceedsMaxRequests ==
  "max_requests" \in Constraints => st.created <= MaxRequests

\* When request_updates ends, the terminal update of every request has been yielded
\* or has at least come as far as the receive thread; none is left behind in a worker
\* or on its stream.  (It need not have been yielded: the shutdown event is visible
\* before the update that caused it is in the buffer.)
EverythingReceived ==
  consumer = "done" =>
    \A r \in 1 .. st.created :
      \/ yielded[r] \in TerminalStatus
      \/ \E i \in DOMAIN buffer : buffer[i].id = r /\ buffer[i].status \in TerminalStatus
      \/ cb.pc # "idle" /\ cb.update.id = r /\ cb.update.status \in TerminalStatus

\* The coordinator's tracking is sound whatever the workers report and in whatever order:
\* its counts are the sizes of its sets, no request is in two of them, and every one that
\* ended has one outcome.
TrackingIsSound == TypeOK /\ CountsConsistent

-----------------------------------------------------------------------------
(***************************************************************************)
(* The tracking record as an implementation of RequestLifecycle.           *)
(***************************************************************************)
LifeOf(s) ==
  [r \in Request |-> IF r \in s.queued THEN "queued"
                     ELSE IF r \in s.pending THEN "pending"
                     ELSE IF r \in s.processing THEN "processing"
                     ELSE IF r <= s.created THEN "done" ELSE "new"]

OutcomesOf(s) ==
  [o \in TerminalStatus |-> IF o = "completed" THEN s.successful
                            ELSE IF o = "errored" THEN s.errored ELSE s.cancelled]

Lifecycle == INSTANCE RequestLifecycle WITH life <- LifeOf(st), outcomes <- OutcomesOf(st)

\* Whatever updates arrive, in whatever order, the coordinator takes every request
\* forward through its life and ends it exactly once.
ImplementsLifecycle == Lifecycle!LifecycleSpec

-----------------------------------------------------------------------------
(***************************************************************************)
(* Action properties.                                                      *)
(***************************************************************************)

YieldRank(s) ==
  CASE s = "none" -> 0 [] s = "queued" -> 1 [] s = "pending" -> 2
    [] s = "in_progress" -> 3 [] s = "first_token" -> 4 [] OTHER -> 5

\* "Each request generates three ordered updates: queued, in_progress, completed |
\* errored | cancelled" (Scheduler.run), with the optional ones in their places: the
\* consumer sees "queued" first, although another thread buffers it, and nothing after the
\* one terminal update.  True of workers with one slot; with more, see OnlyAbortsOvertake.
UpdatesInOrder ==
  [][\A r \in Request : yielded'[r] # yielded[r] =>
       /\ YieldRank(yielded'[r]) > YieldRank(yielded[r])
       /\ yielded[r] = "none" => yielded'[r] = "queued"]_yielded

\* An abort reports a sibling that may be suspended at an await, and goes on to report once
\* it is resumed (_abort_remaining_nodes).  Nothing else breaks the order: "queued" comes
\* first, "completed" last, and an update out of its place follows an abort that has reported
\* its request, and comes after the failure the abort was for.
AbortSeen(r) ==
  /\ yielded[r] \in {"errored", "cancelled"}
  /\ \E s \in Request \ {r} : GraphOf[s] = GraphOf[r] /\ yielded[s] \in {"errored", "cancelled"}
OnlyAbortsOvertake ==
  [][\A r \in Request : yielded'[r] # yielded[r] =>
       /\ YieldRank(yielded'[r]) > YieldRank(yielded[r]) \/ AbortSeen(r)
       /\ yielded[r] = "none" => yielded'[r] = "queued"]_yielded

-----------------------------------------------------------------------------
(***************************************************************************)
(* Liveness.                                                               *)
(***************************************************************************)

ConsumerEnded == consumer \in {"done", "raised"}

\* A worker process that dies never leaves the caller waiting: the monitor raises
\* the error event and request_updates raises.
DeathEndsTheRun == (\E w \in Workers : mode[w] = "dead") ~> ConsumerEnded

\* Once generation is over, every graph has been fetched and some request has still
\* to be reported, the report of the last one shuts the workers down.
LastReportShutsDown ==
  (genPc = "done" /\ stopSend /\ pendingQ = <<>> /\ Live(st) # {})
    ~> (shutdownEvent \/ errorEvent)

\* max_duration ends processing even if no update ever arrives again ("must be
\* evaluated even when workers are sleeping until a future target start").
TimeUpStopsProcessing == timeUp ~> (constraintReached \/ ConsumerEnded)

\* The shutdown event ends the iteration over the updates.
ShutdownEndsTheRun == shutdownEvent ~> ConsumerEnded

\* received_callback "triggers shutdown when stop conditions are met": a run whose
\* stop conditions hold does not go on for ever.
StopConditionsEndTheRun ==
  (genPc = "done" /\ stopSend /\ constraintReached /\ Live(st) = {}) ~> ConsumerEnded
=============================================================================
