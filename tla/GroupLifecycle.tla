--------------------------- MODULE GroupLifecycle ---------------------------
(***************************************************************************)
(* One run of the scheduler from Scheduler.run to the end of its worker    *)
(* processes: create_processes, start, request_updates and shutdown of     *)
(* WorkerProcessGroup, its health monitor, and WorkerProcess.run with the  *)
(* startup barrier.  What the workers report and how the run's events come *)
(* about is the subject of WorkerGroup; here they are steps that happen.   *)
(***************************************************************************)
EXTENDS Integers, FiniteSets, FiniteSetsExt

CONSTANTS
  Limits,     \* what a strategy, a backend and the settings may allow
  Processes,  \* what max_worker_processes of the settings may be
  MaxKills    \* bound: worker processes killed by a signal

ASSUME LifecycleAssumption ==
  /\ Limits \subseteq Nat /\ Limits # {}
  /\ Processes \subseteq Nat /\ Processes # {}
  /\ MaxKills \in Nat

VARIABLES
  slots,        \* async_limit of each worker process
  concurrency,  \* max_conc
  run,          \* where Scheduler.run stands
  outcome,      \* how it will end
  worker,       \* where each worker process stands
  busy,         \* whether it has requests whose end is not reported
  overtaken,    \* whether calls are in its backend that an abort has reported as cancelled
  backend,      \* backend_started
  exitcode,     \* of each process
  barrier,      \* startup_barrier
  events,       \* which of the shared events are set
  monitoring,   \* the health monitor is at work
  failures      \* what shutdown() has collected

lifecycleVars == <<slots, concurrency, run, outcome, worker, busy, overtaken, backend, exitcode,
                   barrier, events, monitoring, failures>>

Ranks == DOMAIN worker
Alive == {w \in Ranks : exitcode[w] = "none"}

\* "stuck": the process cannot end, a thread of the barrier wait spins; "deaf": it
\* sweeps, with the cancellation of its task swallowed.
Starting == {"spawned", "started", "barrier"}
Phases == Starting \cup {"processing", "cancelling", "deafening", "sweeping", "deaf",
                         "stopping", "failing", "stuck", "gone"}

-----------------------------------------------------------------------------
(* create_processes *)

\* None and 0 are no limit, and max_concurrency of the settings is the default.
Least(S, default) == IF S \ {0} = {} THEN default ELSE Min(S \ {0})

\* How many processes share a concurrency of c, and each one's part of it; max_worker_processes
\* counts also when it is 0.
ProcessCount(c, limits, most) == Min({c, most} \cup (limits \ {0}))
\* Mutant: every process gets all of it.
AsyncLimitWhole(c, n, rank) == c + (IF rank < c % n THEN 1 ELSE 0)
\* Mutant: the rest is not handed out.
AsyncLimitFloor(c, n, rank) == c \div n
AsyncLimit(c, n, rank) == c \div n + (IF rank < c % n THEN 1 ELSE 0)

LifecycleInit ==
  \E requestLimits, processLimits \in SUBSET Limits, default \in Limits, most \in Processes :
    LET c == Least(requestLimits, default)
        n == ProcessCount(c, processLimits, most)
        ranks == 0 .. n - 1
    IN /\ concurrency = c
       /\ slots = [w \in ranks |-> AsyncLimit(c, n, w)]
       /\ run = IF c = 0 \/ n = 0 THEN "shutdown" ELSE "creating"
       /\ outcome = IF c = 0 \/ n = 0 THEN "error" ELSE "none"
       /\ worker = [w \in ranks |-> "spawned"]
       /\ busy = [w \in ranks |-> FALSE] /\ overtaken = [w \in ranks |-> FALSE]
       /\ backend = [w \in ranks |-> FALSE]
       /\ exitcode = [w \in ranks |-> "none"]
       /\ barrier = "filling" /\ events = {} /\ failures = 0
       /\ monitoring = (run = "creating")

-----------------------------------------------------------------------------
(* A worker process *)

\* _processing_startup: the backend starts and is validated, or raises.
BackendStarts(w) ==
  /\ w \in Alive /\ worker[w] = "spawned"
  /\ worker' = [worker EXCEPT ![w] = "started"] /\ backend' = [backend EXCEPT ![w] = TRUE]
  /\ UNCHANGED <<slots, concurrency, run, outcome, busy, overtaken, exitcode, barrier, events, monitoring, failures>>

StartupFails(w) ==
  /\ w \in Alive /\ worker[w] \in {"spawned", "started"}
  /\ worker' = [worker EXCEPT ![w] = "failing"]
  /\ UNCHANGED <<slots, concurrency, run, outcome, busy, overtaken, backend, exitcode, barrier, events, monitoring, failures>>

\* Messaging is up; the last party of the barrier lets everybody pass.  The
\* coordinator's own thread waits there from the beginning, also for a caller that
\* has given up.
ReachesBarrier(w) ==
  /\ w \in Alive /\ worker[w] = "started"
  /\ worker' = [worker EXCEPT ![w] = "barrier"]
  /\ barrier' = IF barrier = "filling"
                   /\ \A v \in Ranks \ {w} : v \in Alive /\ worker[v] = "barrier"
                THEN "passed" ELSE barrier
  /\ UNCHANGED <<slots, concurrency, run, outcome, busy, overtaken, backend, exitcode, events, monitoring, failures>>

\* A broken barrier raises in _wait_indefinite; _watch is never told to stop, and
\* asyncio.run() waits for its thread before run() could set the error event.
LeavesBarrier(w) ==
  /\ w \in Alive /\ worker[w] = "barrier" /\ barrier # "filling"
  /\ worker' = [worker EXCEPT ![w] = IF barrier = "passed" THEN "processing" ELSE "stuck"]
  /\ backend' = [backend EXCEPT ![w] = barrier = "passed"]
  /\ UNCHANGED <<slots, concurrency, run, outcome, busy, overtaken, exitcode, barrier, events, monitoring, failures>>

\* The requests of a worker, as long as it may take one.
TakesRequest(w) ==
  /\ w \in Alive /\ worker[w] = "processing" /\ ~busy[w] /\ events \cap {"shutdown"} = {}
  /\ run = "updating" /\ busy' = [busy EXCEPT ![w] = TRUE]
  /\ UNCHANGED <<slots, concurrency, run, outcome, worker, overtaken, backend, exitcode, barrier, events, monitoring, failures>>

\* Its last request reports its end; when the constraint has been reached, after it has
\* been cancelled.
EndsRequests(w) ==
  /\ w \in Alive /\ busy[w] /\ worker[w] \in {"processing", "cancelling", "deafening"}
  /\ busy' = [busy EXCEPT ![w] = FALSE]
  /\ UNCHANGED <<slots, concurrency, run, outcome, worker, overtaken, backend, exitcode, barrier, events, monitoring, failures>>

\* A request ends badly and _abort_remaining_nodes reports the others of its graph, also
\* those with a call in the backend, which it does not stop.
Aborts(w) ==
  /\ w \in Alive /\ busy[w] /\ slots[w] > 1 /\ worker[w] \in {"processing", "cancelling", "deafening"}
  /\ overtaken' = [overtaken EXCEPT ![w] = TRUE]
  /\ \E more \in BOOLEAN : busy' = [busy EXCEPT ![w] = more]
  /\ UNCHANGED <<slots, concurrency, run, outcome, worker, backend, exitcode, barrier, events, monitoring, failures>>

\* The calls an abort has overtaken come to their end; the coordinator, which has counted
\* their requests, ignores what they report.
OvertakenEnd(w) ==
  /\ w \in Alive /\ overtaken[w] /\ worker[w] \in {"processing", "cancelling", "deafening"}
  /\ overtaken' = [overtaken EXCEPT ![w] = FALSE]
  /\ UNCHANGED <<slots, concurrency, run, outcome, worker, busy, backend, exitcode, barrier, events, monitoring, failures>>

\* _process_requests sees constraint_reached_event and cancels its loop...
ConstraintSeen(w) ==
  /\ w \in Alive /\ worker[w] = "processing" /\ "constraint" \in events
  /\ worker' = [worker EXCEPT ![w] = "cancelling"]
  /\ UNCHANGED <<slots, concurrency, run, outcome, busy, overtaken, backend, exitcode, barrier, events, monitoring, failures>>

\* ...and goes on to _cancel_requests_loop when all of its tasks have ended.
Sweeps(w) ==
  /\ w \in Alive /\ worker[w] \in {"cancelling", "deafening"} /\ ~busy[w] /\ ~overtaken[w]
  /\ worker' = [worker EXCEPT ![w] = IF @ = "cancelling" THEN "sweeping" ELSE "deaf"]
  /\ UNCHANGED <<slots, concurrency, run, outcome, busy, overtaken, backend, exitcode, barrier, events, monitoring, failures>>

\* Mutant: nobody watches for the end of the run while the queue is swept.
WatchedEarly == Starting \cup {"processing", "cancelling"}
Watched == Starting \cup {"processing", "cancelling", "sweeping"}

\* _stop_monitor has seen an event and run_async cancels the request task, whatever calls
\* its processing task has in the backend.  A cancellation that meets contextlib.suppress
\* is gone; one at the barrier makes _watch abort it.
StopSeen(w, event) ==
  /\ w \in Alive /\ event \in events \cap {"error", "shutdown"}
  /\ worker[w] \in Watched
  /\ worker' = [worker EXCEPT ![w] = IF @ = "cancelling" THEN "deafening"
                                     ELSE IF event = "error" THEN "failing" ELSE "stopping"]
  /\ barrier' = IF worker[w] = "barrier" /\ barrier = "filling" THEN "broken" ELSE barrier
  /\ UNCHANGED <<slots, concurrency, run, outcome, busy, overtaken, backend, exitcode, events, monitoring, failures>>

\* _processing_shutdown, and the end of run(): a failure sets error_event.
Exits(w) ==
  /\ w \in Alive /\ worker[w] \in {"stopping", "failing"}
  /\ backend' = [backend EXCEPT ![w] = FALSE]
  /\ exitcode' = [exitcode EXCEPT ![w] = IF worker[w] = "failing" THEN "one" ELSE "zero"]
  /\ events' = IF worker[w] = "failing" THEN events \cup {"error"} ELSE events
  /\ worker' = [worker EXCEPT ![w] = "gone"]
  /\ UNCHANGED <<slots, concurrency, run, outcome, busy, overtaken, barrier, monitoring, failures>>

Killed(w) ==
  /\ w \in Alive /\ Cardinality({v \in Ranks : exitcode[v] = "signal"}) < MaxKills
  /\ exitcode' = [exitcode EXCEPT ![w] = "signal"] /\ worker' = [worker EXCEPT ![w] = "gone"]
  /\ UNCHANGED <<slots, concurrency, run, outcome, busy, overtaken, backend, barrier, events, monitoring, failures>>

-----------------------------------------------------------------------------
(* The coordinator *)

\* _process_health_monitor
Died(w) == exitcode[w] \in {"one", "signal"}
\* Mutant: a process that was killed is not a failed one.
NoticedPolitely(w) == exitcode[w] = "one"
Noticed(w) == Died(w)
MonitorSees ==
  /\ monitoring /\ \E w \in Ranks : Noticed(w)
  /\ events' = events \cup {"error"} /\ monitoring' = FALSE
  /\ UNCHANGED <<slots, concurrency, run, outcome, worker, busy, overtaken, backend, exitcode, barrier, failures>>

\* The wait of create_processes ends with the error event, and its own barrier
\* thread then aborts the barrier; or with the barrier, passed or broken.
CreationFails ==
  /\ run = "creating" /\ "error" \in events
  /\ run' = "shutdown" /\ outcome' = "error"
  /\ barrier' = IF barrier = "filling" THEN "broken" ELSE barrier
  /\ UNCHANGED <<slots, concurrency, worker, busy, overtaken, backend, exitcode, events, monitoring, failures>>

Created ==
  /\ run = "creating" /\ barrier # "filling" /\ run' = "starting"
  /\ UNCHANGED <<slots, concurrency, outcome, worker, busy, overtaken, backend, exitcode, barrier, events, monitoring, failures>>

\* Mutant: start() trusts the barrier.
StartRefusedNever == FALSE
StartRefused == "error" \in events

\* start(), after the wait for the start time.
Started ==
  /\ run = "starting"
  /\ IF StartRefused THEN run' = "shutdown" /\ outcome' = "error"
     ELSE run' = "updating" /\ UNCHANGED outcome
  /\ UNCHANGED <<slots, concurrency, worker, busy, overtaken, backend, exitcode, barrier, events, monitoring, failures>>

\* received_callback: a constraint is met, requests_exhausted if no other...
ConstraintReached ==
  /\ run = "updating" /\ events \cap {"constraint", "shutdown"} = {}
  /\ events' = events \cup {"constraint"}
  /\ UNCHANGED <<slots, concurrency, run, outcome, worker, busy, overtaken, backend, exitcode, barrier, monitoring, failures>>
\* ...and every request is counted as processed, which is not that every call has ended.
\* Mutant: the last request counts as processed before it ends.
NothingLeftEarly == TRUE
NothingLeft == \A w \in Ranks : ~busy[w]
AllProcessed ==
  /\ run = "updating" /\ "constraint" \in events /\ "shutdown" \notin events /\ NothingLeft
  /\ events' = events \cup {"shutdown"}
  /\ UNCHANGED <<slots, concurrency, run, outcome, worker, busy, overtaken, backend, exitcode, barrier, monitoring, failures>>

\* request_updates looks at the error event first, then at the shutdown event.
UpdatesEnd ==
  /\ run = "updating" /\ events \cap {"error", "shutdown"} # {}
  /\ run' = "shutdown"
  /\ outcome' = IF "error" \in events THEN "error" ELSE "finished"
  /\ UNCHANGED <<slots, concurrency, worker, busy, overtaken, backend, exitcode, barrier, events, monitoring, failures>>

\* The caller closes the generator or is cancelled.
Abandoned ==
  /\ run \in {"creating", "starting", "updating"}
  /\ run' = "shutdown" /\ outcome' = "abandoned"
  /\ UNCHANGED <<slots, concurrency, worker, busy, overtaken, backend, exitcode, barrier, events, monitoring, failures>>

\* What a clean-up with a time limit of its own adds to the failures; nothing if there is
\* nothing to clean up, because create_processes has refused the limits.
CleanupErrors == IF Ranks = {} THEN {0} ELSE {0, 1}

\* shutdown(): no more monitor, and the event...
ShutdownBegins ==
  /\ run = "shutdown" /\ run' = "stopping"
  /\ monitoring' = FALSE /\ events' = events \cup {"shutdown"}
  /\ UNCHANGED <<slots, concurrency, outcome, worker, busy, overtaken, backend, exitcode, barrier, failures>>

\* ...then messaging.stop() ends, raises or has its five seconds, before a process is joined.
MessagingStops ==
  /\ run = "stopping" /\ run' = "joining"
  /\ \E errors \in CleanupErrors : failures' = failures + errors
  /\ UNCHANGED <<slots, concurrency, outcome, worker, busy, overtaken, backend, exitcode, barrier, events, monitoring>>

\* _join_or_kill_process loses patience.
\* Mutant: it joins without a limit.
TerminatesNever(w) == FALSE
Terminates(w) ==
  /\ run = "joining" /\ w \in Alive
  /\ exitcode' = [exitcode EXCEPT ![w] = "terminated"]
  /\ worker' = [worker EXCEPT ![w] = "gone"]
  /\ UNCHANGED <<slots, concurrency, run, outcome, busy, overtaken, backend, barrier, events, monitoring, failures>>

\* Mutant: only the failures the monitor has seen are collected.
ExitFailuresNone == 0
ExitFailures == Cardinality({w \in Ranks : Died(w)})

\* All joined, and the manager is shut down or has had its five seconds.  The failures, if
\* the run had none of its own, are raised by sync_run_end.
Joined ==
  /\ run = "joining" /\ Alive = {}
  /\ \E errors \in CleanupErrors : failures' = failures + ExitFailures + errors
  /\ run' = "ended"
  /\ outcome' = IF outcome = "finished" /\ failures' > 0 THEN "error" ELSE outcome
  /\ UNCHANGED <<slots, concurrency, worker, busy, overtaken, backend, exitcode, barrier, events, monitoring>>

WorkerStep(w) ==
  \/ BackendStarts(w) \/ ReachesBarrier(w) \/ LeavesBarrier(w) \/ ConstraintSeen(w)
  \/ EndsRequests(w) \/ OvertakenEnd(w) \/ Sweeps(w) \/ Exits(w)
  \/ \E event \in {"error", "shutdown"} : StopSeen(w, event)

LifecycleNext ==
  \/ \E w \in Ranks : WorkerStep(w) \/ StartupFails(w) \/ TakesRequest(w) \/ Aborts(w)
                      \/ Killed(w) \/ Terminates(w)
  \/ MonitorSees \/ CreationFails \/ Created \/ Started \/ ConstraintReached \/ AllProcessed
  \/ UpdatesEnd \/ Abandoned \/ ShutdownBegins \/ MessagingStops \/ Joined

-----------------------------------------------------------------------------
(* Properties *)

\* The coordinator's steps happen, its polls see what is there, the waits of shutdown()
\* time out; a worker that can go on does.  StopSeen is a poll of its own.
LifecycleFairness ==
  /\ WF_lifecycleVars(MonitorSees) /\ WF_lifecycleVars(CreationFails)
  /\ WF_lifecycleVars(Created) /\ WF_lifecycleVars(Started)
  /\ WF_lifecycleVars(UpdatesEnd) /\ WF_lifecycleVars(ShutdownBegins)
  /\ WF_lifecycleVars(MessagingStops) /\ WF_lifecycleVars(Joined)
  /\ \A w \in 0 .. Max(Processes) - 1 :
       /\ WF_lifecycleVars(w \in Ranks /\ WorkerStep(w))
       /\ WF_lifecycleVars(w \in Ranks /\ Terminates(w))
       /\ WF_lifecycleVars(w \in Ranks /\ \E event \in {"error", "shutdown"} : StopSeen(w, event))

LifecycleSpec == LifecycleInit /\ [][LifecycleNext]_lifecycleVars /\ LifecycleFairness

LifecycleTypeOK ==
  /\ concurrency \in Nat /\ \A w \in Ranks : slots[w] \in 0 .. concurrency
  /\ run \in {"creating", "starting", "updating", "shutdown", "stopping", "joining", "ended"}
  /\ outcome \in {"none", "finished", "error", "abandoned"}
  /\ worker \in [Ranks -> Phases] 
  /\ busy \in [Ranks -> BOOLEAN] /\ overtaken \in [Ranks -> BOOLEAN] /\ backend \in [Ranks -> BOOLEAN]
  /\ exitcode \in [Ranks -> {"none", "zero", "one", "signal", "terminated"}]
  /\ barrier \in {"filling", "passed", "broken"}
  /\ events \subseteq {"error", "constraint", "shutdown"}
  /\ monitoring \in BOOLEAN /\ failures \in Nat

\* The processes share the concurrency out completely, and each has a slot at least.
AllSlots == {slot \in Ranks \X (1 .. concurrency) : slot[2] <= slots[slot[1]]}
SlotsAddUp ==
  outcome # "error" =>
    /\ Cardinality(AllSlots) = concurrency
    /\ \A w \in Ranks : slots[w] > 0

\* Updates are read only when every worker has been at the barrier: a barrier that
\* somebody broke counts as passed in wait_for_sync_objects, and only the look at
\* error_event in start() tells the two apart.
StartsTogether ==
  run = "updating" => barrier = "passed" /\ \A w \in Ranks : worker[w] \notin {"spawned", "started", "stuck"}

\* A worker that failed or was killed is never missing from the outcome: the monitor,
\* the error event or the exit code brings it up, also when it dies while the run is
\* already ending.  Nor is what went wrong in shutdown() itself, messaging.stop() that did
\* not come back in time included.
FailureIsReported ==
  run = "ended" /\ outcome = "finished" => failures = 0 /\ \A w \in Ranks : ~Died(w)

\* On a run that goes well a backend is shut down under no request whose end has not been
\* reported: the run's own end, seen by every worker at a poll of its own, comes after the
\* last report.  Not after the last call: one that an abort has overtaken may still be in the
\* backend, and a worker that sees the shutdown event before constraint_reached_event cuts
\* it off.
RequestsComeFirst ==
  outcome \in {"none", "finished"} /\ "error" \notin events =>
    \A w \in Alive : busy[w] => backend[w] /\ worker[w] # "stopping"

\* However a run goes, it ends and leaves no process behind (Scheduler.run, shutdown).
RunEnds == outcome # "none" ~> (run = "ended" /\ Alive = {})

\* A failed or killed worker ends the run.
FailureEndsTheRun == (\E w \in Ranks : Died(w)) ~> run = "ended"

\* Told to stop, a worker always has a step of its own left until it has exited, and
\* none of these steps leads back: it depends on terminate() only when the suppress
\* around its cancelled loop has swallowed the news or a broken barrier has left a
\* thread behind.
StopsByItself ==
  "shutdown" \in events =>
    \A w \in Alive : worker[w] \in {"deaf", "stuck"} \/ ENABLED WorkerStep(w)

\* The processes start together with all the slots of the strategy among them, no backend is
\* shut down under a request that is still to be reported while the run goes well, and
\* whatever failed, was killed or did not stop in time is in the outcome.
RunIsOrderly ==
  LifecycleTypeOK /\ SlotsAddUp /\ StartsTogether /\ RequestsComeFirst /\ FailureIsReported

\* The scheduler returns with no process left, whatever dies, stalls or is killed on the
\* way (shutdown joins, terminates and kills), a process that failed ends the run, and one
\* that is told to stop gets there by itself.
EveryRunEnds == RunEnds /\ FailureEndsTheRun /\ []StopsByItself
=============================================================================
