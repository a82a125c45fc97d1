---------------------------- MODULE BatchBackend ----------------------------
(***************************************************************************)
(* The vLLM batch backend (backends/vllm_python/batch.py): resolve() puts  *)
(* a request on the pending list and waits for its result; the list is     *)
(* handed to LLM.generate() by the resolve() that fills it, by the         *)
(* deferred flush, or by process_shutdown().                               *)
(*                                                                         *)
(* All of it runs on one event loop, so an action is what a task does      *)
(* between two awaits that really suspend.  Taking _batch_lock is not one  *)
(* of them: no holder of it awaits anything, so it is always free.         *)
(* _generate_lock is held across the executor's run and is handed on in    *)
(* the order of arrival, as asyncio.Lock does.                             *)
(***************************************************************************)
EXTENDS Naturals, FiniteSets

CONSTANTS
  Requests,    \* the requests resolve() is called with, one call each
  BatchSize,   \* batch_size
  Flush,       \* the task of _schedule_deferred_flush
  Shutdown     \* the call of process_shutdown

ASSUME BatchAssumption ==
  /\ BatchSize \in Nat \ {0}
  /\ Flush \notin Requests /\ Shutdown \notin Requests /\ Flush # Shutdown

VARIABLES
  task,          \* where each resolve(), the flush and the shutdown stand
  pending,       \* _pending_batch
  batch,         \* the requests a task has taken off the list
  result,        \* what each request's ready event was set with, if it was
  lock,          \* _generate_lock: of each task in its line, the tasks up to it
  generate,      \* LLM.generate() in the executor's thread
  llm,           \* _llm is a live engine
  inProcess,     \* _in_process
  shuttingDown,  \* _shutting_down
  stopped        \* the worker has cancelled its requests' tasks

batchVars ==
  <<task, pending, batch, result, lock, generate, llm, inProcess, shuttingDown, stopped>>

Tasks == Requests \cup {Flush, Shutdown}

\* "locking": waits for _generate_lock with a batch of its own; "generating":
\* awaits the executor; "draining": awaits it after having been cancelled.
Working == {"locking", "generating", "draining"}
Ended == {"done", "failed", "cancelled"}
Stages == {"none", "waiting", "sleeping", "joining", "closing"} \cup Working \cup Ended

BatchTypeOK ==
  /\ task \in [Tasks -> Stages]
  /\ pending \in SUBSET Requests
  /\ batch \in [Tasks -> SUBSET Requests]
  /\ result \in [Requests -> {"none", "output", "error"}]
  /\ lock \in [Tasks -> SUBSET Tasks]
  /\ generate \in {"idle", "running", "returned", "raised", "short"}
  /\ {llm, inProcess, shuttingDown, stopped} \subseteq BOOLEAN

BatchInit ==
  /\ task = [t \in Tasks |-> "none"]
  /\ pending = {} /\ batch = [t \in Tasks |-> {}]
  /\ result = [r \in Requests |-> "none"]
  /\ lock = [t \in Tasks |-> {}] /\ generate = "idle" /\ llm = FALSE
  /\ inProcess = FALSE /\ shuttingDown = FALSE /\ stopped = FALSE

-----------------------------------------------------------------------------
(* Startup *)

\* process_startup, then validate, which preloads the engine in a worker.
\* When that fails the worker shuts the backend down without using it.
Startup(loaded) ==
  /\ ~inProcess /\ ~shuttingDown
  /\ inProcess' = TRUE /\ llm' = loaded /\ stopped' = ~loaded
  /\ UNCHANGED <<task, pending, batch, result, lock, generate, shuttingDown>>

-----------------------------------------------------------------------------
(* Batches *)

\* The line for _generate_lock, whose first task holds the lock.
Line == {t \in Tasks : lock[t] # {}}
Holds(t) == lock[t] = {t}
Queued(t) == [lock EXCEPT ![t] = Line \cup {t}]
Without(S) == [t \in Tasks |-> IF t \in S THEN {} ELSE lock[t] \ S]

\* What a task that has just taken the requests S does in _run_generate up to
\* its first suspension: take the free lock and start the executor, or queue.
RunGenerate(t, S) ==
  /\ batch' = [batch EXCEPT ![t] = S]
  /\ lock' = Queued(t)
  /\ generate' = IF Line = {} THEN "running" ELSE generate
  /\ task' = [task EXCEPT ![t] = IF Line = {} THEN "generating" ELSE "locking"]

\* The holder goes on as "next" and the lock passes to the task behind it.  One that
\* waits with a batch starts its own generate(); the shutdown, once it is "closing",
\* tears the engine down.
Second(t) == {u \in Tasks : lock[u] = {t, u} /\ task[u] = "locking"}
Released(t, next) ==
  /\ lock' = Without({t})
  /\ generate' = IF Second(t) = {} THEN "idle" ELSE "running"
  /\ task' = [u \in Tasks |-> IF u = t THEN next
                             ELSE IF u \in Second(t) THEN "generating" ELSE task[u]]

\* _schedule_deferred_flush: at most one flush task at a time.
\* Mutant: a flush that has ended is not scheduled again.
FlushScheduledOnce(tasks) ==
  IF tasks[Flush] = "none" THEN [tasks EXCEPT ![Flush] = "sleeping"] ELSE tasks
FlushScheduled(tasks) ==
  IF tasks[Flush] \in {"none", "done"} THEN [tasks EXCEPT ![Flush] = "sleeping"] ELSE tasks

\* Mutant: the batch that is just full waits for one more.
FullLate(queue) == Cardinality(queue) > BatchSize
Full(queue) == Cardinality(queue) >= BatchSize

\* resolve() up to its first suspension: enqueue, then generate if the batch
\* is full, else make sure that a flush is coming and wait for the result.
Resolve(r) ==
  /\ inProcess /\ ~stopped /\ llm /\ ~shuttingDown /\ task[r] = "none"
  /\ LET queue == pending \cup {r} IN
     IF Full(queue)
     THEN pending' = {} /\ RunGenerate(r, queue)
     ELSE /\ pending' = queue
          /\ task' = FlushScheduled([task EXCEPT ![r] = "waiting"])
          /\ UNCHANGED <<batch, lock, generate>>
  /\ UNCHANGED <<result, llm, inProcess, shuttingDown, stopped>>

\* resolve() once the shutdown has begun.
ResolveRejected(r) ==
  /\ inProcess /\ ~stopped /\ llm /\ shuttingDown /\ task[r] = "none"
  /\ task' = [task EXCEPT ![r] = "failed"]
  /\ UNCHANGED <<pending, batch, result, lock, generate, llm, inProcess, shuttingDown,
                 stopped>>

\* The executor's call ends: with one output per request, with an exception, or
\* with a wrong number of outputs.  Without an engine it can only raise.
GenerateEnds(outcome) ==
  /\ generate = "running"
  /\ outcome \in {"returned", "raised", "short"} /\ (~llm => outcome = "raised")
  /\ generate' = outcome
  /\ UNCHANGED <<task, pending, batch, result, lock, llm, inProcess, shuttingDown, stopped>>

\* _signal_batch_failure leaves a request alone that already has its result.
Signalled(S, value) ==
  [r \in Requests |->
     IF r \in S /\ (value = "output" \/ result[r] = "none") THEN value ELSE result[r]]

\* Where a task goes on when its batch is settled: resolve() to its own ready
\* event, the flush to sleep, process_shutdown() to the flush.
\* Mutant: the flush goes back to the lock.
AfterIdle(t) == CASE t = Flush -> "idle"
                  [] t = Shutdown -> "joining"
                  [] OTHER -> "waiting"
After(t) == CASE t = Flush -> "sleeping"
              [] t = Shutdown -> "joining"
              [] OTHER -> "waiting"

\* The end of _run_generate.
Distribute(t) ==
  /\ Holds(t) /\ task[t] = "generating"
  /\ generate \in {"returned", "raised", "short"}
  /\ result' = Signalled(batch[t], IF generate = "returned" THEN "output" ELSE "error")
  /\ batch' = [batch EXCEPT ![t] = {}]
  /\ Released(t, After(t))
  /\ UNCHANGED <<pending, llm, inProcess, shuttingDown, stopped>>

\* _await_shielded_executor after a cancellation: every waiter gets an error,
\* also when the outputs are there, and the cancellation goes on.
Drained(r) ==
  /\ Holds(r) /\ task[r] = "draining"
  /\ generate \in {"returned", "raised", "short"}
  /\ result' = Signalled(batch[r], "error")
  /\ batch' = [batch EXCEPT ![r] = {}]
  /\ Released(r, "cancelled")
  /\ UNCHANGED <<pending, llm, inProcess, shuttingDown, stopped>>

\* The ready event wakes resolve(), which yields the response or raises.
Answer(r) ==
  /\ task[r] = "waiting" /\ result[r] # "none"
  /\ task' = [task EXCEPT ![r] = IF result[r] = "output" THEN "done" ELSE "failed"]
  /\ UNCHANGED <<pending, batch, result, lock, generate, llm, inProcess, shuttingDown,
                 stopped>>

\* The sleep of the deferred flush ends: it takes what is pending, or returns.
\* Mutant: the list is not cleared when its requests are taken.
FlushWakesKeeping ==
  /\ task[Flush] = "sleeping"
  /\ IF pending = {}
     THEN /\ task' = [task EXCEPT ![Flush] = "done"]
          /\ UNCHANGED <<pending, batch, lock, generate>>
     ELSE RunGenerate(Flush, pending) /\ UNCHANGED pending
  /\ UNCHANGED <<result, llm, inProcess, shuttingDown, stopped>>
\* Mutant: the flush sleeps on when nothing is pending.
FlushWakesForever ==
  /\ task[Flush] = "sleeping" /\ pending # {}
  /\ pending' = {} /\ RunGenerate(Flush, pending)
  /\ UNCHANGED <<result, llm, inProcess, shuttingDown, stopped>>
FlushWakes ==
  /\ task[Flush] = "sleeping"
  /\ IF pending = {}
     THEN /\ task' = [task EXCEPT ![Flush] = "done"]
          /\ UNCHANGED <<pending, batch, lock, generate>>
     ELSE pending' = {} /\ RunGenerate(Flush, pending)
  /\ UNCHANGED <<result, llm, inProcess, shuttingDown, stopped>>

-----------------------------------------------------------------------------
(* The end *)

\* The worker cancels the tasks of all its requests at once.  One that waits
\* for the lock leaves the line and drops the batch it has taken; one that
\* awaits the executor has to see it through.
CancelAll ==
  LET gone == {r \in Requests : task[r] \in {"waiting", "locking"}}
  IN /\ inProcess /\ ~stopped /\ stopped' = TRUE
     /\ task' = [t \in Tasks |->
                   IF t \in gone THEN "cancelled"
                   ELSE IF t \in Requests /\ task[t] = "generating" THEN "draining"
                   ELSE task[t]]
     /\ batch' = [t \in Tasks |-> IF t \in gone THEN {} ELSE batch[t]]
     /\ lock' = Without(gone)
     /\ UNCHANGED <<pending, result, generate, llm, inProcess, shuttingDown>>

\* process_shutdown up to its first suspension.
ShutdownTaken ==
  /\ inProcess /\ ~shuttingDown /\ shuttingDown' = TRUE
  /\ pending' = {}
  /\ IF pending # {} THEN RunGenerate(Shutdown, pending)
     ELSE task' = [task EXCEPT ![Shutdown] = "joining"] /\ UNCHANGED <<batch, lock, generate>>
  /\ UNCHANGED <<result, llm, inProcess, stopped>>

\* The flush, if there ever was one, has ended: get in line for the lock.
\* Mutant: the shutdown goes ahead of the batches in the line.
ShutdownJoinedAhead ==
  /\ task[Shutdown] = "joining" /\ task[Flush] \in {"none", "done"}
  /\ task' = [task EXCEPT ![Shutdown] = "closing"]
  /\ lock' = [t \in Tasks |-> IF t \in Line \cup {Shutdown} THEN lock[t] \cup {Shutdown} ELSE {}]
  /\ UNCHANGED <<pending, batch, result, generate, llm, inProcess, shuttingDown, stopped>>
ShutdownJoined ==
  /\ task[Shutdown] = "joining" /\ task[Flush] \in {"none", "done"}
  /\ task' = [task EXCEPT ![Shutdown] = "closing"]
  /\ lock' = Queued(Shutdown)
  /\ UNCHANGED <<pending, batch, result, generate, llm, inProcess, shuttingDown, stopped>>

\* With the lock: tear the engine down.
ShutdownEnds ==
  /\ task[Shutdown] = "closing" /\ Holds(Shutdown)
  /\ llm' = FALSE /\ inProcess' = FALSE
  /\ task' = [task EXCEPT ![Shutdown] = "done"]
  /\ lock' = Without({Shutdown})
  /\ UNCHANGED <<pending, batch, result, generate, shuttingDown, stopped>>

BatchNext ==
  \/ \E loaded \in BOOLEAN : Startup(loaded)
  \/ \E r \in Requests : Resolve(r) \/ ResolveRejected(r) \/ Drained(r) \/ Answer(r)
  \/ \E outcome \in {"returned", "raised", "short"} : GenerateEnds(outcome)
  \/ \E t \in Tasks : Distribute(t)
  \/ FlushWakes \/ CancelAll
  \/ ShutdownTaken \/ ShutdownJoined \/ ShutdownEnds

-----------------------------------------------------------------------------
(* Properties *)

\* The executor's thread ends its call, and the event loop runs every task that
\* can go on; asyncio.sleep ends.  Nobody has to call, cancel or shut down.
BatchFairness ==
  /\ WF_batchVars(\E outcome \in {"returned", "raised", "short"} : GenerateEnds(outcome))
  /\ \A t \in Tasks : WF_batchVars(Distribute(t))
  /\ \A r \in Requests : WF_batchVars(Drained(r)) /\ WF_batchVars(Answer(r))
  /\ WF_batchVars(FlushWakes)
  /\ WF_batchVars(ShutdownJoined) /\ WF_batchVars(ShutdownEnds)

BatchSpec == BatchInit /\ [][BatchNext]_batchVars /\ BatchFairness

\* No resolve() waits for a ready event that nobody will set: its request has
\* its result, or is in the batch of a task at work, or is pending while the
\* deferred flush is alive (resolve, _schedule_deferred_flush, CancelledError
\* in _run_generate).
NoneForgotten ==
  \A r \in Requests : task[r] = "waiting" =>
    \/ result[r] # "none"
    \/ \E t \in Tasks : r \in batch[t] /\ task[t] \in Working
    \/ r \in pending /\ task[Flush] \in {"sleeping"} \cup Working

\* generate() never runs without an engine, whatever the shutdown races with:
\* the teardown is behind every batch in the line for _generate_lock.
EngineOutlivesBatches == generate = "running" => llm

\* A request is handed to generate() once, whoever took it off the list.
TakenOnce ==
  /\ \A t \in Tasks : batch[t] \cap pending = {}
  /\ \A t \in Tasks : \A u \in Tasks \ {t} : batch[t] \cap batch[u] = {}
  /\ \A t \in Tasks : \A r \in batch[t] : result[r] = "none"

\* No batch is larger than batch_size, however the takers interleave.
BatchBounded ==
  /\ Cardinality(pending) < BatchSize
  /\ \A t \in Tasks : Cardinality(batch[t]) <= BatchSize

\* What a waiter was woken with is never replaced.
ResultsStick ==
  [][\A r \in Requests : result[r] # "none" => result'[r] = result[r]]_batchVars

\* Every call of resolve() returns, raises or is cancelled: a full batch, the
\* flush or the shutdown serves it even when no further request comes.
EveryCallEnds ==
  \A r \in Requests : (task[r] # "none") ~> (task[r] \in Ended)

\* process_shutdown returns, with the engine gone.
ShutdownReturns == shuttingDown ~> (task[Shutdown] = "done" /\ ~llm)

\* The batches: a request that waits has someone coming for it, is taken by one batch of at
\* most the configured size, and has the engine until its batch is through.
BatchesAreSound ==
  BatchTypeOK /\ NoneForgotten /\ EngineOutlivesBatches /\ TakenOnce /\ BatchBounded

\* Every call of resolve() ends and so does the shutdown, with the engine released,
\* whatever is cancelled meanwhile.
BatchCallsEnd == EveryCallEnds /\ ShutdownReturns
=============================================================================
