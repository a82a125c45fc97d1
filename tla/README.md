# A verification project for guidellm

guidellm benchmarks LLM servers. It draws conversations from a dataset, sends their requests
to a backend from several worker processes at chosen times, collects the outcome of every
request and compiles it into a report. The hard part is the *scheduler*
(`src/src/guidellm/scheduler/`): threads, processes, five shared events, bounded queues,
cancellation and several ways for a run to stop. The project models that first and in most
detail, and around it what feeds it (datasets, conversations, strategies), what carries its
messages, what answers them (backends, the mock server) and what is measured.

Paths below are relative to `src/src/guidellm/` unless they start with `docs/` or `tests/`.

## 1. Inventory

| Component | State it keeps | Operations | Hard behaviour | Correct when |
|---|---|---|---|---|
| **Coordinator** `scheduler/worker_group.py` | tracking sets (queued, pending, processing) and counters under a lock; five events | `requests_generator` (send thread), `received_callback` (receive thread), `request_updates` (event loop), `_process_health_monitor`, `create_processes`, `start`, `shutdown` | three threads read and set events outside the lock; snapshots; polls; dead workers | every request is counted once; the run ends exactly when it should; every update is yielded |
| **Worker** `scheduler/worker.py` | active graphs (`turns_queue`), slots (semaphore), status of each request | `run`, `_process_requests_loop`, `_process_next_graph_node`, `_abort_remaining_nodes`, `_cancel_requests_loop`, `_send_update` | concurrent slots on one graph; failures and cancellation in the middle; sweep | each request is reported in order and ends once; parents precede children |
| **Conversation DAG** `scheduler/dag.py`, `scheduler/schemas/conversation.py` | completed, in progress, remaining parents, think-time gates | `next_node_ready_at`, `claim_node`, `mark_completed`, `abort`, `assemble_history`, `topological_order` | branches and joins completing in any order; abort with nodes in progress | a node starts after its parents, once; history is available and in order |
| **Constraints** `scheduler/constraints/` | limits, sliding windows | one call per update and per poll | evaluated from several threads; window reuse; duplicate updates | limits are exact; a stop has its evidence |
| **Strategies** `scheduler/strategies.py` | shared request index, Poisson offset, start event | `next_request_time`, `request_completed`, `init_processes_start` | shared counters between processes, start-up order, rampup boundaries | the configured load is kept |
| **Messaging** `utils/messaging.py` | pending and done queues, buffers, demand counter | send and receive threads, `get`/`put`, start/stop | bounded queues, stop criteria from counted polls, demand that lags | nothing is lost or doubled; threads end |
| **Message encoding** `utils/encoding.py` | none | `encode`, `decode`: dictionaries or packed sequences, msgpack or msgspec | binary lengths, delimiters inside payloads | what is decoded is what was encoded |
| **Scheduler, environment** `scheduler/scheduler.py`, `environments.py` | stored errors | `run`, `sync_run_error`, `sync_run_end` | errors during shutdown | the first error reaches the caller; processes are gone at the end |
| **Synchronisation** `utils/synchronous.py` | threads that watch an event or barrier | `wait_for_sync_event/barrier/objects` | cancellation, broken barriers | no waiter is left behind |
| **Profiles** `benchmark/profiles/` | bracket of the goodput search, sweep rates | `next_strategy` | boundaries of the search, aborted probes, baselines of a sweep | every strategy of the plan is run once; the search ends with a correct bracket |
| **Benchmarker, progress, entry points** `benchmark/benchmarker.py`, `progress.py`, `entrypoints.py` | the loop, the console's task list, merged configurations | `run`, tracker callbacks, `resolve_to_single_benchmark` | callbacks run concurrently; any of them may raise | a benchmark has its own updates and its own limit |
| **Accumulator, metrics, report** `benchmark/schemas/`, `schemas/base/` | running sums, phases, sampled requests | one update per request; `compile` | updates out of order, duplicates, phase boundaries, simultaneous events | every request counted under one outcome; distributions equal their definitions |
| **vLLM backend** `backends/vllm_python/` | pending batch, flush task, locks | `resolve`, `_run_generate`, deferred flush, shutdown | cancellation while waiting, flush races | every waiter is woken |
| **OpenAI backends** `backends/openai/` | accumulation of a stream | `resolve` over HTTP and websocket, request handlers | cancellation between events, interleaved tool calls, history of a conversation | one response, with what was sent |
| **Data pipeline** `data/` | iterators, hash tables, session timing, loader counts | deserialise, finalise, load | epochs, data workers, failing rows, subagents and tool turns | prompts share what the trace says they share; turns hang where they belong |
| **Mock server** `mock_server/` | admitted count, semaphore | generation handlers | limits under concurrency | answers as configured |
| Outputs, CLI, schemas, other utilities | - | - | - | not modelled: formatting, argument parsing, data classes |

How they interact. The entry point merges the configured benchmarks and hands a profile to the
benchmarker, which runs one strategy after the other. A run of the scheduler creates the worker
processes, starts them together at a barrier and iterates over their updates. The send
thread of the coordinator advances `requests_generator`, which counts each request, puts its
"queued" update straight into the consumer's buffer and yields a whole conversation graph to
the *pending queue*. Each worker's receive thread takes a graph when one of its slots waits
for one. A slot claims a node whose parents have completed, publishes `pending`, waits for
the target start of the strategy, publishes `in_progress`, calls the backend, and publishes
the terminal status; a failure aborts the graph and publishes `cancelled` for what remains.
The coordinator's receive thread passes each update through `received_callback`, which
evaluates the constraints, and then to the buffer that `request_updates` reads; the benchmarker
adds each to its accumulator. Three events flow to the workers: `requests_generated` (stop
fetching), `constraint_reached` (cancel what runs, sweep the rest) and `shutdown` (exit);
`error` ends everything. Between strategies the profile chooses what to run next, and at the
end the report is compiled from what the accumulators kept.

## 2. Modules

| Module | What it is |
|---|---|
| `WorkerGroupState` | the tracking record of the coordinator and the operators that update it: one status update (`Counted`), the constraints (`StopsQueuing`, `StopsProcessing`) |
| `WorkerGroup` | one run: generator, receiver, consumer, monitor, workers and their slots |
| `RequestLifecycle` | abstract specification: the life of a request, with neither threads nor messages |
| `WorkerGroupProofs` | types, counts, the exact `max_requests`, and `WorkerGroup` implements `RequestLifecycle` |
| `WorkerGroupDelivery` | who owns a request and what its stream of updates may still say; slots and shutdown; the order of the updates a consumer sees, and that none is missing |
| `ConversationGraph` | a conversation graph and what depends on its structure alone: Kahn's order, validation, subgraph, history, turn index |
| `DagExecution` | one graph on one worker: claims, completions in any order, think time, abort |
| `DagExecutionProofs` | parents first, exact counts, think time, aborts, topological order, histories and turn indices, for every graph |
| `GroupLifecycle` | one run from `Scheduler.run` to the end of its processes: creation, barrier, errors, kills, shutdown |
| `GroupLifecycleProofs` | slots add up, a common start, reports before the backend's end, failures in the outcome |
| `ArrivalSchedule` | when a request may start: the strategies and the loop of a worker that asks them |
| `ErrorLimits`, `SaturationWindows` | the constraints that keep state of their own: error windows and over-saturation |
| `GoodputSearch` | the goodput profile: score a probe, advance the bracket, stop |
| `StrategyProofs` | the goodput search with its bracket and evidence, the error limits, the loop that carries out a plan, when its requests start, and the over-saturation windows, for every range, tolerance, window, history, profile and strategy |
| `BenchmarkLoop` | merged configurations, the other profiles, the benchmarker and its trackers |
| `Messaging` | buffers, threads and transports between the coordinator and its workers, demand, `stop()` |
| `MessagingProofs` | nothing lost or doubled, replies in order, no fetch without demand, for every transport and number of workers, slots and messages |
| `MessageEncoding` | what becomes of a message that is encoded and decoded |
| `ToolConversation` | turns of synthetic, WEKA and column datasets, their graph, and the bodies sent for them |
| `TraceReplay` | prompts and times of replayed traces, epochs, and the loader that deals rows out |
| `BatchBackend` | the vLLM batch backend: pending list, flush, generate lock, shutdown |
| `ResponseStream` | one call of a backend: the events of its stream, timings, cancellation |
| `MockServing` | the mock server: limits, handlers, and what the client extracts |
| `BackendProofs` | batches in which nobody is forgotten, responses that hold what was sent, answers as configured, for every set of requests and every stream |
| `BenchmarkAccumulator` | warmup, cooldown, outcomes, samples and running sums of a benchmark |
| `MetricsProofs` | the accounts of a benchmark and its phases, for every plan and every order of updates |
| `MetricDistributions`, `MetricReport` | the distributions of a report over the finished requests |
| `MCWorkerGroup`, `MCDagExecution`, `MCStrategies`, `MCProcesses`, `MCMessaging`, `MCMessages`, `MCMetrics` | small instances for TLC |

`WorkerGroup` runs on graphs reduced to `GraphOf` and `Parents`, which suffices for counts and
events; `DagExecution` supplies what it leaves out: edge kinds, repeated edges, think time and
histories. `GroupLifecycle` is the frame around `WorkerGroup` (two bits of a worker: requests whose
end is to be reported, and calls an abort has overtaken),
`ArrivalSchedule` its "a target start comes", `Messaging` its queues, `BatchBackend` and
`ResponseStream` its "the backend answers". `BenchmarkLoop` and `GoodputSearch` see a whole run as
one step, the metrics see it as the updates it yields. The parts that `MCStrategies`,
`MCProcesses`, `MCMessages` and `MCMetrics` combine share no state: their `Idle` predicates hold
the others at rest, so a behaviour of such a module follows one part. They are combined
to be one question each ("what a benchmark runs", "what is said and how it travels"), and
a composed property is the conjunction of the named parts below.

### How WorkerGroup corresponds to the code

Requests are numbered in the order in which the generator creates them; `GraphOf` and
`Parents` give the conversations. `st` is `WorkerGroupState._state` with the three id sets
(the counters `queued_requests`, ... are their sizes). One action is one step between points
where another thread can act:

* *generator* (`genPc`): `GeneratorPulls` is `next(requests)`; `GeneratorQueues` is
  `update_state` for one node; `GeneratorBuffers` the `sync_put` of its update;
  `GeneratorSends` the blocking put on the pending queue; `GeneratorResumes` the code after
  the `yield`; `GeneratorExhausts` and `GeneratorStops` the end of the dataset.
* *receiver* (`cb`): `ReceiverCounts` is `update_state` under the lock and keeps the snapshot;
  `ReceiverChecks` reads and sets the events from that snapshot; `ReceiverBuffers` hands the
  update to the consumer. The three event checks are one step: each event has a single
  other writer and the order of the checks is the order of the conjuncts.
* *consumer*: `ConsumerYields`, or a timeout and then `ConsumerFinishes` or the poll
  (`ConsumerPolls`, `ConsumerSetsConstraint`, `ConsumerSetsStop`).
* *worker*: `mode` is the stage of `_process_requests`, `fetching` that of the receive
  thread, `holder` the worker a graph went to, `phase` and `status` what the worker has done
  with a request and the status it last published. `Publish` is `_send_update`: a status the
  request already has is not sent again. `EndsAndAborts` is a failure or cancellation with
  `_abort_remaining_nodes`, which also reports nodes that other slots are busy with.

Abstractions. Times become choices: a target start "comes", `max_duration` "elapses"
(`TimePasses`), a timeout can occur when the buffer is empty. Payloads, responses and
timings are left out. Node creation order stands for topological order; the nodes of an
aborted graph are cancelled in any order, because that of `graph.nodes` is the dataset's, or
that of a Python set in a subgraph. A free slot may
claim any ready node of its worker; in the code a slot that waits for a new graph does not
look again, but the slot that made the node ready does. Updates of one worker stay in order
(one send thread per worker, see `Messaging`); those of different workers interleave freely.
The monitor, the error event and the death of a worker are steps of their own; a dying worker
loses any suffix of its unsent updates.

### How DagExecution corresponds to the code

A graph is a record: `nodes` in insertion order, `edges` by their position in the edge list,
`delay` for `requeue_delay`; requests and responses are identified with their node. `phase`
encodes `_completed` and `_in_progress` (a failed node stays in progress) and also where the
task that holds the node stands: `Claim` is `_get_next_ready_node` (the first claimable node
in insertion order), `Ask` is `assemble_history` just before the backend call, `Complete` is
`mark_completed` and the removal from `turns_queue`, `Fail` is an error or cancellation with
`abort`, `CancelRemaining` the cancellation of a graph no task works on. Between these steps
the code awaits, and other tasks of the worker step in.

`Init` takes a valid graph of `Graphs` and the graph a worker receives for it (`Dispatched`):
the graph itself, or the subgraph of the nodes the generator had queued when it was stopped,
with its nodes in any order. `Tick` is the passing of time; beyond `MaxTime` it only ends a
think time, so that no wait is cut off by the bound. Recursion (the walk of the history, the
depth of a turn, Kahn's loop) is written with recursive functions.

### How GroupLifecycle corresponds to the code

`run` is where `Scheduler.run` stands, `worker` where each process stands. `LifecycleInit` is
`create_processes`: the sizing of processes and slots from the limits of strategy, backend and
settings (`ProcessCount`, `AsyncLimit`). `BackendStarts`, `StartupFails`, `ReachesBarrier` and
`LeavesBarrier` are the start of a process; `TakesRequest` and `EndsRequests` put requests in
flight, which are `busy` until their end has been reported. `Aborts` is `_abort_remaining_nodes`: it may report
the end of every request while calls go on in the backend (`overtaken`, until `OvertakenEnd`), so
`AllProcessed`, which goes by what the coordinator counts, does not wait for such a call.
`ConstraintSeen`, `Sweeps`, `StopSeen` and `Exits` the ways out, `Killed` a signal at any
point. `MonitorSees` is the health monitor, `StartRefused` and `Started` the two outcomes of
`start()`, which takes a broken barrier for a passed one and looks at the error event again;
`ShutdownBegins`, `MessagingStops`, `Terminates` and `Joined` are `shutdown()` with its time limits: the
stop of the messaging and that of the manager may each end, raise or time out, and their errors are
among the failures `sync_run_end` raises (`CleanupErrors`). What the stop of the messaging does to the
messages is in `Messaging`.

### How ArrivalSchedule corresponds to the code

Time is in ticks, a rate in requests per `Second` ticks. `Release` sets the start event with the
start time, `SetOffset` assigns the Poisson offset after it (two statements, in that order).
A process acquires a slot, takes its index and asks (`Asks`), waits for the event, is told its
target (`Told`, `TargetOf`: one branch per strategy with its rampup), and goes out when the
time has come (`Starts`, `Completes`). The slots of the processes are dealt evenly, as `create_processes`
does (`Deals`). The square root of the constant rampup is the integer
root: the model's times are rounded down, the order between them is kept.

### How the constraints correspond

`max_requests`, `min_requests`, `max_errors`, `max_duration` and exhaustion are part of
`WorkerGroupState`: stateless comparisons, evaluated at each update and poll. `ErrorLimits` has
those with a window or a rate of their own; `Terminal` is one terminal update, `counted` unless
the request had already ended. `SaturationWindows` has one `Call` per update or poll: add the
sample, drop by ratio and age, check the slopes. Divisions are avoided by cross-multiplying.

### How GoodputSearch and BenchmarkLoop correspond

`ProbeEnds` is one call of `next_strategy` after a benchmark: `_record_probe`, `_advance`, then
the budget. `ProbeUndetermined` is the `ValueError` when a probe has no scored request. 0
stands for `None`. A probe is a record of the level, the verdict, whether it resolved the
question and whether a constraint aborted it; all four combinations can follow any level, so
probes may contradict each other. The tolerance is a fraction, exact where the code divides
floats. `Conclusion` is the case split of `_log_result`.

`BenchmarkLoop` starts from a configuration, merges it (`Merge`), and then follows
`Benchmarker.run`: an announcement to all trackers (`Announce`, `CallbackDone`, gathered
concurrently, `Aborts` when one raised), `Propose` for `next_strategy`, `Started`, updates
(`Delivered`, `Updated`), `Compiled`, `Completed`, `Finalized`. The sweep's levels are the integer
points of `linspace`, scaled by `size - 2`.

### How Messaging and MessageEncoding correspond

An end is the coordinator or a worker; a thread is a pair of its end and its connection. The
sending thread takes from the iterable or its buffer, keeps the item while the transport has
no room, counts empty polls; the receiving thread looks at the demand first, polls, and
blocks in `sync_put`. `demand` and `waiting` are two counters because a slot withdraws its demand
only when it runs again. `StopBegins`, `StopEnds` and `StopTimesOut` are `stop()`; the buffers are
dropped at its end. A message is its number and its sender.

`MessageEncoding` encodes and decodes one object: an object has a shape, a size and items, a
byte is a digit of a base of eight with one delimiter among them, so that payloads of every
kind of length are short. The registry of types is assumed to know every model.

### How ToolConversation and TraceReplay correspond

`ToolConversation`: `Deserialize` makes turns of one row (synthetic, WEKA with subagents, or
columns), `Finalize` is the finalizer with the expansion of tool turns into a call and an
injection, `SendTurn` builds the body of a chat or Responses request from the history, and
`Respond` is any answer the body allows. Texts are identified with the node they belong to. A WEKA
conversation has subagents, these have none of their own.

`TraceReplay` reads a small trace `Epochs` times: `WritesPrompt` makes a prompt of the blocks of a
row (`Filled`: a hash id gets its tokens when it is first seen), `RowFails`, `Yields` the session
with its shifted, compressed and laned times, `EndsTrace`, `Restarts`. A block is its text and its
length. `Block` is `generate_token_ids`, whose first tokens are the special ones of the tokenizer, `Decoded` drops
them again, and `Prompt` is the row's decoded pieces and whether a space joins blocks and remainder; that
a server may tokenize the text differently where two blocks meet is left out.

The loader is `Generated`: it counts rows, takes those back that raise, keeps those of which nothing is
left in the count, and yields the rest. The outcome of a conversation (`good`, `empty`, `broken`) is part
of the trace. `Rejects` are the two `ValueError`s after the loop, `Precached` the list of samples made when
the loader is (a loader for all samples, -1, gets an empty one and reads the trace itself), and `Dealt` who
gets what among the data workers.

### How the backends and the mock server correspond

`BatchBackend` has one task per `resolve()`, the deferred flush and the shutdown, all on one event
loop: an action is what a task does between two awaits that really suspend. `lock` is the
line for `_generate_lock` in order of arrival. `CancelAll` is the worker cancelling its requests.

`ResponseStream` follows one call over HTTP, websocket or the in-process engine: `Receive(e)` is
one event with its timings and its accumulation in the handler, `Fail` and `Cancel` may come
between any two, `Finish` and the end marker are the ways the loop is left. `MockServing` has
`_run_generation` (admission by count, the semaphore, the delays), the handlers that write a
body or a script of events, and the usage the client extracts. A token limit of 0 is none
(`Unlimited`).

### How the measurement corresponds

`BenchmarkAccumulator` takes the updates of a few requests in any order between requests:
`Deliver` is `update_estimate` with the timings, the request groups, the reservoir of samples
and the running sums; `Polls` is an update of the state alone. The worker side only decides what
arrives: a slot `Claims` a request, `Begins` and `Sends` it, may report a `FirstToken`, and `Ends` it.
`Aborts` is a sibling's `_abort_remaining_nodes` that reports a request a slot has claimed, which goes on
and may report again, as often as `aborts` of the plan allows; `Drops` the cancellation of one that never
started, with its graph or at the end of the run. An update carries the timings of its publication:
`_send_update` copies the request info of all but the terminal statuses, and a "cancelled" one that
is still in the send buffer when its request goes on (`utils/messaging.py:674`) may show later times, which
is not modelled. `MetricDistributions` and
`MetricReport` define the report over a log of finished requests; each distribution is
written like the code (events merged within a threshold, changes of a level, weights) and
checked against its definition.

## 3. Runs

### The scheduler

These runs use `MCWorkerGroup`: two or three requests in at most two conversations, one worker
with one or two slots, or two workers, and a pending queue of one graph. These are
the smallest shapes with a blocked generator, a worker that idles, a conversation cut by a
limit, siblings on two slots, and two workers that compete. `limits` has three independent
turns, a limit of two requests and one slot, so both the limit and the slot can be exceeded.
Symmetry is used for the two workers in the safety-only run `exhaust`.
`OnlyAbortsOvertake` is the order of `scheduler/scheduler.py:97-98` ("three ordered updates") with its one
exception: an update out of its place follows a report by an abort of that request's graph. The order
without exception (`UpdatesInOrder`) is false with two slots and is proved for workers that work on
one request of a conversation at a time.

| Run | Question | Outcome |
|---|---|---|
| `exhaust` | two workers, the dataset runs dry: is shutdown premature, does an update stay behind? | holds |
| `branch` | a root with two branches, two slots, failures, `max_errors`: are the counts right? | holds |
| `refine` | siblings on two slots, failures, aborts and moved starts: does the record implement the life of a request, and does nothing but an abort break the order of its updates? | holds |
| `limits` | `max_requests` inside a conversation and `max_duration`, workers may sleep for ever: is the limit exact, is the slot respected, does time stop processing? | holds |
| `crash` | a worker dies or the dataset raises: is the caller released? Does the last report shut down? | holds |
| `hang` | "Triggers shutdown when stop conditions are met" | violated |

`hang`: the events that end a run are set only when an update arrives. If the last report is
handled before the generator registers that the dataset is exhausted, no callback is left to
set them. It needs only that the dataset iterator takes longer to end than the last
request, or that the dataset is empty.

### Conversation graphs

`dag` uses `MCDagExecution`. `Small` is every graph of three nodes with up to three edges of
any kind, in every creation order, repeated edges included, with think times 1, 0 and 2:
forks, joins, chains, and counts that a repeated edge raises twice. `Merges` is a chain of
full edges a, b, c with every two further edges within it or to and from a fourth node: the
smallest graphs in which a history has a chain, a merge in the middle of it and one at its
end. `MaxTime` is 1. In both families every truncation is an initial state. `ClaimsInOrder`,
`HistoriesAreKept`, `ThinkTimeRespected` and `GraphEnds` hold.

### Composed runs

| Run | Parts and bounds | Properties and what they are made of |
|---|---|---|
| `strategies` | search from 5 to the default ceiling of 1024 streams, 15 probes, tolerance 1/10 (it starts from 5 instead of the default 4 so that the ceiling cuts the last doubling short) | `SearchIsSound`; `BudgetSuffices`: the default budget is enough for the default range |
| | two trackers over all profiles, sweeps of size 2 to 4 with baseline rates 0, 1, 4, one update per strategy, one callback or estimate that raises | `PlanIsCarriedOut` = `PlanIsRun`, `SweepCoversTheRange`, `LimitsFollowBenchmarks`, `BenchmarksAreTheirOwn`; `TrackersTellTheRun` = `TrackersAgree`, `ConsoleShowsTheRun` |
| | every strategy with two processes and up to three slots, six ticks, four targets; rampups of four ticks | `LoadIsKept` = `EarlyOnlyByRace`, `ConstantRate`, `TargetsInOrder`, `RampupHolds`, `GoesOnAtOnce` |
| | error window of 3, two strategies of six updates with different limits | `ErrorStopsAreEarned` = `StopsForOwnErrors`, `RateIsEarned` |
| | saturation windows over four samples in five ticks, a maximum age of three | `SaturationIsReal` = `SumsAreTheWindows`, `WindowsAreRecent`, `StopsOnEvidence` |
| `processes` | limits of 0 to 3 for processes and slots, one kill at any point; calls that an abort has overtaken | `RunIsOrderly` = `SlotsAddUp`, `StartsTogether`, `RequestsComeFirst`, `FailureIsReported`; `EveryRunEnds` = `RunEnds`, `FailureEndsTheRun`, `StopsByItself` |
| | three requests in batches of two | `BatchesAreSound` = `NoneForgotten`, `EngineOutlivesBatches`, `TakenOnce`, `BatchBounded`; `ResultsStick`; `BatchCallsEnd` = `EveryCallEnds`, `ShutdownReturns` |
| | five kinds of endpoint, two tool calls, four events | `ResponseIsFaithful` = `OneResponse`, `TimingsOrdered`, `TokensCounted`, `NothingLost`; `EndMarkerEnds` |
| | loads of two or three calls that cover every handler, three configurations | `AnswersAsConfigured` = `FailsAfterTheFirst`, `ReportedIsGenerated`, `PromptIsCharged`; `EveryRequestIsServed` |
| `messages` | one row of each kind of dataset, with subagents, tool turns, and up to two tool calls per answer | `SeesConversation`; `TurnsFit` = `CallsAnsweredFirst`, `ToolsAndLengthFit`, `ForksAreJoined` |
| | one worker with one slot, two messages, a queue or pipe of one, one empty poll; five layers: queue with a thread that dies, with a slot that gives up, with stop events, pipes without and with an iterable | `MessagesArrive` = `NeitherLostNorDoubled`, `RepliesInOrder`, `FetchedOnDemand`; `NobodyIsForgotten` = `RestsWhenAnswered`, `StopWaitsForWedged` |
| | objects of up to two items with sizes 1, 2, 3 and 9 (a length that contains the delimiter) | `EncodingIsFaithful` = `DecodedIsTheObject`, `RefusedForAReason` |
| | traces of up to four rows in blocks of two tokens, read twice; tokenizers with and without a special token, a joining space that costs a token or none; conversations that raise or come to nothing, two samples, up to three data workers | `TraceIsReplayed` = `SpacingIsKept`, `NeverLater`, `IdleIsCapped`, `SessionsOverlap`, `PromptsFitRows`, `PrefixesAreShared`, `EpochsAgree`, `DealtOnce` |
| `metrics` | up to three requests under ten plans of warmup, cooldown, samples, streams, first tokens and up to two aborts of each request, two updates on their way | `AccountsAreRight` = `CountedByOutcome`, `SamplesKeepTheirData`, `WarmupIsServed`, `MeasurementSettles`; `PhaseOnlyAdvances` |
| | up to three of eleven kinds of finished requests, five windows, thresholds 0 to 2, quantiles 1, 25, 50, 90, 99; `Scale` 240 keeps the fractions whole | `DistributionsAreRight`: merging is a scan, mean rate is events over time, mean concurrency is busy time, tokens are conserved, percentiles split the requests, latencies nest, totals add up, goodput falls with tighter objectives |
| `pipe` | pipes without an iterable, two messages | `HearsTheWorkers`, "communication between scheduler workers and main process": violated |

All but `pipe` hold. `pipe`: each end of `InterProcessMessagingPipe` receives from the connection
whose other end it writes itself, so the coordinator gets its own messages back.

These bounds are the smallest in which the hazards happen: two requests for a batch and a third
left over; a message waiting behind a full queue of one; a second strategy whose error
window starts with samples of the first; a second epoch whose table and clock could
be those of the first. `CHECK_DEADLOCK FALSE` stands where a part really comes to
its end (a run that has ended, a call that has been answered, a trace that has been read).

Where the documented behaviour has exceptions the property names them, so that the run
shows there are no others: `SeesConversation` and `TurnsFit` have `Tangled` histories,
`EncodingIsFaithful` has `NotSendable` objects and lengths with a delimiter in them, `EarlyOnlyByRace`
the Poisson start, `CountedByOutcome` the aborted requests, `PromptsFitRows` what the tokenizer's
special tokens and the joining space cost, `DealtOnce` the failing rows among several data workers.

### Fairness

`FairSpec` of `WorkerGroup` assumes weak fairness of the generator, the receiver, the consumer,
the monitor and, for each worker, of the fetch, the cancellation, the sweep and the exit: each
is a thread or event loop that polls for ever, so a step that stays enabled is taken. Weak
fairness of `SlotProgress` assumes that a target start comes and that the backend answers.
Nothing is assumed of failures, crashes, optional updates or of the thread that notices an
empty queue. `CoordinatorFairSpec` drops every assumption on workers.

`FairSpec` of `DagExecution` assumes that time passes and weak fairness of the tasks as a whole
(`Advance`): a free slot looks again at each poll, a task gets on with its node, and the
backend answers or raises. `LifecycleFairness` assumes each process and the coordinator go on, and
that the monitor polls; not that anybody is killed. `BatchFairness` assumes the event
loop runs its ready tasks and `LLM.generate()` returns or raises. `StreamFairness` assumes only
that the client handles what has arrived; `ServingFairness` that the server's event loop goes
on with some request it can serve.

### Observations

Met while modelling, and not stated by a property of their own. Each was followed in the source
and, where a model shows it, with TLC.

Scheduler.
* The shutdown event is visible (`scheduler/worker_group.py:749`) before the update that set it
  is in the consumer's buffer, and `request_updates` leaves on a timeout with "Everything
  yielded, exit" (`:428`): the last update can be received and not yielded. This is why
  `EverythingReceived` says "received".
* The callback decides from a snapshot (`:731`): a request created after it is not in it. With
  `min_requests`, `max_errors` or `max_duration` the shutdown event can be set while the
  generator is still about to create a request, which is then stranded; with `max_requests` or
  no limit it cannot (`ShutdownIsEarned`).
* A worker's receive thread ends on counted empty polls (`utils/messaging.py:473`) and may leave
  a graph in the queue that was put after its last look.
* `_abort_remaining_nodes` (`scheduler/worker.py:581`) reports nodes that other slots are busy with:
  such a request is reported cancelled and then goes on, while `scheduler/scheduler.py:97-98` speaks
  of three ordered updates. The coordinator's counts survive this (`CountsAreConsistent`), nothing else
  breaks the order (`OnlyAbortsOvertake`), and the shutdown event may come while such a call is in the
  backend, where the end of the worker's loop cancels it.
* The history lists the last parents of a node after its whole chain of full edges
  (`scheduler/dag.py:251`), so it need not be chronological as `:236` says.
* `wait_for_sync_objects` takes a broken barrier for a passed one; `start()` survives it only
  because it looks at the error event again (`worker_group.py:281`).
* `scheduler.py:147` compares the result of `shutdown()` with `None`; it is always a list.
  `contextlib.suppress` at `worker.py:274` swallows a cancellation. `worker.py:625-630` publishes one
  object that is changed afterwards.
* The Poisson strategy sets the start event (`strategies.py:667`) before the offset is assigned
  (`:654`); a worker in between adds its delay to an unset offset. All workers seed their
  `Random` alike.

Messaging and encoding.
* Only without an iterable is the background sender of a pipe started (`utils/messaging.py:1084`);
  with one, the first message fills the slot and no other gets through. The last message in the
  slot is lost on `local_stop`.
* A receive thread that raises is not noticed before `stop()`. `queue_empty_count` is kept while
  items flow on the other direction. A slot that gives up while its thread polls makes the
  thread fetch once more than `tests/.../test_messaging.py:320` suggests, never more than the
  slots could take.
* `utils/encoding.py:724` ends the binary length of a piece at the first delimiter byte, which
  can be its own (lengths 124, 380, ...): such messages are refused. Keys with a comma and keys
  that are no text are changed (`:485`); the standard `json` fails on lists that mix models with
  plain values; models inside models' containers fail; tuples become lists; msgpack refuses
  integer keys.

Benchmarks.
* The goodput search that a constraint stops at its first probe, of several streams, is reported
  as not meeting the objectives "even at a single stream" (`benchmark/profiles/goodput.py:340`).
* A sweep whose throughput rate is below its synchronous one runs falling rates.
* An exception anywhere in `Benchmarker.run` loses the benchmarks already finished, and
  `on_finalize` is never called. `compile` is called with `scheduler_state` `None` when a strategy
  yields nothing.
* Merged limits are matched to benchmarks by position (`benchmark/entrypoints.py:419-460`), which
  `schemas/benchmark/entrypoints.py:429` allows to differ in length; kinds without a rate run one
  strategy whatever the number of configurations. The console may look up its task at index -1.
* `MaxErrorRateConstraint.create_constraint` copies shallowly, so a strategy starts with the samples
  of the one before; `ErrorStopsAreEarned` shows that none is left when the rate can stop it.
* `constraints/saturation.py:495`: without enough first tokens, concurrency alone decides.
* Accumulator: with a count-based warmup the start of the measurement is assigned by every update
  while the count is one more than the warmup, so the last of them decides (`MeasurementSettles`); a
  second terminal update of an aborted request is counted again under its outcome, and raises a
  `ValueError` in the scheduler metrics after these statistics are kept, which the benchmarker logs; a
  count-based cooldown is one request longer (`schemas/benchmark/transient.py:177-187`); what keeps
  its data is not a uniform sample. `sample_size` is "maximum number of requests to retain with full data"
  (`:592-597`), but a request the sampling passes over (`:718-732`) keeps its data too.
* Metrics: an inter-token latency or request latency of `None` counts as 0 with the weight of its
  tokens; `GenerativeMetricsSummary.total` pools the values of input and output though described
  as their sum.

Backends and data.
* Streams are not limited by `max_concurrent_requests` (`mock_server/server.py:147`), although
  `cli/mock_server.py:124-130` says so; `int(math.inf)` is reached without a limit and without stop
  (`mock_server/handlers/completions.py:146`, `:208`); a stream of zero tokens reads an unbound
  `index`; the prompt-token fallback counts media twice (`request_handlers.py:721`).
* The tool calls of an injection's answer are not replayed (`request_handlers.py` about 973 and
  1710), against `docs/guides/tool_calling.md:11`; an injection after a merged subagent takes
  its ids from the wrong entry; with server history a merge refers to the branch's last response
  (`docs/guides/multiturn.md:167`); the Responses handler drops the text beside tool calls.
* An exception inside the trace's generator ends the dataset silently, where the row is said to be
  "skipped" (`trace_weka.py:281`); a WEKA conversation without API requests is one (`:386-389`).
* The loader: with several data workers a failing row moves only its worker's count, so later rows are
  dealt twice or to nobody; when every row fails the check for zero results (`data/loaders/torch.py:126`)
  does not fire, while with fewer good conversations than data workers it fires in a worker that got none;
  each data worker is a process that reads the whole trace with the same seed and keeps its share.
* "Generated prompts match the prompt token count of the row" (`trace_mooncake.py:64`, `trace_weka.py:239`)
  holds for tokenizers that add no special tokens: `generate_token_ids` counts them (`trace_common.py:80-82`)
  and `decode_prompt` drops them (`:58`), once for each block; the space that joins blocks and remainder
  (`trace_weka.py:359`) may cost one. `PromptsFitRows` has these terms.
* `min_concurrent_sessions` starts a session at the end of the Nth before it, not when the first lane
  becomes free. N sessions overlap until one of the last N has ended (`SessionsOverlap`), but a lane can
  idle while sessions remain, although `docs/guides/trace_replay.md:57` and `trace_session_timing.py:24-25,118-119`
  say otherwise: N = 2, A in [0, 5], B in [0, 1], and C starts at 5. Sessions of one request (mooncake,
  minimal) end where they start, so all of them are put at the first start.
* `max_session_wait` stretches small gaps after a long one; a
  hash id first seen as a partial last block gives later prompts the wrong length.

## 4. Proofs

Every theorem holds for every value of the constants that satisfies the named assumption of its
module. All of them follow one plan: an invariant that is inductive, one lemma per group of
actions that keep it, and corollaries that read off the properties. The inductive invariants
were checked by TLC on the instances of section 3 before they were proved.

Where a proof needs induction over the naturals (lengths of plans and answers), it is done on
sets: a set of naturals with a member has a least one (`Least` and `Induction`, from the
well-foundedness of the naturals in the library), and the statement is that the set of
counterexamples is empty.

### The scheduler

`WorkerGroupProofs` proves `Spec => []IInv`, where `IInv` is `TypeOK`, the consistency of the
tracking record, and three facts about control: the generator has a node to create when it
is about to create one, it has created one when it buffers or sends, and the callback holds
an update while it works. `TypeOK` alone is not inductive: `Newest \in Request` when the
generator buffers needs that `created` lies between 1 and `NumRequests`. From `IInv` follow
`TypeCorrect` and `CountsAreConsistent` (together `TrackingStaysSound`), and
`MaxRequestsExact`: with `max_requests`, `created <= MaxRequests`, because while the generator may
still create a request the limit has not been reached (`BelowLimit`). The module also proves
`Spec => ImplementsLifecycle` under the mapping `LifeOf`, `OutcomesOf`: a request is "done" when it
has been created and no set holds it. Each step of the generator or the receiver creates,
advances or finishes one request or stutters; the key lemma is that a terminal update of a
request no set holds changes nothing.

`WorkerGroupDelivery` says who owns a request and what the updates under way may still say.

* `Ownership` (with `GraphsTogether`): what is queued for the workers and what is not yet
  sent has no holder, a conversation is sent and fetched whole, and the stream of a worker is
  about requests it holds. `GraphsReachOneWorker` states it.
* `EndsExactly`: with `max_requests` or no limit the shutdown event implies that nothing is
  tracked and the generator has ended. `ShutdownIsEarned`.
* `Lagging`: `CountedAt(w, k)` is what the coordinator counts as working at `w` once it has read
  the first `k` updates of the stream. When all is read these are requests the worker really has in flight
  (`CountedAreWorking`); since an update follows those it presupposes (`StreamFollowsPhases`),
  the bound holds at every `k` and so at 0, which is what the coordinator counts now.
  `SlotsStayRespected`.

The last part of `WorkerGroupDelivery` follows one request through the places its updates pass (stream, callback,
buffer, yielded): their ranks never step back (`InOrder`), from which `UpdatesStayInOrder`; and
what the coordinator counts as processed has its terminal update yielded, in the buffer or
in the callback (`ProcessedIsReported`), from which `EveryRequestIsReported`. Two hypotheses
are needed, and TLC finds a counterexample without either:

* `OneAtATime`: every worker has one slot, or no conversation branches (`InTurn` then says that
  at most one request of a graph is in flight). With two slots and a branch, a failing
  request cancels its sibling, which is still running and then publishes again.
* `Constraints \subseteq {"max_requests"}`, for `EveryRequestIsReported` as for `ShutdownIsEarned`:
  `max_errors`, `max_duration` and `min_requests` may set the shutdown event while requests are tracked.

The proofs assume only `StateAssumption` and `GroupAssumption`: the limits are positive, the
shape functions have the right types. They do not assume that graphs are acyclic
or contiguous, or that updates are truthful.

### Conversation graphs

`DagExecutionProofs` assumes `DagAssumption`: each graph is a record of the right shape. It does
not assume that a graph is acyclic. Its invariant `IInv` is `TypeOK`, `RemainingIsExact`,
`ParentsFirst` and four facts that make these and the action property inductive:

* `Past`: no completion time lies in the future;
* `ThinkTimeSet`: the gate of a node that waits for no parent is that of a parent that
  completed last;
* `QueuedIncomplete`: the queue does not hold a complete graph;
* `AbortedForGood`: an aborted graph has a node that failed or that nobody had claimed, and
  neither can ever complete. This is why `AbortedStaysIncomplete` holds although siblings
  still complete.

The step that matters is `Complete`: the count of a child drops by the number of edges from
the completed parent (`CountsDown`), which is the cardinality of the difference of two sets of
edges. `ClaimsStayInOrder`, `AbortedNeverCompletes` and `ThinkTimeIsRespected` follow.

`HistoriesStayKept` is about what `ConversationGraph` computes: the topological order, the
subgraph of a truncated send, the history and the turn index. The graph is that which was
dispatched (`GraphIsDispatched`), the rest follows from it and from `ParentsFirst`:

* Kahn's iterations keep `KahnInv`: a degree is the number of edges from nodes not ordered yet
  (`LeftShrinks`), a node joins the queue by the one edge that takes its degree to zero
  (`FreedIs`), so none is queued twice, and the order has every node after its parents;
* an order is complete exactly when the graph has a *ranking*, numbers that rise along every edge
  (`OrderRanks`, `RankOrders`: of the nodes left out one with the least rank would have been freed).
  A prefix of the order is closed under parents (`PrefixIsClosed`) and the ranking ranks the
  subgraph too, so what a worker receives is valid (`DispatchedKeeps`);
* the walk of a history and the depth of a turn index recur to nodes of lower rank. `FixedPoint`
  shows that such a function exists: a step that rests on lower ranks, repeated from any function,
  settles. `RankInduction` then gives what the walk lists: nothing outside a set closed under
  parents (`HistoryStaysWithin`), and exactly what the edges carry (`HistoryCarries`), for
  which a path along full edges is shorter than the rank of its end (`PathIsShort`).

### Strategies and limits

`StrategyProofs` proves of the goodput search, for all limits and every tolerance of at most
one, that the bracket summarises the evidence, that every probe is new and strictly inside it,
that a reported knee was measured (together `SearchStaysSound`) and that the budget is kept
(`StaysWithinBudget`). The key lemma is about `Advanced`: the next level lies strictly between
the bounds, because a bracket of one has converged. Beside the properties its `IInv` says that
no probe has been aborted and the budget is not spent while another is out (`Probing`), and
that "converged" implies a bracket within the tolerance (`ConvergedIsClose`).

`StopsAreEarned` is about the error limits (`ErrorSpec`, for every window, minimum and limit):
a strategy is stopped only by what it has done itself. The limit object is copied shallowly, so
the window may start with samples of the strategy before; the invariant `OwnSamples` says that
the newest samples of the window are those of this strategy, that they fill it before the
rate may stop it, and that its failed samples are among the errors it has counted or ignored.

`PlanStaysCarriedOut` and `TrackersStayTruthful` are about the loop around the strategies
(`LoopSpec`, under `LoopAssumption`, for every profile, list of levels, limits and measured rates).
`LoopInv` has seven parts:

* `LoopTyped`, and `Paced`: the benchmarks follow the strategies, and only the last strategy may
  still be without its benchmark;
* `OnPlan`: the strategies that ran are the first of the plan, the rates of a sweep being
  interpolated between what its two baselines measured; the plan is cut short only after a
  stop, or when the throughput baseline measured nothing;
* `WithinLimits` and `Accounted`: each strategy got the limit of its own position, and the current
  accumulator holds the updates of the strategy that runs;
* `HeardInStep`: the trackers whose callback has finished are one event ahead of the others, which
  makes all histories equal but for that event, also when a callback raises;
* `BoardShown`: the rows of the console are the planned strategies, and which of them are
  completed and active follows from the event and from whether the console has heard it.

The lemmas underneath are about the merge of several benchmarks into one plan: its levels are the
levels of all in order (`FlattenSeq`), and there is a limit for each.

`LoadStaysKept` is about when a request may start (`ScheduleSpec`, under `ScheduleAssumption`: finitely
many processes and strategies of the right types, of which a concurrent one has a stream). Beside the
types, `ScheduleInv` says:

* `SlotsKept`: a process holds the slots that were dealt to it, of which it uses as many as it has
  claims; `Numbered`: each index was handed out once, and its target is the one of the strategy
  (`OnTarget`). Of the constant rate, that its targets keep the rate is arithmetic on quotients and on
  the integer root, whose existence needs `Least`;
* `HeldBack`: an index that the rampup does not allow yet is held by a process that waits for it and
  so is not in flight. No two claims have one index (`ClaimsCounted`), so what is in flight lies among
  the indices that are due, and `RampupHolds` is a count;
* `Recent`: without a schedule of its own a target is the time at which it was asked for, whence
  `GoesOnAtOnce`. `EarlyOnlyByRace` and `TargetsInOrder` follow from `OnTarget`.

`SaturationStaysReal` is about the over-saturation limit (`SaturationSpec`, under
`SaturationAssumption`: the settings are natural numbers, and there is a critical value for each degree
of freedom). To the three parts of the property `SaturationInv` adds `SaturationTyped`: the samples of a
window are in order of time, none is later than the present `duration`, and no more first tokens were
counted than requests started. The argument has three steps:

* a sum over a window, which the model takes by a recursive function, is the last of its partial sums
  (`TotalIs`). That the function exists is `Recursion`, by induction on a set of natural numbers;
* the sums of a window are those of what is dropped and those of the rest (`SumsSplit`), which is what
  removing samples one by one leaves (`WithoutIs`); how many are dropped is `DroppedIs`, the count of
  what exceeds the ratio or of the old samples, whichever is larger, since old samples are at the front;
* n times the sum of the products less the product of the sums, whose sign `check_slope` tests, is the
  rise over all pairs of samples (`SlopeIsRise`), so that a stop has the evidence `StopsOnEvidence` asks.

### Processes

`GroupLifecycleProofs`: `RunStaysOrderly` for every number of processes, limit of strategy, backend
and settings, and set of kills. `LifecycleInv` says that the slots are those `create_processes`
dealt out (`Dealt`, whose shares add up to the concurrency), what state the barrier is in while
the coordinator waits (`BarrierHolds`), that a failure that is over is in the outcome
(`OutcomeIsKnown`), and that requests that are still to be reported are at a worker with its backend up
(`BusyIsServed`). The last needs that on a run that goes well the shutdown event is set when nothing is left
to report, which is the guard of `received_callback`; it says nothing of calls that an abort has overtaken.

### Backends and the mock server

`BackendProofs` has three parts.

`BatchesStaySound` and `ResultsNeverChange` hold for every set of requests and batch size.
`BatchInv` orders the line at the generate lock (`LineIsOrdered`: those before a task are all in
it), says whose each batch is (`BatchesAreOwned`), that a flush is on its way while requests are
pending (`PendingIsFlushed`) and that the shutdown comes last to the engine (`EngineIsThere`).

`ResponsesStayFaithful` holds for every endpoint, every sequence of events and every point at which
it may end, fail or be cancelled. In `StreamInv` the handler holds what was sent at every moment, not
only in a response (`HandlerKeepsUp`); the stamps of iterations, tokens and outputs enclose one
another (`StampsFollow`) and the end comes last, but for a transcription without deltas, whose
only token is stamped after it (`EndIsLast`); a token stamp means a counted token
(`TokensMatch`); and what was yielded is the announcement of the first token and then one response
(`YieldsMatch`). `ReadsWhatStreams` says who reads events at all.

`ServerAnswersAsConfigured` holds for every load of requests that the endpoints can answer
(`Answerable`), every limit and every configuration of the server. Its invariant says of the
admission that who got past the count has been counted (`AdmittedAreCounted`), and of each call
(`CallIsSound`) that what the client has received and what the server has still to write make up the
answer. What remains is to know the answer: where in it the tokens, the usage and the end stand
(`HasBody`), which fixes what the client extracts.

### Accounts of a benchmark

`MetricsProofs`: `AccountsStayRight` and `PhasesOnlyAdvance` for every plan (any number of requests
and streams, sample size, warmup and cooldown by count, time or both) and every order in which
updates arrive. `AccountsStayRight` is the conjunction of `CountedByOutcome`,
`SamplesKeepTheirData` and `WarmupIsServed` with the types, and of the action property
`MeasurementSettles`; `PhasesOnlyAdvance` is an action property too.

* `Story(w, C, K, g)` is the heart of it. For a request, `w` is where its worker stands, `C` the
  statuses on their way, `K` the outcomes under which it has entries and `g` how the coordinator
  has it. For one that no abort has touched, what is on its way and what is kept are disjoint and make up
  one outcome; the coordinator has it queued exactly as long as "in_progress" is on its way; one that
  never started leaves no entry. Of an aborted one, which may be reported cancelled any number of
  times, only the completions and errors are followed (`EndedOnce`). It needs `SoundInbox`:
  in_progress comes first, each status once.
* `EntriesDiffer`, `EntriesAreListed` and `MadeIsCurrent` turn the stories into counts: the completions
  and errors are of different requests, as many as have them in their story, and
  `requests_made` counts those the coordinator finalized so. The other entries of an outcome are those of
  aborted requests.
* `WarmupIsServed` goes with the count of processed requests, which each update raises by one at most
  (`DeliveryProcesses`) and only an update can raise to the warmup's count: the measurement then starts at the
  `started` of that update (`DeliveryMeasures`).
* `PhaseInv` says that the start of the requests is that of the coordinator, and that the limits that
  are durations stay as they are set. The status then only advances, because the start moves back
  and the last update forward. With a limit that is a count this fails (see the observations), and
  the property does not claim it.

### Messaging

`MessagingProofs` proves `MessagesStayWhole`: `MessagesArrive` for every transport, number of
workers, slots, messages, capacity and empty polls, with deaths of threads, stop events and slots
that give up. It assumes `MessagingAssumption` only: finitely many workers, positive limits. The
invariant is `Whole`, whose parts need each other:

* `Typed` and `ThreadsFit`: a thread the transport does not use, and one that has ended or died,
  holds nothing.
* `Settled`: a worker's `stop()` begins when no slot serves or waits, and its sender is over
  when the worker has stopped. So no reply is put after one that was dropped with the buffers.
* `FetchFits`: what a worker's thread holds and its buffer together fit its slots, also between
  the look at the demand and the message, when slots withdraw (`Fetching`).
* `Delivery`: each message is in one place at most (`Once`), what is somewhere was sent and not
  answered, or is an answer that was put (`AllKnown`), by an end that can reach that
  place (`KindsFit`), and while nobody stops nothing is missing (`Complete`). `Once` alone is not
  inductive: a new message must be known to be nowhere yet.
* `Orderly`: a reply passes six places on its way (`TheRoute`), and those put before it are
  further along. This holds while the coordinator is open and no thread has died;
  afterwards buffers are dropped and it no longer does, but what has arrived stays (`OrderKept`).

Every step is of one of five kinds (`NextMoves`): nothing moves, the first message of one place
goes to the end of another, one sets off, a message is answered by its reply, or places are
emptied. The proof takes the kinds one by one instead of the twenty actions. Over pipes the part about the order
says little: the coordinator reads back its own messages (the run `pipe`), so no
reply reaches it; what is proved of pipes is that nothing is doubled or lost on its way.

### Only model-checked

* Liveness, and what rests on ENABLED (`StopsByItself`, and `NobodyIsForgotten` with its parts
  `RestsWhenAnswered` and `StopWaitsForWedged`): out of the prover's reach.
* `EncodingIsFaithful`: the encoder is a recursion over its value, written with RECURSIVE operators,
  which leave the prover without its arithmetic.
* What the recursive functions of the other modules compute for every input: `SeesConversation`,
  `TurnsFit`, the prompts, times and shares of a trace (`TraceIsReplayed`) and the distributions
  of a report (`DistributionsAreRight`). The library's theorems that unfold such a definition take
  an operator as a parameter, which no installed prover instantiates; `Recursion` and `FixedPoint`
  show the way around it, with the function as a value, and are carried through for the sums of
  the saturation windows and for the topological order, histories and turn indices of a graph.
* `BudgetSuffices` is about the default values of the search; it is an enumeration. `WithinBudget`
  is only proved: with the default values no search reaches its budget.

### Not modelled, and why

* Outputs, the command line, schemas, logging and console rendering: formatting and argument
  parsing without state; the checks would repeat the code.
* Of the data pipeline, file formats, sampling, synthetic text and column mapping: sequential
  transformations that tests reach. Of the OpenAI backends, the audio endpoints, connection
  settings and validation; of the vLLM backend, the translation of prompts to the engine's
  format; of the mock server, its tokenizer and audio endpoints, which keep no state.
* Of the synchronization helpers, the variants for condition variables, which the scheduler does
  not use.
* Of the metrics, the scores and the audio, video and image figures, which repeat the modelled
  distributions over other fields.
* Wall-clock time. Where only the order matters it is a choice; where durations matter
  (`ArrivalSchedule`, `DagExecution`, `SaturationWindows`, the metrics) it is a small integer.

## 5. Plan

Modelling follows section 1; every component with control of its own has a module. What is
left is proof.

1. Scheduler, graphs, search, error limits, processes, batches and messaging - done.
2. Streams of a backend, the mock server, the loop over the strategies, when its requests start,
   the accounts and phases of a benchmark - done.
3. The sums of the over-saturation windows; the order, histories and turn indices of a graph - done.
4. Left: the properties over recursive functions named above, by the way of `Recursion` and
   `FixedPoint`.
