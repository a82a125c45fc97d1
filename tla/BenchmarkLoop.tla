---------------------------- MODULE BenchmarkLoop ----------------------------
(***************************************************************************)
(* The outer loop of a run: entrypoints.py merges the configured           *)
(* benchmarks, the profile (benchmark/profiles) proposes one strategy after *)
(* the other, Benchmarker.run (benchmarker.py) executes each, feeds an     *)
(* accumulator, keeps the progress trackers informed and hands the         *)
(* benchmarks to the report.  The trackers' callbacks of one event run     *)
(* concurrently.  The goodput profile has a module of its own.             *)
(***************************************************************************)
EXTENDS Integers, Sequences, SequencesExt, FiniteSetsExt

CONSTANTS
  Configs,       \* the configurations: [kind, benchmarks, size], see Config below
  Rates,         \* request rates a baseline benchmark may measure
  MaxUpdates,    \* bound: updates the scheduler yields per strategy
  MaxFaults      \* bound: callbacks and estimates that raise

\* A sub-benchmark has its levels (streams or rate) and its request limits (count).
Config(kind, benchmarks, size) == [kind |-> kind, benchmarks |-> benchmarks, size |-> size]
Sub(levels, counts) == [levels |-> levels, counts |-> counts]

Console == "console"
Trackers == {Console, "log"}

ProfileKinds == {"synchronous", "throughput", "trace", "concurrent", "constant", "sweep"}

\* sweep_size is at least 2, levels and limits are positive, a measured rate is a mean of
\* counts over time.
LoopAssumption ==
  /\ Configs \subseteq [kind : ProfileKinds,
                       benchmarks : Seq([levels : Seq(Nat \ {0}), counts : Seq(Nat \ {0})]),
                       size : Nat]
  /\ \A c \in Configs : c.kind = "sweep" => c.size >= 2
  /\ Rates \subseteq Nat /\ MaxUpdates \in Nat /\ MaxFaults \in Nat
ASSUME LoopConstants == LoopAssumption

VARIABLES
  config,        \* the configuration of this run
  merged,        \* what resolve_to_single_benchmark made of it
  step,          \* where run() is: an event being announced, "running", or the end
  waiting,       \* trackers whose callback of the current event has not finished
  raised,        \* a callback of the current event raised
  strategies,    \* strategies started, the last one may be running
  limitIndex,    \* current_index of the request limit
  limits,        \* the limit each strategy ran with
  rising,        \* measured_rates of a sweep
  counted,       \* updates in the current accumulator
  offered,       \* updates the scheduler has yielded for this strategy
  lost,          \* of these, the ones whose estimate raised before it counted
  report,        \* the benchmarks handed out so far
  returned,      \* the report benchmark_generative_text returns, or <<>>
  tasks,         \* the console's task list
  heard,         \* per tracker, the events whose callback it has finished
  faults         \* callbacks and estimates that have raised (bounded)

loopVars == <<config, merged, step, waiting, raised, strategies, limitIndex, limits, rising,
              counted, offered, lost, report, returned, tasks, heard, faults>>

Events == {"initialize", "start", "update", "complete", "finalize"}
NoStrategy == [type |-> "none", level |-> 0]

(***************************************************************************)
(* resolve_to_single_benchmark: one benchmark stays as it is, several have  *)
(* their levels and their limits joined end to end.                         *)
(***************************************************************************)
HasLevels(kind) == kind \in {"concurrent", "constant"}
Joined(seqs) == FlattenSeq(seqs)

\* Mutant: the limits of the first benchmark are kept instead of joined.
MergeFirst(c) ==
  [levels |-> Joined([i \in DOMAIN c.benchmarks |-> c.benchmarks[i].levels]),
   counts |-> c.benchmarks[1].counts]
Merge(c) ==
  [levels |-> IF HasLevels(c.kind) THEN Joined([i \in DOMAIN c.benchmarks |-> c.benchmarks[i].levels])
              ELSE <<>>,
   counts |-> Joined([i \in DOMAIN c.benchmarks |-> c.benchmarks[i].counts])]

\* strategy_types: what the console expects to run.
Expected(c, m) ==
  CASE c.kind = "sweep" -> <<"synchronous", "throughput">> \o [i \in 1 .. c.size - 2 |-> "constant"]
    [] HasLevels(c.kind) -> [i \in DOMAIN m.levels |-> c.kind]
    [] OTHER -> <<c.kind>>

(***************************************************************************)
(* next_strategy of the profiles, after the benchmarks in done.            *)
(***************************************************************************)
Halted(done) == done # <<>> /\ Last(done).stopped

OnceNext(c, done) == IF done = <<>> THEN [type |-> c.kind, level |-> 0] ELSE NoStrategy

\* Mutant: a benchmark stopped for all of them does not end the escalation.
ListNextAnyway(c, m, done) ==
  IF Len(done) >= Len(m.levels) THEN NoStrategy
  ELSE [type |-> c.kind, level |-> m.levels[Len(done) + 1]]
ListNext(c, m, done) ==
  IF Len(done) >= Len(m.levels) \/ Halted(done) THEN NoStrategy
  ELSE [type |-> c.kind, level |-> m.levels[Len(done) + 1]]

\* np.linspace(synchronous, throughput, size - 1)[1:], in units of 1 / (size - 2); a
\* sweep of two has the single point "synchronous", which is dropped.
\* Mutant: the spacing is that of size points.
LinspaceWide(s, t, size) == [j \in 1 .. size - 2 |-> s * (size - 1) + j * (t - s)]
Linspace(s, t, size) == [j \in 1 .. size - 2 |-> s * (size - 2) + j * (t - s)]

Measured(c, done) ==
  IF c.kind = "sweep" /\ Len(done) = 2 THEN Linspace(done[1].rate, done[2].rate, c.size)
  ELSE rising

Invalid(c, done) == c.kind = "sweep" /\ Len(done) = 2 /\ done[1].rate <= 0 /\ done[2].rate <= 0

SweepNext(done, rates) ==
  CASE done = <<>> -> [type |-> "synchronous", level |-> 0]
    [] Len(done) = 1 -> [type |-> "throughput", level |-> 0]
    [] OTHER ->
         LET next == Len(done) - 1 IN
         IF (Len(done) > 2 /\ Halted(done)) \/ next > Len(rates) THEN NoStrategy
         ELSE IF rates[next] <= 0 THEN NoStrategy
         ELSE [type |-> "constant", level |-> rates[next]]

NextStrategy(c, m, done, rates) ==
  CASE c.kind = "sweep" -> SweepNext(done, rates)
    [] HasLevels(c.kind) -> ListNext(c, m, done)
    [] OTHER -> OnceNext(c, done)

\* MaxNumberConstraint with a list of counts: the index grows with every strategy.
LimitAt(m, index) == m.counts[IF index < Len(m.counts) THEN index + 1 ELSE Len(m.counts)]

(***************************************************************************)
(* _GenerativeProgressTasks                                                *)
(***************************************************************************)
Task(type) == [type |-> type, status |-> "pending"]

\* Mutant: the new task is added although one is waiting.
StartTaskAppends(list, n, s) == Append(list, [type |-> s.type, status |-> "active"])
StartTask(list, n, s) ==
  LET room == IF n > Len(list) THEN Append(list, Task(s.type)) ELSE list
  IN  [room EXCEPT ![n].status = "active"]

Shown(event) ==
  CASE event = "initialize" -> [i \in DOMAIN Expected(config, merged) |->
                                  Task(Expected(config, merged)[i])]
    [] event = "start" -> StartTask(tasks, Len(strategies), Last(strategies))
    [] event = "complete" -> [tasks EXCEPT ![Len(strategies)].status = "completed"]
    [] OTHER -> tasks

(***************************************************************************)
(* One event: the callbacks run concurrently, each may raise, and all are  *)
(* finished before the first failure is raised (_notify_progress).         *)
(***************************************************************************)
Announce(event) == step' = event /\ waiting' = Trackers /\ raised' = FALSE

CallbackDone(t) ==
  /\ t \in waiting
  /\ waiting' = waiting \ {t}
  /\ heard' = [heard EXCEPT ![t] = Append(@, <<step, Len(strategies)>>)]
  /\ tasks' = IF t = Console THEN Shown(step) ELSE tasks
  /\ \/ UNCHANGED <<raised, faults>>
     \/ faults < MaxFaults /\ faults' = faults + 1 /\ raised' = TRUE
  /\ UNCHANGED <<config, merged, step, strategies, limitIndex, limits, rising, counted, offered,
                 lost, report, returned>>

\* Mutant: the first failure is raised while other callbacks still run.
SettledAtOnce == waiting = {} \/ raised
Settled == waiting = {}

\* A failure in any event but an update ends run(); the report goes with it.
Aborts ==
  /\ step \in Events \ {"update"} /\ Settled /\ raised
  /\ step' = "failed"
  /\ UNCHANGED <<config, merged, waiting, raised, strategies, limitIndex, limits, rising, counted,
                 offered, lost, report, returned, tasks, heard, faults>>

\* The generator proposes the next strategy (its limits are created with it), or ends.
\* Mutant: the limits are created twice for one strategy.
IndexAfterTwice(index) == index + 2
IndexAfter(index) == index + 1

Propose(done) ==
  LET rates == Measured(config, done)
      strategy == NextStrategy(config, merged, done, rates)
  IN  /\ rising' = rates
      /\ IF Invalid(config, done)
         THEN step' = "failed" /\ UNCHANGED <<waiting, raised, strategies, limitIndex, limits>>
         ELSE IF strategy = NoStrategy
         THEN Announce("finalize") /\ UNCHANGED <<strategies, limitIndex, limits>>
         ELSE /\ Announce("start")
              /\ strategies' = Append(strategies, strategy)
              /\ limitIndex' = IndexAfter(limitIndex)
              /\ limits' = Append(limits, LimitAt(merged, limitIndex'))

Initialized ==
  /\ step = "initialize" /\ Settled /\ ~raised
  /\ Propose(<<>>)
  /\ UNCHANGED <<config, merged, counted, offered, lost, report, returned, tasks, heard, faults>>

\* Mutant: the accumulator of the previous strategy is used on.
FreshAccumulatorKept(old) == old
FreshAccumulator(old) == {}

Started ==
  /\ step = "start" /\ Settled /\ ~raised
  /\ step' = "running"
  /\ counted' = FreshAccumulator(counted)
  /\ offered' = 0 /\ lost' = {}
  /\ UNCHANGED <<config, merged, waiting, raised, strategies, limitIndex, limits, rising, report,
                 returned, tasks, heard, faults>>

\* update_estimate, then the trackers; what it raises is logged and the trackers skipped.
Delivered ==
  /\ step = "running" /\ offered < MaxUpdates
  /\ offered' = offered + 1
  /\ LET update == <<Len(strategies), offered'>> IN
     \/ /\ counted' = counted \cup {update}
        /\ Announce("update")
        /\ UNCHANGED <<lost, faults>>
     \/ /\ faults < MaxFaults /\ faults' = faults + 1
        /\ lost' = lost \cup {update}
        /\ UNCHANGED <<counted, step, waiting, raised>>
  /\ UNCHANGED <<config, merged, strategies, limitIndex, limits, rising, report, returned, tasks,
                 heard>>

Updated ==
  /\ step = "update" /\ Settled
  /\ step' = "running" /\ raised' = FALSE
  /\ UNCHANGED <<config, merged, waiting, strategies, limitIndex, limits, rising, counted, offered,
                 lost, report, returned, tasks, heard, faults>>

\* The scheduler's iterator ends: the benchmark is compiled and announced.  Without an
\* update there is no scheduler state to compile from.
Compiled(rate, stopped) ==
  /\ step = "running" /\ offered > 0
  /\ report' = Append(report, [rate |-> rate, stopped |-> stopped, counted |-> counted,
                               missed |-> lost, offered |-> offered])
  /\ Announce("complete")
  /\ UNCHANGED <<config, merged, strategies, limitIndex, limits, rising, counted, offered, lost,
                 returned, tasks, heard, faults>>

\* The run raises (a worker died, no update came).
RunRaises ==
  /\ step = "running"
  /\ step' = "failed"
  /\ UNCHANGED <<config, merged, waiting, raised, strategies, limitIndex, limits, rising, counted,
                 offered, lost, report, returned, tasks, heard, faults>>

\* The benchmark is yielded and the generator resumed with it.
Completed ==
  /\ step = "complete" /\ Settled /\ ~raised
  /\ Propose(report)
  /\ UNCHANGED <<config, merged, counted, offered, lost, report, returned, tasks, heard, faults>>

Finalized ==
  /\ step = "finalize" /\ Settled /\ ~raised
  /\ step' = "finished"
  /\ returned' = report
  /\ UNCHANGED <<config, merged, waiting, raised, strategies, limitIndex, limits, rising, counted,
                 offered, lost, report, tasks, heard, faults>>

LoopOver == step \in {"finished", "failed"} /\ UNCHANGED loopVars

LoopInit ==
  /\ config \in Configs /\ merged = Merge(config)
  /\ step = "initialize" /\ waiting = Trackers /\ raised = FALSE
  /\ strategies = <<>> /\ limitIndex = -1 /\ limits = <<>> /\ rising = <<>>
  /\ counted = {} /\ offered = 0 /\ lost = {} /\ report = <<>> /\ returned = <<>>
  /\ tasks = <<>> /\ heard = [t \in Trackers |-> <<>>] /\ faults = 0

LoopNext ==
  \/ \E t \in Trackers : CallbackDone(t)
  \/ Aborts \/ Initialized \/ Started \/ Delivered \/ Updated
  \/ \E rate \in Rates, stopped \in BOOLEAN : Compiled(rate, stopped)
  \/ RunRaises \/ Completed \/ Finalized \/ LoopOver

-----------------------------------------------------------------------------
LoopTypeOK ==
  /\ config \in Configs
  /\ step \in Events \cup {"running", "finished", "failed"}
  /\ waiting \subseteq Trackers /\ raised \in BOOLEAN
  /\ limitIndex \in -1 .. Len(strategies) - 1 /\ offered \in 0 .. MaxUpdates /\ faults \in 0 .. MaxFaults
  /\ Len(limits) = Len(strategies)
  /\ \A i \in DOMAIN tasks : tasks[i].status \in {"pending", "active", "completed"}

\* Only the two baselines of a sweep may be followed by more after a stop.
Baseline(i) == config.kind = "sweep" /\ i <= 2

\* The profile runs its plan: no strategy follows one that a constraint stopped for all of
\* them (but the baselines of a sweep), a run that ends without such a stop has run every
\* level of the configuration in order, and every strategy that ran to its end has its
\* benchmark in the report.
PlanIsRun ==
  /\ \A i \in 1 .. Len(strategies) - 1 : Baseline(i) \/ ~report[i].stopped
  /\ HasLevels(config.kind) =>
       /\ \A i \in DOMAIN strategies : strategies[i].level = merged.levels[i]
       /\ step = "finished" /\ ~Halted(report) => Len(strategies) = Len(merged.levels)
  /\ step = "finished" => Len(returned) = Len(strategies)

\* A sweep's rates are evenly spaced: from what the synchronous benchmark measured, the
\* first step as long as the others, up to exactly what the throughput benchmark measured;
\* all of them are run unless one is stopped or is not positive.
SweepCoversTheRange ==
  config.kind = "sweep" /\ Len(report) >= 2 /\ config.size > 2 =>
    LET unit == config.size - 2
        points == <<report[1].rate * unit>> \o [i \in 1 .. Len(strategies) - 2 |->
                                                  strategies[i + 2].level]
    IN  /\ Len(strategies) <= config.size
        /\ \A i \in 2 .. Len(points) : (points[i] - points[i - 1]) * unit
                                         = (report[2].rate - report[1].rate) * unit
        /\ step = "finished" /\ ~Halted(report) =>
             \/ Len(strategies) = config.size /\ Last(points) = report[2].rate * unit
             \/ report[2].rate <= 0

\* Each strategy of benchmarks configured with one level each runs with the request limit
\* of its own benchmark.
LimitsFollowBenchmarks ==
  (\A i \in DOMAIN config.benchmarks : Len(config.benchmarks[i].levels) = 1
                                       /\ Len(config.benchmarks[i].counts) = 1) =>
    \A i \in DOMAIN strategies :
      i <= Len(config.benchmarks) => limits[i] = config.benchmarks[i].counts[1]

\* A benchmark is made of its own updates: every update its strategy yielded was counted in
\* it, but those whose estimate raised, and none of another strategy; a tracker that fails
\* in an update costs no data.
BenchmarksAreTheirOwn ==
  \A i \in DOMAIN report :
    /\ report[i].counted \cup report[i].missed = {i} \X (1 .. report[i].offered)
    /\ report[i].counted \cap report[i].missed = {}

\* The trackers hear the same events in the same order: none is told of an event before
\* all have dealt with the one before, none misses one because another failed, and a run
\* that ends, however it ends, leaves no callback behind.
TrackersAgree ==
  /\ \A s, t \in Trackers : IsPrefix(heard[s], heard[t]) \/ IsPrefix(heard[t], heard[s])
  /\ \A s, t \in Trackers : Len(heard[s]) <= Len(heard[t]) + 1
  /\ step \in {"running", "finished", "failed"} => \A s, t \in Trackers : heard[s] = heard[t]

\* The console shows the run: the task of the strategy that runs is the active one and has
\* its type, the ones before are completed, the ones after wait, and the list was never
\* too short for the plan.
ConsoleShowsTheRun ==
  step = "running" =>
    LET n == Len(strategies) IN
    /\ Len(tasks) = Len(Expected(config, merged))
    /\ \A i \in DOMAIN tasks :
         tasks[i].status = (IF i < n THEN "completed" ELSE IF i = n THEN "active" ELSE "pending")
    /\ \A i \in 1 .. n : tasks[i].type = strategies[i].type

\* What was configured is what is run and reported: every strategy of the plan, once, with
\* its own limits and its own accumulator.
PlanIsCarriedOut ==
  LoopTypeOK /\ PlanIsRun /\ SweepCoversTheRange /\ LimitsFollowBenchmarks /\ BenchmarksAreTheirOwn

\* Everyone who is told about the run is told the same, in its order, even when one of the
\* trackers raises, and the console's rows are the strategies.
TrackersTellTheRun == TrackersAgree /\ ConsoleShowsTheRun
=============================================================================
