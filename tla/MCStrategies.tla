---------------------------- MODULE MCStrategies ----------------------------
(***************************************************************************)
(* What a benchmark runs: the loop over a profile's strategies, the goodput *)
(* search, the start times of a strategy, the error limits and the          *)
(* over-saturation windows.  The five share no state: a behaviour runs one  *)
(* of them and leaves the others at rest.                                   *)
(***************************************************************************)
EXTENDS BenchmarkLoop, GoodputSearch, ArrivalSchedule, ErrorLimits, SaturationWindows

MCConfigs ==
  {Config("sweep", <<Sub(<<>>, <<5>>)>>, n) : n \in 2 .. 4}
    \cup {Config(k, <<Sub(<<>>, <<5>>)>>, 0) : k \in {"synchronous", "throughput", "trace"}}
    \cup {Config(k, <<Sub(<<1, 2>>, <<5, 7>>)>>, 0) : k \in {"concurrent", "constant"}}
    \cup {Config("concurrent", <<Sub(<<1>>, <<5>>), Sub(<<2>>, <<6>>), Sub(<<3>>, <<7>>)>>, 0)}

Strategy(type, streams, rate, rampup, scale) ==
  [type |-> type, streams |-> streams, rate |-> rate, rampup |-> rampup, scale |-> scale]

MCStrategySet ==
  {Strategy("synchronous", 1, 1, 0, 1), Strategy("trace", 0, 1, 0, 2), Strategy("poisson", 0, 1, 0, 1),
   Strategy("throughput", 0, 1, 0, 1), Strategy("throughput", 3, 1, 4, 1)}
    \cup {Strategy("concurrent", 2, 1, 0, 1), Strategy("concurrent", 3, 1, 4, 1)}
    \cup {Strategy("constant", 2, q, r, 1) : q \in {1, 3}, r \in {0, 4}}

MCRatePercents == <<50, 100>>
MCMaxErrors == <<1, 3>>
MCConfidence == [d \in 1 .. MaxDuration |-> IF d = 1 THEN 160 ELSE 40]

\* States in which a part has nothing to do.
SearchIdle ==
  /\ stage = "ended" /\ next = None /\ best = None /\ worst = None
  /\ probes = {} /\ reason = "none" /\ completed = 0
LoopIdle ==
  /\ config = Config("trace", <<Sub(<<>>, <<5>>)>>, 0)
  /\ merged = Merge(config)
  /\ step = "failed" /\ waiting = {} /\ raised = FALSE
  /\ strategies = <<>> /\ limitIndex = -1 /\ limits = <<>> /\ rising = <<>>
  /\ counted = {} /\ offered = 0 /\ lost = {} /\ report = <<>> /\ returned = <<>>
  /\ tasks = <<>> /\ heard = [t \in Trackers |-> <<>>] /\ faults = 0
ScheduleIdle ==
  /\ strategy = Strategy("trace", 0, 1, 0, 2) /\ slots = [p \in Processes |-> 0]
  /\ released = TRUE /\ index = 0 /\ offset = Unset /\ now = MaxTime /\ issued = 0
  /\ loop = [p \in Processes |-> "acquiring"] /\ running = [p \in Processes |-> <<>>]
  /\ mine = slots /\ target = slots /\ asked = slots
  /\ ready = [p \in Processes |-> TRUE] /\ last = [p \in Processes |-> Unset]
ErrorIdle ==
  /\ ordinal = MaxStrategies /\ window = <<>> /\ processed = 0 /\ errored = 0
  /\ ignored = MaxProcessed /\ stopping = {}
SaturationIdle ==
  /\ duration = MaxDuration /\ startedEver = MaxSamples /\ finishedEver = MaxSamples
  /\ started = <<>> /\ finished = <<>> /\ concurrentSums = Zero /\ ttftSums = Zero
  /\ violations = 0 /\ mode = "monitor" /\ alert = FALSE

StrategiesInit ==
  \/ LoopInit /\ SearchIdle /\ ScheduleIdle /\ ErrorIdle /\ SaturationIdle
  \/ Init /\ LoopIdle /\ ScheduleIdle /\ ErrorIdle /\ SaturationIdle
  \/ ScheduleInit /\ LoopIdle /\ SearchIdle /\ ErrorIdle /\ SaturationIdle
  \/ ErrorInit /\ LoopIdle /\ SearchIdle /\ ScheduleIdle /\ SaturationIdle
  \/ SaturationInit /\ LoopIdle /\ SearchIdle /\ ScheduleIdle /\ ErrorIdle

StrategiesNext ==
  \/ LoopNext /\ UNCHANGED <<vars, scheduleVars, errorVars, saturationVars>>
  \/ Next /\ UNCHANGED <<loopVars, scheduleVars, errorVars, saturationVars>>
  \/ ScheduleNext /\ UNCHANGED <<loopVars, vars, errorVars, saturationVars>>
  \/ ErrorNext /\ UNCHANGED <<loopVars, vars, scheduleVars, saturationVars>>
  \/ SaturationNext /\ UNCHANGED <<loopVars, vars, scheduleVars, errorVars>>
=============================================================================
