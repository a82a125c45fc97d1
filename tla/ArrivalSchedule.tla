-------------------------- MODULE ArrivalSchedule --------------------------
(***************************************************************************)
(* When a request may start: the scheduling strategies and the loop of a   *)
(* worker process that asks them, one slot at a time.  Time is in ticks;   *)
(* a rate is in requests per Second ticks.                                 *)
(***************************************************************************)
EXTENDS Integers, Sequences, FiniteSets, SequencesExt

CONSTANTS
  Processes,   \* worker processes
  Strategies,  \* records: type, streams (0: no limit), rate, rampup, scale
  Stamps,      \* relative timestamps of a trace (NoStamp: none)
  NoStamp,
  Gaps,        \* what the exponential distribution may yield
  Second,      \* ticks of a second
  Start,       \* the start time of the run
  DefaultSlots,  \* concurrency where the strategy sets none
  MaxTime,     \* bound on the clock
  MaxIssued    \* bound on the requests

ASSUME ScheduleAssumption ==
  /\ IsFiniteSet(Processes) /\ Processes # {}
  /\ {Second, DefaultSlots} \subseteq Nat \ {0} /\ {Start, MaxTime, MaxIssued} \subseteq Nat
  /\ Gaps \subseteq Nat \ {0} /\ Stamps \subseteq Nat \cup {NoStamp}
  /\ Strategies \subseteq [type : {"synchronous", "concurrent", "throughput", "constant", "poisson", "trace"},
                           streams : Nat, rate : Nat \ {0}, rampup : Nat, scale : Nat \ {0}]
  /\ \A s \in Strategies : s.type = "concurrent" => s.streams > 0

VARIABLES
  strategy,
  released,    \* _processes_init_event, set together with the start time
  index,       \* _processes_request_index, shared by the processes
  offset,      \* of the poisson strategy, shared; Unset before the start
  slots,       \* async_limit of each process, a fair share of the concurrency
  loop,        \* where the loop of each process stands
  mine,        \* the index it has taken, 0 without one
  target,      \* its request_time
  asked,       \* and when, 0 without a closed loop; ready: with the offset in place
  ready,
  running,     \* the requests in flight of each process, by the time they may go out
  last,        \* _process_last_request_time; Unset before the first completion
  now,
  issued       \* how many targets have been given out

scheduleVars == <<strategy, released, index, offset, slots, loop, mine, target, asked, ready,
                  running, last, now, issued>>

Unset == -100
ClosedLoop == strategy.type \in {"synchronous", "concurrent"}
Ramped == strategy.rampup > 0

\* processes_limit and requests_limit
Limited == strategy.type = "synchronous" \/ strategy.streams > 0
SlotLimit == IF strategy.type = "synchronous" THEN 1 ELSE strategy.streams

\* create_processes deals the concurrency out evenly, the rest to the first processes.
\* The places of a count for every process: one for each process and number up to it.
Places(count) == UNION {{p} \X (1 .. count[p]) : p \in Processes}
SlotTotal == IF Limited THEN SlotLimit ELSE DefaultSlots
Share == SlotTotal \div Cardinality(Processes)
Deals == {f \in [Processes -> {Share, Share + 1}] : Cardinality(Places(f)) = SlotTotal}

ScheduleInit ==
  /\ strategy \in Strategies
  /\ slots \in Deals
  /\ released = FALSE /\ index = 0 /\ offset = Unset /\ now = 0 /\ issued = 0
  /\ loop = [p \in Processes |-> "acquiring"]
  /\ mine = [p \in Processes |-> 0] /\ target = [p \in Processes |-> 0]
  /\ asked = [p \in Processes |-> 0] /\ ready = [p \in Processes |-> TRUE]
  /\ running = [p \in Processes |-> <<>>] /\ last = [p \in Processes |-> Unset]

-----------------------------------------------------------------------------
(* The coordinator *)

\* init_processes_start, in time: the start time and the event, under one lock...
Release ==
  /\ ~released /\ released' = TRUE
  /\ UNCHANGED <<strategy, index, offset, slots, loop, mine, target, asked, ready, running, last, now, issued>>

\* ...and then, for the poisson strategy, the offset.
SetOffset ==
  /\ strategy.type = "poisson" /\ released /\ offset < Start
  /\ offset' = Start
  /\ UNCHANGED <<strategy, released, index, slots, loop, mine, target, asked, ready, running, last, now, issued>>

-----------------------------------------------------------------------------
(* next_request_time *)

\* Which strategies number their requests, and before the wait for the start.
NumbersFirst == strategy.type \in {"concurrent", "constant"}
NumbersLater == strategy.type = "throughput" /\ strategy.streams > 0 /\ Ramped

\* An integer square root stands for math.sqrt.
SquareRoot(x) == CHOOSE r \in 0 .. x : r * r <= x /\ x < (r + 1) * (r + 1)

\* A rate that grows linearly during the rampup and then stays.
ConstantUnsplit(i) ==   \* counting the arrivals of the rampup twice
  IF ~Ramped THEN (i * Second) \div strategy.rate
  ELSE IF i = 1 THEN 0
  ELSE IF 2 * Second * i <= strategy.rate * strategy.rampup
       THEN SquareRoot((2 * i * strategy.rampup * Second) \div strategy.rate)
       ELSE strategy.rampup + (Second * i) \div strategy.rate
ConstantRestarts(i) ==  \* starting over when the rampup is over
  IF ~Ramped THEN (i * Second) \div strategy.rate
  ELSE IF i = 1 THEN 0
  ELSE IF 2 * Second * i <= strategy.rate * strategy.rampup
       THEN SquareRoot((2 * i * strategy.rampup * Second) \div strategy.rate)
       ELSE (2 * Second * i - strategy.rate * strategy.rampup) \div (2 * strategy.rate)
Constant(i) ==
  IF ~Ramped THEN (i * Second) \div strategy.rate
  ELSE IF i = 1 THEN 0
  ELSE IF 2 * Second * i <= strategy.rate * strategy.rampup
       THEN SquareRoot((2 * i * strategy.rampup * Second) \div strategy.rate)
       ELSE strategy.rampup + (2 * Second * i - strategy.rate * strategy.rampup) \div (2 * strategy.rate)

SpreadFromZero(i) == (strategy.rampup * (i - 1)) \div strategy.streams
Spread(i) == (strategy.rampup * i) \div strategy.streams

Throughput(i) ==
  IF ~NumbersLater THEN 0 ELSE IF i >= strategy.streams THEN strategy.rampup ELSE Spread(i)

AfterLastOnly(p) == last[p]
AfterLast(p) == IF last[p] = Unset THEN Start ELSE last[p]

\* Whether a request of a ramped closed loop is one of the first of its streams.
RampsAlways(i) == Ramped
Ramps(i) == Ramped /\ i < strategy.streams

\* The target of process p that has index i, a gap having been drawn for it.
TargetOf(p, i, gap) ==
  CASE strategy.type = "synchronous" -> AfterLast(p)
    [] strategy.type = "concurrent" ->
         IF Ramps(i) THEN Start + Spread(i) ELSE AfterLast(p)
    [] strategy.type = "throughput" -> Start + Throughput(i)
    [] strategy.type = "constant" -> Start + Constant(i)
    [] strategy.type = "poisson" -> offset + gap
    [] strategy.type = "trace" -> Start

\* The loop has a free slot and asks.
FreeSlotAfterAll(p) == Len(running[p]) <= slots[p]
FreeSlot(p) == Len(running[p]) < slots[p]

Asks(p) ==
  /\ loop[p] = "acquiring" /\ FreeSlot(p) /\ issued < MaxIssued
  /\ loop' = [loop EXCEPT ![p] = "waiting"]
  /\ index' = IF NumbersFirst THEN index + 1 ELSE index
  /\ mine' = IF NumbersFirst THEN [mine EXCEPT ![p] = index'] ELSE mine
  /\ UNCHANGED <<strategy, released, offset, slots, target, asked, ready, running, last, now, issued>>

\* get_processes_start_time has returned.
Told(p, gap) ==
  /\ loop[p] = "waiting" /\ released /\ issued < MaxIssued
  /\ index' = IF NumbersLater THEN index + 1 ELSE index
  /\ mine' = IF NumbersLater THEN [mine EXCEPT ![p] = index'] ELSE mine
  /\ target' = [target EXCEPT ![p] = TargetOf(p, mine'[p], gap)]
  /\ offset' = IF strategy.type = "poisson" THEN target'[p] ELSE offset
  /\ issued' = issued + 1
  /\ asked' = IF ClosedLoop THEN [asked EXCEPT ![p] = now] ELSE asked
  /\ ready' = [ready EXCEPT ![p] = strategy.type # "poisson" \/ offset >= Start]
  /\ loop' = [loop EXCEPT ![p] = "sleeping"]
  /\ UNCHANGED <<strategy, released, slots, running, last, now>>

\* _process_requests_loop has slept until the target.  The request of a trace has a
\* time of its own (resolve_dequeued_target_start) and waits for it in its slot.
Resolved(p, stamp) ==
  IF strategy.type # "trace" THEN target[p]
  ELSE Start + (IF stamp = NoStamp THEN 0 ELSE strategy.scale * stamp)

Starts(p, stamp) ==
  /\ loop[p] = "sleeping" /\ target[p] <= now
  /\ stamp \in (IF strategy.type = "trace" THEN Stamps ELSE {NoStamp})
  /\ loop' = [loop EXCEPT ![p] = "acquiring"]
  /\ running' = [running EXCEPT ![p] = Append(@, Resolved(p, stamp))]
  /\ mine' = [mine EXCEPT ![p] = 0] /\ target' = [target EXCEPT ![p] = 0]
  /\ asked' = [asked EXCEPT ![p] = 0] /\ ready' = [ready EXCEPT ![p] = TRUE]
  /\ UNCHANGED <<strategy, released, index, offset, slots, last, now, issued>>

\* request_completed, with completed_at: request_end, or the end of resolve().
Completes(p, k, completed) ==
  /\ k \in DOMAIN running[p] /\ running[p][k] <= completed /\ completed \in {now - 1, now}
  /\ ~ClosedLoop => completed = now
  /\ running' = [running EXCEPT ![p] = RemoveAt(@, k)]
  /\ last' = IF ClosedLoop THEN [last EXCEPT ![p] = completed] ELSE last
  /\ UNCHANGED <<strategy, released, index, offset, slots, loop, mine, target, asked, ready, now, issued>>

Tick ==
  /\ now < MaxTime /\ (released \/ now < Start) /\ now' = now + 1
  /\ UNCHANGED <<strategy, released, index, offset, slots, loop, mine, target, asked, ready, running, last, issued>>

ScheduleNext ==
  \/ Release \/ SetOffset \/ Tick
  \/ \E p \in Processes :
       \/ Asks(p)
       \/ \E gap \in (IF strategy.type = "poisson" THEN Gaps ELSE {0}) : Told(p, gap)
       \/ \E stamp \in Stamps \cup {NoStamp} : Starts(p, stamp)
       \/ \E k \in DOMAIN running[p], completed \in {now - 1, now} : Completes(p, k, completed)

-----------------------------------------------------------------------------
(* Properties *)

ScheduleTypeOK ==
  /\ strategy \in Strategies /\ released \in BOOLEAN /\ index \in Nat /\ offset \in Int /\ now \in 0 .. MaxTime
  /\ loop \in [Processes -> {"acquiring", "waiting", "sleeping"}]
  /\ \A p \in Processes : /\ Len(running[p]) <= slots[p] /\ mine[p] \in Nat
                          /\ last[p] \in Nat \cup {Unset}

Given(p) == loop[p] = "sleeping"

\* No request is due before the run starts: only the poisson strategy can break it, for
\* a process that wakes between the event and the offset
\* (AsyncPoissonStrategy.init_processes_start).
EarlyOnlyByRace == \A p \in Processes : Given(p) /\ ready[p] => target[p] >= Start

\* The arrivals due t ticks after the start, times twice the rampup and a second.
Due(t) == IF ~Ramped THEN strategy.rate * t
          ELSE IF t <= strategy.rampup THEN strategy.rate * t * t
          ELSE strategy.rate * strategy.rampup * (2 * t - strategy.rampup)
Unit == IF Ramped THEN 2 * strategy.rampup * Second ELSE Second

\* The load is what the constant strategy promises, to the tick: by the target of the
\* i-th request, i requests are due, with the rampup and across its end.  Only the
\* first is not held back.
ConstantRate ==
  strategy.type = "constant" =>
    \A p \in Processes :
      Given(p) /\ (mine[p] > 1 \/ ~Ramped) =>
        LET t == target[p] - Start
        IN Due(t) <= mine[p] * Unit /\ mine[p] * Unit <= Due(t + 1)

\* Whatever process takes them, the targets of an arrival schedule follow the index
\* of the request.
TargetsInOrder ==
  strategy.type \in {"constant", "throughput"} =>
    \A p, q \in Processes :
      Given(p) /\ Given(q) /\ mine[p] < mine[q] => target[p] <= target[q]

\* While the concurrency is ramped up, not more requests are in flight than the linear
\* rampup allows, and the one of the last stream, which does not wait.
InFlight == Places([p \in Processes |-> Len(running[p])])
RampupHolds ==
  strategy.type \in {"concurrent", "throughput"} /\ strategy.streams > 0
    /\ now \in Start .. Start + strategy.rampup - 1 =>
      (Cardinality(InFlight) - 1) * strategy.rampup <= strategy.streams * (now + 1 - Start)

\* A closed loop does not wait: past the rampup, a slot that has become free goes on
\* at once.
GoesOnAtOnce ==
  ClosedLoop => \A p \in Processes :
                  Given(p) /\ asked[p] >= Start + strategy.rampup => target[p] <= asked[p]

\* A strategy keeps its load whichever process and slot takes the next request: no start
\* before the run's, the constant rate over all processes, targets that never go back, a
\* full rampup, and no wait that the strategy did not ask for.
LoadIsKept ==
  ScheduleTypeOK /\ EarlyOnlyByRace /\ ConstantRate /\ TargetsInOrder /\ RampupHolds /\ GoesOnAtOnce
=============================================================================
