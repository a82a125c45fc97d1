------------------------ MODULE BenchmarkAccumulator ------------------------
(***************************************************************************)
(* What a benchmark keeps of the updates the scheduler yields              *)
(* (benchmark/schemas/accumulator.py): the phases of the measurement, the  *)
(* requests by outcome with their sampled data, and the running metrics.   *)
(* Requests are claimed in order, up to streams at a time; each sends its  *)
(* updates in order, but updates of different requests arrive in any       *)
(* order.  When another request of its graph fails, one that waits is      *)
(* reported cancelled and dropped, and one that a slot has claimed is      *)
(* reported cancelled and goes on.  An update is what it was when it was   *)
(* published; the clock counts the events of the workers.                  *)
(***************************************************************************)
EXTENDS Integers, Sequences, FiniteSets

CONSTANTS
  MaxBehind,  \* updates on their way to the coordinator (a bound of the model)
  Plans,      \* [total, warm, cool, seconds, samples, streams, tokens, aborts]: the
              \* configurations; total is the count its constraint stops the run at, tokens
              \* whether first tokens are reported, aborts how often the graph of a request
              \* that was claimed is aborted (a bound: in the code its failing siblings)
  NoValue     \* None

Outcomes == {"completed", "errored", "cancelled"}
Statuses == {"in_progress", "first_token"} \cup Outcomes

\* A TransientPhaseConfig.  Percent and value are NoValue when they are unset.
Phases ==
  [mode : {"duration", "requests", "prefer_duration", "prefer_requests", "both"},
   percent : {NoValue} \cup (0 .. 99), value : {NoValue} \cup Nat]

ASSUME AccumulatorAssumption ==
  /\ MaxBehind \in Nat \ {0} /\ NoValue \notin Int
  /\ \A p \in Plans : p.warm \in Phases /\ p.cool \in Phases /\ p.tokens \in BOOLEAN
                      /\ p.seconds \in {NoValue} \cup Nat /\ p.samples \in {NoValue} \cup Nat
                      /\ p.streams \in Nat \ {0} /\ p.total \in Nat \ {0} /\ p.aborts \in Nat

VARIABLES
  plan,       \* the configuration of this run
  clock,      \* the last instant at which a worker did something
  work,       \* per request: [state, status, resolved, sent, aborts]
  inbox,      \* per request: the updates the coordinator has not seen yet
  group,      \* per request: "queued", "processing" or how it was finalized
  progress,   \* [start, stop, ended]: start_requests_time, stop_time, end_processing_time
  timings,    \* the GenerativeBenchmarkTimings
  requests,   \* per outcome: the requests_stats, as [request, data]
  samples,    \* per outcome: the indices of the sampled requests
  made,       \* requests_made of the scheduler metrics
  counted     \* requests of total_metrics

Requests == 1 .. plan.total

coordinatorVars == <<group, progress>>
workerVars == <<clock, work>>
metricVars == <<timings, requests, samples, made, counted>>
accumulatorVars == <<plan, workerVars, inbox, coordinatorVars, metricVars>>

Times == {NoValue} \cup (1 .. clock)

Lesser(a, b) == IF a <= b THEN a ELSE b
Greater(a, b) == IF a <= b THEN b ELSE a
Given(t, other) == IF t # NoValue THEN t ELSE other
Earlier(a, b) == IF a = NoValue \/ b = NoValue THEN Given(a, b) ELSE Lesser(a, b)
Later(a, b) == IF a = NoValue \/ b = NoValue THEN Given(a, b) ELSE Greater(a, b)

(***************************************************************************)
(* The workers.  An update carries the timings its request has by then.    *)
(***************************************************************************)
Update(r, status, resolved, sent, ended) ==
  [request |-> r, status |-> status, started |-> Given(sent, resolved),
   sent |-> sent, completed |-> ended, reported |-> Later(Later(resolved, sent), ended)]

Behind == UNION {{r} \X DOMAIN inbox[r] : r \in Requests}
Publish(u) ==
  /\ Cardinality(Behind) < MaxBehind
  /\ inbox' = [inbox EXCEPT ![u.request] = Append(@, u)]

\* _send_update: the status a request has already is not published again.
Reports(r, status) ==
  IF work[r].status = status THEN UNCHANGED inbox
  ELSE Publish(Update(r, status, work[r].resolved, work[r].sent,
                      IF status \in Outcomes THEN clock' ELSE NoValue))

InSlot == {r \in Requests : work[r].state \in {"claimed", "running"}}

\* A slot takes the request, and waits until it is due.
Claims(r) ==
  /\ work[r].state = "waiting" /\ \A q \in 1 .. r - 1 : work[q].state # "waiting"
  /\ Cardinality(InSlot) < plan.streams
  /\ work' = [work EXCEPT ![r].state = "claimed"]
  /\ UNCHANGED <<plan, clock, inbox, coordinatorVars, metricVars>>

\* resolve_start is set and the request is reported in_progress.
Begins(r) ==
  /\ work[r].state = "claimed"
  /\ clock' = clock + 1
  /\ work' = [work EXCEPT ![r].state = "running", ![r].status = "in_progress", ![r].resolved = clock']
  /\ Publish(Update(r, "in_progress", clock', NoValue, NoValue))
  /\ UNCHANGED <<plan, coordinatorVars, metricVars>>

\* The backend sends the request.
Sends(r) ==
  /\ work[r].state = "running" /\ work[r].sent = NoValue
  /\ clock' = clock + 1
  /\ work' = [work EXCEPT ![r].sent = clock']
  /\ UNCHANGED <<plan, inbox, coordinatorVars, metricVars>>

\* The backend yields its first token, or an empty chunk after it.
FirstToken(r) ==
  /\ plan.tokens /\ work[r].state = "running" /\ work[r].sent # NoValue
  /\ work[r].status # "first_token"
  /\ clock' = clock + 1
  /\ work' = [work EXCEPT ![r].status = "first_token"]
  /\ Reports(r, "first_token")
  /\ UNCHANGED <<plan, coordinatorVars, metricVars>>

\* The slot is done with the request; only one that was sent completes.
Ends(r, outcome) ==
  /\ work[r].state = "running"
  /\ outcome = "completed" => work[r].sent # NoValue
  /\ clock' = clock + 1
  /\ work' = [work EXCEPT ![r].state = "done", ![r].status = outcome]
  /\ Reports(r, outcome)
  /\ UNCHANGED <<plan, coordinatorVars, metricVars>>

\* Another slot aborts the graph of a request that is claimed, in the backend or errored.
Aborts(r) ==
  /\ work[r].aborts < plan.aborts /\ work[r].status # "cancelled"
  /\ r \in InSlot \/ work[r].status = "errored"
  /\ clock' = clock + 1
  /\ work' = [work EXCEPT ![r].status = "cancelled", ![r].aborts = @ + 1]
  /\ Reports(r, "cancelled")
  /\ UNCHANGED <<plan, coordinatorVars, metricVars>>

\* A request that never started is cancelled: with its graph, or when the run stops.
Drops(r) ==
  /\ \/ work[r].state = "waiting" /\ (progress.ended # NoValue \/ plan.aborts > 0)
     \/ work[r].state = "claimed" /\ progress.ended # NoValue
  /\ clock' = clock + 1
  /\ work' = [work EXCEPT ![r].state = "done", ![r].status = "cancelled"]
  /\ Reports(r, "cancelled")
  /\ UNCHANGED <<plan, coordinatorVars, metricVars>>

(***************************************************************************)
(* The coordinator: update_state for one update.                           *)
(***************************************************************************)
Accepted(u) ==
  CASE u.status = "in_progress" -> group[u.request] = "queued"
    [] u.status = "first_token" -> TRUE
    [] u.status = "completed" -> group[u.request] = "processing"
    [] OTHER -> group[u.request] \in {"queued", "processing"}

GroupAfter(u) ==
  IF ~Accepted(u) \/ u.status = "first_token" THEN group
  ELSE [group EXCEPT ![u.request] = IF u.status = "in_progress" THEN "processing" ELSE u.status]

With(g, outcomes) == Cardinality({r \in Requests : g[r] \in outcomes})
Processed(g) == With(g, Outcomes)

\* The count constraint, and the duration constraint when seconds are configured.
CountStop(g, u) ==
  IF Processed(g) < plan.total THEN NoValue ELSE Given(u.completed, clock)
TimeStop(start) ==
  IF plan.seconds = NoValue \/ clock < Given(start, 0) + plan.seconds THEN NoValue
  ELSE Given(start, 0) + plan.seconds

ProgressAfter(g, u) ==
  LET start == IF Accepted(u) THEN Earlier(progress.start, u.sent) ELSE progress.start
      stop  == Earlier(CountStop(g, u), TimeStop(start))
  IN  [start |-> start,
       stop |-> Earlier(progress.stop, stop),
       ended |-> IF stop # NoValue THEN Given(progress.ended, clock) ELSE progress.ended]

(***************************************************************************)
(* TransientPhaseConfig: compute_limits and compute_transition_time.       *)
(***************************************************************************)
SizeOf(phase, total) ==
  IF phase.percent # NoValue THEN (phase.percent * total) \div 100 ELSE phase.value

Seconds(phase) ==
  IF plan.seconds = NoValue \/ phase.mode = "requests" THEN NoValue
  ELSE SizeOf(phase, plan.seconds)
Count(phase) ==
  IF phase.mode = "duration" \/ (phase.mode = "prefer_duration" /\ Seconds(phase) # NoValue)
  THEN NoValue ELSE SizeOf(phase, plan.total)
Duration(phase) ==
  IF phase.mode = "prefer_requests" /\ Count(phase) # NoValue THEN NoValue ELSE Seconds(phase)

Active(phase) == Count(phase) # NoValue \/ Duration(phase) # NoValue

\* The instant at which the request count of a phase is reached; the update must be the
\* one that is looked at while the count is exactly that.
StartByCountAfter(g, u) ==
  IF Processed(g) >= Count(plan.warm) + 1 THEN u.started ELSE NoValue
StartByCount(g, u) ==
  IF Processed(g) = Count(plan.warm) + 1 THEN u.started ELSE NoValue
EndByCount(g, u) ==
  IF plan.total - Processed(g) = Count(plan.cool) + 1 /\ u.status \in Outcomes
  THEN u.completed ELSE NoValue

Transition(phase, byCount, byTime, both) ==
  CASE Count(phase) # NoValue /\ Duration(phase) # NoValue ->
         IF byCount = NoValue THEN NoValue ELSE both
    [] Count(phase) # NoValue /\ Duration(phase) = NoValue -> byCount
    [] Count(phase) = NoValue /\ Duration(phase) # NoValue -> byTime
    [] OTHER -> NoValue

WarmupEnds(g, u) ==
  LET byCount == StartByCount(g, u)
      byTime == Duration(plan.warm)
  IN Transition(plan.warm, byCount, byTime, Greater(byCount, byTime))
CooldownBegins(g, u) ==
  LET byCount == EndByCount(g, u)
      byTime == plan.seconds - Duration(plan.cool)
  IN Transition(plan.cool, byCount, byTime, Lesser(byCount, byTime))

(***************************************************************************)
(* GenerativeBenchmarkTimings.update_estimate and status.                  *)
(***************************************************************************)
NoTimings ==
  [requestStart |-> NoValue, measureStart |-> NoValue, measureEnd |-> NoValue,
   requestEnd |-> NoValue, update |-> NoValue, request |-> NoValue]

ReportedLast(t, u) == u.reported
Reported(t, u) == Later(t.update, u.reported)

TimingsAfter(t, g, p, u) ==
  LET request == IF u.status \in Outcomes THEN Later(t.request, u.completed) ELSE t.request
      ends    == p.ended # NoValue /\ t.requestEnd = NoValue
      end     == IF ends THEN p.stop ELSE t.requestEnd
      cooled  == Given(CooldownBegins(g, u), t.measureEnd)
  IN  [requestStart |-> p.start,
       measureStart |-> IF ~Active(plan.warm) THEN p.start
                        ELSE Given(WarmupEnds(g, u), t.measureStart),
       measureEnd |-> IF ends THEN Given(cooled, end) ELSE cooled,
       requestEnd |-> end,
       update |-> Reported(t, u),
       request |-> request]

Status(t) ==
  CASE t.requestStart = NoValue \/ t.update = NoValue -> "pending"
    [] t.requestStart # NoValue /\ t.update # NoValue
         /\ (t.measureStart = NoValue \/ t.update <= t.measureStart) -> "warmup"
    [] t.requestStart # NoValue /\ t.update # NoValue /\ t.measureStart # NoValue
         /\ t.update > t.measureStart /\ t.measureEnd # NoValue /\ t.update >= t.measureEnd
         -> "cooldown"
    [] OTHER -> "active"

(***************************************************************************)
(* GenerativeRequestsAccumulator: the stats of a request, sampled.         *)
(***************************************************************************)
NoRequests == [o \in Outcomes |-> <<>>]

Cleared(stats, i) == [stats EXCEPT ![i].data = FALSE]

Adds(o, u) ==
  LET stats == Append(requests[o], [request |-> u.request, data |-> TRUE,
                                    started |-> u.started, ended |-> u.completed])
      n     == Len(stats)
      Keep(s, chosen) ==
        /\ requests' = [requests EXCEPT ![o] = s]
        /\ samples' = [samples EXCEPT ![o] = chosen]
  IN  \/ plan.samples = NoValue /\ Keep(stats, samples[o])
      \/ plan.samples = 0 /\ Keep(Cleared(stats, n), samples[o])
      \/ /\ plan.samples \in Nat /\ n <= plan.samples
         /\ Keep(stats, Append(samples[o], n))
      \/ /\ plan.samples \in Nat \ {0} /\ n > plan.samples
         /\ \/ Keep(stats, samples[o])
            \/ \E i \in 1 .. Len(samples[o]) :
                 Keep(Cleared(stats, samples[o][i]), [samples[o] EXCEPT ![i] = n])

\* Cancelled requests that never started are ignored.
Measured(u) == u.status \in Outcomes /\ (u.status = "cancelled" => u.started # NoValue)

\* SchedulerMetricsAccumulator.update_estimate: the counts of the coordinator, taken
\* before the times are looked at.
RequestsMade(g) == [o \in Outcomes |-> With(g, {o})]

\* GenerativeMetricsAccumulator.update_estimate, of total_metrics.
TotalRequests == counted + 1

\* GenerativeBenchmarkAccumulator.update_estimate: an update the coordinator ignored has
\* no finalized time, which the scheduler metrics refuse once the rest is updated.
Deliver(r) ==
  /\ inbox[r] # <<>>
  /\ LET u == Head(inbox[r])
     IN  /\ inbox' = [inbox EXCEPT ![r] = Tail(@)]
         /\ group' = GroupAfter(u)
         /\ progress' = ProgressAfter(group', u)
         /\ timings' = TimingsAfter(timings, group', progress', u)
         /\ IF Measured(u)
            THEN /\ Adds(u.status, u)
                 /\ counted' = TotalRequests
                 /\ made' = RequestsMade(group')
            ELSE UNCHANGED <<requests, samples, counted, made>>
  /\ UNCHANGED <<plan, workerVars>>

\* The poll of request_updates: only the duration constraint can stop the run.
Polls ==
  /\ progress.ended = NoValue /\ TimeStop(progress.start) # NoValue
  /\ progress' = [progress EXCEPT !.stop = Earlier(@, TimeStop(progress.start)), !.ended = clock]
  /\ UNCHANGED <<plan, workerVars, inbox, group, metricVars>>

AccumulatorInit ==
  /\ plan \in Plans /\ clock = 0
  /\ work = [r \in Requests |->
       [state |-> "waiting", status |-> "queued", resolved |-> NoValue, sent |-> NoValue,
        aborts |-> 0]]
  /\ inbox = [r \in Requests |-> <<>>]
  /\ group = [r \in Requests |-> "queued"]
  /\ progress = [start |-> NoValue, stop |-> NoValue, ended |-> NoValue]
  /\ timings = NoTimings /\ requests = NoRequests /\ samples = NoRequests
  /\ made = [o \in Outcomes |-> 0] /\ counted = 0

AccumulatorNext ==
  \/ Polls
  \/ \E r \in Requests :
       \/ Claims(r) \/ Begins(r) \/ Sends(r) \/ FirstToken(r) \/ Aborts(r) \/ Drops(r) \/ Deliver(r)
       \/ \E o \in Outcomes : Ends(r, o)

AccumulatorSpec == AccumulatorInit /\ [][AccumulatorNext]_accumulatorVars

-----------------------------------------------------------------------------
AccumulatorTypeOK ==
  /\ plan \in Plans /\ clock \in Nat
  /\ work \in [Requests -> [state : {"waiting", "claimed", "running", "done"},
                            status : {"queued"} \cup Statuses, resolved : Times, sent : Times,
                            aborts : 0 .. plan.aborts]]
  /\ group \in [Requests -> {"queued", "processing"} \cup Outcomes]
  /\ made \in [Outcomes -> 0 .. plan.total] /\ counted \in Nat

Entries(o, r) == {i \in 1 .. Len(requests[o]) : requests[o][i].request = r}
Aborted(r) == work[r].aborts > 0

\* Whatever order the updates of different requests arrive in, the statistics hold a request
\* exactly once, under the outcome the coordinator finalized it with, unless it never
\* started.  One that was aborted while a slot had it is counted again with every outcome it
\* reports later (the run metrics refuse such an update after its statistics are kept); its
\* slot still reports at most one completion or error, and requests_made counts only the
\* requests the coordinator finalized so.
CountedByOutcome ==
  /\ \A r \in Requests, o \in Outcomes :
       ~Aborted(r) => Cardinality(Entries(o, r)) =
                        IF group[r] = o /\ work[r].resolved # NoValue THEN 1 ELSE 0
  /\ \A r \in Requests :
       /\ Cardinality(Entries("completed", r)) + Cardinality(Entries("errored", r)) <= 1
       /\ group[r] \in {"completed", "errored"} => Entries(group[r], r) # {}
  /\ counted = Len(requests["completed"]) + Len(requests["errored"]) + Len(requests["cancelled"])
  /\ \A o \in {"completed", "errored"} :
       /\ made[o] = With(group, {o})
       /\ made[o] <= Len(requests[o])
       /\ Len(requests[o]) - made[o] <= Cardinality({r \in Requests : Aborted(r)})

\* The sampled requests are distinct, as many as the sample size allows, and still have their
\* data; with a sample size of 0 no request keeps any.  A request that the sampling passes
\* over keeps its data too, although the size is documented as the most that do.
SamplesKeepTheirData ==
  \A o \in Outcomes :
    LET n == Len(requests[o])
    IN  /\ plan.samples \in Nat => Len(samples[o]) = Lesser(n, plan.samples)
        /\ \A i, j \in 1 .. Len(samples[o]) :
             /\ samples[o][i] \in 1 .. n /\ requests[o][samples[o][i]].data
             /\ samples[o][i] = samples[o][j] => i = j
        /\ plan.samples = 0 => \A i \in 1 .. n : ~requests[o][i].data

Rank(status) ==
  CASE status = "pending" -> 0 [] status = "warmup" -> 1 [] status = "active" -> 2 [] OTHER -> 3

\* While its phases are durations a benchmark passes through them in order, however late
\* and out of order the updates arrive and however the run ends.
ByTime(phase) == Count(phase) = NoValue
PhaseOnlyAdvances ==
  [][ByTime(plan.warm) /\ ByTime(plan.cool) => Rank(Status(timings')) >= Rank(Status(timings))]_accumulatorVars

\* A warmup bounded by a count is over once one request more than it allows is processed,
\* unless one that never started was cancelled or one was aborted, and not before.  The
\* measurement starts at the time some request started; one bounded by both also lasts its
\* time.
MeasuredFrom(t) ==
  \E r \in Requests : \E s \in {work[r].resolved, work[r].sent} \ {NoValue} :
    t = IF Duration(plan.warm) = NoValue THEN s ELSE Greater(s, Duration(plan.warm))
WarmupIsServed ==
  Count(plan.warm) # NoValue =>
    /\ timings.measureStart # NoValue =>
         Processed(group) > Count(plan.warm) /\ MeasuredFrom(timings.measureStart)
    /\ /\ Processed(group) > Count(plan.warm)
       /\ \A r \in Requests : group[r] \in Outcomes => work[r].resolved # NoValue /\ ~Aborted(r)
       => timings.measureStart # NoValue

\* Every update that is looked at while exactly one request more is processed sets the start
\* of the measurement again, to the start of its own request; later ones leave it alone.
MeasurementSettles ==
  Count(plan.warm) # NoValue /\ timings'.measureStart # timings.measureStart
    => Processed(group)' = Count(plan.warm) + 1

\* In any order of updates a request is counted once under the outcome it ended with, or as
\* often as aborts make it report one; sampled requests keep their data; and the measurement
\* starts after the warmup, at a time that is settled when the count has passed.
AccountsAreRight ==
  /\ [](AccumulatorTypeOK /\ CountedByOutcome /\ SamplesKeepTheirData /\ WarmupIsServed)
  /\ [][MeasurementSettles]_accumulatorVars
=============================================================================
