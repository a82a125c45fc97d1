----------------------------- MODULE MCMetrics -----------------------------
(***************************************************************************)
(* What a benchmark measures: the accumulator over the updates of a run,   *)
(* and the distributions compiled from the finished requests.  A behaviour *)
(* follows one of the two.                                                 *)
(***************************************************************************)
EXTENDS BenchmarkAccumulator, MetricReport

CONSTANT none

Phase(mode, percent, value) == [mode |-> mode, percent |-> percent, value |-> value]
Unset == Phase("prefer_duration", none, none)
Plan(total, warm, cool, seconds, size, streams, tokens, aborts) ==
  [total |-> total, warm |-> warm, cool |-> cool, seconds |-> seconds, samples |-> size, streams |-> streams,
   tokens |-> tokens, aborts |-> aborts]
MCPlans ==
  {Plan(3, Unset, Unset, none, k, 1, FALSE, 0) : k \in {0, 1, 2}}
    \cup {Plan(2, Unset, Unset, none, none, 2, FALSE, 1),
          Plan(1, Unset, Unset, none, none, 1, TRUE, 2),
          Plan(2, Phase("prefer_duration", 25, none), Phase("duration", none, 2), 8, none, 2, FALSE, 0),
          Plan(3, Phase("prefer_requests", 34, none), Phase("requests", none, 1), 8, none, 1, FALSE, 0),
          Plan(2, Phase("prefer_requests", 50, none), Phase("requests", none, 1), 8, none, 1, FALSE, 1),
          Plan(3, Phase("both", none, 1), Phase("both", 34, none), 8, none, 1, FALSE, 0),
          Plan(2, Phase("both", 34, none), Phase("requests", none, 1), 8, none, 2, FALSE, 0)}

\* A request at its instants: <<targeted, resolving, sent>>, <<first, content, last>> tokens,
\* <<answered, ended>>; and its <<iterations, prompt, tokens>>.
Request(outcome, before, stream, after, amounts) ==
  [outcome |-> outcome, targeted |-> before[1], resolving |-> before[2], sent |-> before[3],
   first |-> stream[1], content |-> stream[2], last |-> stream[3],
   answered |-> after[1], ended |-> after[2],
   iterations |-> amounts[1], prompt |-> amounts[2], tokens |-> amounts[3]]
Unstreamed == <<none, none, none>>
MCFinishes ==
  {Request("completed", <<0, 0, 0>>, <<1, 2, 3>>, <<4, 4>>, <<3, 2, 4>>),
   Request("completed", <<0, 1, 1>>, <<2, 2, 4>>, <<5, 5>>, <<2, none, 3>>),
   Request("completed", <<1, 2, 2>>, <<3, 3, 3>>, <<3, 3>>, <<1, 1, 1>>),
   Request("completed", <<0, 0, 0>>, <<2, 3, 6>>, <<6, 6>>, <<5, 0, none>>),
   Request("completed", <<3, 3, 3>>, Unstreamed, <<5, 5>>, <<0, 1, 2>>),
   Request("completed", <<1, 1, 1>>, <<1, none, 2>>, <<2, 2>>, <<2, 3, 0>>),
   Request("cancelled", <<2, 3, 4>>, <<5, none, none>>, <<none, 6>>, <<0, 2, none>>),
   Request("cancelled", <<2, 2, 2>>, <<3, 3, 5>>, <<none, 5>>, <<3, 1, 1>>),
   Request("errored", <<none, none, none>>, Unstreamed, <<none, 1>>, <<0, none, none>>),
   Request("errored", <<3, 3, none>>, Unstreamed, <<none, 3>>, <<0, 1, none>>),
   Request("errored", <<1, 2, 2>>, Unstreamed, <<4, 4>>, <<0, 1, none>>)}
MCWindows == {[from |-> f, to |-> t] : f \in {0, 2}, t \in {3, 6}} \cup {[from |-> 3, to |-> 3]}

\* In units of 1 / Scale, that is 240 to a second.
MCObjectives ==
  {[ttft |-> 240, tpot |-> none, e2el |-> none], [ttft |-> none, tpot |-> 240, e2el |-> 720],
   [ttft |-> none, tpot |-> 240, e2el |-> 960], [ttft |-> 240, tpot |-> 200, e2el |-> 960],
   [ttft |-> none, tpot |-> none, e2el |-> 480]}

AccumulatorIdle ==
  /\ plan = Plan(3, Unset, Unset, none, 0, 1, FALSE, 0) /\ clock = 0
  /\ work = [r \in Requests |->
       [state |-> "done", status |-> "cancelled", resolved |-> NoValue, sent |-> NoValue, aborts |-> 0]]
  /\ inbox = [r \in Requests |-> <<>>]
  /\ group = [r \in Requests |-> "cancelled"]
  /\ progress = [start |-> NoValue, stop |-> NoValue, ended |-> NoValue]
  /\ timings = NoTimings /\ requests = NoRequests /\ samples = NoRequests
  /\ made = [o \in Outcomes |-> 0] /\ counted = 0
DistributionIdle ==
  /\ window = [from |-> 3, to |-> 3]
  /\ threshold = 0
  /\ log = <<>>

\* While the accumulator is followed the distributions wait, and the other way round.
MetricsInit ==
  \/ AccumulatorInit /\ DistributionIdle
  \/ DistributionInit /\ AccumulatorIdle
MetricsNext ==
  \/ AccumulatorNext /\ UNCHANGED distributionVars
  \/ DistributionNext /\ group = [r \in Requests |-> "cancelled"] /\ clock = 0
     /\ UNCHANGED accumulatorVars
=============================================================================
