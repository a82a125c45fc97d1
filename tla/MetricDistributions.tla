------------------------ MODULE MetricDistributions ------------------------
(***************************************************************************)
(* How the metrics of a benchmark are computed from its finished requests: *)
(* which requests and token events fall into the measurement window        *)
(* (benchmark/schemas/metrics.py, accumulator.py, request_stats.py) and    *)
(* the rate, concurrency and value distributions over them                 *)
(* (schemas/base/statistics.py).  Instants are natural numbers; weights    *)
(* and rates are in units of 1 / Scale, so that no division has a rest.    *)
(***************************************************************************)
EXTENDS Integers, Sequences, FiniteSets, FiniteSetsExt

CONSTANTS
  Finishes,    \* the requests that may finish: [outcome, targeted, resolving, sent, first,
               \*   content, last, answered, ended, iterations, prompt, tokens]
  Missing,
  Windows,     \* measurement windows [from, to]
  Thresholds,  \* merge thresholds
  Scale,       \* a common multiple of the durations and iteration counts
  Quantiles,   \* percentiles, in percent
  MaxFinished  \* requests of a benchmark (a bound of the model)

VARIABLES
  window, threshold,   \* those of this benchmark
  log                  \* the stats of the finished requests, in the order of their ends

distributionVars == <<window, threshold, log>>

Volume(f) == MapThenSumSet(LAMBDA t : f[t], DOMAIN f)
Largest(S) == CHOOSE x \in S : \A y \in S : y <= x
Smallest(S) == CHOOSE x \in S : \A y \in S : x <= y
After(S, t) == {u \in S : u > t}
Before(S, t) == {u \in S : u < t}

\* np.unique and np.add.at: the weights of equal keys are added up.
Combined(pairs) ==
  [k \in {pairs[i][1] : i \in DOMAIN pairs} |->
     MapThenSumSet(LAMBDA i : pairs[i][2], {i \in DOMAIN pairs : pairs[i][1] = k})]

(***************************************************************************)
(* _merge_sorted_times_with_weights: passes over the chains of close times *)
(* until nothing is within the threshold any more.                         *)
(***************************************************************************)
Close(f, t) == \E u \in After(DOMAIN f, t) : u <= t + threshold
HeadsAll(f) == {t \in DOMAIN f : Close(f, t)}
Heads(f) == {t \in DOMAIN f : Close(f, t) /\ \A u \in DOMAIN f : u < t => u + threshold < t}
GroupOf(f, t) == {u \in DOMAIN f : t <= u /\ u <= t + threshold}

Pass(f) ==
  [t \in DOMAIN f \ UNION {GroupOf(f, h) \ {h} : h \in Heads(f)} |->
     IF t \in Heads(f) THEN MapThenSumSet(LAMBDA u : f[u], GroupOf(f, t)) ELSE f[t]]

Merged(f) ==
  LET passes[n \in 0 .. Cardinality(DOMAIN f)] == IF n = 0 THEN f ELSE Pass(passes[n - 1])
  IN  IF threshold = 0 THEN f ELSE passes[Cardinality(DOMAIN f)]

(***************************************************************************)
(* DistributionSummary.from_values: a distribution is a function from the  *)
(* values with a weight to their weights.                                  *)
(***************************************************************************)
FromValues(pairs) ==
  LET all == Combined(pairs) IN [v \in {x \in DOMAIN all : all[x] > 0} |-> all[v]]

\* The mean times the total weight.
WeightedSum(dist) == MapThenSumSet(LAMBDA v : v * dist[v], DOMAIN dist)

\* searchsorted(cumsum(probabilities), q, side="left").
UpTo(dist, v) == MapThenSumSet(LAMBDA u : dist[u], {u \in DOMAIN dist : u <= v})
PercentileOfValues(dist, q) ==
  Smallest({v \in DOMAIN dist :
    100 * Cardinality({u \in DOMAIN dist : u <= v}) >= q * Cardinality(DOMAIN dist)})
Percentile(dist, q) ==
  Smallest({v \in DOMAIN dist : 100 * UpTo(dist, v) >= q * Volume(dist)})

(***************************************************************************)
(* rate_distribution_from_timings and concurrency_distribution_from_timings*)
(***************************************************************************)
InWindow(t) == window.from <= t /\ t <= window.to

RateTimesBare(events) == Merged(Combined(SelectSeq(events, LAMBDA e : InWindow(e[1]))))
RateTimes(events) ==
  Merged(Combined(SelectSeq(events, LAMBDA e : InWindow(e[1]))
                    \o << <<window.from, 0>>, <<window.to, 0>> >>))

\* Twice the duration an event stands for: to the midpoints with its neighbours.
Span(f, t) ==
  LET later == After(DOMAIN f, t)  earlier == Before(DOMAIN f, t)
  IN  (IF later = {} THEN t ELSE Smallest(later)) - (IF earlier = {} THEN t ELSE Largest(earlier))

Pairs(S, P(_)) ==
  LET seq[T \in SUBSET S] ==
        IF T = {} THEN <<>> ELSE <<P(Smallest(T))>> \o seq[T \ {Smallest(T)}]
  IN  seq[S]

RatesOver(f) ==
  IF Cardinality(DOMAIN f) <= 1 THEN FromValues(<<>>)
  ELSE FromValues(Pairs(DOMAIN f, LAMBDA t : <<(2 * f[t]) \div Span(f, t), Span(f, t)>>))
RateDistribution(events) == RatesOver(RateTimes(events))

ChangesStarted(intervals) ==
  LET inside == SelectSeq(intervals, LAMBDA i : i[1] >= window.from /\ i[1] <= window.to)
  IN  [k \in 1 .. 2 * Len(inside) |->
         IF k <= Len(inside) THEN <<inside[k][1], inside[k][3]>>
         ELSE <<inside[k - Len(inside)][2], -inside[k - Len(inside)][3]>>]
Changes(intervals) ==
  LET inside == SelectSeq(intervals, LAMBDA i : i[2] >= window.from /\ i[1] <= window.to)
  IN  [k \in 1 .. 2 * Len(inside) |->
         IF k <= Len(inside) THEN <<inside[k][1], inside[k][3]>>
         ELSE <<inside[k - Len(inside)][2], -inside[k - Len(inside)][3]>>]

\* The concurrency from t on is the sum of the changes up to t.
LevelInWindow(f, t) == MapThenSumSet(LAMBDA u : f[u], {u \in DOMAIN f : InWindow(u) /\ u <= t})
Level(f, t) == MapThenSumSet(LAMBDA u : f[u], {u \in DOMAIN f : u <= t})

ConcurrencyDistribution(intervals) ==
  LET f       == Merged(Combined(Changes(intervals)))
      times   == {t \in DOMAIN f : InWindow(t)} \cup {window.from, window.to}
      Lasts(t) == Smallest(After(times, t)) - t
  IN  IF DOMAIN f = {} \/ Cardinality(times) <= 1 THEN FromValues(<<>>)
      ELSE FromValues(Pairs(times \ {window.to}, LAMBDA t : <<Level(f, t), Lasts(t)>>))

(***************************************************************************)
(* The events of a request: GenerativeRequestStats.  Instants, token       *)
(* counts and lengths that were not recorded are Missing.                  *)
(***************************************************************************)
OrZero(x) == IF x = Missing THEN 0 ELSE x

StartTime(r) == IF r.sent # Missing THEN r.sent ELSE r.resolving
EndTime(r) == IF r.answered # Missing THEN r.answered ELSE r.ended

OutputTokens(r) ==
  IF r.tokens # Missing THEN r.tokens ELSE IF r.iterations > 0 THEN r.iterations ELSE Missing

Streamed(r) == r.first # Missing /\ r.last # Missing /\ r.iterations > 1

IterTokensTimingsThin(r) ==
  IF ~Streamed(r) \/ OrZero(OutputTokens(r)) <= 1 THEN <<>>
  ELSE [i \in 1 .. r.iterations - 1 |->
          <<r.first + (i * (r.last - r.first)) \div (r.iterations - 1),
            (Scale * (OutputTokens(r) - 1)) \div r.iterations>>]
IterTokensTimings(r) ==
  IF ~Streamed(r) \/ OrZero(OutputTokens(r)) <= 1 THEN <<>>
  ELSE [i \in 1 .. r.iterations - 1 |->
          <<r.first + (i * (r.last - r.first)) \div (r.iterations - 1),
            (Scale * (OutputTokens(r) - 1)) \div (r.iterations - 1)>>]

OutputTokensTimings(r) ==
  IF ~Streamed(r)
  THEN << <<IF r.last # Missing THEN r.last ELSE EndTime(r), Scale * OrZero(OutputTokens(r))>> >>
  ELSE << <<r.first, IF OrZero(OutputTokens(r)) = 0 THEN 0 ELSE Scale>> >> \o IterTokensTimings(r)

PromptTokensTiming(r) ==
  <<IF r.first # Missing THEN r.first ELSE EndTime(r), Scale * OrZero(r.prompt)>>
TotalTokensTimings(r) == <<PromptTokensTiming(r)>> \o OutputTokensTimings(r)

Flatten(seqs) ==
  LET flat[n \in 0 .. Len(seqs)] == IF n = 0 THEN <<>> ELSE flat[n - 1] \o seqs[n] IN flat[Len(seqs)]
Each(requests, F(_)) == [i \in 1 .. Len(requests) |-> F(requests[i])]

(***************************************************************************)
(* get_within_range and GenerativeMetrics.compile.                         *)
(***************************************************************************)
Instant(r, event) ==
  CASE event = "start" -> StartTime(r) [] event = "end" -> EndTime(r) [] OTHER -> r[event]

\* A request whose first event is not known counts as one instant, its last event.
WithinRange(requests, from, to) ==
  SelectSeq(requests, LAMBDA r :
    LET first == Instant(r, from)  last == Instant(r, to)
    IN  /\ last # Missing /\ last >= window.from
        /\ (IF first # Missing THEN first ELSE last) <= window.to)

Between(outcomes, from, to) ==
  WithinRange(SelectSeq(log, LAMBDA r : r.outcome \in outcomes), from, to)
Of(outcomes) == Between(outcomes, "start", "end")
Everyone == {"completed", "errored", "cancelled"}

Intervals(outcomes) ==
  Each(SelectSeq(Of(outcomes), LAMBDA r : StartTime(r) # Missing),
       LAMBDA r : <<StartTime(r), EndTime(r), 1>>)
RequestConcurrency(outcomes) == ConcurrencyDistribution(Intervals(outcomes))
RequestRate(outcomes) == RateDistribution(Each(Of(outcomes), LAMBDA r : <<EndTime(r), Scale>>))
TokenRate(outcomes) == RateDistribution(Flatten(Each(Of(outcomes), TotalTokensTimings)))
TokenCounts(outcomes) == FromValues(Each(Of(outcomes), LAMBDA r : <<OrZero(OutputTokens(r)), 1>>))

-----------------------------------------------------------------------------
Finish(r) ==
  /\ Len(log) < MaxFinished
  /\ log # <<>> => log[Len(log)].ended <= r.ended
  /\ log' = Append(log, r)
  /\ UNCHANGED <<window, threshold>>

DistributionInit == window \in Windows /\ threshold \in Thresholds /\ log = <<>>
DistributionNext == \E r \in Finishes : Finish(r)

-----------------------------------------------------------------------------
\* A distribution weighs rates, levels and counts that are not negative.
DistributionTypeOK ==
  /\ window \in Windows /\ threshold \in Thresholds
  /\ log \in Seq(Finishes) /\ Len(log) <= MaxFinished
  /\ \A dist \in {RequestConcurrency(Everyone), RequestRate(Everyone), TokenCounts(Everyone)} :
       dist \in [DOMAIN dist -> Nat \ {0}] /\ DOMAIN dist \subseteq Nat

TokenEvents == Flatten(Each(Of(Everyone), TotalTokensTimings))
Weight(events) == MapThenSumSet(LAMBDA i : events[i][2], DOMAIN events)
Absolute(x) == IF x < 0 THEN -x ELSE x

\* Merging close times is the scan from the left it is meant to be, for any chain of close
\* times: every group starts more than the threshold after the start of the one before it.
GroupStarts(f) ==
  LET starts[t \in DOMAIN f] ==
        \A u \in Before(DOMAIN f, t) : starts[u] => u + threshold < t
  IN  {t \in DOMAIN f : starts[t]}
MergeIsAScan ==
  \A f \in {Combined(TokenEvents), Combined(Changes(Intervals(Everyone)))} :
    /\ DOMAIN Merged(f) = GroupStarts(f)
    /\ \A t \in GroupStarts(f) : Merged(f)[t] = MapThenSumSet(LAMBDA u : f[u], GroupOf(f, t))

\* The mean of a rate distribution is what a reader takes it for: the events in the window,
\* over the length of the window, which merging shortens by at most the threshold.
MeanRateIsEventsOverTime ==
  LET Conserved(rates, events) ==
        /\ Absolute(Volume(rates) - 2 * (window.to - window.from)) <= 2 * threshold
        /\ WeightedSum(rates) = 2 * Weight(SelectSeq(events, LAMBDA e : InWindow(e[1])))
  IN  window.to > window.from + threshold =>
        /\ Conserved(TokenRate(Everyone), TokenEvents)
        /\ \A o \in Everyone :
             Conserved(RequestRate({o}), Each(Of({o}), LAMBDA r : <<EndTime(r), Scale>>))

\* The mean concurrency is the time the requests were running inside the window, over the
\* length of the window; merging moves it by at most the threshold per request.
Overlap(r) == Largest({0, Smallest({EndTime(r), window.to}) - Largest({StartTime(r), window.from})})
MeanConcurrencyIsBusyTime ==
  \A outcomes \in {Everyone} \cup {{o} : o \in Everyone} :
    LET running  == SelectSeq(Of(outcomes), LAMBDA r : StartTime(r) # Missing)
        busy     == Weight(Each(running, LAMBDA r : <<StartTime(r), Overlap(r)>>))
        measured == RequestConcurrency(outcomes)
    IN  /\ Absolute(WeightedSum(measured) - busy) <= threshold * Len(running)
        /\ \A v \in DOMAIN measured : v <= Len(running)

\* However a request streamed its output, its token events carry all of its tokens, none of
\* them outside its lifetime.
TokensAreConserved ==
  \A i \in 1 .. Len(log) :
    LET r == log[i]
    IN  /\ Weight(TotalTokensTimings(r)) = Scale * (OrZero(r.prompt) + OrZero(OutputTokens(r)))
        /\ \A e \in {TotalTokensTimings(r)[k] : k \in DOMAIN TotalTokensTimings(r)} :
             (StartTime(r) # Missing => StartTime(r) <= e[1]) /\ e[1] <= EndTime(r)

\* A percentile is a value that occurred, with at least that share of the requests at or
\* below it and at least the rest at or above it.
PercentilesSplitTheRequests ==
  TokenCounts(Everyone) # FromValues(<<>>) => \A q \in Quantiles :
    LET p == Percentile(TokenCounts(Everyone), q)
        n == Len(Of(Everyone))
        Counted(P(_)) == Cardinality({i \in 1 .. n : P(OrZero(OutputTokens(Of(Everyone)[i])))})
    IN  /\ 100 * Counted(LAMBDA k : k <= p) >= q * n
        /\ 100 * Counted(LAMBDA k : k >= p) >= (100 - q) * n
        /\ Counted(LAMBDA k : k = p) > 0
=============================================================================
