---------------------------- MODULE MetricReport ----------------------------
(***************************************************************************)
(* The report of a benchmark (benchmark/schemas/metrics.py): the latencies *)
(* of each request (schemas/base/request_stats.py), their distributions    *)
(* over the requests of the measurement window, the amounts of a modality  *)
(* by input, output and total, and goodput against latency objectives      *)
(* (schemas/benchmark/goodput.py).  Latencies are in units of 1 / Scale.   *)
(***************************************************************************)
EXTENDS MetricDistributions

CONSTANTS
  Objectives   \* latency objectives [ttft, tpot, e2el], Missing where none is set

(***************************************************************************)
(* The latencies of one request.                                           *)
(***************************************************************************)
Elapsed(from, to) == IF from = Missing \/ to = Missing THEN Missing ELSE Scale * (to - from)

RequestLatency(r) == Elapsed(r.sent, r.answered)
DispatchDelay(r) == Elapsed(r.targeted, r.sent)
ScheduledLatency(r) == Elapsed(r.targeted, r.answered)
TimeToFirstToken(r) == Elapsed(r.sent, r.first)
TimeToFirstOutputToken(r) == Elapsed(r.sent, r.content)

TimePerOutputToken(r) ==
  IF r.sent = Missing \/ OutputTokens(r) \in {Missing, 0} THEN Missing
  ELSE Elapsed(r.sent, IF r.last # Missing THEN r.last ELSE EndTime(r)) \div OutputTokens(r)

InterTokenLatencyWithFirst(r) ==
  IF r.first = Missing \/ r.last = Missing \/ OrZero(OutputTokens(r)) <= 1 THEN Missing
  ELSE Elapsed(r.first, r.last) \div OutputTokens(r)
InterTokenLatency(r) ==
  IF r.first = Missing \/ r.last = Missing \/ OrZero(OutputTokens(r)) <= 1 THEN Missing
  ELSE Elapsed(r.first, r.last) \div (OutputTokens(r) - 1)

TotalTokens(r) ==
  IF r.prompt = Missing /\ OutputTokens(r) = Missing THEN Missing
  ELSE OrZero(r.prompt) + OrZero(OutputTokens(r))

(***************************************************************************)
(* GenerativeMetrics.compile: the distribution of each latency.  What a    *)
(* request has no value for counts as zero, except in the metrics relative *)
(* to the schedule, which leave it out.                                    *)
(***************************************************************************)
RequestTotals == [o \in Everyone |-> Len(Of({o}))]

RequestLatencies(outcomes) ==
  FromValues(Each(Of(outcomes), LAMBDA r : <<OrZero(RequestLatency(r)), 1>>))

Known(requests, F(_)) ==
  Each(SelectSeq(requests, LAMBDA r : F(r) # Missing), LAMBDA r : <<F(r), 1>>)
DispatchDelays(outcomes) == FromValues(Known(Of(outcomes), DispatchDelay))
ScheduledLatencies(outcomes) == FromValues(Known(Of(outcomes), ScheduledLatency))

PromptTokenCounts(outcomes) ==
  FromValues(Each(Of(outcomes), LAMBDA r : <<OrZero(r.prompt), 1>>))
TotalTokenCounts(outcomes) ==
  FromValues(Each(Of(outcomes), LAMBDA r : <<OrZero(TotalTokens(r)), 1>>))

FirstTokens(outcomes) ==
  FromValues(Each(Between(outcomes, "start", "first"),
                  LAMBDA r : <<OrZero(TimeToFirstToken(r)), 1>>))
FirstOutputTokens(outcomes) ==
  FromValues(Each(Between(outcomes, "start", "content"),
                  LAMBDA r : <<OrZero(TimeToFirstOutputToken(r)), 1>>))

\* Each request weighs as many times as it has gaps between its tokens, or tokens.
Gaps(r) == (IF OutputTokens(r) \in {Missing, 0} THEN 1 ELSE OutputTokens(r)) - 1
TokenGaps(outcomes) ==
  FromValues(Each(Between(outcomes, "first", "end"),
                  LAMBDA r : <<OrZero(InterTokenLatency(r)), Gaps(r)>>))
TokenTimes(outcomes) ==
  FromValues(Each(Of(outcomes),
                  LAMBDA r : <<OrZero(TimePerOutputToken(r)), OrZero(OutputTokens(r))>>))

TokensPerIteration(outcomes) ==
  FromValues(Each(Flatten(Each(Of(outcomes), OutputTokensTimings)), LAMBDA e : <<e[2], 1>>))

(***************************************************************************)
(* GenerativeMetricsSummary.compile: an amount the inputs and the outputs  *)
(* of a modality have (here its tokens), over all the time of the requests.*)
(***************************************************************************)
Timed(outcomes) ==
  SelectSeq(Of(outcomes), LAMBDA r :
    StartTime(r) # Missing /\ (r.prompt # Missing \/ r.tokens # Missing))

Amounts(outcomes, side) == Known(Timed(outcomes), LAMBDA r : r[side])
HasData(side) == Amounts(Everyone, side) # <<>>
HasTotal == HasData("prompt") /\ HasData("tokens")

AmountEventsKnown(outcomes, side) ==
  Each(SelectSeq(Timed(outcomes), LAMBDA r : r[side] # Missing),
       LAMBDA r : <<EndTime(r), Scale * r[side]>>)
AmountEvents(outcomes, side) ==
  Each(Timed(outcomes), LAMBDA r : <<EndTime(r), Scale * OrZero(r[side])>>)
AmountIntervals(outcomes, side) ==
  Each(Timed(outcomes), LAMBDA r : <<StartTime(r), EndTime(r), OrZero(r[side])>>)

\* Without a window the events and the intervals are counted wherever they lie.
RatesOfAll(events) == RatesOver(Merged(Combined(events)))
ConcurrencyOfAll(intervals) ==
  LET n == Len(intervals)
      f == Merged(Combined([k \in 1 .. 2 * n |->
             IF k <= n THEN <<intervals[k][1], intervals[k][3]>>
             ELSE <<intervals[k - n][2], -intervals[k - n][3]>>]))
      times == DOMAIN f
  IN  IF Cardinality(times) <= 1 THEN FromValues(Pairs(times, LAMBDA t : <<Level(f, t), 1>>))
      ELSE FromValues(Pairs(times \ {Largest(times)},
                            LAMBDA t : <<Level(f, t), Smallest(After(times, t)) - t>>))

AmountSummary(outcomes, side) ==
  [values      |-> FromValues(Amounts(outcomes, side)),
   perSecond   |-> RatesOfAll(AmountEvents(outcomes, side)),
   concurrency |-> ConcurrencyOfAll(AmountIntervals(outcomes, side))]
TotalSummary(outcomes) ==
  [values      |-> FromValues(Amounts(outcomes, "prompt") \o Amounts(outcomes, "tokens")),
   perSecond   |-> RatesOfAll(AmountEvents(outcomes, "prompt") \o AmountEvents(outcomes, "tokens")),
   concurrency |-> ConcurrencyOfAll(AmountIntervals(outcomes, "prompt")
                                      \o AmountIntervals(outcomes, "tokens"))]

(***************************************************************************)
(* GoodputSLO.is_conforming and GenerativeMetrics._compile_goodput.        *)
(***************************************************************************)
Latencies(r) ==
  [ttft |-> TimeToFirstToken(r), tpot |-> InterTokenLatency(r), e2el |-> RequestLatency(r)]
Objected(slo) == {o \in DOMAIN slo : slo[o] # Missing}

IsDetermined(slo, r) == \A o \in Objected(slo) : Latencies(r)[o] # Missing
\* Judged as far as it was measured.
IsConformingSoFar(slo, r) ==
  \A o \in Objected(slo) : Latencies(r)[o] # Missing => Latencies(r)[o] <= slo[o]
IsConforming(slo, r) ==
  IsDetermined(slo, r) /\ \A o \in Objected(slo) : Latencies(r)[o] <= slo[o]

Goodput(slo) ==
  LET met == SelectSeq(Of({"completed"}), LAMBDA r : IsConforming(slo, r))
      determined == Len(SelectSeq(Of({"completed"}), LAMBDA r : IsDetermined(slo, r)))
                      + Len(Of({"errored"}))
  IN  [conforming |-> Len(met), determined |-> determined,
       rate |-> IF determined = 0 THEN Missing
                ELSE RateDistribution(Each(met, LAMBDA r : <<EndTime(r), Scale>>))]

-----------------------------------------------------------------------------
\* What a request waited for the scheduler and what it took are what it took from its turn
\* in the schedule on, for one request and for the means over those that have all three.
SchedulesAddUp ==
  /\ \A i \in 1 .. Len(log) :
       LET r == log[i]
       IN  (\A t \in {r.targeted, r.sent, r.answered} : t # Missing) =>
             /\ DispatchDelay(r) >= 0
             /\ ScheduledLatency(r) = DispatchDelay(r) + RequestLatency(r)
  /\ \A o \in Everyone :
       (\A i \in 1 .. Len(Of({o})) :
          \A t \in {Of({o})[i].targeted, Of({o})[i].sent, Of({o})[i].answered} : t # Missing) =>
         WeightedSum(ScheduledLatencies({o}))
           = WeightedSum(DispatchDelays({o})) + WeightedSum(RequestLatencies({o}))

\* The mean gap between tokens is the time the streams took from their first token to their
\* last, over all of their gaps, and the mean time per token is the time up to the last
\* token over all tokens: long answers weigh as much as their tokens.
Streams(outcomes) ==
  SelectSeq(Between(outcomes, "first", "end"), LAMBDA r : InterTokenLatency(r) # Missing)
TokenTimesAddUp ==
  \A outcomes \in {Everyone} \cup {{o} : o \in Everyone} :
    LET timed == SelectSeq(Of(outcomes), LAMBDA r : TimePerOutputToken(r) # Missing)
        Until(r) == IF r.last # Missing THEN r.last ELSE EndTime(r)
    IN  /\ WeightedSum(TokenGaps(outcomes))
             = Weight(Each(Streams(outcomes), LAMBDA r : <<r, Elapsed(r.first, r.last)>>))
        /\ WeightedSum(TokenTimes(outcomes))
             = Weight(Each(timed, LAMBDA r : <<r, Elapsed(r.sent, Until(r))>>))
        /\ Volume(TokenTimes(outcomes)) = WeightedSum(TokenCounts(outcomes))

\* The token counts agree with one another and with the iterations they came in: every token
\* of the prompts and answers is in the totals, and every token of an answer in one iteration.
TokenCountsAddUp ==
  \A outcomes \in {Everyone} \cup {{o} : o \in Everyone} :
    /\ WeightedSum(TotalTokenCounts(outcomes))
         = WeightedSum(PromptTokenCounts(outcomes)) + WeightedSum(TokenCounts(outcomes))
    /\ WeightedSum(TokensPerIteration(outcomes)) = Scale * WeightedSum(TokenCounts(outcomes))

\* For one stream, the time to its first token and the gaps after it make up its time per
\* token; no latency that is part of another is longer than it.
LatenciesNest ==
  \A i \in 1 .. Len(log) :
    LET r == log[i]
    IN  /\ Streamed(r) /\ InterTokenLatency(r) # Missing =>
             TimeToFirstToken(r) + Gaps(r) * InterTokenLatency(r)
               = OutputTokens(r) * TimePerOutputToken(r)
        /\ TimeToFirstToken(r) # Missing /\ RequestLatency(r) # Missing =>
             TimeToFirstToken(r) <= RequestLatency(r)
        /\ TimeToFirstOutputToken(r) # Missing =>
             TimeToFirstToken(r) <= TimeToFirstOutputToken(r)

\* The windows of the latencies differ, and still no latency is reported of a request that
\* the totals of the benchmark do not count.
LatenciesAreOfCountedRequests ==
  \A o \in Everyone :
    /\ Volume(RequestLatencies({o})) = RequestTotals[o]
    /\ \A population \in {Between({o}, "start", "first"), Between({o}, "start", "content"),
                          Between({o}, "first", "end")} :
         \A i \in 1 .. Len(population) :
           Cardinality({j \in 1 .. Len(population) : population[j] = population[i]})
             <= Cardinality({j \in 1 .. Len(Of({o})) : Of({o})[j] = population[i]})

\* Nothing of the inputs and outputs is lost in the totals: over time, the totals carry what
\* both carry, whichever of the two a request did not report.
TotalsAreInputAndOutput ==
  HasTotal => \A outcomes \in {Everyone} \cup {{o} : o \in Everyone} :
    LET input  == AmountSummary(outcomes, "prompt")
        output == AmountSummary(outcomes, "tokens")
        total  == TotalSummary(outcomes)
    IN  /\ WeightedSum(total.perSecond)
             = WeightedSum(input.perSecond) + WeightedSum(output.perSecond)
        /\ Volume(total.perSecond) = Volume(output.perSecond)
        /\ WeightedSum(total.concurrency)
             = WeightedSum(input.concurrency) + WeightedSum(output.concurrency)
        /\ WeightedSum(total.values) = WeightedSum(input.values) + WeightedSum(output.values)
        /\ Volume(total.values) = Volume(input.values) + Volume(output.values)

\* Goodput is a part of the throughput: it counts no request twice or that did not complete,
\* every error counts against it, and its rate stays below the rate of the requests.
GoodputIsAPart ==
  \A slo \in Objectives :
    LET good == Goodput(slo)
    IN  /\ good.conforming <= RequestTotals["completed"]
        /\ good.conforming <= good.determined - RequestTotals["errored"]
        /\ good.determined <= RequestTotals["completed"] + RequestTotals["errored"]
        /\ good.rate # Missing =>
             WeightedSum(good.rate) <= WeightedSum(RequestRate({"completed"}))

\* A tighter bound on the same latencies never raises goodput, and a further objective
\* neither lets more requests conform nor decides about more of them.
Tighter(slo, than) == \A o \in Objected(than) : slo[o] # Missing /\ slo[o] <= than[o]
GoodputFallsWithTheObjectives ==
  \A slo, than \in Objectives : Tighter(slo, than) =>
    /\ Goodput(slo).conforming <= Goodput(than).conforming
    /\ Goodput(slo).determined <= Goodput(than).determined
    /\ Objected(slo) = Objected(than) => Goodput(slo).determined = Goodput(than).determined

\* The distributions over any window equal their definitions: events over time, busy time
\* over time, every token once, percentiles that split the requests, latencies that add up,
\* and goodput as a part of the throughput.
DistributionsAreRight ==
  /\ DistributionTypeOK
  /\ log # <<>> =>
       /\ MergeIsAScan /\ MeanRateIsEventsOverTime /\ MeanConcurrencyIsBusyTime
       /\ TokensAreConserved /\ PercentilesSplitTheRequests
       /\ SchedulesAddUp /\ TokenTimesAddUp /\ TokenCountsAddUp /\ LatenciesNest
       /\ LatenciesAreOfCountedRequests /\ TotalsAreInputAndOutput
       /\ GoodputIsAPart /\ GoodputFallsWithTheObjectives
=============================================================================
