-------------------------- MODULE SaturationWindows --------------------------
(***************************************************************************)
(* OverSaturationConstraint: two sliding windows, of the requests in       *)
(* progress and of the times to first token, whose regression sums are     *)
(* kept up to date by adding and removing samples (SlopeChecker).          *)
(***************************************************************************)
EXTENDS Integers, Sequences, FiniteSets

CONSTANTS
  Concurrencies,      \* processing_requests at an update
  Latencies,          \* times to first token
  MinimumDuration, MinimumTTFT, MaximumWindow,   \* in ticks
  MinimumSize,        \* minimum_window_size
  RatioPercent,       \* maximum_window_ratio, in percent
  Confidence,         \* square of the critical t over the threshold, in percent, per degree
  MaxDuration,        \* bound on the duration
  MaxSamples          \* bound on the samples of a window

ASSUME SaturationAssumption ==
  /\ Concurrencies \subseteq Nat /\ Latencies \subseteq Nat \ {0}
  /\ {MinimumDuration, MinimumTTFT, MaximumWindow, MinimumSize, RatioPercent, MaxDuration,
      MaxSamples} \subseteq Nat
  /\ Confidence \in [1 .. MaxDuration -> Nat]

VARIABLES
  duration,
  started, finished,              \* the windows: sequences of samples
  startedEver, finishedEver,      \* total_started_ever, total_finished_ever
  violations,                     \* ttft_violations_counter
  concurrentSums, ttftSums,       \* the slope checkers
  mode, alert                     \* mode of the constraint; whether it stops the run

saturationVars == <<duration, started, finished, startedEver, finishedEver, violations,
                    concurrentSums, ttftSums, mode, alert>>

\* The sums of a slope checker, at the start.
Fields == {"n", "x", "y", "xy", "xx", "yy"}
Zero == [f \in Fields |-> 0]

SaturationInit ==
  /\ duration = 0 /\ started = <<>> /\ finished = <<>> /\ startedEver = 0 /\ finishedEver = 0
  /\ violations = 0 /\ concurrentSums = Zero /\ ttftSums = Zero
  /\ mode \in {"enforce", "monitor"} /\ alert = FALSE

-----------------------------------------------------------------------------
(* SlopeChecker *)

\* What a sample, its time and its value, adds to the sums.
Moments(sample) ==
  [n |-> 1, x |-> sample.at, y |-> sample.value, xy |-> sample.at * sample.value,
   xx |-> sample.at * sample.at, yy |-> sample.value * sample.value]
AddPoint(s, sample) == [f \in Fields |-> s[f] + Moments(sample)[f]]
RemovePointNotYY(s, sample) ==
  [f \in Fields |-> IF f = "yy" THEN s[f] ELSE s[f] - Moments(sample)[f]]
RemovePoint(s, sample) == [f \in Fields |-> s[f] - Moments(sample)[f]]

\* check_slope without its divisions: a positive slope whose margin of error is
\* below the threshold.
CheckSlope(s, effective) ==
  /\ effective >= 3
  /\ LET xx == s.n * s.xx - s.x * s.x
         xy == s.n * s.xy - s.x * s.y
         yy == s.n * s.yy - s.y * s.y
         dof == effective - 2
     IN xx > 0 /\ xy > 0 /\ Confidence[dof] * (yy * xx - xy * xy) < 100 * dof * xy * xy

-----------------------------------------------------------------------------
(* The windows *)

Late(sample) == sample.value > MinimumTTFT

\* How many samples _update_duration drops from the front of a window: what exceeds
\* the ratio, then what is too old.
Dropped(window, ever, d) ==
  LET excess == Len(window) - ((ever * RatioPercent) \div 100)
      old == {k \in DOMAIN window : \A j \in 1 .. k : d - window[j].at > MaximumWindow}
  IN IF excess > Cardinality(old) THEN excess ELSE Cardinality(old)

\* A window after k samples have been removed, oldest first, and its sums.
Rest(window, k) == SubSeq(window, k + 1, Len(window))
Without(s, window, k) ==
  LET rest[i \in 0 .. k] == IF i = 0 THEN s ELSE RemovePoint(rest[i - 1], window[i])
  IN rest[k]
\* The sums after an update, which has one sample at most.
With(s, new) == IF new = <<>> THEN s ELSE AddPoint(s, new[1])

\* How many first tokens of a window are late.
Total(f) == LET sum[k \in 0 .. Len(f)] == IF k = 0 THEN 0 ELSE sum[k - 1] + f[k] IN sum[Len(f)]
LateIn(window) == Total([k \in DOMAIN window |-> IF Late(window[k]) THEN 1 ELSE 0])
LateDropped(window, k) == LateIn(SubSeq(window, 1, k))

\* Not most of the first tokens are in time.
OftenLate(ttft, late) == ttft.n <= late * 2

Fewer(a, b) == IF a < b THEN a ELSE b

\* _check_alert
Alert(d, concurrent, ttft, late) ==
  LET concurrentN == Fewer(d, concurrent.n)
      ttftN == Fewer(d, ttft.n)
  IN /\ d >= MinimumDuration /\ d >= MinimumTTFT
     /\ OftenLate(ttft, late)
     /\ concurrentN >= MinimumSize
     /\ CheckSlope(concurrent, concurrentN)
     /\ ttftN < MinimumSize \/ CheckSlope(ttft, ttftN)

\* __call__: the sample of the update, if it has one, then pruning, then the check.
Call(d, newStarted, newFinished) ==
  LET in == started \o newStarted
      out == finished \o newFinished
      inEver == startedEver + Len(newStarted)
      outEver == finishedEver + Len(newFinished)
      inDrop == Dropped(in, inEver, d)
      outDrop == Dropped(out, outEver, d)
  IN /\ duration' = d
     /\ started' = Rest(in, inDrop) /\ startedEver' = inEver
     /\ finished' = Rest(out, outDrop) /\ finishedEver' = outEver
     /\ violations' = violations + LateIn(newFinished) - LateDropped(out, outDrop)
     /\ concurrentSums' = Without(With(concurrentSums, newStarted), in, inDrop)
     /\ ttftSums' = Without(With(ttftSums, newFinished), out, outDrop)
     /\ alert' = (Alert(d, concurrentSums', ttftSums', violations') /\ mode = "enforce")
     /\ UNCHANGED mode

Later == {d \in {duration, duration + 1} : d <= MaxDuration}

\* An update "in_progress"; one with a first token that has not been counted yet;
\* any other one, or a poll.
InProgress == \E d \in Later, c \in Concurrencies :
  startedEver < MaxSamples /\ Call(d, <<[at |-> d, value |-> c]>>, <<>>)
FirstToken == \E d \in Later, t \in Latencies :
  finishedEver < startedEver /\ Call(d, <<>>, <<[at |-> d, value |-> t]>>)
Poll == \E d \in Later : Call(d, <<>>, <<>>)

SaturationNext == ~alert /\ (InProgress \/ FirstToken \/ Poll)

-----------------------------------------------------------------------------
(* Properties *)

SaturationTypeOK ==
  /\ duration \in 0 .. MaxDuration /\ alert \in BOOLEAN /\ violations \in 0 .. MaxSamples
  /\ startedEver \in 0 .. MaxSamples /\ finishedEver \in 0 .. MaxSamples

\* The sums over a window, each taken for itself.
Sums(window) == [f \in Fields |-> Total([k \in DOMAIN window |-> Moments(window[k])[f]])]

\* The sums kept by adding and removing are those of the samples in the window, and
\* the count of late first tokens is the window's: nothing drifts in a long run.
SumsAreTheWindows ==
  /\ concurrentSums = Sums(started)
  /\ ttftSums = Sums(finished)
  /\ violations = LateIn(finished)

\* A window holds recent samples only, in order of time, and at most its share of all.
IsRecent(window, ever) ==
  /\ \A k \in DOMAIN window : duration - window[k].at <= MaximumWindow
  /\ \A j, k \in DOMAIN window : j < k => window[j].at <= window[k].at
  /\ 100 * Len(window) <= ever * RatioPercent
WindowsAreRecent == IsRecent(started, startedEver) /\ IsRecent(finished, finishedEver)

\* Rising over all pairs of a window: what a positive slope means.
RiseTo(window, k) ==
  Total([j \in 1 .. k - 1 |-> (window[k].at - window[j].at) * (window[k].value - window[j].value)])
Rising(window) == Total([k \in DOMAIN window |-> RiseTo(window, k)]) > 0

\* A run is stopped for over-saturation only on evidence in its present windows: the
\* concurrency rises over enough samples, not most first tokens are in time, and they
\* rise too when there are enough of them.
StopsOnEvidence ==
  alert =>
    /\ mode = "enforce" /\ duration >= MinimumDuration
    /\ Len(started) >= 3 /\ Rising(started)
    /\ 2 * LateIn(finished) >= Len(finished)
    /\ Len(finished) >= MinimumSize /\ duration >= MinimumSize => Rising(finished)

\* Over-saturation is found on the samples of the last window only: the sums that are
\* updated step by step are those of the samples kept, and a stop needs rising concurrency
\* and first tokens among them that are not mostly in time.
SaturationIsReal == SaturationTypeOK /\ SumsAreTheWindows /\ WindowsAreRecent /\ StopsOnEvidence
=============================================================================
