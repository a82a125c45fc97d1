---------------------------- MODULE GoodputSearch ----------------------------
(***************************************************************************)
(* The goodput profile (benchmark/profiles/goodput.py): the search for the *)
(* highest concurrency that meets the latency objectives, as the           *)
(* strategies generator of profile.py drives it.  Each probe is one        *)
(* benchmark run; whether it passes, and whether it was long enough to     *)
(* tell, is up to the server, so two probes need not agree.                *)
(***************************************************************************)
EXTENDS Naturals, FiniteSets

CONSTANTS
  InitialStreams,   \* initial_streams
  MaxStreams,       \* max_streams
  MaxProbes,        \* max_probes
  TolNum, TolDen,   \* tolerance, as the fraction TolNum / TolDen
  Resolutions       \* whether a probe may resolve the question, or fail to

ASSUME SearchAssumption ==
  /\ MaxStreams \in Nat \ {0} /\ InitialStreams \in 1 .. MaxStreams
  /\ MaxProbes \in Nat \ {0}
  /\ TolNum \in Nat \ {0} /\ TolDen \in Nat \ {0} /\ TolNum <= TolDen
  /\ Resolutions \subseteq BOOLEAN

\* best, worst and next are 0 where the code has None.
VARIABLES
  stage,      \* "probing" while a strategy is out, then "ended" or "raised"
  next,       \* _next_streams
  best,       \* search.best_passing_streams
  worst,      \* search.lowest_failing_streams
  probes,     \* search.probes
  reason,     \* search.stop_reason
  completed   \* length of completed_strategies

vars == <<stage, next, best, worst, probes, reason, completed>>

Streams == 1 .. MaxStreams
None == 0

ProbesAt(levels) ==
  [streams : levels, passed : BOOLEAN, resolved : Resolutions, aborted : BOOLEAN]
Probe == ProbesAt(Streams)

Reason ==
  {"none", "constraint_stopped_escalation", "max_probes_exhausted", "max_streams_reached",
   "objectives_unmet_at_minimum", "indeterminate_at_minimum", "converged"}

TypeOK ==
  /\ stage \in {"probing", "ended", "raised"}
  /\ next \in {None} \cup Streams
  /\ best \in {None} \cup Streams /\ worst \in {None} \cup Streams
  /\ probes \subseteq Probe
  /\ reason \in Reason
  /\ completed \in Nat

\* The first next_strategy(None, None) always yields a probe.
Init ==
  /\ stage = "probing" /\ next = InitialStreams
  /\ best = None /\ worst = None
  /\ probes = {} /\ reason = "none" /\ completed = 0

(***************************************************************************)
(* _advance: where the bracket sends the search next.  One of the bounds   *)
(* is known by then, because the last probe has been scored.               *)
(***************************************************************************)
Lesser(a, b) == IF a <= b THEN a ELSE b

\* Mutant: a bracket of two counts as converged.
WithinToleranceLoose(b, w) == w - b <= 2 \/ (w - b) * TolDen <= TolNum * b
\* Mutant: a bracket of one is bisected again.
WithinToleranceExact(b, w) == (w - b) * TolDen <= TolNum * b
WithinTolerance(b, w) == w - b <= 1 \/ (w - b) * TolDen <= TolNum * b

\* Mutant: the bracket is narrowed one level at a time.
BisectedByOne(b, w) == w - 1
Bisected(b, w) == (b + w) \div 2

\* Mutant: the ceiling is not applied.
DoubledFreely(b) == b * 2
Doubled(b) == Lesser(b * 2, MaxStreams)

Ceiling(b, w) == w = None /\ b >= MaxStreams
Floor(b, w) == w # None /\ b = None /\ w <= 1
Converged(b, w) == w # None /\ b # None /\ WithinTolerance(b, w)

Advanced(b, w) ==
  IF Ceiling(b, w) \/ Floor(b, w) \/ Converged(b, w) THEN None
  ELSE IF w = None THEN Doubled(b)
  ELSE IF b = None THEN w \div 2
  ELSE Bisected(b, w)

AdvanceReason(b, w, probed) ==
  CASE Ceiling(b, w) -> "max_streams_reached"
    [] Floor(b, w) -> IF \A p \in probed : p.resolved THEN "objectives_unmet_at_minimum"
                      ELSE "indeterminate_at_minimum"
    [] Converged(b, w) -> "converged"
    [] OTHER -> reason

(***************************************************************************)
(* next_strategy after a probe: score it, advance, then look at the budget.*)
(***************************************************************************)
\* Mutant: an aborted probe is scored like any other.
ScoresAlways(aborted) == TRUE
Scores(aborted) == ~aborted

NewBest(p) == IF Scores(p.aborted) /\ p.passed /\ p.streams > best THEN p.streams ELSE best
NewWorst(p) ==
  IF Scores(p.aborted) /\ ~p.passed /\ (worst = None \/ p.streams < worst)
  THEN p.streams ELSE worst

BudgetLeft == completed + 1 < MaxProbes

ProbeEnds(p) ==
  /\ stage = "probing"
  /\ probes' = probes \cup {p}
  /\ best' = NewBest(p)
  /\ worst' = NewWorst(p)
  /\ completed' = completed + 1
  /\ LET to == IF p.aborted THEN None ELSE Advanced(best', worst')
         why == IF p.aborted THEN "constraint_stopped_escalation"
                ELSE AdvanceReason(best', worst', probes')
     IN  /\ next' = to
         /\ stage' = IF to # None /\ BudgetLeft THEN "probing" ELSE "ended"
         /\ reason' = IF to # None /\ ~BudgetLeft THEN "max_probes_exhausted" ELSE why

\* No request of the probe had a determined verdict: _record_probe raises.
ProbeUndetermined ==
  /\ stage = "probing"
  /\ stage' = "raised"
  /\ completed' = completed + 1
  /\ UNCHANGED <<next, best, worst, probes, reason>>

Ended == stage \in {"ended", "raised"} /\ UNCHANGED vars

Next == (\E p \in ProbesAt({next}) : ProbeEnds(p)) \/ ProbeUndetermined \/ Ended

Spec == Init /\ [][Next]_vars

-----------------------------------------------------------------------------
(***************************************************************************)
(* _log_result: what the user is told once the search has ended.           *)
(***************************************************************************)
Conclusion ==
  CASE best = None /\ reason = "indeterminate_at_minimum" -> "indeterminate"
    [] best = None /\ reason # "indeterminate_at_minimum" -> "unmet_at_one_stream"
    [] best # None /\ reason = "converged" /\ (\A p \in probes : p.resolved) -> "knee"
    [] OTHER -> "caveat"

-----------------------------------------------------------------------------
Scored == {p \in probes : ~p.aborted}

\* Whatever the probes say, the two bounds summarise all of them without
\* contradiction: each was measured by a probe that ran to its end, every such probe
\* up to best passed, every one from worst on failed, and best lies below worst.
EvidenceConsistent ==
  /\ best # None => \E p \in Scored : p.streams = best /\ p.passed
  /\ worst # None => \E p \in Scored : p.streams = worst /\ ~p.passed
  /\ best # None /\ worst # None => best < worst
  /\ \A p \in Scored : IF p.passed THEN p.streams <= best
                        ELSE worst # None /\ p.streams >= worst

\* Every probe is worth its run: it tests a level inside the bracket, within the
\* stream limits, that no earlier probe has tested.
ProbesAreFresh ==
  stage = "probing" =>
    /\ next \in Streams
    /\ next > best
    /\ worst # None => next < worst
    /\ \A p \in probes : p.streams # next

\* A search that reports a knee has measured it: best passed, a level above it
\* failed, and they are adjacent or within the tolerance.
KneeIsMeasured ==
  stage = "ended" /\ Conclusion = "knee" =>
    /\ \E p \in Scored : p.streams = best /\ p.passed /\ p.resolved
    /\ \E p \in Scored : p.streams = worst /\ ~p.passed /\ p.resolved
    /\ worst = best + 1 \/ (worst - best) * TolDen <= TolNum * best

\* The profile never runs more benchmarks than max_probes.
WithinBudget == completed <= MaxProbes

\* "Doubling from initial_streams to max_streams costs log2(max_streams /
\* initial_streams) probes and the bisection that follows costs about
\* log2(1 / tolerance) more": the default budget never cuts a search short.
BudgetSuffices == reason # "max_probes_exhausted"

\* The search never contradicts its evidence: the bracket is made of scored probes, no level
\* is probed twice, and a knee it reports lies between a level that passed and one next to
\* it, or within the tolerance, that failed (goodput.py).
SearchIsSound == TypeOK /\ EvidenceConsistent /\ ProbesAreFresh /\ KneeIsMeasured
=============================================================================
