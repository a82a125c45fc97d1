--------------------------- MODULE StrategyProofs ---------------------------
(***************************************************************************)
(* What decides over the strategies of a profile: the bracket of the       *)
(* goodput search, for every range of streams, budget and tolerance, the   *)
(* error limits that stop a strategy, for every window and limit, the loop *)
(* that carries out the plan of a profile, for every profile, the times at *)
(* which the requests of a strategy may start, and the windows of the      *)
(* over-saturation limit.                                                  *)
(***************************************************************************)
EXTENDS BenchmarkLoop, GoodputSearch, ErrorLimits, ArrivalSchedule, SaturationWindows,
        WellFoundedInduction, SequenceTheorems, FiniteSetTheorems, TLAPS

-----------------------------------------------------------------------------
(***************************************************************************)
(* The goodput search.                                                     *)
(***************************************************************************)

\* While a probe is out none has been aborted and the budget has room for it.
Probing ==
  stage = "probing" =>
    /\ Scored = probes
    /\ completed < MaxProbes
    /\ next # None

\* A search that converged has a bracket within the tolerance.
ConvergedIsClose ==
  reason = "converged" =>
    best # None /\ worst # None /\ WithinTolerance(best, worst)

IInv ==
  /\ TypeOK
  /\ EvidenceConsistent
  /\ ProbesAreFresh
  /\ Probing
  /\ ConvergedIsClose
  /\ WithinBudget
  /\ stage = "probing" => reason = "none"

\* Doubling goes up, but not beyond the limit.
LEMMA DoubledInside ==
  ASSUME NEW b \in Streams, b < MaxStreams
  PROVE  Doubled(b) \in Streams /\ Doubled(b) > b
BY SearchAssumption DEF Doubled, Lesser, Streams

\* Bisection stays strictly inside a bracket that is wider than one.
LEMMA BisectedInside ==
  ASSUME NEW b \in Streams, NEW w \in Streams, b < w, ~WithinTolerance(b, w)
  PROVE  Bisected(b, w) \in Streams /\ b < Bisected(b, w) /\ Bisected(b, w) < w
<1>1. w - b > 1
  BY SearchAssumption DEF WithinTolerance, Streams
<1> QED
  BY <1>1, SearchAssumption DEF Bisected, Streams

\* The descent stays above zero.
LEMMA HalvedInside ==
  ASSUME NEW w \in Streams, w > 1
  PROVE  w \div 2 \in Streams /\ w \div 2 < w
BY SearchAssumption DEF Streams

\* Wherever the search goes next lies strictly inside the bracket.
LEMMA AdvancedInside ==
  ASSUME NEW b \in {None} \cup Streams, NEW w \in {None} \cup Streams,
         b # None \/ w # None, b # None /\ w # None => b < w
  PROVE  /\ Advanced(b, w) \in {None} \cup Streams
         /\ Advanced(b, w) # None =>
              /\ Advanced(b, w) > b
              /\ w # None => Advanced(b, w) < w
<1>1. CASE Ceiling(b, w) \/ Floor(b, w) \/ Converged(b, w)
  BY <1>1 DEF Advanced
<1>2. CASE ~(Ceiling(b, w) \/ Floor(b, w) \/ Converged(b, w)) /\ w = None
  <2>1. b \in Streams /\ b < MaxStreams
    BY <1>2, SearchAssumption DEF Ceiling, Streams, None
  <2>2. Advanced(b, w) = Doubled(b)
    BY <1>2 DEF Advanced
  <2> QED
    BY <1>2, <2>1, <2>2, DoubledInside
<1>3. CASE ~(Ceiling(b, w) \/ Floor(b, w) \/ Converged(b, w)) /\ w # None /\ b = None
  <2>1. w \in Streams /\ w > 1
    BY <1>3, SearchAssumption DEF Floor, Streams, None
  <2>2. Advanced(b, w) = w \div 2
    BY <1>3 DEF Advanced
  <2> QED
    BY <1>3, <2>1, <2>2, HalvedInside DEF None, Streams
<1>4. CASE ~(Ceiling(b, w) \/ Floor(b, w) \/ Converged(b, w)) /\ w # None /\ b # None
  <2>1. b \in Streams /\ w \in Streams /\ b < w /\ ~WithinTolerance(b, w)
    BY <1>4 DEF Converged
  <2>2. Advanced(b, w) = Bisected(b, w)
    BY <1>4 DEF Advanced
  <2> QED
    BY <2>1, <2>2, BisectedInside
<1> QED
  BY <1>1, <1>2, <1>3, <1>4

LEMMA InitIInv == Init => IInv
BY SearchAssumption
   DEF Init, IInv, TypeOK, EvidenceConsistent, ProbesAreFresh, Probing, ConvergedIsClose,
       WithinBudget, Scored, Streams, None, Reason

\* The bounds after a probe agree with the enlarged evidence.
LEMMA ScoredEvidence ==
  ASSUME IInv, NEW p \in ProbesAt({next}), ProbeEnds(p)
  PROVE  /\ best' \in {None} \cup Streams /\ worst' \in {None} \cup Streams
         /\ probes' \subseteq Probe
         /\ EvidenceConsistent'
         /\ ~p.aborted => (best' # None \/ worst' # None)
<1> DEFINE s == p.streams
<1>1. /\ p \in Probe /\ s \in Streams /\ p.passed \in BOOLEAN /\ p.aborted \in BOOLEAN
      /\ s = next /\ s > best /\ (worst # None => s < worst)
  BY DEF Probe, ProbesAt, ProbeEnds, IInv, ProbesAreFresh
<1>2. /\ best \in {None} \cup Streams /\ worst \in {None} \cup Streams
      /\ probes \subseteq Probe
  BY DEF IInv, TypeOK
<1>3. probes' = probes \cup {p} /\ best' = NewBest(p) /\ worst' = NewWorst(p)
  BY DEF ProbeEnds
<1>4. CASE p.aborted
  <2>1. best' = best /\ worst' = worst /\ Scored' = Scored
    BY <1>3, <1>4 DEF NewBest, NewWorst, Scores, Scored
  <2> QED
    BY <1>1, <1>2, <1>3, <1>4, <2>1 DEF IInv, EvidenceConsistent
<1>5. CASE ~p.aborted /\ p.passed
  <2>1. best' = s /\ worst' = worst /\ Scored' = Scored \cup {p}
    BY <1>1, <1>2, <1>3, <1>5 DEF NewBest, NewWorst, Scores, Scored
  <2>2. \A q \in Scored' : IF q.passed THEN q.streams <= best'
                           ELSE worst' # None /\ q.streams >= worst'
    <3>1. ASSUME NEW q \in Scored, q.passed PROVE q.streams <= best'
      <4>1. q.streams <= best /\ q.streams \in Nat /\ best \in Nat /\ s \in Nat
        BY <1>1, <1>2, <3>1, SearchAssumption
           DEF IInv, EvidenceConsistent, Scored, Probe, ProbesAt, Streams, None
      <4> QED
        BY <1>1, <2>1, <4>1
    <3>2. ASSUME NEW q \in Scored, ~q.passed PROVE worst' # None /\ q.streams >= worst'
      BY <2>1, <3>2 DEF IInv, EvidenceConsistent
    <3>3. p.streams <= best'
      BY <1>1, <2>1 DEF Streams
    <3> QED
      BY <1>5, <2>1, <3>1, <3>2, <3>3
  <2>3. best' # None /\ p \in Scored' /\ p.streams = best'
    BY <1>1, <2>1 DEF Streams, None
  <2>4. worst' # None => \E q \in Scored' : q.streams = worst' /\ ~q.passed
    BY <2>1 DEF IInv, EvidenceConsistent
  <2>5. worst' # None => best' < worst'
    BY <1>1, <2>1
  <2> QED
    BY <1>1, <1>2, <1>3, <1>5, <2>1, <2>2, <2>3, <2>4, <2>5 DEF EvidenceConsistent
<1>6. CASE ~p.aborted /\ ~p.passed
  <2>1. best' = best /\ worst' = s /\ Scored' = Scored \cup {p}
    BY <1>1, <1>2, <1>3, <1>6 DEF NewBest, NewWorst, Scores, Scored
  <2>2. \A q \in Scored' : IF q.passed THEN q.streams <= best'
                           ELSE worst' # None /\ q.streams >= worst'
    <3>1. ASSUME NEW q \in Scored, q.passed PROVE q.streams <= best'
      BY <2>1, <3>1 DEF IInv, EvidenceConsistent
    <3>2. ASSUME NEW q \in Scored, ~q.passed PROVE worst' # None /\ q.streams >= worst'
      <4>1. /\ worst # None /\ q.streams >= worst
            /\ q.streams \in Nat /\ worst \in Nat /\ s \in Nat /\ s # None
        BY <1>1, <1>2, <3>2, SearchAssumption
           DEF IInv, EvidenceConsistent, Scored, Probe, ProbesAt, Streams, None
      <4> QED
        BY <1>1, <2>1, <4>1
    <3>3. worst' # None /\ p.streams >= worst'
      BY <1>1, <2>1 DEF Streams, None
    <3> QED
      BY <1>6, <2>1, <3>1, <3>2, <3>3
  <2>3. worst' # None /\ p \in Scored' /\ p.streams = worst'
    BY <1>1, <2>1 DEF Streams, None
  <2>4. best' # None => \E q \in Scored' : q.streams = best' /\ q.passed
    BY <2>1 DEF IInv, EvidenceConsistent
  <2>5. best' < worst'
    BY <1>1, <2>1
  <2> QED
    BY <1>1, <1>2, <1>3, <1>6, <2>1, <2>2, <2>3, <2>4, <2>5 DEF EvidenceConsistent
<1> QED
  BY <1>1, <1>4, <1>5, <1>6

\* Where the search goes next, nobody has been.
LEMMA ProbeIInv ==
  ASSUME IInv, NEW p \in ProbesAt({next}), ProbeEnds(p)
  PROVE  IInv'
<1> DEFINE to == IF p.aborted THEN None ELSE Advanced(best', worst')
           why == IF p.aborted THEN "constraint_stopped_escalation"
                  ELSE AdvanceReason(best', worst', probes')
<1>1. /\ best' \in {None} \cup Streams /\ worst' \in {None} \cup Streams
      /\ probes' \subseteq Probe
      /\ EvidenceConsistent'
      /\ ~p.aborted => (best' # None \/ worst' # None)
  BY ScoredEvidence
<1>2. /\ stage = "probing" /\ reason = "none"
      /\ completed \in Nat /\ completed < MaxProbes /\ MaxProbes \in Nat
      /\ Scored = probes
  BY SearchAssumption DEF IInv, TypeOK, Probing, ProbeEnds
<1>3. /\ next' = to /\ completed' = completed + 1 /\ probes' = probes \cup {p}
      /\ stage' = IF to # None /\ BudgetLeft THEN "probing" ELSE "ended"
      /\ reason' = IF to # None /\ ~BudgetLeft THEN "max_probes_exhausted" ELSE why
  BY DEF ProbeEnds
<1>4. to \in {None} \cup Streams
  BY <1>1, AdvancedInside DEF EvidenceConsistent
<1>5. to # None =>
        /\ ~p.aborted /\ to > best' /\ (worst' # None => to < worst')
  BY <1>1, AdvancedInside DEF EvidenceConsistent
<1>6. Scored' = IF p.aborted THEN Scored ELSE probes'
  BY <1>2, <1>3 DEF Scored
<1>7. why \in Reason /\ (why = "converged" => Converged(best', worst'))
  BY <1>2 DEF AdvanceReason, Reason
<1>8. to # None => why = "none"
  BY <1>2 DEF Advanced, AdvanceReason
<1>9. TypeOK'
  BY <1>1, <1>2, <1>3, <1>4, <1>7 DEF TypeOK, Reason
<1>10. ProbesAreFresh'
  <2> SUFFICES ASSUME stage' = "probing"
               PROVE  /\ next' \in Streams /\ next' > best'
                      /\ worst' # None => next' < worst'
                      /\ \A q \in probes' : q.streams # next'
    BY DEF ProbesAreFresh
  <2>1. next' \in Streams /\ next' > best' /\ (worst' # None => next' < worst')
    BY <1>3, <1>4, <1>5
  <2>2. Scored' = probes'
    BY <1>3, <1>5, <1>6
  <2>3. ASSUME NEW q \in probes' PROVE q.streams # next'
    <3>1. IF q.passed THEN q.streams <= best' ELSE worst' # None /\ q.streams >= worst'
      BY <1>1, <2>2, <2>3 DEF EvidenceConsistent
    <3>2. /\ q.streams \in Nat /\ next' \in Nat /\ best' \in Nat /\ worst' \in Nat
      BY <1>1, <2>1, <2>3, SearchAssumption DEF Probe, ProbesAt, Streams, None
    <3> QED
      BY <2>1, <3>1, <3>2
  <2> QED
    BY <2>1, <2>3
<1>11. Probing' /\ WithinBudget'
  BY <1>2, <1>3, <1>5, <1>6 DEF Probing, WithinBudget, BudgetLeft
<1>12. ConvergedIsClose'
  BY <1>3, <1>7 DEF ConvergedIsClose, Converged
<1> QED
  BY <1>1, <1>3, <1>8, <1>9, <1>10, <1>11, <1>12 DEF IInv

\* The inductive invariant.
THEOREM Invariant == Spec => []IInv
<1>1. IInv /\ [Next]_vars => IInv'
  <2> SUFFICES ASSUME IInv, [Next]_vars PROVE IInv'
    OBVIOUS
  <2>1. CASE \E p \in ProbesAt({next}) : ProbeEnds(p)
    BY <2>1, ProbeIInv
  <2>2. CASE ProbeUndetermined
    <3>1. completed < MaxProbes /\ completed \in Nat /\ MaxProbes \in Nat
      BY <2>2, SearchAssumption DEF IInv, TypeOK, Probing, ProbeUndetermined
    <3>2. UNCHANGED <<next, best, worst, probes, reason, Scored>>
      BY <2>2 DEF ProbeUndetermined, Scored
    <3> QED
      BY <2>2, <3>1, <3>2
         DEF ProbeUndetermined, IInv, TypeOK, EvidenceConsistent, ProbesAreFresh, Probing,
             ConvergedIsClose, WithinBudget
  <2>3. CASE UNCHANGED vars
    BY <2>3 DEF vars, IInv, TypeOK, EvidenceConsistent, ProbesAreFresh, Probing,
                ConvergedIsClose, WithinBudget, Scored
  <2> QED
    BY <2>1, <2>2, <2>3 DEF Next, Ended
<1> QED
  BY <1>1, InitIInv, PTL DEF Spec

\* For every range, tolerance and budget, and whatever the server does, the bounds of
\* the search agree with every probe (_record_probe, _advance).
THEOREM EvidenceIsConsistent == Spec => []EvidenceConsistent
<1>1. IInv => EvidenceConsistent
  BY DEF IInv
<1> QED
  BY <1>1, Invariant, PTL

\* The search never repeats a level and never leaves its bracket; as the levels are
\* finitely many, it ends.
THEOREM EveryProbeIsFresh == Spec => []ProbesAreFresh
<1>1. IInv => ProbesAreFresh
  BY DEF IInv
<1> QED
  BY <1>1, Invariant, PTL

\* No more than max_probes benchmarks are run.
THEOREM StaysWithinBudget == Spec => []WithinBudget
<1>1. IInv => WithinBudget
  BY DEF IInv
<1> QED
  BY <1>1, Invariant, PTL

\* A search that reports a knee has measured both of its sides (_log_result).
THEOREM KneesAreMeasured == Spec => []KneeIsMeasured
<1>1. IInv => KneeIsMeasured
  <2> SUFFICES ASSUME IInv, stage = "ended", Conclusion = "knee"
               PROVE  /\ \E p \in Scored : p.streams = best /\ p.passed /\ p.resolved
                      /\ \E p \in Scored : p.streams = worst /\ ~p.passed /\ p.resolved
                      /\ worst = best + 1 \/ (worst - best) * TolDen <= TolNum * best
    BY DEF KneeIsMeasured
  <2>1. reason = "converged" /\ \A p \in probes : p.resolved
    BY DEF Conclusion
  <2>2. best # None /\ worst # None /\ WithinTolerance(best, worst) /\ best < worst
    BY <2>1 DEF IInv, ConvergedIsClose, EvidenceConsistent
  <2>3. \E p \in Scored : p.streams = best /\ p.passed /\ p.resolved
    BY <2>1, <2>2 DEF IInv, EvidenceConsistent, Scored
  <2>4. \E p \in Scored : p.streams = worst /\ ~p.passed /\ p.resolved
    BY <2>1, <2>2 DEF IInv, EvidenceConsistent, Scored
  <2>5. best \in Nat /\ worst \in Nat
    BY SearchAssumption DEF IInv, TypeOK, Streams, None
  <2>6. CASE worst - best <= 1
    BY <2>2, <2>3, <2>4, <2>5, <2>6
  <2>7. CASE (worst - best) * TolDen <= TolNum * best
    BY <2>3, <2>4, <2>7
  <2> QED
    BY <2>2, <2>6, <2>7 DEF WithinTolerance
<1> QED
  BY <1>1, Invariant, PTL

\* For every range, tolerance and budget the search is sound: it does not contradict its
\* evidence, does not repeat itself, and has measured the knee it reports.
THEOREM SearchStaysSound == Spec => []SearchIsSound
<1>1. IInv => TypeOK
  BY DEF IInv
<1>2. TypeOK /\ EvidenceConsistent /\ ProbesAreFresh /\ KneeIsMeasured => SearchIsSound
  BY DEF SearchIsSound
<1> QED
  BY <1>1, <1>2, Invariant, EvidenceIsConsistent, EveryProbeIsFresh, KneesAreMeasured, PTL
-----------------------------------------------------------------------------
(***************************************************************************)
(* The error limits.                                                       *)
(***************************************************************************)

Sample == [strategy : 1 .. MaxStrategies, errored : BOOLEAN]

\* The failed samples of a strategy.
Failed(w, o) == {k \in DOMAIN w : w[k].errored /\ w[k].strategy = o}

\* What the strategy has brought itself is at the end of the window and fills it before
\* the rate may stop it, and its failed samples are among the errors it has counted or
\* ignored.
OwnSamples ==
  /\ \A k \in DOMAIN window : window[k].strategy <= ordinal
  /\ \A k \in DOMAIN window :
       k + processed + ignored > Len(window) => window[k].strategy = ordinal
  /\ Len(window) >= Window \/ Len(window) >= processed + ignored
  /\ Cardinality(Failed(window, ordinal)) <= errored + ignored

ErrorInv ==
  /\ ErrorTypeOK
  /\ window \in Seq(Sample)
  /\ processed \in Nat /\ errored \in Nat /\ ignored \in Nat
  /\ OwnSamples
  /\ stopping \in {{}, Exceeded(window, processed, errored)}

LEMMA FailedIsFinite ==
  ASSUME NEW w \in Seq(Sample), NEW o
  PROVE  IsFiniteSet(Failed(w, o)) /\ Cardinality(Failed(w, o)) \in Nat
<1>1. IsFiniteSet(1 .. Len(w))
  BY FS_Interval
<1>2. Failed(w, o) \subseteq 1 .. Len(w)
  BY DEF Failed
<1> QED
  BY <1>1, <1>2, FS_Subset, FS_CardinalityType

\* A sample adds itself at most.
LEMMA FailedAfterAppend ==
  ASSUME NEW w \in Seq(Sample), NEW s \in Sample, NEW o
  PROVE  Cardinality(Failed(Append(w, s), o))
           <= Cardinality(Failed(w, o)) + (IF s.errored THEN 1 ELSE 0)
<1> DEFINE F == Failed(w, o)
           G == Failed(Append(w, s), o)
<1>1. IsFiniteSet(F) /\ Cardinality(F) \in Nat
  BY FailedIsFinite
<1>2. CASE s.errored
  <2>1. G \subseteq F \cup {Len(w) + 1}
    BY DEF Failed
  <2>2. /\ IsFiniteSet(F \cup {Len(w) + 1})
        /\ Cardinality(F \cup {Len(w) + 1}) <= Cardinality(F) + 1
    <3> DEFINE x == Len(w) + 1
    <3> HIDE DEF F, x
    <3>1. /\ IsFiniteSet(F \cup {x})
          /\ Cardinality(F \cup {x}) = IF x \in F THEN Cardinality(F) ELSE Cardinality(F) + 1
      BY <1>1, FS_AddElement
    <3>2. Cardinality(F \cup {x}) <= Cardinality(F) + 1
      BY <1>1, <3>1
    <3> QED
      BY <3>1, <3>2 DEF x
  <2>3. Cardinality(G) <= Cardinality(F \cup {Len(w) + 1})
    BY <2>1, <2>2, FS_Subset
  <2>4. Append(w, s) \in Seq(Sample)
    OBVIOUS
  <2>5. Cardinality(G) \in Nat
    BY <2>4, FailedIsFinite
  <2>6. Cardinality(F \cup {Len(w) + 1}) \in Nat
    BY <2>2, FS_CardinalityType
  <2> HIDE DEF F, G
  <2>7. Cardinality(G) <= Cardinality(F) + 1
    BY <1>1, <2>2, <2>3, <2>5, <2>6
  <2> QED
    BY <1>2, <2>7 DEF F, G
<1>3. CASE ~s.errored
  <2>1. G \subseteq F
    BY <1>3 DEF Failed
  <2>2. Cardinality(G) <= Cardinality(F)
    BY <1>1, <2>1, FS_Subset
  <2> HIDE DEF F, G
  <2>3. (IF s.errored THEN 1 ELSE 0) = 0
    BY <1>3
  <2> QED
    BY <1>1, <2>2, <2>3 DEF F, G
<1> QED
  BY <1>2, <1>3

\* The oldest sample takes itself away at most.
LEMMA FailedAfterTail ==
  ASSUME NEW w \in Seq(Sample), w # <<>>, NEW o
  PROVE  Cardinality(Failed(Tail(w), o)) <= Cardinality(Failed(w, o))
<1> DEFINE f == [k \in Failed(Tail(w), o) |-> k + 1]
<1>1. IsFiniteSet(Failed(w, o))
  BY FailedIsFinite
<1>2. f \in Injection(Failed(Tail(w), o), Failed(w, o))
  <2>1. \A k \in Failed(Tail(w), o) : k \in Nat /\ k + 1 \in Failed(w, o)
    BY DEF Failed
  <2> QED
    BY <2>1 DEF Injection, IsInjective
<1> QED
  BY <1>1, <1>2, FS_Injection
LEMMA ErrorInvInit == ErrorInit => ErrorInv
<1> SUFFICES ASSUME ErrorInit PROVE ErrorInv
  OBVIOUS
<1>1. ErrorTypeOK /\ window \in Seq(Sample) /\ stopping = {}
  BY ErrorAssumption DEF ErrorInit, ErrorTypeOK
<1>2. Failed(window, ordinal) = {}
  BY DEF ErrorInit, Failed
<1>3. OwnSamples
  BY <1>2, FS_EmptySet DEF ErrorInit, OwnSamples
<1> QED
  BY <1>1, <1>3 DEF ErrorInv, ErrorInit

\* The next strategy takes the window over, with no sample of its own in it.
LEMMA ErrorInvBegins == ErrorInv /\ StrategyBegins => ErrorInv'
<1> SUFFICES ASSUME ErrorInv, StrategyBegins PROVE ErrorInv'
  OBVIOUS
<1> USE DEF ErrorInv
<1>1. ordinal \in Nat /\ ordinal' = ordinal + 1 /\ ordinal' \in 1 .. MaxStrategies
  BY ErrorAssumption DEF StrategyBegins, ErrorTypeOK
<1>2. window' = window /\ processed' = 0 /\ errored' = 0 /\ ignored' = 0 /\ stopping' = {}
  BY DEF StrategyBegins
<1>3. \A k \in DOMAIN window : window[k] \in Sample /\ window[k].strategy <= ordinal
  BY DEF OwnSamples
<1>4. Failed(window, ordinal)' = {}
  BY <1>1, <1>2, <1>3 DEF Failed, Sample
<1>5. OwnSamples'
  <2>1. \A k \in DOMAIN window' : window'[k].strategy <= ordinal'
    BY <1>1, <1>2, <1>3 DEF Sample
  <2>2. Len(window) \in Nat /\ DOMAIN window = 1 .. Len(window)
    OBVIOUS
  <2>3. \A k \in DOMAIN window' : ~(k + processed' + ignored' > Len(window'))
    BY <1>2, <2>2
  <2>4. Len(window') >= processed' + ignored'
    BY <1>2, <2>2
  <2>5. Cardinality(Failed(window, ordinal)') = 0
    BY <1>4, FS_EmptySet
  <2> QED
    BY <1>2, <2>1, <2>3, <2>4, <2>5 DEF OwnSamples
<1>6. ErrorTypeOK'
  BY <1>1, <1>2, ErrorAssumption DEF ErrorTypeOK
<1> QED
  BY <1>2, <1>5, <1>6

LEMMA ErrorInvTerminal ==
  ASSUME ErrorInv, NEW isError \in BOOLEAN, NEW countedNow \in BOOLEAN, Terminal(isError, countedNow)
  PROVE  ErrorInv'
<1> USE DEF ErrorInv
<1> DEFINE s == [strategy |-> ordinal, errored |-> isError]
           a == Append(window, s)
           failed == Cardinality(Failed(window, ordinal))
<1>1. s \in Sample /\ a \in Seq(Sample) /\ Len(a) = Len(window) + 1 /\ a # <<>>
  BY DEF Sample, ErrorTypeOK
<1>2. window' = (IF Len(a) > Window THEN Tail(a) ELSE a) /\ ordinal' = ordinal
  BY DEF Terminal, Trimmed
<1>3. PICK p \in Nat, e \in Nat, i \in Nat :
        /\ processed' = p /\ errored' = e /\ ignored' = i
        /\ p + i = processed + ignored + 1 /\ p + i <= MaxProcessed /\ e <= p
        /\ e + i >= errored + ignored
        /\ isError = TRUE => e + i >= errored + ignored + 1
  <2>1. processed + ignored + 1 <= MaxProcessed /\ errored <= processed
    BY ErrorAssumption DEF Terminal, ErrorTypeOK
  <2>2. CASE countedNow = TRUE /\ isError = TRUE
    <3>1. processed' = processed + 1 /\ errored' = errored + 1 /\ ignored' = ignored
      BY <2>2 DEF Terminal
    <3> WITNESS processed + 1 \in Nat, errored + 1 \in Nat, ignored \in Nat
    <3> QED
      BY <2>1, <3>1, ErrorAssumption
  <2>3. CASE countedNow = TRUE /\ isError = FALSE
    <3>1. processed' = processed + 1 /\ errored' = errored /\ ignored' = ignored
      BY <2>3 DEF Terminal
    <3> WITNESS processed + 1 \in Nat, errored \in Nat, ignored \in Nat
    <3> QED
      BY <2>1, <2>3, <3>1, ErrorAssumption
  <2>4. CASE countedNow = FALSE
    <3>1. processed' = processed /\ errored' = errored /\ ignored' = ignored + 1
      BY <2>4 DEF Terminal
    <3> WITNESS processed \in Nat, errored \in Nat, ignored + 1 \in Nat
    <3> QED
      BY <2>1, <3>1, ErrorAssumption
  <2> QED
    BY <2>2, <2>3, <2>4
<1>4. stopping' = Exceeded(window, processed, errored)'
  BY DEF Terminal, Exceeded, CountExceeded, RateExceeded, Argument, Errors
<1>5. window' \in Seq(Sample) /\ Len(window') \in 0 .. Window
  BY <1>1, <1>2, ErrorAssumption DEF ErrorTypeOK
<1>6. ErrorTypeOK'
  <2>1. ordinal' \in 1 .. MaxStrategies
    BY <1>2 DEF ErrorTypeOK
  <2>2. e \in 0 .. p /\ p + i \in 0 .. MaxProcessed
    BY <1>3, ErrorAssumption
  <2> QED
    BY <1>3, <1>5, <2>1, <2>2 DEF ErrorTypeOK
<1>7. failed \in Nat /\ failed <= errored + ignored
  BY FailedIsFinite DEF OwnSamples
<1>8. Cardinality(Failed(window, ordinal)') <= e + i
  <2>1. Cardinality(Failed(a, ordinal)) <= failed + (IF s.errored THEN 1 ELSE 0)
    BY <1>1, FailedAfterAppend
  <2>2. s.errored = isError
    OBVIOUS
  <2>3. Cardinality(Failed(Tail(a), ordinal)) <= Cardinality(Failed(a, ordinal))
    BY <1>1, FailedAfterTail
  <2>4. Cardinality(Failed(a, ordinal)) \in Nat
    BY <1>1, FailedIsFinite
  <2>5. Failed(window, ordinal)' = Failed(window', ordinal)
    BY <1>2 DEF Failed
  <2>6. Cardinality(Failed(window', ordinal)) \in Nat
    BY <1>5, FailedIsFinite
  <2> HIDE DEF a, s, failed
  <2>7. Cardinality(Failed(window', ordinal)) <= Cardinality(Failed(a, ordinal))
    BY <1>2, <2>3, <2>4
  <2>8. errored \in Nat /\ ignored \in Nat
    OBVIOUS
  <2>9. Cardinality(Failed(a, ordinal)) <= e + i
    <3> DEFINE n == Cardinality(Failed(a, ordinal))
    <3> HIDE DEF n
    <3>1. n \in Nat /\ n <= failed + 1 /\ (isError = FALSE => n <= failed)
      BY <1>7, <2>1, <2>2, <2>4 DEF n
    <3>2. n <= e + i
      <4>1. CASE isError = TRUE
        <5>1. e + i >= errored + ignored + 1
          BY <1>3, <4>1
        <5> QED
          BY <1>3, <1>7, <2>8, <3>1, <5>1
      <4>2. CASE isError = FALSE
        BY <1>3, <1>7, <2>8, <3>1, <4>2
      <4> QED
        BY <4>1, <4>2
    <3> QED
      BY <3>2 DEF n
  <2>10. Cardinality(Failed(window', ordinal)) <= e + i
    BY <1>3, <2>4, <2>6, <2>7, <2>9
  <2> QED
    BY <2>5, <2>10
<1>9. OwnSamples'
  <2>1. \A k \in DOMAIN a :
          /\ a[k].strategy <= ordinal
          /\ k + processed + ignored > Len(window) => a[k].strategy = ordinal
    <3> SUFFICES ASSUME NEW k \in DOMAIN a
                 PROVE  /\ a[k].strategy <= ordinal
                        /\ k + processed + ignored > Len(window) => a[k].strategy = ordinal
      OBVIOUS
    <3>1. CASE k = Len(window) + 1
      BY <1>1, <3>1 DEF ErrorTypeOK
    <3>2. CASE k # Len(window) + 1
      <4>1. k \in DOMAIN window /\ a[k] = window[k]
        BY <1>1, <3>2
      <4> QED
        BY <4>1 DEF OwnSamples
    <3> QED
      BY <3>1, <3>2
  <2>2. CASE Len(a) > Window
    <3>1. window' = Tail(a) /\ Len(window') = Len(window)
      BY <1>1, <1>2, <2>2
    <3>2. \A k \in DOMAIN window' : k + 1 \in DOMAIN a /\ window'[k] = a[k + 1] /\ k \in Nat
      BY <1>1, <3>1
    <3>3. Len(window') >= Window
      BY <1>1, <2>2, <3>1, ErrorAssumption DEF ErrorTypeOK
    <3>4. \A k \in DOMAIN window' :
            /\ window'[k].strategy <= ordinal'
            /\ k + p + i > Len(window') => window'[k].strategy = ordinal'
      <4> SUFFICES ASSUME NEW k \in DOMAIN window'
                   PROVE  /\ window'[k].strategy <= ordinal'
                          /\ k + p + i > Len(window') => window'[k].strategy = ordinal'
        OBVIOUS
      <4>1. k \in Nat /\ k + 1 \in DOMAIN a /\ window'[k] = a[k + 1] /\ Len(window) \in Nat
        BY <3>2
      <4>2. /\ a[k + 1].strategy <= ordinal
            /\ (k + 1) + processed + ignored > Len(window) => a[k + 1].strategy = ordinal
        BY <2>1, <4>1
      <4>3. k + p + i > Len(window') => (k + 1) + processed + ignored > Len(window)
        BY <1>3, <3>1, <4>1
      <4> QED
        BY <1>2, <4>1, <4>2, <4>3
    <3> QED
      BY <1>3, <1>8, <3>3, <3>4 DEF OwnSamples
  <2>3. CASE ~(Len(a) > Window)
    <3>1. window' = a /\ Len(window') = Len(window) + 1 /\ Len(window) < Window
      BY <1>1, <1>2, <2>3, ErrorAssumption
    <3>2. Len(window') >= p + i
      <4>1. Len(window) \in Nat /\ Len(window) >= processed + ignored
        BY <3>1, ErrorAssumption DEF OwnSamples
      <4> QED
        BY <1>3, <3>1, <4>1
    <3>3. \A k \in DOMAIN window' :
            /\ window'[k].strategy <= ordinal'
            /\ k + p + i > Len(window') => window'[k].strategy = ordinal'
      <4> SUFFICES ASSUME NEW k \in DOMAIN window'
                   PROVE  /\ window'[k].strategy <= ordinal'
                          /\ k + p + i > Len(window') => window'[k].strategy = ordinal'
        OBVIOUS
      <4>1. k \in Nat /\ k \in DOMAIN a /\ window'[k] = a[k] /\ Len(window) \in Nat
        BY <1>1, <3>1
      <4>2. /\ a[k].strategy <= ordinal
            /\ k + processed + ignored > Len(window) => a[k].strategy = ordinal
        BY <2>1, <4>1
      <4>3. k + p + i > Len(window') => k + processed + ignored > Len(window)
        BY <1>3, <3>1, <4>1
      <4> QED
        BY <1>2, <4>1, <4>2, <4>3
    <3> QED
      BY <1>3, <1>8, <3>2, <3>3 DEF OwnSamples
  <2> QED
    BY <2>2, <2>3
<1> QED
  BY <1>3, <1>4, <1>5, <1>6, <1>9

LEMMA ErrorInvNext == ErrorInv /\ [ErrorNext]_errorVars => ErrorInv'
<1> SUFFICES ASSUME ErrorInv, [ErrorNext]_errorVars PROVE ErrorInv'
  OBVIOUS
<1>1. CASE StrategyBegins
  BY <1>1, ErrorInvBegins
<1>2. CASE Recheck
  <2>1. UNCHANGED <<ordinal, window, processed, errored, ignored>>
    BY <1>2 DEF Recheck
  <2>2. ErrorTypeOK' /\ OwnSamples'
    BY <2>1 DEF ErrorInv, ErrorTypeOK, OwnSamples, Failed
  <2>3. stopping' = Exceeded(window, processed, errored)'
    BY <1>2 DEF Recheck, Exceeded, CountExceeded, RateExceeded, Argument, Errors
  <2> QED
    BY <2>1, <2>2, <2>3 DEF ErrorInv
<1>3. CASE \E isError, countedNow \in BOOLEAN : Terminal(isError, countedNow)
  BY <1>3, ErrorInvTerminal
<1>4. CASE UNCHANGED errorVars
  BY <1>4 DEF errorVars, ErrorInv, ErrorTypeOK, OwnSamples, Failed, Exceeded, CountExceeded,
     RateExceeded, Argument, Errors
<1> QED
  BY <1>1, <1>2, <1>3, <1>4 DEF ErrorNext

\* A stop by the error rate had a full window of the strategy's own samples.
LEMMA StopsHaveEvidence == ErrorInv => ErrorStopsAreEarned
<1> SUFFICES ASSUME ErrorInv PROVE ErrorStopsAreEarned
  OBVIOUS
<1> USE DEF ErrorInv
<1>1. ASSUME "max_error_rate" \in stopping
      PROVE  /\ \A k \in DOMAIN window : window[k].strategy = ordinal
             /\ 100 * (errored + ignored) >= Argument(RatePercents) * Window
  <2>1. RateExceeded(window, processed)
    <3>1. "max_error_rate" \in Exceeded(window, processed, errored)
      BY <1>1
    <3> QED
      BY <3>1 DEF Exceeded
  <2>2. Len(window) = Window /\ processed >= Window
    BY <2>1, ErrorAssumption DEF RateExceeded, OwnSamples, ErrorTypeOK
  <2>3. \A k \in DOMAIN window : window[k].strategy = ordinal
    BY <2>2, ErrorAssumption DEF OwnSamples
  <2>4. Errors(window) = Cardinality(Failed(window, ordinal))
    BY <2>3 DEF Errors, Failed
  <2>5. Errors(window) \in Nat /\ Errors(window) <= errored + ignored
    BY <2>4, FailedIsFinite DEF OwnSamples
  <2>6. 100 * Errors(window) >= Argument(RatePercents) * Window
    BY <2>1, <2>2 DEF RateExceeded
  <2>7. Argument(RatePercents) \in Nat
    BY ErrorAssumption DEF Argument, ErrorTypeOK
  <2>8. Argument(RatePercents) * Window \in Nat
    BY <2>7, ErrorAssumption
  <2> QED
    BY <2>3, <2>5, <2>6, <2>8
<1> QED
  BY <1>1 DEF ErrorStopsAreEarned, StopsForOwnErrors, RateIsEarned

\* A strategy is stopped by the error rate only over a full window of its own samples, with
\* as many errors of its own, although the strategies of a profile share one window
\* (MaxErrorRateConstraint.create_constraint).
THEOREM StopsAreEarned == ErrorSpec => []ErrorStopsAreEarned
<1>1. ErrorInit => ErrorInv
  BY ErrorInvInit
<1>2. ErrorInv /\ [ErrorNext]_errorVars => ErrorInv'
  BY ErrorInvNext
<1>3. ErrorInv => ErrorStopsAreEarned
  BY StopsHaveEvidence
<1> QED
  BY <1>1, <1>2, <1>3, PTL DEF ErrorSpec

-----------------------------------------------------------------------------
(***************************************************************************)
(* The loop of the benchmarker: what the runs of a profile are, and what   *)
(* the progress trackers are told of them.                                 *)
(***************************************************************************)

LEMMA LessIsWellFounded == IsWellFoundedOn({p \in Nat \X Nat : p[1] < p[2]}, Nat)
<1>1. OpToRel(<, Nat) = {p \in Nat \X Nat : p[1] < p[2]}
  BY DEF OpToRel
<1> QED
  BY <1>1, NatLessThanWellFounded

\* A nonempty set of natural numbers has a least element.
LEMMA Least ==
  ASSUME NEW T, T \subseteq Nat, T # {}
  PROVE  \E x \in T : \A y \in T : x <= y
<1> DEFINE R == {p \in Nat \X Nat : p[1] < p[2]}
<1>1. IsWellFoundedOn(R, Nat)
  BY LessIsWellFounded
<1> HIDE DEF R
<1>2. PICK x \in T : \A y \in T : ~(<<y, x>> \in R)
  <2>1. \E x \in T : \A y \in T : ~(<<y, x>> \in R)
    BY <1>1, WFMin, Zenon
  <2> QED
    BY <2>1
<1>3. \A y \in T : x <= y
  <2> SUFFICES ASSUME NEW y \in T PROVE x <= y
    OBVIOUS
  <2>1. <<y, x>> \notin R /\ y \in Nat /\ x \in Nat
    BY <1>2
  <2>2. ~(y < x)
    BY <2>1 DEF R
  <2> QED
    BY <2>1, <2>2
<1> QED
  BY <1>3

\* Induction, stated about sets: what holds of zero and of every successor holds of all.
LEMMA Induction ==
  ASSUME NEW S, 0 \in S, \A n \in Nat : n \in S => n + 1 \in S
  PROVE  Nat \subseteq S
<1> DEFINE T == Nat \ S
<1> SUFFICES ASSUME T # {} PROVE FALSE
  OBVIOUS
<1>1. PICK x \in T : \A y \in T : x <= y
  BY Least
<1>2. x # 0 /\ x \in Nat
  OBVIOUS
<1>3. x - 1 \in Nat /\ x - 1 \notin T
  BY <1>1, <1>2
<1> QED
  BY <1>2, <1>3

-----------------------------------------------------------------------------
\* FlattenSeq, the community modules' join of sequences end to end.
FlattenStep(seqs, f, i) == IF i = 1 THEN seqs[i] ELSE f[i - 1] \o seqs[i]
Flattens(seqs, f) == f = [i \in 1 .. Len(seqs) |-> FlattenStep(seqs, f, i)]

LEMMA JoinOne ==
  ASSUME NEW S, NEW s \in Seq(S), NEW t \in Seq(S), Len(t) = 1
  PROVE  /\ s \o t \in Seq(S) /\ Len(s \o t) = Len(s) + 1
         /\ \A i \in 1 .. Len(s) : (s \o t)[i] = s[i]
         /\ (s \o t)[Len(s) + 1] = t[1]
<1>1. s \o t \in Seq(S) /\ Len(s \o t) = Len(s) + Len(t)
  BY ConcatProperties
<1>2. \A i \in 1 .. Len(s) + Len(t) :
        (s \o t)[i] = IF i <= Len(s) THEN s[i] ELSE t[i - Len(s)]
  BY ConcatProperties
<1>3. Len(s) \in Nat /\ (Len(s) + 1) - Len(s) = 1
  OBVIOUS
<1>4. Len(s) + 1 \in 1 .. Len(s) + Len(t) /\ ~(Len(s) + 1 <= Len(s))
  BY <1>3
<1>5. (s \o t)[Len(s) + 1] = t[(Len(s) + 1) - Len(s)]
  BY <1>2, <1>4
<1>6. \A i \in 1 .. Len(s) : (s \o t)[i] = s[i]
  BY <1>2, <1>3
<1> QED
  BY <1>1, <1>3, <1>5, <1>6

LEMMA FlattenExists ==
  ASSUME NEW S, NEW seqs \in Seq(Seq(S))
  PROVE  \E f : Flattens(seqs, f)
<1> DEFINE Part(n, f) == f \in [1 .. n -> Seq(S)] /\ \A i \in 1 .. n : f[i] = FlattenStep(seqs, f, i)
           P == {n \in Nat : n <= Len(seqs) => \E f : Part(n, f)}
<1>1. 0 \in P
  <2>0. 1 .. 0 = {}
    OBVIOUS
  <2>1. Part(0, [i \in {} |-> <<>>])
    <3>1. [i \in {} |-> <<>>] \in [1 .. 0 -> Seq(S)]
      BY <2>0
    <3>2. \A i \in 1 .. 0 : [j \in {} |-> <<>>][i] = FlattenStep(seqs, [j \in {} |-> <<>>], i)
      BY <2>0
    <3> QED
      BY <3>1, <3>2
  <2> QED
    BY <2>1
<1>2. ASSUME NEW n \in Nat, n \in P PROVE n + 1 \in P
  <2>1. n + 1 \in Nat
    OBVIOUS
  <2>2. ASSUME n + 1 <= Len(seqs) PROVE \E f : Part(n + 1, f)
    <3>0. Len(seqs) \in Nat /\ n + 1 \in 1 .. Len(seqs)
      BY <2>2
    <3>1. PICK f : Part(n, f)
      <4>1. n <= Len(seqs)
        BY <2>2, <3>0
      <4>2. n <= Len(seqs) => \E f : Part(n, f)
        <5> HIDE DEF Part
        <5> QED
          BY <1>2
      <4> QED
        BY <4>1, <4>2
    <3> DEFINE g == [i \in 1 .. n + 1 |-> IF i <= n THEN f[i] ELSE FlattenStep(seqs, f, i)]
    <3>2. seqs[n + 1] \in Seq(S)
      BY <3>0
    <3>3. FlattenStep(seqs, f, n + 1) \in Seq(S)
      <4>1. CASE n = 0
        <5>1. FlattenStep(seqs, f, n + 1) = seqs[n + 1]
          BY <4>1 DEF FlattenStep
        <5> QED
          BY <3>2, <5>1
      <4>2. CASE n # 0
        <5>1. f[n] \in Seq(S)
          BY <3>1, <4>2
        <5>0. n + 1 # 1 /\ (n + 1) - 1 = n
          BY <4>2
        <5>2. FlattenStep(seqs, f, n + 1) = f[n] \o seqs[n + 1]
          BY <5>0 DEF FlattenStep
        <5> QED
          BY <5>1, <5>2, <3>2, ConcatProperties
      <4> QED
        BY <4>1, <4>2
    <3>4. g \in [1 .. n + 1 -> Seq(S)]
      BY <3>1, <3>3
    <3>5. ASSUME NEW i \in 1 .. n + 1 PROVE g[i] = FlattenStep(seqs, g, i)
      <4>1. i = 1 \/ (i - 1 \in 1 .. n /\ g[i - 1] = f[i - 1])
        OBVIOUS
      <4>2. FlattenStep(seqs, g, i) = FlattenStep(seqs, f, i)
        BY <4>1 DEF FlattenStep
      <4>3. i <= n => f[i] = FlattenStep(seqs, f, i)
        BY <3>1
      <4> QED
        BY <4>2, <4>3
    <3> QED
      BY <3>4, <3>5
  <2> QED
    BY <2>1, <2>2
<1> HIDE DEF P
<1>3. Nat \subseteq P
  BY <1>1, <1>2, Induction
<1>4. Len(seqs) \in P
  BY <1>3
<1>5. PICK f : Part(Len(seqs), f)
  BY <1>4 DEF P
<1>6. Flattens(seqs, f)
  BY <1>5 DEF Flattens
<1> QED
  BY <1>6

LEMMA FlattenIs ==
  ASSUME NEW S, NEW seqs \in Seq(Seq(S)), Len(seqs) # 0
  PROVE  \E f : Flattens(seqs, f) /\ FlattenSeq(seqs) = f[Len(seqs)]
<1> DEFINE g == CHOOSE f : f = [i \in 1 .. Len(seqs) |-> IF i = 1 THEN seqs[i] ELSE f[i - 1] \o seqs[i]]
<1>1. \E f : f = [i \in 1 .. Len(seqs) |-> IF i = 1 THEN seqs[i] ELSE f[i - 1] \o seqs[i]]
  BY FlattenExists DEF Flattens, FlattenStep
<1>2. g = [i \in 1 .. Len(seqs) |-> IF i = 1 THEN seqs[i] ELSE g[i - 1] \o seqs[i]]
  BY <1>1
<1>3. FlattenSeq(seqs) = g[Len(seqs)]
  BY DEF FlattenSeq
<1>4. Flattens(seqs, g)
  BY <1>2 DEF Flattens, FlattenStep
<1> QED
  BY <1>3, <1>4

LEMMA FlattenType ==
  ASSUME NEW S, NEW seqs \in Seq(Seq(S))
  PROVE  FlattenSeq(seqs) \in Seq(S)
<1>1. CASE Len(seqs) = 0
  <2>1. seqs = <<>>
    BY <1>1
  <2> QED
    BY <1>1, <2>1 DEF FlattenSeq
<1>2. CASE Len(seqs) # 0
  <2>1. PICK f : Flattens(seqs, f) /\ FlattenSeq(seqs) = f[Len(seqs)]
    BY <1>2, FlattenIs
  <2> DEFINE P == {n \in Nat : n \in 1 .. Len(seqs) => f[n] \in Seq(S)}
  <2>2. \A i \in 1 .. Len(seqs) : f[i] = IF i = 1 THEN seqs[i] ELSE f[i - 1] \o seqs[i]
    BY <2>1 DEF Flattens, FlattenStep
  <2>3. 0 \in P
    OBVIOUS
  <2>4. ASSUME NEW n \in Nat, n \in P PROVE n + 1 \in P
    <3> SUFFICES ASSUME n + 1 \in 1 .. Len(seqs) PROVE f[n + 1] \in Seq(S)
      OBVIOUS
    <3>1. seqs[n + 1] \in Seq(S)
      OBVIOUS
    <3>2. CASE n = 0
      BY <2>2, <3>1, <3>2
    <3>3. CASE n # 0
      <4>0. n + 1 # 1 /\ (n + 1) - 1 = n
        BY <3>3
      <4>a. f[n + 1] = f[(n + 1) - 1] \o seqs[n + 1]
        BY <2>2, <4>0
      <4>1. f[n + 1] = f[n] \o seqs[n + 1]
        BY <4>0, <4>a
      <4>2. f[n] \in Seq(S)
        BY <2>4, <3>3
      <4> QED
        BY <3>1, <4>1, <4>2, ConcatProperties
    <3> QED
      BY <3>2, <3>3
  <2> HIDE DEF P
  <2>5. Nat \subseteq P
    BY <2>3, <2>4, Induction
  <2>6. Len(seqs) \in P /\ Len(seqs) \in 1 .. Len(seqs)
    BY <1>2, <2>5
  <2> QED
    BY <2>1, <2>6 DEF P
<1> QED
  BY <1>1, <1>2

\* Sequences of one element each are joined to the sequence of these.
LEMMA FlattenSingles ==
  ASSUME NEW S, NEW seqs \in Seq(Seq(S)), \A i \in DOMAIN seqs : Len(seqs[i]) = 1
  PROVE  /\ Len(FlattenSeq(seqs)) = Len(seqs)
         /\ \A i \in DOMAIN seqs : FlattenSeq(seqs)[i] = seqs[i][1]
<1>1. CASE Len(seqs) = 0
  BY <1>1 DEF FlattenSeq
<1>2. CASE Len(seqs) # 0
  <2>1. PICK f : Flattens(seqs, f) /\ FlattenSeq(seqs) = f[Len(seqs)]
    BY <1>2, FlattenIs
  <2> DEFINE Firsts(n) == f[n] \in Seq(S) /\ Len(f[n]) = n /\ \A i \in 1 .. n : f[n][i] = seqs[i][1]
             P == {n \in Nat : n \in 1 .. Len(seqs) => Firsts(n)}
  <2>2. \A i \in 1 .. Len(seqs) : f[i] = IF i = 1 THEN seqs[i] ELSE f[i - 1] \o seqs[i]
    BY <2>1 DEF Flattens, FlattenStep
  <2>3. 0 \in P
    OBVIOUS
  <2>4. ASSUME NEW n \in Nat, n \in P PROVE n + 1 \in P
    <3>0. n + 1 \in Nat /\ (n \in 1 .. Len(seqs) => Firsts(n))
      BY <2>4
    <3> HIDE DEF Firsts
    <3> SUFFICES ASSUME n + 1 \in 1 .. Len(seqs) PROVE Firsts(n + 1)
      BY <3>0, Zenon
    <3> USE DEF Firsts
    <3>1. seqs[n + 1] \in Seq(S) /\ Len(seqs[n + 1]) = 1
      <4>1. DOMAIN seqs = 1 .. Len(seqs)
        BY LenProperties
      <4>2. n + 1 \in 1 .. Len(seqs)
        BY Zenon
      <4>3. Len(seqs[n + 1]) = 1
        BY <4>1, <4>2, Zenon
      <4> QED
        BY <4>2, <4>3, ElementOfSeq
    <3>2. CASE n = 0
      <4>1. f[1] = seqs[1]
        BY <2>2, <3>2
      <4> QED
        BY <3>1, <3>2, <4>1
    <3>3. CASE n # 0
      <4>0. n + 1 # 1 /\ (n + 1) - 1 = n
        BY <3>3
      <4>a. f[n + 1] = f[(n + 1) - 1] \o seqs[n + 1]
        BY <2>2, <4>0
      <4>1. f[n + 1] = f[n] \o seqs[n + 1]
        BY <4>0, <4>a
      <4>2. Firsts(n)
        BY <2>4, <3>3
      <4>3. f[n] \in Seq(S) /\ Len(f[n]) = n
        BY <4>2
      <4>4. /\ f[n + 1] \in Seq(S) /\ Len(f[n + 1]) = n + 1
            /\ \A i \in 1 .. n : f[n + 1][i] = f[n][i]
            /\ f[n + 1][n + 1] = seqs[n + 1][1]
        <5>1. /\ f[n] \o seqs[n + 1] \in Seq(S)
              /\ Len(f[n] \o seqs[n + 1]) = Len(f[n]) + 1
              /\ \A i \in 1 .. Len(f[n]) : (f[n] \o seqs[n + 1])[i] = f[n][i]
              /\ (f[n] \o seqs[n + 1])[Len(f[n]) + 1] = seqs[n + 1][1]
          BY <3>1, <4>3, JoinOne
        <5> QED
          BY <4>1, <4>3, <5>1
      <4>5. \A i \in 1 .. n : f[n][i] = seqs[i][1]
        BY <4>2
      <4>6. ASSUME NEW i \in 1 .. n + 1 PROVE f[n + 1][i] = seqs[i][1]
        <5>1. i \in 1 .. n \/ i = n + 1
          OBVIOUS
        <5> QED
          BY <4>4, <4>5, <5>1
      <4> QED
        BY <4>4, <4>6
    <3> QED
      BY <3>2, <3>3
  <2> HIDE DEF P
  <2>5. Nat \subseteq P
    BY <2>3, <2>4, Induction
  <2>6. Len(seqs) \in P /\ Len(seqs) \in 1 .. Len(seqs)
    BY <1>2, <2>5
  <2> QED
    BY <2>1, <2>6 DEF P
<1> QED
  BY <1>1, <1>2
-----------------------------------------------------------------------------
(***************************************************************************)
(* The loop over the strategies of a profile.                              *)
(***************************************************************************)
Proposal == [type : ProfileKinds, level : Int]
Benchmark == [rate : Nat, stopped : BOOLEAN, counted : SUBSET (Nat \X Nat),
              missed : SUBSET (Nat \X Nat), offered : Nat]
Row == [type : ProfileKinds, status : {"pending", "active", "completed"}]

PlanSize == Len(Expected(config, merged))

\* The strategy a profile plans to run as its i-th, once the benchmarks in done are known.
NthOf(c, m, done, i) ==
  CASE c.kind = "sweep" /\ i = 1 -> [type |-> "synchronous", level |-> 0]
    [] c.kind = "sweep" /\ i = 2 -> [type |-> "throughput", level |-> 0]
    [] c.kind = "sweep" /\ i > 2 ->
         [type |-> "constant", level |-> Linspace(done[1].rate, done[2].rate, c.size)[i - 2]]
    [] HasLevels(c.kind) -> [type |-> c.kind, level |-> m.levels[i]]
    [] OTHER -> [type |-> c.kind, level |-> 0]
Planned(i) == NthOf(config, merged, report, i)

LoopTyped ==
  /\ config \in Configs /\ merged = Merge(config)
  /\ step \in Events \cup {"running", "finished", "failed"}
  /\ waiting \subseteq Trackers /\ raised \in BOOLEAN
  /\ strategies \in Seq(Proposal)
  /\ report \in Seq(Benchmark)
  /\ counted \in SUBSET (Nat \X Nat) /\ lost \in SUBSET (Nat \X Nat)
  /\ offered \in 0 .. MaxUpdates /\ faults \in 0 .. MaxFaults
  /\ tasks \in Seq(Row) /\ DOMAIN heard = Trackers

\* Benchmarks follow strategies: the last strategy may still be without its benchmark.
Paced ==
  /\ step = "initialize" => strategies = <<>> /\ report = <<>>
  /\ step \in {"start", "running", "update"} => Len(strategies) = Len(report) + 1
  /\ step \in {"complete", "finalize", "finished"} => Len(strategies) = Len(report)
  /\ Len(strategies) >= Len(report)
  /\ step = "complete" => Len(report) >= 1
  /\ step \notin Events => waiting = {}
  /\ step = "finished" => returned = report

\* Every strategy is the one planned, and the plan ends early only after a stop, or when
\* the throughput benchmark of a sweep measured nothing.
OnPlan ==
  /\ \A i \in DOMAIN strategies : strategies[i] = Planned(i)
  /\ Len(strategies) <= PlanSize
  /\ \A i \in 1 .. Len(strategies) - 1 : Baseline(i) \/ ~report[i].stopped
  /\ config.kind = "sweep" /\ Len(strategies) > 2 =>
       rising = Linspace(report[1].rate, report[2].rate, config.size)
  /\ step \in {"finalize", "finished"} /\ ~Halted(report) =>
       \/ Len(strategies) = PlanSize
       \/ config.kind = "sweep" /\ Len(report) >= 2 /\ report[2].rate <= 0

\* Each strategy got its own limit.
WithinLimits ==
  /\ limitIndex = Len(strategies) - 1
  /\ limits \in Seq({LimitAt(merged, k) : k \in Nat})
  /\ Len(limits) = Len(strategies)
  /\ \A i \in DOMAIN limits : limits[i] = LimitAt(merged, i - 1)

\* The current accumulator holds the updates of the strategy that runs.
Accounted ==
  /\ BenchmarksAreTheirOwn
  /\ step \in {"running", "update"} =>
       /\ counted \cup lost = {Len(strategies)} \X (1 .. offered)
       /\ counted \cap lost = {}

\* Trackers whose callback has finished are one event ahead of the others.
HeardInStep ==
  \E h \in Seq(Events \X Nat) : \A t \in Trackers :
     heard[t] = IF t \in waiting \/ step \notin Events THEN h
                ELSE Append(h, <<step, Len(strategies)>>)

\* The console's rows with the first c strategies completed and the first a started.
Board(e, c, a) ==
  [i \in 1 .. Len(e) |->
     [type |-> e[i],
      status |-> IF i <= c THEN "completed" ELSE IF i <= a THEN "active" ELSE "pending"]]

BoardShown ==
  LET n == Len(strategies)
      e == Expected(config, merged)
      told == Console \notin waiting
  IN  /\ step = "initialize" => tasks = IF told THEN Board(e, 0, 0) ELSE <<>>
      /\ step = "start" => tasks = Board(e, n - 1, IF told THEN n ELSE n - 1)
      /\ step \in {"running", "update"} => tasks = Board(e, n - 1, n)
      /\ step = "complete" => tasks = Board(e, IF told THEN n ELSE n - 1, n)
      /\ step = "finalize" => tasks = Board(e, n, n)

LoopInv ==
  LoopTyped /\ Paced /\ OnPlan /\ WithinLimits /\ Accounted /\ HeardInStep /\ BoardShown

LoopSpec == LoopInit /\ [][LoopNext]_loopVars

LEMMA ConfigTyped ==
  ASSUME config \in Configs
  PROVE  /\ config.kind \in ProfileKinds /\ config.size \in Nat
         /\ config.benchmarks \in Seq([levels : Seq(Nat \ {0}), counts : Seq(Nat \ {0})])
         /\ config.kind = "sweep" => config.size >= 2
BY LoopConstants DEF LoopAssumption

LEMMA MergeTyped ==
  ASSUME config \in Configs, merged = Merge(config)
  PROVE  /\ merged.levels \in Seq(Nat \ {0})
         /\ merged.counts = Joined([i \in DOMAIN config.benchmarks |-> config.benchmarks[i].counts])
<1> DEFINE b == config.benchmarks
           l == [i \in DOMAIN b |-> b[i].levels]
<1>1. b \in Seq([levels : Seq(Nat \ {0}), counts : Seq(Nat \ {0})])
  BY ConfigTyped
<1> HIDE DEF b
<1>2. l \in Seq(Seq(Nat \ {0}))
  <2>1. DOMAIN b = 1 .. Len(b) /\ Len(b) \in Nat
    BY <1>1, LenProperties
  <2>2. \A i \in DOMAIN b : b[i] \in [levels : Seq(Nat \ {0}), counts : Seq(Nat \ {0})]
    BY <1>1, <2>1, ElementOfSeq
  <2>3. \A i \in DOMAIN b : b[i].levels \in Seq(Nat \ {0})
    BY <2>2
  <2> QED
    BY <2>1, <2>3
<1>3. FlattenSeq(l) \in Seq(Nat \ {0})
  BY <1>2, FlattenType
<1> HIDE DEF l
<1>4. merged = [levels |-> IF HasLevels(config.kind) THEN FlattenSeq(l) ELSE <<>>,
                counts |-> Joined([i \in DOMAIN b |-> b[i].counts])]
  BY DEF Merge, Joined, l, b
<1>5. merged.levels = IF HasLevels(config.kind) THEN FlattenSeq(l) ELSE <<>>
  BY <1>4
<1>6. <<>> \in Seq(Nat \ {0})
  OBVIOUS
<1>7. merged.counts = Joined([i \in DOMAIN b |-> b[i].counts])
  BY <1>4
<1> QED
  BY <1>3, <1>5, <1>6, <1>7 DEF b

LEMMA LinspaceTyped ==
  ASSUME NEW s \in Int, NEW t \in Int, NEW n \in Nat, n >= 2
  PROVE  /\ Linspace(s, t, n) \in Seq(Int) /\ Len(Linspace(s, t, n)) = n - 2
         /\ \A j \in 1 .. n - 2 : Linspace(s, t, n)[j] = s * (n - 2) + j * (t - s)
<1> DEFINE u == n - 2
           d == t - s
           a == s * u
<1>1. u \in Nat /\ d \in Int /\ a \in Int
  OBVIOUS
<1> HIDE DEF u, d, a
<1>2. Linspace(s, t, n) = [j \in 1 .. u |-> a + j * d]
  BY DEF Linspace, u, d, a
<1>3. \A j \in 1 .. u : a + j * d \in Int
  BY <1>1
<1>4. /\ [j \in 1 .. u |-> a + j * d] \in Seq(Int) /\ Len([j \in 1 .. u |-> a + j * d]) = u
  BY <1>1, <1>3
<1>5. \A j \in 1 .. u : [i \in 1 .. u |-> a + i * d][j] = a + j * d
  OBVIOUS
<1> QED
  BY <1>2, <1>4, <1>5 DEF u, d, a

LEMMA ExpectedIsPlanned ==
  ASSUME config \in Configs, merged = Merge(config)
  PROVE  /\ Expected(config, merged) \in Seq(ProfileKinds) /\ PlanSize \in Nat
         /\ PlanSize = IF config.kind = "sweep" THEN config.size
                       ELSE IF HasLevels(config.kind) THEN Len(merged.levels) ELSE 1
         /\ \A i \in 1 .. PlanSize : Expected(config, merged)[i] = Planned(i).type
<1>1. /\ config.kind \in ProfileKinds /\ config.size \in Nat
      /\ config.kind = "sweep" => config.size >= 2
  BY ConfigTyped
<1>2. merged.levels \in Seq(Nat \ {0})
  BY MergeTyped
<1>3. CASE config.kind = "sweep"
  <2> DEFINE u == config.size - 2
             c == [i \in 1 .. u |-> "constant"]
             b == <<"synchronous", "throughput">>
  <2>1. u \in Nat /\ 2 + u = config.size
    BY <1>1, <1>3
  <2>2. Expected(config, merged) = b \o c
    BY <1>3 DEF Expected, HasLevels
  <2>3. c \in Seq(ProfileKinds) /\ Len(c) = u /\ \A i \in 1 .. u : c[i] = "constant"
    <3>1. "constant" \in ProfileKinds
      BY DEF ProfileKinds
    <3> QED
      BY <2>1, <3>1
  <2>4. b \in Seq(ProfileKinds) /\ Len(b) = 2 /\ b[1] = "synchronous" /\ b[2] = "throughput"
    BY DEF ProfileKinds
  <2> HIDE DEF c, u, b
  <2>5. /\ b \o c \in Seq(ProfileKinds) /\ Len(b \o c) = 2 + u
        /\ \A i \in 1 .. 2 + u : (b \o c)[i] = IF i <= 2 THEN b[i] ELSE c[i - 2]
    <3>1. b \in Seq(ProfileKinds) /\ c \in Seq(ProfileKinds)
      BY <2>3, <2>4
    <3>2. /\ b \o c \in Seq(ProfileKinds) /\ Len(b \o c) = Len(b) + Len(c)
          /\ \A i \in 1 .. Len(b) + Len(c) :
               (b \o c)[i] = IF i <= Len(b) THEN b[i] ELSE c[i - Len(b)]
      BY <3>1, ConcatProperties
    <3> QED
      BY <2>3, <2>4, <3>2
  <2>6. ASSUME NEW i \in 1 .. config.size PROVE (b \o c)[i] = Planned(i).type
    <3>1. (b \o c)[i] = IF i <= 2 THEN b[i] ELSE c[i - 2]
      BY <2>1, <2>5
    <3>2. CASE i = 1
      BY <1>3, <2>4, <3>1, <3>2 DEF Planned, NthOf, HasLevels
    <3>3. CASE i = 2
      BY <1>3, <2>4, <3>1, <3>3 DEF Planned, NthOf, HasLevels
    <3>4. CASE i > 2
      <4>1. i - 2 \in 1 .. u
        BY <2>1, <3>4
      <4>2. (b \o c)[i] = "constant"
        BY <2>3, <3>1, <3>4, <4>1
      <4>3. i # 1 /\ i # 2
        BY <3>4
      <4>4. Planned(i).type = "constant"
        BY <1>3, <3>4, <4>3 DEF Planned, NthOf, HasLevels
      <4> QED
        BY <4>2, <4>4
    <3>5. i = 1 \/ i = 2 \/ i > 2
      BY <1>1
    <3> QED
      BY <3>2, <3>3, <3>4, <3>5
  <2> QED
    BY <1>1, <1>3, <2>1, <2>2, <2>5, <2>6 DEF PlanSize
<1>4. CASE config.kind # "sweep" /\ HasLevels(config.kind)
  <2> DEFINE l == merged.levels
  <2>1. l \in Seq(Nat \ {0}) /\ DOMAIN l = 1 .. Len(l) /\ Len(l) \in Nat
    BY <1>2
  <2> HIDE DEF l
  <2>2. Expected(config, merged) = [i \in 1 .. Len(l) |-> config.kind]
    BY <1>4, <2>1 DEF Expected, l
  <2>3. config.kind \in ProfileKinds
    BY <1>1
  <2>4. /\ Expected(config, merged) \in Seq(ProfileKinds) /\ Len(Expected(config, merged)) = Len(l)
        /\ \A i \in 1 .. Len(l) : Expected(config, merged)[i] = config.kind
    BY <2>1, <2>2, <2>3
  <2>5. \A i \in 1 .. Len(l) : Planned(i).type = config.kind
    BY <1>4 DEF Planned, NthOf
  <2> QED
    BY <1>4, <2>1, <2>4, <2>5 DEF PlanSize, l
<1>5. CASE config.kind # "sweep" /\ ~HasLevels(config.kind)
  <2>1. Expected(config, merged) = <<config.kind>>
    BY <1>5 DEF Expected
  <2>2. config.kind \in ProfileKinds
    BY <1>1
  <2>3. Planned(1).type = config.kind
    BY <1>5 DEF Planned, NthOf
  <2>4. Expected(config, merged) \in Seq(ProfileKinds) /\ Len(Expected(config, merged)) = 1
    BY <2>1, <2>2
  <2> QED
    BY <1>5, <2>1, <2>3, <2>4 DEF PlanSize
<1> QED
  BY <1>3, <1>4, <1>5

\* What next_strategy proposes is the next strategy of the plan, or the plan is over.
ProposesThePlan(s) ==
  LET n == Len(report) + 1 IN
  /\ s # NoStrategy =>
       /\ s = Planned(n) /\ n <= PlanSize /\ s \in Proposal
       /\ report # <<>> => Baseline(n - 1) \/ ~report[n - 1].stopped
       /\ config.kind = "sweep" /\ n > 2 =>
            Measured(config, report) = Linspace(report[1].rate, report[2].rate, config.size)
  /\ s = NoStrategy =>
       \/ Halted(report) \/ Len(report) = PlanSize
       \/ config.kind = "sweep" /\ Len(report) >= 2 /\ report[2].rate <= 0

LEMMA SweepAfterBaselines ==
  ASSUME NEW done, NEW rates, NEW n \in Nat, n = Len(done), n >= 2
  PROVE  SweepNext(done, rates) =
           IF (n > 2 /\ Halted(done)) \/ n - 1 > Len(rates) THEN NoStrategy
           ELSE IF rates[n - 1] <= 0 THEN NoStrategy
           ELSE [type |-> "constant", level |-> rates[n - 1]]
<1>1. Len(<<>>) = 0
  BY EmptySeq
<1>2. n # 0 /\ n # 1
  OBVIOUS
<1>3. done # <<>>
  BY <1>1, <1>2, Zenon
<1> QED
  BY <1>2, <1>3 DEF SweepNext

LEMMA NextIsPlanned ==
  ASSUME config \in Configs, merged = Merge(config), report \in Seq(Benchmark),
         Len(report) <= PlanSize,
         config.kind = "sweep" /\ Len(report) > 2 =>
           rising = Linspace(report[1].rate, report[2].rate, config.size)
  PROVE  ProposesThePlan(NextStrategy(config, merged, report, Measured(config, report)))
<1> DEFINE s == NextStrategy(config, merged, report, Measured(config, report))
<1>0. PICK n \in Nat : n = Len(report)
  OBVIOUS
<1>1. /\ config.kind \in ProfileKinds /\ config.size \in Nat
      /\ config.kind = "sweep" => config.size >= 2
  BY ConfigTyped
<1>2. merged.levels \in Seq(Nat \ {0})
  BY MergeTyped
<1>3. PlanSize = IF config.kind = "sweep" THEN config.size
                 ELSE IF HasLevels(config.kind) THEN Len(merged.levels) ELSE 1
  BY ExpectedIsPlanned
<1>4. n \in Nat /\ (report = <<>> <=> n = 0)
  BY <1>0, EmptySeq
<1>5. Halted(report) <=> n # 0 /\ report[n].stopped
  BY <1>0, <1>4 DEF Halted, Last
<1>6. \A r \in 1 .. n : report[r].rate \in Nat
  <2>1. \A r \in 1 .. n : report[r] \in Benchmark
    BY <1>0
  <2> QED
    BY <1>0, <2>1 DEF Benchmark
<1>7. CASE config.kind = "sweep"
  <2> DEFINE m == Measured(config, report)
  <2>1. s = SweepNext(report, m)
    BY <1>0, <1>7 DEF NextStrategy, HasLevels
  <2>0. n \in Nat /\ PlanSize = config.size
    BY <1>0, <1>3, <1>4, <1>7
  <2>2. n >= 2 => m = Linspace(report[1].rate, report[2].rate, config.size)
    <3>1. n = 2 => m = Linspace(report[1].rate, report[2].rate, config.size)
      BY <1>0, <1>7 DEF Measured
    <3>2. n > 2 => m = rising /\ rising = Linspace(report[1].rate, report[2].rate, config.size)
      BY <1>0, <1>7 DEF Measured
    <3> QED
      BY <1>0, <2>0, <3>1, <3>2
  <2>3. CASE n = 0
    <3>1. s = [type |-> "synchronous", level |-> 0]
      BY <1>0, <1>4, <2>1, <2>3 DEF SweepNext
    <3>2. s = Planned(1) /\ s # NoStrategy /\ s \in Proposal
      BY <1>0, <1>7, <3>1 DEF Planned, NthOf, HasLevels, NoStrategy, Proposal, ProfileKinds
    <3> QED
      BY <1>0, <1>1, <1>3, <1>4, <1>7, <2>3, <3>2 DEF ProposesThePlan
  <2>4. CASE n = 1
    <3>1. s = [type |-> "throughput", level |-> 0]
      BY <1>0, <1>4, <2>1, <2>4 DEF SweepNext
    <3>2. s = Planned(2) /\ s # NoStrategy /\ s \in Proposal
      BY <1>0, <1>7, <3>1 DEF Planned, NthOf, HasLevels, NoStrategy, Proposal, ProfileKinds
    <3>3. Baseline(1)
      BY <1>0, <1>7 DEF Baseline
    <3> QED
      BY <1>0, <1>1, <1>3, <1>4, <1>7, <2>4, <3>2, <3>3 DEF ProposesThePlan
  <2>5. CASE n >= 2
    <3> DEFINE a == report[1].rate
               b == report[2].rate
               u == config.size - 2
               k == n - 1
    <3>1. a \in Nat /\ b \in Nat
      BY <1>0, <1>6, <2>5
    <3>2. /\ m \in Seq(Int) /\ Len(m) = u /\ u \in Nat /\ k \in Nat /\ k >= 1
          /\ \A j \in 1 .. u : m[j] = a * u + j * (b - a)
      <4>1. m = Linspace(a, b, config.size)
        BY <1>0, <2>2, <2>5
      <4>2. a \in Int /\ b \in Int /\ config.size \in Nat /\ config.size >= 2
        BY <1>0, <1>1, <1>7, <3>1
      <4>3. /\ Linspace(a, b, config.size) \in Seq(Int)
            /\ Len(Linspace(a, b, config.size)) = config.size - 2
            /\ \A j \in 1 .. config.size - 2 :
                 Linspace(a, b, config.size)[j] = a * (config.size - 2) + j * (b - a)
        BY <1>0, <4>2, LinspaceTyped
      <4>4. u \in Nat /\ k \in Nat /\ k >= 1
        BY <1>0, <2>0, <2>5, <4>2
      <4> QED
        BY <1>0, <4>1, <4>3, <4>4
    <3>3. s = IF (n > 2 /\ Halted(report)) \/ k > Len(m) THEN NoStrategy
              ELSE IF m[k] <= 0 THEN NoStrategy
              ELSE [type |-> "constant", level |-> m[k]]
      BY <1>0, <1>4, <2>0, <2>1, <2>5, SweepAfterBaselines
    <3>4. n <= 2 => Baseline(n)
      BY <1>0, <1>7 DEF Baseline
    <3>5. CASE (n > 2 /\ Halted(report)) \/ k > u
      <4>1. s = NoStrategy
        BY <1>0, <3>2, <3>3, <3>5
      <4>2. Halted(report) \/ n = PlanSize
        BY <1>0, <1>1, <2>0, <3>2, <3>5
      <4> QED
        BY <1>0, <4>1, <4>2 DEF ProposesThePlan
    <3>6. CASE ~((n > 2 /\ Halted(report)) \/ k > u) /\ m[k] <= 0
      <4>1. s = NoStrategy
        BY <1>0, <3>2, <3>3, <3>6
      <4>2. k \in 1 .. u
        BY <1>0, <3>2, <3>6
      <4>3. a * u + k * (b - a) <= 0
        BY <1>0, <3>2, <3>6, <4>2
      <4>4. b <= 0
        <5> HIDE DEF a, b, u, k, m
        <5>1. a * u + k * (b - a) = a * (u - k) + k * b
          BY <1>0, <3>1, <3>2
        <5>2. a * (u - k) >= 0
          BY <1>0, <3>1, <3>2, <4>2
        <5>3. b > 0 => k * b > 0
          BY <1>0, <3>1, <3>2
        <5>4. a * (u - k) \in Int /\ k * b \in Int
          BY <1>0, <3>1, <3>2
        <5> QED
          BY <1>0, <3>1, <4>3, <5>1, <5>2, <5>3, <5>4
      <4> QED
        BY <1>0, <1>7, <2>5, <4>1, <4>4 DEF ProposesThePlan
    <3>7. CASE ~((n > 2 /\ Halted(report)) \/ k > u) /\ ~(m[k] <= 0)
      <4>1. s = [type |-> "constant", level |-> m[k]]
        BY <1>0, <3>2, <3>3, <3>7
      <4>2. k \in 1 .. u /\ m[k] \in Int
        BY <1>0, <3>2, <3>7
      <4>3. s \in Proposal /\ s # NoStrategy
        BY <1>0, <4>1, <4>2 DEF Proposal, NoStrategy, ProfileKinds
      <4>4. s = Planned(n + 1)
        <5>1. n + 1 > 2 /\ n + 1 # 1 /\ n + 1 # 2 /\ (n + 1) - 2 = k
          BY <1>0, <1>4, <2>5
        <5>2. Planned(n + 1) = [type |-> "constant", level |-> m[(n + 1) - 2]]
          BY <1>0, <1>7, <2>2, <2>5, <5>1 DEF Planned, NthOf, HasLevels
        <5> QED
          BY <1>0, <4>1, <5>1, <5>2
      <4>5. n + 1 <= PlanSize
        BY <1>0, <1>1, <2>0, <3>2, <3>7
      <4>6. Baseline(n) \/ ~report[n].stopped
        BY <1>0, <1>4, <1>5, <2>5, <3>4, <3>7
      <4>7. (n + 1) - 1 = n
        BY <1>0, <1>4
      <4> QED
        BY <1>0, <2>2, <2>5, <4>3, <4>4, <4>5, <4>6, <4>7 DEF ProposesThePlan
    <3> QED
      BY <1>0, <3>5, <3>6, <3>7
  <2>6. n = 0 \/ n = 1 \/ n >= 2
    BY <1>0, <2>0
  <2> QED
    BY <1>0, <2>3, <2>4, <2>5, <2>6
<1>8. CASE config.kind # "sweep" /\ HasLevels(config.kind)
  <2> DEFINE l == merged.levels
  <2>1. s = ListNext(config, merged, report)
    BY <1>0, <1>8 DEF NextStrategy
  <2>2. CASE n >= Len(l) \/ Halted(report)
    <3>1. s = NoStrategy
      BY <1>0, <2>1, <2>2 DEF ListNext
    <3>2. Halted(report) \/ n = PlanSize
      BY <1>0, <1>2, <1>3, <1>4, <1>8, <2>2
    <3> QED
      BY <1>0, <3>1, <3>2 DEF ProposesThePlan
  <2>3. CASE ~(n >= Len(l) \/ Halted(report))
    <3>1. s = [type |-> config.kind, level |-> l[n + 1]]
      BY <1>0, <2>1, <2>3 DEF ListNext
    <3>2. n + 1 \in 1 .. Len(l) /\ l[n + 1] \in Int /\ config.kind \in ProfileKinds
      BY <1>0, <1>1, <1>2, <1>4, <2>3 DEF ProfileKinds
    <3>3. config.kind # "none"
      BY <1>0, <1>1 DEF ProfileKinds
    <3>4. s \in Proposal /\ s # NoStrategy
      BY <1>0, <3>1, <3>2, <3>3 DEF Proposal, NoStrategy
    <3>5. s = Planned(n + 1)
      BY <1>0, <1>8, <3>1 DEF Planned, NthOf
    <3>6. n # 0 => ~report[n].stopped
      BY <1>0, <1>5, <2>3
    <3>7. n + 1 <= PlanSize /\ (n + 1) - 1 = n
      BY <1>0, <1>2, <1>3, <1>4, <1>8, <3>2
    <3> QED
      BY <1>0, <1>4, <1>8, <3>4, <3>5, <3>6, <3>7 DEF ProposesThePlan
  <2> QED
    BY <1>0, <2>2, <2>3
<1>9. CASE config.kind # "sweep" /\ ~HasLevels(config.kind)
  <2>1. s = OnceNext(config, report)
    BY <1>0, <1>9 DEF NextStrategy
  <2>2. CASE n = 0
    <3>1. s = [type |-> config.kind, level |-> 0]
      BY <1>0, <1>4, <2>1, <2>2 DEF OnceNext
    <3>2. s \in Proposal /\ s # NoStrategy
      BY <1>0, <1>1, <3>1 DEF Proposal, NoStrategy, ProfileKinds
    <3>3. s = Planned(1)
      BY <1>0, <1>9, <3>1 DEF Planned, NthOf
    <3> QED
      BY <1>0, <1>3, <1>4, <1>9, <2>2, <3>2, <3>3 DEF ProposesThePlan
  <2>3. CASE n # 0
    <3>1. s = NoStrategy
      BY <1>0, <1>4, <2>1, <2>3 DEF OnceNext
    <3>2. n = PlanSize
      <4>1. PlanSize = 1 /\ n \in Nat
        BY <1>0, <1>3, <1>4, <1>9
      <4> QED
        BY <1>0, <2>3, <4>1
    <3> QED
      BY <1>0, <3>1, <3>2 DEF ProposesThePlan
  <2> QED
    BY <1>0, <2>2, <2>3
<1> QED
  BY <1>0, <1>7, <1>8, <1>9

-----------------------------------------------------------------------------
(***************************************************************************)
(* The steps of the loop.                                                  *)
(***************************************************************************)

\* The generator is resumed with the benchmarks so far, and all trackers are idle.
Proposing ==
  /\ step \in {"initialize", "complete"} /\ waiting = {} /\ Len(strategies) = Len(report)
  /\ Propose(report)
  /\ UNCHANGED <<config, merged, counted, offered, lost, report, returned, tasks, heard, faults>>

\* The three ways a proposal can go.
PlanFails ==
  step' = "failed" /\ UNCHANGED <<waiting, raised, strategies, limitIndex, limits>>
PlanEnds ==
  /\ step' = "finalize" /\ waiting' = Trackers /\ raised' = FALSE
  /\ UNCHANGED <<strategies, limitIndex, limits>>
  /\ \/ Halted(report) \/ Len(report) = PlanSize
     \/ config.kind = "sweep" /\ Len(report) >= 2 /\ report[2].rate <= 0
PlanGoesOn ==
  /\ step' = "start" /\ waiting' = Trackers /\ raised' = FALSE
  /\ Planned(Len(report) + 1) \in Proposal
  /\ strategies' = Append(strategies, Planned(Len(report) + 1))
  /\ limitIndex' = limitIndex + 1
  /\ limits' = Append(limits, LimitAt(merged, limitIndex + 1))
  /\ Len(report) + 1 <= PlanSize
  /\ report # <<>> => Baseline(Len(report)) \/ ~report[Len(report)].stopped
  /\ config.kind = "sweep" /\ Len(report) + 1 > 2 =>
       rising' = Linspace(report[1].rate, report[2].rate, config.size)

LEMMA ProposingIs ==
  ASSUME LoopInv, Initialized \/ Completed
  PROVE  Proposing
<1>1. CASE Initialized
  <2>1. step = "initialize" /\ waiting = {} /\ report = <<>> /\ strategies = <<>>
    BY <1>1 DEF Initialized, LoopInv, Paced, Settled
  <2>2. Propose(report)
    BY <1>1, <2>1 DEF Initialized
  <2> QED
    BY <1>1, <2>1, <2>2 DEF Initialized, Proposing
<1>2. CASE Completed
  BY <1>2 DEF Completed, LoopInv, Paced, Settled, Proposing
<1> QED
  BY <1>1, <1>2

LEMMA ProposalOutcome ==
  ASSUME LoopInv, Proposing
  PROVE  PlanFails \/ PlanEnds \/ PlanGoesOn
<1> DEFINE m == Measured(config, report)
           s == NextStrategy(config, merged, report, m)
<1>0. PICK n \in Nat : n = Len(report)
  BY DEF LoopInv, LoopTyped
<1>1. config \in Configs /\ merged = Merge(config) /\ report \in Seq(Benchmark)
  BY DEF LoopInv, LoopTyped
<1>2. Len(report) <= PlanSize
  BY DEF LoopInv, OnPlan, Proposing
<1>3. config.kind = "sweep" /\ Len(report) > 2 =>
        rising = Linspace(report[1].rate, report[2].rate, config.size)
  BY DEF LoopInv, OnPlan, Proposing
<1>4. ProposesThePlan(s)
  BY <1>1, <1>2, <1>3, NextIsPlanned
<1>5. /\ rising' = m
      /\ IF Invalid(config, report)
         THEN step' = "failed" /\ UNCHANGED <<waiting, raised, strategies, limitIndex, limits>>
         ELSE IF s = NoStrategy
         THEN Announce("finalize") /\ UNCHANGED <<strategies, limitIndex, limits>>
         ELSE /\ Announce("start")
              /\ strategies' = Append(strategies, s)
              /\ limitIndex' = IndexAfter(limitIndex)
              /\ limits' = Append(limits, LimitAt(merged, limitIndex'))
  BY DEF Proposing, Propose
<1> HIDE DEF m, s
<1>6. CASE Invalid(config, report)
  BY <1>5, <1>6 DEF PlanFails
<1>7. CASE ~Invalid(config, report) /\ s = NoStrategy
  BY <1>4, <1>5, <1>7 DEF PlanEnds, Announce, ProposesThePlan
<1>8. CASE ~Invalid(config, report) /\ s # NoStrategy
  <2>1. /\ s = Planned(n + 1) /\ n + 1 <= PlanSize /\ s \in Proposal
        /\ report # <<>> => Baseline((n + 1) - 1) \/ ~report[(n + 1) - 1].stopped
        /\ config.kind = "sweep" /\ n + 1 > 2 =>
             m = Linspace(report[1].rate, report[2].rate, config.size)
    BY <1>0, <1>4, <1>8 DEF ProposesThePlan, m
  <2>2. (n + 1) - 1 = n
    OBVIOUS
  <2>3. /\ step' = "start" /\ waiting' = Trackers /\ raised' = FALSE
        /\ strategies' = Append(strategies, s) /\ limitIndex' = limitIndex + 1
        /\ limits' = Append(limits, LimitAt(merged, limitIndex + 1)) /\ rising' = m
    BY <1>5, <1>8 DEF Announce, IndexAfter
  <2> QED
    BY <1>0, <2>1, <2>2, <2>3 DEF PlanGoesOn
<1> QED
  BY <1>6, <1>7, <1>8

-----------------------------------------------------------------------------
LEMMA InitLoop == LoopInit => LoopInv
<1> SUFFICES ASSUME LoopInit PROVE LoopInv
  OBVIOUS
<1> USE DEF LoopInit
<1>0. <<>> \in Seq(Proposal) /\ <<>> \in Seq(Benchmark) /\ <<>> \in Seq(Row) /\ Len(<<>>) = 0
      /\ <<>> \in Seq(Events \X Nat)
  BY EmptySeq
<1>1. LoopTyped
  <2>1. 0 \in 0 .. MaxUpdates /\ 0 \in 0 .. MaxFaults
    BY LoopConstants DEF LoopAssumption
  <2>2. strategies \in Seq(Proposal) /\ report \in Seq(Benchmark) /\ tasks \in Seq(Row)
    BY <1>0
  <2>3. offered = 0 /\ faults = 0 /\ counted = {} /\ lost = {}
    OBVIOUS
  <2>4. /\ config \in Configs /\ merged = Merge(config) /\ step = "initialize"
        /\ waiting = Trackers /\ raised = FALSE /\ DOMAIN heard = Trackers
    OBVIOUS
  <2> QED
    BY <2>1, <2>2, <2>3, <2>4 DEF LoopTyped, Events
<1>2. Paced
  BY <1>0 DEF Paced, Events
<1>3. PlanSize \in Nat
  BY ExpectedIsPlanned
<1>4. OnPlan
  BY <1>0, <1>3 DEF OnPlan
<1>5. WithinLimits
  BY <1>0 DEF WithinLimits
<1>6. Accounted
  BY <1>0 DEF Accounted, BenchmarksAreTheirOwn
<1>7. HeardInStep
  <2>1. \A t \in Trackers : heard[t] = <<>> /\ t \in waiting
    OBVIOUS
  <2> QED
    BY <1>0, <2>1 DEF HeardInStep
<1>8. BoardShown
  BY DEF BoardShown, Trackers
<1> QED
  BY <1>1, <1>2, <1>4, <1>5, <1>6, <1>7, <1>8 DEF LoopInv

\* Limits and strategies are proposed together.
LEMMA LimitedStep == LoopInv /\ [LoopNext]_loopVars => WithinLimits'
<1> SUFFICES ASSUME LoopInv, [LoopNext]_loopVars PROVE WithinLimits'
  OBVIOUS
<1>1. CASE UNCHANGED <<merged, strategies, limits, limitIndex>>
  BY <1>1 DEF LoopInv, WithinLimits, LimitAt
<1>2. CASE Initialized \/ Completed
  <2>1. Proposing /\ (PlanFails \/ PlanEnds \/ PlanGoesOn)
    BY <1>2, ProposingIs, ProposalOutcome
  <2>2. merged' = merged
    BY <2>1 DEF Proposing
  <2>3. CASE PlanFails \/ PlanEnds
    BY <1>1, <2>2, <2>3 DEF PlanFails, PlanEnds
  <2>4. CASE PlanGoesOn
    <3> DEFINE S == {LimitAt(merged, k) : k \in Nat}
               e == LimitAt(merged, limitIndex + 1)
               p == Planned(Len(report) + 1)
    <3>1. PICK n \in Nat : n = Len(strategies)
      BY DEF LoopInv, LoopTyped
    <3>2. /\ limitIndex = n - 1 /\ limits \in Seq(S) /\ Len(limits) = n
          /\ \A i \in 1 .. n : limits[i] = LimitAt(merged, i - 1)
      BY <3>1 DEF LoopInv, WithinLimits
    <3>3. p \in Proposal /\ strategies \in Seq(Proposal) /\ strategies' = Append(strategies, p)
      BY <2>4 DEF PlanGoesOn, LoopInv, LoopTyped
    <3>4. Len(strategies') = n + 1
      BY <3>1, <3>3, AppendProperties
    <3>5. limitIndex + 1 = n /\ limits' = Append(limits, LimitAt(merged, n))
      BY <2>4, <3>2 DEF PlanGoesOn
    <3>6. LimitAt(merged, n) \in S
      OBVIOUS
    <3> HIDE DEF S
    <3>7. /\ limits' \in Seq(S) /\ Len(limits') = n + 1
          /\ \A i \in 1 .. n : limits'[i] = limits[i]
          /\ limits'[n + 1] = LimitAt(merged, n)
      BY <3>2, <3>5, <3>6, AppendProperties
    <3>8. \A i \in 1 .. n + 1 : limits'[i] = LimitAt(merged, i - 1)
      <4> SUFFICES ASSUME NEW i \in 1 .. n + 1 PROVE limits'[i] = LimitAt(merged, i - 1)
        OBVIOUS
      <4>1. CASE i \in 1 .. n
        BY <3>2, <3>7, <4>1
      <4>2. CASE i = n + 1
        <5>1. i - 1 = n
          BY <4>2
        <5> QED
          BY <3>7, <4>2, <5>1
      <4> QED
        BY <4>1, <4>2
    <3>9. limitIndex' = (n + 1) - 1
      BY <2>4, <3>2 DEF PlanGoesOn
    <3> QED
      BY <2>2, <3>4, <3>7, <3>8, <3>9 DEF WithinLimits, S, LimitAt
  <2> QED
    BY <2>1, <2>3, <2>4
<1>3. Initialized \/ Completed \/ UNCHANGED <<merged, strategies, limits, limitIndex>>
  BY DEF LoopNext, loopVars, CallbackDone, Aborts, Started, Delivered, Updated, Compiled,
         RunRaises, Finalized, LoopOver
<1> QED
  BY <1>1, <1>2, <1>3

\* What one step makes of the sequence of benchmarks.
LEMMA ReportStep ==
  ASSUME LoopInv, [LoopNext]_loopVars
  PROVE  \/ report' = report
         \/ \E rate \in Rates, stopped \in BOOLEAN : Compiled(rate, stopped)
BY DEF LoopNext, loopVars, CallbackDone, Aborts, Initialized, Started, Delivered, Updated,
       RunRaises, Completed, Finalized, LoopOver

LEMMA CompiledTyped ==
  ASSUME LoopInv, NEW rate \in Rates, NEW stopped \in BOOLEAN, Compiled(rate, stopped)
  PROVE  LET b == [rate |-> rate, stopped |-> stopped, counted |-> counted, missed |-> lost,
                   offered |-> offered]
         IN  /\ b \in Benchmark /\ report' = Append(report, b) /\ report' \in Seq(Benchmark)
             /\ Len(report') = Len(report) + 1
             /\ \A i \in 1 .. Len(report) : report'[i] = report[i]
             /\ report'[Len(report) + 1] = b
             /\ Len(strategies) = Len(report) + 1
<1> DEFINE b == [rate |-> rate, stopped |-> stopped, counted |-> counted, missed |-> lost,
                 offered |-> offered]
<1>1. rate \in Nat /\ offered \in Nat
  BY LoopConstants DEF LoopInv, LoopTyped, LoopAssumption
<1>2. counted \in SUBSET (Nat \X Nat) /\ lost \in SUBSET (Nat \X Nat)
  BY DEF LoopInv, LoopTyped
<1>3. b \in Benchmark
  BY <1>1, <1>2 DEF Benchmark
<1>4. report' = Append(report, b) /\ step = "running"
  BY DEF Compiled
<1>5. report \in Seq(Benchmark)
  BY DEF LoopInv, LoopTyped
<1>6. Len(strategies) = Len(report) + 1
  BY <1>4 DEF LoopInv, Paced
<1> HIDE DEF b
<1>7. /\ Append(report, b) \in Seq(Benchmark) /\ Len(Append(report, b)) = Len(report) + 1
      /\ \A i \in 1 .. Len(report) : Append(report, b)[i] = report[i]
      /\ Append(report, b)[Len(report) + 1] = b
  BY <1>3, <1>5, AppendProperties
<1> QED
  BY <1>3, <1>4, <1>6, <1>7 DEF b

\* A finished benchmark is not changed any more, and a new one starts from nothing.
LEMMA AccountedStep == LoopInv /\ [LoopNext]_loopVars => Accounted'
<1> SUFFICES ASSUME LoopInv, [LoopNext]_loopVars PROVE Accounted'
  OBVIOUS
<1>0. Accounted
  BY DEF LoopInv
<1>1. BenchmarksAreTheirOwn'
  <2>1. CASE report' = report
    BY <1>0, <2>1 DEF Accounted, BenchmarksAreTheirOwn
  <2>2. ASSUME NEW rate \in Rates, NEW stopped \in BOOLEAN, Compiled(rate, stopped)
        PROVE  BenchmarksAreTheirOwn'
    <3> DEFINE b == [rate |-> rate, stopped |-> stopped, counted |-> counted, missed |-> lost,
                     offered |-> offered]
    <3>0. PICK n \in Nat : n = Len(report)
      BY DEF LoopInv, LoopTyped
    <3>1. /\ report' \in Seq(Benchmark) /\ Len(report') = n + 1
          /\ \A i \in 1 .. n : report'[i] = report[i]
          /\ report'[n + 1] = b /\ Len(strategies) = n + 1
      BY <2>2, <3>0, CompiledTyped
    <3>2. counted \cup lost = {n + 1} \X (1 .. offered) /\ counted \cap lost = {}
      BY <1>0, <2>2, <3>1 DEF Accounted, Compiled
    <3>3. b.counted = counted /\ b.missed = lost /\ b.offered = offered
      OBVIOUS
    <3> HIDE DEF b
    <3>4. DOMAIN report' = 1 .. n + 1 /\ DOMAIN report = 1 .. n
      BY <3>0, <3>1 DEF LoopInv, LoopTyped
    <3>5. ASSUME NEW i \in 1 .. n + 1
          PROVE  /\ report'[i].counted \cup report'[i].missed = {i} \X (1 .. report'[i].offered)
                 /\ report'[i].counted \cap report'[i].missed = {}
      <4>1. CASE i \in 1 .. n
        BY <1>0, <3>1, <3>4, <4>1 DEF Accounted, BenchmarksAreTheirOwn
      <4>2. CASE i = n + 1
        BY <3>1, <3>2, <3>3, <4>2
      <4> QED
        BY <4>1, <4>2
    <3> QED
      BY <3>4, <3>5 DEF BenchmarksAreTheirOwn
  <2> QED
    BY <2>1, <2>2, ReportStep
<1>2. ASSUME step' \in {"running", "update"}
      PROVE  /\ counted' \cup lost' = {Len(strategies')} \X (1 .. offered')
             /\ counted' \cap lost' = {}
  <2>1. CASE Started
    <3>1. counted' = {} /\ lost' = {} /\ offered' = 0
      BY <2>1 DEF Started, FreshAccumulator
    <3> QED
      BY <3>1
  <2>2. CASE Delivered
    <3> DEFINE n == Len(strategies)
               u == <<n, offered + 1>>
    <3>1. /\ offered' = offered + 1 /\ strategies' = strategies
          /\ \/ counted' = counted \cup {u} /\ lost' = lost
             \/ counted' = counted /\ lost' = lost \cup {u}
      BY <2>2 DEF Delivered
    <3>2. counted \cup lost = {n} \X (1 .. offered) /\ counted \cap lost = {}
      BY <1>0, <2>2 DEF Accounted, Delivered
    <3>3. offered \in Nat
      BY LoopConstants DEF LoopInv, LoopTyped, LoopAssumption
    <3> HIDE DEF n
    <3>4. 1 .. offered + 1 = (1 .. offered) \cup {offered + 1} /\ offered + 1 \notin 1 .. offered
      BY <3>3
    <3>5. {n} \X (1 .. offered + 1) = ({n} \X (1 .. offered)) \cup {u}
      BY <3>4
    <3>6. u \notin {n} \X (1 .. offered)
      BY <3>4
    <3>7. u \notin counted /\ u \notin lost
      BY <3>2, <3>6
    <3> HIDE DEF u
    <3>8. counted' \cup lost' = {n} \X (1 .. offered + 1)
      BY <3>1, <3>2, <3>5
    <3>9. counted' \cap lost' = {}
      BY <3>1, <3>2, <3>7
    <3> QED
      BY <3>1, <3>8, <3>9 DEF n
  <2>3. CASE UNCHANGED <<strategies, counted, lost, offered>> /\ step \in {"running", "update"}
    BY <1>0, <2>3 DEF Accounted
  <2>4. \/ Started \/ Delivered
        \/ UNCHANGED <<strategies, counted, lost, offered>> /\ step \in {"running", "update"}
    <3>1. Initialized \/ Completed => step' \notin {"running", "update"}
      BY ProposingIs, ProposalOutcome DEF PlanFails, PlanEnds, PlanGoesOn
    <3> QED
      BY <1>2, <3>1 DEF LoopNext, loopVars, CallbackDone, Aborts, Updated, Compiled, RunRaises,
         Finalized, LoopOver, Announce
  <2> QED
    BY <2>1, <2>2, <2>3, <2>4
<1> QED
  BY <1>1, <1>2 DEF Accounted

\* A callback takes one tracker a step ahead; the others follow before the next event.
LEMMA HeardStep == LoopInv /\ [LoopNext]_loopVars => HeardInStep'
<1> SUFFICES ASSUME LoopInv, [LoopNext]_loopVars PROVE HeardInStep'
  OBVIOUS
<1>0. PICK h \in Seq(Events \X Nat) : \A t \in Trackers :
        heard[t] = IF t \in waiting \/ step \notin Events THEN h
                   ELSE Append(h, <<step, Len(strategies)>>)
  BY DEF LoopInv, HeardInStep
<1>1. Len(strategies) \in Nat
  BY DEF LoopInv, LoopTyped
<1>2. CASE UNCHANGED <<heard, waiting, step, strategies>>
  BY <1>0, <1>2 DEF HeardInStep
<1>3. ASSUME NEW t \in Trackers, CallbackDone(t) PROVE HeardInStep'
  <2>1. t \in waiting /\ step \in Events
    BY <1>3 DEF CallbackDone, LoopInv, Paced
  <2>2. /\ heard' = [heard EXCEPT ![t] = Append(@, <<step, Len(strategies)>>)]
        /\ waiting' = waiting \ {t} /\ step' = step /\ strategies' = strategies
    BY <1>3 DEF CallbackDone
  <2>3. ASSUME NEW x \in Trackers
        PROVE  heard'[x] = IF x \in waiting' \/ step' \notin Events THEN h
                           ELSE Append(h, <<step', Len(strategies')>>)
    <3>1. CASE x = t
      <4>1. heard[t] = h
        BY <1>0, <2>1
      <4>2. t \in DOMAIN heard => heard'[t] = Append(h, <<step, Len(strategies)>>)
        BY <2>2, <4>1
      <4> QED
        BY <2>1, <2>2, <3>1, <4>2 DEF LoopInv, LoopTyped
    <3>2. CASE x # t
      BY <1>0, <2>1, <2>2, <3>2
    <3> QED
      BY <3>1, <3>2
  <2> QED
    BY <2>3 DEF HeardInStep
<1>4. CASE waiting = {} /\ heard' = heard /\ (waiting' = Trackers \/ step' \notin Events)
  <2>1. \E g \in Seq(Events \X Nat) : \A t \in Trackers : heard[t] = g
    <3>1. CASE step \in Events
      <4>1. <<step, Len(strategies)>> \in Events \X Nat
        BY <1>1, <3>1
      <4>2. Append(h, <<step, Len(strategies)>>) \in Seq(Events \X Nat)
        BY <4>1, AppendProperties
      <4>3. \A t \in Trackers : heard[t] = Append(h, <<step, Len(strategies)>>)
        BY <1>0, <1>4, <3>1
      <4> QED
        BY <4>2, <4>3
    <3>2. CASE step \notin Events
      BY <1>0, <3>2
    <3> QED
      BY <3>1, <3>2
  <2>2. PICK g \in Seq(Events \X Nat) : \A t \in Trackers : heard[t] = g
    BY <2>1
  <2>3. \A t \in Trackers : heard'[t] = g /\ (t \in waiting' \/ step' \notin Events)
    BY <1>4, <2>2
  <2> QED
    BY <2>3 DEF HeardInStep
<1>5. \/ UNCHANGED <<heard, waiting, step, strategies>>
      \/ \E t \in Trackers : CallbackDone(t)
      \/ waiting = {} /\ heard' = heard /\ (waiting' = Trackers \/ step' \notin Events)
  <2>1. Initialized \/ Completed =>
          waiting = {} /\ heard' = heard /\ (waiting' = Trackers \/ step' \notin Events)
    <3> SUFFICES ASSUME Initialized \/ Completed
                 PROVE  waiting = {} /\ heard' = heard /\ (waiting' = Trackers \/ step' \notin Events)
      OBVIOUS
    <3>1. waiting = {} /\ heard' = heard /\ (PlanFails \/ PlanEnds \/ PlanGoesOn)
      BY ProposingIs, ProposalOutcome DEF Proposing
    <3> QED
      BY <3>1 DEF PlanFails, PlanEnds, PlanGoesOn, Events
  <2>2. step = "running" => waiting = {}
    BY DEF LoopInv, Paced, Events
  <2>3. Delivered => waiting = {} /\ heard' = heard /\ (waiting' = Trackers \/ step' \notin Events)
    BY <2>2 DEF Delivered, Announce, Events
  <2>4. RunRaises \/ (\E rate \in Rates, stopped \in BOOLEAN : Compiled(rate, stopped)) =>
          waiting = {} /\ heard' = heard /\ (waiting' = Trackers \/ step' \notin Events)
    BY <2>2 DEF RunRaises, Compiled, Announce, Events
  <2>5. Aborts \/ Started \/ Updated \/ Finalized =>
          waiting = {} /\ heard' = heard /\ (waiting' = Trackers \/ step' \notin Events)
    BY DEF Aborts, Started, Updated, Finalized, Settled, Events
  <2> QED
    BY <2>1, <2>3, <2>4, <2>5 DEF LoopNext, loopVars, LoopOver
<1> QED
  BY <1>2, <1>3, <1>4, <1>5

LEMMA BoardTyped ==
  ASSUME NEW e \in Seq(ProfileKinds), NEW c, NEW a
  PROVE  Board(e, c, a) \in Seq(Row) /\ Len(Board(e, c, a)) = Len(e)
<1> DEFINE status(i) == IF i <= c THEN "completed" ELSE IF i <= a THEN "active" ELSE "pending"
<1>1. Len(e) \in Nat /\ \A i \in 1 .. Len(e) : e[i] \in ProfileKinds
  BY ElementOfSeq
<1>2. \A i \in 1 .. Len(e) : status(i) \in {"pending", "active", "completed"}
  OBVIOUS
<1>3. Board(e, c, a) = [i \in 1 .. Len(e) |-> [type |-> e[i], status |-> status(i)]]
  BY DEF Board
<1> HIDE DEF status
<1>4. \A i \in 1 .. Len(e) : [type |-> e[i], status |-> status(i)] \in Row
  BY <1>1, <1>2 DEF Row
<1> QED
  BY <1>1, <1>3, <1>4

\* Two boards that differ in no row but the n-th, and the status of a row of a board.
SameBut(e, n, c, a, d, b) ==
  \A i \in 1 .. Len(e) : i # n => (i <= c <=> i <= d) /\ (i <= a <=> i <= b)
StatusAt(n, d, b) == IF n <= d THEN "completed" ELSE IF n <= b THEN "active" ELSE "pending"

\* Setting the status of one row.
LEMMA BoardUpdate ==
  ASSUME NEW e \in Seq(ProfileKinds), NEW c \in Int, NEW a \in Int, NEW n \in 1 .. Len(e),
         NEW d \in Int, NEW b \in Int, NEW x, x = StatusAt(n, d, b), SameBut(e, n, c, a, d, b)
  PROVE  [Board(e, c, a) EXCEPT ![n].status = x] = Board(e, d, b)
<1> DEFINE f == Board(e, c, a)
           g == Board(e, d, b)
           w == [f EXCEPT ![n].status = x]
<1>0. Len(e) \in Nat
  OBVIOUS
<1>1. DOMAIN f = 1 .. Len(e) /\ DOMAIN g = 1 .. Len(e) /\ DOMAIN w = 1 .. Len(e)
  BY DEF Board
<1>2. ASSUME NEW i \in 1 .. Len(e), i # n PROVE w[i] = g[i]
  <2>1. w[i] = f[i]
    BY <1>1, <1>2
  <2>2. /\ f[i] = [type |-> e[i],
                   status |-> IF i <= c THEN "completed" ELSE IF i <= a THEN "active" ELSE "pending"]
        /\ g[i] = [type |-> e[i],
                   status |-> IF i <= d THEN "completed" ELSE IF i <= b THEN "active" ELSE "pending"]
    BY DEF Board
  <2>3. (i <= c <=> i <= d) /\ (i <= a <=> i <= b)
    BY <1>2 DEF SameBut
  <2> HIDE DEF f, g, w
  <2> QED
    BY <2>1, <2>2, <2>3
<1>3. w[n] = g[n]
  <2>1. w[n] = [f[n] EXCEPT !.status = x]
    BY <1>1
  <2>2. f[n] = [type |-> e[n],
                status |-> IF n <= c THEN "completed" ELSE IF n <= a THEN "active" ELSE "pending"]
    BY DEF Board
  <2>3. g[n] = [type |-> e[n], status |-> x]
    BY DEF Board, StatusAt
  <2> HIDE DEF f, g, w
  <2>4. [f[n] EXCEPT !.status = x] = [type |-> e[n], status |-> x]
    BY <2>2
  <2> QED
    BY <2>1, <2>3, <2>4
<1>4. w = [i \in 1 .. Len(e) |-> w[i]]
  BY <1>1
<1>5. g = [i \in 1 .. Len(e) |-> g[i]]
  BY DEF Board
<1> HIDE DEF f, g, w
<1>6. w = g
  BY <1>2, <1>3, <1>4, <1>5
<1> QED
  BY <1>6 DEF w, f, g

\* What the console makes of its rows in each event.
LEMMA ConsoleShows ==
  ASSUME LoopInv, Console \in waiting
  PROVE  LET n == Len(strategies)
             e == Expected(config, merged)
         IN  /\ step = "initialize" => Shown(step) = Board(e, 0, 0)
             /\ step = "start" => Shown(step) = Board(e, n - 1, n)
             /\ step = "complete" => Shown(step) = Board(e, n, n)
             /\ step \in {"update", "finalize"} => Shown(step) = tasks
<1> DEFINE e == Expected(config, merged)
<1>0. PICK n \in Nat : n = Len(strategies)
  BY DEF LoopInv, LoopTyped
<1>1. config \in Configs /\ merged = Merge(config)
  BY DEF LoopInv, LoopTyped
<1>2. e \in Seq(ProfileKinds) /\ PlanSize = Len(e) /\ Len(e) \in Nat
  BY <1>1, ExpectedIsPlanned DEF PlanSize
<1>3. n <= Len(e)
  BY <1>0, <1>2 DEF LoopInv, OnPlan
<1>4. step \in {"start", "complete"} => n >= 1
  <2>1. PICK r \in Nat : r = Len(report)
    BY DEF LoopInv, LoopTyped
  <2>2. step = "start" => n = r + 1
    BY <1>0, <2>1 DEF LoopInv, Paced
  <2>3. step = "complete" => n = r /\ r >= 1
    BY <1>0, <2>1 DEF LoopInv, Paced
  <2> QED
    BY <2>1, <2>2, <2>3
<1>5. CASE step = "initialize"
  <2>1. Shown(step) = [i \in DOMAIN e |-> Task(e[i])]
    BY <1>5 DEF Shown
  <2>2. DOMAIN e = 1 .. Len(e)
    BY <1>2, LenProperties
  <2> HIDE DEF e
  <2>3. \A i \in 1 .. Len(e) : ~(i <= 0)
    BY <1>2
  <2>4. Board(e, 0, 0) = [i \in 1 .. Len(e) |-> [type |-> e[i], status |-> "pending"]]
    BY <2>3 DEF Board
  <2>5. Shown(step) = Board(e, 0, 0)
    BY <2>1, <2>2, <2>4 DEF Task
  <2> QED
    BY <1>5, <2>5 DEF e
<1>6. CASE step = "start"
  <2>1. tasks = Board(e, n - 1, n - 1)
    BY <1>0, <1>6 DEF LoopInv, BoardShown
  <2>2. Len(tasks) = Len(e)
    BY <1>2, <2>1, BoardTyped
  <2>3. ~(n > Len(tasks))
    BY <1>2, <1>3, <2>2
  <2>4. StartTask(tasks, n, Last(strategies)) = [tasks EXCEPT ![n].status = "active"]
    BY <2>3 DEF StartTask
  <2>5. Shown(step) = [tasks EXCEPT ![n].status = "active"]
    BY <1>0, <1>6, <2>4 DEF Shown
  <2> HIDE DEF e
  <2>6. n \in 1 .. Len(e) /\ n - 1 \in Int /\ ~(n <= n - 1) /\ n <= n
    BY <1>2, <1>3, <1>4, <1>6
  <2>7. SameBut(e, n, n - 1, n - 1, n - 1, n)
    BY <1>2 DEF SameBut
  <2>8. "active" = StatusAt(n, n - 1, n)
    BY <2>6 DEF StatusAt
  <2>9. e \in Seq(ProfileKinds) /\ n \in Int
    BY <1>2
  <2>10. [Board(e, n - 1, n - 1) EXCEPT ![n].status = "active"] = Board(e, n - 1, n)
    BY <2>6, <2>7, <2>8, <2>9, BoardUpdate
  <2> QED
    BY <1>0, <1>6, <2>1, <2>5, <2>10 DEF e
<1>7. CASE step = "complete"
  <2>1. tasks = Board(e, n - 1, n)
    BY <1>0, <1>7 DEF LoopInv, BoardShown
  <2>2. Shown(step) = [tasks EXCEPT ![n].status = "completed"]
    BY <1>0, <1>7 DEF Shown
  <2> HIDE DEF e
  <2>6. n \in 1 .. Len(e) /\ n - 1 \in Int /\ n <= n
    BY <1>2, <1>3, <1>4, <1>7
  <2>7. SameBut(e, n, n - 1, n, n, n)
    BY <1>2 DEF SameBut
  <2>8. "completed" = StatusAt(n, n, n)
    BY <2>6 DEF StatusAt
  <2>9. e \in Seq(ProfileKinds) /\ n \in Int
    BY <1>2
  <2>10. [Board(e, n - 1, n) EXCEPT ![n].status = "completed"] = Board(e, n, n)
    BY <2>6, <2>7, <2>8, <2>9, BoardUpdate
  <2> QED
    BY <1>0, <1>7, <2>1, <2>2, <2>10 DEF e
<1>8. CASE step \in {"update", "finalize"}
  BY <1>8 DEF Shown
<1> QED
  BY <1>5, <1>6, <1>7, <1>8

LEMMA SameConfig ==
  ASSUME [LoopNext]_loopVars
  PROVE  UNCHANGED <<config, merged>>
BY DEF LoopNext, loopVars, CallbackDone, Aborts, Initialized, Started, Delivered, Updated,
       Compiled, RunRaises, Completed, Finalized, LoopOver, Propose

\* The rows follow the strategies.
LEMMA BoardStep == LoopInv /\ [LoopNext]_loopVars => BoardShown'
<1> SUFFICES ASSUME LoopInv, [LoopNext]_loopVars PROVE BoardShown'
  OBVIOUS
<1> DEFINE e == Expected(config, merged)
           told == Console \notin waiting
<1>0. PICK n \in Nat : n = Len(strategies)
  BY DEF LoopInv, LoopTyped
<1>1. /\ step = "initialize" => tasks = (IF told THEN Board(e, 0, 0) ELSE <<>>) /\ n = 0
      /\ step = "start" => tasks = Board(e, n - 1, IF told THEN n ELSE n - 1)
      /\ step \in {"running", "update"} => tasks = Board(e, n - 1, n)
      /\ step = "complete" => tasks = Board(e, IF told THEN n ELSE n - 1, n)
      /\ step = "finalize" => tasks = Board(e, n, n)
  <2>1. Len(<<>>) = 0
    BY EmptySeq
  <2> QED
    BY <1>0, <2>1 DEF LoopInv, BoardShown, Paced
<1>2. e' = e
  BY SameConfig
<1> HIDE DEF e
<1>3. CASE UNCHANGED <<tasks, step, strategies>> /\ (Console \in waiting <=> Console \in waiting')
  BY <1>0, <1>1, <1>2, <1>3 DEF BoardShown, e
<1>4. CASE CallbackDone(Console)
  <2>1. /\ Console \in waiting /\ Console \notin waiting' /\ tasks' = Shown(step)
        /\ step' = step /\ strategies' = strategies
    BY <1>4 DEF CallbackDone
  <2>2. step \in Events
    BY <2>1 DEF LoopInv, Paced
  <2>3. /\ step = "initialize" => tasks' = Board(e, 0, 0)
        /\ step = "start" => tasks' = Board(e, n - 1, n)
        /\ step = "complete" => tasks' = Board(e, n, n)
        /\ step \in {"update", "finalize"} => tasks' = tasks
    BY <1>0, <2>1, ConsoleShows DEF e
  <2> QED
    BY <1>0, <1>1, <1>2, <2>1, <2>2, <2>3 DEF BoardShown, Events, e
<1>5. CASE Initialized \/ Completed
  <2>1. Proposing /\ (PlanFails \/ PlanEnds \/ PlanGoesOn)
    BY <1>5, ProposingIs, ProposalOutcome
  <2>2. tasks' = tasks /\ told /\ tasks = Board(e, n, n)
    BY <1>1, <2>1 DEF Proposing
  <2>3. CASE PlanFails
    BY <2>3 DEF PlanFails, BoardShown
  <2>4. CASE PlanEnds
    BY <1>0, <1>2, <2>2, <2>4 DEF PlanEnds, BoardShown, e
  <2>5. CASE PlanGoesOn
    <3> DEFINE p == Planned(Len(report) + 1)
    <3>1. strategies' = Append(strategies, p) /\ p \in Proposal /\ strategies \in Seq(Proposal)
      BY <2>5 DEF PlanGoesOn, LoopInv, LoopTyped
    <3>2. Len(strategies') = n + 1
      BY <1>0, <3>1, AppendProperties
    <3>3. Len(strategies') - 1 = n
      BY <3>2
    <3>4. step' = "start" /\ Console \in waiting'
      BY <2>5 DEF PlanGoesOn, Trackers
    <3> QED
      BY <1>2, <2>2, <3>3, <3>4 DEF BoardShown, e
  <2> QED
    BY <2>1, <2>3, <2>4, <2>5
<1>6. CASE UNCHANGED <<tasks, strategies>> /\ step \in {"running", "update"}
           /\ step' \in {"running", "update", "failed"}
  BY <1>0, <1>1, <1>2, <1>6 DEF BoardShown, e
<1>7. CASE Started
  <2>1. step = "start" /\ told /\ step' = "running" /\ UNCHANGED <<tasks, strategies>>
    BY <1>7 DEF Started, Settled
  <2> QED
    BY <1>0, <1>1, <1>2, <2>1 DEF BoardShown, e
<1>8. ASSUME NEW rate \in Rates, NEW stopped \in BOOLEAN, Compiled(rate, stopped)
      PROVE  BoardShown'
  <2>1. step = "running" /\ step' = "complete" /\ Console \in waiting' /\ UNCHANGED <<tasks, strategies>>
    BY <1>8 DEF Compiled, Announce, Trackers
  <2> QED
    BY <1>0, <1>1, <1>2, <2>1 DEF BoardShown, e
<1>9. CASE step' \in {"failed", "finished"}
  BY <1>9 DEF BoardShown
<1>10. \/ UNCHANGED <<tasks, step, strategies>> /\ (Console \in waiting <=> Console \in waiting')
       \/ CallbackDone(Console)
       \/ Initialized \/ Completed
       \/ /\ UNCHANGED <<tasks, strategies>> /\ step \in {"running", "update"}
          /\ step' \in {"running", "update", "failed"}
       \/ Started
       \/ \E rate \in Rates, stopped \in BOOLEAN : Compiled(rate, stopped)
       \/ step' \in {"failed", "finished"}
  BY DEF LoopNext, loopVars, CallbackDone, Aborts, Delivered, Updated, RunRaises, Finalized,
         LoopOver, Announce
<1> QED
  BY <1>3, <1>4, <1>5, <1>6, <1>7, <1>8, <1>9, <1>10

LEMMA TypedStep == LoopInv /\ [LoopNext]_loopVars => LoopTyped'
<1> SUFFICES ASSUME LoopInv, [LoopNext]_loopVars PROVE LoopTyped'
  OBVIOUS
<1>0. LoopTyped
  BY DEF LoopInv
<1>1. config' \in Configs /\ merged' = Merge(config')
  BY <1>0, SameConfig DEF LoopTyped
<1>2. report' \in Seq(Benchmark)
  BY <1>0, ReportStep, CompiledTyped DEF LoopTyped
<1>3. strategies' \in Seq(Proposal)
  <2>1. CASE Initialized \/ Completed
    <3>1. PlanFails \/ PlanEnds \/ PlanGoesOn
      BY <2>1, ProposingIs, ProposalOutcome
    <3>2. CASE PlanFails \/ PlanEnds
      BY <1>0, <3>2 DEF PlanFails, PlanEnds, LoopTyped
    <3>3. CASE PlanGoesOn
      <4>1. strategies \in Seq(Proposal) /\ Planned(Len(report) + 1) \in Proposal
            /\ strategies' = Append(strategies, Planned(Len(report) + 1))
        BY <1>0, <3>3 DEF PlanGoesOn, LoopTyped
      <4> QED
        BY <4>1, AppendProperties
    <3> QED
      BY <3>1, <3>2, <3>3
  <2>2. CASE strategies' = strategies
    BY <1>0, <2>2 DEF LoopTyped
  <2>3. Initialized \/ Completed \/ strategies' = strategies
    BY DEF LoopNext, loopVars, CallbackDone, Aborts, Started, Delivered, Updated, Compiled,
           RunRaises, Finalized, LoopOver
  <2> QED
    BY <2>1, <2>2, <2>3
<1>4. /\ step' \in Events \cup {"running", "finished", "failed"}
      /\ waiting' \subseteq Trackers /\ raised' \in BOOLEAN
  <2>1. CASE Initialized \/ Completed
    <3>1. Proposing /\ (PlanFails \/ PlanEnds \/ PlanGoesOn)
      BY <2>1, ProposingIs, ProposalOutcome
    <3> QED
      BY <1>0, <3>1 DEF Proposing, PlanFails, PlanEnds, PlanGoesOn, LoopTyped, Events
  <2>2. CASE ~(Initialized \/ Completed)
    <3>1. step' \in Events \cup {"running", "finished", "failed"}
      BY <1>0, <2>2 DEF LoopTyped, LoopNext, loopVars, CallbackDone, Aborts, Started, Delivered,
         Updated, Compiled, RunRaises, Finalized, LoopOver, Announce, Events
    <3>2. waiting' \subseteq Trackers
      BY <1>0, <2>2 DEF LoopTyped, LoopNext, loopVars, CallbackDone, Aborts, Started, Delivered,
         Updated, Compiled, RunRaises, Finalized, LoopOver, Announce
    <3>3. raised' = raised \/ raised' = TRUE \/ raised' = FALSE
      BY <2>2 DEF LoopNext, loopVars, CallbackDone, Aborts, Started, Delivered,
         Updated, Compiled, RunRaises, Finalized, LoopOver, Announce
    <3>4. raised' \in BOOLEAN
      BY <1>0, <3>3 DEF LoopTyped
    <3> QED
      BY <3>1, <3>2, <3>4
  <2> QED
    BY <2>1, <2>2
<1>5. /\ counted' \in SUBSET (Nat \X Nat) /\ lost' \in SUBSET (Nat \X Nat)
      /\ offered' \in 0 .. MaxUpdates
  <2>1. CASE Started
    <3>1. counted' = {} /\ lost' = {} /\ offered' = 0
      BY <2>1 DEF Started, FreshAccumulator
    <3>2. 0 \in 0 .. MaxUpdates
      BY LoopConstants DEF LoopAssumption
    <3> QED
      BY <3>1, <3>2
  <2>2. CASE Delivered
    <3>1. PICK n \in Nat : n = Len(strategies)
      BY <1>0 DEF LoopTyped
    <3>2. offered' \in 0 .. MaxUpdates /\ offered' \in Nat /\ offered' = offered + 1
      BY <1>0, <2>2, LoopConstants DEF LoopTyped, Delivered, LoopAssumption
    <3> DEFINE u == <<n, offered'>>
    <3>3. u \in Nat \X Nat
      BY <3>2
    <3>4. (counted' = counted \/ counted' = counted \cup {u}) /\ (lost' = lost \/ lost' = lost \cup {u})
      BY <2>2, <3>1 DEF Delivered
    <3> HIDE DEF u
    <3> QED
      BY <1>0, <3>2, <3>3, <3>4 DEF LoopTyped
  <2>3. CASE UNCHANGED <<counted, lost, offered>>
    BY <1>0, <2>3 DEF LoopTyped
  <2>4. Started \/ Delivered \/ UNCHANGED <<counted, lost, offered>>
    BY DEF LoopNext, loopVars, CallbackDone, Aborts, Initialized, Updated, Compiled, RunRaises,
           Completed, Finalized, LoopOver
  <2> QED
    BY <2>1, <2>2, <2>3, <2>4
<1>6. faults' \in 0 .. MaxFaults
  <2>1. faults' = faults \/ (faults < MaxFaults /\ faults' = faults + 1)
    BY DEF LoopNext, loopVars, CallbackDone, Aborts, Initialized, Started, Delivered, Updated,
           Compiled, RunRaises, Completed, Finalized, LoopOver
  <2> QED
    BY <1>0, <2>1, LoopConstants DEF LoopTyped, LoopAssumption
<1>7. tasks' \in Seq(Row)
  <2>1. CASE CallbackDone(Console)
    <3> DEFINE e == Expected(config, merged)
    <3>1. e \in Seq(ProfileKinds)
      BY <1>0, ExpectedIsPlanned DEF LoopTyped
    <3>2. Console \in waiting /\ tasks' = Shown(step)
      BY <2>1 DEF CallbackDone
    <3>3. step \in Events
      BY <3>2 DEF LoopInv, Paced
    <3> HIDE DEF e
    <3>4. tasks' = tasks \/ \E c, a : tasks' = Board(e, c, a)
      BY <3>2, <3>3, ConsoleShows DEF Events, e
    <3>5. \A c, a : Board(e, c, a) \in Seq(Row)
      BY <3>1, BoardTyped
    <3> QED
      BY <1>0, <3>4, <3>5 DEF LoopTyped
  <2>2. CallbackDone(Console) \/ tasks' = tasks
    BY DEF LoopNext, loopVars, CallbackDone, Aborts, Initialized, Started, Delivered, Updated,
           Compiled, RunRaises, Completed, Finalized, LoopOver
  <2> QED
    BY <1>0, <2>1, <2>2 DEF LoopTyped
<1>8. DOMAIN heard' = Trackers
  <2>1. heard' = heard \/ \E t, x : heard' = [heard EXCEPT ![t] = x]
    BY DEF LoopNext, loopVars, CallbackDone, Aborts, Initialized, Started, Delivered, Updated,
           Compiled, RunRaises, Completed, Finalized, LoopOver
  <2> QED
    BY <1>0, <2>1 DEF LoopTyped
<1> QED
  BY <1>1, <1>2, <1>3, <1>4, <1>5, <1>6, <1>7, <1>8 DEF LoopTyped

LEMMA PacedStep == LoopInv /\ [LoopNext]_loopVars => Paced'
<1> SUFFICES ASSUME LoopInv, [LoopNext]_loopVars PROVE Paced'
  OBVIOUS
<1>0. PICK r \in Nat, n \in Nat : r = Len(report) /\ n = Len(strategies)
  BY DEF LoopInv, LoopTyped
<1>1. /\ step = "initialize" => strategies = <<>> /\ report = <<>>
      /\ step \in {"start", "running", "update"} => n = r + 1
      /\ step \in {"complete", "finalize", "finished"} => n = r
      /\ n >= r
      /\ step = "complete" => r >= 1
      /\ step \notin Events => waiting = {}
      /\ step = "finished" => returned = report
  BY <1>0 DEF LoopInv, Paced
<1>2. CASE /\ UNCHANGED <<strategies, report, returned>>
           /\ \/ step' = step \/ step' = "failed"
              \/ (step \in {"start", "running", "update"} /\ step' \in {"running", "update"})
           /\ step' \in Events \/ waiting' = {}
  <2>1. step' = "finished" => step = "finished"
    BY <1>2
  <2> QED
    BY <1>0, <1>1, <1>2, <2>1 DEF Paced
<1>3. CASE Initialized \/ Completed
  <2>1. Proposing /\ (PlanFails \/ PlanEnds \/ PlanGoesOn)
    BY <1>3, ProposingIs, ProposalOutcome
  <2>2. n = r /\ report' = report /\ waiting = {}
    BY <1>0, <2>1 DEF Proposing
  <2>3. CASE PlanFails \/ PlanEnds
    <3>1. /\ strategies' = strategies /\ Len(strategies') = r /\ Len(report') = r
          /\ step' = "finalize" \/ (step' = "failed" /\ waiting' = {})
      BY <1>0, <2>2, <2>3 DEF PlanFails, PlanEnds
    <3> QED
      BY <3>1 DEF Paced, Events
  <2>4. CASE PlanGoesOn
    <3>1. strategies \in Seq(Proposal) /\ Planned(r + 1) \in Proposal /\ step' = "start"
          /\ strategies' = Append(strategies, Planned(r + 1))
      BY <1>0, <2>4 DEF PlanGoesOn, LoopInv, LoopTyped
    <3>2. Len(strategies') = n + 1
      BY <1>0, <3>1, AppendProperties
    <3> QED
      BY <1>0, <2>2, <3>1, <3>2 DEF Paced, Events
  <2> QED
    BY <2>1, <2>3, <2>4
<1>4. ASSUME NEW rate \in Rates, NEW stopped \in BOOLEAN, Compiled(rate, stopped) PROVE Paced'
  <2>1. Len(report') = r + 1 /\ n = r + 1 /\ strategies' = strategies /\ step' = "complete"
    BY <1>0, <1>4, CompiledTyped DEF Compiled, Announce
  <2>2. Len(strategies') = r + 1
    BY <1>0, <2>1, Zenon
  <2>3. r + 1 >= 1
    BY <1>0
  <2> QED
    BY <2>1, <2>2, <2>3 DEF Paced, Events
<1>5. CASE Finalized
  <2>1. /\ step = "finalize" /\ waiting = {} /\ step' = "finished" /\ returned' = report
        /\ UNCHANGED <<strategies, report, waiting>>
    BY <1>5 DEF Finalized, Settled
  <2> QED
    BY <1>0, <1>1, <2>1 DEF Paced, Events
<1>6. \/ /\ UNCHANGED <<strategies, report, returned>>
         /\ \/ step' = step \/ step' = "failed"
            \/ (step \in {"start", "running", "update"} /\ step' \in {"running", "update"})
         /\ step' \in Events \/ waiting' = {}
      \/ Initialized \/ Completed \/ Finalized
      \/ \E rate \in Rates, stopped \in BOOLEAN : Compiled(rate, stopped)
  <2>1. step = "running" => waiting = {}
    BY <1>1 DEF Events
  <2>2. \A t \in Trackers : CallbackDone(t) => step \in Events
    BY <1>1 DEF CallbackDone
  <2>3. UNCHANGED loopVars => step' \in Events \/ waiting' = {}
    BY <1>1 DEF loopVars
  <2>4. Aborts \/ Started \/ Updated => waiting' = {} /\ UNCHANGED <<strategies, report, returned>>
          /\ (step' = "failed" \/ (step \in {"start", "update"} /\ step' = "running"))
    BY DEF Aborts, Started, Updated, Settled
  <2>5. Delivered \/ RunRaises => (step' \in Events \/ waiting' = {})
          /\ UNCHANGED <<strategies, report, returned>>
          /\ (step' = "failed" \/ (step = "running" /\ step' \in {"running", "update"}))
    BY <2>1 DEF Delivered, RunRaises, Announce, Events
  <2>6. \A t \in Trackers : CallbackDone(t) => step' = step /\ UNCHANGED <<strategies, report, returned>>
    BY DEF CallbackDone
  <2> QED
    BY <2>2, <2>3, <2>4, <2>5, <2>6 DEF LoopNext, loopVars, LoopOver
<1> QED
  BY <1>2, <1>3, <1>4, <1>5, <1>6

\* A benchmark that is added does not change the plan of the strategies started before.
LEMMA PlanIsKept ==
  ASSUME NEW c, NEW m, NEW done, NEW more, NEW i \in Nat,
         i > 2 => more[1] = done[1] /\ more[2] = done[2]
  PROVE  NthOf(c, m, more, i) = NthOf(c, m, done, i)
<1>1. CASE c.kind = "sweep" /\ i > 2
  <2>1. i # 1 /\ i # 2 /\ ~HasLevels(c.kind)
    BY <1>1 DEF HasLevels
  <2>2. /\ NthOf(c, m, more, i) =
             [type |-> "constant", level |-> Linspace(more[1].rate, more[2].rate, c.size)[i - 2]]
        /\ NthOf(c, m, done, i) =
             [type |-> "constant", level |-> Linspace(done[1].rate, done[2].rate, c.size)[i - 2]]
    BY <1>1, <2>1 DEF NthOf
  <2> QED
    BY <1>1, <2>2
<1>2. CASE ~(c.kind = "sweep" /\ i > 2)
  BY <1>2 DEF NthOf
<1> QED
  BY <1>1, <1>2

LEMMA OnPlanStep == LoopInv /\ [LoopNext]_loopVars => OnPlan'
<1> SUFFICES ASSUME LoopInv, [LoopNext]_loopVars PROVE OnPlan'
  OBVIOUS
<1>0. PICK r \in Nat, n \in Nat : r = Len(report) /\ n = Len(strategies)
  BY DEF LoopInv, LoopTyped
<1>1. /\ \A i \in 1 .. n : strategies[i] = Planned(i)
      /\ n <= PlanSize
      /\ \A i \in 1 .. n - 1 : Baseline(i) \/ ~report[i].stopped
      /\ config.kind = "sweep" /\ n > 2 =>
           rising = Linspace(report[1].rate, report[2].rate, config.size)
      /\ step \in {"finalize", "finished"} /\ ~Halted(report) =>
           \/ n = PlanSize
           \/ config.kind = "sweep" /\ Len(report) >= 2 /\ report[2].rate <= 0
  <2>1. OnPlan
    BY DEF LoopInv
  <2> QED
    BY <1>0, <2>1 DEF OnPlan
<1>2. config' = config /\ merged' = merged
  BY SameConfig
<1>3. CASE UNCHANGED <<strategies, report, rising>> /\
           (step' \notin {"finalize", "finished"} \/ step \in {"finalize", "finished"})
  BY <1>1, <1>2, <1>3 DEF LoopInv, OnPlan, Planned, NthOf, PlanSize, Baseline
<1>4. ASSUME NEW rate \in Rates, NEW stopped \in BOOLEAN, Compiled(rate, stopped) PROVE OnPlan'
  <2>1. /\ n = r + 1 /\ \A i \in 1 .. r : report'[i] = report[i]
        /\ strategies' = strategies /\ rising' = rising /\ step' = "complete"
    BY <1>0, <1>4, CompiledTyped DEF Compiled, Announce
  <2>2. n > 2 => report'[1] = report[1] /\ report'[2] = report[2]
    BY <2>1
  <2>3. \A i \in 1 .. n : i > 2 => report'[1] = report[1] /\ report'[2] = report[2]
    BY <2>2
  <2>4. \A i \in 1 .. n : Planned(i)' = Planned(i)
    BY <1>2, <2>3, PlanIsKept DEF Planned
  <2>5. \A i \in 1 .. n - 1 : report'[i] = report[i]
    BY <2>1
  <2>6. DOMAIN strategies = 1 .. n
    BY <1>0 DEF LoopInv, LoopTyped
  <2>7. \A i \in DOMAIN strategies' : strategies'[i] = Planned(i)'
    BY <1>1, <2>1, <2>4, <2>6
  <2>8. \A i \in 1 .. Len(strategies') - 1 : Baseline(i)' \/ ~report'[i].stopped
    BY <1>0, <1>1, <1>2, <2>1, <2>5 DEF Baseline
  <2>9. PlanSize' = PlanSize /\ Len(strategies') = n
    BY <1>0, <1>2, <2>1 DEF PlanSize
  <2>10. config'.kind = "sweep" /\ Len(strategies') > 2 =>
           rising' = Linspace(report'[1].rate, report'[2].rate, config'.size)
    BY <1>1, <1>2, <2>1, <2>2, <2>9
  <2> QED
    BY <1>1, <2>1, <2>7, <2>8, <2>9, <2>10 DEF OnPlan
<1>5. CASE Initialized \/ Completed
  <2>1. Proposing /\ (PlanFails \/ PlanEnds \/ PlanGoesOn)
    BY <1>5, ProposingIs, ProposalOutcome
  <2>2. report' = report /\ r = n /\ rising' = Measured(config, report)
    BY <1>0, <2>1 DEF Proposing, Propose
  <2>3. config.kind = "sweep" /\ n > 2 =>
          rising' = Linspace(report[1].rate, report[2].rate, config.size)
    <3>1. n > 2 => Len(report) # 2
      BY <1>0, <2>2
    <3> QED
      BY <1>1, <2>2, <3>1 DEF Measured
  <2>4. \A i : Planned(i)' = Planned(i) /\ Baseline(i)' = Baseline(i)
    BY <1>2, <2>2 DEF Planned, Baseline
  <2>5. PlanSize' = PlanSize /\ Halted(report)' = Halted(report)
    BY <1>2, <2>2 DEF PlanSize
  <2>6. DOMAIN strategies = 1 .. n
    BY <1>0 DEF LoopInv, LoopTyped
  <2>7. CASE PlanFails \/ PlanEnds
    <3>1. strategies' = strategies /\ Len(strategies') = n
      BY <1>0, <2>7 DEF PlanFails, PlanEnds
    <3>2. step' \in {"finalize", "finished"} /\ ~Halted(report)' =>
            \/ n = PlanSize
            \/ config.kind = "sweep" /\ Len(report) >= 2 /\ report[2].rate <= 0
      BY <1>0, <2>2, <2>5, <2>7 DEF PlanFails, PlanEnds
    <3>3. \A i \in DOMAIN strategies' : strategies'[i] = Planned(i)'
      BY <1>1, <2>4, <2>6, <3>1
    <3>4. \A i \in 1 .. Len(strategies') - 1 : Baseline(i)' \/ ~report'[i].stopped
      BY <1>1, <2>2, <2>4, <3>1
    <3> QED
      BY <1>1, <1>2, <2>2, <2>3, <2>5, <3>1, <3>2, <3>3, <3>4 DEF OnPlan
  <2>8. CASE PlanGoesOn
    <3> DEFINE s == Planned(n + 1)
    <3>1. strategies \in Seq(Proposal) /\ s \in Proposal /\ strategies' = Append(strategies, s)
      BY <1>0, <2>2, <2>8 DEF PlanGoesOn, LoopInv, LoopTyped
    <3>2. /\ Len(strategies') = n + 1 /\ DOMAIN strategies' = 1 .. n + 1
          /\ \A i \in 1 .. n : strategies'[i] = strategies[i]
          /\ strategies'[n + 1] = s
      BY <1>0, <3>1, AppendProperties
    <3>3. \A i \in DOMAIN strategies' : strategies'[i] = Planned(i)'
      <4> SUFFICES ASSUME NEW i \in 1 .. n + 1 PROVE strategies'[i] = Planned(i)
        BY <2>4, <3>2
      <4>1. i \in 1 .. n \/ i = n + 1
        OBVIOUS
      <4> QED
        BY <1>1, <3>2, <4>1
    <3>4. \A i \in 1 .. n : Baseline(i) \/ ~report[i].stopped
      <4> SUFFICES ASSUME NEW i \in 1 .. n PROVE Baseline(i) \/ ~report[i].stopped
        OBVIOUS
      <4>1. CASE i \in 1 .. n - 1
        BY <1>1, <4>1
      <4>2. CASE i = n
        <5>1. n # 0
          BY <4>2
        <5>2. report # <<>>
          BY <1>0, <2>2, <5>1, EmptySeq
        <5> QED
          BY <1>0, <2>2, <2>8, <4>2, <5>2 DEF PlanGoesOn
      <4> QED
        BY <4>1, <4>2
    <3>5. (n + 1) - 1 = n
      OBVIOUS
    <3>6. \A i \in 1 .. Len(strategies') - 1 : Baseline(i)' \/ ~report'[i].stopped
      BY <2>2, <2>4, <3>2, <3>4, <3>5
    <3>7. /\ n + 1 <= PlanSize /\ step' = "start"
          /\ config.kind = "sweep" /\ n + 1 > 2 =>
               rising' = Linspace(report[1].rate, report[2].rate, config.size)
      BY <1>0, <2>2, <2>8 DEF PlanGoesOn
    <3> QED
      BY <1>2, <2>2, <2>5, <3>2, <3>3, <3>6, <3>7 DEF OnPlan
  <2> QED
    BY <2>1, <2>7, <2>8
<1>6. \/ UNCHANGED <<strategies, report, rising>> /\
           (step' \notin {"finalize", "finished"} \/ step \in {"finalize", "finished"})
      \/ Initialized \/ Completed
      \/ \E rate \in Rates, stopped \in BOOLEAN : Compiled(rate, stopped)
  BY DEF LoopNext, loopVars, CallbackDone, Aborts, Started, Delivered, Updated, RunRaises,
         Finalized, LoopOver, Announce
<1> QED
  BY <1>3, <1>4, <1>5, <1>6

LEMMA LoopStep == LoopInv /\ [LoopNext]_loopVars => LoopInv'
BY TypedStep, PacedStep, OnPlanStep, LimitedStep, AccountedStep, HeardStep, BoardStep DEF LoopInv

-----------------------------------------------------------------------------
LEMMA TypeOKHolds == LoopInv => LoopTypeOK
<1> SUFFICES ASSUME LoopInv PROVE LoopTypeOK
  OBVIOUS
<1>1. PICK n \in Nat : n = Len(strategies)
  BY DEF LoopInv, LoopTyped
<1>2. limitIndex \in -1 .. n - 1 /\ Len(limits) = Len(strategies)
  BY <1>1 DEF LoopInv, WithinLimits
<1>3. \A i \in DOMAIN tasks : tasks[i].status \in {"pending", "active", "completed"}
  <2>1. tasks \in Seq(Row)
    BY DEF LoopInv, LoopTyped
  <2>2. \A i \in DOMAIN tasks : tasks[i] \in Row
    BY <2>1
  <2> QED
    BY <2>2 DEF Row
<1> QED
  BY <1>1, <1>2, <1>3 DEF LoopInv, LoopTyped, LoopTypeOK

LEMMA PlanHolds == LoopInv => PlanIsRun
<1> SUFFICES ASSUME LoopInv PROVE PlanIsRun
  OBVIOUS
<1>1. \A i \in 1 .. Len(strategies) - 1 : Baseline(i) \/ ~report[i].stopped
  BY DEF LoopInv, OnPlan
<1>2. ASSUME HasLevels(config.kind)
      PROVE  /\ \A i \in DOMAIN strategies : strategies[i].level = merged.levels[i]
             /\ step = "finished" /\ ~Halted(report) => Len(strategies) = Len(merged.levels)
  <2>1. config.kind # "sweep"
    BY <1>2 DEF HasLevels
  <2>2. \A i : Planned(i).level = merged.levels[i]
    BY <1>2, <2>1 DEF Planned, NthOf
  <2>3. PlanSize = Len(merged.levels)
    BY <1>2, <2>1, ExpectedIsPlanned DEF LoopInv, LoopTyped
  <2>4. \A i \in DOMAIN strategies : strategies[i] = Planned(i)
    BY DEF LoopInv, OnPlan
  <2>5. step = "finished" /\ ~Halted(report) => Len(strategies) = PlanSize
    BY <2>1 DEF LoopInv, OnPlan
  <2> QED
    BY <2>2, <2>3, <2>4, <2>5
<1>3. step = "finished" => Len(returned) = Len(strategies)
  BY DEF LoopInv, Paced
<1> QED
  BY <1>1, <1>2, <1>3 DEF PlanIsRun

LEMMA SweepHolds == LoopInv => SweepCoversTheRange
<1> SUFFICES ASSUME LoopInv, config.kind = "sweep", Len(report) >= 2, config.size > 2
             PROVE  SweepCoversTheRange
  BY DEF SweepCoversTheRange
<1> DEFINE u == config.size - 2
           a == report[1].rate
           b == report[2].rate
           d == b - a
           rest == [i \in 1 .. Len(strategies) - 2 |-> strategies[i + 2].level]
           points == <<a * u>> \o rest
<1>0. PICK r \in Nat, n \in Nat : r = Len(report) /\ n = Len(strategies)
  BY DEF LoopInv, LoopTyped
<1>1. config.size \in Nat /\ u \in Nat /\ u >= 1 /\ config \in Configs /\ merged = Merge(config)
  BY ConfigTyped DEF LoopInv, LoopTyped
<1>2. PlanSize = u + 2
  BY <1>1, ExpectedIsPlanned
<1>3. r >= 2 /\ n >= r /\ n <= u + 2
  BY <1>0, <1>2 DEF LoopInv, Paced, OnPlan
<1>4. a \in Nat /\ b \in Nat
  <2>1. report[1] \in Benchmark /\ report[2] \in Benchmark
    BY <1>0, <1>3 DEF LoopInv, LoopTyped
  <2> QED
    BY <2>1 DEF Benchmark
<1>5. \A j \in 1 .. u : Linspace(a, b, config.size)[j] = a * u + j * d
  <2>1. a \in Int /\ b \in Int /\ config.size \in Nat /\ config.size >= 2
    BY <1>1, <1>4
  <2> HIDE DEF a, b
  <2>2. \A j \in 1 .. config.size - 2 :
          Linspace(a, b, config.size)[j] = a * (config.size - 2) + j * (b - a)
    BY <2>1, LinspaceTyped
  <2> QED
    BY <2>2
<1>6. \A j \in 1 .. n - 2 : strategies[j + 2].level = a * u + j * d
  <2> SUFFICES ASSUME NEW j \in 1 .. n - 2 PROVE strategies[j + 2].level = a * u + j * d
    OBVIOUS
  <2>1. j + 2 \in 1 .. n /\ j + 2 > 2 /\ j + 2 # 1 /\ j + 2 # 2 /\ (j + 2) - 2 = j /\ j \in 1 .. u
    BY <1>1, <1>3
  <2>2. strategies[j + 2] = Planned(j + 2)
    BY <1>0, <2>1 DEF LoopInv, LoopTyped, OnPlan
  <2>3. Planned(j + 2) =
          [type |-> "constant", level |-> Linspace(a, b, config.size)[(j + 2) - 2]]
    BY <2>1 DEF Planned, NthOf, HasLevels
  <2>4. strategies[j + 2].level = Linspace(a, b, config.size)[j]
    BY <2>1, <2>2, <2>3
  <2> QED
    BY <1>5, <2>1, <2>4
<1>7. d \in Int /\ a * u \in Int /\ \A j \in Int : j * d \in Int
  BY <1>1, <1>4
<1>8. /\ Len(points) = n - 1
      /\ \A i \in 1 .. n - 1 : points[i] = a * u + (i - 1) * d
  <2> DEFINE c == a * u
  <2>1. rest = [i \in 1 .. n - 2 |-> strategies[i + 2].level]
    BY <1>0
  <2>2. n - 2 \in Nat /\ c \in Int
    BY <1>3, <1>7
  <2> HIDE DEF rest, c, d, u, a, b
  <2>3. ASSUME NEW j \in 1 .. n - 2 PROVE strategies[j + 2].level \in Int
    <3>1. strategies[j + 2].level = c + j * d
      BY <1>6 DEF c
    <3>2. j * d \in Int
      BY <1>7
    <3> QED
      BY <2>2, <3>1, <3>2
  <2>4. rest \in Seq(Int) /\ Len(rest) = n - 2 /\ \A j \in 1 .. n - 2 : rest[j] = strategies[j + 2].level
    BY <2>1, <2>2, <2>3
  <2>5. <<c>> \in Seq(Int) /\ Len(<<c>>) = 1 /\ <<c>>[1] = c
    BY <2>2
  <2>6. /\ Len(<<c>> \o rest) = 1 + (n - 2)
        /\ \A i \in 1 .. 1 + (n - 2) :
             (<<c>> \o rest)[i] = IF i <= 1 THEN <<c>>[i] ELSE rest[i - 1]
    <3> DEFINE q == <<c>>
    <3>1. q \in Seq(Int) /\ rest \in Seq(Int) /\ Len(q) = 1 /\ Len(rest) = n - 2
      BY <2>4, <2>5
    <3> HIDE DEF q
    <3>2. /\ Len(q \o rest) = Len(q) + Len(rest)
          /\ \A i \in 1 .. Len(q) + Len(rest) :
               (q \o rest)[i] = IF i <= Len(q) THEN q[i] ELSE rest[i - Len(q)]
      BY <3>1, ConcatProperties
    <3> QED
      BY <3>1, <3>2 DEF q
  <2>7. 1 + (n - 2) = n - 1
    OBVIOUS
  <2>8. ASSUME NEW i \in 1 .. n - 1 PROVE (<<c>> \o rest)[i] = c + (i - 1) * d
    <3>1. CASE i = 1
      <4>1. (i - 1) * d = 0
        BY <1>7, <3>1
      <4>2. (<<c>> \o rest)[i] = c
        BY <2>5, <2>6, <2>7, <3>1
      <4>3. c + 0 = c
        BY <2>2
      <4> QED
        BY <4>1, <4>2, <4>3, Zenon
    <3>2. CASE i # 1
      <4>1. i - 1 \in 1 .. n - 2 /\ ~(i <= 1)
        BY <3>2
      <4>2. (<<c>> \o rest)[i] = rest[i - 1]
        BY <2>6, <2>7, <4>1
      <4>3. rest[i - 1] = c + (i - 1) * d
        <5>1. rest[i - 1] = strategies[(i - 1) + 2].level
          BY <2>4, <4>1
        <5>2. strategies[(i - 1) + 2].level = c + (i - 1) * d
          BY <1>6, <4>1 DEF c
        <5> QED
          BY <5>1, <5>2
      <4> QED
        BY <4>2, <4>3
    <3> QED
      BY <3>1, <3>2
  <2> QED
    BY <2>6, <2>7, <2>8 DEF c
<1> HIDE DEF points, rest
<1>9. \A i \in 2 .. Len(points) : (points[i] - points[i - 1]) * u = d * u
  <2> HIDE DEF d
  <2> SUFFICES ASSUME NEW i \in 2 .. n - 1 PROVE (points[i] - points[i - 1]) * u = d * u
    BY <1>8
  <2>1. points[i] = a * u + (i - 1) * d
    BY <1>8
  <2>2. i - 1 \in 1 .. n - 1
    OBVIOUS
  <2>3. points[i - 1] = a * u + ((i - 1) - 1) * d
    BY <1>8, <2>2
  <2>4. (i - 1) * d = ((i - 1) - 1) * d + d
    BY <1>7
  <2>5. points[i] - points[i - 1] = d
    BY <1>7, <2>1, <2>3, <2>4
  <2> QED
    BY <2>5
<1>10. n <= config.size
  BY <1>1, <1>3
<1>11. ASSUME step = "finished", ~Halted(report)
       PROVE  (n = config.size /\ Last(points) = b * u) \/ b <= 0
  <2>1. n = PlanSize \/ b <= 0
    BY <1>0, <1>11 DEF LoopInv, OnPlan
  <2>2. CASE n = PlanSize
    <3>1. n = u + 2 /\ n - 1 = u + 1 /\ u + 1 \in 1 .. n - 1 /\ (u + 1) - 1 = u
      BY <1>1, <1>2, <2>2
    <3>2. Last(points) = points[u + 1]
      BY <1>8, <3>1 DEF Last
    <3>3. points[u + 1] = a * u + u * d
      BY <1>8, <3>1
    <3>4. a * u + u * d = b * u
      <4>1. u * d = u * b - u * a
        BY <1>1, <1>4
      <4>2. u * a = a * u /\ u * b = b * u
        BY <1>1, <1>4
      <4> HIDE DEF d
      <4>3. a * u \in Int /\ b * u \in Int
        BY <1>1, <1>4
      <4> QED
        BY <4>1, <4>2, <4>3
    <3> QED
      BY <1>1, <3>1, <3>2, <3>3, <3>4
  <2> QED
    BY <2>1, <2>2
<1> QED
  BY <1>0, <1>9, <1>10, <1>11 DEF SweepCoversTheRange, points, rest

LEMMA LimitsHold == LoopInv => LimitsFollowBenchmarks
<1> SUFFICES ASSUME LoopInv,
                    \A i \in DOMAIN config.benchmarks : Len(config.benchmarks[i].levels) = 1
                                                     /\ Len(config.benchmarks[i].counts) = 1,
                    NEW i \in DOMAIN strategies, i <= Len(config.benchmarks)
             PROVE  limits[i] = config.benchmarks[i].counts[1]
  BY DEF LimitsFollowBenchmarks
<1> DEFINE b == config.benchmarks
           c == [k \in DOMAIN b |-> b[k].counts]
<1>1. b \in Seq([levels : Seq(Nat \ {0}), counts : Seq(Nat \ {0})])
  BY ConfigTyped DEF LoopInv, LoopTyped
<1>2. merged.counts = FlattenSeq(c)
  BY MergeTyped DEF LoopInv, LoopTyped, Joined
<1>3. \A k \in DOMAIN b : Len(b[k].counts) = 1
  OBVIOUS
<1>4. i \in Nat /\ i >= 1 /\ i <= Len(b) /\ i \in DOMAIN limits /\ limits[i] = LimitAt(merged, i - 1)
  <2>1. PICK n \in Nat : n = Len(strategies)
    BY DEF LoopInv, LoopTyped
  <2>2. i \in 1 .. n /\ DOMAIN limits = 1 .. n
    BY <2>1 DEF LoopInv, LoopTyped, WithinLimits
  <2> QED
    BY <2>2 DEF LoopInv, WithinLimits
<1> HIDE DEF b
<1>5. DOMAIN b = 1 .. Len(b) /\ Len(b) \in Nat
  BY <1>1, LenProperties
<1>6. \A k \in DOMAIN b : b[k] \in [levels : Seq(Nat \ {0}), counts : Seq(Nat \ {0})]
  BY <1>1, <1>5, ElementOfSeq
<1>7. \A k \in DOMAIN b : b[k].counts \in Seq(Nat \ {0})
  BY <1>6
<1>8. /\ c \in Seq(Seq(Nat \ {0})) /\ Len(c) = Len(b) /\ DOMAIN c = 1 .. Len(b)
      /\ \A k \in DOMAIN c : c[k] = b[k].counts
  BY <1>5, <1>7
<1> HIDE DEF c
<1>9. \A k \in DOMAIN c : Len(c[k]) = 1
  BY <1>3, <1>5, <1>8
<1>10. /\ Len(FlattenSeq(c)) = Len(b)
       /\ \A k \in DOMAIN c : FlattenSeq(c)[k] = c[k][1]
  BY <1>8, <1>9, FlattenSingles
<1>11. i - 1 < Len(b) /\ (i - 1) + 1 = i /\ i \in 1 .. Len(b)
  BY <1>4, <1>5
<1>12. LimitAt(merged, i - 1) = FlattenSeq(c)[(i - 1) + 1]
  BY <1>2, <1>10, <1>11 DEF LimitAt
<1>13. FlattenSeq(c)[i] = c[i][1]
  BY <1>8, <1>10, <1>11
<1>14. c[i] = b[i].counts
  BY <1>8, <1>11
<1>15. limits[i] = b[i].counts[1]
  BY <1>4, <1>11, <1>12, <1>13, <1>14
<1> QED
  BY <1>15 DEF b

\* A benchmark run executes its plan: Benchmarker.run with the profiles and
\* resolve_to_single_benchmark, for every configuration, rate and number of updates.
THEOREM PlanStaysCarriedOut == LoopSpec => []PlanIsCarriedOut
<1>1. LoopSpec => []LoopInv
  BY InitLoop, LoopStep, PTL DEF LoopSpec
<1>2. LoopInv => PlanIsCarriedOut
  BY TypeOKHolds, PlanHolds, SweepHolds, LimitsHold DEF PlanIsCarriedOut, LoopInv, Accounted
<1> QED
  BY <1>1, <1>2, PTL

-----------------------------------------------------------------------------
LEMMA PrefixOfAppend ==
  ASSUME NEW S, NEW h \in Seq(S), NEW x \in S
  PROVE  IsPrefix(h, h) /\ IsPrefix(h, Append(h, x)) /\ Len(Append(h, x)) = Len(h) + 1
<1>1. Append(h, x) = h \o <<x>> /\ Len(Append(h, x)) = Len(h) + 1 /\ Len(h) \in Nat
  BY AppendIsConcat, AppendProperties
<1>2. SubSeq(Append(h, x), 1, Len(h)) = SubSeq(h, 1, Len(h))
  OBVIOUS
<1> QED
  BY <1>1, <1>2 DEF IsPrefix

LEMMA TrackersHold == LoopInv => TrackersAgree
<1> SUFFICES ASSUME LoopInv PROVE TrackersAgree
  OBVIOUS
<1> DEFINE e == <<step, Len(strategies)>>
           ahead(t) == ~(t \in waiting \/ step \notin Events)
<1>1. PICK h \in Seq(Events \X Nat) : \A t \in Trackers :
        heard[t] = IF ahead(t) THEN Append(h, e) ELSE h
  BY DEF LoopInv, HeardInStep
<1>2. Len(strategies) \in Nat
  BY DEF LoopInv, LoopTyped
<1>3. step \in {"running", "finished", "failed"} => \A t \in Trackers : ~ahead(t)
  BY DEF Events
<1>4. step \in Events => e \in Events \X Nat
  BY <1>2
<1> HIDE DEF e
<1>5. step \in Events =>
        IsPrefix(h, h) /\ IsPrefix(h, Append(h, e)) /\ IsPrefix(Append(h, e), Append(h, e))
        /\ Len(Append(h, e)) = Len(h) + 1 /\ Len(h) \in Nat
  <2> SUFFICES ASSUME step \in Events
               PROVE  IsPrefix(h, h) /\ IsPrefix(h, Append(h, e)) /\ IsPrefix(Append(h, e), Append(h, e))
                      /\ Len(Append(h, e)) = Len(h) + 1 /\ Len(h) \in Nat
    OBVIOUS
  <2>1. e \in Events \X Nat /\ Append(h, e) \in Seq(Events \X Nat)
    BY <1>4, AppendProperties
  <2>2. IsPrefix(h, h) /\ IsPrefix(h, Append(h, e)) /\ Len(Append(h, e)) = Len(h) + 1
    BY <2>1, PrefixOfAppend
  <2>3. IsPrefix(Append(h, e), Append(h, e))
    BY <2>1 DEF IsPrefix
  <2> QED
    BY <2>2, <2>3
<1>6. IsPrefix(h, h) /\ Len(h) \in Nat
  BY DEF IsPrefix
<1>7. ASSUME NEW s \in Trackers, NEW t \in Trackers
      PROVE  /\ IsPrefix(heard[s], heard[t]) \/ IsPrefix(heard[t], heard[s])
             /\ Len(heard[s]) <= Len(heard[t]) + 1
             /\ step \in {"running", "finished", "failed"} => heard[s] = heard[t]
  <2>1. /\ heard[s] = IF ahead(s) THEN Append(h, e) ELSE h
        /\ heard[t] = IF ahead(t) THEN Append(h, e) ELSE h
    BY <1>1
  <2>2. step \in {"running", "finished", "failed"} => heard[s] = heard[t]
    BY <1>3, <2>1
  <2>3. ahead(s) \/ ahead(t) => step \in Events
    OBVIOUS
  <2> HIDE DEF ahead
  <2>4. IsPrefix(heard[s], heard[t]) \/ IsPrefix(heard[t], heard[s])
    BY <1>5, <1>6, <2>1, <2>3
  <2>5. Len(heard[s]) <= Len(heard[t]) + 1
    BY <1>5, <1>6, <2>1, <2>3
  <2> QED
    BY <2>2, <2>4, <2>5
<1> QED
  BY <1>7 DEF TrackersAgree

LEMMA ConsoleHolds == LoopInv => ConsoleShowsTheRun
<1> SUFFICES ASSUME LoopInv, step = "running" PROVE ConsoleShowsTheRun
  BY DEF ConsoleShowsTheRun
<1> DEFINE e == Expected(config, merged)
<1>0. PICK n \in Nat : n = Len(strategies)
  BY DEF LoopInv, LoopTyped
<1>1. PICK r \in Nat : r = Len(report)
  BY DEF LoopInv, LoopTyped
<1>2. n = r + 1
  BY <1>0, <1>1 DEF LoopInv, Paced
<1>3. /\ e \in Seq(ProfileKinds) /\ PlanSize = Len(e) /\ Len(e) \in Nat
      /\ \A i \in 1 .. PlanSize : e[i] = Planned(i).type
  BY ExpectedIsPlanned DEF LoopInv, LoopTyped, PlanSize
<1>4. n <= Len(e)
  BY <1>0, <1>3 DEF LoopInv, OnPlan
<1>5. tasks = Board(e, n - 1, n)
  BY <1>0 DEF LoopInv, BoardShown
<1>6. \A i \in 1 .. n : strategies[i] = Planned(i)
  BY <1>0 DEF LoopInv, LoopTyped, OnPlan
<1> HIDE DEF e
<1>7. Len(tasks) = Len(e) /\ DOMAIN tasks = 1 .. Len(e)
  BY <1>3, <1>5, BoardTyped DEF Board
<1>8. ASSUME NEW i \in 1 .. Len(e)
      PROVE  tasks[i].type = e[i] /\ tasks[i].status = StatusAt(i, n - 1, n)
  <2>1. tasks[i] = [type |-> e[i], status |-> StatusAt(i, n - 1, n)]
    BY <1>5 DEF Board, StatusAt
  <2> QED
    BY <2>1
<1>9. ASSUME NEW i \in 1 .. Len(e)
      PROVE  tasks[i].status = (IF i < n THEN "completed" ELSE IF i = n THEN "active" ELSE "pending")
  <2>1. (i <= n - 1 <=> i < n) /\ (i <= n /\ ~(i < n) <=> i = n)
    BY <1>3
  <2>2. tasks[i].status = IF i <= n - 1 THEN "completed" ELSE IF i <= n THEN "active" ELSE "pending"
    BY <1>8 DEF StatusAt
  <2> QED
    BY <2>1, <2>2
<1>10. ASSUME NEW i \in 1 .. n PROVE tasks[i].type = strategies[i].type
  <2>1. i \in 1 .. Len(e)
    BY <1>3, <1>4
  <2>2. tasks[i].type = e[i]
    BY <1>8, <2>1
  <2> QED
    BY <1>3, <1>6, <2>1, <2>2
<1> QED
  BY <1>0, <1>7, <1>9, <1>10 DEF ConsoleShowsTheRun, e

\* All trackers are told the same events in the same order whatever fails, and the console's
\* rows are the strategies: Benchmarker._notify_progress and _GenerativeProgressTasks.
THEOREM TrackersStayTruthful == LoopSpec => []TrackersTellTheRun
<1>1. LoopSpec => []LoopInv
  BY InitLoop, LoopStep, PTL DEF LoopSpec
<1>2. LoopInv => TrackersTellTheRun
  BY TrackersHold, ConsoleHolds DEF TrackersTellTheRun
<1> QED
  BY <1>1, <1>2, PTL

-----------------------------------------------------------------------------
(***************************************************************************)
(* When a request may start, for every strategy, number of processes, rate *)
(* and rampup.  The arithmetic first: rates, roots and rampups.            *)
(***************************************************************************)

\* Products of natural numbers, and how they compare.
LEMMA Product ==
  ASSUME NEW a \in Nat, NEW b \in Nat
  PROVE  a * b \in Nat
OBVIOUS

LEMMA Scaled ==
  ASSUME NEW a \in Int, NEW b \in Int, NEW n \in Nat, a <= b
  PROVE  n * a <= n * b
OBVIOUS

LEMMA ScaledLess ==
  ASSUME NEW a \in Int, NEW b \in Int, NEW n \in Nat, n * a < n * b
  PROVE  a < b
OBVIOUS

\* A quotient, by the products around it.
LEMMA Quotient ==
  ASSUME NEW a \in Nat, NEW b \in Nat \ {0}
  PROVE  /\ a \div b \in Nat
         /\ b * (a \div b) <= a
         /\ a < b * ((a \div b) + 1)
OBVIOUS

\* Division keeps the order.
LEMMA QuotientGrows ==
  ASSUME NEW a \in Nat, NEW c \in Nat, NEW b \in Nat \ {0}, a <= c
  PROVE  a \div b <= c \div b
<1> PICK x \in Nat : x = a \div b
  BY Quotient
<1> PICK y \in Nat : y = c \div b
  BY Quotient
<1>1. b * x <= a /\ c < b * (y + 1)
  BY Quotient
<1>2. b * x < b * (y + 1)
  <2>1. b * x \in Int /\ b * (y + 1) \in Int
    OBVIOUS
  <2> QED
    BY <1>1, <2>1
<1>3. x < y + 1
  BY <1>2, ScaledLess
<1> QED
  BY <1>3

\* Every natural number lies between two squares.
LEMMA RootExists ==
  ASSUME NEW x \in Nat
  PROVE  \E r \in 0 .. x : r * r <= x /\ x < (r + 1) * (r + 1)
<1> DEFINE T == {n \in Nat : x < (n + 1) * (n + 1)}
<1>1. x \in T
  <2>1. (x + 1) * (x + 1) = x * x + 2 * x + 1
    OBVIOUS
  <2>2. x * x >= 0
    OBVIOUS
  <2> QED
    BY <2>1, <2>2
<1>2. PICK r \in T : \A n \in T : r <= n
  <2>1. \E m \in T : \A n \in T : m <= n
    BY <1>1, Least
  <2> QED
    BY <2>1
<1>3. r * r <= x
  <2>1. CASE r = 0
    BY <2>1
  <2>2. CASE r > 0
    <3>1. r - 1 \in Nat /\ r - 1 \notin T
      BY <1>2, <2>2
    <3>2. ~ (x < ((r - 1) + 1) * ((r - 1) + 1))
      BY <3>1
    <3>3. (r - 1) + 1 = r
      BY <1>2
    <3> QED
      BY <3>2, <3>3, <1>2
  <2> QED
    BY <2>1, <2>2, <1>2
<1>4. r <= x
  <2>1. CASE r = 0
    BY <2>1
  <2>2. CASE r > 0
    <3>1. r * r >= r * 1
      BY <2>2, Scaled, <1>2
    <3> QED
      BY <3>1, <1>2, <1>3
  <2> QED
    BY <2>1, <2>2, <1>2
<1> QED
  BY <1>2, <1>3, <1>4

\* The square root rounds down.
LEMMA RootOf ==
  ASSUME NEW x \in Nat
  PROVE  /\ SquareRoot(x) \in 0 .. x
         /\ SquareRoot(x) * SquareRoot(x) <= x
         /\ x < (SquareRoot(x) + 1) * (SquareRoot(x) + 1)
BY RootExists DEF SquareRoot

\* While the rate grows, time is the root of twice the arrivals.
LEMMA DuringRampup ==
  ASSUME NEW r \in Nat \ {0}, NEW R \in Nat \ {0}, NEW S \in Nat \ {0}, NEW i \in Nat,
         2 * S * i <= r * R,
         NEW x \in Nat, r * x <= 2 * i * R * S, 2 * i * R * S < r * (x + 1),
         NEW t \in Nat, t * t <= x, x < (t + 1) * (t + 1)
  PROVE  /\ t <= R
         /\ r * t * t <= i * (2 * R * S)
         /\ i * (2 * R * S) <= r * (t + 1) * (t + 1)
         /\ i * (2 * R * S) <= r * R * (2 * (t + 1) - R) \/ t # R
<1> DEFINE u == i * (2 * R * S)
<1>1. u \in Nat /\ u = 2 * i * R * S
  OBVIOUS
<1>2. r * x <= u /\ u < r * (x + 1)
  BY <1>1
<1> HIDE DEF u
<1>3. u <= r * (R * R)
  <2>1. R * (2 * S * i) <= R * (r * R)
    BY Scaled
  <2> QED
    BY <2>1 DEF u
<1>4. r * x <= r * (R * R)
  BY <1>1, <1>2, <1>3
<1>5. x <= R * R
  <2>1. x \in Nat /\ R * R + 1 \in Nat /\ r * x < r * (R * R + 1)
    BY <1>4
  <2>2. x < R * R + 1
    BY <2>1, ScaledLess
  <2> QED
    BY <2>2
<1>6. t <= R
  <2> SUFFICES ASSUME t >= R + 1 PROVE FALSE
    OBVIOUS
  <2>1. t * t >= (R + 1) * (R + 1)
    BY Scaled
  <2>2. (R + 1) * (R + 1) = R * R + 2 * R + 1
    OBVIOUS
  <2> QED
    BY <2>1, <2>2, <1>5
<1>7. r * (t * t) <= r * x
  BY Scaled
<1>8. r * (x + 1) <= r * ((t + 1) * (t + 1))
  BY Scaled
<1>9. r * t * t <= u /\ u <= r * (t + 1) * (t + 1)
  <2>1. r * t * t = r * (t * t) /\ r * (t + 1) * (t + 1) = r * ((t + 1) * (t + 1))
    OBVIOUS
  <2>2. r * (t * t) \in Nat /\ r * x \in Nat /\ r * (x + 1) \in Nat /\ r * ((t + 1) * (t + 1)) \in Nat
    OBVIOUS
  <2> QED
    BY <2>1, <2>2, <1>1, <1>2, <1>7, <1>8
<1>10. ASSUME t = R PROVE u <= r * R * (2 * (t + 1) - R)
  <2>1. r * R * (2 * (R + 1) - R) = r * (R * R) + 2 * (r * R)
    OBVIOUS
  <2>2. r * R \in Nat /\ r * (R * R) \in Nat
    OBVIOUS
  <2> QED
    BY <1>10, <2>1, <2>2, <1>1, <1>3
<1> QED
  BY <1>6, <1>9, <1>10 DEF u

\* When the rampup is over, the arrivals go on at the full rate.
LEMMA AfterRampup ==
  ASSUME NEW r \in Nat \ {0}, NEW R \in Nat \ {0}, NEW S \in Nat \ {0}, NEW i \in Nat,
         ~(2 * S * i <= r * R),
         NEW y, y = (2 * S * i - r * R) \div (2 * r)
  PROVE  /\ y \in Nat
         /\ r * R * (R + 2 * y) <= i * (2 * R * S)
         /\ i * (2 * R * S) <= r * R * (R + 2 * (y + 1))
<1> DEFINE m == 2 * S * i - r * R
<1>1. m \in Nat /\ 2 * r \in Nat \ {0}
  OBVIOUS
<1>2. y \in Nat /\ 2 * r * y <= m /\ m < 2 * r * (y + 1)
  BY <1>1, Quotient
<1>3. R * (2 * r * y) <= R * m
  BY <1>1, <1>2, Scaled
<1>4. R * m <= R * (2 * r * (y + 1))
  <2>1. 2 * r * (y + 1) \in Nat
    BY <1>2
  <2> QED
    BY <2>1, <1>1, <1>2, Scaled
<1>5. R * m = i * (2 * R * S) - r * R * R
  OBVIOUS
<1>6. r * R * (R + 2 * y) = r * R * R + R * (2 * r * y)
  <2>1. y \in Nat
    BY <1>2
  <2>2. r * R * (R + 2 * y) = r * R * R + r * R * (2 * y)
    BY <2>1
  <2>3. r * R * (2 * y) = R * (2 * r * y)
    BY <2>1
  <2> QED
    BY <2>2, <2>3
<1>7. r * R * (R + 2 * (y + 1)) = r * R * R + R * (2 * r * (y + 1))
  BY <1>2
<1>8. r * R * R \in Int /\ R * (2 * r * y) \in Int /\ R * (2 * r * (y + 1)) \in Int
  BY <1>2
<1>9. i * (2 * R * S) \in Int
  OBVIOUS
<1> QED
  BY <1>2, <1>9, <1>3, <1>4, <1>5, <1>6, <1>7, <1>8

\* The fields of a strategy.
LEMMA StrategyTyped ==
  ASSUME strategy \in Strategies
  PROVE  /\ strategy.type \in {"synchronous", "concurrent", "throughput", "constant", "poisson", "trace"}
         /\ strategy.streams \in Nat /\ strategy.rate \in Nat \ {0} /\ strategy.rampup \in Nat
         /\ strategy.scale \in Nat \ {0}
         /\ strategy.type = "concurrent" => strategy.streams > 0
BY ScheduleAssumption

LEMMA SecondTyped == Second \in Nat \ {0} /\ Start \in Nat
BY ScheduleAssumption

\* The time of the i-th request of a constant rate: i requests are due, to the tick.
LEMMA ConstantDue ==
  ASSUME strategy \in Strategies, NEW i \in Nat \ {0}
  PROVE  /\ Constant(i) \in Nat
         /\ Ramped /\ i = 1 => Constant(i) = 0
         /\ i > 1 \/ ~Ramped => /\ Due(Constant(i)) <= i * Unit
                                /\ i * Unit <= Due(Constant(i) + 1)
<1> PICK r \in Nat \ {0} : r = strategy.rate
  BY StrategyTyped
<1> PICK R \in Nat : R = strategy.rampup
  BY StrategyTyped
<1> PICK S \in Nat \ {0} : S = Second
  BY SecondTyped
<1>1. CASE ~Ramped
  <2>1. R = 0 /\ Constant(i) = (i * S) \div r /\ Unit = S
    BY <1>1 DEF Ramped, Constant, Unit
  <2>2. \A t : Due(t) = r * t
    BY <1>1 DEF Due
  <2>3. i * S \in Nat
    OBVIOUS
  <2>4. /\ Constant(i) \in Nat
        /\ r * Constant(i) <= i * S
        /\ i * S < r * (Constant(i) + 1)
    BY <2>1, <2>3, Quotient
  <2>5. r * (Constant(i) + 1) \in Int
    BY <2>4
  <2> QED
    BY <1>1, <2>1, <2>2, <2>3, <2>4, <2>5
<1>2. CASE Ramped /\ i = 1
  BY <1>2 DEF Constant
<1>3. CASE Ramped /\ i # 1 /\ 2 * S * i <= r * R
  <2>0. R \in Nat \ {0}
    BY <1>3 DEF Ramped
  <2>1. PICK x : x = (2 * i * R * S) \div r
    OBVIOUS
  <2>2. x \in Nat
    <3>1. 2 * i * R * S \in Nat
      OBVIOUS
    <3> QED
      BY <3>1, <2>1, Quotient
  <2>3. Constant(i) = SquareRoot(x)
    BY <1>3, <2>1 DEF Constant
  <2>4. PICK t \in Nat : t = SquareRoot(x) /\ t * t <= x /\ x < (t + 1) * (t + 1)
    <3>1. /\ SquareRoot(x) \in 0 .. x
          /\ SquareRoot(x) * SquareRoot(x) <= x
          /\ x < (SquareRoot(x) + 1) * (SquareRoot(x) + 1)
      BY <2>2, RootOf, Zenon
    <3> QED
      BY <3>1, <2>2
  <2>5. /\ t <= R
        /\ r * t * t <= i * (2 * R * S)
        /\ i * (2 * R * S) <= r * (t + 1) * (t + 1)
        /\ i * (2 * R * S) <= r * R * (2 * (t + 1) - R) \/ t # R
    <3>1. 2 * S * i <= r * R /\ i \in Nat
      BY <1>3
    <3>2. r * x <= 2 * i * R * S /\ 2 * i * R * S < r * (x + 1)
      <4>1. 2 * i * R * S \in Nat
        OBVIOUS
      <4> QED
        BY <4>1, <2>1, Quotient
    <3> QED
      BY <3>1, <3>2, <2>0, <2>2, <2>4, DuringRampup
  <2>6. Unit = 2 * R * S
    BY <1>3 DEF Unit
  <2>7. Due(t) = r * t * t
    BY <1>3, <2>5 DEF Due
  <2>8. Due(t + 1) = IF t < R THEN r * (t + 1) * (t + 1) ELSE r * R * (2 * (t + 1) - R)
    BY <1>3, <2>5 DEF Due
  <2>9. Due(t) <= i * Unit /\ i * Unit <= Due(t + 1)
    BY <2>5, <2>6, <2>7, <2>8
  <2> QED
    BY <1>3, <2>3, <2>4, <2>9
<1>4. CASE Ramped /\ i # 1 /\ ~(2 * S * i <= r * R)
  <2>0. R \in Nat \ {0}
    BY <1>4 DEF Ramped
  <2>1. PICK y : y = (2 * S * i - r * R) \div (2 * r)
    OBVIOUS
  <2>2. /\ y \in Nat
        /\ r * R * (R + 2 * y) <= i * (2 * R * S)
        /\ i * (2 * R * S) <= r * R * (R + 2 * (y + 1))
    BY <1>4, <2>0, <2>1, AfterRampup
  <2>3. Constant(i) = R + y
    BY <1>4, <2>1 DEF Constant
  <2>6. Unit = 2 * R * S
    BY <1>4 DEF Unit
  <2>7. Due(R + y) = r * R * (R + 2 * y)
    <3>1. CASE y = 0
      <4>1. Due(R) = r * R * R
        BY <1>4 DEF Due
      <4>2. R + y = R /\ R + 2 * y = R
        BY <3>1
      <4> QED
        BY <4>1, <4>2
    <3>2. CASE y > 0
      <4>1. Due(R + y) = r * R * (2 * (R + y) - R)
        BY <1>4, <2>2, <3>2 DEF Due
      <4>2. 2 * (R + y) - R = R + 2 * y
        BY <2>2
      <4> QED
        BY <4>1, <4>2
    <3> QED
      BY <3>1, <3>2, <2>2
  <2>8. Due(R + y + 1) = r * R * (R + 2 * (y + 1))
    <3>1. Due(R + y + 1) = r * R * (2 * (R + y + 1) - R)
      BY <1>4, <2>2 DEF Due
    <3>2. 2 * (R + y + 1) - R = R + 2 * (y + 1)
      BY <2>2
    <3> QED
      BY <3>1, <3>2
  <2> QED
    BY <1>4, <2>2, <2>3, <2>6, <2>7, <2>8
<1> QED
  BY <1>1, <1>2, <1>3, <1>4

\* More time, more arrivals.
LEMMA DueGrows ==
  ASSUME strategy \in Strategies, NEW t \in Nat, NEW s \in Nat, t <= s
  PROVE  Due(t) \in Nat /\ Due(t) <= Due(s)
<1> PICK r \in Nat \ {0} : r = strategy.rate
  BY StrategyTyped
<1> PICK R \in Nat : R = strategy.rampup
  BY StrategyTyped
<1>1. CASE ~Ramped
  BY <1>1, Scaled DEF Due
<1>2. CASE Ramped /\ s <= R
  <2>1. Due(t) = r * t * t /\ Due(s) = r * s * s
    BY <1>2 DEF Due
  <2>2. t * t <= s * s
    <3>1. t * t <= t * s /\ s * t <= s * s
      BY Scaled
    <3> QED
      BY <3>1
  <2>3. r * (t * t) <= r * (s * s)
    BY <2>2, Scaled
  <2> QED
    BY <2>1, <2>3
<1>3. CASE Ramped /\ t <= R /\ R < s
  <2>1. Due(t) = r * t * t /\ Due(s) = r * R * (2 * s - R)
    BY <1>3 DEF Due
  <2>2. t * t <= R * R
    <3>1. t * t <= t * R /\ R * t <= R * R
      BY <1>3, Scaled
    <3> QED
      BY <3>1
  <2>3. r * (t * t) <= r * (R * R)
    BY <2>2, Scaled
  <2>4. r * R * R <= r * R * (2 * s - R)
    <3>1. R <= 2 * s - R /\ r * R \in Nat
      BY <1>3
    <3> QED
      BY <3>1, Scaled
  <2> QED
    BY <2>1, <2>3, <2>4
<1>4. CASE Ramped /\ R < t
  <2>1. Due(t) = r * R * (2 * t - R) /\ Due(s) = r * R * (2 * s - R)
    BY <1>4 DEF Due
  <2>2. 2 * t - R <= 2 * s - R /\ 2 * t - R \in Nat /\ r * R \in Nat
    BY <1>4
  <2>3. r * R * (2 * t - R) <= r * R * (2 * s - R)
    BY <2>2, Scaled
  <2>4. r * R * (2 * t - R) \in Nat
    BY <2>2, Product
  <2> QED
    BY <2>1, <2>3, <2>4
<1> QED
  BY <1>1, <1>2, <1>3, <1>4

\* The targets of a constant rate follow the index.
LEMMA ConstantGrows ==
  ASSUME strategy \in Strategies, NEW i \in Nat \ {0}, NEW j \in Nat \ {0}, i < j
  PROVE  Constant(i) <= Constant(j)
<1>1. Constant(i) \in Nat /\ Constant(j) \in Nat
  BY ConstantDue
<1>2. CASE Ramped /\ i = 1
  BY <1>1, <1>2, ConstantDue
<1>3. CASE ~(Ramped /\ i = 1)
  <2> SUFFICES ASSUME Constant(j) + 1 <= Constant(i) PROVE FALSE
    BY <1>1
  <2>1. Due(Constant(j) + 1) <= Due(Constant(i))
    BY <1>1, DueGrows
  <2>2. Due(Constant(i)) <= i * Unit /\ j * Unit <= Due(Constant(j) + 1)
    BY <1>3, ConstantDue
  <2>3. Due(Constant(i)) \in Nat /\ Due(Constant(j) + 1) \in Nat
    BY <1>1, DueGrows
  <2>4. Unit \in Nat /\ Unit > 0
    <3> PICK R \in Nat : R = strategy.rampup
      BY StrategyTyped
    <3> PICK S \in Nat \ {0} : S = Second
      BY SecondTyped
    <3>1. R > 0 => 2 * R * S > 0
      OBVIOUS
    <3>2. 2 * R * S \in Nat
      OBVIOUS
    <3> QED
      BY <3>1, <3>2 DEF Unit, Ramped
  <2>5. i * Unit < j * Unit /\ i * Unit \in Nat /\ j * Unit \in Nat
    BY <2>4
  <2> QED
    BY <2>1, <2>2, <2>3, <2>5
<1> QED
  BY <1>2, <1>3

-----------------------------------------------------------------------------

\* Taking one out.
LEMMA RemovedAt ==
  ASSUME NEW S, NEW s \in Seq(S), NEW k \in DOMAIN s
  PROVE  RemoveAt(s, k) \in Seq(S) /\ Len(RemoveAt(s, k)) = Len(s) - 1
<1>1. Len(s) \in Nat /\ k \in 1 .. Len(s)
  OBVIOUS
<1>2. SubSeq(s, 1, k - 1) \in Seq(S) /\ Len(SubSeq(s, 1, k - 1)) = k - 1
  BY <1>1, SubSeqProperties
<1>3. SubSeq(s, k + 1, Len(s)) \in Seq(S) /\ Len(SubSeq(s, k + 1, Len(s))) = Len(s) - k
  BY <1>1, SubSeqProperties
<1>4. Len(SubSeq(s, 1, k - 1) \o SubSeq(s, k + 1, Len(s))) = (k - 1) + (Len(s) - k)
  BY <1>2, <1>3, ConcatProperties
<1>5. SubSeq(s, 1, k - 1) \o SubSeq(s, k + 1, Len(s)) \in Seq(S)
  BY <1>2, <1>3, ConcatProperties
<1>6. RemoveAt(s, k) = SubSeq(s, 1, k - 1) \o SubSeq(s, k + 1, Len(s))
  BY Zenon DEF RemoveAt
<1>7. PICK r : r = SubSeq(s, 1, k - 1) \o SubSeq(s, k + 1, Len(s))
  OBVIOUS
<1>8. Len(r) = (k - 1) + (Len(s) - k) /\ r \in Seq(S) /\ r = RemoveAt(s, k)
  BY <1>4, <1>5, <1>6, <1>7, Zenon
<1> QED
  BY <1>1, <1>8

\* A run of the scheduling strategy.
ScheduleSpec == ScheduleInit /\ [][ScheduleNext]_scheduleVars

\* The times a request of a closed loop may go out.
StartTimes == IF ClosedLoop THEN {t \in Int : t >= Start} ELSE Int

ScheduleTyped ==
  /\ strategy \in Strategies /\ released \in BOOLEAN /\ index \in Nat /\ offset \in Int
  /\ slots \in [Processes -> Nat]
  /\ loop \in [Processes -> {"acquiring", "waiting", "sleeping"}]
  /\ mine \in [Processes -> Nat] /\ target \in [Processes -> Int] /\ asked \in [Processes -> Int]
  /\ ready \in [Processes -> BOOLEAN]
  /\ running \in [Processes -> Seq(StartTimes)]
  /\ last \in [Processes -> {Unset} \cup {t \in Int : t >= Start}]
  /\ now \in 0 .. MaxTime /\ issued \in Nat

\* The loop has a free slot when it asks, until its request has started.
SlotsKept ==
  /\ \A p \in Processes : /\ Len(running[p]) <= slots[p]
                          /\ loop[p] # "acquiring" => Len(running[p]) < slots[p]
  /\ IsFiniteSet(Places(slots)) /\ Cardinality(Places(slots)) = SlotTotal

\* Who has taken an index, from where.
NumberOf(p) ==
  /\ mine[p] <= index
  /\ loop[p] = "acquiring" => mine[p] = 0
  /\ NumbersFirst /\ loop[p] # "acquiring" => mine[p] > 0
  /\ NumbersLater /\ loop[p] = "sleeping" => mine[p] > 0
  /\ ~NumbersFirst /\ loop[p] = "waiting" => mine[p] = 0
Numbered == \A p \in Processes : NumberOf(p)

\* What next_request_time has answered, for the number the process has.
TargetKept(p) ==
  /\ strategy.type \in {"synchronous", "trace"} => target[p] >= Start
  /\ strategy.type = "concurrent" =>
       IF Ramps(mine[p]) THEN target[p] = Start + Spread(mine[p]) ELSE target[p] >= Start
  /\ strategy.type = "throughput" => target[p] = Start + Throughput(mine[p])
  /\ strategy.type = "constant" => target[p] = Start + Constant(mine[p])
  /\ strategy.type = "poisson" /\ ready[p] => target[p] >= Start

OnTarget == \A p \in Processes : Given(p) => TargetKept(p)

\* Completions lie in the past.
Recent == \A p \in Processes : last[p] <= now

\* The requests of every process that are in flight or have a number.
Counts(r, m) == [p \in Processes |-> Len(r[p]) + (IF m[p] > 0 THEN 1 ELSE 0)]
Claimed == Places(Counts(running, mine))
\* Each of them has an index of its own.
ClaimsCounted ==
  NumbersFirst \/ NumbersLater => IsFiniteSet(Claimed) /\ Cardinality(Claimed) <= index

\* How long the rampup holds the i-th request back, and that it does.
Delay(i) ==
  IF strategy.type = "throughput" THEN Throughput(i)
  ELSE IF Ramps(i) THEN Spread(i) ELSE 0
HeldBack ==
  strategy.type \in {"concurrent", "throughput"} /\ (NumbersFirst \/ NumbersLater) =>
    \A i \in 1 .. index : now < Start + Delay(i) => \E p \in Processes : mine[p] = i

ScheduleInv ==
  /\ ScheduleTyped /\ SlotsKept /\ Numbered /\ OnTarget /\ Recent /\ GoesOnAtOnce
  /\ ClaimsCounted /\ HeldBack

-----------------------------------------------------------------------------

\* A share of the rampup before the last stream.
LEMMA ShareBelow ==
  ASSUME NEW s \in Nat \ {0}, NEW R \in Nat, NEW i \in Nat, NEW q \in Nat, i < s, s * q <= R * i
  PROVE  q <= R
<1> SUFFICES ASSUME R + 1 <= q PROVE FALSE
  OBVIOUS
<1>1. s * (R + 1) <= s * q
  BY Scaled
<1>2. R * i <= R * s
  BY Scaled
<1>3. s * (R + 1) = R * s + s
  OBVIOUS
<1> QED
  BY <1>1, <1>2, <1>3

\* The streams start within the rampup.
LEMMA SpreadTyped ==
  ASSUME strategy \in Strategies, strategy.streams > 0, NEW i \in Nat
  PROVE  Spread(i) \in Nat /\ (i < strategy.streams => Spread(i) <= strategy.rampup)
<1> PICK s \in Nat \ {0} : s = strategy.streams
  BY StrategyTyped
<1> PICK R \in Nat : R = strategy.rampup
  BY StrategyTyped
<1>1. R * i \in Nat
  OBVIOUS
<1>2. Spread(i) \in Nat /\ s * Spread(i) <= R * i
  BY <1>1, Quotient DEF Spread
<1>3. i < s => Spread(i) <= R
  BY <1>2, ShareBelow
<1> QED
  BY <1>2, <1>3

LEMMA ThroughputTyped ==
  ASSUME strategy \in Strategies, NEW i \in Nat
  PROVE  Throughput(i) \in Nat
BY StrategyTyped, SpreadTyped DEF Throughput, NumbersLater

\* The delays of a throughput strategy follow the index.
LEMMA ThroughputGrows ==
  ASSUME strategy \in Strategies, NEW i \in Nat, NEW j \in Nat, i < j
  PROVE  Throughput(i) <= Throughput(j)
<1> PICK R \in Nat : R = strategy.rampup
  BY StrategyTyped
<1> PICK s \in Nat : s = strategy.streams
  BY StrategyTyped
<1>1. CASE ~NumbersLater
  BY <1>1 DEF Throughput
<1>2. CASE NumbersLater /\ j < s
  <2>1. R * i <= R * j /\ R * i \in Nat /\ R * j \in Nat
    BY Scaled
  <2>2. Spread(i) <= Spread(j)
    BY <1>2, <2>1, QuotientGrows DEF Spread, NumbersLater
  <2> QED
    BY <1>2, <2>2 DEF Throughput
<1>3. CASE NumbersLater /\ j >= s
  <2>1. i < s => Spread(i) <= R
    BY <1>3, SpreadTyped DEF NumbersLater
  <2> QED
    BY <1>3, <2>1 DEF Throughput
<1> QED
  BY <1>1, <1>2, <1>3

\* What next_request_time answers.
LEMMA TargetGiven ==
  ASSUME ScheduleTyped, NEW p \in Processes, NEW i \in Nat, NEW gap \in Nat,
         strategy.type = "constant" => i > 0
  PROVE  /\ TargetOf(p, i, gap) \in Int
         /\ strategy.type \in {"synchronous", "trace"} => TargetOf(p, i, gap) >= Start
         /\ strategy.type = "concurrent" =>
              IF Ramps(i) THEN TargetOf(p, i, gap) = Start + Spread(i) ELSE TargetOf(p, i, gap) >= Start
         /\ strategy.type = "throughput" => TargetOf(p, i, gap) = Start + Throughput(i)
         /\ strategy.type = "constant" => TargetOf(p, i, gap) = Start + Constant(i)
         /\ strategy.type = "poisson" /\ offset >= Start => TargetOf(p, i, gap) >= Start
<1> USE SecondTyped
<1>0. strategy \in Strategies /\ offset \in Int
  BY DEF ScheduleTyped
<1>1. AfterLast(p) \in Int /\ AfterLast(p) >= Start
  BY DEF AfterLast, ScheduleTyped
<1>2. CASE strategy.type = "synchronous"
  <2>1. TargetOf(p, i, gap) = AfterLast(p)
    BY <1>2 DEF TargetOf
  <2> QED
    BY <1>1, <1>2, <2>1
<1>3. CASE strategy.type = "concurrent"
  <2>1. TargetOf(p, i, gap) = IF Ramps(i) THEN Start + Spread(i) ELSE AfterLast(p)
    BY <1>3 DEF TargetOf
  <2>2. Spread(i) \in Nat
    BY <1>0, <1>3, StrategyTyped, SpreadTyped
  <2> QED
    BY <1>1, <1>3, <2>1, <2>2
<1>4. CASE strategy.type = "throughput"
  <2>1. TargetOf(p, i, gap) = Start + Throughput(i)
    BY <1>4 DEF TargetOf
  <2>2. Throughput(i) \in Nat
    BY <1>0, ThroughputTyped
  <2> QED
    BY <1>4, <2>1, <2>2
<1>5. CASE strategy.type = "constant"
  <2>1. TargetOf(p, i, gap) = Start + Constant(i)
    BY <1>5 DEF TargetOf
  <2>2. Constant(i) \in Nat
    BY <1>0, <1>5, ConstantDue
  <2> QED
    BY <1>5, <2>1, <2>2
<1>6. CASE strategy.type = "poisson"
  <2>1. TargetOf(p, i, gap) = offset + gap
    BY <1>6 DEF TargetOf
  <2> QED
    BY <1>0, <1>6, <2>1
<1>7. CASE strategy.type = "trace"
  <2>1. TargetOf(p, i, gap) = Start
    BY <1>7 DEF TargetOf
  <2> QED
    BY <1>7, <2>1
<1> QED
  BY <1>0, <1>2, <1>3, <1>4, <1>5, <1>6, <1>7, StrategyTyped

LEMMA GapTyped ==
  ASSUME NEW gap \in (IF strategy.type = "poisson" THEN Gaps ELSE {0})
  PROVE  gap \in Nat
BY ScheduleAssumption

\* The number a process goes by when it is told the start time.
LEMMA ToldNumber ==
  ASSUME ScheduleTyped, Numbered, NEW p \in Processes, NEW gap \in Nat, Told(p, gap)
  PROVE  /\ mine' \in [Processes -> Nat] /\ index' \in Nat
         /\ strategy.type = "constant" => mine'[p] > 0
         /\ \A q \in Processes : q # p => mine'[q] = mine[q]
         /\ mine'[p] = IF NumbersLater THEN index + 1 ELSE mine[p]
         /\ index' = IF NumbersLater THEN index + 1 ELSE index
         /\ index <= index' /\ mine'[p] <= index'
         /\ NumbersFirst \/ NumbersLater => mine'[p] > 0
BY DEF Told, ScheduleTyped, Numbered, NumberOf, NumbersFirst, NumbersLater

LEMMA ScheduleTypedStep == ScheduleTyped /\ SlotsKept /\ Numbered /\ OnTarget /\ [ScheduleNext]_scheduleVars => ScheduleTyped'
<1> SUFFICES ASSUME ScheduleTyped, SlotsKept, Numbered, OnTarget, [ScheduleNext]_scheduleVars PROVE ScheduleTyped'
  OBVIOUS
<1> USE SecondTyped
<1>0. strategy' = strategy /\ (ClosedLoop' <=> ClosedLoop) /\ StartTimes' = StartTimes
  <2>1. strategy' = strategy
    BY DEF ScheduleNext, scheduleVars, Release, SetOffset, Tick, Asks, Told, Starts, Completes
  <2> QED
    BY <2>1 DEF ClosedLoop, StartTimes
<1>1. CASE Release
  BY <1>0, <1>1 DEF Release, ScheduleTyped
<1>2. CASE SetOffset
  BY <1>0, <1>2 DEF SetOffset, ScheduleTyped
<1>3. CASE Tick
  BY <1>0, <1>3, ScheduleAssumption DEF Tick, ScheduleTyped
<1>4. ASSUME NEW p \in Processes, Asks(p) PROVE ScheduleTyped'
  BY <1>0, <1>4 DEF Asks, ScheduleTyped
<1>5. ASSUME NEW p \in Processes, NEW gap \in (IF strategy.type = "poisson" THEN Gaps ELSE {0}), Told(p, gap)
      PROVE  ScheduleTyped'
  <2>1. gap \in Nat
    BY GapTyped
  <2>2. mine' \in [Processes -> Nat] /\ index' \in Nat /\ (strategy.type = "constant" => mine'[p] > 0)
    BY <1>5, <2>1, ToldNumber
  <2>3. TargetOf(p, mine'[p], gap) \in Int
    BY <2>1, <2>2, TargetGiven
  <2>4. target' = [target EXCEPT ![p] = TargetOf(p, mine'[p], gap)]
    BY <1>5 DEF Told
  <2>5. target' \in [Processes -> Int] /\ target'[p] \in Int
    BY <2>3, <2>4 DEF ScheduleTyped
  <2> QED
    BY <1>0, <1>5, <2>2, <2>5 DEF Told, ScheduleTyped
<1>6. ASSUME NEW p \in Processes, NEW stamp \in Stamps \cup {NoStamp}, Starts(p, stamp) PROVE ScheduleTyped'
  <2>1. Resolved(p, stamp) \in StartTimes
    <3>1. CASE strategy.type = "trace"
      <4>1. stamp \in Nat \cup {NoStamp} /\ strategy.scale \in Nat
        BY ScheduleAssumption, StrategyTyped DEF ScheduleTyped
      <4>2. stamp \in Nat => strategy.scale * stamp \in Nat
        BY <4>1, Product
      <4>3. Resolved(p, stamp) \in Int
        BY <3>1, <4>1, <4>2 DEF Resolved
      <4> QED
        BY <3>1, <4>3 DEF StartTimes, ClosedLoop
    <3>2. CASE strategy.type # "trace"
      <4>1. Resolved(p, stamp) = target[p] /\ target[p] \in Int /\ Given(p)
        BY <3>2, <1>6 DEF Resolved, ScheduleTyped, Starts, Given
      <4>2. ClosedLoop => target[p] >= Start
        <5>1. CASE strategy.type = "synchronous"
          BY <4>1, <5>1 DEF OnTarget, TargetKept
        <5>2. CASE strategy.type = "concurrent"
          <6>1. Spread(mine[p]) \in Nat
            BY <5>2, StrategyTyped, SpreadTyped DEF ScheduleTyped
          <6> QED
            BY <4>1, <5>2, <6>1 DEF OnTarget, TargetKept
        <5> QED
          BY <5>1, <5>2 DEF ClosedLoop
      <4> QED
        BY <4>1, <4>2 DEF StartTimes
    <3> QED
      BY <3>1, <3>2
  <2>2. Append(running[p], Resolved(p, stamp)) \in Seq(StartTimes)
    BY <2>1, AppendProperties DEF ScheduleTyped
  <2>3. running' \in [Processes -> Seq(StartTimes)]
    BY <2>2, <1>6 DEF Starts, ScheduleTyped
  <2> QED
    BY <1>0, <1>6, <2>3 DEF Starts, ScheduleTyped
<1>7. ASSUME NEW p \in Processes, NEW k \in DOMAIN running[p], NEW at \in {now - 1, now}, Completes(p, k, at)
      PROVE  ScheduleTyped'
  <2>1. running[p] \in Seq(StartTimes)
    BY DEF ScheduleTyped
  <2>2. RemoveAt(running[p], k) \in Seq(StartTimes)
    BY <2>1, RemovedAt
  <2>3. running' \in [Processes -> Seq(StartTimes)]
    BY <2>2, <1>7 DEF Completes, ScheduleTyped
  <2>4. ClosedLoop => at \in Int /\ at >= Start
    <3>1. running[p][k] \in StartTimes
      BY <2>1, ElementOfSeq
    <3>2. at \in Int /\ running[p][k] <= at
      BY <1>7 DEF Completes, ScheduleTyped
    <3> QED
      BY <3>1, <3>2 DEF StartTimes
  <2>5. last' \in [Processes -> {Unset} \cup {t \in Int : t >= Start}]
    BY <2>4, <1>7 DEF Completes, ScheduleTyped
  <2> QED
    BY <1>0, <1>7, <2>3, <2>5 DEF Completes, ScheduleTyped
<1>8. CASE UNCHANGED scheduleVars
  BY <1>0, <1>8 DEF scheduleVars, ScheduleTyped
<1> QED
  BY <1>1, <1>2, <1>3, <1>4, <1>5, <1>6, <1>7, <1>8 DEF ScheduleNext

\* Nothing changes the strategy or the slots.
LEMMA StrategyStays == [ScheduleNext]_scheduleVars => strategy' = strategy /\ slots' = slots
BY DEF ScheduleNext, scheduleVars, Release, SetOffset, Tick, Asks, Told, Starts, Completes

\* A slot is free before it is taken.
LEMMA SlotsKeptStep == ScheduleTyped /\ SlotsKept /\ [ScheduleNext]_scheduleVars => SlotsKept'
<1> SUFFICES ASSUME ScheduleTyped, SlotsKept, [ScheduleNext]_scheduleVars PROVE SlotsKept'
  OBVIOUS
<1>1. Places(slots)' = Places(slots) /\ SlotTotal' = SlotTotal
  BY StrategyStays DEF Places, SlotTotal, SlotLimit, Limited
<1> SUFFICES ASSUME NEW q \in Processes
             PROVE  /\ Len(running'[q]) <= slots'[q]
                    /\ loop'[q] # "acquiring" => Len(running'[q]) < slots'[q]
  BY <1>1 DEF SlotsKept
<1>2. /\ Len(running[q]) <= slots[q] /\ (loop[q] # "acquiring" => Len(running[q]) < slots[q])
      /\ slots[q] \in Nat /\ Len(running[q]) \in Nat /\ slots'[q] = slots[q]
  BY StrategyStays DEF SlotsKept, ScheduleTyped
<1>3. CASE UNCHANGED <<running, loop>>
  BY <1>2, <1>3
<1>4. ASSUME NEW p \in Processes, Asks(p) PROVE Len(running'[q]) <= slots'[q] /\ (loop'[q] # "acquiring" => Len(running'[q]) < slots'[q])
  <2>1. running' = running /\ (q # p => loop'[q] = loop[q]) /\ Len(running[p]) < slots[p]
    BY <1>4 DEF Asks, FreeSlot, ScheduleTyped
  <2> QED
    BY <1>2, <2>1
<1>5. ASSUME NEW p \in Processes, NEW gap, Told(p, gap)
      PROVE  Len(running'[q]) <= slots'[q] /\ (loop'[q] # "acquiring" => Len(running'[q]) < slots'[q])
  <2>1. running' = running /\ (loop'[q] # "acquiring" => loop[q] # "acquiring")
    BY <1>5 DEF Told, ScheduleTyped
  <2> QED
    BY <1>2, <2>1
<1>6. ASSUME NEW p \in Processes, NEW stamp, Starts(p, stamp)
      PROVE  Len(running'[q]) <= slots'[q] /\ (loop'[q] # "acquiring" => Len(running'[q]) < slots'[q])
  <2>1. CASE q # p
    <3>1. running'[q] = running[q] /\ loop'[q] = loop[q]
      BY <1>6, <2>1 DEF Starts, ScheduleTyped
    <3> QED
      BY <1>2, <3>1
  <2>2. CASE q = p
    <3>1. loop'[q] = "acquiring" /\ loop[q] = "sleeping" /\ running'[q] = Append(running[q], Resolved(p, stamp))
      BY <1>6, <2>2 DEF Starts, ScheduleTyped
    <3>2. running[q] \in Seq(StartTimes)
      BY DEF ScheduleTyped
    <3>3. Len(Append(running[q], Resolved(p, stamp))) = Len(running[q]) + 1
      BY <3>2
    <3> QED
      BY <1>2, <3>1, <3>3
  <2> QED
    BY <2>1, <2>2
<1>7. ASSUME NEW p \in Processes, NEW k \in DOMAIN running[p], NEW at, Completes(p, k, at)
      PROVE  Len(running'[q]) <= slots'[q] /\ (loop'[q] # "acquiring" => Len(running'[q]) < slots'[q])
  <2>0. loop' = loop
    BY <1>7 DEF Completes
  <2>1. CASE q # p
    <3>1. running'[q] = running[q]
      BY <1>7, <2>1 DEF Completes, ScheduleTyped
    <3> QED
      BY <1>2, <2>0, <3>1
  <2>2. CASE q = p
    <3>1. running'[q] = RemoveAt(running[q], k) /\ k \in DOMAIN running[q]
      BY <1>7, <2>2 DEF Completes, ScheduleTyped
    <3>2. running[q] \in Seq(StartTimes)
      BY DEF ScheduleTyped
    <3>3. Len(running'[q]) = Len(running[q]) - 1
      BY <3>1, <3>2, RemovedAt
    <3> QED
      BY <1>2, <2>0, <3>3
  <2> QED
    BY <2>1, <2>2
<1>8. CASE Release \/ SetOffset \/ Tick \/ UNCHANGED scheduleVars
  BY <1>3, <1>8 DEF Release, SetOffset, Tick, scheduleVars
<1> QED
  BY <1>4, <1>5, <1>6, <1>7, <1>8 DEF ScheduleNext

\* A process has a number from the moment it takes one until its request starts.
LEMMA NumberedStep == ScheduleTyped /\ Numbered /\ [ScheduleNext]_scheduleVars => Numbered'
<1> SUFFICES ASSUME ScheduleTyped, Numbered, [ScheduleNext]_scheduleVars, NEW q \in Processes
             PROVE  NumberOf(q)'
  BY DEF Numbered
<1>0. (NumbersFirst' <=> NumbersFirst) /\ (NumbersLater' <=> NumbersLater) /\ ~(NumbersFirst /\ NumbersLater)
  BY StrategyStays DEF NumbersFirst, NumbersLater, Ramped
<1>1. NumberOf(q) /\ mine[q] \in Nat /\ index \in Nat
  BY DEF Numbered, ScheduleTyped
<1>2. ASSUME mine'[q] = mine[q], loop'[q] = loop[q], index' \in Nat, index <= index' PROVE NumberOf(q)'
  BY <1>0, <1>1, <1>2 DEF NumberOf
<1>3. CASE UNCHANGED <<mine, index, loop>>
  BY <1>1, <1>2, <1>3
<1>4. ASSUME NEW p \in Processes, Asks(p) PROVE NumberOf(q)'
  <2>1. index' = IF NumbersFirst THEN index + 1 ELSE index
    BY <1>4 DEF Asks
  <2>2. CASE q # p
    <3>1. mine'[q] = mine[q] /\ loop'[q] = loop[q]
      BY <1>4, <2>2 DEF Asks, ScheduleTyped
    <3> QED
      BY <1>1, <1>2, <2>1, <3>1
  <2>3. CASE q = p
    <3>1. loop'[q] = "waiting" /\ loop[q] = "acquiring" /\ mine'[q] = IF NumbersFirst THEN index + 1 ELSE mine[q]
      BY <1>4, <2>1, <2>3 DEF Asks, ScheduleTyped
    <3> QED
      BY <1>0, <1>1, <2>1, <3>1 DEF NumberOf
  <2> QED
    BY <2>2, <2>3
<1>5. ASSUME NEW p \in Processes, NEW gap \in Nat, Told(p, gap) PROVE NumberOf(q)'
  <2>1. index' \in Nat /\ index <= index'
    BY <1>5, ToldNumber
  <2>2. CASE q # p
    <3>1. mine'[q] = mine[q] /\ loop'[q] = loop[q]
      BY <1>5, <2>2, ToldNumber DEF Told, ScheduleTyped
    <3> QED
      BY <1>2, <2>1, <3>1
  <2>3. CASE q = p
    <3>1. loop'[q] = "sleeping" /\ mine'[q] <= index' /\ (NumbersFirst \/ NumbersLater => mine'[q] > 0)
      BY <1>5, <2>3, ToldNumber DEF Told, ScheduleTyped
    <3> QED
      BY <1>0, <3>1 DEF NumberOf
  <2> QED
    BY <2>2, <2>3
<1>6. ASSUME NEW p \in Processes, NEW stamp, Starts(p, stamp) PROVE NumberOf(q)'
  <2>1. index' = index
    BY <1>6 DEF Starts
  <2>2. CASE q # p
    <3>1. mine'[q] = mine[q] /\ loop'[q] = loop[q]
      BY <1>6, <2>2 DEF Starts, ScheduleTyped
    <3> QED
      BY <1>1, <1>2, <2>1, <3>1
  <2>3. CASE q = p
    <3>1. loop'[q] = "acquiring" /\ mine'[q] = 0
      BY <1>6, <2>3 DEF Starts, ScheduleTyped
    <3> QED
      BY <1>0, <1>1, <2>1, <3>1 DEF NumberOf
  <2> QED
    BY <2>2, <2>3
<1>7. CASE \E p \in Processes : \E k \in DOMAIN running[p], at \in {now - 1, now} : Completes(p, k, at)
  BY <1>3, <1>7 DEF Completes
<1>8. CASE Release \/ SetOffset \/ Tick \/ UNCHANGED scheduleVars
  BY <1>3, <1>8 DEF Release, SetOffset, Tick, scheduleVars
<1> QED
  BY <1>4, <1>5, <1>6, <1>7, <1>8, GapTyped DEF ScheduleNext

\* No completion lies ahead.
LEMMA RecentStep == ScheduleTyped /\ Recent /\ [ScheduleNext]_scheduleVars => Recent'
<1> SUFFICES ASSUME ScheduleTyped, Recent, [ScheduleNext]_scheduleVars PROVE Recent'
  OBVIOUS
<1>0. \A p \in Processes : last[p] \in Int /\ last[p] <= now /\ now \in Nat
  BY DEF ScheduleTyped, Recent, Unset
<1>1. CASE UNCHANGED <<last, now>>
  BY <1>1 DEF Recent
<1>2. CASE Tick
  BY <1>0, <1>2 DEF Tick, Recent
<1>3. ASSUME NEW p \in Processes, NEW k, NEW at \in {now - 1, now}, Completes(p, k, at) PROVE Recent'
  <2>1. now' = now /\ (last' = last \/ last' = [last EXCEPT ![p] = at])
    BY <1>3 DEF Completes
  <2>2. \A q \in Processes : last'[q] = last[q] \/ last'[q] = at
    BY <2>1 DEF ScheduleTyped
  <2> QED
    BY <1>0, <2>1, <2>2 DEF Recent
<1>4. CASE \E p \in Processes : Asks(p) \/ (\E gap \in (IF strategy.type = "poisson" THEN Gaps ELSE {0}) : Told(p, gap))
                                        \/ (\E stamp \in Stamps \cup {NoStamp} : Starts(p, stamp))
  BY <1>1, <1>4 DEF Asks, Told, Starts
<1>5. CASE Release \/ SetOffset \/ UNCHANGED scheduleVars
  BY <1>1, <1>5 DEF Release, SetOffset, scheduleVars
<1> QED
  BY <1>2, <1>3, <1>4, <1>5 DEF ScheduleNext

\* A target stays what it was when it was given.
LEMMA OnTargetStep == ScheduleTyped /\ Numbered /\ OnTarget /\ [ScheduleNext]_scheduleVars => OnTarget'
<1> SUFFICES ASSUME ScheduleTyped, Numbered, OnTarget, [ScheduleNext]_scheduleVars,
                    NEW q \in Processes, loop'[q] = "sleeping"
             PROVE  TargetKept(q)'
  BY DEF OnTarget, Given
<1>0. strategy' = strategy
  BY StrategyStays
<1>1. loop[q] = "sleeping" => TargetKept(q)
  BY DEF OnTarget, Given
<1>2. ASSUME loop[q] = "sleeping", mine'[q] = mine[q], target'[q] = target[q], ready'[q] = ready[q]
      PROVE  TargetKept(q)'
  <2>1. /\ Ramps(mine[q])' <=> Ramps(mine[q])
        /\ Spread(mine[q])' = Spread(mine[q])
        /\ Throughput(mine[q])' = Throughput(mine[q])
        /\ Constant(mine[q])' = Constant(mine[q])
    BY <1>0, <1>2 DEF Ramps, Ramped, Spread, Throughput, NumbersLater, Constant
  <2> QED
    BY <1>0, <1>1, <1>2, <2>1 DEF TargetKept
<1>3. CASE UNCHANGED <<loop, mine, target, ready>>
  BY <1>2, <1>3
<1>4. ASSUME NEW p \in Processes, Asks(p) PROVE TargetKept(q)'
  <2>1. q # p /\ loop[q] = "sleeping" /\ mine'[q] = mine[q] /\ target' = target /\ ready' = ready
    BY <1>4 DEF Asks, ScheduleTyped
  <2> QED
    BY <1>2, <2>1
<1>5. ASSUME NEW p \in Processes, NEW gap \in Nat, Told(p, gap) PROVE TargetKept(q)'
  <2>2. CASE q # p
    <3>1. loop[q] = "sleeping" /\ mine'[q] = mine[q] /\ target'[q] = target[q] /\ ready'[q] = ready[q]
      BY <1>5, <2>2, ToldNumber DEF Told, ScheduleTyped
    <3> QED
      BY <1>2, <3>1
  <2>3. CASE q = p
    <3> PICK i \in Nat : i = mine'[p]
      BY <1>5, ToldNumber
    <3>1. strategy.type = "constant" => i > 0
      BY <1>5, ToldNumber
    <3>2. target'[q] = TargetOf(p, i, gap)
      BY <1>5, <2>3 DEF Told, ScheduleTyped
    <3>3. ready'[q] => strategy.type # "poisson" \/ offset >= Start
      BY <1>5, <2>3 DEF Told, ScheduleTyped
    <3>4. /\ strategy.type \in {"synchronous", "trace"} => target'[q] >= Start
          /\ strategy.type = "concurrent" =>
               IF Ramps(i) THEN target'[q] = Start + Spread(i) ELSE target'[q] >= Start
          /\ strategy.type = "throughput" => target'[q] = Start + Throughput(i)
          /\ strategy.type = "constant" => target'[q] = Start + Constant(i)
          /\ strategy.type = "poisson" /\ ready'[q] => target'[q] >= Start
      BY <3>1, <3>2, <3>3, TargetGiven
    <3>5. mine'[q] = i
      BY <2>3
    <3>6. /\ Ramps(mine[q])' <=> Ramps(i)
          /\ Spread(mine[q])' = Spread(i)
          /\ Throughput(mine[q])' = Throughput(i)
          /\ Constant(mine[q])' = Constant(i)
      BY <1>0, <3>5 DEF Ramps, Ramped, Spread, Throughput, NumbersLater, Constant
    <3> QED
      BY <1>0, <3>4, <3>6 DEF TargetKept
  <2> QED
    BY <2>2, <2>3
<1>6. ASSUME NEW p \in Processes, NEW stamp, Starts(p, stamp) PROVE TargetKept(q)'
  <2>1. q # p /\ loop[q] = "sleeping" /\ mine'[q] = mine[q] /\ target'[q] = target[q] /\ ready'[q] = ready[q]
    BY <1>6 DEF Starts, ScheduleTyped
  <2> QED
    BY <1>2, <2>1
<1>7. CASE \E p \in Processes : \E k \in DOMAIN running[p], at \in {now - 1, now} : Completes(p, k, at)
  BY <1>3, <1>7 DEF Completes
<1>8. CASE Release \/ SetOffset \/ Tick \/ UNCHANGED scheduleVars
  BY <1>3, <1>8 DEF Release, SetOffset, Tick, scheduleVars
<1> QED
  BY <1>4, <1>5, <1>6, <1>7, <1>8, GapTyped DEF ScheduleNext

\* Past the rampup a closed loop gives no target ahead of the clock.
LEMMA GoesOnStep == ScheduleTyped /\ Recent /\ GoesOnAtOnce /\ [ScheduleNext]_scheduleVars => GoesOnAtOnce'
<1> SUFFICES ASSUME ScheduleTyped, Recent, GoesOnAtOnce, [ScheduleNext]_scheduleVars, ClosedLoop,
                    NEW q \in Processes, loop'[q] = "sleeping", asked'[q] >= Start + strategy.rampup
             PROVE  target'[q] <= asked'[q]
  BY StrategyStays DEF GoesOnAtOnce, Given, ClosedLoop
<1>1. loop[q] = "sleeping" /\ asked[q] >= Start + strategy.rampup => target[q] <= asked[q]
  BY DEF GoesOnAtOnce, Given
<1>3. CASE loop[q] = "sleeping" /\ asked'[q] = asked[q] /\ target'[q] = target[q]
  BY <1>1, <1>3
<1>4. ASSUME NEW p \in Processes, Asks(p) PROVE target'[q] <= asked'[q]
  <2>1. q # p /\ loop[q] = "sleeping" /\ target' = target /\ asked' = asked
    BY <1>4 DEF Asks, ScheduleTyped
  <2> QED
    BY <1>3, <2>1
<1>5. ASSUME NEW p \in Processes, NEW gap \in Nat, Told(p, gap) PROVE target'[q] <= asked'[q]
  <2>2. CASE q # p
    BY <1>3, <1>5, <2>2 DEF Told, ScheduleTyped
  <2>3. CASE q = p
    <3>1. asked'[q] = now /\ target'[q] = TargetOf(p, mine'[p], gap)
      BY <1>5, <2>3 DEF Told, ScheduleTyped
    <3>2. now >= Start + strategy.rampup /\ now \in Nat /\ Start \in Nat /\ strategy.rampup \in Nat
      BY <3>1, StrategyTyped, SecondTyped DEF ScheduleTyped
    <3>3. AfterLast(p) <= now
      BY <3>2 DEF AfterLast, Recent
    <3>4. CASE strategy.type = "synchronous"
      <4>1. TargetOf(p, mine'[p], gap) = AfterLast(p)
        BY <3>4 DEF TargetOf
      <4> QED
        BY <3>1, <3>3, <4>1
    <3>5. CASE strategy.type = "concurrent"
      <4>1. TargetOf(p, mine'[p], gap) = IF Ramps(mine'[p]) THEN Start + Spread(mine'[p]) ELSE AfterLast(p)
        BY <3>5 DEF TargetOf
      <4>2. CASE ~Ramps(mine'[p])
        BY <3>1, <3>3, <4>1, <4>2
      <4>3. CASE Ramps(mine'[p])
        <5>1. mine'[p] \in Nat /\ mine'[p] < strategy.streams
          <6>1. mine'[p] = mine[p]
            BY <1>5, <3>5 DEF Told, NumbersLater, ScheduleTyped
          <6> QED
            BY <4>3, <6>1 DEF Ramps, ScheduleTyped
        <5>2. strategy \in Strategies /\ strategy.streams > 0
          BY <3>5, StrategyTyped DEF ScheduleTyped
        <5>3. Spread(mine'[p]) \in Nat /\ Spread(mine'[p]) <= strategy.rampup
          BY <5>1, <5>2, SpreadTyped
        <5> QED
          BY <3>1, <3>2, <4>1, <4>3, <5>3
      <4> QED
        BY <4>2, <4>3
    <3> QED
      BY <3>4, <3>5 DEF ClosedLoop
  <2> QED
    BY <2>2, <2>3
<1>6. ASSUME NEW p \in Processes, NEW stamp, Starts(p, stamp) PROVE target'[q] <= asked'[q]
  <2>1. q # p /\ loop[q] = "sleeping" /\ target'[q] = target[q] /\ asked'[q] = asked[q]
    BY <1>6 DEF Starts, ScheduleTyped
  <2> QED
    BY <1>3, <2>1
<1>7. CASE \E p \in Processes : \E k \in DOMAIN running[p], at \in {now - 1, now} : Completes(p, k, at)
  BY <1>3, <1>7 DEF Completes
<1>8. CASE Release \/ SetOffset \/ Tick \/ UNCHANGED scheduleVars
  BY <1>3, <1>8 DEF Release, SetOffset, Tick, scheduleVars
<1> QED
  BY <1>4, <1>5, <1>6, <1>7, <1>8, GapTyped DEF ScheduleNext

\* What a place is.
LEMMA PlacesMember ==
  ASSUME NEW f
  PROVE  /\ \A p, k : <<p, k>> \in Places(f) <=> p \in Processes /\ k \in 1 .. f[p]
         /\ \A a \in Places(f) : \E p \in Processes : \E k \in 1 .. f[p] : a = <<p, k>>
<1>1. ASSUME NEW p, NEW k PROVE <<p, k>> \in Places(f) <=> p \in Processes /\ k \in 1 .. f[p]
  BY DEF Places
<1>2. ASSUME NEW a \in Places(f) PROVE \E p \in Processes : \E k \in 1 .. f[p] : a = <<p, k>>
  <2>1. PICK p \in Processes : a \in {p} \X (1 .. f[p])
    BY DEF Places
  <2> QED
    BY <2>1
<1> QED
  BY <1>1, <1>2

\* One more for one process, one more place.
LEMMA OneMorePlace ==
  ASSUME NEW f \in [Processes -> Nat], NEW g \in [Processes -> Nat], NEW p \in Processes,
         g[p] = f[p] + 1, \A q \in Processes : q # p => g[q] = f[q],
         IsFiniteSet(Places(f))
  PROVE  IsFiniteSet(Places(g)) /\ Cardinality(Places(g)) = Cardinality(Places(f)) + 1
<1> PICK n \in Nat : n = f[p] + 1
  OBVIOUS
<1>1. \A q, k : <<q, k>> \in Places(f) <=> q \in Processes /\ k \in 1 .. f[q]
  BY PlacesMember
<1>2. \A q, k : <<q, k>> \in Places(g) <=> q \in Processes /\ k \in 1 .. g[q]
  BY PlacesMember
<1>3. <<p, n>> \notin Places(f)
  BY <1>1
<1>4. Places(g) = Places(f) \cup {<<p, n>>}
  <2>1. ASSUME NEW a \in Places(g) PROVE a \in Places(f) \cup {<<p, n>>}
    <3>0. PICK q \in Processes : \E k \in 1 .. g[q] : a = <<q, k>>
      BY PlacesMember
    <3>1. PICK k \in 1 .. g[q] : a = <<q, k>>
      BY <3>0
    <3>2. k \in 1 .. f[q] \/ (q = p /\ k = n)
      BY <3>1
    <3> QED
      BY <1>1, <3>1, <3>2
  <2>2. ASSUME NEW a \in Places(f) PROVE a \in Places(g)
    <3>0. PICK q \in Processes : \E k \in 1 .. f[q] : a = <<q, k>>
      BY PlacesMember
    <3>1. PICK k \in 1 .. f[q] : a = <<q, k>>
      BY <3>0
    <3>2. k \in 1 .. g[q]
      BY <3>1
    <3> QED
      BY <1>2, <3>1, <3>2
  <2>3. <<p, n>> \in Places(g)
    BY <1>2
  <2> QED
    BY <2>1, <2>2, <2>3
<1> PICK S : S = Places(f)
  OBVIOUS
<1> PICK x : x = <<p, n>>
  OBVIOUS
<1>5. IsFiniteSet(S) /\ x \notin S /\ Places(g) = S \cup {x}
  BY <1>3, <1>4, Zenon
<1>6. IsFiniteSet(S \cup {x}) /\ Cardinality(S \cup {x}) = Cardinality(S) + 1
  BY <1>5, FS_AddElement, Zenon
<1> QED
  BY <1>5, <1>6, Zenon

\* One less for one process, one place less.
LEMMA OneLessPlace ==
  ASSUME NEW f \in [Processes -> Nat], NEW g \in [Processes -> Nat], NEW p \in Processes,
         f[p] = g[p] + 1, \A q \in Processes : q # p => g[q] = f[q],
         IsFiniteSet(Places(f))
  PROVE  IsFiniteSet(Places(g)) /\ Cardinality(Places(g)) = Cardinality(Places(f)) - 1
<1>1. Places(g) \in SUBSET Places(f)
  <2> SUFFICES ASSUME NEW a \in Places(g) PROVE a \in Places(f)
    OBVIOUS
  <2>0. PICK q \in Processes : \E k \in 1 .. g[q] : a = <<q, k>>
    BY PlacesMember
  <2>1. PICK k \in 1 .. g[q] : a = <<q, k>>
    BY <2>0
  <2>2. k \in 1 .. f[q]
    BY <2>1
  <2> QED
    BY <2>1, <2>2, PlacesMember
<1>2. IsFiniteSet(Places(g))
  BY <1>1, FS_Subset
<1>3. Cardinality(Places(f)) = Cardinality(Places(g)) + 1
  BY <1>2, OneMorePlace
<1>4. Cardinality(Places(g)) \in Nat
  BY <1>2, FS_CardinalityType
<1> QED
  BY <1>2, <1>3, <1>4

\* The requests in flight of a process, and the one it is about to start.
LEMMA CountsTyped ==
  ASSUME NEW S, NEW r \in [Processes -> Seq(S)], NEW m \in [Processes -> Nat]
  PROVE  /\ Counts(r, m) \in [Processes -> Nat]
         /\ \A p \in Processes : /\ Len(r[p]) \in Nat /\ m[p] \in Nat
                                 /\ m[p] > 0 => Counts(r, m)[p] = Len(r[p]) + 1
                                 /\ m[p] = 0 => Counts(r, m)[p] = Len(r[p])
<1>1. \A p \in Processes : Len(r[p]) \in Nat /\ m[p] \in Nat
  <2> SUFFICES ASSUME NEW p \in Processes PROVE Len(r[p]) \in Nat /\ m[p] \in Nat
    OBVIOUS
  <2>1. r[p] \in Seq(S)
    OBVIOUS
  <2> QED
    BY <2>1
<1>2. \A p \in Processes : Len(r[p]) + (IF m[p] > 0 THEN 1 ELSE 0) \in Nat
  BY <1>1
<1> QED
  BY <1>1, <1>2 DEF Counts

\* A claim takes an index of its own.
LEMMA ClaimsCountedStep ==
  ScheduleTyped /\ ScheduleTyped' /\ Numbered /\ ClaimsCounted /\ [ScheduleNext]_scheduleVars => ClaimsCounted'
<1> SUFFICES ASSUME ScheduleTyped, ScheduleTyped', Numbered, ClaimsCounted, [ScheduleNext]_scheduleVars,
                    NumbersFirst \/ NumbersLater
             PROVE  IsFiniteSet(Places(Counts(running', mine'))) /\ Cardinality(Places(Counts(running', mine'))) <= index'
  <2>1. [ScheduleNext]_scheduleVars => (NumbersFirst' <=> NumbersFirst) /\ (NumbersLater' <=> NumbersLater)
    BY StrategyStays DEF NumbersFirst, NumbersLater, Ramped
  <2> QED
    BY <2>1 DEF ClaimsCounted, Claimed, Places, Counts
<1>x. PICK c : c = Counts(running, mine)
  OBVIOUS
<1>y. PICK d : d = Counts(running', mine')
  OBVIOUS
<1> SUFFICES IsFiniteSet(Places(d)) /\ Cardinality(Places(d)) <= index'
  BY <1>y
<1>c. /\ c \in [Processes -> Nat]
      /\ \A q \in Processes : /\ Len(running[q]) \in Nat /\ mine[q] \in Nat
                              /\ mine[q] > 0 => c[q] = Len(running[q]) + 1
                              /\ mine[q] = 0 => c[q] = Len(running[q])
  BY <1>x, CountsTyped DEF ScheduleTyped
<1>d. /\ d \in [Processes -> Nat]
      /\ \A q \in Processes : /\ Len(running'[q]) \in Nat /\ mine'[q] \in Nat
                              /\ mine'[q] > 0 => d[q] = Len(running'[q]) + 1
                              /\ mine'[q] = 0 => d[q] = Len(running'[q])
  BY <1>y, CountsTyped DEF ScheduleTyped
<1>0. /\ IsFiniteSet(Places(c)) /\ Cardinality(Places(c)) <= index
      /\ Cardinality(Places(c)) \in Nat /\ index \in Nat
  <2>1. IsFiniteSet(Places(c)) /\ Cardinality(Places(c)) <= index /\ index \in Nat
    BY <1>x DEF ClaimsCounted, Claimed, ScheduleTyped
  <2> QED
    BY <2>1, FS_CardinalityType
<1>e. ASSUME NEW q \in Processes, running'[q] = running[q], mine'[q] = mine[q] PROVE d[q] = c[q]
  <2>1. mine[q] > 0 \/ mine[q] = 0
    BY <1>c
  <2> QED
    BY <1>c, <1>d, <1>e, <2>1
<1>b. ASSUME index' = index, \A q \in Processes : d[q] = c[q]
      PROVE  IsFiniteSet(Places(d)) /\ Cardinality(Places(d)) <= index'
  <2>1. d = c
    BY <1>c, <1>d, <1>b
  <2> QED
    BY <1>0, <1>b, <2>1
<1>3. CASE UNCHANGED <<running, mine, index>>
  BY <1>c, <1>d, <1>b, <1>3
<1>4. ASSUME NEW p \in Processes, Asks(p)
      PROVE  IsFiniteSet(Places(d)) /\ Cardinality(Places(d)) <= index'
  <2>1. CASE ~NumbersFirst
    BY <1>3, <1>4, <2>1 DEF Asks
  <2>2. CASE NumbersFirst
    <3>1. /\ running' = running /\ index' = index + 1 /\ mine[p] = 0 /\ mine'[p] = index + 1
          /\ \A q \in Processes : q # p => mine'[q] = mine[q]
      BY <1>4, <2>2 DEF Asks, ScheduleTyped, Numbered, NumberOf
    <3>2. d[p] = c[p] + 1 /\ \A q \in Processes : q # p => d[q] = c[q]
      <4>1. d[p] = c[p] + 1
        <5>1. c[p] = Len(running[p]) /\ Len(running[p]) \in Nat
          BY <1>c, <3>1
        <5>2. d[p] = Len(running[p]) + 1
          BY <1>d, <3>1, <1>0
        <5> QED
          BY <5>1, <5>2
      <4>2. \A q \in Processes : q # p => d[q] = c[q]
        BY <1>c, <1>d, <3>1
      <4> QED
        BY <4>1, <4>2
    <3>3. IsFiniteSet(Places(d)) /\ Cardinality(Places(d)) = Cardinality(Places(c)) + 1
      BY <1>0, <1>c, <1>d, <3>2, OneMorePlace
    <3> QED
      BY <1>0, <3>1, <3>3
  <2> QED
    BY <2>1, <2>2
<1>5. ASSUME NEW p \in Processes, NEW gap \in Nat, Told(p, gap)
      PROVE  IsFiniteSet(Places(d)) /\ Cardinality(Places(d)) <= index'
  <2>1. CASE ~NumbersLater
    BY <1>3, <1>5, <2>1 DEF Told
  <2>2. CASE NumbersLater
    <3>1. /\ running' = running /\ index' = index + 1 /\ mine[p] = 0 /\ mine'[p] = index + 1
          /\ \A q \in Processes : q # p => mine'[q] = mine[q]
      BY <1>5, <2>2, ToldNumber DEF Told, ScheduleTyped, Numbered, NumberOf, NumbersFirst, NumbersLater
    <3>2. d[p] = c[p] + 1 /\ \A q \in Processes : q # p => d[q] = c[q]
      <4>1. d[p] = c[p] + 1
        <5>1. c[p] = Len(running[p]) /\ Len(running[p]) \in Nat
          BY <1>c, <3>1
        <5>2. d[p] = Len(running[p]) + 1
          BY <1>d, <3>1, <1>0
        <5> QED
          BY <5>1, <5>2
      <4>2. \A q \in Processes : q # p => d[q] = c[q]
        BY <1>c, <1>d, <3>1
      <4> QED
        BY <4>1, <4>2
    <3>3. IsFiniteSet(Places(d)) /\ Cardinality(Places(d)) = Cardinality(Places(c)) + 1
      BY <1>0, <1>c, <1>d, <3>2, OneMorePlace
    <3> QED
      BY <1>0, <3>1, <3>3
  <2> QED
    BY <2>1, <2>2
<1>6. ASSUME NEW p \in Processes, NEW stamp, Starts(p, stamp)
      PROVE  IsFiniteSet(Places(d)) /\ Cardinality(Places(d)) <= index'
  <2>1. /\ index' = index /\ mine[p] > 0 /\ mine'[p] = 0
        /\ running'[p] = Append(running[p], Resolved(p, stamp))
        /\ \A q \in Processes : q # p => mine'[q] = mine[q] /\ running'[q] = running[q]
    BY <1>6 DEF Starts, ScheduleTyped, Numbered, NumberOf
  <2>2. Len(Append(running[p], Resolved(p, stamp))) = Len(running[p]) + 1
    <3>1. running[p] \in Seq(StartTimes)
      BY DEF ScheduleTyped
    <3> QED
      BY <3>1
  <2>3. \A q \in Processes : d[q] = c[q]
    <3>1. c[p] = Len(running[p]) + 1 /\ Len(running[p]) \in Nat
      BY <1>c, <2>1
    <3>2. d[p] = Len(running'[p]) /\ Len(running'[p]) \in Nat
      BY <1>d, <2>1
    <3>3. Len(running'[p]) = Len(running[p]) + 1
      BY <2>1, <2>2
    <3>4. \A q \in Processes : q # p => d[q] = c[q]
      BY <1>e, <2>1
    <3> QED
      BY <3>1, <3>2, <3>3, <3>4
  <2> QED
    BY <1>b, <2>1, <2>3
<1>7. ASSUME NEW p \in Processes, NEW k \in DOMAIN running[p], NEW at, Completes(p, k, at)
      PROVE  IsFiniteSet(Places(d)) /\ Cardinality(Places(d)) <= index'
  <2>1. /\ index' = index /\ mine' = mine /\ running'[p] = RemoveAt(running[p], k)
        /\ \A q \in Processes : q # p => running'[q] = running[q]
    BY <1>7 DEF Completes, ScheduleTyped
  <2>2. Len(RemoveAt(running[p], k)) = Len(running[p]) - 1
    <3>1. running[p] \in Seq(StartTimes)
      BY DEF ScheduleTyped
    <3> QED
      BY <3>1, RemovedAt
  <2>3. c[p] = d[p] + 1 /\ \A q \in Processes : q # p => d[q] = c[q]
    <3>1. Len(running'[p]) = Len(running[p]) - 1
      BY <2>1, <2>2
    <3>2. mine'[p] = mine[p] /\ \A q \in Processes : mine'[q] = mine[q]
      BY <2>1
    <3>3. \A q \in Processes : q # p => d[q] = c[q]
      BY <1>e, <2>1, <3>2
    <3>4. c[p] \in Nat /\ d[p] \in Nat /\ c[p] = d[p] + 1
      <4>1. CASE mine[p] > 0
        BY <1>c, <1>d, <3>1, <3>2, <4>1
      <4>2. CASE mine[p] = 0
        BY <1>c, <1>d, <3>1, <3>2, <4>2
      <4> QED
        BY <1>c, <4>1, <4>2
    <3> QED
      BY <3>3, <3>4
  <2>4. IsFiniteSet(Places(d)) /\ Cardinality(Places(d)) = Cardinality(Places(c)) - 1
    BY <1>0, <1>c, <1>d, <2>3, OneLessPlace
  <2> QED
    BY <1>0, <2>1, <2>4
<1>8. CASE Release \/ SetOffset \/ Tick \/ UNCHANGED scheduleVars
  BY <1>3, <1>8 DEF Release, SetOffset, Tick, scheduleVars
<1> QED
  BY <1>4, <1>5, <1>6, <1>7, <1>8, GapTyped DEF ScheduleNext

LEMMA DelayStays == strategy' = strategy => \A i : Delay(i)' = Delay(i)
BY DEF Delay, Throughput, NumbersLater, Ramps, Ramped, Spread

\* A request does not go out before its delay.
LEMMA StartsOnTime ==
  ASSUME ScheduleTyped, OnTarget, strategy.type \in {"concurrent", "throughput"},
         NEW p \in Processes, Given(p)
  PROVE  target[p] >= Start + Delay(mine[p]) /\ Delay(mine[p]) \in Nat
<1> USE SecondTyped
<1>0. strategy \in Strategies /\ mine[p] \in Nat /\ target[p] \in Int
  BY DEF ScheduleTyped
<1>1. CASE strategy.type = "concurrent"
  <2>1. Spread(mine[p]) \in Nat
    BY <1>0, <1>1, StrategyTyped, SpreadTyped
  <2>2. IF Ramps(mine[p]) THEN target[p] = Start + Spread(mine[p]) ELSE target[p] >= Start
    BY <1>1 DEF OnTarget, TargetKept
  <2>3. Delay(mine[p]) = IF Ramps(mine[p]) THEN Spread(mine[p]) ELSE 0
    BY <1>1 DEF Delay
  <2> QED
    BY <1>0, <2>1, <2>2, <2>3
<1>2. CASE strategy.type = "throughput"
  <2>1. Throughput(mine[p]) \in Nat
    BY <1>0, ThroughputTyped
  <2>2. target[p] = Start + Throughput(mine[p]) /\ Delay(mine[p]) = Throughput(mine[p])
    BY <1>2 DEF OnTarget, TargetKept, Delay
  <2> QED
    BY <2>1, <2>2
<1> QED
  BY <1>1, <1>2

\* An index that is not due yet has a process that waits with it.
LEMMA HeldBackStep ==
  ScheduleTyped /\ Numbered /\ OnTarget /\ HeldBack /\ [ScheduleNext]_scheduleVars => HeldBack'
<1> SUFFICES ASSUME ScheduleTyped, Numbered, OnTarget, HeldBack, [ScheduleNext]_scheduleVars,
                    strategy.type \in {"concurrent", "throughput"}, NumbersFirst \/ NumbersLater,
                    NEW i \in 1 .. index', now' < Start + Delay(i)
             PROVE  \E p \in Processes : mine'[p] = i
  <2>1. [ScheduleNext]_scheduleVars =>
          /\ strategy' = strategy /\ (NumbersFirst' <=> NumbersFirst) /\ (NumbersLater' <=> NumbersLater)
          /\ \A i : Delay(i)' = Delay(i)
    BY StrategyStays, DelayStays DEF NumbersFirst, NumbersLater, Ramped
  <2> QED
    BY <2>1 DEF HeldBack
<1>0. now \in Nat /\ now' \in Nat /\ now <= now' /\ Start \in Nat
  <2>1. now \in Nat
    BY DEF ScheduleTyped
  <2>2. now' = now \/ now' = now + 1
    BY DEF ScheduleNext, scheduleVars, Release, SetOffset, Tick, Asks, Told, Starts, Completes
  <2> QED
    BY <2>1, <2>2, SecondTyped
<1>1. ASSUME i \in 1 .. index PROVE \E p \in Processes : mine[p] = i /\ mine[p] > 0
  <2>1. Delay(i) \in Int
    <3>1. strategy \in Strategies /\ i \in Nat
      BY <1>1 DEF ScheduleTyped
    <3>2. strategy.type = "concurrent" => Spread(i) \in Nat
      BY <3>1, StrategyTyped, SpreadTyped
    <3>3. Throughput(i) \in Nat
      BY <3>1, ThroughputTyped
    <3> QED
      BY <3>2, <3>3 DEF Delay
  <2>2. now < Start + Delay(i)
    BY <1>0, <2>1
  <2> QED
    BY <1>1, <2>2 DEF HeldBack
<1>2. CASE UNCHANGED <<mine, index>>
  BY <1>1, <1>2
<1>3. ASSUME NEW p \in Processes, mine[p] = 0, \A q \in Processes : q # p => mine'[q] = mine[q],
             IF index' = index + 1 THEN mine'[p] = index + 1 ELSE index' = index
      PROVE  \E q \in Processes : mine'[q] = i
  <2>1. CASE i \in 1 .. index
    BY <1>1, <1>3, <2>1
  <2>2. CASE ~(i \in 1 .. index)
    <3>1. index \in Nat
      BY DEF ScheduleTyped
    <3>2. index' = index + 1 /\ i = index + 1
      BY <1>3, <2>2, <3>1
    <3> QED
      BY <1>3, <3>2
  <2> QED
    BY <2>1, <2>2
<1>4. ASSUME NEW p \in Processes, Asks(p) PROVE \E q \in Processes : mine'[q] = i
  <2>1. mine[p] = 0 /\ \A q \in Processes : q # p => mine'[q] = mine[q]
    BY <1>4 DEF Asks, Numbered, NumberOf, ScheduleTyped
  <2>2. IF index' = index + 1 THEN mine'[p] = index + 1 ELSE index' = index
    BY <1>4 DEF Asks, ScheduleTyped
  <2> QED
    BY <1>3, <2>1, <2>2
<1>5. ASSUME NEW p \in Processes, NEW gap \in Nat, Told(p, gap) PROVE \E q \in Processes : mine'[q] = i
  <2>1. CASE ~NumbersLater
    BY <1>2, <1>5, <2>1 DEF Told
  <2>2. CASE NumbersLater
    <3>1. mine[p] = 0
      BY <1>5, <2>2 DEF Told, Numbered, NumberOf, NumbersFirst, NumbersLater
    <3>2. (\A q \in Processes : q # p => mine'[q] = mine[q]) /\ index' = index + 1 /\ mine'[p] = index + 1
      BY <1>5, <2>2, ToldNumber
    <3> QED
      BY <1>3, <3>1, <3>2
  <2> QED
    BY <2>1, <2>2
<1>6. ASSUME NEW p \in Processes, NEW stamp, Starts(p, stamp) PROVE \E q \in Processes : mine'[q] = i
  <2>1. index' = index /\ now' = now /\ Given(p) /\ target[p] <= now /\ \A q \in Processes : q # p => mine'[q] = mine[q]
    BY <1>6 DEF Starts, Given, ScheduleTyped
  <2>2. PICK q \in Processes : mine[q] = i
    BY <1>1, <2>1
  <2>3. q # p
    <3> SUFFICES ASSUME q = p PROVE FALSE
      OBVIOUS
    <3>1. target[p] >= Start + Delay(mine[p]) /\ Delay(mine[p]) \in Nat /\ target[p] \in Int
      BY <2>1, StartsOnTime DEF ScheduleTyped
    <3>2. mine[p] = i
      BY <2>2
    <3>3. target[p] >= Start + Delay(i) /\ Delay(i) \in Nat
      BY <3>1, <3>2
    <3> QED
      BY <1>0, <2>1, <3>1, <3>3
  <2> QED
    BY <2>1, <2>2, <2>3
<1>7. CASE \E p \in Processes : \E k \in DOMAIN running[p], at \in {now - 1, now} : Completes(p, k, at)
  BY <1>2, <1>7 DEF Completes
<1>8. CASE Release \/ SetOffset \/ Tick \/ UNCHANGED scheduleVars
  BY <1>2, <1>8 DEF Release, SetOffset, Tick, scheduleVars
<1> QED
  BY <1>4, <1>5, <1>6, <1>7, <1>8, GapTyped DEF ScheduleNext

\* create_processes deals out the whole concurrency.
LEMMA PlacesOfDeal ==
  ASSUME strategy \in Strategies, NEW f \in Deals
  PROVE  f \in [Processes -> Nat] /\ IsFiniteSet(Places(f)) /\ Cardinality(Places(f)) = SlotTotal
<1>1. SlotTotal \in Nat
  BY StrategyTyped, ScheduleAssumption DEF SlotTotal, SlotLimit
<1>2. Cardinality(Processes) \in Nat \ {0}
  BY ScheduleAssumption, FS_CardinalityType, FS_EmptySet
<1>3. Share \in Nat
  BY <1>1, <1>2, Quotient DEF Share
<1>4. f \in [Processes -> {Share, Share + 1}] /\ Cardinality(Places(f)) = SlotTotal
  BY DEF Deals
<1>5. \A p \in Processes : f[p] \in Nat /\ f[p] <= Share + 1
  BY <1>3, <1>4
<1>6. IsFiniteSet(1 .. Share + 1)
  BY <1>3, FS_Interval
<1>7. IsFiniteSet(Processes \X (1 .. Share + 1))
  BY <1>6, ScheduleAssumption, FS_Product
<1>8. Places(f) \in SUBSET (Processes \X (1 .. Share + 1))
  <2> SUFFICES ASSUME NEW a \in Places(f) PROVE a \in Processes \X (1 .. Share + 1)
    OBVIOUS
  <2>0. PICK q \in Processes : \E k \in 1 .. f[q] : a = <<q, k>>
    BY PlacesMember
  <2>1. PICK k \in 1 .. f[q] : a = <<q, k>>
    BY <2>0
  <2>2. k \in 1 .. Share + 1
    BY <1>3, <1>5
  <2> QED
    BY <2>1, <2>2
<1>9. IsFiniteSet(Places(f))
  BY <1>7, <1>8, FS_Subset
<1> QED
  BY <1>4, <1>5, <1>9

\* The invariant of the schedule, at the start and step by step.
LEMMA ScheduleInitially == ScheduleInit => ScheduleInv
<1> SUFFICES ASSUME ScheduleInit PROVE ScheduleInv
  OBVIOUS
<1>1. /\ strategy \in Strategies /\ released = FALSE /\ index = 0 /\ offset = Unset /\ now = 0 /\ issued = 0
      /\ loop = [p \in Processes |-> "acquiring"] /\ mine = [p \in Processes |-> 0]
      /\ target = [p \in Processes |-> 0] /\ asked = [p \in Processes |-> 0]
      /\ ready = [p \in Processes |-> TRUE] /\ running = [p \in Processes |-> <<>>]
      /\ last = [p \in Processes |-> Unset]
  BY DEF ScheduleInit
<1>2. slots \in [Processes -> Nat] /\ IsFiniteSet(Places(slots)) /\ Cardinality(Places(slots)) = SlotTotal
  BY PlacesOfDeal DEF ScheduleInit
<1>3. ScheduleTyped
  <2>1. <<>> \in Seq(StartTimes)
    OBVIOUS
  <2>2. running \in [Processes -> Seq(StartTimes)]
    BY <1>1, <2>1
  <2>3. now \in 0 .. MaxTime
    BY <1>1, ScheduleAssumption
  <2>4. offset \in Int /\ last \in [Processes -> {Unset} \cup {t \in Int : t >= Start}]
    BY <1>1 DEF Unset
  <2>5. /\ mine \in [Processes -> Nat] /\ target \in [Processes -> Int] /\ asked \in [Processes -> Int]
        /\ ready \in [Processes -> BOOLEAN] /\ loop \in [Processes -> {"acquiring", "waiting", "sleeping"}]
    BY <1>1
  <2> QED
    BY <1>1, <1>2, <2>2, <2>3, <2>4, <2>5 DEF ScheduleTyped
<1>4. SlotsKept
  BY <1>1, <1>2 DEF SlotsKept
<1>5. Numbered /\ OnTarget /\ GoesOnAtOnce
  BY <1>1 DEF Numbered, NumberOf, OnTarget, GoesOnAtOnce, Given
<1>6. Recent
  BY <1>1 DEF Recent, Unset
<1>7. ClaimsCounted
  <2>1. Counts(running, mine) \in [Processes -> Nat] /\ \A p \in Processes : Counts(running, mine)[p] = 0
    BY <1>1 DEF Counts
  <2>2. Places(Counts(running, mine)) = {}
    <3> SUFFICES ASSUME NEW a \in Places(Counts(running, mine)) PROVE FALSE
      OBVIOUS
    <3>0. PICK q \in Processes : \E k \in 1 .. Counts(running, mine)[q] : a = <<q, k>>
      BY PlacesMember
    <3> QED
      BY <2>1, <3>0
  <2>3. IsFiniteSet(Claimed) /\ Cardinality(Claimed) = 0
    BY <2>2, FS_EmptySet, Zenon DEF Claimed
  <2>4. index \in Nat
    BY <1>1
  <2> QED
    BY <2>3, <2>4 DEF ClaimsCounted
<1>8. HeldBack
  BY <1>1 DEF HeldBack
<1> QED
  BY <1>3, <1>4, <1>5, <1>6, <1>7, <1>8 DEF ScheduleInv

LEMMA ScheduleStep == ScheduleInv /\ [ScheduleNext]_scheduleVars => ScheduleInv'
BY ScheduleTypedStep, SlotsKeptStep, NumberedStep, OnTargetStep, RecentStep, GoesOnStep,
   ClaimsCountedStep, HeldBackStep DEF ScheduleInv

\* Targets follow the index, whatever process takes it.
LEMMA InOrder == ASSUME ScheduleInv PROVE TargetsInOrder
<1> SUFFICES ASSUME strategy.type \in {"constant", "throughput"}, NEW p \in Processes, NEW q \in Processes,
                    Given(p), Given(q), mine[p] < mine[q]
             PROVE  target[p] <= target[q]
  BY DEF TargetsInOrder
<1>0. strategy \in Strategies /\ mine[p] \in Nat /\ mine[q] \in Nat /\ Start \in Nat
  BY SecondTyped DEF ScheduleInv, ScheduleTyped
<1>1. CASE strategy.type = "constant"
  <2>1. target[p] = Start + Constant(mine[p]) /\ target[q] = Start + Constant(mine[q])
    BY <1>1 DEF ScheduleInv, OnTarget, TargetKept
  <2>2. mine[p] > 0
    BY <1>1 DEF ScheduleInv, Numbered, NumberOf, NumbersFirst, Given
  <2>3. Constant(mine[p]) <= Constant(mine[q]) /\ Constant(mine[p]) \in Nat /\ Constant(mine[q]) \in Nat
    BY <1>0, <2>2, ConstantGrows, ConstantDue
  <2> QED
    BY <1>0, <2>1, <2>3
<1>2. CASE strategy.type = "throughput"
  <2>1. target[p] = Start + Throughput(mine[p]) /\ target[q] = Start + Throughput(mine[q])
    BY <1>2 DEF ScheduleInv, OnTarget, TargetKept
  <2>3. Throughput(mine[p]) <= Throughput(mine[q]) /\ Throughput(mine[p]) \in Nat /\ Throughput(mine[q]) \in Nat
    BY <1>0, ThroughputGrows, ThroughputTyped
  <2> QED
    BY <1>0, <2>1, <2>3
<1> QED
  BY <1>1, <1>2

\* The constant rate is kept over all processes.
LEMMA RateKept == ASSUME ScheduleInv PROVE ConstantRate
<1> SUFFICES ASSUME strategy.type = "constant", NEW p \in Processes, Given(p), mine[p] > 1 \/ ~Ramped
             PROVE  LET t == target[p] - Start
                    IN Due(t) <= mine[p] * Unit /\ mine[p] * Unit <= Due(t + 1)
  BY DEF ConstantRate
<1>0. strategy \in Strategies /\ mine[p] \in Nat \ {0} /\ Start \in Nat
  <2>1. strategy \in Strategies /\ mine[p] \in Nat /\ Start \in Nat
    BY SecondTyped DEF ScheduleInv, ScheduleTyped
  <2>2. mine[p] > 0
    BY DEF ScheduleInv, Numbered, NumberOf, NumbersFirst, Given
  <2> QED
    BY <2>1, <2>2
<1>1. target[p] = Start + Constant(mine[p])
  BY DEF ScheduleInv, OnTarget, TargetKept
<1>2. Constant(mine[p]) \in Nat
  BY <1>0, ConstantDue
<1>3. target[p] - Start = Constant(mine[p])
  BY <1>0, <1>1, <1>2
<1>4. Due(Constant(mine[p])) <= mine[p] * Unit /\ mine[p] * Unit <= Due(Constant(mine[p]) + 1)
  BY <1>0, ConstantDue
<1> QED
  BY <1>3, <1>4

\* No target lies before the start, but for the race.
LEMMA NoneEarly == ASSUME ScheduleInv PROVE EarlyOnlyByRace
<1> SUFFICES ASSUME NEW p \in Processes, Given(p), ready[p] PROVE target[p] >= Start
  BY DEF EarlyOnlyByRace
<1>0. /\ strategy \in Strategies /\ mine[p] \in Nat /\ target[p] \in Int /\ Start \in Nat
      /\ ScheduleTyped /\ OnTarget
  BY SecondTyped DEF ScheduleInv, ScheduleTyped
<1>1. CASE strategy.type \in {"synchronous", "trace", "poisson"}
  BY <1>0, <1>1 DEF OnTarget, TargetKept
<1>2. CASE strategy.type \in {"concurrent", "throughput"}
  BY <1>0, <1>2, StartsOnTime
<1>3. CASE strategy.type = "constant"
  <2>1. mine[p] > 0
    BY <1>3 DEF ScheduleInv, Numbered, NumberOf, NumbersFirst, Given
  <2>2. Constant(mine[p]) \in Nat
    BY <1>0, <2>1, ConstantDue
  <2> QED
    BY <1>0, <1>3, <2>2 DEF OnTarget, TargetKept
<1> QED
  BY <1>0, <1>1, <1>2, <1>3, StrategyTyped

\* The processes that hold an index that is not due yet are not in flight with it.
LEMMA ApartFromHeld ==
  ASSUME ScheduleTyped, IsFiniteSet(Claimed), NEW u \in Nat, NEW m \in Nat,
         \A i \in u + 1 .. m : \E p \in Processes : mine[p] = i
  PROVE  /\ IsFiniteSet(InFlight)
         /\ Cardinality(InFlight) \in Nat
         /\ Cardinality(InFlight) <= Cardinality(Claimed)
         /\ m >= u => Cardinality(InFlight) + (m - u) <= Cardinality(Claimed)
<1> DEFINE Upcoming == {<<p, Len(running[p]) + 1>> : p \in {q \in Processes : mine[q] > 0}}
           lens == [p \in Processes |-> Len(running[p])]
           c == Counts(running, mine)
<1>1. /\ c \in [Processes -> Nat] /\ Claimed = Places(c)
      /\ \A q \in Processes : /\ Len(running[q]) \in Nat /\ mine[q] \in Nat
                              /\ mine[q] > 0 => c[q] = Len(running[q]) + 1
                              /\ mine[q] = 0 => c[q] = Len(running[q])
  BY CountsTyped DEF ScheduleTyped, Claimed
<1>2. InFlight = Places(lens) /\ \A q \in Processes : lens[q] = Len(running[q])
  BY DEF InFlight
<1> HIDE DEF lens, c
<1>3. InFlight \in SUBSET Claimed
  <2> SUFFICES ASSUME NEW a \in Places(lens) PROVE a \in Places(c)
    BY <1>1, <1>2
  <2>0. PICK q \in Processes : \E k \in 1 .. lens[q] : a = <<q, k>>
    BY PlacesMember
  <2>1. PICK k \in 1 .. lens[q] : a = <<q, k>>
    BY <2>0
  <2>2. mine[q] > 0 \/ mine[q] = 0
    BY <1>1
  <2>3. k \in 1 .. c[q]
    BY <1>1, <1>2, <2>1, <2>2
  <2> QED
    BY <2>1, <2>3, PlacesMember
<1>4. Upcoming \in SUBSET Claimed
  <2> SUFFICES ASSUME NEW p \in Processes, mine[p] > 0 PROVE <<p, Len(running[p]) + 1>> \in Places(c)
    BY <1>1
  <2>1. Len(running[p]) + 1 \in 1 .. c[p]
    BY <1>1
  <2> QED
    BY <2>1, PlacesMember
<1>5. InFlight \cap Upcoming = {}
  <2> SUFFICES ASSUME NEW p \in Processes, <<p, Len(running[p]) + 1>> \in Places(lens) PROVE FALSE
    BY <1>2
  <2>1. Len(running[p]) + 1 \in 1 .. Len(running[p])
    BY <1>2, PlacesMember
  <2> QED
    BY <1>1, <2>1
<1>6. IsFiniteSet(InFlight) /\ Cardinality(InFlight) <= Cardinality(Claimed) /\ Cardinality(InFlight) \in Nat
  BY <1>3, FS_Subset, FS_CardinalityType
<1>7. IsFiniteSet(Upcoming) /\ Cardinality(Upcoming) \in Nat
  BY <1>4, FS_Subset, FS_CardinalityType
<1>8. Cardinality(InFlight) + Cardinality(Upcoming) <= Cardinality(Claimed)
  <2>1. InFlight \cup Upcoming \in SUBSET Claimed
    BY <1>3, <1>4
  <2>2. Cardinality(InFlight \cup Upcoming) <= Cardinality(Claimed)
    BY <2>1, FS_Subset
  <2>3. Cardinality(InFlight \cup Upcoming) = Cardinality(InFlight) + Cardinality(Upcoming) - Cardinality(InFlight \cap Upcoming)
    BY <1>6, <1>7, FS_Union
  <2>4. Cardinality(InFlight \cap Upcoming) = 0
    BY <1>5, FS_EmptySet, Zenon
  <2>5. Cardinality(InFlight \cup Upcoming) = Cardinality(InFlight) + Cardinality(Upcoming) - 0
    BY <2>3, <2>4, Zenon
  <2>6. PICK a, b : a = Cardinality(InFlight) /\ b = Cardinality(Upcoming)
    OBVIOUS
  <2>7. a \in Nat /\ b \in Nat
    BY <1>6, <1>7, <2>6, Zenon
  <2>8. Cardinality(InFlight \cup Upcoming) = a + b - 0
    BY <2>5, <2>6, Zenon
  <2>9. a + b - 0 = a + b
    BY <2>7
  <2>10. Cardinality(InFlight \cup Upcoming) = Cardinality(InFlight) + Cardinality(Upcoming)
    BY <2>6, <2>8, <2>9, Zenon
  <2> QED
    BY <2>2, <2>10, Zenon
<1>9. Cardinality(u + 1 .. m) <= Cardinality(Upcoming)
  <2> DEFINE holder == [i \in u + 1 .. m |-> CHOOSE p \in Processes : mine[p] = i]
             place == [i \in u + 1 .. m |-> <<holder[i], Len(running[holder[i]]) + 1>>]
  <2>1. \A i \in u + 1 .. m : holder[i] \in Processes /\ mine[holder[i]] = i
    OBVIOUS
  <2>2. \A i \in u + 1 .. m : place[i] = <<holder[i], Len(running[holder[i]]) + 1>>
    OBVIOUS
  <2>3. place \in [u + 1 .. m -> Upcoming]
    <3>1. \A i \in u + 1 .. m : place[i] \in Upcoming
      <4> SUFFICES ASSUME NEW i \in u + 1 .. m PROVE place[i] \in Upcoming
        OBVIOUS
      <4>1. holder[i] \in Processes /\ mine[holder[i]] > 0
        BY <2>1
      <4> QED
        BY <2>2, <4>1
    <3> QED
      BY <3>1
  <2> HIDE DEF holder, place
  <2>4. \A i, j \in u + 1 .. m : place[i] = place[j] => i = j
    <3> SUFFICES ASSUME NEW i \in u + 1 .. m, NEW j \in u + 1 .. m, place[i] = place[j] PROVE i = j
      OBVIOUS
    <3>1. holder[i] = holder[j]
      BY <2>2
    <3> QED
      BY <2>1, <3>1
  <2>5. place \in Injection(u + 1 .. m, Upcoming)
    BY <2>3, <2>4 DEF Injection, IsInjective
  <2> HIDE DEF Upcoming
  <2> QED
    BY <1>7, <2>5, FS_Injection
<1>10. m >= u => Cardinality(u + 1 .. m) = m - u
  <2>1. Cardinality(u + 1 .. m) = IF u + 1 > m THEN 0 ELSE m - (u + 1) + 1
    BY FS_Interval
  <2> QED
    BY <2>1
<1> HIDE DEF Upcoming
<1>11. Cardinality(Claimed) \in Nat
  BY FS_CardinalityType
<1> QED
  BY <1>6, <1>7, <1>8, <1>9, <1>10, <1>11

\* The indices that are due t ticks after the start: u of them at most.
LEMMA NotYetDue ==
  ASSUME NEW R \in Nat \ {0}, NEW s \in Nat \ {0}, NEW t \in Nat, t < R,
         NEW u, u = (s * (t + 1)) \div R
  PROVE  /\ u \in Nat /\ R * u <= s * (t + 1)
         /\ \A i \in Nat : i > u => ~((R * i) \div s <= t)
<1>1. s * (t + 1) \in Nat
  OBVIOUS
<1>2. u \in Nat /\ R * u <= s * (t + 1) /\ s * (t + 1) < R * (u + 1)
  BY <1>1, Quotient
<1>3. ASSUME NEW i \in Nat, i > u PROVE ~((R * i) \div s <= t)
  <2>1. R * i \in Nat
    OBVIOUS
  <2>2. PICK x \in Nat : x = (R * i) \div s /\ R * i < s * (x + 1)
    BY <2>1, Quotient
  <2>3. R * (u + 1) <= R * i
    BY <1>2, <1>3, Scaled
  <2>4. R * (u + 1) \in Nat /\ s * (x + 1) \in Nat
    BY <1>2
  <2>5. s * (t + 1) < s * (x + 1)
    BY <1>1, <1>2, <2>1, <2>2, <2>3, <2>4
  <2>6. t + 1 < x + 1
    BY <2>5, ScaledLess
  <2> QED
    BY <2>2, <2>6
<1> QED
  BY <1>2, <1>3

\* Not more in flight than the linear rampup allows: every index that is not due is held by a
\* process that cannot have it in flight, and no claim is counted twice.
LEMMA RampupKept == ASSUME ScheduleInv PROVE RampupHolds
<1> SUFFICES ASSUME strategy.type \in {"concurrent", "throughput"}, strategy.streams > 0,
                    now \in Start .. Start + strategy.rampup - 1
             PROVE  (Cardinality(InFlight) - 1) * strategy.rampup <= strategy.streams * (now + 1 - Start)
  BY DEF RampupHolds
<1>0. /\ strategy \in Strategies /\ strategy.rampup \in Nat /\ strategy.streams \in Nat
      /\ Start \in Nat /\ now \in Nat /\ index \in Nat
  BY StrategyTyped, SecondTyped DEF ScheduleInv, ScheduleTyped
<1>x. PICK R \in Nat \ {0} : R = strategy.rampup
  BY <1>0
<1>y. PICK s \in Nat \ {0} : s = strategy.streams
  BY <1>0
<1>z. PICK t \in Nat : t = now - Start /\ t < R
  BY <1>0, <1>x
<1>1. PICK u : u = (s * (t + 1)) \div R
  OBVIOUS
<1>2. u \in Nat /\ R * u <= s * (t + 1) /\ \A i \in Nat : i > u => ~((R * i) \div s <= t)
  BY <1>1, <1>z, NotYetDue
<1>3. \A i \in Nat : i > u => t < Spread(i) /\ Spread(i) \in Nat
  <2> SUFFICES ASSUME NEW i \in Nat, i > u PROVE t < Spread(i) /\ Spread(i) \in Nat
    OBVIOUS
  <2>1. Spread(i) = (R * i) \div s
    BY <1>x, <1>y DEF Spread
  <2>2. Spread(i) \in Nat
    BY <1>0, SpreadTyped
  <2>3. ~(Spread(i) <= t)
    BY <1>2, <2>1
  <2> QED
    BY <2>2, <2>3
<1>4. NumbersFirst \/ NumbersLater
  BY <1>x DEF NumbersFirst, NumbersLater, Ramped
<1>5. IsFiniteSet(Claimed) /\ Cardinality(Claimed) <= index /\ Cardinality(Claimed) \in Nat
  BY <1>4, FS_CardinalityType DEF ScheduleInv, ClaimsCounted
<1>6. \A i \in 1 .. index : t < Delay(i) /\ Delay(i) \in Nat => \E p \in Processes : mine[p] = i
  <2> SUFFICES ASSUME NEW i \in 1 .. index, t < Delay(i), Delay(i) \in Nat PROVE \E p \in Processes : mine[p] = i
    OBVIOUS
  <2>1. now < Start + Delay(i)
    BY <1>0, <1>z
  <2> QED
    BY <1>4, <2>1 DEF ScheduleInv, HeldBack
<1>7. Cardinality(InFlight) \in Nat /\ Cardinality(InFlight) <= u + 1
  <2>1. CASE strategy.type = "throughput"
    <3>1. \A i \in u + 1 .. index : \E p \in Processes : mine[p] = i
      <4> SUFFICES ASSUME NEW i \in u + 1 .. index PROVE \E p \in Processes : mine[p] = i
        OBVIOUS
      <4>1. i \in 1 .. index /\ i \in Nat /\ i > u
        BY <1>0, <1>2
      <4>2. Delay(i) = IF i >= s THEN R ELSE Spread(i)
        BY <1>x, <1>y, <2>1 DEF Delay, Throughput, NumbersLater, Ramped
      <4>3. t < Delay(i) /\ Delay(i) \in Nat
        BY <1>3, <1>z, <4>1, <4>2
      <4> QED
        BY <1>6, <4>1, <4>3
    <3>2. /\ Cardinality(InFlight) \in Nat
          /\ Cardinality(InFlight) <= Cardinality(Claimed)
          /\ index >= u => Cardinality(InFlight) + (index - u) <= Cardinality(Claimed)
      BY <1>0, <1>2, <1>5, <3>1, ApartFromHeld DEF ScheduleInv
    <3> QED
      BY <1>0, <1>2, <1>5, <3>2
  <2>2. CASE strategy.type = "concurrent"
    <3>1. PICK m \in Nat : m = IF index < s THEN index ELSE s - 1
      BY <1>0
    <3>2. \A i \in u + 1 .. m : \E p \in Processes : mine[p] = i
      <4> SUFFICES ASSUME NEW i \in u + 1 .. m PROVE \E p \in Processes : mine[p] = i
        OBVIOUS
      <4>1. i \in 1 .. index /\ i \in Nat /\ i > u /\ i < s
        BY <1>0, <1>2, <3>1
      <4>2. Delay(i) = Spread(i)
        BY <1>x, <1>y, <2>2, <4>1 DEF Delay, Ramps, Ramped
      <4> QED
        BY <1>3, <1>6, <4>1, <4>2
    <3>3. Cardinality(Claimed) <= s
      <4>1. Claimed \in SUBSET Places(slots)
        <5>0. /\ Claimed = Places(Counts(running, mine))
              /\ \A q \in Processes : /\ Len(running[q]) \in Nat /\ mine[q] \in Nat
                                      /\ mine[q] > 0 => Counts(running, mine)[q] = Len(running[q]) + 1
                                      /\ mine[q] = 0 => Counts(running, mine)[q] = Len(running[q])
          BY CountsTyped DEF ScheduleInv, ScheduleTyped, Claimed
        <5> SUFFICES ASSUME NEW a \in Places(Counts(running, mine)) PROVE a \in Places(slots)
          BY <5>0
        <5>1. PICK q \in Processes : \E k \in 1 .. Counts(running, mine)[q] : a = <<q, k>>
          BY PlacesMember
        <5>2. PICK k \in 1 .. Counts(running, mine)[q] : a = <<q, k>>
          BY <5>1
        <5>3. slots[q] \in Nat /\ Len(running[q]) <= slots[q] /\ (mine[q] > 0 => Len(running[q]) < slots[q])
          BY DEF ScheduleInv, ScheduleTyped, SlotsKept, Numbered, NumberOf
        <5>4. k \in 1 .. slots[q]
          <6>1. CASE mine[q] > 0
            BY <5>0, <5>2, <5>3, <6>1
          <6>2. CASE mine[q] = 0
            BY <5>0, <5>2, <5>3, <6>2
          <6> QED
            BY <5>0, <6>1, <6>2
        <5> QED
          BY <5>2, <5>4, PlacesMember
      <4>2. IsFiniteSet(Places(slots)) /\ Cardinality(Places(slots)) = s
        BY <1>y, <2>2 DEF ScheduleInv, SlotsKept, SlotTotal, SlotLimit, Limited
      <4> QED
        BY <4>1, <4>2, FS_Subset
    <3>4. /\ Cardinality(InFlight) \in Nat
          /\ Cardinality(InFlight) <= Cardinality(Claimed)
          /\ m >= u => Cardinality(InFlight) + (m - u) <= Cardinality(Claimed)
      BY <1>2, <1>5, <3>2, ApartFromHeld DEF ScheduleInv
    <3> QED
      BY <1>0, <1>2, <1>5, <3>1, <3>3, <3>4
  <2> QED
    BY <2>1, <2>2
<1>8. (Cardinality(InFlight) - 1) * R <= s * (t + 1)
  <2> PICK n \in Int : n = Cardinality(InFlight) - 1 /\ n <= u
    BY <1>2, <1>7
  <2>1. R * n <= R * u
    BY <1>2, Scaled
  <2>2. R * n \in Int /\ R * u \in Int /\ s * (t + 1) \in Int /\ n * R = R * n
    BY <1>2
  <2> QED
    BY <1>2, <2>1, <2>2
<1>9. now + 1 - Start = t + 1
  BY <1>0, <1>z
<1> QED
  BY <1>8, <1>9, <1>x, <1>y

\* Whatever the processes, the strategy and the clock do, the load stays what the strategy
\* promises: LoadIsKept, about next_request_time of every strategy and the loop that asks it.
THEOREM LoadStaysKept == ScheduleSpec => []LoadIsKept
<1>1. ScheduleInv => LoadIsKept
  <2> SUFFICES ASSUME ScheduleInv PROVE LoadIsKept
    OBVIOUS
  <2>1. ScheduleTypeOK
    BY SecondTyped DEF ScheduleInv, ScheduleTyped, SlotsKept, ScheduleTypeOK, Unset
  <2> QED
    BY <2>1, InOrder, RateKept, NoneEarly, RampupKept DEF LoadIsKept, ScheduleInv
<1> QED
  BY <1>1, ScheduleInitially, ScheduleStep, PTL DEF ScheduleSpec

-----------------------------------------------------------------------------
(***************************************************************************)
(* The windows of the over-saturation limit, for every window, ratio,      *)
(* threshold and sequence of samples.  Sums over sequences first.          *)
(***************************************************************************)

\* A function that is defined by recursion over an interval exists.
Recurs(V, s, n, F, f) ==
  f \in [0 .. n -> V] /\ f[0] = s /\ \A k \in 1 .. n : f[k] = F[<<f[k - 1], k>>]

LEMMA Recursion ==
  ASSUME NEW V, NEW s, s \in V, NEW n, n \in Nat, NEW F, F \in [V \X (1 .. n) -> V]
  PROVE  \E f : Recurs(V, s, n, F, f)
<1> DEFINE Part(m, f) == f \in [0 .. m -> V] /\ f[0] = s /\ \A k \in 1 .. m : f[k] = F[<<f[k - 1], k>>]
           P == {m \in Nat : m <= n => \E f : Part(m, f)}
<1>1. 0 \in P
  <2>1. Part(0, [k \in 0 .. 0 |-> s])
    OBVIOUS
  <2> QED
    BY <2>1
<1>2. ASSUME NEW m \in Nat, m \in P PROVE m + 1 \in P
  <2>1. ASSUME m + 1 <= n PROVE \E f : Part(m + 1, f)
    <3>1. PICK f : Part(m, f)
      <4>1. m <= n
        BY <2>1
      <4> QED
        BY <1>2, <4>1
    <3> DEFINE g == [k \in 0 .. m + 1 |-> IF k <= m THEN f[k] ELSE F[<<f[m], m + 1>>]]
    <3>2. f[m] \in V /\ m + 1 \in 1 .. n
      BY <2>1, <3>1
    <3>3. F[<<f[m], m + 1>>] \in V
      BY <3>2
    <3>4. g \in [0 .. m + 1 -> V] /\ g[0] = s
      BY <3>1, <3>3
    <3>5. ASSUME NEW k \in 1 .. m + 1 PROVE g[k] = F[<<g[k - 1], k>>]
      <4>1. k - 1 \in 0 .. m /\ g[k - 1] = f[k - 1]
        OBVIOUS
      <4>2. CASE k <= m
        <5>1. f[k] = F[<<f[k - 1], k>>]
          BY <3>1, <4>2
        <5>2. g[k] = f[k]
          BY <4>2
        <5> QED
          BY <4>1, <5>1, <5>2
      <4>3. CASE k = m + 1
        <5>1. g[k] = F[<<f[m], m + 1>>] /\ k - 1 = m
          BY <4>3
        <5> QED
          BY <4>1, <4>3, <5>1
      <4> QED
        BY <4>2, <4>3
    <3> QED
      BY <3>4, <3>5
  <2> QED
    BY <2>1
<1> HIDE DEF P
<1>3. n \in P
  BY <1>1, <1>2, Induction
<1>4. PICK f : Part(n, f)
  BY <1>3 DEF P
<1> QED
  BY <1>4 DEF Recurs

\* A sum goes over the partial sums of its sequence.
PartialSums(f, n, p) == p \in [0 .. n -> Int] /\ p[0] = 0 /\ \A k \in 1 .. n : p[k] = p[k - 1] + f[k]

LEMMA TotalIs ==
  ASSUME NEW n \in Nat, NEW f \in [1 .. n -> Int]
  PROVE  \E p : PartialSums(f, n, p) /\ Total(f) = p[n]
<1>0. Len(f) = n
  <2>1. f \in Seq(Int)
    BY SeqDef
  <2> QED
    BY <2>1, LenProperties
<1> DEFINE F == [a \in Int \X (1 .. n) |-> a[1] + f[a[2]]]
           g == CHOOSE q : q = [k \in 0 .. Len(f) |-> IF k = 0 THEN 0 ELSE q[k - 1] + f[k]]
<1>1. F \in [Int \X (1 .. n) -> Int]
  OBVIOUS
<1>2. \A c \in Int, k \in 1 .. n : F[<<c, k>>] = c + f[k]
  OBVIOUS
<1> HIDE DEF F
<1>3. PICK p : Recurs(Int, 0, n, F, p)
  <2>1. 0 \in Int
    OBVIOUS
  <2> QED
    BY <1>1, <2>1, Recursion
<1>4. p \in [0 .. n -> Int] /\ p[0] = 0 /\ \A k \in 1 .. n : p[k] = F[<<p[k - 1], k>>]
  BY <1>3 DEF Recurs
<1>5. \A k \in 1 .. n : p[k] = p[k - 1] + f[k]
  <2> TAKE k \in 1 .. n
  <2>1. k - 1 \in 0 .. n
    OBVIOUS
  <2>2. p[k - 1] \in Int
    BY <1>4, <2>1
  <2> QED
    BY <1>2, <1>4, <2>2
<1>6. p = [k \in 0 .. Len(f) |-> IF k = 0 THEN 0 ELSE p[k - 1] + f[k]]
  BY <1>0, <1>4, <1>5
<1>7. g = [k \in 0 .. Len(f) |-> IF k = 0 THEN 0 ELSE g[k - 1] + f[k]]
  BY <1>6
<1>8. Total(f) = g[n]
  BY <1>0 DEF Total
<1> HIDE DEF g
<1>9. ASSUME NEW k \in 1 .. n PROVE g[k] = g[k - 1] + f[k]
  BY <1>0, <1>7
<1>10. g[0] = 0
  BY <1>0, <1>7
<1>11. \A k \in Nat : k \in {m \in Nat : m <= n => g[m] = p[m]}
  <2> DEFINE P == {m \in Nat : m <= n => g[m] = p[m]}
  <2>1. 0 \in P
    BY <1>4, <1>10
  <2>2. ASSUME NEW m \in Nat, m \in P PROVE m + 1 \in P
    <3> SUFFICES ASSUME m + 1 <= n PROVE g[m + 1] = p[m + 1]
      OBVIOUS
    <3>1. m + 1 \in 1 .. n /\ (m + 1) - 1 = m /\ m <= n
      OBVIOUS
    <3>2. g[m + 1] = g[m] + f[m + 1]
      BY <1>9, <3>1
    <3>3. p[m + 1] = p[m] + f[m + 1]
      BY <1>5, <3>1
    <3>4. g[m] = p[m]
      BY <2>2, <3>1
    <3> QED
      BY <3>2, <3>3, <3>4
  <2> HIDE DEF P
  <2>3. Nat \subseteq P
    BY <2>1, <2>2, Induction
  <2> QED
    BY <2>3 DEF P
<1>12. g[n] = p[n]
  BY <1>11
<1> QED
  BY <1>4, <1>5, <1>8, <1>12 DEF PartialSums

\* One more summand.
LEMMA TotalAdded ==
  ASSUME NEW n \in Nat, NEW f \in [1 .. n -> Int], NEW g \in [1 .. n + 1 -> Int],
         \A k \in 1 .. n : g[k] = f[k]
  PROVE  Total(g) = Total(f) + g[n + 1] /\ Total(f) \in Int
<1>1. PICK p : PartialSums(f, n, p) /\ Total(f) = p[n]
  BY TotalIs
<1>2. PICK q : PartialSums(g, n + 1, q) /\ Total(g) = q[n + 1]
  BY TotalIs
<1> DEFINE P == {m \in Nat : m <= n => q[m] = p[m]}
<1>3. 0 \in P
  BY <1>1, <1>2 DEF PartialSums
<1>4. ASSUME NEW m \in Nat, m \in P PROVE m + 1 \in P
  <2> SUFFICES ASSUME m + 1 <= n PROVE q[m + 1] = p[m + 1]
    OBVIOUS
  <2>1. m + 1 \in 1 .. n /\ m + 1 \in 1 .. n + 1 /\ (m + 1) - 1 = m /\ m <= n
    OBVIOUS
  <2>2. p[m + 1] = p[m] + f[m + 1] /\ q[m + 1] = q[m] + g[m + 1]
    BY <1>1, <1>2, <2>1 DEF PartialSums
  <2>3. q[m] = p[m] /\ g[m + 1] = f[m + 1]
    BY <1>4, <2>1
  <2> QED
    BY <2>2, <2>3
<1> HIDE DEF P
<1>5. n \in P
  BY <1>3, <1>4, Induction
<1>6. q[n] = p[n]
  BY <1>5 DEF P
<1>7. q[n + 1] = q[n] + g[n + 1] /\ p[n] \in Int
  <2>1. n + 1 \in 1 .. n + 1 /\ (n + 1) - 1 = n /\ n \in 0 .. n
    OBVIOUS
  <2> QED
    BY <1>1, <1>2, <2>1 DEF PartialSums
<1> QED
  BY <1>1, <1>2, <1>6, <1>7

\* A sum is that of its first summands and of the rest.
Splits(f, n, k, g, h) ==
  /\ n \in Nat /\ k \in 0 .. n
  /\ f \in [1 .. n -> Int] /\ g \in [1 .. k -> Int] /\ h \in [1 .. n - k -> Int]
  /\ \A i \in 1 .. k : g[i] = f[i]
  /\ \A i \in 1 .. n - k : h[i] = f[k + i]

LEMMA TotalSplit ==
  ASSUME NEW f, NEW n, NEW k, NEW g, NEW h, Splits(f, n, k, g, h)
  PROVE  Total(f) = Total(g) + Total(h) /\ Total(g) \in Int /\ Total(h) \in Int
<1> USE DEF Splits
<1>0. k \in Nat /\ n - k \in Nat /\ n - k \in 0 .. n - k /\ k \in 0 .. k
  OBVIOUS
<1>1. PICK p : PartialSums(f, n, p) /\ Total(f) = p[n]
  BY TotalIs
<1>2. PICK q : PartialSums(g, k, q) /\ Total(g) = q[k]
  BY <1>0, TotalIs
<1>3. PICK r : PartialSums(h, n - k, r) /\ Total(h) = r[n - k]
  BY <1>0, TotalIs
<1>4. p[k] = q[k]
  <2> DEFINE P == {m \in Nat : m <= k => p[m] = q[m]}
  <2>1. 0 \in P
    BY <1>1, <1>2 DEF PartialSums
  <2>2. ASSUME NEW m \in Nat, m \in P PROVE m + 1 \in P
    <3> SUFFICES ASSUME m + 1 <= k PROVE p[m + 1] = q[m + 1]
      OBVIOUS
    <3>1. m + 1 \in 1 .. k /\ m + 1 \in 1 .. n /\ (m + 1) - 1 = m /\ m <= k
      OBVIOUS
    <3>2. p[m + 1] = p[m] + f[m + 1] /\ q[m + 1] = q[m] + g[m + 1]
      BY <1>1, <1>2, <3>1 DEF PartialSums
    <3>3. p[m] = q[m] /\ g[m + 1] = f[m + 1]
      BY <2>2, <3>1
    <3> QED
      BY <3>2, <3>3
  <2> HIDE DEF P
  <2>3. k \in P
    BY <1>0, <2>1, <2>2, Induction
  <2> QED
    BY <1>0, <2>3 DEF P
<1>5. p[n] = p[k] + r[n - k]
  <2> DEFINE P == {m \in Nat : m <= n - k => p[k + m] = p[k] + r[m]}
  <2>0. p[k] \in Int
    BY <1>1 DEF PartialSums
  <2>1. 0 \in P
    <3>1. r[0] = 0 /\ k + 0 = k
      BY <1>3 DEF PartialSums
    <3> QED
      BY <2>0, <3>1
  <2>2. ASSUME NEW m \in Nat, m \in P PROVE m + 1 \in P
    <3> SUFFICES ASSUME m + 1 <= n - k PROVE p[k + (m + 1)] = p[k] + r[m + 1]
      OBVIOUS
    <3>1. /\ m + 1 \in 1 .. n - k /\ k + (m + 1) \in 1 .. n /\ (m + 1) - 1 = m
          /\ (k + (m + 1)) - 1 = k + m /\ m <= n - k /\ m \in 0 .. n - k
      OBVIOUS
    <3>2. p[k + (m + 1)] = p[k + m] + f[k + (m + 1)]
      BY <1>1, <3>1 DEF PartialSums
    <3>3. r[m + 1] = r[m] + h[m + 1] /\ r[m] \in Int
      BY <1>3, <3>1 DEF PartialSums
    <3>4. h[m + 1] = f[k + (m + 1)] /\ h[m + 1] \in Int
      BY <3>1
    <3>5. p[k + m] = p[k] + r[m]
      BY <2>2, <3>1
    <3> QED
      BY <2>0, <3>2, <3>3, <3>4, <3>5
  <2> HIDE DEF P
  <2>3. n - k \in P
    BY <1>0, <2>1, <2>2, Induction
  <2>4. k + (n - k) = n
    OBVIOUS
  <2> QED
    BY <1>0, <2>3, <2>4 DEF P
<1>6. q[k] \in Int /\ r[n - k] \in Int
  BY <1>0, <1>2, <1>3 DEF PartialSums
<1> QED
  BY <1>1, <1>2, <1>3, <1>4, <1>5, <1>6


-----------------------------------------------------------------------------
\* The samples of a window, one kind of their moments, and which are late.
Observation == [at : Nat, value : Nat]
Column(w, f) == [k \in DOMAIN w |-> Moments(w[k])[f]]
Lates(w) == [k \in DOMAIN w |-> IF Late(w[k]) THEN 1 ELSE 0]
Less(a, b) == [f \in Fields |-> a[f] - b[f]]

LEMMA SumsAre ==
  ASSUME NEW w
  PROVE  Sums(w) = [f \in Fields |-> Total(Column(w, f))] /\ LateIn(w) = Total(Lates(w))
BY DEF Sums, LateIn, Column, Lates

LEMMA WindowTyped ==
  ASSUME NEW w \in Seq(Observation)
  PROVE  Len(w) \in Nat /\ DOMAIN w = 1 .. Len(w) /\ \A k \in 1 .. Len(w) : w[k].at \in Nat /\ w[k].value \in Nat
<1>1. Len(w) \in Nat /\ DOMAIN w = 1 .. Len(w) /\ \A k \in 1 .. Len(w) : w[k] \in Observation
  BY LenProperties, ElementOfSeq
<1> QED
  BY <1>1 DEF Observation

LEMMA MomentsTyped ==
  ASSUME NEW e \in Observation, NEW f \in Fields
  PROVE  Moments(e)[f] \in Nat
<1>1. PICK a \in Nat, b \in Nat : e.at = a /\ e.value = b
  BY DEF Observation
<1>2. a * b \in Nat /\ a * a \in Nat /\ b * b \in Nat
  BY Product
<1> QED
  BY <1>1, <1>2 DEF Moments, Fields

LEMMA SummandsTyped ==
  ASSUME NEW w \in Seq(Observation)
  PROVE  /\ \A f \in Fields : Column(w, f) \in [1 .. Len(w) -> Int]
         /\ Lates(w) \in [1 .. Len(w) -> {0, 1}] /\ Lates(w) \in [1 .. Len(w) -> Int]
<1>1. DOMAIN w = 1 .. Len(w) /\ \A k \in 1 .. Len(w) : w[k] \in Observation
  BY LenProperties, ElementOfSeq
<1>2. ASSUME NEW f \in Fields PROVE Column(w, f) \in [1 .. Len(w) -> Int]
  <2>1. \A k \in 1 .. Len(w) : Moments(w[k])[f] \in Int
    BY <1>1, MomentsTyped
  <2> QED
    BY <1>1, <2>1 DEF Column
<1>3. Lates(w) \in [1 .. Len(w) -> {0, 1}] /\ {0, 1} \subseteq Int
  BY <1>1 DEF Lates
<1>4. Lates(w) \in [1 .. Len(w) -> Int]
  BY <1>3
<1> QED
  BY <1>2, <1>3, <1>4

LEMMA TotalTyped ==
  ASSUME NEW n \in Nat, NEW f \in [1 .. n -> Int]
  PROVE  Total(f) \in Int
<1>1. PICK p : PartialSums(f, n, p) /\ Total(f) = p[n]
  BY TotalIs
<1> QED
  BY <1>1 DEF PartialSums

LEMMA SumsTyped ==
  ASSUME NEW w \in Seq(Observation)
  PROVE  Sums(w) \in [Fields -> Int] /\ LateIn(w) \in Int
<1>1. Len(w) \in Nat
  BY LenProperties
<1>2. \A f \in Fields : Total(Column(w, f)) \in Int
  BY <1>1, SummandsTyped, TotalTyped
<1>3. Total(Lates(w)) \in Int
  BY <1>1, SummandsTyped, TotalTyped
<1> QED
  BY <1>2, <1>3, SumsAre

\* Adding a sample to a window adds it to the sums.
LEMMA SumsAdded ==
  ASSUME NEW w \in Seq(Observation), NEW e \in Observation
  PROVE  /\ Sums(Append(w, e)) = AddPoint(Sums(w), e)
         /\ LateIn(Append(w, e)) = LateIn(w) + (IF Late(e) THEN 1 ELSE 0)
<1> DEFINE v == Append(w, e)
           n == Len(w)
<1>1. /\ v \in Seq(Observation) /\ Len(v) = n + 1 /\ n \in Nat /\ \A i \in 1 .. n : v[i] = w[i]
      /\ v[n + 1] = e
  BY AppendProperties, LenProperties
<1>2. DOMAIN v = 1 .. n + 1 /\ DOMAIN w = 1 .. n
  BY <1>1, LenProperties
<1> HIDE DEF v
<1>3. n + 1 \in 1 .. n + 1 /\ \A i \in 1 .. n : i \in 1 .. n + 1
  BY <1>1
<1>4. ASSUME NEW f \in Fields PROVE Total(Column(v, f)) = Total(Column(w, f)) + Moments(e)[f]
  <2>1. Column(w, f) \in [1 .. n -> Int] /\ Column(v, f) \in [1 .. n + 1 -> Int]
    BY <1>1, SummandsTyped
  <2>2. \A i \in 1 .. n : Column(v, f)[i] = Column(w, f)[i]
    BY <1>1, <1>2, <1>3 DEF Column
  <2>3. Column(v, f)[n + 1] = Moments(e)[f]
    BY <1>1, <1>2, <1>3 DEF Column
  <2> QED
    BY <1>1, <2>1, <2>2, <2>3, TotalAdded
<1>5. Total(Lates(v)) = Total(Lates(w)) + (IF Late(e) THEN 1 ELSE 0)
  <2>1. Lates(w) \in [1 .. n -> Int] /\ Lates(v) \in [1 .. n + 1 -> Int]
    BY <1>1, SummandsTyped
  <2>2. \A i \in 1 .. n : Lates(v)[i] = Lates(w)[i]
    BY <1>1, <1>2, <1>3 DEF Lates
  <2>3. Lates(v)[n + 1] = IF Late(e) THEN 1 ELSE 0
    BY <1>1, <1>2, <1>3 DEF Lates
  <2> QED
    BY <1>1, <2>1, <2>2, <2>3, TotalAdded
<1>6. Sums(v) = AddPoint(Sums(w), e)
  BY <1>4, SumsAre DEF AddPoint
<1> QED
  BY <1>5, <1>6, SumsAre DEF v


\* The samples that are dropped and those that stay.
LEMMA Parts ==
  ASSUME NEW w \in Seq(Observation), NEW k \in 0 .. Len(w)
  PROVE  /\ SubSeq(w, 1, k) \in Seq(Observation) /\ Len(SubSeq(w, 1, k)) = k
         /\ \A i \in 1 .. k : SubSeq(w, 1, k)[i] = w[i]
         /\ Rest(w, k) \in Seq(Observation) /\ Len(Rest(w, k)) = Len(w) - k
         /\ \A i \in 1 .. Len(w) - k : Rest(w, k)[i] = w[k + i]
<1>0. Len(w) \in Nat /\ k \in Nat /\ k <= Len(w)
  BY LenProperties
<1>1. \A i \in 1 .. Len(w) : w[i] \in Observation
  BY ElementOfSeq
<1>2. /\ SubSeq(w, 1, k) \in Seq(Observation) /\ Len(SubSeq(w, 1, k)) = k
      /\ \A i \in 1 .. k : SubSeq(w, 1, k)[i] = w[i]
  <2>1. \A i \in 1 .. k : w[i] \in Observation
    BY <1>0, <1>1
  <2>2. /\ SubSeq(w, 1, k) \in Seq(Observation)
        /\ Len(SubSeq(w, 1, k)) = IF 1 <= k THEN k - 1 + 1 ELSE 0
        /\ \A i \in 1 .. k - 1 + 1 : SubSeq(w, 1, k)[i] = w[1 + i - 1]
    BY <1>0, <2>1, SubSeqProperties
  <2> QED
    BY <1>0, <2>2
<1>3. /\ Rest(w, k) \in Seq(Observation) /\ Len(Rest(w, k)) = Len(w) - k
      /\ \A i \in 1 .. Len(w) - k : Rest(w, k)[i] = w[k + i]
  <2>1. \A i \in k + 1 .. Len(w) : w[i] \in Observation
    BY <1>0, <1>1
  <2>2. /\ Rest(w, k) \in Seq(Observation)
        /\ Len(Rest(w, k)) = IF k + 1 <= Len(w) THEN Len(w) - (k + 1) + 1 ELSE 0
        /\ \A i \in 1 .. Len(w) - (k + 1) + 1 : Rest(w, k)[i] = w[(k + 1) + i - 1]
    BY <1>0, <2>1, SubSeqProperties DEF Rest
  <2> QED
    BY <1>0, <2>2
<1> QED
  BY <1>2, <1>3

\* The sums of a window are those of what is dropped and of what stays.
LEMMA SumsSplit ==
  ASSUME NEW w \in Seq(Observation), NEW k \in 0 .. Len(w)
  PROVE  /\ Less(Sums(w), Sums(SubSeq(w, 1, k))) = Sums(Rest(w, k))
         /\ LateIn(w) - LateIn(SubSeq(w, 1, k)) = LateIn(Rest(w, k))
<1> DEFINE u == SubSeq(w, 1, k)
           v == Rest(w, k)
           n == Len(w)
<1>0. n \in Nat /\ k \in 0 .. n /\ k \in Nat
  BY LenProperties
<1>1. /\ u \in Seq(Observation) /\ Len(u) = k /\ v \in Seq(Observation) /\ Len(v) = n - k
  BY Parts
<1>2. /\ DOMAIN w = 1 .. n /\ DOMAIN u = 1 .. k /\ DOMAIN v = 1 .. n - k
  BY <1>1, LenProperties
<1>3. \A i \in 1 .. k : u[i] = w[i] /\ i \in 1 .. n
  BY <1>0, Parts
<1>4. \A i \in 1 .. n - k : v[i] = w[k + i] /\ k + i \in 1 .. n
  <2>1. \A i \in 1 .. n - k : v[i] = w[k + i]
    BY Parts
  <2>2. \A i \in 1 .. n - k : k + i \in 1 .. n
    BY <1>0
  <2> QED
    BY <2>1, <2>2
<1> HIDE DEF u, v
<1>5. ASSUME NEW f \in Fields PROVE Total(Column(w, f)) - Total(Column(u, f)) = Total(Column(v, f))
  <2>1. /\ Column(w, f) \in [1 .. n -> Int] /\ Column(u, f) \in [1 .. k -> Int]
        /\ Column(v, f) \in [1 .. n - k -> Int]
    BY <1>1, SummandsTyped
  <2>2. \A i \in 1 .. k : Column(u, f)[i] = Column(w, f)[i]
    BY <1>2, <1>3 DEF Column
  <2>3. \A i \in 1 .. n - k : Column(v, f)[i] = Column(w, f)[k + i]
    BY <1>2, <1>4 DEF Column
  <2>4. Splits(Column(w, f), n, k, Column(u, f), Column(v, f))
    BY <1>0, <2>1, <2>2, <2>3 DEF Splits
  <2> QED
    BY <2>4, TotalSplit
<1>6. Total(Lates(w)) - Total(Lates(u)) = Total(Lates(v))
  <2>1. Lates(w) \in [1 .. n -> Int] /\ Lates(u) \in [1 .. k -> Int] /\ Lates(v) \in [1 .. n - k -> Int]
    BY <1>1, SummandsTyped
  <2>2. \A i \in 1 .. k : Lates(u)[i] = Lates(w)[i]
    BY <1>2, <1>3 DEF Lates
  <2>3. \A i \in 1 .. n - k : Lates(v)[i] = Lates(w)[k + i]
    BY <1>2, <1>4 DEF Lates
  <2>4. Splits(Lates(w), n, k, Lates(u), Lates(v))
    BY <1>0, <2>1, <2>2, <2>3 DEF Splits
  <2> QED
    BY <2>4, TotalSplit
<1>7. Less(Sums(w), Sums(u)) = Sums(v)
  BY <1>5, SumsAre DEF Less
<1> QED
  BY <1>6, <1>7, SumsAre DEF u, v

\* Removing a sample from a difference adds it to what is taken away.
LEMMA RemovedFromLess ==
  ASSUME NEW a \in [Fields -> Int], NEW b \in [Fields -> Int], NEW e \in Observation
  PROVE  RemovePoint(Less(a, b), e) = Less(a, AddPoint(b, e))
<1>1. \A f \in Fields : a[f] - b[f] - Moments(e)[f] = a[f] - (b[f] + Moments(e)[f])
  BY MomentsTyped
<1> QED
  BY <1>1 DEF RemovePoint, Less, AddPoint

\* What removing the oldest samples leaves.
LEMMA WithoutIs ==
  ASSUME NEW s \in [Fields -> Int], NEW w \in Seq(Observation), NEW k \in 0 .. Len(w)
  PROVE  Without(s, w, k) = Less(s, Sums(SubSeq(w, 1, k)))
<1> DEFINE Left(i) == Less(s, Sums(SubSeq(w, 1, i)))
           f == [i \in 0 .. k |-> Left(i)]
           g == CHOOSE q : q = [i \in 0 .. k |-> IF i = 0 THEN s ELSE RemovePoint(q[i - 1], w[i])]
<1>0. Len(w) \in Nat /\ k \in Nat /\ k <= Len(w)
  BY LenProperties
<1>1. Left(0) = s
  <2>1. SubSeq(w, 1, 0) \in Seq(Observation) /\ Len(SubSeq(w, 1, 0)) = 0
    BY <1>0, Parts
  <2>2. \A h \in [1 .. 0 -> Int] : Total(h) = 0
    <3> TAKE h \in [1 .. 0 -> Int]
    <3>1. PICK p : PartialSums(h, 0, p) /\ Total(h) = p[0]
      BY TotalIs
    <3> QED
      BY <3>1 DEF PartialSums
  <2>3. \A x \in Fields : Total(Column(SubSeq(w, 1, 0), x)) = 0
    BY <2>1, <2>2, SummandsTyped
  <2>4. \A x \in Fields : s[x] - Sums(SubSeq(w, 1, 0))[x] = s[x]
    BY <2>3, SumsAre
  <2>5. s = [x \in Fields |-> s[x]]
    OBVIOUS
  <2> QED
    BY <2>4, <2>5 DEF Less
<1>2. ASSUME NEW i \in 1 .. k PROVE Left(i) = RemovePoint(Left(i - 1), w[i])
  <2>0. i - 1 \in 0 .. Len(w) /\ i \in 1 .. Len(w) /\ 1 \in 1 .. Len(w)
    BY <1>0
  <2>1. SubSeq(w, 1, i - 1) \in Seq(Observation) /\ w[i] \in Observation
    BY <2>0, Parts, ElementOfSeq
  <2>2. SubSeq(w, 1, i) = Append(SubSeq(w, 1, i - 1), w[i])
    <3>1. SubSeq(w, 1, i) = SubSeq(w, 1, i - 1) \o <<w[i]>>
      BY <2>0, SubSeqRecursiveSecond
    <3> QED
      BY <2>1, <3>1, AppendIsConcat
  <2>3. Sums(SubSeq(w, 1, i)) = AddPoint(Sums(SubSeq(w, 1, i - 1)), w[i])
    BY <2>1, <2>2, SumsAdded
  <2>4. Sums(SubSeq(w, 1, i - 1)) \in [Fields -> Int]
    BY <2>1, SumsTyped
  <2> QED
    BY <2>1, <2>3, <2>4, RemovedFromLess
<1> HIDE DEF Left
<1>3. f = [i \in 0 .. k |-> IF i = 0 THEN s ELSE RemovePoint(f[i - 1], w[i])]
  <2>1. ASSUME NEW i \in 0 .. k PROVE f[i] = IF i = 0 THEN s ELSE RemovePoint(f[i - 1], w[i])
    <3>1. CASE i = 0
      BY <1>1, <3>1
    <3>2. CASE i # 0
      <4>1. i \in 1 .. k /\ i - 1 \in 0 .. k
        BY <3>2
      <4> QED
        BY <1>2, <3>2, <4>1
    <3> QED
      BY <3>1, <3>2
  <2> QED
    BY <2>1
<1>4. g = [i \in 0 .. k |-> IF i = 0 THEN s ELSE RemovePoint(g[i - 1], w[i])]
  BY <1>3
<1>5. Without(s, w, k) = g[k]
  BY DEF Without
<1> HIDE DEF f, g
<1>6. g[0] = s /\ \A i \in 1 .. k : g[i] = RemovePoint(g[i - 1], w[i])
  BY <1>0, <1>4
<1> DEFINE P == {m \in Nat : m <= k => g[m] = Left(m)}
<1>7. 0 \in P
  BY <1>1, <1>6
<1>8. ASSUME NEW m \in Nat, m \in P PROVE m + 1 \in P
  <2> SUFFICES ASSUME m + 1 <= k PROVE g[m + 1] = Left(m + 1)
    OBVIOUS
  <2>1. m + 1 \in 1 .. k /\ (m + 1) - 1 = m /\ m <= k
    BY <1>0
  <2>2. g[m] = Left(m)
    BY <1>8, <2>1
  <2>3. g[m + 1] = RemovePoint(g[m], w[m + 1])
    BY <1>6, <2>1
  <2>4. Left(m + 1) = RemovePoint(Left(m), w[m + 1])
    BY <1>2, <2>1
  <2> QED
    BY <2>2, <2>3, <2>4
<1> HIDE DEF P
<1>9. k \in P
  BY <1>0, <1>7, <1>8, Induction
<1> QED
  BY <1>0, <1>5, <1>9 DEF P, Left


-----------------------------------------------------------------------------
\* What check_slope compares is the rise over all pairs.

LEMMA CountIs ==
  ASSUME NEW w \in Seq(Observation)
  PROVE  Sums(w).n = Len(w)
<1> DEFINE n == Len(w)
<1>0. n \in Nat /\ DOMAIN w = 1 .. n
  BY LenProperties
<1>1. Column(w, "n") \in [1 .. n -> Int]
  BY SummandsTyped DEF Fields
<1>2. \A k \in 1 .. n : Column(w, "n")[k] = 1
  BY <1>0 DEF Column, Moments
<1>3. PICK p : PartialSums(Column(w, "n"), n, p) /\ Total(Column(w, "n")) = p[n]
  BY <1>0, <1>1, TotalIs
<1> DEFINE P == {m \in Nat : m <= n => p[m] = m}
<1>4. 0 \in P
  BY <1>3 DEF PartialSums
<1>5. ASSUME NEW m \in Nat, m \in P PROVE m + 1 \in P
  <2> SUFFICES ASSUME m + 1 <= n PROVE p[m + 1] = m + 1
    OBVIOUS
  <2>1. m + 1 \in 1 .. n /\ (m + 1) - 1 = m /\ m <= n
    BY <1>0
  <2>2. p[m + 1] = p[m] + 1
    BY <1>2, <1>3, <2>1 DEF PartialSums
  <2>3. p[m] = m
    BY <1>5, <2>1
  <2> QED
    BY <2>2, <2>3
<1> HIDE DEF P
<1>6. n \in P
  BY <1>0, <1>4, <1>5, Induction
<1>7. p[n] = n
  BY <1>0, <1>6 DEF P
<1>8. Sums(w)["n"] = Total(Column(w, "n"))
  BY SumsAre DEF Fields
<1> QED
  BY <1>3, <1>7, <1>8

\* The rise from all earlier samples to one, by the sums of those.
LEMMA RiseToIs ==
  ASSUME NEW w \in Seq(Observation), NEW m \in Nat, m + 1 <= Len(w),
         NEW px, PartialSums(Column(w, "x"), Len(w), px),
         NEW py, PartialSums(Column(w, "y"), Len(w), py),
         NEW pxy, PartialSums(Column(w, "xy"), Len(w), pxy)
  PROVE  \E x \in Int, y \in Int :
           /\ x = w[m + 1].at /\ y = w[m + 1].value
           /\ RiseTo(w, m + 1) = m * (x * y) - x * py[m] - y * px[m] + pxy[m]
<1>x. PICK x \in Int : x = w[m + 1].at
  BY WindowTyped
<1>y. PICK y \in Int : y = w[m + 1].value
  BY WindowTyped
<1> DEFINE F == [j \in 1 .. m |-> (x - w[j].at) * (y - w[j].value)]
<1>0. Len(w) \in Nat /\ DOMAIN w = 1 .. Len(w) /\ \A k \in 1 .. Len(w) : w[k].at \in Nat /\ w[k].value \in Nat
  BY WindowTyped
<1>1. RiseTo(w, m + 1) = Total(F)
  <2>1. (m + 1) - 1 = m
    OBVIOUS
  <2> QED
    BY <2>1, <1>x, <1>y, Zenon DEF RiseTo
<1>2. F \in [1 .. m -> Int]
  <2>1. ASSUME NEW j \in 1 .. m PROVE (x - w[j].at) * (y - w[j].value) \in Int
    <3>1. j \in 1 .. Len(w)
      BY <1>0
    <3>2. PICK a \in Int : a = x - w[j].at
      BY <1>0, <3>1
    <3>3. PICK b \in Int : b = y - w[j].value
      BY <1>0, <3>1
    <3>4. a * b \in Int
      OBVIOUS
    <3> QED
      BY <3>2, <3>3, <3>4
  <2> QED
    BY <2>1
<1>3. PICK p : PartialSums(F, m, p) /\ Total(F) = p[m]
  BY <1>2, TotalIs
<1> DEFINE P == {j \in Nat : j <= m => p[j] = j * (x * y) - x * py[j] - y * px[j] + pxy[j]}
<1>4. 0 \in P
  <2>1. p[0] = 0 /\ px[0] = 0 /\ py[0] = 0 /\ pxy[0] = 0
    BY <1>3 DEF PartialSums
  <2>2. PICK z \in Int : z = x * y
    OBVIOUS
  <2>3. 0 = 0 * z - x * 0 - y * 0 + 0
    BY <2>2
  <2> QED
    BY <2>1, <2>2, <2>3
<1>5. ASSUME NEW j \in Nat, j \in P PROVE j + 1 \in P
  <2> SUFFICES ASSUME j + 1 <= m
               PROVE  p[j + 1] = (j + 1) * (x * y) - x * py[j + 1] - y * px[j + 1] + pxy[j + 1]
    OBVIOUS
  <2>1. j + 1 \in 1 .. m /\ j + 1 \in 1 .. Len(w) /\ (j + 1) - 1 = j /\ j \in 0 .. Len(w)
    BY <1>0
  <2>2. PICK a \in Int : a = w[j + 1].at
    BY <1>0, <2>1
  <2>3. PICK b \in Int : b = w[j + 1].value
    BY <1>0, <2>1
  <2>4. /\ Column(w, "x")[j + 1] = a /\ Column(w, "y")[j + 1] = b /\ Column(w, "xy")[j + 1] = a * b
    BY <1>0, <2>1, <2>2, <2>3 DEF Column, Moments
  <2>5. px[j + 1] = px[j] + a /\ py[j + 1] = py[j] + b /\ pxy[j + 1] = pxy[j] + a * b
    BY <2>1, <2>4 DEF PartialSums
  <2>6. PICK A \in Int, B \in Int, C \in Int : A = px[j] /\ B = py[j] /\ C = pxy[j]
    BY <2>1 DEF PartialSums
  <2>7. p[j + 1] = p[j] + F[j + 1]
    BY <1>3, <2>1 DEF PartialSums
  <2>8. F[j + 1] = (x - a) * (y - b)
    BY <2>1, <2>2, <2>3
  <2>9. p[j] = j * (x * y) - x * B - y * A + C
    BY <1>5, <2>1, <2>6
  <2>10. p[j + 1] = (j + 1) * (x * y) - x * (B + b) - y * (A + a) + (C + a * b)
    <3>1. j \in Int
      OBVIOUS
    <3>2. (j * (x * y) - x * B - y * A + C) + (x - a) * (y - b)
            = (j + 1) * (x * y) - x * (B + b) - y * (A + a) + (C + a * b)
      BY <3>1
    <3>3. p[j + 1] = (j * (x * y) - x * B - y * A + C) + (x - a) * (y - b)
      BY <2>7, <2>8, <2>9, Zenon
    <3> QED
      BY <3>2, <3>3, Zenon
  <2> QED
    BY <2>5, <2>6, <2>10, Zenon
<1> HIDE DEF P
<1>6. m \in P
  BY <1>4, <1>5, Induction
<1>7. RiseTo(w, m + 1) = m * (x * y) - x * py[m] - y * px[m] + pxy[m]
  BY <1>1, <1>3, <1>6 DEF P
<1> QED
  BY <1>7, <1>x, <1>y, Zenon

Rises(w) == [k \in DOMAIN w |-> RiseTo(w, k)]

LEMMA SlopeIsRise ==
  ASSUME NEW w \in Seq(Observation)
  PROVE  Sums(w).n * Sums(w).xy - Sums(w).x * Sums(w).y = Total(Rises(w))
<1> DEFINE n == Len(w)
<1>0. n \in Nat /\ DOMAIN w = 1 .. n /\ \A k \in 1 .. n : w[k].at \in Nat /\ w[k].value \in Nat
  BY WindowTyped
<1>1. /\ Column(w, "x") \in [1 .. n -> Int] /\ Column(w, "y") \in [1 .. n -> Int]
      /\ Column(w, "xy") \in [1 .. n -> Int]
  BY SummandsTyped DEF Fields
<1>x. PICK px : PartialSums(Column(w, "x"), n, px) /\ Total(Column(w, "x")) = px[n]
  BY <1>0, <1>1, TotalIs
<1>y. PICK py : PartialSums(Column(w, "y"), n, py) /\ Total(Column(w, "y")) = py[n]
  BY <1>0, <1>1, TotalIs
<1>z. PICK pxy : PartialSums(Column(w, "xy"), n, pxy) /\ Total(Column(w, "xy")) = pxy[n]
  BY <1>0, <1>1, TotalIs
<1>2. ASSUME NEW m \in Nat, m + 1 <= n
      PROVE  \E x \in Int, y \in Int, A \in Int, B \in Int, C \in Int :
               /\ A = px[m] /\ B = py[m] /\ C = pxy[m]
               /\ RiseTo(w, m + 1) = m * (x * y) - x * B - y * A + C
               /\ px[m + 1] = A + x /\ py[m + 1] = B + y /\ pxy[m + 1] = C + x * y
  <2>1. m + 1 \in 1 .. n /\ (m + 1) - 1 = m /\ m \in 0 .. n
    BY <1>0, <1>2
  <2>2. PICK x \in Int, y \in Int :
          /\ x = w[m + 1].at /\ y = w[m + 1].value
          /\ RiseTo(w, m + 1) = m * (x * y) - x * py[m] - y * px[m] + pxy[m]
    BY <1>2, <1>x, <1>y, <1>z, RiseToIs
  <2>5. /\ Column(w, "x")[m + 1] = x /\ Column(w, "y")[m + 1] = y /\ Column(w, "xy")[m + 1] = x * y
    BY <1>0, <2>1, <2>2 DEF Column, Moments
  <2>6. px[m + 1] = px[m] + x /\ py[m + 1] = py[m] + y /\ pxy[m + 1] = pxy[m] + x * y
    BY <1>x, <1>y, <1>z, <2>1, <2>5 DEF PartialSums
  <2>7. px[m] \in Int /\ py[m] \in Int /\ pxy[m] \in Int
    BY <1>x, <1>y, <1>z, <2>1 DEF PartialSums
  <2> USE <2>7
  <2> WITNESS x \in Int, y \in Int, px[m] \in Int, py[m] \in Int, pxy[m] \in Int
  <2> QED
    BY <2>2, <2>6, Zenon
<1>3. Rises(w) \in [1 .. n -> Int]
  <2>1. ASSUME NEW k \in 1 .. n PROVE RiseTo(w, k) \in Int
    <3>1. k - 1 \in Nat /\ (k - 1) + 1 = k /\ k <= n
      BY <1>0
    <3>2. PICK x \in Int, y \in Int, A \in Int, B \in Int, C \in Int :
            /\ A = px[k - 1] /\ B = py[k - 1] /\ C = pxy[k - 1]
            /\ RiseTo(w, (k - 1) + 1) = (k - 1) * (x * y) - x * B - y * A + C
            /\ px[(k - 1) + 1] = A + x /\ py[(k - 1) + 1] = B + y /\ pxy[(k - 1) + 1] = C + x * y
      <4>1. (k - 1) + 1 <= n
        BY <1>0
      <4> QED
        BY <1>2, <3>1, <4>1, Zenon
    <3>3. PICK m \in Int : m = k - 1
      BY <3>1
    <3>4. m * (x * y) - x * B - y * A + C \in Int
      OBVIOUS
    <3> QED
      BY <3>1, <3>2, <3>3, <3>4
  <2> QED
    BY <1>0, <2>1 DEF Rises
<1>4. PICK p : PartialSums(Rises(w), n, p) /\ Total(Rises(w)) = p[n]
  BY <1>0, <1>3, TotalIs
<1> DEFINE P == {m \in Nat : m <= n => m * pxy[m] - px[m] * py[m] = p[m]}
<1>5. 0 \in P
  <2>1. p[0] = 0 /\ px[0] = 0 /\ py[0] = 0 /\ pxy[0] = 0
    BY <1>4, <1>x, <1>y, <1>z DEF PartialSums
  <2> QED
    BY <2>1
<1>6. ASSUME NEW m \in Nat, m \in P PROVE m + 1 \in P
  <2> SUFFICES ASSUME m + 1 <= n PROVE (m + 1) * pxy[m + 1] - px[m + 1] * py[m + 1] = p[m + 1]
    OBVIOUS
  <2>1. m + 1 \in 1 .. n /\ (m + 1) - 1 = m /\ m <= n
    BY <1>0
  <2>2. PICK x \in Int, y \in Int, A \in Int, B \in Int, C \in Int :
          /\ A = px[m] /\ B = py[m] /\ C = pxy[m]
          /\ RiseTo(w, m + 1) = m * (x * y) - x * B - y * A + C
          /\ px[m + 1] = A + x /\ py[m + 1] = B + y /\ pxy[m + 1] = C + x * y
    BY <1>2
  <2>6. p[m + 1] = p[m] + RiseTo(w, m + 1)
    BY <1>0, <1>4, <2>1 DEF PartialSums, Rises
  <2>7. p[m] = m * C - A * B
    BY <1>6, <2>1, <2>2
  <2>8. p[m + 1] = (m * C - A * B) + (m * (x * y) - x * B - y * A + C)
    BY <2>2, <2>6, <2>7, Zenon
  <2>9. p[m + 1] = (m + 1) * (C + x * y) - (A + x) * (B + y)
    <3>1. m \in Int
      OBVIOUS
    <3>2. (m * C - A * B) + (m * (x * y) - x * B - y * A + C) = (m + 1) * (C + x * y) - (A + x) * (B + y)
      BY <3>1
    <3> QED
      BY <2>8, <3>2, Zenon
  <2> QED
    BY <2>2, <2>9, Zenon
<1> HIDE DEF P
<1>7. n \in P
  BY <1>0, <1>5, <1>6, Induction
<1>8. n * pxy[n] - px[n] * py[n] = p[n]
  BY <1>0, <1>7 DEF P
<1>9. Sums(w).x = px[n] /\ Sums(w).y = py[n] /\ Sums(w).xy = pxy[n]
  BY <1>x, <1>y, <1>z, SumsAre DEF Fields
<1> QED
  BY <1>4, <1>8, <1>9, CountIs, Zenon

\* How many are late.
LEMMA LateInTyped ==
  ASSUME NEW w \in Seq(Observation)
  PROVE  LateIn(w) \in 0 .. Len(w)
<1> DEFINE n == Len(w)
<1>0. n \in Nat
  BY LenProperties
<1>1. Lates(w) \in [1 .. n -> {0, 1}] /\ Lates(w) \in [1 .. n -> Int]
  BY SummandsTyped
<1>2. PICK p : PartialSums(Lates(w), n, p) /\ Total(Lates(w)) = p[n]
  BY <1>0, <1>1, TotalIs
<1> DEFINE P == {m \in Nat : m <= n => p[m] \in 0 .. m}
<1>3. 0 \in P
  BY <1>2 DEF PartialSums
<1>4. ASSUME NEW m \in Nat, m \in P PROVE m + 1 \in P
  <2> SUFFICES ASSUME m + 1 <= n PROVE p[m + 1] \in 0 .. m + 1
    OBVIOUS
  <2>1. m + 1 \in 1 .. n /\ (m + 1) - 1 = m /\ m <= n
    BY <1>0
  <2>2. p[m + 1] = p[m] + Lates(w)[m + 1]
    BY <1>2, <2>1 DEF PartialSums
  <2>3. p[m] \in 0 .. m
    BY <1>4, <2>1
  <2>4. Lates(w)[m + 1] \in {0, 1}
    BY <1>1, <2>1
  <2> QED
    BY <2>2, <2>3, <2>4
<1> HIDE DEF P
<1>5. n \in P
  BY <1>0, <1>3, <1>4, Induction
<1>6. p[n] \in 0 .. n
  BY <1>0, <1>5 DEF P
<1> QED
  BY <1>2, <1>6, SumsAre


-----------------------------------------------------------------------------
\* One window, when a sample may be added and old ones are dropped.

SaturationSpec == SaturationInit /\ [][SaturationNext]_saturationVars

Ordered(w) == \A j, k \in DOMAIN w : j < k => w[j].at <= w[k].at
Until(w, d) == \A k \in DOMAIN w : w[k].at <= d
\* What an update brings for a window.
Brings(new, d) == new = <<>> \/ \E e \in Observation : new = <<e>> /\ e.at = d

LEMMA ParametersTyped ==
  /\ MinimumDuration \in Nat /\ MinimumTTFT \in Nat /\ MaximumWindow \in Nat /\ MinimumSize \in Nat
  /\ RatioPercent \in Nat /\ MaxDuration \in Nat /\ MaxSamples \in Nat
BY SaturationAssumption

LEMMA EmptyWindow == <<>> \in Seq(Observation) /\ Len(<<>>) = 0 /\ LateIn(<<>>) = 0 /\ Sums(<<>>) = Zero
<1>1. <<>> \in Seq(Observation) /\ Len(<<>>) = 0
  OBVIOUS
<1>2. \A h \in [1 .. 0 -> Int] : Total(h) = 0
  <2> TAKE h \in [1 .. 0 -> Int]
  <2>1. PICK p : PartialSums(h, 0, p) /\ Total(h) = p[0]
    BY TotalIs
  <2> QED
    BY <2>1 DEF PartialSums
<1>3. Lates(<<>>) \in [1 .. 0 -> Int] /\ \A f \in Fields : Column(<<>>, f) \in [1 .. 0 -> Int]
  BY <1>1, SummandsTyped
<1>4. Total(Lates(<<>>)) = 0 /\ \A f \in Fields : Total(Column(<<>>, f)) = 0
  BY <1>2, <1>3
<1>5. Sums(<<>>) = [f \in Fields |-> 0]
  BY <1>4, SumsAre
<1> QED
  BY <1>1, <1>4, <1>5, SumsAre DEF Zero

\* After the sample of an update has been added.
LEMMA WindowJoined ==
  ASSUME NEW w \in Seq(Observation), NEW c \in Nat, NEW d \in Nat, c <= d, Ordered(w), Until(w, c),
         NEW new, Brings(new, d)
  PROVE  /\ w \o new \in Seq(Observation) /\ Len(w \o new) = Len(w) + Len(new) /\ Len(new) \in {0, 1}
         /\ With(Sums(w), new) = Sums(w \o new)
         /\ LateIn(w \o new) = LateIn(w) + LateIn(new)
         /\ Ordered(w \o new) /\ Until(w \o new, d)
<1>0. /\ Len(w) \in Nat /\ DOMAIN w = 1 .. Len(w)
      /\ \A k \in 1 .. Len(w) : w[k].at \in Nat /\ w[k].at <= c
  BY WindowTyped DEF Until
<1>1. CASE new = <<>>
  <2>1. w \o new = w /\ Len(new) = 0
    BY <1>1
  <2>2. LateIn(w) \in Int /\ LateIn(new) = 0
    BY <1>1, EmptyWindow, SumsTyped
  <2>3. Until(w, d)
    BY <1>0 DEF Until
  <2>4. With(Sums(w), new) = Sums(w)
    BY <1>1 DEF With
  <2> QED
    BY <1>0, <2>1, <2>2, <2>3, <2>4
<1>2. ASSUME NEW e \in Observation, new = <<e>>, e.at = d
      PROVE  /\ w \o new \in Seq(Observation) /\ Len(w \o new) = Len(w) + Len(new) /\ Len(new) \in {0, 1}
             /\ With(Sums(w), new) = Sums(w \o new)
             /\ LateIn(w \o new) = LateIn(w) + LateIn(new)
             /\ Ordered(w \o new) /\ Until(w \o new, d)
  <2> DEFINE v == Append(w, e)
  <2>1. w \o new = v /\ Len(new) = 1 /\ new[1] = e /\ new # <<>>
    BY <1>2, AppendIsConcat
  <2>2. v \in Seq(Observation) /\ Len(v) = Len(w) + 1 /\ (\A i \in 1 .. Len(w) : v[i] = w[i]) /\ v[Len(w) + 1] = e
    BY AppendProperties
  <2>3. DOMAIN v = 1 .. Len(w) + 1
    BY <2>2, LenProperties
  <2>4. Sums(v) = AddPoint(Sums(w), e) /\ LateIn(v) = LateIn(w) + (IF Late(e) THEN 1 ELSE 0)
    BY SumsAdded
  <2>5. LateIn(new) = IF Late(e) THEN 1 ELSE 0
    <3>1. LateIn(Append(<<>>, e)) = LateIn(<<>>) + (IF Late(e) THEN 1 ELSE 0)
      BY EmptyWindow, SumsAdded
    <3>2. Append(<<>>, e) = new
      BY <1>2
    <3> QED
      BY <3>1, <3>2, EmptyWindow
  <2>6. With(Sums(w), new) = Sums(v)
    BY <2>1, <2>4 DEF With
  <2> HIDE DEF v
  <2>7. \A k \in 1 .. Len(w) + 1 : v[k].at <= d /\ (k <= Len(w) => v[k] = w[k] /\ w[k].at <= d)
                                  /\ (k = Len(w) + 1 => v[k].at = d)
    BY <1>0, <1>2, <2>2
  <2>8. Until(v, d)
    BY <2>3, <2>7 DEF Until
  <2>9. Ordered(v)
    <3> SUFFICES ASSUME NEW j \in 1 .. Len(w) + 1, NEW k \in 1 .. Len(w) + 1, j < k PROVE v[j].at <= v[k].at
      BY <2>3 DEF Ordered
    <3>1. CASE k = Len(w) + 1
      BY <2>7, <3>1
    <3>2. CASE k # Len(w) + 1
      <4>1. j \in 1 .. Len(w) /\ k \in 1 .. Len(w)
        BY <1>0, <3>2
      <4>2. w[j].at <= w[k].at
        BY <1>0, <4>1 DEF Ordered
      <4> QED
        BY <2>2, <4>1, <4>2
    <3> QED
      BY <3>1, <3>2
  <2> QED
    BY <2>1, <2>2, <2>4, <2>5, <2>6, <2>8, <2>9
<1> QED
  BY <1>1, <1>2 DEF Brings

\* Dropping leaves recent samples only, and at most the share of all.
LEMMA DroppedIs ==
  ASSUME NEW w \in Seq(Observation), Ordered(w), NEW ever \in Nat, NEW d \in Nat
  PROVE  /\ Dropped(w, ever, d) \in 0 .. Len(w)
         /\ \A k \in Dropped(w, ever, d) + 1 .. Len(w) : d - w[k].at <= MaximumWindow
         /\ 100 * (Len(w) - Dropped(w, ever, d)) <= ever * RatioPercent
<1> DEFINE n == Len(w)
           q == (ever * RatioPercent) \div 100
           excess == n - q
           old == {k \in DOMAIN w : \A j \in 1 .. k : d - w[j].at > MaximumWindow}
           D == IF excess > Cardinality(old) THEN excess ELSE Cardinality(old)
<1>0. n \in Nat /\ DOMAIN w = 1 .. n /\ \A k \in 1 .. n : w[k].at \in Nat
  BY WindowTyped
<1>1. Dropped(w, ever, d) = D
  BY DEF Dropped
<1>2. q \in Nat /\ 100 * q <= ever * RatioPercent /\ ever * RatioPercent \in Nat
  <2>1. ever * RatioPercent \in Nat
    BY ParametersTyped, Product
  <2> QED
    BY <2>1, Quotient
<1>3. IsFiniteSet(old) /\ Cardinality(old) \in 0 .. n
  <2>1. IsFiniteSet(1 .. n) /\ Cardinality(1 .. n) = n
    BY <1>0, FS_Interval
  <2>2. old \subseteq 1 .. n
    BY <1>0
  <2>3. IsFiniteSet(old) /\ Cardinality(old) <= n
    BY <2>1, <2>2, FS_Subset
  <2> QED
    BY <1>0, <2>3, FS_CardinalityType
<1> HIDE DEF q
<1>4. ASSUME NEW k \in D + 1 .. n PROVE d - w[k].at <= MaximumWindow
  <2> SUFFICES ASSUME d - w[k].at > MaximumWindow PROVE FALSE
    BY <1>0, <1>2, <1>3, ParametersTyped
  <2>0. k \in 1 .. n /\ Cardinality(old) < k
    BY <1>0, <1>2, <1>3
  <2>1. \A j \in 1 .. k : d - w[j].at > MaximumWindow
    <3> TAKE j \in 1 .. k
    <3>1. j \in 1 .. n /\ (j = k \/ j < k)
      BY <1>0, <2>0
    <3>2. w[j].at <= w[k].at
      BY <1>0, <2>0, <3>1 DEF Ordered
    <3> QED
      BY <1>0, <2>0, <3>1, <3>2, ParametersTyped
  <2>2. 1 .. k \subseteq old
    <3> SUFFICES ASSUME NEW i \in 1 .. k PROVE i \in old
      OBVIOUS
    <3>1. i \in 1 .. n /\ \A j \in 1 .. i : j \in 1 .. k
      BY <1>0, <2>0
    <3> QED
      BY <1>0, <2>1, <3>1
  <2>3. Cardinality(1 .. k) = k
    BY <2>0, FS_Interval
  <2>4. Cardinality(1 .. k) <= Cardinality(old)
    BY <1>3, <2>2, FS_Subset
  <2> QED
    BY <1>3, <2>0, <2>3, <2>4
<1>5. D \in 0 .. n /\ n - D <= q
  BY <1>0, <1>2, <1>3
<1>6. 100 * (n - D) <= ever * RatioPercent
  BY <1>0, <1>2, <1>5
<1> QED
  BY <1>1, <1>4, <1>5, <1>6

\* What an update leaves of a window, its sums and its late first tokens.
Leaves(w, new, d, ever, r) ==
  /\ r \in Seq(Observation) /\ Ordered(r) /\ Until(r, d)
  /\ \A k \in DOMAIN r : d - r[k].at <= MaximumWindow
  /\ 100 * Len(r) <= ever * RatioPercent /\ Len(r) <= Len(w) + Len(new)
  /\ Without(With(Sums(w), new), w \o new, Dropped(w \o new, ever, d)) = Sums(r)
  /\ LateIn(w) + LateIn(new) - LateDropped(w \o new, Dropped(w \o new, ever, d)) = LateIn(r)

LEMMA WindowStep ==
  ASSUME NEW w \in Seq(Observation), NEW c \in Nat, NEW d \in Nat, c <= d, Ordered(w), Until(w, c),
         NEW new, Brings(new, d), NEW ever \in Nat
  PROVE  Leaves(w, new, d, ever, Rest(w \o new, Dropped(w \o new, ever, d)))
<1> DEFINE in == w \o new
           drop == Dropped(in, ever, d)
           r == Rest(in, drop)
<1>1. /\ in \in Seq(Observation) /\ Len(in) = Len(w) + Len(new) /\ Len(new) \in {0, 1}
      /\ With(Sums(w), new) = Sums(in) /\ LateIn(in) = LateIn(w) + LateIn(new)
      /\ Ordered(in) /\ Until(in, d)
  BY WindowJoined
<1> HIDE DEF in
<1>2. /\ drop \in 0 .. Len(in)
      /\ \A k \in drop + 1 .. Len(in) : d - in[k].at <= MaximumWindow
      /\ 100 * (Len(in) - drop) <= ever * RatioPercent
  BY <1>1, DroppedIs
<1> HIDE DEF drop
<1>3. /\ r \in Seq(Observation) /\ Len(r) = Len(in) - drop
      /\ \A i \in 1 .. Len(in) - drop : r[i] = in[drop + i]
      /\ Len(in) \in Nat /\ DOMAIN in = 1 .. Len(in) /\ Len(w) \in Nat
  BY <1>1, <1>2, Parts, LenProperties
<1>4. DOMAIN r = 1 .. Len(in) - drop
  BY <1>3, LenProperties
<1>5. \A i \in 1 .. Len(in) - drop : drop + i \in 1 .. Len(in) /\ drop + i \in drop + 1 .. Len(in) /\ r[i] = in[drop + i]
  BY <1>2, <1>3
<1> HIDE DEF r
<1>6. Until(r, d)
  BY <1>1, <1>3, <1>4, <1>5 DEF Until
<1>7. \A k \in DOMAIN r : d - r[k].at <= MaximumWindow
  BY <1>2, <1>4, <1>5
<1>8. Ordered(r)
  <2> SUFFICES ASSUME NEW j \in 1 .. Len(in) - drop, NEW k \in 1 .. Len(in) - drop, j < k PROVE r[j].at <= r[k].at
    BY <1>4 DEF Ordered
  <2>1. drop + j < drop + k
    BY <1>2
  <2> QED
    BY <1>1, <1>3, <1>5, <2>1 DEF Ordered
<1>9. 100 * Len(r) <= ever * RatioPercent /\ Len(r) <= Len(w) + Len(new)
  BY <1>1, <1>2, <1>3
<1>10. Without(Sums(in), in, drop) = Sums(r)
  <2>1. Sums(in) \in [Fields -> Int]
    BY <1>1, SumsTyped
  <2>2. Without(Sums(in), in, drop) = Less(Sums(in), Sums(SubSeq(in, 1, drop)))
    BY <1>1, <1>2, <2>1, WithoutIs
  <2> QED
    BY <1>1, <1>2, <2>2, SumsSplit DEF r
<1>11. LateIn(in) - LateDropped(in, drop) = LateIn(r)
  BY <1>1, <1>2, SumsSplit DEF LateDropped, r
<1>12. Without(With(Sums(w), new), in, drop) = Sums(r)
  <2>1. With(Sums(w), new) = Sums(in)
    BY <1>1
  <2> QED
    BY <1>10, <2>1, Zenon
<1>13. LateIn(w) + LateIn(new) - LateDropped(in, drop) = LateIn(r)
  <2>1. LateIn(in) = LateIn(w) + LateIn(new)
    BY <1>1
  <2>2. new \in Seq(Observation)
    <3>1. \A e \in Observation : <<e>> \in Seq(Observation)
      OBVIOUS
    <3>2. <<>> \in Seq(Observation)
      BY EmptySeq
    <3> QED
      BY <3>1, <3>2, Zenon DEF Brings
  <2>3. SubSeq(in, 1, drop) \in Seq(Observation)
    BY <1>1, <1>2, Parts
  <2>4. \A v \in Seq(Observation) : LateIn(v) \in Int
    <3> SUFFICES ASSUME NEW v \in Seq(Observation) PROVE LateIn(v) \in Int
      OBVIOUS
    <3>1. LateIn(v) \in 0 .. Len(v) /\ Len(v) \in Nat
      BY LateInTyped, LenProperties
    <3> QED
      BY <3>1
  <2>5. LateIn(w) \in Int /\ LateIn(new) \in Int /\ LateDropped(in, drop) \in Int
    BY <2>2, <2>3, <2>4, Zenon DEF LateDropped
  <2>6. \A a, b, e, x, y \in Int : a = b + e /\ a - x = y => b + e - x = y
    OBVIOUS
  <2>7. LateIn(in) \in Int /\ LateIn(r) \in Int
    BY <1>1, <1>3, <2>4, Zenon
  <2> QED
    BY <1>11, <2>1, <2>5, <2>6, <2>7
<1> QED
  BY <1>3, <1>6, <1>7, <1>8, <1>9, <1>12, <1>13, Zenon DEF Leaves, in, drop, r


-----------------------------------------------------------------------------
\* The windows hold samples of the past, at most one per request and kind.
WindowTyping(w, ever) == w \in Seq(Observation) /\ Len(w) <= ever /\ Ordered(w) /\ Until(w, duration)

SaturationTyped ==
  /\ duration \in 0 .. MaxDuration /\ mode \in {"enforce", "monitor"} /\ alert \in BOOLEAN
  /\ startedEver \in 0 .. MaxSamples /\ finishedEver \in 0 .. startedEver
  /\ WindowTyping(started, startedEver) /\ WindowTyping(finished, finishedEver)

SaturationInv == SaturationTyped /\ SumsAreTheWindows /\ WindowsAreRecent /\ StopsOnEvidence

\* A positive slope means that the samples rise.
LEMMA SlopeRises ==
  ASSUME NEW w \in Seq(Observation), NEW e \in Nat, CheckSlope(Sums(w), e)
  PROVE  e >= 3 /\ Rising(w)
<1>1. e >= 3 /\ Sums(w).n * Sums(w).xy - Sums(w).x * Sums(w).y > 0
  BY Zenon DEF CheckSlope
<1>2. Total(Rises(w)) > 0
  BY <1>1, SlopeIsRise, Zenon
<1> QED
  BY <1>1, <1>2 DEF Rising, Rises

\* An alarm has its evidence in the windows.
LEMMA AlertIsEarned ==
  ASSUME NEW v \in Seq(Observation), NEW w \in Seq(Observation), NEW d \in Nat,
         Alert(d, Sums(v), Sums(w), LateIn(w))
  PROVE  /\ d >= MinimumDuration /\ Len(v) >= 3 /\ Rising(v)
         /\ 2 * LateIn(w) >= Len(w)
         /\ Len(w) >= MinimumSize /\ d >= MinimumSize => Rising(w)
<1> DEFINE m == Fewer(d, Len(v))
           n == Fewer(d, Len(w))
<1>0. Len(v) \in Nat /\ Len(w) \in Nat /\ Sums(v).n = Len(v) /\ Sums(w).n = Len(w) /\ LateIn(w) \in Int
  BY LenProperties, CountIs, SumsTyped
<1>1. m \in Nat /\ n \in Nat /\ m <= Len(v) /\ (Len(w) >= MinimumSize /\ d >= MinimumSize => n >= MinimumSize)
  BY <1>0, ParametersTyped DEF Fewer
<1>2. /\ d >= MinimumDuration /\ OftenLate(Sums(w), LateIn(w))
      /\ CheckSlope(Sums(v), m)
      /\ n < MinimumSize \/ CheckSlope(Sums(w), n)
  BY <1>0, Zenon DEF Alert
<1>3. m >= 3 /\ Rising(v)
  BY <1>1, <1>2, SlopeRises
<1>4. n < MinimumSize \/ Rising(w)
  BY <1>1, <1>2, SlopeRises
<1>5. 2 * LateIn(w) >= Len(w)
  BY <1>0, <1>2 DEF OftenLate
<1> HIDE DEF m, n
<1>6. Len(w) >= MinimumSize /\ d >= MinimumSize => Rising(w)
  BY <1>1, <1>4, ParametersTyped
<1>7. Len(v) >= 3
  BY <1>0, <1>1, <1>3
<1> QED
  BY <1>2, <1>3, <1>5, <1>6, <1>7

LEMMA SaturationInitially == SaturationInit => SaturationInv
<1> SUFFICES ASSUME SaturationInit PROVE SaturationInv
  OBVIOUS
<1>1. /\ duration = 0 /\ started = <<>> /\ finished = <<>> /\ startedEver = 0 /\ finishedEver = 0
      /\ violations = 0 /\ concurrentSums = Zero /\ ttftSums = Zero
      /\ mode \in {"enforce", "monitor"} /\ alert = FALSE
  BY DEF SaturationInit
<1>2. <<>> \in Seq(Observation) /\ Len(<<>>) = 0 /\ DOMAIN <<>> = {}
  BY EmptyWindow
<1>3. WindowTyping(<<>>, 0)
  BY <1>2 DEF WindowTyping, Ordered, Until
<1>4. SaturationTyped
  <2>1. WindowTyping(started, startedEver) /\ WindowTyping(finished, finishedEver)
    BY <1>1, <1>3, Zenon
  <2>2. startedEver \in 0 .. MaxSamples /\ finishedEver \in 0 .. startedEver /\ duration \in 0 .. MaxDuration
    BY <1>1, ParametersTyped
  <2> QED
    BY <1>1, <2>1, <2>2 DEF SaturationTyped
<1>5. SumsAreTheWindows
  BY <1>1, EmptyWindow DEF SumsAreTheWindows
<1>6. WindowsAreRecent
  BY <1>1, <1>2, ParametersTyped DEF WindowsAreRecent, IsRecent
<1>7. StopsOnEvidence
  BY <1>1 DEF StopsOnEvidence
<1> QED
  BY <1>4, <1>5, <1>6, <1>7 DEF SaturationInv

\* One update or poll at d, with what it brings for either window.
LEMMA CallStep ==
  ASSUME SaturationInv, NEW d \in Nat, d >= duration, d <= MaxDuration,
         NEW new, Brings(new, d), NEW ends, Brings(ends, d), Call(d, new, ends),
         startedEver + Len(new) <= MaxSamples, finishedEver + Len(ends) <= startedEver
  PROVE  SaturationInv'
<1> DEFINE inEver == startedEver + Len(new)
           outEver == finishedEver + Len(ends)
           in == started \o new
           out == finished \o ends
<1>0. /\ started \in Seq(Observation) /\ finished \in Seq(Observation) /\ duration \in Nat
      /\ Ordered(started) /\ Until(started, duration) /\ Ordered(finished) /\ Until(finished, duration)
      /\ Len(started) <= startedEver /\ Len(finished) <= finishedEver
      /\ startedEver \in Nat /\ finishedEver \in Nat
      /\ concurrentSums = Sums(started) /\ ttftSums = Sums(finished) /\ violations = LateIn(finished)
      /\ mode \in {"enforce", "monitor"}
  BY ParametersTyped DEF SaturationInv, SaturationTyped, WindowTyping, SumsAreTheWindows
<1>1. Len(new) \in {0, 1} /\ Len(ends) \in {0, 1} /\ inEver \in Nat /\ outEver \in Nat
  <2>1. Len(new) \in {0, 1} /\ Len(ends) \in {0, 1}
    BY <1>0, WindowJoined
  <2> QED
    BY <1>0, <2>1
<1>2. /\ duration' = d /\ mode' = mode
      /\ started' = Rest(in, Dropped(in, inEver, d)) /\ startedEver' = inEver
      /\ finished' = Rest(out, Dropped(out, outEver, d)) /\ finishedEver' = outEver
      /\ violations' = violations + LateIn(ends) - LateDropped(out, Dropped(out, outEver, d))
      /\ concurrentSums' = Without(With(concurrentSums, new), in, Dropped(in, inEver, d))
      /\ ttftSums' = Without(With(ttftSums, ends), out, Dropped(out, outEver, d))
      /\ alert' = (Alert(d, concurrentSums', ttftSums', violations') /\ mode = "enforce")
  BY Zenon DEF Call
<1>3. /\ started' \in Seq(Observation) /\ Ordered(started') /\ Until(started', d)
      /\ \A k \in DOMAIN started' : d - started'[k].at <= MaximumWindow
      /\ 100 * Len(started') <= inEver * RatioPercent
      /\ Len(started') <= Len(started) + Len(new)
      /\ concurrentSums' = Sums(started')
  <2> HIDE DEF inEver
  <2>0. /\ started \in Seq(Observation) /\ duration \in Nat /\ duration <= d /\ inEver \in Nat
        /\ Ordered(started) /\ Until(started, duration)
    BY <1>0, <1>1
  <2>1. Leaves(started, new, d, inEver, Rest(started \o new, Dropped(started \o new, inEver, d)))
    BY <2>0, WindowStep
  <2>2. Leaves(started, new, d, inEver, started')
    BY <1>2, <2>1, Zenon
  <2> QED
    BY <1>0, <1>2, <2>2, Zenon DEF Leaves
<1>4. /\ finished' \in Seq(Observation) /\ Ordered(finished') /\ Until(finished', d)
      /\ \A k \in DOMAIN finished' : d - finished'[k].at <= MaximumWindow
      /\ 100 * Len(finished') <= outEver * RatioPercent
      /\ Len(finished') <= Len(finished) + Len(ends)
      /\ ttftSums' = Sums(finished') /\ violations' = LateIn(finished')
  <2> HIDE DEF outEver
  <2>0. /\ finished \in Seq(Observation) /\ duration \in Nat /\ duration <= d /\ outEver \in Nat
        /\ Ordered(finished) /\ Until(finished, duration)
    BY <1>0, <1>1
  <2>1. Leaves(finished, ends, d, outEver, Rest(finished \o ends, Dropped(finished \o ends, outEver, d)))
    BY <2>0, WindowStep
  <2>2. Leaves(finished, ends, d, outEver, finished')
    BY <1>2, <2>1, Zenon
  <2> QED
    BY <1>0, <1>2, <2>2, Zenon DEF Leaves
<1>5. Len(started') <= inEver /\ Len(finished') <= outEver
  <2>1. Len(started) \in Nat /\ Len(finished) \in Nat /\ Len(started') \in Nat /\ Len(finished') \in Nat
    BY <1>0, <1>3, <1>4, LenProperties
  <2> QED
    BY <1>0, <1>1, <1>3, <1>4, <2>1
<1>6. SaturationTyped'
  <2>1. WindowTyping(started, startedEver)' /\ WindowTyping(finished, finishedEver)'
    BY <1>2, <1>3, <1>4, <1>5 DEF WindowTyping, Ordered, Until
  <2>2. startedEver' \in 0 .. MaxSamples /\ finishedEver' \in 0 .. startedEver'
    BY <1>0, <1>1, <1>2, ParametersTyped
  <2>3. alert' \in BOOLEAN
    BY <1>2, Zenon
  <2>4. duration' \in 0 .. MaxDuration /\ mode' \in {"enforce", "monitor"}
    BY <1>0, <1>2, ParametersTyped
  <2> QED
    BY <2>1, <2>2, <2>3, <2>4 DEF SaturationTyped
<1>7. SumsAreTheWindows'
  <2>1. Sums(started)' = Sums(started') /\ Sums(finished)' = Sums(finished') /\ LateIn(finished)' = LateIn(finished')
    BY Zenon DEF Sums, LateIn, Moments, Late, Total
  <2> QED
    BY <1>3, <1>4, <2>1 DEF SumsAreTheWindows
<1>8. WindowsAreRecent'
  <2>1. IsRecent(started, startedEver)' /\ IsRecent(finished, finishedEver)'
    BY <1>2, <1>3, <1>4 DEF IsRecent, Ordered
  <2> QED
    BY <2>1 DEF WindowsAreRecent
<1>9. StopsOnEvidence'
  <2> SUFFICES ASSUME alert'
               PROVE  /\ mode' = "enforce" /\ duration' >= MinimumDuration
                      /\ Len(started') >= 3 /\ Rising(started')
                      /\ 2 * LateIn(finished') >= Len(finished')
                      /\ Len(finished') >= MinimumSize /\ duration' >= MinimumSize => Rising(finished')
    BY DEF StopsOnEvidence
  <2>1. Alert(d, Sums(started'), Sums(finished'), LateIn(finished')) /\ mode = "enforce"
    BY <1>2, <1>3, <1>4, Zenon
  <2> QED
    BY <1>2, <1>3, <1>4, <2>1, AlertIsEarned
<1> QED
  BY <1>6, <1>7, <1>8, <1>9 DEF SaturationInv

LEMMA SaturationStep == SaturationInv /\ [SaturationNext]_saturationVars => SaturationInv'
<1> SUFFICES ASSUME SaturationInv, [SaturationNext]_saturationVars PROVE SaturationInv'
  OBVIOUS
<1>0. duration \in 0 .. MaxDuration /\ startedEver \in 0 .. MaxSamples /\ finishedEver \in 0 .. startedEver
  BY DEF SaturationInv, SaturationTyped
<1>1. ASSUME NEW d \in Later PROVE d \in Nat /\ d >= duration /\ d <= MaxDuration
  BY <1>0, ParametersTyped DEF Later
<1>2. \A d \in Later : Brings(<<>>, d)
  BY DEF Brings
<1>3. CASE InProgress
  <2>1. PICK d \in Later, c \in Concurrencies :
          startedEver < MaxSamples /\ Call(d, <<[at |-> d, value |-> c]>>, <<>>)
    BY <1>3 DEF InProgress
  <2> DEFINE e == [at |-> d, value |-> c]
  <2>2. e \in Observation /\ e.at = d
    BY <1>1, <2>1, SaturationAssumption DEF Observation
  <2>3. Brings(<<e>>, d) /\ Len(<<e>>) = 1
    BY <2>2, Zenon DEF Brings
  <2>4. startedEver + Len(<<e>>) <= MaxSamples /\ finishedEver + Len(<<>>) <= startedEver
    BY <1>0, <2>1, <2>3, ParametersTyped
  <2> QED
    BY <1>1, <1>2, <2>1, <2>3, <2>4, CallStep, Zenon
<1>4. CASE FirstToken
  <2>1. PICK d \in Later, t \in Latencies :
          finishedEver < startedEver /\ Call(d, <<>>, <<[at |-> d, value |-> t]>>)
    BY <1>4 DEF FirstToken
  <2> DEFINE e == [at |-> d, value |-> t]
  <2>2. e \in Observation /\ e.at = d
    BY <1>1, <2>1, SaturationAssumption DEF Observation
  <2>3. Brings(<<e>>, d) /\ Len(<<e>>) = 1
    BY <2>2, Zenon DEF Brings
  <2>4. startedEver + Len(<<>>) <= MaxSamples /\ finishedEver + Len(<<e>>) <= startedEver
    BY <1>0, <2>1, <2>3, ParametersTyped
  <2> QED
    BY <1>1, <1>2, <2>1, <2>3, <2>4, CallStep, Zenon
<1>5. CASE Poll
  <2>1. PICK d \in Later : Call(d, <<>>, <<>>)
    BY <1>5 DEF Poll
  <2>2. startedEver + Len(<<>>) <= MaxSamples /\ finishedEver + Len(<<>>) <= startedEver
    BY <1>0, ParametersTyped
  <2> QED
    BY <1>1, <1>2, <2>1, <2>2, CallStep, Zenon
<1>6. CASE UNCHANGED saturationVars
  <2>1. /\ duration' = duration /\ started' = started /\ finished' = finished
        /\ startedEver' = startedEver /\ finishedEver' = finishedEver /\ violations' = violations
        /\ concurrentSums' = concurrentSums /\ ttftSums' = ttftSums /\ mode' = mode /\ alert' = alert
    BY <1>6 DEF saturationVars
  <2>2. SaturationTyped'
    BY <2>1 DEF SaturationInv, SaturationTyped, WindowTyping, Ordered, Until
  <2>3. SumsAreTheWindows'
    <3>1. Sums(started)' = Sums(started') /\ Sums(finished)' = Sums(finished') /\ LateIn(finished)' = LateIn(finished')
      BY Zenon DEF Sums, LateIn, Moments, Late, Total
    <3> QED
      BY <2>1, <3>1 DEF SaturationInv, SumsAreTheWindows
  <2>4. WindowsAreRecent'
    BY <2>1 DEF SaturationInv, WindowsAreRecent, IsRecent
  <2>5. StopsOnEvidence'
    <3>1. /\ Rising(started)' = Rising(started') /\ Rising(finished)' = Rising(finished')
          /\ LateIn(finished)' = LateIn(finished')
      BY Zenon DEF Rising, RiseTo, LateIn, Late, Total
    <3> QED
      BY <2>1, <3>1, Zenon DEF SaturationInv, StopsOnEvidence
  <2> QED
    BY <2>2, <2>3, <2>4, <2>5 DEF SaturationInv
<1> QED
  BY <1>3, <1>4, <1>5, <1>6 DEF SaturationNext

\* However many samples come and go, the sums are those of the windows, and a run is stopped
\* only on evidence in them: SaturationIsReal, about the over-saturation limit.
THEOREM SaturationStaysReal == SaturationSpec => []SaturationIsReal
<1>1. SaturationInv => SaturationIsReal
  <2> SUFFICES ASSUME SaturationInv PROVE SaturationIsReal
    OBVIOUS
  <2>1. /\ finished \in Seq(Observation) /\ Len(finished) <= finishedEver /\ violations = LateIn(finished)
        /\ startedEver \in 0 .. MaxSamples /\ finishedEver \in 0 .. startedEver
    BY DEF SaturationInv, SaturationTyped, WindowTyping, SumsAreTheWindows
  <2>2. violations \in 0 .. MaxSamples /\ finishedEver \in 0 .. MaxSamples
    <3>1. LateIn(finished) \in 0 .. Len(finished) /\ Len(finished) \in Nat
      BY <2>1, LateInTyped, LenProperties
    <3> QED
      BY <2>1, <3>1, ParametersTyped
  <2> QED
    BY <2>2 DEF SaturationInv, SaturationTyped, SaturationTypeOK, SaturationIsReal
<1> QED
  BY <1>1, SaturationInitially, SaturationStep, PTL DEF SaturationSpec
=============================================================================
