----------------------------- MODULE ErrorLimits -----------------------------
(***************************************************************************)
(* The error constraints over the strategies of a profile: an initializer  *)
(* makes one constraint per strategy by a shallow copy of itself, so the   *)
(* error window is one list for all of them.                               *)
(***************************************************************************)
EXTENDS Integers, Sequences, FiniteSets

CONSTANTS
  Window,          \* args.window of the error rate
  RatePercents,    \* args.rate: a sequence, one per strategy, the last one for the rest
  MaxErrors,       \* args.count, likewise
  Minimum,         \* args.minimum of the global error rate
  MaxStrategies,   \* bounds: strategies, updates of one strategy
  MaxProcessed

ASSUME ErrorAssumption ==
  /\ Window \in Nat \ {0} /\ Minimum \in Nat \ {0}
  /\ MaxStrategies \in Nat \ {0} /\ MaxProcessed \in Nat
  /\ RatePercents \in Seq(Nat) \ {<<>>} /\ MaxErrors \in Seq(Nat) \ {<<>>}

VARIABLES
  ordinal,      \* strategies so far: current_index of the initializer, plus one
  window,       \* error_window, shared: [strategy, errored]
  processed, errored,   \* the counters of the scheduler's state
  ignored,      \* updates of this strategy that _finalize_terminal_request ignored
  stopping      \* which constraints stop the run

errorVars == <<ordinal, window, processed, errored, ignored, stopping>>

ErrorInit ==
  /\ ordinal = 1 /\ window = <<>> /\ processed = 0 /\ errored = 0 /\ ignored = 0
  /\ stopping = {}

\* ConstraintsInitializerFactory.resolve for the next strategy, with a new state.
StrategyBegins ==
  /\ ordinal < MaxStrategies
  /\ ordinal' = ordinal + 1
  /\ processed' = 0 /\ errored' = 0 /\ ignored' = 0 /\ stopping' = {}
  /\ UNCHANGED window

\* A list-valued argument is used up to its last element.
Argument(list) == list[IF ordinal < Len(list) THEN ordinal ELSE Len(list)]

Errors(w) == Cardinality({k \in DOMAIN w : w[k].errored})

CountExceeded(failed) == failed >= Argument(MaxErrors)

RateExceededAtOnce(w, done) == 100 * Errors(w) >= Argument(RatePercents) * Len(w)
RateExceededShort(w, done) ==
  done >= Window /\ 100 * Errors(w) >= Argument(RatePercents) * (Len(w) - 1)
RateExceeded(w, done) ==
  done >= Window /\ 100 * Errors(w) >= Argument(RatePercents) * Len(w)

Exceeded(w, done, failed) ==
  {c \in {"max_errors", "max_error_rate", "max_global_error_rate"} :
     CASE c = "max_errors" -> CountExceeded(failed)
       [] c = "max_error_rate" -> RateExceeded(w, done)
       [] c = "max_global_error_rate" ->
            done >= Minimum /\ 100 * failed >= Argument(RatePercents) * done}

TrimmedLate(w) == IF Len(w) > Window + 1 THEN Tail(w) ELSE w
Trimmed(w) == IF Len(w) > Window THEN Tail(w) ELSE w

\* A terminal update.  One that comes twice changes no counter but is a sample.
Terminal(isError, counted) ==
  /\ processed + ignored < MaxProcessed
  /\ processed' = IF counted THEN processed + 1 ELSE processed
  /\ errored' = IF counted /\ isError THEN errored + 1 ELSE errored
  /\ ignored' = IF counted THEN ignored ELSE ignored + 1
  /\ window' = Trimmed(Append(window, [strategy |-> ordinal, errored |-> isError]))
  /\ stopping' = Exceeded(window', processed', errored')
  /\ UNCHANGED ordinal

\* Any other update, or a poll.
Recheck ==
  /\ stopping' = Exceeded(window, processed, errored)
  /\ UNCHANGED <<ordinal, window, processed, errored, ignored>>

ErrorNext ==
  \/ StrategyBegins \/ Recheck
  \/ \E isError, counted \in BOOLEAN : Terminal(isError, counted)

ErrorSpec == ErrorInit /\ [][ErrorNext]_errorVars

-----------------------------------------------------------------------------
(* Properties *)

ErrorTypeOK ==
  /\ ordinal \in 1 .. MaxStrategies /\ Len(window) \in 0 .. Window
  /\ errored \in 0 .. processed /\ processed + ignored \in 0 .. MaxProcessed

\* A strategy is stopped for its own errors: although the window still holds samples
\* of the one before, none is left when the rate may stop the run.
StopsForOwnErrors ==
  "max_error_rate" \in stopping =>
    \A k \in DOMAIN window : window[k].strategy = ordinal

\* Where every update counted, a stop by the error rate means that many errors; an
\* ignored update may have brought a sample of a request that counts otherwise.
RateIsEarned ==
  "max_error_rate" \in stopping =>
    100 * (errored + ignored) >= Argument(RatePercents) * Window

\* An error limit stops a strategy on errors of its own requests only, and the error rate
\* was reached over a full window of them.
ErrorStopsAreEarned == ErrorTypeOK /\ StopsForOwnErrors /\ RateIsEarned
=============================================================================
