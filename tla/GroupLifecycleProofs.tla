------------------------- MODULE GroupLifecycleProofs -------------------------
(***************************************************************************)
(* A run of the scheduler, for any limits of its strategy and backend and  *)
(* any number of killed workers: how the concurrency is shared out, how    *)
(* the processes start together, and what the run reports at its end.      *)
(***************************************************************************)
EXTENDS GroupLifecycle, FiniteSetTheorems, WellFoundedInduction, TLAPS

\* The slots are those create_processes dealt out, and only a run that could not be
\* set up has no process.
Dealt ==
  \E n \in Nat :
    /\ n <= concurrency /\ Ranks = 0 .. n - 1
    /\ slots = [w \in Ranks |-> AsyncLimit(concurrency, n, w)]
    /\ n = 0 => run \in {"shutdown", "stopping", "joining", "ended"} /\ outcome = "error"

\* The coordinator goes on to start() when the barrier is no longer filling; it passes
\* when everybody is there, and is broken only by a process that was told to stop.
BarrierHolds ==
  /\ run \in {"creating", "starting"} => "shutdown" \notin events
  /\ run \in {"starting", "updating"} => barrier # "filling"
  /\ run \in {"creating", "starting", "updating"} /\ barrier = "broken" => "error" \in events
  /\ run = "updating" => barrier = "passed"
  /\ barrier = "passed" => \A w \in Ranks : worker[w] \notin {"spawned", "started", "stuck"}

\* Why the run ends.
OutcomeIsKnown ==
  /\ outcome = "none" <=> run \in {"creating", "starting", "updating"}
  /\ outcome = "finished" => "shutdown" \in events
  /\ run = "ended" => Alive = {}
  /\ run = "ended" /\ outcome = "finished" => failures = 0 /\ \A w \in Ranks : ~Died(w)

\* Requests that are to be reported are at a worker with its backend up, and the shutdown
\* event ends a run that goes well when there are none left.
BusyIsServed ==
  /\ \A w \in Ranks : busy[w] => worker[w] \notin Starting \cup {"sweeping", "deaf", "stuck"}
  /\ \A w \in Alive : worker[w] \in {"processing", "cancelling", "deafening"} => backend[w]
  /\ \A w \in Alive : busy[w] => backend[w]
  /\ outcome \in {"none", "finished"} /\ "shutdown" \in events => \A w \in Ranks : ~busy[w]

LifecycleInv ==
  /\ LifecycleTypeOK /\ Dealt /\ BarrierHolds /\ OutcomeIsKnown /\ BusyIsServed
  /\ RequestsComeFirst

-----------------------------------------------------------------------------
(* Sharing out *)

\* A set of naturals has a least element.
LEMMA SmallestOf ==
  ASSUME NEW T \in SUBSET Nat, T # {}
  PROVE  \E m \in T : \A n \in T : m <= n
<1>1. PICK m \in T : \A n \in T : <<n, m>> \notin OpToRel(<, Nat)
  BY WFMin, NatLessThanWellFounded, Zenon
<1>2. \A n \in T : ~ (n < m)
  BY <1>1, Zenon DEF OpToRel
<1> QED
  BY <1>2

\* None of the limits means the default, otherwise the least one counts.
LEMMA LeastIsNatural ==
  ASSUME NEW S \in SUBSET Nat, NEW default \in Nat
  PROVE  Least(S, default) \in Nat
<1>1. CASE S \ {0} = {}
  BY <1>1 DEF Least
<1>2. CASE S \ {0} # {}
  BY <1>2, SmallestOf DEF Least, Min
<1> QED
  BY <1>1, <1>2

LEMMA Times ==
  ASSUME NEW a \in Int, NEW b \in Int, NEW n \in Nat, a <= b
  PROVE  a * n <= b * n
OBVIOUS

LEMMA Division ==
  ASSUME NEW c \in Nat, NEW n \in Nat, n > 0
  PROVE  c \div n \in Nat /\ c % n \in 0 .. n - 1 /\ c = (c \div n) * n + (c % n)
<1>1. c % n \in 0 .. n - 1 /\ c \div n \in Int
  OBVIOUS
<1>2. c = (c \div n) * n + (c % n)
  BY SMTT(60)
<1>3. c \div n >= 0
  OBVIOUS
<1> QED
  BY <1>1, <1>2, <1>3

\* Quotient and remainder are unique.
LEMMA DivisionIsUnique ==
  ASSUME NEW a \in Int, NEW b \in Int, NEW n \in Nat, NEW u \in 0 .. n - 1, NEW v \in 0 .. n - 1,
         a * n + u = b * n + v
  PROVE  a = b /\ u = v
<1>1. \A x, y \in Int : x < y => x * n + n <= y * n
  <2> SUFFICES ASSUME NEW x \in Int, NEW y \in Int, x + 1 <= y PROVE x * n + n <= y * n
    OBVIOUS
  <2>1. (x + 1) * n <= y * n /\ (x + 1) * n = x * n + n
    BY Times
  <2> QED
    BY <2>1
<1>2. a * n \in Int /\ b * n \in Int
  OBVIOUS
<1> QED
  BY <1>1, <1>2

\* No process gets more slots than there are, and each gets one.
LEMMA AsyncLimitInside ==
  ASSUME NEW c \in Nat, NEW n \in Nat, n > 0, n <= c, NEW w \in 0 .. n - 1
  PROVE  AsyncLimit(c, n, w) \in 1 .. c
<1> DEFINE q == c \div n
           r == c % n
<1>1. q \in Nat /\ r \in 0 .. n - 1 /\ c = q * n + r
  BY Division
<1>2. AsyncLimit(c, n, w) = q + (IF w < r THEN 1 ELSE 0)
  BY DEF AsyncLimit
<1> HIDE DEF q, r
<1>3. q >= 1
  <2> SUFFICES ASSUME q = 0 PROVE FALSE
    BY <1>1
  <2> QED
    BY <1>1
<1>4. q * 1 <= q * n
  <2>1. 1 * q <= n * q
    BY <1>1, Times
  <2> QED
    BY <2>1, <1>1
<1> QED
  BY <1>1, <1>2, <1>3, <1>4

\* Numbered round robin, the slots of all processes are as many as there are to deal.
LEMMA SlotsAreDealt ==
  ASSUME NEW c \in Nat, NEW n \in Nat, n > 0, n <= c,
         NEW all, all = {slot \in (0 .. n - 1) \X (1 .. c) : slot[2] <= AsyncLimit(c, n, slot[1])}
  PROVE  Cardinality(all) = c
<1> DEFINE q == c \div n
           r == c % n
           At(i) == <<(i - 1) % n, (i - 1) \div n + 1>>
           deal == [i \in 1 .. c |-> At(i)]
<1>1. q \in Nat /\ r \in 0 .. n - 1 /\ c = q * n + r
  BY Division
<1>2. \A w \in 0 .. n - 1 : AsyncLimit(c, n, w) = q + (IF w < r THEN 1 ELSE 0)
  BY DEF AsyncLimit
<1> HIDE DEF q, r
<1>3. ASSUME NEW i \in 1 .. c
      PROVE  /\ (i - 1) % n \in 0 .. n - 1 /\ (i - 1) \div n \in Nat
             /\ i - 1 = ((i - 1) \div n) * n + ((i - 1) % n)
  BY Division
<1>4. ASSUME NEW i \in 1 .. c
      PROVE  At(i) \in all
  <2> DEFINE w == (i - 1) % n
             s == (i - 1) \div n
  <2>1. w \in 0 .. n - 1 /\ s \in Nat /\ i - 1 = s * n + w
    BY <1>3
  <2> HIDE DEF w, s
  <2>2. s <= q
    <3> SUFFICES ASSUME q + 1 <= s PROVE FALSE
      BY <1>1, <2>1
    <3>1. (q + 1) * n <= s * n /\ (q + 1) * n = q * n + n
      BY <1>1, <2>1, Times
    <3> QED
      BY <3>1, <1>1, <2>1
  <2>3. w >= r => s # q
    BY <1>1, <2>1
  <2>4. s + 1 <= AsyncLimit(c, n, w)
    BY <1>1, <1>2, <2>1, <2>2, <2>3
  <2>5. s + 1 \in 1 .. c
    BY <2>1, <2>4, AsyncLimitInside
  <2>6. <<w, s + 1>> \in all
    BY <2>1, <2>4, <2>5
  <2> QED
    BY <2>6 DEF w, s
<1>5. ASSUME NEW slot \in all
      PROVE  \E i \in 1 .. c : At(i) = slot
  <2>1. PICK w \in 0 .. n - 1, s \in 1 .. c : slot = <<w, s>> /\ s <= AsyncLimit(c, n, w)
    OBVIOUS
  <2> DEFINE i == (s - 1) * n + w + 1
  <2>2. i \in Int /\ i - 1 = (s - 1) * n + w /\ (s - 1) * n >= 0
    <3>1. 0 * n <= (s - 1) * n
      BY Times
    <3> QED
      BY <3>1
  <2>3. i <= c
    <3>1. CASE s - 1 <= q - 1
      <4>1. (s - 1) * n <= (q - 1) * n /\ (q - 1) * n = q * n - n
        BY <1>1, <3>1, Times
      <4> QED
        BY <4>1, <1>1, <2>2
    <3>2. CASE s - 1 = q /\ w < r
      BY <3>2, <1>1
    <3> QED
      BY <3>1, <3>2, <2>1, <1>1, <1>2
  <2>4. i \in 1 .. c
    BY <2>2, <2>3
  <2> HIDE DEF i
  <2>5. (i - 1) \div n = s - 1 /\ (i - 1) % n = w
    BY <1>3, <2>2, <2>4, DivisionIsUnique
  <2> QED
    BY <2>1, <2>4, <2>5
<1>6. ASSUME NEW i \in 1 .. c, NEW j \in 1 .. c, At(i) = At(j)
      PROVE  i = j
  <2>1. (i - 1) % n = (j - 1) % n /\ (i - 1) \div n = (j - 1) \div n
    BY <1>6, <1>3
  <2> QED
    BY <2>1, <1>3
<1> HIDE DEF At
<1>7. deal \in Bijection(1 .. c, all)
  <2>1. deal \in [1 .. c -> all]
    BY <1>4
  <2>2. \A i, j \in 1 .. c : deal[i] = deal[j] => i = j
    BY <1>6
  <2>3. \A slot \in all : \E i \in 1 .. c : deal[i] = slot
    BY <1>5
  <2> HIDE DEF deal
  <2> QED
    BY <2>1, <2>2, <2>3, Zenon DEF Bijection, Injection, IsInjective, Surjection
<1> QED
  BY <1>7, FS_CountingElements DEF ExistsBijection

-----------------------------------------------------------------------------
(* The steps *)

\* A run begins with its slots dealt out.
LEMMA InitEstablishesInv == LifecycleInit => LifecycleInv
<1> SUFFICES ASSUME LifecycleInit PROVE LifecycleInv
  OBVIOUS
<1>1. PICK requestLimits \in SUBSET Limits, processLimits \in SUBSET Limits, default \in Limits,
           most \in Processes :
        LET c == Least(requestLimits, default)
            n == ProcessCount(c, processLimits, most)
            ranks == 0 .. n - 1
        IN /\ concurrency = c
           /\ slots = [w \in ranks |-> AsyncLimit(c, n, w)]
           /\ run = IF c = 0 \/ n = 0 THEN "shutdown" ELSE "creating"
           /\ outcome = IF c = 0 \/ n = 0 THEN "error" ELSE "none"
           /\ worker = [w \in ranks |-> "spawned"]
           /\ busy = [w \in ranks |-> FALSE] /\ overtaken = [w \in ranks |-> FALSE]
           /\ backend = [w \in ranks |-> FALSE]
           /\ exitcode = [w \in ranks |-> "none"]
           /\ barrier = "filling" /\ events = {} /\ failures = 0
           /\ monitoring = (run = "creating")
  BY DEF LifecycleInit
<1> DEFINE limits == {concurrency, most} \cup (processLimits \ {0})
           n == ProcessCount(concurrency, processLimits, most)
<1>2. concurrency \in Nat
  BY <1>1, LeastIsNatural, LifecycleAssumption
<1>3. n \in Nat /\ n <= concurrency
  <2>1. limits \in SUBSET Nat /\ concurrency \in limits
    BY <1>2, LifecycleAssumption
  <2> HIDE DEF limits
  <2>2. Min(limits) \in limits /\ Min(limits) <= concurrency
    BY <2>1, SmallestOf DEF Min
  <2>3. n = Min(limits)
    BY DEF ProcessCount, limits
  <2> QED
    BY <2>1, <2>2, <2>3
<1>4. /\ slots = [w \in 0 .. n - 1 |-> AsyncLimit(concurrency, n, w)]
      /\ run = IF concurrency = 0 \/ n = 0 THEN "shutdown" ELSE "creating"
      /\ outcome = IF concurrency = 0 \/ n = 0 THEN "error" ELSE "none"
      /\ worker = [w \in 0 .. n - 1 |-> "spawned"]
      /\ busy = [w \in 0 .. n - 1 |-> FALSE] /\ overtaken = [w \in 0 .. n - 1 |-> FALSE]
      /\ backend = [w \in 0 .. n - 1 |-> FALSE]
      /\ exitcode = [w \in 0 .. n - 1 |-> "none"]
      /\ barrier = "filling" /\ events = {} /\ failures = 0
      /\ monitoring = (run = "creating")
  BY <1>1
<1> HIDE DEF n
<1>5. Ranks = 0 .. n - 1
  BY <1>4 DEF Ranks
<1>6. LifecycleTypeOK
  <2>1. ASSUME NEW w \in Ranks
        PROVE  slots[w] \in 0 .. concurrency
    <3>1. w \in 0 .. n - 1 /\ n > 0 /\ slots[w] = AsyncLimit(concurrency, n, w)
      BY <1>3, <1>4, <1>5
    <3>2. AsyncLimit(concurrency, n, w) \in 1 .. concurrency
      BY <1>2, <1>3, <3>1, AsyncLimitInside
    <3> QED
      BY <3>1, <3>2
  <2> QED
    BY <1>2, <1>4, <1>5, <2>1 DEF LifecycleTypeOK, Phases, Starting
<1>7. Dealt
  BY <1>3, <1>4, <1>5, <1>2 DEF Dealt
<1>8. BarrierHolds /\ OutcomeIsKnown
  BY <1>4, <1>5 DEF BarrierHolds, OutcomeIsKnown
<1>9. BusyIsServed /\ RequestsComeFirst
  BY <1>4, <1>5 DEF BusyIsServed, RequestsComeFirst, Alive
<1> QED
  BY <1>6, <1>7, <1>8, <1>9 DEF LifecycleInv

\* The backend of a worker is up.
LEMMA BackendStartsKeepsInv ==
  ASSUME LifecycleInv, NEW w \in Ranks, BackendStarts(w)
  PROVE  LifecycleInv'
<1> USE DEF LifecycleInv, BackendStarts
<1>1. LifecycleTypeOK'
  BY DEF LifecycleTypeOK, Phases, Starting, Ranks
<1>2. Dealt'
  BY DEF LifecycleTypeOK, Dealt, Ranks
<1>3. BarrierHolds'
  BY DEF LifecycleTypeOK, BarrierHolds, Ranks
<1>4. OutcomeIsKnown'
  BY DEF LifecycleTypeOK, OutcomeIsKnown, Died, Alive, Ranks
<1>5. BusyIsServed'
  BY DEF LifecycleTypeOK, BusyIsServed, Alive, Ranks, Starting
<1>6. RequestsComeFirst'
  BY DEF LifecycleTypeOK, RequestsComeFirst, BusyIsServed, OutcomeIsKnown, Alive, Ranks
<1> QED
  BY <1>1, <1>2, <1>3, <1>4, <1>5, <1>6

\* Its startup raises.
LEMMA StartupFailsKeepsInv ==
  ASSUME LifecycleInv, NEW w \in Ranks, StartupFails(w)
  PROVE  LifecycleInv'
<1> USE DEF LifecycleInv, StartupFails
<1>1. LifecycleTypeOK'
  BY DEF LifecycleTypeOK, Phases, Starting, Ranks
<1>2. Dealt'
  BY DEF LifecycleTypeOK, Dealt, Ranks
<1>3. BarrierHolds'
  BY DEF LifecycleTypeOK, BarrierHolds, Ranks
<1>4. OutcomeIsKnown'
  BY DEF LifecycleTypeOK, OutcomeIsKnown, Died, Alive, Ranks
<1>5. BusyIsServed'
  BY DEF LifecycleTypeOK, BusyIsServed, Alive, Ranks, Starting
<1>6. RequestsComeFirst'
  BY DEF LifecycleTypeOK, RequestsComeFirst, BusyIsServed, OutcomeIsKnown, Alive, Ranks
<1> QED
  BY <1>1, <1>2, <1>3, <1>4, <1>5, <1>6

\* A worker waits at the barrier, the last one opens it.
LEMMA ReachesBarrierKeepsInv ==
  ASSUME LifecycleInv, NEW w \in Ranks, ReachesBarrier(w)
  PROVE  LifecycleInv'
<1> USE DEF LifecycleInv, ReachesBarrier
<1>1. LifecycleTypeOK'
  BY DEF LifecycleTypeOK, Phases, Starting, Ranks
<1>2. Dealt'
  BY DEF LifecycleTypeOK, Dealt, Ranks
<1>3. BarrierHolds'
  BY DEF LifecycleTypeOK, BarrierHolds, Ranks
<1>4. OutcomeIsKnown'
  BY DEF LifecycleTypeOK, OutcomeIsKnown, Died, Alive, Ranks
<1>5. BusyIsServed'
  BY DEF LifecycleTypeOK, BusyIsServed, Alive, Ranks, Starting
<1>6. RequestsComeFirst'
  BY DEF LifecycleTypeOK, RequestsComeFirst, BusyIsServed, OutcomeIsKnown, Alive, Ranks
<1> QED
  BY <1>1, <1>2, <1>3, <1>4, <1>5, <1>6

\* A worker gets on, or is stuck behind a broken barrier.
LEMMA LeavesBarrierKeepsInv ==
  ASSUME LifecycleInv, NEW w \in Ranks, LeavesBarrier(w)
  PROVE  LifecycleInv'
<1> USE DEF LifecycleInv, LeavesBarrier
<1>1. LifecycleTypeOK'
  BY DEF LifecycleTypeOK, Phases, Starting, Ranks
<1>2. Dealt'
  BY DEF LifecycleTypeOK, Dealt, Ranks
<1>3. BarrierHolds'
  BY DEF LifecycleTypeOK, BarrierHolds, Ranks
<1>4. OutcomeIsKnown'
  BY DEF LifecycleTypeOK, OutcomeIsKnown, Died, Alive, Ranks
<1>5. BusyIsServed'
  BY DEF LifecycleTypeOK, BusyIsServed, Alive, Ranks, Starting
<1>6. RequestsComeFirst'
  BY DEF LifecycleTypeOK, Starting, RequestsComeFirst, BusyIsServed, OutcomeIsKnown, Alive, Ranks
<1> QED
  BY <1>1, <1>2, <1>3, <1>4, <1>5, <1>6

\* A worker has requests.
LEMMA TakesRequestKeepsInv ==
  ASSUME LifecycleInv, NEW w \in Ranks, TakesRequest(w)
  PROVE  LifecycleInv'
<1> USE DEF LifecycleInv, TakesRequest
<1>1. LifecycleTypeOK'
  BY DEF LifecycleTypeOK, Phases, Starting, Ranks
<1>2. Dealt'
  BY DEF LifecycleTypeOK, Dealt, Ranks
<1>3. BarrierHolds'
  BY DEF LifecycleTypeOK, BarrierHolds, Ranks
<1>4. OutcomeIsKnown'
  BY DEF LifecycleTypeOK, OutcomeIsKnown, Died, Alive, Ranks
<1>5. BusyIsServed'
  BY DEF LifecycleTypeOK, BusyIsServed, Alive, Ranks, Starting
<1>6. RequestsComeFirst'
  BY DEF LifecycleTypeOK, RequestsComeFirst, BusyIsServed, OutcomeIsKnown, Alive, Ranks
<1> QED
  BY <1>1, <1>2, <1>3, <1>4, <1>5, <1>6

\* It has none left.
LEMMA EndsRequestsKeepsInv ==
  ASSUME LifecycleInv, NEW w \in Ranks, EndsRequests(w)
  PROVE  LifecycleInv'
<1> USE DEF LifecycleInv, EndsRequests
<1>1. LifecycleTypeOK'
  BY DEF LifecycleTypeOK, Phases, Starting, Ranks
<1>2. Dealt'
  BY DEF LifecycleTypeOK, Dealt, Ranks
<1>3. BarrierHolds'
  BY DEF LifecycleTypeOK, BarrierHolds, Ranks
<1>4. OutcomeIsKnown'
  BY DEF LifecycleTypeOK, OutcomeIsKnown, Died, Alive, Ranks
<1>5. BusyIsServed'
  BY DEF LifecycleTypeOK, BusyIsServed, Alive, Ranks, Starting
<1>6. RequestsComeFirst'
  BY DEF LifecycleTypeOK, RequestsComeFirst, BusyIsServed, OutcomeIsKnown, Alive, Ranks
<1> QED
  BY <1>1, <1>2, <1>3, <1>4, <1>5, <1>6

\* An abort reports requests that still have a call.
LEMMA AbortsKeepsInv ==
  ASSUME LifecycleInv, NEW w \in Ranks, Aborts(w)
  PROVE  LifecycleInv'
<1> USE DEF LifecycleInv, Aborts
<1>1. LifecycleTypeOK'
  BY DEF LifecycleTypeOK, Phases, Starting, Ranks
<1>2. Dealt'
  BY DEF LifecycleTypeOK, Dealt, Ranks
<1>3. BarrierHolds'
  BY DEF LifecycleTypeOK, BarrierHolds, Ranks
<1>4. OutcomeIsKnown'
  BY DEF LifecycleTypeOK, OutcomeIsKnown, Died, Alive, Ranks
<1>5. BusyIsServed'
  BY DEF LifecycleTypeOK, BusyIsServed, Alive, Ranks, Starting
<1>6. RequestsComeFirst'
  BY DEF LifecycleTypeOK, RequestsComeFirst, BusyIsServed, OutcomeIsKnown, Alive, Ranks
<1> QED
  BY <1>1, <1>2, <1>3, <1>4, <1>5, <1>6

\* Their calls end.
LEMMA OvertakenEndKeepsInv ==
  ASSUME LifecycleInv, NEW w \in Ranks, OvertakenEnd(w)
  PROVE  LifecycleInv'
<1> USE DEF LifecycleInv, OvertakenEnd
<1>1. LifecycleTypeOK'
  BY DEF LifecycleTypeOK, Phases, Starting, Ranks
<1>2. Dealt'
  BY DEF LifecycleTypeOK, Dealt, Ranks
<1>3. BarrierHolds'
  BY DEF LifecycleTypeOK, BarrierHolds, Ranks
<1>4. OutcomeIsKnown'
  BY DEF LifecycleTypeOK, OutcomeIsKnown, Died, Alive, Ranks
<1>5. BusyIsServed'
  BY DEF LifecycleTypeOK, BusyIsServed, Alive, Ranks, Starting
<1>6. RequestsComeFirst'
  BY DEF LifecycleTypeOK, RequestsComeFirst, BusyIsServed, OutcomeIsKnown, Alive, Ranks
<1> QED
  BY <1>1, <1>2, <1>3, <1>4, <1>5, <1>6

\* A worker cancels its requests.
LEMMA ConstraintSeenKeepsInv ==
  ASSUME LifecycleInv, NEW w \in Ranks, ConstraintSeen(w)
  PROVE  LifecycleInv'
<1> USE DEF LifecycleInv, ConstraintSeen
<1>1. LifecycleTypeOK'
  BY DEF LifecycleTypeOK, Phases, Starting, Ranks
<1>2. Dealt'
  BY DEF LifecycleTypeOK, Dealt, Ranks
<1>3. BarrierHolds'
  BY DEF LifecycleTypeOK, BarrierHolds, Ranks
<1>4. OutcomeIsKnown'
  BY DEF LifecycleTypeOK, OutcomeIsKnown, Died, Alive, Ranks
<1>5. BusyIsServed'
  BY DEF LifecycleTypeOK, BusyIsServed, Alive, Ranks, Starting
<1>6. RequestsComeFirst'
  BY DEF LifecycleTypeOK, RequestsComeFirst, BusyIsServed, OutcomeIsKnown, Alive, Ranks
<1> QED
  BY <1>1, <1>2, <1>3, <1>4, <1>5, <1>6

\* It sweeps the queue.
LEMMA SweepsKeepsInv ==
  ASSUME LifecycleInv, NEW w \in Ranks, Sweeps(w)
  PROVE  LifecycleInv'
<1> USE DEF LifecycleInv, Sweeps
<1>1. LifecycleTypeOK'
  BY DEF LifecycleTypeOK, Phases, Starting, Ranks
<1>2. Dealt'
  BY DEF LifecycleTypeOK, Dealt, Ranks
<1>3. BarrierHolds'
  BY DEF LifecycleTypeOK, BarrierHolds, Ranks
<1>4. OutcomeIsKnown'
  BY DEF LifecycleTypeOK, OutcomeIsKnown, Died, Alive, Ranks
<1>5. BusyIsServed'
  BY DEF LifecycleTypeOK, BusyIsServed, Alive, Ranks, Starting
<1>6. RequestsComeFirst'
  BY DEF LifecycleTypeOK, RequestsComeFirst, BusyIsServed, OutcomeIsKnown, Alive, Ranks
<1> QED
  BY <1>1, <1>2, <1>3, <1>4, <1>5, <1>6

\* A worker is told to stop.
LEMMA StopSeenKeepsInv ==
  ASSUME LifecycleInv, NEW w \in Ranks, NEW event \in {"error", "shutdown"}, StopSeen(w, event)
  PROVE  LifecycleInv'
<1> USE DEF LifecycleInv, StopSeen
<1>1. LifecycleTypeOK'
  BY DEF LifecycleTypeOK, Phases, Starting, Ranks
<1>2. Dealt'
  BY DEF LifecycleTypeOK, Dealt, Ranks
<1>3. BarrierHolds'
  BY DEF LifecycleTypeOK, BarrierHolds, Ranks
<1>4. OutcomeIsKnown'
  BY DEF LifecycleTypeOK, OutcomeIsKnown, Died, Alive, Ranks
<1>5. BusyIsServed'
  BY DEF LifecycleTypeOK, BusyIsServed, Alive, Ranks, Starting
<1>6. RequestsComeFirst'
  BY DEF LifecycleTypeOK, RequestsComeFirst, BusyIsServed, OutcomeIsKnown, Alive, Ranks
<1> QED
  BY <1>1, <1>2, <1>3, <1>4, <1>5, <1>6

\* A worker exits.
LEMMA ExitsKeepsInv ==
  ASSUME LifecycleInv, NEW w \in Ranks, Exits(w)
  PROVE  LifecycleInv'
<1> USE DEF LifecycleInv, Exits
<1>1. LifecycleTypeOK'
  BY DEF LifecycleTypeOK, Phases, Starting, Ranks
<1>2. Dealt'
  BY DEF LifecycleTypeOK, Dealt, Ranks
<1>3. BarrierHolds'
  BY DEF LifecycleTypeOK, BarrierHolds, Ranks
<1>4. OutcomeIsKnown'
  BY DEF LifecycleTypeOK, OutcomeIsKnown, Died, Alive, Ranks
<1>5. BusyIsServed'
  BY DEF LifecycleTypeOK, BusyIsServed, Alive, Ranks, Starting
<1>6. RequestsComeFirst'
  BY DEF LifecycleTypeOK, RequestsComeFirst, BusyIsServed, OutcomeIsKnown, Alive, Ranks
<1> QED
  BY <1>1, <1>2, <1>3, <1>4, <1>5, <1>6

\* A worker is killed.
LEMMA KilledKeepsInv ==
  ASSUME LifecycleInv, NEW w \in Ranks, Killed(w)
  PROVE  LifecycleInv'
<1> USE DEF LifecycleInv, Killed
<1>1. LifecycleTypeOK'
  BY DEF LifecycleTypeOK, Phases, Starting, Ranks
<1>2. Dealt'
  BY DEF LifecycleTypeOK, Dealt, Ranks
<1>3. BarrierHolds'
  BY DEF LifecycleTypeOK, BarrierHolds, Ranks
<1>4. OutcomeIsKnown'
  BY DEF LifecycleTypeOK, OutcomeIsKnown, Died, Alive, Ranks
<1>5. BusyIsServed'
  BY DEF LifecycleTypeOK, BusyIsServed, Alive, Ranks, Starting
<1>6. RequestsComeFirst'
  BY DEF LifecycleTypeOK, RequestsComeFirst, BusyIsServed, OutcomeIsKnown, Alive, Ranks
<1> QED
  BY <1>1, <1>2, <1>3, <1>4, <1>5, <1>6

\* A worker is terminated.
LEMMA TerminatesKeepsInv ==
  ASSUME LifecycleInv, NEW w \in Ranks, Terminates(w)
  PROVE  LifecycleInv'
<1> USE DEF LifecycleInv, Terminates
<1>1. LifecycleTypeOK'
  BY DEF LifecycleTypeOK, Phases, Starting, Ranks
<1>2. Dealt'
  BY DEF LifecycleTypeOK, Dealt, Ranks
<1>3. BarrierHolds'
  BY DEF LifecycleTypeOK, BarrierHolds, Ranks
<1>4. OutcomeIsKnown'
  BY DEF LifecycleTypeOK, OutcomeIsKnown, Died, Alive, Ranks
<1>5. BusyIsServed'
  BY DEF LifecycleTypeOK, BusyIsServed, Alive, Ranks, Starting
<1>6. RequestsComeFirst'
  BY DEF LifecycleTypeOK, RequestsComeFirst, BusyIsServed, OutcomeIsKnown, Alive, Ranks
<1> QED
  BY <1>1, <1>2, <1>3, <1>4, <1>5, <1>6

\* The monitor finds a failed worker.
LEMMA MonitorSeesKeepsInv ==
  ASSUME LifecycleInv, MonitorSees
  PROVE  LifecycleInv'
<1> USE DEF LifecycleInv, MonitorSees
<1>1. LifecycleTypeOK'
  BY DEF LifecycleTypeOK, Phases, Starting, Ranks
<1>2. Dealt'
  BY DEF LifecycleTypeOK, Dealt, Ranks
<1>3. BarrierHolds'
  BY DEF LifecycleTypeOK, BarrierHolds, Ranks
<1>4. OutcomeIsKnown'
  BY DEF LifecycleTypeOK, OutcomeIsKnown, Died, Alive, Ranks
<1>5. BusyIsServed'
  BY DEF LifecycleTypeOK, BusyIsServed, Alive, Ranks, Starting
<1>6. RequestsComeFirst'
  BY DEF LifecycleTypeOK, RequestsComeFirst, BusyIsServed, OutcomeIsKnown, Alive, Ranks
<1> QED
  BY <1>1, <1>2, <1>3, <1>4, <1>5, <1>6

\* create_processes gives up.
LEMMA CreationFailsKeepsInv ==
  ASSUME LifecycleInv, CreationFails
  PROVE  LifecycleInv'
<1> USE DEF LifecycleInv, CreationFails
<1>1. LifecycleTypeOK'
  BY DEF LifecycleTypeOK, Phases, Starting, Ranks
<1>2. Dealt'
  BY DEF LifecycleTypeOK, Dealt, Ranks
<1>3. BarrierHolds'
  BY DEF LifecycleTypeOK, BarrierHolds, Ranks
<1>4. OutcomeIsKnown'
  BY DEF LifecycleTypeOK, OutcomeIsKnown, Died, Alive, Ranks
<1>5. BusyIsServed'
  BY DEF LifecycleTypeOK, BusyIsServed, Alive, Ranks, Starting
<1>6. RequestsComeFirst'
  BY DEF LifecycleTypeOK, RequestsComeFirst, BusyIsServed, OutcomeIsKnown, Alive, Ranks
<1> QED
  BY <1>1, <1>2, <1>3, <1>4, <1>5, <1>6

\* The barrier is behind.
LEMMA CreatedKeepsInv ==
  ASSUME LifecycleInv, Created
  PROVE  LifecycleInv'
<1> USE DEF LifecycleInv, Created
<1>1. LifecycleTypeOK'
  BY DEF LifecycleTypeOK, Phases, Starting, Ranks
<1>2. Dealt'
  BY DEF LifecycleTypeOK, Dealt, Ranks
<1>3. BarrierHolds'
  BY DEF LifecycleTypeOK, BarrierHolds, Ranks
<1>4. OutcomeIsKnown'
  BY DEF LifecycleTypeOK, OutcomeIsKnown, Died, Alive, Ranks
<1>5. BusyIsServed'
  BY DEF LifecycleTypeOK, BusyIsServed, Alive, Ranks, Starting
<1>6. RequestsComeFirst'
  BY DEF LifecycleTypeOK, RequestsComeFirst, BusyIsServed, OutcomeIsKnown, Alive, Ranks
<1> QED
  BY <1>1, <1>2, <1>3, <1>4, <1>5, <1>6

\* start() has waited.
LEMMA StartedKeepsInv ==
  ASSUME LifecycleInv, Started
  PROVE  LifecycleInv'
<1> USE DEF LifecycleInv, Started
<1>1. LifecycleTypeOK'
  BY DEF LifecycleTypeOK, Phases, Starting, Ranks
<1>2. Dealt'
  BY DEF LifecycleTypeOK, Dealt, Ranks
<1>3. BarrierHolds'
  BY DEF LifecycleTypeOK, BarrierHolds, StartRefused, Ranks
<1>4. OutcomeIsKnown'
  BY DEF LifecycleTypeOK, OutcomeIsKnown, Died, Alive, Ranks
<1>5. BusyIsServed'
  BY DEF LifecycleTypeOK, BusyIsServed, Alive, Ranks, Starting
<1>6. RequestsComeFirst'
  BY DEF LifecycleTypeOK, RequestsComeFirst, BusyIsServed, OutcomeIsKnown, Alive, Ranks
<1> QED
  BY <1>1, <1>2, <1>3, <1>4, <1>5, <1>6

\* A constraint is reached.
LEMMA ConstraintReachedKeepsInv ==
  ASSUME LifecycleInv, ConstraintReached
  PROVE  LifecycleInv'
<1> USE DEF LifecycleInv, ConstraintReached
<1>1. LifecycleTypeOK'
  BY DEF LifecycleTypeOK, Phases, Starting, Ranks
<1>2. Dealt'
  BY DEF LifecycleTypeOK, Dealt, Ranks
<1>3. BarrierHolds'
  BY DEF LifecycleTypeOK, BarrierHolds, Ranks
<1>4. OutcomeIsKnown'
  BY DEF LifecycleTypeOK, OutcomeIsKnown, Died, Alive, Ranks
<1>5. BusyIsServed'
  BY DEF LifecycleTypeOK, BusyIsServed, Alive, Ranks, Starting
<1>6. RequestsComeFirst'
  BY DEF LifecycleTypeOK, RequestsComeFirst, BusyIsServed, OutcomeIsKnown, Alive, Ranks
<1> QED
  BY <1>1, <1>2, <1>3, <1>4, <1>5, <1>6

\* Nothing is left.
LEMMA AllProcessedKeepsInv ==
  ASSUME LifecycleInv, AllProcessed
  PROVE  LifecycleInv'
<1> USE DEF LifecycleInv, AllProcessed
<1>1. LifecycleTypeOK'
  BY DEF LifecycleTypeOK, Phases, Starting, Ranks
<1>2. Dealt'
  BY DEF LifecycleTypeOK, Dealt, Ranks
<1>3. BarrierHolds'
  BY DEF LifecycleTypeOK, BarrierHolds, Ranks
<1>4. OutcomeIsKnown'
  BY DEF LifecycleTypeOK, OutcomeIsKnown, Died, Alive, Ranks
<1>5. BusyIsServed'
  BY DEF LifecycleTypeOK, NothingLeft, BusyIsServed, Alive, Ranks, Starting
<1>6. RequestsComeFirst'
  BY DEF LifecycleTypeOK, RequestsComeFirst, BusyIsServed, OutcomeIsKnown, Alive, Ranks
<1> QED
  BY <1>1, <1>2, <1>3, <1>4, <1>5, <1>6

\* request_updates ends.
LEMMA UpdatesEndKeepsInv ==
  ASSUME LifecycleInv, UpdatesEnd
  PROVE  LifecycleInv'
<1> USE DEF LifecycleInv, UpdatesEnd
<1>1. LifecycleTypeOK'
  BY DEF LifecycleTypeOK, Phases, Starting, Ranks
<1>2. Dealt'
  BY DEF LifecycleTypeOK, Dealt, Ranks
<1>3. BarrierHolds'
  BY DEF LifecycleTypeOK, BarrierHolds, Ranks
<1>4. OutcomeIsKnown'
  BY DEF LifecycleTypeOK, OutcomeIsKnown, Died, Alive, Ranks
<1>5. BusyIsServed'
  BY DEF LifecycleTypeOK, OutcomeIsKnown, BusyIsServed, Alive, Ranks, Starting
<1>6. RequestsComeFirst'
  BY DEF LifecycleTypeOK, RequestsComeFirst, BusyIsServed, OutcomeIsKnown, Alive, Ranks
<1> QED
  BY <1>1, <1>2, <1>3, <1>4, <1>5, <1>6

\* The caller gives up.
LEMMA AbandonedKeepsInv ==
  ASSUME LifecycleInv, Abandoned
  PROVE  LifecycleInv'
<1> USE DEF LifecycleInv, Abandoned
<1>1. LifecycleTypeOK'
  BY DEF LifecycleTypeOK, Phases, Starting, Ranks
<1>2. Dealt'
  BY DEF LifecycleTypeOK, Dealt, Ranks
<1>3. BarrierHolds'
  BY DEF LifecycleTypeOK, BarrierHolds, Ranks
<1>4. OutcomeIsKnown'
  BY DEF LifecycleTypeOK, OutcomeIsKnown, Died, Alive, Ranks
<1>5. BusyIsServed'
  BY DEF LifecycleTypeOK, BusyIsServed, Alive, Ranks, Starting
<1>6. RequestsComeFirst'
  BY DEF LifecycleTypeOK, RequestsComeFirst, BusyIsServed, OutcomeIsKnown, Alive, Ranks
<1> QED
  BY <1>1, <1>2, <1>3, <1>4, <1>5, <1>6

\* shutdown() begins.
LEMMA ShutdownBeginsKeepsInv ==
  ASSUME LifecycleInv, ShutdownBegins
  PROVE  LifecycleInv'
<1> USE DEF LifecycleInv, ShutdownBegins
<1>1. LifecycleTypeOK'
  BY DEF LifecycleTypeOK, Phases, Starting, Ranks
<1>2. Dealt'
  BY DEF LifecycleTypeOK, Dealt, Ranks
<1>3. BarrierHolds'
  BY DEF LifecycleTypeOK, BarrierHolds, Ranks
<1>4. OutcomeIsKnown'
  BY DEF LifecycleTypeOK, OutcomeIsKnown, Died, Alive, Ranks
<1>5. BusyIsServed'
  BY DEF LifecycleTypeOK, OutcomeIsKnown, BusyIsServed, Alive, Ranks, Starting
<1>6. RequestsComeFirst'
  BY DEF LifecycleTypeOK, RequestsComeFirst, BusyIsServed, OutcomeIsKnown, Alive, Ranks
<1> QED
  BY <1>1, <1>2, <1>3, <1>4, <1>5, <1>6

\* messaging.stop() has ended or has had its time.
LEMMA MessagingStopsKeepsInv ==
  ASSUME LifecycleInv, MessagingStops
  PROVE  LifecycleInv'
<1> USE DEF LifecycleInv, MessagingStops
<1>1. LifecycleTypeOK'
  BY DEF LifecycleTypeOK, Phases, Starting, CleanupErrors, Ranks
<1>2. Dealt'
  BY DEF LifecycleTypeOK, Dealt, Ranks
<1>3. BarrierHolds'
  BY DEF LifecycleTypeOK, BarrierHolds, Ranks
<1>4. OutcomeIsKnown'
  BY DEF LifecycleTypeOK, OutcomeIsKnown, Died, Alive, Ranks
<1>5. BusyIsServed'
  BY DEF LifecycleTypeOK, BusyIsServed, Alive, Ranks, Starting
<1>6. RequestsComeFirst'
  BY DEF LifecycleTypeOK, RequestsComeFirst, BusyIsServed, OutcomeIsKnown, Alive, Ranks
<1> QED
  BY <1>1, <1>2, <1>3, <1>4, <1>5, <1>6

\* Every process has been joined.
LEMMA JoinedKeepsInv ==
  ASSUME LifecycleInv, Joined
  PROVE  LifecycleInv'
<1> USE DEF LifecycleInv, Joined
<1> DEFINE dead == {w \in Ranks : Died(w)}
<1>0. PICK errors \in Nat : failures' = failures + Cardinality(dead) + errors
  BY DEF ExitFailures, CleanupErrors
<1>1. IsFiniteSet(dead) /\ Cardinality(dead) \in Nat
  <2>1. IsFiniteSet(Ranks)
    BY FS_Interval DEF Dealt
  <2>2. IsFiniteSet(dead)
    BY <2>1, FS_Subset
  <2> QED
    BY <2>2, FS_CardinalityType
<1>2. failures \in Nat /\ failures' \in Nat
  BY <1>0, <1>1 DEF LifecycleTypeOK
<1>3. LifecycleTypeOK'
  BY <1>2 DEF LifecycleTypeOK, Phases, Starting, Ranks
<1>4. Dealt' /\ BarrierHolds'
  BY DEF LifecycleTypeOK, Dealt, BarrierHolds, Ranks
<1>5. OutcomeIsKnown'
  <2>1. failures' = 0 => \A w \in Ranks : ~Died(w)
    <3>1. failures' = 0 => Cardinality(dead) = 0
      BY <1>0, <1>1, <1>2
    <3> QED
      BY <1>1, <3>1, FS_EmptySet
  <2>2. failures' > 0 \/ failures' = 0
    BY <1>2
  <2>3. Ranks' = Ranks /\ Alive' = Alive /\ \A w \in Ranks : Died(w)' <=> Died(w)
    BY DEF Ranks, Alive, Died
  <2> HIDE DEF dead
  <2> QED
    BY <2>1, <2>2, <2>3 DEF OutcomeIsKnown
<1>6. BusyIsServed'
  BY DEF LifecycleTypeOK, BusyIsServed, Alive, Ranks, Starting
<1>7. RequestsComeFirst'
  BY DEF LifecycleTypeOK, RequestsComeFirst, BusyIsServed, OutcomeIsKnown, Alive, Ranks
<1> QED
  BY <1>3, <1>4, <1>5, <1>6, <1>7

\* Every step keeps the invariant.
LEMMA StepKeepsInv == LifecycleInv /\ [LifecycleNext]_lifecycleVars => LifecycleInv'
<1> SUFFICES ASSUME LifecycleInv, [LifecycleNext]_lifecycleVars PROVE LifecycleInv'
  OBVIOUS
<1>1. CASE UNCHANGED lifecycleVars
  BY <1>1 DEF lifecycleVars, LifecycleInv, LifecycleTypeOK, Dealt, BarrierHolds, OutcomeIsKnown,
     BusyIsServed, RequestsComeFirst, Ranks, Alive, Died
<1>2. ASSUME NEW w \in Ranks, WorkerStep(w) PROVE LifecycleInv'
  BY <1>2, BackendStartsKeepsInv, ReachesBarrierKeepsInv, LeavesBarrierKeepsInv,
     ConstraintSeenKeepsInv, EndsRequestsKeepsInv, OvertakenEndKeepsInv, SweepsKeepsInv,
     ExitsKeepsInv, StopSeenKeepsInv DEF WorkerStep
<1>3. ASSUME NEW w \in Ranks, \/ StartupFails(w) \/ TakesRequest(w) \/ Aborts(w)
                                 \/ Killed(w) \/ Terminates(w)
      PROVE  LifecycleInv'
  BY <1>3, StartupFailsKeepsInv, TakesRequestKeepsInv, AbortsKeepsInv, KilledKeepsInv, TerminatesKeepsInv
<1>4. ASSUME \/ MonitorSees \/ CreationFails \/ Created \/ Started \/ ConstraintReached
             \/ AllProcessed \/ UpdatesEnd \/ Abandoned \/ ShutdownBegins \/ MessagingStops \/ Joined
      PROVE  LifecycleInv'
  BY <1>4, MonitorSeesKeepsInv, CreationFailsKeepsInv, CreatedKeepsInv, StartedKeepsInv,
     ConstraintReachedKeepsInv, AllProcessedKeepsInv, UpdatesEndKeepsInv, AbandonedKeepsInv,
     ShutdownBeginsKeepsInv, MessagingStopsKeepsInv, JoinedKeepsInv
<1> QED
  BY <1>1, <1>2, <1>3, <1>4 DEF LifecycleNext

-----------------------------------------------------------------------------
(* The theorems *)

\* Whatever the strategy, the backend and the settings allow, the processes that are
\* created have exactly max_conc slots together and none is without
\* (WorkerProcessGroup.create_processes).
LEMMA InvMeansSlotsAddUp == LifecycleInv => SlotsAddUp
<1> SUFFICES ASSUME LifecycleInv, outcome # "error" PROVE
      Cardinality(AllSlots) = concurrency /\ \A w \in Ranks : slots[w] > 0
  BY DEF SlotsAddUp
<1>1. PICK n \in Nat : /\ n <= concurrency /\ Ranks = 0 .. n - 1 /\ n > 0
                      /\ slots = [w \in Ranks |-> AsyncLimit(concurrency, n, w)]
  BY DEF LifecycleInv, Dealt
<1>2. concurrency \in Nat
  BY DEF LifecycleInv, LifecycleTypeOK
<1>3. AllSlots = {slot \in (0 .. n - 1) \X (1 .. concurrency) :
                    slot[2] <= AsyncLimit(concurrency, n, slot[1])}
  BY <1>1 DEF AllSlots
<1>4. Cardinality(AllSlots) = concurrency
  BY <1>1, <1>2, <1>3, SlotsAreDealt
<1>5. \A w \in Ranks : slots[w] > 0
  BY <1>1, <1>2, AsyncLimitInside
<1> QED
  BY <1>4, <1>5

\* A run of the scheduler keeps its order: the processes share the slots out completely,
\* start together, keep their backends under every request that is still to be reported
\* while the run goes well, and a process that failed or was killed, or a clean-up that
\* failed or took too long, is in the outcome (create_processes, start,
\* request_updates, shutdown and WorkerProcess.run).
THEOREM RunStaysOrderly == LifecycleSpec => []RunIsOrderly
<1>1. LifecycleInit => LifecycleInv
  BY InitEstablishesInv
<1>2. LifecycleInv /\ [LifecycleNext]_lifecycleVars => LifecycleInv'
  BY StepKeepsInv
<1>3. LifecycleInv => RunIsOrderly
  <2> SUFFICES ASSUME LifecycleInv
               PROVE  LifecycleTypeOK /\ StartsTogether /\ RequestsComeFirst /\ FailureIsReported
    BY InvMeansSlotsAddUp DEF RunIsOrderly
  <2> QED
    BY DEF LifecycleInv, BarrierHolds, OutcomeIsKnown, StartsTogether, FailureIsReported
<1> QED
  BY <1>1, <1>2, <1>3, PTL DEF LifecycleSpec
=============================================================================
