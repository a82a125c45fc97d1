-------------------------- MODULE WorkerGroupProofs --------------------------
(***************************************************************************)
(* Proofs about WorkerGroup, for every dataset, number of workers, slots,  *)
(* queue capacity and set of constraints: type correctness, the            *)
(* consistency of the coordinator's counts, the exactness of max_requests, *)
(* and the refinement of RequestLifecycle.                                 *)
(***************************************************************************)
EXTENDS WorkerGroup, FiniteSetTheorems, TLAPS

-----------------------------------------------------------------------------
(***************************************************************************)
(* The tracking record.                                                    *)
(***************************************************************************)

\* What holds of the record between two calls of update_state: CountsConsistent,
\* and every tracked request has been created.
Consistent(s) ==
  /\ s \in Tracking
  /\ s.queued \cap s.pending = {} /\ s.queued \cap s.processing = {}
  /\ s.pending \cap s.processing = {}
  /\ Live(s) \subseteq 1 .. s.created
  /\ s.created <= NumRequests
  /\ s.created = Cardinality(Live(s)) + s.processed
  /\ s.processed = s.successful + s.errored + s.cancelled

\* Evaluating the constraints leaves the counts alone (_update_with_constraints).
LEMMA ConstrainedConsistent ==
  ASSUME NEW s, Consistent(s), NEW t \in BOOLEAN
  PROVE  /\ Consistent(Constrained(s, t))
         /\ Constrained(s, t).created = s.created
         /\ Constrained(s, t).constraints = s.constraints
<1> DEFINE c == Constrained(s, t)
<1>1. /\ StopsQueuing(s, t) \in BOOLEAN
      /\ StopsProcessing(s, t) \in BOOLEAN
  BY DEF StopsQueuing, StopsProcessing
<1>2. /\ c \in Tracking
      /\ c.queued = s.queued /\ c.pending = s.pending /\ c.processing = s.processing
      /\ c.created = s.created /\ c.processed = s.processed
      /\ c.successful = s.successful /\ c.errored = s.errored
      /\ c.cancelled = s.cancelled /\ c.constraints = s.constraints
  BY <1>1 DEF Constrained, Consistent, Tracking
<1>3. Live(c) = Live(s)
  BY <1>2 DEF Live
<1> QED
  BY <1>2, <1>3 DEF Consistent

\* A finite set of requests: what the tracked set always is.
LEMMA LiveFinite ==
  ASSUME NEW s, Consistent(s)
  PROVE  IsFiniteSet(Live(s)) /\ Cardinality(Live(s)) \in Nat
<1>1. s.created \in Nat
  BY DEF Consistent, Tracking
<1>2. IsFiniteSet(1 .. s.created)
  BY <1>1, FS_Interval
<1>3. IsFiniteSet(Live(s))
  BY <1>2, FS_Subset DEF Consistent
<1> QED
  BY <1>3, FS_CardinalityType

\* Counting a new request keeps the record consistent (status "queued").
LEMMA QueuedConsistent ==
  ASSUME NEW s, Consistent(s), s.created < NumRequests, NEW t \in BOOLEAN
  PROVE  /\ Consistent(Updated(s, s.created + 1, "queued", t))
         /\ Updated(s, s.created + 1, "queued", t).created = s.created + 1
         /\ Updated(s, s.created + 1, "queued", t).constraints = s.constraints
<1> DEFINE n == s.created + 1
           c == Counted(s, n, "queued")
<1>1. /\ s \in Tracking /\ s.created \in Nat /\ NumRequests \in Nat
      /\ s.processed \in Nat
  BY StateAssumption DEF Consistent, Tracking
<1>2. n \in Request /\ n \in Nat /\ n = s.created + 1 /\ n <= NumRequests
  BY <1>1 DEF Request
<1>3. c = [s EXCEPT !.queued = @ \cup {n}, !.created = @ + 1]
  BY DEF Counted
<1> HIDE DEF n, c
<1>4. s.queued \cup {n} \in SUBSET Request /\ s.created + 1 \in Nat
  BY <1>1, <1>2 DEF Tracking
<1>5. c \in Tracking
  BY <1>1, <1>3, <1>4 DEF Tracking
<1>6. c.queued = s.queued \cup {n} /\ c.created = n
  BY <1>1, <1>2, <1>3 DEF Tracking
<1>7. /\ c.pending = s.pending /\ c.processing = s.processing
      /\ c.processed = s.processed /\ c.successful = s.successful
      /\ c.errored = s.errored /\ c.cancelled = s.cancelled
      /\ c.constraints = s.constraints
  BY <1>1, <1>3 DEF Tracking
<1>8. Live(c) = Live(s) \cup {n}
  BY <1>6, <1>7 DEF Live
<1>9. Live(s) \subseteq 1 .. s.created
  BY DEF Consistent
<1>10. n \notin Live(s)
  BY <1>1, <1>2, <1>9
<1>11. /\ Cardinality(Live(c)) = Cardinality(Live(s)) + 1
       /\ Cardinality(Live(s)) \in Nat
  BY <1>8, <1>10, LiveFinite, FS_AddElement
<1>12. n \notin s.queued /\ n \notin s.pending /\ n \notin s.processing
  BY <1>10 DEF Live
<1>13. Live(c) \subseteq 1 .. c.created
  BY <1>1, <1>2, <1>6, <1>8, <1>9
<1>14. c.created = Cardinality(Live(c)) + c.processed
  BY <1>1, <1>2, <1>6, <1>7, <1>11 DEF Consistent
<1>15. /\ c.queued \cap c.pending = {} /\ c.queued \cap c.processing = {}
       /\ c.pending \cap c.processing = {}
  BY <1>6, <1>7, <1>12 DEF Consistent
<1>16. c.processed = c.successful + c.errored + c.cancelled
  BY <1>7 DEF Consistent
<1>17. Consistent(c)
  BY <1>2, <1>5, <1>6, <1>13, <1>14, <1>15, <1>16 DEF Consistent
<1> QED
  BY <1>2, <1>6, <1>7, <1>17, ConstrainedConsistent DEF Updated, c, n

\* A terminal update of a tracked request moves it from the tracked to the
\* processed, under one outcome (_finalize_terminal_request).
LEMMA FinalizedConsistent ==
  ASSUME NEW s, Consistent(s), NEW r \in Request, NEW x \in TerminalStatus,
         Finalizable(s, r, x)
  PROVE  /\ Consistent(Finalized(s, r, x))
         /\ Finalized(s, r, x).created = s.created
         /\ Finalized(s, r, x).constraints = s.constraints
<1> DEFINE c == Finalized(s, r, x)
           ok == IF x = "completed" THEN s.successful + 1 ELSE s.successful
           err == IF x = "errored" THEN s.errored + 1 ELSE s.errored
           cut == IF x = "cancelled" THEN s.cancelled + 1 ELSE s.cancelled
<1>1. /\ s \in Tracking
      /\ s.created \in Nat /\ s.processed \in Nat /\ s.successful \in Nat
      /\ s.errored \in Nat /\ s.cancelled \in Nat
  BY DEF Consistent, Tracking
<1>2. c = [s EXCEPT !.queued = @ \ {r}, !.pending = @ \ {r}, !.processing = @ \ {r},
                    !.processed = @ + 1, !.successful = ok, !.errored = err,
                    !.cancelled = cut]
  BY <1>1 DEF Finalized, Tracking
<1>3. /\ ok \in Nat /\ err \in Nat /\ cut \in Nat
      /\ ok + err + cut = s.successful + s.errored + s.cancelled + 1
  BY <1>1 DEF TerminalStatus
<1> HIDE DEF c, ok, err, cut
<1>4. /\ s.queued \ {r} \in SUBSET Request /\ s.pending \ {r} \in SUBSET Request
      /\ s.processing \ {r} \in SUBSET Request /\ s.processed + 1 \in Nat
  BY <1>1 DEF Tracking
<1>5. c \in Tracking
  BY <1>1, <1>2, <1>3, <1>4 DEF Tracking
<1>6. /\ c.queued = s.queued \ {r} /\ c.pending = s.pending \ {r}
      /\ c.processing = s.processing \ {r} /\ c.processed = s.processed + 1
  BY <1>1, <1>2 DEF Tracking
<1>7. /\ c.successful = ok /\ c.errored = err /\ c.cancelled = cut
      /\ c.created = s.created /\ c.constraints = s.constraints
  BY <1>1, <1>2 DEF Tracking
<1>8. r \in Live(s)
  BY DEF Finalizable, Live
<1>9. Live(c) = Live(s) \ {r}
  BY <1>6 DEF Live
<1>10. /\ Cardinality(Live(c)) = Cardinality(Live(s)) - 1
       /\ Cardinality(Live(s)) \in Nat
  BY <1>8, <1>9, LiveFinite, FS_RemoveElement
<1>11. c.processed = c.successful + c.errored + c.cancelled
  BY <1>1, <1>3, <1>6, <1>7 DEF Consistent
<1>12. c.created = Cardinality(Live(c)) + c.processed
  BY <1>1, <1>6, <1>7, <1>10 DEF Consistent
<1>13. Live(c) \subseteq 1 .. c.created /\ c.created <= NumRequests
  BY <1>7, <1>9 DEF Consistent
<1>14. /\ c.queued \cap c.pending = {} /\ c.queued \cap c.processing = {}
       /\ c.pending \cap c.processing = {}
  BY <1>6 DEF Consistent
<1>15. Consistent(c)
  BY <1>5, <1>11, <1>12, <1>13, <1>14 DEF Consistent
<1> QED
  BY <1>7, <1>15 DEF c

\* A request that moves from one tracked set to another leaves the record
\* consistent: the two moves of _update_state_request_counts.
LEMMA MovedConsistent ==
  ASSUME NEW s, Consistent(s), NEW r \in Request, NEW c,
         \/ /\ r \in s.queued
            /\ c = [s EXCEPT !.queued = @ \ {r}, !.pending = @ \cup {r}]
         \/ /\ r \in s.pending
            /\ c = [s EXCEPT !.pending = @ \ {r}, !.processing = @ \cup {r}]
  PROVE  Consistent(c) /\ c.created = s.created /\ c.constraints = s.constraints
<1>1. s \in Tracking
  BY DEF Consistent
<1>2. /\ s.queued \ {r} \in SUBSET Request /\ s.pending \cup {r} \in SUBSET Request
      /\ s.pending \ {r} \in SUBSET Request /\ s.processing \cup {r} \in SUBSET Request
  BY <1>1 DEF Tracking
<1>3. c \in Tracking
  BY <1>1, <1>2 DEF Tracking
<1>4. /\ c.created = s.created /\ c.processed = s.processed
      /\ c.successful = s.successful /\ c.errored = s.errored
      /\ c.cancelled = s.cancelled /\ c.constraints = s.constraints
  BY <1>1 DEF Tracking
<1>5. \/ /\ r \in s.queued
         /\ c.queued = s.queued \ {r} /\ c.pending = s.pending \cup {r}
         /\ c.processing = s.processing
      \/ /\ r \in s.pending
         /\ c.queued = s.queued /\ c.pending = s.pending \ {r}
         /\ c.processing = s.processing \cup {r}
  BY <1>1 DEF Tracking
<1>6. Live(c) = Live(s)
  BY <1>5 DEF Live
<1>7. /\ c.queued \cap c.pending = {} /\ c.queued \cap c.processing = {}
      /\ c.pending \cap c.processing = {}
  BY <1>5 DEF Consistent
<1> QED
  BY <1>3, <1>4, <1>6, <1>7 DEF Consistent

\* Any update a worker may publish keeps the record consistent, whatever the
\* request and whatever has been received before it (received_callback).
LEMMA UpdateConsistent ==
  ASSUME NEW s, Consistent(s), NEW r \in Request, NEW x \in WorkerStatus, NEW t \in BOOLEAN
  PROVE  /\ Consistent(Updated(s, r, x, t))
         /\ Updated(s, r, x, t).created = s.created
         /\ Updated(s, r, x, t).constraints = s.constraints
<1> DEFINE c == Counted(s, r, x)
<1>1. x # "queued"
  BY DEF WorkerStatus, TerminalStatus
<1>2. Consistent(c) /\ c.created = s.created /\ c.constraints = s.constraints
  <2>1. CASE x = "pending" /\ r \in s.queued
    <3>1. c = [s EXCEPT !.queued = @ \ {r}, !.pending = @ \cup {r}]
      BY <2>1 DEF Counted
    <3> HIDE DEF c
    <3> QED
      BY <2>1, <3>1, MovedConsistent
  <2>2. CASE x = "in_progress" /\ r \in s.pending
    <3>1. c = [s EXCEPT !.pending = @ \ {r}, !.processing = @ \cup {r}]
      BY <2>2 DEF Counted
    <3> HIDE DEF c
    <3> QED
      BY <2>2, <3>1, MovedConsistent
  <2>3. CASE x \in TerminalStatus /\ Finalizable(s, r, x)
    <3>1. c = Finalized(s, r, x)
      BY <2>3 DEF Counted, TerminalStatus
    <3> QED
      BY <2>3, <3>1, FinalizedConsistent
  <2>4. CASE /\ ~(x = "pending" /\ r \in s.queued)
             /\ ~(x = "in_progress" /\ r \in s.pending)
             /\ ~(x \in TerminalStatus /\ Finalizable(s, r, x))
    BY <1>1, <2>4 DEF Counted
  <2> QED
    BY <2>1, <2>2, <2>3, <2>4
<1> HIDE DEF c
<1> QED
  BY <1>2, ConstrainedConsistent DEF Updated, c

\* Registering requests_exhausted keeps the record consistent.
LEMMA ExhaustedConsistent ==
  ASSUME NEW s, Consistent(s), NEW t \in BOOLEAN
  PROVE  /\ Consistent(Exhausted(s, t))
         /\ Exhausted(s, t).created = s.created
         /\ s.constraints \subseteq Exhausted(s, t).constraints
<1> DEFINE c == [s EXCEPT !.constraints = @ \cup {"requests_exhausted"}]
<1>1. /\ c \in Tracking
      /\ c.queued = s.queued /\ c.pending = s.pending /\ c.processing = s.processing
      /\ c.created = s.created /\ c.processed = s.processed
      /\ c.successful = s.successful /\ c.errored = s.errored
      /\ c.cancelled = s.cancelled /\ s.constraints \subseteq c.constraints
  BY DEF Consistent, Tracking
<1>2. Live(c) = Live(s)
  BY <1>1 DEF Live
<1>3. Consistent(c)
  BY <1>1, <1>2 DEF Consistent
<1> QED
  BY <1>1, <1>3, ConstrainedConsistent DEF Exhausted

-----------------------------------------------------------------------------
(***************************************************************************)
(* Queues and channels are used at their ends only.                        *)
(***************************************************************************)
LEMMA TakeType ==
  ASSUME NEW S, NEW q \in Seq(S), q # <<>>
  PROVE  Head(q) \in S /\ Tail(q) \in Seq(S)
OBVIOUS

LEMMA PutType ==
  ASSUME NEW S, NEW q \in Seq(S), NEW x \in S
  PROVE  Append(q, x) \in Seq(S)
OBVIOUS

-----------------------------------------------------------------------------
(***************************************************************************)
(* The inductive invariant.                                                *)
(***************************************************************************)

\* Besides the types and the counts: the generator has a node to create when it is
\* about to create one, has created one when it buffers or sends, and the callback
\* holds an update while it is at work.
IInv ==
  /\ TypeOK
  /\ Consistent(st)
  /\ genPc = "node" => st.created < NumRequests
  /\ genPc \in {"buffer", "send", "resume"} => st.created >= 1
  /\ cb.pc # "idle" => cb.update \in Update

LEMMA InitIInv == Init => IInv
<1> SUFFICES ASSUME Init PROVE IInv
  OBVIOUS
<1> USE StateAssumption, GroupAssumption
<1>1. st \in Tracking
  BY DEF Init, InitialTracking, Tracking, ConstraintNames
<1>2. Live(st) = {} /\ Cardinality(Live(st)) = 0
  BY FS_EmptySet DEF Init, InitialTracking, Live
<1>3. Consistent(st)
  <2>1. /\ st.queued = {} /\ st.pending = {} /\ st.processing = {}
        /\ st.created = 0 /\ st.processed = 0
        /\ st.successful = 0 /\ st.errored = 0 /\ st.cancelled = 0
    BY DEF Init, InitialTracking
  <2> QED
    BY <1>1, <1>2, <2>1 DEF Consistent
<1>4. cb \in Callback /\ cb.pc = "idle"
  BY DEF Init, Idle, Callback
<1>5. /\ pendingQ \in Seq(SUBSET Request) /\ buffer \in Seq(Update)
      /\ chan \in [Workers -> Seq([id : Request, status : WorkerStatus])]
  BY DEF Init
<1>6. /\ yielded \in [Request -> Status \cup {"none"}]
      /\ mode \in [Workers -> Mode] /\ fetching \in [Workers -> Fetching]
      /\ holder \in [Request -> Workers \cup {NoWorker}]
      /\ phase \in [Request -> Phase] /\ status \in [Request -> Status]
      /\ aborted \subseteq Nat
  BY DEF Init, Mode, Fetching, Phase, Status
<1>7. TypeOK
  BY <1>1, <1>4, <1>5, <1>6 DEF Init, TypeOK, GenPc, Consumer
<1> QED
  BY <1>3, <1>4, <1>7 DEF IInv, Init

\* The steps of the generator: only GeneratorQueues and GeneratorExhausts touch the
\* tracking record.
LEMMA GeneratorIInv == IInv /\ Generator => IInv'
<1> SUFFICES ASSUME IInv, Generator PROVE IInv'
  OBVIOUS
<1> USE DEF events, workerVars, genVars
<1>1. CASE GeneratorPulls
  BY <1>1 DEF IInv, TypeOK, GeneratorPulls, GenPc
<1>2. CASE GeneratorQueues
  <2>1. /\ Consistent(st') /\ st'.created = st.created + 1
    BY <1>2, QueuedConsistent DEF IInv, TypeOK, GeneratorQueues, Newest
  <2>2. genStop' \in BOOLEAN /\ st' \in Tracking /\ st'.created >= 1
    BY <1>2, <2>1 DEF IInv, TypeOK, GeneratorQueues, Consistent, Tracking
  <2> QED
    BY <1>2, <2>1, <2>2 DEF IInv, TypeOK, GeneratorQueues, GenPc
<1>3. CASE GeneratorBuffers
  <2>1. st.created \in Nat /\ NumRequests \in Nat
    BY StateAssumption DEF IInv, TypeOK, Tracking
  <2>2. Newest \in Request
    BY <1>3, <2>1 DEF IInv, Consistent, GeneratorBuffers, Newest, Request
  <2>3. buffer' \in Seq(Update)
    BY <1>3, <2>2 DEF IInv, TypeOK, GeneratorBuffers, Update, Status
  <2>4. genPc' = "node" => st.created < NumRequests
    BY <1>3, <2>1 DEF IInv, Consistent, GeneratorBuffers, EndsGraph, Newest
  <2> QED
    BY <1>3, <2>3, <2>4 DEF IInv, TypeOK, GeneratorBuffers, GenPc
<1>4. CASE GeneratorSends
  <2>1. QueuedGraph \in SUBSET Request
    BY StateAssumption DEF IInv, TypeOK, Consistent, Tracking, QueuedGraph, Newest, Request
  <2>2. pendingQ' \in Seq(SUBSET Request)
    BY <1>4, <2>1, PutType DEF IInv, TypeOK, GeneratorSends
  <2> QED
    BY <1>4, <2>2 DEF IInv, TypeOK, GeneratorSends, GenPc
<1>5. CASE GeneratorResumes
  BY <1>5 DEF IInv, TypeOK, GeneratorResumes, GenPc
<1>6. CASE GeneratorExhausts
  <2>1. Consistent(st')
    BY <1>6, ExhaustedConsistent DEF IInv, TypeOK, GeneratorExhausts
  <2>2. st' \in Tracking
    BY <2>1 DEF Consistent
  <2> QED
    BY <1>6, <2>1, <2>2 DEF IInv, TypeOK, GeneratorExhausts, GenPc
<1>7. CASE GeneratorStops
  BY <1>7 DEF IInv, TypeOK, GeneratorStops, GenPc
<1> QED
  BY <1>1, <1>2, <1>3, <1>4, <1>5, <1>6, <1>7 DEF Generator

\* The steps of the receiver: ReceiverCounts applies an arbitrary worker update.
LEMMA ReceiverIInv == IInv /\ Receiver => IInv'
<1> SUFFICES ASSUME IInv, Receiver PROVE IInv'
  OBVIOUS
<1> USE DEF events, workerVars, genVars
<1>1. ASSUME NEW w \in Workers, ReceiverCounts(w) PROVE IInv'
  <2> DEFINE update == Head(chan[w])
  <2>1. /\ chan[w] \in Seq([id : Request, status : WorkerStatus])
        /\ chan[w] # <<>>
    BY <1>1 DEF IInv, TypeOK, ReceiverCounts
  <2>2. /\ update \in [id : Request, status : WorkerStatus]
        /\ Tail(chan[w]) \in Seq([id : Request, status : WorkerStatus])
    BY <2>1, TakeType
  <2> HIDE DEF update
  <2>3. update \in Update /\ update.id \in Request /\ update.status \in WorkerStatus
    BY <2>2 DEF Update, Status
  <2>4. /\ st' = Updated(st, update.id, update.status, timeUp)
        /\ cb' = [pc |-> "check", worker |-> w, update |-> update,
                  noneQueued |-> st'.queued = {},
                  allProcessed |-> st'.processed = st'.created,
                  stopProcessing |-> st'.endProcessing]
    BY <1>1 DEF ReceiverCounts, update
  <2>5. Consistent(st') /\ st'.created = st.created
    BY <2>3, <2>4, UpdateConsistent DEF IInv, TypeOK
  <2>6. st' \in Tracking /\ st'.endProcessing \in BOOLEAN
    BY <2>5 DEF Consistent, Tracking
  <2>7. cb' \in Callback /\ cb'.update \in Update
    BY <2>3, <2>4, <2>6 DEF Callback
  <2>8. chan' \in [Workers -> Seq([id : Request, status : WorkerStatus])]
    BY <1>1, <2>2 DEF IInv, TypeOK, ReceiverCounts
  <2> QED
    BY <1>1, <2>5, <2>6, <2>7, <2>8 DEF IInv, TypeOK, ReceiverCounts
<1>2. CASE ReceiverChecks
  <2>1. cb' \in Callback /\ cb'.update = cb.update /\ cb.update \in Update
    BY <1>2 DEF IInv, TypeOK, ReceiverChecks, Callback
  <2>2. /\ requestsGenerated' \in BOOLEAN /\ constraintReached' \in BOOLEAN
        /\ shutdownEvent' \in BOOLEAN
    BY <1>2 DEF IInv, TypeOK, ReceiverChecks, Callback, GeneratedNow, ReachedNow, AllDone
  <2> QED
    BY <1>2, <2>1, <2>2 DEF IInv, TypeOK, ReceiverChecks
<1>3. CASE ReceiverBuffers
  <2>1. buffer' \in Seq(Update)
    BY <1>3 DEF IInv, TypeOK, ReceiverBuffers, Delivered
  <2>2. cb' \in Callback /\ cb'.pc = "idle"
    BY <1>3 DEF ReceiverBuffers, Idle, Callback
  <2> QED
    BY <1>3, <2>1, <2>2 DEF IInv, TypeOK, ReceiverBuffers
<1> QED
  BY <1>1, <1>2, <1>3 DEF Receiver

\* The steps of the consumer: a poll evaluates the constraints again.
LEMMA ConsumerIInv == IInv /\ ConsumerSteps => IInv'
<1> SUFFICES ASSUME IInv, ConsumerSteps PROVE IInv'
  OBVIOUS
<1> USE DEF events, workerVars, genVars, NextWait
<1>1. CASE ConsumerYields
  <2>1. /\ buffer \in Seq(Update) /\ buffer # <<>>
    BY <1>1 DEF IInv, TypeOK, ConsumerYields
  <2>2. Head(buffer) \in Update /\ buffer' \in Seq(Update)
    BY <1>1, <2>1 DEF ConsumerYields
  <2>3. yielded' \in [Request -> Status \cup {"none"}]
    BY <1>1, <2>2 DEF IInv, TypeOK, ConsumerYields, Update
  <2> QED
    BY <1>1, <2>2, <2>3 DEF IInv, TypeOK, ConsumerYields, Consumer
<1>2. CASE ConsumerTimesOut
  BY <1>2 DEF IInv, TypeOK, ConsumerTimesOut, Consumer
<1>3. CASE ConsumerFinishes
  BY <1>3 DEF IInv, TypeOK, ConsumerFinishes, Consumer
<1>4. CASE ConsumerPolls
  <2>1. Consistent(st') /\ st'.created = st.created
    BY <1>4, ConstrainedConsistent DEF IInv, TypeOK, ConsumerPolls
  <2>2. st' \in Tracking
    BY <2>1 DEF Consistent
  <2> QED
    BY <1>4, <2>1, <2>2 DEF IInv, TypeOK, ConsumerPolls, Consumer
<1>5. CASE ConsumerSetsConstraint
  BY <1>5 DEF IInv, TypeOK, ConsumerSetsConstraint, Consumer
<1>6. CASE ConsumerSetsStop
  BY <1>6 DEF IInv, TypeOK, ConsumerSetsStop, Consumer
<1> QED
  BY <1>1, <1>2, <1>3, <1>4, <1>5, <1>6 DEF ConsumerSteps

\* What _send_update puts on a worker's stream is a sequence of worker updates.
WorkerUpdate == [id : Request, status : WorkerStatus]

LEMMA PublicationType ==
  ASSUME NEW r \in Request, NEW new \in WorkerStatus
  PROVE  Publication(r, new) \in Seq(WorkerUpdate)
<1> DEFINE u == [id |-> r, status |-> new]
<1>1. u \in WorkerUpdate
  BY DEF WorkerUpdate
<1> HIDE DEF u
<1>2. <<u>> \in Seq(WorkerUpdate) /\ <<>> \in Seq(WorkerUpdate)
  BY <1>1
<1> QED
  BY <1>2 DEF Publication, u

LEMMA CancellationsType ==
  ASSUME NEW S \in SUBSET Request, NEW order \in CancelOrders(S)
  PROVE  Cancellations(order) \in Seq(WorkerUpdate)
<1>1. IsFiniteSet(Request)
  BY StateAssumption, FS_Interval DEF Request
<1>2. IsFiniteSet(S)
  BY <1>1, FS_Subset
<1>3. Cardinality(S) \in Nat
  BY <1>2, FS_CardinalityType
<1> DEFINE n == Cardinality(S)
<1>4. order \in [1 .. n -> S]
  BY DEF CancelOrders
<1> HIDE DEF n
<1>5. n \in Nat
  BY <1>3 DEF n
<1>6. Cancellations(order) \in [1 .. n -> WorkerUpdate]
  BY <1>4 DEF Cancellations, WorkerUpdate, WorkerStatus, TerminalStatus
<1> QED
  BY <1>5, <1>6

\* Publish appends one update at most and sets the request's status.
LEMMA PublishType ==
  ASSUME IInv, NEW w \in Workers, NEW r \in Request, NEW new \in WorkerStatus,
         Publish(w, r, new)
  PROVE  /\ chan' \in [Workers -> Seq([id : Request, status : WorkerStatus])]
         /\ status' \in [Request -> Status]
<1>1. /\ chan \in [Workers -> Seq(WorkerUpdate)]
      /\ status \in [Request -> Status]
  BY DEF IInv, TypeOK, WorkerUpdate
<1>2. Publication(r, new) \in Seq(WorkerUpdate)
  BY PublicationType
<1>3. chan[w] \o Publication(r, new) \in Seq(WorkerUpdate)
  BY <1>1, <1>2
<1>4. chan' \in [Workers -> Seq(WorkerUpdate)]
  BY <1>1, <1>3 DEF Publish
<1>5. status' \in [Request -> Status]
  BY <1>1 DEF Publish, Status
<1> QED
  BY <1>4, <1>5 DEF WorkerUpdate

\* So do a report and the cancellations that an abort sends after it.
LEMMA EndsAndAbortsType ==
  ASSUME IInv, NEW w \in Workers, NEW r \in Request, NEW new \in WorkerStatus,
         EndsAndAborts(w, r, new)
  PROVE  /\ chan' \in [Workers -> Seq([id : Request, status : WorkerStatus])]
         /\ status' \in [Request -> Status]
         /\ phase' \in [Request -> Phase]
         /\ aborted' \subseteq Nat
<1> DEFINE rest == {x \in Nodes(w, GraphOf[r]) \ {r} :
                      phase[x] # "completed" /\ status[x] # "cancelled"}
<1>1. /\ chan \in [Workers -> Seq(WorkerUpdate)]
      /\ status \in [Request -> Status]
      /\ phase \in [Request -> Phase]
      /\ aborted \subseteq Nat
  BY DEF IInv, TypeOK, WorkerUpdate
<1>2. rest \in SUBSET Request
  BY DEF Nodes
<1> HIDE DEF rest
<1>3. PICK order \in CancelOrders(rest) :
        chan' = [chan EXCEPT ![w] = @ \o Publication(r, new) \o Cancellations(order)]
  BY DEF EndsAndAborts, rest
<1>4. /\ Publication(r, new) \in Seq(WorkerUpdate)
      /\ Cancellations(order) \in Seq(WorkerUpdate)
  BY <1>2, <1>3, PublicationType, CancellationsType
<1>5. chan[w] \o Publication(r, new) \o Cancellations(order) \in Seq(WorkerUpdate)
  BY <1>1, <1>4
<1>6. chan' \in [Workers -> Seq(WorkerUpdate)]
  BY <1>1, <1>3, <1>5
<1>7. status' \in [Request -> Status] /\ phase' \in [Request -> Phase]
  BY <1>1 DEF EndsAndAborts, Status, WorkerStatus, TerminalStatus, Phase
<1>8. aborted' \subseteq Nat
  <2>1. GraphOf[r] \in Nat
    BY GroupAssumption
  <2>2. aborted' = aborted \cup {GraphOf[r]}
    BY DEF EndsAndAborts
  <2> QED
    BY <1>1, <2>1, <2>2
<1> QED
  BY <1>6, <1>7, <1>8 DEF WorkerUpdate

\* The steps of worker w.
WorkerStep(w) ==
  \/ WorkerFetches(w) \/ WorkerFindsEmpty(w) \/ WorkerStopsFetching(w)
  \/ WorkerSeesConstraint(w) \/ WorkerSweeps(w) \/ WorkerExits(w) \/ WorkerDies(w)

SlotStep(w, r) ==
  \/ SlotProgress(w, r) \/ SlotRetargets(w, r) \/ SlotStreams(w, r) \/ SlotFails(w, r)

\* What no step of a slot changes.
SlotFrame ==
  UNCHANGED <<st, timeUp, genVars, pendingQ, events, cb, buffer, consumer, yielded,
              mode, fetching, holder>>

\* The other variables only have a type to keep.
LEMMA SlotFrameIInv ==
  ASSUME IInv, SlotFrame,
         chan' \in [Workers -> Seq([id : Request, status : WorkerStatus])],
         status' \in [Request -> Status], phase' \in [Request -> Phase], aborted' \subseteq Nat
  PROVE  IInv'
BY DEF IInv, TypeOK, SlotFrame, events, genVars

\* The steps of a slot leave the coordinator's record alone.
LEMMA SlotIInv ==
  ASSUME IInv, NEW w \in Workers, NEW r \in Request, SlotStep(w, r)
  PROVE  IInv'
<1>0. {"pending", "in_progress", "first_token", "completed", "errored", "cancelled"}
        \subseteq WorkerStatus
  BY DEF WorkerStatus, TerminalStatus
<1>9. phase \in [Request -> Phase] /\ aborted \subseteq Nat
  BY DEF IInv, TypeOK
<1>1. CASE SlotClaims(w, r)
  <2>1. SlotFrame /\ aborted' = aborted
    BY <1>1 DEF SlotClaims, SlotFrame
  <2>2. phase' \in [Request -> Phase]
    BY <1>1, <1>9 DEF SlotClaims, Phase
  <2>3. Publish(w, r, "pending")
    BY <1>1 DEF SlotClaims
  <2>4. /\ chan' \in [Workers -> Seq([id : Request, status : WorkerStatus])]
        /\ status' \in [Request -> Status]
    BY <1>0, <2>3, PublishType
  <2> QED
    BY <1>9, <2>1, <2>2, <2>4, SlotFrameIInv
<1>2. CASE SlotStarts(w, r)
  <2>1. SlotFrame /\ aborted' = aborted
    BY <1>2 DEF SlotStarts, SlotFrame
  <2>2. phase' \in [Request -> Phase]
    BY <1>2, <1>9 DEF SlotStarts, Phase
  <2>3. Publish(w, r, "in_progress")
    BY <1>2 DEF SlotStarts
  <2>4. /\ chan' \in [Workers -> Seq([id : Request, status : WorkerStatus])]
        /\ status' \in [Request -> Status]
    BY <1>0, <2>3, PublishType
  <2> QED
    BY <1>9, <2>1, <2>2, <2>4, SlotFrameIInv
<1>3. CASE SlotCompletes(w, r)
  <2>1. SlotFrame /\ aborted' = aborted
    BY <1>3 DEF SlotCompletes, SlotFrame
  <2>2. phase' \in [Request -> Phase]
    BY <1>3, <1>9 DEF SlotCompletes, Phase
  <2>3. Publish(w, r, "completed")
    BY <1>3 DEF SlotCompletes
  <2>4. /\ chan' \in [Workers -> Seq([id : Request, status : WorkerStatus])]
        /\ status' \in [Request -> Status]
    BY <1>0, <2>3, PublishType
  <2> QED
    BY <1>9, <2>1, <2>2, <2>4, SlotFrameIInv
<1>4. CASE SlotCancelled(w, r)
  <2>1. SlotFrame
    BY <1>4 DEF SlotCancelled, SlotFrame
  <2>2. EndsAndAborts(w, r, "cancelled")
    BY <1>4 DEF SlotCancelled
  <2>3. /\ chan' \in [Workers -> Seq([id : Request, status : WorkerStatus])]
        /\ status' \in [Request -> Status] /\ phase' \in [Request -> Phase]
        /\ aborted' \subseteq Nat
    BY <1>0, <2>2, EndsAndAbortsType
  <2> QED
    BY <2>1, <2>3, SlotFrameIInv
<1>5. CASE SlotRetargets(w, r)
  <2>1. SlotFrame /\ aborted' = aborted
    BY <1>5 DEF SlotRetargets, SlotFrame
  <2>2. phase' \in [Request -> Phase]
    BY <1>5, <1>9 DEF SlotRetargets
  <2>3. Publish(w, r, "pending")
    BY <1>5 DEF SlotRetargets
  <2>4. /\ chan' \in [Workers -> Seq([id : Request, status : WorkerStatus])]
        /\ status' \in [Request -> Status]
    BY <1>0, <2>3, PublishType
  <2> QED
    BY <1>9, <2>1, <2>2, <2>4, SlotFrameIInv
<1>6. CASE SlotStreams(w, r)
  <2>1. SlotFrame /\ aborted' = aborted
    BY <1>6 DEF SlotStreams, SlotFrame
  <2>2. phase' \in [Request -> Phase]
    BY <1>6, <1>9 DEF SlotStreams
  <2>3. Publish(w, r, "first_token")
    BY <1>6 DEF SlotStreams
  <2>4. /\ chan' \in [Workers -> Seq([id : Request, status : WorkerStatus])]
        /\ status' \in [Request -> Status]
    BY <1>0, <2>3, PublishType
  <2> QED
    BY <1>9, <2>1, <2>2, <2>4, SlotFrameIInv
<1>7. CASE SlotFails(w, r)
  <2>1. SlotFrame
    BY <1>7 DEF SlotFails, SlotFrame
  <2>2. EndsAndAborts(w, r, "errored")
    BY <1>7 DEF SlotFails
  <2>3. /\ chan' \in [Workers -> Seq([id : Request, status : WorkerStatus])]
        /\ status' \in [Request -> Status] /\ phase' \in [Request -> Phase]
        /\ aborted' \subseteq Nat
    BY <1>0, <2>2, EndsAndAbortsType
  <2> QED
    BY <2>1, <2>3, SlotFrameIInv
<1> QED
  BY <1>1, <1>2, <1>3, <1>4, <1>5, <1>6, <1>7 DEF SlotStep, SlotProgress

\* Neither do the worker's own tasks.
LEMMA WorkerIInv ==
  ASSUME IInv, NEW w \in Workers, WorkerStep(w)
  PROVE  IInv'
<1> USE DEF events, workerVars, genVars
<1>1. CASE WorkerFetches(w)
  <2>1. Tail(pendingQ) \in Seq(SUBSET Request)
    BY <1>1, TakeType DEF IInv, TypeOK, WorkerFetches
  <2>2. /\ holder' \in [Request -> Workers \cup {NoWorker}]
        /\ phase' \in [Request -> Phase]
        /\ fetching' \in [Workers -> Fetching]
    BY <1>1 DEF IInv, TypeOK, WorkerFetches, Phase, Fetching
  <2> QED
    BY <1>1, <2>1, <2>2 DEF IInv, TypeOK, WorkerFetches
<1>2. CASE WorkerStopsFetching(w)
  BY <1>2 DEF IInv, TypeOK, WorkerStopsFetching, Fetching
<1>3. CASE WorkerSeesConstraint(w)
  BY <1>3 DEF IInv, TypeOK, WorkerSeesConstraint, Mode
<1>4. CASE WorkerSweeps(w)
  <2>1. chan \in [Workers -> Seq(WorkerUpdate)]
    BY DEF IInv, TypeOK, WorkerUpdate
  <2>2. Unfinished(w) \in SUBSET Request
    BY DEF Unfinished
  <2>3. PICK order \in CancelOrders(Unfinished(w)) :
          chan' = [chan EXCEPT ![w] = @ \o Cancellations(order)]
    BY <1>4 DEF WorkerSweeps
  <2>4. Cancellations(order) \in Seq(WorkerUpdate)
    BY <2>2, <2>3, CancellationsType
  <2>5. chan' \in [Workers -> Seq(WorkerUpdate)]
    BY <2>1, <2>3, <2>4
  <2>6. /\ mode' \in [Workers -> Mode] /\ status' \in [Request -> Status]
        /\ phase' \in [Request -> Phase]
    BY <1>4 DEF IInv, TypeOK, WorkerSweeps, Mode, Status, WorkerStatus, TerminalStatus, Phase
  <2> QED
    BY <1>4, <2>5, <2>6 DEF IInv, TypeOK, WorkerSweeps, WorkerUpdate
<1>5. CASE WorkerExits(w)
  BY <1>5 DEF IInv, TypeOK, WorkerExits, Mode
<1>6. CASE WorkerDies(w)
  <2>1. chan \in [Workers -> Seq(WorkerUpdate)]
    BY DEF IInv, TypeOK, WorkerUpdate
  <2>2. PICK sent \in 0 .. Len(chan[w]) :
          chan' = [chan EXCEPT ![w] = SubSeq(@, 1, sent)]
    BY <1>6 DEF WorkerDies
  <2>3. SubSeq(chan[w], 1, sent) \in Seq(WorkerUpdate)
    BY <2>1
  <2>4. chan' \in [Workers -> Seq(WorkerUpdate)]
    BY <2>1, <2>2, <2>3
  <2> QED
    BY <1>6, <2>4 DEF IInv, TypeOK, WorkerDies, WorkerUpdate, Mode
<1>7. CASE WorkerFindsEmpty(w)
  BY <1>7 DEF IInv, TypeOK, WorkerFindsEmpty, Fetching
<1> QED
  BY <1>1, <1>2, <1>3, <1>4, <1>5, <1>6, <1>7 DEF WorkerStep

\* The monitor and the clock touch one flag each.
LEMMA EnvironmentIInv == IInv /\ (MonitorFindsDead \/ TimePasses) => IInv'
<1> USE DEF events, workerVars, genVars
<1>1. ASSUME IInv, MonitorFindsDead PROVE IInv'
  BY <1>1 DEF IInv, TypeOK, MonitorFindsDead
<1>2. ASSUME IInv, TimePasses PROVE IInv'
  BY <1>2 DEF IInv, TypeOK, TimePasses
<1> QED
  BY <1>1, <1>2

LEMMA StepIInv == IInv /\ [Next]_vars => IInv'
<1> SUFFICES ASSUME IInv, [Next]_vars PROVE IInv'
  OBVIOUS
<1>1. CASE UNCHANGED vars
  BY <1>1 DEF IInv, TypeOK, vars, events, workerVars, genVars
<1>2. CASE Generator
  BY <1>2, GeneratorIInv
<1>3. CASE Receiver
  BY <1>3, ReceiverIInv
<1>4. CASE ConsumerSteps
  BY <1>4, ConsumerIInv
<1>5. CASE MonitorFindsDead \/ TimePasses
  BY <1>5, EnvironmentIInv
<1>6. ASSUME NEW w \in Workers, WorkerStep(w) PROVE IInv'
  BY <1>6, WorkerIInv
<1>7. ASSUME NEW w \in Workers, NEW r \in Request, SlotStep(w, r) PROVE IInv'
  BY <1>7, SlotIInv
<1> QED
  BY <1>1, <1>2, <1>3, <1>4, <1>5, <1>6, <1>7 DEF Next, Ended, WorkerStep, SlotStep

THEOREM Invariant == Spec => []IInv
BY InitIInv, StepIInv, PTL DEF Spec

-----------------------------------------------------------------------------
(***************************************************************************)
(* The results.                                                            *)
(***************************************************************************)

\* Type correctness of the whole group, for every dataset and number of workers.
THEOREM TypeCorrect == Spec => []TypeOK
<1>1. IInv => TypeOK
  BY DEF IInv
<1> QED
  BY <1>1, Invariant, PTL

\* However the updates of the workers race, repeat or come late, the coordinator's
\* three id sets stay disjoint and its counters count every request exactly once.
THEOREM CountsAreConsistent == Spec => []CountsConsistent
<1>1. IInv => CountsConsistent
  BY DEF IInv, Consistent, CountsConsistent
<1> QED
  BY <1>1, Invariant, PTL

\* The tracking of the coordinator is sound, whatever the size of the group.
THEOREM TrackingStaysSound == Spec => []TrackingIsSound
<1>1. TypeOK /\ CountsConsistent => TrackingIsSound
  BY DEF TrackingIsSound
<1> QED
  BY <1>1, TypeCorrect, CountsAreConsistent, PTL

-----------------------------------------------------------------------------
(***************************************************************************)
(* max_requests is exact.                                                  *)
(***************************************************************************)

\* While the generator can go on to create a request, the limit is not reached:
\* its stop_queueing is the answer of the update that counted the last request.
BelowLimit ==
  "max_requests" \in Constraints =>
    /\ "max_requests" \in st.constraints
    /\ st.created <= MaxRequests
    /\ genPc \in {"pull", "node"} => st.created < MaxRequests
    /\ genPc \in {"buffer", "send", "resume"} /\ ~genStop => st.created < MaxRequests

\* The answer to a "queued" update is to stop once the limit is reached.
LEMMA StopAtLimit ==
  ASSUME NEW s, Consistent(s), s.created < NumRequests, NEW t \in BOOLEAN,
         "max_requests" \in s.constraints, s.created + 1 >= MaxRequests
  PROVE  Updated(s, s.created + 1, "queued", t).endQueuing
<1> DEFINE c == Counted(s, s.created + 1, "queued")
<1>1. c = [s EXCEPT !.queued = @ \cup {s.created + 1}, !.created = @ + 1]
  BY DEF Counted
<1> HIDE DEF c
<1>2. c.created = s.created + 1 /\ c.constraints = s.constraints
  BY <1>1 DEF Consistent, Tracking
<1>3. StopsQueuing(c, t)
  BY <1>2 DEF StopsQueuing
<1>4. Constrained(c, t).endQueuing
  BY <1>1, <1>3 DEF Constrained, Consistent, Tracking
<1> QED
  BY <1>4 DEF Updated, c

LEMMA StepBelowLimit == IInv /\ BelowLimit /\ [Next]_vars => BelowLimit'
<1> SUFFICES ASSUME IInv, BelowLimit, [Next]_vars, "max_requests" \in Constraints
             PROVE  BelowLimit'
  BY DEF BelowLimit
<1> USE DEF events, workerVars, genVars
<1>1. st.created \in Nat /\ MaxRequests \in Nat /\ st \in Tracking
  BY StateAssumption DEF IInv, TypeOK, Tracking
<1>2. CASE GeneratorQueues
  <2>1. /\ st' = Updated(st, st.created + 1, "queued", timeUp)
        /\ genStop' = st'.endQueuing /\ genPc' = "buffer"
        /\ st.created < NumRequests /\ st.created < MaxRequests
        /\ "max_requests" \in st.constraints
    BY <1>2 DEF GeneratorQueues, Newest, IInv, BelowLimit
  <2>2. st'.created = st.created + 1 /\ st'.constraints = st.constraints
    BY <2>1, QueuedConsistent DEF IInv, TypeOK
  <2>3. st'.created >= MaxRequests => genStop'
    BY <1>1, <2>1, <2>2, StopAtLimit DEF IInv, TypeOK
  <2> QED
    BY <1>1, <2>1, <2>2, <2>3 DEF BelowLimit
<1>3. CASE GeneratorExhausts
  <2>1. st'.created = st.created /\ st.constraints \subseteq st'.constraints
    BY <1>3, ExhaustedConsistent DEF GeneratorExhausts, IInv, TypeOK
  <2> QED
    BY <1>3, <2>1 DEF BelowLimit, GeneratorExhausts
<1>4. CASE GeneratorPulls \/ GeneratorBuffers \/ GeneratorSends \/ GeneratorResumes
           \/ GeneratorStops
  BY <1>4 DEF BelowLimit, GeneratorPulls, GeneratorBuffers, GeneratorSends, GeneratorResumes,
              GeneratorStops
<1>5. ASSUME NEW w \in Workers, ReceiverCounts(w) PROVE BelowLimit'
  <2> DEFINE update == Head(chan[w])
  <2>1. /\ chan[w] \in Seq([id : Request, status : WorkerStatus])
        /\ chan[w] # <<>>
    BY <1>5 DEF IInv, TypeOK, ReceiverCounts
  <2>2. update \in [id : Request, status : WorkerStatus]
    BY <2>1, TakeType
  <2>3. st' = Updated(st, update.id, update.status, timeUp)
    BY <1>5 DEF ReceiverCounts
  <2> HIDE DEF update
  <2>4. update.id \in Request /\ update.status \in WorkerStatus
    BY <2>2
  <2>5. st'.created = st.created /\ st'.constraints = st.constraints
    BY <2>3, <2>4, UpdateConsistent DEF IInv, TypeOK
  <2> QED
    BY <1>5, <2>5 DEF BelowLimit, ReceiverCounts
<1>6. CASE ConsumerPolls
  <2>1. st'.created = st.created /\ st'.constraints = st.constraints
    BY <1>6, ConstrainedConsistent DEF ConsumerPolls, IInv, TypeOK
  <2> QED
    BY <1>6, <2>1 DEF BelowLimit, ConsumerPolls
<1>7. CASE UNCHANGED <<st, genPc, genStop>>
  BY <1>7 DEF BelowLimit
<1>8. ReceiverChecks \/ ReceiverBuffers => UNCHANGED <<st, genPc, genStop>>
  BY DEF ReceiverChecks, ReceiverBuffers
<1>9. ConsumerYields \/ ConsumerTimesOut \/ ConsumerFinishes \/ ConsumerSetsConstraint
        \/ ConsumerSetsStop => UNCHANGED <<st, genPc, genStop>>
  BY DEF ConsumerYields, ConsumerTimesOut, ConsumerFinishes, ConsumerSetsConstraint,
         ConsumerSetsStop
<1>10. MonitorFindsDead \/ TimePasses => UNCHANGED <<st, genPc, genStop>>
  BY DEF MonitorFindsDead, TimePasses
<1>11. ASSUME NEW w \in Workers, WorkerStep(w) PROVE UNCHANGED <<st, genPc, genStop>>
  BY <1>11 DEF WorkerStep, WorkerFetches, WorkerFindsEmpty, WorkerStopsFetching,
               WorkerSeesConstraint,
               WorkerSweeps, WorkerExits, WorkerDies
<1>12. ASSUME NEW w \in Workers, NEW r \in Request, SlotStep(w, r)
       PROVE  UNCHANGED <<st, genPc, genStop>>
  BY <1>12 DEF SlotStep, SlotProgress, SlotClaims, SlotStarts, SlotCompletes, SlotCancelled,
               SlotRetargets, SlotStreams, SlotFails
<1>13. UNCHANGED vars => UNCHANGED <<st, genPc, genStop>>
  BY DEF vars
<1> QED
  BY <1>2, <1>3, <1>4, <1>5, <1>6, <1>7, <1>8, <1>9, <1>10, <1>11, <1>12, <1>13
     DEF Next, Generator, Receiver, ConsumerSteps, Ended, WorkerStep, SlotStep

\* max_requests is exact for every dataset, even when the limit falls inside a
\* conversation: the generator never creates a request beyond it.
THEOREM MaxRequestsExact == Spec => []NeverExceedsMaxRequests
<1>1. Init => BelowLimit
  BY StateAssumption DEF Init, InitialTracking, BelowLimit
<1>2. BelowLimit => NeverExceedsMaxRequests
  BY DEF BelowLimit, NeverExceedsMaxRequests
<1> QED
  BY <1>1, <1>2, Invariant, StepBelowLimit, PTL DEF Spec

-----------------------------------------------------------------------------
(***************************************************************************)
(* WorkerGroup implements RequestLifecycle: every step of the              *)
(* coordinator's threads and of the workers is one step of one request's   *)
(* life, or a stutter.                                                     *)
(***************************************************************************)

\* What the life of a request is computed from.
SameRequests(s, c) ==
  /\ c.queued = s.queued /\ c.pending = s.pending /\ c.processing = s.processing
  /\ c.created = s.created
  /\ c.successful = s.successful /\ c.errored = s.errored /\ c.cancelled = s.cancelled

LEMMA SameLife ==
  ASSUME NEW s, NEW c, SameRequests(s, c)
  PROVE  LifeOf(c) = LifeOf(s) /\ OutcomesOf(c) = OutcomesOf(s)
BY DEF SameRequests, LifeOf, OutcomesOf

\* The constraints decide when to stop, never what becomes of a request.
LEMMA ConstrainedLife ==
  ASSUME NEW s \in Tracking, NEW t
  PROVE  /\ LifeOf(Constrained(s, t)) = LifeOf(s)
         /\ OutcomesOf(Constrained(s, t)) = OutcomesOf(s)
<1>1. SameRequests(s, Constrained(s, t))
  BY DEF Constrained, SameRequests, Tracking
<1> QED
  BY <1>1, SameLife

\* A "queued" update creates the next request.
LEMMA CreatedLife ==
  ASSUME NEW s, Consistent(s), s.created < NumRequests, NEW t \in BOOLEAN, NEW c, NEW n,
         n = s.created + 1, c = Updated(s, n, "queued", t)
  PROVE  /\ n \in Request
         /\ LifeOf(s)[n] = "new"
         /\ \A earlier \in Request : earlier < n => LifeOf(s)[earlier] # "new"
         /\ LifeOf(c) = [LifeOf(s) EXCEPT ![n] = "queued"]
         /\ OutcomesOf(c) = OutcomesOf(s)
<1> DEFINE k == Counted(s, n, "queued")
<1>1. /\ s \in Tracking /\ s.created \in Nat /\ NumRequests \in Nat
      /\ Live(s) \subseteq 1 .. s.created
  BY StateAssumption DEF Consistent, Tracking
<1>2. n \in Request /\ n \notin Live(s)
  BY <1>1 DEF Request
<1>3. k = [s EXCEPT !.queued = @ \cup {n}, !.created = @ + 1]
  BY DEF Counted
<1> HIDE DEF k
<1>4. /\ k \in Tracking
      /\ k.queued = s.queued \cup {n} /\ k.created = n
      /\ k.pending = s.pending /\ k.processing = s.processing
      /\ k.successful = s.successful /\ k.errored = s.errored
      /\ k.cancelled = s.cancelled
  <2>1. s.queued \cup {n} \in SUBSET Request /\ s.created + 1 \in Nat
    BY <1>1, <1>2 DEF Tracking
  <2> QED
    BY <1>1, <1>3, <2>1 DEF Tracking
<1>5. LifeOf(s)[n] = "new"
  BY <1>1, <1>2 DEF LifeOf, Live
<1>6. \A earlier \in Request : earlier < n => LifeOf(s)[earlier] # "new"
  BY <1>1 DEF LifeOf, Request
<1>7. LifeOf(k) = [LifeOf(s) EXCEPT ![n] = "queued"]
  <2>1. ASSUME NEW r \in Request, r # n PROVE r <= n <=> r <= s.created
    BY <1>1, <2>1 DEF Request
  <2> QED
    BY <1>2, <1>4, <2>1 DEF LifeOf
<1>8. OutcomesOf(k) = OutcomesOf(s)
  BY <1>4 DEF OutcomesOf
<1>9. c = Constrained(k, t)
  BY DEF Updated, k
<1>10. LifeOf(c) = LifeOf(k) /\ OutcomesOf(c) = OutcomesOf(k)
  BY <1>4, <1>9, ConstrainedLife
<1> QED
  BY <1>2, <1>5, <1>6, <1>7, <1>8, <1>10

\* One request's life moves on one stage, or ends under one outcome.
Advances(s, c, r) ==
  \/ /\ LifeOf(s)[r] = "queued" /\ LifeOf(c) = [LifeOf(s) EXCEPT ![r] = "pending"]
     /\ OutcomesOf(c) = OutcomesOf(s)
  \/ /\ LifeOf(s)[r] = "pending" /\ LifeOf(c) = [LifeOf(s) EXCEPT ![r] = "processing"]
     /\ OutcomesOf(c) = OutcomesOf(s)

Ends(s, c, r, o) ==
  /\ LifeOf(s)[r] \in {"queued", "pending", "processing"}
  /\ o = "completed" => LifeOf(s)[r] = "processing"
  /\ LifeOf(c) = [LifeOf(s) EXCEPT ![r] = "done"]
  /\ OutcomesOf(c) = [OutcomesOf(s) EXCEPT ![o] = @ + 1]

\* A request taken from one id set to the next moves on one stage.
LEMMA MovedLife ==
  ASSUME NEW s, Consistent(s), NEW r \in Request, NEW c,
         \/ /\ r \in s.queued
            /\ c = [s EXCEPT !.queued = @ \ {r}, !.pending = @ \cup {r}]
         \/ /\ r \in s.pending
            /\ c = [s EXCEPT !.pending = @ \ {r}, !.processing = @ \cup {r}]
  PROVE  Advances(s, c, r)
<1>1. s \in Tracking /\ s.queued \cap s.pending = {}
  BY DEF Consistent
<1>2. /\ c.created = s.created /\ c.successful = s.successful
      /\ c.errored = s.errored /\ c.cancelled = s.cancelled
  BY <1>1 DEF Tracking
<1>3. \/ /\ r \in s.queued
         /\ c.queued = s.queued \ {r} /\ c.pending = s.pending \cup {r}
         /\ c.processing = s.processing
      \/ /\ r \in s.pending
         /\ c.queued = s.queued /\ c.pending = s.pending \ {r}
         /\ c.processing = s.processing \cup {r}
  BY <1>1 DEF Tracking
<1>4. OutcomesOf(c) = OutcomesOf(s)
  BY <1>2 DEF OutcomesOf
<1>5. \/ LifeOf(s)[r] = "queued" /\ LifeOf(c) = [LifeOf(s) EXCEPT ![r] = "pending"]
      \/ LifeOf(s)[r] = "pending" /\ LifeOf(c) = [LifeOf(s) EXCEPT ![r] = "processing"]
  BY <1>1, <1>2, <1>3 DEF LifeOf
<1> QED
  BY <1>4, <1>5 DEF Advances

\* A terminal update of a tracked request ends it, under the outcome it names.
LEMMA FinalizedLife ==
  ASSUME NEW s, Consistent(s), NEW r \in Request, NEW o \in TerminalStatus,
         Finalizable(s, r, o)
  PROVE  Ends(s, Finalized(s, r, o), r, o)
<1> DEFINE c == Finalized(s, r, o)
<1>1. /\ s \in Tracking /\ Live(s) \subseteq 1 .. s.created
      /\ s.queued \cap s.processing = {} /\ s.pending \cap s.processing = {}
      /\ s.created \in Nat
      /\ s.successful \in Nat /\ s.errored \in Nat /\ s.cancelled \in Nat
  BY DEF Consistent, Tracking
<1>2. /\ c.queued = s.queued \ {r} /\ c.pending = s.pending \ {r}
      /\ c.processing = s.processing \ {r} /\ c.created = s.created
  BY <1>1 DEF Finalized, Tracking
<1>3. /\ c.successful = IF o = "completed" THEN s.successful + 1 ELSE s.successful
      /\ c.errored = IF o = "errored" THEN s.errored + 1 ELSE s.errored
      /\ c.cancelled = IF o = "cancelled" THEN s.cancelled + 1 ELSE s.cancelled
  BY <1>1 DEF Finalized, Tracking
<1> HIDE DEF c
<1>4. r \in Live(s) /\ r <= s.created
  BY <1>1 DEF Finalizable, Live
<1>5. LifeOf(s)[r] \in {"queued", "pending", "processing"}
  BY <1>4 DEF LifeOf, Live
<1>6. o = "completed" => LifeOf(s)[r] = "processing"
  BY <1>1 DEF Finalizable, LifeOf
<1>7. LifeOf(c) = [LifeOf(s) EXCEPT ![r] = "done"]
  BY <1>2, <1>4 DEF LifeOf
<1>8. OutcomesOf(c) = [OutcomesOf(s) EXCEPT ![o] = @ + 1]
  BY <1>3 DEF OutcomesOf, TerminalStatus
<1> QED
  BY <1>5, <1>6, <1>7, <1>8 DEF Ends, c

\* Whatever a worker publishes, the request it names moves on, ends, or is left alone.
LEMMA UpdatedLife ==
  ASSUME NEW s, Consistent(s), NEW r \in Request, NEW x \in WorkerStatus,
         NEW t \in BOOLEAN, NEW c, c = Updated(s, r, x, t)
  PROVE  \/ LifeOf(c) = LifeOf(s) /\ OutcomesOf(c) = OutcomesOf(s)
         \/ Advances(s, c, r)
         \/ \E o \in TerminalStatus : Ends(s, c, r, o)
<1> DEFINE k == Counted(s, r, x)
<1>1. k \in Tracking
  <2>1. x # "queued" /\ s \in Tracking
    BY DEF WorkerStatus, TerminalStatus, Consistent
  <2>2. CASE x = "pending" /\ r \in s.queued
    <3>1. k = [s EXCEPT !.queued = @ \ {r}, !.pending = @ \cup {r}]
      BY <2>2 DEF Counted
    <3> HIDE DEF k
    <3> QED
      BY <2>2, <3>1, MovedConsistent DEF Consistent
  <2>3. CASE x = "in_progress" /\ r \in s.pending
    <3>1. k = [s EXCEPT !.pending = @ \ {r}, !.processing = @ \cup {r}]
      BY <2>3 DEF Counted
    <3> HIDE DEF k
    <3> QED
      BY <2>3, <3>1, MovedConsistent DEF Consistent
  <2>4. CASE x \in TerminalStatus /\ Finalizable(s, r, x)
    <3>1. k = Finalized(s, r, x)
      BY <2>4 DEF Counted, TerminalStatus
    <3> QED
      BY <2>4, <3>1, FinalizedConsistent DEF Consistent
  <2> QED
    BY <2>1, <2>2, <2>3, <2>4 DEF Counted
<1>2. LifeOf(c) = LifeOf(k) /\ OutcomesOf(c) = OutcomesOf(k)
  BY <1>1, ConstrainedLife DEF Updated
<1>3. CASE x = "pending" /\ r \in s.queued
  <2>1. k = [s EXCEPT !.queued = @ \ {r}, !.pending = @ \cup {r}]
    BY <1>3 DEF Counted
  <2> HIDE DEF k
  <2>2. Advances(s, k, r)
    BY <1>3, <2>1, MovedLife
  <2> QED
    BY <1>2, <2>2 DEF Advances
<1>4. CASE x = "in_progress" /\ r \in s.pending
  <2>1. k = [s EXCEPT !.pending = @ \ {r}, !.processing = @ \cup {r}]
    BY <1>4 DEF Counted
  <2> HIDE DEF k
  <2>2. Advances(s, k, r)
    BY <1>4, <2>1, MovedLife
  <2> QED
    BY <1>2, <2>2 DEF Advances
<1>5. CASE x \in TerminalStatus /\ Finalizable(s, r, x)
  <2>1. k = Finalized(s, r, x)
    BY <1>5 DEF Counted, TerminalStatus
  <2> HIDE DEF k
  <2>2. Ends(s, k, r, x)
    BY <1>5, <2>1, FinalizedLife
  <2> QED
    BY <1>2, <1>5, <2>2 DEF Ends
<1>6. CASE /\ ~(x = "pending" /\ r \in s.queued)
           /\ ~(x = "in_progress" /\ r \in s.pending)
           /\ ~(x \in TerminalStatus /\ Finalizable(s, r, x))
  <2>1. k = s
    BY <1>6 DEF Counted, WorkerStatus, TerminalStatus
  <2> HIDE DEF k
  <2> QED
    BY <1>2, <2>1
<1> QED
  BY <1>3, <1>4, <1>5, <1>6

-----------------------------------------------------------------------------
(***************************************************************************)
(* The refinement.                                                         *)
(***************************************************************************)

LEMMA InitImplements == Init => Lifecycle!LifecycleInit
<1> SUFFICES ASSUME Init PROVE Lifecycle!LifecycleInit
  OBVIOUS
<1>1. /\ st.queued = {} /\ st.pending = {} /\ st.processing = {} /\ st.created = 0
      /\ st.successful = 0 /\ st.errored = 0 /\ st.cancelled = 0
  BY DEF Init, InitialTracking
<1>2. LifeOf(st) = [r \in Request |-> "new"]
  BY <1>1 DEF LifeOf, Request
<1>3. OutcomesOf(st) = [o \in TerminalStatus |-> 0]
  BY <1>1 DEF OutcomesOf
<1> QED
  BY <1>2, <1>3 DEF Lifecycle!LifecycleInit, Lifecycle!Outcome, TerminalStatus

\* The three ways a step of the group shows in the life of a request.
LEMMA MovesImplement ==
  ASSUME NEW r \in Request, Advances(st, st', r)
  PROVE  Lifecycle!LifecycleNext
BY DEF Advances, Lifecycle!LifecycleNext, Lifecycle!Claim, Lifecycle!Start

LEMMA EndsImplement ==
  ASSUME NEW r \in Request, NEW o \in TerminalStatus, Ends(st, st', r, o)
  PROVE  Lifecycle!LifecycleNext
<1>1. Lifecycle!Finish(r, o)
  BY DEF Ends, Lifecycle!Finish
<1> QED
  BY <1>1 DEF Lifecycle!LifecycleNext, Lifecycle!Outcome, TerminalStatus

LEMMA StepImplements ==
  IInv /\ [Next]_vars => [Lifecycle!LifecycleNext]_<<LifeOf(st), OutcomesOf(st)>>
<1> DEFINE goal == [Lifecycle!LifecycleNext]_<<LifeOf(st), OutcomesOf(st)>>
           same == LifeOf(st)' = LifeOf(st) /\ OutcomesOf(st)' = OutcomesOf(st)
<1> SUFFICES ASSUME IInv, [Next]_vars PROVE goal
  OBVIOUS
<1>1. Consistent(st) /\ timeUp \in BOOLEAN /\ st \in Tracking
  BY DEF IInv, TypeOK
<1>2. same => goal
  OBVIOUS
<1>3. CASE GeneratorQueues
  <2>1. st.created < NumRequests /\ st' = Updated(st, st.created + 1, "queued", timeUp)
    BY <1>3 DEF GeneratorQueues, Newest, IInv
  <2> DEFINE n == st.created + 1
  <2>2. /\ n \in Request
        /\ LifeOf(st)[n] = "new"
        /\ \A earlier \in Request : earlier < n => LifeOf(st)[earlier] # "new"
        /\ LifeOf(st') = [LifeOf(st) EXCEPT ![n] = "queued"]
        /\ OutcomesOf(st') = OutcomesOf(st)
    BY <1>1, <2>1, CreatedLife
  <2> HIDE DEF n
  <2>3. Lifecycle!Create(n)
    BY <2>2 DEF Lifecycle!Create
  <2> QED
    BY <2>2, <2>3 DEF Lifecycle!LifecycleNext
<1>4. CASE GeneratorExhausts
  <2> DEFINE e == [st EXCEPT !.constraints = @ \cup {"requests_exhausted"}]
  <2>1. e \in Tracking /\ SameRequests(st, e)
    BY <1>1 DEF Tracking, SameRequests
  <2>2. st' = Constrained(e, timeUp)
    BY <1>4 DEF GeneratorExhausts, Exhausted
  <2> HIDE DEF e
  <2> QED
    BY <1>2, <2>1, <2>2, SameLife, ConstrainedLife
<1>5. ASSUME NEW w \in Workers, ReceiverCounts(w) PROVE goal
  <2> DEFINE update == Head(chan[w])
  <2>1. /\ chan[w] \in Seq([id : Request, status : WorkerStatus])
        /\ chan[w] # <<>>
    BY <1>5 DEF IInv, TypeOK, ReceiverCounts
  <2>2. update \in [id : Request, status : WorkerStatus]
    BY <2>1, TakeType
  <2>3. st' = Updated(st, update.id, update.status, timeUp)
    BY <1>5 DEF ReceiverCounts
  <2> HIDE DEF update
  <2>4. update.id \in Request /\ update.status \in WorkerStatus
    BY <2>2
  <2>5. \/ same \/ Advances(st, st', update.id)
        \/ \E o \in TerminalStatus : Ends(st, st', update.id, o)
    BY <1>1, <2>3, <2>4, UpdatedLife
  <2> QED
    BY <1>2, <2>4, <2>5, MovesImplement, EndsImplement
<1>6. CASE ConsumerPolls
  BY <1>1, <1>2, <1>6, ConstrainedLife DEF ConsumerPolls
<1>7. CASE UNCHANGED st
  BY <1>2, <1>7
<1>8. \/ GeneratorPulls \/ GeneratorBuffers \/ GeneratorSends \/ GeneratorResumes
      \/ GeneratorStops \/ ReceiverChecks \/ ReceiverBuffers
      => UNCHANGED st
  BY DEF GeneratorPulls, GeneratorBuffers, GeneratorSends, GeneratorResumes, GeneratorStops,
         ReceiverChecks, ReceiverBuffers
<1>9. \/ ConsumerYields \/ ConsumerTimesOut \/ ConsumerFinishes \/ ConsumerSetsConstraint
      \/ ConsumerSetsStop \/ MonitorFindsDead \/ TimePasses
      => UNCHANGED st
  BY DEF ConsumerYields, ConsumerTimesOut, ConsumerFinishes, ConsumerSetsConstraint,
         ConsumerSetsStop, MonitorFindsDead, TimePasses
<1>10. ASSUME NEW w \in Workers, WorkerStep(w) PROVE UNCHANGED st
  BY <1>10 DEF WorkerStep, WorkerFetches, WorkerFindsEmpty, WorkerStopsFetching,
               WorkerSeesConstraint,
               WorkerSweeps, WorkerExits, WorkerDies
<1>11. ASSUME NEW w \in Workers, NEW r \in Request, SlotStep(w, r) PROVE UNCHANGED st
  BY <1>11 DEF SlotStep, SlotProgress, SlotClaims, SlotStarts, SlotCompletes, SlotCancelled,
               SlotRetargets, SlotStreams, SlotFails
<1>12. UNCHANGED vars => UNCHANGED st
  BY DEF vars
<1> QED
  BY <1>3, <1>4, <1>5, <1>6, <1>7, <1>8, <1>9, <1>10, <1>11, <1>12
     DEF Next, Generator, Receiver, ConsumerSteps, Ended, WorkerStep, SlotStep

\* The coordinator keeps the promise of RequestLifecycle in every run of every group:
\* each request goes forward through its life and ends exactly once.
THEOREM GroupImplementsLifecycle == Spec => ImplementsLifecycle
<1>1. Spec => Lifecycle!LifecycleInit
      /\ [][Lifecycle!LifecycleNext]_<<LifeOf(st), OutcomesOf(st)>>
  BY InitImplements, StepImplements, Invariant, PTL DEF Spec
<1> QED
  BY <1>1 DEF ImplementsLifecycle, Lifecycle!LifecycleSpec
=============================================================================
