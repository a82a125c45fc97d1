---------------------------- MODULE BackendProofs ----------------------------
(***************************************************************************)
(* How a backend and the server behind it treat requests: the batches of   *)
(* the vLLM batch backend, for any set of requests and any batch size;     *)
(* the call of every endpoint and its stream, for any stream of events;    *)
(* and the mock server's answers, for any load.                            *)
(***************************************************************************)
EXTENDS BatchBackend, ResponseStream, MockServing, SequenceTheorems, FiniteSetTheorems, TLAPS

-----------------------------------------------------------------------------
(***************************************************************************)
(* The batches of the vLLM batch backend: how resolve(), the deferred      *)
(* flush, the cancellation of a worker's tasks and process_shutdown() hand *)
(* the requests to one another.                                            *)
(***************************************************************************)

\* Who is in the line is up to itself, and of two one is ahead of the other.
LineIsOrdered ==
  /\ \A t \in Line : t \in lock[t] /\ lock[t] \subseteq Line
  /\ \A t, u \in Line : t # u => (t \in lock[u] <=> u \notin lock[t])

\* A task is in the line from taking its batch to settling it, or to end the engine.
LineByStage == \A t \in Tasks : t \in Line <=> task[t] \in Working \cup {"closing"}

\* One task generates at a time, the holder of the lock.
Generating == {t \in Tasks : task[t] \in {"generating", "draining"}}
HolderGenerates ==
  /\ \A t \in Generating : Holds(t)
  /\ generate = "idle" <=> Generating = {}

\* What stages the tasks of each kind go through.
StagesByKind ==
  /\ \A r \in Requests : task[r] \in {"none", "waiting"} \cup Working \cup Ended
  /\ task[Flush] \in {"none", "sleeping", "locking", "generating", "done"}
  /\ task[Shutdown] \in {"none", "locking", "generating", "joining", "closing", "done"}

\* A batch belongs to a task at work, and the batch of resolve() holds its own request.
BatchesAreOwned ==
  /\ \A t \in Tasks : batch[t] # {} => task[t] \in Working
  /\ \A r \in Requests : task[r] \in Working => r \in batch[r]

\* Nothing is known of a request that has not called resolve(), and one that is to
\* be served has no result.
UncalledIsUnknown ==
  /\ \A r \in Requests : task[r] = "none" =>
       result[r] = "none" /\ r \notin pending /\ \A t \in Tasks : r \notin batch[t]
  /\ \A r \in pending : result[r] = "none"

\* Somebody comes for the pending requests.
PendingIsFlushed ==
  pending # {} => task[Flush] \in {"sleeping", "locking", "generating"}

\* The engine is there for everyone who needs it: the shutdown takes what is pending,
\* lets nobody in and goes to the end of the line.
EngineIsThere ==
  /\ ~inProcess /\ ~shuttingDown =>
       pending = {} /\ \A t \in Tasks : task[t] = "none"
  /\ ~llm => pending = {} /\ \A t \in Tasks : task[t] \notin Working
  /\ ~shuttingDown => task[Shutdown] = "none"
  /\ shuttingDown => pending = {} /\ task[Shutdown] # "none"
  /\ task[Shutdown] \in {"closing", "done"} => task[Flush] \in {"none", "done"}
  /\ task[Shutdown] = "closing" => \A t \in Line : t \in lock[Shutdown]

FiniteBatches == IsFiniteSet(pending) /\ \A t \in Tasks : IsFiniteSet(batch[t])

BatchInv ==
  /\ BatchTypeOK /\ LineIsOrdered /\ LineByStage /\ HolderGenerates /\ StagesByKind
  /\ BatchesAreOwned
  /\ UncalledIsUnknown /\ PendingIsFlushed /\ EngineIsThere
  /\ FiniteBatches
  /\ NoneForgotten /\ TakenOnce /\ BatchBounded

-----------------------------------------------------------------------------
(* The line *)

\* A task that gets in line is behind everybody else.
LEMMA QueuedInLine ==
  ASSUME lock \in [Tasks -> SUBSET Tasks], LineIsOrdered, NEW t \in Tasks, t \notin Line,
         lock' = Queued(t)
  PROVE  /\ lock' \in [Tasks -> SUBSET Tasks]
         /\ LineIsOrdered'
         /\ Line' = Line \cup {t}
         /\ lock'[t] = Line \cup {t}
         /\ \A u \in Line : lock'[u] = lock[u]
<1>1. lock' = [lock EXCEPT ![t] = Line \cup {t}] /\ Line \cup {t} \in SUBSET Tasks
  BY DEF Queued, Line
<1>2. lock' \in [Tasks -> SUBSET Tasks]
  BY <1>1
<1>3. /\ lock'[t] = Line \cup {t}
      /\ \A u \in Tasks : u # t => lock'[u] = lock[u]
  BY <1>1
<1>4. Line' = Line \cup {t}
  BY <1>3 DEF Line
<1>5. LineIsOrdered'
  BY <1>3, <1>4 DEF LineIsOrdered, Line
<1> QED
  BY <1>2, <1>3, <1>4, <1>5 DEF Line

\* Tasks that leave the line leave the order of the others as it is.
LEMMA WithoutInLine ==
  ASSUME lock \in [Tasks -> SUBSET Tasks], LineIsOrdered, NEW S \in SUBSET Tasks,
         lock' = Without(S)
  PROVE  /\ lock' \in [Tasks -> SUBSET Tasks]
         /\ LineIsOrdered'
         /\ Line' = Line \ S
         /\ \A u \in Line \ S : lock'[u] = lock[u] \ S
<1>1. \A u \in Tasks : lock'[u] = IF u \in S THEN {} ELSE lock[u] \ S
  BY DEF Without
<1>2. lock' \in [Tasks -> SUBSET Tasks]
  BY DEF Without
<1>3. Line' = Line \ S
  <2>1. \A u \in Line \ S : u \in Tasks /\ u \in lock'[u]
    BY <1>1 DEF Line, LineIsOrdered
  <2>2. \A u \in Tasks : lock'[u] # {} => u \notin S /\ lock[u] # {}
    BY <1>1
  <2>3. Line' = {u \in Tasks : lock'[u] # {}}
    BY DEF Line
  <2> QED
    BY <2>1, <2>2, <2>3 DEF Line
<1>4. LineIsOrdered'
  <2>1. \A u \in Line' : u \in Tasks /\ u \in Line /\ u \notin S /\ lock'[u] = lock[u] \ S
    BY <1>1, <1>3 DEF Line
  <2>2. \A u \in Line' : u \in lock'[u] /\ lock'[u] \subseteq Line'
    BY <2>1, <1>3 DEF LineIsOrdered
  <2>3. \A u, v \in Line' : u # v => (u \in lock'[v] <=> v \notin lock'[u])
    BY <2>1 DEF LineIsOrdered
  <2> QED
    BY <2>2, <2>3 DEF LineIsOrdered
<1> QED
  BY <1>1, <1>2, <1>3, <1>4 DEF Line

\* What a task does with the requests S it has taken: it generates or gets in line.
LEMMA RunGenerateQueues ==
  ASSUME BatchInv, NEW t \in Tasks, t \notin Line, NEW S \in SUBSET Requests,
         RunGenerate(t, S)
  PROVE  /\ lock' \in [Tasks -> SUBSET Tasks] /\ LineIsOrdered'
         /\ task' \in [Tasks -> Stages] /\ task'[t] \in {"locking", "generating"}
         /\ \A u \in Tasks : u # t => task'[u] = task[u]
         /\ batch' \in [Tasks -> SUBSET Requests] /\ batch'[t] = S
         /\ \A u \in Tasks : u # t => batch'[u] = batch[u]
         /\ LineByStage' /\ HolderGenerates'
         /\ generate' \in {"idle", "running", "returned", "raised", "short"}
<1> USE DEF BatchInv
<1>1. /\ lock' \in [Tasks -> SUBSET Tasks] /\ LineIsOrdered' /\ Line' = Line \cup {t}
      /\ lock'[t] = Line \cup {t} /\ \A u \in Line : lock'[u] = lock[u]
  BY QueuedInLine DEF RunGenerate, BatchTypeOK
<1>2. /\ task' \in [Tasks -> Stages] /\ task'[t] = IF Line = {} THEN "generating" ELSE "locking"
      /\ \A u \in Tasks : u # t => task'[u] = task[u]
  BY DEF RunGenerate, BatchTypeOK, Stages, Working, Ended
<1>3. /\ batch' \in [Tasks -> SUBSET Requests] /\ batch'[t] = S
      /\ \A u \in Tasks : u # t => batch'[u] = batch[u]
  BY DEF RunGenerate, BatchTypeOK
<1>4. LineByStage'
  BY <1>1, <1>2 DEF LineByStage, Working
<1>5. Generating \subseteq Line /\ task[t] \notin {"generating", "draining"}
  BY DEF LineByStage, Generating, Working, Line
<1>6. HolderGenerates'
  <2>1. CASE Line = {}
    <3>1. Generating' = {t} /\ generate' = "running" /\ lock'[t] = {t}
      BY <1>1, <1>2, <1>5, <2>1 DEF Generating, RunGenerate
    <3> QED
      BY <3>1 DEF HolderGenerates, Holds
  <2>2. CASE Line # {}
    <3>1. Generating' = Generating /\ generate' = generate
      BY <1>2, <1>5, <2>2 DEF Generating, RunGenerate
    <3> QED
      BY <3>1, <1>1, <1>5 DEF HolderGenerates, Holds
  <2> QED
    BY <2>1, <2>2
<1>7. generate' \in {"idle", "running", "returned", "raised", "short"}
  BY DEF RunGenerate, BatchTypeOK
<1> QED
  BY <1>1, <1>2, <1>3, <1>4, <1>6, <1>7

\* The holder has settled its batch: it goes on, and at most the next one generates.
LEMMA ReleasedHandsOn ==
  ASSUME BatchInv, NEW t \in Generating, NEW next \in Stages \ (Working \cup {"closing"}),
         Released(t, next)
  PROVE  /\ lock' \in [Tasks -> SUBSET Tasks] /\ LineIsOrdered'
         /\ \A u \in Line \ {t} : lock'[u] = lock[u] \ {t}
         /\ Line' = Line \ {t}
         /\ task' \in [Tasks -> Stages] /\ task'[t] = next
         /\ \A u \in Tasks : u # t /\ task[u] # "locking" => task'[u] = task[u]
         /\ \A u \in Tasks : u # t /\ task[u] = "locking" => task'[u] \in {"locking", "generating"}
         /\ LineByStage' /\ HolderGenerates'
         /\ generate' \in {"idle", "running"}
<1> USE DEF BatchInv
<1>1. t \in Tasks /\ lock[t] = {t} /\ Generating = {t}
  <2>1. t \in Tasks /\ lock[t] = {t} /\ t \in Line
    BY DEF Generating, HolderGenerates, Holds, Line
  <2>2. ASSUME NEW u \in Generating PROVE u = t
    <3>1. lock[u] = {u} /\ u \in Line
      BY DEF Generating, HolderGenerates, Holds, Line
    <3> QED
      BY <2>1, <3>1 DEF LineIsOrdered
  <2> QED
    BY <2>1, <2>2
<1>2. /\ lock' \in [Tasks -> SUBSET Tasks] /\ LineIsOrdered' /\ Line' = Line \ {t}
      /\ \A u \in Line \ {t} : lock'[u] = lock[u] \ {t}
  BY <1>1, WithoutInLine DEF Released, BatchTypeOK
<1>3. \A u \in Second(t) : u \in Tasks /\ u \in Line /\ lock[u] = {t, u} /\ u # t /\ task[u] = "locking"
  BY <1>1 DEF Second, Line, Generating
<1>4. \A u, v \in Second(t) : u = v
  BY <1>3 DEF LineIsOrdered
<1>5. \A u \in Tasks : task'[u] = IF u = t THEN next
                                 ELSE IF u \in Second(t) THEN "generating" ELSE task[u]
  BY DEF Released
<1>6. task' \in [Tasks -> Stages]
  BY DEF Released, BatchTypeOK, Stages, Working, Ended
<1>7. LineByStage'
  BY <1>1, <1>2, <1>3, <1>5 DEF LineByStage, Working
<1>8. Generating' = Second(t)
  BY <1>1, <1>3, <1>5 DEF Generating, Working
<1>9. HolderGenerates'
  <2>1. ASSUME NEW u \in Second(t) PROVE lock'[u] = {u}
    BY <1>2, <1>3
  <2>2. generate' = IF Second(t) = {} THEN "idle" ELSE "running"
    BY DEF Released
  <2> QED
    BY <1>8, <2>1, <2>2 DEF HolderGenerates, Holds
<1> QED
  BY <1>1, <1>2, <1>3, <1>5, <1>6, <1>7, <1>9 DEF Released

-----------------------------------------------------------------------------
(* The steps *)

\* What a step shows of the line when nobody gets in or out of it.
LEMMA LineStays ==
  ASSUME BatchInv, UNCHANGED lock, generate' = "idle" <=> generate = "idle",
         \A t \in Tasks : task[t] \in Working \cup {"closing"} \/ task'[t] \in Working \cup {"closing"}
                          => task'[t] = task[t]
  PROVE  LineIsOrdered' /\ LineByStage' /\ HolderGenerates' /\ Line' = Line
<1> USE DEF BatchInv
<1>1. Line' = Line /\ LineIsOrdered'
  BY DEF Line, LineIsOrdered
<1>2. LineByStage'
  BY <1>1 DEF LineByStage
<1>3. Generating' = Generating
  BY DEF Generating, Working
<1> QED
  BY <1>1, <1>2, <1>3 DEF HolderGenerates, Holds


\* The engine is loaded, or the worker will not use it.
LEMMA StartupKeepsInv ==
  ASSUME BatchInv, NEW loaded \in BOOLEAN, Startup(loaded)
  PROVE  BatchInv'
<1> USE DEF BatchInv, Startup
<1>0. \A t \in Tasks : task[t] = "none"
  BY DEF EngineIsThere
<1>1. BatchTypeOK'
  BY DEF BatchTypeOK, Stages, Working, Ended
<1>2. LineIsOrdered' /\ LineByStage' /\ HolderGenerates' /\ Line' = Line
  BY <1>0, LineStays DEF Working, Ended
<1>3. StagesByKind'
  BY <1>0, BatchAssumption DEF StagesByKind, Tasks, Working, Ended
<1>4. BatchesAreOwned'
  BY <1>0 DEF BatchesAreOwned, Working
<1>5. UncalledIsUnknown'
  BY <1>0 DEF UncalledIsUnknown
<1>6. PendingIsFlushed'
  BY <1>0 DEF PendingIsFlushed
<1>7. EngineIsThere'
  BY <1>0, <1>2, BatchAssumption DEF EngineIsThere, Tasks, Working
<1>8. FiniteBatches'
  BY <1>0 DEF FiniteBatches
<1>9. NoneForgotten'
  BY <1>0 DEF NoneForgotten, Working
<1>10. TakenOnce'
  BY <1>0 DEF TakenOnce
<1>11. BatchBounded'
  BY <1>0 DEF BatchBounded
<1> QED
  BY <1>1, <1>2, <1>3, <1>4, <1>5, <1>6, <1>7, <1>8, <1>9, <1>10, <1>11

\* A call during the shutdown is refused.
LEMMA RejectedKeepsInv ==
  ASSUME BatchInv, NEW r \in Requests, ResolveRejected(r)
  PROVE  BatchInv'
<1> USE DEF BatchInv, ResolveRejected
<1>0. \A t \in Tasks : task'[t] = IF t = r THEN "failed" ELSE task[t]
  BY BatchAssumption DEF BatchTypeOK, Tasks
<1>1. BatchTypeOK'
  BY DEF BatchTypeOK, Stages, Working, Ended
<1>2. LineIsOrdered' /\ LineByStage' /\ HolderGenerates' /\ Line' = Line
  BY <1>0, LineStays DEF Working, Ended
<1>3. StagesByKind'
  BY <1>0, BatchAssumption DEF StagesByKind, Tasks, Working, Ended
<1>4. BatchesAreOwned'
  BY <1>0 DEF BatchesAreOwned, Working
<1>5. UncalledIsUnknown'
  BY <1>0 DEF UncalledIsUnknown
<1>6. PendingIsFlushed'
  BY <1>0 DEF PendingIsFlushed
<1>7. EngineIsThere'
  BY <1>0, <1>2, BatchAssumption DEF EngineIsThere, Tasks, Working
<1>8. FiniteBatches'
  BY <1>0 DEF FiniteBatches
<1>9. NoneForgotten'
  BY <1>0 DEF NoneForgotten, Working
<1>10. TakenOnce'
  BY <1>0 DEF TakenOnce
<1>11. BatchBounded'
  BY <1>0 DEF BatchBounded
<1> QED
  BY <1>1, <1>2, <1>3, <1>4, <1>5, <1>6, <1>7, <1>8, <1>9, <1>10, <1>11

\* The executor's call ends.
LEMMA GenerateEndsKeepsInv ==
  ASSUME BatchInv, NEW outcome \in {"returned", "raised", "short"}, GenerateEnds(outcome)
  PROVE  BatchInv'
<1> USE DEF BatchInv, GenerateEnds
<1>0. generate # "idle" /\ generate' # "idle"
  BY DEF GenerateEnds
<1>1. BatchTypeOK'
  BY DEF BatchTypeOK, Stages, Working, Ended
<1>2. LineIsOrdered' /\ LineByStage' /\ HolderGenerates' /\ Line' = Line
  BY <1>0, LineStays DEF Working, Ended
<1>3. StagesByKind'
  BY <1>0, BatchAssumption DEF StagesByKind, Tasks, Working, Ended
<1>4. BatchesAreOwned'
  BY <1>0 DEF BatchesAreOwned, Working
<1>5. UncalledIsUnknown'
  BY <1>0 DEF UncalledIsUnknown
<1>6. PendingIsFlushed'
  BY <1>0 DEF PendingIsFlushed
<1>7. EngineIsThere'
  BY <1>0, <1>2, BatchAssumption DEF EngineIsThere, Tasks, Working
<1>8. FiniteBatches'
  BY <1>0 DEF FiniteBatches
<1>9. NoneForgotten'
  BY <1>0 DEF NoneForgotten, Working
<1>10. TakenOnce'
  BY <1>0 DEF TakenOnce
<1>11. BatchBounded'
  BY <1>0 DEF BatchBounded
<1> QED
  BY <1>1, <1>2, <1>3, <1>4, <1>5, <1>6, <1>7, <1>8, <1>9, <1>10, <1>11

\* A waiter is answered.
LEMMA AnswerKeepsInv ==
  ASSUME BatchInv, NEW r \in Requests, Answer(r)
  PROVE  BatchInv'
<1> USE DEF BatchInv, Answer
<1>0. \A t \in Tasks : task'[t] = IF t # r THEN task[t] ELSE IF result[r] = "output" THEN "done" ELSE "failed"
  BY BatchAssumption DEF BatchTypeOK, Tasks
<1>1. BatchTypeOK'
  BY DEF BatchTypeOK, Stages, Working, Ended
<1>2. LineIsOrdered' /\ LineByStage' /\ HolderGenerates' /\ Line' = Line
  BY <1>0, LineStays DEF Working, Ended
<1>3. StagesByKind'
  BY <1>0, BatchAssumption DEF StagesByKind, Tasks, Working, Ended
<1>4. BatchesAreOwned'
  BY <1>0 DEF BatchesAreOwned, Working
<1>5. UncalledIsUnknown'
  BY <1>0 DEF UncalledIsUnknown
<1>6. PendingIsFlushed'
  BY <1>0 DEF PendingIsFlushed
<1>7. EngineIsThere'
  BY <1>0, <1>2, BatchAssumption DEF EngineIsThere, Tasks, Working
<1>8. FiniteBatches'
  BY <1>0 DEF FiniteBatches
<1>9. NoneForgotten'
  BY <1>0 DEF NoneForgotten, Working
<1>10. TakenOnce'
  BY <1>0 DEF TakenOnce
<1>11. BatchBounded'
  BY <1>0 DEF BatchBounded
<1> QED
  BY <1>1, <1>2, <1>3, <1>4, <1>5, <1>6, <1>7, <1>8, <1>9, <1>10, <1>11

\* The shutdown gets in line behind everybody.
LEMMA ShutdownJoinedKeepsInv ==
  ASSUME BatchInv, ShutdownJoined
  PROVE  BatchInv'
<1> USE DEF BatchInv, ShutdownJoined
<1>0. /\ \A t \in Tasks : task'[t] = IF t = Shutdown THEN "closing" ELSE task[t]
      /\ Shutdown \in Tasks /\ Flush \in Tasks /\ Flush # Shutdown /\ Shutdown \notin Requests
  BY BatchAssumption DEF BatchTypeOK, Tasks
<1>1. /\ lock' \in [Tasks -> SUBSET Tasks] /\ LineIsOrdered' /\ Line' = Line \cup {Shutdown}
      /\ lock'[Shutdown] = Line \cup {Shutdown} /\ \A u \in Line : lock'[u] = lock[u]
  BY <1>0, QueuedInLine DEF BatchTypeOK, LineByStage, Working
<1>2. BatchTypeOK'
  BY <1>1 DEF BatchTypeOK, Stages
<1>3. LineByStage'
  BY <1>0, <1>1 DEF LineByStage
<1>4. HolderGenerates'
  <2>1. Generating' = Generating /\ Generating \subseteq Line
    BY <1>0 DEF Generating, LineByStage, Working
  <2> QED
    BY <2>1, <1>1 DEF HolderGenerates, Holds
<1>5. StagesByKind'
  BY <1>0 DEF StagesByKind, Tasks, Working, Ended
<1>6. BatchesAreOwned'
  BY <1>0 DEF BatchesAreOwned, Tasks, Working
<1>7. UncalledIsUnknown'
  BY <1>0 DEF UncalledIsUnknown, Tasks
<1>8. PendingIsFlushed'
  BY <1>0 DEF PendingIsFlushed
<1>9. EngineIsThere'
  BY <1>0, <1>1 DEF EngineIsThere, Tasks, Working
<1>10. NoneForgotten'
  BY <1>0 DEF NoneForgotten, Tasks, Working
<1>11. TakenOnce' /\ BatchBounded' /\ FiniteBatches'
  BY DEF TakenOnce, BatchBounded, FiniteBatches
<1> QED
  BY <1>1, <1>2, <1>3, <1>4, <1>5, <1>6, <1>7, <1>8, <1>9, <1>10, <1>11

\* The engine is torn down, with nobody else in the line.
LEMMA ShutdownEndsKeepsInv ==
  ASSUME BatchInv, ShutdownEnds
  PROVE  BatchInv'
<1> USE DEF BatchInv, ShutdownEnds
<1>0. /\ \A t \in Tasks : task'[t] = IF t = Shutdown THEN "done" ELSE task[t]
      /\ Shutdown \in Tasks /\ Flush \in Tasks /\ Flush # Shutdown /\ Shutdown \notin Requests
  BY BatchAssumption DEF BatchTypeOK, Tasks
<1>1. Line = {Shutdown} /\ shuttingDown /\ pending = {}
  BY <1>0 DEF EngineIsThere, Holds, Line
<1>2. \A t \in Tasks : task[t] \notin Working
  BY <1>0, <1>1 DEF LineByStage, Working
<1>3. /\ lock' \in [Tasks -> SUBSET Tasks] /\ LineIsOrdered' /\ Line' = {}
  <2>1. /\ lock' \in [Tasks -> SUBSET Tasks] /\ LineIsOrdered'
        /\ Line' = Line \ {Shutdown}
    <3>1. {Shutdown} \in SUBSET Tasks /\ lock' = Without({Shutdown})
      BY <1>0
    <3>2. lock \in [Tasks -> SUBSET Tasks] /\ LineIsOrdered
      BY DEF BatchTypeOK
    <3> HIDE DEF BatchInv, ShutdownEnds
    <3> QED
      BY <3>1, <3>2, WithoutInLine
  <2> QED
    BY <2>1, <1>1
<1>4. BatchTypeOK'
  BY <1>3 DEF BatchTypeOK, Stages, Ended
<1>5. LineByStage'
  BY <1>0, <1>2, <1>3, <1>1 DEF LineByStage, Working
<1>6. HolderGenerates'
  BY <1>0, <1>2 DEF HolderGenerates, Generating, Working
<1>7. StagesByKind' /\ BatchesAreOwned' /\ UncalledIsUnknown'
  BY <1>0, <1>2 DEF StagesByKind, BatchesAreOwned, UncalledIsUnknown, Tasks, Working, Ended
<1>8. PendingIsFlushed' /\ EngineIsThere'
  BY <1>0, <1>1, <1>2, <1>3 DEF PendingIsFlushed, EngineIsThere, Working
<1>9. NoneForgotten'
  BY <1>0, <1>1, <1>2 DEF NoneForgotten, Tasks
<1>10. TakenOnce' /\ BatchBounded' /\ FiniteBatches'
  BY DEF TakenOnce, BatchBounded, FiniteBatches
<1> QED
  BY <1>3, <1>4, <1>5, <1>6, <1>7, <1>8, <1>9, <1>10

\* Cancelled: who waits leaves, who generates sees it through.
LEMMA CancelAllKeepsInv ==
  ASSUME BatchInv, CancelAll
  PROVE  BatchInv'
<1> USE DEF BatchInv
<1> DEFINE gone == {r \in Requests : task[r] \in {"waiting", "locking"}}
<1>0. /\ gone \in SUBSET Tasks
      /\ \A t \in Tasks : task'[t] = IF t \in gone THEN "cancelled"
                                     ELSE IF t \in Requests /\ task[t] = "generating" THEN "draining"
                                     ELSE task[t]
      /\ \A t \in Tasks : batch'[t] = IF t \in gone THEN {} ELSE batch[t]
      /\ Flush \in Tasks \ Requests /\ Shutdown \in Tasks \ Requests
  BY BatchAssumption DEF CancelAll, Tasks
<1>1. UNCHANGED <<pending, result, generate, llm, inProcess, shuttingDown>>
  BY DEF CancelAll
<1>2. /\ lock' \in [Tasks -> SUBSET Tasks] /\ LineIsOrdered' /\ Line' = Line \ gone
      /\ \A u \in Line \ gone : lock'[u] = lock[u] \ gone
  BY <1>0, WithoutInLine DEF BatchTypeOK, CancelAll
<1>3. task' \in [Tasks -> Stages] /\ batch' \in [Tasks -> SUBSET Requests]
  BY DEF CancelAll, BatchTypeOK, Stages, Working, Ended
<1>4. BatchTypeOK'
  BY <1>1, <1>2, <1>3 DEF BatchTypeOK, CancelAll
<1>5. LineByStage'
  BY <1>0, <1>2 DEF LineByStage, Working
<1>6. HolderGenerates'
  <2>1. Generating' = Generating
    BY <1>0 DEF Generating
  <2>2. \A t \in Generating : t \in Line \ gone /\ lock[t] = {t}
    BY DEF HolderGenerates, Generating, Holds, Line
  <2> QED
    BY <2>1, <2>2, <1>1, <1>2 DEF HolderGenerates, Holds
<1>7. StagesByKind'
  BY <1>0 DEF StagesByKind, Tasks, Working, Ended
<1>8. BatchesAreOwned'
  BY <1>0 DEF BatchesAreOwned, Tasks, Working
<1>9. UncalledIsUnknown'
  BY <1>0, <1>1 DEF UncalledIsUnknown, Tasks
<1>10. PendingIsFlushed'
  BY <1>0, <1>1 DEF PendingIsFlushed
<1>11. EngineIsThere'
  <2>1. ~llm => \A t \in Tasks : task'[t] \notin Working
    BY <1>0 DEF EngineIsThere, Working
  <2>2. inProcess /\ inProcess'
    BY <1>1 DEF CancelAll
  <2>3. task'[Shutdown] = task[Shutdown] /\ task'[Flush] = task[Flush]
    BY <1>0
  <2>4. ASSUME task[Shutdown] = "closing"
        PROVE  \A t \in Line' : t \in lock'[Shutdown]
    <3>1. Shutdown \in Line \ gone
      BY <2>4, <1>0 DEF LineByStage
    <3> QED
      BY <3>1, <2>4, <1>2 DEF EngineIsThere
  <2> QED
    BY <2>1, <2>2, <2>3, <2>4, <1>1 DEF EngineIsThere
<1>12. FiniteBatches'
  BY <1>0, <1>1, FS_EmptySet DEF FiniteBatches
<1>13. NoneForgotten'
  BY <1>0 DEF NoneForgotten, Tasks
<1>14. TakenOnce'
  BY <1>0, <1>1 DEF TakenOnce
<1>15. BatchBounded'
  BY <1>0, <1>1, FS_EmptySet, BatchAssumption DEF BatchBounded
<1> QED
  BY <1>2, <1>4, <1>5, <1>6, <1>7, <1>8, <1>9, <1>10, <1>11, <1>12, <1>13, <1>14, <1>15

\* A settled batch leaves all of its requests with a result: Distribute and Drained.
LEMMA SettledKeepsInv ==
  ASSUME BatchInv, NEW t \in Generating, NEW next \in Stages \ (Working \cup {"closing"}),
         NEW value \in {"output", "error"},
         result' = Signalled(batch[t], value), batch' = [batch EXCEPT ![t] = {}],
         Released(t, next),
         UNCHANGED <<pending, llm, inProcess, shuttingDown, stopped>>,
         t \in Requests => next \in {"waiting", "cancelled"},
         t = Flush => next = "sleeping", t = Shutdown => next = "joining"
  PROVE  BatchInv' /\ \A r \in Requests : result[r] # "none" => result'[r] = result[r]
<1> USE DEF BatchInv
<1>1. t \in Tasks /\ task[t] \in {"generating", "draining"}
  BY DEF Generating
<1>2. /\ lock' \in [Tasks -> SUBSET Tasks] /\ LineIsOrdered'
      /\ \A u \in Line \ {t} : lock'[u] = lock[u] \ {t}
      /\ Line' = Line \ {t}
      /\ task' \in [Tasks -> Stages] /\ task'[t] = next
      /\ \A u \in Tasks : u # t /\ task[u] # "locking" => task'[u] = task[u]
      /\ \A u \in Tasks : u # t /\ task[u] = "locking" => task'[u] \in {"locking", "generating"}
      /\ LineByStage' /\ HolderGenerates' /\ generate' \in {"idle", "running"}
  BY ReleasedHandsOn
<1>3. \A u \in Tasks : batch'[u] = IF u = t THEN {} ELSE batch[u]
  BY DEF BatchTypeOK
<1>4. \A r \in Requests : result'[r] = IF r \in batch[t] THEN value ELSE result[r]
  BY <1>1 DEF Signalled, TakenOnce
<1>5. /\ Flush \in Tasks \ Requests /\ Shutdown \in Tasks \ Requests /\ Flush # Shutdown
      /\ Tasks = Requests \cup {Flush, Shutdown}
  BY BatchAssumption DEF Tasks
<1>6. BatchTypeOK'
  <2>1. result' \in [Requests -> {"none", "output", "error"}]
    BY DEF Signalled, BatchTypeOK
  <2>2. batch' \in [Tasks -> SUBSET Requests]
    BY DEF BatchTypeOK
  <2> QED
    BY <1>2, <2>1, <2>2 DEF BatchTypeOK
<1>7. StagesByKind'
  BY <1>1, <1>2, <1>5 DEF StagesByKind, Working, Ended
<1>8. BatchesAreOwned'
  BY <1>2, <1>3, <1>5 DEF BatchesAreOwned, Working
<1>9. UncalledIsUnknown'
  <2>1. \A r \in Requests : task'[r] = "none" => task[r] = "none"
    BY <1>1, <1>2, <1>5
  <2>2. \A r \in pending : r \in Requests /\ r \notin batch[t]
    BY <1>1 DEF TakenOnce, BatchTypeOK
  <2> QED
    BY <2>1, <2>2, <1>1, <1>3, <1>4 DEF UncalledIsUnknown
<1>10. PendingIsFlushed'
  BY <1>2, <1>5 DEF PendingIsFlushed
<1>11. EngineIsThere'
  <2>1. llm
    BY <1>1 DEF EngineIsThere, Working
  <2>2. ~(~inProcess /\ ~shuttingDown)
    BY <1>1 DEF EngineIsThere
  <2>3. task'[Shutdown] = "none" <=> task[Shutdown] = "none"
    BY <1>1, <1>2, <1>5
  <2>4. task'[Shutdown] \in {"closing", "done"} => task'[Shutdown] = task[Shutdown] /\ t # Shutdown
    BY <1>2, <1>5
  <2>5. task[Shutdown] \in {"closing", "done"} => task'[Flush] = task[Flush]
    BY <1>1, <1>2, <1>5 DEF EngineIsThere
  <2>6. ASSUME task'[Shutdown] = "closing"
        PROVE  \A u \in Line' : u \in lock'[Shutdown]
    <3>1. Shutdown \in Line \ {t}
      BY <2>4, <2>6, <1>5 DEF LineByStage
    <3> QED
      BY <2>4, <2>6, <3>1, <1>2 DEF EngineIsThere
  <2> QED
    BY <2>1, <2>2, <2>3, <2>4, <2>5, <2>6 DEF EngineIsThere
<1>12. FiniteBatches'
  BY <1>3, FS_EmptySet DEF FiniteBatches
<1>13. NoneForgotten'
  <2> SUFFICES ASSUME NEW r \in Requests, task'[r] = "waiting", result'[r] = "none"
               PROVE  \/ \E u \in Tasks : r \in batch'[u] /\ task'[u] \in Working
                      \/ r \in pending /\ task'[Flush] \in {"sleeping"} \cup Working
    BY DEF NoneForgotten
  <2>1. r \notin batch[t] /\ result[r] = "none"
    BY <1>4
  <2>2. task[r] = "waiting"
    BY <2>1, <1>1, <1>2, <1>5 DEF BatchesAreOwned, Working
  <2>3. CASE r \in pending
    BY <2>3, <1>10 DEF PendingIsFlushed, Working
  <2>4. CASE r \notin pending
    <3>1. PICK u \in Tasks : r \in batch[u] /\ task[u] \in Working
      BY <2>1, <2>2, <2>4 DEF NoneForgotten
    <3> QED
      BY <2>1, <3>1, <1>2, <1>3 DEF Working
  <2> QED
    BY <2>3, <2>4
<1>14. TakenOnce'
  <2>1. \A u \in Tasks : batch'[u] \subseteq batch[u] /\ batch[u] \subseteq Requests
    BY <1>3 DEF BatchTypeOK
  <2>2. \A u \in Tasks : \A r \in batch'[u] : r \notin batch[t]
    BY <1>1, <1>3 DEF TakenOnce
  <2>3. \A u \in Tasks : \A r \in batch'[u] : result'[r] = "none"
    BY <1>4, <2>1, <2>2 DEF TakenOnce
  <2> QED
    BY <2>1, <2>3 DEF TakenOnce
<1>15. BatchBounded'
  BY <1>3, FS_EmptySet, BatchAssumption DEF BatchBounded
<1>16. \A r \in Requests : result[r] # "none" => result'[r] = result[r]
  BY <1>1, <1>4 DEF TakenOnce
<1> QED
  BY <1>2, <1>6, <1>7, <1>8, <1>9, <1>10, <1>11, <1>12, <1>13, <1>14, <1>15, <1>16

\* The outputs, or the failure, of a batch are handed to its requests.
LEMMA DistributeKeepsInv ==
  ASSUME BatchInv, NEW t \in Tasks, Distribute(t)
  PROVE  BatchInv' /\ \A r \in Requests : result[r] # "none" => result'[r] = result[r]
<1>1. t \in Generating
  BY DEF Distribute, Generating
<1>2. After(t) \in Stages \ (Working \cup {"closing"})
  BY DEF After, Stages, Working
<1>3. /\ t \in Requests => After(t) \in {"waiting", "cancelled"}
      /\ t = Flush => After(t) = "sleeping"
      /\ t = Shutdown => After(t) = "joining"
  BY BatchAssumption DEF After
<1> DEFINE value == IF generate = "returned" THEN "output" ELSE "error"
<1>4. /\ value \in {"output", "error"} /\ result' = Signalled(batch[t], value)
      /\ batch' = [batch EXCEPT ![t] = {}] /\ Released(t, After(t))
      /\ UNCHANGED <<pending, llm, inProcess, shuttingDown, stopped>>
  BY DEF Distribute
<1> QED
  BY <1>1, <1>2, <1>3, <1>4, SettledKeepsInv

\* A cancelled resolve() gives every waiter of its batch an error.
LEMMA DrainedKeepsInv ==
  ASSUME BatchInv, NEW r \in Requests, Drained(r)
  PROVE  BatchInv' /\ \A q \in Requests : result[q] # "none" => result'[q] = result[q]
<1>1. r \in Generating
  BY DEF Drained, Generating, Tasks
<1>2. "cancelled" \in Stages \ (Working \cup {"closing"})
  BY DEF Stages, Ended, Working
<1>3. r # Flush /\ r # Shutdown
  BY BatchAssumption
<1>4. /\ "error" \in {"output", "error"} /\ result' = Signalled(batch[r], "error")
      /\ batch' = [batch EXCEPT ![r] = {}] /\ Released(r, "cancelled")
      /\ UNCHANGED <<pending, llm, inProcess, shuttingDown, stopped>>
  BY DEF Drained
<1> QED
  BY <1>1, <1>2, <1>3, <1>4, SettledKeepsInv

\* Whoever takes the pending requests takes all of them, and the engine is there:
\* the resolve() that fills the batch, the flush, the shutdown.
LEMMA TakenKeepsInv ==
  ASSUME BatchInv, NEW t \in Tasks, t \notin Line, NEW S \in SUBSET Requests,
         S = pending \cup ({t} \cap Requests),
         t \in Requests => task[t] = "none", t = Flush => task[Flush] = "sleeping",
         llm, inProcess, ~shuttingDown, shuttingDown' <=> t = Shutdown,
         RunGenerate(t, S), pending' = {},
         UNCHANGED <<result, llm, inProcess, stopped>>
  PROVE  BatchInv'
<1> USE DEF BatchInv
<1>1. /\ lock' \in [Tasks -> SUBSET Tasks] /\ LineIsOrdered'
      /\ task' \in [Tasks -> Stages] /\ task'[t] \in {"locking", "generating"}
      /\ \A u \in Tasks : u # t => task'[u] = task[u]
      /\ batch' \in [Tasks -> SUBSET Requests] /\ batch'[t] = S
      /\ \A u \in Tasks : u # t => batch'[u] = batch[u]
      /\ LineByStage' /\ HolderGenerates'
      /\ generate' \in {"idle", "running", "returned", "raised", "short"}
  BY RunGenerateQueues
<1>2. /\ Flush \in Tasks \ Requests /\ Shutdown \in Tasks \ Requests /\ Flush # Shutdown
      /\ Tasks = Requests \cup {Flush, Shutdown}
  BY BatchAssumption DEF Tasks
<1>3. task[Shutdown] = "none" /\ task[t] \notin Working /\ batch[t] = {}
  BY DEF EngineIsThere, LineByStage, BatchesAreOwned
<1>4. BatchTypeOK'
  BY <1>1 DEF BatchTypeOK
<1>5. StagesByKind'
  BY <1>1, <1>2 DEF StagesByKind, Working
<1>6. BatchesAreOwned'
  BY <1>1, <1>2 DEF BatchesAreOwned, Working
<1>7. UncalledIsUnknown'
  <2>1. \A r \in Requests : task'[r] = "none" => task[r] = "none" /\ r \notin S
    BY <1>1, <1>2 DEF UncalledIsUnknown
  <2> QED
    BY <2>1, <1>1 DEF UncalledIsUnknown
<1>8. PendingIsFlushed'
  BY DEF PendingIsFlushed
<1>9. EngineIsThere'
  <2>1. task'[Shutdown] \in {"none", "locking", "generating"}
    BY <1>1, <1>2, <1>3
  <2>2. task'[Shutdown] = "none" <=> t # Shutdown
    BY <1>1, <1>2, <1>3
  <2> QED
    BY <2>1, <2>2 DEF EngineIsThere
<1>10. IsFiniteSet(S) /\ Cardinality(S) <= BatchSize
  <2>1. IsFiniteSet(pending) /\ Cardinality(pending) < BatchSize /\ Cardinality(pending) \in Nat
    BY FS_CardinalityType DEF FiniteBatches, BatchBounded
  <2>2. CASE t \in Requests
    <3>1. S = pending \cup {t}
      BY <2>2
    <3>2. /\ IsFiniteSet(pending \cup {t})
          /\ Cardinality(pending \cup {t}) \in {Cardinality(pending), Cardinality(pending) + 1}
      BY <2>1, FS_AddElement
    <3>3. Cardinality(pending \cup {t}) <= BatchSize
      BY <2>1, <3>2, BatchAssumption
    <3> QED
      BY <3>1, <3>2, <3>3, Zenon
  <2>3. CASE t \notin Requests
    <3>1. S = pending
      BY <2>3
    <3> QED
      BY <2>1, <3>1, BatchAssumption
  <2> QED
    BY <2>2, <2>3
<1>11. FiniteBatches' /\ BatchBounded'
  <2>1. \A u \in Tasks : batch'[u] = IF u = t THEN S ELSE batch[u]
    BY <1>1
  <2>2. IsFiniteSet(pending') /\ Cardinality(pending') < BatchSize
    BY FS_EmptySet, BatchAssumption
  <2>3. FiniteBatches'
    BY <1>10, <2>1, <2>2 DEF FiniteBatches
  <2>4. BatchBounded'
    BY <1>10, <2>1, <2>2 DEF BatchBounded
  <2> QED
    BY <2>3, <2>4
<1>12. NoneForgotten'
  <2> SUFFICES ASSUME NEW r \in Requests, task'[r] = "waiting", result[r] = "none"
               PROVE  \E u \in Tasks : r \in batch'[u] /\ task'[u] \in Working
    BY DEF NoneForgotten
  <2>1. task[r] = "waiting" /\ r # t
    BY <1>1, <1>2
  <2>2. CASE r \in pending
    BY <2>2, <1>1 DEF Working
  <2>3. CASE r \notin pending
    <3>1. PICK u \in Tasks : r \in batch[u] /\ task[u] \in Working
      BY <2>1, <2>3 DEF NoneForgotten
    <3> QED
      BY <3>1, <1>1, <1>3
  <2> QED
    BY <2>2, <2>3
<1>13. TakenOnce'
  <2>1. \A u \in Tasks \ {t} : S \cap batch[u] = {}
    BY DEF TakenOnce, UncalledIsUnknown
  <2>2. \A r \in S : result[r] = "none"
    BY DEF UncalledIsUnknown
  <2>3. \A u \in Tasks : batch'[u] = IF u = t THEN S ELSE batch[u]
    BY <1>1
  <2>4. \A u, v \in Tasks : u # v => batch'[u] \cap batch'[v] = {}
    BY <2>1, <2>3 DEF TakenOnce
  <2>5. \A u \in Tasks : \A r \in batch'[u] : result'[r] = "none"
    BY <2>2, <2>3 DEF TakenOnce
  <2> QED
    BY <2>4, <2>5 DEF TakenOnce
<1> QED
  BY <1>1, <1>4, <1>5, <1>6, <1>7, <1>8, <1>9, <1>11, <1>12, <1>13

\* resolve(): the batch is full and generated, or the request waits for the flush.
LEMMA ResolveKeepsInv ==
  ASSUME BatchInv, NEW r \in Requests, Resolve(r)
  PROVE  BatchInv'
<1> USE DEF BatchInv
<1> DEFINE queue == pending \cup {r}
<1>1. /\ inProcess /\ llm /\ ~shuttingDown /\ task[r] = "none" /\ r \in Tasks
      /\ UNCHANGED <<result, llm, inProcess, shuttingDown, stopped>>
  BY DEF Resolve, Tasks
<1>2. /\ Flush \in Tasks \ Requests /\ Shutdown \in Tasks \ Requests /\ Flush # Shutdown
      /\ Tasks = Requests \cup {Flush, Shutdown}
  BY BatchAssumption DEF Tasks
<1>3. queue \in SUBSET Requests
  BY DEF BatchTypeOK
<1>4. CASE Full(queue)
  <2>1. pending' = {} /\ RunGenerate(r, queue)
    BY <1>4 DEF Resolve
  <2>2. r \notin Line /\ queue = pending \cup ({r} \cap Requests) /\ r # Flush /\ r # Shutdown
    BY <1>1, <1>2 DEF LineByStage, Working
  <2>3. ~shuttingDown' /\ UNCHANGED <<result, llm, inProcess, stopped>>
    BY <1>1
  <2> HIDE DEF queue, BatchInv
  <2> QED
    BY <1>1, <1>3, <2>1, <2>2, <2>3, TakenKeepsInv
<1>5. CASE ~Full(queue)
  <2>1. /\ pending' = queue /\ UNCHANGED <<batch, lock, generate>>
        /\ task' = FlushScheduled([task EXCEPT ![r] = "waiting"])
    BY <1>5 DEF Resolve
  <2>2. \A t \in Tasks : task'[t] = IF t = r THEN "waiting"
                                   ELSE IF t = Flush /\ task[Flush] \in {"none", "done"} THEN "sleeping"
                                   ELSE task[t]
    BY <2>1, <1>1, <1>2 DEF FlushScheduled, BatchTypeOK
  <2>3. task' \in [Tasks -> Stages]
    BY <2>1, <1>1, <1>2 DEF FlushScheduled, BatchTypeOK, Stages
  <2>4. BatchTypeOK'
    BY <2>1, <2>3, <1>1, <1>3 DEF BatchTypeOK
  <2>5. LineIsOrdered' /\ LineByStage' /\ HolderGenerates' /\ Line' = Line
    BY <2>1, <2>2, <1>1, LineStays DEF Working
  <2>6. StagesByKind'
    BY <2>2, <1>2 DEF StagesByKind, Working
  <2>7. task'[Flush] \in {"sleeping", "locking", "generating"}
    BY <2>2, <1>2 DEF StagesByKind
  <2>8. BatchesAreOwned' /\ UncalledIsUnknown'
    <3>1. \A t \in Tasks : task'[t] \in Working <=> task[t] \in Working
      BY <2>2, <1>1 DEF Working
    <3>2. BatchesAreOwned'
      BY <3>1, <2>1, <1>2 DEF BatchesAreOwned
    <3>3. \A q \in Requests : task'[q] = "none" => task[q] = "none" /\ q # r
      BY <2>2, <1>2
    <3>4. \A q \in queue : result[q] = "none"
      BY <1>1 DEF UncalledIsUnknown
    <3>5. UncalledIsUnknown'
      BY <3>3, <3>4, <2>1, <1>1 DEF UncalledIsUnknown
    <3> QED
      BY <3>2, <3>5
  <2>9. PendingIsFlushed'
    BY <2>7 DEF PendingIsFlushed
  <2>10. EngineIsThere'
    BY <2>2, <1>1, <1>2 DEF EngineIsThere
  <2>11. FiniteBatches' /\ BatchBounded'
    <3>1. IsFiniteSet(queue) /\ Cardinality(queue) < BatchSize
      BY <1>5, FS_AddElement, FS_CardinalityType, BatchAssumption DEF Full, FiniteBatches
    <3> QED
      BY <2>1, <3>1 DEF FiniteBatches, BatchBounded
  <2>12. NoneForgotten'
    <3> SUFFICES ASSUME NEW q \in Requests, task'[q] = "waiting", result[q] = "none"
                 PROVE  \/ \E u \in Tasks : q \in batch[u] /\ task'[u] \in Working
                        \/ q \in pending' /\ task'[Flush] \in {"sleeping"} \cup Working
      BY <1>1, <2>1 DEF NoneForgotten
    <3>1. CASE q \in queue
      BY <3>1, <2>1, <2>7 DEF Working
    <3>2. CASE q \notin queue
      <4>1. task[q] = "waiting"
        BY <3>2, <2>2, <1>2
      <4>2. PICK u \in Tasks : q \in batch[u] /\ task[u] \in Working
        BY <3>2, <4>1 DEF NoneForgotten
      <4> QED
        BY <4>2, <2>2, <1>1 DEF Working
    <3> QED
      BY <3>1, <3>2
  <2>13. TakenOnce'
    BY <2>1, <1>1 DEF TakenOnce, UncalledIsUnknown
  <2> QED
    BY <2>4, <2>5, <2>6, <2>8, <2>9, <2>10, <2>11, <2>12, <2>13
<1> QED
  BY <1>4, <1>5

\* The flush takes what is pending, or ends.
LEMMA FlushWakesKeepsInv ==
  ASSUME BatchInv, FlushWakes
  PROVE  BatchInv'
<1> USE DEF BatchInv
<1>1. /\ Flush \in Tasks \ Requests /\ Shutdown \in Tasks \ Requests /\ Flush # Shutdown
      /\ Tasks = Requests \cup {Flush, Shutdown}
  BY BatchAssumption DEF Tasks
<1>2. task[Flush] = "sleeping" /\ UNCHANGED <<result, llm, inProcess, shuttingDown, stopped>>
  BY DEF FlushWakes
<1>3. CASE pending # {}
  <2>1. pending' = {} /\ RunGenerate(Flush, pending)
    BY <1>3 DEF FlushWakes
  <2>2. llm /\ inProcess /\ ~shuttingDown
    BY <1>3 DEF EngineIsThere, BatchTypeOK
  <2>3. Flush \notin Line /\ pending \in SUBSET Requests
    BY <1>1, <1>2 DEF LineByStage, Working, BatchTypeOK
  <2>4. pending = pending \cup ({Flush} \cap Requests)
    BY <1>1
  <2>5. shuttingDown' <=> Flush = Shutdown
    BY <1>1, <1>2, <2>2
  <2> HIDE DEF BatchInv
  <2> QED
    BY <1>1, <1>2, <2>1, <2>2, <2>3, <2>4, <2>5, TakenKeepsInv
<1>4. CASE pending = {}
  <2>1. UNCHANGED <<pending, batch, lock, generate>>
    BY <1>4 DEF FlushWakes
  <2>2. \A t \in Tasks : task'[t] = IF t = Flush THEN "done" ELSE task[t]
    BY <1>4 DEF FlushWakes, BatchTypeOK
  <2>3. BatchTypeOK'
    BY <1>4, <1>2, <2>1 DEF FlushWakes, BatchTypeOK, Stages, Ended
  <2>4. LineIsOrdered' /\ LineByStage' /\ HolderGenerates' /\ Line' = Line
    BY <1>2, <2>1, <2>2, LineStays DEF Working
  <2>5. StagesByKind'
    BY <1>1, <2>2 DEF StagesByKind, Working, Ended
  <2>6. BatchesAreOwned' /\ UncalledIsUnknown' /\ PendingIsFlushed'
    BY <1>1, <1>2, <1>4, <2>1, <2>2
    DEF BatchesAreOwned, UncalledIsUnknown, PendingIsFlushed, Working
  <2>7. EngineIsThere'
    BY <1>1, <1>2, <1>4, <2>1, <2>2, <2>4 DEF EngineIsThere, Working
  <2>8. FiniteBatches' /\ BatchBounded' /\ TakenOnce'
    BY <1>2, <2>1 DEF FiniteBatches, BatchBounded, TakenOnce
  <2>9. NoneForgotten'
    BY <1>1, <1>2, <1>4, <2>1, <2>2 DEF NoneForgotten, Working
  <2> QED
    BY <2>3, <2>4, <2>5, <2>6, <2>7, <2>8, <2>9
<1> QED
  BY <1>3, <1>4

\* The shutdown takes what is pending and lets nobody in.
LEMMA ShutdownTakenKeepsInv ==
  ASSUME BatchInv, ShutdownTaken
  PROVE  BatchInv'
<1> USE DEF BatchInv
<1>1. /\ Flush \in Tasks \ Requests /\ Shutdown \in Tasks \ Requests /\ Flush # Shutdown
      /\ Tasks = Requests \cup {Flush, Shutdown}
  BY BatchAssumption DEF Tasks
<1>2. /\ inProcess /\ ~shuttingDown /\ shuttingDown' /\ task[Shutdown] = "none" /\ pending' = {}
      /\ UNCHANGED <<result, llm, inProcess, stopped>>
  BY DEF ShutdownTaken, EngineIsThere, BatchTypeOK
<1>3. CASE pending # {}
  <2>1. RunGenerate(Shutdown, pending)
    BY <1>3 DEF ShutdownTaken
  <2>2. llm
    BY <1>3 DEF EngineIsThere, BatchTypeOK
  <2>3. Shutdown \notin Line /\ pending \in SUBSET Requests
    BY <1>1, <1>2 DEF LineByStage, Working, BatchTypeOK
  <2>4. pending = pending \cup ({Shutdown} \cap Requests)
    BY <1>1
  <2> HIDE DEF BatchInv
  <2> QED
    BY <1>1, <1>2, <2>1, <2>2, <2>3, <2>4, TakenKeepsInv
<1>4. CASE pending = {}
  <2>1. UNCHANGED <<pending, batch, lock, generate>>
    BY <1>4, <1>2 DEF ShutdownTaken
  <2>2. \A t \in Tasks : task'[t] = IF t = Shutdown THEN "joining" ELSE task[t]
    BY <1>4 DEF ShutdownTaken, BatchTypeOK
  <2>3. BatchTypeOK'
    BY <1>4, <1>2, <2>1 DEF ShutdownTaken, BatchTypeOK, Stages
  <2>4. LineIsOrdered' /\ LineByStage' /\ HolderGenerates' /\ Line' = Line
    BY <1>2, <2>1, <2>2, LineStays DEF Working
  <2>5. StagesByKind'
    BY <1>1, <2>2 DEF StagesByKind, Working, Ended
  <2>6. BatchesAreOwned' /\ UncalledIsUnknown' /\ PendingIsFlushed'
    BY <1>1, <1>2, <1>4, <2>1, <2>2
    DEF BatchesAreOwned, UncalledIsUnknown, PendingIsFlushed, Working
  <2>7. EngineIsThere'
    BY <1>1, <1>2, <1>4, <2>1, <2>2, <2>4 DEF EngineIsThere, Working
  <2>8. FiniteBatches' /\ BatchBounded' /\ TakenOnce'
    BY <1>2, <2>1 DEF FiniteBatches, BatchBounded, TakenOnce
  <2>9. NoneForgotten'
    BY <1>1, <1>2, <1>4, <2>1, <2>2 DEF NoneForgotten, Working
  <2> QED
    BY <2>3, <2>4, <2>5, <2>6, <2>7, <2>8, <2>9
<1> QED
  BY <1>3, <1>4

-----------------------------------------------------------------------------
(* The theorems *)

LEMMA InitEstablishesBatchInv == BatchInit => BatchInv
<1> SUFFICES ASSUME BatchInit PROVE BatchInv
  OBVIOUS
<1> USE DEF BatchInit
<1>1. BatchTypeOK
  BY DEF BatchTypeOK, Stages
<1>2. Line = {} /\ Generating = {}
  BY DEF Line, Generating
<1>3. LineIsOrdered /\ LineByStage /\ HolderGenerates
  BY <1>2 DEF LineIsOrdered, LineByStage, HolderGenerates, Working
<1>4. StagesByKind /\ BatchesAreOwned /\ UncalledIsUnknown /\ PendingIsFlushed
  BY DEF StagesByKind, BatchesAreOwned, UncalledIsUnknown, PendingIsFlushed, Tasks, Working
<1>5. EngineIsThere
  BY <1>2 DEF EngineIsThere, Tasks, Working
<1>6. FiniteBatches /\ BatchBounded
  BY FS_EmptySet, BatchAssumption DEF FiniteBatches, BatchBounded
<1>7. NoneForgotten /\ TakenOnce
  BY DEF NoneForgotten, TakenOnce, Tasks
<1> QED
  BY <1>1, <1>3, <1>4, <1>5, <1>6, <1>7 DEF BatchInv

\* Every step keeps the invariant and every result that is there.
LEMMA StepKeepsBatchInv ==
  BatchInv /\ [BatchNext]_batchVars =>
    BatchInv' /\ \A r \in Requests : result[r] # "none" => result'[r] = result[r]
<1> DEFINE Kept == \A r \in Requests : result[r] # "none" => result'[r] = result[r]
<1> SUFFICES ASSUME BatchInv, [BatchNext]_batchVars PROVE BatchInv' /\ Kept
  OBVIOUS
<1>1. CASE UNCHANGED batchVars
  BY <1>1 DEF batchVars, BatchInv, BatchTypeOK, LineIsOrdered, LineByStage, HolderGenerates,
     StagesByKind, BatchesAreOwned, UncalledIsUnknown, PendingIsFlushed, EngineIsThere,
     FiniteBatches, NoneForgotten, TakenOnce, BatchBounded, Line, Generating, Holds
<1>2. ASSUME NEW loaded \in BOOLEAN, Startup(loaded) PROVE BatchInv' /\ Kept
  BY <1>2, StartupKeepsInv DEF Startup
<1>3. ASSUME NEW r \in Requests, Resolve(r) PROVE BatchInv' /\ Kept
  BY <1>3, ResolveKeepsInv DEF Resolve
<1>4. ASSUME NEW r \in Requests, ResolveRejected(r) PROVE BatchInv' /\ Kept
  BY <1>4, RejectedKeepsInv DEF ResolveRejected
<1>5. ASSUME NEW r \in Requests, Drained(r) PROVE BatchInv' /\ Kept
  BY <1>5, DrainedKeepsInv
<1>6. ASSUME NEW r \in Requests, Answer(r) PROVE BatchInv' /\ Kept
  BY <1>6, AnswerKeepsInv DEF Answer
<1>7. ASSUME NEW outcome \in {"returned", "raised", "short"}, GenerateEnds(outcome)
      PROVE  BatchInv' /\ Kept
  BY <1>7, GenerateEndsKeepsInv DEF GenerateEnds
<1>8. ASSUME NEW t \in Tasks, Distribute(t) PROVE BatchInv' /\ Kept
  BY <1>8, DistributeKeepsInv
<1>9. ASSUME FlushWakes PROVE BatchInv' /\ Kept
  BY <1>9, FlushWakesKeepsInv DEF FlushWakes
<1>10. ASSUME CancelAll PROVE BatchInv' /\ Kept
  BY <1>10, CancelAllKeepsInv DEF CancelAll
<1>11. ASSUME ShutdownTaken PROVE BatchInv' /\ Kept
  BY <1>11, ShutdownTakenKeepsInv DEF ShutdownTaken
<1>12. ASSUME ShutdownJoined PROVE BatchInv' /\ Kept
  BY <1>12, ShutdownJoinedKeepsInv DEF ShutdownJoined
<1>13. ASSUME ShutdownEnds PROVE BatchInv' /\ Kept
  BY <1>13, ShutdownEndsKeepsInv DEF ShutdownEnds
<1> HIDE DEF Kept
<1> QED
  BY <1>1, <1>2, <1>3, <1>4, <1>5, <1>6, <1>7, <1>8, <1>9, <1>10, <1>11, <1>12, <1>13
  DEF BatchNext

\* In every run of the backend each waiting request has its result, or somebody at work or
\* alive who comes for it; generate() has an engine; a request is in one batch, and no
\* batch exceeds batch_size (resolve, _run_generate, _schedule_deferred_flush,
\* process_shutdown).
THEOREM BatchesStaySound == BatchSpec => []BatchesAreSound
<1>1. BatchInit => BatchInv
  BY InitEstablishesBatchInv
<1>2. BatchInv /\ [BatchNext]_batchVars => BatchInv'
  BY StepKeepsBatchInv
<1>3. BatchInv => BatchesAreSound
  <2> SUFFICES ASSUME BatchInv PROVE EngineOutlivesBatches
    BY DEF BatchInv, BatchesAreSound
  <2> QED
    BY DEF BatchInv, EngineOutlivesBatches, HolderGenerates, Generating, EngineIsThere, Working
<1> QED
  BY <1>1, <1>2, <1>3, PTL DEF BatchSpec

\* The result a waiter was woken with is never replaced, neither by the failure of a later
\* batch nor by the error a cancelled resolve() hands to its batch.
THEOREM ResultsNeverChange == BatchSpec => ResultsStick
<1>1. BatchInit => BatchInv
  BY InitEstablishesBatchInv
<1>2. BatchInv /\ [BatchNext]_batchVars => BatchInv'
  BY StepKeepsBatchInv
<1>3. BatchInv /\ [BatchNext]_batchVars =>
        [\A r \in Requests : result[r] # "none" => result'[r] = result[r]]_batchVars
  BY StepKeepsBatchInv
<1> QED
  BY <1>1, <1>2, <1>3, PTL DEF BatchSpec, ResultsStick

-----------------------------------------------------------------------------
(***************************************************************************)
(* One call and its stream.                                                *)
(***************************************************************************)

CallRecord == [endpoint : Endpoints, streaming : BOOLEAN, expectsTool : BOOLEAN, missing : Behaviours]
CallPieces == [ToolCalls -> Nat \cup {Absent}]
HandlerRecord ==
  [text : Nat, reasoning : Nat, usage : BOOLEAN, content : BOOLEAN, calls : CallPieces]
SentRecord ==
  [events : Nat, text : Nat, reasoning : Nat, tokens : Nat, outputs : Nat, calls : CallPieces,
   over : BOOLEAN]

StreamTyped ==
  /\ call \in CallRecord
  /\ stage \in {"created", "asked", "reading", "closing"} \cup StreamEnded
  /\ clock \in Nat /\ timings \in [Timings -> 0 .. clock]
  /\ handler \in HandlerRecord /\ sent \in SentRecord

\* Only a call that streams, or that of the engine, reads events.
ReadsWhatStreams ==
  /\ call.endpoint = "realtime" => call.streaming
  /\ stage = "reading" => call.streaming \/ call.endpoint = "vllm"

\* What the handler has is what was sent, at every moment and not only in a response.
HandlerKeepsUp ==
  /\ handler.text = sent.text /\ handler.reasoning = sent.reasoning /\ handler.calls = sent.calls
  /\ call.endpoint = "completions" => handler.content

\* How the stamps of a call follow one another.
StampsFollow ==
  /\ stage = "created" => \A s \in Timings : timings[s] = 0
  /\ stage # "created" => timings.start # 0
  /\ timings.firstIteration = 0 <=> timings.lastIteration = 0
  /\ timings.firstIteration # 0 =>
       timings.start <= timings.firstIteration /\ timings.firstIteration <= timings.lastIteration
  /\ timings.firstToken = 0 <=> timings.lastToken = 0
  /\ timings.firstToken # 0 =>
       /\ timings.firstIteration # 0 /\ timings.firstIteration <= timings.firstToken
       /\ timings.firstToken <= timings.lastToken /\ timings.lastToken <= timings.lastIteration
  /\ timings.firstOutput # 0 =>
       /\ timings.firstToken # 0 /\ timings.firstToken <= timings.firstOutput
       /\ timings.firstOutput <= timings.lastToken

\* The end is stamped last, but for a transcription without deltas.
EndIsLast ==
  /\ stage \in {"created", "asked", "reading"} => timings.end = 0
  /\ stage = "closing" => (timings.end # 0 <=> call.endpoint = "realtime")
  /\ timings.end # 0 =>
       \/ timings.lastIteration <= timings.end
       \/ /\ call.endpoint = "realtime" /\ timings.lastIteration = timings.end + 1
          /\ timings.firstToken \in {0, timings.lastIteration}

\* The tokens that are counted and those that were sent.
TokensMatch ==
  /\ call.streaming => timings.tokens = sent.tokens
  /\ timings.firstToken # 0 <=> timings.tokens > 0
  /\ TracksOutput => (timings.firstOutput # 0 <=> sent.outputs > 0)

\* A call yields the announcement of its first token, and one response at its end.
Announced == IF call.endpoint # "vllm" /\ timings.firstToken # 0 THEN <<"first_token">> ELSE <<>>
YieldsMatch ==
  /\ yielded = Announced \/ yielded = Append(Announced, "response")
  /\ stage \notin {"completed", "cancelled"} => yielded = Announced
  /\ stage = "completed" => yielded = Append(Announced, "response")
  /\ stage = "cancelled" /\ call.streaming /\ call.endpoint # "vllm" =>
       yielded = Append(Announced, "response")

StreamInv ==
  /\ StreamTyped /\ ReadsWhatStreams /\ HandlerKeepsUp /\ StampsFollow /\ EndIsLast
  /\ TokensMatch /\ YieldsMatch

LEMMA InitStream ==
  ASSUME StreamInit
  PROVE  StreamInv
<1>1. /\ call \in CallRecord /\ stage = "created" /\ clock = 0 /\ yielded = <<>>
      /\ \A s \in Timings : timings[s] = 0
      /\ timings = [s \in Timings |-> 0]
      /\ call.endpoint = "realtime" => call.streaming
  BY DEF StreamInit, CallRecord
<1>2. /\ handler = [text |-> 0, reasoning |-> 0, usage |-> FALSE,
                    content |-> call.endpoint = "completions",
                    calls |-> [i \in ToolCalls |-> Absent]]
      /\ sent = [events |-> 0, text |-> 0, reasoning |-> 0, tokens |-> 0, outputs |-> 0,
                 calls |-> [i \in ToolCalls |-> Absent], over |-> FALSE]
  BY DEF StreamInit
<1>3. handler \in HandlerRecord /\ sent \in SentRecord
  BY <1>2 DEF HandlerRecord, SentRecord, CallPieces
<1>4. timings \in [Timings -> 0 .. clock]
  BY <1>1
<1>5. StreamTyped /\ ReadsWhatStreams
  BY <1>1, <1>3, <1>4 DEF StreamTyped, ReadsWhatStreams
<1>6. HandlerKeepsUp
  BY <1>2 DEF HandlerKeepsUp
<1>7. /\ timings.start = 0 /\ timings.firstIteration = 0 /\ timings.lastIteration = 0
      /\ timings.firstToken = 0 /\ timings.lastToken = 0 /\ timings.firstOutput = 0
      /\ timings.end = 0 /\ timings.tokens = 0
  BY <1>1 DEF Timings
<1>8. StampsFollow /\ EndIsLast
  BY <1>1, <1>7 DEF StampsFollow, EndIsLast
<1>9. TokensMatch
  BY <1>2, <1>7 DEF TokensMatch
<1>10. YieldsMatch
  BY <1>1, <1>7 DEF YieldsMatch, Announced
<1> QED
  BY <1>5, <1>6, <1>8, <1>9, <1>10 DEF StreamInv

\* The events there are, with what the server must have sent before.
LEMMA EventForms ==
  ASSUME NEW e \in ServerEvents, StreamTyped
  PROVE  \/ e = Text
         \/ e = Reasoning /\ call.endpoint # "completions"
         \/ e = Both /\ call.endpoint # "completions"
         \/ \E t \in {"usage", "empty", "created", "ignored"} : e = Plain(t, 0, FALSE)
         \/ \E i \in ToolCalls : e = OfCall("added", i) /\ call.endpoint # "completions"
         \/ \E i \in ToolCalls : e = OfCall("delta", i) /\ call.endpoint # "completions"
              /\ (call.endpoint = "chat" \/ sent.calls[i] # Absent)
         \/ \E i \in ToolCalls : e = OfCall("done", i) /\ call.endpoint = "responses"
              /\ sent.calls[i] # Absent
<1>1. call.endpoint \in {"completions", "chat", "responses", "realtime", "vllm"}
  BY StreamAssumption DEF StreamTyped, CallRecord
<1>2. CASE call.endpoint = "completions"
  <2>1. ServerEvents = {Text} \cup Silent
    BY <1>2 DEF ServerEvents
  <2> QED
    BY <2>1 DEF Silent
<1>3. CASE call.endpoint = "chat"
  <2>1. ServerEvents =
          {Text, Reasoning, Both} \cup Silent \cup {OfCall("delta", i) : i \in ToolCalls}
    BY <1>3 DEF ServerEvents
  <2> QED
    BY <1>3, <2>1 DEF Silent
<1>4. CASE call.endpoint = "responses"
  <2>1. ServerEvents =
         {Text, Reasoning, Plain("created", 0, FALSE), Plain("empty", 0, FALSE)}
         \cup {OfCall("added", i) : i \in {j \in ToolCalls : sent.calls[j] = Absent}}
         \cup {OfCall(t, i) : t \in {"delta", "done"},
                              i \in {j \in ToolCalls : sent.calls[j] # Absent}}
    BY <1>4 DEF ServerEvents
  <2> DEFINE Plains == {Text, Reasoning, Plain("created", 0, FALSE), Plain("empty", 0, FALSE)}
             News == {OfCall("added", i) : i \in {j \in ToolCalls : sent.calls[j] = Absent}}
             Known == {j \in ToolCalls : sent.calls[j] # Absent}
             Olds == {OfCall(t, i) : t \in {"delta", "done"}, i \in Known}
  <2>2. CASE e \in Olds
    <3>1. PICK t \in {"delta", "done"}, i \in Known : e = OfCall(t, i)
      BY <2>2
    <3>2. i \in ToolCalls /\ sent.calls[i] # Absent
      OBVIOUS
    <3> HIDE DEF Known, Olds, News, Plains
    <3> QED
      BY <1>4, <3>1, <3>2
  <2>3. CASE e \in News
    <3>1. PICK i \in {j \in ToolCalls : sent.calls[j] = Absent} : e = OfCall("added", i)
      BY <2>3
    <3> HIDE DEF Known, Olds, News, Plains
    <3> QED
      BY <1>4, <3>1
  <2>4. CASE e \in Plains
    BY <1>4, <2>4
  <2>5. ServerEvents = Plains \cup News \cup Olds
    BY <2>1
  <2> HIDE DEF Known, Olds, News, Plains
  <2>6. e \in Plains \/ e \in News \/ e \in Olds
    BY <2>5
  <2> QED
    BY <2>2, <2>3, <2>4, <2>6, Zenon
<1>5. CASE call.endpoint = "realtime"
  <2>1. ServerEvents = {Text, Plain("empty", 0, FALSE), Plain("ignored", 0, FALSE)}
    BY <1>5 DEF ServerEvents
  <2> QED
    BY <2>1
<1>6. CASE call.endpoint = "vllm"
  BY <1>6 DEF ServerEvents
<1> QED
  BY <1>1, <1>2, <1>3, <1>4, <1>5, <1>6

LEMMA EventIs ==
  ASSUME NEW e \in ServerEvents, StreamTyped
  PROVE  /\ e.tokens \in 0 .. 1
         /\ e.type \in {"added", "delta", "done"} => e.index \in ToolCalls
         /\ e.type \in {"delta", "done"} /\ call.endpoint # "chat" => sent.calls[e.index] # Absent
         /\ call.endpoint = "chat" => e.type # "done"
         /\ e.type = "ignored" => e.tokens = 0
BY EventForms DEF Text, Plain, Reasoning, Both, OfCall

LEMMA EventOutput ==
  ASSUME NEW e \in ServerEvents, StreamTyped
  PROVE  /\ e.output \in BOOLEAN
         /\ call.endpoint = "completions" /\ e.tokens > 0 => e.output = TRUE
<1>1. /\ Text.output = TRUE /\ Reasoning.output = FALSE /\ Both.output = TRUE
      /\ \A t : Plain(t, 0, FALSE).output = FALSE
      /\ \A t, i : OfCall(t, i).output = TRUE
  BY DEF Text, Plain, Reasoning, Both, OfCall
<1>2. \A t : Plain(t, 0, FALSE).tokens = 0
  BY DEF Plain
<1>3. e.output = TRUE \/ e.output = FALSE
  BY EventForms, <1>1, Zenon
<1>4. ASSUME call.endpoint = "completions" PROVE e.output = TRUE \/ e.tokens = 0
  BY <1>4, EventForms, <1>1, <1>2, Zenon
<1>5. ASSUME e.tokens = 0 PROVE ~(e.tokens > 0)
  BY <1>5
<1> QED
  BY <1>3, <1>4, <1>5, Zenon

\* Records updated field by field.
HandlerWith(text, reasoning, usage, content, calls) ==
  [handler EXCEPT !.text = text, !.reasoning = reasoning, !.usage = usage,
                  !.content = content, !.calls = calls]
SentWith(events, text, reasoning, tokens, outputs, calls) ==
  [sent EXCEPT !.events = events, !.text = text, !.reasoning = reasoning,
               !.tokens = tokens, !.outputs = outputs, !.calls = calls]

LEMMA HandlerFields ==
  ASSUME handler \in HandlerRecord, NEW text, NEW reasoning, NEW usage, NEW content, NEW calls,
         NEW h, h = HandlerWith(text, reasoning, usage, content, calls)
  PROVE  /\ h.text = text /\ h.reasoning = reasoning /\ h.usage = usage
         /\ h.content = content /\ h.calls = calls
         /\ text \in Nat /\ reasoning \in Nat /\ usage \in BOOLEAN /\ content \in BOOLEAN
            /\ calls \in CallPieces => h \in HandlerRecord
<1>1. PICK a, b, c, d, k : handler = [text |-> a, reasoning |-> b, usage |-> c,
                                      content |-> d, calls |-> k]
  BY DEF HandlerRecord
<1>2. h = [text |-> text, reasoning |-> reasoning, usage |-> usage, content |-> content,
           calls |-> calls]
  BY <1>1 DEF HandlerWith
<1> QED
  BY <1>2 DEF HandlerRecord

LEMMA SentFields ==
  ASSUME sent \in SentRecord, NEW events, NEW text, NEW reasoning, NEW tokens, NEW outputs,
         NEW calls, NEW h, h = SentWith(events, text, reasoning, tokens, outputs, calls)
  PROVE  /\ h.events = events /\ h.text = text /\ h.reasoning = reasoning
         /\ h.tokens = tokens /\ h.outputs = outputs /\ h.calls = calls /\ h.over = sent.over
         /\ events \in Nat /\ text \in Nat /\ reasoning \in Nat /\ tokens \in Nat
            /\ outputs \in Nat /\ calls \in CallPieces => h \in SentRecord
<1>1. PICK a, b, c, d, f, k, o :
        sent = [events |-> a, text |-> b, reasoning |-> c, tokens |-> d, outputs |-> f,
                calls |-> k, over |-> o] /\ o \in BOOLEAN
  BY DEF SentRecord
<1>2. h = [events |-> events, text |-> text, reasoning |-> reasoning, tokens |-> tokens,
           outputs |-> outputs, calls |-> calls, over |-> o]
  BY <1>1 DEF SentWith
<1> QED
  BY <1>1, <1>2 DEF SentRecord

\* The calls of the handler and of the server after an event.
LEMMA CallsKeepUp ==
  ASSUME StreamTyped, HandlerKeepsUp, NEW e \in ServerEvents
  PROVE  CallsAfter(e, handler.calls) = CallsSent(e) /\ CallsSent(e) \in CallPieces
<1> DEFINE c == sent.calls
<1>1. c \in CallPieces /\ handler.calls = c
  BY DEF StreamTyped, HandlerKeepsUp, SentRecord
<1>2. CASE e.type = "added"
  <2>1. CallsAfter(e, c) = [c EXCEPT ![e.index] = 0] /\ CallsSent(e) = [c EXCEPT ![e.index] = 0]
    BY <1>2 DEF CallsAfter, CallsSent
  <2> QED
    BY <1>1, <1>2, <2>1, EventIs DEF CallPieces
<1>3. CASE e.type = "delta"
  <2>1. call.endpoint = "chat" \/ c[e.index] # Absent
    BY <1>3, EventIs
  <2> DEFINE d == [c EXCEPT ![e.index] = IF @ = Absent THEN 1 ELSE @ + 1]
  <2>2. CallsAfter(e, c) = d /\ CallsSent(e) = d
    BY <1>3, <2>1 DEF CallsAfter, CallsSent
  <2>3. e.index \in ToolCalls /\ c[e.index] \in Nat \cup {Absent}
    BY <1>1, <1>3, EventIs DEF CallPieces
  <2>4. (IF c[e.index] = Absent THEN 1 ELSE c[e.index] + 1) \in Nat \cup {Absent}
    BY <2>3 DEF Absent
  <2>5. d \in CallPieces
    BY <1>1, <2>3, <2>4 DEF CallPieces
  <2> QED
    BY <1>1, <2>2, <2>5
<1>4. CASE e.type = "done"
  <2>1. e.index \in ToolCalls /\ c[e.index] # Absent
    BY <1>4, EventIs
  <2>2. CallsAfter(e, c) = [c EXCEPT ![e.index] = c[e.index]] /\ CallsSent(e) = c
    BY <1>4, <2>1 DEF CallsAfter, CallsSent
  <2>3. [c EXCEPT ![e.index] = c[e.index]] = c
    BY <1>1, <2>1 DEF CallPieces
  <2> QED
    BY <1>1, <2>2, <2>3
<1>5. CASE e.type \notin {"added", "delta", "done"}
  <2>1. CallsAfter(e, c) = c /\ CallsSent(e) = c
    BY <1>5 DEF CallsAfter, CallsSent
  <2> QED
    BY <1>1, <2>1
<1> QED
  BY <1>2, <1>3, <1>4, <1>5

\* One event: types, the handler and its copy at the server.
LEMMA ReceiveKeepsUp ==
  ASSUME StreamInv, stage = "reading", NEW e \in ServerEvents, Receive(e)
  PROVE  /\ handler' \in HandlerRecord /\ sent' \in SentRecord /\ HandlerKeepsUp'
         /\ sent'.tokens = sent.tokens + e.tokens
         /\ sent'.outputs = IF e.tokens > 0 /\ e.output = TRUE THEN sent.outputs + 1
                            ELSE sent.outputs
         /\ e.tokens > 0 => handler'.content = e.output
<1>1. /\ StreamTyped /\ HandlerKeepsUp /\ handler \in HandlerRecord /\ sent \in SentRecord
  BY DEF StreamInv, StreamTyped
<1>2. handler' = Accumulated(e) /\ sent' = SentAfter(e) /\ call' = call
  BY DEF Receive
<1> DEFINE t == IF e.type \in {"text", "both"} THEN handler.text + 1 ELSE handler.text
           r == IF e.type \in {"reasoning", "both"} THEN handler.reasoning + 1
                ELSE handler.reasoning
           u == (handler.usage \/ e.type = "usage")
           o == IF e.tokens > 0 /\ call.endpoint # "completions" THEN e.output
                ELSE handler.content
           k == CallsAfter(e, handler.calls)
           n == IF e.tokens > 0 /\ e.output THEN sent.outputs + 1 ELSE sent.outputs
           t2 == IF e.type \in {"text", "both"} THEN sent.text + 1 ELSE sent.text
           r2 == IF e.type \in {"reasoning", "both"} THEN sent.reasoning + 1
                ELSE sent.reasoning
           k2 == CallsSent(e)
<1>3. Accumulated(e) = HandlerWith(t, r, u, o, k)
  BY DEF Accumulated, HandlerWith
<1>4. SentAfter(e) = SentWith(sent.events + 1, t2, r2, sent.tokens + e.tokens, n, k2)
  BY DEF SentAfter, SentWith
<1>5. /\ handler.text \in Nat /\ handler.reasoning \in Nat /\ handler.usage \in BOOLEAN
      /\ handler.content \in BOOLEAN
      /\ sent.events \in Nat /\ sent.tokens \in Nat /\ sent.outputs \in Nat
      /\ handler.text = sent.text /\ handler.reasoning = sent.reasoning
      /\ (call.endpoint = "completions" => handler.content = TRUE)
  BY <1>1 DEF HandlerRecord, SentRecord, HandlerKeepsUp
<1>6. e.tokens \in 0 .. 1
  BY <1>1, EventIs
<1>7. e.output \in BOOLEAN /\ (call.endpoint = "completions" /\ e.tokens > 0 => e.output = TRUE)
  BY <1>1, EventOutput
<1>8. t = t2 /\ r = r2 /\ k = k2 /\ k \in CallPieces
  BY <1>1, <1>5, CallsKeepUp
<1>9. t \in Nat /\ r \in Nat /\ n \in Nat
  BY <1>5
<1>10. u \in BOOLEAN
  OBVIOUS
<1>11. o \in BOOLEAN
  BY <1>5, <1>7, Zenon
<1>12. e.tokens > 0 => o = e.output
  <2>1. CASE call.endpoint = "completions"
    BY <2>1, <1>5, <1>7, Zenon
  <2>2. CASE call.endpoint # "completions"
    BY <2>2
  <2> QED
    BY <2>1, <2>2
<1>13. n = IF e.tokens > 0 /\ e.output = TRUE THEN sent.outputs + 1 ELSE sent.outputs
  BY <1>7, Zenon
<1>14. call.endpoint = "completions" => o = TRUE
  BY <1>5, Zenon
<1> HIDE DEF t, r, u, o, k, n, t2, r2, k2
<1>15. handler' = HandlerWith(t, r, u, o, k) /\ handler \in HandlerRecord
  BY <1>1, <1>2, <1>3
<1>16. sent' = SentWith(sent.events + 1, t2, r2, sent.tokens + e.tokens, n, k2)
  BY <1>2, <1>4
<1>17. /\ handler'.text = t /\ handler'.reasoning = r /\ handler'.content = o
       /\ handler'.calls = k
  BY <1>15, HandlerFields
<1>18. handler' \in HandlerRecord
  BY <1>15, <1>8, <1>9, <1>10, <1>11, HandlerFields
<1>19. /\ sent'.text = t2 /\ sent'.reasoning = r2 /\ sent'.tokens = sent.tokens + e.tokens
       /\ sent'.outputs = n /\ sent'.calls = k2
  BY <1>1, <1>16, SentFields
<1>20. sent.events + 1 \in Nat /\ sent.tokens + e.tokens \in Nat
  BY <1>5, <1>6
<1>21. t2 \in Nat /\ r2 \in Nat /\ k2 \in CallPieces
  BY <1>8, <1>9
<1>22. sent' \in SentRecord
  BY <1>1, <1>16, <1>9, <1>20, <1>21, SentFields
<1>23. HandlerKeepsUp'
  BY <1>2, <1>8, <1>14, <1>17, <1>19, Zenon DEF HandlerKeepsUp
<1> QED
  BY <1>12, <1>13, <1>17, <1>18, <1>19, <1>22, <1>23, Zenon
\* What an iteration, and an iteration of tokens, leave in the timings.
LEMMA IteratedFields ==
  ASSUME NEW c \in Nat, NEW d \in Nat, c < d, NEW t \in [Timings -> 0 .. c],
         NEW i, i = Iterated(t, d)
  PROVE  /\ i \in [Timings -> 0 .. d]
         /\ i.start = t.start /\ i.end = t.end /\ i.tokens = t.tokens
         /\ i.firstToken = t.firstToken /\ i.lastToken = t.lastToken
         /\ i.firstOutput = t.firstOutput /\ i.lastIteration = d
         /\ i.firstIteration = Or(t.firstIteration, d)
<1>1. \A s \in Timings : t[s] \in 0 .. c /\ t[s] \in 0 .. d
  OBVIOUS
<1>2. Or(t.firstIteration, d) \in 0 .. d /\ d \in 0 .. d
  BY <1>1 DEF Or, Timings
<1>3. t.iterations + 1 \in 0 .. d
  <2>1. t.iterations \in 0 .. c
    BY <1>1 DEF Timings
  <2> QED
    BY <2>1
<1>4. i = [t EXCEPT !.firstIteration = Or(t.firstIteration, d), !.lastIteration = d,
                    !.iterations = t.iterations + 1]
  BY DEF Iterated
<1>5. t \in [Timings -> 0 .. d]
  BY <1>1
<1> HIDE DEF Or
<1>6. i \in [Timings -> 0 .. d]
  BY <1>2, <1>3, <1>4, <1>5
<1> QED
  BY <1>4, <1>5, <1>6 DEF Timings

LEMMA TokenedFields ==
  ASSUME NEW d \in Nat, NEW t \in [Timings -> 0 .. d], NEW n \in Nat,
         t.tokens + n \in 0 .. d, NEW output \in BOOLEAN, NEW i, i = Tokened(t, n, output, d)
  PROVE  /\ i \in [Timings -> 0 .. d]
         /\ i.start = t.start /\ i.end = t.end /\ i.tokens = t.tokens + n
         /\ i.firstIteration = t.firstIteration /\ i.lastIteration = t.lastIteration
         /\ i.firstToken = Or(t.firstToken, d) /\ i.lastToken = d
         /\ i.firstOutput = IF output THEN Or(t.firstOutput, d) ELSE t.firstOutput
<1> DEFINE o == IF output THEN Or(t.firstOutput, d) ELSE t.firstOutput
<1>1. \A s \in Timings : t[s] \in 0 .. d
  OBVIOUS
<1>2. Or(t.firstToken, d) \in 0 .. d /\ d \in 0 .. d /\ Or(t.firstOutput, d) \in 0 .. d
  BY <1>1 DEF Or, Timings
<1>3. o \in 0 .. d
  BY <1>1, <1>2 DEF Timings
<1>4. i = [t EXCEPT !.firstToken = Or(t.firstToken, d), !.lastToken = d,
                    !.tokens = t.tokens + n, !.firstOutput = o]
  BY DEF Tokened
<1> HIDE DEF o
<1>6. i \in [Timings -> 0 .. d]
  BY <1>2, <1>3, <1>4
<1>7. i.firstOutput = o
  BY <1>4 DEF Timings
<1> QED
  BY <1>4, <1>6, <1>7 DEF Timings, o

\* What the invariant says of the stamps, as numbers.
LEMMA StampsAreNumbers ==
  ASSUME NEW c \in Nat, NEW t \in [Timings -> 0 .. c]
  PROVE  /\ t.start \in 0 .. c /\ t.end \in 0 .. c /\ t.tokens \in 0 .. c
         /\ t.firstIteration \in 0 .. c /\ t.lastIteration \in 0 .. c
         /\ t.firstToken \in 0 .. c /\ t.lastToken \in 0 .. c /\ t.firstOutput \in 0 .. c
BY DEF Timings

LEMMA ReceiveStream ==
  ASSUME StreamInv, stage = "reading", NEW e \in ServerEvents, Receive(e)
  PROVE  StreamInv'
<1> DEFINE now == clock + 1
           iterated == IF call.endpoint = "realtime" /\ e.type = "ignored"
                       THEN timings ELSE Iterated(timings, now)
           counts == e.tokens > 0 /\ (call.endpoint = "vllm" => call.streaming)
           output == TracksOutput /\ handler'.content
           i == iterated
           t == timings
           u == timings'
<1>1. /\ StreamTyped /\ ReadsWhatStreams /\ StampsFollow /\ EndIsLast /\ TokensMatch
      /\ YieldsMatch /\ HandlerKeepsUp
  BY DEF StreamInv
<1>2. /\ clock' = now /\ call' = call /\ stage' = stage
      /\ u = IF counts THEN Tokened(i, e.tokens, output, now) ELSE i
      /\ yielded' = IF counts /\ t.firstToken = 0 /\ call.endpoint # "vllm"
                    THEN Append(yielded, "first_token") ELSE yielded
  BY DEF Receive
<1>3. clock \in Nat /\ now \in Nat /\ clock < now /\ t \in [Timings -> 0 .. clock]
  BY <1>1 DEF StreamTyped
<1>4. e.tokens \in 0 .. 1 /\ (e.type = "ignored" => e.tokens = 0)
  BY <1>1, EventIs
<1>5. /\ handler' \in HandlerRecord /\ sent' \in SentRecord /\ HandlerKeepsUp'
      /\ sent'.tokens = sent.tokens + e.tokens
      /\ sent'.outputs = IF e.tokens > 0 /\ e.output = TRUE THEN sent.outputs + 1
                         ELSE sent.outputs
      /\ e.tokens > 0 => handler'.content = e.output
  BY ReceiveKeepsUp
<1>6. /\ t.start \in 0 .. clock /\ t.end \in 0 .. clock /\ t.tokens \in 0 .. clock
      /\ t.firstIteration \in 0 .. clock /\ t.lastIteration \in 0 .. clock
      /\ t.firstToken \in 0 .. clock /\ t.lastToken \in 0 .. clock
      /\ t.firstOutput \in 0 .. clock
  BY <1>3, StampsAreNumbers
<1>7. t.start # 0 /\ t.end = 0
  BY <1>1 DEF StampsFollow, EndIsLast
<1>8. /\ i \in [Timings -> 0 .. now]
      /\ i.start = t.start /\ i.end = t.end /\ i.tokens = t.tokens
      /\ i.firstToken = t.firstToken /\ i.lastToken = t.lastToken
      /\ i.firstOutput = t.firstOutput
  <2>1. CASE call.endpoint = "realtime" /\ e.type = "ignored"
    BY <1>3, <2>1
  <2>2. CASE ~(call.endpoint = "realtime" /\ e.type = "ignored")
    <3>1. i = Iterated(t, now)
      BY <2>2
    <3> HIDE DEF i, now
    <3> QED
      BY <1>3, <3>1, IteratedFields
  <2> QED
    BY <2>1, <2>2
<1>9. \/ /\ i.lastIteration = now /\ i.firstIteration = Or(t.firstIteration, now)
      \/ /\ i = t /\ ~counts
  <2>1. CASE call.endpoint = "realtime" /\ e.type = "ignored"
    BY <1>4, <2>1
  <2>2. CASE ~(call.endpoint = "realtime" /\ e.type = "ignored")
    <3>1. i = Iterated(t, now)
      BY <2>2
    <3> HIDE DEF i, now
    <3> QED
      BY <1>3, <3>1, IteratedFields
  <2> QED
    BY <2>1, <2>2
<1>10. output \in BOOLEAN
  BY DEF TracksOutput
<1>11. ASSUME counts
       PROVE  /\ u \in [Timings -> 0 .. now]
              /\ u.start = t.start /\ u.end = 0 /\ u.tokens = t.tokens + 1
              /\ u.firstIteration = Or(t.firstIteration, now) /\ u.lastIteration = now
              /\ u.firstToken = Or(t.firstToken, now) /\ u.lastToken = now
              /\ u.firstOutput = IF output THEN Or(t.firstOutput, now) ELSE t.firstOutput
              /\ e.tokens = 1
  <2>1. u = Tokened(i, e.tokens, output, now) /\ e.tokens = 1
    BY <1>2, <1>4, <1>11
  <2>2. i.tokens + e.tokens \in 0 .. now
    BY <1>6, <1>8, <1>3, <2>1
  <2> HIDE DEF i, now, output, counts
  <2>3. /\ u \in [Timings -> 0 .. now]
        /\ u.start = i.start /\ u.end = i.end /\ u.tokens = i.tokens + e.tokens
        /\ u.firstIteration = i.firstIteration /\ u.lastIteration = i.lastIteration
        /\ u.firstToken = Or(i.firstToken, now) /\ u.lastToken = now
        /\ u.firstOutput = IF output THEN Or(i.firstOutput, now) ELSE i.firstOutput
    <3>1. e.tokens \in Nat
      BY <1>4
    <3> QED
      BY <1>3, <1>8, <1>10, <2>1, <2>2, <3>1, TokenedFields
  <2> QED
    BY <1>7, <1>8, <1>9, <1>11, <2>1, <2>3
<1>12. ASSUME ~counts PROVE u = i
  BY <1>2, <1>12
<1>13. StreamTyped'
  <2>1. u \in [Timings -> 0 .. now]
    BY <1>8, <1>11, <1>12
  <2> QED
    BY <1>1, <1>2, <1>3, <1>5, <2>1 DEF StreamTyped
<1>14. ReadsWhatStreams'
  BY <1>1, <1>2 DEF ReadsWhatStreams
<1>15. StampsFollow' /\ EndIsLast'
  <2>1. /\ (t.firstIteration = 0 <=> t.lastIteration = 0)
        /\ (t.firstIteration # 0 =>
               t.start <= t.firstIteration /\ t.firstIteration <= t.lastIteration)
        /\ (t.firstToken = 0 <=> t.lastToken = 0)
        /\ (t.firstToken # 0 =>
              /\ t.firstIteration # 0 /\ t.firstIteration <= t.firstToken
              /\ t.firstToken <= t.lastToken /\ t.lastToken <= t.lastIteration)
        /\ (t.firstOutput # 0 =>
              /\ t.firstToken # 0 /\ t.firstToken <= t.firstOutput
              /\ t.firstOutput <= t.lastToken)
    BY <1>1 DEF StampsFollow
  <2>2. CASE counts
    <3> HIDE DEF output, counts
    <3>1. stage' = "reading"
      BY <1>2
    <3> QED
      BY <1>3, <1>6, <1>7, <1>11, <2>1, <2>2, <3>1 DEF StampsFollow, EndIsLast, Or
  <2>3. CASE ~counts
    <3>1. u = i /\ stage' = "reading"
      BY <1>2, <1>12, <2>3
    <3> HIDE DEF output, counts, i
    <3> QED
      BY <1>3, <1>6, <1>7, <1>8, <1>9, <2>1, <3>1 DEF StampsFollow, EndIsLast, Or
  <2> QED
    BY <2>2, <2>3
<1>16. TokensMatch'
  <2>1. /\ (call.streaming => t.tokens = sent.tokens)
        /\ (t.firstToken # 0 <=> t.tokens > 0)
        /\ (TracksOutput => (t.firstOutput # 0 <=> sent.outputs > 0))
    BY <1>1 DEF TokensMatch
  <2>2. sent.outputs \in Nat /\ sent.tokens \in Nat
    BY <1>1 DEF StreamTyped, SentRecord
  <2>3. TracksOutput' = TracksOutput /\ call' = call
    BY <1>2 DEF TracksOutput
  <2>4. call.streaming => u.tokens = sent'.tokens
    <3>1. CASE counts
      BY <1>5, <1>11, <2>1, <3>1
    <3>2. ASSUME ~counts, call.streaming PROVE u.tokens = sent'.tokens
      <4>1. e.tokens = 0
        BY <1>4, <3>2
      <4>2. u.tokens = t.tokens
        BY <1>8, <1>12, <3>2
      <4> HIDE DEF counts
      <4> QED
        BY <1>5, <2>1, <2>2, <3>2, <4>1, <4>2
    <3> QED
      BY <3>1, <3>2
  <2>5. u.firstToken # 0 <=> u.tokens > 0
    <3>1. CASE counts
      <4> HIDE DEF counts, output
      <4> QED
        BY <1>3, <1>6, <1>11, <2>1, <3>1 DEF Or
    <3>2. CASE ~counts
      <4>1. u = i
        BY <1>12, <3>2
      <4> HIDE DEF i, counts
      <4> QED
        BY <1>8, <2>1, <4>1
    <3> QED
      BY <3>1, <3>2
  <2>6. ASSUME TracksOutput PROVE u.firstOutput # 0 <=> sent'.outputs > 0
    <3>1. CASE counts
      <4>1. output = handler'.content /\ handler'.content = e.output
        <5>1. handler'.content = e.output
          BY <1>5, <3>1
        <5>2. handler'.content \in BOOLEAN
          BY <1>5 DEF HandlerRecord
        <5> QED
          BY <2>6, <5>1, <5>2, Zenon
      <4>2. e.tokens > 0
        BY <3>1
      <4> HIDE DEF counts, output
      <4>3. CASE output = TRUE
        <5>1. sent'.outputs = sent.outputs + 1
          BY <1>5, <4>1, <4>2, <4>3
        <5>2. u.firstOutput = Or(t.firstOutput, now)
          BY <1>11, <3>1, <4>3
        <5> QED
          BY <1>3, <1>6, <2>2, <5>1, <5>2 DEF Or
      <4>4. CASE output = FALSE
        <5>1. sent'.outputs = sent.outputs
          BY <1>5, <4>1, <4>4
        <5>2. u.firstOutput = t.firstOutput
          BY <1>11, <3>1, <4>4
        <5> QED
          BY <2>1, <2>6, <5>1, <5>2
      <4> QED
        BY <1>10, <4>3, <4>4, Zenon
    <3>2. CASE ~counts
      <4>1. e.tokens = 0 /\ u = i
        BY <1>4, <1>12, <2>6, <3>2 DEF TracksOutput
      <4>2. sent'.outputs = sent.outputs
        BY <1>5, <4>1
      <4> HIDE DEF i, counts
      <4> QED
        BY <1>8, <2>1, <2>6, <4>1, <4>2
    <3> QED
      BY <3>1, <3>2
  <2> QED
    BY <2>3, <2>4, <2>5, <2>6, Zenon DEF TokensMatch
<1>17. YieldsMatch'
  <2>1. yielded = Announced
    BY <1>1 DEF YieldsMatch
  <2>2. stage' = "reading"
    BY <1>2
  <2>3. yielded' = Announced'
    <3>1. CASE counts
      <4>1. u.firstToken = Or(t.firstToken, now) /\ u.firstToken # 0
        BY <1>3, <1>6, <1>11, <3>1 DEF Or
      <4>2. Append(<<>>, "first_token") = <<"first_token">>
        OBVIOUS
      <4>3. yielded' = IF t.firstToken = 0 /\ call.endpoint # "vllm"
                       THEN Append(yielded, "first_token") ELSE yielded
        BY <1>2, <3>1
      <4>4. Announced' = IF call.endpoint # "vllm" THEN <<"first_token">> ELSE <<>>
        BY <1>2, <4>1 DEF Announced
      <4> HIDE DEF i, output, counts
      <4> QED
        BY <2>1, <4>2, <4>3, <4>4 DEF Announced
    <3>2. CASE ~counts
      <4>1. u.firstToken = t.firstToken
        BY <1>8, <1>12, <3>2
      <4> HIDE DEF i, output
      <4> QED
        BY <1>2, <2>1, <3>2, <4>1 DEF Announced
    <3> QED
      BY <3>1, <3>2
  <2> QED
    BY <2>2, <2>3 DEF YieldsMatch
<1> QED
  BY <1>5, <1>13, <1>14, <1>15, <1>16, <1>17 DEF StreamInv
\* The stamp of the start, or of the end, and nothing else.
LEMMA StampedFields ==
  ASSUME NEW c \in Nat, NEW d \in Nat, c <= d, NEW t \in [Timings -> 0 .. c],
         NEW s \in {"start", "end"}, NEW v \in 0 .. d, NEW i, i = [t EXCEPT ![s] = v]
  PROVE  /\ i \in [Timings -> 0 .. d]
         /\ i[s] = v /\ (s = "start" => i.end = t.end) /\ (s = "end" => i.start = t.start)
         /\ i.tokens = t.tokens /\ i.iterations = t.iterations
         /\ i.firstIteration = t.firstIteration /\ i.lastIteration = t.lastIteration
         /\ i.firstToken = t.firstToken /\ i.lastToken = t.lastToken
         /\ i.firstOutput = t.firstOutput
<1>1. t \in [Timings -> 0 .. d] /\ s \in Timings
  BY DEF Timings
<1> QED
  BY <1>1 DEF Timings

\* A step that leaves the handler, the server and all stamps but the end alone.
LEMMA OnlyTheEnd ==
  ASSUME StreamInv, call' = call, handler' = handler, sent' = sent,
         clock' \in Nat, clock <= clock',
         NEW v \in 0 .. clock', timings' = timings \/ timings' = [timings EXCEPT !.end = v],
         stage # "created", stage' # "created",
         stage' \in {"asked", "reading", "closing"} \cup StreamEnded
  PROVE  /\ timings' \in [Timings -> 0 .. clock'] /\ StreamTyped' /\ HandlerKeepsUp'
         /\ StampsFollow' /\ TokensMatch' /\ Announced' = Announced
         /\ timings.lastIteration' = timings.lastIteration
         /\ timings.firstToken' = timings.firstToken
<1> DEFINE t == timings
           u == timings'
<1>1. /\ StreamTyped /\ StampsFollow /\ TokensMatch /\ HandlerKeepsUp
      /\ clock \in Nat /\ t \in [Timings -> 0 .. clock]
  BY DEF StreamInv, StreamTyped
<1>2. /\ u \in [Timings -> 0 .. clock']
      /\ u.start = t.start /\ u.tokens = t.tokens
      /\ u.firstIteration = t.firstIteration /\ u.lastIteration = t.lastIteration
      /\ u.firstToken = t.firstToken /\ u.lastToken = t.lastToken
      /\ u.firstOutput = t.firstOutput
  <2>1. CASE u = t
    BY <1>1, <2>1
  <2>2. CASE u = [t EXCEPT !["end"] = v]
    BY <1>1, <2>2, StampedFields
  <2> QED
    BY <2>1, <2>2
<1>3. StreamTyped'
  BY <1>1, <1>2 DEF StreamTyped
<1>4. HandlerKeepsUp'
  BY <1>1 DEF HandlerKeepsUp
<1>5. StampsFollow'
  BY <1>1, <1>2 DEF StampsFollow
<1>6. TokensMatch'
  BY <1>1, <1>2 DEF TokensMatch, TracksOutput
<1>7. Announced' = Announced
  BY <1>2 DEF Announced
<1> QED
  BY <1>2, <1>3, <1>4, <1>5, <1>6, <1>7

\* Nobody announces a response before the end.
LEMMA SendStream ==
  ASSUME StreamInv, Send
  PROVE  StreamInv'
<1> DEFINE t == timings
           u == timings'
<1>1. /\ StreamTyped /\ StampsFollow /\ TokensMatch /\ HandlerKeepsUp /\ YieldsMatch
      /\ ReadsWhatStreams /\ clock \in Nat /\ t \in [Timings -> 0 .. clock]
  BY DEF StreamInv, StreamTyped
<1>2. /\ stage = "created" /\ stage' = "asked" /\ clock' = clock + 1
      /\ u = [t EXCEPT !["start"] = clock + 1]
      /\ call' = call /\ handler' = handler /\ sent' = sent /\ yielded' = yielded
  BY DEF Send
<1>3. /\ t.end = 0 /\ t.tokens = 0 /\ t.firstIteration = 0 /\ t.lastIteration = 0
      /\ t.firstToken = 0 /\ t.lastToken = 0 /\ t.firstOutput = 0
  BY <1>1, <1>2 DEF StampsFollow, Timings
<1>4. clock' \in Nat /\ clock <= clock' /\ clock + 1 \in 0 .. clock' /\ clock + 1 # 0
  BY <1>1, <1>2
<1>5. /\ u \in [Timings -> 0 .. clock'] /\ u.start = clock + 1
      /\ u.end = 0 /\ u.tokens = 0 /\ u.firstIteration = 0 /\ u.lastIteration = 0
      /\ u.firstToken = 0 /\ u.lastToken = 0 /\ u.firstOutput = 0
  <2>1. "start" \in {"start", "end"}
    OBVIOUS
  <2> QED
    BY <1>1, <1>2, <1>3, <1>4, <2>1, StampedFields
<1>6. StreamTyped' /\ ReadsWhatStreams' /\ HandlerKeepsUp'
  BY <1>1, <1>2, <1>4, <1>5 DEF StreamTyped, ReadsWhatStreams, HandlerKeepsUp
<1>7. StampsFollow' /\ EndIsLast'
  BY <1>2, <1>4, <1>5 DEF StampsFollow, EndIsLast
<1>8. TokensMatch'
  BY <1>1, <1>2, <1>3, <1>5 DEF TokensMatch, TracksOutput
<1>9. YieldsMatch'
  BY <1>1, <1>2, <1>3, <1>5 DEF YieldsMatch, Announced
<1> QED
  BY <1>6, <1>7, <1>8, <1>9 DEF StreamInv

LEMMA FailStream ==
  ASSUME StreamInv, Fail
  PROVE  StreamInv'
<1>1. /\ StreamTyped /\ EndIsLast /\ YieldsMatch /\ ReadsWhatStreams
      /\ clock \in Nat /\ timings.lastIteration \in 0 .. clock
  BY DEF StreamInv, StreamTyped, Timings
<1>2. /\ stage \in {"asked", "reading"} /\ stage' = "errored" /\ clock' = clock + 1
      /\ timings' = timings \/ timings' = [timings EXCEPT !.end = clock + 1]
      /\ call' = call /\ handler' = handler /\ sent' = sent /\ yielded' = yielded
  BY DEF Fail
<1>3. clock' \in Nat /\ clock <= clock' /\ clock + 1 \in 0 .. clock'
  BY <1>1, <1>2
<1>4. stage' \in {"asked", "reading", "closing"} \cup StreamEnded
  BY <1>2 DEF StreamEnded
<1>5. /\ StreamTyped' /\ HandlerKeepsUp' /\ StampsFollow' /\ TokensMatch'
      /\ Announced' = Announced /\ timings.lastIteration' = timings.lastIteration
  BY <1>2, <1>3, <1>4, OnlyTheEnd
<1>6. timings'.end = 0 \/ timings'.end = clock + 1
  BY <1>1, <1>2 DEF EndIsLast, StreamTyped, Timings
<1>7. EndIsLast'
  BY <1>1, <1>2, <1>5, <1>6 DEF EndIsLast
<1>8. YieldsMatch'
  BY <1>1, <1>2, <1>5 DEF YieldsMatch
<1> QED
  BY <1>1, <1>2, <1>5, <1>7, <1>8 DEF StreamInv, ReadsWhatStreams

LEMMA OpenOrClose ==
  ASSUME StreamInv, Open \/ StreamCloses
  PROVE  StreamInv'
<1>1. /\ StreamTyped /\ EndIsLast /\ YieldsMatch /\ ReadsWhatStreams /\ clock \in Nat
  BY DEF StreamInv, StreamTyped
<1>2. /\ stage \in {"asked", "reading"} /\ stage' \in {"reading", "closing"} /\ clock' = clock
      /\ timings' = timings
      /\ call' = call /\ handler' = handler /\ sent' = sent /\ yielded' = yielded
      /\ (stage' = "reading" => call.streaming \/ call.endpoint = "vllm")
      /\ (stage' = "closing" => call.endpoint # "realtime")
  BY DEF Open, StreamCloses
<1>3. clock' \in Nat /\ clock <= clock' /\ 0 \in 0 .. clock'
  BY <1>1, <1>2
<1>4. stage' \in {"asked", "reading", "closing"} \cup StreamEnded
  BY <1>2
<1>5. /\ StreamTyped' /\ HandlerKeepsUp' /\ StampsFollow' /\ TokensMatch'
      /\ Announced' = Announced
  BY <1>2, <1>3, <1>4, OnlyTheEnd
<1>6. timings.end = 0 /\ timings'.end = 0
  BY <1>1, <1>2 DEF EndIsLast
<1>7. EndIsLast'
  BY <1>2, <1>6 DEF EndIsLast
<1>8. YieldsMatch'
  BY <1>1, <1>2, <1>5 DEF YieldsMatch
<1> QED
  BY <1>1, <1>2, <1>5, <1>7, <1>8 DEF StreamInv, ReadsWhatStreams

LEMMA FinishStream ==
  ASSUME StreamInv, Finish
  PROVE  StreamInv'
<1>1. /\ StreamTyped /\ EndIsLast /\ YieldsMatch /\ ReadsWhatStreams
      /\ clock \in Nat /\ timings.lastIteration \in 0 .. clock
  BY DEF StreamInv, StreamTyped, Timings
<1>2. /\ stage = "closing" /\ stage' \in StreamEnded /\ clock' = clock + 1
      /\ timings' = IF call.endpoint = "realtime" THEN timings
                    ELSE [timings EXCEPT !.end = clock + 1]
      /\ yielded' = IF stage' # "errored" THEN Append(yielded, "response") ELSE yielded
      /\ call' = call /\ handler' = handler /\ sent' = sent
  BY DEF Finish, StreamEnded, Yields
<1>3. clock' \in Nat /\ clock <= clock' /\ clock + 1 \in 0 .. clock'
  BY <1>1, <1>2
<1>4. stage' \in {"asked", "reading", "closing"} \cup StreamEnded /\ stage' # "created"
  BY <1>2 DEF StreamEnded
<1>5. /\ StreamTyped' /\ HandlerKeepsUp' /\ StampsFollow' /\ TokensMatch'
      /\ Announced' = Announced /\ timings.lastIteration' = timings.lastIteration
      /\ timings.firstToken' = timings.firstToken
  BY <1>2, <1>3, <1>4, OnlyTheEnd
<1>6. EndIsLast'
  <2>1. CASE call.endpoint = "realtime"
    <3>1. timings'.end = timings.end
      BY <1>2, <2>1
    <3> QED
      BY <1>1, <1>2, <1>5, <2>1, <3>1 DEF EndIsLast, StreamEnded
  <2>2. CASE call.endpoint # "realtime"
    <3>1. timings'.end = clock + 1
      BY <1>1, <1>2, <2>2 DEF StreamTyped, Timings
    <3> QED
      BY <1>1, <1>2, <1>5, <2>2, <3>1 DEF EndIsLast, StreamEnded
  <2> QED
    BY <2>1, <2>2
<1>7. YieldsMatch'
  <2>1. yielded = Announced
    BY <1>1, <1>2 DEF YieldsMatch
  <2> QED
    BY <1>2, <1>5, <2>1 DEF YieldsMatch, StreamEnded
<1> QED
  BY <1>1, <1>2, <1>5, <1>6, <1>7 DEF StreamInv, ReadsWhatStreams, StreamEnded

LEMMA CancelStream ==
  ASSUME StreamInv, Cancel
  PROVE  StreamInv'
<1>1. /\ StreamTyped /\ EndIsLast /\ YieldsMatch /\ ReadsWhatStreams
      /\ clock \in Nat /\ timings.lastIteration \in 0 .. clock /\ timings.end \in 0 .. clock
  BY DEF StreamInv, StreamTyped, Timings
<1> DEFINE v == Or(timings.end, clock + 1)
<1>2. /\ stage \in {"asked", "reading", "closing"} /\ stage' = "cancelled"
      /\ clock' = clock + 1
      /\ timings' = IF call.endpoint = "realtime" THEN [timings EXCEPT !.end = v] ELSE timings
      /\ yielded' = IF IF call.endpoint = "vllm" THEN sent.events > 0 ELSE call.streaming
                    THEN Append(yielded, "response") ELSE yielded
      /\ call' = call /\ handler' = handler /\ sent' = sent
  BY DEF Cancel
<1>3. clock' \in Nat /\ clock <= clock' /\ v \in 0 .. clock'
  BY <1>1, <1>2 DEF Or
<1>4. stage' \in {"asked", "reading", "closing"} \cup StreamEnded /\ stage' # "created"
  BY <1>2 DEF StreamEnded
<1>5. timings' = timings \/ timings' = [timings EXCEPT !.end = v]
  BY <1>2
<1> HIDE DEF v
<1>6. /\ StreamTyped' /\ HandlerKeepsUp' /\ StampsFollow' /\ TokensMatch'
      /\ Announced' = Announced /\ timings.lastIteration' = timings.lastIteration
      /\ timings.firstToken' = timings.firstToken
  BY <1>2, <1>3, <1>4, <1>5, OnlyTheEnd
<1>7. EndIsLast'
  <2>1. CASE call.endpoint = "realtime"
    <3>1. timings'.end = v
      BY <1>1, <1>2, <2>1 DEF StreamTyped, Timings
    <3> QED
      BY <1>1, <1>2, <1>6, <2>1, <3>1 DEF EndIsLast, Or, v
  <2>2. CASE call.endpoint # "realtime"
    <3>1. timings'.end = timings.end
      BY <1>2, <2>2
    <3> QED
      BY <1>1, <1>2, <1>6, <2>2, <3>1 DEF EndIsLast
  <2> QED
    BY <2>1, <2>2
<1>8. YieldsMatch'
  <2>1. yielded = Announced
    BY <1>1, <1>2 DEF YieldsMatch
  <2> QED
    BY <1>2, <1>6, <2>1 DEF YieldsMatch
<1> QED
  BY <1>1, <1>2, <1>6, <1>7, <1>8 DEF StreamInv, ReadsWhatStreams
LEMMA AnsweredStream ==
  ASSUME StreamInv, NEW text \in 0 .. 1, NEW reasoning \in 0 .. 1, NEW calls \in SUBSET ToolCalls,
         NEW usage \in BOOLEAN, Answered(text, reasoning, calls, usage)
  PROVE  StreamInv'
<1> DEFINE k == [i \in ToolCalls |-> IF i \in calls THEN 1 ELSE Absent]
<1>1. /\ StreamTyped /\ ReadsWhatStreams /\ StampsFollow /\ EndIsLast /\ TokensMatch
      /\ YieldsMatch /\ HandlerKeepsUp
  BY DEF StreamInv
<1>2. /\ stage = "asked" /\ stage' = "closing" /\ call.streaming = FALSE
      /\ call.endpoint # "vllm"
      /\ handler' = [handler EXCEPT !.text = text, !.reasoning = reasoning, !.usage = usage,
                                    !.calls = k]
      /\ sent' = [sent EXCEPT !.text = text, !.reasoning = reasoning, !.over = TRUE,
                              !.calls = handler'.calls]
      /\ call' = call /\ clock' = clock /\ timings' = timings /\ yielded' = yielded
  BY <1>1 DEF Answered, StreamTyped, CallRecord
<1>3. k \in CallPieces
  BY DEF CallPieces
<1>4. text \in Nat /\ reasoning \in Nat
  OBVIOUS
<1> HIDE DEF k
<1>5. /\ handler' \in HandlerRecord /\ handler'.text = text /\ handler'.reasoning = reasoning
      /\ handler'.calls = k /\ handler'.content = handler.content
  <2>1. PICK a \in Nat, b \in Nat, c \in BOOLEAN, d \in BOOLEAN, m \in CallPieces :
          handler = [text |-> a, reasoning |-> b, usage |-> c, content |-> d, calls |-> m]
    BY <1>1 DEF StreamTyped, HandlerRecord
  <2>2. handler' = [text |-> text, reasoning |-> reasoning, usage |-> usage, content |-> d,
                    calls |-> k]
    BY <1>2, <2>1
  <2>3. handler'.content = d /\ handler.content = d
    BY <2>1, <2>2
  <2> QED
    BY <1>3, <1>4, <2>2, <2>3 DEF HandlerRecord
<1>6. /\ sent' \in SentRecord /\ sent'.text = text /\ sent'.reasoning = reasoning
      /\ sent'.calls = k /\ sent'.tokens = sent.tokens /\ sent'.outputs = sent.outputs
  <2>1. PICK n \in Nat, a \in Nat, b \in Nat, c \in Nat, d \in Nat, m \in CallPieces,
             o \in BOOLEAN :
          sent = [events |-> n, text |-> a, reasoning |-> b, tokens |-> c, outputs |-> d,
                  calls |-> m, over |-> o]
    BY <1>1 DEF StreamTyped, SentRecord
  <2>2. sent' = [events |-> n, text |-> text, reasoning |-> reasoning, tokens |-> c,
                 outputs |-> d, calls |-> k, over |-> TRUE]
    BY <1>2, <1>5, <2>1
  <2>3. /\ sent.tokens = c /\ sent.outputs = d
        /\ sent'.tokens = c /\ sent'.outputs = d
    BY <2>1, <2>2
  <2> QED
    BY <1>3, <1>4, <2>2, <2>3 DEF SentRecord
<1>7. StreamTyped'
  BY <1>1, <1>2, <1>5, <1>6 DEF StreamTyped
<1>8. HandlerKeepsUp'
  BY <1>1, <1>2, <1>5, <1>6, Zenon DEF HandlerKeepsUp
<1>9. ReadsWhatStreams' /\ StampsFollow'
  BY <1>1, <1>2 DEF ReadsWhatStreams, StampsFollow
<1>10. EndIsLast'
  <2>1. call.endpoint # "realtime"
    BY <1>1, <1>2 DEF ReadsWhatStreams
  <2> QED
    BY <1>1, <1>2, <2>1 DEF EndIsLast
<1>11. TokensMatch'
  BY <1>1, <1>2, <1>6 DEF TokensMatch, TracksOutput
<1>12. YieldsMatch'
  BY <1>1, <1>2 DEF YieldsMatch, Announced
<1> QED
  BY <1>7, <1>8, <1>9, <1>10, <1>11, <1>12 DEF StreamInv

LEMMA EndMarkerStream ==
  ASSUME StreamInv, NEW withText \in BOOLEAN, NEW withUsage \in BOOLEAN,
         EndMarker(withText, withUsage)
  PROVE  StreamInv'
<1> DEFINE now == clock + 1
           later == clock + 2
           text == IF withText /\ sent.text = 0 THEN 1 ELSE sent.text
           late == call.endpoint = "realtime" /\ timings.firstToken = 0
           ended == [timings EXCEPT !["end"] = now]
           newText == IF call.endpoint = "vllm" THEN sent.text + 1 ELSE text
           newTokens == IF late /\ text > 0 THEN sent.tokens + 1 ELSE sent.tokens
           keptText == IF withText THEN newText ELSE handler.text
           newUsage == (handler.usage \/ withUsage)
           t == timings
           u == timings'
<1>1. /\ StreamTyped /\ ReadsWhatStreams /\ StampsFollow /\ EndIsLast /\ TokensMatch
      /\ YieldsMatch /\ HandlerKeepsUp
  BY DEF StreamInv
<1>2. /\ stage = "reading" /\ stage' = "closing"
      /\ (withText => call.endpoint \in {"realtime", "vllm"})
      /\ (call.endpoint = "vllm" => withText)
      /\ sent' = [sent EXCEPT !.over = TRUE, !.text = newText, !.tokens = newTokens]
      /\ handler' = [handler EXCEPT !.usage = newUsage,
                                    !.text = IF withText THEN sent'.text ELSE handler.text]
      /\ clock' = later /\ call' = call
      /\ timings' = IF call.endpoint # "realtime" THEN Iterated(timings, now)
                    ELSE IF ~late THEN ended
                    ELSE IF handler'.text > 0
                    THEN Tokened(Iterated(ended, later), 1, FALSE, later)
                    ELSE Iterated(ended, later)
      /\ yielded' = IF late /\ handler'.text > 0 THEN Append(yielded, "first_token") ELSE yielded
  BY DEF EndMarker, LeavesLoop
<1>3. /\ clock \in Nat /\ now \in Nat /\ later \in Nat /\ clock < now /\ now < later
      /\ t \in [Timings -> 0 .. clock] /\ now # 0 /\ later # 0 /\ later = now + 1
  BY <1>1 DEF StreamTyped
<1>4. /\ t.start \in 0 .. clock /\ t.end = 0 /\ t.tokens \in 0 .. clock
      /\ t.firstIteration \in 0 .. clock /\ t.lastIteration \in 0 .. clock
      /\ t.firstToken \in 0 .. clock /\ t.lastToken \in 0 .. clock
      /\ t.firstOutput \in 0 .. clock /\ t.start # 0
  BY <1>1, <1>2, <1>3, StampsAreNumbers DEF EndIsLast, StampsFollow
<1>5. /\ handler.text \in Nat /\ handler.text = sent.text /\ sent.tokens \in Nat
      /\ text \in Nat /\ newText \in Nat /\ newTokens \in Nat /\ newUsage \in BOOLEAN
      /\ keptText = newText
  BY <1>1, <1>2 DEF StreamTyped, HandlerRecord, SentRecord, HandlerKeepsUp
<1>6. /\ sent' \in SentRecord /\ sent'.text = newText /\ sent'.tokens = newTokens
      /\ sent'.reasoning = sent.reasoning /\ sent'.calls = sent.calls
      /\ sent'.outputs = sent.outputs
  <2> HIDE DEF newText, newTokens
  <2>1. PICK n \in Nat, a \in Nat, b \in Nat, c \in Nat, d \in Nat, m \in CallPieces,
             o \in BOOLEAN :
          sent = [events |-> n, text |-> a, reasoning |-> b, tokens |-> c, outputs |-> d,
                  calls |-> m, over |-> o]
    BY <1>1 DEF StreamTyped, SentRecord
  <2>2. sent' = [events |-> n, text |-> newText, reasoning |-> b, tokens |-> newTokens,
                 outputs |-> d, calls |-> m, over |-> TRUE]
    BY <1>2, <2>1
  <2>3. /\ sent.reasoning = b /\ sent.calls = m /\ sent.outputs = d
    BY <2>1
  <2> QED
    BY <1>5, <2>2, <2>3 DEF SentRecord
<1>7. /\ handler' \in HandlerRecord /\ handler'.text = newText
      /\ handler'.reasoning = handler.reasoning /\ handler'.calls = handler.calls
      /\ handler'.content = handler.content
  <2>1. handler' = [handler EXCEPT !.usage = newUsage, !.text = keptText]
    BY <1>2, <1>6
  <2> HIDE DEF newText, keptText, newUsage
  <2>2. PICK a \in Nat, b \in Nat, c \in BOOLEAN, d \in BOOLEAN, m \in CallPieces :
          handler = [text |-> a, reasoning |-> b, usage |-> c, content |-> d, calls |-> m]
    BY <1>1 DEF StreamTyped, HandlerRecord
  <2>3. handler' = [text |-> keptText, reasoning |-> b, usage |-> newUsage, content |-> d,
                    calls |-> m]
    BY <2>1, <2>2
  <2>4. /\ handler.reasoning = b /\ handler.calls = m /\ handler.content = d
        /\ handler'.content = d
    BY <2>2, <2>3
  <2> QED
    BY <1>5, <2>3, <2>4 DEF HandlerRecord
<1>8. HandlerKeepsUp'
  BY <1>1, <1>2, <1>6, <1>7, Zenon DEF HandlerKeepsUp
<1>9. /\ ended \in [Timings -> 0 .. now] /\ ended.end = now /\ ended.start = t.start
      /\ ended.tokens = t.tokens
      /\ ended.firstIteration = t.firstIteration /\ ended.lastIteration = t.lastIteration
      /\ ended.firstToken = t.firstToken /\ ended.lastToken = t.lastToken
      /\ ended.firstOutput = t.firstOutput
  BY <1>3 DEF Timings
<1>10. newText > 0 <=> text > 0
  BY <1>2, <1>5
<1>a. /\ (t.firstIteration = 0 <=> t.lastIteration = 0)
      /\ (t.firstIteration # 0 =>
             t.start <= t.firstIteration /\ t.firstIteration <= t.lastIteration)
      /\ (t.firstToken = 0 <=> t.lastToken = 0)
      /\ (t.firstToken # 0 =>
            /\ t.firstIteration # 0 /\ t.firstIteration <= t.firstToken
            /\ t.firstToken <= t.lastToken /\ t.lastToken <= t.lastIteration)
      /\ (t.firstOutput # 0 =>
            /\ t.firstToken # 0 /\ t.firstToken <= t.firstOutput
            /\ t.firstOutput <= t.lastToken)
  BY <1>1 DEF StampsFollow
<1>b. stage' = "closing" /\ call' = call
  BY <1>2
\* The four ways the timings end.
<1>11. CASE call.endpoint # "realtime"
  <2>1. u = Iterated(t, now)
    BY <1>2, <1>11
  <2>2. /\ u \in [Timings -> 0 .. now]
        /\ u.start = t.start /\ u.end = t.end /\ u.tokens = t.tokens
        /\ u.firstToken = t.firstToken /\ u.lastToken = t.lastToken
        /\ u.firstOutput = t.firstOutput /\ u.lastIteration = now
        /\ u.firstIteration = Or(t.firstIteration, now)
    <3> HIDE DEF now
    <3> QED
      BY <1>3, <2>1, IteratedFields
  <2>3. newTokens = sent.tokens /\ yielded' = yielded
    BY <1>2, <1>11
  <2>4. u \in [Timings -> 0 .. later]
    BY <1>3, <2>2
  <2>5. StreamTyped' /\ ReadsWhatStreams'
    BY <1>1, <1>2, <1>3, <1>6, <1>7, <2>4 DEF StreamTyped, ReadsWhatStreams
  <2>6. StampsFollow' /\ EndIsLast'
    BY <1>1, <1>2, <1>3, <1>4, <1>11, <2>2 DEF StampsFollow, EndIsLast, Or
  <2>7. TokensMatch'
    BY <1>1, <1>2, <1>6, <2>2, <2>3 DEF TokensMatch, TracksOutput
  <2>8. YieldsMatch'
    BY <1>1, <1>2, <2>2, <2>3 DEF YieldsMatch, Announced
  <2> QED
    BY <1>8, <2>5, <2>6, <2>7, <2>8 DEF StreamInv
<1>12. CASE call.endpoint = "realtime" /\ t.firstToken # 0
  <2>1. u = ended /\ newTokens = sent.tokens /\ yielded' = yielded
    BY <1>2, <1>12
  <2> HIDE DEF ended
  <2>2. u \in [Timings -> 0 .. later]
    BY <1>3, <1>9, <2>1
  <2>3. StreamTyped' /\ ReadsWhatStreams'
    BY <1>1, <1>2, <1>3, <1>6, <1>7, <2>2 DEF StreamTyped, ReadsWhatStreams
  <2>4. StampsFollow' /\ EndIsLast'
    <3>1. StampsFollow'
      BY <1>b, <1>4, <1>9, <1>a, <2>1 DEF StampsFollow
    <3>2. EndIsLast'
      BY <1>b, <1>3, <1>4, <1>9, <1>12, <2>1 DEF EndIsLast
    <3> QED
      BY <3>1, <3>2
  <2>5. TokensMatch'
    BY <1>1, <1>2, <1>6, <1>9, <2>1 DEF TokensMatch, TracksOutput
  <2>6. YieldsMatch'
    BY <1>1, <1>2, <1>9, <2>1 DEF YieldsMatch, Announced
  <2> QED
    BY <1>8, <2>3, <2>4, <2>5, <2>6 DEF StreamInv
<1>13. ASSUME call.endpoint = "realtime", t.firstToken = 0
       PROVE  /\ late /\ ~TracksOutput /\ ~TracksOutput' /\ yielded = Announced
              /\ t.firstOutput = 0 /\ t.lastToken = 0 /\ yielded = <<>>
              /\ t.tokens = sent.tokens /\ t.tokens = 0
  <2>1. t.firstOutput = 0 /\ t.lastToken = 0
    BY <1>1, <1>13 DEF StampsFollow
  <2>2. t.tokens = sent.tokens /\ t.tokens = 0
    BY <1>1, <1>4, <1>13 DEF TokensMatch, ReadsWhatStreams
  <2>3. yielded = Announced /\ Announced = <<>>
    BY <1>1, <1>2, <1>13 DEF YieldsMatch, Announced
  <2> QED
    BY <1>2, <1>13, <2>1, <2>2, <2>3 DEF TracksOutput
<1> DEFINE i == Iterated(ended, later)
<1>14. /\ i \in [Timings -> 0 .. later]
       /\ i.start = t.start /\ i.end = now /\ i.tokens = t.tokens
       /\ i.firstToken = t.firstToken /\ i.lastToken = t.lastToken
       /\ i.firstOutput = t.firstOutput /\ i.lastIteration = later
       /\ i.firstIteration = Or(t.firstIteration, later)
  <2> HIDE DEF ended, now, later
  <2>1. i = Iterated(ended, later)
    OBVIOUS
  <2> HIDE DEF i
  <2>2. clock \in Nat /\ later \in Nat /\ now < later /\ now \in Nat /\ ended \in [Timings -> 0 .. now]
    BY <1>3, <1>9
  <2>3. /\ i \in [Timings -> 0 .. later]
        /\ i.start = ended.start /\ i.end = ended.end /\ i.tokens = ended.tokens
        /\ i.firstToken = ended.firstToken /\ i.lastToken = ended.lastToken
        /\ i.firstOutput = ended.firstOutput /\ i.lastIteration = later
        /\ i.firstIteration = Or(ended.firstIteration, later)
    BY <2>1, <2>2, IteratedFields
  <2> QED
    BY <1>9, <2>3
<1>15. CASE call.endpoint = "realtime" /\ t.firstToken = 0 /\ newText = 0
  <2>1. u = i /\ newTokens = sent.tokens /\ yielded' = yielded
    <3>1. ~(text > 0) /\ ~(handler'.text > 0)
      BY <1>5, <1>7, <1>10, <1>15
    <3> HIDE DEF text, newText
    <3> QED
      BY <1>2, <1>13, <1>15, <3>1
  <2> HIDE DEF i, newTokens, newText
  <2>2. StreamTyped' /\ ReadsWhatStreams'
    BY <1>1, <1>2, <1>3, <1>6, <1>7, <1>14, <2>1 DEF StreamTyped, ReadsWhatStreams
  <2>3. StampsFollow' /\ EndIsLast'
    <3>1. StampsFollow'
      <4>1. /\ u.start # 0 /\ u.firstIteration # 0 /\ u.lastIteration # 0
            /\ u.start <= u.firstIteration /\ u.firstIteration <= u.lastIteration
        BY <1>3, <1>4, <1>14, <1>a, <2>1 DEF Or
      <4>2. u.firstToken = 0 /\ u.lastToken = 0 /\ u.firstOutput = 0
        BY <1>13, <1>14, <1>15, <2>1
      <4> QED
        BY <1>b, <4>1, <4>2 DEF StampsFollow
    <3>2. EndIsLast'
      BY <1>b, <1>3, <1>14, <1>15, <2>1 DEF EndIsLast
    <3> QED
      BY <3>1, <3>2
  <2>4. TokensMatch'
    <3>1. /\ u.tokens = sent'.tokens /\ ~TracksOutput'
          /\ u.firstToken = 0 /\ ~(u.tokens > 0)
      BY <1>6, <1>13, <1>14, <1>15, <2>1
    <3> QED
      BY <3>1, Zenon DEF TokensMatch
  <2>5. YieldsMatch'
    BY <1>2, <1>13, <1>14, <1>15, <2>1 DEF YieldsMatch, Announced
  <2> QED
    BY <1>8, <2>2, <2>3, <2>4, <2>5 DEF StreamInv
<1>16. CASE call.endpoint = "realtime" /\ t.firstToken = 0 /\ newText # 0
  <2>1. u = Tokened(i, 1, FALSE, later) /\ newTokens = sent.tokens + 1
        /\ yielded' = Append(yielded, "first_token")
    <3>1. text > 0 /\ handler'.text > 0
      BY <1>5, <1>7, <1>10, <1>16
    <3> HIDE DEF text, newText
    <3> QED
      BY <1>2, <1>13, <1>16, <3>1
  <2>2. i.tokens + 1 \in 0 .. later /\ 1 \in Nat /\ FALSE \in BOOLEAN
    BY <1>3, <1>13, <1>14, <1>16
  <2> HIDE DEF i, newTokens, newText
  <2>3. /\ u \in [Timings -> 0 .. later]
        /\ u.start = i.start /\ u.end = i.end /\ u.tokens = i.tokens + 1
        /\ u.firstIteration = i.firstIteration /\ u.lastIteration = i.lastIteration
        /\ u.firstToken = Or(i.firstToken, later) /\ u.lastToken = later
        /\ u.firstOutput = IF FALSE THEN Or(i.firstOutput, later) ELSE i.firstOutput
    <3> DEFINE n == 1
               o == FALSE
    <3>1. n \in Nat /\ o \in BOOLEAN /\ u = Tokened(i, n, o, later) /\ i.tokens + n \in 0 .. later
      BY <2>1, <2>2
    <3> HIDE DEF later, n, o
    <3>2. /\ u \in [Timings -> 0 .. later]
          /\ u.start = i.start /\ u.end = i.end /\ u.tokens = i.tokens + n
          /\ u.firstIteration = i.firstIteration /\ u.lastIteration = i.lastIteration
          /\ u.firstToken = Or(i.firstToken, later) /\ u.lastToken = later
          /\ u.firstOutput = IF o THEN Or(i.firstOutput, later) ELSE i.firstOutput
      BY <1>3, <1>14, <3>1, TokenedFields
    <3> QED
      BY <3>2 DEF n, o
  <2>4. /\ u.firstToken = later /\ u.firstOutput = 0 /\ u.tokens = 1
        /\ u.lastIteration = later /\ u.end = now
        /\ u.firstIteration = Or(t.firstIteration, later) /\ u.start = t.start
    BY <1>13, <1>14, <1>16, <2>3 DEF Or
  <2>5. StreamTyped' /\ ReadsWhatStreams'
    BY <1>1, <1>2, <1>3, <1>6, <1>7, <2>3 DEF StreamTyped, ReadsWhatStreams
  <2>6. StampsFollow' /\ EndIsLast'
    <3>1. StampsFollow'
      <4>1. /\ u.start # 0 /\ u.firstIteration # 0 /\ u.lastIteration # 0
            /\ u.start <= u.firstIteration /\ u.firstIteration <= u.lastIteration
        BY <1>3, <1>4, <1>a, <2>4 DEF Or
      <4>2. /\ u.firstToken = later /\ u.lastToken = later /\ u.lastIteration = later
            /\ u.firstOutput = 0 /\ u.firstIteration <= later /\ later <= later /\ later # 0
        BY <1>3, <2>3, <2>4, <4>1
      <4> QED
        BY <1>b, <4>1, <4>2 DEF StampsFollow
    <3>2. EndIsLast'
      BY <1>b, <1>3, <1>16, <2>4 DEF EndIsLast
    <3> QED
      BY <3>1, <3>2
  <2>7. TokensMatch'
    <3>1. /\ u.tokens = sent'.tokens /\ ~TracksOutput'
          /\ u.firstToken # 0 /\ u.tokens > 0
      <4>1. ~TracksOutput' /\ sent.tokens = 0
        BY <1>13, <1>16
      <4>2. u.tokens = 1 /\ sent'.tokens = 1
        <5>1. sent'.tokens = sent.tokens + 1
          BY <1>6, <2>1, Zenon
        <5> QED
          BY <2>4, <4>1, <5>1
      <4>3. u.firstToken # 0
        BY <1>3, <2>4
      <4>4. u.tokens > 0
        BY <4>2
      <4> QED
        BY <4>1, <4>2, <4>3, <4>4
    <3> QED
      BY <3>1, Zenon DEF TokensMatch
  <2>8. YieldsMatch'
    <3>1. Append(<<>>, "first_token") = <<"first_token">>
      OBVIOUS
    <3>2. Announced' = <<"first_token">>
      BY <1>2, <1>3, <1>16, <2>4 DEF Announced
    <3> QED
      BY <1>2, <1>13, <1>16, <2>1, <3>1, <3>2 DEF YieldsMatch
  <2> QED
    BY <1>8, <2>5, <2>6, <2>7, <2>8 DEF StreamInv
<1> QED
  BY <1>11, <1>12, <1>15, <1>16
LEMMA StreamStep ==
  ASSUME StreamInv, [StreamNext]_streamVars
  PROVE  StreamInv'
<1>1. CASE UNCHANGED streamVars
  <2>1. /\ call' = call /\ stage' = stage /\ clock' = clock /\ timings' = timings
        /\ handler' = handler /\ sent' = sent /\ yielded' = yielded
    BY <1>1 DEF streamVars
  <2> QED
    BY <2>1 DEF StreamInv, StreamTyped, ReadsWhatStreams, HandlerKeepsUp, StampsFollow, EndIsLast,
                TokensMatch, TracksOutput, YieldsMatch, Announced
<1>2. CASE StreamNext
  <2>1. ASSUME stage = "reading", NEW e \in ServerEvents, Receive(e) PROVE StreamInv'
    BY <2>1, ReceiveStream
  <2>2. ASSUME NEW withText \in BOOLEAN, NEW withUsage \in BOOLEAN,
               EndMarker(withText, withUsage)
        PROVE  StreamInv'
    BY <2>2, EndMarkerStream
  <2>3. ASSUME NEW text \in 0 .. 1, NEW reasoning \in 0 .. 1, NEW calls \in SUBSET ToolCalls,
               NEW usage \in BOOLEAN, Answered(text, reasoning, calls, usage)
        PROVE  StreamInv'
    BY <2>3, AnsweredStream
  <2> QED
    BY <1>2, <2>1, <2>2, <2>3, SendStream, FailStream, OpenOrClose, FinishStream, CancelStream
       DEF StreamNext
<1> QED
  BY <1>1, <1>2

\* What the generator has yielded, entry by entry.
LEMMA YieldedEntries ==
  ASSUME StreamInv
  PROVE  LET responses == {i \in DOMAIN yielded : yielded[i] = "response"} IN
         /\ yielded \in Seq({"first_token", "response"})
         /\ yielded = Announced =>
              responses = {} /\ Len(yielded) \in 0 .. 1
         /\ yielded = Append(Announced, "response") =>
              responses = {Len(yielded)} /\ Len(yielded) \in 1 .. 2
         /\ (\E i \in DOMAIN yielded : yielded[i] = "first_token")
              <=> call.endpoint # "vllm" /\ timings.firstToken # 0
<1> DEFINE responses == {i \in DOMAIN yielded : yielded[i] = "response"}
<1>1. yielded = Announced \/ yielded = Append(Announced, "response")
  BY DEF StreamInv, YieldsMatch
<1>2. CASE call.endpoint # "vllm" /\ timings.firstToken # 0
  <2>1. Announced = <<"first_token">>
    BY <1>2 DEF Announced
  <2>2. CASE yielded = <<"first_token">>
    <3>1. DOMAIN yielded = {1} /\ yielded[1] = "first_token" /\ Len(yielded) = 1
      BY <2>2
    <3> QED
      BY <1>2, <2>1, <2>2, <3>1
  <2>3. CASE yielded = <<"first_token", "response">>
    <3>1. /\ DOMAIN yielded = {1, 2} /\ yielded[1] = "first_token" /\ yielded[2] = "response"
          /\ Len(yielded) = 2
      BY <2>3
    <3>2. yielded # Announced
      BY <2>1, <3>1
    <3> QED
      BY <1>2, <2>1, <2>3, <3>1, <3>2
  <2> QED
    BY <1>1, <2>1, <2>2, <2>3
<1>3. CASE ~(call.endpoint # "vllm" /\ timings.firstToken # 0)
  <2>1. Announced = <<>>
    BY <1>3 DEF Announced
  <2>2. CASE yielded = <<>>
    <3>1. DOMAIN yielded = {} /\ Len(yielded) = 0
      BY <2>2
    <3>2. yielded # Append(Announced, "response")
      BY <2>1, <2>2
    <3> QED
      BY <1>3, <2>2, <3>1, <3>2
  <2>3. CASE yielded = <<"response">>
    <3>1. DOMAIN yielded = {1} /\ yielded[1] = "response" /\ Len(yielded) = 1
      BY <2>3
    <3>2. yielded # Announced
      BY <2>1, <3>1
    <3> QED
      BY <1>3, <2>3, <3>1, <3>2
  <2> QED
    BY <1>1, <2>1, <2>2, <2>3
<1> QED
  BY <1>2, <1>3

LEMMA StreamIsFaithful ==
  ASSUME StreamInv
  PROVE  ResponseIsFaithful
<1> DEFINE responses == {i \in DOMAIN yielded : yielded[i] = "response"}
<1>1. /\ StreamTyped /\ ReadsWhatStreams /\ StampsFollow /\ EndIsLast /\ TokensMatch
      /\ YieldsMatch /\ HandlerKeepsUp
  BY DEF StreamInv
<1>2. /\ yielded \in Seq({"first_token", "response"})
      /\ (yielded = Announced => responses = {} /\ Len(yielded) \in 0 .. 1)
      /\ (yielded = Append(Announced, "response") =>
            responses = {Len(yielded)} /\ Len(yielded) \in 1 .. 2)
      /\ ((\E i \in DOMAIN yielded : yielded[i] = "first_token")
             <=> call.endpoint # "vllm" /\ timings.firstToken # 0)
  BY YieldedEntries
<1>3. StreamTypeOK
  BY <1>1, <1>2 DEF StreamTypeOK, StreamTyped, CallRecord, HandlerRecord, CallPieces
<1>4. OneResponse
  <2>1. yielded = Announced \/ yielded = Append(Announced, "response")
    BY <1>1 DEF YieldsMatch
  <2>2. Len(yielded) - Cardinality(responses) <= 1 /\ responses \subseteq {Len(yielded)}
    <3>1. CASE yielded = Announced
      <4>1. Cardinality({}) = 0
        BY FS_EmptySet
      <4>2. responses = {} /\ Len(yielded) \in 0 .. 1
        BY <1>2, <3>1
      <4> HIDE DEF responses
      <4>3. Cardinality(responses) = 0
        BY <4>1, <4>2
      <4> QED
        BY <4>2, <4>3
    <3>2. CASE yielded = Append(Announced, "response")
      <4>1. Cardinality({Len(yielded)}) = 1
        BY FS_Singleton
      <4>2. responses = {Len(yielded)} /\ Len(yielded) \in 1 .. 2
        BY <1>2, <3>2
      <4> HIDE DEF responses
      <4>3. Cardinality(responses) = 1
        BY <4>1, <4>2
      <4> QED
        BY <4>2, <4>3
    <3> QED
      BY <2>1, <3>1, <3>2
  <2> HIDE DEF responses
  <2>3. stage \notin {"completed", "cancelled"} => responses = {}
    BY <1>1, <1>2 DEF YieldsMatch
  <2>4. yielded = Append(Announced, "response") => responses # {}
    BY <1>2
  <2>5. stage = "completed" => responses # {}
    BY <1>1, <2>4 DEF YieldsMatch
  <2>6. stage = "cancelled" /\ call.streaming /\ call.endpoint # "vllm" => responses # {}
    BY <1>1, <2>4 DEF YieldsMatch
  <2> QED
    BY <2>2, <2>3, <2>5, <2>6 DEF OneResponse, responses
<1>5. /\ timings.start \in Nat /\ timings.end \in Nat /\ timings.tokens \in Nat
      /\ timings.firstIteration \in Nat /\ timings.lastIteration \in Nat
      /\ timings.firstToken \in Nat /\ timings.lastToken \in Nat /\ timings.firstOutput \in Nat
  BY <1>1, StampsAreNumbers DEF StreamTyped
<1>6. TimingsOrdered
  BY <1>1, <1>5 DEF TimingsOrdered, StampsFollow, EndIsLast
<1>7. TokensCounted
  <2>1. (timings.firstToken # 0) = (timings.tokens > 0)
    BY <1>1 DEF TokensMatch
  <2>2. call.streaming => timings.tokens = sent.tokens
    BY <1>1 DEF TokensMatch
  <2>3. TracksOutput => (timings.firstOutput # 0) = (sent.outputs > 0)
    BY <1>1 DEF TokensMatch
  <2>4. \/ (timings.firstToken # 0) = (call.endpoint # "vllm" /\ \E i \in DOMAIN yielded :
                                        yielded[i] = "first_token")
        \/ call.endpoint = "vllm"
    BY <1>2
  <2> QED
    BY <2>1, <2>2, <2>3, <2>4, Zenon DEF TokensCounted
<1>8. NothingLost
  BY <1>1 DEF NothingLost, HandlerKeepsUp
<1> QED
  BY <1>3, <1>4, <1>6, <1>7, <1>8 DEF ResponseIsFaithful

\* In any order of events a call yields one response, with timings in order and all the text,
\* tokens and tool calls the server sent before it ended: resolve() of the streaming backends.
THEOREM ResponsesStayFaithful == StreamSpec => []ResponseIsFaithful
<1>1. StreamSpec => []StreamInv
  <2>1. StreamInit => StreamInv
    BY InitStream
  <2>2. StreamInv /\ [StreamNext]_streamVars => StreamInv'
    BY StreamStep
  <2> QED
    BY <2>1, <2>2, PTL DEF StreamSpec
<1>2. StreamInv => ResponseIsFaithful
  BY StreamIsFaithful
<1> QED
  BY <1>1, <1>2, PTL

-----------------------------------------------------------------------------
(***************************************************************************)
(* The mock server.                                                        *)
(***************************************************************************)

\* Whatever its endpoint, a request has the fields of one, and completions no tools.
LEMMA AnswerableIs ==
  \A k \in Answerable : k \in Kinds /\ (k.api = "completions" => ~k.tool)
BY DEF Answerable, ChatKinds, CompletionKinds, ResponsesKinds

Standings == {"unsent", "waiting", "generating", "opened", "writing", "answered", "left"}
Replies == {"pending", "completed", "errored", "cancelled"}
EventKinds == {"text", "empty", "usage", "end", "piece", "broken"}
SeenRecord == [text : Nat, pieces : Nat, usage : BOOLEAN]

ServingTyped ==
  /\ load \in Seq(Answerable) /\ server \in Servers /\ accepted \in Nat /\ holders \subseteq Calls
  /\ serving \in [Calls -> Standings] /\ reply \in [Calls -> Replies]
  /\ count \in [Calls -> Nat] /\ script \in [Calls -> Seq(EventKinds)]
  /\ received \in [Calls -> SeenRecord]

\* How many texts and pieces of a tool call the first j events of an answer hold.
Lead(k) == CASE k.api = "responses" -> IF k.tool THEN 2 ELSE 4 [] OTHER -> 0
Pieces(k) == IF k.api = "responses" THEN 4 ELSE 3
Part(j, lead, n) == IF j <= lead THEN 0 ELSE IF j <= lead + n THEN j - lead ELSE n
TextsIn(k, n, j) == IF k.tool THEN 0 ELSE Part(j, Lead(k), n)
PiecesIn(k, j) == IF k.tool THEN Part(j, Lead(k), Pieces(k)) ELSE 0

\* A call has a reply when the server is done with it, and nothing before its answer begins.
Untouched(r) ==
  /\ reply[r] = "pending" <=> serving[r] \notin {"answered", "left"}
  /\ serving[r] \in {"unsent", "waiting", "generating", "opened"} =>
       received[r] = Nothing /\ count[r] = 0

\* What the client has and what is still to write make up the answer.
Written(r) ==
  serving[r] = "writing" =>
    \/ script[r] = <<"broken">> /\ received[r] = Nothing /\ count[r] = 0
    \/ LET k == load[r]
           whole == Events(k, count[r])
       IN /\ k.api = "completions" => count[r] # 0
          /\ \E j \in 0 .. Len(whole) - 1 :
               /\ script[r] = SubSeq(whole, j + 1, Len(whole))
               /\ received[r].text = TextsIn(k, count[r], j)
               /\ received[r].pieces = PiecesIn(k, j)

\* What the client has never exceeds what the server generated.
Within(r) == received[r].text \in 0 .. count[r] /\ received[r].pieces \in 0 .. 4

FailsAsConfigured(r) ==
  reply[r] = "errored" =>
    \/ ~load[r].valid \/ Overflows(load[r]) \/ count[r] = 0
    \/ server.failAfter # None /\ accepted >= server.failAfter

Reported(r) ==
  reply[r] = "completed" =>
    /\ OutputTokens(r, received[r]) =
         IF load[r].tool /\ ~received[r].usage THEN received[r].pieces ELSE count[r]
    /\ count[r] > 0 \/ load[r].tool

CallIsSound(r) ==
  Untouched(r) /\ Written(r) /\ Within(r) /\ FailsAsConfigured(r) /\ Reported(r)

\* Those who got past the count, and those who tried.
SentCalls == {r \in Calls : serving[r] # "unsent"}
AdmittedAreCounted ==
  /\ Cardinality(Admitted) <= accepted /\ accepted <= Cardinality(SentCalls)
  /\ server.failAfter # None => accepted <= server.failAfter

ServingInv == ServingTyped /\ AdmittedAreCounted /\ \A r \in Calls : CallIsSound(r)
-----------------------------------------------------------------------------
(* The events of an answer, by their place *)

\* A head of empty events, a body of one kind, a tail and the end.
Splice(H, B, T) == ((H \o B) \o T) \o <<"end">>

\* An answer E has m events of kind b after the first h, and ends with its only end.
HasBody(E, b, h, m) ==
  /\ E \in Seq(EventKinds) /\ Len(E) >= h + m + 1
  /\ \A i \in 1 .. Len(E) :
       /\ E[i] \in {"empty", "usage", "end", b}
       /\ E[i] = b <=> h < i /\ i <= h + m
       /\ E[i] = "end" <=> i = Len(E)

LEMMA Spliced ==
  ASSUME NEW b \in {"text", "piece"}, NEW H \in Seq({"empty"}), NEW B \in Seq({b}),
         NEW T \in Seq({"empty", "usage"})
  PROVE  HasBody(Splice(H, B, T), b, Len(H), Len(B))
<1> DEFINE S == {"empty", "usage", "end", b}
           E == Splice(H, B, T)
<1>1. H \in Seq(S) /\ B \in Seq(S) /\ T \in Seq(S) /\ <<"end">> \in Seq(S)
  BY SeqMonotonic
<1>2. Len(H) \in Nat /\ Len(B) \in Nat /\ Len(T) \in Nat /\ Len(<<"end">>) = 1
  OBVIOUS
<1>3. /\ \A i \in 1 .. Len(H) : H[i] = "empty"
      /\ \A i \in 1 .. Len(B) : B[i] = b
      /\ \A i \in 1 .. Len(T) : T[i] \in {"empty", "usage"}
  BY ElementOfSeq
<1> HIDE DEF S
<1>4. /\ H \o B \in Seq(S) /\ Len(H \o B) = Len(H) + Len(B)
      /\ \A i \in 1 .. Len(H) + Len(B) : (H \o B)[i] = IF i <= Len(H) THEN H[i] ELSE B[i - Len(H)]
  BY <1>1, ConcatProperties
<1> HIDE DEF E
<1> DEFINE P == H \o B
           Q == P \o T
<1>5. /\ Q \in Seq(S) /\ Len(Q) = Len(P) + Len(T)
      /\ \A i \in 1 .. Len(P) + Len(T) : Q[i] = IF i <= Len(P) THEN P[i] ELSE T[i - Len(P)]
  <2> HIDE DEF P
  <2> QED
    BY <1>1, <1>4, ConcatProperties DEF P
<1>6. /\ E \in Seq(S) /\ Len(E) = Len(Q) + 1
      /\ \A i \in 1 .. Len(Q) + 1 : E[i] = IF i <= Len(Q) THEN Q[i] ELSE <<"end">>[i - Len(Q)]
  <2> DEFINE U == <<"end">>
  <2>1. E = Q \o U /\ U \in Seq(S) /\ Len(U) = 1
    BY <1>1 DEF Splice, E
  <2> HIDE DEF Q, P, U
  <2>2. /\ Q \o U \in Seq(S) /\ Len(Q \o U) = Len(Q) + Len(U)
        /\ \A i \in 1 .. Len(Q) + Len(U) : (Q \o U)[i] = IF i <= Len(Q) THEN Q[i] ELSE U[i - Len(Q)]
    <3>1. Q \in Seq(S) /\ U \in Seq(S)
      BY <1>5, <2>1
    <3> QED
      BY <3>1, ConcatProperties
  <2>3. /\ E \in Seq(S) /\ Len(E) = Len(Q) + 1
        /\ \A i \in 1 .. Len(Q) + 1 : E[i] = IF i <= Len(Q) THEN Q[i] ELSE U[i - Len(Q)]
    BY <2>1, <2>2
  <2> QED
    BY <2>3 DEF U
<1>7. Len(P) = Len(H) + Len(B) /\ Len(E) = Len(H) + Len(B) + Len(T) + 1
  BY <1>2, <1>4, <1>5, <1>6
<1>a. E[Len(E)] = "end"
  <2>1. Len(Q) \in Nat /\ Len(E) = Len(Q) + 1
    BY <1>2, <1>5, <1>6, <1>7
  <2>2. Len(Q) + 1 \in 1 .. Len(Q) + 1 /\ ~(Len(Q) + 1 <= Len(Q)) /\ Len(Q) + 1 - Len(Q) = 1
    BY <2>1
  <2>3. E[Len(Q) + 1] = <<"end">>[1]
    BY <1>6, <2>2
  <2> QED
    BY <2>1, <2>3
<1>8. \A i \in 1 .. Len(P) : P[i] = IF i <= Len(H) THEN H[i] ELSE B[i - Len(H)]
  BY <1>4
<1> HIDE DEF P, Q
<1>9. ASSUME NEW i \in 1 .. Len(E)
      PROVE  /\ E[i] \in S /\ (E[i] = b <=> Len(H) < i /\ i <= Len(H) + Len(B))
             /\ (E[i] = "end" <=> i = Len(E))
  <2>1. E[i] \in S
    BY <1>6, ElementOfSeq
  <2>2. CASE i <= Len(H)
    <3>1. E[i] = H[i] /\ i \in 1 .. Len(H)
      BY <1>2, <1>5, <1>6, <1>7, <1>8, <2>2
    <3> QED
      BY <1>2, <1>3, <1>7, <2>1, <2>2, <3>1
  <2>3. CASE Len(H) < i /\ i <= Len(H) + Len(B)
    <3>1. E[i] = B[i - Len(H)] /\ i - Len(H) \in 1 .. Len(B)
      BY <1>2, <1>5, <1>6, <1>7, <1>8, <2>3
    <3> QED
      BY <1>2, <1>3, <1>7, <2>1, <2>3, <3>1
  <2>4. CASE Len(H) + Len(B) < i /\ i <= Len(H) + Len(B) + Len(T)
    <3>1. E[i] = T[i - Len(P)] /\ i - Len(P) \in 1 .. Len(T)
      BY <1>2, <1>5, <1>6, <1>7, <2>4
    <3> QED
      <4>1. E[i] \in {"empty", "usage"}
        BY <1>3, <3>1
      <4> QED
        BY <1>2, <1>7, <2>1, <2>4, <4>1
  <2>5. CASE i = Len(E)
    <3>1. E[i] = "end"
      BY <1>a, <2>5
    <3> QED
      BY <1>2, <1>7, <2>1, <2>5, <3>1
  <2> QED
    <3>1. Len(H) \in Nat /\ Len(B) \in Nat /\ Len(T) \in Nat /\ i \in 1 .. Len(E)
          /\ Len(E) = Len(H) + Len(B) + Len(T) + 1
      BY <1>2, <1>7
    <3>2. \/ i <= Len(H) \/ (Len(H) < i /\ i <= Len(H) + Len(B))
          \/ (Len(H) + Len(B) < i /\ i <= Len(H) + Len(B) + Len(T)) \/ i = Len(E)
      BY <3>1
    <3> QED
      BY <2>2, <2>3, <2>4, <2>5, <3>2
<1>10. E \in Seq(EventKinds)
  <2>1. S \subseteq EventKinds
    BY DEF S, EventKinds
  <2> QED
    BY <1>6, <2>1, SeqMonotonic
<1>11. Len(E) >= Len(H) + Len(B) + 1
  BY <1>2, <1>7
<1> QED
  BY <1>9, <1>10, <1>11 DEF S, E, HasBody

LEMMA TextsAre ==
  ASSUME NEW n \in Nat
  PROVE  Texts(n) \in Seq({"text"}) /\ Len(Texts(n)) = n
BY DEF Texts

LEMMA UsageIs ==
  ASSUME NEW k
  PROVE  Usage(k) \in Seq({"empty", "usage"}) /\ <<"empty">> \o Usage(k) \in Seq({"empty", "usage"})
<1>1. Usage(k) = <<"usage">> \/ Usage(k) = <<>>
  BY DEF Usage
<1>2. <<"empty">> \in Seq({"empty", "usage"})
  OBVIOUS
<1>3. Usage(k) \in Seq({"empty", "usage"})
  <2>1. CASE Usage(k) = <<"usage">>
    <3>1. <<"usage">> \in Seq({"empty", "usage"})
      OBVIOUS
    <3> QED
      BY <2>1, <3>1
  <2>2. CASE Usage(k) = <<>>
    BY <2>2, EmptySeq
  <2> QED
    BY <1>1, <2>1, <2>2
<1> QED
  BY <1>2, <1>3, ConcatProperties

\* Where the texts, the pieces of a tool call and the end of an answer are.
\* Every answer is put together that way.
LEMMA AnswerIsSpliced ==
  ASSUME NEW k \in Answerable, NEW n \in Nat, k.api = "completions" => n # 0
  PROVE  LET b == IF k.tool THEN "piece" ELSE "text" IN
         \E H \in Seq({"empty"}), B \in Seq({b}), T \in Seq({"empty", "usage"}) :
           /\ Events(k, n) = Splice(H, B, T)
           /\ Len(H) = Lead(k) /\ Len(B) = IF k.tool THEN Pieces(k) ELSE n
<1> DEFINE b == IF k.tool THEN "piece" ELSE "text"
           U == Usage(k)
           X == Texts(n)
           S == EventKinds
<1>1. k.api \in {"completions", "chat", "responses"} /\ (k.api = "completions" => ~k.tool)
  BY AnswerableIs DEF Kinds
<1>2. /\ X \in Seq({"text"}) /\ Len(X) = n /\ X \in Seq(S)
      /\ U \in Seq({"empty", "usage"}) /\ <<"empty">> \o U \in Seq({"empty", "usage"})
      /\ U \in Seq(S) /\ <<"empty">> \in Seq(S) /\ <<"end">> \in Seq(S)
  <2>1. {"text"} \subseteq S /\ {"empty", "usage"} \subseteq S
    BY DEF EventKinds
  <2>2. X \in Seq({"text"}) /\ Len(X) = n /\ U \in Seq({"empty", "usage"})
        /\ <<"empty">> \o U \in Seq({"empty", "usage"})
    BY TextsAre, UsageIs
  <2>3. X \in Seq(S) /\ U \in Seq(S)
    BY <2>1, <2>2, SeqMonotonic
  <2>4. "empty" \in S /\ "end" \in S
    BY DEF EventKinds
  <2> QED
    BY <2>2, <2>3, <2>4
<1>3. <<>> \in Seq({"empty"}) /\ Len(<<>>) = 0 /\ <<>> \o X = X
  BY <1>2, ConcatEmptySeq
<1>a. \A s, t, u \in Seq(S) : (s \o t) \o u = s \o (t \o u)
  BY ConcatAssociative
<1> HIDE DEF X, U, S
<1>4. CASE k.api = "completions" \/ (k.api = "chat" /\ ~k.tool)
  <2>1. Events(k, n) = ((X \o <<"empty">>) \o U) \o <<"end">> /\ ~k.tool
    BY <1>1, <1>4 DEF Events, CompletionEvents, ChatEvents, ChatContent, X, U
  <2>2. (X \o <<"empty">>) \o U = X \o (<<"empty">> \o U)
    BY <1>2, ConcatAssociative
  <2>3. Events(k, n) = ((<<>> \o X) \o (<<"empty">> \o U)) \o <<"end">>
    BY <1>3, <2>1, <2>2
  <2>4. Lead(k) = 0 /\ b = "text"
    BY <1>4, <2>1 DEF Lead
  <2> QED
    BY <1>2, <1>3, <2>1, <2>3, <2>4 DEF Splice
<1>5. CASE k.api = "chat" /\ k.tool
  <2> DEFINE B == <<"piece", "piece", "piece">>
             E == <<"empty">>
  <2>1. Events(k, n) = (<<"piece", "piece", "piece", "empty">> \o U) \o <<"end">>
    BY <1>5 DEF Events, ChatEvents, ChatToolCall, U
  <2>2. <<"piece", "piece", "piece", "empty">> = B \o E
    OBVIOUS
  <2>3. B \in Seq({"piece"}) /\ B \in Seq(S) /\ E \in Seq(S) /\ Len(B) = 3
    BY DEF S, EventKinds
  <2>4. <<>> \o B = B
    BY <2>3, ConcatEmptySeq
  <2> HIDE DEF B, E
  <2>5. (B \o E) \o U = B \o (E \o U)
    <3>1. B \in Seq(S) /\ E \in Seq(S) /\ U \in Seq(S)
      BY <1>2, <2>3
    <3> QED
      BY <3>1, ConcatAssociative
  <2>6. Events(k, n) = ((<<>> \o B) \o (E \o U)) \o <<"end">>
    BY <2>1, <2>2, <2>4, <2>5
  <2>7. Lead(k) = 0 /\ b = "piece" /\ Pieces(k) = 3
    BY <1>5 DEF Lead, Pieces
  <2>8. E \o U \in Seq({"empty", "usage"})
    BY <1>2 DEF E
  <2> QED
    BY <1>3, <1>5, <2>3, <2>6, <2>7, <2>8 DEF Splice
<1>6. CASE k.api = "responses" /\ k.tool
  <2> DEFINE H == <<"empty", "empty">>
             B == <<"piece", "piece", "piece", "piece">>
             T == <<"empty", "usage">>
             N == <<"end">>
  <2>1. Events(k, n) = (H \o <<"piece", "piece", "piece", "piece", "empty">>) \o <<"usage", "end">>
    BY <1>6 DEF Events, ResponsesEvents, ResponsesCall
  <2>2. /\ <<"piece", "piece", "piece", "piece", "empty">> = B \o <<"empty">>
        /\ <<"usage", "end">> = <<"usage">> \o N /\ T = <<"empty">> \o <<"usage">>
    OBVIOUS
  <2>3. /\ H \in Seq({"empty"}) /\ B \in Seq({"piece"}) /\ T \in Seq({"empty", "usage"})
        /\ Len(H) = 2 /\ Len(B) = 4
    OBVIOUS
  <2>4. H \in Seq(S) /\ B \in Seq(S) /\ N \in Seq(S) /\ <<"usage">> \in Seq(S)
    BY DEF S, EventKinds
  <2> HIDE DEF H, B, T, N
  <2>5. /\ H \o B \in Seq(S) /\ (H \o B) \o <<"empty">> \in Seq(S)
        /\ H \o (B \o <<"empty">>) = (H \o B) \o <<"empty">>
    BY <1>2, <2>4, ConcatAssociative, ConcatProperties
  <2> DEFINE F == <<"empty">>
             Y == <<"usage">>
             HB == H \o B
  <2>a. HB \in Seq(S) /\ F \in Seq(S) /\ Y \in Seq(S) /\ HB \o F \in Seq(S)
    BY <1>2, <2>4, <2>5
  <2> HIDE DEF F, Y, HB
  <2>b. (HB \o F) \o (Y \o N) = ((HB \o F) \o Y) \o N
    <3>1. HB \o F \in Seq(S) /\ Y \in Seq(S) /\ N \in Seq(S)
      BY <2>4, <2>a
    <3> QED
      BY <3>1, <1>a
  <2>c. (HB \o F) \o Y = HB \o (F \o Y)
    BY <2>a, ConcatAssociative
  <2>6. /\ (HB \o F) \o (Y \o N) = (HB \o (F \o Y)) \o N
    BY <2>b, <2>c
  <2>7. Events(k, n) = ((H \o B) \o T) \o N
    BY <2>1, <2>2, <2>5, <2>6 DEF F, Y, HB
  <2>8. Lead(k) = 2 /\ b = "piece" /\ Pieces(k) = 4
    BY <1>6 DEF Lead, Pieces
  <2> QED
    BY <1>6, <2>3, <2>7, <2>8 DEF N, Splice
<1>7. CASE k.api = "responses" /\ ~k.tool
  <2> DEFINE A == <<"empty", "empty">>
             H == <<"empty", "empty", "empty", "empty">>
             T == <<"empty", "empty", "usage">>
             N == <<"end">>
             Z == <<"usage">>
  <2>1. Events(k, n) = (A \o ((A \o X) \o A)) \o <<"usage", "end">>
    BY <1>7 DEF Events, ResponsesEvents, ResponsesContent, X
  <2>2. <<"usage", "end">> = Z \o N /\ T = A \o Z /\ H = A \o A
    OBVIOUS
  <2>3. /\ H \in Seq({"empty"}) /\ T \in Seq({"empty", "usage"}) /\ Len(H) = 4
    OBVIOUS
  <2>4. A \in Seq(S) /\ N \in Seq(S) /\ Z \in Seq(S) /\ H \in Seq(S)
    BY DEF S, EventKinds
  <2> HIDE DEF A, H, T, N, Z
  <2>5. /\ A \o X \in Seq(S) /\ H \o X \in Seq(S) /\ (H \o X) \o A \in Seq(S)
    BY <1>2, <2>4, ConcatProperties
  <2>a. X \in Seq(S)
    BY <1>2
  <2> DEFINE AX == A \o X
             HX == H \o X
             HXA == HX \o A
  <2>b. AX \in Seq(S) /\ HX \in Seq(S) /\ HXA \in Seq(S)
    BY <2>5
  <2>c. A \o AX = H \o X
    BY <2>2, <2>4, <2>a, <1>a, Zenon
  <2> HIDE DEF AX, HX, HXA
  <2>d. A \o (AX \o A) = (A \o AX) \o A
    <3>1. A \in Seq(S) /\ AX \in Seq(S)
      BY <2>4, <2>b
    <3> QED
      BY <3>1, <1>a
  <2>e. HXA \o (Z \o N) = (HXA \o Z) \o N
    <3>1. HXA \in Seq(S) /\ Z \in Seq(S) /\ N \in Seq(S)
      BY <2>4, <2>b
    <3> QED
      BY <3>1, <1>a
  <2>f. (HX \o A) \o Z = HX \o (A \o Z)
    <3>1. HX \in Seq(S) /\ A \in Seq(S) /\ Z \in Seq(S)
      BY <2>4, <2>b
    <3> QED
      BY <3>1, <1>a
  <2>8. Events(k, n) = ((H \o X) \o T) \o N
    BY <2>1, <2>2, <2>c, <2>d, <2>e, <2>f DEF AX, HX, HXA
  <2>9. Lead(k) = 4 /\ b = "text"
    BY <1>7 DEF Lead
  <2> QED
    BY <1>2, <1>7, <2>3, <2>8, <2>9 DEF N, Splice
<1> QED
  BY <1>1, <1>4, <1>5, <1>6, <1>7

\* Where the texts, the pieces of a tool call and the end of an answer are.
LEMMA EventsByPlace ==
  ASSUME NEW k \in Answerable, NEW n \in Nat, k.api = "completions" => n # 0
  PROVE  /\ Events(k, n) \in Seq(EventKinds)
         /\ Len(Events(k, n)) >= Lead(k) + (IF k.tool THEN Pieces(k) ELSE n) + 1
         /\ \A i \in 1 .. Len(Events(k, n)) :
              LET e == Events(k, n)[i] IN
              /\ e # "broken" /\ (e = "end" <=> i = Len(Events(k, n)))
              /\ e = "text" <=> ~k.tool /\ Lead(k) < i /\ i <= Lead(k) + n
              /\ e = "piece" <=> k.tool /\ Lead(k) < i /\ i <= Lead(k) + Pieces(k)
<1> DEFINE b == IF k.tool THEN "piece" ELSE "text"
           m == IF k.tool THEN Pieces(k) ELSE n
           E == Events(k, n)
<1>1. PICK H \in Seq({"empty"}), B \in Seq({b}), T \in Seq({"empty", "usage"}) :
        /\ E = Splice(H, B, T)
        /\ Len(H) = Lead(k) /\ Len(B) = m
  BY AnswerIsSpliced
<1>2. b \in {"text", "piece"} /\ Len(T) \in Nat /\ m \in Nat /\ Lead(k) \in Nat
  BY DEF Pieces, Lead
<1>3. HasBody(E, b, Lead(k), m)
  <2> HIDE DEF b, m, E
  <2> QED
    BY <1>1, <1>2, Spliced
<1>4. CASE k.tool
  <2>1. b = "piece" /\ m = Pieces(k)
    BY <1>4
  <2> HIDE DEF b, m, E
  <2> QED
    BY <1>2, <1>3, <1>4, <2>1 DEF E, m, HasBody
<1>5. CASE ~k.tool
  <2>1. b = "text" /\ m = n
    BY <1>5
  <2> HIDE DEF b, m, E
  <2> QED
    BY <1>2, <1>3, <1>5, <2>1 DEF E, m, HasBody
<1> QED
  BY <1>4, <1>5
-----------------------------------------------------------------------------
(* The steps *)

LEMMA InitServing ==
  ASSUME ServingInit
  PROVE  ServingInv
<1>1. load \in Seq(Answerable)
  BY ServingAssumption DEF ServingInit
<1>2. ServingTyped
  BY <1>1, EmptySeq DEF ServingInit, ServingTyped, Standings, Replies, Nothing, SeenRecord
<1>3. \A r \in Calls : /\ serving[r] = "unsent" /\ count[r] = 0 /\ received[r] = Nothing
                        /\ reply[r] = "pending"
  BY DEF ServingInit
<1>4. ASSUME NEW r \in Calls PROVE CallIsSound(r)
  <2>1. Untouched(r) /\ Written(r) /\ FailsAsConfigured(r) /\ Reported(r)
    BY <1>3 DEF Untouched, Written, FailsAsConfigured, Reported
  <2>2. Within(r)
    BY <1>3 DEF Within, Nothing
  <2> QED
    BY <2>1, <2>2 DEF CallIsSound
<1>5. AdmittedAreCounted
  <2>1. Admitted = {} /\ SentCalls = {}
    BY <1>3 DEF Admitted, SentCalls
  <2>2. accepted = 0 /\ server.failAfter \in {None} \cup Nat
    BY ServingAssumption DEF ServingInit
  <2> QED
    BY <2>1, <2>2, FS_EmptySet DEF AdmittedAreCounted
<1> QED
  BY <1>2, <1>4, <1>5 DEF ServingInv

LEMMA CallsAreFinite ==
  ASSUME ServingTyped, NEW S, S \subseteq Calls
  PROVE  IsFiniteSet(S) /\ Cardinality(S) \in Nat /\ Cardinality(S) <= Len(load)
<1>1. Len(load) \in Nat /\ Calls = 1 .. Len(load)
  BY DEF ServingTyped, Calls
<1>2. IsFiniteSet(Calls) /\ Cardinality(Calls) = Len(load)
  <2>1. 1 \in Int /\ Len(load) \in Int
    BY <1>1
  <2>2. /\ IsFiniteSet(1 .. Len(load))
        /\ Cardinality(1 .. Len(load)) = IF 1 > Len(load) THEN 0 ELSE Len(load) - 1 + 1
    BY <2>1, FS_Interval
  <2> QED
    BY <1>1, <2>2
<1> QED
  BY <1>2, FS_Subset, FS_CardinalityType

\* A call is as sound as it was when a step leaves it alone.
LEMMA OthersStay ==
  ASSUME ServingInv, NEW q \in Calls, load' = load, server' = server,
         accepted' \in Nat, accepted <= accepted',
         serving'[q] = serving[q], reply'[q] = reply[q], count'[q] = count[q],
         script'[q] = script[q], received'[q] = received[q]
  PROVE  CallIsSound(q)'
<1>1. CallIsSound(q) /\ accepted \in Nat
  BY DEF ServingInv, ServingTyped
<1>2. Untouched(q)' /\ Written(q)' /\ Within(q)'
  BY <1>1 DEF CallIsSound, Untouched, Written, Within
<1>3. FailsAsConfigured(q)'
  <2>1. server.failAfter # None => server.failAfter \in Nat
    BY ServingAssumption DEF ServingInv, ServingTyped
  <2> QED
    BY <1>1, <2>1 DEF CallIsSound, FailsAsConfigured
<1>4. Reported(q)'
  BY <1>1 DEF CallIsSound, Reported, OutputTokens, UsageTokens
<1> QED
  BY <1>2, <1>3, <1>4 DEF CallIsSound

LEMMA CountKeeps ==
  ASSUME ServingInv, load' = load, server' = server, accepted' = accepted,
         Admitted' \subseteq Admitted, SentCalls \subseteq SentCalls', SentCalls' \subseteq Calls
  PROVE  AdmittedAreCounted'
<1>1. /\ ServingTyped /\ AdmittedAreCounted /\ Admitted \subseteq Calls /\ accepted \in Nat
  BY DEF ServingInv, Admitted, ServingTyped
<1>2. /\ IsFiniteSet(Admitted) /\ IsFiniteSet(SentCalls') /\ Cardinality(Admitted) \in Nat
      /\ Cardinality(SentCalls') \in Nat
  BY <1>1, CallsAreFinite
<1>3. Cardinality(Admitted') <= Cardinality(Admitted) /\ Cardinality(Admitted') \in Nat
  BY <1>2, FS_Subset, FS_CardinalityType
<1>4. Cardinality(SentCalls) <= Cardinality(SentCalls') /\ Cardinality(SentCalls) \in Nat
  BY <1>2, FS_Subset, FS_CardinalityType
<1>5. /\ Cardinality(Admitted) <= accepted /\ accepted <= Cardinality(SentCalls)
      /\ (server.failAfter # None => accepted <= server.failAfter)
  BY <1>1 DEF AdmittedAreCounted
<1>6. Cardinality(Admitted') <= accepted' /\ accepted' <= Cardinality(SentCalls')
  BY <1>1, <1>2, <1>3, <1>4, <1>5
<1> QED
  BY <1>5, <1>6 DEF AdmittedAreCounted

LEMMA CountGrows ==
  ASSUME ServingInv, load' = load, server' = server, accepted' = accepted + 1, NEW r \in Calls,
         server.failAfter # None => accepted < server.failAfter,
         Admitted' \subseteq Admitted \cup {r}, r \notin SentCalls,
         SentCalls' = SentCalls \cup {r}
  PROVE  AdmittedAreCounted'
<1>1. /\ ServingTyped /\ AdmittedAreCounted /\ Admitted \subseteq Calls /\ accepted \in Nat
      /\ SentCalls \subseteq Calls /\ Admitted \cup {r} \subseteq Calls
  BY DEF ServingInv, Admitted, SentCalls, ServingTyped
<1>2. /\ IsFiniteSet(Admitted) /\ IsFiniteSet(SentCalls) /\ IsFiniteSet(Admitted \cup {r})
      /\ Cardinality(Admitted) \in Nat /\ Cardinality(SentCalls) \in Nat
      /\ Cardinality(Admitted \cup {r}) \in Nat
  BY <1>1, CallsAreFinite
<1>3. Cardinality(Admitted \cup {r}) <= Cardinality(Admitted) + 1
  BY <1>2, FS_AddElement
<1>4. Cardinality(Admitted') <= Cardinality(Admitted \cup {r}) /\ Cardinality(Admitted') \in Nat
  BY <1>2, FS_Subset, FS_CardinalityType
<1>5. Cardinality(SentCalls') = Cardinality(SentCalls) + 1
  BY <1>2, FS_AddElement
<1>6. /\ Cardinality(Admitted) <= accepted /\ accepted <= Cardinality(SentCalls)
  BY <1>1 DEF AdmittedAreCounted
<1>7. Cardinality(Admitted') <= accepted' /\ accepted' <= Cardinality(SentCalls')
  BY <1>1, <1>2, <1>3, <1>4, <1>5, <1>6
<1>8. server.failAfter # None => accepted' <= server.failAfter
  <2>1. server.failAfter # None => server.failAfter \in Nat
    BY <1>1, ServingAssumption DEF ServingTyped
  <2> QED
    BY <1>1, <2>1
<1> QED
  BY <1>7, <1>8 DEF AdmittedAreCounted

LEMMA ArriveServing ==
  ASSUME ServingInv, NEW r \in Calls, Arrive(r)
  PROVE  ServingInv'
<1>1. /\ ServingTyped /\ AdmittedAreCounted /\ CallIsSound(r) /\ accepted \in Nat
      /\ serving \in [Calls -> Standings] /\ reply \in [Calls -> Replies]
      /\ (server.failAfter # None => server.failAfter \in Nat)
  BY ServingAssumption DEF ServingInv, ServingTyped
<1>2. /\ serving[r] = "unsent" /\ reply[r] = "pending"
      /\ load' = load /\ server' = server /\ holders' = holders /\ count' = count
      /\ script' = script /\ received' = received
  BY DEF Arrive
<1>3. received[r] = Nothing /\ count[r] = 0
  BY <1>1, <1>2 DEF CallIsSound, Untouched
<1>4. CASE Refused(accepted)
  <2>1. /\ serving' = [serving EXCEPT ![r] = "answered"] /\ reply' = [reply EXCEPT ![r] = "errored"]
        /\ accepted' = accepted /\ server.failAfter # None /\ accepted >= server.failAfter
    BY <1>4 DEF Arrive, Refused
  <2>2. ServingTyped'
    BY <1>1, <1>2, <2>1 DEF ServingTyped, Standings, Replies, Calls
  <2>3. AdmittedAreCounted'
    <3>1. Admitted' \subseteq Admitted
      BY <1>1, <1>2, <2>1 DEF Admitted, Calls
    <3>2. SentCalls \subseteq SentCalls' /\ SentCalls' \subseteq Calls
      BY <1>1, <1>2, <2>1 DEF SentCalls, Calls
    <3> QED
      BY <1>2, <2>1, <3>1, <3>2, CountKeeps
  <2>4. CallIsSound(r)'
    <3>1. serving'[r] = "answered" /\ reply'[r] = "errored"
      BY <1>1, <2>1
    <3>2. Untouched(r)' /\ Written(r)' /\ FailsAsConfigured(r)' /\ Reported(r)'
      BY <1>2, <2>1, <3>1 DEF Untouched, Written, FailsAsConfigured, Reported
    <3>3. Within(r)'
      BY <1>1, <1>2 DEF CallIsSound, Within
    <3> QED
      BY <3>2, <3>3 DEF CallIsSound
  <2>5. ASSUME NEW q \in Calls, q # r PROVE CallIsSound(q)'
    <3>1. serving'[q] = serving[q] /\ reply'[q] = reply[q]
      BY <1>1, <2>1, <2>5
    <3> QED
      BY <1>1, <1>2, <2>1, <3>1, OthersStay
  <2> QED
    BY <1>2, <2>2, <2>3, <2>4, <2>5 DEF ServingInv, Calls
<1>5. CASE ~Refused(accepted)
  <2>1. /\ serving' = [serving EXCEPT ![r] = "waiting"] /\ reply' = reply
        /\ accepted' = accepted + 1 /\ (server.failAfter # None => ~(accepted >= server.failAfter))
    BY <1>5 DEF Arrive, Refused
  <2>2. ServingTyped'
    BY <1>1, <1>2, <2>1 DEF ServingTyped, Standings, Replies, Calls
  <2>3. AdmittedAreCounted'
    <3>1. Admitted' \subseteq Admitted \cup {r}
      BY <1>1, <1>2, <2>1 DEF Admitted, Calls
    <3>2. r \notin SentCalls /\ SentCalls' = SentCalls \cup {r}
      BY <1>1, <1>2, <2>1 DEF SentCalls, Calls
    <3>3. server.failAfter # None => accepted < server.failAfter
      BY <1>1, <2>1
    <3> QED
      BY <1>2, <2>1, <3>1, <3>2, <3>3, CountGrows
  <2>4. CallIsSound(r)'
    <3>1. serving'[r] = "waiting" /\ reply'[r] = "pending"
      BY <1>1, <1>2, <2>1
    <3>2. Untouched(r)' /\ Written(r)' /\ FailsAsConfigured(r)' /\ Reported(r)'
      BY <1>2, <1>3, <3>1 DEF Untouched, Written, FailsAsConfigured, Reported
    <3>3. Within(r)'
      BY <1>1, <1>2 DEF CallIsSound, Within
    <3> QED
      BY <3>2, <3>3 DEF CallIsSound
  <2>5. ASSUME NEW q \in Calls, q # r PROVE CallIsSound(q)'
    <3>1. serving'[q] = serving[q] /\ reply'[q] = reply[q] /\ accepted' \in Nat
          /\ accepted <= accepted'
      BY <1>1, <2>1, <2>5
    <3> QED
      BY <1>1, <1>2, <2>1, <3>1, OthersStay
  <2> QED
    BY <1>2, <2>2, <2>3, <2>4, <2>5 DEF ServingInv, Calls
<1> QED
  BY <1>4, <1>5
\* A step of one admitted call: who is admitted and who was sent does not grow.
LEMMA ServeKeepsCount ==
  ASSUME ServingInv, NEW r \in Calls, serving[r] # "unsent", load' = load, server' = server,
         accepted' = accepted, NEW w \in Standings, NEW a \in Replies, w # "unsent",
         serving' = [serving EXCEPT ![r] = w], reply' = [reply EXCEPT ![r] = a],
         serving[r] # "answered"
  PROVE  AdmittedAreCounted'
<1>1. serving \in [Calls -> Standings] /\ reply \in [Calls -> Replies]
  BY DEF ServingInv, ServingTyped
<1>2. Admitted' \subseteq Admitted
  BY <1>1 DEF Admitted, Calls
<1>3. SentCalls \subseteq SentCalls' /\ SentCalls' \subseteq Calls
  BY <1>1 DEF SentCalls, Calls
<1> QED
  BY <1>2, <1>3, CountKeeps

LEMMA EnterServing ==
  ASSUME ServingInv, NEW r \in Calls, Enter(r)
  PROVE  ServingInv'
<1>1. /\ ServingTyped /\ CallIsSound(r) /\ accepted \in Nat
      /\ serving \in [Calls -> Standings] /\ reply \in [Calls -> Replies]
  BY DEF ServingInv, ServingTyped
<1>2. /\ serving[r] = "waiting"
      /\ load' = load /\ server' = server /\ accepted' = accepted /\ count' = count
      /\ script' = script /\ received' = received
  BY DEF Enter
<1>3. received[r] = Nothing /\ count[r] = 0 /\ reply[r] = "pending"
  BY <1>1, <1>2 DEF CallIsSound, Untouched
<1>4. \E w \in {"answered", "opened", "generating"}, a \in Replies :
        /\ serving' = [serving EXCEPT ![r] = w] /\ reply' = [reply EXCEPT ![r] = a]
        /\ w = "answered" => a = "errored" /\ ~load[r].valid
        /\ w # "answered" => a = "pending"
  <2>1. reply = [reply EXCEPT ![r] = "pending"]
    BY <1>1, <1>3
  <2>2. /\ "pending" \in Replies /\ "errored" \in Replies
    BY DEF Replies
  <2> QED
    BY <2>1, <2>2 DEF Enter
<1>5. PICK w \in {"answered", "opened", "generating"}, a \in Replies :
        /\ serving' = [serving EXCEPT ![r] = w] /\ reply' = [reply EXCEPT ![r] = a]
        /\ w = "answered" => a = "errored" /\ ~load[r].valid
        /\ w # "answered" => a = "pending"
  BY <1>4
<1>6. w \in Standings
  BY DEF Standings
<1>7. holders' \subseteq Calls
  BY <1>1 DEF Enter, ServingTyped
<1>8. ServingTyped'
  BY <1>1, <1>2, <1>5, <1>6, <1>7 DEF ServingTyped, Calls
<1>9. AdmittedAreCounted'
  BY <1>2, <1>5, <1>6, ServeKeepsCount
<1>10. CallIsSound(r)'
  <2>1. serving'[r] = w /\ reply'[r] = a
    BY <1>1, <1>5
  <2>2. Untouched(r)' /\ Written(r)' /\ FailsAsConfigured(r)' /\ Reported(r)'
    BY <1>2, <1>3, <1>5, <2>1 DEF Untouched, Written, FailsAsConfigured, Reported
  <2>3. Within(r)'
    BY <1>1, <1>2 DEF CallIsSound, Within
  <2> QED
    BY <2>2, <2>3 DEF CallIsSound
<1>11. ASSUME NEW q \in Calls, q # r PROVE CallIsSound(q)'
  <2>1. serving'[q] = serving[q] /\ reply'[q] = reply[q] /\ accepted <= accepted'
    BY <1>1, <1>2, <1>5, <1>11
  <2> QED
    BY <1>1, <1>2, <2>1, OthersStay
<1> QED
  BY <1>2, <1>8, <1>9, <1>10, <1>11 DEF ServingInv, Calls

\* What the server chooses to generate.
LEMMA ChosenIs ==
  ASSUME NEW k \in Answerable, NEW sample \in Sampled, ~Overflows(k)
  PROVE  Chosen(k, sample) \in Nat
<1>1. sample \in Nat /\ k.limit \in {None} \cup Nat /\ k.stop \in BOOLEAN
  BY ServingAssumption, AnswerableIs DEF Kinds
<1>2. CASE k.api = "completions" /\ ~k.stop
  BY <1>1, <1>2 DEF Chosen, Overflows, Unlimited
<1>3. CASE ~(k.api = "completions" /\ ~k.stop)
  BY <1>1, <1>3 DEF Chosen, Bounded, Unlimited
<1> QED
  BY <1>2, <1>3

LEMMA BeginServing ==
  ASSUME ServingInv, NEW r \in Calls, NEW sample \in Sampled, Begin(r, sample)
  PROVE  ServingInv'
<1> DEFINE k == load[r]
           c == IF Overflows(k) THEN 0 ELSE Chosen(k, sample)
           e == IF Overflows(k) THEN <<"broken">> ELSE Events(k, c)
<1>1. /\ ServingTyped /\ CallIsSound(r) /\ accepted \in Nat
      /\ serving \in [Calls -> Standings] /\ reply \in [Calls -> Replies]
      /\ count \in [Calls -> Nat] /\ script \in [Calls -> Seq(EventKinds)] /\ k \in Answerable
  BY DEF ServingInv, ServingTyped, Calls
<1>2. /\ serving[r] = "opened" /\ serving' = [serving EXCEPT ![r] = "writing"]
      /\ count' = [count EXCEPT ![r] = c]
      /\ load' = load /\ server' = server /\ accepted' = accepted /\ holders' = holders
      /\ reply' = reply /\ received' = received
  BY DEF Begin
<1>3. received[r] = Nothing /\ reply[r] = "pending"
  BY <1>1, <1>2 DEF CallIsSound, Untouched
<1>4. c \in Nat
  BY <1>1, ChosenIs
<1>5. count'[r] = c
  BY <1>1, <1>2
<1>6. script' = [script EXCEPT ![r] = e]
  <2>1. script' = [script EXCEPT ![r] = IF Overflows(k) THEN <<"broken">>
                                         ELSE Events(k, count'[r])]
    BY DEF Begin
  <2> HIDE DEF c
  <2> QED
    BY <1>5, <2>1
<1>7. \/ e = <<"broken">> /\ c = 0
      \/ e = Events(k, c) /\ (k.api = "completions" => c # 0)
  BY DEF Events, CompletionEvents
<1>8. e \in Seq(EventKinds)
  <2>1. "broken" \in EventKinds
    BY DEF EventKinds
  <2>2. CASE e = <<"broken">>
    <3>1. <<"broken">> \in Seq(EventKinds)
      BY <2>1
    <3> HIDE DEF e
    <3> QED
      BY <2>2, <3>1
  <2>3. CASE e = Events(k, c) /\ (k.api = "completions" => c # 0)
    <3> HIDE DEF e, c, k
    <3> QED
      BY <1>1, <1>4, <2>3, EventsByPlace
  <2> QED
    BY <1>7, <2>2, <2>3
<1> HIDE DEF c, e
<1>9. /\ serving'[r] = "writing" /\ reply'[r] = "pending" /\ script'[r] = e
      /\ reply = [reply EXCEPT ![r] = "pending"] /\ "writing" \in Standings
      /\ "pending" \in Replies
  BY <1>1, <1>2, <1>3, <1>6 DEF Standings, Replies
<1>10. ServingTyped'
  BY <1>1, <1>2, <1>4, <1>6, <1>8 DEF ServingTyped, Standings, Calls
<1>11. AdmittedAreCounted'
  BY <1>2, <1>9, ServeKeepsCount
<1>12. CallIsSound(r)'
  <2>1. Untouched(r)' /\ FailsAsConfigured(r)' /\ Reported(r)'
    BY <1>9 DEF Untouched, FailsAsConfigured, Reported
  <2>2. Within(r)'
    BY <1>2, <1>3, <1>4, <1>5 DEF Within, Nothing
  <2>3. Written(r)'
    <3>1. CASE e = <<"broken">> /\ c = 0
      BY <1>2, <1>3, <1>5, <1>9, <3>1 DEF Written
    <3>2. CASE e = Events(k, c) /\ (k.api = "completions" => c # 0)
      <4> DEFINE E == Events(k, c)
      <4>1. E \in Seq(EventKinds) /\ Len(E) >= Lead(k) + (IF k.tool THEN Pieces(k) ELSE c) + 1
        <5> HIDE DEF k, E
        <5> QED
          BY <1>1, <1>4, <3>2, EventsByPlace DEF E
      <4>2. Lead(k) \in Nat /\ Pieces(k) \in Nat
        BY DEF Lead, Pieces
      <4> HIDE DEF E
      <4>3. 0 \in 0 .. Len(E) - 1
        BY <1>4, <4>1, <4>2
      <4>4. E = SubSeq(E, 0 + 1, Len(E))
        BY <4>1, SubSeqFull
      <4>5. /\ received'[r].text = 0 /\ received'[r].pieces = 0
        BY <1>2, <1>3 DEF Nothing
      <4>6. TextsIn(k, c, 0) = 0 /\ PiecesIn(k, 0) = 0
        BY <4>2 DEF TextsIn, PiecesIn, Part
      <4>7. \E j \in 0 .. Len(E) - 1 :
               /\ script'[r] = SubSeq(E, j + 1, Len(E))
               /\ received'[r].text = TextsIn(k, c, j)
               /\ received'[r].pieces = PiecesIn(k, j)
        <5>1. script'[r] = SubSeq(E, 0 + 1, Len(E))
          BY <1>9, <3>2, <4>4 DEF E
        <5> QED
          BY <4>3, <4>5, <4>6, <5>1
      <4>8. load'[r] = k /\ Events(load'[r], count'[r]) = E
        BY <1>2, <1>5 DEF E
      <4> QED
        BY <1>2, <1>5, <3>2, <4>7, <4>8 DEF Written
    <3> QED
      BY <1>7, <3>1, <3>2
  <2> QED
    BY <2>1, <2>2, <2>3 DEF CallIsSound
<1>13. ASSUME NEW q \in Calls, q # r PROVE CallIsSound(q)'
  <2>1. /\ serving'[q] = serving[q] /\ accepted <= accepted' /\ count'[q] = count[q]
        /\ script'[q] = script[q]
    BY <1>1, <1>2, <1>6, <1>13
  <2> QED
    BY <1>1, <1>2, <2>1, OthersStay
<1> QED
  BY <1>2, <1>10, <1>11, <1>12, <1>13 DEF ServingInv, Calls
LEMMA AnswerWholeServing ==
  ASSUME ServingInv, NEW r \in Calls, NEW sample \in Sampled, AnswerWhole(r, sample)
  PROVE  ServingInv'
<1> DEFINE k == load[r]
           c == Chosen(k, sample)
<1>1. /\ ServingTyped /\ CallIsSound(r) /\ accepted \in Nat
      /\ serving \in [Calls -> Standings] /\ reply \in [Calls -> Replies]
      /\ count \in [Calls -> Nat] /\ received \in [Calls -> SeenRecord] /\ k \in Answerable
      /\ k.tool \in BOOLEAN
  BY AnswerableIs DEF ServingInv, ServingTyped, Calls, Kinds
<1>2. /\ serving[r] = "generating" /\ serving' = [serving EXCEPT ![r] = "answered"]
      /\ holders' = holders \ {r}
      /\ load' = load /\ server' = server /\ accepted' = accepted /\ script' = script
  BY DEF AnswerWhole, SlotsAfter
<1>3. received[r] = Nothing /\ count[r] = 0 /\ reply[r] = "pending"
  BY <1>1, <1>2 DEF CallIsSound, Untouched
<1>4. serving'[r] = "answered" /\ "answered" \in Standings
  BY <1>1, <1>2 DEF Standings
<1>5. CASE Overflows(k)
  <2>1. /\ reply' = [reply EXCEPT ![r] = "errored"] /\ count' = count /\ received' = received
    BY <1>5 DEF AnswerWhole
  <2>2. "errored" \in Replies /\ reply'[r] = "errored"
    BY <1>1, <2>1 DEF Replies
  <2>3. ServingTyped'
    BY <1>1, <1>2, <1>4, <2>1, <2>2 DEF ServingTyped, Calls
  <2>4. AdmittedAreCounted'
    BY <1>2, <1>4, <2>1, <2>2, ServeKeepsCount
  <2>5. CallIsSound(r)'
    <3>1. Untouched(r)' /\ Written(r)' /\ FailsAsConfigured(r)' /\ Reported(r)'
      BY <1>2, <1>3, <1>4, <2>1, <2>2 DEF Untouched, Written, FailsAsConfigured, Reported
    <3>2. Within(r)'
      BY <1>1, <1>2, <2>1 DEF CallIsSound, Within
    <3> QED
      BY <3>1, <3>2 DEF CallIsSound
  <2>6. ASSUME NEW q \in Calls, q # r PROVE CallIsSound(q)'
    <3>1. serving'[q] = serving[q] /\ reply'[q] = reply[q] /\ accepted <= accepted'
      BY <1>1, <1>2, <2>1, <2>6
    <3> QED
      BY <1>1, <1>2, <2>1, <3>1, OthersStay
  <2> QED
    BY <1>2, <2>3, <2>4, <2>5, <2>6 DEF ServingInv, Calls
<1>6. CASE ~Overflows(k)
  <2> DEFINE seen == [text |-> IF k.tool THEN 0 ELSE c, pieces |-> IF k.tool THEN 1 ELSE 0,
                      usage |-> TRUE]
             a == IF k.tool \/ c > 0 THEN "completed" ELSE "errored"
  <2>1. c \in Nat
    BY <1>1, <1>6, ChosenIs
  <2>2. /\ count' = [count EXCEPT ![r] = c]
        /\ received' = [received EXCEPT ![r] = [text |-> IF k.tool THEN 0 ELSE count'[r],
                                               pieces |-> IF k.tool THEN 1 ELSE 0, usage |-> TRUE]]
        /\ reply' = [reply EXCEPT ![r] = IF k.tool \/ count'[r] > 0 THEN "completed" ELSE "errored"]
    BY <1>6 DEF AnswerWhole
  <2>3. count'[r] = c
    BY <1>1, <2>2
  <2> HIDE DEF c
  <2>4. received' = [received EXCEPT ![r] = seen] /\ reply' = [reply EXCEPT ![r] = a]
    BY <2>2, <2>3
  <2>5. /\ seen \in SeenRecord /\ seen.text = (IF k.tool THEN 0 ELSE c)
        /\ seen.pieces = (IF k.tool THEN 1 ELSE 0) /\ seen.usage = TRUE
    BY <2>1 DEF SeenRecord
  <2>6. a \in Replies
    BY DEF Replies
  <2>a. a = "completed" \/ (a = "errored" /\ c = 0)
    BY <2>1
  <2>b. a = "completed" => k.tool \/ c > 0
    OBVIOUS
  <2> HIDE DEF seen, a
  <2>7. received'[r] = seen /\ reply'[r] = a
    BY <1>1, <2>4
  <2>8. ServingTyped'
    <3>1. count' \in [Calls -> Nat]
      BY <1>1, <2>1, <2>2
    <3>2. received' \in [Calls -> SeenRecord]
      BY <1>1, <2>4, <2>5
    <3>3. serving' \in [Calls -> Standings] /\ reply' \in [Calls -> Replies]
      BY <1>1, <1>2, <1>4, <2>4, <2>6
    <3>4. holders' \subseteq Calls
      BY <1>1, <1>2 DEF ServingTyped
    <3> QED
      BY <1>1, <1>2, <3>1, <3>2, <3>3, <3>4 DEF ServingTyped, Calls
  <2>9. AdmittedAreCounted'
    BY <1>2, <1>4, <2>4, <2>6, ServeKeepsCount
  <2>10. CallIsSound(r)'
    <3>1. Untouched(r)' /\ Written(r)' /\ FailsAsConfigured(r)'
      BY <1>4, <2>3, <2>7, <2>a DEF Untouched, Written, FailsAsConfigured
    <3>2. Within(r)'
      BY <2>1, <2>3, <2>5, <2>7 DEF Within
    <3>3. Reported(r)'
      <4>1. OutputTokens(r, received[r])' = c
        BY <2>3, <2>5, <2>7 DEF OutputTokens, UsageTokens
      <4>2. load'[r] = k /\ received'[r].usage = TRUE
        BY <1>2, <2>5, <2>7
      <4> QED
        BY <2>3, <2>7, <2>b, <4>1, <4>2 DEF Reported
    <3> QED
      BY <3>1, <3>2, <3>3 DEF CallIsSound
  <2>11. ASSUME NEW q \in Calls, q # r PROVE CallIsSound(q)'
    <3>1. /\ serving'[q] = serving[q] /\ reply'[q] = reply[q] /\ accepted <= accepted'
          /\ count'[q] = count[q] /\ received'[q] = received[q]
      BY <1>1, <1>2, <2>2, <2>4, <2>11
    <3> QED
      BY <1>1, <1>2, <3>1, OthersStay
  <2> QED
    BY <1>2, <2>8, <2>9, <2>10, <2>11 DEF ServingInv, Calls
<1> QED
  BY <1>5, <1>6

LEMMA LeaveServing ==
  ASSUME ServingInv, NEW r \in Calls, Leave(r)
  PROVE  ServingInv'
<1>1. /\ ServingTyped /\ CallIsSound(r) /\ accepted \in Nat
      /\ serving \in [Calls -> Standings] /\ reply \in [Calls -> Replies]
      /\ script \in [Calls -> Seq(EventKinds)]
  BY DEF ServingInv, ServingTyped
<1>2. /\ serving[r] # "unsent" /\ serving[r] # "answered"
      /\ serving' = [serving EXCEPT ![r] = "left"] /\ reply' = [reply EXCEPT ![r] = "cancelled"]
      /\ holders' = holders \ {r} /\ script' = [script EXCEPT ![r] = <<>>]
      /\ load' = load /\ server' = server /\ accepted' = accepted
      /\ count' = count /\ received' = received
  BY DEF Leave, SlotsAfter
<1>3. /\ serving'[r] = "left" /\ reply'[r] = "cancelled" /\ "left" \in Standings
      /\ "cancelled" \in Replies /\ <<>> \in Seq(EventKinds)
  BY <1>1, <1>2, EmptySeq DEF Standings, Replies
<1>4. ServingTyped'
  BY <1>1, <1>2, <1>3 DEF ServingTyped, Calls
<1>5. AdmittedAreCounted'
  BY <1>2, <1>3, ServeKeepsCount
<1>6. CallIsSound(r)'
  <2>1. Untouched(r)' /\ Written(r)' /\ FailsAsConfigured(r)' /\ Reported(r)'
    BY <1>2, <1>3 DEF Untouched, Written, FailsAsConfigured, Reported
  <2>2. Within(r)'
    BY <1>1, <1>2 DEF CallIsSound, Within
  <2> QED
    BY <2>1, <2>2 DEF CallIsSound
<1>7. ASSUME NEW q \in Calls, q # r PROVE CallIsSound(q)'
  <2>1. /\ serving'[q] = serving[q] /\ reply'[q] = reply[q] /\ accepted <= accepted'
        /\ script'[q] = script[q]
    BY <1>1, <1>2, <1>7
  <2> QED
    BY <1>1, <1>2, <2>1, OthersStay
<1> QED
  BY <1>2, <1>4, <1>5, <1>6, <1>7 DEF ServingInv, Calls
\* One more event.
LEMMA PartGrows ==
  ASSUME NEW j \in Nat, NEW lead \in Nat, NEW n \in Nat
  PROVE  /\ Part(j, lead, n) \in 0 .. n
         /\ Part(j + 1, lead, n) = Part(j, lead, n) + (IF lead < j + 1 /\ j + 1 <= lead + n THEN 1 ELSE 0)
         /\ lead + n <= j => Part(j, lead, n) = n
BY DEF Part

LEMMA SeenFields ==
  ASSUME NEW x \in SeenRecord, NEW event
  PROVE  /\ Seen(x, event) \in SeenRecord
         /\ Seen(x, event).text = x.text + (IF event = "text" THEN 1 ELSE 0)
         /\ Seen(x, event).pieces = x.pieces + (IF event = "piece" THEN 1 ELSE 0)
<1>1. PICK t \in Nat, p \in Nat, u \in BOOLEAN : x = [text |-> t, pieces |-> p, usage |-> u]
  BY DEF SeenRecord
<1>2. CASE event = "text"
  <2>1. Seen(x, event) = [text |-> t + 1, pieces |-> p, usage |-> u]
    BY <1>1, <1>2 DEF Seen
  <2> QED
    BY <1>1, <1>2, <2>1 DEF SeenRecord
<1>3. CASE event = "piece"
  <2>1. Seen(x, event) = [text |-> t, pieces |-> p + 1, usage |-> u]
    BY <1>1, <1>3 DEF Seen
  <2> QED
    BY <1>1, <1>3, <2>1 DEF SeenRecord
<1>4. CASE event = "usage"
  <2>1. Seen(x, event) = [text |-> t, pieces |-> p, usage |-> TRUE]
    BY <1>1, <1>4 DEF Seen
  <2>2. Seen(x, event) \in SeenRecord
    BY <2>1 DEF SeenRecord
  <2>3. Seen(x, event).text = t /\ Seen(x, event).pieces = p /\ x.text = t /\ x.pieces = p
    BY <1>1, <2>1
  <2> QED
    BY <1>4, <2>2, <2>3
<1>5. CASE event \notin {"text", "piece", "usage"}
  <2>1. Seen(x, event) = x
    BY <1>5 DEF Seen
  <2> QED
    BY <1>1, <1>5, <2>1 DEF SeenRecord
<1> QED
  BY <1>2, <1>3, <1>4, <1>5

\* The end of a whole answer.
LEMMA WholeAnswer ==
  ASSUME NEW r, load[r] \in Answerable, count[r] \in Nat, received[r] \in SeenRecord,
         received[r].text = IF load[r].tool THEN 0 ELSE count[r],
         received[r].pieces = IF load[r].tool THEN Pieces(load[r]) ELSE 0
  PROVE  /\ Concluded(r, received[r]) \in {"completed", "errored"}
         /\ Concluded(r, received[r]) = "errored" => count[r] = 0
         /\ Concluded(r, received[r]) = "completed" =>
              /\ OutputTokens(r, received[r]) =
                   IF load[r].tool /\ ~received[r].usage THEN received[r].pieces ELSE count[r]
              /\ count[r] > 0 \/ load[r].tool
<1> DEFINE c == count[r]
           x == received[r]
           k == load[r]
<1>1. (k.tool = TRUE \/ k.tool = FALSE) /\ (x.usage = TRUE \/ x.usage = FALSE)
  BY AnswerableIs DEF Kinds, SeenRecord
<1>2. Pieces(k) \in Nat /\ Pieces(k) > 0
  BY DEF Pieces
<1>3. UsageTokens(r, x) = IF x.usage THEN c ELSE None
  BY DEF UsageTokens
<1>4. Concluded(r, x) = IF x.text > 0 \/ x.pieces > 0 \/ UsageTokens(r, x) > 0
                        THEN "completed" ELSE "errored"
  BY DEF Concluded, HasOutput
<1>5. OutputTokens(r, x) = IF x.usage THEN UsageTokens(r, x)
                           ELSE IF x.text + x.pieces > 0 THEN x.text + x.pieces ELSE None
  BY DEF OutputTokens
<1>6. CASE k.tool
  <2>1. x.text = 0 /\ x.pieces > 0 /\ x.pieces \in Nat
    BY <1>2, <1>6
  <2>2. Concluded(r, x) = "completed"
    BY <1>4, <2>1
  <2>3. OutputTokens(r, x) = IF ~x.usage THEN x.pieces ELSE c
    BY <1>3, <1>5, <2>1
  <2> QED
    BY <1>6, <2>2, <2>3
<1>7. CASE ~k.tool
  <2>1. x.text = c /\ x.pieces = 0 /\ c \in Nat
    BY <1>7
  <2>2. Concluded(r, x) = IF c > 0 THEN "completed" ELSE "errored"
    BY <1>3, <1>4, <2>1 DEF None
  <2>3. c > 0 => OutputTokens(r, x) = c
    BY <1>3, <1>5, <2>1
  <2> QED
    BY <1>7, <2>1, <2>2, <2>3
<1> QED
  BY <1>6, <1>7

LEMMA WriteServing ==
  ASSUME ServingInv, NEW r \in Calls, Write(r)
  PROVE  ServingInv'
<1> DEFINE k == load[r]
           c == count[r]
           x == received[r]
           e == Head(script[r])
<1>1. /\ ServingTyped /\ CallIsSound(r) /\ accepted \in Nat
      /\ serving \in [Calls -> Standings] /\ reply \in [Calls -> Replies]
      /\ count \in [Calls -> Nat] /\ received \in [Calls -> SeenRecord] /\ k \in Answerable
      /\ script \in [Calls -> Seq(EventKinds)] /\ c \in Nat /\ x \in SeenRecord
  BY DEF ServingInv, ServingTyped, Calls
<1>2. /\ serving[r] = "writing" /\ reply[r] = "pending" /\ script[r] # <<>>
      /\ script' = [script EXCEPT ![r] = Tail(script[r])]
      /\ received' = [received EXCEPT ![r] = Seen(x, e)]
      /\ load' = load /\ server' = server /\ accepted' = accepted /\ holders' = holders
      /\ count' = count
  BY DEF Write
<1>3. IF e \in {"end", "broken"}
      THEN /\ serving' = [serving EXCEPT ![r] = "answered"]
           /\ reply' = [reply EXCEPT ![r] = IF e = "broken" THEN "errored" ELSE Concluded(r, x)]
      ELSE serving' = serving /\ reply' = reply
  BY DEF Write
<1>4. /\ Tail(script[r]) \in Seq(EventKinds) /\ Seen(x, e) \in SeenRecord
      /\ Concluded(r, x) \in Replies
  BY <1>1, <1>2, SeenFields, HeadTailProperties DEF Concluded, Replies
<1>5. \E w \in {"answered", "writing"}, a \in Replies :
        serving' = [serving EXCEPT ![r] = w] /\ reply' = [reply EXCEPT ![r] = a]
  <2>1. serving = [serving EXCEPT ![r] = "writing"] /\ reply = [reply EXCEPT ![r] = "pending"]
    BY <1>1, <1>2
  <2>2. "pending" \in Replies /\ "errored" \in Replies
    BY DEF Replies
  <2> QED
    BY <1>3, <1>4, <2>1, <2>2
<1>6. PICK w \in {"answered", "writing"}, a \in Replies :
        serving' = [serving EXCEPT ![r] = w] /\ reply' = [reply EXCEPT ![r] = a]
  BY <1>5
<1>7. w \in Standings /\ w # "unsent"
  BY DEF Standings
<1>8. ServingTyped'
  <2>1. script' \in [Calls -> Seq(EventKinds)] /\ received' \in [Calls -> SeenRecord]
    BY <1>1, <1>2, <1>4
  <2>2. serving' \in [Calls -> Standings] /\ reply' \in [Calls -> Replies]
    BY <1>1, <1>6, <1>7
  <2> QED
    BY <1>1, <1>2, <2>1, <2>2 DEF ServingTyped, Calls
<1>9. AdmittedAreCounted'
  <2>1. serving[r] # "unsent" /\ serving[r] # "answered"
    BY <1>2
  <2> QED
    BY <1>2, <1>6, <1>7, <2>1, ServeKeepsCount
<1>10. ASSUME NEW q \in Calls, q # r PROVE CallIsSound(q)'
  <2>1. /\ serving'[q] = serving[q] /\ reply'[q] = reply[q] /\ accepted <= accepted'
        /\ script'[q] = script[q] /\ received'[q] = received[q]
    BY <1>1, <1>2, <1>6, <1>10
  <2> QED
    BY <1>1, <1>2, <2>1, OthersStay
<1>11. /\ script'[r] = Tail(script[r]) /\ received'[r] = Seen(x, e) /\ count'[r] = c
       /\ load'[r] = k
  BY <1>1, <1>2
<1>12. CallIsSound(r)'
  <2>1. CASE script[r] = <<"broken">> /\ x = Nothing /\ c = 0
    <3>1. e = "broken"
      BY <2>1
    <3>2. serving'[r] = "answered" /\ reply'[r] = "errored"
      BY <1>1, <1>3, <3>1
    <3>3. Seen(x, e) = x
      BY <3>1 DEF Seen
    <3>4. Untouched(r)' /\ Written(r)' /\ FailsAsConfigured(r)' /\ Reported(r)'
      BY <1>11, <2>1, <3>2 DEF Untouched, Written, FailsAsConfigured, Reported
    <3>5. Within(r)'
      BY <1>11, <2>1, <3>3 DEF Within, Nothing
    <3> QED
      BY <3>4, <3>5 DEF CallIsSound
  <2>2. ASSUME k.api = "completions" => c # 0,
               NEW E, E = Events(k, c),
               NEW j \in 0 .. Len(E) - 1, script[r] = SubSeq(E, j + 1, Len(E)),
               x.text = TextsIn(k, c, j), x.pieces = PiecesIn(k, j)
        PROVE  CallIsSound(r)'
    <3> DEFINE m == IF k.tool THEN Pieces(k) ELSE c
               L == Len(E)
    <3>1. Lead(k) \in Nat /\ Pieces(k) \in {3, 4} /\ m \in Nat
      BY <1>1 DEF Lead, Pieces
    <3>2. /\ E \in Seq(EventKinds) /\ L >= Lead(k) + m + 1
          /\ \A i \in 1 .. L :
               /\ E[i] # "broken" /\ (E[i] = "end" <=> i = L)
               /\ E[i] = "text" <=> ~k.tool /\ Lead(k) < i /\ i <= Lead(k) + c
               /\ E[i] = "piece" <=> k.tool /\ Lead(k) < i /\ i <= Lead(k) + Pieces(k)
      <4> HIDE DEF k, c
      <4> QED
        BY <1>1, <2>2, EventsByPlace
    <3>3. j \in Nat /\ L \in Nat /\ j + 1 \in 1 .. L /\ L \in j + 1 .. L
      BY <2>2, <3>2
    <3>4. e = E[j + 1] /\ Tail(script[r]) = SubSeq(E, (j + 1) + 1, L)
      BY <2>2, <3>2, <3>3, HeadTailOfSubSeq
    <3>5. /\ e # "broken" /\ (e = "end" <=> j + 1 = L)
          /\ e = "text" <=> ~k.tool /\ Lead(k) < j + 1 /\ j + 1 <= Lead(k) + c
          /\ e = "piece" <=> k.tool /\ Lead(k) < j + 1 /\ j + 1 <= Lead(k) + Pieces(k)
      BY <3>2, <3>3, <3>4
    <3>6. /\ Seen(x, e).text = x.text + (IF e = "text" THEN 1 ELSE 0)
          /\ Seen(x, e).pieces = x.pieces + (IF e = "piece" THEN 1 ELSE 0)
      BY <1>1, SeenFields
    <3> HIDE DEF e, c, k, x
    <3>7. /\ TextsIn(k, c, j + 1) = TextsIn(k, c, j) + (IF e = "text" THEN 1 ELSE 0)
          /\ PiecesIn(k, j + 1) = PiecesIn(k, j) + (IF e = "piece" THEN 1 ELSE 0)
      <4>1. CASE k.tool
        <5>1. e # "text" /\ TextsIn(k, c, j + 1) = 0 /\ TextsIn(k, c, j) = 0
          BY <3>5, <4>1 DEF TextsIn
        <5>2. /\ PiecesIn(k, j + 1) = Part(j + 1, Lead(k), Pieces(k))
              /\ PiecesIn(k, j) = Part(j, Lead(k), Pieces(k))
          BY <4>1 DEF PiecesIn
        <5>3. Pieces(k) \in Nat
          BY <3>1
        <5> QED
          <6>1. Part(j + 1, Lead(k), Pieces(k)) = Part(j, Lead(k), Pieces(k))
                  + (IF Lead(k) < j + 1 /\ j + 1 <= Lead(k) + Pieces(k) THEN 1 ELSE 0)
            BY <3>1, <3>3, <5>3, PartGrows
          <6> QED
            BY <3>5, <4>1, <5>1, <5>2, <6>1
      <4>2. CASE ~k.tool
        <5>1. e # "piece" /\ PiecesIn(k, j + 1) = 0 /\ PiecesIn(k, j) = 0
          BY <3>5, <4>2 DEF PiecesIn
        <5>2. /\ TextsIn(k, c, j + 1) = Part(j + 1, Lead(k), c)
              /\ TextsIn(k, c, j) = Part(j, Lead(k), c)
          BY <4>2 DEF TextsIn
        <5> QED
          <6>1. Part(j + 1, Lead(k), c) = Part(j, Lead(k), c)
                  + (IF Lead(k) < j + 1 /\ j + 1 <= Lead(k) + c THEN 1 ELSE 0)
            BY <1>1, <3>1, <3>3, PartGrows
          <6> QED
            BY <3>5, <4>2, <5>1, <5>2, <6>1
      <4> QED
        BY <4>1, <4>2
    <3>8. TextsIn(k, c, j + 1) \in 0 .. c /\ PiecesIn(k, j + 1) \in 0 .. 4
      <4>1. Part(j + 1, Lead(k), c) \in 0 .. c /\ Part(j + 1, Lead(k), Pieces(k)) \in 0 .. Pieces(k)
        <5>1. j + 1 \in Nat /\ Pieces(k) \in Nat
          BY <3>1, <3>3
        <5> QED
          BY <1>1, <3>1, <5>1, PartGrows
      <4> QED
        BY <1>1, <3>1, <4>1 DEF TextsIn, PiecesIn
    <3>9. /\ received'[r].text = TextsIn(k, c, j + 1)
          /\ received'[r].pieces = PiecesIn(k, j + 1)
      BY <1>11, <2>2, <3>6, <3>7
    <3>10. Within(r)'
      BY <1>11, <3>8, <3>9 DEF Within
    <3>11. CASE e = "end"
      <4>1. /\ x.text = IF k.tool THEN 0 ELSE c
            /\ x.pieces = IF k.tool THEN Pieces(k) ELSE 0
        <5>1. Lead(k) + m <= j
          BY <3>1, <3>2, <3>3, <3>5, <3>11
        <5>2. Pieces(k) \in Nat
          BY <3>1
        <5>3. CASE k.tool
          BY <2>2, <3>1, <3>3, <5>1, <5>2, <5>3, PartGrows DEF TextsIn, PiecesIn
        <5>4. CASE ~k.tool
          BY <1>1, <2>2, <3>1, <3>3, <5>1, <5>4, PartGrows DEF TextsIn, PiecesIn
        <5> QED
          BY <5>3, <5>4
      <4>2. received'[r] = x
        BY <1>11, <3>11 DEF Seen
      <4>3. serving'[r] = "answered" /\ reply'[r] = Concluded(r, x)
        <5>1. serving' = [serving EXCEPT ![r] = "answered"] /\ reply' = [reply EXCEPT ![r] = Concluded(r, x)]
          BY <1>3, <3>11
        <5> QED
          BY <1>1, <5>1
      <4>4. /\ Concluded(r, x) \in {"completed", "errored"}
            /\ Concluded(r, x) = "errored" => c = 0
            /\ Concluded(r, x) = "completed" =>
                 /\ OutputTokens(r, x) = IF k.tool /\ ~x.usage THEN x.pieces ELSE c
                 /\ c > 0 \/ k.tool
        BY <1>1, <4>1, WholeAnswer DEF x, c, k
      <4>5. OutputTokens(r, received[r])' = OutputTokens(r, x)
        BY <1>11, <4>2 DEF OutputTokens, UsageTokens, c
      <4>6. Untouched(r)' /\ Written(r)'
        BY <4>3, <4>4 DEF Untouched, Written
      <4>7. FailsAsConfigured(r)'
        BY <1>11, <4>3, <4>4 DEF FailsAsConfigured
      <4>8. Reported(r)'
        BY <1>11, <4>2, <4>3, <4>4, <4>5 DEF Reported
      <4> QED
        BY <3>10, <4>6, <4>7, <4>8 DEF CallIsSound
    <3>12. CASE e # "end"
      <4>1. serving'[r] = "writing" /\ reply'[r] = "pending"
        BY <1>2, <1>3, <3>5, <3>12
      <4>2. j + 1 \in 0 .. L - 1
        BY <3>3, <3>5, <3>12
      <4>3. Untouched(r)' /\ FailsAsConfigured(r)' /\ Reported(r)'
        BY <4>1 DEF Untouched, FailsAsConfigured, Reported
      <4>4. Written(r)'
        <5>1. script'[r] = SubSeq(E, (j + 1) + 1, L)
          BY <1>11, <3>4
        <5>2. Events(load'[r], count'[r]) = E
          BY <1>11, <2>2
        <5>3. \E i \in 0 .. Len(E) - 1 :
                /\ script'[r] = SubSeq(E, i + 1, Len(E))
                /\ received'[r].text = TextsIn(k, c, i)
                /\ received'[r].pieces = PiecesIn(k, i)
          BY <3>9, <4>2, <5>1
        <5> QED
          BY <1>11, <2>2, <5>2, <5>3 DEF Written
      <4> QED
        BY <3>10, <4>3, <4>4 DEF CallIsSound
    <3> QED
      BY <3>11, <3>12
  <2>3. Written(r)
    BY <1>1 DEF CallIsSound
  <2> QED
    BY <1>2, <2>1, <2>2, <2>3 DEF Written
<1> QED
  BY <1>2, <1>8, <1>9, <1>10, <1>12 DEF ServingInv, Calls

LEMMA ServingStep ==
  ASSUME ServingInv, [ServingNext]_servingVars
  PROVE  ServingInv'
<1>1. CASE UNCHANGED servingVars
  <2>1. /\ load' = load /\ server' = server /\ accepted' = accepted /\ holders' = holders
        /\ serving' = serving /\ count' = count /\ script' = script /\ received' = received
        /\ reply' = reply
    BY <1>1 DEF servingVars
  <2>2. ServingTyped' /\ AdmittedAreCounted'
    BY <2>1 DEF ServingInv, ServingTyped, AdmittedAreCounted, Admitted, SentCalls, Calls
  <2>3. ASSUME NEW q \in Calls PROVE CallIsSound(q)'
    <3>1. accepted' \in Nat /\ accepted <= accepted'
      BY <2>1 DEF ServingInv, ServingTyped
    <3> QED
      BY <2>1, <3>1, OthersStay
  <2> QED
    BY <2>1, <2>2, <2>3 DEF ServingInv, Calls
<1>2. CASE ServingNext
  BY <1>2, ArriveServing, EnterServing, WriteServing, AnswerWholeServing, BeginServing, LeaveServing
     DEF ServingNext, Serve
<1> QED
  BY <1>1, <1>2

LEMMA ServingIsSound ==
  ASSUME ServingInv
  PROVE  AnswersAsConfigured
<1>1. /\ ServingTyped /\ AdmittedAreCounted /\ accepted \in Nat
      /\ \A r \in Calls : CallIsSound(r)
  BY DEF ServingInv, ServingTyped
<1>2. ServingTypeOK
  <2>1. Cardinality(SentCalls) <= Len(load) /\ Cardinality(SentCalls) \in Nat /\ Len(load) \in Nat
    <3>1. SentCalls \subseteq Calls
      BY DEF SentCalls
    <3> QED
      BY <1>1, <3>1, CallsAreFinite DEF ServingTyped
  <2>2. accepted \in 0 .. Len(load)
    BY <1>1, <2>1 DEF AdmittedAreCounted
  <2>3. \A r \in Calls : received[r].text \in 0 .. count[r] /\ received[r].pieces \in 0 .. 4
    BY <1>1 DEF CallIsSound, Within
  <2> QED
    BY <1>1, <2>2, <2>3 DEF ServingTypeOK, ServingTyped, Standings, Replies
<1>3. FailsAfterTheFirst
  <2>1. Admitted \subseteq Calls
    BY DEF Admitted
  <2>2. Cardinality(Admitted) \in Nat
    BY <1>1, <2>1, CallsAreFinite
  <2>3. server.failAfter # None => server.failAfter \in Nat
    BY <1>1, ServingAssumption DEF ServingTyped
  <2>4. server.failAfter # None => Cardinality(Admitted) <= server.failAfter
    BY <1>1, <2>2, <2>3 DEF AdmittedAreCounted
  <2>5. ASSUME server.failAfter # None, accepted < server.failAfter, NEW r \in Calls,
               reply[r] = "errored"
        PROVE  ~load[r].valid \/ Overflows(load[r]) \/ count[r] = 0
    <3>1. ~(accepted >= server.failAfter)
      BY <1>1, <2>3, <2>5
    <3> QED
      BY <1>1, <2>5, <3>1 DEF CallIsSound, FailsAsConfigured
  <2> QED
    BY <2>4, <2>5 DEF FailsAfterTheFirst
<1>4. ReportedIsGenerated
  BY <1>1 DEF CallIsSound, Reported, ReportedIsGenerated
<1>5. PromptIsCharged
  <2>1. MediaTokens \in Nat
    BY ServingAssumption
  <2> QED
    BY <2>1 DEF PromptIsCharged, InputTokens, TextTokens, PromptTokens, PromptText, Media
<1> QED
  BY <1>2, <1>3, <1>4, <1>5 DEF AnswersAsConfigured

\* The mock server admits as many requests as it was configured to, and the tokens the client
\* extracts are those it generated: MockServer._run_generation with its handlers, and the
\* metrics of the request handlers.
THEOREM ServerAnswersAsConfigured == ServingSpec => []AnswersAsConfigured
<1>1. ServingSpec => []ServingInv
  <2>1. ServingInit => ServingInv
    BY InitServing
  <2>2. ServingInv /\ [ServingNext]_servingVars => ServingInv'
    BY ServingStep
  <2> QED
    BY <2>1, <2>2, PTL DEF ServingSpec
<1>2. ServingInv => AnswersAsConfigured
  BY ServingIsSound
<1> QED
  BY <1>1, <1>2, PTL

==============================================================================
