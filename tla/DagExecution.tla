----------------------------- MODULE DagExecution -----------------------------
(***************************************************************************)
(* One conversation graph on one worker: DAGExecutionState of              *)
(* scheduler/dag.py, driven by the node tasks of scheduler/worker.py.      *)
(* Several tasks of the worker may hold nodes of the graph; between the    *)
(* claim of a node and its end a task awaits twice (the target start, the  *)
(* backend), and any other task may run there.                             *)
(***************************************************************************)
EXTENDS ConversationGraph

CONSTANTS
  Graphs,     \* the graphs the dataset may produce
  MaxTime     \* bound: time passes beyond it only to end a think time

ASSUME DagAssumption == MaxTime \in Nat /\ \A g \in Graphs : IsGraph(g)

VARIABLES
  source,           \* the graph of the dataset
  graph,            \* the graph the worker received
  now,              \* time.time()
  phase,            \* where each node is; see Completed and InProgress
  remaining,        \* _remaining_parents
  availableAfter,   \* _available_after
  aborted,          \* _aborted
  queued,           \* whether turns_queue holds the state
  completedAt       \* when each completed node completed (for the properties)

vars == <<source, graph, now, phase, remaining, availableAfter, aborted, queued, completedAt>>

Ids == Nodes(graph)
Phase == {"waiting", "claimed", "asked", "completed", "failed"}

Completed == {n \in Ids : phase[n] = "completed"}            \* _completed
InProgress == {n \in Ids : phase[n] \in {"claimed", "asked", "failed"}}   \* _in_progress
Running == {n \in Ids : phase[n] \in {"claimed", "asked"}}   \* the nodes tasks hold
IsComplete == Completed = Ids                                \* is_complete

TypeOK ==
  /\ IsGraph(graph) /\ Ids \subseteq Nodes(source)
  /\ now \in Nat
  /\ phase \in [Ids -> Phase]
  /\ remaining \in [Ids -> Nat]
  /\ availableAfter \in [Ids -> Nat]
  /\ aborted \in BOOLEAN /\ queued \in BOOLEAN
  /\ completedAt \in [Ids -> Nat]

\* Mutant: parents are counted, not edges.
ParentCountOnce(n) == Cardinality(ParentsOf(graph, n))
\* Mutant: only the edges that carry history are waited for.
ParentCountOfHistory(n) == Cardinality(FullIn(graph, n) \cup LastIn(graph, n))
ParentCount(n) == Cardinality(Incoming(graph, n))

\* DAGExecutionState(graph), appended to turns_queue
Init ==
  /\ source \in {g \in Graphs : Valid(g)}
  /\ graph \in Dispatched(source)
  /\ now = 0
  /\ phase = [n \in Ids |-> "waiting"]
  /\ remaining = [n \in Ids |-> ParentCount(n)]
  /\ availableAfter = [n \in Ids |-> 0]
  /\ aborted = FALSE /\ queued = TRUE
  /\ completedAt = [n \in Ids |-> 0]

-----------------------------------------------------------------------------
Claimable(n) ==
  /\ ~aborted
  /\ phase[n] = "waiting"
  /\ remaining[n] = 0
  /\ now >= availableAfter[n]

\* next_node_ready_at: the first claimable node in insertion order.
NextReady(n) ==
  \E i \in DOMAIN graph.nodes :
    /\ graph.nodes[i] = n /\ Claimable(n)
    /\ \A j \in DOMAIN graph.nodes : j < i => ~Claimable(graph.nodes[j])

\* _get_next_ready_node, up to the claim
Claim(n) ==
  /\ queued /\ NextReady(n)
  /\ phase' = [phase EXCEPT ![n] = "claimed"]
  /\ UNCHANGED <<source, graph, now, remaining, availableAfter, aborted, queued, completedAt>>

\* assemble_history raises ValueError otherwise.
HistoryAvailable(n) == ToSet(History(graph, n)) \subseteq Completed

\* _execute_node, after _schedule_request: the history goes to the backend.
Ask(n) ==
  /\ phase[n] = "claimed" /\ HistoryAvailable(n)
  /\ phase' = [phase EXCEPT ![n] = "asked"]
  /\ UNCHANGED <<source, graph, now, remaining, availableAfter, aborted, queued, completedAt>>

\* Mutant: a child is counted down once, however many edges lead to it.
CountedDownOnce(n, c) == remaining[c] - (IF n \in ParentsOf(graph, c) THEN 1 ELSE 0)
CountedDown(n, c) == remaining[c] - Multiplicity(graph, n, c)

\* Mutant: the think time is the child's own.
UnlockAtOwn(n, c) == now + graph.delay[c]
UnlockAt(n, c) == now + graph.delay[n]

\* _finalize_node: mark_completed, then turns_queue.remove if that was the last node.
Complete(n) ==
  /\ phase[n] = "asked"
  /\ phase' = [phase EXCEPT ![n] = "completed"]
  /\ completedAt' = [completedAt EXCEPT ![n] = now]
  /\ remaining' = [c \in Ids |-> CountedDown(n, c)]
  /\ availableAfter' =
       [c \in Ids |-> IF n \in ParentsOf(graph, c) /\ CountedDown(n, c) = 0 /\ c \notin Completed
                      THEN UnlockAt(n, c) ELSE availableAfter[c]]
  /\ queued' = (queued /\ Completed \cup {n} # Ids)
  /\ UNCHANGED <<source, graph, now, aborted>>

\* Mutant: the failed node is marked completed as well.
FailAsCompleted(n) ==
  /\ n \in Running
  /\ phase' = [phase EXCEPT ![n] = "completed"]
  /\ aborted' = TRUE /\ queued' = FALSE
  /\ UNCHANGED <<source, graph, now, remaining, availableAfter, completedAt>>
\* The backend raises, the task is cancelled, or _execute_node fails before it asks:
\* _abort_remaining_nodes drops the graph; the node stays in progress.
Fail(n) ==
  /\ n \in Running
  /\ phase' = [phase EXCEPT ![n] = "failed"]
  /\ aborted' = TRUE /\ queued' = FALSE
  /\ UNCHANGED <<source, graph, now, remaining, availableAfter, completedAt>>

\* _cancel_requests_loop, once every task has been cancelled and gathered.
CancelRemaining ==
  /\ queued /\ Running = {}
  /\ aborted' = TRUE /\ queued' = FALSE
  /\ UNCHANGED <<source, graph, now, phase, remaining, availableAfter, completedAt>>

Tick ==
  /\ now < MaxTime \/ \E n \in Ids : availableAfter[n] > now
  /\ now' = now + 1
  /\ UNCHANGED <<source, graph, phase, remaining, availableAfter, aborted, queued, completedAt>>

\* Nothing is left to do with the graph.
Over == ~queued /\ Running = {} /\ UNCHANGED vars

Next ==
  \/ \E n \in Ids : Claim(n) \/ Ask(n) \/ Complete(n) \/ Fail(n)
  \/ CancelRemaining \/ Tick \/ Over

Spec == Init /\ [][Next]_vars

(***************************************************************************)
(* Time passes; a worker with free slots keeps claiming; each task that    *)
(* holds a node gets on with it, and the backend answers or raises.        *)
(***************************************************************************)
Advance == \E n \in Ids : Claim(n) \/ Ask(n) \/ Complete(n) \/ Fail(n)
Fairness == WF_vars(Tick) /\ WF_vars(Advance)

FairSpec == Spec /\ Fairness

-----------------------------------------------------------------------------
\* mark_completed and the claim keep the count of parents a node waits for in step
\* with the nodes completed: it is the number of edges that come from the others.
RemainingIsExact ==
  \A n \in Ids :
    remaining[n] = Cardinality({i \in Incoming(graph, n) : graph.edges[i].source \notin Completed})

\* Whatever the order in which tasks end, no node leaves the queue before all of its
\* parents have completed; later failures elsewhere change nothing about that.
ParentsFirst ==
  \A n \in Ids : phase[n] # "waiting" => ParentsOf(graph, n) \subseteq Completed

\* The graph does not change: what depends on it alone is looked at before the first claim.
Fresh == now = 0 /\ \A n \in Ids : phase[n] = "waiting"

\* A graph the send thread cut short is sent with every dependency the dataset gave
\* its nodes: the nodes queued so far are closed under parents
\* (subgraph_for_nodes: "a Kahn topological prefix is parent-closed").
SubgraphKeepsParents ==
  Fresh => /\ Valid(graph)
           /\ \A n \in Ids : ParentsOf(graph, n) = ParentsOf(source, n)

\* assemble_history never raises for a node a task holds, whichever tasks run between
\* the claim and the assembly: all it lists, ancestors of ancestors included, is there.
HistoryIsThere == \A n \in Running : HistoryAvailable(n)

\* The walk lists what the edges carry: the ancestors along full edges, the last
\* parents of those that are reached through one, and the node's own last parents.
FullAncestor(g, m, n) ==
  \E k \in 1 .. Len(g.nodes) : \E path \in [1 .. k -> Nodes(g)] :
    /\ path[1] = m
    /\ \A j \in 1 .. k : \E i \in FullIn(g, IF j = k THEN n ELSE path[j + 1]) :
         g.edges[i].source = path[j]
Carried(g, n) ==
  LET chain == {m \in Nodes(g) : FullAncestor(g, m, n)}
      merging == {m \in chain : FullIn(g, m) # {}} \cup {n}
  IN  chain \cup {g.edges[i].source : i \in UNION {LastIn(g, m) : m \in merging}}
HistoryIsCarried == Fresh => \A n \in Ids : ToSet(History(graph, n)) = Carried(graph, n)

\* The turn index the report groups by is zero for the nodes sent without history and
\* for no others.
TurnZeroHasNoHistory ==
  Fresh => \A n \in Ids : TurnIndex(graph, n) = 0 <=> History(graph, n) = <<>>

\* A graph that lost a node to an error or to cancellation never counts as complete,
\* although its other tasks go on to mark theirs: turns_queue.remove in
\* _finalize_node always finds the state it removes.
AbortedStaysIncomplete == aborted => ~IsComplete

\* Think time runs from the moment the last parent completes, and is the one set on
\* the parent that completed last.
LastOnes(n) == {p \in ParentsOf(graph, n) :
                  \A q \in ParentsOf(graph, n) : completedAt[q] <= completedAt[p]}
ThinkTimeRespected ==
  [][\A n \in Ids : phase[n] = "waiting" /\ phase'[n] = "claimed" /\ ParentsOf(graph, n) # {} =>
       \E p \in LastOnes(n) : now >= completedAt[p] + graph.delay[p]]_vars

\* A graph does not get stuck: in the end all of its nodes have completed, or it has
\* been aborted and no task holds any of them.
GraphEnds == <>(IsComplete \/ (aborted /\ Running = {}))

\* The execution of a graph keeps its books: every node waits for exactly the parents that
\* have not completed, is claimed after all of them, and a graph that was aborted never
\* counts as complete (claim_next_node, complete_node and abort_remaining of dag.py).
ClaimsInOrder == TypeOK /\ RemainingIsExact /\ ParentsFirst /\ AbortedStaysIncomplete

\* Whatever order the nodes complete in, a request is sent with the responses its edges
\* promise: they are there when it is built, and none is lost or added on the way
\* (build_history and split_into_segments).
HistoriesAreKept ==
  SubgraphKeepsParents /\ HistoryIsThere /\ HistoryIsCarried /\ TurnZeroHasNoHistory
=============================================================================
