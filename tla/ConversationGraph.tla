-------------------------- MODULE ConversationGraph --------------------------
(***************************************************************************)
(* Conversation graphs (scheduler/schemas/conversation.py) and what        *)
(* scheduler/dag.py computes from their structure alone: the topological   *)
(* order, the history a node is sent with, and its turn index.             *)
(*                                                                         *)
(* A graph is a record: nodes, its node ids in insertion order; edges, a   *)
(* function from positions in the edge list to edges; delay, the           *)
(* requeue_delay of each node.  A subgraph keeps the positions of the      *)
(* edges it retains, hence their order.                                    *)
(***************************************************************************)
EXTENDS Integers, FiniteSets, Sequences, SequencesExt

Context == {"new", "last", "full"}

Nodes(g) == ToSet(g.nodes)

Incoming(g, n) == {i \in DOMAIN g.edges : g.edges[i].target = n}
Outgoing(g, n) == {i \in DOMAIN g.edges : g.edges[i].source = n}
ParentsOf(g, n) == {g.edges[i].source : i \in Incoming(g, n)}

\* What a list holds at the positions in S, in the order of the list.
Place(S, k) == CHOOSE i \in S : Cardinality({j \in S : j <= i}) = k
InOrder(list, S) == [k \in 1 .. Cardinality(S) |-> list[Place(S, k)]]

IsGraph(g) ==
  /\ g.nodes \in Seq(Nodes(g)) /\ g.nodes # <<>> /\ IsInjective(g.nodes)
  /\ IsFiniteSet(DOMAIN g.edges) /\ DOMAIN g.edges \subseteq Nat
  /\ \A i \in DOMAIN g.edges :
       g.edges[i] \in [source : Nodes(g), target : Nodes(g), context : Context]
  /\ g.delay \in [Nodes(g) -> Nat]

-----------------------------------------------------------------------------
(***************************************************************************)
(* Kahn's algorithm, which topological_order and the cycle check share:    *)
(* one iteration takes the oldest queued node and queues each child whose  *)
(* last incoming edge that was.                                            *)
(***************************************************************************)
\* How many of the outgoing edges of n end in c.
Multiplicity(g, n, c) == Cardinality(Outgoing(g, n) \cap Incoming(g, c))

\* Mutant: a child is freed by its first visited parent.
FreedEarly(g, degree, n) ==
  {i \in Outgoing(g, n) : \A j \in Outgoing(g, n) : g.edges[j].target = g.edges[i].target => j <= i}
\* The edges of n whose visit brings the degree of their target to zero.
Freed(g, degree, n) ==
  {i \in Outgoing(g, n) :
     /\ degree[g.edges[i].target] = Multiplicity(g, n, g.edges[i].target)
     /\ \A j \in Outgoing(g, n) : g.edges[j].target = g.edges[i].target => j <= i}

Kahn(g, s) ==
  IF s.queue = <<>> THEN s
  ELSE LET n == Head(s.queue)
           freed == InOrder(g.edges, Freed(g, s.degree, n))
       IN  [order |-> Append(s.order, n),
            queue |-> Tail(s.queue) \o [k \in DOMAIN freed |-> freed[k].target],
            degree |-> [c \in Nodes(g) |-> s.degree[c] - Multiplicity(g, n, c)]]

TopologicalOrder(g) ==
  LET degree == [n \in Nodes(g) |-> Cardinality(Incoming(g, n))]
      roots == {i \in DOMAIN g.nodes : degree[g.nodes[i]] = 0}
      run[k \in 0 .. Len(g.nodes)] ==
        IF k = 0
        THEN [order |-> <<>>, queue |-> InOrder(g.nodes, roots), degree |-> degree]
        ELSE Kahn(g, run[k - 1])
  IN  run[Len(g.nodes)].order

\* _validate_graph
FullIn(g, n) == {i \in Incoming(g, n) : g.edges[i].context = "full"}
LastIn(g, n) == {i \in Incoming(g, n) : g.edges[i].context = "last"}

Valid(g) ==
  /\ \A n \in Nodes(g) : Cardinality(FullIn(g, n)) <= 1
  /\ Len(TopologicalOrder(g)) = Len(g.nodes)

(***************************************************************************)
(* subgraph_for_nodes.  It raises for no ids and for unknown ones; the     *)
(* nodes it keeps come out of a set, in no particular order.               *)
(***************************************************************************)
Enumerations(S) == Bijection(1 .. Cardinality(S), S)

Kept(g, ids) ==
  {i \in DOMAIN g.edges : g.edges[i].source \in ids /\ g.edges[i].target \in ids}

Subgraphs(g, ids) ==
  IF ids = {} \/ ~(ids \subseteq Nodes(g)) THEN {}
  ELSE {[nodes |-> s,
         edges |-> [i \in Kept(g, ids) |-> g.edges[i]],
         delay |-> [n \in ids |-> g.delay[n]]] : s \in Enumerations(ids)}

\* What a worker may receive for g: g itself or, when the send thread stopped after the
\* first k nodes in topological order, the subgraph of those k.
Dispatched(g) ==
  {g} \cup UNION {Subgraphs(g, ToSet(SubSeq(TopologicalOrder(g), 1, k))) :
                  k \in 1 .. Len(g.nodes) - 1}

-----------------------------------------------------------------------------
(***************************************************************************)
(* assemble_history, as the nodes whose (request, response) pairs it       *)
(* lists.  The walk follows full edges back to a node that has none.       *)
(***************************************************************************)
Sources(edges) == [k \in DOMAIN edges |-> edges[k].source]
LastParents(g, n) == Sources(InOrder(g.edges, LastIn(g, n)))
FullParent(g, n) == g.edges[CHOOSE i \in FullIn(g, n) : TRUE].source

\* Mutant: the last parents of the node the walk stops at are listed too.
SegmentWithStop(g, n) == Append(LastParents(g, n), n)
\* Last parents count where the walk goes on, just before the node itself.
Segment(g, n) == IF FullIn(g, n) = {} THEN <<n>> ELSE Append(LastParents(g, n), n)

History(g, n) ==
  LET walk[m \in Nodes(g)] ==
        IF FullIn(g, m) = {} THEN Segment(g, m)
        ELSE walk[FullParent(g, m)] \o Segment(g, m)
  IN  IF FullIn(g, n) = {} THEN LastParents(g, n)
      ELSE walk[FullParent(g, n)] \o LastParents(g, n)

\* compute_turn_index
\* Mutant: a last edge adds nothing.
ContributionOfFull(g, i, depth) == IF g.edges[i].context = "full" THEN depth + 1 ELSE 0
Contribution(g, i, depth) ==
  CASE g.edges[i].context = "new" -> 0
    [] g.edges[i].context = "last" -> 1
    [] OTHER -> depth + 1

TurnIndex(g, n) ==
  LET depth[m \in Nodes(g)] ==
        LET parts == {Contribution(g, i, IF g.edges[i].context = "full"
                                         THEN depth[g.edges[i].source] ELSE 0) :
                        i \in Incoming(g, m)}
        IN  IF parts = {} THEN 0 ELSE Max(parts)
  IN  depth[n]
=============================================================================
