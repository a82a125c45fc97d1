-------------------------- MODULE DagExecutionProofs --------------------------
(***************************************************************************)
(* What DagExecution guarantees for every graph, delay and schedule.       *)
(***************************************************************************)
EXTENDS DagExecution, FiniteSetTheorems, SequenceTheorems, WellFoundedInduction, TLAPS

-----------------------------------------------------------------------------
(***************************************************************************)
(* Graphs.                                                                 *)
(***************************************************************************)
\* The edges at a node are finitely many.
LEMMA EdgesFinite ==
  ASSUME NEW g, IsGraph(g), NEW n
  PROVE  IsFiniteSet(Incoming(g, n)) /\ IsFiniteSet(Outgoing(g, n))
<1>1. IsFiniteSet(DOMAIN g.edges)
  BY DEF IsGraph
<1>2. Incoming(g, n) \in SUBSET DOMAIN g.edges /\ Outgoing(g, n) \in SUBSET DOMAIN g.edges
  BY DEF Incoming, Outgoing
<1> QED
  BY <1>1, <1>2, FS_Subset

LEMMA NodesFinite ==
  ASSUME NEW g, IsGraph(g)
  PROVE  IsFiniteSet(Nodes(g)) /\ Nodes(g) # {}
<1>1. g.nodes \in Seq(Nodes(g)) /\ g.nodes # <<>>
  BY DEF IsGraph
<1>2. DOMAIN g.nodes = 1 .. Len(g.nodes) /\ Len(g.nodes) \in Nat /\ Len(g.nodes) > 0
  BY <1>1
<1>3. IsFiniteSet(1 .. Len(g.nodes))
  BY <1>2, FS_Interval
<1>4. g.nodes \in Surjection(1 .. Len(g.nodes), Nodes(g))
  BY <1>1, <1>2 DEF Surjection, Nodes, ToSet
<1>5. g.nodes[1] \in Nodes(g)
  BY <1>2 DEF Nodes, ToSet
<1> QED
  BY <1>3, <1>4, <1>5, FS_Surjection

\* What subgraph_for_nodes returns is a graph over the nodes it was asked for.
LEMMA SubgraphIsGraph ==
  ASSUME NEW g, IsGraph(g), NEW ids, NEW h \in Subgraphs(g, ids)
  PROVE  /\ IsGraph(h) /\ Nodes(h) = ids /\ ids \subseteq Nodes(g)
         /\ h.edges = [i \in Kept(g, ids) |-> g.edges[i]]
<1>1. ids # {} /\ ids \subseteq Nodes(g)
  BY DEF Subgraphs
<1>2. PICK s \in Enumerations(ids) :
        h = [nodes |-> s, edges |-> [i \in Kept(g, ids) |-> g.edges[i]],
             delay |-> [n \in ids |-> g.delay[n]]]
  BY <1>1 DEF Subgraphs
<1>3. IsFiniteSet(ids)
  BY <1>1, NodesFinite, FS_Subset
<1>4. Cardinality(ids) \in Nat
  BY <1>3, FS_CardinalityType
<1>5. /\ s \in [1 .. Cardinality(ids) -> ids]
      /\ IsInjective(s)
      /\ \A t \in ids : \E i \in 1 .. Cardinality(ids) : s[i] = t
  BY <1>2 DEF Enumerations, Bijection, Injection, Surjection
<1>6. Nodes(h) = ids
  BY <1>2, <1>5 DEF Nodes, ToSet
<1>7. h.nodes \in Seq(ids) /\ h.nodes # <<>> /\ IsInjective(h.nodes)
  <2>1. s \in Seq(ids)
    BY <1>4, <1>5
  <2>2. PICK i \in 1 .. Cardinality(ids) : s[i] \in ids
    BY <1>1, <1>5
  <2>3. s # <<>>
    BY <1>4, <1>5, <2>2
  <2> QED
    BY <1>2, <1>5, <2>1, <2>3
<1>8. DOMAIN h.edges = Kept(g, ids) /\ \A i \in Kept(g, ids) : h.edges[i] = g.edges[i]
  BY <1>2
<1>9. IsFiniteSet(DOMAIN h.edges) /\ DOMAIN h.edges \subseteq Nat
  <2>1. Kept(g, ids) \in SUBSET DOMAIN g.edges
    BY DEF Kept
  <2>2. IsFiniteSet(DOMAIN g.edges) /\ DOMAIN g.edges \subseteq Nat
    BY DEF IsGraph
  <2> QED
    BY <1>8, <2>1, <2>2, FS_Subset
<1>10. ASSUME NEW i \in DOMAIN h.edges
       PROVE  h.edges[i] \in [source : ids, target : ids, context : Context]
  <2>1. /\ i \in DOMAIN g.edges /\ h.edges[i] = g.edges[i]
        /\ g.edges[i].source \in ids /\ g.edges[i].target \in ids
    BY <1>8, <1>10 DEF Kept
  <2>2. g.edges[i] \in [source : Nodes(g), target : Nodes(g), context : Context]
    BY <2>1 DEF IsGraph
  <2> QED
    BY <2>1, <2>2
<1>11. h.delay \in [ids -> Nat]
  BY <1>1, <1>2 DEF IsGraph
<1> QED
  BY <1>1, <1>2, <1>6, <1>7, <1>9, <1>10, <1>11 DEF IsGraph

LEMMA DispatchedIsGraph ==
  ASSUME NEW g, IsGraph(g), NEW h \in Dispatched(g)
  PROVE  IsGraph(h) /\ Nodes(h) \subseteq Nodes(g)
<1>1. CASE h = g
  BY <1>1
<1>2. CASE h # g
  <2>1. PICK k \in 1 .. Len(g.nodes) - 1 :
          h \in Subgraphs(g, ToSet(SubSeq(TopologicalOrder(g), 1, k)))
    BY <1>2 DEF Dispatched
  <2> DEFINE ids == ToSet(SubSeq(TopologicalOrder(g), 1, k))
  <2> HIDE DEF ids
  <2>2. IsGraph(h) /\ Nodes(h) = ids /\ ids \subseteq Nodes(g)
    BY <2>1, SubgraphIsGraph DEF ids
  <2> QED
    BY <2>2
<1> QED
  BY <1>1, <1>2

-----------------------------------------------------------------------------
(***************************************************************************)
(* The inductive invariant.  Beside the properties it says, of a node      *)
(* whose parents are done, which of them set its think time, and that a    *)
(* graph in the queue, or aborted, has a node that will never complete     *)
(* unless it is claimed first.                                             *)
(***************************************************************************)
Pending(n) == {i \in Incoming(graph, n) : graph.edges[i].source \notin Completed}

Past == \A n \in Ids : completedAt[n] <= now

ThinkTimeSet ==
  \A n \in Ids : remaining[n] = 0 /\ ParentsOf(graph, n) # {} =>
    \E p \in LastOnes(n) : availableAfter[n] = completedAt[p] + graph.delay[p]

QueuedIncomplete == queued => ~IsComplete

AbortedForGood == aborted => \E n \in Ids : phase[n] \in {"waiting", "failed"}

IInv ==
  /\ TypeOK
  /\ RemainingIsExact
  /\ ParentsFirst
  /\ Past
  /\ ThinkTimeSet
  /\ QueuedIncomplete
  /\ AbortedForGood

LEMMA ParentsAreNodes ==
  ASSUME TypeOK, NEW n \in Ids
  PROVE  ParentsOf(graph, n) \subseteq Ids
BY DEF TypeOK, IsGraph, ParentsOf, Incoming, Ids

\* A node whose count is zero has no parent left to wait for.
LEMMA NoneRemaining ==
  ASSUME TypeOK, RemainingIsExact, NEW n \in Ids, remaining[n] = 0
  PROVE  ParentsOf(graph, n) \subseteq Completed
<1>1. IsFiniteSet(Pending(n))
  BY EdgesFinite, FS_Subset DEF TypeOK, Pending
<1>2. Cardinality(Pending(n)) = 0
  BY DEF RemainingIsExact, Pending
<1>3. Pending(n) = {}
  BY <1>1, <1>2, FS_EmptySet
<1> QED
  BY <1>3 DEF Pending, ParentsOf

LEMMA InitIInv == Init => IInv
<1> SUFFICES ASSUME Init PROVE IInv
  OBVIOUS
<1>1. IsGraph(graph) /\ Ids \subseteq Nodes(source)
  BY DispatchedIsGraph, DagAssumption DEF Init, Ids
<1>2. Completed = {}
  BY DEF Init, Completed
<1>3. ASSUME NEW n \in Ids
      PROVE  /\ IsFiniteSet(Incoming(graph, n))
             /\ remaining[n] = Cardinality(Incoming(graph, n))
             /\ remaining[n] \in Nat
             /\ Pending(n) = Incoming(graph, n)
  BY <1>1, <1>2, <1>3, EdgesFinite, FS_CardinalityType DEF Init, ParentCount, Pending
<1>4. TypeOK
  <2>1. remaining \in [Ids -> Nat]
    BY <1>3 DEF Init
  <2> QED
    BY <1>1, <2>1 DEF Init, TypeOK, Phase
<1>5. RemainingIsExact
  BY <1>3 DEF RemainingIsExact, Pending
<1>6. ParentsFirst /\ Past
  BY <1>4 DEF Init, ParentsFirst, Past, TypeOK
<1>7. ThinkTimeSet
  BY <1>2, <1>4, <1>5, NoneRemaining DEF ThinkTimeSet
<1>8. QueuedIncomplete /\ AbortedForGood
  BY <1>1, <1>2, NodesFinite DEF Init, QueuedIncomplete, AbortedForGood, IsComplete, Ids
<1> QED
  BY <1>4, <1>5, <1>6, <1>7, <1>8 DEF IInv

\* The steps that complete nothing and leave the counts and gates alone.
Still == UNCHANGED <<graph, source, remaining, availableAfter, completedAt>>

LEMMA StillIInv ==
  ASSUME IInv, Still, Completed' = Completed, now' \in Nat, now' >= now,
         phase' \in [Ids -> Phase], aborted' \in BOOLEAN, queued' \in BOOLEAN,
         queued' => queued
  PROVE  /\ TypeOK' /\ RemainingIsExact' /\ Past' /\ ThinkTimeSet' /\ QueuedIncomplete'
<1> USE DEF Still
<1>1. Ids' = Ids /\ \A n : ParentsOf(graph, n)' = ParentsOf(graph, n)
  BY DEF Ids
<1>2. TypeOK'
  BY <1>1 DEF IInv, TypeOK
<1>3. RemainingIsExact'
  BY <1>1 DEF IInv, RemainingIsExact
<1>4. Past'
  BY <1>1 DEF IInv, Past, TypeOK
<1>5. ThinkTimeSet'
  BY <1>1 DEF IInv, ThinkTimeSet, LastOnes
<1>6. QueuedIncomplete'
  BY <1>1 DEF IInv, QueuedIncomplete, IsComplete
<1> QED
  BY <1>2, <1>3, <1>4, <1>5, <1>6

LEMMA ClaimIInv ==
  ASSUME IInv, NEW n \in Ids, Claim(n)
  PROVE  IInv'
<1>1. /\ phase[n] = "waiting" /\ remaining[n] = 0 /\ ~aborted
      /\ phase' = [phase EXCEPT ![n] = "claimed"]
  BY DEF Claim, NextReady, Claimable
<1>2. Still /\ now' = now /\ aborted' = aborted /\ queued' = queued
  BY DEF Claim, Still
<1>3. phase \in [Ids -> Phase] /\ Ids' = Ids /\ now \in Nat
      /\ aborted \in BOOLEAN /\ queued \in BOOLEAN
  BY <1>2 DEF IInv, TypeOK, Still, Ids
<1>4. Completed' = Completed
  BY <1>1, <1>3 DEF Completed
<1>5. phase' \in [Ids -> Phase]
  BY <1>1, <1>3 DEF Phase
<1>6. TypeOK' /\ RemainingIsExact' /\ Past' /\ ThinkTimeSet' /\ QueuedIncomplete'
  BY <1>2, <1>3, <1>4, <1>5, StillIInv
<1>7. ParentsFirst'
  <2>1. ParentsOf(graph, n) \subseteq Completed
    BY <1>1, NoneRemaining DEF IInv
  <2>2. ASSUME NEW m \in Ids, phase'[m] # "waiting"
        PROVE  ParentsOf(graph, m) \subseteq Completed
    BY <1>1, <1>3, <2>1, <2>2 DEF IInv, ParentsFirst
  <2> QED
    BY <1>2, <1>3, <1>4, <2>2 DEF ParentsFirst, Still
<1>8. AbortedForGood'
  BY <1>1, <1>2 DEF AbortedForGood
<1> QED
  BY <1>6, <1>7, <1>8 DEF IInv

LEMMA AskIInv ==
  ASSUME IInv, NEW n \in Ids, Ask(n)
  PROVE  IInv'
<1>1. phase[n] = "claimed" /\ phase' = [phase EXCEPT ![n] = "asked"]
  BY DEF Ask
<1>2. Still /\ now' = now /\ aborted' = aborted /\ queued' = queued
  BY DEF Ask, Still
<1>3. phase \in [Ids -> Phase] /\ Ids' = Ids /\ now \in Nat
      /\ aborted \in BOOLEAN /\ queued \in BOOLEAN
  BY <1>2 DEF IInv, TypeOK, Still, Ids
<1>4. Completed' = Completed
  BY <1>1, <1>3 DEF Completed
<1>5. phase' \in [Ids -> Phase]
  BY <1>1, <1>3 DEF Phase
<1>6. TypeOK' /\ RemainingIsExact' /\ Past' /\ ThinkTimeSet' /\ QueuedIncomplete'
  BY <1>2, <1>3, <1>4, <1>5, StillIInv
<1>7. ParentsFirst'
  <2>1. ASSUME NEW m \in Ids, phase'[m] # "waiting"
        PROVE  ParentsOf(graph, m) \subseteq Completed
    BY <1>1, <1>3, <2>1 DEF IInv, ParentsFirst
  <2> QED
    BY <1>2, <1>3, <1>4, <2>1 DEF ParentsFirst, Still
<1>8. AbortedForGood'
  BY <1>1, <1>2, <1>3 DEF IInv, AbortedForGood
<1> QED
  BY <1>6, <1>7, <1>8 DEF IInv

LEMMA FailIInv ==
  ASSUME IInv, NEW n \in Ids, Fail(n)
  PROVE  IInv'
<1>1. phase[n] \in {"claimed", "asked"} /\ phase' = [phase EXCEPT ![n] = "failed"]
  BY DEF Fail, Running
<1>2. Still /\ now' = now /\ aborted' = TRUE /\ queued' = FALSE
  BY DEF Fail, Still
<1>3. phase \in [Ids -> Phase] /\ Ids' = Ids /\ now \in Nat
      /\ aborted' \in BOOLEAN /\ queued' \in BOOLEAN /\ (queued' => queued)
  BY <1>2 DEF IInv, TypeOK, Still, Ids
<1>4. Completed' = Completed
  BY <1>1, <1>3 DEF Completed
<1>5. phase' \in [Ids -> Phase]
  BY <1>1, <1>3 DEF Phase
<1>9. now' \in Nat /\ now' >= now
  BY <1>2, <1>3
<1>6. TypeOK' /\ RemainingIsExact' /\ Past' /\ ThinkTimeSet' /\ QueuedIncomplete'
  BY <1>2, <1>3, <1>4, <1>5, <1>9, StillIInv
<1>7. ParentsFirst'
  <2>1. ASSUME NEW m \in Ids, phase'[m] # "waiting"
        PROVE  ParentsOf(graph, m) \subseteq Completed
    BY <1>1, <1>3, <2>1 DEF IInv, ParentsFirst
  <2> QED
    BY <1>2, <1>3, <1>4, <2>1 DEF ParentsFirst, Still
<1>8. AbortedForGood'
  BY <1>1, <1>3 DEF AbortedForGood
<1> QED
  BY <1>6, <1>7, <1>8 DEF IInv

LEMMA CancelIInv ==
  ASSUME IInv, CancelRemaining
  PROVE  IInv'
<1>1. Still /\ now' = now /\ aborted' = TRUE /\ queued' = FALSE /\ phase' = phase
  BY DEF CancelRemaining, Still
<1>2. phase \in [Ids -> Phase] /\ Ids' = Ids /\ now \in Nat
      /\ aborted' \in BOOLEAN /\ queued' \in BOOLEAN /\ (queued' => queued)
  BY <1>1 DEF IInv, TypeOK, Still, Ids
<1>3. Completed' = Completed
  BY <1>1, <1>2 DEF Completed
<1>4. TypeOK' /\ RemainingIsExact' /\ Past' /\ ThinkTimeSet' /\ QueuedIncomplete'
  <2>1. now' \in Nat /\ now' >= now
    BY <1>1, <1>2
  <2> QED
    BY <1>1, <1>2, <1>3, <2>1, StillIInv
<1>5. ParentsFirst'
  BY <1>1, <1>2, <1>3 DEF IInv, ParentsFirst, Still
<1>6. AbortedForGood'
  <2>1. PICK n \in Ids : phase[n] # "completed"
    BY DEF CancelRemaining, IInv, QueuedIncomplete, IsComplete, Completed
  <2>2. phase[n] \in {"waiting", "failed"}
    BY <1>2, <2>1 DEF CancelRemaining, Running, Phase
  <2> QED
    BY <1>1, <1>2, <2>2 DEF AbortedForGood
<1> QED
  BY <1>4, <1>5, <1>6 DEF IInv

LEMMA TickIInv ==
  ASSUME IInv, Tick
  PROVE  IInv'
<1>1. Still /\ now' = now + 1 /\ UNCHANGED <<aborted, queued, phase>>
  BY DEF Tick, Still
<1>2. phase \in [Ids -> Phase] /\ Ids' = Ids /\ now \in Nat
      /\ aborted \in BOOLEAN /\ queued \in BOOLEAN
  BY <1>1 DEF IInv, TypeOK, Still, Ids
<1>3. Completed' = Completed
  BY <1>1, <1>2 DEF Completed
<1>4. TypeOK' /\ RemainingIsExact' /\ Past' /\ ThinkTimeSet' /\ QueuedIncomplete'
  BY <1>1, <1>2, <1>3, StillIInv
<1>5. ParentsFirst'
  BY <1>1, <1>2, <1>3 DEF IInv, ParentsFirst, Still
<1>6. AbortedForGood'
  BY <1>1, <1>2 DEF IInv, AbortedForGood
<1> QED
  BY <1>4, <1>5, <1>6 DEF IInv

\* mark_completed: the edges to a child that the step resolves are those n has to it.
LEMMA CountsDown ==
  ASSUME IInv, NEW n \in Ids, Complete(n), NEW c \in Ids
  PROVE  /\ remaining'[c] = CountedDown(n, c)
         /\ CountedDown(n, c) = Cardinality(Pending(c)')
         /\ CountedDown(n, c) \in Nat
<1> DEFINE resolved == Outgoing(graph, n) \cap Incoming(graph, c)
<1>1. phase \in [Ids -> Phase] /\ Ids' = Ids /\ IsGraph(graph)
  BY DEF Complete, IInv, TypeOK, Ids
<1>2. phase' = [phase EXCEPT ![n] = "completed"] /\ phase[n] = "asked" /\ graph' = graph
  BY DEF Complete
<1>3. Completed' = Completed \cup {n} /\ n \notin Completed
  BY <1>1, <1>2 DEF Completed
<1>4. Pending(c)' = Pending(c) \ resolved
  BY <1>2, <1>3 DEF Pending, Incoming, Outgoing
<1>5. Pending(c) \cap resolved = resolved
  BY <1>3 DEF Pending, Incoming, Outgoing
<1>6. IsFiniteSet(Pending(c))
  BY <1>1, EdgesFinite, FS_Subset DEF Pending
<1>7. Cardinality(Pending(c)') = Cardinality(Pending(c)) - Cardinality(resolved)
  <2>1. Cardinality(Pending(c) \ resolved)
          = Cardinality(Pending(c)) - Cardinality(Pending(c) \cap resolved)
    BY <1>6, FS_Difference
  <2> QED
    BY <1>4, <1>5, <2>1
<1>8. Cardinality(Pending(c)') \in Nat
  <2>1. IsFiniteSet(Pending(c) \ resolved)
    BY <1>6, FS_Difference
  <2> QED
    BY <1>4, <2>1, FS_CardinalityType
<1>9. remaining[c] = Cardinality(Pending(c))
  BY DEF IInv, RemainingIsExact, Pending
<1>10. remaining'[c] = CountedDown(n, c)
  BY DEF Complete
<1> QED
  BY <1>7, <1>8, <1>9, <1>10 DEF CountedDown, Multiplicity

LEMMA CompleteIInv ==
  ASSUME IInv, NEW n \in Ids, Complete(n)
  PROVE  IInv'
<1>1. /\ phase[n] = "asked" /\ phase' = [phase EXCEPT ![n] = "completed"]
      /\ completedAt' = [completedAt EXCEPT ![n] = now]
      /\ UNCHANGED <<graph, source, now, aborted>>
      /\ queued' = (queued /\ Completed \cup {n} # Ids)
  BY DEF Complete
<1>2. /\ phase \in [Ids -> Phase] /\ completedAt \in [Ids -> Nat] /\ now \in Nat
      /\ Ids' = Ids /\ IsGraph(graph)
  BY <1>1 DEF IInv, TypeOK, Ids
<1>3. Completed' = Completed \cup {n} /\ n \notin Completed
  BY <1>1, <1>2 DEF Completed
<1>4. \A c \in Ids : graph.delay[c] \in Nat
  BY <1>2 DEF IsGraph, Ids
<1>5. TypeOK'
  <2>1. phase' \in [Ids -> Phase] /\ completedAt' \in [Ids -> Nat]
    BY <1>1, <1>2 DEF Phase
  <2>2. remaining' \in [Ids -> Nat]
    BY CountsDown DEF Complete
  <2>3. availableAfter' \in [Ids -> Nat]
    <3>1. \A c \in Ids : UnlockAt(n, c) \in Nat
      BY <1>2, <1>4 DEF UnlockAt
    <3>2. availableAfter \in [Ids -> Nat]
      BY DEF IInv, TypeOK
    <3> QED
      BY <3>1, <3>2 DEF Complete
  <2>4. queued' \in BOOLEAN
    BY <1>1
  <2> QED
    BY <1>1, <1>2, <2>1, <2>2, <2>3, <2>4 DEF IInv, TypeOK
<1>6. RemainingIsExact'
  BY <1>2, CountsDown DEF RemainingIsExact, Pending
<1>7. ParentsFirst'
  <2>1. ASSUME NEW m \in Ids, phase'[m] # "waiting"
        PROVE  ParentsOf(graph, m) \subseteq Completed
    BY <1>1, <1>2, <2>1 DEF IInv, ParentsFirst
  <2> QED
    BY <1>1, <1>2, <1>3, <2>1 DEF ParentsFirst
<1>8. Past'
  BY <1>1, <1>2 DEF IInv, Past
<1>9. ThinkTimeSet'
  <2> SUFFICES ASSUME NEW c \in Ids, remaining'[c] = 0, ParentsOf(graph, c) # {}
               PROVE  \E p \in LastOnes(c)' : availableAfter'[c] = completedAt'[p] + graph.delay[p]
    BY <1>1, <1>2 DEF ThinkTimeSet
  <2>1. ParentsOf(graph, c) \subseteq Ids
    BY ParentsAreNodes DEF IInv
  <2>2. CASE n \in ParentsOf(graph, c)
    <3>1. c \notin Completed
      BY <1>3, <2>2 DEF IInv, ParentsFirst, Completed
    <3>2. availableAfter'[c] = now + graph.delay[n]
      BY <2>2, <3>1, CountsDown DEF Complete, UnlockAt
    <3>3. completedAt'[n] = now
      BY <1>1, <1>2
    <3>4. \A q \in ParentsOf(graph, c) : completedAt'[q] <= now
      BY <1>1, <1>2, <1>8, <2>1 DEF Past
    <3>5. n \in LastOnes(c)'
      BY <1>1, <2>2, <3>3, <3>4 DEF LastOnes
    <3> QED
      BY <3>2, <3>3, <3>5
  <2>3. CASE n \notin ParentsOf(graph, c)
    <3>1. Outgoing(graph, n) \cap Incoming(graph, c) = {}
      BY <2>3 DEF Outgoing, Incoming, ParentsOf
    <3>2. remaining'[c] = remaining[c]
      <4>1. Multiplicity(graph, n, c) = 0
        BY <3>1, FS_EmptySet DEF Multiplicity
      <4>2. remaining[c] \in Nat
        BY DEF IInv, TypeOK
      <4> QED
        BY <4>1, <4>2, CountsDown DEF CountedDown
    <3>3. PICK p \in LastOnes(c) : availableAfter[c] = completedAt[p] + graph.delay[p]
      BY <3>2 DEF IInv, ThinkTimeSet
    <3>4. availableAfter'[c] = availableAfter[c]
      BY <2>3 DEF Complete
    <3>5. \A q \in ParentsOf(graph, c) : completedAt'[q] = completedAt[q]
      BY <1>1, <1>2, <2>1, <2>3
    <3>6. p \in LastOnes(c)' /\ completedAt'[p] = completedAt[p]
      BY <1>1, <3>3, <3>5 DEF LastOnes
    <3> QED
      BY <3>3, <3>4, <3>6
  <2> QED
    BY <2>2, <2>3
<1>10. QueuedIncomplete'
  BY <1>1, <1>2, <1>3 DEF QueuedIncomplete, IsComplete
<1>11. AbortedForGood'
  BY <1>1, <1>2 DEF IInv, AbortedForGood
<1> QED
  BY <1>5, <1>6, <1>7, <1>8, <1>9, <1>10, <1>11 DEF IInv

LEMMA StepIInv == IInv /\ [Next]_vars => IInv'
<1> SUFFICES ASSUME IInv, [Next]_vars PROVE IInv'
  OBVIOUS
<1>1. CASE UNCHANGED vars
  BY <1>1 DEF vars, IInv, TypeOK, RemainingIsExact, ParentsFirst, Past, ThinkTimeSet, LastOnes,
              QueuedIncomplete, AbortedForGood, IsComplete, Completed, Ids
<1>2. ASSUME NEW n \in Ids, Claim(n) \/ Ask(n) \/ Complete(n) \/ Fail(n) PROVE IInv'
  BY <1>2, ClaimIInv, AskIInv, CompleteIInv, FailIInv
<1>3. CASE CancelRemaining \/ Tick
  BY <1>3, CancelIInv, TickIInv
<1> QED
  BY <1>1, <1>2, <1>3 DEF Next, Over

\* The inductive invariant holds throughout.
THEOREM Invariant == Spec => []IInv
BY InitIInv, StepIInv, PTL DEF Spec

-----------------------------------------------------------------------------
(***************************************************************************)
(* The results.                                                            *)
(***************************************************************************)

\* Type correctness, for every set of graphs: no count or time ever leaves its range.
THEOREM TypeCorrect == Spec => []TypeOK
<1>1. IInv => TypeOK
  BY DEF IInv
<1> QED
  BY <1>1, Invariant, PTL

\* mark_completed keeps each count equal to the number of edges from nodes that have
\* not completed, whatever the graph and the order in which its nodes complete.
THEOREM CountsAreExact == Spec => []RemainingIsExact
<1>1. IInv => RemainingIsExact
  BY DEF IInv
<1> QED
  BY <1>1, Invariant, PTL

\* No node of any graph starts before all of its parents have completed.
THEOREM ParentsCompleteFirst == Spec => []ParentsFirst
<1>1. IInv => ParentsFirst
  BY DEF IInv
<1> QED
  BY <1>1, Invariant, PTL

\* A graph that was aborted never completes, so _finalize_node removes from turns_queue
\* only a state that is in it.
THEOREM AbortedNeverCompletes == Spec => []AbortedStaysIncomplete
<1>1. IInv => AbortedStaysIncomplete
  BY DEF IInv, AbortedForGood, AbortedStaysIncomplete, IsComplete, Completed
<1> QED
  BY <1>1, Invariant, PTL

\* No node is claimed before the think time that its last parent to complete asks for.
THEOREM ThinkTimeIsRespected == Spec => ThinkTimeRespected
<1> DEFINE Waits(n) ==
      phase[n] = "waiting" /\ phase'[n] = "claimed" /\ ParentsOf(graph, n) # {} =>
        \E p \in LastOnes(n) : now >= completedAt[p] + graph.delay[p]
<1>1. ASSUME IInv, Next PROVE \A n \in Ids : Waits(n)
  <2> SUFFICES ASSUME NEW n \in Ids, phase[n] = "waiting", phase'[n] = "claimed",
                      ParentsOf(graph, n) # {}
               PROVE  \E p \in LastOnes(n) : now >= completedAt[p] + graph.delay[p]
    OBVIOUS
  <2>1. phase \in [Ids -> Phase]
    BY <1>1 DEF IInv, TypeOK
  <2>2. Claim(n)
    BY <1>1, <2>1 DEF Next, Claim, Ask, Complete, Fail, CancelRemaining, Tick, Over, vars
  <2>3. remaining[n] = 0 /\ now >= availableAfter[n]
    BY <2>2 DEF Claim, NextReady, Claimable
  <2> QED
    BY <1>1, <2>3 DEF IInv, ThinkTimeSet
<1>2. IInv /\ [Next]_vars => [\A n \in Ids : Waits(n)]_vars
  BY <1>1
<1> QED
  BY <1>2, Invariant, PTL DEF Spec, ThinkTimeRespected

\* The nodes of every graph are claimed in order: after all of their parents, by counts
\* that are exact, and never so that an aborted graph counts as complete.
THEOREM ClaimsStayInOrder == Spec => []ClaimsInOrder
<1>1. TypeOK /\ RemainingIsExact /\ ParentsFirst /\ AbortedStaysIncomplete => ClaimsInOrder
  BY DEF ClaimsInOrder
<1> QED
  BY <1>1, TypeCorrect, CountsAreExact, ParentsCompleteFirst, AbortedNeverCompletes, PTL

-----------------------------------------------------------------------------
(***************************************************************************)
(* What the histories rest on: natural numbers, recursion over an interval *)
(* as a function, and lists.                                               *)
(***************************************************************************)
\* The order of the natural numbers has no infinite descent.
LEMMA LessIsWellFounded == IsWellFoundedOn({p \in Nat \X Nat : p[1] < p[2]}, Nat)
<1>1. OpToRel(<, Nat) = {p \in Nat \X Nat : p[1] < p[2]}
  BY DEF OpToRel
<1> QED
  BY <1>1, NatLessThanWellFounded

\* A nonempty set of natural numbers has a least element.
LEMMA Least ==
  ASSUME NEW T, T \subseteq Nat, T # {}
  PROVE  \E x \in T : \A y \in T : x <= y
<1> DEFINE R == {p \in Nat \X Nat : p[1] < p[2]}
<1>1. IsWellFoundedOn(R, Nat)
  BY LessIsWellFounded
<1> HIDE DEF R
<1>2. PICK x \in T : \A y \in T : ~(<<y, x>> \in R)
  <2>1. \E x \in T : \A y \in T : ~(<<y, x>> \in R)
    BY <1>1, WFMin, Zenon
  <2> QED
    BY <2>1
<1>3. \A y \in T : x <= y
  <2> SUFFICES ASSUME NEW y \in T PROVE x <= y
    OBVIOUS
  <2>1. <<y, x>> \notin R /\ y \in Nat /\ x \in Nat
    BY <1>2
  <2>2. ~(y < x)
    BY <2>1 DEF R
  <2> QED
    BY <2>1, <2>2
<1> QED
  BY <1>3

\* Induction, stated about sets: what holds of zero and of every successor holds of all.
LEMMA Induction ==
  ASSUME NEW S, 0 \in S, \A n \in Nat : n \in S => n + 1 \in S
  PROVE  Nat \subseteq S
<1> DEFINE T == Nat \ S
<1> SUFFICES ASSUME T # {} PROVE FALSE
  OBVIOUS
<1>1. PICK x \in T : \A y \in T : x <= y
  BY Least
<1>2. x # 0 /\ x \in Nat
  OBVIOUS
<1>3. x - 1 \in Nat /\ x - 1 \notin T
  BY <1>1, <1>2
<1> QED
  BY <1>2, <1>3

\* f is defined by recursion over an interval: by its first value and by F.
Recurs(V, s, n, F, f) ==
  f \in [0 .. n -> V] /\ f[0] = s /\ \A k \in 1 .. n : f[k] = F[<<f[k - 1], k>>]

\* Any first value and any step give one.
LEMMA Recursion ==
  ASSUME NEW V, NEW s, s \in V, NEW n, n \in Nat, NEW F, F \in [V \X (1 .. n) -> V]
  PROVE  \E f : Recurs(V, s, n, F, f)
<1> DEFINE Part(m, f) ==
             f \in [0 .. m -> V] /\ f[0] = s /\ \A k \in 1 .. m : f[k] = F[<<f[k - 1], k>>]
           P == {m \in Nat : m <= n => \E f : Part(m, f)}
<1>1. 0 \in P
  <2>1. Part(0, [k \in 0 .. 0 |-> s])
    OBVIOUS
  <2> QED
    BY <2>1
<1>2. ASSUME NEW m \in Nat, m \in P PROVE m + 1 \in P
  <2>1. ASSUME m + 1 <= n PROVE \E f : Part(m + 1, f)
    <3>1. PICK f : Part(m, f)
      <4>1. m <= n
        BY <2>1
      <4> QED
        BY <1>2, <4>1
    <3> DEFINE g == [k \in 0 .. m + 1 |-> IF k <= m THEN f[k] ELSE F[<<f[m], m + 1>>]]
    <3>2. f[m] \in V /\ m + 1 \in 1 .. n
      BY <2>1, <3>1
    <3>3. F[<<f[m], m + 1>>] \in V
      BY <3>2
    <3>4. g \in [0 .. m + 1 -> V] /\ g[0] = s
      BY <3>1, <3>3
    <3>5. ASSUME NEW k \in 1 .. m + 1 PROVE g[k] = F[<<g[k - 1], k>>]
      <4>1. k - 1 \in 0 .. m /\ g[k - 1] = f[k - 1]
        OBVIOUS
      <4>2. CASE k <= m
        <5>1. f[k] = F[<<f[k - 1], k>>]
          BY <3>1, <4>2
        <5>2. g[k] = f[k]
          BY <4>2
        <5> QED
          BY <4>1, <5>1, <5>2
      <4>3. CASE k = m + 1
        <5>1. g[k] = F[<<f[m], m + 1>>] /\ k - 1 = m
          BY <4>3
        <5> QED
          BY <4>1, <4>3, <5>1
      <4> QED
        BY <4>2, <4>3
    <3> QED
      BY <3>4, <3>5
  <2> QED
    BY <2>1
<1> HIDE DEF P
<1>3. n \in P
  BY <1>1, <1>2, Induction
<1>4. PICK f : Part(n, f)
  BY <1>3 DEF P
<1> QED
  BY <1>4 DEF Recurs

-----------------------------------------------------------------------------
\* The k-th of a finite set of positions has k of them up to itself.
Upto(S, i) == {j \in S : j <= i}

LEMMA Placed ==
  ASSUME NEW S, S \subseteq Nat, IsFiniteSet(S)
  PROVE  /\ Cardinality(S) \in Nat
         /\ \A k \in 1 .. Cardinality(S) : Place(S, k) \in S
         /\ \A i \in S : \E k \in 1 .. Cardinality(S) : Place(S, k) = i
         /\ \A j, k \in 1 .. Cardinality(S) : Place(S, j) = Place(S, k) => j = k
<1> DEFINE n == Cardinality(S)
           C == [i \in S |-> Cardinality(Upto(S, i))]
<1>1. n \in Nat
  BY FS_CardinalityType
<1>2. ASSUME NEW i \in S PROVE C[i] \in 1 .. n
  <2>1. Upto(S, i) \in SUBSET S /\ Upto(S, i) # {}
    BY DEF Upto
  <2>2. IsFiniteSet(Upto(S, i)) /\ Cardinality(Upto(S, i)) <= n
    BY <2>1, FS_Subset
  <2>3. Cardinality(Upto(S, i)) \in Nat /\ Cardinality(Upto(S, i)) # 0
    BY <2>1, <2>2, FS_CardinalityType, FS_EmptySet
  <2> QED
    BY <1>1, <2>2, <2>3
<1>3. ASSUME NEW i \in S, NEW j \in S, i < j PROVE C[i] # C[j]
  <2>0. i \in Nat /\ j \in Nat /\ \A x \in S : x \in Nat
    OBVIOUS
  <2>1. Upto(S, i) \in SUBSET Upto(S, j) /\ j \in Upto(S, j) /\ j \notin Upto(S, i)
    <3>1. \A x \in S : x <= i => x <= j
      BY <1>3, <2>0
    <3>2. j <= j /\ ~(j <= i)
      BY <1>3, <2>0
    <3> QED
      BY <3>1, <3>2 DEF Upto
  <2>2. IsFiniteSet(Upto(S, j))
    <3>1. Upto(S, j) \in SUBSET S
      BY DEF Upto
    <3> QED
      BY <3>1, FS_Subset
  <2> QED
    BY <2>1, <2>2, FS_Subset
<1>4. C \in Injection(S, 1 .. n)
  <2>1. C \in [S -> 1 .. n]
    BY <1>2
  <2>2. ASSUME NEW i \in S, NEW j \in S, C[i] = C[j] PROVE i = j
    BY <1>3, <2>2
  <2> QED
    BY <2>1, <2>2 DEF Injection, IsInjective
<1>5. C \in Surjection(S, 1 .. n)
  <2>1. IsFiniteSet(1 .. n) /\ Cardinality(1 .. n) = n
    BY <1>1, FS_Interval
  <2> HIDE DEF C
  <2> QED
    BY <1>4, <2>1, FS_Injection
<1>6. \A i \in S, j \in S : C[i] = C[j] => i = j
  BY <1>4 DEF Injection, IsInjective
<1>7. ASSUME NEW k \in 1 .. n PROVE Place(S, k) \in S /\ C[Place(S, k)] = k
  <2>1. \E i \in S : Cardinality({j \in S : j <= i}) = k
    BY <1>5 DEF Surjection, Upto
  <2>2. Place(S, k) \in S /\ Cardinality({j \in S : j <= Place(S, k)}) = k
    BY <2>1 DEF Place
  <2> QED
    BY <2>2 DEF Upto
<1>8. ASSUME NEW i \in S PROVE C[i] \in 1 .. n /\ Place(S, C[i]) = i
  BY <1>2, <1>6, <1>7
<1> HIDE DEF C
<1> QED
  BY <1>1, <1>7, <1>8

\* InOrder lists what is at each of the positions, and once.
Lists(r, list, S, T) ==
  /\ Cardinality(S) \in Nat /\ r \in Seq(T) /\ Len(r) = Cardinality(S)
  /\ \A k \in 1 .. Cardinality(S) : r[k] = list[Place(S, k)]
  /\ ToSet(r) = {list[i] : i \in S}

LEMMA InOrderIs ==
  ASSUME NEW S, S \subseteq Nat, IsFiniteSet(S), NEW T, NEW list, \A i \in S : list[i] \in T
  PROVE  Lists(InOrder(list, S), list, S, T)
<1> DEFINE n == Cardinality(S)
           r == InOrder(list, S)
<1>1. n \in Nat /\ \A k \in 1 .. n : Place(S, k) \in S
  BY Placed
<1>2. r = [k \in 1 .. n |-> list[Place(S, k)]]
  BY DEF InOrder
<1> HIDE DEF n, r
<1>3. r \in Seq(T) /\ Len(r) = n /\ \A k \in 1 .. n : r[k] = list[Place(S, k)]
  <2>1. r \in [1 .. n -> T]
    BY <1>1, <1>2
  <2> QED
    BY <1>1, <1>2, <2>1
<1>4. \A i \in S : \E k \in 1 .. n : Place(S, k) = i
  BY Placed DEF n
<1>5. ToSet(r) = {list[i] : i \in S}
  BY <1>1, <1>2, <1>4 DEF ToSet
<1> QED
  BY <1>1, <1>3, <1>5 DEF n, r, Lists

-----------------------------------------------------------------------------
(***************************************************************************)
(* Kahn's algorithm orders exactly the graphs that have a ranking: numbers *)
(* for the nodes that rise along every edge.                               *)
(***************************************************************************)

\* A finite nonempty set of positions has a greatest one.
LEMMA Greatest ==
  ASSUME NEW M, M \subseteq Nat, IsFiniteSet(M), M # {}
  PROVE  \E i \in M : \A j \in M : j <= i
<1> DEFINE Above(i) == {j \in M : i < j}
           T == {Cardinality(Above(i)) : i \in M}
<1>1. ASSUME NEW i \in M PROVE IsFiniteSet(Above(i)) /\ Cardinality(Above(i)) \in Nat
  <2>1. Above(i) \in SUBSET M
    OBVIOUS
  <2> HIDE DEF Above
  <2> QED
    BY <2>1, FS_Subset, FS_CardinalityType
<1>2. PICK x \in T : \A y \in T : x <= y
  <2>1. T \subseteq Nat
    BY <1>1
  <2>2. T # {}
    OBVIOUS
  <2> HIDE DEF T
  <2> QED
    BY <2>1, <2>2, Least
<1>3. PICK i \in M : x = Cardinality(Above(i))
  OBVIOUS
<1>4. ASSUME NEW l \in M, i < l PROVE FALSE
  <2>0. i \in Nat /\ l \in Nat /\ \A j \in M : j \in Nat
    OBVIOUS
  <2>1. Above(l) \in SUBSET Above(i) /\ l \in Above(i) /\ l \notin Above(l)
    <3>1. \A j \in M : l < j => i < j
      BY <1>4, <2>0
    <3>2. ~(l < l)
      BY <2>0
    <3> QED
      BY <1>4, <3>1, <3>2
  <2>2. Cardinality(Above(i)) <= Cardinality(Above(l))
    BY <1>2, <1>3
  <2>3. IsFiniteSet(Above(i)) /\ Cardinality(Above(i)) \in Nat /\ Cardinality(Above(l)) \in Nat
    BY <1>1
  <2> HIDE DEF Above
  <2>4. /\ Cardinality(Above(l)) <= Cardinality(Above(i))
        /\ Cardinality(Above(i)) = Cardinality(Above(l)) => Above(i) = Above(l)
    BY <2>1, <2>3, FS_Subset
  <2>5. Cardinality(Above(l)) = Cardinality(Above(i))
    BY <2>2, <2>3, <2>4
  <2> QED
    BY <2>1, <2>4, <2>5
<1>5. \A j \in M : ~(i < j)
  BY <1>4
<1>6. \A j \in M : j \in Nat /\ i \in Nat
  OBVIOUS
<1> QED
  BY <1>5, <1>6

\* The first of a sequence without repetitions, and the others.
LEMMA FirstAndRest ==
  ASSUME NEW T, NEW q \in Seq(T), q # <<>>, IsInjective(q)
  PROVE  /\ Head(q) \in T /\ Tail(q) \in Seq(T) /\ IsInjective(Tail(q))
         /\ ToSet(q) = {Head(q)} \cup ToSet(Tail(q)) /\ Head(q) \notin ToSet(Tail(q))
<1>1. /\ Head(q) \in T /\ Tail(q) \in Seq(T) /\ Len(Tail(q)) = Len(q) - 1
      /\ \A i \in 1 .. Len(Tail(q)) : Tail(q)[i] = q[i + 1]
  BY HeadTailProperties
<1>2. Len(q) \in Nat /\ Len(q) # 0 /\ DOMAIN q = 1 .. Len(q) /\ DOMAIN Tail(q) = 1 .. Len(q) - 1
  BY <1>1, LenProperties, EmptySeq
<1>3. Head(q) = q[1]
  OBVIOUS
<1>4. \A i, j \in 1 .. Len(q) : q[i] = q[j] => i = j
  BY <1>2 DEF IsInjective
<1>5. \A i \in 1 .. Len(q) - 1 : i + 1 \in 1 .. Len(q) /\ i + 1 # 1 /\ Tail(q)[i] = q[i + 1]
  <2>1. \A i \in 1 .. Len(q) - 1 : i + 1 \in 1 .. Len(q) /\ i + 1 # 1
    BY <1>2
  <2>2. \A i \in 1 .. Len(q) - 1 : Tail(q)[i] = q[i + 1]
    BY <1>1
  <2> QED
    BY <2>1, <2>2
<1>6. IsInjective(Tail(q))
  <2> SUFFICES ASSUME NEW i \in 1 .. Len(q) - 1, NEW j \in 1 .. Len(q) - 1, Tail(q)[i] = Tail(q)[j]
               PROVE  i = j
    BY <1>2 DEF IsInjective
  <2>1. i + 1 = j + 1
    BY <1>4, <1>5
  <2> QED
    BY <2>1
<1>7. 1 \in 1 .. Len(q)
  BY <1>2
<1>8. Head(q) \notin ToSet(Tail(q))
  BY <1>2, <1>3, <1>4, <1>5, <1>7 DEF ToSet
<1>9. \A x : x \in ToSet(q) => x \in {Head(q)} \cup ToSet(Tail(q))
  <2> SUFFICES ASSUME NEW i \in 1 .. Len(q) PROVE q[i] \in {Head(q)} \cup ToSet(Tail(q))
    BY <1>2 DEF ToSet
  <2>1. i = 1 \/ (i - 1 \in 1 .. Len(q) - 1 /\ (i - 1) + 1 = i)
    BY <1>2
  <2>2. CASE i = 1
    BY <1>3, <2>2
  <2>3. CASE i - 1 \in 1 .. Len(q) - 1 /\ (i - 1) + 1 = i
    <3>1. Tail(q)[i - 1] = q[i]
      BY <1>5, <2>3
    <3> QED
      BY <1>2, <2>3, <3>1 DEF ToSet
  <2> QED
    BY <2>1, <2>2, <2>3
<1>10. {Head(q)} \cup ToSet(Tail(q)) \subseteq ToSet(q)
  BY <1>2, <1>3, <1>5, <1>7 DEF ToSet
<1> QED
  BY <1>1, <1>6, <1>8, <1>9, <1>10

\* What two lists, one after the other, list.
LEMMA BothMembers ==
  ASSUME NEW T, NEW p \in Seq(T), NEW q \in Seq(T)
  PROVE  /\ p \o q \in Seq(T) /\ ToSet(p \o q) = ToSet(p) \cup ToSet(q)
         /\ (p # <<>> \/ q # <<>>) => p \o q # <<>>
<1> DEFINE r == p \o q
           m == Len(p)
           n == Len(q)
<1>1. /\ r \in Seq(T) /\ Len(r) = m + n
      /\ \A i \in 1 .. m + n : r[i] = IF i <= m THEN p[i] ELSE q[i - m]
  BY ConcatProperties
<1>2. m \in Nat /\ n \in Nat /\ DOMAIN p = 1 .. m /\ DOMAIN q = 1 .. n
  BY LenProperties
<1>3. (p = <<>> <=> m = 0) /\ (q = <<>> <=> n = 0)
  BY EmptySeq
<1> HIDE DEF r, m, n
<1>4. DOMAIN r = 1 .. m + n
  BY <1>1, LenProperties
<1>5. \A i \in 1 .. m + n :
        (i \in 1 .. m /\ r[i] = p[i]) \/ (i - m \in 1 .. n /\ r[i] = q[i - m])
  BY <1>1, <1>2
<1>6. \A i \in 1 .. m : i \in 1 .. m + n /\ r[i] = p[i]
  BY <1>1, <1>2
<1>7. \A i \in 1 .. n : m + i \in 1 .. m + n /\ r[m + i] = q[i]
  <2> TAKE i \in 1 .. n
  <2>1. m + i \in 1 .. m + n /\ ~(m + i <= m) /\ (m + i) - m = i
    BY <1>2
  <2> QED
    BY <1>1, <2>1
<1>8. ToSet(r) \subseteq ToSet(p) \cup ToSet(q)
  BY <1>2, <1>4, <1>5 DEF ToSet
<1>9. ToSet(p) \subseteq ToSet(r)
  BY <1>2, <1>4, <1>6 DEF ToSet
<1>10. ToSet(q) \subseteq ToSet(r)
  BY <1>2, <1>4, <1>7 DEF ToSet
<1>11. (p # <<>> \/ q # <<>>) => r # <<>>
  <2>1. r = <<>> => Len(r) = 0
    BY <1>1, EmptySeq
  <2> QED
    BY <1>1, <1>2, <1>3, <2>1
<1> QED
  BY <1>1, <1>8, <1>9, <1>10, <1>11 DEF r

\* Two sequences without repetitions and without a common member, one after the other.
LEMMA BothLists ==
  ASSUME NEW T, NEW p \in Seq(T), NEW q \in Seq(T), IsInjective(p), IsInjective(q),
         ToSet(p) \cap ToSet(q) = {}
  PROVE  p \o q \in Seq(T) /\ IsInjective(p \o q) /\ ToSet(p \o q) = ToSet(p) \cup ToSet(q)
<1> DEFINE r == p \o q
           m == Len(p)
           n == Len(q)
<1>1. r \in Seq(T) /\ ToSet(r) = ToSet(p) \cup ToSet(q)
  BY BothMembers
<1>2. /\ Len(r) = m + n
      /\ \A i \in 1 .. m + n : r[i] = IF i <= m THEN p[i] ELSE q[i - m]
  BY ConcatProperties
<1>3. m \in Nat /\ n \in Nat /\ DOMAIN p = 1 .. m /\ DOMAIN q = 1 .. n
  BY LenProperties
<1> HIDE DEF r, m, n
<1>4. DOMAIN r = 1 .. m + n
  BY <1>1, <1>2, LenProperties
<1>5. \A i \in 1 .. m + n :
        (i \in 1 .. m /\ r[i] = p[i]) \/ (i - m \in 1 .. n /\ r[i] = q[i - m])
  BY <1>2, <1>3
<1>6. \A i \in 1 .. m, j \in 1 .. m : p[i] = p[j] => i = j
  BY <1>3 DEF IsInjective
<1>7. \A i \in 1 .. n, j \in 1 .. n : q[i] = q[j] => i = j
  BY <1>3 DEF IsInjective
<1>8. \A i \in 1 .. m, j \in 1 .. n : p[i] # q[j]
  BY <1>3 DEF ToSet
<1>9. IsInjective(r)
  <2> SUFFICES ASSUME NEW i \in 1 .. m + n, NEW j \in 1 .. m + n, r[i] = r[j] PROVE i = j
    BY <1>4 DEF IsInjective
  <2>1. CASE i \in 1 .. m /\ r[i] = p[i] /\ j \in 1 .. m /\ r[j] = p[j]
    BY <1>6, <2>1
  <2>2. CASE i - m \in 1 .. n /\ r[i] = q[i - m] /\ j - m \in 1 .. n /\ r[j] = q[j - m]
    <3>1. i - m = j - m
      BY <1>7, <2>2
    <3> QED
      BY <1>3, <3>1
  <2> QED
    BY <1>5, <1>8, <2>1, <2>2
<1> QED
  BY <1>1, <1>9 DEF r

\* The edges into c that come from outside A, the nodes ordered so far.
Left(g, A, c) == {i \in Incoming(g, c) : g.edges[i].source \notin A}

\* Every parent comes before its children.
Ordered(g, o) == \A i \in 1 .. Len(o) : \A p \in ParentsOf(g, o[i]) : \E j \in 1 .. i - 1 : o[j] = p

KahnInv(g, s) ==
  /\ s \in [order : Seq(Nodes(g)), queue : Seq(Nodes(g)), degree : [Nodes(g) -> Nat]]
  /\ IsInjective(s.order) /\ IsInjective(s.queue)
  /\ ToSet(s.order) \cap ToSet(s.queue) = {}
  /\ \A c \in Nodes(g) : s.degree[c] = Cardinality(Left(g, ToSet(s.order), c))
  /\ \A c \in Nodes(g) :
       c \in ToSet(s.order) \cup ToSet(s.queue) <=> Left(g, ToSet(s.order), c) = {}
  /\ Ordered(g, s.order)

\* Ordering n counts the degree of c down by the edges that lead from n to c.
Shrinks(g, A, n, c) ==
  /\ Left(g, A \cup {n}, c) = Left(g, A, c) \ (Outgoing(g, n) \cap Incoming(g, c))
  /\ Outgoing(g, n) \cap Incoming(g, c) \subseteq Left(g, A, c)
  /\ Cardinality(Left(g, A \cup {n}, c)) = Cardinality(Left(g, A, c)) - Multiplicity(g, n, c)
  /\ Cardinality(Left(g, A \cup {n}, c)) \in Nat
  /\ (Left(g, A \cup {n}, c) = {} <=> Cardinality(Left(g, A, c)) = Multiplicity(g, n, c))

LEMMA LeftShrinks ==
  ASSUME NEW g, IsGraph(g), NEW A, NEW n, n \notin A, NEW c
  PROVE  Shrinks(g, A, n, c)
<1> DEFINE L == Left(g, A, c)
           M == Outgoing(g, n) \cap Incoming(g, c)
           R == Left(g, A \cup {n}, c)
<1>1. R = L \ M /\ M \in SUBSET L /\ L \cap M = M
  BY DEF Left, Outgoing, Incoming
<1>2. IsFiniteSet(L)
  <2>1. L \in SUBSET Incoming(g, c)
    BY DEF Left
  <2>2. IsFiniteSet(Incoming(g, c))
    BY EdgesFinite
  <2> HIDE DEF L
  <2> QED
    BY <2>1, <2>2, FS_Subset
<1>3. Multiplicity(g, n, c) = Cardinality(M)
  BY DEF Multiplicity
<1> HIDE DEF L, M, R
<1>4. IsFiniteSet(M) /\ IsFiniteSet(L \ M) /\ Cardinality(L \ M) = Cardinality(L) - Cardinality(L \cap M)
  BY <1>1, <1>2, FS_Subset, FS_Difference
<1>5. Cardinality(L) \in Nat /\ Cardinality(M) \in Nat /\ Cardinality(R) \in Nat
  BY <1>1, <1>2, <1>4, FS_CardinalityType
<1>6. Cardinality(R) = Cardinality(L) - Cardinality(M)
  BY <1>1, <1>4
<1>7. R = {} <=> Cardinality(R) = 0
  BY <1>1, <1>4, FS_EmptySet
<1>8. R = {} <=> Cardinality(L) = Cardinality(M)
  BY <1>5, <1>6, <1>7
<1> QED
  BY <1>1, <1>2, <1>3, <1>5, <1>6, <1>8 DEF L, M, R, Shrinks

\* The edges that free a node lead, one each, to the nodes that waited for n alone.
Frees(g, A, n, F) ==
  /\ IsFiniteSet(F) /\ F \subseteq DOMAIN g.edges
  /\ \A i \in F : /\ g.edges[i].target \in Nodes(g)
                  /\ Left(g, A, g.edges[i].target) # {}
                  /\ Left(g, A \cup {n}, g.edges[i].target) = {}
  /\ \A i, j \in F : g.edges[i].target = g.edges[j].target => i = j
  /\ \A c \in Nodes(g) : Left(g, A, c) # {} /\ Left(g, A \cup {n}, c) = {} =>
       \E i \in F : g.edges[i].target = c

LEMMA FreedIs ==
  ASSUME NEW g, IsGraph(g), NEW s, KahnInv(g, s), NEW n \in Nodes(g), n \notin ToSet(s.order)
  PROVE  Frees(g, ToSet(s.order), n, Freed(g, s.degree, n))
<1> DEFINE A == ToSet(s.order)
           F == Freed(g, s.degree, n)
<1>1. F \in SUBSET Outgoing(g, n) /\ Outgoing(g, n) \subseteq DOMAIN g.edges
  BY DEF Freed, Outgoing
<1>2. IsFiniteSet(Outgoing(g, n)) /\ Outgoing(g, n) \subseteq Nat
  BY <1>1, EdgesFinite DEF IsGraph
<1>3. IsFiniteSet(F)
  <2> HIDE DEF F
  <2> QED
    BY <1>1, <1>2, FS_Subset
<1>4. \A i \in Outgoing(g, n) : g.edges[i].target \in Nodes(g) /\ i \in Incoming(g, g.edges[i].target)
  BY <1>1 DEF IsGraph, Incoming
<1>5. \A c \in Nodes(g) : s.degree[c] = Cardinality(Left(g, A, c))
  BY DEF KahnInv
<1>6. ASSUME NEW i \in F
      PROVE  Left(g, A, g.edges[i].target) # {} /\ Left(g, A \cup {n}, g.edges[i].target) = {}
  <2> DEFINE c == g.edges[i].target
  <2>1. c \in Nodes(g) /\ i \in Outgoing(g, n) \cap Incoming(g, c)
    BY <1>1, <1>4
  <2>2. s.degree[c] = Multiplicity(g, n, c)
    BY DEF Freed
  <2> HIDE DEF c, A
  <2>3. i \in Left(g, A, c)
    BY <2>1, LeftShrinks DEF A, Shrinks
  <2>4. Cardinality(Left(g, A, c)) = Multiplicity(g, n, c)
    BY <1>5, <2>1, <2>2
  <2>5. Left(g, A \cup {n}, c) = {}
    BY <2>4, LeftShrinks DEF A, Shrinks
  <2> QED
    BY <2>3, <2>5 DEF c
<1>7. ASSUME NEW i \in F, NEW j \in F, g.edges[i].target = g.edges[j].target PROVE i = j
  <2>1. j <= i /\ i <= j
    BY <1>1, <1>7 DEF Freed
  <2>2. i \in Nat /\ j \in Nat
    BY <1>1, <1>2
  <2> QED
    BY <2>1, <2>2
<1>8. ASSUME NEW c \in Nodes(g), Left(g, A, c) # {}, Left(g, A \cup {n}, c) = {}
      PROVE  \E i \in F : g.edges[i].target = c
  <2> DEFINE M == Outgoing(g, n) \cap Incoming(g, c)
  <2>1. Cardinality(Left(g, A, c)) = Multiplicity(g, n, c) /\ M # {}
    <3>1. /\ Left(g, A \cup {n}, c) = Left(g, A, c) \ M
          /\ (Left(g, A \cup {n}, c) = {} <=> Cardinality(Left(g, A, c)) = Multiplicity(g, n, c))
      BY LeftShrinks DEF Shrinks
    <3> QED
      BY <1>8, <3>1
  <2>2. s.degree[c] = Multiplicity(g, n, c)
    BY <1>5, <2>1
  <2>3. M \in SUBSET Outgoing(g, n)
    OBVIOUS
  <2>4. IsFiniteSet(M) /\ M \subseteq Nat
    <3> HIDE DEF M
    <3> QED
      BY <1>2, <2>3, FS_Subset
  <2>5. PICK i \in M : \A j \in M : j <= i
    <3> HIDE DEF M
    <3> QED
      BY <2>1, <2>4, Greatest
  <2>6. g.edges[i].target = c /\ i \in Outgoing(g, n)
    BY DEF Incoming
  <2>7. \A j \in Outgoing(g, n) : g.edges[j].target = c => j \in M
    BY DEF Outgoing, Incoming
  <2>8. i \in F
    BY <2>2, <2>5, <2>6, <2>7 DEF Freed
  <2> QED
    BY <2>6, <2>8
<1> HIDE DEF A, F
<1>9. F \subseteq DOMAIN g.edges /\ \A i \in F : g.edges[i].target \in Nodes(g)
  BY <1>1, <1>4
<1>10. Frees(g, A, n, F)
  BY <1>3, <1>6, <1>7, <1>8, <1>9 DEF Frees
<1> QED
  BY <1>10 DEF A, F

\* The nodes an iteration frees join the queue, once each.
Joining(g, s, n) ==
  LET freed == InOrder(g.edges, Freed(g, s.degree, n))
  IN  [k \in DOMAIN freed |-> freed[k].target]

LEMMA JoiningIs ==
  ASSUME NEW g, IsGraph(g), NEW s, KahnInv(g, s), NEW n \in Nodes(g), n \notin ToSet(s.order)
  PROVE  /\ Joining(g, s, n) \in Seq(Nodes(g)) /\ IsInjective(Joining(g, s, n))
         /\ \A c \in Nodes(g) : c \in ToSet(Joining(g, s, n)) <=>
              Left(g, ToSet(s.order), c) # {} /\ Left(g, ToSet(s.order) \cup {n}, c) = {}
<1> DEFINE A == ToSet(s.order)
           F == Freed(g, s.degree, n)
           e == InOrder(g.edges, F)
           m == Cardinality(F)
           q == Joining(g, s, n)
           Edges == [source : Nodes(g), target : Nodes(g), context : Context]
<1>1. Frees(g, A, n, F)
  BY FreedIs
<1>2. IsFiniteSet(F) /\ F \subseteq Nat /\ \A i \in F : g.edges[i] \in Edges
  BY <1>1 DEF IsGraph, Frees
<1>3. \A i, j \in F : g.edges[i].target = g.edges[j].target => i = j
  BY <1>1 DEF Frees
<1>4. \A i \in F : /\ g.edges[i].target \in Nodes(g)
                   /\ Left(g, A, g.edges[i].target) # {}
                   /\ Left(g, A \cup {n}, g.edges[i].target) = {}
  BY <1>1 DEF Frees
<1>5. \A c \in Nodes(g) : Left(g, A, c) # {} /\ Left(g, A \cup {n}, c) = {} =>
         \E i \in F : g.edges[i].target = c
  BY <1>1 DEF Frees
<1>6. q = [k \in DOMAIN e |-> e[k].target]
  BY DEF Joining
<1> HIDE DEF A, F, e, q, m, Edges
<1>7. /\ m \in Nat /\ e \in Seq(Edges) /\ Len(e) = m
      /\ \A k \in 1 .. m : e[k] = g.edges[Place(F, k)]
  <2>1. Lists(InOrder(g.edges, F), g.edges, F, Edges)
    BY <1>2, InOrderIs
  <2> QED
    BY <2>1 DEF e, m, Lists
<1>8. /\ \A k \in 1 .. m : Place(F, k) \in F
      /\ \A i \in F : \E k \in 1 .. m : Place(F, k) = i
      /\ \A j, k \in 1 .. m : Place(F, j) = Place(F, k) => j = k
  BY <1>2, Placed DEF m
<1>9. DOMAIN e = 1 .. m
  BY <1>7, LenProperties
<1>10. \A k \in 1 .. m : q[k] = g.edges[Place(F, k)].target /\ q[k] \in Nodes(g)
  BY <1>4, <1>6, <1>7, <1>8, <1>9
<1>11. q \in Seq(Nodes(g)) /\ DOMAIN q = 1 .. m
  <2>1. q \in [1 .. m -> Nodes(g)]
    BY <1>6, <1>9, <1>10
  <2> QED
    BY <1>7, <2>1, SeqDef
<1>12. IsInjective(q)
  <2> SUFFICES ASSUME NEW j \in 1 .. m, NEW k \in 1 .. m, q[j] = q[k] PROVE j = k
    BY <1>11 DEF IsInjective
  <2>1. Place(F, j) = Place(F, k)
    BY <1>3, <1>8, <1>10
  <2> QED
    BY <1>8, <2>1
<1>13. \A c \in Nodes(g) : c \in ToSet(q) <=> Left(g, A, c) # {} /\ Left(g, A \cup {n}, c) = {}
  <2> TAKE c \in Nodes(g)
  <2>1. ASSUME c \in ToSet(q) PROVE Left(g, A, c) # {} /\ Left(g, A \cup {n}, c) = {}
    <3>1. PICK k \in 1 .. m : c = q[k]
      BY <1>11, <2>1 DEF ToSet
    <3> QED
      BY <1>4, <1>8, <1>10, <3>1
  <2>2. ASSUME Left(g, A, c) # {}, Left(g, A \cup {n}, c) = {} PROVE c \in ToSet(q)
    <3>1. PICK i \in F : g.edges[i].target = c
      BY <1>5, <2>2
    <3>2. PICK k \in 1 .. m : Place(F, k) = i
      BY <1>8
    <3> QED
      BY <1>10, <1>11, <3>1, <3>2 DEF ToSet
  <2> QED
    BY <2>1, <2>2
<1> QED
  BY <1>11, <1>12, <1>13 DEF A, q

\* One member more at the end of a sequence.
LEMMA OneMore ==
  ASSUME NEW T, NEW o \in Seq(T), NEW n \in T, IsInjective(o), n \notin ToSet(o)
  PROVE  /\ Append(o, n) \in Seq(T) /\ IsInjective(Append(o, n))
         /\ ToSet(Append(o, n)) = ToSet(o) \cup {n}
         /\ Len(Append(o, n)) = Len(o) + 1 /\ Len(o) \in Nat
         /\ \A i \in 1 .. Len(o) : Append(o, n)[i] = o[i]
         /\ Append(o, n)[Len(o) + 1] = n
<1> DEFINE r == Append(o, n)
           m == Len(o)
<1>1. /\ r \in Seq(T) /\ Len(r) = m + 1 /\ r[m + 1] = n
      /\ \A i \in 1 .. m : r[i] = o[i]
  BY AppendProperties
<1>2. m \in Nat /\ DOMAIN o = 1 .. m
  BY LenProperties
<1> HIDE DEF r, m
<1>3. DOMAIN r = 1 .. m + 1
  BY <1>1, LenProperties
<1>4. \A i \in 1 .. m + 1 : i \in 1 .. m \/ i = m + 1
  BY <1>2
<1>5. 1 .. m \subseteq 1 .. m + 1 /\ m + 1 \in 1 .. m + 1
  BY <1>2
<1>6. ToSet(r) = ToSet(o) \cup {n}
  <2>1. ToSet(r) \subseteq ToSet(o) \cup {n}
    BY <1>1, <1>2, <1>3, <1>4 DEF ToSet
  <2>2. ToSet(o) \cup {n} \subseteq ToSet(r)
    BY <1>1, <1>2, <1>3, <1>5 DEF ToSet
  <2> QED
    BY <2>1, <2>2
<1>7. IsInjective(r)
  <2>1. \A i \in 1 .. m, j \in 1 .. m : o[i] = o[j] => i = j
    BY <1>2 DEF IsInjective
  <2>2. \A i \in 1 .. m : o[i] # n
    BY <1>2 DEF ToSet
  <2> QED
    BY <1>1, <1>3, <1>4, <2>1, <2>2 DEF IsInjective
<1> QED
  BY <1>1, <1>2, <1>6, <1>7 DEF r, m

\* An iteration takes the node that has waited longest and keeps the books.
LEMMA KahnStep ==
  ASSUME NEW g, IsGraph(g), NEW s, KahnInv(g, s)
  PROVE  /\ KahnInv(g, Kahn(g, s))
         /\ s.queue = <<>> => Kahn(g, s) = s
         /\ s.queue # <<>> => Len(Kahn(g, s).order) = Len(s.order) + 1
<1>1. CASE s.queue = <<>>
  BY <1>1 DEF Kahn
<1>2. CASE s.queue # <<>>
  <2> DEFINE n == Head(s.queue)
             r == Tail(s.queue)
             A == ToSet(s.order)
             B == ToSet(s.order) \cup {n}
             q == Joining(g, s, n)
             t == Kahn(g, s)
  <2>1. /\ s.order \in Seq(Nodes(g)) /\ s.queue \in Seq(Nodes(g)) /\ s.degree \in [Nodes(g) -> Nat]
        /\ IsInjective(s.order) /\ IsInjective(s.queue) /\ A \cap ToSet(s.queue) = {}
        /\ \A c \in Nodes(g) : s.degree[c] = Cardinality(Left(g, A, c))
        /\ \A c \in Nodes(g) : c \in A \cup ToSet(s.queue) <=> Left(g, A, c) = {}
        /\ Ordered(g, s.order)
    BY DEF KahnInv
  <2>2. t = [order |-> Append(s.order, n), queue |-> r \o q,
             degree |-> [c \in Nodes(g) |-> s.degree[c] - Multiplicity(g, n, c)]]
    BY <1>2 DEF Kahn, Joining
  <2>3. /\ n \in Nodes(g) /\ r \in Seq(Nodes(g)) /\ IsInjective(r)
        /\ ToSet(s.queue) = {n} \cup ToSet(r) /\ n \notin ToSet(r)
    BY <1>2, <2>1, FirstAndRest
  <2>4. n \notin A /\ A \cap ToSet(r) = {}
    BY <2>1, <2>3
  <2>5. /\ q \in Seq(Nodes(g)) /\ IsInjective(q)
        /\ \A c \in Nodes(g) : c \in ToSet(q) <=> Left(g, A, c) # {} /\ Left(g, B, c) = {}
    <3>1. n \notin ToSet(s.order)
      BY <2>4
    <3> QED
      BY <2>3, <3>1, JoiningIs
  <2>6. /\ Append(s.order, n) \in Seq(Nodes(g)) /\ IsInjective(Append(s.order, n))
        /\ ToSet(Append(s.order, n)) = B /\ Len(Append(s.order, n)) = Len(s.order) + 1
        /\ Len(s.order) \in Nat
        /\ \A i \in 1 .. Len(s.order) : Append(s.order, n)[i] = s.order[i]
        /\ Append(s.order, n)[Len(s.order) + 1] = n
    BY <2>1, <2>3, <2>4, OneMore
  <2>7. \A c \in Nodes(g) : Left(g, B, c) \subseteq Left(g, A, c)
    BY DEF Left
  <2>8. B = A \cup {n} /\ \A x \in Seq(Nodes(g)) : ToSet(x) \subseteq Nodes(g)
    <3>1. \A x \in Seq(Nodes(g)) : ToSet(x) \subseteq Nodes(g)
      BY ElementOfSeq, LenProperties DEF ToSet
    <3> QED
      BY <3>1
  <2>9. \A c \in Nodes(g) : /\ Cardinality(Left(g, B, c)) = s.degree[c] - Multiplicity(g, n, c)
                            /\ Cardinality(Left(g, B, c)) \in Nat
    <3> TAKE c \in Nodes(g)
    <3>1. n \notin A
      BY <2>4
    <3>2. /\ Cardinality(Left(g, A \cup {n}, c)) = Cardinality(Left(g, A, c)) - Multiplicity(g, n, c)
          /\ Cardinality(Left(g, A \cup {n}, c)) \in Nat
      <4> HIDE DEF A, n
      <4>1. Shrinks(g, A, n, c)
        BY <3>1, LeftShrinks
      <4> QED
        BY <4>1 DEF Shrinks
    <3> QED
      BY <2>1, <2>8, <3>2
  <2> HIDE DEF n, r, q, t
  <2>10. r \o q \in Seq(Nodes(g)) /\ IsInjective(r \o q) /\ ToSet(r \o q) = ToSet(r) \cup ToSet(q)
    <3>1. ToSet(r) \cap ToSet(q) = {}
      BY <2>1, <2>3, <2>5, <2>8
    <3> QED
      BY <2>3, <2>5, <3>1, BothLists
  <2>11. B \cap ToSet(r \o q) = {}
    <3>1. A \cap ToSet(q) = {} /\ n \notin ToSet(q)
      BY <2>1, <2>3, <2>5, <2>8
    <3> QED
      BY <2>3, <2>4, <2>10, <3>1
  <2>12. \A c \in Nodes(g) : c \in B \cup ToSet(r \o q) <=> Left(g, B, c) = {}
    <3> TAKE c \in Nodes(g)
    <3>1. c \in A \cup ToSet(s.queue) <=> Left(g, A, c) = {}
      BY <2>1
    <3>2. c \in ToSet(q) <=> Left(g, A, c) # {} /\ Left(g, B, c) = {}
      BY <2>5
    <3>3. c \in B \cup ToSet(r \o q) <=> c \in A \cup ToSet(s.queue) \/ c \in ToSet(q)
      BY <2>3, <2>8, <2>10
    <3>4. Left(g, A, c) = {} => Left(g, B, c) = {}
      BY <2>7
    <3> QED
      BY <3>1, <3>2, <3>3, <3>4
  <2>13. Ordered(g, Append(s.order, n))
    <3> DEFINE o == Append(s.order, n)
               m == Len(s.order)
    <3> SUFFICES ASSUME NEW i \in 1 .. m + 1, NEW p \in ParentsOf(g, o[i])
                 PROVE  \E j \in 1 .. i - 1 : o[j] = p
      BY <2>6 DEF Ordered
    <3>1. CASE i \in 1 .. m
      <4>1. PICK j \in 1 .. i - 1 : s.order[j] = p
        BY <2>1, <2>6, <3>1 DEF Ordered
      <4>2. j \in 1 .. m
        BY <2>6, <3>1
      <4> QED
        BY <2>6, <4>1, <4>2
    <3>2. CASE i = m + 1
      <4>1. p \in ParentsOf(g, n)
        BY <2>6, <3>2
      <4>2. Left(g, A, n) = {}
        BY <2>1, <2>3
      <4>3. p \in A
        BY <4>1, <4>2 DEF ParentsOf, Left
      <4>4. PICK j \in 1 .. m : s.order[j] = p
        BY <2>1, <4>3, LenProperties DEF ToSet
      <4>5. j \in 1 .. i - 1
        BY <2>6, <3>2
      <4> QED
        BY <2>6, <4>4, <4>5
    <3> QED
      BY <2>6, <3>1, <3>2
  <2>14. [c \in Nodes(g) |-> s.degree[c] - Multiplicity(g, n, c)] \in [Nodes(g) -> Nat]
    BY <2>9
  <2>15. \A c \in Nodes(g) : t.degree[c] = Cardinality(Left(g, B, c))
    BY <2>2, <2>9
  <2>16. /\ t \in [order : Seq(Nodes(g)), queue : Seq(Nodes(g)), degree : [Nodes(g) -> Nat]]
         /\ t.order = Append(s.order, n) /\ t.queue = r \o q
    BY <2>2, <2>6, <2>10, <2>14
  <2>17. ToSet(t.order) = B
    BY <2>6, <2>16
  <2> HIDE DEF A, B
  <2>18. KahnInv(g, t)
    BY <2>6, <2>10, <2>11, <2>12, <2>13, <2>15, <2>16, <2>17 DEF KahnInv
  <2> QED
    BY <1>2, <2>6, <2>16, <2>18 DEF t
<1> QED
  BY <1>1, <1>2

Start(g) ==
  [order |-> <<>>,
   queue |-> InOrder(g.nodes, {i \in DOMAIN g.nodes : Cardinality(Incoming(g, g.nodes[i])) = 0}),
   degree |-> [n \in Nodes(g) |-> Cardinality(Incoming(g, n))]]

\* At first nothing is ordered and the nodes without parents are queued.
LEMMA StartIs ==
  ASSUME NEW g, IsGraph(g)
  PROVE  KahnInv(g, Start(g)) /\ Start(g).order = <<>>
<1> DEFINE S == {i \in DOMAIN g.nodes : Cardinality(Incoming(g, g.nodes[i])) = 0}
           q == InOrder(g.nodes, S)
           m == Cardinality(S)
           s == Start(g)
<1>1. /\ DOMAIN g.nodes = 1 .. Len(g.nodes) /\ Len(g.nodes) \in Nat
      /\ \A i \in DOMAIN g.nodes : g.nodes[i] \in Nodes(g)
      /\ \A i, j \in DOMAIN g.nodes : g.nodes[i] = g.nodes[j] => i = j
      /\ \A c \in Nodes(g) : \E i \in DOMAIN g.nodes : c = g.nodes[i]
  <2>1. g.nodes \in Seq(Nodes(g)) /\ IsInjective(g.nodes)
    BY DEF IsGraph
  <2> QED
    BY <2>1, LenProperties DEF IsInjective, Nodes, ToSet
<1>2. IsFiniteSet(S) /\ S \subseteq Nat /\ S \subseteq DOMAIN g.nodes
  <2>1. S \in SUBSET (1 .. Len(g.nodes)) /\ IsFiniteSet(1 .. Len(g.nodes))
    BY <1>1, FS_Interval
  <2>2. IsFiniteSet(S)
    <3> HIDE DEF S
    <3> QED
      BY <2>1, FS_Subset
  <2> QED
    BY <1>1, <2>2
<1>3. ASSUME NEW c \in Nodes(g)
      PROVE  /\ Cardinality(Incoming(g, c)) \in Nat
             /\ (Cardinality(Incoming(g, c)) = 0 <=> Incoming(g, c) = {})
  <2>1. IsFiniteSet(Incoming(g, c))
    BY EdgesFinite
  <2> QED
    BY <2>1, FS_CardinalityType, FS_EmptySet
<1>4. s = [order |-> <<>>, queue |-> q, degree |-> [n \in Nodes(g) |-> Cardinality(Incoming(g, n))]]
  BY DEF Start
<1>5. \A i \in DOMAIN g.nodes : i \in S <=> Incoming(g, g.nodes[i]) = {}
  BY <1>1, <1>3
<1>6. /\ \A k \in 1 .. m : Place(S, k) \in S
      /\ \A j, k \in 1 .. m : Place(S, j) = Place(S, k) => j = k
  BY <1>2, Placed
<1>7. Lists(q, g.nodes, S, Nodes(g))
  <2>1. \A i \in S : g.nodes[i] \in Nodes(g)
    BY <1>1, <1>2
  <2> HIDE DEF S
  <2> QED
    BY <1>2, <2>1, InOrderIs
<1> HIDE DEF S, q, m, s
<1>8. /\ q \in Seq(Nodes(g)) /\ m \in Nat /\ Len(q) = m
      /\ \A k \in 1 .. m : q[k] = g.nodes[Place(S, k)]
      /\ ToSet(q) = {g.nodes[i] : i \in S}
  BY <1>7 DEF Lists, m
<1>9. IsInjective(q)
  <2>1. DOMAIN q = 1 .. m
    BY <1>8, LenProperties
  <2> SUFFICES ASSUME NEW j \in 1 .. m, NEW k \in 1 .. m, q[j] = q[k] PROVE j = k
    BY <2>1 DEF IsInjective
  <2>2. Place(S, j) = Place(S, k)
    BY <1>1, <1>2, <1>6, <1>8
  <2> QED
    BY <1>6, <2>2
<1>10. s.order = <<>> /\ s.queue = q /\ ToSet(s.order) = {}
  BY <1>4 DEF ToSet
<1>11. \A c \in Nodes(g) : Left(g, {}, c) = Incoming(g, c)
  BY DEF Left
<1>12. \A c \in Nodes(g) : c \in ToSet(q) <=> Incoming(g, c) = {}
  <2> TAKE c \in Nodes(g)
  <2>1. PICK i \in DOMAIN g.nodes : c = g.nodes[i]
    BY <1>1
  <2>2. c \in ToSet(q) <=> \E j \in S : c = g.nodes[j]
    BY <1>8
  <2>3. c \in ToSet(q) <=> i \in S
    BY <1>1, <1>2, <2>1, <2>2
  <2> QED
    BY <1>5, <2>1, <2>3
<1>13. \A c \in Nodes(g) : s.degree[c] = Cardinality(Incoming(g, c))
  BY <1>4
<1>14. s \in [order : Seq(Nodes(g)), queue : Seq(Nodes(g)), degree : [Nodes(g) -> Nat]]
  <2>1. [n \in Nodes(g) |-> Cardinality(Incoming(g, n))] \in [Nodes(g) -> Nat]
    BY <1>3
  <2>2. <<>> \in Seq(Nodes(g))
    BY EmptySeq
  <2> QED
    BY <1>4, <1>8, <2>1, <2>2
<1>15. IsInjective(s.order) /\ Ordered(g, s.order)
  <2>1. DOMAIN s.order = {} /\ 1 .. Len(s.order) = {}
    BY <1>10
  <2> QED
    BY <2>1 DEF IsInjective, Ordered
<1>16. KahnInv(g, s)
  BY <1>8, <1>9, <1>10, <1>11, <1>12, <1>13, <1>14, <1>15 DEF KahnInv
<1> QED
  BY <1>10, <1>16 DEF s

\* What the iterations end in: the queue is empty, or every iteration ordered a node.
Ends(g, s) ==
  KahnInv(g, s) /\ TopologicalOrder(g) = s.order /\ (s.queue = <<>> \/ Len(s.order) = Len(g.nodes))

\* The order is that of such a state.
LEMMA OrderIs ==
  ASSUME NEW g, IsGraph(g)
  PROVE  \E s : Ends(g, s)
<1> DEFINE L == Len(g.nodes)
           degree == [n \in Nodes(g) |-> Cardinality(Incoming(g, n))]
           roots == {i \in DOMAIN g.nodes : degree[g.nodes[i]] = 0}
           first == [order |-> <<>>, queue |-> InOrder(g.nodes, roots), degree |-> degree]
           r == CHOOSE run : run = [k \in 0 .. L |-> IF k = 0 THEN first ELSE Kahn(g, run[k - 1])]
           States == {s \in [order : Seq(Nodes(g)), queue : Seq(Nodes(g)), degree : [Nodes(g) -> Nat]] :
                        KahnInv(g, s)}
           F == [a \in States \X (1 .. L) |-> Kahn(g, a[1])]
<1>1. L \in Nat
  <2>1. g.nodes \in Seq(Nodes(g))
    BY DEF IsGraph
  <2> QED
    BY <2>1, LenProperties
<1>2. TopologicalOrder(g) = r[L].order
  BY DEF TopologicalOrder
<1>3. first = Start(g)
  <2>1. \A i \in DOMAIN g.nodes : g.nodes[i] \in Nodes(g)
    BY DEF Nodes, ToSet
  <2>2. roots = {i \in DOMAIN g.nodes : Cardinality(Incoming(g, g.nodes[i])) = 0}
    BY <2>1
  <2> QED
    BY <2>2 DEF Start
<1>4. \A s : s \in States <=> KahnInv(g, s)
  BY DEF KahnInv
<1>5. F \in [States \X (1 .. L) -> States] /\ \A s \in States, k \in 1 .. L : F[<<s, k>>] = Kahn(g, s)
  <2>1. \A s \in States : Kahn(g, s) \in States
    BY <1>4, KahnStep
  <2> HIDE DEF States
  <2> QED
    BY <2>1
<1>6. Start(g) \in States
  BY <1>4, StartIs
<1> HIDE DEF F, States, L
<1>7. PICK f : Recurs(States, Start(g), L, F, f)
  BY <1>1, <1>5, <1>6, Recursion
<1>8. f \in [0 .. L -> States] /\ f[0] = Start(g) /\ \A k \in 1 .. L : f[k] = F[<<f[k - 1], k>>]
  BY <1>7 DEF Recurs
<1>9. \A k \in 1 .. L : f[k] = Kahn(g, f[k - 1])
  <2> TAKE k \in 1 .. L
  <2>1. f[k - 1] \in States
    BY <1>1, <1>8
  <2> QED
    BY <1>5, <1>8, <2>1
<1> HIDE DEF first
<1> DEFINE E(run) == [k \in 0 .. L |-> IF k = 0 THEN first ELSE Kahn(g, run[k - 1])]
<1>10. f = E(f)
  <2>1. E(f) = [k \in 0 .. L |-> IF k = 0 THEN Start(g) ELSE Kahn(g, f[k - 1])]
    BY <1>3
  <2>2. f = [k \in 0 .. L |-> IF k = 0 THEN Start(g) ELSE Kahn(g, f[k - 1])]
    BY <1>1, <1>8, <1>9
  <2> QED
    BY <2>1, <2>2
<1>11. r = E(r)
  BY <1>10
<1>12. r[0] = Start(g) /\ \A k \in 1 .. L : r[k] = Kahn(g, r[k - 1])
  <2>1. E(r) = [k \in 0 .. L |-> IF k = 0 THEN Start(g) ELSE Kahn(g, r[k - 1])]
    BY <1>3
  <2> HIDE DEF r, E
  <2> QED
    BY <1>1, <1>11, <2>1
<1> HIDE DEF r, E
<1> DEFINE Done(k) == KahnInv(g, r[k]) /\ (r[k].queue = <<>> \/ Len(r[k].order) = k)
           P == {k \in Nat : k <= L => Done(k)}
<1>13. 0 \in P
  <2>1. Len(Start(g).order) = 0 /\ KahnInv(g, Start(g))
    BY StartIs
  <2> QED
    BY <1>12, <2>1
<1>14. ASSUME NEW k \in Nat, k \in P PROVE k + 1 \in P
  <2> SUFFICES ASSUME k + 1 <= L PROVE Done(k + 1)
    OBVIOUS
  <2>1. k <= L /\ k + 1 \in 1 .. L /\ (k + 1) - 1 = k
    BY <1>1
  <2>2. Done(k) /\ r[k + 1] = Kahn(g, r[k])
    BY <1>12, <1>14, <2>1
  <2>3. /\ KahnInv(g, Kahn(g, r[k]))
        /\ r[k].queue = <<>> => Kahn(g, r[k]) = r[k]
        /\ r[k].queue # <<>> => Len(Kahn(g, r[k]).order) = Len(r[k].order) + 1
    BY <2>2, KahnStep
  <2>4. CASE r[k].queue = <<>>
    BY <2>2, <2>3, <2>4
  <2>5. CASE r[k].queue # <<>>
    BY <2>2, <2>3, <2>5
  <2> QED
    BY <2>4, <2>5
<1> HIDE DEF P
<1>15. L \in P
  BY <1>1, <1>13, <1>14, Induction
<1>16. Done(L)
  BY <1>1, <1>15 DEF P
<1>17. Ends(g, r[L])
  BY <1>2, <1>16 DEF Ends, L
<1> QED
  BY <1>17

Rises(g, r) == \A i \in DOMAIN g.edges : r[g.edges[i].source] < r[g.edges[i].target]

\* A list without repetitions has as many members as places.
LEMMA MembersOf ==
  ASSUME NEW T, NEW o \in Seq(T), IsInjective(o)
  PROVE  /\ ToSet(o) \subseteq T /\ IsFiniteSet(ToSet(o))
         /\ Cardinality(ToSet(o)) = Len(o) /\ Len(o) \in Nat
<1> DEFINE m == Len(o)
           S == ToSet(o)
<1>1. m \in Nat /\ DOMAIN o = 1 .. m /\ \A i \in 1 .. m : o[i] \in T
  BY LenProperties, ElementOfSeq
<1>2. o \in Bijection(1 .. m, S)
  BY <1>1 DEF Bijection, Injection, Surjection, ToSet
<1>3. IsFiniteSet(1 .. m) /\ Cardinality(1 .. m) = m
  <2> HIDE DEF m
  <2> QED
    BY <1>1, FS_Interval
<1>4. S \subseteq T
  BY <1>1 DEF ToSet
<1> HIDE DEF m, S
<1>5. IsFiniteSet(S) /\ Cardinality(S) = Cardinality(1 .. m)
  BY <1>2, <1>3, FS_Bijection DEF ExistsBijection
<1> QED
  BY <1>1, <1>3, <1>4, <1>5 DEF m, S

\* The place of a node in a complete order is a ranking.
LEMMA OrderRanks ==
  ASSUME NEW g, IsGraph(g), Len(TopologicalOrder(g)) = Len(g.nodes)
  PROVE  \E r \in [Nodes(g) -> 1 .. Len(g.nodes)] : Rises(g, r)
<1> DEFINE o == TopologicalOrder(g)
           L == Len(g.nodes)
           r == [n \in Nodes(g) |-> CHOOSE i \in 1 .. L : o[i] = n]
<1>1. PICK s : Ends(g, s)
  BY OrderIs
<1>2. o \in Seq(Nodes(g)) /\ IsInjective(o) /\ Ordered(g, o)
  BY <1>1 DEF Ends, KahnInv
<1>3. g.nodes \in Seq(Nodes(g)) /\ IsInjective(g.nodes)
  BY DEF IsGraph
<1>4. L \in Nat /\ Cardinality(Nodes(g)) = L /\ IsFiniteSet(Nodes(g))
  BY <1>3, MembersOf DEF Nodes
<1>5. ToSet(o) \subseteq Nodes(g) /\ Cardinality(ToSet(o)) = L
  <2> HIDE DEF o
  <2> QED
    BY <1>2, MembersOf DEF o
<1>6. ToSet(o) = Nodes(g)
  <2> HIDE DEF o
  <2> QED
    BY <1>4, <1>5, FS_Subset
<1>7. DOMAIN o = 1 .. L
  BY <1>2, LenProperties
<1> HIDE DEF o, L
<1>8. \A n \in Nodes(g) : r[n] \in 1 .. L /\ o[r[n]] = n
  <2>1. \A n \in Nodes(g) : \E i \in 1 .. L : o[i] = n
    BY <1>6, <1>7 DEF ToSet
  <2> QED
    BY <2>1
<1> HIDE DEF r
<1>9. ASSUME NEW i \in DOMAIN g.edges PROVE r[g.edges[i].source] < r[g.edges[i].target]
  <2> DEFINE p == g.edges[i].source
             n == g.edges[i].target
  <2>1. p \in Nodes(g) /\ n \in Nodes(g) /\ p \in ParentsOf(g, n)
    BY DEF IsGraph, ParentsOf, Incoming
  <2> HIDE DEF p, n
  <2>2. PICK j \in 1 .. r[n] - 1 : o[j] = p
    <3>1. r[n] \in 1 .. Len(o) /\ o[r[n]] = n
      BY <1>2, <1>7, <1>8, <2>1, LenProperties
    <3> QED
      BY <1>2, <2>1, <3>1 DEF Ordered
  <2>3. j \in 1 .. L
    BY <1>4, <1>8, <2>1, <2>2
  <2>4. j = r[p]
    BY <1>2, <1>7, <1>8, <2>1, <2>2, <2>3 DEF IsInjective
  <2>5. r[n] \in Nat /\ r[p] \in Nat
    BY <1>4, <1>8, <2>1
  <2>6. r[p] < r[n]
    BY <2>2, <2>4, <2>5
  <2> QED
    BY <2>6 DEF p, n
<1>10. r \in [Nodes(g) -> 1 .. L]
  BY <1>8 DEF r
<1>11. Rises(g, r)
  BY <1>9 DEF Rises
<1> QED
  BY <1>10, <1>11 DEF L

\* A node of least rank among those left out would have no parent left to wait for.
LEMMA RankOrders ==
  ASSUME NEW g, IsGraph(g), NEW r \in [Nodes(g) -> Nat], Rises(g, r)
  PROVE  Len(TopologicalOrder(g)) = Len(g.nodes)
<1>1. PICK s : Ends(g, s)
  BY OrderIs
<1> DEFINE o == s.order
           A == ToSet(o)
<1>2. /\ o \in Seq(Nodes(g)) /\ IsInjective(o)
      /\ s.queue = <<>> => \A c \in Nodes(g) : c \in A <=> Left(g, A, c) = {}
  <2>1. s.queue = <<>> => ToSet(s.queue) = {}
    BY DEF ToSet
  <2> QED
    BY <1>1, <2>1 DEF Ends, KahnInv
<1>3. g.nodes \in Seq(Nodes(g)) /\ IsInjective(g.nodes)
  BY DEF IsGraph
<1>4. Cardinality(Nodes(g)) = Len(g.nodes)
  BY <1>3, MembersOf DEF Nodes
<1>5. CASE s.queue = <<>>
  <2> DEFINE T == {r[n] : n \in Nodes(g) \ A}
  <2>1. ASSUME Nodes(g) \ A # {} PROVE FALSE
    <3>1. T # {} /\ T \subseteq Nat
      BY <2>1
    <3>2. PICK x \in T : \A y \in T : x <= y
      <4> HIDE DEF T
      <4> QED
        BY <3>1, Least
    <3>3. PICK n \in Nodes(g) \ A : x = r[n]
      OBVIOUS
    <3>4. Left(g, A, n) # {}
      BY <1>2, <1>5, <3>3
    <3>5. PICK i \in DOMAIN g.edges : g.edges[i].target = n /\ g.edges[i].source \notin A
      BY <3>4 DEF Left, Incoming
    <3>6. g.edges[i].source \in Nodes(g) \ A /\ r[g.edges[i].source] < r[n]
      BY <3>5 DEF IsGraph, Rises
    <3>7. r[n] <= r[g.edges[i].source]
      BY <3>2, <3>3, <3>6
    <3>8. r[n] \in Nat /\ r[g.edges[i].source] \in Nat
      BY <3>6
    <3> QED
      BY <3>6, <3>7, <3>8
  <2>2. A \subseteq Nodes(g) /\ Cardinality(A) = Len(o)
    <3> HIDE DEF o
    <3> QED
      BY <1>2, MembersOf
  <2>3. A = Nodes(g)
    BY <2>1, <2>2
  <2> QED
    BY <1>1, <1>4, <2>2, <2>3 DEF Ends
<1>6. CASE s.queue # <<>>
  BY <1>1, <1>6 DEF Ends
<1> QED
  BY <1>5, <1>6

\* The first nodes of the order are there with all of their parents.
LEMMA PrefixIsClosed ==
  ASSUME NEW g, IsGraph(g), NEW k \in 1 .. Len(TopologicalOrder(g)),
         NEW n \in ToSet(SubSeq(TopologicalOrder(g), 1, k))
  PROVE  ParentsOf(g, n) \subseteq ToSet(SubSeq(TopologicalOrder(g), 1, k))
<1> DEFINE o == TopologicalOrder(g)
           q == SubSeq(o, 1, k)
<1>1. PICK s : Ends(g, s)
  BY OrderIs
<1>2. o \in Seq(Nodes(g)) /\ Ordered(g, o)
  BY <1>1 DEF Ends, KahnInv
<1> HIDE DEF o
<1>3. Len(o) \in Nat /\ k \in Nat /\ k <= Len(o)
  <2>1. Len(o) \in Nat
    BY <1>2, LenProperties
  <2> QED
    BY <2>1 DEF o
<1>4. q = [i \in 1 .. k |-> o[i]]
  BY <1>2, <1>3 DEF SubSeq
<1> HIDE DEF q
<1>5. PICK i \in 1 .. k : n = o[i]
  BY <1>4 DEF ToSet, q, o
<1>6. ASSUME NEW p \in ParentsOf(g, n) PROVE p \in ToSet(q)
  <2>1. i \in 1 .. Len(o)
    BY <1>3
  <2>2. PICK j \in 1 .. i - 1 : o[j] = p
    BY <1>2, <1>5, <2>1 DEF Ordered
  <2>3. j \in 1 .. k
    BY <1>3
  <2> QED
    BY <1>4, <2>2, <2>3 DEF ToSet
<1> QED
  BY <1>6 DEF q, o

\* A worker receives a valid graph with every dependency the dataset gave its nodes.
LEMMA DispatchedKeeps ==
  ASSUME NEW g, IsGraph(g), Valid(g), NEW h \in Dispatched(g)
  PROVE  Valid(h) /\ \A n \in Nodes(h) : ParentsOf(h, n) = ParentsOf(g, n)
<1>1. CASE h = g
  BY <1>1
<1>2. CASE h # g
  <2>1. PICK k \in 1 .. Len(g.nodes) - 1 :
          h \in Subgraphs(g, ToSet(SubSeq(TopologicalOrder(g), 1, k)))
    BY <1>2 DEF Dispatched
  <2> DEFINE ids == ToSet(SubSeq(TopologicalOrder(g), 1, k))
  <2>2. Len(TopologicalOrder(g)) = Len(g.nodes) /\ Len(g.nodes) \in Nat
    <3>1. g.nodes \in Seq(Nodes(g))
      BY DEF IsGraph
    <3> QED
      BY <3>1, LenProperties DEF Valid
  <2>3. \A n \in ids : ParentsOf(g, n) \subseteq ids
    <3>1. k \in 1 .. Len(TopologicalOrder(g))
      BY <2>2
    <3> QED
      BY <3>1, PrefixIsClosed
  <2>4. /\ IsGraph(h) /\ Nodes(h) = ids /\ ids \subseteq Nodes(g)
        /\ h.edges = [i \in Kept(g, ids) |-> g.edges[i]]
    BY <2>1, SubgraphIsGraph
  <2> HIDE DEF ids
  <2>5. /\ DOMAIN h.edges = Kept(g, ids) /\ Kept(g, ids) \subseteq DOMAIN g.edges
        /\ \A i \in Kept(g, ids) : h.edges[i] = g.edges[i]
    BY <2>4 DEF Kept
  <2>6. \A n \in ids : Incoming(h, n) = Incoming(g, n)
    <3>1. \A n \in ids : \A i \in Incoming(g, n) : i \in Kept(g, ids)
      BY <2>3 DEF Incoming, ParentsOf, Kept
    <3> QED
      BY <2>5, <3>1 DEF Incoming
  <2>7. \A n \in ids : \A i \in Incoming(g, n) : h.edges[i] = g.edges[i]
    BY <2>5, <2>6 DEF Incoming
  <2>8. \A n \in ids : ParentsOf(h, n) = ParentsOf(g, n)
    BY <2>6, <2>7 DEF ParentsOf
  <2>9. \A n \in ids : FullIn(h, n) = FullIn(g, n)
    BY <2>6, <2>7 DEF FullIn
  <2>10. Len(TopologicalOrder(h)) = Len(h.nodes)
    <3>1. PICK r \in [Nodes(g) -> 1 .. Len(g.nodes)] : Rises(g, r)
      BY <2>2, OrderRanks
    <3> DEFINE w == [n \in Nodes(h) |-> r[n]]
    <3>2. w \in [Nodes(h) -> Nat]
      BY <2>2, <2>4
    <3>3. Rises(h, w)
      <4> SUFFICES ASSUME NEW i \in DOMAIN h.edges
                   PROVE  w[h.edges[i].source] < w[h.edges[i].target]
        BY DEF Rises
      <4>1. h.edges[i] = g.edges[i] /\ i \in DOMAIN g.edges
        BY <2>5
      <4>2. h.edges[i].source \in Nodes(h) /\ h.edges[i].target \in Nodes(h)
        BY <2>4 DEF IsGraph
      <4> QED
        BY <3>1, <4>1, <4>2 DEF Rises
    <3> HIDE DEF w
    <3> QED
      BY <2>4, <3>2, <3>3, RankOrders
  <2> QED
    BY <2>4, <2>8, <2>9, <2>10 DEF Valid
<1> QED
  BY <1>1, <1>2

-----------------------------------------------------------------------------
(***************************************************************************)
(* Recursion along a ranking.  F makes of a function f the one whose value *)
(* at a node rests on the values of f at nodes of lower rank; repeated     *)
(* often enough, it has no effect any more.                                *)
(***************************************************************************)
RestsOnLower(N, V, r, F) ==
  /\ F \in [[N -> V] -> [N -> V]]
  /\ \A f, h \in [N -> V] : \A n \in N :
       (\A m \in N : r[m] < r[n] => f[m] = h[m]) => F[f][n] = F[h][n]

\* After as many repetitions as there are ranks the function is settled.
LEMMA FixedPoint ==
  ASSUME NEW N, NEW V, NEW v \in V, NEW L \in Nat, NEW r \in [N -> 1 .. L],
         NEW F, RestsOnLower(N, V, r, F)
  PROVE  \E f \in [N -> V] : f = F[f]
<1> DEFINE W == [N -> V]
           s == [n \in N |-> v]
           G == [a \in W \X (1 .. L + 1) |-> F[a[1]]]
<1>1. F \in [W -> W]
  BY DEF RestsOnLower
<1>2. \A f, h \in W : \A n \in N :
        (\A m \in N : r[m] < r[n] => f[m] = h[m]) => F[f][n] = F[h][n]
  BY DEF RestsOnLower
<1>3. s \in W
  OBVIOUS
<1> HIDE DEF W, s
<1>4. G \in [W \X (1 .. L + 1) -> W] /\ \A f \in W, k \in 1 .. L + 1 : G[<<f, k>>] = F[f]
  BY <1>1
<1> HIDE DEF G
<1>5. PICK f : Recurs(W, s, L + 1, G, f)
  <2>1. L + 1 \in Nat
    OBVIOUS
  <2> QED
    BY <1>3, <1>4, <2>1, Recursion
<1>6. f \in [0 .. L + 1 -> W] /\ \A k \in 1 .. L + 1 : f[k] = G[<<f[k - 1], k>>]
  BY <1>5 DEF Recurs
<1>7. ASSUME NEW k \in Nat, k <= L PROVE f[k] \in W /\ f[k + 1] = F[f[k]]
  <2>1. k \in 0 .. L + 1 /\ k + 1 \in 1 .. L + 1 /\ (k + 1) - 1 = k
    BY <1>7
  <2>2. f[k] \in W
    BY <1>6, <2>1
  <2>3. f[k + 1] = G[<<f[k], k + 1>>]
    BY <1>6, <2>1
  <2> QED
    BY <1>4, <2>1, <2>2, <2>3
<1> DEFINE Settled(k) == \A n \in N : r[n] <= k => f[k][n] = f[k + 1][n]
           P == {k \in Nat : k <= L => Settled(k)}
<1>8. 0 \in P
  <2>1. \A n \in N : ~(r[n] <= 0)
    <3> TAKE n \in N
    <3>1. r[n] \in 1 .. L
      OBVIOUS
    <3> QED
      BY <3>1
  <2> QED
    BY <2>1
<1>9. ASSUME NEW k \in Nat, k \in P PROVE k + 1 \in P
  <2> SUFFICES ASSUME k + 1 <= L PROVE Settled(k + 1)
    OBVIOUS
  <2>1. k <= L
    OBVIOUS
  <2>2. Settled(k)
    BY <1>9, <2>1
  <2>3. f[k] \in W /\ f[k + 1] = F[f[k]]
    BY <1>7, <2>1
  <2>4. f[k + 1] \in W /\ f[(k + 1) + 1] = F[f[k + 1]]
    <3>1. k + 1 \in Nat
      OBVIOUS
    <3> QED
      BY <1>7, <3>1
  <2>5. ASSUME NEW n \in N, r[n] <= k + 1 PROVE f[k + 1][n] = f[(k + 1) + 1][n]
    <3>1. ASSUME NEW m \in N, r[m] < r[n] PROVE f[k][m] = f[k + 1][m]
      <4>1. r[m] \in Nat /\ r[n] \in Nat
        OBVIOUS
      <4>2. r[m] <= k
        BY <2>5, <3>1, <4>1
      <4> QED
        BY <2>2, <4>2
    <3>2. F[f[k]][n] = F[f[k + 1]][n]
      BY <1>2, <2>3, <2>4, <3>1
    <3> QED
      BY <2>3, <2>4, <3>2
  <2> QED
    BY <2>5
<1> HIDE DEF P
<1>10. L \in P
  BY <1>8, <1>9, Induction
<1>11. Settled(L)
  BY <1>10 DEF P
<1>12. f[L] \in W /\ f[L + 1] = F[f[L]]
  BY <1>7
<1>13. f[L + 1] \in W
  BY <1>1, <1>12
<1>14. \A n \in N : f[L][n] = f[L + 1][n]
  BY <1>11
<1>15. f[L] = f[L + 1]
  BY <1>12, <1>13, <1>14 DEF W
<1> QED
  BY <1>12, <1>15 DEF W

\* What holds of a node when it holds of those of lower rank holds of all nodes.
LEMMA RankInduction ==
  ASSUME NEW N, NEW r \in [N -> Nat], NEW S,
         \A n \in N : (\A m \in N : r[m] < r[n] => m \in S) => n \in S
  PROVE  N \subseteq S
<1> SUFFICES ASSUME N \ S # {} PROVE FALSE
  OBVIOUS
<1> DEFINE T == {r[n] : n \in N \ S}
<1>1. T # {} /\ T \subseteq Nat
  OBVIOUS
<1>2. PICK x \in T : \A y \in T : x <= y
  <2> HIDE DEF T
  <2> QED
    BY <1>1, Least
<1>3. PICK n \in N \ S : x = r[n]
  OBVIOUS
<1>4. ASSUME NEW m \in N, r[m] < r[n] PROVE m \in S
  <2> SUFFICES ASSUME m \notin S PROVE FALSE
    OBVIOUS
  <2>1. r[n] <= r[m]
    BY <1>2, <1>3
  <2>2. r[n] \in Nat /\ r[m] \in Nat
    OBVIOUS
  <2> QED
    BY <1>4, <2>1, <2>2
<1> QED
  BY <1>4

-----------------------------------------------------------------------------
(***************************************************************************)
(* The history of a node.                                                  *)
(***************************************************************************)
LastSet(g, n) == {g.edges[i].source : i \in LastIn(g, n)}

\* LastParents lists the sources of the last edges.
LEMMA LastParentsIs ==
  ASSUME NEW g, IsGraph(g), NEW n
  PROVE  /\ LastParents(g, n) \in Seq(Nodes(g)) /\ ToSet(LastParents(g, n)) = LastSet(g, n)
         /\ LastParents(g, n) = <<>> <=> LastIn(g, n) = {}
<1> DEFINE S == LastIn(g, n)
           Edges == [source : Nodes(g), target : Nodes(g), context : Context]
           e == InOrder(g.edges, S)
           q == LastParents(g, n)
<1>1. S \subseteq Incoming(g, n) /\ Incoming(g, n) \subseteq DOMAIN g.edges
  BY DEF LastIn, Incoming
<1>2. IsFiniteSet(S) /\ S \subseteq Nat /\ \A i \in S : g.edges[i] \in Edges
  <2>1. IsFiniteSet(Incoming(g, n)) /\ S \in SUBSET Incoming(g, n)
    BY <1>1, EdgesFinite
  <2>2. S \subseteq Nat /\ \A i \in S : g.edges[i] \in Edges
    BY <1>1 DEF IsGraph
  <2> HIDE DEF S
  <2>3. IsFiniteSet(S)
    BY <2>1, FS_Subset
  <2> QED
    BY <2>2, <2>3
<1>3. q = [k \in DOMAIN e |-> e[k].source]
  BY DEF LastParents, Sources
<1> HIDE DEF S, Edges, e, q
<1>4. Lists(e, g.edges, S, Edges)
  BY <1>2, InOrderIs DEF e
<1> DEFINE m == Len(e)
<1>5. m \in Nat /\ DOMAIN e = 1 .. m /\ e \in Seq(Edges) /\ \A k \in 1 .. m : e[k] \in Edges
  BY <1>4, LenProperties, ElementOfSeq DEF Lists
<1>6. ToSet(e) = {g.edges[i] : i \in S}
  BY <1>4 DEF Lists
<1> HIDE DEF m
<1>7. q \in [1 .. m -> Nodes(g)]
  BY <1>3, <1>5 DEF Edges
<1>8. q \in Seq(Nodes(g)) /\ Len(q) = m
  BY <1>5, <1>7, SeqDef
<1>9. ToSet(q) = {g.edges[i].source : i \in S}
  <2>1. ToSet(q) = {x.source : x \in ToSet(e)}
    BY <1>3, <1>5 DEF ToSet
  <2> QED
    BY <1>6, <2>1
<1>10. q = <<>> <=> S = {}
  <2>1. q = <<>> <=> m = 0
    BY <1>8, EmptySeq
  <2>2. m = Cardinality(S)
    BY <1>4 DEF Lists, m
  <2> QED
    BY <1>2, <2>1, <2>2, FS_EmptySet
<1> QED
  BY <1>8, <1>9, <1>10 DEF q, S, LastSet

\* FullParent is the source of a full edge.
LEMMA FullParentIs ==
  ASSUME NEW g, IsGraph(g), NEW n, FullIn(g, n) # {}
  PROVE  /\ FullParent(g, n) \in Nodes(g)
         /\ \E i \in FullIn(g, n) : g.edges[i].source = FullParent(g, n)
<1>1. \E i \in FullIn(g, n) : g.edges[i].source = FullParent(g, n)
  BY DEF FullParent
<1>2. \A i \in FullIn(g, n) : g.edges[i].source \in Nodes(g)
  BY DEF FullIn, Incoming, IsGraph
<1> QED
  BY <1>1, <1>2

\* In a valid graph a node has one full edge at most.
LEMMA FullIsOne ==
  ASSUME NEW g, IsGraph(g), Valid(g), NEW n \in Nodes(g), NEW i \in FullIn(g, n)
  PROVE  g.edges[i].source = FullParent(g, n)
<1>1. PICK j \in FullIn(g, n) : g.edges[j].source = FullParent(g, n)
  BY FullParentIs
<1>2. IsFiniteSet(FullIn(g, n))
  <2>1. FullIn(g, n) \in SUBSET Incoming(g, n)
    BY DEF FullIn
  <2> QED
    BY <2>1, EdgesFinite, FS_Subset
<1>3. Cardinality({i, j}) <= Cardinality(FullIn(g, n)) /\ Cardinality({i, j}) \in Nat
  <2>1. {i, j} \in SUBSET FullIn(g, n)
    OBVIOUS
  <2> QED
    BY <1>2, <2>1, FS_Subset, FS_CardinalityType
<1>4. Cardinality(FullIn(g, n)) <= 1 /\ Cardinality(FullIn(g, n)) \in Nat
  BY <1>2, FS_CardinalityType DEF Valid
<1>5. i = j
  <2> SUFFICES ASSUME i # j PROVE FALSE
    OBVIOUS
  <2>1. Cardinality({j}) = 1 /\ IsFiniteSet({j})
    BY FS_Singleton
  <2>2. Cardinality({j} \cup {i}) = 2
    BY <2>1, FS_AddElement
  <2>3. {j} \cup {i} = {i, j}
    OBVIOUS
  <2> QED
    BY <1>3, <1>4, <2>2, <2>3
<1> QED
  BY <1>1, <1>5

\* The rank of the parent a walk goes on to is lower.
LEMMA FullParentIsLower ==
  ASSUME NEW g, IsGraph(g), NEW r, Rises(g, r), NEW n, FullIn(g, n) # {}
  PROVE  r[FullParent(g, n)] < r[n]
<1>1. PICK i \in FullIn(g, n) : g.edges[i].source = FullParent(g, n)
  BY FullParentIs
<1>2. i \in DOMAIN g.edges /\ g.edges[i].target = n
  BY DEF FullIn, Incoming
<1> QED
  BY <1>1, <1>2 DEF Rises

\* What a node adds to the walk.
LEMMA SegmentIs ==
  ASSUME NEW g, IsGraph(g), NEW n \in Nodes(g)
  PROVE  /\ Segment(g, n) \in Seq(Nodes(g)) /\ Segment(g, n) # <<>>
         /\ ToSet(Segment(g, n)) = IF FullIn(g, n) = {} THEN {n} ELSE LastSet(g, n) \cup {n}
<1>1. CASE FullIn(g, n) = {}
  <2>1. Segment(g, n) = <<n>>
    BY <1>1 DEF Segment
  <2>2. <<n>> \in Seq(Nodes(g)) /\ <<n>> # <<>> /\ ToSet(<<n>>) = {n}
    BY DEF ToSet
  <2> QED
    BY <1>1, <2>1, <2>2
<1>2. CASE FullIn(g, n) # {}
  <2> DEFINE q == LastParents(g, n)
  <2>1. q \in Seq(Nodes(g)) /\ ToSet(q) = LastSet(g, n)
    BY LastParentsIs
  <2>2. Segment(g, n) = Append(q, n)
    BY <1>2 DEF Segment
  <2> HIDE DEF q
  <2>3. /\ Append(q, n) \in Seq(Nodes(g)) /\ Len(Append(q, n)) = Len(q) + 1
        /\ \A i \in 1 .. Len(q) : Append(q, n)[i] = q[i]
        /\ Append(q, n)[Len(q) + 1] = n /\ Append(q, n) # <<>>
    BY <2>1, AppendProperties
  <2>4. Len(q) \in Nat /\ DOMAIN q = 1 .. Len(q) /\ DOMAIN Append(q, n) = 1 .. Len(q) + 1
    BY <2>1, <2>3, LenProperties
  <2>6. ToSet(Append(q, n)) = ToSet(q) \cup {n}
    <3>1. \A i \in 1 .. Len(q) + 1 : i \in 1 .. Len(q) \/ i = Len(q) + 1
      BY <2>4
    <3>2. 1 .. Len(q) \subseteq 1 .. Len(q) + 1 /\ Len(q) + 1 \in 1 .. Len(q) + 1
      BY <2>4
    <3>3. ToSet(Append(q, n)) \subseteq ToSet(q) \cup {n}
      BY <2>3, <2>4, <3>1 DEF ToSet
    <3>4. ToSet(q) \cup {n} \subseteq ToSet(Append(q, n))
      BY <2>3, <2>4, <3>2 DEF ToSet
    <3> QED
      BY <3>3, <3>4
  <2> QED
    BY <1>2, <2>1, <2>2, <2>3, <2>6
<1> QED
  BY <1>1, <1>2

\* The walk from a node goes on from its full parent.
Walks(g, f) ==
  /\ f \in [Nodes(g) -> Seq(Nodes(g))]
  /\ \A m \in Nodes(g) :
       f[m] = IF FullIn(g, m) = {} THEN Segment(g, m) ELSE f[FullParent(g, m)] \o Segment(g, m)

\* There is a walk, since it climbs down the ranking.
LEMMA WalkExists ==
  ASSUME NEW g, IsGraph(g), Valid(g)
  PROVE  \E f : Walks(g, f)
<1> DEFINE N == Nodes(g)
           V == Seq(N)
           Step(f, m) == IF FullIn(g, m) = {} THEN Segment(g, m) ELSE f[FullParent(g, m)] \o Segment(g, m)
           F == [f \in [N -> V] |-> [m \in N |-> Step(f, m)]]
<1>1. PICK r \in [N -> 1 .. Len(g.nodes)] : Rises(g, r)
  BY OrderRanks DEF Valid
<1>2. Len(g.nodes) \in Nat
  <2>1. g.nodes \in Seq(Nodes(g))
    BY DEF IsGraph
  <2> QED
    BY <2>1, LenProperties
<1>3. \A m \in N : FullIn(g, m) # {} => FullParent(g, m) \in N /\ r[FullParent(g, m)] < r[m]
  BY <1>1, FullParentIs, FullParentIsLower
<1>4. \A m \in N : Segment(g, m) \in V
  BY SegmentIs
<1>5. ASSUME NEW f \in [N -> V], NEW m \in N PROVE Step(f, m) \in V
  <2>1. CASE FullIn(g, m) = {}
    BY <1>4, <2>1
  <2>2. CASE FullIn(g, m) # {}
    <3>1. f[FullParent(g, m)] \in V
      BY <1>3, <2>2
    <3>2. f[FullParent(g, m)] \o Segment(g, m) \in V
      BY <1>4, <3>1, ConcatProperties
    <3> QED
      BY <2>2, <3>2
  <2> QED
    BY <2>1, <2>2
<1>6. ASSUME NEW f \in [N -> V], NEW h \in [N -> V], NEW m \in N,
             \A x \in N : r[x] < r[m] => f[x] = h[x]
      PROVE  Step(f, m) = Step(h, m)
  <2>1. FullIn(g, m) # {} => f[FullParent(g, m)] = h[FullParent(g, m)]
    BY <1>3, <1>6
  <2> QED
    BY <2>1
<1> HIDE DEF N, V, Step
<1>7. F \in [[N -> V] -> [N -> V]]
  BY <1>5
<1>8. \A f \in [N -> V], m \in N : F[f][m] = Step(f, m)
  OBVIOUS
<1> HIDE DEF F
<1>9. RestsOnLower(N, V, r, F)
  <2>1. \A f, h \in [N -> V] : \A m \in N :
          (\A x \in N : r[x] < r[m] => f[x] = h[x]) => F[f][m] = F[h][m]
    BY <1>6, <1>8
  <2> QED
    BY <1>7, <2>1 DEF RestsOnLower
<1>10. PICK f \in [N -> V] : f = F[f]
  <2>1. <<>> \in V
    BY EmptySeq DEF V
  <2> QED
    BY <1>1, <1>2, <1>9, <2>1, FixedPoint
<1>11. \A m \in N : f[m] = Step(f, m)
  BY <1>8, <1>10
<1>12. Walks(g, f)
  BY <1>11 DEF Walks, N, V, Step
<1> QED
  BY <1>12

\* Any function that meets the equation of the walk is the walk.
LEMMA WalkIsTyped ==
  ASSUME NEW g, IsGraph(g), Valid(g), NEW f,
         f = [m \in Nodes(g) |-> IF FullIn(g, m) = {} THEN Segment(g, m)
                                 ELSE f[FullParent(g, m)] \o Segment(g, m)]
  PROVE  Walks(g, f)
<1> DEFINE N == Nodes(g)
           V == Seq(N)
           S == {m \in N : f[m] \in V}
<1>1. PICK r \in [N -> 1 .. Len(g.nodes)] : Rises(g, r)
  BY OrderRanks DEF Valid
<1>2. r \in [N -> Nat]
  <2>1. g.nodes \in Seq(Nodes(g))
    BY DEF IsGraph
  <2>2. Len(g.nodes) \in Nat
    BY <2>1, LenProperties
  <2> QED
    BY <1>1, <2>2
<1>3. \A m \in N : f[m] = IF FullIn(g, m) = {} THEN Segment(g, m)
                          ELSE f[FullParent(g, m)] \o Segment(g, m)
  OBVIOUS
<1>4. ASSUME NEW m \in N, \A x \in N : r[x] < r[m] => x \in S PROVE m \in S
  <2>1. Segment(g, m) \in V
    BY SegmentIs
  <2>2. CASE FullIn(g, m) = {}
    BY <1>3, <2>1, <2>2
  <2>3. CASE FullIn(g, m) # {}
    <3>1. FullParent(g, m) \in N /\ r[FullParent(g, m)] < r[m]
      BY <1>1, <2>3, FullParentIs, FullParentIsLower
    <3>2. f[FullParent(g, m)] \in V
      BY <1>4, <3>1
    <3>3. f[FullParent(g, m)] \o Segment(g, m) \in V
      BY <2>1, <3>2, ConcatProperties
    <3> QED
      BY <1>3, <2>3, <3>3
  <2> QED
    BY <2>2, <2>3
<1>5. N \subseteq S
  <2> HIDE DEF S, N
  <2> QED
    BY <1>2, <1>4, RankInduction
<1>6. f \in [N -> V]
  <2>1. DOMAIN f = N /\ f = [m \in N |-> f[m]]
    OBVIOUS
  <2>2. \A m \in N : f[m] \in V
    BY <1>5
  <2> HIDE DEF N, V
  <2> QED
    BY <2>1, <2>2
<1> QED
  BY <1>3, <1>6 DEF Walks

\* The history is the walk from the full parent, then the last parents.
Tells(g, f) ==
  Walks(g, f) /\ \A n \in Nodes(g) :
    History(g, n) = IF FullIn(g, n) = {} THEN LastParents(g, n)
                    ELSE f[FullParent(g, n)] \o LastParents(g, n)

\* History reads the walk.
LEMMA HistoryIs ==
  ASSUME NEW g, IsGraph(g), Valid(g)
  PROVE  \E f : Tells(g, f)
<1> DEFINE w == CHOOSE walk : walk =
                  [m \in Nodes(g) |-> IF FullIn(g, m) = {} THEN Segment(g, m)
                                      ELSE walk[FullParent(g, m)] \o Segment(g, m)]
<1>1. \A n : History(g, n) = IF FullIn(g, n) = {} THEN LastParents(g, n)
                             ELSE w[FullParent(g, n)] \o LastParents(g, n)
  BY DEF History
<1>2. PICK f : Walks(g, f)
  BY WalkExists
<1>3. f = [m \in Nodes(g) |-> IF FullIn(g, m) = {} THEN Segment(g, m)
                              ELSE f[FullParent(g, m)] \o Segment(g, m)]
  BY <1>2 DEF Walks
<1>4. w = [m \in Nodes(g) |-> IF FullIn(g, m) = {} THEN Segment(g, m)
                              ELSE w[FullParent(g, m)] \o Segment(g, m)]
  BY <1>3
<1> HIDE DEF w
<1>5. Walks(g, w)
  BY <1>4, WalkIsTyped
<1>6. Tells(g, w)
  BY <1>1, <1>5 DEF Tells
<1> QED
  BY <1>6

\* What the walk lists, node by node.
LEMMA WalkMembers ==
  ASSUME NEW g, IsGraph(g), NEW f, Walks(g, f), NEW m \in Nodes(g)
  PROVE  /\ f[m] # <<>>
         /\ FullIn(g, m) = {} => ToSet(f[m]) = {m}
         /\ FullIn(g, m) # {} => ToSet(f[m]) = ToSet(f[FullParent(g, m)]) \cup LastSet(g, m) \cup {m}
<1>1. /\ Segment(g, m) \in Seq(Nodes(g)) /\ Segment(g, m) # <<>>
      /\ ToSet(Segment(g, m)) = IF FullIn(g, m) = {} THEN {m} ELSE LastSet(g, m) \cup {m}
  BY SegmentIs
<1>2. f[m] = IF FullIn(g, m) = {} THEN Segment(g, m) ELSE f[FullParent(g, m)] \o Segment(g, m)
  BY DEF Walks
<1>3. CASE FullIn(g, m) = {}
  BY <1>1, <1>2, <1>3
<1>4. CASE FullIn(g, m) # {}
  <2> DEFINE q == f[FullParent(g, m)]
  <2>1. q \in Seq(Nodes(g))
    BY <1>4, FullParentIs DEF Walks
  <2> HIDE DEF q
  <2>2. /\ ToSet(q \o Segment(g, m)) = ToSet(q) \cup ToSet(Segment(g, m))
        /\ q \o Segment(g, m) # <<>>
    BY <1>1, <2>1, BothMembers
  <2> QED
    BY <1>1, <1>2, <1>4, <2>2 DEF q
<1> QED
  BY <1>3, <1>4

\* What the history lists; it lists nothing only where no edge carries anything.
LEMMA HistoryMembers ==
  ASSUME NEW g, IsGraph(g), NEW f, Tells(g, f), NEW n \in Nodes(g)
  PROVE  /\ History(g, n) = <<>> <=> FullIn(g, n) = {} /\ LastIn(g, n) = {}
         /\ FullIn(g, n) = {} => ToSet(History(g, n)) = LastSet(g, n)
         /\ FullIn(g, n) # {} => ToSet(History(g, n)) = ToSet(f[FullParent(g, n)]) \cup LastSet(g, n)
<1>1. Walks(g, f)
  BY DEF Tells
<1>2. History(g, n) = IF FullIn(g, n) = {} THEN LastParents(g, n)
                      ELSE f[FullParent(g, n)] \o LastParents(g, n)
  BY DEF Tells
<1>3. /\ LastParents(g, n) \in Seq(Nodes(g)) /\ ToSet(LastParents(g, n)) = LastSet(g, n)
      /\ LastParents(g, n) = <<>> <=> LastIn(g, n) = {}
  BY LastParentsIs
<1>4. CASE FullIn(g, n) = {}
  BY <1>2, <1>3, <1>4
<1>5. CASE FullIn(g, n) # {}
  <2> DEFINE q == f[FullParent(g, n)]
  <2>1. FullParent(g, n) \in Nodes(g)
    BY <1>5, FullParentIs
  <2>2. q \in Seq(Nodes(g)) /\ q # <<>>
    BY <1>1, <2>1, WalkMembers DEF Walks
  <2> HIDE DEF q
  <2>3. /\ ToSet(q \o LastParents(g, n)) = ToSet(q) \cup ToSet(LastParents(g, n))
        /\ q \o LastParents(g, n) # <<>>
    BY <1>3, <2>2, BothMembers
  <2> QED
    BY <1>2, <1>3, <1>5, <2>3 DEF q
<1> QED
  BY <1>4, <1>5

\* The ranking of a valid graph.
LEMMA RankOf ==
  ASSUME NEW g, IsGraph(g), Valid(g)
  PROVE  /\ Len(g.nodes) \in Nat
         /\ \E r \in [Nodes(g) -> 1 .. Len(g.nodes)] : r \in [Nodes(g) -> Nat] /\ Rises(g, r)
<1>1. Len(g.nodes) \in Nat
  <2>1. g.nodes \in Seq(Nodes(g))
    BY DEF IsGraph
  <2> QED
    BY <2>1, LenProperties
<1>2. PICK r \in [Nodes(g) -> 1 .. Len(g.nodes)] : Rises(g, r)
  BY OrderRanks DEF Valid
<1>3. r \in [Nodes(g) -> Nat]
  BY <1>1
<1> QED
  BY <1>1, <1>2, <1>3

\* A set with the parents of all its members, and of n, has the history of n.
LEMMA HistoryStaysWithin ==
  ASSUME NEW g, IsGraph(g), Valid(g), NEW C, \A m \in C : ParentsOf(g, m) \subseteq C,
         NEW n \in Nodes(g), ParentsOf(g, n) \subseteq C
  PROVE  ToSet(History(g, n)) \subseteq C
<1>1. PICK f : Tells(g, f)
  BY HistoryIs
<1>2. Walks(g, f)
  BY <1>1 DEF Tells
<1>3. PICK r \in [Nodes(g) -> 1 .. Len(g.nodes)] : r \in [Nodes(g) -> Nat] /\ Rises(g, r)
  BY RankOf
<1> DEFINE N == Nodes(g)
           S == {m \in N : m \in C => ToSet(f[m]) \subseteq C}
<1>4. \A m \in N : LastSet(g, m) \subseteq ParentsOf(g, m)
  BY DEF LastSet, LastIn, ParentsOf
<1>5. ASSUME NEW m \in N, FullIn(g, m) # {}
      PROVE  FullParent(g, m) \in N /\ FullParent(g, m) \in ParentsOf(g, m) /\ r[FullParent(g, m)] < r[m]
  <2>1. FullParent(g, m) \in N /\ \E i \in FullIn(g, m) : g.edges[i].source = FullParent(g, m)
    BY <1>5, FullParentIs
  <2>2. FullParent(g, m) \in ParentsOf(g, m)
    BY <2>1 DEF FullIn, ParentsOf
  <2>3. r[FullParent(g, m)] < r[m]
    BY <1>3, <1>5, FullParentIsLower
  <2> QED
    BY <2>1, <2>2, <2>3
<1>6. ASSUME NEW m \in N, \A x \in N : r[x] < r[m] => x \in S PROVE m \in S
  <2> SUFFICES ASSUME m \in C PROVE ToSet(f[m]) \subseteq C
    OBVIOUS
  <2>1. CASE FullIn(g, m) = {}
    <3>1. ToSet(f[m]) = {m}
      BY <1>2, <2>1, WalkMembers
    <3> QED
      BY <3>1
  <2>2. CASE FullIn(g, m) # {}
    <3>1. ToSet(f[m]) = ToSet(f[FullParent(g, m)]) \cup LastSet(g, m) \cup {m}
      BY <1>2, <2>2, WalkMembers
    <3>2. FullParent(g, m) \in S /\ FullParent(g, m) \in C
      BY <1>5, <1>6, <2>2
    <3>3. ToSet(f[FullParent(g, m)]) \subseteq C
      BY <3>2
    <3>4. LastSet(g, m) \subseteq C
      BY <1>4
    <3> QED
      BY <3>1, <3>3, <3>4
  <2> QED
    BY <2>1, <2>2
<1>7. N \subseteq S
  <2> HIDE DEF N, S
  <2> QED
    BY <1>3, <1>6, RankInduction DEF N
<1>8. LastSet(g, n) \subseteq C
  BY <1>4
<1>9. CASE FullIn(g, n) = {}
  <2>1. ToSet(History(g, n)) = LastSet(g, n)
    BY <1>1, <1>9, HistoryMembers
  <2> QED
    BY <1>8, <2>1
<1>10. CASE FullIn(g, n) # {}
  <2>1. ToSet(History(g, n)) = ToSet(f[FullParent(g, n)]) \cup LastSet(g, n)
    BY <1>1, <1>10, HistoryMembers
  <2>2. ToSet(f[FullParent(g, n)]) \subseteq C
    BY <1>5, <1>7, <1>10
  <2> QED
    BY <1>8, <2>1, <2>2
<1> QED
  BY <1>9, <1>10

-----------------------------------------------------------------------------
(***************************************************************************)
(* What the edges carry.  A path along full edges climbs in rank, so it is *)
(* shorter than the rank of the node it leads to.                          *)
(***************************************************************************)
FullPath(g, m, n, k, path) ==
  /\ path[1] = m
  /\ \A j \in 1 .. k : \E i \in FullIn(g, IF j = k THEN n ELSE path[j + 1]) :
       g.edges[i].source = path[j]

\* Its length is below the rank of its end.
LEMMA PathIsShort ==
  ASSUME NEW g, IsGraph(g), NEW r \in [Nodes(g) -> 1 .. Len(g.nodes)], Len(g.nodes) \in Nat,
         Rises(g, r), NEW m, NEW n \in Nodes(g), NEW k \in Nat \ {0},
         NEW path \in [1 .. k -> Nodes(g)], FullPath(g, m, n, k, path)
  PROVE  k < r[n]
<1>1. \A x \in Nodes(g) : r[x] \in Nat /\ r[x] >= 1
  OBVIOUS
<1>2. ASSUME NEW j \in 1 .. k
      PROVE  r[path[j]] < r[IF j = k THEN n ELSE path[j + 1]]
  <2>1. PICK i \in FullIn(g, IF j = k THEN n ELSE path[j + 1]) : g.edges[i].source = path[j]
    BY DEF FullPath
  <2>2. i \in DOMAIN g.edges /\ g.edges[i].target = IF j = k THEN n ELSE path[j + 1]
    BY DEF FullIn, Incoming
  <2> QED
    BY <2>1, <2>2 DEF Rises
<1> DEFINE S == {j \in Nat : j \in 1 .. k => j <= r[path[j]]}
<1>3. 0 \in S
  OBVIOUS
<1>4. ASSUME NEW j \in Nat, j \in S PROVE j + 1 \in S
  <2> SUFFICES ASSUME j + 1 \in 1 .. k PROVE j + 1 <= r[path[j + 1]]
    OBVIOUS
  <2>1. path[j + 1] \in Nodes(g)
    OBVIOUS
  <2>2. CASE j = 0
    BY <1>1, <2>1, <2>2
  <2>3. CASE j # 0
    <3>1. j \in 1 .. k /\ j # k
      BY <2>3
    <3>2. r[path[j]] < r[path[j + 1]]
      BY <1>2, <3>1
    <3>3. j <= r[path[j]]
      BY <1>4, <3>1
    <3>4. r[path[j]] \in Nat /\ r[path[j + 1]] \in Nat
      BY <1>1, <2>1, <3>1
    <3> QED
      BY <3>2, <3>3, <3>4
  <2> QED
    BY <2>2, <2>3
<1>5. Nat \subseteq S
  <2> HIDE DEF S
  <2> QED
    BY <1>3, <1>4, Induction
<1>6. k \in 1 .. k
  OBVIOUS
<1>7. k <= r[path[k]]
  BY <1>5, <1>6
<1>8. r[path[k]] < r[n]
  BY <1>2, <1>6
<1>9. r[path[k]] \in Nat /\ r[n] \in Nat
  BY <1>1, <1>6
<1> QED
  BY <1>7, <1>8, <1>9

FullAncestors(g, n) == {m \in Nodes(g) : FullAncestor(g, m, n)}

\* An ancestor is where such a path begins.
LEMMA AncestorIs ==
  ASSUME NEW g, NEW m, NEW n
  PROVE  FullAncestor(g, m, n) <=>
           \E k \in 1 .. Len(g.nodes) : \E path \in [1 .. k -> Nodes(g)] : FullPath(g, m, n, k, path)
BY DEF FullAncestor, FullPath

\* The ancestors of a node are its full parent and the ancestors of that one.
LEMMA AncestorsAre ==
  ASSUME NEW g, IsGraph(g), Valid(g), NEW n \in Nodes(g)
  PROVE  /\ FullIn(g, n) = {} => FullAncestors(g, n) = {}
         /\ FullIn(g, n) # {} =>
              FullAncestors(g, n) = FullAncestors(g, FullParent(g, n)) \cup {FullParent(g, n)}
<1> DEFINE L == Len(g.nodes)
           p == FullParent(g, n)
<1>1. L \in Nat
  BY RankOf
<1>2. PICK r \in [Nodes(g) -> 1 .. L] : r \in [Nodes(g) -> Nat] /\ Rises(g, r)
  BY RankOf
<1> HIDE DEF L
<1>3. ASSUME NEW m \in FullAncestors(g, n)
      PROVE  FullIn(g, n) # {} /\ m \in FullAncestors(g, p) \cup {p}
  <2>1. m \in Nodes(g) /\ FullAncestor(g, m, n)
    BY DEF FullAncestors
  <2>2. PICK k \in 1 .. L : \E path \in [1 .. k -> Nodes(g)] : FullPath(g, m, n, k, path)
    BY <2>1, AncestorIs DEF L
  <2>3. PICK path \in [1 .. k -> Nodes(g)] : FullPath(g, m, n, k, path)
    BY <2>2
  <2>4. k \in Nat /\ k \in 1 .. k /\ 1 <= k /\ k <= L
    BY <1>1
  <2>5. PICK i \in FullIn(g, n) : g.edges[i].source = path[k]
    BY <2>3, <2>4 DEF FullPath
  <2>6. path[k] = p
    BY <2>5, FullIsOne
  <2>7. CASE k = 1
    <3>1. m = path[1]
      BY <2>3 DEF FullPath
    <3> QED
      BY <2>5, <2>6, <2>7, <3>1
  <2>8. CASE k # 1
    <3> DEFINE q == [j \in 1 .. k - 1 |-> path[j]]
    <3>1. k - 1 \in 1 .. L /\ 1 \in 1 .. k - 1 /\ \A j \in 1 .. k - 1 : j \in 1 .. k /\ j # k
      BY <1>1, <2>4, <2>8
    <3>2. q \in [1 .. k - 1 -> Nodes(g)]
      BY <3>1
    <3>3. q[1] = m
      BY <2>3, <3>1 DEF FullPath
    <3>4. ASSUME NEW j \in 1 .. k - 1
          PROVE  \E h \in FullIn(g, IF j = k - 1 THEN p ELSE q[j + 1]) : g.edges[h].source = q[j]
      <4>1. \E h \in FullIn(g, path[j + 1]) : g.edges[h].source = path[j]
        BY <2>3, <3>1 DEF FullPath
      <4>2. CASE j = k - 1
        <5>1. j + 1 = k
          BY <2>4, <4>2
        <5> QED
          BY <2>6, <4>1, <4>2, <5>1
      <4>3. CASE j # k - 1
        <5>1. j + 1 \in 1 .. k - 1
          BY <2>4, <4>3
        <5> QED
          BY <4>1, <4>3, <5>1
      <4> QED
        BY <4>2, <4>3
    <3> HIDE DEF q
    <3>5. FullPath(g, m, p, k - 1, q)
      BY <3>3, <3>4 DEF FullPath
    <3>6. FullAncestor(g, m, p)
      BY <3>1, <3>2, <3>5, AncestorIs DEF L
    <3> QED
      BY <2>1, <2>5, <3>6 DEF FullAncestors
  <2> QED
    BY <2>7, <2>8
<1>4. ASSUME FullIn(g, n) # {} PROVE p \in FullAncestors(g, n)
  <2>1. p \in Nodes(g) /\ \E i \in FullIn(g, n) : g.edges[i].source = p
    BY <1>4, FullParentIs
  <2> DEFINE q == [j \in 1 .. 1 |-> p]
  <2>2. q \in [1 .. 1 -> Nodes(g)] /\ q[1] = p
    BY <2>1
  <2>3. \A j \in 1 .. 1 : j = 1
    OBVIOUS
  <2> HIDE DEF q
  <2>4. FullPath(g, p, n, 1, q)
    BY <2>1, <2>2, <2>3 DEF FullPath
  <2>5. 1 \in 1 .. L
    BY <1>1, <1>2
  <2>6. FullAncestor(g, p, n)
    BY <2>2, <2>4, <2>5, AncestorIs DEF L
  <2> QED
    BY <2>1, <2>6 DEF FullAncestors
<1>5. ASSUME FullIn(g, n) # {}, NEW m \in FullAncestors(g, p) PROVE m \in FullAncestors(g, n)
  <2>1. m \in Nodes(g) /\ FullAncestor(g, m, p)
    BY DEF FullAncestors
  <2>2. PICK k \in 1 .. L : \E path \in [1 .. k -> Nodes(g)] : FullPath(g, m, p, k, path)
    BY <2>1, AncestorIs DEF L
  <2>3. PICK path \in [1 .. k -> Nodes(g)] : FullPath(g, m, p, k, path)
    BY <2>2
  <2>4. p \in Nodes(g) /\ \E i \in FullIn(g, n) : g.edges[i].source = p
    BY <1>5, FullParentIs
  <2>5. k \in Nat /\ 1 <= k /\ k + 1 \in Nat \ {0} /\ 1 \in 1 .. k
    BY <1>1
  <2> DEFINE q == [j \in 1 .. k + 1 |-> IF j = k + 1 THEN p ELSE path[j]]
  <2>6. \A j \in 1 .. k + 1 : j = k + 1 \/ j \in 1 .. k
    BY <2>5
  <2>7. \A j \in 1 .. k : j \in 1 .. k + 1 /\ j # k + 1 /\ j + 1 \in 1 .. k + 1
    BY <2>5
  <2>8. q \in [1 .. k + 1 -> Nodes(g)]
    BY <2>4, <2>6
  <2>9. q[k + 1] = p /\ \A j \in 1 .. k : q[j] = path[j]
    BY <2>5, <2>7
  <2> HIDE DEF q
  <2>10. q[1] = m
    BY <2>3, <2>5, <2>9 DEF FullPath
  <2>11. ASSUME NEW j \in 1 .. k + 1
         PROVE  \E i \in FullIn(g, IF j = k + 1 THEN n ELSE q[j + 1]) : g.edges[i].source = q[j]
    <3>1. CASE j = k + 1
      BY <2>4, <2>9, <3>1
    <3>2. CASE j # k + 1
      <4>1. j \in 1 .. k
        BY <2>6, <3>2
      <4>2. \E i \in FullIn(g, IF j = k THEN p ELSE path[j + 1]) : g.edges[i].source = path[j]
        BY <2>3, <4>1 DEF FullPath
      <4>3. (IF j = k THEN p ELSE path[j + 1]) = q[j + 1]
        <5>1. j # k => j + 1 \in 1 .. k
          BY <2>5, <4>1
        <5> QED
          BY <2>9, <5>1
      <4> QED
        BY <2>9, <3>2, <4>1, <4>2, <4>3
    <3> QED
      BY <3>1, <3>2
  <2>12. FullPath(g, m, n, k + 1, q)
    BY <2>10, <2>11 DEF FullPath
  <2>13. k + 1 < r[n]
    BY <1>1, <1>2, <2>5, <2>8, <2>12, PathIsShort DEF L
  <2>14. k + 1 \in 1 .. L
    <3>1. r[n] \in 1 .. L
      BY <1>2
    <3> QED
      BY <1>1, <2>5, <2>13, <3>1
  <2>15. FullAncestor(g, m, n)
    BY <2>8, <2>12, <2>14, AncestorIs DEF L
  <2> QED
    BY <2>1, <2>15 DEF FullAncestors
<1> QED
  BY <1>3, <1>4, <1>5

\* The last parents of those in M that the walk goes on from.
Merged(g, M) == UNION {LastSet(g, m) : m \in {x \in M : FullIn(g, x) # {}}}

\* Carried, in these words.
LEMMA CarriedIs ==
  ASSUME NEW g, NEW n
  PROVE  Carried(g, n) = FullAncestors(g, n) \cup Merged(g, FullAncestors(g, n)) \cup LastSet(g, n)
BY DEF Carried, FullAncestors, Merged, LastSet

\* The walk from a node lists it, its ancestors along full edges, and their last parents.
LEMMA WalkIsCarried ==
  ASSUME NEW g, IsGraph(g), Valid(g), NEW f, Walks(g, f), NEW n \in Nodes(g)
  PROVE  ToSet(f[n]) = LET M == FullAncestors(g, n) \cup {n} IN M \cup Merged(g, M)
<1> DEFINE N == Nodes(g)
           All(m) == FullAncestors(g, m) \cup {m}
           S == {m \in N : ToSet(f[m]) = All(m) \cup Merged(g, All(m))}
<1>1. PICK r \in [N -> 1 .. Len(g.nodes)] : r \in [N -> Nat] /\ Rises(g, r)
  BY RankOf
<1>2. ASSUME NEW m \in N, \A x \in N : r[x] < r[m] => x \in S PROVE m \in S
  <2>1. CASE FullIn(g, m) = {}
    <3>1. ToSet(f[m]) = {m}
      BY <2>1, WalkMembers
    <3>2. All(m) = {m}
      BY <2>1, AncestorsAre
    <3>3. Merged(g, {m}) = {}
      BY <2>1 DEF Merged
    <3> QED
      BY <3>1, <3>2, <3>3
  <2>2. CASE FullIn(g, m) # {}
    <3> DEFINE p == FullParent(g, m)
    <3>1. ToSet(f[m]) = ToSet(f[p]) \cup LastSet(g, m) \cup {m}
      BY <2>2, WalkMembers
    <3>2. p \in N /\ r[p] < r[m]
      BY <1>1, <2>2, FullParentIs, FullParentIsLower
    <3>3. ToSet(f[p]) = All(p) \cup Merged(g, All(p))
      BY <1>2, <3>2
    <3>4. All(m) = All(p) \cup {m}
      BY <2>2, AncestorsAre
    <3>5. Merged(g, All(m)) = Merged(g, All(p)) \cup LastSet(g, m)
      <4> HIDE DEF All
      <4> QED
        BY <2>2, <3>4 DEF Merged
    <3> HIDE DEF All, p
    <3>6. ToSet(f[m]) = All(m) \cup Merged(g, All(m))
      BY <3>1, <3>3, <3>4, <3>5
    <3> QED
      BY <3>6
  <2> QED
    BY <2>1, <2>2
<1>3. N \subseteq S
  <2> HIDE DEF N, S
  <2> QED
    BY <1>1, <1>2, RankInduction DEF N
<1> QED
  BY <1>3

\* The history of a node lists what its edges carry.
LEMMA HistoryCarries ==
  ASSUME NEW g, IsGraph(g), Valid(g), NEW n \in Nodes(g)
  PROVE  ToSet(History(g, n)) = Carried(g, n)
<1> DEFINE A == FullAncestors(g, n)
           p == FullParent(g, n)
           B == FullAncestors(g, p) \cup {p}
<1>1. PICK f : Tells(g, f)
  BY HistoryIs
<1>2. Walks(g, f)
  BY <1>1 DEF Tells
<1>3. Carried(g, n) = A \cup Merged(g, A) \cup LastSet(g, n)
  BY CarriedIs
<1>4. CASE FullIn(g, n) = {}
  <2>1. ToSet(History(g, n)) = LastSet(g, n)
    BY <1>1, <1>4, HistoryMembers
  <2>2. A = {}
    BY <1>4, AncestorsAre
  <2>3. Merged(g, {}) = {}
    BY DEF Merged
  <2> QED
    BY <1>3, <2>1, <2>2, <2>3
<1>5. CASE FullIn(g, n) # {}
  <2>1. ToSet(History(g, n)) = ToSet(f[p]) \cup LastSet(g, n)
    BY <1>1, <1>5, HistoryMembers
  <2>2. p \in Nodes(g)
    BY <1>5, FullParentIs
  <2>3. ToSet(f[p]) = B \cup Merged(g, B)
    <3> HIDE DEF p
    <3> QED
      BY <1>2, <2>2, WalkIsCarried
  <2>4. A = B
    BY <1>5, AncestorsAre
  <2> HIDE DEF A, B, p
  <2> QED
    BY <1>3, <2>1, <2>3, <2>4
<1> QED
  BY <1>4, <1>5

-----------------------------------------------------------------------------
(***************************************************************************)
(* The turn index.                                                         *)
(***************************************************************************)
Parts(g, d, m) ==
  {Contribution(g, i, IF g.edges[i].context = "full" THEN d[g.edges[i].source] ELSE 0) :
     i \in Incoming(g, m)}
Depth(g, d, m) == IF Parts(g, d, m) = {} THEN 0 ELSE Max(Parts(g, d, m))

\* The greatest of a finite nonempty set of numbers.
LEMMA MaxIs ==
  ASSUME NEW M, M \subseteq Nat, IsFiniteSet(M), M # {}
  PROVE  Max(M) \in M /\ \A x \in M : x <= Max(M)
<1>1. \E i \in M : \A j \in M : i >= j
  BY Greatest
<1>2. Max(M) \in M /\ \A j \in M : Max(M) >= j
  BY <1>1 DEF Max
<1> QED
  BY <1>2

\* What the depth of a node is, given those of its full parents.
LEMMA DepthIs ==
  ASSUME NEW g, IsGraph(g), NEW m \in Nodes(g), NEW d,
         \A i \in FullIn(g, m) : d[g.edges[i].source] \in Nat
  PROVE  /\ Depth(g, d, m) \in Nat
         /\ Depth(g, d, m) = 0 <=> FullIn(g, m) = {} /\ LastIn(g, m) = {}
<1> DEFINE C(i) == Contribution(g, i, IF g.edges[i].context = "full" THEN d[g.edges[i].source] ELSE 0)
           P == Parts(g, d, m)
<1>1. P = {C(i) : i \in Incoming(g, m)}
  BY DEF Parts
<1>2. ASSUME NEW i \in Incoming(g, m)
      PROVE  C(i) \in Nat /\ (C(i) = 0 <=> i \notin FullIn(g, m) /\ i \notin LastIn(g, m))
  <2>1. g.edges[i].context \in Context
    BY DEF Incoming, IsGraph
  <2>2. CASE g.edges[i].context = "full"
    <3>1. i \in FullIn(g, m) /\ d[g.edges[i].source] \in Nat
      BY <2>2 DEF FullIn
    <3>2. C(i) = d[g.edges[i].source] + 1
      BY <2>2 DEF Contribution
    <3> QED
      BY <3>1, <3>2
  <2>3. CASE g.edges[i].context = "last"
    <3>1. i \in LastIn(g, m) /\ C(i) = 1
      BY <2>3 DEF LastIn, Contribution
    <3> QED
      BY <3>1
  <2>4. CASE g.edges[i].context = "new"
    <3>1. i \notin LastIn(g, m) /\ i \notin FullIn(g, m) /\ C(i) = 0
      BY <2>4 DEF LastIn, FullIn, Contribution
    <3> QED
      BY <3>1
  <2> QED
    BY <2>1, <2>2, <2>3, <2>4 DEF Context
<1>3. IsFiniteSet(P)
  <2>1. IsFiniteSet(Incoming(g, m))
    BY EdgesFinite
  <2> DEFINE h == [i \in Incoming(g, m) |-> C(i)]
  <2>2. h \in Surjection(Incoming(g, m), P)
    <3> HIDE DEF C
    <3> QED
      BY <1>1 DEF Surjection
  <2> HIDE DEF h, P
  <2> QED
    BY <2>1, <2>2, FS_Surjection
<1>4. FullIn(g, m) \subseteq Incoming(g, m) /\ LastIn(g, m) \subseteq Incoming(g, m)
  BY DEF FullIn, LastIn
<1> HIDE DEF C, P
<1>5. P \subseteq Nat
  BY <1>1, <1>2
<1>6. Depth(g, d, m) = IF P = {} THEN 0 ELSE Max(P)
  BY DEF Depth, P
<1>7. CASE P = {}
  <2>1. Incoming(g, m) = {}
    BY <1>1, <1>7
  <2> QED
    BY <1>4, <1>6, <1>7, <2>1
<1>8. CASE P # {}
  <2>1. Max(P) \in P /\ \A x \in P : x <= Max(P)
    BY <1>3, <1>5, <1>8, MaxIs
  <2>2. Depth(g, d, m) = Max(P) /\ Max(P) \in Nat
    BY <1>5, <1>6, <1>8, <2>1
  <2>3. ASSUME Max(P) = 0 PROVE FullIn(g, m) = {} /\ LastIn(g, m) = {}
    <3>1. \A i \in Incoming(g, m) : C(i) = 0
      <4> TAKE i \in Incoming(g, m)
      <4>1. C(i) \in P /\ C(i) \in Nat
        BY <1>1, <1>2
      <4> QED
        BY <2>1, <2>3, <4>1
    <3> QED
      BY <1>2, <1>4, <3>1
  <2>4. ASSUME FullIn(g, m) = {}, LastIn(g, m) = {} PROVE Max(P) = 0
    BY <1>1, <1>2, <2>1, <2>4
  <2> QED
    BY <2>2, <2>3, <2>4
<1> QED
  BY <1>7, <1>8

\* There are such depths, since they rest on those of lower rank.
LEMMA DepthExists ==
  ASSUME NEW g, IsGraph(g), Valid(g)
  PROVE  \E d \in [Nodes(g) -> Nat] : d = [m \in Nodes(g) |-> Depth(g, d, m)]
<1> DEFINE N == Nodes(g)
           F == [d \in [N -> Nat] |-> [m \in N |-> Depth(g, d, m)]]
<1>1. Len(g.nodes) \in Nat
  BY RankOf
<1>2. PICK r \in [N -> 1 .. Len(g.nodes)] : Rises(g, r)
  BY RankOf
<1>3. \A m \in N : \A i \in FullIn(g, m) :
        g.edges[i].source \in N /\ r[g.edges[i].source] < r[m]
  <2>1. \A m \in N : \A i \in FullIn(g, m) : i \in DOMAIN g.edges /\ g.edges[i].target = m
    BY DEF FullIn, Incoming
  <2> QED
    BY <1>2, <2>1 DEF IsGraph, Rises
<1> HIDE DEF N
<1>4. ASSUME NEW d \in [N -> Nat], NEW m \in N PROVE Depth(g, d, m) \in Nat
  <2>1. \A i \in FullIn(g, m) : d[g.edges[i].source] \in Nat
    BY <1>3
  <2> QED
    BY <2>1, DepthIs DEF N
<1>5. ASSUME NEW d \in [N -> Nat], NEW h \in [N -> Nat], NEW m \in N,
             \A x \in N : r[x] < r[m] => d[x] = h[x]
      PROVE  Depth(g, d, m) = Depth(g, h, m)
  <2>1. \A i \in FullIn(g, m) : d[g.edges[i].source] = h[g.edges[i].source]
    BY <1>3, <1>5
  <2>2. \A i \in Incoming(g, m) :
          (IF g.edges[i].context = "full" THEN d[g.edges[i].source] ELSE 0)
            = (IF g.edges[i].context = "full" THEN h[g.edges[i].source] ELSE 0)
    BY <2>1 DEF FullIn
  <2>3. Parts(g, d, m) = Parts(g, h, m)
    BY <2>2 DEF Parts
  <2> QED
    BY <2>3 DEF Depth
<1>6. F \in [[N -> Nat] -> [N -> Nat]] /\ \A d \in [N -> Nat], m \in N : F[d][m] = Depth(g, d, m)
  BY <1>4
<1> HIDE DEF F
<1>7. RestsOnLower(N, Nat, r, F)
  <2>1. \A d, h \in [N -> Nat] : \A m \in N :
          (\A x \in N : r[x] < r[m] => d[x] = h[x]) => F[d][m] = F[h][m]
    <3> SUFFICES ASSUME NEW d \in [N -> Nat], NEW h \in [N -> Nat], NEW m \in N,
                        \A x \in N : r[x] < r[m] => d[x] = h[x]
                 PROVE  F[d][m] = F[h][m]
      OBVIOUS
    <3>1. Depth(g, d, m) = Depth(g, h, m)
      BY <1>5
    <3>2. F[d][m] = Depth(g, d, m) /\ F[h][m] = Depth(g, h, m)
      BY <1>6
    <3> QED
      BY <3>1, <3>2
  <2> QED
    BY <1>6, <2>1 DEF RestsOnLower
<1>8. PICK d \in [N -> Nat] : d = F[d]
  <2> DEFINE V == Nat
             L == Len(g.nodes)
  <2>1. 0 \in V /\ L \in Nat /\ r \in [N -> 1 .. L] /\ RestsOnLower(N, V, r, F)
    BY <1>1, <1>2, <1>7
  <2> HIDE DEF V, L
  <2>2. \E d \in [N -> V] : d = F[d]
    BY <2>1, FixedPoint
  <2> QED
    BY <2>2 DEF V
<1>9. \A m \in N : d[m] = Depth(g, d, m)
  BY <1>6, <1>8
<1>10. d = [m \in N |-> Depth(g, d, m)]
  BY <1>9
<1> QED
  BY <1>10 DEF N

\* The turn index is zero exactly where no edge carries anything.
LEMMA TurnIndexIs ==
  ASSUME NEW g, IsGraph(g), Valid(g), NEW n \in Nodes(g)
  PROVE  TurnIndex(g, n) \in Nat /\ (TurnIndex(g, n) = 0 <=> FullIn(g, n) = {} /\ LastIn(g, n) = {})
<1> DEFINE N == Nodes(g)
           w == CHOOSE depth : depth =
                  [m \in Nodes(g) |->
                     IF {Contribution(g, i, IF g.edges[i].context = "full"
                                            THEN depth[g.edges[i].source] ELSE 0) :
                           i \in Incoming(g, m)} = {}
                     THEN 0
                     ELSE Max({Contribution(g, i, IF g.edges[i].context = "full"
                                                  THEN depth[g.edges[i].source] ELSE 0) :
                                 i \in Incoming(g, m)})]
           S == {m \in N : w[m] \in Nat}
<1>1. TurnIndex(g, n) = w[n]
  BY DEF TurnIndex
<1>2. PICK d \in [Nodes(g) -> Nat] : d = [m \in Nodes(g) |-> Depth(g, d, m)]
  BY DepthExists
<1>3. w = [m \in Nodes(g) |-> Depth(g, w, m)]
  BY <1>2 DEF Depth, Parts
<1> HIDE DEF w
<1>4. \A m \in N : w[m] = Depth(g, w, m)
  BY <1>3
<1>5. PICK r \in [N -> 1 .. Len(g.nodes)] : r \in [N -> Nat] /\ Rises(g, r)
  BY RankOf
<1>6. \A m \in N : \A i \in FullIn(g, m) :
        g.edges[i].source \in N /\ r[g.edges[i].source] < r[m]
  <2>1. \A m \in N : \A i \in FullIn(g, m) : i \in DOMAIN g.edges /\ g.edges[i].target = m
    BY DEF FullIn, Incoming
  <2> QED
    BY <1>5, <2>1 DEF IsGraph, Rises
<1>7. ASSUME NEW m \in N, \A x \in N : r[x] < r[m] => x \in S PROVE m \in S
  <2>1. \A i \in FullIn(g, m) : w[g.edges[i].source] \in Nat
    BY <1>6, <1>7
  <2>2. Depth(g, w, m) \in Nat
    BY <2>1, DepthIs
  <2> QED
    BY <1>4, <2>2
<1>8. N \subseteq S
  <2> HIDE DEF N, S
  <2> QED
    BY <1>5, <1>7, RankInduction DEF N
<1>9. \A i \in FullIn(g, n) : w[g.edges[i].source] \in Nat
  BY <1>6, <1>8
<1>10. Depth(g, w, n) \in Nat /\ (Depth(g, w, n) = 0 <=> FullIn(g, n) = {} /\ LastIn(g, n) = {})
  BY <1>9, DepthIs
<1> QED
  BY <1>1, <1>4, <1>10

-----------------------------------------------------------------------------
(***************************************************************************)
(* The histories of an execution.  Its graph is the one that was           *)
(* dispatched; all the rest follows from the graph and from ParentsFirst.  *)
(***************************************************************************)
GraphIsDispatched == source \in Graphs /\ Valid(source) /\ graph \in Dispatched(source)

\* The graph of the worker is never exchanged.
LEMMA DispatchedStays == Init /\ [][Next]_vars => []GraphIsDispatched
<1>1. Init => GraphIsDispatched
  BY DEF Init, GraphIsDispatched
<1>2. GraphIsDispatched /\ [Next]_vars => GraphIsDispatched'
  <2> SUFFICES ASSUME GraphIsDispatched, [Next]_vars PROVE GraphIsDispatched'
    OBVIOUS
  <2>1. UNCHANGED <<source, graph>>
    BY DEF Next, vars, Claim, Ask, Complete, Fail, CancelRemaining, Tick, Over
  <2> QED
    BY <2>1 DEF GraphIsDispatched
<1> QED
  BY <1>1, <1>2, PTL

\* All that the property says follows from the invariant and the dispatched graph.
LEMMA HistoriesFollow == IInv /\ GraphIsDispatched => HistoriesAreKept
<1> SUFFICES ASSUME IInv, GraphIsDispatched PROVE HistoriesAreKept
  OBVIOUS
<1>1. IsGraph(source) /\ Valid(source) /\ graph \in Dispatched(source)
  BY DagAssumption DEF GraphIsDispatched
<1>2. IsGraph(graph) /\ Nodes(graph) = Ids
  BY DEF IInv, TypeOK, Ids
<1>3. Valid(graph) /\ \A n \in Ids : ParentsOf(graph, n) = ParentsOf(source, n)
  BY <1>1, <1>2, DispatchedKeeps
<1>4. SubgraphKeepsParents
  BY <1>3 DEF SubgraphKeepsParents
<1>5. HistoryIsThere
  <2> SUFFICES ASSUME NEW n \in Running PROVE ToSet(History(graph, n)) \subseteq Completed
    BY DEF HistoryIsThere, HistoryAvailable
  <2>1. n \in Nodes(graph) /\ phase[n] # "waiting"
    BY <1>2 DEF Running
  <2>2. ParentsOf(graph, n) \subseteq Completed
    BY <1>2, <2>1 DEF IInv, ParentsFirst
  <2>3. \A m \in Completed : ParentsOf(graph, m) \subseteq Completed
    BY DEF IInv, ParentsFirst, Completed
  <2> QED
    BY <1>2, <1>3, <2>1, <2>2, <2>3, HistoryStaysWithin
<1>6. HistoryIsCarried
  BY <1>2, <1>3, HistoryCarries DEF HistoryIsCarried
<1>7. TurnZeroHasNoHistory
  <2> SUFFICES ASSUME NEW n \in Ids
               PROVE  TurnIndex(graph, n) = 0 <=> History(graph, n) = <<>>
    BY DEF TurnZeroHasNoHistory
  <2>1. PICK f : Tells(graph, f)
    BY <1>2, <1>3, HistoryIs
  <2>2. n \in Nodes(graph)
    BY <1>2
  <2>3. History(graph, n) = <<>> <=> FullIn(graph, n) = {} /\ LastIn(graph, n) = {}
    BY <1>2, <2>1, <2>2, HistoryMembers
  <2>4. TurnIndex(graph, n) = 0 <=> FullIn(graph, n) = {} /\ LastIn(graph, n) = {}
    BY <1>2, <1>3, <2>2, TurnIndexIs
  <2> QED
    BY <2>3, <2>4
<1> QED
  BY <1>4, <1>5, <1>6, <1>7 DEF HistoriesAreKept

\* Whatever order the nodes complete in, a request is sent with the responses its edges
\* promise: the graph a worker receives is valid and keeps the dependencies of its nodes,
\* the history of a node is there when it is asked for and lists what its edges carry, and
\* the turn index is zero where the history is empty (assemble_history, compute_turn_index
\* and subgraph_for_nodes).
THEOREM HistoriesStayKept == Spec => []HistoriesAreKept
<1>1. Spec => []GraphIsDispatched
  BY DispatchedStays DEF Spec
<1>2. IInv /\ GraphIsDispatched => HistoriesAreKept
  BY HistoriesFollow
<1> QED
  BY <1>1, <1>2, Invariant, PTL
=============================================================================
