------------------------- MODULE WorkerGroupDelivery -------------------------
(***************************************************************************)
(* Proofs about what reaches whom in WorkerGroup: a graph reaches one      *)
(* worker, the reports of a worker reach the coordinator, and the updates  *)
(* of a request reach the consumer in order.  From these: the shutdown     *)
(* event means that all is processed, the coordinator never counts more    *)
(* requests at a worker than it has slots, and no report is left behind.   *)
(***************************************************************************)
EXTENDS WorkerGroupProofs

-----------------------------------------------------------------------------
(***************************************************************************)
(* What a step of a worker puts on its stream.                             *)
(***************************************************************************)

\* Every update of news once, in some order, at the end of w's stream.
Puts(w, news) ==
  \E ext \in Seq(WorkerUpdate) :
    /\ chan' = [chan EXCEPT ![w] = @ \o ext]
    /\ \A i \in DOMAIN ext : ext[i] \in news
    /\ \A u \in news : \E i \in DOMAIN ext : ext[i] = u
    /\ \A i, j \in DOMAIN ext : i # j => ext[i].id # ext[j].id

\* The stream after such a step: the old updates, then the new ones.
LEMMA PutsFacts ==
  ASSUME TypeOK, NEW w \in Workers, NEW news, Puts(w, news)
  PROVE  /\ \A v \in Workers : v # w => chan'[v] = chan[v]
         /\ chan'[w] \in Seq(WorkerUpdate)
         /\ Len(chan[w]) \in Nat /\ Len(chan'[w]) \in Nat /\ Len(chan[w]) <= Len(chan'[w])
         /\ \A i \in 1 .. Len(chan[w]) : chan'[w][i] = chan[w][i]
         /\ \A i \in Len(chan[w]) + 1 .. Len(chan'[w]) : chan'[w][i] \in news
         /\ \A u \in news : \E i \in Len(chan[w]) + 1 .. Len(chan'[w]) : chan'[w][i] = u
         /\ \A i, j \in Len(chan[w]) + 1 .. Len(chan'[w]) :
              i # j => chan'[w][i].id # chan'[w][j].id
<1>1. chan \in [Workers -> Seq(WorkerUpdate)]
  BY DEF TypeOK, WorkerUpdate
<1>2. PICK ext \in Seq(WorkerUpdate) :
        /\ chan' = [chan EXCEPT ![w] = @ \o ext]
        /\ \A i \in DOMAIN ext : ext[i] \in news
        /\ \A u \in news : \E i \in DOMAIN ext : ext[i] = u
        /\ \A i, j \in DOMAIN ext : i # j => ext[i].id # ext[j].id
  BY DEF Puts
<1> DEFINE old == chan[w]
           n == Len(old)
           new == chan'[w]
<1>3. old \in Seq(WorkerUpdate) /\ n \in Nat /\ Len(ext) \in Nat
  BY <1>1
<1>4. new = old \o ext
  BY <1>1, <1>2
<1>5. \A v \in Workers : v # w => chan'[v] = chan[v]
  BY <1>1, <1>2
<1> HIDE DEF old, new
<1>6. /\ new \in Seq(WorkerUpdate) /\ Len(new) = n + Len(ext)
      /\ \A i \in 1 .. n : new[i] = old[i]
      /\ \A i \in n + 1 .. Len(new) : i - n \in 1 .. Len(ext) /\ new[i] = ext[i - n]
      /\ \A i \in 1 .. Len(ext) : i + n \in n + 1 .. Len(new) /\ new[i + n] = ext[i]
  BY <1>3, <1>4
<1>7. DOMAIN ext = 1 .. Len(ext)
  OBVIOUS
<1>8. \A i \in n + 1 .. Len(new) : new[i] \in news
  BY <1>2, <1>6, <1>7
<1>9. \A u \in news : \E i \in n + 1 .. Len(new) : new[i] = u
  <2> TAKE u \in news
  <2>1. PICK i \in 1 .. Len(ext) : ext[i] = u
    BY <1>2, <1>7
  <2>2. i + n \in n + 1 .. Len(new) /\ new[i + n] = u
    BY <1>6, <2>1
  <2> QED
    BY <2>2
<1>10. \A i, j \in n + 1 .. Len(new) : i # j => new[i].id # new[j].id
  <2> TAKE i, j \in n + 1 .. Len(new)
  <2>1. /\ i - n \in DOMAIN ext /\ j - n \in DOMAIN ext
        /\ new[i] = ext[i - n] /\ new[j] = ext[j - n]
    BY <1>6, <1>7
  <2>2. i # j => i - n # j - n
    BY <1>3
  <2> QED
    BY <1>2, <2>1, <2>2
<1> QED
  BY <1>3, <1>5, <1>6, <1>8, <1>9, <1>10 DEF old, new

\* What a call of _send_update publishes.
Sent(r, new) == IF status[r] = new THEN {} ELSE {[id |-> r, status |-> new]}

LEMMA PublishPuts ==
  ASSUME TypeOK, NEW w \in Workers, NEW r \in Request, NEW new \in WorkerStatus,
         Publish(w, r, new)
  PROVE  /\ Puts(w, Sent(r, new))
         /\ status' = [status EXCEPT ![r] = new]
<1> DEFINE ext == Publication(r, new)
<1>1. ext \in Seq(WorkerUpdate)
  BY PublicationType
<1>2. /\ chan' = [chan EXCEPT ![w] = @ \o ext]
      /\ status' = [status EXCEPT ![r] = new]
  BY DEF Publish
<1>3. /\ \A i \in DOMAIN ext : ext[i] \in Sent(r, new)
      /\ \A u \in Sent(r, new) : \E i \in DOMAIN ext : ext[i] = u
      /\ \A i, j \in DOMAIN ext : i # j => ext[i].id # ext[j].id
  <2>1. CASE status[r] = new
    BY <2>1 DEF Publication, Sent
  <2>2. CASE status[r] # new
    <3>1. ext = <<[id |-> r, status |-> new]>> /\ DOMAIN ext = {1}
      BY <2>2 DEF Publication
    <3> QED
      BY <2>2, <3>1 DEF Sent
  <2> QED
    BY <2>1, <2>2
<1> QED
  BY <1>1, <1>2, <1>3 DEF Puts

\* The cancellations of a set of requests, whatever their order.
CancelledAll(S) == {[id |-> x, status |-> "cancelled"] : x \in S}

LEMMA CancellationsCover ==
  ASSUME NEW S \in SUBSET Request, NEW order \in CancelOrders(S)
  PROVE  /\ Cancellations(order) \in Seq(WorkerUpdate)
         /\ \A i \in DOMAIN Cancellations(order) : Cancellations(order)[i] \in CancelledAll(S)
         /\ \A u \in CancelledAll(S) :
              \E i \in DOMAIN Cancellations(order) : Cancellations(order)[i] = u
         /\ \A i, j \in DOMAIN Cancellations(order) :
              i # j => Cancellations(order)[i].id # Cancellations(order)[j].id
<1> DEFINE n == Cardinality(S)
<1>1. IsFiniteSet(Request)
  BY StateAssumption, FS_Interval DEF Request
<1>2. IsFiniteSet(S)
  BY <1>1, FS_Subset
<1>3. n \in Nat
  BY <1>2, FS_CardinalityType
<1>4. /\ order \in [1 .. n -> S]
      /\ \A i, j \in 1 .. n : i # j => order[i] # order[j]
  BY DEF CancelOrders
<1> HIDE DEF n
<1>5. order \in Injection(1 .. n, S)
  BY <1>4 DEF Injection, IsInjective
<1>6. Cardinality(1 .. n) = n
  BY <1>3, FS_Interval
<1>7. order \in Surjection(1 .. n, S)
  BY <1>2, <1>5, <1>6, FS_Injection DEF n
<1>8. \A x \in S : \E i \in 1 .. n : order[i] = x
  BY <1>7 DEF Surjection
<1>9. /\ DOMAIN Cancellations(order) = 1 .. n
      /\ \A i \in 1 .. n : Cancellations(order)[i] = [id |-> order[i], status |-> "cancelled"]
  BY <1>4 DEF Cancellations
<1>10. \A u \in CancelledAll(S) : \E i \in 1 .. n : Cancellations(order)[i] = u
  BY <1>8, <1>9 DEF CancelledAll
<1>11. \A i \in 1 .. n : Cancellations(order)[i] \in CancelledAll(S)
  BY <1>4, <1>9 DEF CancelledAll
<1>12. \A i, j \in 1 .. n : i # j => Cancellations(order)[i].id # Cancellations(order)[j].id
  BY <1>4, <1>9
<1> QED
  BY <1>9, <1>10, <1>11, <1>12, CancellationsType

\* The nodes that an abort after the end of r cancels.
Rest(w, r) ==
  {x \in Nodes(w, GraphOf[r]) \ {r} : phase[x] # "completed" /\ status[x] # "cancelled"}

\* A report and the cancellations of an abort: each node is told of once.
LEMMA AbortPuts ==
  ASSUME TypeOK, NEW w \in Workers, NEW r \in Request, NEW new \in WorkerStatus,
         EndsAndAborts(w, r, new)
  PROVE  /\ Puts(w, Sent(r, new) \cup CancelledAll(Rest(w, r)))
         /\ status' = [x \in Request |-> IF x = r THEN new
                         ELSE IF x \in Rest(w, r) THEN "cancelled" ELSE status[x]]
         /\ phase' = [x \in Request |->
                        IF x = r \/ (x \in Rest(w, r) /\ phase[x] = "held") THEN "ended"
                        ELSE phase[x]]
         /\ aborted' = aborted \cup {GraphOf[r]}
<1> DEFINE rest == Rest(w, r)
           pub == Publication(r, new)
<1>1. PICK order \in CancelOrders(rest) :
        chan' = [chan EXCEPT ![w] = @ \o pub \o Cancellations(order)]
  BY DEF EndsAndAborts, Rest
<1>2. rest \in SUBSET Request /\ r \notin rest
  BY DEF Rest, Nodes
<1> DEFINE cuts == Cancellations(order)
<1>3. /\ cuts \in Seq(WorkerUpdate)
      /\ \A i \in DOMAIN cuts : cuts[i] \in CancelledAll(rest)
      /\ \A u \in CancelledAll(rest) : \E i \in DOMAIN cuts : cuts[i] = u
      /\ \A i, j \in DOMAIN cuts : i # j => cuts[i].id # cuts[j].id
  BY <1>1, <1>2, CancellationsCover
<1>4. /\ pub \in Seq(WorkerUpdate)
      /\ \/ pub = <<>> /\ Sent(r, new) = {}
         \/ pub = <<[id |-> r, status |-> new]>> /\ Sent(r, new) = {[id |-> r, status |-> new]}
  BY PublicationType DEF Publication, Sent
<1>5. chan \in [Workers -> Seq(WorkerUpdate)]
  BY DEF TypeOK, WorkerUpdate
<1>6. \A u \in CancelledAll(rest) : u.id \in rest
  BY DEF CancelledAll
<1> HIDE DEF rest, pub, cuts
<1> DEFINE ext == pub \o cuts
           news == Sent(r, new) \cup CancelledAll(rest)
<1>7. ext \in Seq(WorkerUpdate)
  BY <1>3, <1>4
<1>8. chan' = [chan EXCEPT ![w] = @ \o ext]
  <2>1. chan[w] \o pub \o cuts = chan[w] \o (pub \o cuts)
    BY <1>3, <1>4, <1>5
  <2> QED
    BY <1>1, <2>1 DEF cuts
<1>9. /\ \A i \in DOMAIN ext : ext[i] \in news
      /\ \A u \in news : \E i \in DOMAIN ext : ext[i] = u
      /\ \A i, j \in DOMAIN ext : i # j => ext[i].id # ext[j].id
  <2>1. CASE pub = <<>> /\ Sent(r, new) = {}
    <3>1. ext = cuts
      BY <1>3, <2>1
    <3> QED
      BY <1>3, <2>1, <3>1
  <2>2. CASE /\ pub = <<[id |-> r, status |-> new]>>
             /\ Sent(r, new) = {[id |-> r, status |-> new]}
    <3>1. /\ Len(ext) = Len(cuts) + 1 /\ ext[1] = [id |-> r, status |-> new]
          /\ Len(cuts) \in Nat /\ DOMAIN cuts = 1 .. Len(cuts)
          /\ DOMAIN ext = 1 .. Len(ext)
          /\ \A i \in 2 .. Len(ext) : i - 1 \in 1 .. Len(cuts) /\ ext[i] = cuts[i - 1]
          /\ \A i \in 1 .. Len(cuts) : i + 1 \in 1 .. Len(ext) /\ ext[i + 1] = cuts[i]
      BY <1>3, <2>2
    <3> HIDE DEF ext
    <3>2. \A i \in DOMAIN ext : i = 1 \/ i \in 2 .. Len(ext)
      BY <3>1
    <3>3. \A i \in DOMAIN ext : ext[i] \in news
      BY <1>3, <2>2, <3>1, <3>2
    <3>4. \A u \in news : \E i \in DOMAIN ext : ext[i] = u
      <4> TAKE u \in news
      <4>1. CASE u \in Sent(r, new)
        <5>1. 1 \in DOMAIN ext /\ ext[1] = u
          BY <2>2, <3>1, <4>1
        <5> QED
          BY <5>1
      <4>2. CASE u \in CancelledAll(rest)
        <5>1. PICK i \in 1 .. Len(cuts) : cuts[i] = u
          BY <1>3, <3>1, <4>2
        <5> QED
          BY <3>1, <5>1
      <4> QED
        BY <4>1, <4>2
    <3>5. \A i \in 2 .. Len(ext) : ext[i].id \in rest
      BY <1>3, <1>6, <3>1
    <3>6. \A i, j \in 2 .. Len(ext) : i # j => ext[i].id # ext[j].id
      <4> TAKE i, j \in 2 .. Len(ext)
      <4>1. /\ i - 1 \in DOMAIN cuts /\ j - 1 \in DOMAIN cuts
            /\ ext[i] = cuts[i - 1] /\ ext[j] = cuts[j - 1] /\ (i # j => i - 1 # j - 1)
        BY <3>1
      <4> QED
        BY <1>3, <4>1
    <3>7. ext[1].id = r
      BY <3>1
    <3>8. \A i, j \in DOMAIN ext : i # j => ext[i].id # ext[j].id
      BY <1>2, <3>2, <3>5, <3>6, <3>7
    <3> QED
      BY <3>3, <3>4, <3>8
  <2> QED
    BY <1>4, <2>1, <2>2
<1>10. Puts(w, news)
  BY <1>7, <1>8, <1>9 DEF Puts
<1>11. /\ status' = [x \in Request |-> IF x = r THEN new
                         ELSE IF x \in rest THEN "cancelled" ELSE status[x]]
       /\ phase' = [x \in Request |->
                      IF x = r \/ (x \in rest /\ phase[x] = "held") THEN "ended" ELSE phase[x]]
       /\ aborted' = aborted \cup {GraphOf[r]}
  BY DEF EndsAndAborts, rest, Rest
<1> QED
  BY <1>10, <1>11 DEF rest

\* The cancel loop reports every node that no slot took.
LEMMA SweepPuts ==
  ASSUME NEW w \in Workers, WorkerSweeps(w)
  PROVE  Puts(w, CancelledAll(Unfinished(w)))
<1>1. PICK order \in CancelOrders(Unfinished(w)) :
        chan' = [chan EXCEPT ![w] = @ \o Cancellations(order)]
  BY DEF WorkerSweeps
<1>2. Unfinished(w) \in SUBSET Request
  BY DEF Unfinished
<1> QED
  BY <1>1, <1>2, CancellationsCover DEF Puts

-----------------------------------------------------------------------------
(***************************************************************************)
(* What one update does to the tracking record.                            *)
(***************************************************************************)
SameSets(s, c) ==
  /\ c.queued = s.queued /\ c.pending = s.pending /\ c.processing = s.processing
  /\ c.created = s.created /\ c.processed = s.processed

LEMMA ConstrainedEffect ==
  ASSUME NEW s \in Tracking, NEW t
  PROVE  /\ SameSets(s, Constrained(s, t))
         /\ Constrained(s, t).constraints = s.constraints
         /\ Constrained(s, t).endProcessing = (s.endProcessing \/ StopsProcessing(s, t))
BY DEF Constrained, SameSets, Tracking

\* An update of r moves r and no other request, and never back.
Moves(s, c, r, x) ==
  /\ c.created = s.created /\ c.processed >= s.processed /\ c.constraints = s.constraints
  /\ \A y \in Request \ {r} : /\ y \in c.queued <=> y \in s.queued
                              /\ y \in c.pending <=> y \in s.pending
                              /\ y \in c.processing <=> y \in s.processing
  /\ c.queued \subseteq s.queued
  /\ Live(c) \subseteq Live(s)
  /\ r \in Live(s) /\ r \notin Live(c) => x \in TerminalStatus
  /\ r \in c.pending \cup c.processing =>
       r \in s.pending \cup s.processing \/ x = "pending"
  /\ r \in s.pending \cup s.processing /\ r \in Live(c) => r \in c.pending \cup c.processing
  /\ r \in s.processing /\ r \in Live(c) => r \in c.processing
  /\ x = "pending" /\ r \in Live(c) => r \in c.pending \cup c.processing
  /\ x = "in_progress" /\ r \in s.pending \cup s.processing => r \in c.processing
  /\ x \in {"errored", "cancelled"} => r \notin Live(c)
  /\ x = "completed" /\ r \in s.processing => r \notin Live(c)

LEMMA CountedMoves ==
  ASSUME NEW s, Consistent(s), NEW r \in Request, NEW x \in WorkerStatus
  PROVE  /\ Moves(s, Counted(s, r, x), r, x)
         /\ Counted(s, r, x) \in Tracking
<1> DEFINE c == Counted(s, r, x)
<1>1. x # "queued"
  BY DEF WorkerStatus, TerminalStatus
<1>2. /\ s \in Tracking /\ s.processed \in Nat
      /\ s.queued \cap s.pending = {} /\ s.queued \cap s.processing = {}
      /\ s.pending \cap s.processing = {}
  BY DEF Consistent, Tracking
<1>3. CASE x = "pending" /\ r \in s.queued
  <2>1. c = [s EXCEPT !.queued = @ \ {r}, !.pending = @ \cup {r}]
    BY <1>3 DEF Counted
  <2> HIDE DEF c
  <2>2. /\ c.queued = s.queued \ {r} /\ c.pending = s.pending \cup {r}
        /\ c.processing = s.processing /\ c.created = s.created
        /\ c.processed = s.processed /\ c.constraints = s.constraints
    BY <1>2, <2>1 DEF Tracking
  <2>3. Live(c) = Live(s)
    BY <1>3, <2>2 DEF Live
  <2>4. Moves(s, c, r, x)
    BY <1>2, <1>3, <2>2, <2>3 DEF Moves, Live
  <2>5. c \in Tracking
    BY <1>3, <2>1, MovedConsistent DEF Consistent
  <2> QED
    BY <2>4, <2>5 DEF c
<1>4. CASE x = "in_progress" /\ r \in s.pending
  <2>1. c = [s EXCEPT !.pending = @ \ {r}, !.processing = @ \cup {r}]
    BY <1>4 DEF Counted
  <2> HIDE DEF c
  <2>2. /\ c.queued = s.queued /\ c.pending = s.pending \ {r}
        /\ c.processing = s.processing \cup {r} /\ c.created = s.created
        /\ c.processed = s.processed /\ c.constraints = s.constraints
    BY <1>2, <2>1 DEF Tracking
  <2>3. Live(c) = Live(s)
    BY <1>4, <2>2 DEF Live
  <2>4. Moves(s, c, r, x)
    BY <1>2, <1>4, <2>2, <2>3 DEF Moves, Live
  <2>5. c \in Tracking
    BY <1>4, <2>1, MovedConsistent DEF Consistent
  <2> QED
    BY <2>4, <2>5 DEF c
<1>5. CASE x \in TerminalStatus /\ Finalizable(s, r, x)
  <2>1. c = Finalized(s, r, x)
    BY <1>5 DEF Counted, TerminalStatus
  <2> HIDE DEF c
  <2>2. Consistent(c) /\ c.created = s.created /\ c.constraints = s.constraints
    BY <1>5, <2>1, FinalizedConsistent
  <2>3. /\ c.queued = s.queued \ {r} /\ c.pending = s.pending \ {r}
        /\ c.processing = s.processing \ {r} /\ c.processed = s.processed + 1
    BY <1>2, <2>1 DEF Tracking, Finalized
  <2>4. Live(c) = Live(s) \ {r}
    BY <2>3 DEF Live
  <2>5. Moves(s, c, r, x)
    BY <1>2, <1>5, <2>2, <2>3, <2>4 DEF Moves, TerminalStatus
  <2> QED
    BY <2>2, <2>5 DEF c, Consistent
<1>6. CASE /\ ~(x = "pending" /\ r \in s.queued)
           /\ ~(x = "in_progress" /\ r \in s.pending)
           /\ ~(x \in TerminalStatus /\ Finalizable(s, r, x))
  <2>1. c = s
    BY <1>1, <1>6 DEF Counted
  <2>2. Moves(s, s, r, x)
    BY <1>2, <1>6 DEF Moves, Live, Finalizable, TerminalStatus
  <2> QED
    BY <1>2, <2>1, <2>2
<1> QED
  BY <1>3, <1>4, <1>5, <1>6

\* update_state(info), constraints included.
LEMMA UpdatedMoves ==
  ASSUME NEW s, Consistent(s), NEW r \in Request, NEW x \in WorkerStatus, NEW t
  PROVE  Moves(s, Updated(s, r, x, t), r, x)
<1> DEFINE k == Counted(s, r, x)
           c == Constrained(k, t)
<1>1. Moves(s, k, r, x) /\ k \in Tracking
  BY CountedMoves
<1> HIDE DEF k
<1>2. SameSets(k, c) /\ c.constraints = k.constraints
  BY <1>1, ConstrainedEffect
<1> HIDE DEF c
<1>3. Live(c) = Live(k)
  BY <1>2 DEF Live, SameSets
<1>4. Moves(s, c, r, x)
  BY <1>1, <1>2, <1>3 DEF Moves, SameSets
<1> QED
  BY <1>4 DEF c, k, Updated

\* A new request joins the queued ones.
LEMMA QueuedEffect ==
  ASSUME NEW s, Consistent(s), s.created < NumRequests, NEW t
  PROVE  LET c == Updated(s, s.created + 1, "queued", t)
         IN  /\ c.queued = s.queued \cup {s.created + 1}
             /\ c.pending = s.pending /\ c.processing = s.processing
             /\ c.created = s.created + 1 /\ c.processed = s.processed
             /\ c.constraints = s.constraints
             /\ c.endProcessing =
                  (s.endProcessing
                     \/ StopsProcessing(Counted(s, s.created + 1, "queued"), t))
<1> DEFINE k == Counted(s, s.created + 1, "queued")
<1>1. k = [s EXCEPT !.queued = @ \cup {s.created + 1}, !.created = @ + 1]
  BY DEF Counted
<1>2. s \in Tracking /\ s.created \in Nat /\ s.created + 1 \in Request
  BY StateAssumption DEF Consistent, Tracking, Request
<1> HIDE DEF k
<1>3. k \in Tracking
  <2>1. s.queued \cup {s.created + 1} \in SUBSET Request /\ s.created + 1 \in Nat
    BY <1>2 DEF Tracking
  <2> QED
    BY <1>1, <1>2, <2>1 DEF Tracking
<1>4. /\ k.queued = s.queued \cup {s.created + 1}
      /\ k.pending = s.pending /\ k.processing = s.processing
      /\ k.created = s.created + 1 /\ k.processed = s.processed
      /\ k.constraints = s.constraints /\ k.endProcessing = s.endProcessing
  BY <1>1, <1>2 DEF Tracking
<1> QED
  BY <1>3, <1>4, ConstrainedEffect DEF Updated, k, SameSets

-----------------------------------------------------------------------------
(***************************************************************************)
(* The steps of the group, by what they touch.                             *)
(***************************************************************************)

\* A slot takes its request from one phase to the next and tells of it.
SlotTells(w, r, new, from, to) ==
  /\ SlotFrame /\ aborted' = aborted
  /\ mode[w] = "run" /\ holder[r] = w /\ phase[r] = from
  /\ phase' = [phase EXCEPT ![r] = to]
  /\ status' = [status EXCEPT ![r] = new]
  /\ Puts(w, Sent(r, new))

\* A slot reports the end of its request and gives up the rest of the graph.
SlotGivesUp(w, r, new) ==
  /\ SlotFrame
  /\ mode[w] \in {"run", "cancelling"} /\ holder[r] = w /\ phase[r] \in {"claimed", "running"}
  /\ Puts(w, Sent(r, new) \cup CancelledAll(Rest(w, r)))
  /\ status' = [x \in Request |-> IF x = r THEN new
                                  ELSE IF x \in Rest(w, r) THEN "cancelled" ELSE status[x]]
  /\ phase' = [x \in Request |->
                 IF x = r \/ (x \in Rest(w, r) /\ phase[x] = "held") THEN "ended"
                 ELSE phase[x]]
  /\ aborted' = aborted \cup {GraphOf[r]}

SlotKind(w, r) ==
  \/ Claimable(w, r) /\ FreeSlots(w) > 0 /\ SlotTells(w, r, "pending", "held", "claimed")
  \/ status[r] # "pending" /\ SlotTells(w, r, "pending", "claimed", "claimed")
  \/ SlotTells(w, r, "in_progress", "claimed", "running")
  \/ status[r] # "first_token" /\ SlotTells(w, r, "first_token", "running", "running")
  \/ SlotTells(w, r, "completed", "running", "completed")
  \/ \E new \in {"errored", "cancelled"} :
       (new = "errored" => phase[r] = "running") /\ SlotGivesUp(w, r, new)

LEMMA SlotKinds ==
  ASSUME TypeOK, NEW w \in Workers, NEW r \in Request, SlotStep(w, r)
  PROVE  SlotKind(w, r)
<1>0. /\ phase \in [Request -> Phase]
      /\ {"pending", "in_progress", "first_token", "completed", "errored", "cancelled"}
           \subseteq WorkerStatus
  BY DEF TypeOK, WorkerStatus, TerminalStatus
<1>1. CASE SlotClaims(w, r)
  <2>1. Puts(w, Sent(r, "pending")) /\ status' = [status EXCEPT ![r] = "pending"]
    BY <1>0, <1>1, PublishPuts DEF SlotClaims
  <2> QED
    BY <1>1, <2>1 DEF SlotClaims, SlotKind, SlotTells, SlotFrame, Claimable
<1>2. CASE SlotRetargets(w, r)
  <2>1. Puts(w, Sent(r, "pending")) /\ status' = [status EXCEPT ![r] = "pending"]
    BY <1>0, <1>2, PublishPuts DEF SlotRetargets
  <2>2. phase' = [phase EXCEPT ![r] = "claimed"]
    BY <1>0, <1>2 DEF SlotRetargets
  <2> QED
    BY <1>2, <2>1, <2>2 DEF SlotRetargets, SlotKind, SlotTells, SlotFrame
<1>3. CASE SlotStarts(w, r)
  <2>1. Puts(w, Sent(r, "in_progress")) /\ status' = [status EXCEPT ![r] = "in_progress"]
    BY <1>0, <1>3, PublishPuts DEF SlotStarts
  <2> QED
    BY <1>3, <2>1 DEF SlotStarts, SlotKind, SlotTells, SlotFrame
<1>4. CASE SlotStreams(w, r)
  <2>1. Puts(w, Sent(r, "first_token")) /\ status' = [status EXCEPT ![r] = "first_token"]
    BY <1>0, <1>4, PublishPuts DEF SlotStreams
  <2>2. phase' = [phase EXCEPT ![r] = "running"]
    BY <1>0, <1>4 DEF SlotStreams
  <2> QED
    BY <1>4, <2>1, <2>2 DEF SlotStreams, SlotKind, SlotTells, SlotFrame
<1>5. CASE SlotCompletes(w, r)
  <2>1. Puts(w, Sent(r, "completed")) /\ status' = [status EXCEPT ![r] = "completed"]
    BY <1>0, <1>5, PublishPuts DEF SlotCompletes
  <2> QED
    BY <1>5, <2>1 DEF SlotCompletes, SlotKind, SlotTells, SlotFrame
<1>6. CASE SlotFails(w, r)
  <2>1. EndsAndAborts(w, r, "errored") /\ SlotFrame
    BY <1>6 DEF SlotFails, SlotFrame
  <2>2. SlotGivesUp(w, r, "errored")
    BY <1>0, <1>6, <2>1, AbortPuts DEF SlotFails, SlotGivesUp
  <2> QED
    BY <1>6, <2>2 DEF SlotKind, SlotFails
<1>7. CASE SlotCancelled(w, r)
  <2>1. EndsAndAborts(w, r, "cancelled") /\ SlotFrame
    BY <1>7 DEF SlotCancelled, SlotFrame
  <2>2. mode[w] = "cancelling" /\ holder[r] = w /\ phase[r] \in {"claimed", "running"}
    BY <1>7 DEF SlotCancelled, InFlight
  <2>3. SlotGivesUp(w, r, "cancelled")
    BY <1>0, <2>1, <2>2, AbortPuts DEF SlotGivesUp
  <2> QED
    BY <2>3 DEF SlotKind
<1> QED
  BY <1>1, <1>2, <1>3, <1>4, <1>5, <1>6, <1>7 DEF SlotStep, SlotProgress

\* The cancel loop: no slot of w is busy, and it reports what no slot took.
SweepKind(w) ==
  /\ UNCHANGED <<st, timeUp, genVars, pendingQ, events, cb, buffer, consumer, yielded,
                 fetching, holder, aborted>>
  /\ mode[w] \in {"cancelling", "cancel"} /\ mode' = [mode EXCEPT ![w] = "cancel"]
  /\ Puts(w, CancelledAll(Unfinished(w)))
  /\ status' = [r \in Request |-> IF r \in Unfinished(w) THEN "cancelled" ELSE status[r]]
  /\ phase' = [r \in Request |-> IF r \in Unfinished(w) THEN "ended" ELSE phase[r]]

LEMMA SweepKinds ==
  ASSUME NEW w \in Workers, WorkerSweeps(w)
  PROVE  SweepKind(w)
BY SweepPuts DEF WorkerSweeps, SweepKind

\* The steps that leave the graphs, the streams and the tracking record alone.
QuietStep ==
  /\ UNCHANGED <<st, genVars, pendingQ, chan, cb, buffer, yielded, holder, phase, status,
                 aborted>>
  /\ \A w \in Workers : mode'[w] = "dead" <=> mode[w] = "dead"

LEMMA QuietSteps ==
  ASSUME TypeOK,
         \/ ConsumerTimesOut \/ ConsumerFinishes \/ ConsumerSetsConstraint \/ ConsumerSetsStop
         \/ MonitorFindsDead \/ TimePasses \/ UNCHANGED vars
         \/ \E w \in Workers : \/ WorkerFindsEmpty(w) \/ WorkerStopsFetching(w)
                               \/ WorkerSeesConstraint(w) \/ WorkerExits(w)
  PROVE  QuietStep
<1> USE DEF events, genVars, workerVars, QuietStep
<1>1. mode \in [Workers -> Mode]
  BY DEF TypeOK
<1>2. CASE ConsumerTimesOut \/ ConsumerFinishes \/ ConsumerSetsConstraint \/ ConsumerSetsStop
  BY <1>2 DEF ConsumerTimesOut, ConsumerFinishes, ConsumerSetsConstraint, ConsumerSetsStop
<1>3. CASE MonitorFindsDead \/ TimePasses \/ UNCHANGED vars
  BY <1>3 DEF MonitorFindsDead, TimePasses, vars
<1>4. ASSUME NEW w \in Workers, WorkerFindsEmpty(w) \/ WorkerStopsFetching(w)
      PROVE  QuietStep
  BY <1>4 DEF WorkerFindsEmpty, WorkerStopsFetching
<1>5. ASSUME NEW w \in Workers, WorkerSeesConstraint(w) \/ WorkerExits(w)
      PROVE  QuietStep
  BY <1>1, <1>5 DEF WorkerSeesConstraint, WorkerExits
<1> QED
  BY <1>2, <1>3, <1>4, <1>5

\* Every step is one of these.
LEMMA StepKinds ==
  ASSUME TypeOK, [Next]_vars
  PROVE  \/ Generator
         \/ \E w \in Workers : ReceiverCounts(w)
         \/ ReceiverChecks \/ ReceiverBuffers
         \/ ConsumerYields \/ ConsumerPolls
         \/ \E w \in Workers : WorkerFetches(w) \/ SweepKind(w) \/ WorkerDies(w)
         \/ \E w \in Workers, r \in Request : SlotKind(w, r)
         \/ QuietStep
<1>1. ASSUME NEW w \in Workers, WorkerStep(w)
      PROVE  WorkerFetches(w) \/ SweepKind(w) \/ WorkerDies(w) \/ QuietStep
  BY <1>1, SweepKinds, QuietSteps DEF WorkerStep
<1>2. ASSUME NEW w \in Workers, NEW r \in Request, SlotStep(w, r) PROVE SlotKind(w, r)
  BY <1>2, SlotKinds
<1>3. CASE \/ ConsumerTimesOut \/ ConsumerFinishes \/ ConsumerSetsConstraint
           \/ ConsumerSetsStop \/ MonitorFindsDead \/ TimePasses \/ UNCHANGED vars
  BY <1>3, QuietSteps
<1> QED
  BY <1>1, <1>2, <1>3
     DEF Next, Receiver, ConsumerSteps, Ended, WorkerStep, SlotStep

-----------------------------------------------------------------------------
(***************************************************************************)
(* A graph goes to one worker, whole, and is untouched until then.         *)
(***************************************************************************)

\* The requests of the graph that the generator is still putting together.
Building ==
  IF genPc \in {"buffer", "send"} \/ (genPc = "node" /\ Newest > 0 /\ ~EndsGraph(Newest))
  THEN QueuedGraph ELSE {}

\* A graph is sent when it is complete, unless generation ends with it.
SentWhole ==
  /\ genPc = "pull" => Newest = 0 \/ EndsGraph(Newest)
  /\ genPc \in {"send", "resume"} => genStop \/ EndsGraph(Newest)

\* The requests on the pending queue were created, are on it once, and are nobody's.
QueueIsFresh ==
  /\ \A i \in DOMAIN pendingQ : \A r \in pendingQ[i] :
       holder[r] = NoWorker /\ r <= st.created /\ r \notin Building
  /\ \A i, j \in DOMAIN pendingQ : i # j => pendingQ[i] \cap pendingQ[j] = {}

\* What the generator has not sent is nobody's.
UnsentIsFresh ==
  \A r \in Request : r > st.created \/ r \in Building => holder[r] = NoWorker

\* Nothing has happened to a request that is nobody's.
FreshIsQueued ==
  \A r \in Request : holder[r] = NoWorker =>
    /\ phase[r] = "unknown" /\ status[r] = "queued"
    /\ r <= st.created => r \in st.queued

\* A worker tells of its own requests only.
StreamsAreOwn ==
  /\ \A w \in Workers : \A i \in DOMAIN chan[w] : holder[chan[w][i].id] = w
  /\ cb.pc # "idle" => holder[cb.update.id] # NoWorker

Ownership == SentWhole /\ QueueIsFresh /\ UnsentIsFresh /\ FreshIsQueued /\ StreamsAreOwn

LEMMA PutsOwn ==
  ASSUME TypeOK, StreamsAreOwn, NEW w \in Workers, NEW news, Puts(w, news),
         \A u \in news : holder[u.id] = w, holder' = holder, cb' = cb
  PROVE  StreamsAreOwn'
<1>1. /\ \A v \in Workers : v # w => chan'[v] = chan[v]
      /\ chan'[w] \in Seq(WorkerUpdate)
      /\ Len(chan[w]) \in Nat /\ Len(chan'[w]) \in Nat
      /\ \A i \in 1 .. Len(chan[w]) : chan'[w][i] = chan[w][i]
      /\ \A i \in Len(chan[w]) + 1 .. Len(chan'[w]) : chan'[w][i] \in news
  BY PutsFacts
<1>2. chan[w] \in Seq(WorkerUpdate)
  BY DEF TypeOK, WorkerUpdate
<1>3. \A i \in 1 .. Len(chan'[w]) :
        i \in 1 .. Len(chan[w]) \/ i \in Len(chan[w]) + 1 .. Len(chan'[w])
  BY <1>1
<1>4. \A i \in 1 .. Len(chan'[w]) : holder[chan'[w][i].id] = w
  BY <1>1, <1>2, <1>3 DEF StreamsAreOwn
<1>5. \A v \in Workers : \A i \in DOMAIN chan'[v] : holder[chan'[v][i].id] = v
  BY <1>1, <1>4 DEF StreamsAreOwn
<1> QED
  BY <1>5 DEF StreamsAreOwn

LEMMA GeneratorOwnership == IInv /\ Ownership /\ Generator => Ownership'
<1> SUFFICES ASSUME IInv, Ownership, Generator PROVE Ownership'
  OBVIOUS
<1> USE DEF events, workerVars
<1>1. /\ st.created \in Nat /\ NumRequests \in Nat /\ st.created <= NumRequests
      /\ Request = 1 .. NumRequests
      /\ pendingQ \in Seq(SUBSET Request)
  BY StateAssumption DEF IInv, Consistent, TypeOK, Tracking, Request
<1>2. CASE GeneratorPulls
  <2>1. Building = {} /\ Building' = {} /\ Newest' = Newest
    BY <1>1, <1>2 DEF GeneratorPulls, Building, Ownership, SentWhole, Newest
  <2> QED
    BY <1>2, <2>1 DEF GeneratorPulls, Ownership, SentWhole, QueueIsFresh, UnsentIsFresh,
                      FreshIsQueued, StreamsAreOwn
<1>3. CASE GeneratorQueues
  <2> DEFINE n == st.created
  <2>1. /\ st' = Updated(st, n + 1, "queued", timeUp) /\ genPc = "node" /\ genPc' = "buffer"
        /\ n < NumRequests
        /\ UNCHANGED <<pendingQ, chan, cb, holder, phase, status>>
    BY <1>3 DEF GeneratorQueues, Newest, IInv
  <2>2. st'.created = n + 1 /\ st'.queued = st.queued \cup {n + 1}
    BY <2>1, QueuedEffect DEF IInv
  <2>3. n + 1 \in Request
    BY <1>1, <2>1
  <2>4. Building' \subseteq Building \cup {n + 1}
    <3>1. Building' = {r \in 1 .. n + 1 : GraphOf[r] = GraphOf[n + 1]}
      BY <2>1, <2>2 DEF Building, QueuedGraph, Newest
    <3>2. CASE n > 0 /\ ~EndsGraph(n)
      <4>1. GraphOf[n + 1] = GraphOf[n] /\ Building = {r \in 1 .. n : GraphOf[r] = GraphOf[n]}
        BY <2>1, <3>2 DEF EndsGraph, Building, QueuedGraph, Newest
      <4> QED
        BY <1>1, <3>1, <4>1
    <3>3. CASE n = 0
      BY <1>1, <3>1, <3>3
    <3>4. CASE n > 0 /\ EndsGraph(n)
      <4>1. GraphOf[n + 1] # GraphOf[n]
        BY <1>1, <2>1, <3>4 DEF EndsGraph
      <4>2. \A r \in 1 .. n : GraphOf[r] # GraphOf[n + 1]
        <5> SUFFICES ASSUME NEW r \in 1 .. n, GraphOf[r] = GraphOf[n + 1] PROVE FALSE
          OBVIOUS
        <5>1. /\ r \in Request /\ n \in Request /\ n + 1 \in Request
              /\ r <= n /\ n <= n + 1
          BY <1>1, <2>1, <3>4
        <5>2. GraphOf[n] = GraphOf[r]
          BY <5>1, GroupAssumption DEF NumberedByGraph
        <5> QED
          BY <4>1, <5>2
      <4> QED
        BY <1>1, <3>1, <4>2
    <3> QED
      BY <1>1, <3>2, <3>3, <3>4
  <2>5. SentWhole'
    BY <2>1 DEF SentWhole
  <2>6. QueueIsFresh'
    <3>1. \A i \in DOMAIN pendingQ : \A r \in pendingQ[i] : r <= n /\ r \in Request
      BY <1>1 DEF Ownership, QueueIsFresh
    <3> QED
      BY <1>1, <2>1, <2>2, <2>4, <3>1 DEF Ownership, QueueIsFresh
  <2>7. UnsentIsFresh'
    <3>1. holder[n + 1] = NoWorker
      BY <1>1, <2>3 DEF Ownership, UnsentIsFresh
    <3> QED
      BY <1>1, <2>1, <2>2, <2>4, <3>1 DEF Ownership, UnsentIsFresh
  <2>8. FreshIsQueued'
    BY <1>1, <2>1, <2>2 DEF Ownership, FreshIsQueued
  <2> QED
    BY <2>1, <2>5, <2>6, <2>7, <2>8 DEF Ownership, StreamsAreOwn
<1>4. CASE GeneratorBuffers
  <2>1. Building' = Building /\ Newest' = Newest
    BY <1>1, <1>4 DEF GeneratorBuffers, Building, QueuedGraph, Newest, IInv
  <2> QED
    BY <1>4, <2>1 DEF GeneratorBuffers, Ownership, SentWhole, QueueIsFresh, UnsentIsFresh,
                      FreshIsQueued, StreamsAreOwn
<1>5. CASE GeneratorSends
  <2>1. /\ Building = QueuedGraph /\ Building' = {} /\ Newest' = Newest
        /\ pendingQ' = Append(pendingQ, QueuedGraph)
        /\ UNCHANGED <<st, chan, cb, holder, phase, status>>
        /\ genPc = "send" /\ genPc' = "resume" /\ genStop' = genStop
    BY <1>5 DEF GeneratorSends, Building, Newest
  <2>2. QueuedGraph \in SUBSET Request /\ \A r \in QueuedGraph : r <= st.created
    BY <1>1 DEF QueuedGraph, Newest
  <2>3. /\ DOMAIN pendingQ = 1 .. Len(pendingQ) /\ Len(pendingQ) \in Nat
        /\ DOMAIN pendingQ' = 1 .. Len(pendingQ) + 1
        /\ \A i \in 1 .. Len(pendingQ) : pendingQ'[i] = pendingQ[i]
        /\ pendingQ'[Len(pendingQ) + 1] = QueuedGraph
    BY <1>1, <2>1, <2>2
  <2>4. \A r \in QueuedGraph : holder[r] = NoWorker
    BY <2>1, <2>2 DEF Ownership, UnsentIsFresh
  <2>5. \A i \in DOMAIN pendingQ : pendingQ[i] \cap QueuedGraph = {}
    BY <2>1 DEF Ownership, QueueIsFresh
  <2>6. \A i \in DOMAIN pendingQ' : i \in DOMAIN pendingQ \/ i = Len(pendingQ) + 1
    BY <2>3
  <2>7. QueueIsFresh'
    <3>1. \A i \in DOMAIN pendingQ' : \A r \in pendingQ'[i] :
            holder[r] = NoWorker /\ r <= st.created
      BY <2>2, <2>3, <2>4, <2>6 DEF Ownership, QueueIsFresh
    <3>2. \A i, j \in DOMAIN pendingQ' : i # j => pendingQ'[i] \cap pendingQ'[j] = {}
      BY <2>3, <2>5, <2>6 DEF Ownership, QueueIsFresh
    <3> QED
      BY <2>1, <3>1, <3>2 DEF QueueIsFresh
  <2> QED
    BY <2>1, <2>7 DEF Ownership, SentWhole, UnsentIsFresh, FreshIsQueued, StreamsAreOwn,
                      EndsGraph
<1>6. CASE GeneratorResumes
  <2>1. Building = {} /\ Building' = {} /\ Newest' = Newest
    BY <1>6 DEF GeneratorResumes, Building, Newest
  <2> QED
    BY <1>6, <2>1 DEF GeneratorResumes, Ownership, SentWhole, QueueIsFresh, UnsentIsFresh,
                      FreshIsQueued, StreamsAreOwn
<1>7. CASE GeneratorExhausts \/ GeneratorStops
  <2>1. st'.created = st.created /\ st'.queued = st.queued
    <3>1. CASE GeneratorExhausts
      <4> DEFINE c == [st EXCEPT !.constraints = @ \cup {"requests_exhausted"}]
      <4>1. c \in Tracking /\ c.created = st.created /\ c.queued = st.queued
        BY DEF IInv, TypeOK, Tracking
      <4>2. st' = Constrained(c, timeUp)
        BY <3>1 DEF GeneratorExhausts, Exhausted
      <4> HIDE DEF c
      <4> QED
        BY <4>1, <4>2, ConstrainedEffect DEF SameSets
    <3>2. CASE GeneratorStops
      BY <3>2 DEF GeneratorStops
    <3> QED
      BY <1>7, <3>1, <3>2
  <2>2. /\ genPc \in {"exhausted", "stop"} /\ genPc' \in {"stop", "done"}
        /\ UNCHANGED <<genStop, pendingQ, chan, cb, holder, phase, status>>
    BY <1>7 DEF GeneratorExhausts, GeneratorStops
  <2>3. Building = {} /\ Building' = {}
    BY <2>2 DEF Building
  <2> QED
    BY <2>1, <2>2, <2>3 DEF Ownership, SentWhole, QueueIsFresh, UnsentIsFresh,
                      FreshIsQueued, StreamsAreOwn
<1> QED
  BY <1>2, <1>3, <1>4, <1>5, <1>6, <1>7 DEF Generator

\* The receiver takes the head of one stream and counts it.
ReceivedFrom(w, u) ==
  /\ cb.pc = "idle" /\ chan[w] # <<>> /\ u = Head(chan[w]) /\ u \in WorkerUpdate
  /\ chan' = [chan EXCEPT ![w] = Tail(@)]
  /\ st' = Updated(st, u.id, u.status, timeUp)
  /\ Moves(st, st', u.id, u.status)
  /\ cb'.pc = "check" /\ cb'.update = u
  /\ cb'.stopProcessing = st'.endProcessing
  /\ UNCHANGED <<timeUp, genVars, pendingQ, events, buffer, consumer, yielded, workerVars>>

LEMMA ReceivedKind ==
  ASSUME IInv, NEW w \in Workers, ReceiverCounts(w)
  PROVE  \E u \in WorkerUpdate : ReceivedFrom(w, u)
<1> DEFINE u == Head(chan[w])
<1>1. chan[w] \in Seq(WorkerUpdate) /\ chan[w] # <<>>
  BY DEF IInv, TypeOK, WorkerUpdate, ReceiverCounts
<1>2. u \in WorkerUpdate
  BY <1>1, TakeType
<1>3. /\ cb.pc = "idle" /\ chan' = [chan EXCEPT ![w] = Tail(@)]
      /\ st' = Updated(st, u.id, u.status, timeUp)
      /\ cb'.pc = "check" /\ cb'.update = u /\ cb'.stopProcessing = st'.endProcessing
      /\ UNCHANGED <<timeUp, genVars, pendingQ, events, buffer, consumer, yielded, workerVars>>
  BY DEF ReceiverCounts
<1> HIDE DEF u
<1>4. Moves(st, st', u.id, u.status)
  BY <1>2, <1>3, UpdatedMoves DEF IInv, WorkerUpdate
<1> QED
  BY <1>1, <1>2, <1>3, <1>4 DEF ReceivedFrom, u

\* What is left of a stream when its head has been taken.
LEMMA TakenFacts ==
  ASSUME TypeOK, NEW w \in Workers, NEW u \in WorkerUpdate, ReceivedFrom(w, u)
  PROVE  /\ \A v \in Workers : v # w => chan'[v] = chan[v]
         /\ chan[w] \in Seq(WorkerUpdate) /\ chan'[w] \in Seq(WorkerUpdate)
         /\ Len(chan[w]) \in Nat \ {0} /\ Len(chan'[w]) = Len(chan[w]) - 1
         /\ chan[w][1] = u
         /\ \A i \in 1 .. Len(chan'[w]) :
              i + 1 \in 2 .. Len(chan[w]) /\ chan'[w][i] = chan[w][i + 1]
         /\ \A i \in 2 .. Len(chan[w]) :
              i - 1 \in 1 .. Len(chan'[w]) /\ chan'[w][i - 1] = chan[w][i]
<1>1. chan \in [Workers -> Seq(WorkerUpdate)]
  BY DEF TypeOK, WorkerUpdate
<1>2. /\ chan[w] \in Seq(WorkerUpdate) /\ chan[w] # <<>> /\ u = Head(chan[w])
      /\ chan'[w] = Tail(chan[w]) /\ \A v \in Workers : v # w => chan'[v] = chan[v]
  BY <1>1 DEF ReceivedFrom
<1> QED
  BY <1>2

LEMMA ReceivedOwnership ==
  ASSUME IInv, Ownership, NEW w \in Workers, NEW u \in WorkerUpdate, ReceivedFrom(w, u)
  PROVE  Ownership'
<1> USE DEF events, workerVars, genVars
<1>1. /\ UNCHANGED <<genPc, genStop, pendingQ, holder, phase, status>>
      /\ cb.pc = "idle" /\ cb'.update = u
      /\ st'.created = st.created
      /\ \A y \in Request \ {u.id} : y \in st'.queued <=> y \in st.queued
  BY DEF ReceivedFrom, Moves
<1>2. Building' = Building /\ Newest' = Newest
  BY <1>1 DEF Building, QueuedGraph, Newest, EndsGraph
<1>3. SentWhole' /\ QueueIsFresh' /\ UnsentIsFresh'
  BY <1>1, <1>2 DEF Ownership, SentWhole, QueueIsFresh, UnsentIsFresh, EndsGraph
<1>4. /\ \A v \in Workers : v # w => chan'[v] = chan[v]
      /\ chan[w] \in Seq(WorkerUpdate) /\ chan'[w] \in Seq(WorkerUpdate)
      /\ Len(chan[w]) \in Nat \ {0} /\ Len(chan'[w]) = Len(chan[w]) - 1
      /\ chan[w][1] = u
      /\ \A i \in 1 .. Len(chan'[w]) :
           i + 1 \in 2 .. Len(chan[w]) /\ chan'[w][i] = chan[w][i + 1]
  BY TakenFacts DEF IInv
<1>5. \A i \in 1 .. Len(chan[w]) : holder[chan[w][i].id] = w
  BY <1>4 DEF Ownership, StreamsAreOwn
<1>6. holder[u.id] = w
  BY <1>4, <1>5
<1>7. \A i \in DOMAIN chan'[w] : holder[chan'[w][i].id] = w
  BY <1>4, <1>5
<1>8. NoWorker # w
  BY GroupAssumption
<1>9. StreamsAreOwn'
  BY <1>1, <1>4, <1>6, <1>7, <1>8 DEF Ownership, StreamsAreOwn
<1>10. FreshIsQueued'
  BY <1>1, <1>6, <1>8 DEF Ownership, FreshIsQueued
<1> QED
  BY <1>3, <1>9, <1>10 DEF Ownership

\* A worker fetches the graph at the head of the queue.
LEMMA FetchOwnership ==
  ASSUME IInv, Ownership, NEW w \in Workers, WorkerFetches(w)
  PROVE  Ownership'
<1> USE DEF events, workerVars, genVars
<1> DEFINE graph == Head(pendingQ)
<1>1. /\ pendingQ \in Seq(SUBSET Request) /\ pendingQ # <<>>
      /\ pendingQ' = Tail(pendingQ)
      /\ UNCHANGED <<st, genPc, genStop, chan, cb, status>>
      /\ holder' = [r \in Request |-> IF r \in graph THEN w ELSE holder[r]]
      /\ phase' = [r \in Request |-> IF r \in graph THEN "held" ELSE phase[r]]
  BY DEF WorkerFetches, IInv, TypeOK
<1>2. /\ graph = pendingQ[1] /\ 1 \in DOMAIN pendingQ /\ graph \in SUBSET Request
      /\ \A i \in DOMAIN pendingQ' : /\ i + 1 \in DOMAIN pendingQ /\ i + 1 # 1
                                     /\ pendingQ'[i] = pendingQ[i + 1]
      /\ \A i \in DOMAIN pendingQ' : i \in Nat
  BY <1>1
<1> HIDE DEF graph
<1>3. \A r \in graph : holder[r] = NoWorker /\ r <= st.created /\ r \notin Building
  BY <1>2 DEF Ownership, QueueIsFresh
<1>4. Building' = Building /\ Newest' = Newest
  BY <1>1 DEF Building, QueuedGraph, Newest, EndsGraph
<1>5. NoWorker # w
  BY GroupAssumption
<1>6. SentWhole'
  BY <1>1, <1>4 DEF Ownership, SentWhole, EndsGraph
<1>7. QueueIsFresh'
  <2>1. \A i \in DOMAIN pendingQ' : pendingQ'[i] \cap graph = {}
    BY <1>2 DEF Ownership, QueueIsFresh
  <2>2. \A i \in DOMAIN pendingQ' : pendingQ'[i] \subseteq Request
    BY <1>1, <1>2
  <2>3. \A i \in DOMAIN pendingQ' : \A r \in pendingQ'[i] :
          holder'[r] = NoWorker /\ r <= st.created /\ r \notin Building
    BY <1>1, <1>2, <2>1, <2>2 DEF Ownership, QueueIsFresh
  <2>4. \A i, j \in DOMAIN pendingQ' : i # j => pendingQ'[i] \cap pendingQ'[j] = {}
    <3> TAKE i, j \in DOMAIN pendingQ'
    <3> HAVE i # j
    <3>1. i + 1 # j + 1
      BY <1>2
    <3> QED
      BY <1>2, <3>1 DEF Ownership, QueueIsFresh
  <2> QED
    BY <1>1, <1>4, <2>3, <2>4 DEF QueueIsFresh
<1>8. UnsentIsFresh'
  <2>1. \A r \in Request : r > st.created => r \notin graph
    BY <1>3, StateAssumption DEF IInv, TypeOK, Tracking, Request
  <2> QED
    BY <1>1, <1>3, <1>4, <2>1 DEF Ownership, UnsentIsFresh
<1>9. FreshIsQueued'
  BY <1>1, <1>5 DEF Ownership, FreshIsQueued
<1>10. \A r \in Request : holder[r] # NoWorker => holder'[r] = holder[r]
  BY <1>1, <1>3
<1>11. StreamsAreOwn'
  <2>1. \A v \in Workers : \A i \in DOMAIN chan[v] : chan[v][i].id \in Request
    <3> TAKE v \in Workers
    <3>1. chan[v] \in Seq(WorkerUpdate)
      BY DEF IInv, TypeOK, WorkerUpdate
    <3>2. \A i \in DOMAIN chan[v] : chan[v][i] \in WorkerUpdate
      BY <3>1
    <3> QED
      BY <3>2 DEF WorkerUpdate
  <2>2. cb.pc # "idle" => cb.update.id \in Request
    BY DEF IInv, Update
  <2>3. NoWorker \notin Workers
    BY GroupAssumption
  <2> QED
    BY <1>1, <1>10, <2>1, <2>2, <2>3 DEF Ownership, StreamsAreOwn
<1> QED
  BY <1>6, <1>7, <1>8, <1>9, <1>11 DEF Ownership

\* Slots and the cancel loop touch the requests of their own worker only.
LEMMA SlotOwnership ==
  ASSUME IInv, Ownership, NEW w \in Workers, NEW r \in Request, SlotKind(w, r)
  PROVE  Ownership'
<1> USE DEF events, workerVars, genVars
<1>0. NoWorker # w /\ \A x \in Rest(w, r) : x \in Request /\ holder[x] = w
  BY GroupAssumption DEF Rest, Nodes
<1>1. /\ SlotFrame /\ holder[r] = w
      /\ \A x \in Request : holder[x] # w => phase'[x] = phase[x] /\ status'[x] = status[x]
      /\ \E news : Puts(w, news) /\ \A u \in news : holder[u.id] = w
  <2>1. ASSUME NEW new, NEW from, NEW to, SlotTells(w, r, new, from, to) PROVE <1>1
    <3>1. phase' = [phase EXCEPT ![r] = to] /\ status' = [status EXCEPT ![r] = new]
      BY <2>1 DEF SlotTells
    <3>2. \A u \in Sent(r, new) : u.id = r
      BY DEF Sent
    <3>3. Puts(w, Sent(r, new)) /\ holder[r] = w /\ SlotFrame
      BY <2>1 DEF SlotTells
    <3>4. phase \in [Request -> Phase] /\ status \in [Request -> Status]
      BY DEF IInv, TypeOK
    <3>5. \A x \in Request : holder[x] # w => phase'[x] = phase[x] /\ status'[x] = status[x]
      BY <3>1, <3>3, <3>4
    <3>6. \A u \in Sent(r, new) : holder[u.id] = w
      BY <3>2, <3>3
    <3> QED
      BY <3>3, <3>5, <3>6
  <2>2. ASSUME NEW new, SlotGivesUp(w, r, new) PROVE <1>1
    <3>1. /\ SlotFrame /\ holder[r] = w
          /\ Puts(w, Sent(r, new) \cup CancelledAll(Rest(w, r)))
      BY <2>2 DEF SlotGivesUp
    <3>2. \A u \in Sent(r, new) \cup CancelledAll(Rest(w, r)) : holder[u.id] = w
      BY <1>0, <3>1 DEF Sent, CancelledAll
    <3>3. \A x \in Request : holder[x] # w => phase'[x] = phase[x] /\ status'[x] = status[x]
      BY <1>0, <2>2, <3>1 DEF SlotGivesUp
    <3> QED
      BY <3>1, <3>2, <3>3
  <2> QED
    BY <2>1, <2>2 DEF SlotKind
<1>2. UNCHANGED <<st, genPc, genStop, pendingQ, holder, cb>>
  BY <1>1 DEF SlotFrame
<1>3. StreamsAreOwn'
  BY <1>1, <1>2, PutsOwn DEF IInv, Ownership
<1>4. Building' = Building /\ Newest' = Newest
  BY <1>2 DEF Building, QueuedGraph, Newest, EndsGraph
<1>5. FreshIsQueued'
  BY <1>0, <1>1, <1>2 DEF Ownership, FreshIsQueued
<1> QED
  BY <1>2, <1>3, <1>4, <1>5 DEF Ownership, SentWhole, QueueIsFresh, UnsentIsFresh, EndsGraph

LEMMA SweepOwnership ==
  ASSUME IInv, Ownership, NEW w \in Workers, SweepKind(w)
  PROVE  Ownership'
<1> USE DEF events, workerVars, genVars
<1>1. NoWorker # w /\ \A x \in Unfinished(w) : x \in Request /\ holder[x] = w
  BY GroupAssumption DEF Unfinished
<1>2. /\ UNCHANGED <<st, genPc, genStop, pendingQ, holder, cb>>
      /\ Puts(w, CancelledAll(Unfinished(w)))
  BY DEF SweepKind
<1>3. \A u \in CancelledAll(Unfinished(w)) : holder[u.id] = w
  BY <1>1 DEF CancelledAll
<1>4. StreamsAreOwn'
  BY <1>2, <1>3, PutsOwn DEF IInv, Ownership
<1>5. \A x \in Request : holder[x] # w => phase'[x] = phase[x] /\ status'[x] = status[x]
  BY <1>1 DEF SweepKind
<1>6. FreshIsQueued'
  BY <1>1, <1>2, <1>5 DEF Ownership, FreshIsQueued
<1>7. Building' = Building /\ Newest' = Newest
  BY <1>2 DEF Building, QueuedGraph, Newest, EndsGraph
<1> QED
  BY <1>2, <1>4, <1>6, <1>7
     DEF Ownership, SentWhole, QueueIsFresh, UnsentIsFresh, EndsGraph

\* A worker that dies takes a part of its stream with it.
LEMMA DeathFacts ==
  ASSUME TypeOK, NEW w \in Workers, WorkerDies(w)
  PROVE  /\ \A v \in Workers : v # w => chan'[v] = chan[v] /\ mode'[v] = mode[v]
         /\ mode'[w] = "dead"
         /\ chan'[w] \in Seq(WorkerUpdate) /\ chan[w] \in Seq(WorkerUpdate)
         /\ Len(chan[w]) \in Nat /\ Len(chan'[w]) \in Nat /\ Len(chan'[w]) <= Len(chan[w])
         /\ \A i \in 1 .. Len(chan'[w]) : chan'[w][i] = chan[w][i]
         /\ UNCHANGED <<st, timeUp, genVars, pendingQ, events, cb, buffer, consumer, yielded,
                        fetching, holder, phase, status, aborted>>
<1>1. chan \in [Workers -> Seq(WorkerUpdate)] /\ mode \in [Workers -> Mode]
  BY DEF TypeOK, WorkerUpdate
<1>2. PICK sent \in 0 .. Len(chan[w]) : chan' = [chan EXCEPT ![w] = SubSeq(@, 1, sent)]
  BY DEF WorkerDies
<1>3. chan[w] \in Seq(WorkerUpdate) /\ chan'[w] = SubSeq(chan[w], 1, sent)
  BY <1>1, <1>2
<1>4. /\ chan'[w] \in Seq(WorkerUpdate)
      /\ Len(chan[w]) \in Nat /\ Len(chan'[w]) = sent /\ sent \in Nat /\ sent <= Len(chan[w])
      /\ \A i \in 1 .. sent : chan'[w][i] = chan[w][i]
  BY <1>2, <1>3
<1> QED
  BY <1>1, <1>2, <1>3, <1>4 DEF WorkerDies

LEMMA DeathOwnership ==
  ASSUME IInv, Ownership, NEW w \in Workers, WorkerDies(w)
  PROVE  Ownership'
<1> USE DEF events, genVars
<1>1. UNCHANGED <<st, genPc, genStop, pendingQ, cb, holder, phase, status>>
  BY DeathFacts DEF IInv
<1>2. Building' = Building /\ Newest' = Newest
  BY <1>1 DEF Building, QueuedGraph, Newest, EndsGraph
<1>3. \A v \in Workers : \A i \in DOMAIN chan'[v] : holder[chan'[v][i].id] = v
  <2>1. /\ \A v \in Workers : v # w => chan'[v] = chan[v]
        /\ chan'[w] \in Seq(WorkerUpdate) /\ chan[w] \in Seq(WorkerUpdate)
        /\ Len(chan[w]) \in Nat /\ Len(chan'[w]) \in Nat /\ Len(chan'[w]) <= Len(chan[w])
        /\ \A i \in 1 .. Len(chan'[w]) : chan'[w][i] = chan[w][i]
    BY DeathFacts DEF IInv
  <2>2. \A i \in 1 .. Len(chan'[w]) : i \in DOMAIN chan[w]
    BY <2>1
  <2> QED
    BY <2>1, <2>2 DEF Ownership, StreamsAreOwn
<1> QED
  BY <1>1, <1>2, <1>3 DEF Ownership, SentWhole, QueueIsFresh, UnsentIsFresh, EndsGraph,
                          FreshIsQueued, StreamsAreOwn

LEMMA StepOwnership == IInv /\ Ownership /\ [Next]_vars => Ownership'
<1> SUFFICES ASSUME IInv, Ownership, [Next]_vars PROVE Ownership'
  OBVIOUS
<1> USE DEF genVars
<1>0. TypeOK
  BY DEF IInv
<1>1. ASSUME NEW w \in Workers, ReceiverCounts(w) PROVE Ownership'
  BY <1>1, ReceivedKind, ReceivedOwnership
<1>2. CASE ReceiverChecks \/ ReceiverBuffers
  <2>1. UNCHANGED <<st, genPc, genStop, pendingQ, chan, holder, phase, status>>
    BY <1>2 DEF ReceiverChecks, ReceiverBuffers, workerVars
  <2>2. Building' = Building /\ Newest' = Newest
    BY <2>1 DEF Building, QueuedGraph, Newest, EndsGraph
  <2>3. StreamsAreOwn'
    <3>1. CASE ReceiverChecks
      <4>1. cb.pc = "check" /\ cb'.update = cb.update
        BY <3>1 DEF ReceiverChecks, IInv, TypeOK, Callback
      <4> QED
        BY <2>1, <4>1 DEF Ownership, StreamsAreOwn
    <3>2. CASE ReceiverBuffers
      BY <2>1, <3>2 DEF ReceiverBuffers, Ownership, StreamsAreOwn, Idle
    <3> QED
      BY <1>2, <3>1, <3>2
  <2> QED
    BY <2>1, <2>2, <2>3 DEF Ownership, SentWhole, QueueIsFresh, UnsentIsFresh, EndsGraph,
                            FreshIsQueued
<1>3. CASE ConsumerYields \/ ConsumerPolls \/ QuietStep
  <2>1. UNCHANGED <<genPc, genStop, pendingQ, chan, cb, holder, phase, status>>
    BY <1>3 DEF ConsumerYields, ConsumerPolls, QuietStep, workerVars
  <2>2. st'.created = st.created /\ st'.queued = st.queued
    BY <1>0, <1>3, ConstrainedEffect
       DEF ConsumerYields, ConsumerPolls, QuietStep, TypeOK, SameSets
  <2>3. Building' = Building /\ Newest' = Newest
    BY <2>1, <2>2 DEF Building, QueuedGraph, Newest, EndsGraph
  <2> QED
    BY <2>1, <2>2, <2>3 DEF Ownership, SentWhole, QueueIsFresh, UnsentIsFresh, EndsGraph,
                            FreshIsQueued, StreamsAreOwn
<1> QED
  BY <1>0, <1>1, <1>2, <1>3, StepKinds, GeneratorOwnership, FetchOwnership, SweepOwnership,
     DeathOwnership, SlotOwnership

LEMMA InitOwnership == Init => Ownership
<1> SUFFICES ASSUME Init PROVE Ownership
  OBVIOUS
<1>1. /\ genPc = "pull" /\ st.created = 0 /\ pendingQ = <<>> /\ cb.pc = "idle"
      /\ \A r \in Request : /\ holder[r] = NoWorker /\ phase[r] = "unknown"
                            /\ status[r] = "queued"
      /\ \A w \in Workers : chan[w] = <<>>
  BY DEF Init, InitialTracking, Idle
<1>2. \A r \in Request : ~(r <= st.created)
  BY <1>1, StateAssumption DEF Request
<1> QED
  BY <1>1, <1>2 DEF Ownership, SentWhole, QueueIsFresh, UnsentIsFresh, FreshIsQueued,
                    StreamsAreOwn, Newest

-----------------------------------------------------------------------------
(***************************************************************************)
(* The requests of a graph stay together.                                  *)
(***************************************************************************)
GraphsTogether ==
  /\ \A i \in DOMAIN pendingQ : \A x \in pendingQ[i] : \A y \in Request :
       y <= st.created /\ GraphOf[y] = GraphOf[x] => y \in pendingQ[i]
  /\ \A x, y \in Request :
       GraphOf[x] = GraphOf[y] /\ holder[x] # NoWorker /\ y <= st.created
         => holder[y] = holder[x]

\* The generator does not come back to a graph it has sent.
LEMMA NewIsFresh ==
  ASSUME IInv, Ownership, genPc = "node", NEW x \in Request, x <= st.created,
         GraphOf[x] = GraphOf[st.created + 1]
  PROVE  x \in Building
<1> DEFINE n == st.created
<1>1. /\ n \in Nat /\ NumRequests \in Nat /\ n < NumRequests /\ Request = 1 .. NumRequests
  BY StateAssumption DEF IInv, TypeOK, Tracking, Request
<1>2. n \in Request /\ n + 1 \in Request /\ x <= n /\ n <= n + 1 /\ n > 0
  BY <1>1
<1>3. GraphOf[n] = GraphOf[x]
  BY <1>2, GroupAssumption DEF NumberedByGraph
<1>4. ~EndsGraph(n)
  BY <1>1, <1>3 DEF EndsGraph
<1> QED
  BY <1>1, <1>2, <1>3, <1>4 DEF Building, QueuedGraph, Newest, Request

LEMMA StepTogether == IInv /\ Ownership /\ GraphsTogether /\ [Next]_vars => GraphsTogether'
<1> SUFFICES ASSUME IInv, Ownership, GraphsTogether, [Next]_vars PROVE GraphsTogether'
  OBVIOUS
<1> USE DEF genVars, events, workerVars
<1>0. /\ TypeOK /\ st.created \in Nat /\ pendingQ \in Seq(SUBSET Request)
      /\ st.created <= NumRequests /\ NumRequests \in Nat /\ Request = 1 .. NumRequests
  BY StateAssumption DEF IInv, Consistent, TypeOK, Tracking, Request
<1>1. CASE UNCHANGED <<pendingQ, holder>> /\ st'.created = st.created
  BY <1>1 DEF GraphsTogether
<1>2. CASE GeneratorQueues
  <2> DEFINE n == st.created
  <2>1. /\ st' = Updated(st, n + 1, "queued", timeUp) /\ n < NumRequests /\ genPc = "node"
        /\ UNCHANGED <<pendingQ, holder>>
    BY <1>2 DEF GeneratorQueues, Newest, IInv
  <2>0. n + 1 \in Request
    BY <1>0, <2>1
  <2>2. st'.created = n + 1 /\ n + 1 \in Request
    BY <2>0, <2>1, QueuedEffect DEF IInv
  <2>3. \A x \in Request : GraphOf[x] = GraphOf[n + 1] => holder[x] = NoWorker
    BY <1>0, <2>1, NewIsFresh DEF Ownership, UnsentIsFresh
  <2>4. \A i \in DOMAIN pendingQ : \A x \in pendingQ[i] : GraphOf[x] # GraphOf[n + 1]
    <3> SUFFICES ASSUME NEW i \in DOMAIN pendingQ, NEW x \in pendingQ[i],
                        GraphOf[x] = GraphOf[n + 1]
                 PROVE  FALSE
      OBVIOUS
    <3>1. x \in Request /\ x <= n /\ x \notin Building
      BY <1>0 DEF Ownership, QueueIsFresh
    <3> QED
      BY <2>1, <3>1, NewIsFresh
  <2>5. \A y \in Request : y <= n + 1 => y <= n \/ y = n + 1
    BY <1>0
  <2> QED
    BY <2>1, <2>2, <2>3, <2>4, <2>5 DEF GraphsTogether
<1>3. CASE GeneratorSends
  <2>1. /\ pendingQ' = Append(pendingQ, QueuedGraph) /\ UNCHANGED <<st, holder>>
    BY <1>3 DEF GeneratorSends
  <2>2. QueuedGraph \in SUBSET Request
    BY <1>0 DEF QueuedGraph, Newest
  <2>3. \A i \in DOMAIN pendingQ' :
          \/ i \in DOMAIN pendingQ /\ pendingQ'[i] = pendingQ[i]
          \/ pendingQ'[i] = QueuedGraph
    BY <1>0, <2>1, <2>2
  <2>4. \A x \in QueuedGraph : \A y \in Request :
          y <= st.created /\ GraphOf[y] = GraphOf[x] => y \in QueuedGraph
    BY <1>0 DEF QueuedGraph, Newest
  <2> QED
    BY <2>1, <2>3, <2>4 DEF GraphsTogether
<1>4. ASSUME NEW w \in Workers, WorkerFetches(w) PROVE GraphsTogether'
  <2> DEFINE graph == Head(pendingQ)
  <2>1. /\ pendingQ # <<>> /\ pendingQ' = Tail(pendingQ) /\ st' = st
        /\ holder' = [r \in Request |-> IF r \in graph THEN w ELSE holder[r]]
    BY <1>4 DEF WorkerFetches
  <2>2. /\ graph = pendingQ[1] /\ 1 \in DOMAIN pendingQ
        /\ \A i \in DOMAIN pendingQ' : i + 1 \in DOMAIN pendingQ /\ pendingQ'[i] = pendingQ[i + 1]
    BY <1>0, <2>1
  <2> HIDE DEF graph
  <2>3. \A x \in graph : \A y \in Request :
          y <= st.created /\ GraphOf[y] = GraphOf[x] => y \in graph
    BY <2>2 DEF GraphsTogether
  <2>4. \A x \in graph : x <= st.created /\ holder[x] = NoWorker
    BY <2>2 DEF Ownership, QueueIsFresh
  <2>5. \A x, y \in Request :
          GraphOf[x] = GraphOf[y] /\ holder'[x] # NoWorker /\ y <= st.created
            => holder'[y] = holder'[x]
    <3> TAKE x, y \in Request
    <3> HAVE GraphOf[x] = GraphOf[y] /\ holder'[x] # NoWorker /\ y <= st.created
    <3>1. CASE x \in graph
      BY <2>1, <2>3, <3>1
    <3>2. CASE x \notin graph
      <4>1. holder[x] # NoWorker /\ holder[y] = holder[x]
        BY <2>1, <3>2 DEF GraphsTogether
      <4>2. y \notin graph
        BY <2>4, <4>1
      <4> QED
        BY <2>1, <3>2, <4>1, <4>2
    <3> QED
      BY <3>1, <3>2
  <2>6. \A i \in DOMAIN pendingQ' : \A x \in pendingQ'[i] : \A y \in Request :
          y <= st.created /\ GraphOf[y] = GraphOf[x] => y \in pendingQ'[i]
    BY <2>2 DEF GraphsTogether
  <2> QED
    BY <2>1, <2>5, <2>6 DEF GraphsTogether
<1>5. CASE GeneratorExhausts
  <2>1. st'.created = st.created
    BY <1>5, ExhaustedConsistent DEF GeneratorExhausts, IInv, TypeOK
  <2> QED
    BY <1>1, <1>5, <2>1 DEF GeneratorExhausts
<1>6. GeneratorPulls \/ GeneratorBuffers \/ GeneratorResumes \/ GeneratorStops
        => UNCHANGED <<pendingQ, holder, st>>
  BY DEF GeneratorPulls, GeneratorBuffers, GeneratorResumes, GeneratorStops
<1>7. ReceiverChecks \/ ReceiverBuffers \/ ConsumerYields \/ QuietStep
        => UNCHANGED <<pendingQ, holder, st>>
  BY DEF ReceiverChecks, ReceiverBuffers, ConsumerYields, QuietStep
<1>8. ConsumerPolls => UNCHANGED <<pendingQ, holder>> /\ st'.created = st.created
  BY <1>0, ConstrainedEffect DEF ConsumerPolls, SameSets, TypeOK
<1>9. ASSUME NEW w \in Workers, ReceiverCounts(w)
      PROVE  UNCHANGED <<pendingQ, holder>> /\ st'.created = st.created
  BY <1>9, ReceivedKind DEF ReceivedFrom, Moves
<1>10. ASSUME NEW w \in Workers, SweepKind(w) \/ WorkerDies(w)
       PROVE  UNCHANGED <<pendingQ, holder, st>>
  BY <1>10 DEF SweepKind, WorkerDies
<1>11. ASSUME NEW w \in Workers, NEW r \in Request, SlotKind(w, r)
       PROVE  UNCHANGED <<pendingQ, holder, st>>
  BY <1>11 DEF SlotKind, SlotTells, SlotGivesUp, SlotFrame
<1> QED
  BY <1>0, <1>1, <1>2, <1>3, <1>4, <1>5, <1>6, <1>7, <1>8, <1>9, <1>10, <1>11, StepKinds
     DEF Generator

LEMMA InitTogether == Init => GraphsTogether
<1> SUFFICES ASSUME Init PROVE GraphsTogether
  OBVIOUS
<1>1. pendingQ = <<>> /\ \A r \in Request : holder[r] = NoWorker
  BY DEF Init
<1> QED
  BY <1>1 DEF GraphsTogether

\* Every graph reaches at most one worker, once and whole; until then nothing happens to
\* its requests, and a worker reports only what it holds.
THEOREM GraphsReachOneWorker == Spec => [](Ownership /\ GraphsTogether)
<1>1. Init => IInv /\ Ownership /\ GraphsTogether
  BY InitIInv, InitOwnership, InitTogether
<1>2. IInv /\ Ownership /\ GraphsTogether /\ [Next]_vars
        => (IInv /\ Ownership /\ GraphsTogether)'
  BY StepIInv, StepOwnership, StepTogether
<1> QED
  BY <1>1, <1>2, PTL DEF Spec

-----------------------------------------------------------------------------
(***************************************************************************)
(* The shutdown event means that all is processed.                         *)
(***************************************************************************)

\* The end of processing that max_requests or the end of the dataset asks for.
MustStop(s) ==
  \/ "max_requests" \in s.constraints /\ s.processed >= MaxRequests
  \/ "requests_exhausted" \in s.constraints /\ s.processed >= NumRequests

\* Only the end of the dataset registers requests_exhausted, and a generator that has
\* run dry or failed has not reached the limit.
GenerationEnds ==
  /\ st.constraints \subseteq Constraints \cup {"requests_exhausted"}
  /\ "requests_exhausted" \in st.constraints =>
       genPc \in {"stop", "done"} /\ st.created = NumRequests
  /\ genPc = "exhausted" => st.created = NumRequests
  /\ "max_requests" \in Constraints /\ genPc \in {"exhausted", "failed"} =>
       st.created < MaxRequests

\* The decision to end processing is taken for good, and the events rest on it.
EventsAreEarned ==
  \/ constraintReached \/ shutdownEvent \/ consumer = "setConstraint"
  \/ cb.pc = "check" /\ cb.stopProcessing
  => st.endProcessing

\* What a worker's update leaves of a decision.
LEMMA UpdatedEnding ==
  ASSUME NEW s, Consistent(s), NEW r \in Request, NEW x \in WorkerStatus, NEW t
  PROVE  LET c == Updated(s, r, x, t)
         IN  /\ s.endProcessing => c.endProcessing
             /\ c.endProcessing /\ s.constraints \subseteq {"max_requests", "requests_exhausted"}
                  => s.endProcessing \/ MustStop(c)
             /\ MustStop(s) => MustStop(c)
<1> DEFINE k == Counted(s, r, x)
           c == Constrained(k, t)
<1>1. Moves(s, k, r, x) /\ k \in Tracking
  BY CountedMoves
<1>2. k.endProcessing = s.endProcessing
  BY DEF Consistent, Tracking, Counted, Finalized
<1>3. /\ s.processed \in Nat /\ k.processed \in Nat /\ MaxRequests \in Nat
      /\ NumRequests \in Nat
  BY <1>1, StateAssumption DEF Consistent, Tracking
<1> HIDE DEF k
<1>4. /\ SameSets(k, c) /\ c.constraints = k.constraints
      /\ c.endProcessing = (k.endProcessing \/ StopsProcessing(k, t))
  BY <1>1, ConstrainedEffect
<1> HIDE DEF c
<1>5. /\ c.constraints = s.constraints /\ c.processed = k.processed
      /\ s.processed <= c.processed
  BY <1>1, <1>3, <1>4 DEF Moves, SameSets
<1>6. MustStop(s) => MustStop(c)
  BY <1>3, <1>5 DEF MustStop
<1>7. StopsProcessing(k, t) /\ s.constraints \subseteq {"max_requests", "requests_exhausted"}
        => MustStop(c)
  BY <1>1, <1>5 DEF StopsProcessing, MustStop, Moves
<1> QED
  BY <1>2, <1>4, <1>6, <1>7 DEF Updated, c, k

\* The same of an evaluation of the constraints alone.
LEMMA ConstrainedEnding ==
  ASSUME NEW s \in Tracking, NEW t
  PROVE  LET c == Constrained(s, t)
         IN  /\ s.endProcessing => c.endProcessing
             /\ c.endProcessing /\ s.constraints \subseteq {"max_requests", "requests_exhausted"}
                  => s.endProcessing \/ MustStop(c)
             /\ MustStop(s) => MustStop(c)
<1> DEFINE c == Constrained(s, t)
<1>1. /\ SameSets(s, c) /\ c.constraints = s.constraints
      /\ c.endProcessing = (s.endProcessing \/ StopsProcessing(s, t))
  BY ConstrainedEffect
<1> HIDE DEF c
<1>2. /\ MustStop(s) => MustStop(c)
      /\ StopsProcessing(s, t) /\ s.constraints \subseteq {"max_requests", "requests_exhausted"}
           => MustStop(c)
  BY <1>1 DEF MustStop, SameSets, StopsProcessing
<1> QED
  BY <1>1, <1>2 DEF c

LEMMA StepGenerationEnds ==
  IInv /\ BelowLimit /\ GenerationEnds /\ [Next]_vars => GenerationEnds'
<1> SUFFICES ASSUME IInv, BelowLimit, GenerationEnds, [Next]_vars PROVE GenerationEnds'
  OBVIOUS
<1> USE DEF genVars, events, workerVars
<1>0. /\ TypeOK /\ st.created \in Nat /\ NumRequests \in Nat /\ st.created <= NumRequests
      /\ "requests_exhausted" \notin Constraints /\ st \in Tracking
  BY StateAssumption DEF IInv, Consistent, TypeOK, Tracking, ConstraintNames
<1>1. CASE UNCHANGED <<genPc, st>>
  BY <1>1 DEF GenerationEnds
<1>2. CASE GeneratorPulls
  BY <1>0, <1>2 DEF GeneratorPulls, GenerationEnds, BelowLimit
<1>3. CASE GeneratorQueues
  <2>1. st'.constraints = st.constraints /\ genPc = "node" /\ genPc' = "buffer"
    BY <1>3, QueuedEffect DEF GeneratorQueues, IInv, Newest
  <2> QED
    BY <2>1 DEF GenerationEnds
<1>4. CASE GeneratorBuffers \/ GeneratorSends \/ GeneratorResumes \/ GeneratorStops
  BY <1>4 DEF GeneratorBuffers, GeneratorSends, GeneratorResumes, GeneratorStops,
              GenerationEnds
<1>5. CASE GeneratorExhausts
  <2> DEFINE c == [st EXCEPT !.constraints = @ \cup {"requests_exhausted"}]
  <2>1. /\ c \in Tracking /\ c.created = st.created
        /\ c.constraints = st.constraints \cup {"requests_exhausted"}
    BY <1>0 DEF Tracking
  <2>2. st' = Constrained(c, timeUp) /\ genPc = "exhausted" /\ genPc' = "stop"
    BY <1>5 DEF GeneratorExhausts, Exhausted
  <2> HIDE DEF c
  <2>3. st'.created = st.created /\ st'.constraints = st.constraints \cup {"requests_exhausted"}
    BY <2>1, <2>2, ConstrainedEffect DEF SameSets
  <2> QED
    BY <2>2, <2>3 DEF GenerationEnds
<1>6. ASSUME NEW w \in Workers, ReceiverCounts(w) PROVE GenerationEnds'
  <2>1. st'.created = st.created /\ st'.constraints = st.constraints /\ genPc' = genPc
    BY <1>6, ReceivedKind DEF ReceivedFrom, Moves
  <2> QED
    BY <2>1 DEF GenerationEnds
<1>7. CASE ConsumerPolls
  <2>1. st'.created = st.created /\ st'.constraints = st.constraints /\ genPc' = genPc
    BY <1>0, <1>7, ConstrainedEffect DEF ConsumerPolls, SameSets
  <2> QED
    BY <2>1 DEF GenerationEnds
<1>8. ReceiverChecks \/ ReceiverBuffers \/ ConsumerYields \/ QuietStep
        => UNCHANGED <<genPc, st>>
  BY DEF ReceiverChecks, ReceiverBuffers, ConsumerYields, QuietStep
<1>9. ASSUME NEW w \in Workers, WorkerFetches(w) \/ SweepKind(w) \/ WorkerDies(w)
      PROVE  UNCHANGED <<genPc, st>>
  BY <1>9 DEF WorkerFetches, SweepKind, WorkerDies
<1>10. ASSUME NEW w \in Workers, NEW r \in Request, SlotKind(w, r)
       PROVE  UNCHANGED <<genPc, st>>
  BY <1>10 DEF SlotKind, SlotTells, SlotGivesUp, SlotFrame
<1> QED
  BY <1>0, <1>1, <1>2, <1>3, <1>4, <1>5, <1>6, <1>7, <1>8, <1>9, <1>10, StepKinds
     DEF Generator

\* Once processing must stop, nothing is tracked and nothing more is generated: the
\* request that the generator has counted last is still queued until it is sent.
LEMMA StopMeansAllProcessed ==
  ASSUME IInv, BelowLimit, Ownership, GenerationEnds, MustStop(st)
  PROVE  Live(st) = {} /\ GenerationOver
<1>1. /\ st.created \in Nat /\ st.processed \in Nat /\ NumRequests \in Nat
      /\ MaxRequests \in Nat \ {0} /\ st.created <= NumRequests
      /\ "requests_exhausted" \notin Constraints
      /\ st.created = Cardinality(Live(st)) + st.processed
      /\ genPc \in GenPc
  BY StateAssumption DEF IInv, Consistent, TypeOK, Tracking, ConstraintNames
<1>2. IsFiniteSet(Live(st)) /\ Cardinality(Live(st)) \in Nat
  BY LiveFinite DEF IInv
<1>3. CASE "requests_exhausted" \in st.constraints /\ st.processed >= NumRequests
  <2>1. genPc \in {"stop", "done"} /\ st.created = NumRequests
    BY <1>3 DEF GenerationEnds
  <2>2. Cardinality(Live(st)) = 0
    BY <1>1, <1>2, <1>3, <2>1
  <2> QED
    BY <1>2, <2>1, <2>2, FS_EmptySet DEF GenerationOver
<1>4. CASE "max_requests" \in st.constraints /\ st.processed >= MaxRequests
  <2>1. "max_requests" \in Constraints
    BY <1>4 DEF GenerationEnds
  <2>2. st.created <= MaxRequests
    BY <2>1 DEF BelowLimit
  <2>3. Cardinality(Live(st)) = 0 /\ st.created = MaxRequests
    BY <1>1, <1>2, <1>4, <2>2
  <2>4. Live(st) = {}
    BY <1>2, <2>3, FS_EmptySet
  <2>5. genPc \notin {"buffer", "send"}
    <3> SUFFICES ASSUME genPc \in {"buffer", "send"} PROVE FALSE
      OBVIOUS
    <3>1. Newest \in Request /\ Newest \in Building
      BY <1>1, <2>3 DEF Building, QueuedGraph, Newest, Request
    <3>2. holder[Newest] = NoWorker
      BY <3>1 DEF Ownership, UnsentIsFresh
    <3>3. Newest \in st.queued
      BY <1>1, <3>1, <3>2 DEF Ownership, FreshIsQueued, Newest
    <3> QED
      BY <2>4, <3>3 DEF Live
  <2>6. genPc \notin {"pull", "node", "exhausted", "failed"}
    BY <1>1, <2>1, <2>3 DEF BelowLimit, GenerationEnds
  <2>7. genPc = "resume" => genStop
    BY <1>1, <2>1, <2>3 DEF BelowLimit
  <2> QED
    BY <1>1, <2>4, <2>5, <2>6, <2>7 DEF GenPc, GenerationOver
<1> QED
  BY <1>3, <1>4 DEF MustStop

\* Once taken, the decision to end processing stands.
LEMMA EndingStands ==
  IInv /\ [Next]_vars =>
    /\ st.endProcessing => st'.endProcessing
    /\ st.constraints \subseteq {"max_requests", "requests_exhausted"} =>
         /\ st'.endProcessing => st.endProcessing \/ MustStop(st')
         /\ MustStop(st) => MustStop(st')
<1> DEFINE Stands ==
      /\ st.endProcessing => st'.endProcessing
      /\ st.constraints \subseteq {"max_requests", "requests_exhausted"} =>
           /\ st'.endProcessing => st.endProcessing \/ MustStop(st')
           /\ MustStop(st) => MustStop(st')
<1> SUFFICES ASSUME IInv, [Next]_vars PROVE Stands
  OBVIOUS
<1>0. TypeOK /\ Consistent(st) /\ st \in Tracking /\ st.created \in Nat
  BY DEF IInv, TypeOK, Tracking
<1>1. CASE st' = st
  BY <1>1
<1>2. CASE GeneratorQueues
  <2> DEFINE k == Counted(st, st.created + 1, "queued")
  <2>1. st' = Updated(st, st.created + 1, "queued", timeUp) /\ st.created < NumRequests
    BY <1>2 DEF GeneratorQueues, Newest, IInv
  <2>2. /\ st'.constraints = st.constraints /\ st'.processed = st.processed
        /\ st'.endProcessing = (st.endProcessing \/ StopsProcessing(k, timeUp))
    BY <1>0, <2>1, QueuedEffect
  <2>3. k.constraints = st.constraints /\ k.processed = st.processed
    BY <1>0 DEF Counted, Tracking
  <2> HIDE DEF k
  <2>4. MustStop(st) <=> MustStop(st')
    BY <2>2 DEF MustStop
  <2>5. StopsProcessing(k, timeUp)
          /\ st.constraints \subseteq {"max_requests", "requests_exhausted"} => MustStop(st')
    BY <2>2, <2>3 DEF MustStop, StopsProcessing
  <2>6. st'.endProcessing <=> st.endProcessing \/ StopsProcessing(k, timeUp)
    BY <2>2
  <2> QED
    BY <2>4, <2>5, <2>6
<1>3. CASE GeneratorExhausts
  <2> DEFINE c == [st EXCEPT !.constraints = @ \cup {"requests_exhausted"}]
  <2>1. /\ c \in Tracking /\ c.endProcessing = st.endProcessing
        /\ c.constraints = st.constraints \cup {"requests_exhausted"}
        /\ c.processed = st.processed
    BY <1>0 DEF Tracking
  <2>2. st' = Constrained(c, timeUp)
    BY <1>3 DEF GeneratorExhausts, Exhausted
  <2> HIDE DEF c
  <2>3. MustStop(st) => MustStop(c)
    BY <2>1 DEF MustStop
  <2>4. /\ c.endProcessing => st'.endProcessing
        /\ st'.endProcessing /\ c.constraints \subseteq {"max_requests", "requests_exhausted"}
             => c.endProcessing \/ MustStop(st')
        /\ MustStop(c) => MustStop(st')
    BY <2>1, <2>2, ConstrainedEnding
  <2> QED
    BY <2>1, <2>3, <2>4
<1>4. ASSUME NEW w \in Workers, ReceiverCounts(w) PROVE Stands
  <2>1. PICK u \in WorkerUpdate : ReceivedFrom(w, u)
    BY <1>4, ReceivedKind
  <2>2. st' = Updated(st, u.id, u.status, timeUp) /\ u.id \in Request
        /\ u.status \in WorkerStatus
    BY <2>1 DEF ReceivedFrom, WorkerUpdate
  <2> QED
    BY <1>0, <2>2, UpdatedEnding
<1>5. CASE ConsumerPolls
  BY <1>0, <1>5, ConstrainedEnding DEF ConsumerPolls
<1>6. \/ GeneratorPulls \/ GeneratorBuffers \/ GeneratorSends \/ GeneratorResumes
      \/ GeneratorStops \/ ReceiverChecks \/ ReceiverBuffers \/ ConsumerYields \/ QuietStep
      => st' = st
  BY DEF GeneratorPulls, GeneratorBuffers, GeneratorSends, GeneratorResumes, GeneratorStops,
         ReceiverChecks, ReceiverBuffers, ConsumerYields, QuietStep
<1>7. ASSUME NEW w \in Workers, WorkerFetches(w) \/ SweepKind(w) \/ WorkerDies(w)
      PROVE  st' = st
  BY <1>7 DEF WorkerFetches, SweepKind, WorkerDies
<1>8. ASSUME NEW w \in Workers, NEW r \in Request, SlotKind(w, r) PROVE st' = st
  BY <1>8 DEF SlotKind, SlotTells, SlotGivesUp, SlotFrame
<1> HIDE DEF Stands
<1> QED
  BY <1>0, <1>1, <1>2, <1>3, <1>4, <1>5, <1>6, <1>7, <1>8, StepKinds DEF Generator

LEMMA StepEventsAreEarned == IInv /\ EventsAreEarned /\ [Next]_vars => EventsAreEarned'
<1> SUFFICES ASSUME IInv, EventsAreEarned, [Next]_vars PROVE EventsAreEarned'
  OBVIOUS
<1> USE DEF events, genVars, workerVars
<1>0. TypeOK /\ (st.endProcessing => st'.endProcessing)
  BY EndingStands DEF IInv
<1> DEFINE Basis == <<constraintReached, shutdownEvent, consumer, cb>>
<1>1. CASE UNCHANGED Basis
  BY <1>0, <1>1 DEF EventsAreEarned
<1>2. Generator => UNCHANGED Basis
  BY DEF Generator, GeneratorPulls, GeneratorQueues, GeneratorBuffers, GeneratorSends,
         GeneratorResumes, GeneratorExhausts, GeneratorStops
<1>3. ASSUME NEW w \in Workers, ReceiverCounts(w) PROVE EventsAreEarned'
  <2>1. /\ cb'.stopProcessing = st'.endProcessing
        /\ UNCHANGED <<constraintReached, shutdownEvent, consumer>>
    BY <1>3 DEF ReceiverCounts
  <2> QED
    BY <1>0, <2>1 DEF EventsAreEarned
<1>4. CASE ReceiverChecks
  <2>1. cb'.pc = "put" /\ cb.pc = "check" /\ st' = st /\ consumer' = consumer
        /\ (constraintReached' => ReachedNow) /\ (shutdownEvent' => shutdownEvent \/ ReachedNow)
    BY <1>0, <1>4 DEF ReceiverChecks, AllDone, TypeOK, Callback
  <2> QED
    BY <2>1 DEF EventsAreEarned, ReachedNow
<1>5. CASE ReceiverBuffers
  BY <1>0, <1>5 DEF ReceiverBuffers, Idle, EventsAreEarned
<1>6. CASE ConsumerPolls
  BY <1>0, <1>6 DEF ConsumerPolls, EventsAreEarned, NextWait
<1>7. CASE ConsumerYields \/ ConsumerTimesOut \/ ConsumerFinishes \/ ConsumerSetsConstraint
           \/ ConsumerSetsStop
  BY <1>0, <1>7 DEF ConsumerYields, ConsumerTimesOut, ConsumerFinishes,
                    ConsumerSetsConstraint, ConsumerSetsStop, EventsAreEarned, NextWait
<1>8. MonitorFindsDead \/ TimePasses \/ UNCHANGED vars => UNCHANGED Basis
  BY DEF MonitorFindsDead, TimePasses, vars
<1>9. ASSUME NEW w \in Workers, WorkerStep(w) PROVE UNCHANGED Basis
  BY <1>9 DEF WorkerStep, WorkerFetches, WorkerFindsEmpty, WorkerStopsFetching,
              WorkerSeesConstraint, WorkerSweeps, WorkerExits, WorkerDies
<1>10. ASSUME NEW w \in Workers, NEW r \in Request, SlotStep(w, r) PROVE UNCHANGED Basis
  BY <1>0, <1>10, SlotKinds DEF SlotKind, SlotTells, SlotGivesUp, SlotFrame
<1> HIDE DEF Basis
<1> QED
  BY <1>1, <1>2, <1>3, <1>4, <1>5, <1>6, <1>7, <1>8, <1>9, <1>10
     DEF Next, Receiver, ConsumerSteps, Ended, WorkerStep, SlotStep

\* What the shutdown event rests on, when no constraint but max_requests is set.
EndsExactly ==
  /\ BelowLimit /\ Ownership /\ GenerationEnds /\ EventsAreEarned
  /\ st.endProcessing => MustStop(st)

LEMMA StepEndsExactly ==
  ASSUME Constraints \subseteq {"max_requests"}
  PROVE  IInv /\ EndsExactly /\ [Next]_vars => EndsExactly'
<1> SUFFICES ASSUME IInv, EndsExactly, [Next]_vars PROVE EndsExactly'
  OBVIOUS
<1>1. st.constraints \subseteq {"max_requests", "requests_exhausted"}
  BY DEF EndsExactly, GenerationEnds
<1>2. st'.endProcessing => MustStop(st')
  BY <1>1, EndingStands DEF EndsExactly
<1> QED
  BY <1>2, StepBelowLimit, StepOwnership, StepGenerationEnds, StepEventsAreEarned
     DEF EndsExactly

LEMMA InitEndsExactly == Init => EndsExactly
<1> SUFFICES ASSUME Init PROVE EndsExactly
  OBVIOUS
<1>1. /\ st = InitialTracking /\ genPc = "pull" /\ cb = Idle /\ consumer = "get"
      /\ ~constraintReached /\ ~shutdownEvent
  BY DEF Init
<1>2. /\ st.constraints = Constraints /\ st.created = 0 /\ ~st.endProcessing
  BY <1>1 DEF InitialTracking
<1>3. BelowLimit /\ GenerationEnds
  BY <1>1, <1>2, StateAssumption DEF BelowLimit, GenerationEnds, ConstraintNames
<1>4. EventsAreEarned
  BY <1>1 DEF EventsAreEarned, Idle
<1> QED
  BY <1>2, <1>3, <1>4, InitOwnership DEF EndsExactly

\* For every dataset, with max_requests or without a limit: when the workers are told to
\* shut down, every request has been processed and none will be created.  (The other
\* limits can be reached while the generator is about to create one.)
THEOREM ShutdownIsEarned ==
  ASSUME Constraints \subseteq {"max_requests"}
  PROVE  Spec => []ShutdownMeansAllProcessed
<1>1. IInv /\ EndsExactly => ShutdownMeansAllProcessed
  BY StopMeansAllProcessed DEF EndsExactly, EventsAreEarned, ShutdownMeansAllProcessed
<1>2. IInv /\ EndsExactly /\ [Next]_vars => EndsExactly'
  BY StepEndsExactly
<1> QED
  BY <1>1, <1>2, InitEndsExactly, Invariant, PTL DEF Spec

-----------------------------------------------------------------------------
(***************************************************************************)
(* The coordinator never counts more requests at a worker than it has      *)
(* slots, although it counts from a stream that lags behind.               *)
(***************************************************************************)

\* What the first k updates on w's stream tell of r.
Told(w, k, r, x) == \E i \in 1 .. k : chan[w][i] = [id |-> r, status |-> x]
EndTold(w, k, r) ==
  \E i \in 1 .. k : chan[w][i].id = r /\ chan[w][i].status \in TerminalStatus

\* The requests of w the coordinator will count when it has read k more updates of w.
CountedAt(w, k) ==
  {r \in Live(st) : /\ holder[r] = w
                    /\ r \in st.pending \cup st.processing \/ Told(w, k, r, "pending")
                    /\ ~EndTold(w, k, r)}

\* The requests in flight whose graph has not been given up.
Working(w) == {r \in InFlight(w) : GraphOf[r] \notin aborted}

StatusFitsPhase ==
  \A r \in Request :
    /\ phase[r] = "held" => status[r] = "queued"
    /\ status[r] \in {"in_progress", "first_token"} => phase[r] = "running"
    /\ status[r] = "completed" => phase[r] = "completed"
    /\ status[r] = "errored" => phase[r] = "ended"
    /\ status[r] = "cancelled" => phase[r] = "ended" \/ GraphOf[r] \in aborted

\* An update follows on the stream the ones it presupposes.
StreamFollowsPhases ==
  \A w \in Workers : \A i \in DOMAIN chan[w] :
    LET r == chan[w][i].id
    IN  /\ chan[w][i].status = "completed" =>
             r \notin Live(st) \/ r \in st.processing \/ Told(w, i - 1, r, "in_progress")
        /\ chan[w][i].status = "in_progress" =>
             \/ r \notin Live(st) \/ r \in st.pending \cup st.processing
             \/ Told(w, i - 1, r, "pending")

\* What a living worker has done with a request, the coordinator knows or will read.
PhasesAreTold ==
  \A w \in Workers : \A r \in Request : mode[w] # "dead" /\ holder[r] = w =>
    /\ phase[r] \in {"claimed", "running", "completed"} =>
         \/ r \notin Live(st) \/ r \in st.pending \cup st.processing
         \/ Told(w, Len(chan[w]), r, "pending")
    /\ phase[r] \in {"running", "completed"} =>
         \/ r \notin Live(st) \/ r \in st.processing
         \/ Told(w, Len(chan[w]), r, "in_progress")

SlotsBound == \A w \in Workers : Cardinality(InFlight(w)) <= AsyncLimit[w]

CountedAreWorking ==
  \A w \in Workers : mode[w] # "dead" => CountedAt(w, Len(chan[w])) \subseteq Working(w)

BoundedAhead ==
  \A w \in Workers : \A k \in 0 .. Len(chan[w]) : Cardinality(CountedAt(w, k)) <= AsyncLimit[w]

Lagging == /\ StatusFitsPhase /\ StreamFollowsPhases /\ PhasesAreTold
           /\ SlotsBound /\ CountedAreWorking /\ BoundedAhead

\* A set of requests is finite, and no larger than one that holds it.
LEMMA SmallerSet ==
  ASSUME NEW B \in SUBSET Request, NEW A \in SUBSET B
  PROVE  /\ IsFiniteSet(A) /\ IsFiniteSet(B)
         /\ Cardinality(A) \in Nat /\ Cardinality(B) \in Nat
         /\ Cardinality(A) <= Cardinality(B)
<1>1. IsFiniteSet(Request)
  BY StateAssumption, FS_Interval DEF Request
<1>2. IsFiniteSet(B)
  BY <1>1, FS_Subset
<1> QED
  BY <1>2, FS_Subset, FS_CardinalityType

\* When w's stream grows, what it told before stays told.
LEMMA GrownStream ==
  ASSUME TypeOK, NEW w \in Workers, NEW news, Puts(w, news), st' = st, holder' = holder
  PROVE  /\ \A v \in Workers, k \in Nat : \A r, x : v # w =>
              (Told(v, k, r, x)' <=> Told(v, k, r, x))
         /\ \A v \in Workers, k \in Nat : v # w => CountedAt(v, k)' = CountedAt(v, k)
         /\ \A k \in 0 .. Len(chan[w]) : \A r, x : Told(w, k, r, x)' <=> Told(w, k, r, x)
         /\ \A k \in 0 .. Len(chan[w]) : CountedAt(w, k)' = CountedAt(w, k)
         /\ \A k \in Len(chan[w]) .. Len(chan'[w]) : \A r, x :
              Told(w, Len(chan[w]), r, x) => Told(w, k, r, x)'
         /\ \A k \in Len(chan[w]) .. Len(chan'[w]) :
              CountedAt(w, k)' \subseteq
                CountedAt(w, Len(chan[w]))
                  \cup {r \in Request : [id |-> r, status |-> "pending"] \in news}
         /\ \A r, x : [id |-> r, status |-> x] \in news => Told(w, Len(chan[w]), r, x)'
         /\ \A r \in CountedAt(w, Len(chan[w]))' : \A u \in news :
              u.id = r => u.status \notin TerminalStatus
         /\ \A r : EndTold(w, Len(chan[w]), r) => EndTold(w, Len(chan[w]), r)'
<1>0. PICK n \in Nat, m \in Nat : n = Len(chan[w]) /\ m = Len(chan'[w])
  BY PutsFacts
<1>1. /\ \A v \in Workers : v # w => chan'[v] = chan[v]
      /\ n <= m
      /\ \A i \in 1 .. n : chan'[w][i] = chan[w][i]
      /\ \A i \in n + 1 .. m : chan'[w][i] \in news
      /\ \A u \in news : \E i \in n + 1 .. m : chan'[w][i] = u
  BY <1>0, PutsFacts
<1>2. \A v \in Workers, k \in Nat : \A r, x : v # w => (Told(v, k, r, x)' <=> Told(v, k, r, x))
  BY <1>1 DEF Told
<1>3. \A v \in Workers, k \in Nat : \A r : v # w => (EndTold(v, k, r)' <=> EndTold(v, k, r))
  BY <1>1 DEF EndTold
<1>4. \A k \in 0 .. n : \A i \in 1 .. k : i \in 1 .. n
  BY <1>1
<1>5. \A k \in 0 .. n : \A r, x : Told(w, k, r, x)' <=> Told(w, k, r, x)
  BY <1>1, <1>4 DEF Told
<1>6. \A k \in 0 .. n : \A r : EndTold(w, k, r)' <=> EndTold(w, k, r)
  BY <1>1, <1>4 DEF EndTold
<1>7. \A k \in n .. m : \A i \in 1 .. n : i \in 1 .. k
  BY <1>1
<1>8. \A k \in n .. m : \A r, x : Told(w, n, r, x) => Told(w, k, r, x)'
  BY <1>1, <1>7 DEF Told
<1>9. \A k \in n .. m : \A r : EndTold(w, n, r) => EndTold(w, k, r)'
  BY <1>1, <1>7 DEF EndTold
<1>10. \A v \in Workers, k \in Nat : v # w => CountedAt(v, k)' = CountedAt(v, k)
  BY <1>2, <1>3 DEF CountedAt
<1>11. \A k \in 0 .. n : CountedAt(w, k)' = CountedAt(w, k)
  BY <1>5, <1>6 DEF CountedAt
<1>12. \A k \in n .. m : \A r : Told(w, k, r, "pending")' =>
          Told(w, n, r, "pending") \/ [id |-> r, status |-> "pending"] \in news
  <2> TAKE k \in n .. m
  <2> TAKE r
  <2>1. \A i \in 1 .. k : i \in 1 .. n \/ i \in n + 1 .. m
    BY <1>1
  <2> QED
    BY <1>1, <2>1 DEF Told
<1>13. Live(st) \subseteq Request
  BY DEF TypeOK, Tracking, Live
<1>14. ASSUME NEW k \in n .. m
       PROVE  CountedAt(w, k)' \subseteq
                CountedAt(w, n) \cup {r \in Request : [id |-> r, status |-> "pending"] \in news}
  BY <1>9, <1>12, <1>13 DEF CountedAt
<1>15. \A r, x : [id |-> r, status |-> x] \in news => Told(w, m, r, x)'
  <2> TAKE r, x
  <2> HAVE [id |-> r, status |-> x] \in news
  <2>1. PICK i \in n + 1 .. m : chan'[w][i] = [id |-> r, status |-> x]
    BY <1>1
  <2>2. i \in 1 .. m
    BY <1>1
  <2> QED
    BY <2>1, <2>2 DEF Told
<1>16. ASSUME NEW r \in CountedAt(w, m)', NEW u \in news, u.id = r,
              u.status \in TerminalStatus
       PROVE  FALSE
  <2>1. PICK i \in n + 1 .. m : chan'[w][i] = u
    BY <1>1
  <2>2. i \in 1 .. m
    BY <1>1
  <2>3. EndTold(w, m, r)'
    BY <1>16, <2>1, <2>2 DEF EndTold
  <2> QED
    BY <1>16, <2>3 DEF CountedAt
<1>17. \A r : EndTold(w, n, r) => EndTold(w, m, r)'
  BY <1>1, <1>9
<1> QED
  BY <1>0, <1>2, <1>5, <1>8, <1>10, <1>11, <1>14, <1>15, <1>16, <1>17

\* A worker's step, given what it tells and what it does to the worker's own requests.
LEMMA GrowthLagging ==
  ASSUME TypeOK, Lagging, NEW w \in Workers, mode[w] # "dead", NEW news, Puts(w, news),
         st' = st, holder' = holder,
         \A v \in Workers : mode'[v] = "dead" <=> mode[v] = "dead",
         \A x \in Request : holder[x] \in Workers \ {w} =>
           phase'[x] = phase[x] /\ (GraphOf[x] \in aborted' => GraphOf[x] \in aborted),
         StatusFitsPhase',
         Cardinality(InFlight(w)') <= AsyncLimit[w],
         \/ \A x \in Request : [id |-> x, status |-> "pending"] \notin news
         \/ /\ InFlight(w) \subseteq InFlight(w)'
            /\ \A x \in Request : [id |-> x, status |-> "pending"] \in news => x \in InFlight(w)',
         CountedAt(w, Len(chan[w]))' \subseteq Working(w)',
         \A x \in Request : holder[x] = w =>
           /\ phase'[x] \in {"claimed", "running", "completed"} =>
                \/ phase[x] \in {"claimed", "running", "completed"}
                \/ [id |-> x, status |-> "pending"] \in news
           /\ phase'[x] \in {"running", "completed"} =>
                \/ phase[x] \in {"running", "completed"}
                \/ [id |-> x, status |-> "in_progress"] \in news,
         \A x \in Request :
           /\ [id |-> x, status |-> "completed"] \in news =>
                holder[x] = w /\ phase[x] = "running"
           /\ [id |-> x, status |-> "in_progress"] \in news =>
                holder[x] = w /\ phase[x] = "claimed"
  PROVE  Lagging'
<1>0. PICK n \in Nat, m \in Nat : n = Len(chan[w]) /\ m = Len(chan'[w])
  BY PutsFacts
<1>1. /\ \A v \in Workers : v # w => chan'[v] = chan[v]
      /\ chan'[w] \in Seq(WorkerUpdate) /\ chan[w] \in Seq(WorkerUpdate)
      /\ n <= m
      /\ \A i \in 1 .. n : chan'[w][i] = chan[w][i]
      /\ \A i \in n + 1 .. m : chan'[w][i] \in news
  BY <1>0, PutsFacts DEF TypeOK, WorkerUpdate
<1>2. /\ \A v \in Workers, k \in Nat : \A r, x : v # w =>
           (Told(v, k, r, x)' <=> Told(v, k, r, x))
      /\ \A v \in Workers, k \in Nat : v # w => CountedAt(v, k)' = CountedAt(v, k)
      /\ \A k \in 0 .. n : \A r, x : Told(w, k, r, x)' <=> Told(w, k, r, x)
      /\ \A k \in 0 .. n : CountedAt(w, k)' = CountedAt(w, k)
      /\ \A k \in n .. m : \A r, x : Told(w, n, r, x) => Told(w, k, r, x)'
      /\ \A k \in n .. m : CountedAt(w, k)' \subseteq
           CountedAt(w, n) \cup {r \in Request : [id |-> r, status |-> "pending"] \in news}
      /\ \A r, x : [id |-> r, status |-> x] \in news => Told(w, m, r, x)'
  BY <1>0, GrownStream
<1>3. /\ \A v \in Workers : v # w => InFlight(v)' = InFlight(v)
      /\ \A v \in Workers : v # w => Working(v) \subseteq Working(v)'
  <2>1. \A v \in Workers : v # w => InFlight(v)' = InFlight(v)
    BY DEF InFlight
  <2>2. \A v \in Workers : \A x \in InFlight(v) : x \in Request /\ holder[x] = v
    BY DEF InFlight
  <2> QED
    BY <2>1, <2>2 DEF Working
<1>4. SlotsBound'
  BY <1>3 DEF Lagging, SlotsBound
<1>5. CountedAreWorking'
  <2> SUFFICES ASSUME NEW v \in Workers, mode'[v] # "dead"
               PROVE  CountedAt(v, Len(chan[v]))' \subseteq Working(v)'
    BY DEF CountedAreWorking
  <2>1. CASE v = w
    BY <2>1
  <2>2. CASE v # w
    <3>1. PICK k \in Nat : k = Len(chan[v]) /\ k = Len(chan'[v])
      <4>1. chan[v] \in Seq(WorkerUpdate)
        BY DEF TypeOK, WorkerUpdate
      <4>2. Len(chan[v]) \in Nat
        BY <4>1
      <4> QED
        BY <1>1, <2>2, <4>2
    <3>2. CountedAt(v, k)' = CountedAt(v, k)
      BY <1>2, <2>2
    <3>3. CountedAt(v, k) \subseteq Working(v)
      BY <3>1 DEF Lagging, CountedAreWorking
    <3> QED
      BY <1>3, <2>2, <3>1, <3>2, <3>3
  <2> QED
    BY <2>1, <2>2
<1>6. BoundedAhead'
  <2> SUFFICES ASSUME NEW v \in Workers, NEW k \in 0 .. Len(chan'[v])
               PROVE  Cardinality(CountedAt(v, k)') <= AsyncLimit[v]
    BY DEF BoundedAhead
  <2>0. k \in Nat
    OBVIOUS
  <2>1. CASE v # w
    <3>1. CountedAt(v, k)' = CountedAt(v, k) /\ k \in 0 .. Len(chan[v])
      BY <1>1, <1>2, <2>0, <2>1
    <3> QED
      BY <3>1 DEF Lagging, BoundedAhead
  <2>2. CASE v = w /\ k <= n
    <3>1. k \in 0 .. n /\ CountedAt(w, k)' = CountedAt(w, k)
      BY <1>2, <2>0, <2>2
    <3> QED
      BY <1>0, <2>2, <3>1 DEF Lagging, BoundedAhead
  <2>3. CASE v = w /\ k > n
    <3>1. k \in n .. m
      BY <1>0, <2>0, <2>3
    <3>2. CountedAt(w, k)' \subseteq
            CountedAt(w, n) \cup {r \in Request : [id |-> r, status |-> "pending"] \in news}
      BY <1>2, <3>1
    <3>3. /\ CountedAt(w, n) \subseteq Request
          /\ CountedAt(w, n) \subseteq InFlight(w)
          /\ Cardinality(CountedAt(w, n)) <= AsyncLimit[w]
      <4>1. n \in 0 .. Len(chan[w])
        BY <1>0
      <4>2. Cardinality(CountedAt(w, n)) <= AsyncLimit[w]
        BY <4>1 DEF Lagging, BoundedAhead
      <4>3. CountedAt(w, n) \subseteq Working(w)
        BY <1>0 DEF Lagging, CountedAreWorking
      <4> QED
        BY <4>2, <4>3 DEF Working, InFlight
    <3>4. AsyncLimit[w] \in Nat
      BY GroupAssumption
    <3>5. CASE \A x \in Request : [id |-> x, status |-> "pending"] \notin news
      <4>1. CountedAt(w, k)' \subseteq CountedAt(w, n)
        BY <3>2, <3>5
      <4> QED
        BY <2>3, <3>3, <3>4, <4>1, SmallerSet
    <3>6. CASE /\ InFlight(w) \subseteq InFlight(w)'
               /\ \A x \in Request :
                    [id |-> x, status |-> "pending"] \in news => x \in InFlight(w)'
      <4>1. CountedAt(w, k)' \subseteq InFlight(w)'
        BY <3>2, <3>3, <3>6
      <4>2. InFlight(w)' \subseteq Request
        BY DEF InFlight
      <4> QED
        BY <2>3, <3>4, <4>1, <4>2, SmallerSet
    <3> QED
      BY <3>5, <3>6
  <2> QED
    BY <1>0, <2>0, <2>1, <2>2, <2>3
<1>7. PhasesAreTold'
  <2> SUFFICES ASSUME NEW v \in Workers, NEW r \in Request, mode'[v] # "dead", holder[r] = v
      PROVE  /\ phase'[r] \in {"claimed", "running", "completed"} =>
                  \/ r \notin Live(st) \/ r \in st.pending \cup st.processing
                  \/ Told(v, Len(chan[v]), r, "pending")'
             /\ phase'[r] \in {"running", "completed"} =>
                  \/ r \notin Live(st) \/ r \in st.processing
                  \/ Told(v, Len(chan[v]), r, "in_progress")'
    BY DEF PhasesAreTold, Live
  <2>1. /\ phase[r] \in {"claimed", "running", "completed"} =>
             \/ r \notin Live(st) \/ r \in st.pending \cup st.processing
             \/ Told(v, Len(chan[v]), r, "pending")
        /\ phase[r] \in {"running", "completed"} =>
             \/ r \notin Live(st) \/ r \in st.processing
             \/ Told(v, Len(chan[v]), r, "in_progress")
    BY DEF Lagging, PhasesAreTold
  <2>2. CASE v # w
    <3>1. PICK k \in Nat : k = Len(chan[v]) /\ k = Len(chan'[v])
      <4>1. chan[v] \in Seq(WorkerUpdate)
        BY DEF TypeOK, WorkerUpdate
      <4>2. Len(chan[v]) \in Nat
        BY <4>1
      <4> QED
        BY <1>1, <2>2, <4>2
    <3>2. \A x : Told(v, k, r, x)' <=> Told(v, k, r, x)
      BY <1>2, <2>2
    <3> QED
      BY <2>1, <2>2, <3>1, <3>2
  <2>3. CASE v = w
    <3>1. \A x : Told(w, n, r, x) => Told(w, m, r, x)'
      BY <1>1, <1>2
    <3>2. \A x : [id |-> r, status |-> x] \in news => Told(w, m, r, x)'
      BY <1>2
    <3>3. \A x : Told(w, m, r, x)' <=> Told(w, Len(chan[w]), r, x)'
      BY <1>0
    <3>4. phase'[r] \in {"claimed", "running", "completed"} =>
            \/ r \notin Live(st) \/ r \in st.pending \cup st.processing
            \/ Told(w, m, r, "pending")'
      BY <1>0, <2>1, <2>3, <3>1, <3>2
    <3>5. phase'[r] \in {"running", "completed"} =>
            \/ r \notin Live(st) \/ r \in st.processing
            \/ Told(w, m, r, "in_progress")'
      BY <1>0, <2>1, <2>3, <3>1, <3>2
    <3> QED
      BY <2>3, <3>3, <3>4, <3>5
  <2> QED
    BY <2>2, <2>3
<1>8. StreamFollowsPhases'
  <2> SUFFICES ASSUME NEW v \in Workers, NEW i \in DOMAIN chan'[v], NEW r, r = chan'[v][i].id
      PROVE  /\ chan'[v][i].status = "completed" =>
                  \/ r \notin Live(st) \/ r \in st.processing
                  \/ Told(v, i - 1, r, "in_progress")'
             /\ chan'[v][i].status = "in_progress" =>
                  \/ r \notin Live(st) \/ r \in st.pending \cup st.processing
                  \/ Told(v, i - 1, r, "pending")'
    BY DEF StreamFollowsPhases, Live
  <2>0. chan'[v] \in Seq(WorkerUpdate) /\ chan[v] \in Seq(WorkerUpdate)
    <3>1. chan[v] \in Seq(WorkerUpdate)
      BY DEF TypeOK, WorkerUpdate
    <3> QED
      BY <1>1, <3>1
  <2>1. /\ i \in Nat /\ i - 1 \in Nat /\ chan'[v][i] \in WorkerUpdate
        /\ DOMAIN chan[v] = 1 .. Len(chan[v])
    BY <2>0
  <2>2. CASE i \in DOMAIN chan[v] /\ chan'[v][i] = chan[v][i] /\ (v = w => i <= n)
    <3>1. /\ chan[v][i].status = "completed" =>
               \/ r \notin Live(st) \/ r \in st.processing
               \/ Told(v, i - 1, r, "in_progress")
          /\ chan[v][i].status = "in_progress" =>
               \/ r \notin Live(st) \/ r \in st.pending \cup st.processing
               \/ Told(v, i - 1, r, "pending")
      BY <2>2 DEF Lagging, StreamFollowsPhases
    <3>2. v = w => i - 1 \in 0 .. n
      BY <2>1, <2>2
    <3>3. \A x : Told(v, i - 1, r, x) <=> Told(v, i - 1, r, x)'
      BY <1>2, <2>1, <3>2
    <3> QED
      BY <2>2, <3>1, <3>3
  <2>3. CASE v = w /\ i \in n + 1 .. m
    <3>1. chan'[w][i] \in news /\ i - 1 \in n .. m /\ r \in Request
      BY <1>1, <2>1, <2>3 DEF WorkerUpdate
    <3>2. chan'[w][i] = [id |-> r, status |-> chan'[w][i].status]
      BY <2>1, <2>3 DEF WorkerUpdate
    <3>3. \A x : Told(w, n, r, x) => Told(w, i - 1, r, x)'
      BY <1>2, <3>1
    <3>4. CASE chan'[w][i].status = "completed"
      <4>0. [id |-> r, status |-> "completed"] \in news
        BY <3>1, <3>2, <3>4
      <4>1. holder[r] = w /\ phase[r] = "running"
        BY <3>1, <4>0
      <4>2. r \notin Live(st) \/ r \in st.processing \/ Told(w, n, r, "in_progress")
        BY <1>0, <3>1, <4>1 DEF Lagging, PhasesAreTold
      <4> QED
        BY <2>3, <3>3, <3>4, <4>2
    <3>5. CASE chan'[w][i].status = "in_progress"
      <4>0. [id |-> r, status |-> "in_progress"] \in news
        BY <3>1, <3>2, <3>5
      <4>1. holder[r] = w /\ phase[r] = "claimed"
        BY <3>1, <4>0
      <4>2. \/ r \notin Live(st) \/ r \in st.pending \cup st.processing
            \/ Told(w, n, r, "pending")
        BY <1>0, <3>1, <4>1 DEF Lagging, PhasesAreTold
      <4> QED
        BY <2>3, <3>3, <3>5, <4>2
    <3> QED
      BY <2>3, <3>4, <3>5
  <2> QED
    BY <1>0, <1>1, <2>0, <2>1, <2>2, <2>3
<1> QED
  BY <1>4, <1>5, <1>6, <1>7, <1>8 DEF Lagging

\* What a slot that tells of its request leaves alone.
LEMMA TellsFrame ==
  ASSUME TypeOK, NEW w \in Workers, NEW r \in Request, NEW new, NEW from, NEW to,
         SlotTells(w, r, new, from, to)
  PROVE  /\ st' = st /\ holder' = holder /\ mode' = mode /\ aborted' = aborted
         /\ mode[w] = "run" /\ holder[r] = w /\ phase[r] = from
         /\ phase'[r] = to /\ status'[r] = new
         /\ \A x \in Request \ {r} : phase'[x] = phase[x] /\ status'[x] = status[x]
         /\ Puts(w, Sent(r, new))
         /\ \A u \in Sent(r, new) : u = [id |-> r, status |-> new]
         /\ status[r] # new => [id |-> r, status |-> new] \in Sent(r, new)
<1>1. phase \in [Request -> Phase] /\ status \in [Request -> Status]
  BY DEF TypeOK
<1>2. /\ phase' = [phase EXCEPT ![r] = to] /\ status' = [status EXCEPT ![r] = new]
      /\ SlotFrame
  BY DEF SlotTells
<1>3. st' = st /\ holder' = holder /\ mode' = mode
  BY <1>2 DEF SlotFrame
<1>4. /\ phase'[r] = to /\ status'[r] = new
      /\ \A x \in Request \ {r} : phase'[x] = phase[x] /\ status'[x] = status[x]
  BY <1>1, <1>2
<1> QED
  BY <1>3, <1>4 DEF SlotTells, Sent

\* The claim of a node: the coordinator will count it once the claim is read.
LEMMA ClaimLagging ==
  ASSUME IInv, Lagging, NEW w \in Workers, NEW r \in Request, Claimable(w, r),
         FreeSlots(w) > 0, SlotTells(w, r, "pending", "held", "claimed")
  PROVE  Lagging'
<1> DEFINE news == Sent(r, "pending")
<1>0. TypeOK
  BY DEF IInv
<1>1. /\ st' = st /\ holder' = holder /\ mode' = mode /\ aborted' = aborted
      /\ mode[w] = "run" /\ holder[r] = w /\ phase[r] = "held"
      /\ phase'[r] = "claimed" /\ status'[r] = "pending"
      /\ \A x \in Request \ {r} : phase'[x] = phase[x] /\ status'[x] = status[x]
      /\ Puts(w, news)
      /\ \A u \in news : u = [id |-> r, status |-> "pending"]
      /\ status[r] # "pending" => [id |-> r, status |-> "pending"] \in news
  BY <1>0, TellsFrame
<1> HIDE DEF news
<1>2. [id |-> r, status |-> "pending"] \in news
  BY <1>1 DEF Lagging, StatusFitsPhase
<1>3. StatusFitsPhase'
  BY <1>1 DEF Lagging, StatusFitsPhase
<1>4. InFlight(w)' = InFlight(w) \cup {r} /\ r \notin InFlight(w)
  BY <1>1 DEF InFlight
<1>5. Cardinality(InFlight(w)') <= AsyncLimit[w]
  <2>1. InFlight(w) \in SUBSET Request /\ AsyncLimit[w] \in Nat
    BY GroupAssumption DEF InFlight
  <2>2. IsFiniteSet(InFlight(w)) /\ Cardinality(InFlight(w)) \in Nat
    BY <2>1, SmallerSet
  <2>3. Cardinality(InFlight(w)') = Cardinality(InFlight(w)) + 1
    BY <1>4, <2>2, FS_AddElement
  <2> QED
    BY <2>1, <2>2, <2>3 DEF FreeSlots
<1>6. CountedAt(w, Len(chan[w]))' \subseteq Working(w)'
  <2>0. PICK n \in Nat, m \in Nat : n = Len(chan[w]) /\ m = Len(chan'[w]) /\ n <= m
    BY <1>0, <1>1, PutsFacts
  <2>1. CountedAt(w, m)' \subseteq
          CountedAt(w, n) \cup {x \in Request : [id |-> x, status |-> "pending"] \in news}
    BY <1>0, <1>1, <2>0, GrownStream
  <2>2. CountedAt(w, n) \subseteq Working(w)
    BY <1>1, <2>0 DEF Lagging, CountedAreWorking
  <2>3. Working(w) \subseteq Working(w)'
    BY <1>1, <1>4 DEF Working
  <2>4. r \in Working(w)'
    BY <1>1, <1>4 DEF Working, Claimable
  <2>5. \A x \in Request : [id |-> x, status |-> "pending"] \in news => x = r
    BY <1>1
  <2> QED
    BY <2>0, <2>1, <2>2, <2>3, <2>4, <2>5
<1>7. \A x \in Request :
        /\ [id |-> x, status |-> "completed"] \notin news
        /\ [id |-> x, status |-> "in_progress"] \notin news
        /\ [id |-> x, status |-> "pending"] \in news => x \in InFlight(w)'
  BY <1>1, <1>4
<1>8. \A x \in Request : holder[x] = w =>
        /\ phase'[x] \in {"claimed", "running", "completed"} =>
             \/ phase[x] \in {"claimed", "running", "completed"}
             \/ [id |-> x, status |-> "pending"] \in news
        /\ phase'[x] \in {"running", "completed"} =>
             \/ phase[x] \in {"running", "completed"}
             \/ [id |-> x, status |-> "in_progress"] \in news
  BY <1>1, <1>2
<1>9. InFlight(w) \subseteq InFlight(w)'
  BY <1>4
<1>10. \A x \in Request : holder[x] \in Workers \ {w} =>
         phase'[x] = phase[x] /\ (GraphOf[x] \in aborted' => GraphOf[x] \in aborted)
  BY <1>1
<1> QED
  BY <1>0, <1>1, <1>3, <1>5, <1>6, <1>7, <1>8, <1>9, <1>10, GrowthLagging

\* A request already in flight: a new target start, the start itself, the first token.
LEMMA BusyLagging ==
  ASSUME IInv, Lagging, NEW w \in Workers, NEW r \in Request,
         \/ status[r] # "pending" /\ SlotTells(w, r, "pending", "claimed", "claimed")
         \/ SlotTells(w, r, "in_progress", "claimed", "running")
         \/ status[r] # "first_token" /\ SlotTells(w, r, "first_token", "running", "running")
  PROVE  Lagging'
<1> SUFFICES ASSUME NEW new \in {"pending", "in_progress", "first_token"},
                    NEW from \in {"claimed", "running"}, NEW to \in {"claimed", "running"},
                    SlotTells(w, r, new, from, to),
                    new = "pending" => from = "claimed" /\ to = "claimed",
                    new = "in_progress" => from = "claimed" /\ to = "running",
                    new = "first_token" => from = "running" /\ to = "running"
             PROVE  Lagging'
  OBVIOUS
<1> DEFINE news == Sent(r, new)
<1>0. TypeOK
  BY DEF IInv
<1>1. /\ st' = st /\ holder' = holder /\ mode' = mode /\ aborted' = aborted
      /\ mode[w] = "run" /\ holder[r] = w /\ phase[r] = from
      /\ phase'[r] = to /\ status'[r] = new
      /\ \A x \in Request \ {r} : phase'[x] = phase[x] /\ status'[x] = status[x]
      /\ Puts(w, news)
      /\ \A u \in news : u = [id |-> r, status |-> new]
      /\ status[r] # new => [id |-> r, status |-> new] \in news
  BY <1>0, TellsFrame
<1> HIDE DEF news
<1>2. new = "in_progress" => [id |-> r, status |-> "in_progress"] \in news
  BY <1>1 DEF Lagging, StatusFitsPhase
<1>3. StatusFitsPhase'
  BY <1>1 DEF Lagging, StatusFitsPhase
<1>4. InFlight(w)' = InFlight(w) /\ r \in InFlight(w)
  BY <1>1 DEF InFlight
<1>5. Cardinality(InFlight(w)') <= AsyncLimit[w]
  BY <1>4 DEF Lagging, SlotsBound
<1>6. CountedAt(w, Len(chan[w]))' \subseteq Working(w)'
  <2>0. PICK n \in Nat, m \in Nat : n = Len(chan[w]) /\ m = Len(chan'[w]) /\ n <= m
    BY <1>0, <1>1, PutsFacts
  <2>1. /\ CountedAt(w, m)' \subseteq
             CountedAt(w, n) \cup {x \in Request : [id |-> x, status |-> "pending"] \in news}
        /\ \A x : EndTold(w, n, x) => EndTold(w, m, x)'
    BY <1>0, <1>1, <2>0, GrownStream
  <2>2. CountedAt(w, n) \subseteq Working(w)
    BY <1>1, <2>0 DEF Lagging, CountedAreWorking
  <2>3. Working(w)' = Working(w)
    BY <1>1, <1>4 DEF Working
  <2>4. r \in CountedAt(w, m)' => r \in CountedAt(w, n)
    <3>1. \/ r \notin Live(st) \/ r \in st.pending \cup st.processing
          \/ Told(w, n, r, "pending")
      BY <1>1, <2>0 DEF Lagging, PhasesAreTold
    <3>2. r \in CountedAt(w, m)' => r \in Live(st) /\ ~EndTold(w, m, r)'
      BY <1>1 DEF CountedAt, Live
    <3> QED
      BY <1>1, <2>1, <3>1, <3>2 DEF CountedAt
  <2>5. \A x \in Request : [id |-> x, status |-> "pending"] \in news => x = r
    BY <1>1
  <2> QED
    BY <2>0, <2>1, <2>2, <2>3, <2>4, <2>5
<1>7. \A x \in Request :
        /\ [id |-> x, status |-> "completed"] \notin news
        /\ [id |-> x, status |-> "in_progress"] \in news =>
             holder[x] = w /\ phase[x] = "claimed"
        /\ [id |-> x, status |-> "pending"] \in news => x \in InFlight(w)'
  BY <1>1, <1>4
<1>8. \A x \in Request : holder[x] = w =>
        /\ phase'[x] \in {"claimed", "running", "completed"} =>
             \/ phase[x] \in {"claimed", "running", "completed"}
             \/ [id |-> x, status |-> "pending"] \in news
        /\ phase'[x] \in {"running", "completed"} =>
             \/ phase[x] \in {"running", "completed"}
             \/ [id |-> x, status |-> "in_progress"] \in news
  BY <1>1, <1>2
<1> QED
  BY <1>0, <1>1, <1>3, <1>4, <1>5, <1>6, <1>7, <1>8, GrowthLagging

\* A completion leaves the count as soon as it is read.
LEMMA CompletionLagging ==
  ASSUME IInv, Lagging, NEW w \in Workers, NEW r \in Request,
         SlotTells(w, r, "completed", "running", "completed")
  PROVE  Lagging'
<1> DEFINE news == Sent(r, "completed")
<1>0. TypeOK
  BY DEF IInv
<1>1. /\ st' = st /\ holder' = holder /\ mode' = mode /\ aborted' = aborted
      /\ mode[w] = "run" /\ holder[r] = w /\ phase[r] = "running"
      /\ phase'[r] = "completed" /\ status'[r] = "completed"
      /\ \A x \in Request \ {r} : phase'[x] = phase[x] /\ status'[x] = status[x]
      /\ Puts(w, news)
      /\ \A u \in news : u = [id |-> r, status |-> "completed"]
      /\ status[r] # "completed" => [id |-> r, status |-> "completed"] \in news
  BY <1>0, TellsFrame
<1> HIDE DEF news
<1>2. [id |-> r, status |-> "completed"] \in news
  BY <1>1 DEF Lagging, StatusFitsPhase
<1>3. StatusFitsPhase'
  BY <1>1 DEF Lagging, StatusFitsPhase
<1>4. InFlight(w)' = InFlight(w) \ {r}
  BY <1>1 DEF InFlight
<1>5. Cardinality(InFlight(w)') <= AsyncLimit[w]
  <2>1. InFlight(w) \in SUBSET Request /\ AsyncLimit[w] \in Nat
    BY GroupAssumption DEF InFlight
  <2>2. Cardinality(InFlight(w)) <= AsyncLimit[w]
    BY DEF Lagging, SlotsBound
  <2> QED
    BY <1>4, <2>1, <2>2, SmallerSet
<1>6. CountedAt(w, Len(chan[w]))' \subseteq Working(w)'
  <2>0. PICK n \in Nat, m \in Nat : n = Len(chan[w]) /\ m = Len(chan'[w]) /\ n <= m
    BY <1>0, <1>1, PutsFacts
  <2>1. /\ CountedAt(w, m)' \subseteq
             CountedAt(w, n) \cup {x \in Request : [id |-> x, status |-> "pending"] \in news}
        /\ \A x \in CountedAt(w, m)' : \A u \in news :
             u.id = x => u.status \notin TerminalStatus
    BY <1>0, <1>1, <2>0, GrownStream
  <2>2. CountedAt(w, n) \subseteq Working(w)
    BY <1>1, <2>0 DEF Lagging, CountedAreWorking
  <2>3. Working(w) \ {r} \subseteq Working(w)'
    BY <1>1, <1>4 DEF Working
  <2>4. r \notin CountedAt(w, m)'
    BY <1>2, <2>1 DEF TerminalStatus
  <2>5. \A x \in Request : [id |-> x, status |-> "pending"] \notin news
    BY <1>1
  <2> QED
    BY <2>0, <2>1, <2>2, <2>3, <2>4, <2>5
<1>7. \A x \in Request :
        /\ [id |-> x, status |-> "completed"] \in news =>
             holder[x] = w /\ phase[x] = "running"
        /\ [id |-> x, status |-> "in_progress"] \notin news
        /\ [id |-> x, status |-> "pending"] \notin news
  BY <1>1
<1>8. \A x \in Request : holder[x] = w =>
        /\ phase'[x] \in {"claimed", "running", "completed"} =>
             phase[x] \in {"claimed", "running", "completed"}
        /\ phase'[x] \in {"running", "completed"} => phase[x] \in {"running", "completed"}
  BY <1>1
<1>9. \A x \in Request : holder[x] \in Workers \ {w} =>
        phase'[x] = phase[x] /\ (GraphOf[x] \in aborted' => GraphOf[x] \in aborted)
  BY <1>1
<1> QED
  BY <1>0, <1>1, <1>3, <1>5, <1>6, <1>7, <1>8, <1>9, GrowthLagging

\* Only the worker of a graph gives it up.
LEMMA OwnGraph ==
  ASSUME IInv, Ownership, GraphsTogether, NEW w \in Workers, NEW r \in Request, holder[r] = w,
         NEW x \in Request, holder[x] \in Workers \ {w}
  PROVE  GraphOf[x] # GraphOf[r]
<1>1. NoWorker \notin Workers /\ st.created \in Nat /\ Request \subseteq Nat
  BY GroupAssumption DEF IInv, TypeOK, Tracking, Request
<1>2. x <= st.created
  BY <1>1 DEF Ownership, UnsentIsFresh
<1> QED
  BY <1>1, <1>2 DEF GraphsTogether

\* An abort ends every node of the graph for the coordinator, busy or not.
LEMMA GivesUpLagging ==
  ASSUME IInv, Ownership, GraphsTogether, Lagging, NEW w \in Workers, NEW r \in Request,
         NEW new \in {"errored", "cancelled"}, SlotGivesUp(w, r, new)
  PROVE  Lagging'
<1> DEFINE news == Sent(r, new) \cup CancelledAll(Rest(w, r))
<1>0. TypeOK /\ phase \in [Request -> Phase] /\ status \in [Request -> Status]
  BY DEF IInv, TypeOK
<1>1. /\ st' = st /\ holder' = holder /\ mode' = mode /\ aborted' = aborted \cup {GraphOf[r]}
      /\ mode[w] # "dead" /\ holder[r] = w /\ phase[r] \in {"claimed", "running"}
      /\ Puts(w, news)
      /\ phase'[r] = "ended" /\ status'[r] = new
      /\ \A x \in Request \ {r} :
           /\ phase'[x] = IF x \in Rest(w, r) /\ phase[x] = "held" THEN "ended" ELSE phase[x]
           /\ status'[x] = IF x \in Rest(w, r) THEN "cancelled" ELSE status[x]
  BY DEF SlotGivesUp, SlotFrame
<1>2. \A x \in Request : x \in Rest(w, r) <=>
        /\ x # r /\ holder[x] = w /\ GraphOf[x] = GraphOf[r]
        /\ phase[x] # "completed" /\ status[x] # "cancelled"
  BY DEF Rest, Nodes
<1>3. /\ \A u \in news : u.status \in {"errored", "cancelled"}
      /\ status[r] # new => [id |-> r, status |-> new] \in news
      /\ \A x \in Rest(w, r) : [id |-> x, status |-> "cancelled"] \in news
  <2>1. \A u \in Sent(r, new) : u.status = new
    BY DEF Sent
  <2>2. \A u \in CancelledAll(Rest(w, r)) : u.status = "cancelled"
    BY DEF CancelledAll
  <2>3. status[r] # new => [id |-> r, status |-> new] \in Sent(r, new)
    BY DEF Sent
  <2>4. \A x \in Rest(w, r) : [id |-> x, status |-> "cancelled"] \in CancelledAll(Rest(w, r))
    BY DEF CancelledAll
  <2> QED
    BY <2>1, <2>2, <2>3, <2>4
<1> HIDE DEF news
<1>4. StatusFitsPhase'
  <2>1. \A x \in Request \ {r} :
          /\ phase'[x] = "held" => phase[x] = "held" /\ status'[x] = status[x]
          /\ phase'[x] # phase[x] => phase'[x] = "ended" /\ phase[x] = "held"
                                       /\ status'[x] = "cancelled"
          /\ status'[x] # status[x] => /\ status'[x] = "cancelled" /\ GraphOf[x] = GraphOf[r]
    BY <1>1, <1>2
  <2> QED
    BY <1>1, <2>1 DEF Lagging, StatusFitsPhase
<1>5. InFlight(w)' = InFlight(w) \ {r}
  BY <1>1, <1>2 DEF InFlight
<1>6. Cardinality(InFlight(w)') <= AsyncLimit[w]
  <2>1. InFlight(w) \in SUBSET Request /\ AsyncLimit[w] \in Nat
    BY GroupAssumption DEF InFlight
  <2>2. Cardinality(InFlight(w)) <= AsyncLimit[w]
    BY DEF Lagging, SlotsBound
  <2> QED
    BY <1>5, <2>1, <2>2, SmallerSet
<1>7. \A x \in Request :
        /\ [id |-> x, status |-> "completed"] \notin news
        /\ [id |-> x, status |-> "in_progress"] \notin news
        /\ [id |-> x, status |-> "pending"] \notin news
  BY <1>3
<1>8. CountedAt(w, Len(chan[w]))' \subseteq Working(w)'
  <2>0. PICK n \in Nat, m \in Nat : n = Len(chan[w]) /\ m = Len(chan'[w]) /\ n <= m
    BY <1>0, <1>1, PutsFacts
  <2>1. /\ CountedAt(w, m)' \subseteq
             CountedAt(w, n) \cup {x \in Request : [id |-> x, status |-> "pending"] \in news}
        /\ \A x \in CountedAt(w, m)' : \A u \in news :
             u.id = x => u.status \notin TerminalStatus
    <3>1. TypeOK /\ Puts(w, news) /\ st' = st /\ holder' = holder
      BY <1>0, <1>1
    <3>2. m \in Len(chan[w]) .. Len(chan'[w])
      BY <2>0
    <3>3. CountedAt(w, m)' \subseteq CountedAt(w, Len(chan[w]))
            \cup {x \in Request : [id |-> x, status |-> "pending"] \in news}
      BY <3>1, <3>2, GrownStream
    <3>4. \A x \in CountedAt(w, Len(chan[w]))' : \A u \in news :
            u.id = x => u.status \notin TerminalStatus
      BY <3>1, GrownStream
    <3> QED
      BY <2>0, <3>3, <3>4
  <2>2. CountedAt(w, n) \subseteq Working(w)
    BY <1>1, <2>0 DEF Lagging, CountedAreWorking
  <2> SUFFICES ASSUME NEW x \in CountedAt(w, m)' PROVE x \in Working(w)'
    BY <2>0
  <2>3. x \in Working(w) /\ \A u \in news : u.id = x => u.status \notin TerminalStatus
    BY <1>7, <2>1, <2>2
  <2>4. /\ x \in Request /\ holder[x] = w /\ phase[x] \in {"claimed", "running"}
        /\ GraphOf[x] \notin aborted
    BY <2>3 DEF Working, InFlight
  <2>5. x # r
    <3> SUFFICES ASSUME x = r PROVE FALSE
      OBVIOUS
    <3>1. status[r] # new
      BY <2>4 DEF Lagging, StatusFitsPhase
    <3> QED
      BY <1>3, <2>3, <3>1 DEF TerminalStatus
  <2>6. GraphOf[x] # GraphOf[r]
    <3> SUFFICES ASSUME GraphOf[x] = GraphOf[r] PROVE FALSE
      OBVIOUS
    <3>1. status[x] # "cancelled"
      BY <2>4 DEF Lagging, StatusFitsPhase
    <3>2. x \in Rest(w, r)
      BY <1>2, <2>4, <2>5, <3>1
    <3> QED
      BY <1>3, <2>3, <3>2 DEF TerminalStatus
  <2>7. x \in InFlight(w)' /\ GraphOf[x] \notin aborted'
    BY <1>1, <1>5, <2>3, <2>4, <2>5, <2>6 DEF Working
  <2> QED
    BY <2>7 DEF Working
<1>9. \A x \in Request : holder[x] = w =>
        /\ phase'[x] \in {"claimed", "running", "completed"} =>
             phase[x] \in {"claimed", "running", "completed"}
        /\ phase'[x] \in {"running", "completed"} => phase[x] \in {"running", "completed"}
  BY <1>1
<1>10. \A x \in Request : holder[x] \in Workers \ {w} =>
        phase'[x] = phase[x] /\ (GraphOf[x] \in aborted' => GraphOf[x] \in aborted)
  <2> SUFFICES ASSUME NEW x \in Request, holder[x] \in Workers \ {w}
               PROVE  phase'[x] = phase[x] /\ (GraphOf[x] \in aborted' => GraphOf[x] \in aborted)
    OBVIOUS
  <2>1. GraphOf[x] # GraphOf[r] /\ x # r /\ x \notin Rest(w, r)
    BY <1>1, <1>2, OwnGraph
  <2> QED
    BY <1>1, <2>1
<1> QED
  BY <1>0, <1>1, <1>4, <1>6, <1>7, <1>8, <1>9, <1>10, GrowthLagging

\* The cancel loop tells of requests that no slot took.
LEMMA SweepLagging ==
  ASSUME IInv, Lagging, NEW w \in Workers, SweepKind(w)
  PROVE  Lagging'
<1> DEFINE news == CancelledAll(Unfinished(w))
<1>0. /\ TypeOK /\ phase \in [Request -> Phase] /\ status \in [Request -> Status]
      /\ mode \in [Workers -> Mode]
  BY DEF IInv, TypeOK
<1>1. /\ st' = st /\ holder' = holder /\ aborted' = aborted
      /\ mode[w] # "dead" /\ Puts(w, news)
      /\ \A v \in Workers : mode'[v] = "dead" <=> mode[v] = "dead"
      /\ \A x \in Request :
           /\ phase'[x] = IF x \in Unfinished(w) THEN "ended" ELSE phase[x]
           /\ status'[x] = IF x \in Unfinished(w) THEN "cancelled" ELSE status[x]
  BY <1>0 DEF SweepKind
<1>2. \A x \in Unfinished(w) : holder[x] = w /\ phase[x] = "held"
  BY DEF Unfinished
<1>3. \A u \in news : u.status = "cancelled"
  BY DEF CancelledAll
<1> HIDE DEF news
<1>4. StatusFitsPhase'
  BY <1>1, <1>2 DEF Lagging, StatusFitsPhase
<1>5. InFlight(w)' = InFlight(w) /\ Working(w)' = Working(w)
  <2>1. InFlight(w)' = InFlight(w)
    BY <1>1, <1>2 DEF InFlight
  <2> QED
    BY <1>1, <2>1 DEF Working
<1>6. Cardinality(InFlight(w)') <= AsyncLimit[w]
  BY <1>5 DEF Lagging, SlotsBound
<1>7. \A x \in Request :
        /\ [id |-> x, status |-> "completed"] \notin news
        /\ [id |-> x, status |-> "in_progress"] \notin news
        /\ [id |-> x, status |-> "pending"] \notin news
  BY <1>3
<1>8. CountedAt(w, Len(chan[w]))' \subseteq Working(w)'
  <2>0. PICK n \in Nat, m \in Nat : n = Len(chan[w]) /\ m = Len(chan'[w]) /\ n <= m
    BY <1>0, <1>1, PutsFacts
  <2>1. CountedAt(w, m)' \subseteq
          CountedAt(w, n) \cup {x \in Request : [id |-> x, status |-> "pending"] \in news}
    BY <1>0, <1>1, <2>0, GrownStream
  <2>2. CountedAt(w, n) \subseteq Working(w)
    BY <1>1, <2>0 DEF Lagging, CountedAreWorking
  <2> QED
    BY <1>5, <1>7, <2>0, <2>1, <2>2
<1>9. \A x \in Request : holder[x] = w =>
        /\ phase'[x] \in {"claimed", "running", "completed"} =>
             phase[x] \in {"claimed", "running", "completed"}
        /\ phase'[x] \in {"running", "completed"} => phase[x] \in {"running", "completed"}
  BY <1>1
<1>10. \A x \in Request : holder[x] \in Workers \ {w} =>
        phase'[x] = phase[x] /\ (GraphOf[x] \in aborted' => GraphOf[x] \in aborted)
  BY <1>1, <1>2
<1> QED
  BY <1>0, <1>1, <1>4, <1>6, <1>7, <1>8, <1>9, <1>10, GrowthLagging

\* What the coordinator would count after k more updates, it will count after k - 1 once
\* it has read one: nothing that is read makes it count more.
LEMMA ReceivedCounts ==
  ASSUME IInv, Ownership, Lagging, NEW w \in Workers, NEW u \in WorkerUpdate,
         ReceivedFrom(w, u), NEW k \in 0 .. Len(chan'[w])
  PROVE  /\ CountedAt(w, k)' \subseteq CountedAt(w, k + 1)
         /\ \A r \in Request :
              /\ \/ r \notin Live(st) \/ r \in st.pending \cup st.processing
                 \/ Told(w, k + 1, r, "pending")
                 => \/ r \notin Live(st') \/ r \in st'.pending \cup st'.processing
                    \/ Told(w, k, r, "pending")'
              /\ r \notin Live(st) \/ r \in st.processing \/ Told(w, k + 1, r, "in_progress")
                 => \/ r \notin Live(st') \/ r \in st'.processing
                    \/ Told(w, k, r, "in_progress")'
<1>0. TypeOK /\ Live(st') \subseteq Live(st) /\ Live(st) \subseteq Request
  BY DEF IInv, TypeOK, Tracking, Live, ReceivedFrom, Moves
<1>1. PICK n \in Nat, m \in Nat : n = Len(chan[w]) /\ m = Len(chan'[w]) /\ m = n - 1
  <2>1. Len(chan[w]) \in Nat \ {0} /\ Len(chan'[w]) = Len(chan[w]) - 1
    BY <1>0, TakenFacts
  <2>2. Len(chan'[w]) \in Nat
    BY <2>1
  <2> QED
    BY <2>1, <2>2
<1>2. /\ chan[w][1] = u
      /\ \A i \in 1 .. m : chan'[w][i] = chan[w][i + 1]
      /\ DOMAIN chan[w] = 1 .. n /\ 1 \in DOMAIN chan[w]
  BY <1>0, <1>1, TakenFacts
<1>3. k \in Nat /\ k <= m
  BY <1>1
<1>4. /\ u.id \in Request /\ u.status \in WorkerStatus
      /\ u = [id |-> u.id, status |-> u.status] /\ holder[u.id] = w /\ holder' = holder
  BY <1>2 DEF WorkerUpdate, Ownership, StreamsAreOwn, ReceivedFrom, workerVars
<1>5. Moves(st, st', u.id, u.status)
  BY DEF ReceivedFrom
<1>6. /\ u.status = "completed" => u.id \notin Live(st) \/ u.id \in st.processing
      /\ u.status = "in_progress" =>
           u.id \notin Live(st) \/ u.id \in st.pending \cup st.processing
  <2>1. \A r, x : ~Told(w, 1 - 1, r, x)
    BY DEF Told
  <2> QED
    BY <1>2, <2>1 DEF Lagging, StreamFollowsPhases
<1>7. \A r, x : Told(w, k, r, x)' => Told(w, k + 1, r, x)
  <2> TAKE r, x
  <2> HAVE Told(w, k, r, x)'
  <2>1. PICK i \in 1 .. k : chan'[w][i] = [id |-> r, status |-> x]
    BY DEF Told
  <2>2. i + 1 \in 1 .. k + 1 /\ chan[w][i + 1] = [id |-> r, status |-> x]
    BY <1>2, <1>3, <2>1
  <2> QED
    BY <2>2 DEF Told
<1>8. \A r, x : Told(w, k + 1, r, x) => u = [id |-> r, status |-> x] \/ Told(w, k, r, x)'
  <2> TAKE r, x
  <2> HAVE Told(w, k + 1, r, x)
  <2>1. PICK i \in 1 .. k + 1 : chan[w][i] = [id |-> r, status |-> x]
    BY DEF Told
  <2>2. CASE i = 1
    BY <1>2, <2>1, <2>2
  <2>3. CASE i # 1
    <3>1. i - 1 \in 1 .. k /\ i - 1 \in 1 .. m /\ (i - 1) + 1 = i
      BY <1>3, <2>3
    <3>2. chan'[w][i - 1] = [id |-> r, status |-> x]
      BY <1>2, <2>1, <3>1
    <3> QED
      BY <3>1, <3>2 DEF Told
  <2> QED
    BY <2>2, <2>3
<1>9. \A r : EndTold(w, k + 1, r) =>
        (u.id = r /\ u.status \in TerminalStatus) \/ EndTold(w, k, r)'
  <2> TAKE r
  <2> HAVE EndTold(w, k + 1, r)
  <2>1. PICK i \in 1 .. k + 1 : chan[w][i].id = r /\ chan[w][i].status \in TerminalStatus
    BY DEF EndTold
  <2>2. CASE i = 1
    BY <1>2, <2>1, <2>2
  <2>3. CASE i # 1
    <3>1. i - 1 \in 1 .. k /\ i - 1 \in 1 .. m /\ (i - 1) + 1 = i
      BY <1>3, <2>3
    <3>2. chan'[w][i - 1] = chan[w][i]
      BY <1>2, <3>1
    <3> QED
      BY <2>1, <3>1, <3>2 DEF EndTold
  <2> QED
    BY <2>2, <2>3
<1>10. ASSUME NEW r \in CountedAt(w, k)' PROVE r \in CountedAt(w, k + 1)
  <2>1. /\ r \in Live(st') /\ r \in Live(st) /\ r \in Request /\ holder[r] = w
        /\ r \in st'.pending \cup st'.processing \/ Told(w, k, r, "pending")'
        /\ ~EndTold(w, k, r)'
    BY <1>0, <1>4 DEF CountedAt, Live
  <2>2. ~EndTold(w, k + 1, r)
    <3> SUFFICES ASSUME u.id = r, u.status \in TerminalStatus PROVE FALSE
      BY <1>9, <2>1
    <3>1. CASE u.status = "completed"
      BY <1>5, <1>6, <2>1, <3>1 DEF Moves
    <3>2. CASE u.status \in {"errored", "cancelled"}
      BY <1>5, <2>1, <3>2 DEF Moves
    <3> QED
      BY <3>1, <3>2 DEF TerminalStatus
  <2>3. r \in st.pending \cup st.processing \/ Told(w, k + 1, r, "pending")
    <3>1. CASE Told(w, k, r, "pending")'
      BY <1>7, <3>1
    <3>2. CASE r \in st'.pending \cup st'.processing /\ r # u.id
      BY <1>5, <2>1, <3>2 DEF Moves
    <3>3. CASE r \in st'.pending \cup st'.processing /\ r = u.id
      <4>1. r \in st.pending \cup st.processing \/ u.status = "pending"
        BY <1>5, <3>3 DEF Moves
      <4>2. 1 \in 1 .. k + 1
        BY <1>3
      <4>3. u.status = "pending" => Told(w, k + 1, r, "pending")
        BY <1>2, <1>4, <3>3, <4>2 DEF Told
      <4> QED
        BY <4>1, <4>3
    <3> QED
      BY <2>1, <3>1, <3>2, <3>3
  <2> QED
    BY <2>1, <2>2, <2>3 DEF CountedAt
<1>11. ASSUME NEW r \in Request,
              \/ r \notin Live(st) \/ r \in st.pending \cup st.processing
              \/ Told(w, k + 1, r, "pending")
       PROVE  \/ r \notin Live(st') \/ r \in st'.pending \cup st'.processing
              \/ Told(w, k, r, "pending")'
  <2>1. CASE r # u.id
    BY <1>0, <1>4, <1>5, <1>8, <1>11, <2>1 DEF Moves
  <2>2. CASE r = u.id
    BY <1>0, <1>4, <1>5, <1>8, <1>11, <2>2 DEF Moves, Live
  <2> QED
    BY <2>1, <2>2
<1>12. ASSUME NEW r \in Request,
              r \notin Live(st) \/ r \in st.processing \/ Told(w, k + 1, r, "in_progress")
       PROVE  r \notin Live(st') \/ r \in st'.processing \/ Told(w, k, r, "in_progress")'
  <2>1. CASE r # u.id
    BY <1>0, <1>4, <1>5, <1>8, <1>12, <2>1 DEF Moves
  <2>2. CASE r = u.id
    <3>1. u = [id |-> r, status |-> "in_progress"] =>
            r \notin Live(st') \/ r \in st'.processing
      BY <1>0, <1>5, <1>6, <2>2 DEF Moves
    <3>2. r \in st.processing => r \notin Live(st') \/ r \in st'.processing
      BY <1>5, <2>2 DEF Moves, Live
    <3> QED
      BY <1>0, <1>8, <1>12, <3>1, <3>2
  <2> QED
    BY <2>1, <2>2
<1> QED
  BY <1>10, <1>11, <1>12

\* The receiver reads one update of w.
LEMMA ReceivedLagging ==
  ASSUME IInv, Ownership, Lagging, NEW w \in Workers, NEW u \in WorkerUpdate,
         ReceivedFrom(w, u)
  PROVE  Lagging'
<1>0. TypeOK /\ Live(st') \subseteq Live(st) /\ Live(st) \subseteq Request
  BY DEF IInv, TypeOK, Tracking, Live, ReceivedFrom, Moves
<1>1. PICK n \in Nat, m \in Nat :
        n = Len(chan[w]) /\ m = Len(chan'[w]) /\ n = m + 1
  <2>1. Len(chan[w]) \in Nat \ {0} /\ Len(chan'[w]) = Len(chan[w]) - 1
    BY <1>0, TakenFacts
  <2>2. Len(chan'[w]) \in Nat /\ Len(chan[w]) = Len(chan'[w]) + 1
    BY <2>1
  <2> QED
    BY <2>1, <2>2
<1>2. /\ chan[w] \in Seq(WorkerUpdate) /\ chan'[w] \in Seq(WorkerUpdate)
      /\ \A v \in Workers : v # w => chan'[v] = chan[v]
      /\ \A i \in 1 .. m : chan'[w][i] = chan[w][i + 1]
      /\ chan[w][1] = u
  BY <1>0, <1>1, TakenFacts
<1>3. UNCHANGED <<holder, phase, status, aborted, mode>> /\ Moves(st, st', u.id, u.status)
  BY DEF ReceivedFrom, workerVars
<1>4. /\ holder[u.id] = w /\ u.id \in Request
      /\ \A x \in Request : holder[x] # w =>
           /\ x \in Live(st') <=> x \in Live(st)
           /\ x \in st'.pending \cup st'.processing <=> x \in st.pending \cup st.processing
           /\ x \in st'.processing <=> x \in st.processing
  <2>0. 1 \in DOMAIN chan[w]
    <3>1. DOMAIN chan[w] = 1 .. Len(chan[w])
      BY <1>2
    <3> QED
      BY <1>1, <3>1
  <2>1. holder[u.id] = w /\ u.id \in Request
    BY <1>2, <2>0 DEF WorkerUpdate, Ownership, StreamsAreOwn
  <2> QED
    BY <1>3, <2>1 DEF Moves, Live
<1>5. /\ \A k \in 0 .. m : CountedAt(w, k)' \subseteq CountedAt(w, k + 1)
      /\ \A k \in 0 .. m, r \in Request :
           /\ \/ r \notin Live(st) \/ r \in st.pending \cup st.processing
              \/ Told(w, k + 1, r, "pending")
              => \/ r \notin Live(st') \/ r \in st'.pending \cup st'.processing
                 \/ Told(w, k, r, "pending")'
           /\ r \notin Live(st) \/ r \in st.processing \/ Told(w, k + 1, r, "in_progress")
              => \/ r \notin Live(st') \/ r \in st'.processing
                 \/ Told(w, k, r, "in_progress")'
  BY <1>1, ReceivedCounts
<1>6. /\ \A v \in Workers, k \in Nat : \A r, x : v # w => (Told(v, k, r, x)' <=> Told(v, k, r, x))
      /\ \A v \in Workers, k \in Nat : \A r : v # w => (EndTold(v, k, r)' <=> EndTold(v, k, r))
  BY <1>2 DEF Told, EndTold
<1>7. \A v \in Workers, k \in Nat : v # w => CountedAt(v, k)' \subseteq CountedAt(v, k)
  BY <1>0, <1>3, <1>4, <1>6 DEF CountedAt
<1>8. StatusFitsPhase' /\ SlotsBound'
  BY <1>3 DEF Lagging, StatusFitsPhase, SlotsBound, InFlight
<1>9. \A v \in Workers : Working(v)' = Working(v)
  BY <1>3 DEF Working, InFlight
<1>10. \A v \in Workers : v # w => \E k \in Nat : k = Len(chan[v]) /\ k = Len(chan'[v])
  <2>1. \A v \in Workers : chan[v] \in Seq(WorkerUpdate)
    BY <1>0 DEF TypeOK, WorkerUpdate
  <2>2. \A v \in Workers : Len(chan[v]) \in Nat
    BY <2>1
  <2> QED
    BY <1>2, <2>2
<1>11. CountedAreWorking'
  <2> SUFFICES ASSUME NEW v \in Workers, mode[v] # "dead"
               PROVE  CountedAt(v, Len(chan[v]))' \subseteq Working(v)
    BY <1>3, <1>9 DEF CountedAreWorking
  <2>1. CountedAt(v, Len(chan[v])) \subseteq Working(v)
    BY DEF Lagging, CountedAreWorking
  <2>2. CASE v = w
    <3>1. CountedAt(w, m)' \subseteq CountedAt(w, m + 1)
      BY <1>1, <1>5
    <3>2. CountedAt(w, Len(chan[w]))' = CountedAt(w, m)'
      BY <1>1
    <3> QED
      BY <1>1, <2>1, <2>2, <3>1, <3>2
  <2>3. CASE v # w
    <3>1. PICK k \in Nat : k = Len(chan[v]) /\ k = Len(chan'[v])
      BY <1>10, <2>3
    <3>2. CountedAt(v, Len(chan[v]))' = CountedAt(v, k)'
      BY <3>1
    <3> QED
      BY <1>7, <2>1, <2>3, <3>1, <3>2
  <2> QED
    BY <2>2, <2>3
<1>12. BoundedAhead'
  <2> SUFFICES ASSUME NEW v \in Workers, NEW k \in 0 .. Len(chan'[v])
               PROVE  Cardinality(CountedAt(v, k)') <= AsyncLimit[v]
    BY DEF BoundedAhead
  <2>0. k \in Nat /\ AsyncLimit[v] \in Nat /\ \A j : CountedAt(v, j) \subseteq Request
    BY <1>0, GroupAssumption DEF CountedAt
  <2>1. CASE v = w
    <3>1. k \in 0 .. m /\ k + 1 \in 0 .. Len(chan[w])
      BY <1>1, <2>1
    <3>2. CountedAt(v, k)' \subseteq CountedAt(v, k + 1)
      BY <1>5, <2>1, <3>1
    <3>3. Cardinality(CountedAt(v, k + 1)) <= AsyncLimit[v]
      BY <2>1, <3>1 DEF Lagging, BoundedAhead
    <3> QED
      BY <2>0, <3>2, <3>3, SmallerSet
  <2>2. CASE v # w
    <3>1. CountedAt(v, k)' \subseteq CountedAt(v, k)
      BY <1>7, <2>0, <2>2
    <3>2. Cardinality(CountedAt(v, k)) <= AsyncLimit[v]
      BY <1>2, <2>2 DEF Lagging, BoundedAhead
    <3> QED
      BY <2>0, <3>1, <3>2, SmallerSet
  <2> QED
    BY <2>1, <2>2
<1>13. PhasesAreTold'
  <2> SUFFICES ASSUME NEW v \in Workers, NEW r \in Request, mode[v] # "dead", holder[r] = v
      PROVE  /\ phase[r] \in {"claimed", "running", "completed"} =>
                  \/ r \notin Live(st') \/ r \in st'.pending \cup st'.processing
                  \/ Told(v, Len(chan[v]), r, "pending")'
             /\ phase[r] \in {"running", "completed"} =>
                  \/ r \notin Live(st') \/ r \in st'.processing
                  \/ Told(v, Len(chan[v]), r, "in_progress")'
    BY <1>3 DEF PhasesAreTold, Live
  <2>1. /\ phase[r] \in {"claimed", "running", "completed"} =>
             \/ r \notin Live(st) \/ r \in st.pending \cup st.processing
             \/ Told(v, Len(chan[v]), r, "pending")
        /\ phase[r] \in {"running", "completed"} =>
             \/ r \notin Live(st) \/ r \in st.processing
             \/ Told(v, Len(chan[v]), r, "in_progress")
    BY DEF Lagging, PhasesAreTold
  <2>2. CASE v = w
    <3>1. \A x : Told(v, Len(chan[v]), r, x)' <=> Told(w, m, r, x)'
      BY <1>1, <2>2
    <3>2. \A x : Told(v, Len(chan[v]), r, x) <=> Told(w, m + 1, r, x)
      BY <1>1, <2>2
    <3>3. m \in 0 .. m
      OBVIOUS
    <3> QED
      BY <1>5, <2>1, <3>1, <3>2, <3>3
  <2>3. CASE v # w
    <3>1. PICK k \in Nat : k = Len(chan[v]) /\ k = Len(chan'[v])
      BY <1>10, <2>3
    <3>2. \A x : Told(v, Len(chan[v]), r, x)' <=> Told(v, k, r, x)'
      BY <3>1
    <3>3. \A x : Told(v, k, r, x)' <=> Told(v, k, r, x)
      BY <1>6, <2>3
    <3> QED
      BY <1>4, <2>1, <2>3, <3>1, <3>2, <3>3
  <2> QED
    BY <2>2, <2>3
<1>14. StreamFollowsPhases'
  <2> SUFFICES ASSUME NEW v \in Workers, NEW i \in DOMAIN chan'[v], NEW r, r = chan'[v][i].id
      PROVE  /\ chan'[v][i].status = "completed" =>
                  \/ r \notin Live(st') \/ r \in st'.processing
                  \/ Told(v, i - 1, r, "in_progress")'
             /\ chan'[v][i].status = "in_progress" =>
                  \/ r \notin Live(st') \/ r \in st'.pending \cup st'.processing
                  \/ Told(v, i - 1, r, "pending")'
    BY DEF StreamFollowsPhases, Live
  <2>0. chan[v] \in Seq(WorkerUpdate) /\ chan'[v] \in Seq(WorkerUpdate)
    <3>1. chan[v] \in Seq(WorkerUpdate)
      BY <1>0 DEF TypeOK, WorkerUpdate
    <3> QED
      BY <1>2, <3>1
  <2>1. i \in Nat /\ i - 1 \in Nat /\ r \in Request /\ i \in 1 .. Len(chan'[v])
    <3>1. chan'[v][i] \in WorkerUpdate /\ i \in 1 .. Len(chan'[v])
      BY <2>0
    <3>2. i \in Nat /\ i - 1 \in Nat
      BY <2>0
    <3> QED
      BY <3>1, <3>2 DEF WorkerUpdate
  <2>2. CASE v = w
    <3>0. DOMAIN chan[w] = 1 .. n /\ i \in 1 .. m
      <4>1. DOMAIN chan[w] = 1 .. Len(chan[w])
        BY <1>2
      <4> QED
        BY <1>1, <2>1, <2>2, <4>1
    <3>1. /\ i + 1 \in DOMAIN chan[w] /\ chan'[w][i] = chan[w][i + 1]
          /\ i - 1 \in 0 .. m /\ (i - 1) + 1 = i /\ (i + 1) - 1 = i
      <4>1. i + 1 \in 1 .. n /\ i - 1 \in 0 .. m /\ (i - 1) + 1 = i /\ (i + 1) - 1 = i
        BY <1>1, <3>0
      <4>2. chan'[w][i] = chan[w][i + 1]
        BY <1>2, <3>0
      <4> QED
        BY <3>0, <4>1, <4>2
    <3>2. /\ chan'[w][i].status = "completed" =>
               r \notin Live(st) \/ r \in st.processing \/ Told(w, i, r, "in_progress")
          /\ chan'[w][i].status = "in_progress" =>
               \/ r \notin Live(st) \/ r \in st.pending \cup st.processing
               \/ Told(w, i, r, "pending")
      BY <2>2, <3>1 DEF Lagging, StreamFollowsPhases
    <3> QED
      BY <1>5, <2>1, <2>2, <3>1, <3>2
  <2>3. CASE v # w
    <3>1. /\ chan[v][i].status = "completed" =>
               \/ r \notin Live(st) \/ r \in st.processing
               \/ Told(v, i - 1, r, "in_progress")
          /\ chan[v][i].status = "in_progress" =>
               \/ r \notin Live(st) \/ r \in st.pending \cup st.processing
               \/ Told(v, i - 1, r, "pending")
      BY <1>2, <2>3 DEF Lagging, StreamFollowsPhases
    <3>2. holder[r] # w
      BY <1>2, <2>3 DEF Ownership, StreamsAreOwn
    <3> QED
      BY <1>2, <1>4, <1>6, <2>1, <2>3, <3>1, <3>2
  <2> QED
    BY <2>2, <2>3
<1> QED
  BY <1>8, <1>11, <1>12, <1>13, <1>14 DEF Lagging

\* A worker fetches requests nobody has told of.
LEMMA FetchLagging ==
  ASSUME IInv, Ownership, Lagging, NEW w \in Workers, WorkerFetches(w)
  PROVE  Lagging'
<1>0. /\ TypeOK /\ phase \in [Request -> Phase] /\ status \in [Request -> Status]
      /\ holder \in [Request -> Workers \cup {NoWorker}] /\ NoWorker \notin Workers
      /\ Live(st) \subseteq Request
  BY GroupAssumption DEF IInv, TypeOK, Tracking, Live
<1> DEFINE g == Head(pendingQ)
<1>1. /\ UNCHANGED <<st, chan, mode, status, aborted>>
      /\ \A x \in Request : /\ holder'[x] = IF x \in g THEN w ELSE holder[x]
                            /\ phase'[x] = IF x \in g THEN "held" ELSE phase[x]
  BY DEF WorkerFetches
<1>2. \A x \in g : holder[x] = NoWorker /\ x <= st.created
  <2>1. pendingQ \in Seq(SUBSET Request) /\ pendingQ # <<>>
    BY <1>0 DEF TypeOK, WorkerFetches
  <2>2. 1 \in DOMAIN pendingQ /\ g = pendingQ[1]
    BY <2>1
  <2> QED
    BY <2>2 DEF Ownership, QueueIsFresh
<1> HIDE DEF g
<1>3. \A x \in Request : x \in g =>
        /\ phase[x] = "unknown" /\ status[x] = "queued"
        /\ x \notin st.pending \cup st.processing
        /\ \A v \in Workers : \A k \in 0 .. Len(chan[v]) : \A y : ~Told(v, k, x, y)
  <2> TAKE x \in Request
  <2> HAVE x \in g
  <2>1. phase[x] = "unknown" /\ status[x] = "queued" /\ x \in st.queued
    BY <1>2 DEF Ownership, FreshIsQueued
  <2>2. x \notin st.pending \cup st.processing
    BY <2>1 DEF IInv, Consistent
  <2>3. ASSUME NEW v \in Workers, NEW k \in 0 .. Len(chan[v]), NEW y, Told(v, k, x, y)
        PROVE  FALSE
    <3>1. PICK i \in 1 .. k : chan[v][i] = [id |-> x, status |-> y]
      BY <2>3 DEF Told
    <3>2. i \in DOMAIN chan[v]
      <4>1. chan[v] \in Seq(WorkerUpdate)
        BY <1>0 DEF TypeOK, WorkerUpdate
      <4>2. DOMAIN chan[v] = 1 .. Len(chan[v]) /\ Len(chan[v]) \in Nat
        BY <4>1
      <4> QED
        BY <4>2
    <3>3. holder[x] = v
      BY <3>1, <3>2 DEF Ownership, StreamsAreOwn
    <3> QED
      BY <1>0, <1>2, <3>3
  <2> QED
    BY <2>1, <2>2, <2>3
<1>4. \A v, k, r, x : /\ Told(v, k, r, x)' <=> Told(v, k, r, x)
                      /\ EndTold(v, k, r)' <=> EndTold(v, k, r)
  BY <1>1 DEF Told, EndTold
<1>5. \A v \in Workers : InFlight(v)' = InFlight(v)
  BY <1>1, <1>3 DEF InFlight
<1>6. \A v \in Workers : Working(v)' = Working(v)
  BY <1>1, <1>5 DEF Working
<1>7. \A v \in Workers : \A k \in 0 .. Len(chan[v]) : CountedAt(v, k)' \subseteq CountedAt(v, k)
  BY <1>0, <1>1, <1>3, <1>4 DEF CountedAt, Live
<1>8. StatusFitsPhase'
  BY <1>1, <1>3 DEF Lagging, StatusFitsPhase
<1>9. StreamFollowsPhases'
  BY <1>1, <1>4 DEF Lagging, StreamFollowsPhases, Live
<1>10. PhasesAreTold'
  BY <1>1, <1>4 DEF Lagging, PhasesAreTold, Live
<1>11. SlotsBound'
  BY <1>5 DEF Lagging, SlotsBound
<1>12. CountedAreWorking'
  <2> SUFFICES ASSUME NEW v \in Workers, mode[v] # "dead"
               PROVE  CountedAt(v, Len(chan[v]))' \subseteq Working(v)'
    BY <1>1 DEF CountedAreWorking
  <2>1. CountedAt(v, Len(chan[v])) \subseteq Working(v)
    BY DEF Lagging, CountedAreWorking
  <2>2. PICK k \in Nat : k = Len(chan[v])
    <3>1. chan[v] \in Seq(WorkerUpdate)
      BY <1>0 DEF TypeOK, WorkerUpdate
    <3> QED
      BY <3>1
  <2>3. CountedAt(v, Len(chan[v]))' = CountedAt(v, k)' /\ k \in 0 .. Len(chan[v])
    BY <1>1, <2>2
  <2> QED
    BY <1>6, <1>7, <2>1, <2>2, <2>3
<1>13. BoundedAhead'
  <2> SUFFICES ASSUME NEW v \in Workers, NEW k \in 0 .. Len(chan[v])
               PROVE  Cardinality(CountedAt(v, k)') <= AsyncLimit[v]
    BY <1>1 DEF BoundedAhead
  <2>1. AsyncLimit[v] \in Nat /\ CountedAt(v, k) \subseteq Request
    BY <1>0, GroupAssumption DEF CountedAt
  <2>2. Cardinality(CountedAt(v, k)) <= AsyncLimit[v]
    BY DEF Lagging, BoundedAhead
  <2> QED
    BY <1>7, <2>1, <2>2, SmallerSet
<1> QED
  BY <1>8, <1>9, <1>10, <1>11, <1>12, <1>13 DEF Lagging

\* The steps that leave the workers, and what is tracked of their requests, alone.
LEMMA FrameLagging ==
  ASSUME IInv, Ownership, Lagging, UNCHANGED <<chan, holder, phase, status, aborted>>,
         \A v \in Workers : mode'[v] = "dead" <=> mode[v] = "dead",
         Live(st') \subseteq Request,
         \A x \in Request : holder[x] # NoWorker =>
           /\ x \in Live(st') <=> x \in Live(st)
           /\ x \in st'.pending \cup st'.processing <=> x \in st.pending \cup st.processing
           /\ x \in st'.processing <=> x \in st.processing
  PROVE  Lagging'
<1>0. TypeOK /\ NoWorker \notin Workers /\ Live(st) \subseteq Request
  BY GroupAssumption DEF IInv, TypeOK, Tracking, Live
<1>1. \A v, k, r, x : /\ Told(v, k, r, x)' <=> Told(v, k, r, x)
                      /\ EndTold(v, k, r)' <=> EndTold(v, k, r)
  BY DEF Told, EndTold
<1>2. \A v \in Workers : InFlight(v)' = InFlight(v) /\ Working(v)' = Working(v)
  BY DEF InFlight, Working
<1>3. \A v \in Workers, k \in Nat : CountedAt(v, k)' = CountedAt(v, k)
  BY <1>0, <1>1 DEF CountedAt
<1>4. StatusFitsPhase' /\ SlotsBound'
  BY <1>2 DEF Lagging, StatusFitsPhase, SlotsBound
<1>5. \A v \in Workers : chan[v] \in Seq(WorkerUpdate) /\ Len(chan[v]) \in Nat
  <2>1. \A v \in Workers : chan[v] \in Seq(WorkerUpdate)
    BY <1>0 DEF TypeOK, WorkerUpdate
  <2> QED
    BY <2>1
<1>6. StreamFollowsPhases'
  <2> SUFFICES ASSUME NEW v \in Workers, NEW i \in DOMAIN chan[v], NEW r, r = chan[v][i].id
      PROVE  /\ chan[v][i].status = "completed" =>
                  \/ r \notin Live(st') \/ r \in st'.processing
                  \/ Told(v, i - 1, r, "in_progress")'
             /\ chan[v][i].status = "in_progress" =>
                  \/ r \notin Live(st') \/ r \in st'.pending \cup st'.processing
                  \/ Told(v, i - 1, r, "pending")'
    BY DEF StreamFollowsPhases, Live
  <2>1. holder[r] = v /\ r \in Request
    <3>1. chan[v][i] \in WorkerUpdate
      BY <1>5
    <3> QED
      BY <3>1 DEF Ownership, StreamsAreOwn, WorkerUpdate
  <2>2. /\ chan[v][i].status = "completed" =>
                  \/ r \notin Live(st) \/ r \in st.processing
                  \/ Told(v, i - 1, r, "in_progress")
        /\ chan[v][i].status = "in_progress" =>
                  \/ r \notin Live(st) \/ r \in st.pending \cup st.processing
                  \/ Told(v, i - 1, r, "pending")
    BY DEF Lagging, StreamFollowsPhases
  <2> QED
    BY <1>0, <1>1, <2>1, <2>2
<1>7. PhasesAreTold'
  <2> SUFFICES ASSUME NEW v \in Workers, NEW r \in Request, mode[v] # "dead", holder[r] = v
      PROVE  /\ phase[r] \in {"claimed", "running", "completed"} =>
                  \/ r \notin Live(st') \/ r \in st'.pending \cup st'.processing
                  \/ Told(v, Len(chan[v]), r, "pending")'
             /\ phase[r] \in {"running", "completed"} =>
                  \/ r \notin Live(st') \/ r \in st'.processing
                  \/ Told(v, Len(chan[v]), r, "in_progress")'
    BY DEF PhasesAreTold, Live
  <2>1. /\ phase[r] \in {"claimed", "running", "completed"} =>
             \/ r \notin Live(st) \/ r \in st.pending \cup st.processing
             \/ Told(v, Len(chan[v]), r, "pending")
        /\ phase[r] \in {"running", "completed"} =>
             \/ r \notin Live(st) \/ r \in st.processing
             \/ Told(v, Len(chan[v]), r, "in_progress")
    BY DEF Lagging, PhasesAreTold
  <2>2. \A x : Told(v, Len(chan[v]), r, x)' <=> Told(v, Len(chan[v]), r, x)
    BY DEF Told
  <2> QED
    BY <1>0, <2>1, <2>2
<1>8. CountedAreWorking'
  <2> SUFFICES ASSUME NEW v \in Workers, mode[v] # "dead"
               PROVE  CountedAt(v, Len(chan[v]))' \subseteq Working(v)'
    BY DEF CountedAreWorking
  <2>1. PICK k \in Nat : k = Len(chan[v])
    BY <1>5
  <2>2. CountedAt(v, Len(chan[v]))' = CountedAt(v, k)'
    BY <2>1
  <2>3. CountedAt(v, k) \subseteq Working(v)
    BY <2>1 DEF Lagging, CountedAreWorking
  <2> QED
    BY <1>2, <1>3, <2>2, <2>3
<1>9. BoundedAhead'
  <2> SUFFICES ASSUME NEW v \in Workers, NEW k \in 0 .. Len(chan[v])
               PROVE  Cardinality(CountedAt(v, k)') <= AsyncLimit[v]
    BY DEF BoundedAhead
  <2>1. Cardinality(CountedAt(v, k)) <= AsyncLimit[v] /\ k \in Nat
    BY <1>5 DEF Lagging, BoundedAhead
  <2> QED
    BY <1>3, <2>1
<1> QED
  BY <1>4, <1>6, <1>7, <1>8, <1>9 DEF Lagging

\* A worker that dies leaves a prefix of its stream.
LEMMA DeathLagging ==
  ASSUME IInv, Ownership, Lagging, NEW w \in Workers, WorkerDies(w)
  PROVE  Lagging'
<1>0. TypeOK
  BY DEF IInv
<1>1. PICK n \in Nat, m \in Nat : n = Len(chan[w]) /\ m = Len(chan'[w]) /\ m <= n
  BY <1>0, DeathFacts
<1>2. /\ \A v \in Workers : v # w => chan'[v] = chan[v] /\ mode'[v] = mode[v]
      /\ mode'[w] = "dead"
      /\ chan'[w] \in Seq(WorkerUpdate) /\ chan[w] \in Seq(WorkerUpdate)
      /\ \A i \in 1 .. m : chan'[w][i] = chan[w][i]
      /\ UNCHANGED <<st, holder, phase, status, aborted>>
  BY <1>0, <1>1, DeathFacts
<1>3. \A v \in Workers : chan[v] \in Seq(WorkerUpdate) /\ Len(chan[v]) \in Nat
  <2>1. \A v \in Workers : chan[v] \in Seq(WorkerUpdate)
    BY <1>0 DEF TypeOK, WorkerUpdate
  <2> QED
    BY <2>1
<1>4. \A v \in Workers, k \in Nat : (v = w => k <= m) =>
        /\ \A r, x : Told(v, k, r, x)' <=> Told(v, k, r, x)
        /\ \A r : EndTold(v, k, r)' <=> EndTold(v, k, r)
        /\ CountedAt(v, k)' = CountedAt(v, k)
  <2> TAKE v \in Workers, k \in Nat
  <2> HAVE v = w => k <= m
  <2>1. \A i \in 1 .. k : chan'[v][i] = chan[v][i]
    BY <1>2
  <2>2. /\ \A r, x : Told(v, k, r, x)' <=> Told(v, k, r, x)
        /\ \A r : EndTold(v, k, r)' <=> EndTold(v, k, r)
    BY <2>1 DEF Told, EndTold
  <2> QED
    BY <1>2, <2>2 DEF CountedAt
<1>5. \A v \in Workers : InFlight(v)' = InFlight(v) /\ Working(v)' = Working(v)
  BY <1>2 DEF InFlight, Working
<1>6. StatusFitsPhase' /\ SlotsBound'
  BY <1>2, <1>5 DEF Lagging, StatusFitsPhase, SlotsBound
<1>7. StreamFollowsPhases'
  <2> SUFFICES ASSUME NEW v \in Workers, NEW i \in DOMAIN chan'[v], NEW r, r = chan'[v][i].id
      PROVE  /\ chan'[v][i].status = "completed" =>
                  \/ r \notin Live(st) \/ r \in st.processing
                  \/ Told(v, i - 1, r, "in_progress")'
             /\ chan'[v][i].status = "in_progress" =>
                  \/ r \notin Live(st) \/ r \in st.pending \cup st.processing
                  \/ Told(v, i - 1, r, "pending")'
    BY <1>2 DEF StreamFollowsPhases, Live
  <2>1. /\ i \in DOMAIN chan[v] /\ chan'[v][i] = chan[v][i] /\ i - 1 \in Nat
        /\ (v = w => i - 1 <= m)
    <3>1. CASE v = w
      <4>1. DOMAIN chan'[w] = 1 .. Len(chan'[w]) /\ DOMAIN chan[w] = 1 .. Len(chan[w])
        BY <1>2
      <4>2. i \in 1 .. m /\ i \in DOMAIN chan[w] /\ i - 1 \in Nat /\ i - 1 <= m
        BY <1>1, <3>1, <4>1
      <4> QED
        BY <1>2, <3>1, <4>2
    <3>2. CASE v # w
      <4>1. DOMAIN chan[v] = 1 .. Len(chan[v])
        BY <1>3
      <4> QED
        BY <1>2, <1>3, <3>2, <4>1
    <3> QED
      BY <3>1, <3>2
  <2>2. /\ chan[v][i].status = "completed" =>
                  \/ r \notin Live(st) \/ r \in st.processing
                  \/ Told(v, i - 1, r, "in_progress")
        /\ chan[v][i].status = "in_progress" =>
                  \/ r \notin Live(st) \/ r \in st.pending \cup st.processing
                  \/ Told(v, i - 1, r, "pending")
    BY <2>1 DEF Lagging, StreamFollowsPhases
  <2> QED
    BY <1>4, <2>1, <2>2
<1>8. PhasesAreTold'
  <2> SUFFICES ASSUME NEW v \in Workers, NEW r \in Request, mode'[v] # "dead", holder[r] = v
      PROVE  /\ phase[r] \in {"claimed", "running", "completed"} =>
                  \/ r \notin Live(st) \/ r \in st.pending \cup st.processing
                  \/ Told(v, Len(chan[v]), r, "pending")'
             /\ phase[r] \in {"running", "completed"} =>
                  \/ r \notin Live(st) \/ r \in st.processing
                  \/ Told(v, Len(chan[v]), r, "in_progress")'
    BY <1>2 DEF PhasesAreTold, Live
  <2>1. v # w /\ mode[v] # "dead"
    BY <1>2
  <2>2. PICK k \in Nat : k = Len(chan[v]) /\ k = Len(chan'[v])
    BY <1>2, <1>3, <2>1
  <2>3. \A x : /\ Told(v, Len(chan[v]), r, x)' <=> Told(v, k, r, x)'
               /\ Told(v, k, r, x)' <=> Told(v, k, r, x)
    BY <1>4, <2>1, <2>2
  <2>4. /\ phase[r] \in {"claimed", "running", "completed"} =>
             \/ r \notin Live(st) \/ r \in st.pending \cup st.processing
             \/ Told(v, k, r, "pending")
        /\ phase[r] \in {"running", "completed"} =>
             \/ r \notin Live(st) \/ r \in st.processing
             \/ Told(v, k, r, "in_progress")
    BY <2>1, <2>2 DEF Lagging, PhasesAreTold
  <2> QED
    BY <2>3, <2>4
<1>9. CountedAreWorking'
  <2> SUFFICES ASSUME NEW v \in Workers, mode'[v] # "dead"
               PROVE  CountedAt(v, Len(chan[v]))' \subseteq Working(v)'
    BY DEF CountedAreWorking
  <2>1. v # w /\ mode[v] # "dead"
    BY <1>2
  <2>2. PICK k \in Nat : k = Len(chan[v]) /\ k = Len(chan'[v])
    BY <1>2, <1>3, <2>1
  <2>3. CountedAt(v, Len(chan[v]))' = CountedAt(v, k)'
    BY <2>2
  <2>4. CountedAt(v, k) \subseteq Working(v)
    BY <2>1, <2>2 DEF Lagging, CountedAreWorking
  <2> QED
    BY <1>4, <1>5, <2>1, <2>3, <2>4
<1>10. BoundedAhead'
  <2> SUFFICES ASSUME NEW v \in Workers, NEW k \in 0 .. Len(chan'[v])
               PROVE  Cardinality(CountedAt(v, k)') <= AsyncLimit[v]
    BY DEF BoundedAhead
  <2>1. k \in Nat /\ (v = w => k <= m) /\ k \in 0 .. Len(chan[v])
    <3>1. CASE v = w
      BY <1>1, <3>1
    <3>2. CASE v # w
      BY <1>2, <1>3, <3>2
    <3> QED
      BY <3>1, <3>2
  <2>2. Cardinality(CountedAt(v, k)) <= AsyncLimit[v]
    BY <2>1 DEF Lagging, BoundedAhead
  <2> QED
    BY <1>4, <2>1, <2>2
<1> QED
  BY <1>6, <1>7, <1>8, <1>9, <1>10 DEF Lagging

LEMMA StepLagging ==
  IInv /\ Ownership /\ GraphsTogether /\ Lagging /\ [Next]_vars => Lagging'
<1> SUFFICES ASSUME IInv, Ownership, GraphsTogether, Lagging, [Next]_vars PROVE Lagging'
  OBVIOUS
<1>0. /\ TypeOK /\ Consistent(st) /\ st \in Tracking /\ Live(st) \subseteq Request
      /\ mode \in [Workers -> Mode]
  BY DEF IInv, TypeOK, Tracking, Live
<1>1. CASE Generator
  <2>1. /\ UNCHANGED <<chan, holder, phase, status, aborted, mode>>
        /\ GeneratorQueues \/ SameSets(st, st')
    <3>1. CASE GeneratorExhausts
      <4>1. /\ UNCHANGED <<chan, holder, phase, status, aborted, mode>>
            /\ st' = Exhausted(st, timeUp)
        BY <3>1 DEF GeneratorExhausts, workerVars
      <4> DEFINE k == [st EXCEPT !.constraints = @ \cup {"requests_exhausted"}]
      <4>2. k \in Tracking /\ SameSets(st, k)
        BY <1>0 DEF Tracking, SameSets
      <4>3. SameSets(k, Constrained(k, timeUp))
        BY <4>2, ConstrainedEffect
      <4> QED
        BY <4>1, <4>2, <4>3 DEF SameSets, Exhausted
    <3>2. CASE ~GeneratorExhausts
      BY <1>1, <3>2 DEF Generator, GeneratorPulls, GeneratorQueues, GeneratorBuffers,
                        GeneratorSends, GeneratorResumes, GeneratorStops, workerVars, SameSets
    <3> QED
      BY <3>1, <3>2
  <2>2. CASE SameSets(st, st')
    BY <1>0, <2>1, <2>2, FrameLagging DEF SameSets, Live
  <2>3. CASE GeneratorQueues
    <3>1. st.created < NumRequests /\ st' = Updated(st, st.created + 1, "queued", timeUp)
      BY <2>3 DEF GeneratorQueues, Newest, IInv
    <3>2. /\ st'.queued = st.queued \cup {st.created + 1}
          /\ st'.pending = st.pending /\ st'.processing = st.processing
      BY <1>0, <3>1, QueuedEffect
    <3>3. st.created + 1 \in Request /\ holder[st.created + 1] = NoWorker
      <4>1. st.created \in Nat /\ st.created + 1 \in Request
        BY <1>0, <3>1, StateAssumption DEF Tracking, Request
      <4>2. st.created + 1 > st.created
        BY <4>1
      <4> QED
        BY <4>1, <4>2 DEF Ownership, UnsentIsFresh
    <3>4. Live(st') = Live(st) \cup {st.created + 1}
      BY <3>2 DEF Live
    <3> QED
      BY <1>0, <2>1, <3>2, <3>3, <3>4, FrameLagging
  <2> QED
    BY <2>1, <2>2, <2>3
<1>2. ASSUME NEW w \in Workers, ReceiverCounts(w) PROVE Lagging'
  BY <1>2, ReceivedKind, ReceivedLagging
<1>3. CASE ReceiverChecks \/ ReceiverBuffers \/ ConsumerYields \/ ConsumerPolls \/ QuietStep
  <2>1. /\ UNCHANGED <<chan, holder, phase, status, aborted>>
        /\ \A v \in Workers : mode'[v] = "dead" <=> mode[v] = "dead"
        /\ st' = st \/ st' = Constrained(st, timeUp)
    BY <1>3 DEF ReceiverChecks, ReceiverBuffers, ConsumerYields, ConsumerPolls, QuietStep,
                workerVars
  <2>2. SameSets(st, st')
    BY <1>0, <2>1, ConstrainedEffect DEF SameSets
  <2> QED
    BY <1>0, <2>1, <2>2, FrameLagging DEF SameSets, Live
<1>4. ASSUME NEW w \in Workers, NEW r \in Request, SlotKind(w, r) PROVE Lagging'
  BY <1>4, ClaimLagging, BusyLagging, CompletionLagging, GivesUpLagging DEF SlotKind
<1> QED
  BY <1>0, <1>1, <1>2, <1>3, <1>4, StepKinds, FetchLagging, SweepLagging, DeathLagging

LEMMA InitLagging == Init => Lagging
<1> SUFFICES ASSUME Init PROVE Lagging
  OBVIOUS
<1>1. /\ pendingQ = <<>> /\ Live(st) = {}
      /\ \A r \in Request : /\ holder[r] = NoWorker /\ phase[r] = "unknown"
                            /\ status[r] = "queued"
      /\ \A w \in Workers : chan[w] = <<>>
  BY DEF Init, InitialTracking, Live
<1>2. \A w \in Workers : InFlight(w) = {} /\ \A k : CountedAt(w, k) = {}
  BY <1>1 DEF InFlight, CountedAt
<1>3. Cardinality({}) = 0 /\ \A w \in Workers : AsyncLimit[w] \in Nat
  BY FS_EmptySet, GroupAssumption
<1>4. SlotsBound /\ BoundedAhead /\ CountedAreWorking
  <2>1. \A w \in Workers : Cardinality(InFlight(w)) = 0
    BY <1>2, <1>3
  <2>2. \A w \in Workers : \A k : Cardinality(CountedAt(w, k)) = 0
    BY <1>2, <1>3
  <2>3. \A w \in Workers : 0 <= AsyncLimit[w]
    BY <1>3
  <2>4. SlotsBound /\ BoundedAhead
    BY <2>1, <2>2, <2>3 DEF SlotsBound, BoundedAhead
  <2> QED
    BY <1>2, <2>4 DEF CountedAreWorking
<1> QED
  BY <1>1, <1>4 DEF Lagging, StatusFitsPhase, StreamFollowsPhases, PhasesAreTold

LEMMA LaggingRespectsSlots == IInv /\ Lagging => SlotsRespected
<1> SUFFICES ASSUME IInv, Lagging, NEW w \in Workers
             PROVE  Cardinality({r \in st.pending \cup st.processing : holder[r] = w})
                      <= AsyncLimit[w]
  BY DEF SlotsRespected
<1>1. Len(chan[w]) \in Nat
  <2>1. chan[w] \in Seq(WorkerUpdate)
    BY DEF IInv, TypeOK, WorkerUpdate
  <2> QED
    BY <2>1
<1>2. 0 \in 0 .. Len(chan[w])
  BY <1>1
<1>3. \A r : ~EndTold(w, 0, r) /\ ~Told(w, 0, r, "pending")
  BY DEF Told, EndTold
<1>4. CountedAt(w, 0) = {r \in st.pending \cup st.processing : holder[r] = w}
  BY <1>3 DEF CountedAt, Live
<1> QED
  BY <1>2, <1>4 DEF Lagging, BoundedAhead

\* The coordinator never counts more requests at a worker than the worker has slots, for any
\* number of workers, slots and requests, and however far its reading of the updates lags
\* behind what the workers do.
THEOREM SlotsStayRespected == Spec => []SlotsRespected
<1>1. Init => IInv /\ Ownership /\ GraphsTogether /\ Lagging
  BY InitIInv, InitOwnership, InitTogether, InitLagging
<1>2. IInv /\ Ownership /\ GraphsTogether /\ Lagging /\ [Next]_vars
        => (IInv /\ Ownership /\ GraphsTogether /\ Lagging)'
  BY StepIInv, StepOwnership, StepTogether, StepLagging
<1> QED
  BY <1>1, <1>2, LaggingRespectsSlots, PTL DEF Spec
-----------------------------------------------------------------------------
(***************************************************************************)
(* The order of the updates: every stage between a slot and the consumer   *)
(* (the worker's stream, the callback, the buffer, what was yielded) is    *)
(* ahead of the next one, so the consumer sees the updates of a request in *)
(* order, and the report of every request that the coordinator has counted *)
(* as processed is on its way.                                             *)
(*                                                                         *)
(* They hold where a worker works on one request of a graph at a time.     *)
(* Where two slots share a graph, an abort by one reports the request of   *)
(* the other, which goes on reporting.                                     *)
(***************************************************************************)

\* A conversation without branches: every turn waits for the one before it.
Linear ==
  \A r \in Request : r + 1 \in Request /\ GraphOf[r + 1] = GraphOf[r] => r \in Parents[r + 1]

OneAtATime == (\A w \in Workers : AsyncLimit[w] = 1) \/ Linear

-----------------------------------------------------------------------------
(***************************************************************************)
(* One request of a graph at a time.                                       *)
(***************************************************************************)

\* What a worker has fetched it knows.
FetchedIsKnown == \A r \in Request : holder[r] # NoWorker => phase[r] # "unknown"

\* Once a turn has been claimed, every earlier turn of its graph has completed.
TurnsFollow ==
  \A a, b \in Request :
    a < b /\ GraphOf[a] = GraphOf[b] /\ phase[b] \in {"claimed", "running", "completed"}
      => phase[a] = "completed"

\* A graph that was given up is finished: nothing of it is held or in flight.
AbortedIsOver ==
  /\ \A g \in aborted : \E r \in Request : GraphOf[r] = g /\ holder[r] # NoWorker
  /\ \A r \in Request :
       GraphOf[r] \in aborted /\ holder[r] # NoWorker => phase[r] \in {"completed", "ended"}
  /\ \A r \in Request : phase[r] = "ended" => status[r] = "cancelled" \/ GraphOf[r] \in aborted
  /\ \A r \in Request : phase[r] = "claimed" => status[r] = "pending" \/ GraphOf[r] \in aborted

InTurn == FetchedIsKnown /\ (Linear => TurnsFollow) /\ AbortedIsOver

Alone ==
  \A r, x \in Request :
    /\ r # x /\ holder[r] = holder[x]
    /\ phase[r] \in {"claimed", "running"} /\ phase[x] \in {"claimed", "running"}
    => GraphOf[r] # GraphOf[x]

\* Two requests in one set of size one are the same.
LEMMA SingleMember ==
  ASSUME NEW S \in SUBSET Request, Cardinality(S) <= 1, NEW r \in S, NEW x \in S
  PROVE  r = x
<1>1. SUFFICES ASSUME r # x PROVE FALSE
  OBVIOUS
<1>2. {r, x} \subseteq S
  OBVIOUS
<1>3. Cardinality({r, x}) \in Nat /\ Cardinality(S) \in Nat
      /\ Cardinality({r, x}) <= Cardinality(S)
  BY <1>2, SmallerSet
<1>4. Cardinality({r, x}) = 2
  <2>1. {r, x} = {r} \cup {x} /\ x \notin {r}
    BY <1>1
  <2>2. IsFiniteSet({r}) /\ Cardinality({r}) = 1
    BY FS_Singleton
  <2> QED
    BY <2>1, <2>2, FS_AddElement
<1> QED
  BY <1>3, <1>4

LEMMA AloneHolds ==
  ASSUME OneAtATime, IInv, Ownership, Lagging, InTurn
  PROVE  Alone
<1> SUFFICES ASSUME NEW r \in Request, NEW x \in Request, r # x, holder[r] = holder[x],
                    phase[r] \in {"claimed", "running"}, phase[x] \in {"claimed", "running"},
                    GraphOf[r] = GraphOf[x]
             PROVE  FALSE
  BY DEF Alone
<1>1. CASE \A w \in Workers : AsyncLimit[w] = 1
  <2> DEFINE w == holder[r]
  <2>1. w \in Workers
    <3>1. w # NoWorker
      BY DEF Ownership, FreshIsQueued
    <3> QED
      BY <3>1 DEF IInv, TypeOK
  <2>2. r \in InFlight(w) /\ x \in InFlight(w) /\ InFlight(w) \in SUBSET Request
    BY DEF InFlight
  <2>3. Cardinality(InFlight(w)) <= 1
    BY <1>1, <2>1 DEF Lagging, SlotsBound
  <2> QED
    BY <2>2, <2>3, SingleMember
<1>2. CASE Linear
  <2>1. r < x \/ x < r
    BY StateAssumption DEF Request
  <2> QED
    BY <1>2, <2>1 DEF InTurn, TurnsFollow
<1> QED
  BY <1>1, <1>2 DEF OneAtATime

LEMMA FetchInTurn ==
  ASSUME IInv, Ownership, GraphsTogether, InTurn, NEW w \in Workers, WorkerFetches(w)
  PROVE  InTurn'
<1> DEFINE g == Head(pendingQ)
<1>1. /\ UNCHANGED <<status, aborted>>
      /\ \A x \in Request : /\ holder'[x] = IF x \in g THEN w ELSE holder[x]
                            /\ phase'[x] = IF x \in g THEN "held" ELSE phase[x]
  BY DEF WorkerFetches
<1>2. \A x \in g : x \in Request /\ holder[x] = NoWorker /\ x <= st.created
  <2>1. pendingQ \in Seq(SUBSET Request) /\ pendingQ # <<>>
    BY DEF IInv, TypeOK, WorkerFetches
  <2>2. 1 \in DOMAIN pendingQ /\ g = pendingQ[1] /\ g \in SUBSET Request
    BY <2>1
  <2> QED
    BY <2>2 DEF Ownership, QueueIsFresh
<1> HIDE DEF g
<1>3. \A x \in g : phase[x] = "unknown"
  BY <1>2 DEF Ownership, FreshIsQueued
<1>4. w # NoWorker
  BY GroupAssumption
<1>5. FetchedIsKnown'
  BY <1>1 DEF InTurn, FetchedIsKnown
<1>6. Linear => TurnsFollow'
  BY <1>1, <1>2, <1>3 DEF InTurn, TurnsFollow
<1>7. ASSUME NEW r \in g, GraphOf[r] \in aborted PROVE FALSE
  <2>1. PICK y \in Request : GraphOf[y] = GraphOf[r] /\ holder[y] # NoWorker
    BY <1>7 DEF InTurn, AbortedIsOver
  <2>2. holder[r] = holder[y]
    BY <1>2, <2>1 DEF GraphsTogether
  <2> QED
    BY <1>2, <2>1, <2>2
<1>8. AbortedIsOver'
  <2>1. \A h \in aborted : \E r \in Request : GraphOf[r] = h /\ holder'[r] # NoWorker
    BY <1>1, <1>4 DEF InTurn, AbortedIsOver
  <2>2. \A r \in Request : GraphOf[r] \in aborted /\ holder'[r] # NoWorker
          => phase'[r] \in {"completed", "ended"}
    BY <1>1, <1>7 DEF InTurn, AbortedIsOver
  <2> QED
    BY <1>1, <2>1, <2>2 DEF InTurn, AbortedIsOver
<1> QED
  BY <1>5, <1>6, <1>8 DEF InTurn

LEMMA TellsInTurn ==
  ASSUME IInv, InTurn, NEW w \in Workers, NEW r \in Request,
         \/ Claimable(w, r) /\ SlotTells(w, r, "pending", "held", "claimed")
         \/ SlotTells(w, r, "pending", "claimed", "claimed")
         \/ SlotTells(w, r, "in_progress", "claimed", "running")
         \/ SlotTells(w, r, "first_token", "running", "running")
         \/ SlotTells(w, r, "completed", "running", "completed")
  PROVE  InTurn'
<1> SUFFICES ASSUME NEW new, NEW from \in {"held", "claimed", "running"},
                    NEW to \in {"claimed", "running", "completed"},
                    SlotTells(w, r, new, from, to),
                    from = "held" => Claimable(w, r),
                    to = "claimed" => new = "pending"
             PROVE  InTurn'
  OBVIOUS
<1>0. phase \in [Request -> Phase] /\ status \in [Request -> Status]
  BY DEF IInv, TypeOK
<1>1. /\ holder' = holder /\ aborted' = aborted
      /\ holder[r] = w /\ phase[r] = from /\ phase'[r] = to /\ status'[r] = new
      /\ \A x \in Request \ {r} : phase'[x] = phase[x] /\ status'[x] = status[x]
  BY <1>0 DEF SlotTells, SlotFrame
<1>2. FetchedIsKnown'
  BY <1>1 DEF InTurn, FetchedIsKnown
<1>3. ASSUME Linear, NEW a \in Request, NEW b \in Request, a < b, GraphOf[a] = GraphOf[b],
             phase'[b] \in {"claimed", "running", "completed"}
      PROVE  phase'[a] = "completed"
  <2>0. /\ \A x \in Request : phase[x] = "completed" => phase'[x] = "completed"
        /\ TurnsFollow
    BY <1>1, <1>3 DEF InTurn
  <2>1. CASE phase[b] \in {"claimed", "running", "completed"}
    BY <1>3, <2>0, <2>1 DEF TurnsFollow
  <2>2. CASE phase[b] \notin {"claimed", "running", "completed"}
    <3>1. b = r /\ from = "held" /\ Claimable(w, r)
      BY <1>1, <1>3, <2>2
    <3>2. /\ b - 1 \in Request /\ (b - 1) + 1 = b /\ a <= b - 1 /\ b - 1 <= b
      BY <1>3, StateAssumption DEF Request
    <3>3. GraphOf[b - 1] = GraphOf[b]
      BY <1>3, <3>2, GroupAssumption DEF NumberedByGraph
    <3>4. b - 1 \in Parents[b]
      BY <1>3, <3>2, <3>3 DEF Linear
    <3>5. phase[b - 1] = "completed"
      BY <3>1, <3>4 DEF Claimable
    <3>6. a = b - 1 \/ a < b - 1
      BY <3>2, StateAssumption DEF Request
    <3> QED
      BY <1>3, <2>0, <3>2, <3>3, <3>5, <3>6 DEF TurnsFollow
  <2> QED
    BY <2>1, <2>2
<1>4. AbortedIsOver'
  BY <1>1 DEF InTurn, AbortedIsOver, Claimable
<1> QED
  BY <1>2, <1>3, <1>4 DEF InTurn, TurnsFollow

\* The slot that gives a graph up is the only one at work on it.
LEMMA GivesUpInTurn ==
  ASSUME IInv, Ownership, GraphsTogether, Lagging, InTurn, Alone,
         NEW w \in Workers, NEW r \in Request, NEW new \in {"errored", "cancelled"},
         SlotGivesUp(w, r, new)
  PROVE  /\ InTurn'
         /\ \A x \in Rest(w, r) : phase[x] = "held" /\ status[x] = "queued"
         /\ status[r] \notin TerminalStatus
<1>1. /\ holder' = holder /\ aborted' = aborted \cup {GraphOf[r]}
      /\ holder[r] = w /\ phase[r] \in {"claimed", "running"} /\ w # NoWorker
      /\ phase'[r] = "ended" /\ status'[r] = new
      /\ \A x \in Request \ {r} :
           /\ phase'[x] = IF x \in Rest(w, r) /\ phase[x] = "held" THEN "ended" ELSE phase[x]
           /\ status'[x] = IF x \in Rest(w, r) THEN "cancelled" ELSE status[x]
  BY GroupAssumption DEF SlotGivesUp, SlotFrame, IInv, TypeOK
<1>2. \A x \in Request : x \in Rest(w, r) <=>
        /\ x # r /\ holder[x] = w /\ GraphOf[x] = GraphOf[r]
        /\ phase[x] # "completed" /\ status[x] # "cancelled"
  BY DEF Rest, Nodes
<1>3. GraphOf[r] \notin aborted
  BY <1>1 DEF InTurn, AbortedIsOver
<1>4. \A x \in Request : x # r /\ holder[x] = w /\ GraphOf[x] = GraphOf[r] =>
        /\ phase[x] \in {"held", "completed", "ended"}
        /\ phase[x] = "ended" => status[x] = "cancelled"
        /\ phase[x] = "held" => status[x] = "queued"
  <2> TAKE x \in Request
  <2> HAVE x # r /\ holder[x] = w /\ GraphOf[x] = GraphOf[r]
  <2>1. phase[x] \in Phase /\ phase[x] # "unknown"
    BY <1>1 DEF IInv, TypeOK, InTurn, FetchedIsKnown
  <2>2. phase[x] \notin {"claimed", "running"}
    BY <1>1 DEF Alone
  <2>3. phase[x] = "ended" => status[x] = "cancelled"
    BY <1>3 DEF InTurn, AbortedIsOver
  <2>4. phase[x] = "held" => status[x] = "queued"
    BY DEF Lagging, StatusFitsPhase
  <2> QED
    BY <2>1, <2>2, <2>3, <2>4 DEF Phase
<1>5. \A x \in Rest(w, r) : x \in Request /\ phase[x] = "held" /\ status[x] = "queued"
  <2>1. \A x \in Rest(w, r) : x \in Request
    BY DEF Rest, Nodes
  <2> QED
    BY <1>2, <1>4, <2>1
<1>6. \A x \in Request \ {r} :
        /\ phase'[x] = IF x \in Rest(w, r) THEN "ended" ELSE phase[x]
        /\ status'[x] = IF x \in Rest(w, r) THEN "cancelled" ELSE status[x]
  BY <1>1, <1>5
<1>7. FetchedIsKnown'
  BY <1>1, <1>6 DEF InTurn, FetchedIsKnown
<1>8. Linear => TurnsFollow'
  BY <1>1, <1>2, <1>6 DEF InTurn, TurnsFollow
<1>9. AbortedIsOver'
  <2>1. \A h \in aborted' : \E y \in Request : GraphOf[y] = h /\ holder'[y] # NoWorker
    BY <1>1 DEF InTurn, AbortedIsOver
  <2>2. ASSUME NEW x \in Request, GraphOf[x] \in aborted', holder[x] # NoWorker
        PROVE  phase'[x] \in {"completed", "ended"}
    <3>1. CASE GraphOf[x] \in aborted
      <4>1. x # r /\ phase[x] \in {"completed", "ended"}
        BY <1>1, <2>2, <3>1 DEF InTurn, AbortedIsOver
      <4> QED
        BY <1>6, <4>1
    <3>2. CASE GraphOf[x] = GraphOf[r]
      <4>1. holder[x] = w
        <5>1. x <= st.created
          <6>1. st.created \in Nat /\ x \in Nat
            BY DEF IInv, TypeOK, Tracking, Request
          <6> QED
            BY <2>2, <6>1 DEF Ownership, UnsentIsFresh
        <5> QED
          BY <1>1, <3>2, <5>1 DEF GraphsTogether
      <4>2. CASE x = r
        BY <1>1, <4>2
      <4>3. CASE x # r
        BY <1>2, <1>4, <1>6, <3>2, <4>1, <4>3
      <4> QED
        BY <4>2, <4>3
    <3> QED
      BY <1>1, <2>2, <3>1, <3>2
  <2>3. \A x \in Request : phase'[x] = "ended"
          => status'[x] = "cancelled" \/ GraphOf[x] \in aborted'
    BY <1>1, <1>6 DEF InTurn, AbortedIsOver
  <2>4. \A x \in Request : phase'[x] = "claimed"
          => status'[x] = "pending" \/ GraphOf[x] \in aborted'
    BY <1>1, <1>2, <1>6 DEF InTurn, AbortedIsOver
  <2> QED
    BY <1>1, <2>1, <2>2, <2>3, <2>4 DEF AbortedIsOver
<1>10. status[r] \notin TerminalStatus
  BY <1>1, <1>3 DEF Lagging, StatusFitsPhase, TerminalStatus
<1> QED
  BY <1>5, <1>7, <1>8, <1>9, <1>10 DEF InTurn

LEMMA SweepInTurn ==
  ASSUME IInv, InTurn, NEW w \in Workers, SweepKind(w)
  PROVE  InTurn'
<1>1. /\ holder' = holder /\ aborted' = aborted
      /\ \A x \in Request :
           /\ phase'[x] = IF x \in Unfinished(w) THEN "ended" ELSE phase[x]
           /\ status'[x] = IF x \in Unfinished(w) THEN "cancelled" ELSE status[x]
      /\ \A x \in Unfinished(w) : phase[x] = "held"
  BY DEF SweepKind, Unfinished
<1>2. FetchedIsKnown'
  BY <1>1 DEF InTurn, FetchedIsKnown
<1>3. Linear => TurnsFollow'
  BY <1>1 DEF InTurn, TurnsFollow
<1>4. AbortedIsOver'
  BY <1>1 DEF InTurn, AbortedIsOver
<1> QED
  BY <1>2, <1>3, <1>4 DEF InTurn

LEMMA FrameInTurn ==
  ASSUME InTurn, UNCHANGED <<holder, phase, status, aborted>>
  PROVE  InTurn'
BY DEF InTurn, FetchedIsKnown, TurnsFollow, AbortedIsOver

LEMMA StepInTurn ==
  ASSUME OneAtATime
  PROVE  IInv /\ Ownership /\ GraphsTogether /\ Lagging /\ InTurn /\ [Next]_vars => InTurn'
<1> SUFFICES ASSUME IInv, Ownership, GraphsTogether, Lagging, InTurn, [Next]_vars
             PROVE  InTurn'
  OBVIOUS
<1>0. TypeOK /\ Alone
  BY AloneHolds DEF IInv
<1>1. CASE \/ Generator \/ ReceiverChecks \/ ReceiverBuffers \/ ConsumerYields \/ ConsumerPolls
           \/ QuietStep \/ \E w \in Workers : ReceiverCounts(w) \/ WorkerDies(w)
  <2>1. UNCHANGED <<holder, phase, status, aborted>>
    BY <1>1 DEF Generator, GeneratorPulls, GeneratorQueues, GeneratorBuffers, GeneratorSends,
                GeneratorResumes, GeneratorExhausts, GeneratorStops, ReceiverChecks,
                ReceiverBuffers, ConsumerYields, ConsumerPolls, QuietStep, ReceiverCounts,
                WorkerDies, workerVars
  <2> QED
    BY <2>1, FrameInTurn
<1>2. ASSUME NEW w \in Workers, NEW r \in Request, SlotKind(w, r) PROVE InTurn'
  BY <1>0, <1>2, TellsInTurn, GivesUpInTurn DEF SlotKind
<1> QED
  BY <1>0, <1>1, <1>2, StepKinds, FetchInTurn, SweepInTurn

LEMMA InitInTurn == Init => InTurn
BY DEF Init, InTurn, FetchedIsKnown, TurnsFollow, AbortedIsOver

-----------------------------------------------------------------------------
(***************************************************************************)
(* Every stage is ahead of the next one.                                   *)
(***************************************************************************)
Before(a, b) == a.id = b.id => YieldRank(a.status) < YieldRank(b.status)
Rising(q) == \A i, j \in DOMAIN q : i < j => Before(q[i], q[j])

\* The update u goes beyond what was yielded, y, and not beyond the worker's status, s.
Ahead(y, u) == YieldRank(y[u.id]) < YieldRank(u.status)
Reached(s, u) == YieldRank(u.status) <= YieldRank(s[u.id])

BufferInOrder ==
  /\ Rising(buffer)
  /\ \A i \in DOMAIN buffer : Ahead(yielded, buffer[i]) /\ Reached(status, buffer[i])

CallbackInOrder ==
  cb.pc # "idle" => /\ Ahead(yielded, cb.update) /\ Reached(status, cb.update)
                    /\ \A i \in DOMAIN buffer : Before(buffer[i], cb.update)

StreamsInOrder ==
  \A w \in Workers :
    /\ Rising(chan[w])
    /\ \A i \in DOMAIN chan[w] :
         /\ Ahead(yielded, chan[w][i]) /\ Reached(status, chan[w][i])
         /\ cb.pc # "idle" => Before(cb.update, chan[w][i])
         /\ \A j \in DOMAIN buffer : Before(buffer[j], chan[w][i])

YieldedInOrder == \A r \in Request : YieldRank(yielded[r]) <= YieldRank(status[r])

\* The generator has put the "queued" update of r into the buffer.
Announced(r) == r < st.created \/ (r = st.created /\ genPc # "buffer")

QueuedComesFirst ==
  \A r \in Request :
    /\ Announced(r) => \/ yielded[r] # "none"
                       \/ \E i \in DOMAIN buffer : buffer[i] = [id |-> r, status |-> "queued"]
    /\ ~Announced(r) => yielded[r] = "none" /\ \A i \in DOMAIN buffer : buffer[i].id # r

InOrder == BufferInOrder /\ CallbackInOrder /\ StreamsInOrder /\ YieldedInOrder
             /\ QueuedComesFirst

LEMMA Ranks ==
  /\ YieldRank("none") = 0 /\ YieldRank("queued") = 1 /\ YieldRank("pending") = 2
  /\ YieldRank("in_progress") = 3 /\ YieldRank("first_token") = 4
  /\ \A x \in TerminalStatus : YieldRank(x) = 5
  /\ \A x \in Status \cup {"none"} : YieldRank(x) \in 0 .. 5
  /\ \A x \in Status : YieldRank(x) \in 1 .. 5
  /\ \A x \in Status \ TerminalStatus : YieldRank(x) \in 1 .. 4
BY DEF YieldRank, Status, WorkerStatus, TerminalStatus

\* The updates on their way are of known requests and have a status.
LEMMA OrderTypes ==
  ASSUME TypeOK
  PROVE  /\ buffer \in Seq(Update) /\ DOMAIN buffer = 1 .. Len(buffer) /\ Len(buffer) \in Nat
         /\ \A i \in DOMAIN buffer :
              /\ i \in Nat /\ buffer[i] \in Update
              /\ buffer[i].id \in Request /\ YieldRank(buffer[i].status) \in 1 .. 5
         /\ \A w \in Workers :
              /\ chan[w] \in Seq(WorkerUpdate) /\ DOMAIN chan[w] = 1 .. Len(chan[w])
              /\ Len(chan[w]) \in Nat
              /\ \A i \in DOMAIN chan[w] :
                   /\ i \in Nat /\ chan[w][i] \in WorkerUpdate
                   /\ chan[w][i].id \in Request /\ YieldRank(chan[w][i].status) \in 1 .. 5
         /\ \A r \in Request : /\ YieldRank(yielded[r]) \in 0 .. 5
                               /\ YieldRank(status[r]) \in 1 .. 5
<1>1. /\ buffer \in Seq(Update) /\ \A w \in Workers : chan[w] \in Seq(WorkerUpdate)
      /\ yielded \in [Request -> Status \cup {"none"}] /\ status \in [Request -> Status]
  BY DEF TypeOK, WorkerUpdate
<1>2. \A u : u \in Update \/ u \in WorkerUpdate =>
        u.id \in Request /\ u.status \in Status
  BY DEF Update, WorkerUpdate, Status
<1>3. \A i \in DOMAIN buffer : i \in Nat /\ buffer[i] \in Update
  BY <1>1
<1>4. \A w \in Workers : \A i \in DOMAIN chan[w] : i \in Nat /\ chan[w][i] \in WorkerUpdate
  BY <1>1
<1>5. \A x \in Status : YieldRank(x) \in 1 .. 5
  BY Ranks
<1>6. \A r \in Request : YieldRank(yielded[r]) \in 0 .. 5 /\ YieldRank(status[r]) \in 1 .. 5
  BY <1>1, Ranks
<1>7. DOMAIN buffer = 1 .. Len(buffer) /\ Len(buffer) \in Nat
  BY <1>1
<1>8. \A w \in Workers : DOMAIN chan[w] = 1 .. Len(chan[w]) /\ Len(chan[w]) \in Nat
  BY <1>1
<1> QED
  BY <1>1, <1>2, <1>3, <1>4, <1>5, <1>6, <1>7, <1>8

\* The steps that move no update.
LEMMA FrameInOrder ==
  ASSUME InOrder, UNCHANGED <<chan, buffer, yielded, status>>,
         cb'.pc # "idle" => cb.pc # "idle" /\ cb'.update = cb.update,
         \A r \in Request : Announced(r)' <=> Announced(r)
  PROVE  InOrder'
<1>1. BufferInOrder' /\ YieldedInOrder'
  BY DEF InOrder, BufferInOrder, YieldedInOrder
<1>2. CallbackInOrder' /\ StreamsInOrder'
  BY DEF InOrder, CallbackInOrder, StreamsInOrder
<1>3. QueuedComesFirst'
  BY DEF InOrder, QueuedComesFirst
<1> QED
  BY <1>1, <1>2, <1>3 DEF InOrder

\* A worker tells of what is new.
LEMMA GrowthInOrder ==
  ASSUME TypeOK, InOrder, NEW w \in Workers, NEW news, Puts(w, news),
         UNCHANGED <<st, genPc, cb, buffer, yielded>>, status' \in [Request -> Status],
         cb.pc # "idle" => cb.update \in Update,
         \A u \in news : /\ u \in WorkerUpdate
                         /\ YieldRank(status[u.id]) < YieldRank(u.status)
                         /\ Reached(status', u),
         \A x \in Request : YieldRank(status[x]) <= YieldRank(status'[x])
  PROVE  InOrder'
<1>1. /\ DOMAIN buffer = 1 .. Len(buffer)
      /\ \A i \in DOMAIN buffer : buffer[i].id \in Request /\ YieldRank(buffer[i].status) \in 1 .. 5
      /\ \A v \in Workers : \A i \in DOMAIN chan[v] :
           /\ i \in Nat /\ chan[v][i].id \in Request /\ YieldRank(chan[v][i].status) \in 1 .. 5
      /\ \A r \in Request : YieldRank(yielded[r]) \in 0 .. 5 /\ YieldRank(status[r]) \in 1 .. 5
      /\ DOMAIN chan[w] = 1 .. Len(chan[w])
  BY OrderTypes
<1>2. /\ \A u \in news : u.id \in Request /\ YieldRank(u.status) \in 1 .. 5
      /\ \A x \in Request : YieldRank(status'[x]) \in 1 .. 5
      /\ cb.pc # "idle" => cb.update.id \in Request /\ YieldRank(cb.update.status) \in 1 .. 5
  BY Ranks DEF WorkerUpdate, Update, Status
<1>3. PICK n \in Nat, m \in Nat : n = Len(chan[w]) /\ m = Len(chan'[w]) /\ n <= m
  BY PutsFacts
<1>4. /\ \A v \in Workers : v # w => chan'[v] = chan[v]
      /\ chan'[w] \in Seq(WorkerUpdate)
      /\ \A i \in 1 .. n : chan'[w][i] = chan[w][i]
      /\ \A i \in n + 1 .. m : chan'[w][i] \in news
      /\ \A i, j \in n + 1 .. m : i # j => chan'[w][i].id # chan'[w][j].id
  BY <1>3, PutsFacts
<1>5. /\ DOMAIN chan'[w] = 1 .. m /\ DOMAIN chan[w] = 1 .. n
      /\ \A i \in 1 .. m : i \in 1 .. n \/ i \in n + 1 .. m
  <2>1. DOMAIN chan'[w] = 1 .. Len(chan'[w])
    BY <1>4
  <2> QED
    BY <1>1, <1>3, <2>1
<1>6. \A u : u.id \in Request /\ YieldRank(u.status) \in 1 .. 5 /\ Reached(status, u)
        => Reached(status', u)
  BY <1>1, <1>2 DEF Reached
<1>7. \A a, u : /\ a.id \in Request /\ YieldRank(a.status) \in 1 .. 5 /\ Reached(status, a)
                /\ u \in news
        => Before(a, u)
  BY <1>1, <1>2 DEF Before, Reached
<1>8. \A u \in news : Ahead(yielded, u)
  BY <1>1, <1>2 DEF Ahead, InOrder, YieldedInOrder
<1>9. BufferInOrder'
  BY <1>1, <1>6 DEF InOrder, BufferInOrder
<1>10. CallbackInOrder'
  BY <1>2, <1>6 DEF InOrder, CallbackInOrder
<1>11. YieldedInOrder'
  BY <1>1, <1>2 DEF InOrder, YieldedInOrder
<1>12. QueuedComesFirst'
  BY DEF InOrder, QueuedComesFirst, Announced
<1>13. ASSUME NEW v \in Workers, v # w, NEW i \in DOMAIN chan[v]
       PROVE  Reached(status', chan[v][i])
  BY <1>1, <1>6 DEF InOrder, StreamsInOrder
<1>14. Rising(chan'[w])
  <2> SUFFICES ASSUME NEW i \in 1 .. m, NEW j \in 1 .. m, i < j
               PROVE  Before(chan'[w][i], chan'[w][j])
    BY <1>5 DEF Rising
  <2>1. CASE j \in 1 .. n
    <3>1. i \in 1 .. n
      BY <2>1
    <3> QED
      BY <1>4, <1>5, <2>1, <3>1 DEF InOrder, StreamsInOrder, Rising
  <2>2. CASE i \in 1 .. n /\ j \in n + 1 .. m
    <3>1. chan[w][i].id \in Request /\ YieldRank(chan[w][i].status) \in 1 .. 5
          /\ Reached(status, chan[w][i])
      BY <1>1, <1>5, <2>2 DEF InOrder, StreamsInOrder
    <3> QED
      BY <1>4, <1>7, <2>2, <3>1
  <2>3. CASE i \in n + 1 .. m /\ j \in n + 1 .. m
    BY <1>4, <2>3 DEF Before
  <2> QED
    BY <1>5, <2>1, <2>2, <2>3
<1>15. ASSUME NEW i \in 1 .. m
       PROVE  /\ Ahead(yielded, chan'[w][i]) /\ Reached(status', chan'[w][i])
              /\ cb.pc # "idle" => Before(cb.update, chan'[w][i])
              /\ \A j \in DOMAIN buffer : Before(buffer[j], chan'[w][i])
  <2>1. CASE i \in 1 .. n
    BY <1>1, <1>4, <1>5, <1>6, <2>1 DEF InOrder, StreamsInOrder
  <2>2. CASE i \in n + 1 .. m
    <3>1. chan'[w][i] \in news
      BY <1>4, <2>2
    <3>2. cb.pc # "idle" => Before(cb.update, chan'[w][i])
      BY <1>2, <1>7, <3>1 DEF InOrder, CallbackInOrder
    <3>3. \A j \in DOMAIN buffer : Before(buffer[j], chan'[w][i])
      BY <1>1, <1>7, <3>1 DEF InOrder, BufferInOrder
    <3> QED
      BY <1>8, <3>1, <3>2, <3>3
  <2> QED
    BY <1>5, <2>1, <2>2
<1>16. StreamsInOrder'
  <2> SUFFICES ASSUME NEW v \in Workers
      PROVE /\ Rising(chan'[v])
            /\ \A i \in DOMAIN chan'[v] :
                 /\ Ahead(yielded, chan'[v][i]) /\ Reached(status', chan'[v][i])
                 /\ cb.pc # "idle" => Before(cb.update, chan'[v][i])
                 /\ \A j \in DOMAIN buffer : Before(buffer[j], chan'[v][i])
    BY DEF StreamsInOrder
  <2>1. CASE v = w
    BY <1>5, <1>14, <1>15, <2>1
  <2>2. CASE v # w
    BY <1>4, <1>13, <2>2 DEF InOrder, StreamsInOrder
  <2> QED
    BY <2>1, <2>2
<1> QED
  BY <1>9, <1>10, <1>11, <1>12, <1>16 DEF InOrder

LEMMA SlotInOrder ==
  ASSUME IInv, Ownership, GraphsTogether, Lagging, InTurn, Alone, InOrder,
         NEW w \in Workers, NEW r \in Request, SlotKind(w, r)
  PROVE  InOrder'
<1>0. /\ TypeOK /\ status \in [Request -> Status] /\ phase \in [Request -> Phase]
      /\ NoWorker # w
      /\ cb.pc # "idle" => cb.update \in Update
      /\ \A x \in Request : YieldRank(status[x]) \in 1 .. 5
  BY GroupAssumption, OrderTypes DEF IInv, TypeOK
<1>1. ASSUME NEW new \in WorkerStatus, NEW from, NEW to, SlotTells(w, r, new, from, to),
             YieldRank(status[r]) < YieldRank(new)
      PROVE  InOrder'
  <2>1. /\ SlotFrame /\ Puts(w, Sent(r, new)) /\ status' = [status EXCEPT ![r] = new]
    BY <1>1 DEF SlotTells
  <2>2. new \in Status
    BY DEF Status
  <2>3. /\ status' \in [Request -> Status] /\ status'[r] = new
        /\ \A x \in Request \ {r} : status'[x] = status[x]
    BY <1>0, <2>1, <2>2
  <2>4. \A u \in Sent(r, new) : u = [id |-> r, status |-> new]
    BY DEF Sent
  <2>5. \A x \in Request : YieldRank(status[x]) <= YieldRank(status'[x])
    <3>1. YieldRank(new) \in 1 .. 5
      BY <2>2, Ranks
    <3> QED
      BY <1>0, <1>1, <2>3, <3>1
  <2>6. \A u \in Sent(r, new) : /\ u \in WorkerUpdate
                                /\ YieldRank(status[u.id]) < YieldRank(u.status)
                                /\ Reached(status', u)
    <3>1. YieldRank(new) \in 1 .. 5
      BY <2>2, Ranks
    <3> QED
      BY <1>1, <2>3, <2>4, <3>1 DEF WorkerUpdate, Reached
  <2>7. UNCHANGED <<st, genPc, cb, buffer, yielded>>
    BY <2>1 DEF SlotFrame, genVars
  <2> QED
    BY <1>0, <2>1, <2>3, <2>5, <2>6, <2>7, GrowthInOrder
<1>2. ASSUME NEW from, NEW to, NEW new, SlotTells(w, r, new, from, to),
             from \in {"claimed", "running"}
      PROVE  /\ GraphOf[r] \notin aborted /\ status[r] \notin TerminalStatus
             /\ from = "claimed" => status[r] = "pending"
  <2>1. holder[r] = w /\ phase[r] = from
    BY <1>2 DEF SlotTells
  <2>2. GraphOf[r] \notin aborted
    BY <1>0, <1>2, <2>1 DEF InTurn, AbortedIsOver
  <2>3. status[r] \notin TerminalStatus
    BY <1>2, <2>1, <2>2 DEF Lagging, StatusFitsPhase, TerminalStatus
  <2> QED
    BY <2>1, <2>2, <2>3 DEF InTurn, AbortedIsOver
<1>3. CASE SlotTells(w, r, "pending", "held", "claimed")
  <2>1. status[r] = "queued"
    BY <1>3 DEF SlotTells, Lagging, StatusFitsPhase
  <2>2. YieldRank(status[r]) < YieldRank("pending") /\ "pending" \in WorkerStatus
    BY <2>1, Ranks DEF WorkerStatus
  <2> QED
    BY <1>1, <1>3, <2>2
<1>4. CASE status[r] # "pending" /\ SlotTells(w, r, "pending", "claimed", "claimed")
  BY <1>2, <1>4
<1>5. CASE SlotTells(w, r, "in_progress", "claimed", "running")
  <2>1. status[r] = "pending"
    BY <1>2, <1>5
  <2>2. YieldRank(status[r]) < YieldRank("in_progress") /\ "in_progress" \in WorkerStatus
    BY <2>1, Ranks DEF WorkerStatus
  <2> QED
    BY <1>1, <1>5, <2>2
<1>6. CASE status[r] # "first_token" /\ SlotTells(w, r, "first_token", "running", "running")
  <2>1. status[r] \in {"queued", "pending", "in_progress"}
    BY <1>0, <1>2, <1>6 DEF Status, WorkerStatus
  <2>2. YieldRank(status[r]) < YieldRank("first_token") /\ "first_token" \in WorkerStatus
    BY <2>1, Ranks DEF WorkerStatus
  <2> QED
    BY <1>1, <1>6, <2>2
<1>7. CASE SlotTells(w, r, "completed", "running", "completed")
  <2>1. status[r] \in Status \ TerminalStatus
    BY <1>0, <1>2, <1>7
  <2>2. YieldRank(status[r]) \in 1 .. 4 /\ YieldRank("completed") = 5
        /\ "completed" \in WorkerStatus
    BY <2>1, Ranks DEF WorkerStatus, TerminalStatus
  <2> QED
    BY <1>1, <1>7, <2>2
<1>8. ASSUME NEW new \in {"errored", "cancelled"}, SlotGivesUp(w, r, new) PROVE InOrder'
  <2> DEFINE news == Sent(r, new) \cup CancelledAll(Rest(w, r))
  <2>1. /\ \A x \in Rest(w, r) : x \in Request /\ x # r /\ status[x] = "queued"
        /\ status[r] \notin TerminalStatus
    BY <1>8, GivesUpInTurn DEF Rest, Nodes
  <2>2. /\ SlotFrame /\ Puts(w, news)
        /\ status' = [x \in Request |-> IF x = r THEN new
                        ELSE IF x \in Rest(w, r) THEN "cancelled" ELSE status[x]]
    BY <1>8 DEF SlotGivesUp
  <2>3. /\ new \in WorkerStatus /\ new \in Status /\ YieldRank(new) = 5
        /\ "cancelled" \in WorkerStatus /\ "cancelled" \in Status
        /\ YieldRank("cancelled") = 5
        /\ YieldRank(status[r]) \in 1 .. 4 /\ YieldRank("queued") = 1
    BY <1>0, <2>1, Ranks DEF WorkerStatus, Status, TerminalStatus
  <2>4. status' \in [Request -> Status] /\ status'[r] = new
        /\ \A x \in Request \ {r} :
             status'[x] = IF x \in Rest(w, r) THEN "cancelled" ELSE status[x]
    BY <1>0, <2>2, <2>3
  <2>5. \A u \in news : \/ u = [id |-> r, status |-> new]
                        \/ \E x \in Rest(w, r) : u = [id |-> x, status |-> "cancelled"]
    BY DEF Sent, CancelledAll
  <2> HIDE DEF news
  <2>6. \A u \in news : /\ u \in WorkerUpdate
                        /\ YieldRank(status[u.id]) < YieldRank(u.status)
                        /\ Reached(status', u)
    BY <2>1, <2>3, <2>4, <2>5 DEF WorkerUpdate, Reached
  <2>7. \A x \in Request : YieldRank(status[x]) <= YieldRank(status'[x])
    BY <1>0, <2>1, <2>3, <2>4
  <2>8. UNCHANGED <<st, genPc, cb, buffer, yielded>>
    BY <2>2 DEF SlotFrame, genVars
  <2> QED
    BY <1>0, <2>2, <2>4, <2>6, <2>7, <2>8, GrowthInOrder
<1> QED
  BY <1>3, <1>4, <1>5, <1>6, <1>7, <1>8 DEF SlotKind

LEMMA SweepInOrder ==
  ASSUME IInv, Lagging, InOrder, NEW w \in Workers, SweepKind(w)
  PROVE  InOrder'
<1> DEFINE news == CancelledAll(Unfinished(w))
<1>0. /\ TypeOK /\ status \in [Request -> Status]
      /\ cb.pc # "idle" => cb.update \in Update
      /\ \A x \in Request : YieldRank(status[x]) \in 1 .. 5
  BY OrderTypes DEF IInv, TypeOK
<1>1. /\ UNCHANGED <<st, genPc, cb, buffer, yielded>> /\ Puts(w, news)
      /\ status' = [x \in Request |-> IF x \in Unfinished(w) THEN "cancelled" ELSE status[x]]
  BY DEF SweepKind, genVars
<1>2. \A x \in Unfinished(w) : x \in Request /\ status[x] = "queued"
  BY DEF Unfinished, Lagging, StatusFitsPhase
<1>3. /\ "cancelled" \in WorkerStatus /\ "cancelled" \in Status
      /\ YieldRank("cancelled") = 5 /\ YieldRank("queued") = 1
  BY Ranks DEF WorkerStatus, Status, TerminalStatus
<1>4. /\ status' \in [Request -> Status]
      /\ \A x \in Request :
           status'[x] = IF x \in Unfinished(w) THEN "cancelled" ELSE status[x]
  BY <1>0, <1>1, <1>3
<1>5. \A u \in news : \E x \in Unfinished(w) : u = [id |-> x, status |-> "cancelled"]
  BY DEF CancelledAll
<1> HIDE DEF news
<1>6. \A u \in news : /\ u \in WorkerUpdate
                      /\ YieldRank(status[u.id]) < YieldRank(u.status)
                      /\ Reached(status', u)
  BY <1>2, <1>3, <1>4, <1>5 DEF WorkerUpdate, Reached
<1>7. \A x \in Request : YieldRank(status[x]) <= YieldRank(status'[x])
  BY <1>0, <1>2, <1>3, <1>4
<1> QED
  BY <1>0, <1>1, <1>4, <1>6, <1>7, GrowthInOrder

LEMMA DeathInOrder ==
  ASSUME IInv, InOrder, NEW w \in Workers, WorkerDies(w)
  PROVE  InOrder'
<1>0. TypeOK
  BY DEF IInv
<1>1. PICK n \in Nat, m \in Nat : n = Len(chan[w]) /\ m = Len(chan'[w]) /\ m <= n
  BY <1>0, DeathFacts
<1>2. /\ \A v \in Workers : v # w => chan'[v] = chan[v]
      /\ chan'[w] \in Seq(WorkerUpdate) /\ chan[w] \in Seq(WorkerUpdate)
      /\ \A i \in 1 .. m : chan'[w][i] = chan[w][i]
      /\ UNCHANGED <<st, genPc, cb, buffer, yielded, status>>
  BY <1>0, <1>1, DeathFacts DEF genVars
<1>3. DOMAIN chan'[w] = 1 .. m /\ \A i \in 1 .. m : i \in DOMAIN chan[w]
  <2>1. DOMAIN chan'[w] = 1 .. Len(chan'[w]) /\ DOMAIN chan[w] = 1 .. Len(chan[w])
    BY <1>2
  <2> QED
    BY <1>1, <2>1
<1>4. StreamsInOrder'
  <2> SUFFICES ASSUME NEW v \in Workers
      PROVE /\ Rising(chan'[v])
            /\ \A i \in DOMAIN chan'[v] :
                 /\ Ahead(yielded, chan'[v][i]) /\ Reached(status, chan'[v][i])
                 /\ cb.pc # "idle" => Before(cb.update, chan'[v][i])
                 /\ \A j \in DOMAIN buffer : Before(buffer[j], chan'[v][i])
    BY <1>2 DEF StreamsInOrder
  <2>1. CASE v = w
    <3>1. Rising(chan'[w])
      BY <1>2, <1>3 DEF InOrder, StreamsInOrder, Rising
    <3> QED
      BY <1>2, <1>3, <2>1, <3>1 DEF InOrder, StreamsInOrder
  <2>2. CASE v # w
    BY <1>2, <2>2 DEF InOrder, StreamsInOrder
  <2> QED
    BY <2>1, <2>2
<1>5. BufferInOrder' /\ CallbackInOrder' /\ YieldedInOrder'
  BY <1>2 DEF InOrder, BufferInOrder, CallbackInOrder, YieldedInOrder
<1>6. QueuedComesFirst'
  BY <1>2 DEF InOrder, QueuedComesFirst, Announced
<1> QED
  BY <1>4, <1>5, <1>6 DEF InOrder

\* The end of the buffer.
LEMMA AppendFacts ==
  ASSUME TypeOK, NEW u \in Update
  PROVE  LET b == Append(buffer, u)
         IN  /\ DOMAIN b = 1 .. Len(buffer) + 1 /\ b[Len(buffer) + 1] = u
             /\ \A i \in DOMAIN buffer : i \in DOMAIN b /\ b[i] = buffer[i]
             /\ \A i \in DOMAIN b : i \in DOMAIN buffer \/ i = Len(buffer) + 1
             /\ \A i, j \in DOMAIN b : i < j => i \in DOMAIN buffer
             /\ Len(buffer) \in Nat
<1>1. buffer \in Seq(Update)
  BY DEF TypeOK
<1> QED
  BY <1>1

\* The generator puts the "queued" update of the newest request into the buffer.
LEMMA AnnouncedInOrder ==
  ASSUME IInv, Ownership, InOrder, GeneratorBuffers
  PROVE  InOrder'
<1> DEFINE n == st.created
           u == [id |-> n, status |-> "queued"]
<1>0. TypeOK /\ NoWorker \notin Workers
  BY GroupAssumption DEF IInv
<1>1. n \in Nat /\ n \in Request /\ n \in 1 .. n /\ Request \subseteq Nat
  BY StateAssumption DEF IInv, TypeOK, Consistent, Tracking, GeneratorBuffers, Request
<1>2. /\ buffer' = Append(buffer, u) /\ genPc = "buffer" /\ genPc' # "buffer"
      /\ UNCHANGED <<st, chan, cb, yielded, holder, status>>
  BY DEF GeneratorBuffers, workerVars, Newest
<1>3. u \in Update /\ u.id = n /\ u.status = "queued" /\ YieldRank(u.status) = 1
  BY <1>1, Ranks DEF Update, Status
<1> DEFINE k == Len(buffer) + 1
<1>4. /\ k \in Nat /\ DOMAIN buffer' = 1 .. k /\ buffer'[k] = u
      /\ \A i \in DOMAIN buffer : i \in DOMAIN buffer' /\ buffer'[i] = buffer[i]
      /\ \A i \in DOMAIN buffer' : i \in DOMAIN buffer \/ i = k
      /\ \A i, j \in DOMAIN buffer' : i < j => i \in DOMAIN buffer
  BY <1>0, <1>2, <1>3, AppendFacts
<1>5. holder[n] = NoWorker
  <2>1. n \in Building
    BY <1>1, <1>2 DEF Building, QueuedGraph, Newest
  <2> QED
    BY <1>1, <2>1 DEF Ownership, UnsentIsFresh
<1>6. /\ yielded[n] = "none" /\ \A i \in DOMAIN buffer : buffer[i].id # n
      /\ \A w \in Workers : \A i \in DOMAIN chan[w] : chan[w][i].id # n
      /\ cb.pc # "idle" => cb.update.id # n
  <2>1. ~Announced(n)
    BY <1>1, <1>2 DEF Announced
  <2>2. yielded[n] = "none" /\ \A i \in DOMAIN buffer : buffer[i].id # n
    BY <1>1, <2>1 DEF InOrder, QueuedComesFirst
  <2> QED
    BY <1>0, <1>5, <2>2 DEF Ownership, StreamsAreOwn
<1>7. YieldRank(yielded[n]) = 0 /\ YieldRank(status[n]) \in 1 .. 5
  BY <1>0, <1>1, <1>6, Ranks, OrderTypes
<1>8. \A r \in Request : Announced(r)' <=> r = n \/ Announced(r)
  BY <1>1, <1>2 DEF Announced
<1> HIDE DEF n, u, k
<1>9. Ahead(yielded, u) /\ Reached(status, u)
  BY <1>3, <1>7 DEF Ahead, Reached
<1>10. BufferInOrder'
  <2>1. Rising(buffer')
    BY <1>3, <1>4, <1>6 DEF InOrder, BufferInOrder, Rising, Before
  <2>2. \A i \in DOMAIN buffer' : Ahead(yielded, buffer'[i]) /\ Reached(status, buffer'[i])
    BY <1>4, <1>9 DEF InOrder, BufferInOrder
  <2> QED
    BY <1>2, <2>1, <2>2 DEF BufferInOrder
<1>11. CallbackInOrder'
  <2> SUFFICES ASSUME cb.pc # "idle"
               PROVE  /\ Ahead(yielded, cb.update) /\ Reached(status, cb.update)
                      /\ \A i \in DOMAIN buffer' : Before(buffer'[i], cb.update)
    BY <1>2 DEF CallbackInOrder
  <2>1. Before(u, cb.update)
    BY <1>3, <1>6 DEF Before
  <2> QED
    BY <1>4, <2>1 DEF InOrder, CallbackInOrder
<1>12. StreamsInOrder'
  <2>1. \A w \in Workers : \A i \in DOMAIN chan[w] :
          \A j \in DOMAIN buffer' : Before(buffer'[j], chan[w][i])
    <3>1. \A w \in Workers : \A i \in DOMAIN chan[w] : Before(u, chan[w][i])
      BY <1>3, <1>6 DEF Before
    <3> QED
      BY <1>4, <3>1 DEF InOrder, StreamsInOrder
  <2> QED
    BY <1>2, <2>1 DEF InOrder, StreamsInOrder
<1>13. YieldedInOrder'
  BY <1>2 DEF InOrder, YieldedInOrder
<1>14. QueuedComesFirst'
  <2> SUFFICES ASSUME NEW r \in Request
      PROVE  /\ Announced(r)' =>
                   \/ yielded[r] # "none"
                   \/ \E i \in DOMAIN buffer' : buffer'[i] = [id |-> r, status |-> "queued"]
             /\ ~Announced(r)' => yielded[r] = "none" /\ \A i \in DOMAIN buffer' : buffer'[i].id # r
    BY <1>2 DEF QueuedComesFirst
  <2>1. CASE r = n
    <3>1. Announced(r)' /\ k \in DOMAIN buffer' /\ buffer'[k] = [id |-> r, status |-> "queued"]
      <4>1. k \in 1 .. k
        BY <1>4 DEF k
      <4> QED
        BY <1>4, <1>8, <2>1, <4>1 DEF u
    <3> QED
      BY <3>1
  <2>2. CASE r # n
    BY <1>3, <1>4, <1>8, <2>2 DEF InOrder, QueuedComesFirst
  <2> QED
    BY <2>1, <2>2
<1> QED
  BY <1>10, <1>11, <1>12, <1>13, <1>14 DEF InOrder

\* The callback takes up the head of a stream.
LEMMA ReceivedInOrder ==
  ASSUME IInv, Ownership, InOrder, NEW w \in Workers, NEW u \in WorkerUpdate,
         ReceivedFrom(w, u)
  PROVE  InOrder'
<1>0. TypeOK
  BY DEF IInv
<1>1. PICK n \in Nat, m \in Nat : n = Len(chan[w]) /\ m = Len(chan'[w]) /\ n = m + 1
  <2>1. Len(chan[w]) \in Nat \ {0} /\ Len(chan'[w]) = Len(chan[w]) - 1
    BY <1>0, TakenFacts
  <2>2. Len(chan'[w]) \in Nat /\ Len(chan[w]) = Len(chan'[w]) + 1
    BY <2>1
  <2> QED
    BY <2>1, <2>2
<1>2. /\ chan[w] \in Seq(WorkerUpdate) /\ chan'[w] \in Seq(WorkerUpdate)
      /\ \A v \in Workers : v # w => chan'[v] = chan[v]
      /\ \A i \in 1 .. m : chan'[w][i] = chan[w][i + 1]
      /\ chan[w][1] = u
  BY <1>0, <1>1, TakenFacts
<1>3. /\ UNCHANGED <<genPc, buffer, yielded, holder, status>> /\ st'.created = st.created
      /\ cb.pc = "idle" /\ cb'.pc = "check" /\ cb'.update = u
  BY DEF ReceivedFrom, genVars, workerVars, Moves
<1>4. /\ DOMAIN chan[w] = 1 .. n /\ DOMAIN chan'[w] = 1 .. m /\ 1 \in 1 .. n
      /\ \A i \in 1 .. m : i \in Nat /\ i + 1 \in 1 .. n /\ 1 < i + 1
  <2>1. DOMAIN chan[w] = 1 .. Len(chan[w]) /\ DOMAIN chan'[w] = 1 .. Len(chan'[w])
    BY <1>2
  <2> QED
    BY <1>1, <2>1
<1>5. /\ Ahead(yielded, u) /\ Reached(status, u)
      /\ \A j \in DOMAIN buffer : Before(buffer[j], u)
  BY <1>2, <1>4 DEF InOrder, StreamsInOrder
<1>6. holder[u.id] = w /\ \A v \in Workers : \A i \in DOMAIN chan[v] : holder[chan[v][i].id] = v
  BY <1>2, <1>4 DEF Ownership, StreamsAreOwn
<1>7. BufferInOrder' /\ CallbackInOrder' /\ YieldedInOrder'
  BY <1>3, <1>5 DEF InOrder, BufferInOrder, CallbackInOrder, YieldedInOrder
<1>8. StreamsInOrder'
  <2> SUFFICES ASSUME NEW v \in Workers
      PROVE /\ Rising(chan'[v])
            /\ \A i \in DOMAIN chan'[v] :
                 /\ Ahead(yielded, chan'[v][i]) /\ Reached(status, chan'[v][i])
                 /\ Before(u, chan'[v][i])
                 /\ \A j \in DOMAIN buffer : Before(buffer[j], chan'[v][i])
    BY <1>3 DEF StreamsInOrder
  <2>1. CASE v = w
    <3>1. Rising(chan'[w])
      <4> SUFFICES ASSUME NEW i \in 1 .. m, NEW j \in 1 .. m, i < j
                   PROVE  Before(chan[w][i + 1], chan[w][j + 1])
        BY <1>2, <1>4 DEF Rising
      <4>1. i + 1 \in DOMAIN chan[w] /\ j + 1 \in DOMAIN chan[w] /\ i + 1 < j + 1
        BY <1>4
      <4> QED
        BY <4>1 DEF InOrder, StreamsInOrder, Rising
    <3>2. ASSUME NEW i \in 1 .. m
          PROVE  /\ Ahead(yielded, chan'[w][i]) /\ Reached(status, chan'[w][i])
                 /\ Before(u, chan'[w][i])
                 /\ \A j \in DOMAIN buffer : Before(buffer[j], chan'[w][i])
      <4>1. i + 1 \in DOMAIN chan[w] /\ 1 \in DOMAIN chan[w] /\ 1 < i + 1
        BY <1>4
      <4>2. Before(chan[w][1], chan[w][i + 1])
        BY <4>1 DEF InOrder, StreamsInOrder, Rising
      <4> QED
        BY <1>2, <4>1, <4>2 DEF InOrder, StreamsInOrder
    <3> QED
      BY <1>4, <2>1, <3>1, <3>2
  <2>2. CASE v # w
    <3>1. \A i \in DOMAIN chan[v] : chan[v][i].id # u.id
      BY <1>6, <2>2
    <3> QED
      BY <1>2, <2>2, <3>1 DEF InOrder, StreamsInOrder, Before
  <2> QED
    BY <2>1, <2>2
<1>9. QueuedComesFirst'
  BY <1>3 DEF InOrder, QueuedComesFirst, Announced
<1> QED
  BY <1>7, <1>8, <1>9 DEF InOrder

\* The callback's update goes into the buffer.
LEMMA BufferedInOrder ==
  ASSUME IInv, Ownership, InOrder, ReceiverBuffers
  PROVE  InOrder'
<1> DEFINE u == cb.update
           k == Len(buffer) + 1
<1>0. TypeOK /\ u \in Update /\ NoWorker \notin Workers
  BY GroupAssumption DEF IInv, ReceiverBuffers
<1>1. /\ buffer' = Append(buffer, u) /\ cb.pc # "idle" /\ cb'.pc = "idle"
      /\ UNCHANGED <<st, genPc, chan, yielded, holder, status>>
  BY DEF ReceiverBuffers, Delivered, Idle, genVars, workerVars
<1>2. /\ k \in Nat /\ DOMAIN buffer' = 1 .. k /\ buffer'[k] = u
      /\ \A i \in DOMAIN buffer : i \in DOMAIN buffer' /\ buffer'[i] = buffer[i]
      /\ \A i \in DOMAIN buffer' : i \in DOMAIN buffer \/ i = k
      /\ \A i, j \in DOMAIN buffer' : i < j => i \in DOMAIN buffer
  BY <1>0, <1>1, AppendFacts
<1>3. /\ Ahead(yielded, u) /\ Reached(status, u)
      /\ \A i \in DOMAIN buffer : Before(buffer[i], u)
      /\ \A w \in Workers : \A i \in DOMAIN chan[w] : Before(u, chan[w][i])
  BY <1>1 DEF InOrder, CallbackInOrder, StreamsInOrder
<1>4. \A r \in Request : ~Announced(r) => u.id # r
  <2> SUFFICES ASSUME NEW r \in Request, ~Announced(r), u.id = r PROVE FALSE
    OBVIOUS
  <2>1. st.created \in Nat /\ r \in 1 .. st.created \cup {x \in Nat : x > st.created}
    BY <1>0, StateAssumption DEF TypeOK, Tracking, Request
  <2>2. r > st.created \/ (r = st.created /\ genPc = "buffer" /\ r \in 1 .. st.created)
    BY <2>1 DEF Announced
  <2>3. r > st.created \/ r \in Building
    BY <2>2 DEF Building, QueuedGraph, Newest
  <2>4. holder[r] = NoWorker
    BY <2>3 DEF Ownership, UnsentIsFresh
  <2> QED
    BY <1>1, <2>4 DEF Ownership, StreamsAreOwn
<1>5. \A r \in Request : Announced(r)' <=> Announced(r)
  BY <1>1 DEF Announced
<1> HIDE DEF u, k
<1>6. BufferInOrder'
  <2>1. Rising(buffer')
    BY <1>2, <1>3 DEF InOrder, BufferInOrder, Rising
  <2>2. \A i \in DOMAIN buffer' : Ahead(yielded, buffer'[i]) /\ Reached(status, buffer'[i])
    BY <1>2, <1>3 DEF InOrder, BufferInOrder
  <2> QED
    BY <1>1, <2>1, <2>2 DEF BufferInOrder
<1>7. StreamsInOrder'
  <2>1. \A w \in Workers : \A i \in DOMAIN chan[w] :
          \A j \in DOMAIN buffer' : Before(buffer'[j], chan[w][i])
    BY <1>2, <1>3 DEF InOrder, StreamsInOrder
  <2> QED
    BY <1>1, <2>1 DEF InOrder, StreamsInOrder
<1>8. CallbackInOrder' /\ YieldedInOrder'
  BY <1>1 DEF InOrder, CallbackInOrder, YieldedInOrder
<1>9. QueuedComesFirst'
  <2> SUFFICES ASSUME NEW r \in Request
      PROVE  /\ Announced(r) =>
                   \/ yielded[r] # "none"
                   \/ \E i \in DOMAIN buffer' : buffer'[i] = [id |-> r, status |-> "queued"]
             /\ ~Announced(r) => yielded[r] = "none" /\ \A i \in DOMAIN buffer' : buffer'[i].id # r
    BY <1>1, <1>5 DEF QueuedComesFirst
  <2> QED
    BY <1>2, <1>4 DEF InOrder, QueuedComesFirst
<1> QED
  BY <1>6, <1>7, <1>8, <1>9 DEF InOrder

\* The first update of the buffer is yielded.
LEMMA YieldsInOrder ==
  ASSUME IInv, InOrder, ConsumerYields
  PROVE  /\ InOrder'
         /\ \A r \in Request : yielded'[r] # yielded[r] =>
              /\ YieldRank(yielded'[r]) > YieldRank(yielded[r])
              /\ yielded[r] = "none" => yielded'[r] = "queued"
<1> DEFINE u == buffer[1]
           x == u.id
<1>0. TypeOK
  BY DEF IInv
<1>1. /\ buffer \in Seq(Update) /\ buffer # <<>> /\ u = Head(buffer) /\ u \in Update
      /\ buffer' = Tail(buffer) /\ yielded' = [yielded EXCEPT ![x] = u.status]
      /\ UNCHANGED <<st, genPc, chan, cb, status>>
  <2>1. /\ buffer \in Seq(Update) /\ buffer # <<>> /\ buffer' = Tail(buffer)
        /\ yielded' = [yielded EXCEPT ![Head(buffer).id] = Head(buffer).status]
        /\ UNCHANGED <<st, genPc, chan, cb, status>>
    BY <1>0 DEF ConsumerYields, TypeOK, genVars, workerVars
  <2>2. u = Head(buffer) /\ u \in Update
    BY <2>1
  <2> QED
    BY <2>1, <2>2
<1>2. PICK n \in Nat, m \in Nat : n = Len(buffer) /\ m = Len(buffer') /\ n = m + 1
  <2>1. /\ Len(buffer) \in Nat /\ Len(buffer) # 0 /\ Len(buffer') = Len(buffer) - 1
        /\ Len(buffer') \in Nat /\ Len(buffer) = Len(buffer') + 1
    BY <1>1
  <2> QED
    BY <2>1
<1>3. /\ DOMAIN buffer = 1 .. n /\ DOMAIN buffer' = 1 .. m
      /\ \A i \in 1 .. m : i + 1 \in 1 .. n /\ 1 < i + 1 /\ buffer'[i] = buffer[i + 1]
      /\ 1 \in 1 .. n /\ \A i \in 1 .. n : i = 1 \/ (1 < i /\ i - 1 \in 1 .. m /\ (i - 1) + 1 = i)
  BY <1>1, <1>2
<1>4. /\ x \in Request /\ yielded'[x] = u.status /\ u.status \in Status
      /\ \A r \in Request \ {x} : yielded'[r] = yielded[r]
  BY <1>0, <1>1 DEF TypeOK, Update
<1>5. Ahead(yielded, u) /\ Reached(status, u)
  BY <1>3 DEF InOrder, BufferInOrder
<1> HIDE DEF x
<1>6. \A v : Before(u, v) /\ v.id \in Request /\ Ahead(yielded, v) => Ahead(yielded', v)
  BY <1>4 DEF Before, Ahead, x
<1>7. \A i \in 1 .. m : /\ Ahead(yielded, buffer[i + 1]) /\ Reached(status, buffer[i + 1])
                        /\ Before(u, buffer[i + 1]) /\ buffer[i + 1].id \in Request
  BY <1>0, <1>3, OrderTypes DEF InOrder, BufferInOrder, Rising
<1>8. BufferInOrder'
  <2>1. Rising(buffer')
    BY <1>1, <1>3 DEF InOrder, BufferInOrder, Rising
  <2>2. \A i \in 1 .. m : Ahead(yielded', buffer'[i]) /\ Reached(status, buffer'[i])
    BY <1>3, <1>6, <1>7
  <2> QED
    BY <1>1, <1>3, <2>1, <2>2 DEF BufferInOrder
<1>9. CallbackInOrder'
  <2> SUFFICES ASSUME cb.pc # "idle"
               PROVE  /\ Ahead(yielded', cb.update) /\ Reached(status, cb.update)
                      /\ \A i \in 1 .. m : Before(buffer'[i], cb.update)
    BY <1>1, <1>3 DEF CallbackInOrder
  <2>1. cb.update.id \in Request
    BY DEF IInv, Update
  <2>2. /\ Ahead(yielded, cb.update) /\ Reached(status, cb.update)
        /\ \A i \in 1 .. n : Before(buffer[i], cb.update)
    BY <1>3 DEF InOrder, CallbackInOrder
  <2> QED
    BY <1>3, <1>6, <2>1, <2>2
<1>10. StreamsInOrder'
  <2> SUFFICES ASSUME NEW w \in Workers
      PROVE /\ Rising(chan[w])
            /\ \A i \in DOMAIN chan[w] :
                 /\ Ahead(yielded', chan[w][i]) /\ Reached(status, chan[w][i])
                 /\ cb.pc # "idle" => Before(cb.update, chan[w][i])
                 /\ \A j \in 1 .. m : Before(buffer'[j], chan[w][i])
    BY <1>1, <1>3 DEF StreamsInOrder
  <2>1. \A i \in DOMAIN chan[w] : chan[w][i].id \in Request
    BY <1>0, OrderTypes
  <2>2. /\ Rising(chan[w])
        /\ \A i \in DOMAIN chan[w] :
             /\ Ahead(yielded, chan[w][i]) /\ Reached(status, chan[w][i])
             /\ cb.pc # "idle" => Before(cb.update, chan[w][i])
             /\ \A j \in 1 .. n : Before(buffer[j], chan[w][i])
    BY <1>3 DEF InOrder, StreamsInOrder
  <2> QED
    BY <1>3, <1>6, <2>1, <2>2
<1>11. YieldedInOrder'
  BY <1>1, <1>4, <1>5 DEF InOrder, YieldedInOrder, Reached, x
<1>12. yielded[x] = "none" => u.status = "queued"
  <2> SUFFICES ASSUME yielded[x] = "none", u.status # "queued" PROVE FALSE
    OBVIOUS
  <2>1. Announced(x)
    BY <1>3, <1>4 DEF InOrder, QueuedComesFirst, x
  <2>2. PICK i \in 1 .. n : buffer[i] = [id |-> x, status |-> "queued"]
    BY <1>3, <1>4, <2>1 DEF InOrder, QueuedComesFirst
  <2>3. i # 1 /\ 1 < i
    BY <1>3, <2>2
  <2>4. Before(u, buffer[i])
    BY <1>3, <2>3 DEF InOrder, BufferInOrder, Rising
  <2>5. YieldRank(u.status) < 1 /\ YieldRank(u.status) \in 1 .. 5
    BY <1>4, <2>2, <2>4, Ranks DEF Before, x
  <2> QED
    BY <2>5
<1>13. u.status # "none"
  BY <1>4 DEF Status, WorkerStatus, TerminalStatus
<1>14. QueuedComesFirst'
  <2> SUFFICES ASSUME NEW r \in Request
      PROVE  /\ Announced(r) =>
                   \/ yielded'[r] # "none"
                   \/ \E i \in 1 .. m : buffer'[i] = [id |-> r, status |-> "queued"]
             /\ ~Announced(r) => yielded'[r] = "none" /\ \A i \in 1 .. m : buffer'[i].id # r
    BY <1>1, <1>3 DEF QueuedComesFirst, Announced
  <2>1. CASE r = x
    <3>1. Announced(x)
      BY <1>3, <1>4 DEF InOrder, QueuedComesFirst, x
    <3> QED
      BY <1>4, <1>13, <2>1, <3>1
  <2>2. CASE r # x
    <3>1. yielded'[r] = yielded[r]
      BY <1>4, <2>2
    <3>2. ASSUME NEW i \in 1 .. n, buffer[i] = [id |-> r, status |-> "queued"]
          PROVE  \E j \in 1 .. m : buffer'[j] = [id |-> r, status |-> "queued"]
      <4>1. i # 1
        BY <2>2, <3>2 DEF x
      <4>2. i - 1 \in 1 .. m /\ (i - 1) + 1 = i
        BY <1>3, <4>1
      <4>3. buffer'[i - 1] = buffer[i]
        BY <1>3, <4>2
      <4> QED
        BY <3>2, <4>2, <4>3
    <3>3. \A i \in 1 .. m : i + 1 \in DOMAIN buffer /\ buffer'[i] = buffer[i + 1]
      BY <1>3
    <3>4. /\ Announced(r) => \/ yielded[r] # "none"
                              \/ \E i \in 1 .. n : buffer[i] = [id |-> r, status |-> "queued"]
          /\ ~Announced(r) => yielded[r] = "none" /\ \A i \in DOMAIN buffer : buffer[i].id # r
      BY <1>3 DEF InOrder, QueuedComesFirst
    <3> QED
      BY <3>1, <3>2, <3>3, <3>4
  <2> QED
    BY <2>1, <2>2
<1>15. \A r \in Request : yielded'[r] # yielded[r] =>
         /\ YieldRank(yielded'[r]) > YieldRank(yielded[r])
         /\ yielded[r] = "none" => yielded'[r] = "queued"
  <2>1. YieldRank(yielded[x]) < YieldRank(u.status)
    BY <1>5 DEF Ahead, x
  <2>2. YieldRank(u.status) \in Int /\ YieldRank(yielded[x]) \in Int
    BY <1>0, <1>4, OrderTypes, Ranks
  <2> QED
    BY <1>4, <1>12, <2>1, <2>2
<1> QED
  BY <1>8, <1>9, <1>10, <1>11, <1>14, <1>15 DEF InOrder

LEMMA StepInOrder ==
  ASSUME OneAtATime
  PROVE  /\ IInv /\ Ownership /\ GraphsTogether /\ Lagging /\ InTurn /\ InOrder /\ [Next]_vars
         => InOrder'
<1> SUFFICES ASSUME IInv, Ownership, GraphsTogether, Lagging, InTurn, InOrder, [Next]_vars
             PROVE  InOrder'
  OBVIOUS
<1>0. TypeOK /\ Alone
  BY AloneHolds DEF IInv
<1>1. CASE \/ GeneratorPulls \/ GeneratorQueues \/ GeneratorSends \/ GeneratorResumes
           \/ GeneratorExhausts \/ GeneratorStops
  <2>1. /\ UNCHANGED <<chan, cb, buffer, yielded, status>>
        /\ \/ st'.created = st.created /\ genPc # "buffer" /\ genPc' # "buffer"
           \/ st'.created = st.created + 1 /\ genPc # "buffer" /\ genPc' = "buffer"
    <3>1. st \in Tracking
      BY <1>0 DEF TypeOK
    <3>2. CASE GeneratorQueues
      BY <3>1, <3>2 DEF GeneratorQueues, Updated, Counted, Constrained, Tracking, workerVars
    <3>3. CASE GeneratorExhausts
      BY <3>1, <3>3 DEF GeneratorExhausts, Exhausted, Constrained, Tracking, workerVars
    <3> QED
      BY <1>1, <3>2, <3>3
         DEF GeneratorPulls, GeneratorSends, GeneratorResumes, GeneratorStops, workerVars
  <2>2. \A r \in Request : Announced(r)' <=> Announced(r)
    BY <1>0, <2>1 DEF Announced, TypeOK, Tracking, Request
  <2> QED
    BY <2>1, <2>2, FrameInOrder
<1>2. CASE GeneratorBuffers
  BY <1>2, AnnouncedInOrder
<1>3. ASSUME NEW w \in Workers, ReceiverCounts(w) PROVE InOrder'
  BY <1>3, ReceivedKind, ReceivedInOrder
<1>4. CASE ReceiverChecks
  <2>1. /\ UNCHANGED <<st, genPc, chan, buffer, yielded, status>>
        /\ cb.pc # "idle" /\ cb'.update = cb.update
    BY <1>0, <1>4 DEF ReceiverChecks, workerVars, genVars, TypeOK, Callback
  <2> QED
    BY <2>1, FrameInOrder DEF Announced
<1>5. CASE ReceiverBuffers
  BY <1>5, BufferedInOrder
<1>6. CASE ConsumerYields
  BY <1>6, YieldsInOrder
<1>7. CASE ConsumerPolls \/ QuietStep
  <2>1. UNCHANGED <<genPc, chan, cb, buffer, yielded, status>> /\ st'.created = st.created
    <3>1. CASE ConsumerPolls
      <4>1. st \in Tracking
        BY <1>0 DEF TypeOK
      <4> QED
        BY <3>1, <4>1 DEF ConsumerPolls, Constrained, Tracking, workerVars, genVars
    <3>2. CASE QuietStep
      BY <3>2 DEF QuietStep, genVars
    <3> QED
      BY <1>7, <3>1, <3>2
  <2> QED
    BY <2>1, FrameInOrder DEF Announced
<1>8. ASSUME NEW w \in Workers, WorkerFetches(w) PROVE InOrder'
  BY <1>8, FrameInOrder DEF WorkerFetches, Announced, genVars
<1>9. ASSUME NEW w \in Workers, NEW r \in Request, SlotKind(w, r) PROVE InOrder'
  BY <1>0, <1>9, SlotInOrder
<1> QED
  BY <1>0, <1>1, <1>2, <1>3, <1>4, <1>5, <1>6, <1>7, <1>8, <1>9, StepKinds, SweepInOrder,
     DeathInOrder
     DEF Generator

LEMMA InitInOrder == Init => InOrder
<1> SUFFICES ASSUME Init PROVE InOrder
  OBVIOUS
<1>1. /\ st.created = 0 /\ genPc = "pull" /\ cb.pc = "idle" /\ buffer = <<>>
      /\ chan = [w \in Workers |-> <<>>] /\ yielded = [r \in Request |-> "none"]
      /\ status = [r \in Request |-> "queued"]
  BY DEF Init, InitialTracking, Idle
<1>2. /\ DOMAIN buffer = {} /\ \A w \in Workers : DOMAIN chan[w] = {}
  BY <1>1
<1>3. BufferInOrder /\ CallbackInOrder /\ StreamsInOrder
  BY <1>1, <1>2 DEF BufferInOrder, CallbackInOrder, StreamsInOrder, Rising
<1>4. YieldedInOrder
  BY <1>1, Ranks DEF YieldedInOrder
<1>5. \A r \in Request : ~Announced(r) /\ yielded[r] = "none"
  BY <1>1 DEF Announced, Request
<1> QED
  BY <1>2, <1>3, <1>4, <1>5 DEF InOrder, QueuedComesFirst

\* Where a worker works on one request of a graph at a time, the consumer sees the updates
\* of every request in order: "queued" first and nothing after the terminal update.
THEOREM UpdatesStayInOrder ==
  ASSUME OneAtATime
  PROVE  Spec => UpdatesInOrder
<1> DEFINE Inv == IInv /\ Ownership /\ GraphsTogether /\ Lagging /\ InTurn /\ InOrder
<1>1. Init => Ownership /\ GraphsTogether /\ Lagging /\ InTurn /\ InOrder
  BY InitOwnership, InitTogether, InitLagging, InitInTurn, InitInOrder
<1>2. Inv /\ [Next]_vars => (Ownership /\ GraphsTogether /\ Lagging /\ InTurn /\ InOrder)'
  BY StepOwnership, StepTogether, StepLagging, StepInTurn, StepInOrder
<1>3. IInv /\ InOrder /\ [Next]_vars =>
        [\A r \in Request : yielded'[r] # yielded[r] =>
           /\ YieldRank(yielded'[r]) > YieldRank(yielded[r])
           /\ yielded[r] = "none" => yielded'[r] = "queued"]_yielded
  <2> SUFFICES ASSUME IInv, InOrder, [Next]_vars, yielded' # yielded
               PROVE  \A r \in Request : yielded'[r] # yielded[r] =>
                        /\ YieldRank(yielded'[r]) > YieldRank(yielded[r])
                        /\ yielded[r] = "none" => yielded'[r] = "queued"
    OBVIOUS
  <2>1. ConsumerYields
    <3>1. TypeOK /\ ~QuietStep
      BY DEF IInv, QuietStep
    <3>2. ~Generator /\ ~ReceiverChecks /\ ~ReceiverBuffers /\ ~ConsumerPolls
      BY DEF Generator, GeneratorPulls, GeneratorQueues, GeneratorBuffers, GeneratorSends,
             GeneratorResumes, GeneratorExhausts, GeneratorStops, ReceiverChecks,
             ReceiverBuffers, ConsumerPolls
    <3>3. \A w \in Workers :
            ~ReceiverCounts(w) /\ ~WorkerFetches(w) /\ ~SweepKind(w) /\ ~WorkerDies(w)
      BY DEF ReceiverCounts, WorkerFetches, SweepKind, WorkerDies
    <3>4. \A w \in Workers, r \in Request : ~SlotKind(w, r)
      BY DEF SlotKind, SlotTells, SlotGivesUp, SlotFrame
    <3> QED
      BY <3>1, <3>2, <3>3, <3>4, StepKinds
  <2> QED
    BY <2>1, YieldsInOrder
<1> QED
  BY <1>1, <1>2, <1>3, Invariant, PTL DEF Spec, UpdatesInOrder

-----------------------------------------------------------------------------
(***************************************************************************)
(* What was counted as processed has been reported.                        *)
(***************************************************************************)

\* The terminal update of r was yielded, or has left its worker's stream.
Reported(r) ==
  \/ yielded[r] \in TerminalStatus
  \/ \E i \in DOMAIN buffer : buffer[i].id = r /\ buffer[i].status \in TerminalStatus
  \/ cb.pc # "idle" /\ cb.update.id = r /\ cb.update.status \in TerminalStatus

ProcessedIsReported ==
  /\ \A r \in Request : r <= st.created /\ r \notin Live(st) => Reported(r)
  /\ consumer = "done" => shutdownEvent

\* A yielded update is never followed by one that undoes the end of its request.
LEMMA YieldedStaysReported ==
  ASSUME IInv, InOrder, ConsumerYields, NEW r \in Request, Reported(r)
  PROVE  Reported(r)'
<1>1. /\ buffer \in Seq(Update) /\ buffer # <<>> /\ buffer' = Tail(buffer) /\ cb' = cb
      /\ yielded' = [yielded EXCEPT ![Head(buffer).id] = Head(buffer).status]
      /\ yielded \in [Request -> Status \cup {"none"}]
  BY DEF ConsumerYields, IInv, TypeOK
<1>2. CASE yielded[r] \in TerminalStatus
  <2>1. yielded'[r] = yielded[r]
    <3>1. yielded'[r] \in Status \cup {"none"}
      <4>1. Head(buffer) \in Update
        BY <1>1 DEF ConsumerYields
      <4> QED
        BY <1>1, <4>1 DEF Update
    <3>2. YieldRank(yielded[r]) = 5 /\ YieldRank(yielded'[r]) \in 0 .. 5
      BY <1>2, <3>1, Ranks
    <3>3. yielded'[r] # yielded[r] => YieldRank(yielded'[r]) > YieldRank(yielded[r])
      BY YieldsInOrder
    <3> QED
      BY <3>2, <3>3
  <2> QED
    BY <1>2, <2>1 DEF Reported
<1>3. CASE \E i \in DOMAIN buffer : buffer[i].id = r /\ buffer[i].status \in TerminalStatus
  <2>1. PICK i \in DOMAIN buffer : buffer[i].id = r /\ buffer[i].status \in TerminalStatus
    BY <1>3
  <2>2. CASE i = 1
    <3>1. Head(buffer) = buffer[i]
      BY <1>1, <2>2
    <3>2. yielded'[r] = buffer[i].status
      BY <1>1, <2>1, <3>1
    <3> QED
      BY <2>1, <3>2 DEF Reported
  <2>3. CASE i # 1
    <3>1. i - 1 \in DOMAIN buffer' /\ buffer'[i - 1] = buffer[i]
      BY <1>1, <2>3
    <3> QED
      BY <2>1, <3>1 DEF Reported
  <2> QED
    BY <2>2, <2>3
<1>4. CASE cb.pc # "idle" /\ cb.update.id = r /\ cb.update.status \in TerminalStatus
  BY <1>1, <1>4 DEF Reported
<1> QED
  BY <1>2, <1>3, <1>4 DEF Reported

LEMMA EndIsEarned ==
  (consumer = "done" => shutdownEvent) /\ [Next]_vars => (consumer' = "done" => shutdownEvent')
<1> SUFFICES ASSUME consumer = "done" => shutdownEvent, [Next]_vars
             PROVE  consumer' = "done" => shutdownEvent'
  OBVIOUS
<1> DEFINE Kept == consumer' = consumer /\ (shutdownEvent => shutdownEvent')
<1>1. CASE Generator \/ Receiver \/ MonitorFindsDead \/ TimePasses \/ UNCHANGED vars
  <2>1. Kept
    BY <1>1 DEF Generator, GeneratorPulls, GeneratorQueues, GeneratorBuffers, GeneratorSends,
                GeneratorResumes, GeneratorExhausts, GeneratorStops, Receiver, ReceiverCounts,
                ReceiverChecks, ReceiverBuffers, MonitorFindsDead, TimePasses, vars, events
  <2> QED
    BY <2>1
<1>2. CASE ConsumerSteps
  <2>1. CASE ConsumerFinishes
    BY <2>1 DEF ConsumerFinishes, events
  <2>2. CASE ConsumerPolls
    <3>1. consumer' \in {"setConstraint", "setStop", "get", "raised"}
      BY <2>2 DEF ConsumerPolls, NextWait
    <3> QED
      BY <3>1
  <2> QED
    BY <1>2, <2>1, <2>2
       DEF ConsumerSteps, ConsumerYields, ConsumerTimesOut, ConsumerSetsConstraint,
           ConsumerSetsStop, NextWait
<1>3. ASSUME NEW w \in Workers, WorkerStep(w) PROVE Kept
  BY <1>3 DEF WorkerStep, WorkerFetches, WorkerFindsEmpty, WorkerStopsFetching,
              WorkerSeesConstraint, WorkerSweeps, WorkerExits, WorkerDies, events
<1>4. ASSUME NEW w \in Workers, NEW r \in Request, SlotStep(w, r) PROVE Kept
  BY <1>4 DEF SlotStep, SlotProgress, SlotClaims, SlotStarts, SlotCompletes, SlotCancelled,
              SlotRetargets, SlotStreams, SlotFails, events
<1> QED
  BY <1>1, <1>2, <1>3, <1>4 DEF Next, Ended, WorkerStep, SlotStep

LEMMA StepReported ==
  IInv /\ InOrder /\ ProcessedIsReported /\ [Next]_vars => ProcessedIsReported'
<1> SUFFICES ASSUME IInv, InOrder, ProcessedIsReported, [Next]_vars
             PROVE  ProcessedIsReported'
  OBVIOUS
<1>0. /\ TypeOK /\ st \in Tracking /\ st.created \in Nat /\ Request \subseteq Nat
      /\ Live(st) \subseteq Request
  <2>1. TypeOK /\ st \in Tracking
    BY DEF IInv, TypeOK
  <2> QED
    BY <2>1 DEF Tracking, Request, Live
<1>1. consumer' = "done" => shutdownEvent'
  BY EndIsEarned DEF ProcessedIsReported
<1>2. ASSUME UNCHANGED <<cb, buffer, yielded>>,
             \A r \in Request : r <= st'.created /\ r \notin Live(st') =>
               r <= st.created /\ r \notin Live(st)
      PROVE  \A r \in Request : r <= st'.created /\ r \notin Live(st') => Reported(r)'
  BY <1>2 DEF ProcessedIsReported, Reported
<1>3. CASE GeneratorQueues
  <2>1. /\ st'.created = st.created + 1 /\ Live(st') = Live(st) \cup {st.created + 1}
        /\ UNCHANGED <<cb, buffer, yielded>>
    BY <1>0, <1>3 DEF GeneratorQueues, Newest, Updated, Counted, Constrained, Tracking, Live
  <2> QED
    BY <1>0, <1>1, <1>2, <2>1 DEF ProcessedIsReported
<1>4. CASE GeneratorBuffers
  <2>1. /\ buffer' = Append(buffer, [id |-> Newest, status |-> "queued"])
        /\ UNCHANGED <<st, cb, yielded>> /\ buffer \in Seq(Update)
    BY <1>0, <1>4 DEF GeneratorBuffers, TypeOK
  <2>2. \A i \in DOMAIN buffer : i \in DOMAIN buffer' /\ buffer'[i] = buffer[i]
    BY <2>1
  <2> QED
    BY <1>1, <2>1, <2>2 DEF ProcessedIsReported, Reported
<1>5. CASE \/ GeneratorPulls \/ GeneratorSends \/ GeneratorResumes \/ GeneratorExhausts
           \/ GeneratorStops \/ ConsumerPolls \/ QuietStep
  <2>1. UNCHANGED <<cb, buffer, yielded>> /\ st'.created = st.created /\ Live(st') = Live(st)
    <3>1. CASE ConsumerPolls \/ GeneratorExhausts
      BY <1>0, <3>1
         DEF ConsumerPolls, GeneratorExhausts, Exhausted, Constrained, Live, Tracking
    <3> QED
      BY <1>5, <3>1 DEF GeneratorPulls, GeneratorSends, GeneratorResumes, GeneratorStops,
                        QuietStep
  <2> QED
    BY <1>1, <1>2, <2>1 DEF ProcessedIsReported
<1>6. ASSUME NEW w \in Workers, ReceiverCounts(w) PROVE ProcessedIsReported'
  <2>1. PICK u \in WorkerUpdate : ReceivedFrom(w, u)
    BY <1>6, ReceivedKind
  <2>2. /\ cb.pc = "idle" /\ cb'.pc = "check" /\ cb'.update = u /\ UNCHANGED <<buffer, yielded>>
        /\ st'.created = st.created
        /\ \A y \in Request \ {u.id} : y \in Live(st') <=> y \in Live(st)
        /\ u.id \in Live(st) /\ u.id \notin Live(st') => u.status \in TerminalStatus
    BY <2>1 DEF ReceivedFrom, Moves, Live
  <2> QED
    BY <1>1, <2>2 DEF ProcessedIsReported, Reported
<1>7. CASE ReceiverChecks
  <2>1. /\ cb.pc = "check" /\ cb'.pc = "put" /\ cb'.update = cb.update
        /\ UNCHANGED <<st, buffer, yielded>>
    BY <1>0, <1>7 DEF ReceiverChecks, TypeOK, Callback
  <2> QED
    BY <1>1, <2>1 DEF ProcessedIsReported, Reported
<1>8. CASE ReceiverBuffers
  <2>1. /\ buffer' = Append(buffer, cb.update) /\ UNCHANGED <<st, yielded>>
        /\ buffer \in Seq(Update) /\ cb.update \in Update
    BY <1>0, <1>8 DEF ReceiverBuffers, Delivered, TypeOK, IInv
  <2>2. /\ \A i \in DOMAIN buffer : i \in DOMAIN buffer' /\ buffer'[i] = buffer[i]
        /\ \E i \in DOMAIN buffer' : buffer'[i] = cb.update
    <3>1. Len(buffer) + 1 \in DOMAIN buffer' /\ buffer'[Len(buffer) + 1] = cb.update
      BY <2>1
    <3> QED
      BY <2>1, <3>1
  <2> QED
    BY <1>1, <2>1, <2>2 DEF ProcessedIsReported, Reported
<1>9. CASE ConsumerYields
  <2>1. st' = st
    BY <1>9 DEF ConsumerYields
  <2> QED
    BY <1>1, <1>9, <2>1, YieldedStaysReported DEF ProcessedIsReported
<1>10. ASSUME NEW w \in Workers, WorkerFetches(w) \/ SweepKind(w) \/ WorkerDies(w)
       PROVE  ProcessedIsReported'
  <2>1. UNCHANGED <<st, cb, buffer, yielded>>
    BY <1>10 DEF WorkerFetches, SweepKind, WorkerDies
  <2> QED
    BY <1>1, <1>2, <2>1 DEF ProcessedIsReported
<1>11. ASSUME NEW w \in Workers, NEW r \in Request, SlotKind(w, r) PROVE ProcessedIsReported'
  <2>1. UNCHANGED <<st, cb, buffer, yielded>>
    BY <1>11 DEF SlotKind, SlotTells, SlotGivesUp, SlotFrame
  <2> QED
    BY <1>1, <1>2, <2>1 DEF ProcessedIsReported
<1> QED
  BY <1>0, <1>3, <1>4, <1>5, <1>6, <1>7, <1>8, <1>9, <1>10, <1>11, StepKinds DEF Generator

\* Where a worker works on one request of a graph at a time and only max_requests limits the
\* run, every request has been reported when the iteration over the updates ends.
THEOREM EveryRequestIsReported ==
  ASSUME OneAtATime, Constraints \subseteq {"max_requests"}
  PROVE  Spec => []EverythingReceived
<1> DEFINE Inv == /\ EndsExactly /\ GraphsTogether /\ Lagging /\ InTurn /\ InOrder
                  /\ ProcessedIsReported
<1>1. Init => Inv
  <2>1. Init => ProcessedIsReported
    BY DEF Init, InitialTracking, ProcessedIsReported, Request
  <2> QED
    BY <2>1, InitEndsExactly, InitTogether, InitLagging, InitInTurn, InitInOrder, InitOwnership
<1>2. IInv /\ Inv /\ [Next]_vars => Inv'
  <2> SUFFICES ASSUME IInv, Inv, [Next]_vars PROVE Inv'
    OBVIOUS
  <2>1. Ownership
    BY DEF EndsExactly
  <2> QED
    BY <2>1, StepEndsExactly, StepTogether, StepLagging, StepInTurn, StepInOrder, StepReported
<1>3. IInv /\ Inv => EverythingReceived
  <2> SUFFICES ASSUME IInv, Inv, consumer = "done", NEW r \in 1 .. st.created
               PROVE  Reported(r)
    BY DEF EverythingReceived, Reported
  <2>1. shutdownEvent
    BY DEF ProcessedIsReported
  <2>2. Live(st) = {}
    BY <2>1, StopMeansAllProcessed DEF EndsExactly, EventsAreEarned
  <2>3. r \in Request /\ r <= st.created
    BY StateAssumption DEF IInv, Consistent, Tracking, Request
  <2> QED
    BY <2>2, <2>3 DEF ProcessedIsReported
<1> QED
  BY <1>1, <1>2, <1>3, Invariant, PTL DEF Spec
=============================================================================
