---------------------------- MODULE MetricsProofs ----------------------------
(***************************************************************************)
(* Proofs about BenchmarkAccumulator: every request is counted under the   *)
(* outcome it ended with, the samples keep their data and the warmup is    *)
(* served (AccountsAreRight), and while its phases are durations a         *)
(* benchmark never goes back to an earlier one (PhaseOnlyAdvances).        *)
(*                                                                         *)
(* The updates of a request that are on their way and the entries that it  *)
(* has in the statistics make up what it has published: Story relates the  *)
(* two to where its worker and the coordinator stand with it.  Of a        *)
(* request that was aborted, which may publish an outcome several times,   *)
(* it only tells the completions and errors.                               *)
(***************************************************************************)
EXTENDS BenchmarkAccumulator, SequenceTheorems, FiniteSetTheorems, TLAPS

Stamps == {NoValue} \cup Nat
Standings == {"queued", "processing"} \cup Outcomes
Ended == {"completed", "errored"}
Works == [state : {"waiting", "claimed", "running", "done"}, status : {"queued"} \cup Statuses,
          resolved : Times, sent : Times, aborts : 0 .. plan.aborts]
Messages == [request : Requests, status : Statuses, started : Stamps, sent : Stamps,
             completed : Stamps, reported : Stamps]
Stats == [request : Requests, data : BOOLEAN, started : Stamps, ended : Stamps]

AccountsTyped ==
  /\ plan \in Plans /\ clock \in Nat
  /\ work \in [Requests -> Works]
  /\ inbox \in [Requests -> Seq(Messages)]
  /\ group \in [Requests -> Standings]
  /\ progress \in [start : Stamps, stop : Stamps, ended : Stamps]
  /\ timings.requestStart \in Stamps /\ timings.update \in Stamps
  /\ timings.measureStart \in Stamps
  /\ requests \in [Outcomes -> Seq(Stats)]
  /\ samples \in [Outcomes -> Seq(Nat)]
  /\ made \in [Outcomes -> 0 .. plan.total] /\ counted \in Nat

\* The statuses of a request that are on their way, and the outcomes it has entries under.
StatusesOf(s) == {s[i].status : i \in 1 .. Len(s)}
Coming(r) == StatusesOf(inbox[r])
Kept(r) == {o \in Outcomes : \E i \in 1 .. Len(requests[o]) : requests[o][i].request = r}

\* An inbox: each completion or error once, and each status once unless the request was
\* aborted, in_progress first.
SoundInbox(s, w, r) ==
  /\ \A i \in 1 .. Len(s) :
       s[i].request = r /\ s[i].started \in {NoValue, w.resolved, w.sent}
  /\ \A i, j \in 1 .. Len(s) :
       s[i].status = s[j].status /\ (s[i].status \in Ended \/ w.aborts = 0) => i = j
  /\ w.aborts = 0 => \A i \in 1 .. Len(s) :
       /\ s[i].status = "in_progress" => i = 1
       /\ s[i].started # NoValue <=> w.resolved # NoValue
InboxIsSound(r) == SoundInbox(inbox[r], work[r], r)

\* w is where the worker stands with a request, g where the coordinator stands, C what is
\* on its way and K the outcomes under which there are entries.
Resolving(w) ==
  /\ w.state \in {"waiting", "claimed"} => w.resolved = NoValue
  /\ w.state = "running" => w.resolved # NoValue
  /\ w.resolved = NoValue => w.sent = NoValue
Undecided(w, C, K, g) ==
  w.state \in {"waiting", "claimed"} => C = {} /\ K = {} /\ g = "queued" /\ w.status = "queued"
Underway(w, C, K, g) ==
  w.state = "running" =>
    /\ \A o \in Outcomes : o \notin C \cup K
    /\ w.status \in {"in_progress", "first_token"}
    /\ "first_token" \in C => w.status = "first_token"
Dropped(w, C, K, g) ==
  w.resolved = NoValue =>
    /\ K = {} /\ C \subseteq {"cancelled"} /\ g \in {"queued", "cancelled"}
    /\ g = "cancelled" => C = {}
Published(w, C, K, g) == w.resolved # NoValue => ("in_progress" \in C <=> g = "queued")
Finalized(w, C, K, g) ==
  /\ g \notin Outcomes => K = {}
  /\ g \in Outcomes /\ w.resolved # NoValue => g \in K
  /\ \A o \in K : g = o
OnceEach(w, C, K, g) ==
  /\ g \in Outcomes => \A o \in Outcomes : o \notin C
  /\ \A a, b \in Outcomes : a \in C /\ b \in C => a = b
EndedOnce(w, C, K, g) ==
  /\ w.state # "done" => \A o \in Ended : o \notin C \cup K
  /\ ~("completed" \in C \cup K /\ "errored" \in C \cup K)
  /\ \A o \in Ended : ~(o \in C /\ o \in K)
  /\ g \in Ended => g \in K
Story(w, C, K, g) ==
  /\ Resolving(w)
  /\ w.aborts = 0 =>
       /\ Undecided(w, C, K, g) /\ Underway(w, C, K, g) /\ Dropped(w, C, K, g)
       /\ Published(w, C, K, g) /\ Finalized(w, C, K, g) /\ OnceEach(w, C, K, g)
  /\ w.aborts # 0 => EndedOnce(w, C, K, g)

Tells(r) == Story(work[r], Coming(r), Kept(r), group[r])

\* The completions or errors that have entries are of different requests, and so are the
\* other entries of the requests that were not aborted.
Listed(o) == {r \in Requests : o \in Kept(r)}
Distinct(s, Q) ==
  \A i, j \in 1 .. Len(s) : s[i].request = s[j].request /\ s[i].request \in Q => i = j
Single(o) == IF o \in Ended THEN Requests ELSE {r \in Requests : work[r].aborts = 0}
EntriesDiffer == \A o \in Outcomes : Distinct(requests[o], Single(o))
EntriesAreListed == \A o \in Ended : Len(requests[o]) = Cardinality(Listed(o))
MadeIsCurrent == \A o \in Ended : made[o] = With(group, {o})
CountedIsAll ==
  counted = Len(requests["completed"]) + Len(requests["errored"]) + Len(requests["cancelled"])

AccountsInv ==
  /\ AccountsTyped
  /\ \A r \in Requests : InboxIsSound(r) /\ Tells(r)
  /\ EntriesDiffer /\ EntriesAreListed /\ MadeIsCurrent /\ CountedIsAll
  /\ SamplesKeepTheirData /\ WarmupIsServed

\* What the phases that are durations keep of their limits.
PhaseInv ==
  /\ timings.requestStart = progress.start
  /\ timings.requestEnd \in Stamps /\ timings.measureEnd \in {NoValue} \cup Int
  /\ ByTime(plan.cool) /\ Duration(plan.cool) # NoValue =>
       timings.measureEnd \in {NoValue, plan.seconds - Duration(plan.cool)}
  /\ ByTime(plan.warm) /\ Duration(plan.warm) = NoValue =>
       timings.measureStart = timings.requestStart
  /\ ByTime(plan.warm) /\ Duration(plan.warm) # NoValue =>
       timings.measureStart \in {NoValue, Duration(plan.warm)}

-----------------------------------------------------------------------------
(***************************************************************************)
(* Inboxes.                                                                *)
(***************************************************************************)

LEMMA EmptyInbox ==
  ASSUME NEW w, NEW r
  PROVE  SoundInbox(<<>>, w, r) /\ StatusesOf(<<>>) = {}
<1>1. Len(<<>>) = 0
  BY EmptySeq
<1> QED
  BY <1>1 DEF SoundInbox, StatusesOf

LEMMA NothingComes ==
  ASSUME NEW s \in Seq(Messages), StatusesOf(s) = {}
  PROVE  s = <<>>
<1>1. Len(s) \in Nat /\ (Len(s) = 0 => s = <<>>)
  BY EmptySeq
<1>2. \A i \in 1 .. Len(s) : FALSE
  BY DEF StatusesOf
<1>3. Len(s) # 0 => 1 \in 1 .. Len(s)
  BY <1>1
<1> QED
  BY <1>1, <1>2, <1>3

\* Only what the worker has with a request changes: a stamp is set, or it is aborted.
LEMMA InboxKept ==
  ASSUME NEW s, NEW w, NEW v, NEW r, SoundInbox(s, w, r),
         \/ v.resolved = w.resolved
         \/ w.resolved = NoValue /\ (v.aborts = 0 => s = <<>>),
         v.sent = w.sent \/ w.sent = NoValue, v.aborts = 0 => w.aborts = 0
  PROVE  SoundInbox(s, v, r)
<1>1. CASE v.resolved = w.resolved
  BY <1>1 DEF SoundInbox
<1>2. CASE s = <<>>
  BY <1>2, EmptyInbox
<1>3. CASE w.resolved = NoValue /\ v.aborts # 0
  BY <1>3 DEF SoundInbox
<1> QED
  BY <1>1, <1>2, <1>3

\* An update that is published.
LEMMA InboxAppend ==
  ASSUME NEW s \in Seq(Messages), NEW w, NEW r, NEW u \in Messages,
         SoundInbox(s, w, r), u.request = r, u.started \in {NoValue, w.resolved, w.sent},
         u.status \in Ended \/ w.aborts = 0 => u.status \notin StatusesOf(s),
         w.aborts = 0 => /\ u.status = "in_progress" => s = <<>>
                         /\ u.started # NoValue <=> w.resolved # NoValue
  PROVE  /\ Append(s, u) \in Seq(Messages) /\ SoundInbox(Append(s, u), w, r)
         /\ StatusesOf(Append(s, u)) = StatusesOf(s) \cup {u.status}
<1> DEFINE t == Append(s, u)
           n == Len(s)
<1>1. /\ t \in Seq(Messages) /\ Len(t) = n + 1 /\ n \in Nat
      /\ \A i \in 1 .. n : t[i] = s[i]
      /\ t[n + 1] = u
  BY AppendProperties
<1>2. s = <<>> => n = 0
  BY EmptySeq
<1>3. StatusesOf(t) = StatusesOf(s) \cup {u.status}
  <2>1. \A i \in 1 .. n + 1 : i \in 1 .. n \/ i = n + 1
    BY <1>1
  <2>2. 1 .. n \subseteq 1 .. n + 1 /\ n + 1 \in 1 .. n + 1
    BY <1>1
  <2> QED
    BY <1>1, <2>1, <2>2 DEF StatusesOf
<1>4. \A k \in 1 .. n : s[k].status \in StatusesOf(s)
  BY DEF StatusesOf
<1>5. ASSUME NEW i \in 1 .. Len(t), NEW j \in 1 .. Len(t), t[i].status = t[j].status,
             t[i].status \in Ended \/ w.aborts = 0
      PROVE  i = j
  <2>1. \A k, l \in 1 .. n :
          s[k].status = s[l].status /\ (s[k].status \in Ended \/ w.aborts = 0) => k = l
    BY DEF SoundInbox
  <2>2. (i \in 1 .. n \/ i = n + 1) /\ (j \in 1 .. n \/ j = n + 1)
    BY <1>1
  <2>3. CASE i \in 1 .. n /\ j \in 1 .. n
    BY <1>1, <1>5, <2>1, <2>3
  <2>4. CASE i = n + 1 \/ j = n + 1
    <3>1. \A k \in 1 .. n : t[k].status = u.status => ~(u.status \in Ended \/ w.aborts = 0)
      BY <1>1, <1>4
    <3> QED
      BY <1>1, <1>5, <2>2, <2>4, <3>1
  <2> QED
    BY <2>2, <2>3, <2>4
<1>6. ASSUME NEW i \in 1 .. Len(t)
      PROVE  /\ t[i].request = r /\ t[i].started \in {NoValue, w.resolved, w.sent}
             /\ w.aborts = 0 => /\ t[i].status = "in_progress" => i = 1
                                /\ t[i].started # NoValue <=> w.resolved # NoValue
  <2>1. CASE i \in 1 .. n
    <3>1. t[i] = s[i]
      BY <1>1, <2>1
    <3> QED
      BY <2>1, <3>1 DEF SoundInbox
  <2>2. CASE i = n + 1
    BY <1>1, <1>2, <2>2
  <2> QED
    BY <1>1, <2>1, <2>2
<1> QED
  BY <1>1, <1>3, <1>5, <1>6 DEF SoundInbox

\* An update that is delivered: in_progress comes first.
LEMMA InboxTail ==
  ASSUME NEW s \in Seq(Messages), NEW w, NEW r, SoundInbox(s, w, r), s # <<>>
  PROVE  /\ Head(s) \in Messages /\ Tail(s) \in Seq(Messages) /\ SoundInbox(Tail(s), w, r)
         /\ StatusesOf(Tail(s)) \subseteq StatusesOf(s)
         /\ StatusesOf(s) = StatusesOf(Tail(s)) \cup {Head(s).status}
         /\ Head(s).status \in Ended \/ w.aborts = 0 => Head(s).status \notin StatusesOf(Tail(s))
         /\ Head(s).request = r /\ Head(s).started \in {NoValue, w.resolved, w.sent}
         /\ w.aborts = 0 =>
              /\ Head(s).status # "in_progress" => "in_progress" \notin StatusesOf(s)
              /\ Head(s).started # NoValue <=> w.resolved # NoValue
<1> DEFINE t == Tail(s)
           n == Len(s)
<1>1. /\ t \in Seq(Messages) /\ Len(t) = n - 1 /\ n \in Nat \ {0}
      /\ \A i \in 1 .. Len(t) : t[i] = s[i + 1]
      /\ Head(s) \in Messages /\ Head(s) = s[1]
  BY HeadTailProperties, EmptySeq
<1>2. 1 \in 1 .. n /\ (\A i \in 1 .. n - 1 : i + 1 \in 1 .. n)
      /\ \A i \in 1 .. n : i = 1 \/ (i - 1 \in 1 .. n - 1 /\ i = (i - 1) + 1)
  BY <1>1
<1>3. /\ \A i \in 1 .. n : s[i].request = r /\ s[i].started \in {NoValue, w.resolved, w.sent}
      /\ \A i, j \in 1 .. n :
           s[i].status = s[j].status /\ (s[i].status \in Ended \/ w.aborts = 0) => i = j
      /\ w.aborts = 0 => \A i \in 1 .. n :
           /\ s[i].status = "in_progress" => i = 1
           /\ s[i].started # NoValue <=> w.resolved # NoValue
  BY DEF SoundInbox
<1>4. StatusesOf(s) = StatusesOf(t) \cup {Head(s).status}
  <2>1. ASSUME NEW x \in StatusesOf(t) PROVE x \in StatusesOf(s)
    <3>1. PICK i \in 1 .. n - 1 : x = t[i].status
      BY <1>1 DEF StatusesOf
    <3>2. i + 1 \in 1 .. n /\ x = s[i + 1].status
      BY <1>1, <3>1
    <3> QED
      BY <3>2 DEF StatusesOf
  <2>2. ASSUME NEW x \in StatusesOf(s), x # s[1].status PROVE x \in StatusesOf(t)
    <3>1. PICK i \in 1 .. n : x = s[i].status
      BY DEF StatusesOf
    <3>2. i - 1 \in 1 .. n - 1 /\ t[i - 1] = s[i]
      <4>1. i # 1
        BY <2>2, <3>1
      <4>2. i - 1 \in 1 .. n - 1 /\ i = (i - 1) + 1
        BY <1>2, <4>1
      <4> QED
        BY <1>1, <4>2
    <3> QED
      BY <1>1, <3>1, <3>2 DEF StatusesOf
  <2>3. s[1].status \in StatusesOf(s)
    BY <1>2 DEF StatusesOf
  <2> QED
    BY <1>1, <2>1, <2>2, <2>3
<1>5. \A i \in 1 .. Len(t) : i + 1 \in 1 .. n /\ t[i] = s[i + 1] /\ i + 1 # 1 /\ i \in Nat
  BY <1>1
<1>6. SoundInbox(t, w, r)
  <2>1. ASSUME NEW i \in 1 .. Len(t), NEW j \in 1 .. Len(t), t[i].status = t[j].status,
               t[i].status \in Ended \/ w.aborts = 0
        PROVE  i = j
    <3>1. i + 1 = j + 1
      BY <1>3, <1>5, <2>1
    <3> QED
      BY <1>5, <3>1
  <2>2. ASSUME NEW i \in 1 .. Len(t)
        PROVE  /\ t[i].request = r /\ t[i].started \in {NoValue, w.resolved, w.sent}
               /\ w.aborts = 0 => /\ t[i].status = "in_progress" => i = 1
                                  /\ t[i].started # NoValue <=> w.resolved # NoValue
    BY <1>3, <1>5
  <2> QED
    BY <2>1, <2>2 DEF SoundInbox
<1>7. ASSUME Head(s).status \in Ended \/ w.aborts = 0, Head(s).status \in StatusesOf(t) PROVE FALSE
  <2>1. PICK i \in 1 .. Len(t) : t[i].status = Head(s).status
    BY <1>7 DEF StatusesOf
  <2>2. i + 1 \in 1 .. n /\ s[i + 1].status = s[1].status /\ i + 1 # 1
    BY <1>1, <1>5, <2>1
  <2> QED
    BY <1>1, <1>2, <1>3, <1>7, <2>2
<1>8. ASSUME w.aborts = 0, Head(s).status # "in_progress", "in_progress" \in StatusesOf(s) PROVE FALSE
  <2>1. PICK i \in 1 .. n : s[i].status = "in_progress"
    BY <1>8 DEF StatusesOf
  <2> QED
    BY <1>1, <1>3, <1>8, <2>1
<1> QED
  BY <1>1, <1>2, <1>3, <1>4, <1>6, <1>7, <1>8

-----------------------------------------------------------------------------
(***************************************************************************)
(* What a step of a worker makes of the story of a request.                *)
(***************************************************************************)

LEMMA StoryClaims ==
  ASSUME NEW w, NEW v, NEW C, NEW K, NEW g, Story(w, C, K, g), w.state = "waiting",
         v.state = "claimed", v.status = w.status, v.resolved = w.resolved, v.sent = w.sent,
         v.aborts = w.aborts
  PROVE  Story(v, C, K, g)
BY DEF Story, Resolving, Undecided, Underway, Dropped, Published, Finalized, OnceEach, EndedOnce

LEMMA StoryBegins ==
  ASSUME NEW w, NEW v, NEW C, NEW K, NEW g, Story(w, C, K, g), w.state = "claimed",
         v.state = "running", v.status = "in_progress", v.resolved # NoValue,
         v.aborts = w.aborts
  PROVE  /\ Story(v, C \cup {"in_progress"}, K, g) /\ w.resolved = NoValue /\ w.sent = NoValue
         /\ w.aborts = 0 => C = {} /\ g = "queued"
BY DEF Story, Resolving, Undecided, Underway, Dropped, Published, Finalized, OnceEach, EndedOnce,
       Outcomes, Ended

LEMMA StorySends ==
  ASSUME NEW w, NEW v, NEW C, NEW K, NEW g, Story(w, C, K, g), w.state = "running",
         v.state = "running", v.status = w.status, v.resolved = w.resolved, v.aborts = w.aborts
  PROVE  Story(v, C, K, g)
BY DEF Story, Resolving, Undecided, Underway, Dropped, Published, Finalized, OnceEach, EndedOnce

LEMMA StoryStreams ==
  ASSUME NEW w, NEW v, NEW C, NEW K, NEW g, Story(w, C, K, g), w.state = "running",
         w.status # "first_token", v.state = "running", v.status = "first_token",
         v.resolved = w.resolved, v.sent = w.sent, v.aborts = w.aborts
  PROVE  /\ Story(v, C \cup {"first_token"}, K, g)
         /\ w.aborts = 0 => "first_token" \notin C
BY DEF Story, Resolving, Undecided, Underway, Dropped, Published, Finalized, OnceEach, EndedOnce,
       Outcomes, Ended

\* A request that is done reports its outcome, or has reported it when it was aborted.
LEMMA StoryEnds ==
  ASSUME NEW w, NEW v, NEW C, NEW K, NEW g, NEW o \in Outcomes, Story(w, C, K, g),
         w.state = "running", v.state = "done", v.resolved = w.resolved, v.sent = w.sent,
         v.aborts = w.aborts
  PROVE  /\ Story(v, C \cup {o}, K, g)
         /\ o \in Ended \/ w.aborts = 0 => o \notin C
         /\ w.aborts = 0 => w.status # o
         /\ w.aborts # 0 => Story(v, C, K, g)
BY DEF Story, Resolving, Undecided, Underway, Dropped, Published, Finalized, OnceEach, EndedOnce,
       Outcomes, Ended

LEMMA StoryAborts ==
  ASSUME NEW w, NEW v, NEW C, NEW K, NEW g, Story(w, C, K, g),
         v.state = w.state, v.resolved = w.resolved, v.sent = w.sent, v.aborts # 0,
         w.state \in {"waiting", "claimed", "running", "done"}
  PROVE  Story(v, C \cup {"cancelled"}, K, g)
<1>1. Resolving(v)
  BY DEF Story, Resolving
<1>2. CASE w.aborts # 0
  BY <1>1, <1>2 DEF Story, EndedOnce, Ended
<1>3. CASE w.aborts = 0
  <2>1. Undecided(w, C, K, g) /\ Underway(w, C, K, g) /\ Dropped(w, C, K, g)
        /\ Finalized(w, C, K, g) /\ OnceEach(w, C, K, g)
    BY <1>3 DEF Story
  <2>2. EndedOnce(v, C \cup {"cancelled"}, K, g)
    <3>1. w.state \in {"waiting", "claimed", "running"} => \A o \in Ended : o \notin C \cup K
      BY <2>1 DEF Undecided, Underway, Outcomes, Ended
    <3>2. ~("completed" \in C \cup K /\ "errored" \in C \cup K) /\ \A o \in Ended : ~(o \in C /\ o \in K)
      BY <2>1 DEF Finalized, OnceEach, Outcomes, Ended
    <3>3. g \in Ended => g \in K
      BY <2>1 DEF Finalized, Dropped, Outcomes, Ended
    <3>4. \A o : o \in Ended => (o \in C \cup {"cancelled"} <=> o \in C)
      BY DEF Ended
    <3> QED
      BY <3>1, <3>2, <3>3, <3>4 DEF EndedOnce, Ended
  <2> QED
    BY <1>1, <2>2 DEF Story
<1> QED
  BY <1>2, <1>3

LEMMA StoryDrops ==
  ASSUME NEW w, NEW v, NEW C, NEW K, NEW g, Story(w, C, K, g),
         w.state \in {"waiting", "claimed"}, v.state = "done", v.resolved = w.resolved,
         v.sent = w.sent, v.aborts = w.aborts
  PROVE  /\ Story(v, C \cup {"cancelled"}, K, g)
         /\ w.aborts = 0 => C = {} /\ w.status = "queued"
         /\ w.aborts # 0 => Story(v, C, K, g)
         /\ w.resolved = NoValue /\ w.sent = NoValue
BY DEF Story, Resolving, Undecided, Underway, Dropped, Published, Finalized, OnceEach, EndedOnce,
       Outcomes, Ended

-----------------------------------------------------------------------------
(***************************************************************************)
(* The steps of the workers.                                               *)
(***************************************************************************)

\* A step of a worker concerns one request.
LEMMA WorkerStep ==
  ASSUME AccountsInv, NEW r \in Requests, NEW v, NEW s,
         plan' = plan, clock' \in {clock, clock + 1}, UNCHANGED <<coordinatorVars, metricVars>>,
         v \in Works', work' = [work EXCEPT ![r] = v],
         s \in Seq(Messages), inbox' = [inbox EXCEPT ![r] = s],
         SoundInbox(s, v, r), Story(v, StatusesOf(s), Kept(r), group[r]),
         v.aborts = 0 => work[r].aborts = 0,
         \/ v.resolved = work[r].resolved
         \/ work[r].resolved = NoValue /\ (group[r] \notin Outcomes \/ v.aborts # 0),
         v.sent = work[r].sent \/ work[r].sent = NoValue
  PROVE  AccountsInv'
<1>1. /\ AccountsTyped /\ (\A q \in Requests : InboxIsSound(q) /\ Tells(q))
      /\ EntriesDiffer /\ EntriesAreListed /\ MadeIsCurrent /\ CountedIsAll
      /\ SamplesKeepTheirData /\ WarmupIsServed
  BY DEF AccountsInv
<1>2. /\ group' = group /\ progress' = progress /\ timings' = timings /\ requests' = requests
      /\ samples' = samples /\ made' = made /\ counted' = counted
  BY DEF coordinatorVars, metricVars
<1>3. Requests' = Requests /\ Messages' = Messages /\ Stats' = Stats
  BY DEF Requests, Messages, Stats
<1>4. work'[r] = v /\ inbox'[r] = s
      /\ \A q \in Requests : q # r => work'[q] = work[q] /\ inbox'[q] = inbox[q]
  BY <1>1 DEF AccountsTyped
<1>5. AccountsTyped'
  <2>1. clock \in Nat /\ clock' \in Nat /\ clock <= clock'
    BY <1>1 DEF AccountsTyped
  <2>2. Works \subseteq Works'
    <3>1. Times \subseteq Times'
      BY <2>1 DEF Times
    <3> QED
      BY <3>1 DEF Works
  <2>3. work' \in [Requests -> Works']
    BY <1>1, <2>2 DEF AccountsTyped
  <2>4. inbox' \in [Requests -> Seq(Messages)]
    BY <1>1 DEF AccountsTyped
  <2> QED
    BY <1>1, <1>2, <1>3, <2>1, <2>3, <2>4 DEF AccountsTyped
<1>6. \A q \in Requests : Kept(q)' = Kept(q)
  BY <1>2 DEF Kept
<1>7. \A q \in Requests' : (InboxIsSound(q) /\ Tells(q))'
  <2>1. (InboxIsSound(r) /\ Tells(r))'
    BY <1>2, <1>4, <1>6 DEF InboxIsSound, Tells, Coming
  <2>2. ASSUME NEW q \in Requests, q # r PROVE (InboxIsSound(q) /\ Tells(q))'
    BY <1>1, <1>2, <1>4, <1>6, <2>2 DEF InboxIsSound, Tells, Coming
  <2> QED
    BY <1>3, <2>1, <2>2
<1>8. EntriesDiffer'
  <2>1. \A q \in Requests : work'[q].aborts = 0 => work[q].aborts = 0
    BY <1>4
  <2>2. \A o : Single(o)' \subseteq Single(o)
    BY <1>3, <2>1 DEF Single
  <2> QED
    BY <1>1, <1>2, <2>2 DEF EntriesDiffer, Distinct
<1>9. CountedIsAll' /\ SamplesKeepTheirData'
  BY <1>1, <1>2 DEF CountedIsAll, SamplesKeepTheirData
<1>10. EntriesAreListed'
  <2>1. \A o \in Outcomes : Listed(o)' = Listed(o)
    BY <1>3, <1>6 DEF Listed
  <2> QED
    BY <1>1, <1>2, <2>1 DEF EntriesAreListed, Ended, Outcomes
<1>11. MadeIsCurrent'
  BY <1>1, <1>2, <1>3 DEF MadeIsCurrent, With
<1>12. WarmupIsServed'
  <2>1. Count(plan.warm)' = Count(plan.warm) /\ Duration(plan.warm)' = Duration(plan.warm)
    BY DEF Count, Duration, Seconds
  <2>2. Processed(group)' = Processed(group)
    BY <1>2, <1>3 DEF Processed, With
  <2>3. (\A q \in Requests' : group'[q] \in Outcomes => work'[q].resolved # NoValue /\ ~Aborted(q)')
          => \A q \in Requests : group[q] \in Outcomes => work[q].resolved # NoValue /\ ~Aborted(q)
    <3>1. \A q \in Requests : work[q].aborts \in Nat /\ work'[q].aborts \in Nat
      <4>1. plan.aborts \in Nat
        BY <1>1, AccumulatorAssumption DEF AccountsTyped
      <4>2. \A q \in Requests : work[q] \in Works /\ work'[q] \in Works'
        BY <1>1, <1>3, <1>5 DEF AccountsTyped
      <4> QED
        BY <4>1, <4>2 DEF Works
    <3>2. \A q \in Requests : Aborted(q)' <=> work'[q].aborts # 0
      BY <3>1 DEF Aborted
    <3>3. \A q \in Requests : Aborted(q) <=> work[q].aborts # 0
      BY <3>1 DEF Aborted
    <3> HIDE DEF Aborted
    <3> QED
      BY <1>2, <1>3, <1>4, <3>2, <3>3
  <2>4. \A q \in Requests : {work[q].resolved, work[q].sent} \ {NoValue}
                              \subseteq {work'[q].resolved, work'[q].sent} \ {NoValue}
    BY <1>4
  <2>5. MeasuredFrom(timings.measureStart) => MeasuredFrom(timings.measureStart)'
    <3>1. ASSUME NEW q \in Requests, NEW t \in {work[q].resolved, work[q].sent} \ {NoValue},
                 timings.measureStart = IF Duration(plan.warm) = NoValue THEN t
                                        ELSE Greater(t, Duration(plan.warm))
          PROVE  MeasuredFrom(timings.measureStart)'
      <4>1. t \in {work'[q].resolved, work'[q].sent} \ {NoValue}
        BY <2>4
      <4> QED
        BY <1>2, <1>3, <2>1, <3>1, <4>1 DEF MeasuredFrom
    <3> QED
      BY <3>1 DEF MeasuredFrom
  <2> QED
    BY <1>1, <1>2, <2>1, <2>2, <2>3, <2>5 DEF WarmupIsServed
<1> QED
  BY <1>5, <1>7, <1>8, <1>9, <1>10, <1>11, <1>12 DEF AccountsInv

\* The updates a worker publishes.
LEMMA UpdateIs ==
  ASSUME NEW r \in Requests, NEW status \in Statuses, NEW a \in Stamps, NEW b \in Stamps, NEW c \in Stamps
  PROVE  LET u == Update(r, status, a, b, c) IN
         /\ u \in Messages /\ u.request = r /\ u.status = status /\ u.started \in {a, b}
         /\ (b # NoValue => a # NoValue) => (u.started # NoValue <=> a # NoValue)
<1>1. \A x, y \in Stamps : Given(x, y) \in Stamps /\ Later(x, y) \in Stamps
  BY DEF Given, Later, Greater, Stamps
<1> QED
  BY <1>1 DEF Update, Messages, Given

\* The facts about the request a worker works on.
LEMMA AtWork ==
  ASSUME AccountsInv, NEW r \in Requests
  PROVE  /\ work[r] \in Works /\ inbox[r] \in Seq(Messages) /\ clock \in Nat
         /\ SoundInbox(inbox[r], work[r], r)
         /\ Story(work[r], StatusesOf(inbox[r]), Kept(r), group[r])
         /\ work[r].resolved \in Stamps /\ work[r].sent \in Stamps /\ clock + 1 \in Stamps
         /\ work[r].sent # NoValue => work[r].resolved # NoValue
         /\ inbox = [inbox EXCEPT ![r] = inbox[r]]
         /\ plan.aborts \in Nat /\ work[r].aborts \in Nat
<1>1. /\ work[r] \in Works /\ inbox[r] \in Seq(Messages) /\ clock \in Nat
      /\ inbox \in [Requests -> Seq(Messages)]
  BY DEF AccountsInv, AccountsTyped
<1>2. InboxIsSound(r) /\ Tells(r)
  BY DEF AccountsInv
<1>3. Times \subseteq Stamps
  BY <1>1 DEF Times, Stamps
<1>4. work[r].resolved \in Stamps /\ work[r].sent \in Stamps /\ clock + 1 \in Stamps
  BY <1>1, <1>3 DEF Works, Stamps
<1>5. work[r].sent # NoValue => work[r].resolved # NoValue
  BY <1>2 DEF Tells, Story, Resolving
<1>6. plan.aborts \in Nat /\ work[r].aborts \in Nat
  <2>1. plan.aborts \in Nat
    BY AccumulatorAssumption DEF AccountsInv, AccountsTyped
  <2> QED
    BY <1>1, <2>1 DEF Works
<1> QED
  BY <1>1, <1>2, <1>4, <1>5, <1>6 DEF InboxIsSound, Tells, Coming

\* An update that a worker publishes is one more in the inbox of its request.
LEMMA PublishIs ==
  ASSUME AccountsInv, NEW u \in Messages, Publish(u)
  PROVE  /\ Append(inbox[u.request], u) \in Seq(Messages)
         /\ inbox' = [inbox EXCEPT ![u.request] = Append(inbox[u.request], u)]
<1>1. u.request \in Requests /\ inbox \in [Requests -> Seq(Messages)]
  BY DEF Messages, AccountsInv, AccountsTyped
<1>2. Append(inbox[u.request], u) \in Seq(Messages)
  BY <1>1, AppendProperties
<1> QED
  BY <1>2 DEF Publish

\* A step that reports a status, unless the request has it already.
LEMMA ReportStep ==
  ASSUME AccountsInv, NEW r \in Requests, NEW status \in Statuses \ {"in_progress"},
         NEW v \in Works',
         plan' = plan, clock' = clock + 1, UNCHANGED <<coordinatorVars, metricVars>>,
         work' = [work EXCEPT ![r] = v], Reports(r, status),
         v.resolved = work[r].resolved, v.sent = work[r].sent, v.aborts = 0 => work[r].aborts = 0,
         Story(v, StatusesOf(inbox[r]) \cup {status}, Kept(r), group[r]),
         work[r].status = status => Story(v, StatusesOf(inbox[r]), Kept(r), group[r]),
         /\ work[r].status # status
         /\ status \in Ended \/ v.aborts = 0
         => status \notin StatusesOf(inbox[r])
  PROVE  AccountsInv'
<1>1. /\ work[r] \in Works /\ inbox[r] \in Seq(Messages) /\ clock \in Nat
      /\ SoundInbox(inbox[r], work[r], r)
      /\ inbox = [inbox EXCEPT ![r] = inbox[r]]
      /\ work[r].resolved \in Stamps /\ work[r].sent \in Stamps /\ clock + 1 \in Stamps
      /\ work[r].sent # NoValue => work[r].resolved # NoValue
  BY AtWork
<1>2. SoundInbox(inbox[r], v, r)
  BY <1>1, InboxKept
<1>3. CASE work[r].status = status
  <2>1. inbox' = [inbox EXCEPT ![r] = inbox[r]]
    BY <1>1, <1>3 DEF Reports
  <2> QED
    BY <1>1, <1>2, <1>3, <2>1, WorkerStep
<1>4. CASE work[r].status # status
  <2>1. PICK ended \in Stamps :
          Publish(Update(r, status, work[r].resolved, work[r].sent, ended))
    <3>1. clock' \in Stamps /\ NoValue \in Stamps
      BY <1>1 DEF Stamps
    <3> QED
      BY <1>4, <3>1 DEF Reports
  <2>2. PICK u : u = Update(r, status, work[r].resolved, work[r].sent, ended)
    OBVIOUS
  <2>3. /\ u \in Messages /\ u.request = r /\ u.status = status
        /\ u.started \in {work[r].resolved, work[r].sent}
        /\ u.started # NoValue <=> work[r].resolved # NoValue
    BY <1>1, <2>2, UpdateIs
  <2>4. inbox' = [inbox EXCEPT ![r] = Append(inbox[r], u)]
    BY <2>1, <2>2, <2>3, PublishIs
  <2>5. /\ Append(inbox[r], u) \in Seq(Messages) /\ SoundInbox(Append(inbox[r], u), v, r)
        /\ StatusesOf(Append(inbox[r], u)) = StatusesOf(inbox[r]) \cup {u.status}
    <3>1. inbox[r] \in Seq(Messages) /\ SoundInbox(inbox[r], v, r)
      BY <1>1, <1>2
    <3>2. /\ u \in Messages /\ u.request = r /\ u.started \in {NoValue, v.resolved, v.sent}
          /\ u.status \in Ended \/ v.aborts = 0 => u.status \notin StatusesOf(inbox[r])
          /\ v.aborts = 0 => /\ u.status = "in_progress" => inbox[r] = <<>>
                             /\ u.started # NoValue <=> v.resolved # NoValue
      BY <1>4, <2>3
    <3> QED
      BY <3>1, <3>2, InboxAppend
  <2>6. Story(v, StatusesOf(Append(inbox[r], u)), Kept(r), group[r])
    BY <2>3, <2>5
  <2> QED
    BY <2>4, <2>5, <2>6, WorkerStep
<1> QED
  BY <1>3, <1>4

LEMMA ClaimsStep ==
  ASSUME AccountsInv, NEW r \in Requests, Claims(r)
  PROVE  AccountsInv'
<1>1. /\ work[r] \in Works /\ inbox[r] \in Seq(Messages)
      /\ SoundInbox(inbox[r], work[r], r)
      /\ Story(work[r], StatusesOf(inbox[r]), Kept(r), group[r])
      /\ inbox = [inbox EXCEPT ![r] = inbox[r]]
  BY AtWork
<1>2. /\ plan' = plan /\ clock' = clock /\ UNCHANGED <<coordinatorVars, metricVars>>
      /\ work[r].state = "waiting" /\ inbox' = inbox
      /\ work' = [work EXCEPT ![r].state = "claimed"]
  BY DEF Claims
<1>3. PICK v : v = [work[r] EXCEPT !.state = "claimed"]
  OBVIOUS
<1>4. /\ v.state = "claimed" /\ v.status = work[r].status /\ v.resolved = work[r].resolved
      /\ v.sent = work[r].sent /\ v.aborts = work[r].aborts
      /\ v \in Works' /\ work' = [work EXCEPT ![r] = v]
  <2>1. Works' = Works
    BY <1>2 DEF Works, Times
  <2> QED
    BY <1>1, <1>2, <1>3, <2>1 DEF Works
<1>5. Story(v, StatusesOf(inbox[r]), Kept(r), group[r])
  BY <1>1, <1>2, <1>4, StoryClaims
<1>6. SoundInbox(inbox[r], v, r)
  BY <1>1, <1>4, InboxKept
<1> QED
  BY <1>1, <1>2, <1>4, <1>5, <1>6, WorkerStep

LEMMA BeginsStep ==
  ASSUME AccountsInv, NEW r \in Requests, Begins(r)
  PROVE  AccountsInv'
<1>1. /\ work[r] \in Works /\ inbox[r] \in Seq(Messages) /\ clock \in Nat
      /\ SoundInbox(inbox[r], work[r], r)
      /\ Story(work[r], StatusesOf(inbox[r]), Kept(r), group[r])
      /\ clock + 1 \in Stamps
  BY AtWork
<1>2. /\ plan' = plan /\ clock' = clock + 1 /\ UNCHANGED <<coordinatorVars, metricVars>>
      /\ work[r].state = "claimed"
      /\ work' = [work EXCEPT ![r].state = "running", ![r].status = "in_progress",
                              ![r].resolved = clock']
      /\ Publish(Update(r, "in_progress", clock', NoValue, NoValue))
  BY DEF Begins
<1>3. PICK v : v = [work[r] EXCEPT !.state = "running", !.status = "in_progress", !.resolved = clock']
  OBVIOUS
<1>4. PICK u : u = Update(r, "in_progress", clock', NoValue, NoValue)
  OBVIOUS
<1>5. /\ u \in Messages /\ u.request = r /\ u.status = "in_progress"
      /\ u.started \in {clock', NoValue} /\ u.started # NoValue
  <2>1. NoValue \in Stamps /\ clock' \in Stamps /\ clock' # NoValue
    BY <1>1, <1>2, AccumulatorAssumption DEF Stamps
  <2>2. "in_progress" \in Statuses
    BY DEF Statuses
  <2> QED
    BY <1>4, <2>1, <2>2, UpdateIs
<1>6. /\ v.state = "running" /\ v.status = "in_progress" /\ v.resolved = clock'
      /\ v.resolved # NoValue /\ v.sent = work[r].sent /\ v.aborts = work[r].aborts
      /\ v \in Works' /\ work' = [work EXCEPT ![r] = v]
  <2>1. /\ v.state = "running" /\ v.status = "in_progress" /\ v.resolved = clock'
        /\ v.sent = work[r].sent /\ v.aborts = work[r].aborts
        /\ v = [state |-> "running", status |-> "in_progress", resolved |-> clock',
                sent |-> work[r].sent, aborts |-> work[r].aborts]
    BY <1>1, <1>3 DEF Works
  <2>2. /\ clock' \in Times' /\ work[r].sent \in Times' /\ clock' # NoValue
        /\ work[r].aborts \in 0 .. plan.aborts
    BY <1>1, <1>2, AccumulatorAssumption DEF Works, Times
  <2>3. v \in Works'
    BY <1>2, <2>1, <2>2 DEF Works, Statuses
  <2>4. work' = [work EXCEPT ![r] = v]
    BY <1>2, <1>3
  <2> QED
    BY <2>1, <2>2, <2>3, <2>4
<1>7. /\ Story(v, StatusesOf(inbox[r]) \cup {"in_progress"}, Kept(r), group[r])
      /\ work[r].resolved = NoValue /\ work[r].sent = NoValue
      /\ work[r].aborts = 0 => StatusesOf(inbox[r]) = {} /\ group[r] = "queued"
  <2>1. Story(work[r], StatusesOf(inbox[r]), Kept(r), group[r]) /\ work[r].state = "claimed"
    BY <1>1, <1>2
  <2>2. /\ v.state = "running" /\ v.status = "in_progress" /\ v.resolved # NoValue
        /\ v.aborts = work[r].aborts
    BY <1>6
  <2> QED
    BY <2>1, <2>2, StoryBegins
<1>8. v.aborts = 0 => inbox[r] = <<>> /\ StatusesOf(inbox[r]) = {}
  BY <1>1, <1>6, <1>7, NothingComes
<1>9. inbox' = [inbox EXCEPT ![r] = Append(inbox[r], u)]
  BY <1>2, <1>4, <1>5, PublishIs
<1>10. SoundInbox(inbox[r], v, r)
  BY <1>1, <1>6, <1>7, <1>8, InboxKept
<1>11. /\ Append(inbox[r], u) \in Seq(Messages) /\ SoundInbox(Append(inbox[r], u), v, r)
       /\ StatusesOf(Append(inbox[r], u)) = StatusesOf(inbox[r]) \cup {u.status}
  <2>1. /\ u \in Messages /\ u.request = r /\ u.started \in {NoValue, v.resolved, v.sent}
        /\ u.status \in Ended \/ v.aborts = 0 => u.status \notin StatusesOf(inbox[r])
        /\ v.aborts = 0 => /\ u.status = "in_progress" => inbox[r] = <<>>
                           /\ u.started # NoValue <=> v.resolved # NoValue
    BY <1>5, <1>6, <1>8 DEF Ended
  <2> QED
    BY <1>1, <1>10, <2>1, InboxAppend
<1>12. Story(v, StatusesOf(Append(inbox[r], u)), Kept(r), group[r])
  BY <1>5, <1>7, <1>11
<1>13. work[r].resolved = NoValue /\ (group[r] \notin Outcomes \/ v.aborts # 0)
  BY <1>6, <1>7 DEF Outcomes
<1> QED
  BY <1>2, <1>6, <1>9, <1>11, <1>12, <1>13, WorkerStep

LEMMA SendsStep ==
  ASSUME AccountsInv, NEW r \in Requests, Sends(r)
  PROVE  AccountsInv'
<1>1. /\ work[r] \in Works /\ inbox[r] \in Seq(Messages) /\ clock \in Nat
      /\ SoundInbox(inbox[r], work[r], r)
      /\ Story(work[r], StatusesOf(inbox[r]), Kept(r), group[r])
      /\ inbox = [inbox EXCEPT ![r] = inbox[r]]
  BY AtWork
<1>2. /\ plan' = plan /\ clock' = clock + 1 /\ UNCHANGED <<coordinatorVars, metricVars>>
      /\ work[r].state = "running" /\ work[r].sent = NoValue /\ inbox' = inbox
      /\ work' = [work EXCEPT ![r].sent = clock']
  BY DEF Sends
<1>3. PICK v : v = [work[r] EXCEPT !.sent = clock']
  OBVIOUS
<1>4. /\ v.state = "running" /\ v.status = work[r].status /\ v.resolved = work[r].resolved
      /\ v.aborts = work[r].aborts
      /\ v \in Works' /\ work' = [work EXCEPT ![r] = v]
  <2>1. /\ v.state = "running" /\ v.status = work[r].status /\ v.resolved = work[r].resolved
        /\ v.aborts = work[r].aborts
        /\ v = [state |-> "running", status |-> work[r].status, resolved |-> work[r].resolved,
                sent |-> clock', aborts |-> work[r].aborts]
    BY <1>1, <1>2, <1>3 DEF Works
  <2>2. /\ clock' \in Times' /\ work[r].resolved \in Times' /\ work[r].aborts \in 0 .. plan.aborts
        /\ work[r].status \in {"queued"} \cup Statuses
    BY <1>1, <1>2 DEF Works, Times
  <2>3. v \in Works'
    BY <1>2, <2>1, <2>2 DEF Works
  <2>4. work' = [work EXCEPT ![r] = v]
    BY <1>2, <1>3
  <2> QED
    BY <2>1, <2>3, <2>4
<1>5. Story(v, StatusesOf(inbox[r]), Kept(r), group[r])
  BY <1>1, <1>2, <1>4, StorySends
<1>6. SoundInbox(inbox[r], v, r)
  BY <1>1, <1>2, <1>4, InboxKept
<1> QED
  BY <1>1, <1>2, <1>4, <1>5, <1>6, WorkerStep

\* The state, the status and the aborts of a work change.
Rework(w, state, status, aborts) ==
  [w EXCEPT !.state = state, !.status = status, !.aborts = aborts]
LEMMA ReworkIs ==
  ASSUME AccountsInv, NEW r \in Requests, plan' = plan, clock' = clock + 1,
         NEW state \in {"waiting", "claimed", "running", "done"}, NEW status \in Statuses,
         NEW aborts \in 0 .. plan.aborts, NEW v,
         v = Rework(work[r], state, status, aborts)
  PROVE  /\ v \in Works' /\ v.state = state /\ v.status = status /\ v.aborts = aborts
         /\ v.resolved = work[r].resolved /\ v.sent = work[r].sent
<1>1. work[r] \in Works /\ clock \in Nat
  BY AtWork
<1>2. /\ v = [state |-> state, status |-> status, resolved |-> work[r].resolved,
              sent |-> work[r].sent, aborts |-> aborts]
  BY <1>1 DEF Works, Rework
<1>3. work[r].sent \in Times' /\ work[r].resolved \in Times'
  BY <1>1 DEF Works, Times
<1> QED
  BY <1>2, <1>3 DEF Works

LEMMA FirstTokenStep ==
  ASSUME AccountsInv, NEW r \in Requests, FirstToken(r)
  PROVE  AccountsInv'
<1>1. /\ work[r] \in Works /\ work[r].aborts \in 0 .. plan.aborts
      /\ Story(work[r], StatusesOf(inbox[r]), Kept(r), group[r])
  BY AtWork DEF Works
<1>2. /\ plan' = plan /\ clock' = clock + 1 /\ UNCHANGED <<coordinatorVars, metricVars>>
      /\ work[r].state = "running" /\ work[r].status # "first_token"
      /\ work' = [work EXCEPT ![r].status = "first_token"]
      /\ Reports(r, "first_token")
  BY DEF FirstToken
<1>3. PICK v : v = Rework(work[r], "running", "first_token", work[r].aborts)
  OBVIOUS
<1>4. "first_token" \in Statuses \ {"in_progress"}
  BY DEF Statuses
<1>5. /\ v \in Works' /\ v.state = "running" /\ v.status = "first_token"
      /\ v.aborts = work[r].aborts
      /\ v.resolved = work[r].resolved /\ v.sent = work[r].sent
  BY <1>1, <1>2, <1>3, <1>4, ReworkIs
<1>6. work' = [work EXCEPT ![r] = v]
  <2>1. v = [work[r] EXCEPT !.status = "first_token"]
    BY <1>1, <1>2, <1>3 DEF Works, Rework
  <2> QED
    BY <1>2, <2>1
<1>7. /\ Story(v, StatusesOf(inbox[r]) \cup {"first_token"}, Kept(r), group[r])
      /\ work[r].aborts = 0 => "first_token" \notin StatusesOf(inbox[r])
  BY <1>1, <1>2, <1>5, StoryStreams
<1> QED
  BY <1>2, <1>4, <1>5, <1>6, <1>7, ReportStep DEF Ended

LEMMA EndsStep ==
  ASSUME AccountsInv, NEW r \in Requests, NEW o \in Outcomes, Ends(r, o)
  PROVE  AccountsInv'
<1>1. /\ work[r] \in Works /\ work[r].aborts \in 0 .. plan.aborts
      /\ Story(work[r], StatusesOf(inbox[r]), Kept(r), group[r])
  BY AtWork DEF Works
<1>2. /\ plan' = plan /\ clock' = clock + 1 /\ UNCHANGED <<coordinatorVars, metricVars>>
      /\ work[r].state = "running"
      /\ work' = [work EXCEPT ![r].state = "done", ![r].status = o]
      /\ Reports(r, o)
  BY DEF Ends
<1>3. PICK v : v = Rework(work[r], "done", o, work[r].aborts)
  OBVIOUS
<1>4. o \in Statuses \ {"in_progress"}
  BY DEF Statuses, Outcomes
<1>5. /\ v \in Works' /\ v.state = "done" /\ v.status = o /\ v.aborts = work[r].aborts
      /\ v.resolved = work[r].resolved /\ v.sent = work[r].sent
  BY <1>1, <1>2, <1>3, <1>4, ReworkIs
<1>6. work' = [work EXCEPT ![r] = v]
  <2>1. v = [work[r] EXCEPT !.state = "done", !.status = o]
    BY <1>1, <1>3 DEF Works, Rework
  <2> QED
    BY <1>2, <2>1
<1>7. /\ Story(v, StatusesOf(inbox[r]) \cup {o}, Kept(r), group[r])
      /\ o \in Ended \/ work[r].aborts = 0 => o \notin StatusesOf(inbox[r])
      /\ work[r].aborts = 0 => work[r].status # o
      /\ work[r].aborts # 0 => Story(v, StatusesOf(inbox[r]), Kept(r), group[r])
  BY <1>1, <1>2, <1>5, StoryEnds
<1> QED
  BY <1>2, <1>4, <1>5, <1>6, <1>7, ReportStep

LEMMA AbortsStep ==
  ASSUME AccountsInv, NEW r \in Requests, Aborts(r)
  PROVE  AccountsInv'
<1>1. /\ work[r] \in Works /\ work[r].aborts \in 0 .. plan.aborts /\ plan.aborts \in Nat
      /\ Story(work[r], StatusesOf(inbox[r]), Kept(r), group[r])
  BY AtWork DEF Works
<1>2. /\ plan' = plan /\ clock' = clock + 1 /\ UNCHANGED <<coordinatorVars, metricVars>>
      /\ work[r].aborts < plan.aborts /\ work[r].status # "cancelled"
      /\ work' = [work EXCEPT ![r].status = "cancelled", ![r].aborts = @ + 1]
      /\ Reports(r, "cancelled")
  BY DEF Aborts
<1>3. PICK v : v = Rework(work[r], work[r].state, "cancelled", work[r].aborts + 1)
  OBVIOUS
<1>4. "cancelled" \in Statuses \ {"in_progress"} /\ "cancelled" \notin Ended
  BY DEF Statuses, Outcomes, Ended
<1>5. work[r].state \in {"waiting", "claimed", "running", "done"}
  BY <1>1 DEF Works
<1>6. work[r].aborts + 1 \in 0 .. plan.aborts /\ work[r].aborts + 1 # 0
  BY <1>1, <1>2
<1>7. /\ v \in Works' /\ v.state = work[r].state /\ v.aborts = work[r].aborts + 1
      /\ v.resolved = work[r].resolved /\ v.sent = work[r].sent
  BY <1>2, <1>3, <1>4, <1>5, <1>6, ReworkIs
<1>8. work' = [work EXCEPT ![r] = v]
  <2>1. v = [work[r] EXCEPT !.status = "cancelled", !.aborts = work[r].aborts + 1]
    BY <1>1, <1>3 DEF Works, Rework
  <2> QED
    BY <1>2, <2>1
<1>9. Story(v, StatusesOf(inbox[r]) \cup {"cancelled"}, Kept(r), group[r])
  BY <1>1, <1>5, <1>6, <1>7, StoryAborts
<1> QED
  BY <1>2, <1>4, <1>6, <1>7, <1>8, <1>9, ReportStep

LEMMA DropsStep ==
  ASSUME AccountsInv, NEW r \in Requests, Drops(r)
  PROVE  AccountsInv'
<1>1. /\ work[r] \in Works /\ work[r].aborts \in 0 .. plan.aborts
      /\ Story(work[r], StatusesOf(inbox[r]), Kept(r), group[r])
  BY AtWork DEF Works
<1>2. /\ plan' = plan /\ clock' = clock + 1 /\ UNCHANGED <<coordinatorVars, metricVars>>
      /\ work[r].state \in {"waiting", "claimed"}
      /\ work' = [work EXCEPT ![r].state = "done", ![r].status = "cancelled"]
      /\ Reports(r, "cancelled")
  BY DEF Drops
<1>3. PICK v : v = Rework(work[r], "done", "cancelled", work[r].aborts)
  OBVIOUS
<1>4. "cancelled" \in Statuses \ {"in_progress"}
  BY DEF Statuses, Outcomes
<1>5. /\ v \in Works' /\ v.state = "done" /\ v.aborts = work[r].aborts
      /\ v.resolved = work[r].resolved /\ v.sent = work[r].sent
  BY <1>1, <1>2, <1>3, <1>4, ReworkIs
<1>6. work' = [work EXCEPT ![r] = v]
  <2>1. v = [work[r] EXCEPT !.state = "done", !.status = "cancelled"]
    BY <1>1, <1>3 DEF Works, Rework
  <2> QED
    BY <1>2, <2>1
<1>7. /\ Story(v, StatusesOf(inbox[r]) \cup {"cancelled"}, Kept(r), group[r])
      /\ work[r].aborts = 0 => StatusesOf(inbox[r]) = {} /\ work[r].status = "queued"
      /\ work[r].aborts # 0 => Story(v, StatusesOf(inbox[r]), Kept(r), group[r])
  BY <1>1, <1>2, <1>5, StoryDrops
<1> QED
  BY <1>2, <1>4, <1>5, <1>6, <1>7, ReportStep DEF Ended

\* The warmup is a matter of the plan, the requests and the timings alone.
LEMMA WarmupStays ==
  ASSUME WarmupIsServed, plan' = plan, work' = work, group' = group, timings' = timings
  PROVE  WarmupIsServed'
<1>1. /\ Count(plan.warm)' = Count(plan.warm) /\ Duration(plan.warm)' = Duration(plan.warm)
      /\ Requests' = Requests
  BY DEF Count, Duration, Seconds, Requests
<1>2. Processed(group)' = Processed(group)
  BY <1>1 DEF Processed, With
<1>3. /\ MeasuredFrom(timings.measureStart)' = MeasuredFrom(timings.measureStart)
      /\ \A q : Aborted(q)' = Aborted(q)
  BY <1>1 DEF MeasuredFrom, Aborted
<1> QED
  BY <1>1, <1>2, <1>3 DEF WarmupIsServed

\* A poll that stops the run touches nothing that is accounted for.
LEMMA PollsStep ==
  ASSUME AccountsInv, Polls
  PROVE  AccountsInv'
<1>1. /\ AccountsTyped /\ (\A q \in Requests : InboxIsSound(q) /\ Tells(q))
      /\ EntriesDiffer /\ EntriesAreListed /\ MadeIsCurrent /\ CountedIsAll
      /\ SamplesKeepTheirData /\ WarmupIsServed
  BY DEF AccountsInv
<1>2. /\ plan' = plan /\ clock' = clock /\ work' = work /\ inbox' = inbox /\ group' = group
      /\ timings' = timings /\ requests' = requests /\ samples' = samples /\ made' = made
      /\ counted' = counted
      /\ TimeStop(progress.start) # NoValue
      /\ progress' = [progress EXCEPT !.stop = Earlier(@, TimeStop(progress.start)), !.ended = clock]
  BY DEF Polls, workerVars, metricVars
<1>3. Requests' = Requests /\ Messages' = Messages /\ Stats' = Stats /\ Works' = Works
  BY <1>2 DEF Requests, Messages, Stats, Works, Times
<1>4. progress' \in [start : Stamps, stop : Stamps, ended : Stamps]
  <2>1. progress \in [start : Stamps, stop : Stamps, ended : Stamps] /\ clock \in Stamps
    BY <1>1 DEF AccountsTyped, Stamps
  <2>2. plan.seconds \in Stamps
    BY <1>1, AccumulatorAssumption DEF AccountsTyped, Stamps
  <2>3. TimeStop(progress.start) \in Stamps
    BY <2>1, <2>2 DEF TimeStop, Given, Stamps
  <2>4. \A x, y \in Stamps : Earlier(x, y) \in Stamps
    BY DEF Earlier, Given, Lesser, Stamps
  <2> QED
    BY <1>2, <2>1, <2>3, <2>4
<1>5. AccountsTyped'
  BY <1>1, <1>2, <1>3, <1>4 DEF AccountsTyped
<1>6. \A q \in Requests' : (InboxIsSound(q) /\ Tells(q))'
  <2>1. ASSUME NEW q \in Requests PROVE (InboxIsSound(q) /\ Tells(q))'
    <3>1. Kept(q)' = Kept(q)
      BY <1>2 DEF Kept
    <3> QED
      BY <1>1, <1>2, <3>1 DEF InboxIsSound, Tells, Coming
  <2> QED
    BY <1>3, <2>1
<1>7. EntriesDiffer' /\ CountedIsAll' /\ SamplesKeepTheirData'
  <2>1. \A o : Single(o)' = Single(o)
    BY <1>2, <1>3 DEF Single
  <2> QED
    BY <1>1, <1>2, <2>1 DEF EntriesDiffer, Distinct, CountedIsAll, SamplesKeepTheirData
<1>8. EntriesAreListed' /\ MadeIsCurrent'
  BY <1>1, <1>2, <1>3 DEF EntriesAreListed, Listed, Kept, MadeIsCurrent, With
<1>9. WarmupIsServed'
  BY <1>1, <1>2, WarmupStays
<1> QED
  BY <1>5, <1>6, <1>7, <1>8, <1>9 DEF AccountsInv

-----------------------------------------------------------------------------
(***************************************************************************)
(* The delivery of an update.                                              *)
(***************************************************************************)

LEMMA StoryStarts ==
  ASSUME NEW w, NEW C, NEW K, NEW g, Story(w, C, K, g), w.aborts = 0, "in_progress" \in C
  PROVE  /\ g = "queued" /\ Story(w, C \ {"in_progress"}, K, "processing")
BY DEF Story, Resolving, Undecided, Underway, Dropped, Published, Finalized, OnceEach, Outcomes

LEMMA StoryFlows ==
  ASSUME NEW w, NEW C, NEW K, NEW g, Story(w, C, K, g), w.aborts = 0, "first_token" \in C
  PROVE  Story(w, C \ {"first_token"}, K, g)
BY DEF Story, Resolving, Undecided, Underway, Dropped, Published, Finalized, OnceEach, Outcomes

\* The outcome that is reported finalizes the request.
LEMMA StoryFinalizes ==
  ASSUME NEW w, NEW C, NEW K, NEW g \in Standings, NEW o \in Outcomes, Story(w, C, K, g),
         w.aborts = 0, C \subseteq Statuses, o \in C, "in_progress" \notin C, w.resolved # NoValue
  PROVE  g = "processing" /\ o \notin K /\ Story(w, C \ {o}, K \cup {o}, o)
BY DEF Story, Resolving, Undecided, Underway, Dropped, Published, Finalized, OnceEach, Outcomes,
       Standings, Statuses

\* A request that never started is finalized without an entry.
LEMMA StoryForgets ==
  ASSUME NEW w, NEW C, NEW K, NEW g, NEW o \in Statuses, Story(w, C, K, g), w.aborts = 0,
         o \in C, w.resolved = NoValue
  PROVE  /\ o = "cancelled" /\ g = "queued" /\ Story(w, C \ {o}, K, o)
BY DEF Story, Resolving, Undecided, Underway, Dropped, Published, Finalized, OnceEach, Outcomes,
       Statuses

\* Whatever becomes of an update of a request that was aborted, the coordinator finalizes
\* the request with a completion or an error only by the update that is counted.
LEMMA StoryOfAborted ==
  ASSUME NEW w, NEW C, NEW K, NEW g, NEW D, NEW L, NEW h, NEW o, Story(w, C, K, g), w.aborts # 0,
         C = D \cup {o}, o \in Ended => o \notin D,
         K \subseteq L, L \subseteq K \cup {o}, o \in Ended => o \in L,
         h \in {g, o, "processing"}
  PROVE  Story(w, D, L, h) /\ (o \in Ended => o \notin K)
BY DEF Story, Resolving, EndedOnce, Ended

LEMMA SizeTyped ==
  ASSUME AccountsTyped
  PROVE  /\ Count(plan.warm) \in Stamps /\ Duration(plan.warm) \in Stamps
         /\ Count(plan.cool) \in Stamps /\ Duration(plan.cool) \in Stamps
         /\ plan.seconds \in Stamps /\ plan.total \in Nat
         /\ Duration(plan.cool) # NoValue => plan.seconds # NoValue
<1>1. /\ plan.warm \in Phases /\ plan.cool \in Phases /\ plan.seconds \in Stamps
      /\ plan.total \in Nat
  BY AccumulatorAssumption DEF AccountsTyped, Stamps
<1>2. ASSUME NEW phase \in Phases, NEW total \in Nat PROVE SizeOf(phase, total) \in Stamps
  <2>1. phase.percent \in {NoValue} \cup (0 .. 99) /\ phase.value \in Stamps
    BY DEF Phases, Stamps
  <2>2. ASSUME NEW p \in 0 .. 99 PROVE (p * total) \div 100 \in Nat
    <3>1. p * total \in Nat
      BY <2>2
    <3>2. \A k \in Nat : k \div 100 \in Nat
      OBVIOUS
    <3> QED
      BY <3>1, <3>2
  <2> QED
    BY <2>1, <2>2 DEF SizeOf, Stamps
<1>3. ASSUME NEW phase \in Phases
      PROVE  /\ Seconds(phase) \in Stamps /\ Count(phase) \in Stamps /\ Duration(phase) \in Stamps
             /\ Duration(phase) # NoValue => plan.seconds # NoValue
  <2>1. Seconds(phase) \in Stamps /\ (Seconds(phase) # NoValue => plan.seconds # NoValue)
    BY <1>1, <1>2 DEF Seconds, Stamps
  <2>2. Count(phase) \in Stamps
    BY <1>1, <1>2 DEF Count, Stamps
  <2> QED
    BY <2>1, <2>2 DEF Duration, Stamps
<1> QED
  BY <1>1, <1>3

\* What a delivered update is.
LEMMA DeliveredIs ==
  ASSUME AccountsInv, NEW r \in Requests, Deliver(r), NEW u, u = Head(inbox[r])
  PROVE  /\ u \in Messages /\ u.request = r /\ u.started \in {NoValue, work[r].resolved, work[r].sent}
         /\ inbox' = [inbox EXCEPT ![r] = Tail(inbox[r])]
         /\ Tail(inbox[r]) \in Seq(Messages) /\ SoundInbox(Tail(inbox[r]), work[r], r)
         /\ StatusesOf(inbox[r]) = StatusesOf(Tail(inbox[r])) \cup {u.status}
         /\ u.status \in Ended \/ work[r].aborts = 0 => u.status \notin StatusesOf(Tail(inbox[r]))
         /\ u.status \in Statuses /\ StatusesOf(inbox[r]) \subseteq Statuses
         /\ work[r].aborts = 0 =>
              /\ u.status # "in_progress" => "in_progress" \notin StatusesOf(inbox[r])
              /\ u.started # NoValue <=> work[r].resolved # NoValue
         /\ plan' = plan /\ clock' = clock /\ work' = work
         /\ group' = GroupAfter(u)
         /\ progress' = ProgressAfter(group', u)
         /\ timings' = TimingsAfter(timings, group', progress', u)
         /\ Measured(u) => Adds(u.status, u) /\ counted' = counted + 1 /\ made' = RequestsMade(group')
         /\ ~Measured(u) => /\ requests' = requests /\ samples' = samples
                            /\ counted' = counted /\ made' = made
<1>1. /\ work[r] \in Works /\ inbox[r] \in Seq(Messages)
      /\ SoundInbox(inbox[r], work[r], r)
      /\ inbox \in [Requests -> Seq(Messages)]
  BY AtWork DEF AccountsInv, AccountsTyped
<1>2. inbox[r] # <<>>
  BY DEF Deliver
<1>3. /\ u \in Messages /\ Tail(inbox[r]) \in Seq(Messages) /\ SoundInbox(Tail(inbox[r]), work[r], r)
      /\ StatusesOf(inbox[r]) = StatusesOf(Tail(inbox[r])) \cup {u.status}
      /\ u.status \in Ended \/ work[r].aborts = 0 => u.status \notin StatusesOf(Tail(inbox[r]))
      /\ u.request = r /\ u.started \in {NoValue, work[r].resolved, work[r].sent}
      /\ work[r].aborts = 0 =>
           /\ u.status # "in_progress" => "in_progress" \notin StatusesOf(inbox[r])
           /\ u.started # NoValue <=> work[r].resolved # NoValue
  BY <1>1, <1>2, InboxTail
<1>4. u.status \in Statuses
  BY <1>3 DEF Messages
<1>5. StatusesOf(inbox[r]) \subseteq Statuses
  <2>1. \A i \in 1 .. Len(inbox[r]) : inbox[r][i] \in Messages
    BY <1>1, ElementOfSeq
  <2> QED
    BY <2>1 DEF StatusesOf, Messages
<1>6. /\ plan' = plan /\ clock' = clock /\ work' = work
      /\ group' = GroupAfter(u)
      /\ progress' = ProgressAfter(group', u)
      /\ timings' = TimingsAfter(timings, group', progress', u)
      /\ Measured(u) => Adds(u.status, u) /\ counted' = counted + 1 /\ made' = RequestsMade(group')
      /\ ~Measured(u) => /\ requests' = requests /\ samples' = samples
                         /\ counted' = counted /\ made' = made
  BY DEF Deliver, workerVars, TotalRequests
<1>7. inbox' = [inbox EXCEPT ![r] = Tail(inbox[r])]
  BY <1>1 DEF Deliver
<1> QED
  BY <1>3, <1>4, <1>5, <1>6, <1>7

\* A sampled list of statistics.
SampleIsSound(s, c) ==
  /\ plan.samples \in Nat => Len(c) = Lesser(Len(s), plan.samples)
  /\ \A i, j \in 1 .. Len(c) :
       /\ c[i] \in 1 .. Len(s) /\ s[c[i]].data
       /\ c[i] = c[j] => i = j
  /\ plan.samples = 0 => \A i \in 1 .. Len(s) : ~s[i].data

LEMMA ClearedIs ==
  ASSUME NEW s \in Seq(Stats), NEW i \in 1 .. Len(s)
  PROVE  /\ Cleared(s, i) \in Seq(Stats) /\ Len(Cleared(s, i)) = Len(s)
         /\ \A j \in 1 .. Len(s) : /\ Cleared(s, i)[j].request = s[j].request
                                   /\ j # i => Cleared(s, i)[j] = s[j]
         /\ ~Cleared(s, i)[i].data
<1> DEFINE e == [s[i] EXCEPT !.data = FALSE]
<1>1. s[i] \in Stats
  BY ElementOfSeq
<1>2. e \in Stats /\ e.request = s[i].request /\ ~e.data
  BY <1>1 DEF Stats
<1>3. Cleared(s, i) = [s EXCEPT ![i] = e]
  BY DEF Cleared
<1> HIDE DEF e
<1>4. /\ [s EXCEPT ![i] = e] \in Seq(Stats) /\ Len([s EXCEPT ![i] = e]) = Len(s)
      /\ \A j \in 1 .. Len(s) : [s EXCEPT ![i] = e][j] = IF j = i THEN e ELSE s[j]
  BY <1>2, ExceptSeq
<1> QED
  BY <1>2, <1>3, <1>4

\* One more entry, with or without its data.
Lengthened(t, s, r) ==
  /\ t \in Seq(Stats) /\ Len(t) = Len(s) + 1
  /\ \A i \in 1 .. Len(s) : t[i].request = s[i].request
  /\ t[Len(s) + 1].request = r

LEMMA SampleGrows ==
  ASSUME AccountsTyped, NEW s \in Seq(Stats), NEW c \in Seq(Nat), SampleIsSound(s, c),
         NEW e \in Stats, e.data,
         NEW t, NEW d, NEW n, n = Len(s) + 1,
         \/ plan.samples = NoValue /\ t = Append(s, e) /\ d = c
         \/ plan.samples = 0 /\ t = Cleared(Append(s, e), n) /\ d = c
         \/ plan.samples \in Nat /\ n <= plan.samples /\ t = Append(s, e) /\ d = Append(c, n)
         \/ plan.samples \in Nat \ {0} /\ n > plan.samples /\ t = Append(s, e) /\ d = c
         \/ /\ plan.samples \in Nat \ {0} /\ n > plan.samples
            /\ \E i \in 1 .. Len(c) : t = Cleared(Append(s, e), c[i]) /\ d = [c EXCEPT ![i] = n]
  PROVE  Lengthened(t, s, e.request) /\ d \in Seq(Nat) /\ SampleIsSound(t, d)
<1> DEFINE a == Append(s, e)
<1>1. /\ a \in Seq(Stats) /\ Len(a) = n /\ n \in Nat \ {0} /\ Len(s) = n - 1
      /\ \A i \in 1 .. Len(s) : a[i] = s[i]
      /\ a[n] = e
  BY AppendProperties
<1>2. Lengthened(a, s, e.request)
  BY <1>1 DEF Lengthened
<1>3. ASSUME NEW k \in 1 .. n
      PROVE  /\ Lengthened(Cleared(a, k), s, e.request)
             /\ \A j \in 1 .. n : j # k => Cleared(a, k)[j] = a[j]
             /\ ~Cleared(a, k)[k].data /\ Len(Cleared(a, k)) = n
  <2>1. /\ Cleared(a, k) \in Seq(Stats) /\ Len(Cleared(a, k)) = Len(a)
        /\ \A j \in 1 .. Len(a) : /\ Cleared(a, k)[j].request = a[j].request
                                  /\ j # k => Cleared(a, k)[j] = a[j]
        /\ ~Cleared(a, k)[k].data
    BY <1>1, <1>3, ClearedIs
  <2>2. /\ n = Len(s) + 1 /\ a[n].request = e.request /\ n \in 1 .. n
        /\ \A i \in 1 .. Len(s) : i \in 1 .. n /\ a[i].request = s[i].request
    BY <1>1
  <2> HIDE DEF a
  <2>3. Lengthened(Cleared(a, k), s, e.request)
    BY <1>1, <2>1, <2>2 DEF Lengthened
  <2> QED
    BY <1>1, <2>1, <2>3
<1>4. /\ plan.samples \in Nat => Len(c) = Lesser(n - 1, plan.samples)
      /\ \A i, j \in 1 .. Len(c) :
           /\ c[i] \in 1 .. n - 1 /\ s[c[i]].data
           /\ c[i] = c[j] => i = j
      /\ plan.samples = 0 => \A i \in 1 .. n - 1 : ~s[i].data
      /\ Len(c) \in Nat
  BY <1>1 DEF SampleIsSound
<1>5. NoValue \notin Nat
  BY AccumulatorAssumption
<1> HIDE DEF a
<1>6. CASE plan.samples = NoValue /\ t = a /\ d = c
  <2>1. SampleIsSound(a, c)
    BY <1>1, <1>4, <1>5, <1>6 DEF SampleIsSound
  <2> QED
    BY <1>2, <1>6, <2>1
<1>7. CASE plan.samples = 0 /\ t = Cleared(a, n) /\ d = c
  <2>1. Len(c) = 0
    BY <1>1, <1>4, <1>7 DEF Lesser
  <2>2. \A i \in 1 .. n : ~t[i].data
    <3>1. \A i \in 1 .. n : i = n \/ i \in 1 .. n - 1
      BY <1>1
    <3> QED
      BY <1>1, <1>3, <1>4, <1>7, <3>1
  <2>3. Len(t) = n
    BY <1>1, <1>3, <1>7
  <2>4. SampleIsSound(t, d)
    BY <1>1, <1>7, <2>1, <2>2, <2>3 DEF SampleIsSound, Lesser
  <2> QED
    BY <1>1, <1>3, <1>7, <2>4
<1>8. CASE plan.samples \in Nat /\ n <= plan.samples /\ t = a /\ d = Append(c, n)
  <2>1. Len(c) = n - 1
    BY <1>1, <1>4, <1>8 DEF Lesser
  <2>2. /\ d \in Seq(Nat) /\ Len(d) = n /\ d[n] = n
        /\ \A i \in 1 .. n - 1 : d[i] = c[i]
    <3>1. /\ Append(c, n) \in Seq(Nat) /\ Len(Append(c, n)) = Len(c) + 1
          /\ Append(c, n)[Len(c) + 1] = n
          /\ \A i \in 1 .. Len(c) : Append(c, n)[i] = c[i]
      BY <1>1, AppendProperties
    <3> QED
      BY <1>1, <1>8, <2>1, <3>1
  <2>3. \A i \in 1 .. n : i = n \/ i \in 1 .. n - 1
    BY <1>1
  <2>4. \A i, j \in 1 .. n : /\ d[i] \in 1 .. n /\ a[d[i]].data
                             /\ d[i] = d[j] => i = j
    <3> SUFFICES ASSUME NEW i \in 1 .. n, NEW j \in 1 .. n
                 PROVE  d[i] \in 1 .. n /\ a[d[i]].data /\ (d[i] = d[j] => i = j)
      OBVIOUS
    <3>1. n \in 1 .. n /\ \A k \in 1 .. n - 1 : k \in 1 .. n /\ k # n
      BY <1>1
    <3>2. \A k \in 1 .. n - 1 : /\ d[k] \in 1 .. n - 1 /\ a[d[k]].data
                                 /\ \A l \in 1 .. n - 1 : d[k] = d[l] => k = l
      <4> SUFFICES ASSUME NEW k \in 1 .. n - 1, NEW l \in 1 .. n - 1
                   PROVE  d[k] \in 1 .. n - 1 /\ a[d[k]].data /\ (d[k] = d[l] => k = l)
        OBVIOUS
      <4>1. d[k] = c[k] /\ d[l] = c[l]
        BY <2>2
      <4>2. c[k] \in 1 .. n - 1 /\ s[c[k]].data /\ (c[k] = c[l] => k = l)
        BY <1>4, <2>1
      <4>3. a[c[k]] = s[c[k]]
        BY <1>1, <4>2
      <4> QED
        BY <4>1, <4>2, <4>3
    <3>3. d[n] = n /\ a[n].data
      BY <1>1, <2>2
    <3> QED
      BY <2>3, <3>1, <3>2, <3>3
  <2>5. SampleIsSound(a, d)
    BY <1>1, <1>8, <2>2, <2>4 DEF SampleIsSound, Lesser
  <2> QED
    BY <1>2, <1>8, <2>2, <2>5
<1>9. CASE plan.samples \in Nat \ {0} /\ n > plan.samples /\ t = a /\ d = c
  <2>1. SampleIsSound(a, c)
    BY <1>1, <1>4, <1>9 DEF SampleIsSound, Lesser
  <2> QED
    BY <1>2, <1>9, <2>1
<1>10. CASE /\ plan.samples \in Nat \ {0} /\ n > plan.samples
            /\ \E i \in 1 .. Len(c) : t = Cleared(a, c[i]) /\ d = [c EXCEPT ![i] = n]
  <2>1. PICK m \in 1 .. Len(c) : t = Cleared(a, c[m]) /\ d = [c EXCEPT ![m] = n]
    BY <1>10
  <2>2. c[m] \in 1 .. n - 1 /\ c[m] \in 1 .. n /\ c[m] # n
    BY <1>1, <1>4
  <2>3. /\ d \in Seq(Nat) /\ Len(d) = Len(c)
        /\ \A i \in 1 .. Len(c) : d[i] = IF i = m THEN n ELSE c[i]
    BY <1>1, <2>1, ExceptSeq
  <2>4. /\ Lengthened(t, s, e.request) /\ Len(t) = n
        /\ \A j \in 1 .. n : j # c[m] => t[j] = a[j]
    BY <1>3, <2>1, <2>2
  <2>5. ASSUME NEW i \in 1 .. Len(c), NEW j \in 1 .. Len(c)
        PROVE  d[i] \in 1 .. n /\ t[d[i]].data /\ (d[i] = d[j] => i = j)
    <3>1. /\ c[i] \in 1 .. n - 1 /\ c[j] \in 1 .. n - 1 /\ s[c[i]].data
          /\ (c[i] = c[j] => i = j) /\ (c[i] = c[m] => i = m)
      BY <1>4
    <3>2. c[i] # n /\ c[j] # n /\ n \in 1 .. n /\ c[i] \in 1 .. n
      <4>1. n \in Nat \ {0}
        BY <1>1
      <4>2. n \in 1 .. n /\ \A k \in 1 .. n - 1 : k # n /\ k \in 1 .. n
        BY <4>1
      <4> QED
        BY <3>1, <4>2
    <3>3. d[i] \in 1 .. n /\ d[i] # c[m]
      BY <2>2, <2>3, <3>1, <3>2
    <3>4. a[d[i]].data
      BY <1>1, <2>3, <3>1, <3>2
    <3> QED
      BY <2>3, <2>4, <3>1, <3>2, <3>3, <3>4
  <2>6. SampleIsSound(t, d)
    <3>1. Len(d) = Lesser(n, plan.samples)
      <4>1. Len(d) = Lesser(n - 1, plan.samples) /\ n \in Nat \ {0}
        BY <1>1, <1>4, <1>10, <2>3
      <4>2. plan.samples \in Nat \ {0} /\ n > plan.samples
        BY <1>10
      <4> QED
        BY <4>1, <4>2 DEF Lesser
    <3>2. plan.samples # 0
      BY <1>10
    <3> QED
      BY <2>3, <2>4, <2>5, <3>1, <3>2 DEF SampleIsSound
  <2> QED
    BY <2>3, <2>4, <2>6
<1> QED
  BY <1>6, <1>7, <1>8, <1>9, <1>10 DEF a

\* How the coordinator takes an update.
LEMMA DeliveryTells ==
  ASSUME AccountsInv, NEW r \in Requests, Deliver(r), NEW u, u = Head(inbox[r])
  PROVE  /\ group' \in [Requests -> Standings]
         /\ \A q \in Requests : q # r => group'[q] = group[q]
         /\ group[r] \in Outcomes => group'[r] = group[r]
         /\ ~Measured(u) => \A o \in Ended : group'[r] = o <=> group[r] = o
         /\ Measured(u) => u.status \in Outcomes
         /\ Measured(u) /\ (u.status \in Ended \/ work[r].aborts = 0) => u.status \notin Kept(r)
         /\ Story(work[r], StatusesOf(Tail(inbox[r])),
                  IF Measured(u) THEN Kept(r) \cup {u.status} ELSE Kept(r), group'[r])
<1> DEFINE C == StatusesOf(inbox[r])
           D == StatusesOf(Tail(inbox[r]))
           L == IF Measured(u) THEN Kept(r) \cup {u.status} ELSE Kept(r)
<1>1. /\ u.request = r /\ u.status \in Statuses /\ C \subseteq Statuses
      /\ C = D \cup {u.status}
      /\ u.status \in Ended \/ work[r].aborts = 0 => u.status \notin D
      /\ work[r].aborts = 0 =>
           /\ u.status # "in_progress" => "in_progress" \notin C
           /\ u.started # NoValue <=> work[r].resolved # NoValue
      /\ group' = GroupAfter(u)
  BY DeliveredIs
<1>2. group \in [Requests -> Standings] /\ group[r] \in Standings
  BY DEF AccountsInv, AccountsTyped
<1>3. Story(work[r], C, Kept(r), group[r])
  BY AtWork
<1>4. Measured(u) <=> u.status \in Ended \/ (u.status = "cancelled" /\ u.started # NoValue)
  BY DEF Measured, Outcomes, Ended
<1> HIDE DEF C, D, L
<1>5. /\ \/ group' = group
         \/ /\ group[r] \notin Outcomes /\ u.status # "first_token"
            /\ group' = [group EXCEPT ![r] = IF u.status = "in_progress" THEN "processing"
                                              ELSE u.status]
      /\ ~Accepted(u) \/ u.status = "first_token" => group' = group
      /\ Accepted(u) /\ u.status # "first_token" =>
           group' = [group EXCEPT ![r] = IF u.status = "in_progress" THEN "processing" ELSE u.status]
  <2>1. Accepted(u) /\ u.status # "first_token" => group[r] \in {"queued", "processing"}
    BY <1>1 DEF Accepted, Statuses, Outcomes
  <2>2. "queued" \notin Outcomes /\ "processing" \notin Outcomes
    BY DEF Outcomes
  <2> QED
    BY <1>1, <2>1, <2>2 DEF GroupAfter
<1>6. /\ group' \in [Requests -> Standings]
      /\ \A q \in Requests : q # r => group'[q] = group[q]
      /\ group[r] \in Outcomes => group'[r] = group[r]
      /\ group'[r] \in {group[r], u.status, "processing"}
      /\ group'[r] = u.status => u.status # "first_token"
  <2>1. u.status \in Statuses \ {"first_token", "in_progress"} => u.status \in Standings
    BY DEF Standings, Statuses
  <2>2. "processing" \in Standings /\ "first_token" \notin Standings
    BY DEF Standings, Outcomes
  <2>3. group' \in [Requests -> Standings]
    BY <1>1, <1>2, <1>5, <2>1, <2>2
  <2> QED
    BY <1>2, <1>5, <2>2, <2>3
<1>7. ~Measured(u) => \A o \in Ended : group'[r] = o <=> group[r] = o
  <2>1. ~Measured(u) => u.status \notin Ended
    BY <1>4
  <2>2. Ended \subseteq Outcomes /\ "processing" \notin Ended
    BY DEF Ended, Outcomes
  <2> QED
    BY <1>6, <2>1, <2>2
<1>8. /\ Story(work[r], D, L, group'[r])
      /\ Measured(u) /\ (u.status \in Ended \/ work[r].aborts = 0) => u.status \notin Kept(r)
  <2>1. CASE work[r].aborts # 0
    <3>1. /\ Kept(r) \subseteq L /\ L \subseteq Kept(r) \cup {u.status}
          /\ u.status \in Ended => u.status \in L
      BY <1>4 DEF L
    <3> QED
      BY <1>1, <1>3, <1>6, <2>1, <3>1, StoryOfAborted
  <2>2. CASE work[r].aborts = 0
    <3>1. D = C \ {u.status} /\ u.status \in C
      BY <1>1, <2>2
    <3>2. CASE u.status = "in_progress"
      <4>1. group[r] = "queued" /\ Story(work[r], D, Kept(r), "processing")
        BY <1>3, <2>2, <3>1, <3>2, StoryStarts
      <4>2. ~Measured(u)
        BY <1>4, <3>2 DEF Ended
      <4>3. Accepted(u)
        BY <1>1, <3>2, <4>1 DEF Accepted
      <4>4. group'[r] = "processing"
        BY <1>2, <1>5, <3>2, <4>3
      <4> QED
        BY <4>1, <4>2, <4>4 DEF L
    <3>3. CASE u.status = "first_token"
      <4>1. Story(work[r], D, Kept(r), group[r])
        BY <1>3, <2>2, <3>1, <3>3, StoryFlows
      <4>2. ~Measured(u)
        BY <1>4, <3>3 DEF Ended
      <4> QED
        BY <1>5, <3>3, <4>1, <4>2 DEF L
    <3>4. CASE u.status \in Outcomes /\ work[r].resolved = NoValue
      <4>1. /\ u.status = "cancelled" /\ group[r] = "queued" /\ Story(work[r], D, Kept(r), u.status)
        <5>1. Story(work[r], C, Kept(r), group[r]) /\ u.status \in Statuses /\ u.status \in C
          BY <1>1, <1>3, <3>1
        <5>2. /\ u.status = "cancelled" /\ group[r] = "queued"
              /\ Story(work[r], C \ {u.status}, Kept(r), u.status)
          BY <2>2, <3>4, <5>1, StoryForgets
        <5> QED
          BY <3>1, <5>2
      <4>2. ~Measured(u)
        BY <1>1, <1>4, <2>2, <3>4, <4>1 DEF Ended
      <4>3. Accepted(u)
        BY <1>1, <4>1 DEF Accepted
      <4>4. group'[r] = u.status
        BY <1>2, <1>5, <4>1, <4>3
      <4> QED
        BY <4>1, <4>2, <4>4 DEF L
    <3>5. CASE u.status \in Outcomes /\ work[r].resolved # NoValue
      <4>1. u.status # "in_progress" /\ u.status # "first_token"
        BY <3>5 DEF Outcomes
      <4>2. /\ group[r] = "processing" /\ u.status \notin Kept(r)
            /\ Story(work[r], D, Kept(r) \cup {u.status}, u.status)
        <5>1. /\ Story(work[r], C, Kept(r), group[r]) /\ group[r] \in Standings
              /\ C \subseteq Statuses /\ u.status \in C /\ "in_progress" \notin C
          BY <1>1, <1>2, <1>3, <2>2, <3>1, <4>1
        <5>2. /\ group[r] = "processing" /\ u.status \notin Kept(r)
              /\ Story(work[r], C \ {u.status}, Kept(r) \cup {u.status}, u.status)
          BY <2>2, <3>5, <5>1, StoryFinalizes
        <5> QED
          BY <3>1, <5>2
      <4>3. Measured(u)
        BY <1>1, <2>2, <3>5 DEF Measured
      <4>4. Accepted(u)
        BY <1>1, <4>1, <4>2 DEF Accepted
      <4>5. group'[r] = u.status
        BY <1>2, <1>5, <4>1, <4>4
      <4> QED
        BY <4>2, <4>3, <4>5 DEF L
    <3> QED
      BY <1>1, <3>2, <3>3, <3>4, <3>5 DEF Statuses
  <2> QED
    BY <2>1, <2>2
<1>9. Measured(u) => u.status \in Outcomes
  BY DEF Measured
<1> QED
  BY <1>6, <1>7, <1>8, <1>9 DEF D, L

\* The entries an update adds.
LEMMA AddsIs ==
  ASSUME AccountsInv, NEW u \in Messages, NEW o \in Outcomes, Adds(o, u)
  PROVE  /\ requests' \in [Outcomes -> Seq(Stats)] /\ samples' \in [Outcomes -> Seq(Nat)]
         /\ \A p \in Outcomes : p # o => requests'[p] = requests[p] /\ samples'[p] = samples[p]
         /\ Lengthened(requests'[o], requests[o], u.request)
         /\ SampleIsSound(requests'[o], samples'[o])
<1>1. /\ AccountsTyped /\ SamplesKeepTheirData
      /\ requests \in [Outcomes -> Seq(Stats)] /\ samples \in [Outcomes -> Seq(Nat)]
  BY DEF AccountsInv, AccountsTyped
<1>2. requests[o] \in Seq(Stats) /\ samples[o] \in Seq(Nat) /\ SampleIsSound(requests[o], samples[o])
  BY <1>1 DEF SamplesKeepTheirData, SampleIsSound
<1>3. PICK e : e = [request |-> u.request, data |-> TRUE, started |-> u.started, ended |-> u.completed]
  OBVIOUS
<1>4. e \in Stats /\ e.data /\ e.request = u.request
  BY <1>3 DEF Stats, Messages
<1>5. PICK n : n = Len(requests[o]) + 1
  OBVIOUS
<1>6. Len(Append(requests[o], e)) = n
  BY <1>2, <1>4, <1>5, AppendProperties
<1>7. PICK t, d :
        /\ requests' = [requests EXCEPT ![o] = t] /\ samples' = [samples EXCEPT ![o] = d]
        /\ \/ plan.samples = NoValue /\ t = Append(requests[o], e) /\ d = samples[o]
           \/ plan.samples = 0 /\ t = Cleared(Append(requests[o], e), n) /\ d = samples[o]
           \/ /\ plan.samples \in Nat /\ n <= plan.samples
              /\ t = Append(requests[o], e) /\ d = Append(samples[o], n)
           \/ /\ plan.samples \in Nat \ {0} /\ n > plan.samples
              /\ t = Append(requests[o], e) /\ d = samples[o]
           \/ /\ plan.samples \in Nat \ {0} /\ n > plan.samples
              /\ \E i \in 1 .. Len(samples[o]) :
                   /\ t = Cleared(Append(requests[o], e), samples[o][i])
                   /\ d = [samples[o] EXCEPT ![i] = n]
  <2> DEFINE stats == Append(requests[o], e)
             Keep(s, chosen) ==
               /\ requests' = [requests EXCEPT ![o] = s]
               /\ samples' = [samples EXCEPT ![o] = chosen]
  <2>1. \/ plan.samples = NoValue /\ Keep(stats, samples[o])
        \/ plan.samples = 0 /\ Keep(Cleared(stats, n), samples[o])
        \/ plan.samples \in Nat /\ n <= plan.samples /\ Keep(stats, Append(samples[o], n))
        \/ /\ plan.samples \in Nat \ {0} /\ n > plan.samples
           /\ \/ Keep(stats, samples[o])
              \/ \E i \in 1 .. Len(samples[o]) :
                   Keep(Cleared(stats, samples[o][i]), [samples[o] EXCEPT ![i] = n])
    BY <1>3, <1>6 DEF Adds
  <2> QED
    BY <2>1
<1>8. Lengthened(t, requests[o], e.request) /\ d \in Seq(Nat) /\ SampleIsSound(t, d)
  <2>1. /\ \/ plan.samples = NoValue /\ t = Append(requests[o], e) /\ d = samples[o]
           \/ plan.samples = 0 /\ t = Cleared(Append(requests[o], e), n) /\ d = samples[o]
           \/ /\ plan.samples \in Nat /\ n <= plan.samples
              /\ t = Append(requests[o], e) /\ d = Append(samples[o], n)
           \/ /\ plan.samples \in Nat \ {0} /\ n > plan.samples
              /\ t = Append(requests[o], e) /\ d = samples[o]
           \/ /\ plan.samples \in Nat \ {0} /\ n > plan.samples
              /\ \E i \in 1 .. Len(samples[o]) :
                   /\ t = Cleared(Append(requests[o], e), samples[o][i])
                   /\ d = [samples[o] EXCEPT ![i] = n]
        /\ AccountsTyped /\ e \in Stats /\ e.data /\ n = Len(requests[o]) + 1
    BY <1>1, <1>4, <1>5, <1>7
  <2> QED
    BY <1>2, <2>1, SampleGrows, Zenon
<1>9. t \in Seq(Stats)
  BY <1>8 DEF Lengthened
<1>10. requests'[o] = t /\ samples'[o] = d
  BY <1>1, <1>7
<1>11. requests' \in [Outcomes -> Seq(Stats)] /\ samples' \in [Outcomes -> Seq(Nat)]
  BY <1>1, <1>7, <1>8, <1>9
<1>12. \A p \in Outcomes : p # o => requests'[p] = requests[p] /\ samples'[p] = samples[p]
  BY <1>1, <1>7
<1> QED
  BY <1>4, <1>8, <1>10, <1>11, <1>12

LEMMA LengthenedIs ==
  ASSUME NEW s \in Seq(Stats), NEW t, NEW r, Lengthened(t, s, r)
  PROVE  /\ \A q : (\E i \in 1 .. Len(t) : t[i].request = q)
                     <=> (q = r \/ \E i \in 1 .. Len(s) : s[i].request = q)
         /\ \A Q : /\ Distinct(s, Q)
                   /\ r \notin Q \/ \A i \in 1 .. Len(s) : s[i].request # r
                   => Distinct(t, Q)
<1> DEFINE n == Len(s)
<1>1. /\ n \in Nat /\ Len(t) = n + 1
      /\ \A i \in 1 .. n : t[i].request = s[i].request
      /\ t[n + 1].request = r
  BY DEF Lengthened
<1>2. /\ \A i \in 1 .. n + 1 : i \in 1 .. n \/ i = n + 1
      /\ n + 1 \in 1 .. n + 1 /\ \A i \in 1 .. n : i \in 1 .. n + 1
  BY <1>1
<1> HIDE DEF n
<1>3. ASSUME NEW q
      PROVE  (\E i \in 1 .. n + 1 : t[i].request = q) <=> (q = r \/ \E i \in 1 .. n : s[i].request = q)
  BY <1>1, <1>2
<1>4. ASSUME NEW Q, \A i, j \in 1 .. n : s[i].request = s[j].request /\ s[i].request \in Q => i = j,
             r \notin Q \/ \A i \in 1 .. n : s[i].request # r,
             NEW i \in 1 .. n + 1, NEW j \in 1 .. n + 1, t[i].request = t[j].request, t[i].request \in Q
      PROVE  i = j
  BY <1>1, <1>2, <1>4
<1> QED
  BY <1>1, <1>3, <1>4 DEF n, Distinct

\* What is kept after a delivery: only the request the update is of has a new entry, if any.
LEMMA DeliveryKeeps ==
  ASSUME AccountsInv, NEW r \in Requests, Deliver(r), NEW u, u = Head(inbox[r])
  PROVE  /\ requests' \in [Outcomes -> Seq(Stats)] /\ samples' \in [Outcomes -> Seq(Nat)]
         /\ SamplesKeepTheirData' /\ EntriesDiffer'
         /\ \A q \in Requests : q # r => Kept(q)' = Kept(q)
         /\ Kept(r)' = IF Measured(u) THEN Kept(r) \cup {u.status} ELSE Kept(r)
         /\ \A o \in Outcomes : Len(requests'[o]) =
              IF Measured(u) /\ o = u.status THEN Len(requests[o]) + 1 ELSE Len(requests[o])
<1>1. /\ u \in Messages /\ u.request = r /\ plan' = plan /\ work' = work
      /\ Measured(u) => Adds(u.status, u)
      /\ ~Measured(u) => requests' = requests /\ samples' = samples
  BY DeliveredIs
<1>2. /\ AccountsTyped /\ SamplesKeepTheirData /\ EntriesDiffer
      /\ requests \in [Outcomes -> Seq(Stats)] /\ samples \in [Outcomes -> Seq(Nat)]
  BY DEF AccountsInv, AccountsTyped
<1>3. CASE ~Measured(u)
  <2>1. SamplesKeepTheirData'
    BY <1>1, <1>2, <1>3 DEF SamplesKeepTheirData
  <2>3. EntriesDiffer'
    <3>1. \A p : Single(p)' = Single(p)
      BY <1>1 DEF Single, Requests
    <3> QED
      BY <1>1, <1>2, <1>3, <3>1 DEF EntriesDiffer, Distinct
  <2>2. \A q \in Requests : Kept(q)' = Kept(q)
    BY <1>1, <1>3 DEF Kept
  <2> QED
    BY <1>1, <1>2, <1>3, <2>1, <2>2, <2>3
<1>4. CASE Measured(u)
  <2> DEFINE o == u.status
  <2>1. o \in Outcomes
    BY <1>4 DEF Measured
  <2> HIDE DEF o
  <2>2. /\ requests' \in [Outcomes -> Seq(Stats)] /\ samples' \in [Outcomes -> Seq(Nat)]
        /\ \A p \in Outcomes : p # o => requests'[p] = requests[p] /\ samples'[p] = samples[p]
        /\ Lengthened(requests'[o], requests[o], r)
        /\ SampleIsSound(requests'[o], samples'[o])
    BY <1>1, <1>4, <2>1, AddsIs DEF o
  <2>3. SamplesKeepTheirData'
    <3>1. \A p \in Outcomes : SampleIsSound(requests'[p], samples'[p])
      <4>1. ASSUME NEW p \in Outcomes, p # o PROVE SampleIsSound(requests'[p], samples'[p])
        BY <1>2, <2>2, <4>1 DEF SamplesKeepTheirData, SampleIsSound
      <4> QED
        BY <2>2, <4>1
    <3> QED
      BY <1>1, <3>1 DEF SamplesKeepTheirData, SampleIsSound
  <2>4. requests[o] \in Seq(Stats)
    BY <1>2, <2>1
  <2>5. /\ \A q : (\E i \in 1 .. Len(requests'[o]) : requests'[o][i].request = q)
                    <=> (q = r \/ \E i \in 1 .. Len(requests[o]) : requests[o][i].request = q)
        /\ \A Q : /\ Distinct(requests[o], Q)
                  /\ r \notin Q \/ \A i \in 1 .. Len(requests[o]) : requests[o][i].request # r
                  => Distinct(requests'[o], Q)
    BY <2>2, <2>4, LengthenedIs
  <2>6. ASSUME NEW q \in Requests
        PROVE  Kept(q)' = IF q = r THEN Kept(q) \cup {o} ELSE Kept(q)
    <3>1. ASSUME NEW p \in Outcomes
          PROVE  (\E i \in 1 .. Len(requests'[p]) : requests'[p][i].request = q)
                   <=> ((p = o /\ q = r) \/ \E i \in 1 .. Len(requests[p]) : requests[p][i].request = q)
      <4>1. CASE p = o
        BY <2>5, <4>1
      <4>2. CASE p # o
        BY <2>2, <4>2
      <4> QED
        BY <4>1, <4>2
    <3>2. \A p : p \in Kept(q)' <=> p \in Outcomes /\ ((p = o /\ q = r) \/ p \in Kept(q))
      BY <3>1 DEF Kept
    <3> QED
      BY <2>1, <3>2 DEF Kept
  <2>7. /\ Kept(r)' = Kept(r) \cup {o}
        /\ \A q \in Requests : q # r => Kept(q)' = Kept(q)
    BY <2>6
  <2>8. \A p \in Outcomes : Len(requests'[p]) = IF p = o THEN Len(requests[p]) + 1 ELSE Len(requests[p])
    BY <2>2 DEF Lengthened
  <2>9. r \notin Single(o) \/ o \notin Kept(r)
    <3>1. o \in Ended \/ work[r].aborts = 0 => o \notin Kept(r)
      BY <1>4, DeliveryTells DEF o
    <3> QED
      BY <3>1 DEF Single
  <2>10. EntriesDiffer'
    <3>1. \A p : Single(p)' = Single(p)
      BY <1>1 DEF Single, Requests
    <3>2. r \notin Single(o) \/ \A i \in 1 .. Len(requests[o]) : requests[o][i].request # r
      BY <2>1, <2>9 DEF Kept
    <3>3. Distinct(requests'[o], Single(o))
      BY <1>2, <2>1, <2>5, <3>2 DEF EntriesDiffer
    <3>4. ASSUME NEW p \in Outcomes, p # o PROVE Distinct(requests'[p], Single(p))
      BY <1>2, <2>2, <3>4 DEF EntriesDiffer
    <3> QED
      BY <3>1, <3>3, <3>4 DEF EntriesDiffer, Distinct
  <2> QED
    BY <1>4, <2>2, <2>3, <2>7, <2>8, <2>10 DEF o
<1> QED
  BY <1>3, <1>4

LEMMA DeliveryOfStories ==
  ASSUME AccountsInv, NEW r \in Requests, Deliver(r)
  PROVE  \A q \in Requests : (InboxIsSound(q) /\ Tells(q))'
<1>1. PICK u : u = Head(inbox[r])
  OBVIOUS
<1>2. /\ inbox' = [inbox EXCEPT ![r] = Tail(inbox[r])] /\ work' = work
      /\ SoundInbox(Tail(inbox[r]), work[r], r)
  BY <1>1, DeliveredIs
<1>3. /\ \A q \in Requests : q # r => group'[q] = group[q]
      /\ Story(work[r], StatusesOf(Tail(inbox[r])),
               IF Measured(u) THEN Kept(r) \cup {u.status} ELSE Kept(r), group'[r])
  BY <1>1, DeliveryTells
<1>4. /\ \A q \in Requests : q # r => Kept(q)' = Kept(q)
      /\ Kept(r)' = IF Measured(u) THEN Kept(r) \cup {u.status} ELSE Kept(r)
  BY <1>1, DeliveryKeeps
<1>5. /\ inbox \in [Requests -> Seq(Messages)]
      /\ \A q \in Requests : InboxIsSound(q) /\ Tells(q)
  BY DEF AccountsInv, AccountsTyped
<1>6. inbox'[r] = Tail(inbox[r]) /\ \A q \in Requests : q # r => inbox'[q] = inbox[q]
  BY <1>2, <1>5
<1>7. (InboxIsSound(r) /\ Tells(r))'
  <2>1. Story(work[r], StatusesOf(inbox'[r]), Kept(r)', group'[r])
    BY <1>3, <1>4, <1>6
  <2> QED
    BY <1>2, <1>6, <2>1 DEF InboxIsSound, Tells, Coming
<1>8. ASSUME NEW q \in Requests, q # r PROVE (InboxIsSound(q) /\ Tells(q))'
  BY <1>2, <1>3, <1>4, <1>5, <1>6, <1>8 DEF InboxIsSound, Tells, Coming
<1> QED
  BY <1>7, <1>8

\* A set of requests is finite, and no larger than the run.
LEMMA RequestsAreFinite ==
  ASSUME AccountsTyped, NEW S, S \subseteq Requests
  PROVE  IsFiniteSet(S) /\ Cardinality(S) \in 0 .. plan.total
<1>1. plan.total \in Nat
  BY SizeTyped
<1>2. IsFiniteSet(1 .. plan.total) /\ Cardinality(1 .. plan.total) = plan.total
  <2>1. /\ IsFiniteSet(1 .. plan.total)
        /\ Cardinality(1 .. plan.total) = IF 1 > plan.total THEN 0 ELSE plan.total - 1 + 1
    BY <1>1, FS_Interval
  <2> QED
    BY <1>1, <2>1
<1>3. IsFiniteSet(S) /\ Cardinality(S) <= Cardinality(1 .. plan.total)
  BY <1>2, FS_Subset DEF Requests
<1>4. Cardinality(S) \in Nat
  BY <1>3, FS_CardinalityType
<1> QED
  BY <1>1, <1>2, <1>3, <1>4

LEMMA DeliveryCounts ==
  ASSUME AccountsInv, NEW r \in Requests, Deliver(r)
  PROVE  EntriesAreListed' /\ CountedIsAll' /\ MadeIsCurrent' /\ made' \in [Outcomes -> 0 .. plan.total]
<1>1. PICK u : u = Head(inbox[r])
  OBVIOUS
<1>2. /\ plan' = plan
      /\ Measured(u) => counted' = counted + 1 /\ made' = RequestsMade(group')
      /\ ~Measured(u) => counted' = counted /\ made' = made
  BY <1>1, DeliveredIs
<1>3. /\ group' \in [Requests -> Standings]
      /\ \A q \in Requests : q # r => group'[q] = group[q]
      /\ ~Measured(u) => \A o \in Ended : group'[r] = o <=> group[r] = o
      /\ Measured(u) /\ u.status \in Ended => u.status \notin Kept(r)
  BY <1>1, DeliveryTells
<1>4. /\ \A q \in Requests : q # r => Kept(q)' = Kept(q)
      /\ Kept(r)' = IF Measured(u) THEN Kept(r) \cup {u.status} ELSE Kept(r)
      /\ \A o \in Outcomes : Len(requests'[o]) =
           IF Measured(u) /\ o = u.status THEN Len(requests[o]) + 1 ELSE Len(requests[o])
  BY <1>1, DeliveryKeeps
<1>5. /\ AccountsTyped /\ EntriesAreListed /\ MadeIsCurrent /\ CountedIsAll
      /\ requests \in [Outcomes -> Seq(Stats)] /\ made \in [Outcomes -> 0 .. plan.total] /\ counted \in Nat
      /\ group \in [Requests -> Standings]
  BY DEF AccountsInv, AccountsTyped
<1>6. Requests' = Requests
  BY <1>2 DEF Requests
<1>7. Measured(u) => u.status \in Outcomes
  BY DEF Measured
<1>8. \A o \in Outcomes : Len(requests[o]) \in Nat
  BY <1>5
<1>9. EntriesAreListed'
  <2>1. ASSUME NEW o \in Ended
        PROVE  Listed(o)' = IF Measured(u) /\ o = u.status THEN Listed(o) \cup {r} ELSE Listed(o)
    <3>1. \A q \in Requests : o \in Kept(q)' <=> (o \in Kept(q) \/ (q = r /\ Measured(u) /\ o = u.status))
      BY <1>4
    <3> HIDE DEF Kept
    <3> QED
      BY <1>6, <3>1 DEF Listed
  <2>2. ASSUME NEW o \in Ended PROVE Len(requests'[o]) = Cardinality(Listed(o)')
    <3>1. CASE Measured(u) /\ o = u.status
      <4>1. Listed(o)' = Listed(o) \cup {r} /\ Len(requests'[o]) = Len(requests[o]) + 1
        BY <1>4, <1>7, <2>1, <3>1
      <4>2. r \notin Listed(o)
        BY <1>3, <3>1 DEF Listed
      <4>3. IsFiniteSet(Listed(o)) /\ Len(requests[o]) = Cardinality(Listed(o))
        BY <1>5, RequestsAreFinite DEF Listed, EntriesAreListed
      <4>4. Cardinality(Listed(o) \cup {r}) = Cardinality(Listed(o)) + 1
        BY <4>2, <4>3, FS_AddElement
      <4> QED
        BY <4>1, <4>3, <4>4
    <3>2. CASE ~(Measured(u) /\ o = u.status)
      BY <1>4, <1>5, <2>1, <3>2 DEF EntriesAreListed, Ended, Outcomes
    <3> QED
      BY <3>1, <3>2
  <2> QED
    BY <2>2 DEF EntriesAreListed, Ended
<1>10. CountedIsAll'
  <2>1. \A o \in Outcomes : o = "completed" \/ o = "errored" \/ o = "cancelled"
    BY DEF Outcomes
  <2>2. "completed" \in Outcomes /\ "errored" \in Outcomes /\ "cancelled" \in Outcomes
    BY DEF Outcomes
  <2>3. counted = Len(requests["completed"]) + Len(requests["errored"]) + Len(requests["cancelled"])
    BY <1>5 DEF CountedIsAll
  <2>4. /\ Len(requests["completed"]) \in Nat /\ Len(requests["errored"]) \in Nat
        /\ Len(requests["cancelled"]) \in Nat
    BY <1>8, <2>2
  <2> QED
    <3>1. CASE ~Measured(u)
      BY <1>2, <1>4, <2>2, <2>3, <3>1 DEF CountedIsAll
    <3>2. PICK a \in Nat, b \in Nat, c \in Nat :
            /\ a = Len(requests["completed"]) /\ b = Len(requests["errored"])
            /\ c = Len(requests["cancelled"])
      BY <2>4
    <3>3. counted = a + b + c
      BY <2>3, <3>2
    <3>4. CASE Measured(u)
      <4>1. counted' = a + b + c + 1
        BY <1>2, <3>3, <3>4
      <4>2. /\ Len(requests'["completed"]) = IF u.status = "completed" THEN a + 1 ELSE a
            /\ Len(requests'["errored"]) = IF u.status = "errored" THEN b + 1 ELSE b
            /\ Len(requests'["cancelled"]) = IF u.status = "cancelled" THEN c + 1 ELSE c
        BY <1>4, <2>2, <3>2, <3>4
      <4>3. CASE u.status = "completed"
        BY <4>1, <4>2, <4>3 DEF CountedIsAll
      <4>4. CASE u.status = "errored"
        BY <4>1, <4>2, <4>4 DEF CountedIsAll
      <4>5. CASE u.status = "cancelled"
        BY <4>1, <4>2, <4>5 DEF CountedIsAll
      <4> QED
        BY <1>7, <2>1, <3>4, <4>3, <4>4, <4>5
    <3> QED
      BY <3>1, <3>4
<1>11. ASSUME NEW o
       PROVE  /\ With(group, {o})' = With(group', {o})
              /\ With(group', {o}) \in 0 .. plan.total /\ With(group', {o}) \in Nat
  <2>1. With(group, {o})' = With(group', {o})
    BY <1>6 DEF With
  <2>2. Cardinality({q \in Requests : group'[q] \in {o}}) \in 0 .. plan.total
    BY <1>5, RequestsAreFinite
  <2>3. plan.total \in Nat
    BY <1>5, SizeTyped
  <2> QED
    BY <2>1, <2>2, <2>3 DEF With
<1>13. CASE Measured(u)
  <2>1. \A o \in Outcomes : made'[o] = With(group', {o})
    BY <1>2, <1>13 DEF RequestsMade
  <2>3. made' \in [Outcomes -> 0 .. plan.total]
    <3>1. made' = [o \in Outcomes |-> made'[o]]
      BY <1>2, <1>13 DEF RequestsMade
    <3>2. \A o \in Outcomes : made'[o] \in 0 .. plan.total
      BY <1>11, <2>1
    <3> QED
      BY <3>1, <3>2
  <2>4. MadeIsCurrent'
    <3>1. "completed" \in Outcomes /\ "errored" \in Outcomes /\ "cancelled" \in Outcomes
      BY DEF Outcomes
    <3> QED
      BY <1>2, <1>11, <2>1, <3>1 DEF MadeIsCurrent, Ended
  <2> QED
    BY <1>9, <1>10, <2>3, <2>4
<1>14. CASE ~Measured(u)
  <2>1. ASSUME NEW o \in Ended
        PROVE  With(group', {o}) = made[o]
    <3>1. \A q \in Requests : group'[q] = o <=> group[q] = o
      BY <1>3, <1>14, <2>1
    <3>2. {q \in Requests : group'[q] \in {o}} = {q \in Requests : group[q] \in {o}}
      BY <3>1
    <3> QED
      BY <1>5, <3>2 DEF MadeIsCurrent, With
  <2>2. MadeIsCurrent'
    BY <1>2, <1>5, <1>11, <1>14, <2>1 DEF MadeIsCurrent
  <2> QED
    BY <1>2, <1>5, <1>9, <1>10, <1>14, <2>2
<1> QED
  BY <1>13, <1>14

LEMMA DeliveryProcesses ==
  ASSUME AccountsInv, NEW r \in Requests, Deliver(r)
  PROVE  /\ Processed(group) \in Nat
         /\ Processed(group)' = Processed(group')
         /\ \/ Processed(group') = Processed(group)
            \/ Processed(group') = Processed(group) + 1 /\ group'[r] \in Outcomes
<1>1. PICK u : u = Head(inbox[r])
  OBVIOUS
<1>2. /\ \A q \in Requests : q # r => group'[q] = group[q]
      /\ group[r] \in Outcomes => group'[r] = group[r]
  BY <1>1, DeliveryTells
<1>3. plan' = plan
  BY <1>1, DeliveredIs
<1>4. Processed(group)' = Processed(group')
  BY <1>3 DEF Processed, With, Requests
<1> DEFINE P == {q \in Requests : group[q] \in Outcomes}
           Q == {q \in Requests : group'[q] \in Outcomes}
<1>5. IsFiniteSet(P) /\ Cardinality(P) \in 0 .. plan.total /\ plan.total \in Nat
  BY RequestsAreFinite, SizeTyped DEF AccountsInv
<1>6. Processed(group) = Cardinality(P) /\ Processed(group') = Cardinality(Q)
  BY DEF Processed, With
<1>7. CASE group[r] \in Outcomes \/ group'[r] \notin Outcomes
  <2>1. P = Q
    BY <1>2, <1>7
  <2> HIDE DEF P, Q
  <2> QED
    BY <1>4, <1>5, <1>6, <2>1
<1>8. CASE group[r] \notin Outcomes /\ group'[r] \in Outcomes
  <2>1. Q = P \cup {r} /\ r \notin P
    BY <1>2, <1>8
  <2> HIDE DEF P, Q
  <2>2. Cardinality(Q) = Cardinality(P) + 1
    BY <1>5, <2>1, FS_AddElement
  <2> QED
    BY <1>4, <1>5, <1>6, <1>8, <2>2
<1> QED
  BY <1>7, <1>8

LEMMA StampsStay ==
  /\ \A x, y \in Stamps : /\ Given(x, y) \in Stamps /\ Later(x, y) \in Stamps
                          /\ Earlier(x, y) \in Stamps
                          /\ x # NoValue /\ y # NoValue => Greater(x, y) \in Nat /\ Greater(x, y) >= y
  /\ NoValue \notin Nat
BY AccumulatorAssumption DEF Given, Later, Earlier, Greater, Lesser, Stamps

\* The instants a delivery leaves.
LEMMA DeliveryTimes ==
  ASSUME AccountsInv, NEW r \in Requests, Deliver(r), NEW u, u = Head(inbox[r])
  PROVE  /\ progress' \in [start : Stamps, stop : Stamps, ended : Stamps]
         /\ timings'.requestStart = progress'.start
         /\ timings'.update = Later(timings.update, u.reported) /\ timings'.update \in Stamps
         /\ timings'.measureStart = IF ~Active(plan.warm) THEN progress'.start
                                    ELSE Given(WarmupEnds(group', u), timings.measureStart)
         /\ timings'.measureStart \in Stamps
<1>1. /\ u \in Messages /\ plan' = plan /\ clock' = clock
      /\ progress' = ProgressAfter(group', u)
      /\ timings' = TimingsAfter(timings, group', progress', u)
  BY DeliveredIs
<1>2. /\ progress \in [start : Stamps, stop : Stamps, ended : Stamps] /\ clock \in Stamps
      /\ timings.update \in Stamps /\ timings.measureStart \in Stamps
  BY DEF AccountsInv, AccountsTyped, Stamps
<1>3. u.sent \in Stamps /\ u.completed \in Stamps /\ u.reported \in Stamps /\ u.started \in Stamps
  BY <1>1 DEF Messages
<1>4. plan.seconds \in Stamps /\ Duration(plan.warm) \in Stamps
  BY SizeTyped DEF AccountsInv
<1>5. PICK start : start = IF Accepted(u) THEN Earlier(progress.start, u.sent) ELSE progress.start
  OBVIOUS
<1>6. start \in Stamps /\ NoValue \in Stamps
  BY <1>2, <1>3, <1>5, StampsStay DEF Stamps
<1>7. TimeStop(start) \in Stamps
  <2>1. Given(start, 0) \in Nat
    BY <1>6 DEF Given, Stamps
  <2> QED
    BY <1>4, <2>1 DEF TimeStop, Stamps
<1>8. CountStop(group', u) \in Stamps
  BY <1>2, <1>3, <1>6, StampsStay DEF CountStop
<1>9. PICK stop : stop = Earlier(CountStop(group', u), TimeStop(start))
  OBVIOUS
<1>10. stop \in Stamps
  BY <1>7, <1>8, <1>9, StampsStay
<1>11. progress' = [start |-> start, stop |-> Earlier(progress.stop, stop),
                    ended |-> IF stop # NoValue THEN Given(progress.ended, clock) ELSE progress.ended]
  BY <1>1, <1>5, <1>9 DEF ProgressAfter
<1>12. Earlier(progress.stop, stop) \in Stamps /\ Given(progress.ended, clock) \in Stamps
       /\ progress.ended \in Stamps
  BY <1>2, <1>10, StampsStay
<1>13. progress' \in [start : Stamps, stop : Stamps, ended : Stamps]
  BY <1>6, <1>11, <1>12
<1>14. /\ timings'.requestStart = progress'.start
       /\ timings'.update = Later(timings.update, u.reported)
       /\ timings'.measureStart = IF ~Active(plan.warm) THEN progress'.start
                                  ELSE Given(WarmupEnds(group', u), timings.measureStart)
  BY <1>1 DEF TimingsAfter, Reported
<1>15. WarmupEnds(group', u) \in Stamps
  <2>1. StartByCount(group', u) \in Stamps
    BY <1>3, <1>6 DEF StartByCount
  <2>2. StartByCount(group', u) # NoValue /\ Duration(plan.warm) # NoValue
          => Greater(StartByCount(group', u), Duration(plan.warm)) \in Stamps
    BY <1>4, <2>1, StampsStay DEF Stamps
  <2> QED
    BY <1>4, <1>6, <2>1, <2>2 DEF WarmupEnds, Transition
<1>16. timings'.measureStart \in Stamps /\ timings'.update \in Stamps
  BY <1>2, <1>3, <1>6, <1>11, <1>14, <1>15, StampsStay
<1> QED
  BY <1>13, <1>14, <1>16

\* The end of the warmup, in terms of the count that is reached.
LEMMA WarmupEndsAt ==
  ASSUME AccountsTyped, NEW u \in Messages, NEW g, Count(plan.warm) # NoValue
  PROVE  /\ WarmupEnds(g, u) # NoValue =>
              /\ Processed(g) = Count(plan.warm) + 1 /\ u.started # NoValue
              /\ WarmupEnds(g, u) = IF Duration(plan.warm) = NoValue THEN u.started
                                    ELSE Greater(u.started, Duration(plan.warm))
         /\ Processed(g) = Count(plan.warm) + 1 /\ u.started # NoValue => WarmupEnds(g, u) # NoValue
<1>1. Duration(plan.warm) \in Stamps
  BY SizeTyped
<1>2. u.started \in Stamps
  BY DEF Messages
<1>3. StartByCount(g, u) = IF Processed(g) = Count(plan.warm) + 1 THEN u.started ELSE NoValue
  BY DEF StartByCount
<1>4. CASE Duration(plan.warm) = NoValue
  BY <1>3, <1>4 DEF WarmupEnds, Transition
<1>5. CASE Duration(plan.warm) # NoValue
  <2>1. WarmupEnds(g, u) = IF StartByCount(g, u) = NoValue THEN NoValue
                           ELSE Greater(StartByCount(g, u), Duration(plan.warm))
    BY <1>5 DEF WarmupEnds, Transition
  <2>2. u.started # NoValue => Greater(u.started, Duration(plan.warm)) \in Nat
    BY <1>1, <1>2, <1>5, StampsStay
  <2> QED
    BY <1>3, <1>5, <2>1, <2>2, StampsStay
<1> QED
  BY <1>4, <1>5

\* The start of the measurement, after a delivery.
LEMMA DeliveryMeasures ==
  ASSUME AccountsInv, NEW r \in Requests, Deliver(r), NEW u, u = Head(inbox[r]),
         Count(plan.warm) # NoValue
  PROVE  /\ timings'.measureStart = Given(WarmupEnds(group', u), timings.measureStart)
         /\ Count(plan.warm) \in Nat
         /\ WarmupEnds(group', u) # NoValue =>
              /\ Processed(group') = Count(plan.warm) + 1 /\ u.started # NoValue
              /\ WarmupEnds(group', u) = IF Duration(plan.warm) = NoValue THEN u.started
                                         ELSE Greater(u.started, Duration(plan.warm))
         /\ Processed(group') = Count(plan.warm) + 1 /\ u.started # NoValue
              => WarmupEnds(group', u) # NoValue
<1>1. u \in Messages /\ AccountsTyped
  BY DeliveredIs DEF AccountsInv
<1>2. timings'.measureStart = IF ~Active(plan.warm) THEN progress'.start
                              ELSE Given(WarmupEnds(group', u), timings.measureStart)
  BY DeliveryTimes
<1>3. Count(plan.warm) \in Nat
  BY <1>1, SizeTyped DEF Stamps
<1> QED
  BY <1>1, <1>2, <1>3, WarmupEndsAt DEF Active

LEMMA DeliveryServes ==
  ASSUME AccountsInv, NEW r \in Requests, Deliver(r)
  PROVE  WarmupIsServed'
<1>1. PICK u : u = Head(inbox[r])
  OBVIOUS
<1>2. /\ plan' = plan /\ work' = work
      /\ u.started \in {NoValue, work[r].resolved, work[r].sent}
      /\ work[r].aborts = 0 => (u.started # NoValue <=> work[r].resolved # NoValue)
  BY <1>1, DeliveredIs
<1>3. /\ \A q \in Requests : q # r => group'[q] = group[q]
      /\ group[r] \in Outcomes => group'[r] = group[r]
  BY <1>1, DeliveryTells
<1>4. WarmupIsServed
  BY DEF AccountsInv
<1>5. /\ Processed(group) \in Nat
      /\ Processed(group)' = Processed(group')
      /\ \/ Processed(group') = Processed(group)
         \/ Processed(group') = Processed(group) + 1 /\ group'[r] \in Outcomes
  BY DeliveryProcesses
<1>6. /\ Count(plan.warm)' = Count(plan.warm) /\ Duration(plan.warm)' = Duration(plan.warm)
      /\ Requests' = Requests
  BY <1>2 DEF Count, Duration, Seconds, Requests
<1>7. /\ \A q : Aborted(q)' = Aborted(q)
      /\ MeasuredFrom(timings.measureStart)' = MeasuredFrom(timings'.measureStart)
  BY <1>2, <1>6 DEF Aborted, MeasuredFrom
<1>8. ~Aborted(r) => work[r].aborts = 0
  BY AtWork DEF Aborted
<1> HIDE DEF Aborted
<1>9. ASSUME Count(plan.warm) # NoValue
      PROVE  /\ timings'.measureStart # NoValue =>
                  Processed(group') > Count(plan.warm) /\ MeasuredFrom(timings'.measureStart)
             /\ Processed(group') > Count(plan.warm)
                  /\ (\A q \in Requests : group'[q] \in Outcomes =>
                                           work[q].resolved # NoValue /\ ~Aborted(q))
                => timings'.measureStart # NoValue
  <2>1. Count(plan.warm) \in Nat
    BY <1>1, <1>9, DeliveryMeasures
  <2>2. timings'.measureStart = Given(WarmupEnds(group', u), timings.measureStart)
    BY <1>1, <1>9, DeliveryMeasures
  <2>3. /\ WarmupEnds(group', u) # NoValue =>
             /\ Processed(group') = Count(plan.warm) + 1 /\ u.started # NoValue
             /\ WarmupEnds(group', u) = IF Duration(plan.warm) = NoValue THEN u.started
                                        ELSE Greater(u.started, Duration(plan.warm))
        /\ Processed(group') = Count(plan.warm) + 1 /\ u.started # NoValue
             => WarmupEnds(group', u) # NoValue
    BY <1>1, <1>9, DeliveryMeasures
  <2>4. /\ timings.measureStart # NoValue =>
             Processed(group) > Count(plan.warm) /\ MeasuredFrom(timings.measureStart)
        /\ Processed(group) > Count(plan.warm)
             /\ (\A q \in Requests : group[q] \in Outcomes =>
                                      work[q].resolved # NoValue /\ ~Aborted(q))
           => timings.measureStart # NoValue
    BY <1>4, <1>9 DEF WarmupIsServed
  <2>5. Processed(group) > Count(plan.warm) => Processed(group') > Count(plan.warm)
    BY <1>5, <2>1
  <2>6. Processed(group') = Count(plan.warm) + 1 => Processed(group') > Count(plan.warm)
    BY <1>5, <2>1
  <2>7. timings'.measureStart # NoValue =>
          Processed(group') > Count(plan.warm) /\ MeasuredFrom(timings'.measureStart)
    <3>1. CASE WarmupEnds(group', u) # NoValue
      <4>1. /\ timings'.measureStart = IF Duration(plan.warm) = NoValue THEN u.started
                                       ELSE Greater(u.started, Duration(plan.warm))
            /\ u.started # NoValue
        BY <2>2, <2>3, <3>1 DEF Given
      <4>2. u.started \in {work[r].resolved, work[r].sent} \ {NoValue}
        BY <1>2, <4>1
      <4>3. MeasuredFrom(timings'.measureStart)
        BY <4>1, <4>2 DEF MeasuredFrom
      <4> QED
        BY <2>3, <2>6, <3>1, <4>3
    <3>2. CASE WarmupEnds(group', u) = NoValue
      BY <2>2, <2>4, <2>5, <3>2 DEF Given
    <3> QED
      BY <3>1, <3>2
  <2>8. ASSUME Processed(group') > Count(plan.warm),
               \A q \in Requests : group'[q] \in Outcomes => work[q].resolved # NoValue /\ ~Aborted(q)
        PROVE  timings'.measureStart # NoValue
    <3>1. CASE Processed(group) > Count(plan.warm)
      <4>1. \A q \in Requests : group[q] \in Outcomes => work[q].resolved # NoValue /\ ~Aborted(q)
        BY <1>3, <2>8
      <4>2. timings.measureStart # NoValue
        BY <2>4, <3>1, <4>1
      <4> QED
        BY <2>2, <4>2 DEF Given
    <3>2. CASE ~(Processed(group) > Count(plan.warm))
      <4>1. Processed(group') = Count(plan.warm) + 1 /\ group'[r] \in Outcomes
        BY <1>5, <2>1, <2>8, <3>2
      <4>2. u.started # NoValue
        BY <1>2, <1>8, <2>8, <4>1
      <4> QED
        BY <2>2, <2>3, <4>1, <4>2 DEF Given
    <3> QED
      BY <3>1, <3>2
  <2> QED
    BY <2>7, <2>8
<1> QED
  BY <1>2, <1>5, <1>6, <1>7, <1>9 DEF WarmupIsServed

LEMMA DeliverStep ==
  ASSUME AccountsInv, NEW r \in Requests, Deliver(r)
  PROVE  AccountsInv'
<1>1. PICK u : u = Head(inbox[r])
  OBVIOUS
<1>2. /\ plan' = plan /\ clock' = clock /\ work' = work
      /\ inbox' = [inbox EXCEPT ![r] = Tail(inbox[r])] /\ Tail(inbox[r]) \in Seq(Messages)
      /\ counted' \in Nat
  <2>1. counted \in Nat
    BY DEF AccountsInv, AccountsTyped
  <2> QED
    BY <1>1, <2>1, DeliveredIs
<1>3. Requests' = Requests /\ Messages' = Messages /\ Stats' = Stats /\ Works' = Works
  BY <1>2 DEF Requests, Messages, Stats, Works, Times
<1>4. AccountsTyped'
  <2>1. /\ progress' \in [start : Stamps, stop : Stamps, ended : Stamps]
        /\ timings'.requestStart \in Stamps /\ timings'.update \in Stamps
        /\ timings'.measureStart \in Stamps
    BY <1>1, DeliveryTimes
  <2>2. requests' \in [Outcomes -> Seq(Stats)] /\ samples' \in [Outcomes -> Seq(Nat)]
    BY <1>1, DeliveryKeeps
  <2>3. made' \in [Outcomes -> 0 .. plan.total]
    BY DeliveryCounts
  <2>4. group' \in [Requests -> Standings]
    BY <1>1, DeliveryTells
  <2>5. AccountsTyped
    BY DEF AccountsInv
  <2>6. inbox' \in [Requests -> Seq(Messages)]
    BY <1>2, <2>5 DEF AccountsTyped
  <2> QED
    BY <1>2, <1>3, <2>1, <2>2, <2>3, <2>4, <2>5, <2>6 DEF AccountsTyped
<1>5. \A q \in Requests' : (InboxIsSound(q) /\ Tells(q))'
  BY <1>3, DeliveryOfStories
<1>6. EntriesDiffer' /\ SamplesKeepTheirData'
  BY <1>1, DeliveryKeeps
<1>7. EntriesAreListed' /\ CountedIsAll' /\ MadeIsCurrent'
  BY DeliveryCounts
<1>8. WarmupIsServed'
  BY DeliveryServes
<1> QED
  BY <1>4, <1>5, <1>6, <1>7, <1>8 DEF AccountsInv

-----------------------------------------------------------------------------
(***************************************************************************)
(* The invariant, and what it says of the accounts.                        *)
(***************************************************************************)

LEMMA InitAccounts ==
  ASSUME AccumulatorInit
  PROVE  AccountsInv
<1>1. /\ plan \in Plans /\ clock = 0
      /\ work = [r \in Requests |->
           [state |-> "waiting", status |-> "queued", resolved |-> NoValue, sent |-> NoValue,
            aborts |-> 0]]
      /\ inbox = [r \in Requests |-> <<>>]
      /\ group = [r \in Requests |-> "queued"]
      /\ progress = [start |-> NoValue, stop |-> NoValue, ended |-> NoValue]
      /\ timings = NoTimings /\ requests = NoRequests /\ samples = NoRequests
      /\ made = [o \in Outcomes |-> 0] /\ counted = 0
  BY DEF AccumulatorInit
<1>2. <<>> \in Seq(Messages) /\ <<>> \in Seq(Stats) /\ <<>> \in Seq(Nat) /\ Len(<<>>) = 0
  BY EmptySeq
<1>3. AccountsTyped
  <2>1. work \in [Requests -> Works]
    <3>1. plan.aborts \in Nat
      BY <1>1, AccumulatorAssumption
    <3>2. [state |-> "waiting", status |-> "queued", resolved |-> NoValue, sent |-> NoValue,
           aborts |-> 0] \in Works
      BY <3>1 DEF Works, Times
    <3> QED
      BY <1>1, <3>2
  <2>2. inbox \in [Requests -> Seq(Messages)] /\ group \in [Requests -> Standings]
    BY <1>1, <1>2 DEF Standings
  <2>3. requests \in [Outcomes -> Seq(Stats)] /\ samples \in [Outcomes -> Seq(Nat)]
    BY <1>1, <1>2 DEF NoRequests
  <2>4. /\ timings.requestStart = NoValue /\ timings.update = NoValue /\ timings.measureStart = NoValue
        /\ progress \in [start : Stamps, stop : Stamps, ended : Stamps] /\ NoValue \in Stamps
    BY <1>1 DEF NoTimings, Stamps
  <2>5. made \in [Outcomes -> 0 .. plan.total] /\ counted \in Nat /\ clock \in Nat
    <3>1. plan.total \in Nat
      BY <1>1, AccumulatorAssumption
    <3> QED
      BY <1>1, <3>1
  <2> QED
    BY <1>1, <2>1, <2>2, <2>3, <2>4, <2>5 DEF AccountsTyped
<1>4. \A o \in Outcomes : requests[o] = <<>> /\ samples[o] = <<>>
  BY <1>1 DEF NoRequests
<1>5. \A o \in Outcomes : Len(requests[o]) = 0 /\ Len(samples[o]) = 0
  BY <1>2, <1>4
<1>6. \A r : Kept(r) = {}
  BY <1>5 DEF Kept
<1>7. \A r \in Requests : InboxIsSound(r) /\ Tells(r)
  <2> SUFFICES ASSUME NEW r \in Requests PROVE InboxIsSound(r) /\ Tells(r)
    OBVIOUS
  <2>1. /\ work[r] = [state |-> "waiting", status |-> "queued", resolved |-> NoValue,
                      sent |-> NoValue, aborts |-> 0]
        /\ inbox[r] = <<>> /\ group[r] = "queued"
    BY <1>1
  <2>2. /\ work[r].state = "waiting" /\ work[r].resolved = NoValue /\ work[r].sent = NoValue
        /\ work[r].aborts = 0 /\ work[r].status = "queued"
    BY <2>1
  <2>3. SoundInbox(<<>>, work[r], r) /\ StatusesOf(<<>>) = {}
    BY EmptyInbox
  <2>4. Story(work[r], {}, {}, "queued")
    BY <2>2 DEF Story, Resolving, Undecided, Underway, Dropped, Published, Finalized, OnceEach, Outcomes
  <2> QED
    BY <1>6, <2>1, <2>3, <2>4 DEF InboxIsSound, Tells, Coming
<1>9. EntriesDiffer /\ CountedIsAll
  <2>1. EntriesDiffer
    BY <1>5 DEF EntriesDiffer, Distinct
  <2>2. /\ Len(requests["completed"]) = 0 /\ Len(requests["errored"]) = 0
        /\ Len(requests["cancelled"]) = 0
    BY <1>5 DEF Outcomes
  <2>3. CountedIsAll
    BY <1>1, <2>2 DEF CountedIsAll
  <2> QED
    BY <2>1, <2>3
<1>10. EntriesAreListed
  <2>1. \A o \in Outcomes : Listed(o) = {}
    BY <1>6 DEF Listed
  <2> QED
    BY <1>5, <2>1, FS_EmptySet DEF EntriesAreListed, Ended, Outcomes
<1>11. ASSUME NEW g, "queued" \notin g PROVE With(group, g) = 0
  <2>1. {r \in Requests : group[r] \in g} = {}
    BY <1>1, <1>11
  <2> QED
    BY <2>1, FS_EmptySet DEF With
<1>12. MadeIsCurrent
  <2>1. With(group, {"completed"}) = 0 /\ With(group, {"errored"}) = 0
    BY <1>11
  <2> QED
    BY <1>1, <2>1 DEF MadeIsCurrent, Ended, Outcomes
<1>13. SamplesKeepTheirData
  <2>1. plan.samples \in Nat => Lesser(0, plan.samples) = 0
    BY DEF Lesser
  <2> QED
    BY <1>5, <2>1 DEF SamplesKeepTheirData
<1>14. WarmupIsServed
  <2>1. timings.measureStart = NoValue
    BY <1>1 DEF NoTimings
  <2>2. Processed(group) = 0
    BY <1>11 DEF Processed, Outcomes
  <2>3. Count(plan.warm) # NoValue => Count(plan.warm) \in Nat
    BY <1>3, SizeTyped DEF Stamps
  <2> QED
    BY <2>1, <2>2, <2>3 DEF WarmupIsServed
<1> QED
  BY <1>3, <1>7, <1>9, <1>10, <1>12, <1>13, <1>14 DEF AccountsInv

LEMMA StutterAccounts ==
  ASSUME AccountsInv, UNCHANGED accumulatorVars
  PROVE  AccountsInv'
<1>1. /\ plan' = plan /\ clock' = clock /\ work' = work /\ inbox' = inbox /\ group' = group
      /\ progress' = progress /\ timings' = timings /\ requests' = requests
      /\ samples' = samples /\ made' = made /\ counted' = counted
  BY DEF accumulatorVars, workerVars, coordinatorVars, metricVars
<1>2. Requests' = Requests /\ Messages' = Messages /\ Stats' = Stats /\ Works' = Works
  BY <1>1 DEF Requests, Messages, Stats, Works, Times
<1>3. AccountsTyped'
  BY <1>1, <1>2 DEF AccountsInv, AccountsTyped
<1>4. \A q \in Requests' : (InboxIsSound(q) /\ Tells(q))'
  BY <1>1, <1>2 DEF AccountsInv, InboxIsSound, Tells, Coming, Kept
<1>5. EntriesDiffer' /\ CountedIsAll' /\ SamplesKeepTheirData'
  <2>1. \A o : Single(o)' = Single(o)
    BY <1>1, <1>2 DEF Single
  <2> QED
    BY <1>1, <2>1 DEF AccountsInv, EntriesDiffer, Distinct, CountedIsAll, SamplesKeepTheirData
<1>6. EntriesAreListed' /\ MadeIsCurrent'
  BY <1>1, <1>2 DEF AccountsInv, EntriesAreListed, Listed, Kept, MadeIsCurrent, With
<1>7. WarmupIsServed'
  BY <1>1, WarmupStays DEF AccountsInv
<1> QED
  BY <1>3, <1>4, <1>5, <1>6, <1>7 DEF AccountsInv

LEMMA AccountsStep == AccountsInv /\ [AccumulatorNext]_accumulatorVars => AccountsInv'
<1> SUFFICES ASSUME AccountsInv, [AccumulatorNext]_accumulatorVars PROVE AccountsInv'
  OBVIOUS
<1>1. CASE Polls
  BY <1>1, PollsStep
<1>2. ASSUME NEW r \in Requests, Claims(r) PROVE AccountsInv'
  BY <1>2, ClaimsStep
<1>3. ASSUME NEW r \in Requests, Begins(r) PROVE AccountsInv'
  BY <1>3, BeginsStep
<1>4. ASSUME NEW r \in Requests, Sends(r) PROVE AccountsInv'
  BY <1>4, SendsStep
<1>5. ASSUME NEW r \in Requests, FirstToken(r) PROVE AccountsInv'
  BY <1>5, FirstTokenStep
<1>6. ASSUME NEW r \in Requests, Aborts(r) PROVE AccountsInv'
  BY <1>6, AbortsStep
<1>7. ASSUME NEW r \in Requests, Drops(r) PROVE AccountsInv'
  BY <1>7, DropsStep
<1>8. ASSUME NEW r \in Requests, Deliver(r) PROVE AccountsInv'
  BY <1>8, DeliverStep
<1>9. ASSUME NEW r \in Requests, NEW o \in Outcomes, Ends(r, o) PROVE AccountsInv'
  BY <1>9, EndsStep
<1>10. CASE UNCHANGED accumulatorVars
  BY <1>10, StutterAccounts
<1> QED
  BY <1>1, <1>2, <1>3, <1>4, <1>5, <1>6, <1>7, <1>8, <1>9, <1>10 DEF AccumulatorNext

LEMMA TypesAreRight == AccountsInv => AccumulatorTypeOK
<1> SUFFICES ASSUME AccountsInv PROVE AccumulatorTypeOK
  OBVIOUS
<1>1. AccountsTyped
  BY DEF AccountsInv
<1> QED
  BY <1>1 DEF AccountsTyped, AccumulatorTypeOK, Works, Standings

LEMMA CountsAreRight == AccountsInv => CountedByOutcome
<1> SUFFICES ASSUME AccountsInv PROVE CountedByOutcome
  OBVIOUS
<1>1. /\ AccountsTyped /\ (\A r \in Requests : Tells(r))
      /\ EntriesDiffer /\ EntriesAreListed /\ MadeIsCurrent /\ CountedIsAll
      /\ requests \in [Outcomes -> Seq(Stats)]
  BY DEF AccountsInv, AccountsTyped
<1>2. ASSUME NEW r \in Requests, NEW o \in Outcomes
      PROVE  Entries(o, r) # {} <=> o \in Kept(r)
  BY DEF Entries, Kept
<1>3. \A r \in Requests : Aborted(r) <=> work[r].aborts # 0
  BY AtWork DEF Aborted
<1>4. ASSUME NEW r \in Requests, NEW o \in Outcomes, o \in Ended \/ ~Aborted(r)
      PROVE  Cardinality(Entries(o, r)) = IF o \in Kept(r) THEN 1 ELSE 0
  <2>1. CASE o \notin Kept(r)
    <3>1. Entries(o, r) = {}
      BY <1>2, <2>1
    <3> QED
      BY <2>1, <3>1, FS_EmptySet
  <2>2. CASE o \in Kept(r)
    <3>1. r \in Single(o)
      BY <1>3, <1>4 DEF Single
    <3>2. \A i, j \in Entries(o, r) : i = j
      BY <1>1, <3>1 DEF Entries, EntriesDiffer, Distinct
    <3>3. PICK i : Entries(o, r) = {i}
      BY <1>2, <2>2, <3>2
    <3>4. Cardinality({i}) = 1
      BY FS_Singleton
    <3> QED
      BY <2>2, <3>3, <3>4
  <2> QED
    BY <2>1, <2>2
<1>5. ASSUME NEW r \in Requests
      PROVE  /\ ~Aborted(r) => \A o \in Outcomes :
                  o \in Kept(r) <=> group[r] = o /\ work[r].resolved # NoValue
             /\ ~("completed" \in Kept(r) /\ "errored" \in Kept(r))
             /\ \A o \in Ended : group[r] = o => o \in Kept(r)
  <2>1. Story(work[r], Coming(r), Kept(r), group[r])
    BY <1>1 DEF Tells
  <2>2. CASE work[r].aborts = 0
    <3>1. Finalized(work[r], Coming(r), Kept(r), group[r]) /\ Dropped(work[r], Coming(r), Kept(r), group[r])
      BY <2>1, <2>2 DEF Story
    <3> HIDE DEF Kept, Coming
    <3> QED
      BY <1>3, <2>2, <3>1 DEF Finalized, Dropped, Outcomes, Ended
  <2>3. CASE work[r].aborts # 0
    BY <1>3, <2>1, <2>3 DEF Story, EndedOnce, Ended
  <2> QED
    BY <2>2, <2>3
<1>6. ASSUME NEW r \in Requests
      PROVE  /\ \A o \in Outcomes : ~Aborted(r) =>
                  Cardinality(Entries(o, r)) = IF group[r] = o /\ work[r].resolved # NoValue THEN 1 ELSE 0
             /\ Cardinality(Entries("completed", r)) + Cardinality(Entries("errored", r)) <= 1
             /\ group[r] \in {"completed", "errored"} => Entries(group[r], r) # {}
  <2>1. \A o \in Outcomes : ~Aborted(r) =>
          Cardinality(Entries(o, r)) = IF group[r] = o /\ work[r].resolved # NoValue THEN 1 ELSE 0
    <3> HIDE DEF Kept, Entries, Aborted
    <3> QED
      BY <1>4, <1>5
  <2>2. \A o \in Ended : o \in Outcomes /\ Cardinality(Entries(o, r)) = IF o \in Kept(r) THEN 1 ELSE 0
    BY <1>4 DEF Ended, Outcomes
  <2>3. Cardinality(Entries("completed", r)) + Cardinality(Entries("errored", r)) <= 1
    BY <1>5, <2>2 DEF Ended
  <2>4. group[r] \in {"completed", "errored"} => Entries(group[r], r) # {}
    BY <1>2, <1>5, <2>2 DEF Ended
  <2> QED
    BY <2>1, <2>3, <2>4
<1>7. ASSUME NEW o \in {"completed", "errored"}
      PROVE  /\ made[o] = With(group, {o}) /\ made[o] <= Len(requests[o])
             /\ Len(requests[o]) - made[o] <= Cardinality({r \in Requests : Aborted(r)})
  <2>1. o \in Outcomes /\ o \in Ended
    BY DEF Outcomes, Ended
  <2>2. PICK M, L, A : /\ M = {r \in Requests : group[r] \in {o}} /\ L = Listed(o)
                       /\ A = {r \in Requests : Aborted(r)}
    OBVIOUS
  <2>3. made[o] = Cardinality(M) /\ made[o] = With(group, {o}) /\ Len(requests[o]) = Cardinality(L)
    BY <1>1, <2>1, <2>2 DEF MadeIsCurrent, With, EntriesAreListed
  <2>4. ASSUME NEW r \in Requests
        PROVE  /\ r \in M => r \in L
               /\ r \in L /\ r \notin M => r \in A
    <3>1. /\ group[r] = o => o \in Kept(r)
          /\ o \in Kept(r) /\ group[r] # o => Aborted(r)
      BY <1>5, <2>1
    <3> QED
      BY <2>2, <3>1 DEF Listed
  <2>5. M \subseteq L /\ L \ M \subseteq A
    BY <2>2, <2>4 DEF Listed
  <2>6. IsFiniteSet(L) /\ IsFiniteSet(M) /\ IsFiniteSet(A)
    BY <1>1, <2>2, RequestsAreFinite DEF Listed
  <2>7. Cardinality(L) \in Nat /\ Cardinality(M) \in Nat /\ Cardinality(A) \in Nat
    BY <2>6, FS_CardinalityType
  <2>8. Cardinality(M) <= Cardinality(L)
    BY <2>5, <2>6, FS_Subset
  <2>9. Cardinality(L \ M) = Cardinality(L) - Cardinality(M)
    <3>1. L \cap M = M
      BY <2>5
    <3> QED
      BY <2>6, <3>1, FS_Difference
  <2>10. Cardinality(L \ M) <= Cardinality(A)
    BY <2>5, <2>6, FS_Subset
  <2> QED
    BY <2>2, <2>3, <2>7, <2>8, <2>9, <2>10
<1>8. counted = Len(requests["completed"]) + Len(requests["errored"]) + Len(requests["cancelled"])
  BY <1>1 DEF CountedIsAll
<1> HIDE DEF Aborted, Entries
<1> QED
  BY <1>6, <1>7, <1>8 DEF CountedByOutcome

\* A step that delivers nothing leaves the timings alone.
LEMMA OthersKeepTimings ==
  ASSUME AccountsInv, [AccumulatorNext]_accumulatorVars,
         \A r \in Requests : ~Deliver(r)
  PROVE  timings' = timings /\ progress'.start = progress.start /\ plan' = plan
<1>1. progress \in [start : Stamps, stop : Stamps, ended : Stamps]
  BY DEF AccountsInv, AccountsTyped
<1>2. CASE Polls
  BY <1>1, <1>2 DEF Polls, metricVars
<1>3. ASSUME NEW r \in Requests,
             \/ Claims(r) \/ Begins(r) \/ Sends(r) \/ FirstToken(r) \/ Aborts(r) \/ Drops(r)
             \/ \E o \in Outcomes : Ends(r, o)
      PROVE  timings' = timings /\ progress' = progress /\ plan' = plan
  BY <1>3 DEF Claims, Begins, Sends, FirstToken, Aborts, Drops, Ends, metricVars, coordinatorVars
<1>4. CASE UNCHANGED accumulatorVars
  BY <1>4 DEF accumulatorVars, metricVars, coordinatorVars
<1> QED
  BY <1>2, <1>3, <1>4 DEF AccumulatorNext

LEMMA SettlesStep ==
  ASSUME AccountsInv, [AccumulatorNext]_accumulatorVars
  PROVE  MeasurementSettles
<1>1. ASSUME NEW r \in Requests, Deliver(r) PROVE MeasurementSettles
  <2>1. PICK u : u = Head(inbox[r])
    OBVIOUS
  <2>2. ASSUME Count(plan.warm) # NoValue, timings'.measureStart # timings.measureStart
        PROVE  Processed(group') = Count(plan.warm) + 1
    <3>1. /\ timings'.measureStart = Given(WarmupEnds(group', u), timings.measureStart)
          /\ WarmupEnds(group', u) # NoValue => Processed(group') = Count(plan.warm) + 1
      BY <1>1, <2>1, <2>2, DeliveryMeasures
    <3> QED
      BY <2>2, <3>1 DEF Given
  <2>3. Processed(group)' = Processed(group')
    BY <1>1, DeliveryProcesses
  <2> QED
    BY <2>2, <2>3 DEF MeasurementSettles
<1>2. CASE \A r \in Requests : ~Deliver(r)
  BY <1>2, OthersKeepTimings DEF MeasurementSettles
<1> QED
  BY <1>1, <1>2

\* Whatever order the updates arrive in, a request that is not aborted is counted exactly once,
\* under the outcome it ended with; one that is aborted has at most one completion or error;
\* sampled requests keep their data; and the measurement starts, after the warmup, at the
\* start of a request, which moves only while the count is exactly reached:
\* GenerativeBenchmarkAccumulator.update_estimate, for every plan of a benchmark.
THEOREM AccountsStayRight == AccumulatorSpec => AccountsAreRight
<1>1. AccumulatorInit => AccountsInv
  BY InitAccounts
<1>2. AccountsInv /\ [AccumulatorNext]_accumulatorVars => AccountsInv'
  BY AccountsStep
<1>3. AccountsInv => AccumulatorTypeOK /\ CountedByOutcome /\ SamplesKeepTheirData /\ WarmupIsServed
  BY TypesAreRight, CountsAreRight DEF AccountsInv
<1>4. AccountsInv /\ [AccumulatorNext]_accumulatorVars => [MeasurementSettles]_accumulatorVars
  BY SettlesStep
<1> QED
  BY <1>1, <1>2, <1>3, <1>4, PTL DEF AccumulatorSpec, AccountsAreRight

-----------------------------------------------------------------------------
(***************************************************************************)
(* The phases of the measurement.                                          *)
(***************************************************************************)

LEMMA CooldownBeginsAt ==
  ASSUME AccountsTyped, NEW u \in Messages, NEW g
  PROVE  /\ CooldownBegins(g, u) \in {NoValue} \cup Int
         /\ ByTime(plan.cool) => CooldownBegins(g, u) =
              IF Duration(plan.cool) = NoValue THEN NoValue ELSE plan.seconds - Duration(plan.cool)
<1>1. /\ Duration(plan.cool) \in Stamps /\ plan.seconds \in Stamps
      /\ Duration(plan.cool) # NoValue => plan.seconds # NoValue
  BY SizeTyped
<1>2. EndByCount(g, u) \in Stamps
  BY DEF EndByCount, Messages, Stamps
<1>3. CASE Duration(plan.cool) = NoValue
  BY <1>2, <1>3 DEF CooldownBegins, Transition, ByTime, Stamps
<1>4. CASE Duration(plan.cool) # NoValue
  <2>1. plan.seconds - Duration(plan.cool) \in Int
    BY <1>1, <1>4 DEF Stamps
  <2>2. EndByCount(g, u) # NoValue
          => Lesser(EndByCount(g, u), plan.seconds - Duration(plan.cool)) \in Int
    BY <1>2, <2>1 DEF Lesser, Stamps
  <2>3. CooldownBegins(g, u) =
          IF Count(plan.cool) # NoValue
          THEN IF EndByCount(g, u) = NoValue THEN NoValue
               ELSE Lesser(EndByCount(g, u), plan.seconds - Duration(plan.cool))
          ELSE plan.seconds - Duration(plan.cool)
    BY <1>4 DEF CooldownBegins, Transition
  <2> QED
    BY <1>4, <2>1, <2>2, <2>3 DEF ByTime
<1> QED
  BY <1>3, <1>4

\* The request times only move back and the last update only forward; the limits stay.
LEMMA DeliveryPhases ==
  ASSUME AccountsInv, PhaseInv, NEW r \in Requests, Deliver(r)
  PROVE  /\ PhaseInv'
         /\ timings.requestStart # NoValue =>
              timings'.requestStart # NoValue /\ timings'.requestStart <= timings.requestStart
         /\ timings.update # NoValue =>
              timings'.update # NoValue /\ timings'.update >= timings.update
         /\ ByTime(plan.warm) /\ Duration(plan.warm) # NoValue =>
              timings'.measureStart = Duration(plan.warm)
         /\ ByTime(plan.cool) /\ timings.measureEnd # NoValue =>
              timings'.measureEnd = timings.measureEnd
<1>1. PICK u : u = Head(inbox[r])
  OBVIOUS
<1>2. /\ u \in Messages /\ plan' = plan
      /\ progress' = ProgressAfter(group', u)
      /\ timings' = TimingsAfter(timings, group', progress', u)
  BY <1>1, DeliveredIs
<1>3. /\ AccountsTyped /\ progress.start \in Stamps
      /\ timings.requestStart \in Stamps /\ timings.update \in Stamps /\ timings.measureStart \in Stamps
  BY DEF AccountsInv, AccountsTyped
<1>4. u.sent \in Stamps /\ u.reported \in Stamps
  BY <1>2 DEF Messages
<1>5. /\ progress' \in [start : Stamps, stop : Stamps, ended : Stamps]
      /\ timings'.requestStart = progress'.start
      /\ timings'.update = Later(timings.update, u.reported)
      /\ timings'.measureStart = IF ~Active(plan.warm) THEN progress'.start
                                 ELSE Given(WarmupEnds(group', u), timings.measureStart)
  BY <1>1, DeliveryTimes
<1>6. /\ Count(plan.warm)' = Count(plan.warm) /\ Duration(plan.warm)' = Duration(plan.warm)
      /\ Count(plan.cool)' = Count(plan.cool) /\ Duration(plan.cool)' = Duration(plan.cool)
  BY <1>2 DEF Count, Duration, Seconds
<1>7. ByTime(plan.warm) =>
        timings'.measureStart = IF Duration(plan.warm) = NoValue THEN timings'.requestStart
                                ELSE Duration(plan.warm)
  BY <1>5 DEF ByTime, Active, WarmupEnds, Transition, Given
<1>8. progress'.start = IF Accepted(u) THEN Earlier(progress.start, u.sent) ELSE progress.start
  BY <1>2 DEF ProgressAfter
<1>9. timings.requestStart # NoValue =>
        timings'.requestStart # NoValue /\ timings'.requestStart <= timings.requestStart
  <2>1. timings.requestStart = progress.start
    BY DEF PhaseInv
  <2>2. \A x, y \in Stamps : x # NoValue => Earlier(x, y) # NoValue /\ Earlier(x, y) <= x /\ x <= x
    BY DEF Earlier, Given, Lesser, Stamps
  <2> QED
    BY <1>3, <1>4, <1>5, <1>8, <2>1, <2>2
<1>10. timings.update # NoValue => timings'.update # NoValue /\ timings'.update >= timings.update
  <2>1. \A x, y \in Stamps : x # NoValue => Later(x, y) # NoValue /\ Later(x, y) >= x
    BY DEF Later, Given, Greater, Stamps
  <2> QED
    BY <1>3, <1>4, <1>5, <2>1
<1>11. PICK cooled : cooled = Given(CooldownBegins(group', u), timings.measureEnd)
  OBVIOUS
<1>12. PICK end : end = IF progress'.ended # NoValue /\ timings.requestEnd = NoValue
                        THEN progress'.stop ELSE timings.requestEnd
  OBVIOUS
<1>13. /\ timings'.requestEnd = end
       /\ timings'.measureEnd = IF progress'.ended # NoValue /\ timings.requestEnd = NoValue
                                THEN Given(cooled, end) ELSE cooled
  BY <1>2, <1>11, <1>12 DEF TimingsAfter
<1>14. /\ CooldownBegins(group', u) \in {NoValue} \cup Int
       /\ ByTime(plan.cool) => CooldownBegins(group', u) =
            IF Duration(plan.cool) = NoValue THEN NoValue ELSE plan.seconds - Duration(plan.cool)
  BY <1>2, <1>3, CooldownBeginsAt
<1>15. timings.requestEnd \in Stamps /\ timings.measureEnd \in {NoValue} \cup Int
  BY DEF PhaseInv
<1>16. end \in Stamps /\ cooled \in {NoValue} \cup Int
  BY <1>5, <1>11, <1>12, <1>14, <1>15 DEF Given
<1>17. timings'.requestEnd \in Stamps /\ timings'.measureEnd \in {NoValue} \cup Int
  BY <1>13, <1>16 DEF Given, Stamps
<1>18. ASSUME ByTime(plan.cool)
       PROVE  /\ timings.measureEnd # NoValue => timings'.measureEnd = timings.measureEnd
              /\ Duration(plan.cool) # NoValue =>
                   timings'.measureEnd = plan.seconds - Duration(plan.cool)
  <2>1. CASE Duration(plan.cool) = NoValue
    BY <1>11, <1>13, <1>14, <1>18, <2>1 DEF Given
  <2>2. CASE Duration(plan.cool) # NoValue
    <3>1. timings.measureEnd \in {NoValue, plan.seconds - Duration(plan.cool)}
      BY <1>18, <2>2 DEF PhaseInv
    <3>2. plan.seconds - Duration(plan.cool) # NoValue
      <4>1. plan.seconds \in Nat /\ Duration(plan.cool) \in Nat
        BY <1>3, <2>2, SizeTyped DEF Stamps
      <4> QED
        BY <4>1, AccumulatorAssumption
    <3> QED
      BY <1>11, <1>13, <1>14, <1>18, <2>2, <3>1, <3>2 DEF Given
  <2> QED
    BY <2>1, <2>2
<1>19. PhaseInv'
  <2>1. ByTime(plan.cool)' = ByTime(plan.cool) /\ ByTime(plan.warm)' = ByTime(plan.warm)
    BY <1>6 DEF ByTime
  <2>2. ByTime(plan.cool) /\ Duration(plan.cool) # NoValue =>
          timings'.measureEnd \in {NoValue, plan.seconds - Duration(plan.cool)}
    BY <1>18
  <2> QED
    BY <1>2, <1>5, <1>6, <1>7, <1>17, <2>1, <2>2 DEF PhaseInv
<1> QED
  BY <1>7, <1>9, <1>10, <1>18, <1>19

LEMMA RankIs ==
  ASSUME NEW t, t.update \in Stamps, t.measureStart \in Stamps
  PROVE  /\ Rank(Status(t)) \in 0 .. 3
         /\ t.requestStart = NoValue \/ t.update = NoValue => Rank(Status(t)) = 0
         /\ t.requestStart # NoValue /\ t.update # NoValue =>
              Rank(Status(t)) =
                IF t.measureStart = NoValue \/ t.update <= t.measureStart THEN 1
                ELSE IF t.update > t.measureStart /\ t.measureEnd # NoValue /\ t.update >= t.measureEnd
                     THEN 3 ELSE 2
<1>1. CASE t.requestStart = NoValue \/ t.update = NoValue
  BY <1>1 DEF Rank, Status
<1>2. CASE t.requestStart # NoValue /\ t.update # NoValue
  <2>1. CASE t.measureStart = NoValue \/ t.update <= t.measureStart
    <3>1. Status(t) = "warmup"
      <4>1. CASE t.measureStart = NoValue
        BY <1>2, <4>1 DEF Status
      <4>2. CASE t.update <= t.measureStart
        <5>1. t.measureStart = NoValue \/ ~(t.update > t.measureStart)
          BY <1>2, <4>2 DEF Stamps
        <5> QED
          BY <1>2, <4>2, <5>1 DEF Status
      <4> QED
        BY <2>1, <4>1, <4>2
    <3> QED
      BY <1>2, <2>1, <3>1 DEF Rank
  <2>2. CASE ~(t.measureStart = NoValue \/ t.update <= t.measureStart)
    <3>1. CASE t.update > t.measureStart /\ t.measureEnd # NoValue /\ t.update >= t.measureEnd
      <4>1. Status(t) = "cooldown"
        BY <1>2, <2>2, <3>1 DEF Status
      <4> QED
        BY <1>2, <2>2, <3>1, <4>1 DEF Rank
    <3>2. CASE ~(t.update > t.measureStart /\ t.measureEnd # NoValue /\ t.update >= t.measureEnd)
      <4>1. Status(t) = "active"
        BY <1>2, <2>2, <3>2 DEF Status
      <4> QED
        BY <1>2, <2>2, <3>2, <4>1 DEF Rank
    <3> QED
      BY <3>1, <3>2
  <2> QED
    BY <2>1, <2>2
<1> QED
  BY <1>1, <1>2

LEMMA DeliveryAdvances ==
  ASSUME AccountsInv, PhaseInv, NEW r \in Requests, Deliver(r),
         ByTime(plan.warm), ByTime(plan.cool)
  PROVE  Rank(Status(timings')) >= Rank(Status(timings))
<1>1. /\ timings.requestStart \in Stamps /\ timings.update \in Stamps /\ timings.measureStart \in Stamps
      /\ timings.measureEnd \in {NoValue} \cup Int
  BY DEF AccountsInv, AccountsTyped, PhaseInv
<1>2. /\ timings'.requestStart \in Stamps /\ timings'.update \in Stamps
      /\ timings'.measureStart \in Stamps
  BY DeliverStep DEF AccountsInv, AccountsTyped
<1>3. PhaseInv'
  BY DeliveryPhases
<1>4. /\ timings.requestStart # NoValue =>
           timings'.requestStart # NoValue /\ timings'.requestStart <= timings.requestStart
      /\ timings.update # NoValue => timings'.update # NoValue /\ timings'.update >= timings.update
      /\ timings.measureEnd # NoValue => timings'.measureEnd = timings.measureEnd
  BY DeliveryPhases
<1>5. timings.requestStart # NoValue /\ timings.measureStart # NoValue =>
        timings'.measureStart # NoValue /\ timings'.measureStart <= timings.measureStart
  <2>1. CASE Duration(plan.warm) = NoValue
    <3>1. timings.measureStart = timings.requestStart
      BY <2>1 DEF PhaseInv
    <3>2. timings'.measureStart = timings'.requestStart
      <4>1. plan' = plan
        BY DEF Deliver
      <4>2. ByTime(plan.warm)' /\ Duration(plan.warm)' = NoValue
        BY <2>1, <4>1 DEF ByTime, Count, Duration, Seconds
      <4> QED
        BY <1>3, <4>2 DEF PhaseInv
    <3> QED
      BY <1>4, <3>1, <3>2
  <2>2. CASE Duration(plan.warm) # NoValue
    <3>1. timings.measureStart \in {NoValue, Duration(plan.warm)}
      BY <2>2 DEF PhaseInv
    <3>2. timings'.measureStart = Duration(plan.warm)
      BY <2>2, DeliveryPhases
    <3>3. Duration(plan.warm) \in Nat
      BY <2>2, SizeTyped DEF AccountsInv, Stamps
    <3> QED
      BY <2>2, <3>1, <3>2, <3>3
  <2> QED
    BY <2>1, <2>2
<1>6. Rank(Status(timings')) \in 0 .. 3 /\ Rank(Status(timings)) \in 0 .. 3
  BY <1>1, <1>2, RankIs
<1>7. CASE timings.requestStart = NoValue \/ timings.update = NoValue
  <2>1. Rank(Status(timings)) = 0
    BY <1>1, <1>7, RankIs
  <2> QED
    BY <1>6, <2>1
<1>8. CASE timings.requestStart # NoValue /\ timings.update # NoValue
  <2>1. timings'.requestStart # NoValue /\ timings'.update # NoValue
    BY <1>4, <1>8
  <2>2. /\ Rank(Status(timings)) =
             IF timings.measureStart = NoValue \/ timings.update <= timings.measureStart THEN 1
             ELSE IF /\ timings.update > timings.measureStart
                     /\ timings.measureEnd # NoValue /\ timings.update >= timings.measureEnd
                  THEN 3 ELSE 2
        /\ Rank(Status(timings')) =
             IF timings'.measureStart = NoValue \/ timings'.update <= timings'.measureStart THEN 1
             ELSE IF /\ timings'.update > timings'.measureStart
                     /\ timings'.measureEnd # NoValue /\ timings'.update >= timings'.measureEnd
                  THEN 3 ELSE 2
    BY <1>1, <1>2, <1>8, <2>1, RankIs
  <2>3. timings.update \in Nat /\ timings'.update \in Nat /\ timings'.update >= timings.update
    BY <1>1, <1>2, <1>4, <1>8, <2>1 DEF Stamps
  <2>4. CASE timings.measureStart = NoValue \/ timings.update <= timings.measureStart
    BY <2>2, <2>4
  <2>5. CASE ~(timings.measureStart = NoValue \/ timings.update <= timings.measureStart)
    <3>1. /\ timings.measureStart \in Nat /\ timings'.measureStart \in Nat
          /\ timings'.measureStart # NoValue /\ timings'.measureStart <= timings.measureStart
      BY <1>1, <1>2, <1>5, <1>8, <2>5 DEF Stamps
    <3>2. timings'.update > timings'.measureStart /\ ~(timings'.update <= timings'.measureStart)
      BY <2>3, <2>5, <3>1
    <3>3. timings.measureEnd # NoValue /\ timings.update >= timings.measureEnd =>
            timings'.measureEnd # NoValue /\ timings'.update >= timings'.measureEnd
      BY <1>1, <1>4, <2>3
    <3> QED
      BY <2>2, <2>5, <3>1, <3>2, <3>3
  <2> QED
    BY <2>4, <2>5
<1> QED
  BY <1>7, <1>8

LEMMA InitPhase ==
  ASSUME AccumulatorInit
  PROVE  PhaseInv
BY DEF AccumulatorInit, NoTimings, PhaseInv, Stamps

LEMMA PhaseStep == AccountsInv /\ PhaseInv /\ [AccumulatorNext]_accumulatorVars => PhaseInv'
<1> SUFFICES ASSUME AccountsInv, PhaseInv, [AccumulatorNext]_accumulatorVars PROVE PhaseInv'
  OBVIOUS
<1>1. ASSUME NEW r \in Requests, Deliver(r) PROVE PhaseInv'
  BY <1>1, DeliveryPhases
<1>2. CASE \A r \in Requests : ~Deliver(r)
  <2>1. timings' = timings /\ progress'.start = progress.start /\ plan' = plan
    BY <1>2, OthersKeepTimings
  <2>2. /\ Count(plan.warm)' = Count(plan.warm) /\ Duration(plan.warm)' = Duration(plan.warm)
        /\ Count(plan.cool)' = Count(plan.cool) /\ Duration(plan.cool)' = Duration(plan.cool)
    BY <2>1 DEF Count, Duration, Seconds
  <2> QED
    BY <2>1, <2>2 DEF PhaseInv, ByTime
<1> QED
  BY <1>1, <1>2

\* While its phases are durations a benchmark never goes back to an earlier one, however
\* late the updates arrive: GenerativeBenchmarkTimings, for every plan of a benchmark.
THEOREM PhasesOnlyAdvance == AccumulatorSpec => PhaseOnlyAdvances
<1>1. AccumulatorInit => AccountsInv /\ PhaseInv
  BY InitAccounts, InitPhase
<1>2. AccountsInv /\ PhaseInv /\ [AccumulatorNext]_accumulatorVars => (AccountsInv /\ PhaseInv)'
  BY AccountsStep, PhaseStep
<1>3. ASSUME AccountsInv, PhaseInv, [AccumulatorNext]_accumulatorVars,
             ByTime(plan.warm), ByTime(plan.cool)
      PROVE  Rank(Status(timings')) >= Rank(Status(timings))
  <2>1. ASSUME NEW r \in Requests, Deliver(r)
        PROVE  Rank(Status(timings')) >= Rank(Status(timings))
    BY <1>3, <2>1, DeliveryAdvances
  <2>2. CASE \A r \in Requests : ~Deliver(r)
    <3>1. timings' = timings
      BY <1>3, <2>2, OthersKeepTimings
    <3>2. Rank(Status(timings)) \in 0 .. 3
      BY <1>3, RankIs DEF AccountsInv, AccountsTyped
    <3> QED
      BY <3>1, <3>2
  <2> QED
    BY <2>1, <2>2
<1>4. AccountsInv /\ PhaseInv /\ [AccumulatorNext]_accumulatorVars =>
        [ByTime(plan.warm) /\ ByTime(plan.cool)
           => Rank(Status(timings')) >= Rank(Status(timings))]_accumulatorVars
  BY <1>3
<1> QED
  BY <1>1, <1>2, <1>4, PTL DEF AccumulatorSpec, PhaseOnlyAdvances
=============================================================================
