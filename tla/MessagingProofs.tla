---------------------------- MODULE MessagingProofs ----------------------------
(***************************************************************************)
(* What Messaging promises for every number of workers, messages and       *)
(* slots: no message is lost or doubled, replies arrive in order, and a    *)
(* worker fetches only what its slots can take.                            *)
(***************************************************************************)
EXTENDS Messaging, FiniteSetTheorems, TLAPS

-----------------------------------------------------------------------------
(***************************************************************************)
(* Boxes: C[p] is the sequence held at the place p of P.                   *)
(***************************************************************************)

LEMMA TailOf ==
  ASSUME NEW M, NEW s \in Seq(M), s # <<>>
  PROVE  /\ Len(s) \in Nat \ {0} /\ DOMAIN s = 1 .. Len(s)
         /\ Head(s) = s[1] /\ Head(s) \in M
         /\ Tail(s) \in Seq(M) /\ DOMAIN Tail(s) = 1 .. Len(s) - 1 /\ Len(Tail(s)) = Len(s) - 1
         /\ \A i \in 1 .. Len(s) - 1 : Tail(s)[i] = s[i + 1]
OBVIOUS

LEMMA AppendTo ==
  ASSUME NEW M, NEW s \in Seq(M), NEW x \in M
  PROVE  /\ Len(s) \in Nat /\ DOMAIN s = 1 .. Len(s)
         /\ Append(s, x) \in Seq(M) /\ DOMAIN Append(s, x) = 1 .. Len(s) + 1
         /\ Len(Append(s, x)) = Len(s) + 1
         /\ \A i \in 1 .. Len(s) : Append(s, x)[i] = s[i]
         /\ Append(s, x)[Len(s) + 1] = x
OBVIOUS

In(s, m) == \E i \in DOMAIN s : s[i] = m
Has(P, C, m) == \E p \in P : In(C[p], m)
Once(P, C) ==
  \A p, q \in P : \A i \in DOMAIN C[p], j \in DOMAIN C[q] :
    C[p][i] = C[q][j] => p = q /\ i = j

\* The first message of one place is taken out.
LEMMA TakenOut ==
  ASSUME NEW P, NEW M, NEW C \in [P -> Seq(M)], NEW D \in [P -> Seq(M)],
         NEW p \in P, C[p] # <<>>, D[p] = Tail(C[p]), \A r \in P \ {p} : D[r] = C[r],
         Once(P, C)
  PROVE  /\ Once(P, D) /\ ~Has(P, D, Head(C[p]))
         /\ \A m : Has(P, C, m) <=> Has(P, D, m) \/ m = Head(C[p])
<1> DEFINE s == C[p]
<1>1. /\ Len(s) \in Nat \ {0} /\ DOMAIN s = 1 .. Len(s) /\ Head(s) = s[1]
      /\ DOMAIN D[p] = 1 .. Len(s) - 1 /\ \A i \in 1 .. Len(s) - 1 : D[p][i] = s[i + 1]
  BY TailOf
<1> HIDE DEF s
<1>2. \A q \in P : \A i \in DOMAIN D[q] :
        \E k \in DOMAIN C[q] : C[q][k] = D[q][i] /\ k = (IF q = p THEN i + 1 ELSE i)
  <2> SUFFICES ASSUME NEW q \in P, NEW i \in DOMAIN D[q]
               PROVE  \E k \in DOMAIN C[q] : C[q][k] = D[q][i] /\ k = (IF q = p THEN i + 1 ELSE i)
    OBVIOUS
  <2>1. CASE q = p
    BY <1>1, <2>1 DEF s
  <2>2. CASE q # p
    BY <2>2
  <2> QED
    BY <2>1, <2>2
<1>3. Once(P, D)
  <2> SUFFICES ASSUME NEW q \in P, NEW r \in P, NEW i \in DOMAIN D[q], NEW j \in DOMAIN D[r],
                      D[q][i] = D[r][j]
               PROVE  q = r /\ i = j
    BY DEF Once
  <2>1. PICK k \in DOMAIN C[q] : C[q][k] = D[q][i] /\ k = (IF q = p THEN i + 1 ELSE i)
    BY <1>2
  <2>2. PICK l \in DOMAIN C[r] : C[r][l] = D[r][j] /\ l = (IF r = p THEN j + 1 ELSE j)
    BY <1>2
  <2>3. q = r /\ k = l
    BY <2>1, <2>2 DEF Once
  <2>4. CASE q = p
    BY <2>1, <2>2, <2>3, <2>4, <1>1
  <2>5. CASE q # p
    BY <2>1, <2>2, <2>3, <2>5
  <2> QED
    BY <2>4, <2>5
<1>4. ~Has(P, D, Head(s))
  <2> SUFFICES ASSUME NEW q \in P, NEW i \in DOMAIN D[q], D[q][i] = s[1] PROVE FALSE
    BY <1>1 DEF Has, In
  <2>1. PICK k \in DOMAIN C[q] : C[q][k] = D[q][i] /\ k = (IF q = p THEN i + 1 ELSE i)
    BY <1>2
  <2>2. q = p /\ k = 1
    BY <1>1, <2>1 DEF Once, s
  <2> QED
    BY <1>1, <2>1, <2>2
<1>5. ASSUME NEW m, Has(P, D, m) PROVE Has(P, C, m)
  BY <1>2, <1>5 DEF Has, In
<1>6. Has(P, C, Head(s))
  BY <1>1 DEF Has, In, s
<1>7. ASSUME NEW m, Has(P, C, m), m # Head(s) PROVE Has(P, D, m)
  <2>0. PICK q \in P : In(C[q], m)
    BY <1>7 DEF Has
  <2>1. PICK k \in DOMAIN C[q] : C[q][k] = m
    BY <2>0 DEF In
  <2>2. CASE q # p
    BY <2>1, <2>2 DEF Has, In
  <2>3. CASE q = p
    <3>1. k \in 1 .. Len(s) /\ k # 1 /\ s[k] = m
      BY <1>1, <1>7, <2>1, <2>3 DEF s
    <3>2. k - 1 \in DOMAIN D[p] /\ D[p][k - 1] = m
      BY <1>1, <3>1
    <3> QED
      BY <3>2 DEF Has, In
  <2> QED
    BY <2>2, <2>3
<1> QED
  BY <1>3, <1>4, <1>5, <1>6, <1>7 DEF s

\* A message that is nowhere is put at the end of one place.
Added(P, C, D, q, x) == q \in P /\ D[q] = Append(C[q], x) /\ \A r \in P \ {q} : D[r] = C[r]

LEMMA PutIn ==
  ASSUME NEW P, NEW M, NEW C \in [P -> Seq(M)], NEW D \in [P -> Seq(M)],
         NEW q, NEW x \in M, Added(P, C, D, q, x), Once(P, C), ~Has(P, C, x)
  PROVE  /\ Once(P, D)
         /\ \A m : Has(P, D, m) <=> Has(P, C, m) \/ m = x
<1> DEFINE s == C[q]
           n == Len(s)
<1>1. /\ n \in Nat /\ DOMAIN s = 1 .. n /\ DOMAIN D[q] = 1 .. n + 1
      /\ \A i \in 1 .. n : D[q][i] = s[i]
      /\ D[q][n + 1] = x /\ q \in P
  BY AppendTo DEF Added
<1> HIDE DEF s, n
<1>2. \A r \in P : \A i \in DOMAIN C[r] : i \in DOMAIN D[r] /\ D[r][i] = C[r][i] /\ C[r][i] # x
  <2> SUFFICES ASSUME NEW r \in P, NEW i \in DOMAIN C[r]
               PROVE  i \in DOMAIN D[r] /\ D[r][i] = C[r][i] /\ C[r][i] # x
    OBVIOUS
  <2>1. C[r][i] # x
    BY DEF Has, In
  <2>2. CASE r = q
    BY <1>1, <2>1, <2>2 DEF s
  <2> QED
    BY <2>1, <2>2 DEF Added
<1>3. \A r \in P : \A i \in DOMAIN D[r] :
        \/ i \in DOMAIN C[r] /\ D[r][i] = C[r][i]
        \/ r = q /\ i = n + 1 /\ D[r][i] = x
  <2> SUFFICES ASSUME NEW r \in P, NEW i \in DOMAIN D[r]
               PROVE  \/ i \in DOMAIN C[r] /\ D[r][i] = C[r][i]
                      \/ r = q /\ i = n + 1 /\ D[r][i] = x
    OBVIOUS
  <2>1. CASE r = q
    BY <1>1, <2>1 DEF s
  <2> QED
    BY <2>1 DEF Added
<1>4. Once(P, D)
  <2> SUFFICES ASSUME NEW r \in P, NEW u \in P, NEW i \in DOMAIN D[r], NEW j \in DOMAIN D[u],
                      D[r][i] = D[u][j]
               PROVE  r = u /\ i = j
    BY DEF Once
  <2>1. CASE i \in DOMAIN C[r] /\ D[r][i] = C[r][i]
    <3>1. C[r][i] # x
      BY <1>2, <2>1
    <3>2. j \in DOMAIN C[u] /\ D[u][j] = C[u][j]
      BY <1>3, <2>1, <3>1
    <3>3. C[r][i] = C[u][j] /\ i \in DOMAIN C[r] /\ j \in DOMAIN C[u]
      BY <2>1, <3>2
    <3> QED
      BY <3>3 DEF Once
  <2>2. CASE r = q /\ i = n + 1 /\ D[r][i] = x
    BY <1>2, <1>3, <2>2
  <2> QED
    BY <1>3, <2>1, <2>2
<1>5. ASSUME NEW m, Has(P, D, m) PROVE Has(P, C, m) \/ m = x
  BY <1>3, <1>5 DEF Has, In
<1>6. ASSUME NEW m, Has(P, C, m) PROVE Has(P, D, m)
  BY <1>2, <1>6 DEF Has, In
<1>7. Has(P, D, x)
  BY <1>1 DEF Has, In
<1> QED
  BY <1>4, <1>5, <1>6, <1>7

\* A message goes from one place to another.
Moved(P, C, D, p, q) ==
  /\ p \in P /\ q \in P /\ p # q /\ C[p] # <<>>
  /\ D[p] = Tail(C[p]) /\ D[q] = Append(C[q], Head(C[p]))
  /\ \A r \in P \ {p, q} : D[r] = C[r]

LEMMA MovedOn ==
  ASSUME NEW P, NEW M, NEW C \in [P -> Seq(M)], NEW D \in [P -> Seq(M)],
         NEW p, NEW q, Moved(P, C, D, p, q), Once(P, C)
  PROVE  /\ Once(P, D)
         /\ \A m : Has(P, D, m) <=> Has(P, C, m)
<1> DEFINE B == [C EXCEPT ![p] = Tail(@)]
           x == Head(C[p])
<1>1. /\ p \in P /\ q \in P /\ p # q /\ C[p] # <<>>
      /\ x \in M /\ Tail(C[p]) \in Seq(M)
  BY TailOf DEF Moved
<1>2. /\ B \in [P -> Seq(M)] /\ B[p] = Tail(C[p]) /\ \A r \in P \ {p} : B[r] = C[r]
  BY <1>1
<1> HIDE DEF B, x
<1>3. /\ Once(P, B) /\ ~Has(P, B, x) /\ \A m : Has(P, C, m) <=> Has(P, B, m) \/ m = x
  BY <1>1, <1>2, TakenOut DEF x
<1>4. Added(P, B, D, q, x)
  BY <1>1, <1>2 DEF Moved, Added, x
<1>5. Once(P, D) /\ \A m : Has(P, D, m) <=> Has(P, B, m) \/ m = x
  <2>1. /\ D \in [P -> Seq(M)] /\ B \in [P -> Seq(M)] /\ x \in M
        /\ Added(P, B, D, q, x) /\ Once(P, B) /\ ~Has(P, B, x)
    BY <1>1, <1>2, <1>3, <1>4
  <2>2. Once(P, D)
    BY <2>1, PutIn, Zenon
  <2>3. \A m : Has(P, D, m) <=> Has(P, B, m) \/ m = x
    BY <2>1, PutIn, Zenon
  <2> QED
    BY <2>2, <2>3
<1> QED
  BY <1>3, <1>5

\* Places lose messages from the front, or all.
Lessened(P, C, D) == \A r \in P : D[r] = C[r] \/ D[r] = <<>> \/ (C[r] # <<>> /\ D[r] = Tail(C[r]))

LEMMA LessHeld ==
  ASSUME NEW P, NEW M, NEW C \in [P -> Seq(M)], NEW D \in [P -> Seq(M)], Lessened(P, C, D),
         Once(P, C)
  PROVE  /\ Once(P, D)
         /\ \A m : Has(P, D, m) => Has(P, C, m)
<1>1. \A r \in P : \E c \in {0, 1} : \A i \in DOMAIN D[r] :
        i \in Int /\ i + c \in DOMAIN C[r] /\ D[r][i] = C[r][i + c]
  <2> SUFFICES ASSUME NEW r \in P
               PROVE  \E c \in {0, 1} : \A i \in DOMAIN D[r] :
                        i \in Int /\ i + c \in DOMAIN C[r] /\ D[r][i] = C[r][i + c]
    OBVIOUS
  <2>1. CASE D[r] = C[r]
    BY <2>1
  <2>2. CASE D[r] = <<>>
    BY <2>2
  <2>3. CASE C[r] # <<>> /\ D[r] = Tail(C[r])
    BY <2>3, TailOf
  <2> QED
    BY <2>1, <2>2, <2>3 DEF Lessened
<1>2. Once(P, D)
  <2> SUFFICES ASSUME NEW q \in P, NEW r \in P, NEW i \in DOMAIN D[q], NEW j \in DOMAIN D[r],
                      D[q][i] = D[r][j]
               PROVE  q = r /\ i = j
    BY DEF Once
  <2>1. PICK c \in {0, 1} : \A k \in DOMAIN D[q] :
          k \in Int /\ k + c \in DOMAIN C[q] /\ D[q][k] = C[q][k + c]
    BY <1>1
  <2>2. PICK d \in {0, 1} : \A k \in DOMAIN D[r] :
          k \in Int /\ k + d \in DOMAIN C[r] /\ D[r][k] = C[r][k + d]
    BY <1>1
  <2>3. q = r /\ i + c = j + d
    BY <2>1, <2>2 DEF Once
  <2>4. i + c = j + c
    BY <2>1, <2>2, <2>3 DEF Once
  <2> QED
    BY <2>1, <2>2, <2>3, <2>4
<1>3. ASSUME NEW m, Has(P, D, m) PROVE Has(P, C, m)
  BY <1>1, <1>3 DEF Has, In
<1> QED
  BY <1>2, <1>3
-----------------------------------------------------------------------------
(***************************************************************************)
(* Routes: the places R[6], ..., R[1] that messages pass one after the     *)
(* other, and the sequence r in which they set off.                        *)
(***************************************************************************)

Route(P) == {R \in [1 .. 6 -> P] : \A a, b \in 1 .. 6 : R[a] = R[b] => a = b}

\* m is ahead of what is at index i of the place R[a].
Ahead(C, R, m, a, i) ==
  \E b \in 1 .. a : \E j \in DOMAIN C[R[b]] : C[R[b]][j] = m /\ (b < a \/ j < i)

Ordered(C, R, r) ==
  \A a \in 1 .. 6 : \A i \in DOMAIN C[R[a]] : \A n \in DOMAIN r :
    C[R[a]][i] = r[n] => \A k \in 1 .. n - 1 : Ahead(C, R, r[k], a, i)

OnRoute(C, R, m) == \E a \in 1 .. 6 : In(C[R[a]], m)

\* How the positions in two boxes correspond when the first message of R[s + 1] goes to
\* R[s], which held n.
Shifts(s, n, a, i, b, j) ==
  \/ a = s + 1 /\ i = 1 /\ b = s /\ j = n + 1
  \/ a = s + 1 /\ i > 1 /\ b = s + 1 /\ j = i - 1
  \/ a = s /\ b = s /\ i <= n /\ j = i
  \/ a # s /\ a # s + 1 /\ b = a /\ j = i

LEMMA ShiftsForward ==
  ASSUME NEW s \in Int, NEW n \in Int,
         NEW a \in Int, NEW i \in Int, NEW b \in Int, NEW j \in Int,
         NEW c \in Int, NEW k \in Int, NEW d \in Int, NEW l \in Int, i >= 1, k >= 1,
         Shifts(s, n, a, i, b, j), Shifts(s, n, c, k, d, l), c < a \/ (c = a /\ k < i)
  PROVE  d < b \/ (d = b /\ l < j)
<1>1. CASE a = s + 1 /\ i = 1 /\ b = s /\ j = n + 1
  BY <1>1 DEF Shifts
<1>2. CASE a = s + 1 /\ i > 1 /\ b = s + 1 /\ j = i - 1
  <2>1. CASE c = s + 1 /\ k = 1 /\ d = s /\ l = n + 1
    BY <1>2, <2>1
  <2>2. CASE c = s + 1 /\ k > 1 /\ d = s + 1 /\ l = k - 1
    BY <1>2, <2>2
  <2>3. CASE c = s /\ d = s /\ k <= n /\ l = k
    BY <1>2, <2>3
  <2>4. CASE c # s /\ c # s + 1 /\ d = c /\ l = k
    BY <1>2, <2>4
  <2> QED
    BY <2>1, <2>2, <2>3, <2>4 DEF Shifts
<1>3. CASE a = s /\ b = s /\ i <= n /\ j = i
  BY <1>3 DEF Shifts
<1>4. CASE a # s /\ a # s + 1 /\ b = a /\ j = i
  <2>1. CASE c = s + 1 /\ k = 1 /\ d = s /\ l = n + 1
    BY <1>4, <2>1
  <2>2. CASE c = s + 1 /\ k > 1 /\ d = s + 1 /\ l = k - 1
    BY <1>4, <2>2
  <2>3. CASE c = s /\ d = s /\ k <= n /\ l = k
    BY <1>4, <2>3
  <2>4. CASE c # s /\ c # s + 1 /\ d = c /\ l = k
    BY <1>4, <2>4
  <2> QED
    BY <2>1, <2>2, <2>3, <2>4 DEF Shifts
<1> QED
  BY <1>1, <1>2, <1>3, <1>4 DEF Shifts

Corresponds(C, D, R, s, n) ==
  /\ \A b \in 1 .. 6 : \A j \in DOMAIN D[R[b]] :
       \E a \in 1 .. 6 : \E i \in DOMAIN C[R[a]] :
         Shifts(s, n, a, i, b, j) /\ C[R[a]][i] = D[R[b]][j]
  /\ \A a \in 1 .. 6 : \A i \in DOMAIN C[R[a]] :
       \E b \in 1 .. 6 : \E j \in DOMAIN D[R[b]] :
         Shifts(s, n, a, i, b, j) /\ C[R[a]][i] = D[R[b]][j]

LEMMA MovedAlong ==
  ASSUME NEW P, NEW M, NEW C \in [P -> Seq(M)], NEW D \in [P -> Seq(M)], NEW R \in Route(P),
         NEW s \in 1 .. 5, Moved(P, C, D, R[s + 1], R[s])
  PROVE  \E n \in Nat : Corresponds(C, D, R, s, n)
<1> DEFINE p == R[s + 1]
           q == R[s]
           n == Len(C[q])
           m == Len(C[p])
<1>1. /\ p \in P /\ q \in P /\ C[p] # <<>> /\ C[p] \in Seq(M) /\ C[q] \in Seq(M)
      /\ s + 1 \in 1 .. 6 /\ s \in 1 .. 6
  <2>1. s + 1 \in 1 .. 6 /\ s \in 1 .. 6
    OBVIOUS
  <2>2. p \in P /\ q \in P /\ C[p] # <<>>
    BY DEF Moved
  <2> QED
    BY <2>1, <2>2
<1>2. /\ m \in Nat \ {0} /\ DOMAIN C[p] = 1 .. m /\ Head(C[p]) = C[p][1] /\ Head(C[p]) \in M
      /\ DOMAIN D[p] = 1 .. m - 1 /\ \A i \in 1 .. m - 1 : D[p][i] = C[p][i + 1]
  BY <1>1, TailOf DEF Moved
<1>3. /\ n \in Nat /\ DOMAIN C[q] = 1 .. n /\ DOMAIN D[q] = 1 .. n + 1
      /\ \A i \in 1 .. n : D[q][i] = C[q][i]
      /\ D[q][n + 1] = C[p][1]
  BY <1>1, <1>2, AppendTo DEF Moved
<1>4. \A a \in 1 .. 6 : a # s /\ a # s + 1 => D[R[a]] = C[R[a]]
  BY <1>1 DEF Moved, Route
<1> HIDE DEF p, q, n, m
<1>5. p = R[s + 1] /\ q = R[s]
  BY DEF p, q
<1>6. ASSUME NEW b \in 1 .. 6, NEW j \in DOMAIN D[R[b]]
      PROVE  \E a \in 1 .. 6 : \E i \in DOMAIN C[R[a]] :
               Shifts(s, n, a, i, b, j) /\ C[R[a]][i] = D[R[b]][j]
  <2>1. CASE b = s /\ j # n + 1
    <3>0. R[b] = q /\ j \in 1 .. n + 1
      BY <1>3, <1>5, <2>1
    <3>1. j \in 1 .. n /\ j \in DOMAIN C[R[b]] /\ C[R[b]][j] = D[R[b]][j]
      BY <1>3, <2>1, <3>0
    <3> QED
      BY <2>1, <3>1 DEF Shifts
  <2>2. CASE b = s /\ j = n + 1
    <3>1. 1 \in DOMAIN C[R[s + 1]] /\ C[R[s + 1]][1] = D[R[b]][j]
      BY <1>2, <1>3, <1>5, <2>2
    <3> QED
      BY <1>1, <2>2, <3>1 DEF Shifts
  <2>3. CASE b = s + 1
    <3>1. /\ j \in 1 .. m - 1 /\ j + 1 \in DOMAIN C[R[b]] /\ C[R[b]][j + 1] = D[R[b]][j]
          /\ j + 1 > 1 /\ j = (j + 1) - 1
      BY <1>2, <1>5, <2>3
    <3>2. Shifts(s, n, b, j + 1, b, j)
      BY <2>3, <3>1 DEF Shifts
    <3> QED
      BY <3>1, <3>2
  <2>4. CASE b # s /\ b # s + 1
    <3>1. D[R[b]] = C[R[b]]
      BY <1>4, <2>4
    <3> QED
      BY <2>4, <3>1 DEF Shifts
  <2> QED
    BY <2>1, <2>2, <2>3, <2>4
<1>7. ASSUME NEW a \in 1 .. 6, NEW i \in DOMAIN C[R[a]]
      PROVE  \E b \in 1 .. 6 : \E j \in DOMAIN D[R[b]] :
               Shifts(s, n, a, i, b, j) /\ C[R[a]][i] = D[R[b]][j]
  <2>1. CASE a = s
    <3>1. i \in 1 .. n /\ i \in DOMAIN D[R[a]] /\ C[R[a]][i] = D[R[a]][i]
      BY <1>3, <1>5, <2>1
    <3>2. Shifts(s, n, a, i, a, i)
      BY <2>1, <3>1 DEF Shifts
    <3> QED
      BY <3>1, <3>2
  <2>2. CASE a = s + 1 /\ i = 1
    <3>1. n + 1 \in DOMAIN D[R[s]] /\ C[R[a]][i] = D[R[s]][n + 1]
      BY <1>2, <1>3, <1>5, <2>2
    <3> QED
      BY <1>1, <2>2, <3>1 DEF Shifts
  <2>3. CASE a = s + 1 /\ i # 1
    <3>1. /\ i \in 1 .. m /\ i > 1 /\ i - 1 \in 1 .. m - 1 /\ i - 1 \in DOMAIN D[R[a]]
          /\ (i - 1) + 1 = i
      BY <1>2, <1>5, <2>3
    <3>2. C[R[a]][i] = D[R[a]][i - 1]
      BY <1>2, <1>5, <2>3, <3>1
    <3> QED
      BY <2>3, <3>1, <3>2 DEF Shifts
  <2>4. CASE a # s /\ a # s + 1
    <3>1. D[R[a]] = C[R[a]]
      BY <1>4, <2>4
    <3> QED
      BY <2>4, <3>1 DEF Shifts
  <2> QED
    BY <2>1, <2>2, <2>3, <2>4
<1>8. Corresponds(C, D, R, s, n)
  BY <1>6, <1>7 DEF Corresponds
<1> QED
  BY <1>3, <1>8

\* What is ahead stays ahead when a message goes on along the route.
LEMMA OrderedMove ==
  ASSUME NEW P, NEW M, NEW C \in [P -> Seq(M)], NEW D \in [P -> Seq(M)], NEW R \in Route(P),
         NEW s \in 1 .. 5, Moved(P, C, D, R[s + 1], R[s]),
         NEW r \in Seq(M), Ordered(C, R, r)
  PROVE  Ordered(D, R, r) /\ \A m : OnRoute(C, R, m) => OnRoute(D, R, m)
<1>1. PICK n \in Nat : Corresponds(C, D, R, s, n)
  BY MovedAlong
<1>2. ASSUME NEW a \in 1 .. 6
      PROVE  /\ \A i \in DOMAIN C[R[a]] : i \in Nat /\ i >= 1
             /\ \A i \in DOMAIN D[R[a]] : i \in Nat /\ i >= 1
  <2>1. R[a] \in P
    BY DEF Route
  <2>2. C[R[a]] \in Seq(M) /\ D[R[a]] \in Seq(M)
    BY <2>1
  <2> QED
    BY <2>2
<1>3. Ordered(D, R, r)
  <2> SUFFICES ASSUME NEW b \in 1 .. 6, NEW j \in DOMAIN D[R[b]], NEW x \in DOMAIN r,
                      D[R[b]][j] = r[x], NEW k \in 1 .. x - 1
               PROVE  Ahead(D, R, r[k], b, j)
    BY DEF Ordered
  <2>1. PICK a \in 1 .. 6 : \E i \in DOMAIN C[R[a]] :
          Shifts(s, n, a, i, b, j) /\ C[R[a]][i] = D[R[b]][j]
    BY <1>1 DEF Corresponds
  <2>2. PICK i \in DOMAIN C[R[a]] : Shifts(s, n, a, i, b, j) /\ C[R[a]][i] = D[R[b]][j]
    BY <2>1
  <2>3. Ahead(C, R, r[k], a, i)
    BY <2>2 DEF Ordered
  <2>4. PICK c \in 1 .. a : \E y \in DOMAIN C[R[c]] : C[R[c]][y] = r[k] /\ (c < a \/ y < i)
    BY <2>3 DEF Ahead
  <2>5. PICK y \in DOMAIN C[R[c]] : C[R[c]][y] = r[k] /\ (c < a \/ y < i)
    BY <2>4
  <2>6. c \in 1 .. 6 /\ (c < a \/ (c = a /\ y < i))
    <3>1. c \in 1 .. 6 /\ (c < a \/ c = a)
      OBVIOUS
    <3> QED
      BY <2>5, <3>1
  <2>7. PICK d \in 1 .. 6 : \E l \in DOMAIN D[R[d]] :
          Shifts(s, n, c, y, d, l) /\ C[R[c]][y] = D[R[d]][l]
    BY <1>1, <2>6 DEF Corresponds
  <2>8. PICK l \in DOMAIN D[R[d]] : Shifts(s, n, c, y, d, l) /\ C[R[c]][y] = D[R[d]][l]
    BY <2>7
  <2>9. /\ i \in Int /\ i >= 1 /\ y \in Int /\ y >= 1 /\ j \in Int /\ l \in Int
        /\ s \in Int /\ n \in Int /\ a \in Int /\ b \in Int /\ c \in Int /\ d \in Int
    <3>1. i \in Nat /\ i >= 1
      BY <1>2
    <3>2. y \in Nat /\ y >= 1
      BY <1>2, <2>6
    <3>3. j \in Nat /\ l \in Nat
      BY <1>2
    <3> QED
      BY <2>6, <3>1, <3>2, <3>3
  <2>10. d < b \/ (d = b /\ l < j)
    BY <2>2, <2>6, <2>8, <2>9, ShiftsForward
  <2>11. d \in 1 .. b /\ (d < b \/ l < j)
    <3>1. d < b \/ l < j
      BY <2>10, Zenon
    <3>2. d < b \/ d = b
      BY <2>10, Zenon
    <3>3. d \in 1 .. 6 /\ b \in 1 .. 6
      OBVIOUS
    <3>4. d \in 1 .. b
      BY <3>2, <3>3, SMT
    <3> QED
      BY <3>1, <3>4
  <2>12. D[R[d]][l] = r[k]
    BY <2>5, <2>8
  <2> QED
    BY <2>11, <2>12 DEF Ahead
<1>4. ASSUME NEW m, OnRoute(C, R, m) PROVE OnRoute(D, R, m)
  <2>1. PICK a \in 1 .. 6 : In(C[R[a]], m)
    BY <1>4 DEF OnRoute
  <2>2. PICK i \in DOMAIN C[R[a]] : C[R[a]][i] = m
    BY <2>1 DEF In
  <2>3. \E b \in 1 .. 6 : \E j \in DOMAIN D[R[b]] : C[R[a]][i] = D[R[b]][j]
    BY <1>1 DEF Corresponds
  <2> QED
    BY <2>2, <2>3 DEF OnRoute, In
<1> QED
  BY <1>3, <1>4

\* A message that is none of these moves somewhere else, or comes onto the route.
LEMMA OrderedForeign ==
  ASSUME NEW P, NEW M, NEW C \in [P -> Seq(M)], NEW D \in [P -> Seq(M)], NEW R \in Route(P),
         NEW p, NEW q, Moved(P, C, D, p, q), \A a \in 1 .. 6 : R[a] # p,
         NEW r \in Seq(M), ~In(r, Head(C[p])) \/ \A a \in 1 .. 6 : R[a] # q, Ordered(C, R, r)
  PROVE  Ordered(D, R, r) /\ \A m : OnRoute(C, R, m) => OnRoute(D, R, m)
<1>1. ASSUME NEW a \in 1 .. 6
      PROVE  \A i \in DOMAIN C[R[a]] : i \in DOMAIN D[R[a]] /\ D[R[a]][i] = C[R[a]][i]
  <2>1. R[a] \in P /\ C[R[a]] \in Seq(M) /\ R[a] # p
    BY DEF Route
  <2>2. CASE R[a] = q
    <3>1. Head(C[p]) \in M
      BY TailOf DEF Moved
    <3>2. D[R[a]] = Append(C[R[a]], Head(C[p]))
      BY <2>2 DEF Moved
    <3> QED
      BY <2>1, <3>1, <3>2, AppendTo
  <2>3. CASE R[a] # q
    BY <2>1, <2>3 DEF Moved
  <2> QED
    BY <2>2, <2>3
<1>2. ASSUME NEW a \in 1 .. 6, NEW i \in DOMAIN D[R[a]], In(r, D[R[a]][i])
      PROVE  i \in DOMAIN C[R[a]] /\ D[R[a]][i] = C[R[a]][i]
  <2>1. R[a] \in P /\ C[R[a]] \in Seq(M) /\ R[a] # p
    BY DEF Route
  <2>2. CASE R[a] = q
    <3>1. Head(C[p]) \in M
      BY TailOf DEF Moved
    <3>2. D[R[a]] = Append(C[R[a]], Head(C[p])) /\ ~In(r, Head(C[p]))
      BY <2>2 DEF Moved
    <3>3. i \in 1 .. Len(C[R[a]])
      BY <1>2, <2>1, <3>1, <3>2, AppendTo
    <3> QED
      BY <2>1, <3>1, <3>2, <3>3, AppendTo
  <2>3. CASE R[a] # q
    BY <2>1, <2>3 DEF Moved
  <2> QED
    BY <2>2, <2>3
<1>3. Ordered(D, R, r)
  <2> SUFFICES ASSUME NEW b \in 1 .. 6, NEW j \in DOMAIN D[R[b]], NEW x \in DOMAIN r,
                      D[R[b]][j] = r[x], NEW k \in 1 .. x - 1
               PROVE  Ahead(D, R, r[k], b, j)
    BY DEF Ordered
  <2>1. j \in DOMAIN C[R[b]] /\ C[R[b]][j] = r[x]
    BY <1>2 DEF In
  <2>2. Ahead(C, R, r[k], b, j)
    BY <2>1 DEF Ordered
  <2>3. PICK c \in 1 .. b : \E y \in DOMAIN C[R[c]] : C[R[c]][y] = r[k] /\ (c < b \/ y < j)
    BY <2>2 DEF Ahead
  <2>4. c \in 1 .. 6
    OBVIOUS
  <2> QED
    BY <1>1, <2>3, <2>4 DEF Ahead
<1>4. ASSUME NEW m, OnRoute(C, R, m) PROVE OnRoute(D, R, m)
  BY <1>1, <1>4 DEF OnRoute, In
<1> QED
  BY <1>3, <1>4

\* Another message sets off, when all the others are still on the route.
LEMMA OrderedPut ==
  ASSUME NEW P, NEW M, NEW C \in [P -> Seq(M)], NEW D \in [P -> Seq(M)], NEW R \in Route(P),
         NEW r \in Seq(M), NEW x \in M, \A a \in 1 .. 5 : D[R[a]] = C[R[a]],
         D[R[6]] = Append(C[R[6]], x), ~In(r, x), \A a \in 1 .. 6 : ~In(C[R[a]], x),
         Ordered(C, R, r), \A n \in DOMAIN r : OnRoute(C, R, r[n])
  PROVE  /\ Ordered(D, R, Append(r, x))
         /\ \A n \in DOMAIN Append(r, x) : OnRoute(D, R, Append(r, x)[n])
<1> DEFINE z == Len(C[R[6]])
           e == Len(r)
           t == Append(r, x)
<1>0. 6 \in 1 .. 6 /\ R[6] \in P /\ C[R[6]] \in Seq(M)
  BY DEF Route
<1>1. /\ z \in Nat /\ DOMAIN C[R[6]] = 1 .. z /\ DOMAIN D[R[6]] = 1 .. z + 1
      /\ \A i \in 1 .. z : D[R[6]][i] = C[R[6]][i]
      /\ D[R[6]][z + 1] = x
  <2>1. D[R[6]] = Append(C[R[6]], x)
    OBVIOUS
  <2> QED
    BY <1>0, <2>1, AppendTo
<1>2. /\ e \in Nat /\ DOMAIN r = 1 .. e /\ DOMAIN t = 1 .. e + 1
      /\ \A i \in 1 .. e : t[i] = r[i]
      /\ t[e + 1] = x
  BY AppendTo
<1> HIDE DEF z, e, t
<1>3. ASSUME NEW a \in 1 .. 6
      PROVE  \A i \in DOMAIN C[R[a]] : /\ i \in DOMAIN D[R[a]] /\ D[R[a]][i] = C[R[a]][i]
                                       /\ C[R[a]][i] # x
  <2>1. \A i \in DOMAIN C[R[a]] : C[R[a]][i] # x
    BY DEF In
  <2>2. CASE a = 6
    <3>1. \A i \in 1 .. z : i \in 1 .. z + 1
      BY <1>1
    <3> QED
      BY <1>1, <2>1, <2>2, <3>1
  <2>3. CASE a # 6
    BY <2>1, <2>3
  <2> QED
    BY <2>2, <2>3
<1>4. ASSUME NEW m, OnRoute(C, R, m) PROVE OnRoute(D, R, m)
  BY <1>3, <1>4 DEF OnRoute, In
<1>5. OnRoute(D, R, x)
  BY <1>0, <1>1 DEF OnRoute, In
<1>6. \A n \in DOMAIN t : OnRoute(D, R, t[n])
  <2> SUFFICES ASSUME NEW n \in DOMAIN t PROVE OnRoute(D, R, t[n])
    OBVIOUS
  <2>1. CASE n = e + 1
    BY <1>2, <1>5, <2>1
  <2>2. CASE n # e + 1
    <3>0. n \in 1 .. e
      BY <1>2, <2>2
    <3>1. n \in DOMAIN r /\ t[n] = r[n]
      BY <1>2, <3>0
    <3> QED
      BY <1>4, <3>1
  <2> QED
    BY <2>1, <2>2
<1>7. Ordered(D, R, t)
  <2> SUFFICES ASSUME NEW b \in 1 .. 6, NEW j \in DOMAIN D[R[b]], NEW n \in DOMAIN t,
                      D[R[b]][j] = t[n], NEW k \in 1 .. n - 1
               PROVE  Ahead(D, R, t[k], b, j)
    BY DEF Ordered
  <2>0. n \in 1 .. e + 1 /\ k \in 1 .. e
    BY <1>2
  <2>1. k \in DOMAIN r /\ t[k] = r[k] /\ n \in 1 .. e + 1
    BY <1>2, <2>0
  <2>2. CASE b = 6 /\ j = z + 1
    <3>1. OnRoute(C, R, r[k])
      BY <2>1
    <3>2. PICK c \in 1 .. 6 : In(C[R[c]], r[k])
      BY <3>1 DEF OnRoute
    <3>3. PICK y \in DOMAIN C[R[c]] : C[R[c]][y] = r[k]
      BY <3>2 DEF In
    <3>4. c < 6 \/ y < z + 1
      <4>1. CASE c = 6
        BY <1>1, <4>1
      <4> QED
        BY <4>1
    <3>5. y \in DOMAIN D[R[c]] /\ D[R[c]][y] = r[k]
      BY <1>3, <3>3
    <3> QED
      BY <2>1, <2>2, <3>4, <3>5 DEF Ahead
  <2>3. CASE ~(b = 6 /\ j = z + 1)
    <3>1. j \in DOMAIN C[R[b]] /\ D[R[b]][j] = C[R[b]][j]
      <4>1. CASE b = 6
        <5>0. j \in 1 .. z + 1 /\ j # z + 1
          BY <1>1, <2>3, <4>1
        <5>1. j \in 1 .. z
          BY <1>1, <5>0
        <5> QED
          BY <1>1, <4>1, <5>1
      <4>2. CASE b # 6
        <5>1. b \in 1 .. 5
          BY <4>2
        <5>2. D[R[b]] = C[R[b]]
          BY <5>1
        <5> QED
          BY <5>2
      <4> QED
        BY <4>1, <4>2
    <3>2. C[R[b]][j] # x
      BY <1>3, <3>1
    <3>3. n \in DOMAIN r /\ t[n] = r[n]
      <4>1. n # e + 1
        BY <1>2, <3>1, <3>2
      <4>2. n \in 1 .. e
        BY <1>2, <2>1, <4>1
      <4> QED
        BY <1>2, <4>2
    <3>4. Ahead(C, R, r[k], b, j)
      BY <3>1, <3>3 DEF Ordered
    <3>5. PICK c \in 1 .. b : \E y \in DOMAIN C[R[c]] : C[R[c]][y] = r[k] /\ (c < b \/ y < j)
      BY <3>4 DEF Ahead
    <3>6. c \in 1 .. 6
      OBVIOUS
    <3> QED
      BY <1>3, <2>1, <3>5, <3>6 DEF Ahead
  <2> QED
    BY <2>2, <2>3
<1> QED
  BY <1>6, <1>7 DEF t

\* The last messages of the route are lost.
LEMMA OrderedLoss ==
  ASSUME NEW P, NEW C, NEW D, NEW R \in Route(P), NEW r, Ordered(C, R, r),
         \A a \in 1 .. 5 : D[R[a]] = C[R[a]], D[R[6]] \in {C[R[6]], <<>>}
  PROVE  Ordered(D, R, r)
<1> SUFFICES ASSUME NEW b \in 1 .. 6, NEW j \in DOMAIN D[R[b]], NEW n \in DOMAIN r,
                    D[R[b]][j] = r[n], NEW k \in 1 .. n - 1
             PROVE  Ahead(D, R, r[k], b, j)
  BY DEF Ordered
<1>1. D[R[b]] = C[R[b]]
  <2>1. CASE b = 6
    BY <2>1
  <2>2. CASE b # 6
    BY <2>2
  <2> QED
    BY <2>1, <2>2
<1>2. \A a \in 1 .. b : D[R[a]] = C[R[a]]
  <2> SUFFICES ASSUME NEW a \in 1 .. b PROVE D[R[a]] = C[R[a]]
    OBVIOUS
  <2>1. CASE a = 6
    <3>1. b = 6
      BY <2>1
    <3> QED
      BY <1>1, <2>1, <3>1
  <2>2. CASE a # 6
    <3>1. a \in 1 .. 5
      BY <2>2
    <3> QED
      BY <3>1
  <2> QED
    BY <2>1, <2>2
<1>3. Ahead(C, R, r[k], b, j)
  BY <1>1 DEF Ordered
<1> QED
  BY <1>2, <1>3 DEF Ahead

-----------------------------------------------------------------------------
(***************************************************************************)
(* Types, and what the threads of a transport hold.                        *)
(***************************************************************************)

SenderRecord == [at : {"on", "off", "dead"}, item : Optional, empties : 0 .. RequiredEmpty,
                 slot : Optional, moving : Optional]
ReceiverRecord == [at : {"on", "off", "dead"}, item : Optional, empties : 0 .. RequiredEmpty,
                   polling : BOOLEAN]

Typed ==
  /\ layer \in Layers /\ produced \in 0 .. Messages
  /\ outbox \in [Ends -> Seq(Message)] /\ inbox \in [Ends -> Seq(Message)]
  /\ sender \in [Threads -> SenderRecord] /\ receiver \in [Threads -> ReceiverRecord]
  /\ wire \in [Wires -> Seq(Message)]
  /\ waiting \in [Workers -> Nat] /\ demand \in [Workers -> Nat]
  /\ \A w \in Workers : waiting[w] <= demand[w] /\ demand[w] <= Slots
  /\ serving \in [Workers -> Seq(Message)] /\ replied \in [Workers -> Seq(Message)]
  /\ got \in Seq(Message)
  /\ closing \in [Ends -> {"open", "stopping", "stopped"}] /\ canceled \in [Ends -> BOOLEAN]

\* Only the threads that the transport uses have anything.
ThreadsFit ==
  \A t \in Threads :
    /\ sender[t].at # "off" \/ sender[t].slot # <<>> \/ sender[t].moving # <<>> => Used(t)
    /\ receiver[t].at # "off" => Used(t)
    /\ ~Piped => sender[t].slot = <<>> /\ sender[t].moving = <<>>
    /\ sender[t].item # <<>> => sender[t].at = "on"
    /\ receiver[t].item # <<>> => receiver[t].at = "on"

LEMMA ThreadEnds ==
  ASSUME NEW t \in Threads
  PROVE  /\ t[1] \in Ends /\ t[2] \in Ends /\ t = <<t[1], t[2]>>
         /\ t[1] # Main => t[2] = t[1]
         /\ t[1] = Main => t[2] = Main \/ t[2] \in Workers
BY DEF Threads, Ends

LEMMA UsedThread ==
  ASSUME NEW t \in Threads, Used(t)
  PROVE  /\ WireOut(t) \in Wires /\ WireIn(t) \in Wires
         /\ ~Piped => t = <<t[1], t[1]>>
         /\ Piped => t[2] \in Workers
<1>1. /\ t[1] \in Ends /\ t[2] \in Ends /\ t = <<t[1], t[2]>>
      /\ t[1] # Main => t[2] = t[1]
      /\ t[1] = Main => t[2] = Main \/ t[2] \in Workers
  BY ThreadEnds
<1>2. CASE Piped
  <2>1. t[2] \in Workers
    BY <1>1, <1>2, MessagingAssumption DEF Used, Ends
  <2> QED
    BY <1>2, <2>1 DEF WireOut, WireIn, Wires, SendConnection, ReceiveConnection
<1>3. CASE ~Piped
  BY <1>1, <1>3 DEF Used, WireOut, WireIn, Wires
<1> QED
  BY <1>2, <1>3

\* A thread's message as a sequence.
LEMMA Single ==
  ASSUME NEW s \in Optional
  PROVE  /\ s \in Seq(Message)
         /\ s # <<>> => /\ Head(s) \in Message /\ s = <<Head(s)>> /\ Tail(s) = <<>>
                        /\ \A b \in Seq(Message) : b \o s = Append(b, Head(s))
         /\ s # <<>> => Len(s) = 1
<1>1. CASE s = <<>>
  BY <1>1
<1>2. ASSUME NEW m \in Message, s = <<m>>
      PROVE  /\ s \in Seq(Message) /\ Head(s) = m /\ Tail(s) = <<>> /\ Len(s) = 1
             /\ \A b \in Seq(Message) : b \o s = Append(b, m)
  <2>1. s \in Seq(Message) /\ Head(s) = m /\ Tail(s) = <<>> /\ Len(s) = 1
    BY <1>2
  <2>2. \A b \in Seq(Message) : b \o s = Append(b, m)
    BY <1>2
  <2> QED
    BY <2>1, <2>2
<1> QED
  BY <1>1, <1>2 DEF Optional

LEMMA IsOptional == <<>> \in Optional /\ \A m \in Message : <<m>> \in Optional
BY DEF Optional

\* A step that changes the record of one sending thread, or of none.
SenderSet(t, a, i, s, m) ==
  /\ \A u \in Threads \ {t} : sender'[u] = sender[u]
  /\ sender'[t].at = a /\ sender'[t].item = i /\ sender'[t].slot = s /\ sender'[t].moving = m

ReceiverSet(t, a, i) ==
  /\ \A u \in Threads \ {t} : receiver'[u] = receiver[u]
  /\ receiver'[t].at = a /\ receiver'[t].item = i

LEMMA Bounds ==
  /\ RequiredEmpty \in Nat \ {0} /\ Messages \in Nat \ {0} /\ Slots \in Nat \ {0}
  /\ 0 \in 0 .. RequiredEmpty
  /\ \A k \in 0 .. RequiredEmpty : OneMore(k) \in 0 .. RequiredEmpty
<1>1. RequiredEmpty \in Nat \ {0} /\ Messages \in Nat \ {0} /\ Slots \in Nat \ {0}
  BY MessagingAssumption
<1> QED
  BY <1>1 DEF OneMore

LEMMA OutboxHead ==
  ASSUME Typed, NEW e \in Ends, outbox[e] # <<>>
  PROVE  /\ Head(outbox[e]) \in Message /\ <<Head(outbox[e])>> \in Optional
         /\ Tail(outbox[e]) \in Seq(Message)
<1>1. outbox[e] \in Seq(Message)
  BY DEF Typed
<1> QED
  BY <1>1, TailOf, IsOptional

\* Each step of a sending thread.
LEMMA SenderTakesSets ==
  ASSUME Typed, NEW t \in Threads, SenderTakes(t)
  PROVE  /\ sender' \in [Threads -> SenderRecord]
         /\ \/ /\ Iterates(t[1]) /\ produced + 1 \in 1 .. Messages /\ produced' = produced + 1
               /\ [id |-> produced + 1, by |-> Main] \in Message
               /\ SenderSet(t, "on", <<[id |-> produced + 1, by |-> Main]>>, sender[t].slot,
                            sender[t].moving)
               /\ outbox' = outbox
            \/ /\ ~Iterates(t[1]) /\ outbox[t[1]] # <<>>
               /\ outbox' = [outbox EXCEPT ![t[1]] = Tail(@)]
               /\ SenderSet(t, "on", <<Head(outbox[t[1]])>>, sender[t].slot, sender[t].moving)
               /\ produced' = produced
<1>1. sender \in [Threads -> SenderRecord] /\ sender[t].at = "on" /\ produced \in 0 .. Messages
  BY DEF Typed, SenderTakes
<1>2. CASE Iterates(t[1])
  <2>1. /\ produced < Messages /\ produced' = produced + 1 /\ outbox' = outbox
        /\ sender' = [sender EXCEPT ![t].item = <<[id |-> produced + 1, by |-> Main]>>,
                                    ![t].empties = 0]
    BY <1>2 DEF SenderTakes
  <2>2. /\ produced + 1 \in 1 .. Messages /\ [id |-> produced + 1, by |-> Main] \in Message
    BY <1>1, <2>1, Bounds DEF Message, Ends
  <2>3. <<[id |-> produced + 1, by |-> Main]>> \in Optional
    BY <2>2, IsOptional
  <2>4. sender' \in [Threads -> SenderRecord]
    BY <1>1, <2>1, <2>3, Bounds DEF SenderRecord
  <2>5. SenderSet(t, "on", <<[id |-> produced + 1, by |-> Main]>>, sender[t].slot,
                  sender[t].moving)
    BY <1>1, <2>1 DEF SenderSet, SenderRecord
  <2> QED
    BY <1>2, <2>1, <2>2, <2>4, <2>5
<1>3. CASE ~Iterates(t[1])
  <2>1. /\ outbox[t[1]] # <<>> /\ outbox' = [outbox EXCEPT ![t[1]] = Tail(@)]
        /\ sender' = [sender EXCEPT ![t].item = <<Head(outbox[t[1]])>>, ![t].empties = 0]
        /\ produced' = produced
    BY <1>3 DEF SenderTakes
  <2>2. <<Head(outbox[t[1]])>> \in Optional
    BY <2>1, OutboxHead, ThreadEnds
  <2>3. sender' \in [Threads -> SenderRecord]
    BY <1>1, <2>1, <2>2, Bounds DEF SenderRecord
  <2>4. SenderSet(t, "on", <<Head(outbox[t[1]])>>, sender[t].slot, sender[t].moving)
    BY <1>1, <2>1 DEF SenderSet, SenderRecord
  <2> QED
    BY <1>3, <2>1, <2>3, <2>4
<1> QED
  BY <1>2, <1>3

LEMMA SenderSendsSets ==
  ASSUME Typed, ThreadsFit, NEW t \in Threads, SenderSends(t)
  PROVE  /\ sender' \in [Threads -> SenderRecord] /\ sender[t].item # <<>>
         /\ \/ /\ Piped /\ sender[t].slot = <<>> /\ wire' = wire
               /\ SenderSet(t, "on", <<>>, sender[t].item, sender[t].moving)
            \/ /\ ~Piped /\ WireOut(t) \in Wires
               /\ wire' = [wire EXCEPT ![WireOut(t)] = @ \o sender[t].item]
               /\ SenderSet(t, "on", <<>>, sender[t].slot, sender[t].moving)
<1>1. sender \in [Threads -> SenderRecord] /\ sender[t].at = "on" /\ sender[t].item # <<>>
  BY DEF Typed, SenderSends
<1>2. CASE Piped
  <2>1. /\ sender[t].slot = <<>> /\ wire' = wire
        /\ sender' = [sender EXCEPT ![t].slot = sender[t].item, ![t].item = <<>>]
    BY <1>2 DEF SenderSends, SlotFree
  <2>2. sender' \in [Threads -> SenderRecord]
    BY <1>1, <2>1, IsOptional DEF SenderRecord
  <2>3. SenderSet(t, "on", <<>>, sender[t].item, sender[t].moving)
    BY <1>1, <2>1 DEF SenderSet, SenderRecord
  <2> QED
    BY <1>1, <1>2, <2>1, <2>2, <2>3
<1>3. CASE ~Piped
  <2>1. /\ wire' = [wire EXCEPT ![WireOut(t)] = @ \o sender[t].item]
        /\ sender' = [sender EXCEPT ![t].item = <<>>]
    BY <1>3 DEF SenderSends
  <2>2. sender' \in [Threads -> SenderRecord]
    BY <1>1, <2>1, IsOptional DEF SenderRecord
  <2>3. SenderSet(t, "on", <<>>, sender[t].slot, sender[t].moving)
    BY <1>1, <2>1 DEF SenderSet, SenderRecord
  <2>4. WireOut(t) \in Wires
    BY <1>1, UsedThread DEF ThreadsFit
  <2> QED
    BY <1>1, <1>3, <2>1, <2>2, <2>3, <2>4
<1> QED
  BY <1>2, <1>3

LEMMA SenderOthersSet ==
  ASSUME Typed, NEW t \in Threads
  PROVE  /\ SenderIdles(t) =>
              /\ sender' \in [Threads -> SenderRecord]
              /\ SenderSet(t, sender[t].at, sender[t].item, sender[t].slot, sender[t].moving)
         /\ SenderEnds(t) =>
              /\ sender' \in [Threads -> SenderRecord]
              /\ SenderSet(t, "off", <<>>, sender[t].slot, sender[t].moving)
         /\ PipeTakes(t) =>
              /\ sender' \in [Threads -> SenderRecord]
              /\ SenderSet(t, "on", sender[t].item, <<>>, sender[t].slot)
         /\ PipeSends(t) =>
              /\ sender' \in [Threads -> SenderRecord]
              /\ SenderSet(t, sender[t].at, sender[t].item, sender[t].slot, <<>>)
         /\ SenderDies(t) =>
              /\ sender' \in [Threads -> SenderRecord] /\ sender[t].item = <<>>
              /\ SenderSet(t, "dead", <<>>, sender[t].slot, sender[t].moving)
<1>1. sender \in [Threads -> SenderRecord] /\ sender[t] \in SenderRecord
  BY DEF Typed
<1>2. sender[t].empties \in 0 .. RequiredEmpty
  BY <1>1 DEF SenderRecord
<1>3. ASSUME SenderIdles(t)
      PROVE  /\ sender' \in [Threads -> SenderRecord]
             /\ SenderSet(t, sender[t].at, sender[t].item, sender[t].slot, sender[t].moving)
  <2>1. sender' = [sender EXCEPT ![t].empties = OneMore(@)]
    BY <1>3 DEF SenderIdles
  <2>2. OneMore(sender[t].empties) \in 0 .. RequiredEmpty
    BY <1>2, Bounds
  <2> HIDE DEF OneMore
  <2> QED
    BY <1>1, <2>1, <2>2 DEF SenderSet, SenderRecord
<1>4. ASSUME SenderEnds(t)
      PROVE  /\ sender' \in [Threads -> SenderRecord]
             /\ SenderSet(t, "off", <<>>, sender[t].slot, sender[t].moving)
  <2>1. sender' = [sender EXCEPT ![t].at = "off", ![t].item = <<>>, ![t].empties = 0]
    BY <1>4 DEF SenderEnds
  <2> QED
    BY <1>1, <2>1, Bounds, IsOptional DEF SenderSet, SenderRecord
<1>5. ASSUME PipeTakes(t)
      PROVE  /\ sender' \in [Threads -> SenderRecord]
             /\ SenderSet(t, "on", sender[t].item, <<>>, sender[t].slot)
  <2>1. /\ sender' = [sender EXCEPT ![t].moving = sender[t].slot, ![t].slot = <<>>]
        /\ sender[t].at = "on"
    BY <1>5 DEF PipeTakes
  <2> QED
    BY <1>1, <2>1, IsOptional DEF SenderSet, SenderRecord
<1>6. ASSUME PipeSends(t)
      PROVE  /\ sender' \in [Threads -> SenderRecord]
             /\ SenderSet(t, sender[t].at, sender[t].item, sender[t].slot, <<>>)
  <2>1. sender' = [sender EXCEPT ![t].moving = <<>>]
    BY <1>6 DEF PipeSends
  <2> QED
    BY <1>1, <2>1, IsOptional DEF SenderSet, SenderRecord
<1>7. ASSUME SenderDies(t)
      PROVE  /\ sender' \in [Threads -> SenderRecord] /\ sender[t].item = <<>>
             /\ SenderSet(t, "dead", <<>>, sender[t].slot, sender[t].moving)
  <2>1. /\ sender' = [sender EXCEPT ![t].at = "dead", ![t].empties = 0]
        /\ sender[t].item = <<>>
    BY <1>7 DEF SenderDies
  <2> QED
    BY <1>1, <2>1, Bounds DEF SenderSet, SenderRecord
<1> QED
  BY <1>3, <1>4, <1>5, <1>6, <1>7

\* Each step of a receiving thread.
LEMMA ReceiverSets ==
  ASSUME Typed, ThreadsFit, NEW t \in Threads
  PROVE  /\ ReceiverLooks(t) \/ ReceiverIdles(t) =>
              /\ receiver' \in [Threads -> ReceiverRecord]
              /\ ReceiverSet(t, "on", receiver[t].item)
         /\ ReceiverTakes(t) =>
              /\ receiver' \in [Threads -> ReceiverRecord] /\ receiver[t].item = <<>>
              /\ WireIn(t) \in Wires /\ wire[WireIn(t)] # <<>>
              /\ ReceiverSet(t, "on", <<Head(wire[WireIn(t)])>>)
         /\ ReceiverEnds(t) =>
              /\ receiver' \in [Threads -> ReceiverRecord]
              /\ ReceiverSet(t, "off", receiver[t].item)
         /\ ReceiverDies(t) =>
              /\ receiver' \in [Threads -> ReceiverRecord]
              /\ ReceiverSet(t, "dead", <<>>)
         /\ ReceiverDelivers(t) =>
              /\ receiver' \in [Threads -> ReceiverRecord] /\ receiver[t].item # <<>>
              /\ \/ /\ closing[t[1]] = "stopped" /\ inbox' = inbox
                    /\ ReceiverSet(t, "dead", <<>>)
                 \/ /\ closing[t[1]] # "stopped"
                    /\ inbox' = [inbox EXCEPT ![t[1]] = @ \o receiver[t].item]
                    /\ ReceiverSet(t, "on", <<>>)
<1>1. receiver \in [Threads -> ReceiverRecord] /\ receiver[t] \in ReceiverRecord
  BY DEF Typed
<1>2. receiver[t].empties \in 0 .. RequiredEmpty
  BY <1>1 DEF ReceiverRecord
<1>3. ASSUME ReceiverLooks(t)
      PROVE  /\ receiver' \in [Threads -> ReceiverRecord]
             /\ ReceiverSet(t, "on", receiver[t].item)
  <2>1. receiver' = [receiver EXCEPT ![t].polling = TRUE] /\ receiver[t].at = "on"
    BY <1>3 DEF ReceiverLooks
  <2> QED
    BY <1>1, <2>1 DEF ReceiverSet, ReceiverRecord
<1>4. ASSUME ReceiverIdles(t)
      PROVE  /\ receiver' \in [Threads -> ReceiverRecord]
             /\ ReceiverSet(t, "on", receiver[t].item)
  <2>1. /\ receiver' = [receiver EXCEPT ![t].empties = OneMore(@), ![t].polling = FALSE]
        /\ receiver[t].at = "on"
    BY <1>4 DEF ReceiverIdles
  <2>2. OneMore(receiver[t].empties) \in 0 .. RequiredEmpty
    BY <1>2, Bounds
  <2> QED
    BY <1>1, <2>1, <2>2 DEF ReceiverSet, ReceiverRecord
<1>5. ASSUME ReceiverTakes(t)
      PROVE  /\ receiver' \in [Threads -> ReceiverRecord] /\ receiver[t].item = <<>>
             /\ WireIn(t) \in Wires /\ wire[WireIn(t)] # <<>>
             /\ ReceiverSet(t, "on", <<Head(wire[WireIn(t)])>>)
  <2>1. /\ receiver' = [receiver EXCEPT ![t].item = <<Head(wire[WireIn(t)])>>, ![t].empties = 0,
                                        ![t].polling = FALSE]
        /\ receiver[t].at = "on" /\ receiver[t].item = <<>> /\ wire[WireIn(t)] # <<>>
    BY <1>5 DEF ReceiverTakes, Polls
  <2>2. WireIn(t) \in Wires
    BY <2>1, UsedThread DEF ThreadsFit
  <2>3. wire[WireIn(t)] \in Seq(Message)
    BY <2>2 DEF Typed
  <2>4. <<Head(wire[WireIn(t)])>> \in Optional
    BY <2>1, <2>3, TailOf, IsOptional
  <2>5. /\ receiver' \in [Threads -> ReceiverRecord]
        /\ ReceiverSet(t, "on", <<Head(wire[WireIn(t)])>>)
    BY <1>1, <2>1, <2>4, Bounds DEF ReceiverSet, ReceiverRecord
  <2> QED
    BY <2>1, <2>2, <2>5
<1>6. ASSUME ReceiverEnds(t)
      PROVE  /\ receiver' \in [Threads -> ReceiverRecord]
             /\ ReceiverSet(t, "off", receiver[t].item)
  <2>1. receiver' = [receiver EXCEPT ![t].at = "off", ![t].empties = 0]
    BY <1>6 DEF ReceiverEnds
  <2> QED
    BY <1>1, <2>1, Bounds DEF ReceiverSet, ReceiverRecord
<1>7. ASSUME ReceiverDies(t)
      PROVE  /\ receiver' \in [Threads -> ReceiverRecord]
             /\ ReceiverSet(t, "dead", <<>>)
  <2>1. receiver' = [receiver EXCEPT ![t].at = "dead", ![t].item = <<>>, ![t].empties = 0]
    BY <1>7 DEF ReceiverDies
  <2> QED
    BY <1>1, <2>1, Bounds, IsOptional DEF ReceiverSet, ReceiverRecord
<1>8. ASSUME ReceiverDelivers(t), closing[t[1]] = "stopped"
      PROVE  /\ receiver' \in [Threads -> ReceiverRecord] /\ inbox' = inbox
             /\ ReceiverSet(t, "dead", <<>>)
  <2>1. /\ receiver' = [receiver EXCEPT ![t].at = "dead", ![t].item = <<>>, ![t].empties = 0]
        /\ inbox' = inbox
    BY <1>8 DEF ReceiverDelivers
  <2> QED
    BY <1>1, <2>1, Bounds, IsOptional DEF ReceiverSet, ReceiverRecord
<1>9. ASSUME ReceiverDelivers(t), closing[t[1]] # "stopped"
      PROVE  /\ receiver' \in [Threads -> ReceiverRecord]
             /\ inbox' = [inbox EXCEPT ![t[1]] = @ \o receiver[t].item]
             /\ ReceiverSet(t, "on", <<>>)
  <2>1. /\ receiver' = [receiver EXCEPT ![t].item = <<>>] /\ receiver[t].at = "on"
        /\ inbox' = [inbox EXCEPT ![t[1]] = @ \o receiver[t].item]
    BY <1>9 DEF ReceiverDelivers, Delivered
  <2> QED
    BY <1>1, <2>1, Bounds, IsOptional DEF ReceiverSet, ReceiverRecord
<1>10. ReceiverDelivers(t) => receiver[t].item # <<>>
  BY DEF ReceiverDelivers
<1> QED
  BY <1>3, <1>4, <1>5, <1>6, <1>7, <1>8, <1>9, <1>10

LEMMA SameLayer ==
  ASSUME layer' = layer
  PROVE  /\ Piped' = Piped /\ Wires' = Wires /\ Places' = Places
         /\ \A t : (Used(t))' = Used(t)
BY DEF Piped, Wires, Places, Used

\* Records that fit stay so when one thread's changes to one that fits.
LEMMA SetFits ==
  ASSUME layer' = layer, ThreadsFit, NEW t \in Threads
  PROVE  /\ receiver' = receiver
            /\ (\A u \in Threads \ {t} : sender'[u] = sender[u])
            /\ (sender'[t].at # "off" \/ sender'[t].slot # <<>> \/ sender'[t].moving # <<>>
                  => Used(t))
            /\ (~Piped => sender'[t].slot = <<>> /\ sender'[t].moving = <<>>)
            /\ (sender'[t].item # <<>> => sender'[t].at = "on")
            => ThreadsFit'
         /\ sender' = sender
            /\ (\A u \in Threads \ {t} : receiver'[u] = receiver[u])
            /\ (receiver'[t].at # "off" => Used(t))
            /\ (receiver'[t].item # <<>> => receiver'[t].at = "on")
            => ThreadsFit'
BY SameLayer DEF ThreadsFit

LEMMA SenderTyped ==
  ASSUME Typed, ThreadsFit, NEW t \in Threads, SenderStep(t) \/ SenderDies(t)
  PROVE  Typed' /\ ThreadsFit'
<1>1. UNCHANGED <<layer, inbox, receiver, waiting, demand, serving, replied, got, closing,
                  canceled>>
  BY DEF SenderStep, SenderTakes, SenderIdles, SenderSends, SenderEnds, PipeTakes, PipeSends,
         SenderDies
<1>2. t[1] \in Ends /\ Wires' = Wires
  BY <1>1, ThreadEnds, SameLayer
<1>3. /\ outbox \in [Ends -> Seq(Message)] /\ wire \in [Wires -> Seq(Message)]
      /\ produced \in 0 .. Messages
      /\ sender[t].item \in Optional /\ sender[t].slot \in Optional /\ sender[t].moving \in Optional
  BY DEF Typed, SenderRecord
<1>4. ASSUME sender' \in [Threads -> SenderRecord], produced' \in 0 .. Messages,
             outbox' \in [Ends -> Seq(Message)], wire' \in [Wires -> Seq(Message)]
      PROVE  Typed'
  BY <1>1, <1>2, <1>4 DEF Typed
<1>5. ASSUME outbox[t[1]] # <<>>, outbox' = [outbox EXCEPT ![t[1]] = Tail(@)]
      PROVE  outbox' \in [Ends -> Seq(Message)]
  <2>1. Tail(outbox[t[1]]) \in Seq(Message)
    BY <1>2, <1>5, OutboxHead
  <2> QED
    BY <1>3, <1>5, <2>1
<1>6. ASSUME NEW s \in Optional, WireOut(t) \in Wires,
             wire' = [wire EXCEPT ![WireOut(t)] = @ \o s]
      PROVE  wire' \in [Wires -> Seq(Message)]
  <2>1. wire[WireOut(t)] \in Seq(Message) /\ s \in Seq(Message)
    BY <1>3, <1>6, Single
  <2>2. wire[WireOut(t)] \o s \in Seq(Message)
    BY <2>1
  <2> QED
    BY <1>3, <1>6, <2>2
<1>7. CASE SenderTakes(t)
  <2>0. wire' = wire /\ sender[t].at = "on" /\ sender[t].item = <<>>
    BY <1>7 DEF SenderTakes
  <2>1. sender' \in [Threads -> SenderRecord]
    BY <1>7, SenderTakesSets
  <2>2. produced' \in 0 .. Messages
    <3>1. produced' = produced \/ (produced' = produced + 1 /\ produced + 1 \in 1 .. Messages)
      BY <1>7, SenderTakesSets
    <3> QED
      BY <1>3, <3>1
  <2>3. outbox' \in [Ends -> Seq(Message)]
    BY <1>3, <1>5, <1>7, SenderTakesSets
  <2>4. ThreadsFit'
    <3>1. /\ \A u \in Threads \ {t} : sender'[u] = sender[u]
          /\ sender'[t].at = "on" /\ sender'[t].slot = sender[t].slot
          /\ sender'[t].moving = sender[t].moving
      BY <1>7, SenderTakesSets DEF SenderSet
    <3> QED
      BY <1>1, <2>0, <3>1, SetFits DEF ThreadsFit
  <2> QED
    BY <1>3, <1>4, <2>0, <2>1, <2>2, <2>3, <2>4
<1>8. CASE SenderIdles(t)
  <2>1. UNCHANGED <<produced, outbox, wire>>
    BY <1>8 DEF SenderIdles
  <2>2. /\ sender' \in [Threads -> SenderRecord]
        /\ SenderSet(t, sender[t].at, sender[t].item, sender[t].slot, sender[t].moving)
    BY <1>8, SenderOthersSet
  <2>3. ThreadsFit'
    BY <1>1, <2>2, SetFits DEF SenderSet, ThreadsFit
  <2> QED
    BY <1>3, <1>4, <2>1, <2>2, <2>3
<1>9. CASE SenderSends(t)
  <2>1. UNCHANGED <<produced, outbox>> /\ sender[t].at = "on"
    BY <1>9 DEF SenderSends
  <2>2. sender' \in [Threads -> SenderRecord] /\ wire' \in [Wires -> Seq(Message)]
    BY <1>3, <1>6, <1>9, SenderSendsSets
  <2>3. ThreadsFit'
    <3>1. CASE Piped
      <4>1. SenderSet(t, "on", <<>>, sender[t].item, sender[t].moving)
        BY <1>9, <3>1, SenderSendsSets
      <4> QED
        BY <1>1, <2>1, <3>1, <4>1, SetFits DEF SenderSet, ThreadsFit
    <3>2. CASE ~Piped
      <4>1. SenderSet(t, "on", <<>>, sender[t].slot, sender[t].moving)
        BY <1>9, <3>2, SenderSendsSets
      <4> QED
        BY <1>1, <2>1, <3>2, <4>1, SetFits DEF SenderSet, ThreadsFit
    <3> QED
      BY <3>1, <3>2
  <2> QED
    BY <1>3, <1>4, <2>1, <2>2, <2>3
<1>10. CASE SenderEnds(t)
  <2>1. UNCHANGED <<produced, outbox, wire>>
    BY <1>10 DEF SenderEnds
  <2>2. /\ sender' \in [Threads -> SenderRecord]
        /\ SenderSet(t, "off", <<>>, sender[t].slot, sender[t].moving)
    BY <1>10, SenderOthersSet
  <2>3. ThreadsFit'
    BY <1>1, <2>2, SetFits DEF SenderSet, ThreadsFit
  <2> QED
    BY <1>3, <1>4, <2>1, <2>2, <2>3
<1>11. CASE PipeTakes(t)
  <2>1. UNCHANGED <<produced, outbox, wire>> /\ Piped /\ sender[t].at = "on"
    BY <1>11 DEF PipeTakes
  <2>2. /\ sender' \in [Threads -> SenderRecord]
        /\ SenderSet(t, "on", sender[t].item, <<>>, sender[t].slot)
    BY <1>11, SenderOthersSet
  <2>3. ThreadsFit'
    BY <1>1, <2>1, <2>2, SetFits DEF SenderSet, ThreadsFit
  <2> QED
    BY <1>3, <1>4, <2>1, <2>2, <2>3
<1>12. CASE PipeSends(t)
  <2>1. /\ UNCHANGED <<produced, outbox>> /\ sender[t].moving # <<>>
        /\ wire' = [wire EXCEPT ![WireOut(t)] = @ \o sender[t].moving]
    BY <1>12 DEF PipeSends
  <2>2. /\ sender' \in [Threads -> SenderRecord]
        /\ SenderSet(t, sender[t].at, sender[t].item, sender[t].slot, <<>>)
    BY <1>12, SenderOthersSet
  <2>3. WireOut(t) \in Wires
    BY <2>1, UsedThread DEF ThreadsFit
  <2>4. wire' \in [Wires -> Seq(Message)]
    BY <1>3, <1>6, <2>1, <2>3
  <2>5. ThreadsFit'
    BY <1>1, <2>2, SetFits DEF SenderSet, ThreadsFit
  <2> QED
    BY <1>3, <1>4, <2>1, <2>2, <2>4, <2>5
<1>13. CASE SenderDies(t)
  <2>1. UNCHANGED <<produced, wire>> /\ sender[t].at = "on"
    BY <1>13 DEF SenderDies
  <2>2. outbox' \in [Ends -> Seq(Message)]
    BY <1>3, <1>5, <1>13 DEF SenderDies
  <2>3. /\ sender' \in [Threads -> SenderRecord]
        /\ SenderSet(t, "dead", <<>>, sender[t].slot, sender[t].moving)
    BY <1>13, SenderOthersSet
  <2>4. ThreadsFit'
    BY <1>1, <2>1, <2>3, SetFits DEF SenderSet, ThreadsFit
  <2> QED
    BY <1>3, <1>4, <2>1, <2>2, <2>3, <2>4
<1> QED
  BY <1>7, <1>8, <1>9, <1>10, <1>11, <1>12, <1>13 DEF SenderStep

LEMMA ReceiverTyped ==
  ASSUME Typed, ThreadsFit, NEW t \in Threads, ReceiverStep(t) \/ ReceiverDies(t)
  PROVE  Typed' /\ ThreadsFit'
<1>1. UNCHANGED <<layer, produced, outbox, sender, waiting, demand, serving, replied, got, closing,
                  canceled>>
  BY DEF ReceiverStep, ReceiverLooks, ReceiverTakes, ReceiverIdles, ReceiverDelivers,
         ReceiverEnds, ReceiverDies
<1>2. t[1] \in Ends /\ Wires' = Wires
  BY <1>1, ThreadEnds, SameLayer
<1>3. /\ inbox \in [Ends -> Seq(Message)] /\ wire \in [Wires -> Seq(Message)]
      /\ receiver[t].item \in Optional
  BY DEF Typed, ReceiverRecord
<1>4. ASSUME receiver' \in [Threads -> ReceiverRecord],
             inbox' \in [Ends -> Seq(Message)], wire' \in [Wires -> Seq(Message)]
      PROVE  Typed'
  BY <1>1, <1>2, <1>4 DEF Typed
<1>5. receiver[t].at = "on"
  BY DEF ReceiverStep, ReceiverLooks, ReceiverTakes, ReceiverIdles, ReceiverDelivers,
         ReceiverEnds, ReceiverDies, Polls
<1>6. Used(t)
  BY <1>5 DEF ThreadsFit
<1>7. CASE ReceiverLooks(t) \/ ReceiverIdles(t)
  <2>1. UNCHANGED <<inbox, wire>>
    BY <1>7 DEF ReceiverLooks, ReceiverIdles
  <2>2. receiver' \in [Threads -> ReceiverRecord] /\ ReceiverSet(t, "on", receiver[t].item)
    BY <1>7, ReceiverSets
  <2>3. ThreadsFit'
    BY <1>1, <1>6, <2>2, SetFits DEF ReceiverSet, ThreadsFit
  <2> QED
    BY <1>3, <1>4, <2>1, <2>2, <2>3
<1>8. CASE ReceiverTakes(t)
  <2>1. inbox' = inbox /\ wire' = [wire EXCEPT ![WireIn(t)] = Tail(@)]
    BY <1>8 DEF ReceiverTakes
  <2>2. /\ receiver' \in [Threads -> ReceiverRecord] /\ WireIn(t) \in Wires
        /\ wire[WireIn(t)] # <<>> /\ ReceiverSet(t, "on", <<Head(wire[WireIn(t)])>>)
    BY <1>8, ReceiverSets
  <2>3. Tail(wire[WireIn(t)]) \in Seq(Message)
    BY <1>3, <2>2
  <2>4. wire' \in [Wires -> Seq(Message)]
    BY <1>3, <2>1, <2>3
  <2>5. ThreadsFit'
    BY <1>1, <1>6, <2>2, SetFits DEF ReceiverSet, ThreadsFit
  <2> QED
    BY <1>3, <1>4, <2>1, <2>2, <2>4, <2>5
<1>9. CASE ReceiverDelivers(t)
  <2>1. wire' = wire
    BY <1>9 DEF ReceiverDelivers
  <2>2. receiver' \in [Threads -> ReceiverRecord]
    BY <1>9, ReceiverSets
  <2>3. inbox[t[1]] \o receiver[t].item \in Seq(Message)
    <3>1. receiver[t].item \in Seq(Message) /\ inbox[t[1]] \in Seq(Message)
      BY <1>2, <1>3, Single
    <3> QED
      BY <3>1
  <2>4. inbox' \in [Ends -> Seq(Message)]
    BY <1>3, <1>9, <2>3, ReceiverSets
  <2>5. ThreadsFit'
    BY <1>1, <1>6, <1>9, ReceiverSets, SetFits DEF ReceiverSet, ThreadsFit
  <2> QED
    BY <1>3, <1>4, <2>1, <2>2, <2>4, <2>5
<1>10. CASE ReceiverEnds(t)
  <2>1. UNCHANGED <<inbox, wire>> /\ receiver[t].item = <<>>
    BY <1>10 DEF ReceiverEnds
  <2>2. receiver' \in [Threads -> ReceiverRecord] /\ ReceiverSet(t, "off", receiver[t].item)
    BY <1>10, ReceiverSets
  <2>3. ThreadsFit'
    BY <1>1, <1>6, <2>1, <2>2, SetFits DEF ReceiverSet, ThreadsFit
  <2> QED
    BY <1>3, <1>4, <2>1, <2>2, <2>3
<1>11. CASE ReceiverDies(t)
  <2>1. UNCHANGED <<inbox, wire>>
    BY <1>11 DEF ReceiverDies
  <2>2. receiver' \in [Threads -> ReceiverRecord] /\ ReceiverSet(t, "dead", <<>>)
    BY <1>11, ReceiverSets
  <2>3. ThreadsFit'
    BY <1>1, <1>6, <2>2, SetFits DEF ReceiverSet, ThreadsFit
  <2> QED
    BY <1>3, <1>4, <2>1, <2>2, <2>3
<1> QED
  BY <1>7, <1>8, <1>9, <1>10, <1>11 DEF ReceiverStep

\* The steps of the ends: put, get and stop.
EndStep ==
  \/ \E w \in Workers : WorkerEnd(w) \/ SlotGivesUp(w)
  \/ MainPuts \/ MainGets \/ EventsAreSet \/ StopTimesOut
  \/ \E e \in Ends : StopBegins(e) \/ StopEnds(e)

LEMMA WorkersAreEnds == Main \in Ends /\ Main \notin Workers /\ \A w \in Workers : w \in Ends
BY MessagingAssumption DEF Ends

LEMMA EndTyped ==
  ASSUME Typed, ThreadsFit, EndStep
  PROVE  Typed' /\ ThreadsFit'
<1>1. UNCHANGED <<layer, sender, receiver>>
  BY DEF EndStep, WorkerEnd, SlotAsks, SlotTakes, SlotResumes, SlotReplies, SlotGivesUp, MainPuts,
         MainGets, EventsAreSet, StopTimesOut, StopBegins, StopEnds
<1>2. ThreadsFit' /\ Wires' = Wires
  BY <1>1, SameLayer DEF ThreadsFit
<1>3. /\ outbox \in [Ends -> Seq(Message)] /\ inbox \in [Ends -> Seq(Message)]
      /\ serving \in [Workers -> Seq(Message)] /\ replied \in [Workers -> Seq(Message)]
      /\ waiting \in [Workers -> Nat] /\ demand \in [Workers -> Nat]
      /\ closing \in [Ends -> {"open", "stopping", "stopped"}] /\ canceled \in [Ends -> BOOLEAN]
      /\ wire \in [Wires -> Seq(Message)] /\ got \in Seq(Message) /\ produced \in 0 .. Messages
  BY DEF Typed
<1>4. \A w \in Workers : /\ waiting[w] \in Nat /\ demand[w] \in Nat /\ Slots \in Nat
                         /\ waiting[w] <= demand[w] /\ demand[w] <= Slots
  BY <1>3, Bounds DEF Typed
<1>5. ASSUME NEW w \in Workers, SlotAsks(w) PROVE Typed'
  <2>1. /\ demand[w] + Len(serving[w]) < Slots
        /\ waiting' = [waiting EXCEPT ![w] = @ + 1] /\ demand' = [demand EXCEPT ![w] = @ + 1]
        /\ UNCHANGED <<produced, outbox, inbox, wire, serving, replied, got, closing, canceled>>
    BY <1>5 DEF SlotAsks
  <2>2. Len(serving[w]) \in Nat
    BY <1>3
  <2>3. demand[w] + 1 <= Slots /\ waiting[w] + 1 <= demand[w] + 1
    BY <1>4, <2>1, <2>2
  <2>4. waiting' \in [Workers -> Nat] /\ demand' \in [Workers -> Nat]
    BY <1>3, <1>4, <2>1
  <2>5. \A v \in Workers : waiting'[v] <= demand'[v] /\ demand'[v] <= Slots
    BY <1>3, <1>4, <2>1, <2>3
  <2> QED
    BY <1>1, <1>2, <2>1, <2>4, <2>5 DEF Typed
<1>6. ASSUME NEW w \in Workers, SlotResumes(w) \/ SlotGivesUp(w) PROVE Typed'
  <2>1. /\ demand' = [demand EXCEPT ![w] = @ - 1]
        /\ UNCHANGED <<produced, outbox, inbox, wire, serving, replied, got, closing, canceled>>
        /\ \/ demand[w] > waiting[w] /\ waiting' = waiting
           \/ waiting[w] > 0 /\ waiting' = [waiting EXCEPT ![w] = @ - 1]
    BY <1>6 DEF SlotResumes, SlotGivesUp, Withdrawn
  <2>2. PICK a, b \in Nat : a = waiting[w] /\ b = demand[w]
    BY <1>3
  <2>20. a <= b /\ b <= Slots /\ Slots \in Nat
    BY <1>4, <2>2
  <2>21. \/ b > a /\ waiting' = waiting
         \/ a > 0 /\ waiting' = [waiting EXCEPT ![w] = a - 1]
    BY <2>1, <2>2
  <2>22. b - 1 \in Nat /\ b - 1 <= Slots /\ demand' = [demand EXCEPT ![w] = b - 1]
    BY <2>1, <2>2, <2>20, <2>21
  <2>23. demand' \in [Workers -> Nat] /\ demand'[w] = b - 1
    BY <1>3, <2>22
  <2>24. waiting' \in [Workers -> Nat] /\ waiting'[w] \in Nat /\ waiting'[w] <= b - 1
    <3>1. CASE b > a /\ waiting' = waiting
      <4>1. a <= b - 1
        BY <2>20, <3>1
      <4> QED
        BY <1>3, <2>2, <3>1, <4>1
    <3>2. CASE a > 0 /\ waiting' = [waiting EXCEPT ![w] = a - 1]
      <4>1. a - 1 \in Nat /\ a - 1 <= b - 1
        BY <2>20, <3>2
      <4> QED
        BY <1>3, <3>2, <4>1
    <3> QED
      BY <2>21, <3>1, <3>2
  <2>3. \A v \in Workers : v # w => waiting'[v] = waiting[v] /\ demand'[v] = demand[v]
    BY <1>3, <2>1
  <2>4. \A v \in Workers : waiting'[v] <= demand'[v] /\ demand'[v] <= Slots
    BY <1>4, <2>3, <2>22, <2>23, <2>24
  <2> QED
    BY <1>1, <1>2, <2>1, <2>4, <2>23, <2>24 DEF Typed
<1>7. ASSUME NEW w \in Workers, SlotTakes(w) PROVE Typed'
  <2>1. /\ waiting[w] > 0 /\ inbox[w] # <<>>
        /\ waiting' = [waiting EXCEPT ![w] = @ - 1] /\ inbox' = [inbox EXCEPT ![w] = Tail(@)]
        /\ serving' = [serving EXCEPT ![w] = Append(@, Head(inbox[w]))]
        /\ UNCHANGED <<produced, outbox, wire, demand, replied, got, closing, canceled>>
    BY <1>7 DEF SlotTakes
  <2>2. w \in Ends /\ inbox[w] \in Seq(Message) /\ serving[w] \in Seq(Message)
    BY <1>3, WorkersAreEnds
  <2>3. Tail(inbox[w]) \in Seq(Message) /\ Append(serving[w], Head(inbox[w])) \in Seq(Message)
    BY <2>1, <2>2, TailOf, AppendTo
  <2>4. inbox' \in [Ends -> Seq(Message)] /\ serving' \in [Workers -> Seq(Message)]
    BY <1>3, <2>1, <2>3
  <2>5. waiting' \in [Workers -> Nat] /\ \A v \in Workers : waiting'[v] <= demand[v]
    <3>1. PICK a \in Nat : a = waiting[w]
      BY <1>3
    <3>2. a - 1 \in Nat /\ a <= demand[w] /\ demand[w] \in Nat
      BY <1>4, <2>1, <3>1
    <3>3. a - 1 <= demand[w]
      BY <3>2
    <3>4. waiting' = [waiting EXCEPT ![w] = a - 1]
      BY <2>1, <3>1
    <3> QED
      BY <1>3, <1>4, <3>2, <3>3, <3>4
  <2> QED
    BY <1>1, <1>2, <1>4, <2>1, <2>4, <2>5 DEF Typed
<1>8. ASSUME NEW w \in Workers, SlotReplies(w) PROVE Typed'
  <2> DEFINE reply == [id |-> Head(serving[w]).id, by |-> w]
  <2>1. /\ serving[w] # <<>>
        /\ outbox' = [outbox EXCEPT ![w] = Append(@, reply)]
        /\ replied' = [replied EXCEPT ![w] = Append(@, reply)]
        /\ serving' = [serving EXCEPT ![w] = Tail(@)]
        /\ UNCHANGED <<produced, inbox, wire, waiting, demand, got, closing, canceled>>
    BY <1>8 DEF SlotReplies
  <2>2. w \in Ends /\ outbox[w] \in Seq(Message) /\ serving[w] \in Seq(Message)
        /\ replied[w] \in Seq(Message)
    BY <1>3, WorkersAreEnds
  <2>3. Tail(serving[w]) \in Seq(Message) /\ Head(serving[w]) \in Message
    BY <2>1, <2>2, TailOf
  <2>4. reply \in Message
    BY <2>2, <2>3 DEF Message
  <2> HIDE DEF reply
  <2>5. Append(outbox[w], reply) \in Seq(Message) /\ Append(replied[w], reply) \in Seq(Message)
    BY <2>2, <2>4, AppendTo
  <2>6. /\ outbox' \in [Ends -> Seq(Message)] /\ serving' \in [Workers -> Seq(Message)]
        /\ replied' \in [Workers -> Seq(Message)]
    BY <1>3, <2>1, <2>3, <2>5
  <2> QED
    BY <1>1, <1>2, <1>4, <2>1, <2>6 DEF Typed
<1>9. ASSUME MainPuts PROVE Typed'
  <2> DEFINE m == [id |-> produced + 1, by |-> Main]
  <2>1. /\ produced < Messages /\ produced' = produced + 1
        /\ outbox' = [outbox EXCEPT ![Main] = Append(@, m)]
        /\ UNCHANGED <<inbox, wire, waiting, demand, serving, replied, got, closing, canceled>>
    BY <1>9 DEF MainPuts
  <2>2. produced + 1 \in 1 .. Messages /\ produced' \in 0 .. Messages
    BY <1>3, <2>1, Bounds
  <2>3. m \in Message
    BY <2>2, WorkersAreEnds DEF Message
  <2> HIDE DEF m
  <2>4. outbox' \in [Ends -> Seq(Message)]
    <3>1. Append(outbox[Main], m) \in Seq(Message)
      BY <1>3, <2>3, WorkersAreEnds, AppendTo
    <3> QED
      BY <1>3, <2>1, <3>1
  <2> QED
    BY <1>1, <1>2, <1>4, <2>1, <2>2, <2>4 DEF Typed
<1>10. ASSUME MainGets PROVE Typed'
  <2>1. /\ inbox[Main] # <<>> /\ got' = Append(got, Head(inbox[Main]))
        /\ inbox' = [inbox EXCEPT ![Main] = Tail(@)]
        /\ UNCHANGED <<produced, outbox, wire, waiting, demand, serving, replied, closing, canceled>>
    BY <1>10 DEF MainGets
  <2>2. inbox[Main] \in Seq(Message)
    BY <1>3, WorkersAreEnds
  <2>3. Tail(inbox[Main]) \in Seq(Message) /\ got' \in Seq(Message)
    BY <1>3, <2>1, <2>2, TailOf, AppendTo
  <2>4. inbox' \in [Ends -> Seq(Message)]
    BY <1>3, <2>1, <2>3
  <2> QED
    BY <1>1, <1>2, <1>4, <2>1, <2>3, <2>4 DEF Typed
<1>11. ASSUME EventsAreSet PROVE Typed'
  BY <1>1, <1>2, <1>11 DEF EventsAreSet, Typed
<1>12. ASSUME NEW e \in Ends, Stopped(e)
       PROVE  /\ closing' \in [Ends -> {"open", "stopping", "stopped"}]
              /\ outbox' \in [Ends -> Seq(Message)] /\ inbox' \in [Ends -> Seq(Message)]
              /\ wire' \in [Wires -> Seq(Message)]
  <2>1. <<>> \in Seq(Message)
    OBVIOUS
  <2>2. /\ closing' = [closing EXCEPT ![e] = "stopped"]
        /\ outbox' = [outbox EXCEPT ![e] = <<>>] /\ inbox' = [inbox EXCEPT ![e] = <<>>]
        /\ wire' = wire \/ wire' = [w \in Wires |-> <<>>]
    BY <1>12 DEF Stopped
  <2> QED
    BY <1>3, <2>1, <2>2
<1>13. ASSUME StopTimesOut PROVE Typed'
  <2>1. /\ Stopped(Main) /\ canceled' = [canceled EXCEPT ![Main] = TRUE]
        /\ UNCHANGED <<produced, waiting, demand, serving, replied, got>>
    BY <1>13 DEF StopTimesOut
  <2>2. canceled' \in [Ends -> BOOLEAN]
    BY <1>3, <2>1
  <2>3. /\ closing' \in [Ends -> {"open", "stopping", "stopped"}]
        /\ outbox' \in [Ends -> Seq(Message)] /\ inbox' \in [Ends -> Seq(Message)]
        /\ wire' \in [Wires -> Seq(Message)]
    BY <1>12, <2>1, WorkersAreEnds
  <2> QED
    BY <1>1, <1>2, <1>4, <2>1, <2>2, <2>3 DEF Typed
<1>14. ASSUME NEW e \in Ends, StopEnds(e) PROVE Typed'
  <2>1. Stopped(e) /\ UNCHANGED <<produced, waiting, demand, serving, replied, got, canceled>>
    BY <1>14 DEF StopEnds
  <2>2. /\ closing' \in [Ends -> {"open", "stopping", "stopped"}]
        /\ outbox' \in [Ends -> Seq(Message)] /\ inbox' \in [Ends -> Seq(Message)]
        /\ wire' \in [Wires -> Seq(Message)]
    BY <1>12, <2>1
  <2> QED
    BY <1>1, <1>2, <1>4, <2>1, <2>2 DEF Typed
<1>15. ASSUME NEW e \in Ends, StopBegins(e) PROVE Typed'
  <2>1. /\ closing' = [closing EXCEPT ![e] = "stopping"]
        /\ \/ UNCHANGED <<waiting, demand>>
           \/ waiting' = [waiting EXCEPT ![e] = 0] /\ demand' = [demand EXCEPT ![e] = 0]
        /\ UNCHANGED <<produced, outbox, inbox, wire, serving, replied, got, canceled>>
    BY <1>15 DEF StopBegins
  <2>2. closing' \in [Ends -> {"open", "stopping", "stopped"}]
    BY <1>3, <2>1
  <2>3. /\ waiting' \in [Workers -> Nat] /\ demand' \in [Workers -> Nat]
        /\ \A w \in Workers : waiting'[w] <= demand'[w] /\ demand'[w] <= Slots
    <3>1. CASE UNCHANGED <<waiting, demand>>
      BY <1>3, <1>4, <3>1
    <3>2. CASE waiting' = [waiting EXCEPT ![e] = 0] /\ demand' = [demand EXCEPT ![e] = 0]
      <4>1. waiting' \in [Workers -> Nat] /\ demand' \in [Workers -> Nat]
        BY <1>3, <3>2
      <4>2. ASSUME NEW w \in Workers PROVE waiting'[w] <= demand'[w] /\ demand'[w] <= Slots
        <5>1. CASE w = e
          BY <1>3, <1>4, <3>2, <5>1
        <5>2. CASE w # e
          BY <1>3, <1>4, <3>2, <5>2
        <5> QED
          BY <5>1, <5>2
      <4> QED
        BY <4>1, <4>2
    <3> QED
      BY <2>1, <3>1, <3>2
  <2> QED
    BY <1>1, <1>2, <2>1, <2>2, <2>3 DEF Typed
<1> QED
  BY <1>2, <1>5, <1>6, <1>7, <1>8, <1>9, <1>10, <1>11, <1>13, <1>14, <1>15 DEF EndStep, WorkerEnd

LEMMA SeqInit == \A S : <<>> \in Seq(S) /\ Len(<<>>) = 0
OBVIOUS

LEMMA InitTyped ==
  ASSUME MessagingInit
  PROVE  Typed /\ ThreadsFit
<1>1. \A t \in Threads : /\ NewSender(t) \in SenderRecord /\ NewReceiver(t) \in ReceiverRecord
                         /\ NewSender(t).at # "off" => Used(t)
                         /\ NewReceiver(t).at # "off" => Used(t)
                         /\ NewSender(t).item = <<>> /\ NewReceiver(t).item = <<>>
                         /\ NewSender(t).slot = <<>> /\ NewSender(t).moving = <<>>
  BY Bounds, IsOptional DEF NewSender, NewReceiver, SenderRecord, ReceiverRecord
<1> HIDE DEF NewSender, NewReceiver
<1>2. 0 \in 0 .. Messages /\ Slots \in Nat /\ 0 <= Slots /\ 0 \in Nat
  BY Bounds
<1>3. Typed
  BY <1>1, <1>2, SeqInit DEF MessagingInit, Typed
<1>4. ThreadsFit
  BY <1>1 DEF MessagingInit, ThreadsFit
<1> QED
  BY <1>3, <1>4

LEMMA StepsAre ==
  MessagingNext <=> \/ EndStep
                    \/ \E t \in Threads : SenderStep(t) \/ SenderDies(t)
                    \/ \E t \in Threads : ReceiverStep(t) \/ ReceiverDies(t)
BY DEF MessagingNext, EndStep

LEMMA NextTyped ==
  ASSUME Typed, ThreadsFit, MessagingNext
  PROVE  Typed' /\ ThreadsFit'
BY StepsAre, SenderTyped, ReceiverTyped, EndTyped

-----------------------------------------------------------------------------
(***************************************************************************)
(* What is over stays over: a thread that has ended, an end that stops.    *)
(***************************************************************************)

\* A thread that is not on stays as it is, and an end does not open again.
Forward ==
  /\ layer' = layer
  /\ \A t \in Threads : /\ sender[t].at # "on" => sender'[t].at = sender[t].at
                        /\ receiver[t].at # "on" => receiver'[t].at = receiver[t].at
  /\ \A e \in Ends : closing[e] # "open" => closing'[e] # "open"
  /\ closing'[Main] # "open" => got' = got

LEMMA SenderForward ==
  ASSUME Typed, ThreadsFit, NEW t \in Threads, SenderStep(t) \/ SenderDies(t)
  PROVE  Forward
<1>1. UNCHANGED <<layer, receiver, closing, got>>
  BY DEF SenderStep, SenderTakes, SenderIdles, SenderSends, SenderEnds, PipeTakes, PipeSends,
         SenderDies
<1>2. sender[t].at = "on" \/ PipeSends(t)
  BY DEF SenderStep, SenderTakes, SenderIdles, SenderSends, SenderEnds, PipeTakes, SenderDies
<1>3. \A u \in Threads \ {t} : sender'[u] = sender[u]
  <2>1. CASE SenderTakes(t)
    BY <2>1, SenderTakesSets DEF SenderSet
  <2>2. CASE SenderSends(t)
    BY <2>2, SenderSendsSets DEF SenderSet
  <2>3. CASE SenderIdles(t) \/ SenderEnds(t) \/ PipeTakes(t) \/ PipeSends(t) \/ SenderDies(t)
    BY <2>3, SenderOthersSet DEF SenderSet
  <2> QED
    BY <2>1, <2>2, <2>3 DEF SenderStep
<1>4. PipeSends(t) => sender'[t].at = sender[t].at
  BY SenderOthersSet DEF SenderSet
<1> QED
  BY <1>1, <1>2, <1>3, <1>4 DEF Forward

LEMMA ReceiverForward ==
  ASSUME Typed, ThreadsFit, NEW t \in Threads, ReceiverStep(t) \/ ReceiverDies(t)
  PROVE  Forward
<1>1. UNCHANGED <<layer, sender, closing, got>>
  BY DEF ReceiverStep, ReceiverLooks, ReceiverTakes, ReceiverIdles, ReceiverDelivers,
         ReceiverEnds, ReceiverDies
<1>2. receiver[t].at = "on"
  BY DEF ReceiverStep, ReceiverLooks, ReceiverTakes, ReceiverIdles, ReceiverDelivers,
         ReceiverEnds, ReceiverDies, Polls
<1>3. \A u \in Threads \ {t} : receiver'[u] = receiver[u]
  BY ReceiverSets DEF ReceiverSet, ReceiverStep
<1> QED
  BY <1>1, <1>2, <1>3 DEF Forward

LEMMA EndForward ==
  ASSUME Typed, EndStep
  PROVE  Forward
<1>1. UNCHANGED <<layer, sender, receiver>>
  BY DEF EndStep, WorkerEnd, SlotAsks, SlotTakes, SlotResumes, SlotReplies, SlotGivesUp, MainPuts,
         MainGets, EventsAreSet, StopTimesOut, StopBegins, StopEnds
<1>2. closing \in [Ends -> {"open", "stopping", "stopped"}]
  BY DEF Typed
<1>3. \/ closing' = closing
      \/ \E e \in Ends : closing' = [closing EXCEPT ![e] = "stopped"]
      \/ \E e \in Ends : closing' = [closing EXCEPT ![e] = "stopping"]
  BY WorkersAreEnds
     DEF EndStep, WorkerEnd, SlotAsks, SlotTakes, SlotResumes, SlotReplies, SlotGivesUp, MainPuts,
         MainGets, EventsAreSet, StopTimesOut, StopBegins, StopEnds, Stopped
<1>4. closing'[Main] # "open" => got' = got
  BY DEF EndStep, WorkerEnd, SlotAsks, SlotTakes, SlotResumes, SlotReplies, SlotGivesUp, MainPuts,
         MainGets, EventsAreSet, StopTimesOut, StopBegins, StopEnds
<1> QED
  BY <1>1, <1>2, <1>3, <1>4 DEF Forward

\* Only the coordinator cancels, when its stop has timed out; a worker that stops has
\* finished its requests, and one that has stopped its sending thread.
Settled ==
  /\ \A e \in Ends : canceled[e] => e = Main /\ closing[e] = "stopped"
  /\ \A w \in Workers : closing[w] # "open" =>
       serving[w] = <<>> /\ waiting[w] = 0 /\ demand[w] = 0
  /\ \A w \in Workers : closing[w] = "stopped" => sender[<<w, w>>].at # "on"

LEMMA OwnThread == \A e \in Ends : <<e, e>> \in Threads /\ <<e, e>> \in Of(e)
BY DEF Threads, Of

LEMMA ThreadsSettle ==
  ASSUME Settled, Forward,
         UNCHANGED <<canceled, closing, serving, waiting, demand>>
  PROVE  Settled'
BY OwnThread, WorkersAreEnds DEF Settled, Forward

LEMMA EndSettles ==
  ASSUME Typed, Settled, EndStep
  PROVE  Settled'
<1>1. UNCHANGED sender
  BY DEF EndStep, WorkerEnd, SlotAsks, SlotTakes, SlotResumes, SlotReplies, SlotGivesUp, MainPuts,
         MainGets, EventsAreSet, StopTimesOut, StopBegins, StopEnds
<1>2. /\ closing \in [Ends -> {"open", "stopping", "stopped"}]
      /\ canceled \in [Ends -> BOOLEAN] /\ waiting \in [Workers -> Nat]
      /\ demand \in [Workers -> Nat] /\ serving \in [Workers -> Seq(Message)]
      /\ Main \in Ends /\ Main \notin Workers /\ \A w \in Workers : w \in Ends
      /\ \A w \in Workers : waiting[w] <= demand[w]
  BY WorkersAreEnds DEF Typed
<1>3. ASSUME NEW w \in Workers, WorkerEnd(w) \/ SlotGivesUp(w)
      PROVE  Settled'
  <2>1. UNCHANGED <<closing, canceled>>
    BY <1>3 DEF WorkerEnd, SlotAsks, SlotTakes, SlotResumes, SlotReplies, SlotGivesUp
  <2>2. closing[w] = "open"
    <3>1. CASE closing[w] # "open"
      <4>1. serving[w] = <<>> /\ waiting[w] = 0 /\ demand[w] = 0
        BY <3>1 DEF Settled
      <4> QED
        BY <1>3, <3>1, <4>1 DEF WorkerEnd, SlotAsks, SlotTakes, SlotResumes, SlotReplies, SlotGivesUp
    <3> QED
      BY <3>1
  <2>3. \A v \in Workers \ {w} :
          serving'[v] = serving[v] /\ waiting'[v] = waiting[v] /\ demand'[v] = demand[v]
    BY <1>2, <1>3 DEF WorkerEnd, SlotAsks, SlotTakes, SlotResumes, SlotReplies, SlotGivesUp
  <2> QED
    BY <1>1, <2>1, <2>2, <2>3 DEF Settled
<1>4. CASE MainPuts \/ MainGets \/ EventsAreSet
  BY <1>1, <1>4 DEF MainPuts, MainGets, EventsAreSet, Settled
<1>5. CASE StopTimesOut
  BY <1>1, <1>2, <1>5 DEF StopTimesOut, Stopped, Settled
<1>6. ASSUME NEW e \in Ends, StopEnds(e)
      PROVE  Settled'
  <2>1. /\ closing' = [closing EXCEPT ![e] = "stopped"] /\ closing[e] = "stopping"
        /\ UNCHANGED <<canceled, serving, waiting, demand>>
        /\ Over(e, sender)
    BY <1>6 DEF StopEnds, Stopped
  <2>2. e \in Workers => sender[<<e, e>>].at # "on"
    <3>1. e \in Workers => \A t \in Of(e) : t = <<e, e>>
      BY <1>2, ThreadEnds DEF Of
    <3>2. Over(e, sender) => (e \in Workers => sender[<<e, e>>].at # "on")
      BY <3>1, OwnThread DEF Over
    <3> QED
      BY <2>1, <3>2
  <2>3. \A f \in Ends \ {e} : closing'[f] = closing[f]
    BY <1>2, <2>1
  <2>4. closing'[e] = "stopped"
    BY <1>2, <2>1
  <2> QED
    BY <1>1, <1>2, <2>1, <2>2, <2>3, <2>4 DEF Settled
<1>7. ASSUME NEW e \in Ends, StopBegins(e)
      PROVE  Settled'
  <2>1. /\ closing' = [closing EXCEPT ![e] = "stopping"] /\ closing[e] = "open"
        /\ UNCHANGED <<canceled, serving>>
        /\ e \in Workers => serving[e] = <<>>
        /\ \/ e = Main /\ UNCHANGED <<waiting, demand>>
           \/ waiting' = [waiting EXCEPT ![e] = 0] /\ demand' = [demand EXCEPT ![e] = 0]
    BY <1>7 DEF StopBegins
  <2>2. /\ \A f \in Ends \ {e} : closing'[f] = closing[f]
        /\ closing'[e] = "stopping"
    BY <1>2, <2>1
  <2>3. \A w \in Workers \ {e} : waiting'[w] = waiting[w] /\ demand'[w] = demand[w]
    BY <1>2, <2>1
  <2>4. e \in Workers => waiting'[e] = 0 /\ demand'[e] = 0
    BY <1>2, <2>1
  <2> QED
    BY <1>1, <1>2, <2>1, <2>2, <2>3, <2>4 DEF Settled
<1> QED
  BY <1>3, <1>4, <1>5, <1>6, <1>7 DEF EndStep

LEMMA NextSettles ==
  ASSUME Typed, ThreadsFit, Settled, MessagingNext
  PROVE  Settled' /\ Forward
<1>1. CASE EndStep
  BY <1>1, EndSettles, EndForward
<1>2. ASSUME NEW t \in Threads, SenderStep(t) \/ SenderDies(t)
      PROVE  Settled' /\ Forward
  <2>1. UNCHANGED <<canceled, closing, serving, waiting, demand>>
    BY <1>2 DEF SenderStep, SenderTakes, SenderIdles, SenderSends, SenderEnds, PipeTakes,
                PipeSends, SenderDies
  <2> QED
    BY <1>2, <2>1, SenderForward, ThreadsSettle
<1>3. ASSUME NEW t \in Threads, ReceiverStep(t) \/ ReceiverDies(t)
      PROVE  Settled' /\ Forward
  <2>1. UNCHANGED <<canceled, closing, serving, waiting, demand>>
    BY <1>3 DEF ReceiverStep, ReceiverLooks, ReceiverTakes, ReceiverIdles, ReceiverDelivers,
                ReceiverEnds, ReceiverDies
  <2> QED
    BY <1>3, <2>1, ReceiverForward, ThreadsSettle
<1> QED
  BY <1>1, <1>2, <1>3, StepsAre

\* The coordinator's thread aside, a thread of a queue polls or holds a message only while
\* its buffer has fewer than the slots could take.
Fetching(w) ==
  /\ Len(inbox[w]) <= Slots
  /\ receiver[<<w, w>>].polling => receiver[<<w, w>>].item = <<>>
  /\ receiver[<<w, w>>].polling \/ receiver[<<w, w>>].item # <<>> => Len(inbox[w]) < Slots
FetchFits == ~Piped => \A w \in Workers : Fetching(w)

LEMMA LooksFetch ==
  ASSUME Typed, NEW w \in Workers, ReceiverLooks(<<w, w>>)
  PROVE  Fetching(w)'
<1> DEFINE t == <<w, w>>
<1>1. /\ receiver[t].item = <<>> /\ demand[w] > Len(inbox[w]) /\ inbox' = inbox
      /\ receiver' = [receiver EXCEPT ![t].polling = TRUE]
  BY DEF ReceiverLooks, Demanded
<1>2. /\ t \in Threads /\ receiver \in [Threads -> ReceiverRecord]
      /\ demand[w] \in Nat /\ demand[w] <= Slots /\ inbox[w] \in Seq(Message)
  BY OwnThread, WorkersAreEnds DEF Typed
<1>3. Len(inbox[w]) \in Nat /\ Slots \in Nat
  BY <1>2, Bounds
<1>4. Len(inbox[w]) < Slots
  BY <1>1, <1>2, <1>3
<1>5. receiver'[t].item = <<>>
  BY <1>1, <1>2 DEF ReceiverRecord
<1> QED
  BY <1>1, <1>3, <1>4, <1>5 DEF Fetching

LEMMA TakesFetch ==
  ASSUME Typed, ~Piped, NEW w \in Workers, Fetching(w),
         ReceiverTakes(<<w, w>>) \/ ReceiverIdles(<<w, w>>) \/ ReceiverEnds(<<w, w>>)
           \/ ReceiverDies(<<w, w>>)
  PROVE  Fetching(w)'
<1> DEFINE t == <<w, w>>
<1>1. /\ inbox' = inbox /\ t \in Threads /\ receiver \in [Threads -> ReceiverRecord]
      /\ receiver[t] \in ReceiverRecord /\ t[1] = w /\ w # Main
  BY OwnThread, WorkersAreEnds
     DEF Typed, ReceiverTakes, ReceiverIdles, ReceiverEnds, ReceiverDies
<1>2. CASE ReceiverTakes(t)
  <2>1. receiver[t].polling
    BY <1>1, <1>2 DEF ReceiverTakes, Polls, Gated
  <2>2. receiver'[t].polling = FALSE
    BY <1>1, <1>2 DEF ReceiverTakes, ReceiverRecord
  <2> QED
    BY <1>1, <2>1, <2>2 DEF Fetching
<1>3. CASE ReceiverIdles(t)
  <2>1. receiver'[t].polling = FALSE /\ receiver'[t].item = receiver[t].item
    BY <1>1, <1>3 DEF ReceiverIdles, ReceiverRecord
  <2> QED
    BY <1>1, <2>1 DEF Fetching
<1>4. CASE ReceiverEnds(t)
  <2>1. receiver'[t].polling = receiver[t].polling /\ receiver'[t].item = receiver[t].item
    BY <1>1, <1>4 DEF ReceiverEnds, ReceiverRecord
  <2> QED
    BY <1>1, <2>1 DEF Fetching
<1>5. CASE ReceiverDies(t)
  <2>1. receiver'[t].polling = receiver[t].polling /\ receiver'[t].item = <<>>
    BY <1>1, <1>5 DEF ReceiverDies, ReceiverRecord
  <2> QED
    BY <1>1, <2>1 DEF Fetching
<1> QED
  BY <1>2, <1>3, <1>4, <1>5

LEMMA DeliversFetch ==
  ASSUME Typed, NEW w \in Workers, Fetching(w), ReceiverDelivers(<<w, w>>)
  PROVE  Fetching(w)'
<1> DEFINE t == <<w, w>>
<1>1. /\ t \in Threads /\ receiver \in [Threads -> ReceiverRecord]
      /\ receiver[t] \in ReceiverRecord /\ inbox \in [Ends -> Seq(Message)] /\ w \in Ends
      /\ t[1] = w /\ receiver[t].item # <<>>
  BY OwnThread, WorkersAreEnds DEF Typed, ReceiverDelivers
<1>2. Slots \in Nat /\ Len(inbox[w]) < Slots /\ ~receiver[t].polling
  BY <1>1, Bounds DEF Fetching
<1>3. CASE closing[w] = "stopped"
  <2>1. /\ inbox' = inbox
        /\ receiver' = [receiver EXCEPT ![t].at = "dead", ![t].item = <<>>, ![t].empties = 0]
    BY <1>1, <1>3 DEF ReceiverDelivers
  <2>2. receiver'[t].polling = receiver[t].polling /\ receiver'[t].item = <<>>
    BY <1>1, <2>1 DEF ReceiverRecord
  <2> QED
    BY <1>1, <1>2, <2>1, <2>2 DEF Fetching
<1>4. CASE closing[w] # "stopped"
  <2>1. /\ inbox' = [inbox EXCEPT ![w] = @ \o receiver[t].item]
        /\ receiver' = [receiver EXCEPT ![t].item = <<>>]
    BY <1>1, <1>4 DEF ReceiverDelivers, Delivered
  <2>2. receiver'[t].polling = receiver[t].polling /\ receiver'[t].item = <<>>
    BY <1>1, <2>1 DEF ReceiverRecord
  <2>3. Len(inbox'[w]) = Len(inbox[w]) + 1
    <3>1. receiver[t].item \in Optional /\ inbox[w] \in Seq(Message)
      BY <1>1 DEF ReceiverRecord
    <3>2. /\ Head(receiver[t].item) \in Message
          /\ inbox[w] \o receiver[t].item = Append(inbox[w], Head(receiver[t].item))
      BY <1>1, <3>1, Single
    <3>3. Len(inbox[w] \o receiver[t].item) = Len(inbox[w]) + 1
      BY <3>1, <3>2, AppendTo
    <3> QED
      BY <1>1, <2>1, <3>3
  <2>4. Len(inbox[w]) \in Nat
    BY <1>1
  <2>5. Len(inbox'[w]) <= Slots
    BY <1>2, <2>3, <2>4
  <2> QED
    BY <1>2, <2>2, <2>5 DEF Fetching
<1> QED
  BY <1>3, <1>4

LEMMA InboxesShrink ==
  ASSUME Typed, ThreadsFit, EndStep, NEW w \in Workers
  PROVE  inbox[w] \in Seq(Message) /\ (inbox'[w] = inbox[w] \/ Len(inbox'[w]) <= Len(inbox[w]))
<1>1. inbox \in [Ends -> Seq(Message)] /\ w \in Ends /\ w # Main /\ inbox[w] \in Seq(Message)
  BY WorkersAreEnds DEF Typed
<1>2. Len(inbox[w]) \in Nat /\ Len(<<>>) = 0
  BY <1>1
<1>3. \/ inbox' = inbox
      \/ \E v \in Workers : inbox[v] # <<>> /\ inbox' = [inbox EXCEPT ![v] = Tail(@)]
      \/ inbox' = [inbox EXCEPT ![Main] = Tail(@)]
      \/ \E e \in Ends : inbox' = [inbox EXCEPT ![e] = <<>>]
  BY WorkersAreEnds
     DEF EndStep, WorkerEnd, SlotAsks, SlotTakes, SlotResumes, SlotReplies, SlotGivesUp, MainPuts,
         MainGets, EventsAreSet, StopTimesOut, StopBegins, StopEnds, Stopped
<1>4. inbox[w] # <<>> => Len(Tail(inbox[w])) <= Len(inbox[w])
  BY <1>1, TailOf
<1>5. inbox'[w] \in {inbox[w], <<>>} \/ (inbox[w] # <<>> /\ inbox'[w] = Tail(inbox[w]))
  BY <1>1, <1>3
<1> QED
  BY <1>1, <1>2, <1>4, <1>5

LEMMA NextFetches ==
  ASSUME Typed, ThreadsFit, FetchFits, MessagingNext, Forward
  PROVE  FetchFits'
<1>1. Piped' = Piped
  BY SameLayer DEF Forward
<1> SUFFICES ASSUME ~Piped, NEW w \in Workers PROVE Fetching(w)'
  BY <1>1 DEF FetchFits
<1>2. Fetching(w)
  BY DEF FetchFits
<1>3. CASE EndStep
  <2>1. UNCHANGED receiver
    BY <1>3 DEF EndStep, WorkerEnd, SlotAsks, SlotTakes, SlotResumes, SlotReplies, SlotGivesUp,
                MainPuts, MainGets, EventsAreSet, StopTimesOut, StopBegins, StopEnds
  <2>2. inbox[w] \in Seq(Message) /\ (inbox'[w] = inbox[w] \/ Len(inbox'[w]) <= Len(inbox[w]))
    BY <1>3, InboxesShrink
  <2>3. inbox'[w] \in Seq(Message)
    BY NextTyped, WorkersAreEnds DEF Typed
  <2>4. PICK a, b \in Nat : a = Len(inbox[w]) /\ b = Len(inbox'[w])
    BY <2>2, <2>3
  <2>5. b <= a /\ Slots \in Nat
    BY <2>2, <2>4, Bounds
  <2> QED
    BY <1>2, <2>1, <2>4, <2>5 DEF Fetching
<1>4. ASSUME NEW t \in Threads, SenderStep(t) \/ SenderDies(t)
      PROVE  Fetching(w)'
  <2>1. UNCHANGED <<inbox, receiver>>
    BY <1>4 DEF SenderStep, SenderTakes, SenderIdles, SenderSends, SenderEnds, PipeTakes,
                PipeSends, SenderDies
  <2> QED
    BY <1>2, <2>1 DEF Fetching
<1>5. ASSUME NEW t \in Threads, ReceiverStep(t) \/ ReceiverDies(t)
      PROVE  Fetching(w)'
  <2>1. CASE t = <<w, w>>
    BY <1>2, <1>5, <2>1, LooksFetch, TakesFetch, DeliversFetch DEF ReceiverStep
  <2>2. CASE t # <<w, w>>
    <3>1. <<w, w>> \in Threads /\ t[1] # w
      BY <2>2, OwnThread, WorkersAreEnds, ThreadEnds
    <3>2. receiver'[<<w, w>>] = receiver[<<w, w>>]
      BY <1>5, <2>2, <3>1, ReceiverSets DEF ReceiverSet, ReceiverStep
    <3>3. inbox'[w] = inbox[w]
      <4>1. inbox \in [Ends -> Seq(Message)] /\ w \in Ends
        BY WorkersAreEnds DEF Typed
      <4> QED
        BY <1>5, <3>1, <4>1
           DEF ReceiverStep, ReceiverLooks, ReceiverTakes, ReceiverIdles, ReceiverDelivers,
               ReceiverEnds, ReceiverDies
    <3> QED
      BY <1>2, <3>2, <3>3 DEF Fetching
  <2> QED
    BY <2>1, <2>2
<1> QED
  BY <1>3, <1>4, <1>5, StepsAre

LEMMA FetchesOnDemand ==
  ASSUME Typed, FetchFits
  PROVE  FetchedOnDemand
<1> SUFFICES ASSUME ~Piped, NEW w \in Workers
             PROVE  Len(inbox[w]) + Len(receiver[<<w, w>>].item) <= Slots
  BY DEF FetchedOnDemand
<1>1. receiver[<<w, w>>].item \in Optional /\ inbox[w] \in Seq(Message) /\ Fetching(w)
  BY OwnThread, WorkersAreEnds DEF Typed, ReceiverRecord, FetchFits
<1>2. Len(inbox[w]) \in Nat /\ Slots \in Nat
  BY <1>1, Bounds
<1>3. CASE receiver[<<w, w>>].item = <<>>
  BY <1>1, <1>2, <1>3, SeqInit DEF Fetching
<1>4. CASE receiver[<<w, w>>].item # <<>>
  <2>1. Len(receiver[<<w, w>>].item) = 1
    BY <1>1, <1>4, Single
  <2> QED
    BY <1>1, <1>2, <1>4, <2>1 DEF Fetching
<1> QED
  BY <1>3, <1>4

-----------------------------------------------------------------------------
(***************************************************************************)
(* The places of the layer as boxes, and who may have put what is there.   *)
(***************************************************************************)

Content == [p \in Places |-> Held(p)]

LEMMA PlacesAre ==
  /\ \A e \in Ends : <<"outbox", e>> \in Places /\ <<"inbox", e>> \in Places
  /\ \A t \in Threads : /\ <<"item", t>> \in Places /\ <<"slot", t>> \in Places
                        /\ <<"moving", t>> \in Places /\ <<"fetched", t>> \in Places
  /\ \A x \in Wires : <<"wire", x>> \in Places
  /\ \A w \in Workers : <<"serving", w>> \in Places
  /\ <<"got", Main>> \in Places
BY DEF Places

LEMMA KindOf ==
  ASSUME NEW p \in Places
  PROVE  \/ \E e \in Ends : p = <<"outbox", e>> \/ p = <<"inbox", e>>
         \/ \E t \in Threads : \/ p = <<"item", t>> \/ p = <<"slot", t>>
                               \/ p = <<"moving", t>> \/ p = <<"fetched", t>>
         \/ \E x \in Wires : p = <<"wire", x>>
         \/ \E w \in Workers : p = <<"serving", w>>
         \/ p = <<"got", Main>>
BY DEF Places

LEMMA HeldIs ==
  /\ \A e : Held(<<"outbox", e>>) = outbox[e] /\ Held(<<"inbox", e>>) = inbox[e]
  /\ \A t : /\ Held(<<"item", t>>) = sender[t].item /\ Held(<<"slot", t>>) = sender[t].slot
            /\ Held(<<"moving", t>>) = sender[t].moving
            /\ Held(<<"fetched", t>>) = receiver[t].item
  /\ \A x : Held(<<"wire", x>>) = wire[x]
  /\ \A w : Held(<<"serving", w>>) = serving[w]
  /\ Held(<<"got", Main>>) = got
BY DEF Held

LEMMA ContentIs ==
  /\ \A e \in Ends : /\ Content[<<"outbox", e>>] = outbox[e]
                     /\ Content[<<"inbox", e>>] = inbox[e]
  /\ \A t \in Threads : /\ Content[<<"item", t>>] = sender[t].item
                        /\ Content[<<"slot", t>>] = sender[t].slot
                        /\ Content[<<"moving", t>>] = sender[t].moving
                        /\ Content[<<"fetched", t>>] = receiver[t].item
  /\ \A x \in Wires : Content[<<"wire", x>>] = wire[x]
  /\ \A w \in Workers : Content[<<"serving", w>>] = serving[w]
  /\ Content[<<"got", Main>>] = got
BY PlacesAre, HeldIs DEF Content

LEMMA ContentIsNext ==
  ASSUME layer' = layer
  PROVE  /\ \A e \in Ends : /\ Content'[<<"outbox", e>>] = outbox'[e]
                            /\ Content'[<<"inbox", e>>] = inbox'[e]
         /\ \A t \in Threads : /\ Content'[<<"item", t>>] = sender'[t].item
                               /\ Content'[<<"slot", t>>] = sender'[t].slot
                               /\ Content'[<<"moving", t>>] = sender'[t].moving
                               /\ Content'[<<"fetched", t>>] = receiver'[t].item
         /\ \A x \in Wires : Content'[<<"wire", x>>] = wire'[x]
         /\ \A w \in Workers : Content'[<<"serving", w>>] = serving'[w]
         /\ Content'[<<"got", Main>>] = got'
<1>1. Content' = [p \in Places |-> Held(p)']
  BY SameLayer DEF Content
<1>2. /\ \A e : Held(<<"outbox", e>>)' = outbox'[e] /\ Held(<<"inbox", e>>)' = inbox'[e]
      /\ \A t : /\ Held(<<"item", t>>)' = sender'[t].item
                /\ Held(<<"slot", t>>)' = sender'[t].slot
                /\ Held(<<"moving", t>>)' = sender'[t].moving
                /\ Held(<<"fetched", t>>)' = receiver'[t].item
      /\ \A x : Held(<<"wire", x>>)' = wire'[x]
      /\ \A w : Held(<<"serving", w>>)' = serving'[w]
      /\ Held(<<"got", Main>>)' = got'
  BY DEF Held
<1> QED
  BY <1>1, <1>2, PlacesAre

\* What holds for each kind of place holds for all of them.
LEMMA EachPlace ==
  ASSUME NEW C, NEW S,
         \A e \in Ends : C[<<"outbox", e>>] \in S /\ C[<<"inbox", e>>] \in S,
         \A t \in Threads : /\ C[<<"item", t>>] \in S /\ C[<<"slot", t>>] \in S
                            /\ C[<<"moving", t>>] \in S /\ C[<<"fetched", t>>] \in S,
         \A x \in Wires : C[<<"wire", x>>] \in S,
         \A w \in Workers : C[<<"serving", w>>] \in S,
         C[<<"got", Main>>] \in S
  PROVE  \A p \in Places : C[p] \in S
<1> SUFFICES ASSUME NEW p \in Places PROVE C[p] \in S
  OBVIOUS
<1>1. CASE \E e \in Ends : p = <<"outbox", e>> \/ p = <<"inbox", e>>
  BY <1>1
<1>2. CASE \E t \in Threads : \/ p = <<"item", t>> \/ p = <<"slot", t>>
                              \/ p = <<"moving", t>> \/ p = <<"fetched", t>>
  BY <1>2
<1>3. CASE \E x \in Wires : p = <<"wire", x>>
  BY <1>3
<1>4. CASE \E w \in Workers : p = <<"serving", w>>
  BY <1>4
<1>5. CASE p = <<"got", Main>>
  BY <1>5
<1> QED
  BY <1>1, <1>2, <1>3, <1>4, <1>5, KindOf

LEMMA ContentTyped ==
  ASSUME Typed
  PROVE  Content \in [Places -> Seq(Message)]
<1>1. /\ \A e \in Ends : outbox[e] \in Seq(Message) /\ inbox[e] \in Seq(Message)
      /\ \A t \in Threads : /\ sender[t].item \in Optional /\ sender[t].slot \in Optional
                            /\ sender[t].moving \in Optional /\ receiver[t].item \in Optional
      /\ \A x \in Wires : wire[x] \in Seq(Message)
      /\ \A w \in Workers : serving[w] \in Seq(Message)
      /\ got \in Seq(Message)
  BY DEF Typed, SenderRecord, ReceiverRecord
<1>2. \A t \in Threads :
        /\ sender[t].item \in Seq(Message) /\ sender[t].slot \in Seq(Message)
        /\ sender[t].moving \in Seq(Message) /\ receiver[t].item \in Seq(Message)
  BY <1>1, Single
<1>3. \A p \in Places : Content[p] \in Seq(Message)
  BY <1>1, <1>2, ContentIs, EachPlace
<1> QED
  BY <1>3 DEF Content

LEMMA ContentTypedNext ==
  ASSUME Typed', layer' = layer
  PROVE  Content' \in [Places -> Seq(Message)]
<1>0. Wires' = Wires /\ Content' = [p \in Places |-> Content'[p]]
  BY SameLayer DEF Content
<1>1. /\ \A e \in Ends : outbox'[e] \in Seq(Message) /\ inbox'[e] \in Seq(Message)
      /\ \A t \in Threads : /\ sender'[t].item \in Optional /\ sender'[t].slot \in Optional
                            /\ sender'[t].moving \in Optional /\ receiver'[t].item \in Optional
      /\ \A x \in Wires : wire'[x] \in Seq(Message)
      /\ \A w \in Workers : serving'[w] \in Seq(Message)
      /\ got' \in Seq(Message)
  BY <1>0 DEF Typed, SenderRecord, ReceiverRecord
<1>2. \A t \in Threads :
        /\ sender'[t].item \in Seq(Message) /\ sender'[t].slot \in Seq(Message)
        /\ sender'[t].moving \in Seq(Message) /\ receiver'[t].item \in Seq(Message)
  BY <1>1, Single
<1>3. \A p \in Places : Content'[p] \in Seq(Message)
  <2> DEFINE D == Content'
             S == Seq(Message)
  <2>1. /\ \A e \in Ends : D[<<"outbox", e>>] \in S /\ D[<<"inbox", e>>] \in S
        /\ \A t \in Threads : /\ D[<<"item", t>>] \in S /\ D[<<"slot", t>>] \in S
                              /\ D[<<"moving", t>>] \in S /\ D[<<"fetched", t>>] \in S
        /\ \A x \in Wires : D[<<"wire", x>>] \in S
        /\ \A w \in Workers : D[<<"serving", w>>] \in S
        /\ D[<<"got", Main>>] \in S
    BY <1>1, <1>2, ContentIsNext
  <2> HIDE DEF D, S
  <2>2. \A p \in Places : D[p] \in S
    BY <2>1, EachPlace
  <2> QED
    BY <2>2 DEF D, S
<1> QED
  BY <1>0, <1>3

\* Everything that is not in A holds what it held.
Stays(A) ==
  /\ \A e \in Ends : /\ <<"outbox", e>> \in A \/ outbox'[e] = outbox[e]
                     /\ <<"inbox", e>> \in A \/ inbox'[e] = inbox[e]
  /\ \A t \in Threads : /\ <<"item", t>> \in A \/ sender'[t].item = sender[t].item
                        /\ <<"slot", t>> \in A \/ sender'[t].slot = sender[t].slot
                        /\ <<"moving", t>> \in A \/ sender'[t].moving = sender[t].moving
                        /\ <<"fetched", t>> \in A \/ receiver'[t].item = receiver[t].item
  /\ \A x \in Wires : <<"wire", x>> \in A \/ wire'[x] = wire[x]
  /\ \A w \in Workers : <<"serving", w>> \in A \/ serving'[w] = serving[w]
  /\ <<"got", Main>> \in A \/ got' = got

LEMMA Elsewhere ==
  ASSUME layer' = layer, NEW A, Stays(A)
  PROVE  \A r \in Places \ A : Content'[r] = Content[r]
<1> SUFFICES ASSUME NEW r \in Places \ A PROVE Content'[r] = Content[r]
  OBVIOUS
<1>1. ASSUME NEW e \in Ends, r = <<"outbox", e>> \/ r = <<"inbox", e>>
      PROVE  Content'[r] = Content[r]
  <2>1. CASE r = <<"outbox", e>>
    BY <2>1, ContentIs, ContentIsNext DEF Stays
  <2>2. CASE r = <<"inbox", e>>
    BY <2>2, ContentIs, ContentIsNext DEF Stays
  <2> QED
    BY <1>1, <2>1, <2>2
<1>2. ASSUME NEW t \in Threads, \/ r = <<"item", t>> \/ r = <<"slot", t>>
                                 \/ r = <<"moving", t>> \/ r = <<"fetched", t>>
      PROVE  Content'[r] = Content[r]
  <2>1. CASE r = <<"item", t>>
    BY <2>1, ContentIs, ContentIsNext DEF Stays
  <2>2. CASE r = <<"slot", t>>
    BY <2>2, ContentIs, ContentIsNext DEF Stays
  <2>3. CASE r = <<"moving", t>>
    BY <2>3, ContentIs, ContentIsNext DEF Stays
  <2>4. CASE r = <<"fetched", t>>
    BY <2>4, ContentIs, ContentIsNext DEF Stays
  <2> QED
    BY <1>2, <2>1, <2>2, <2>3, <2>4
<1>3. CASE \E x \in Wires : r = <<"wire", x>>
  BY <1>3, ContentIs, ContentIsNext DEF Stays
<1>4. CASE \E w \in Workers : r = <<"serving", w>>
  BY <1>4, ContentIs, ContentIsNext DEF Stays
<1>5. CASE r = <<"got", Main>>
  BY <1>5, ContentIs, ContentIsNext DEF Stays
<1> QED
  BY <1>1, <1>2, <1>3, <1>4, <1>5, KindOf

\* Through pipes an end hears itself.
Sends(e) == IF e = Main THEN {Main} ELSE IF Piped THEN {} ELSE {e}
Hears(e) ==
  IF Piped THEN IF e = Main THEN {Main} ELSE {} ELSE IF e = Main THEN Workers ELSE {Main}
Carries(x) ==
  IF Piped THEN IF x[2] = 1 THEN {Main} ELSE {} ELSE IF x[2] = 0 THEN {Main} ELSE Workers
From(p) ==
  CASE p[1] = "outbox" -> Sends(p[2])
    [] p[1] \in {"item", "slot", "moving"} -> Sends(p[2][1])
    [] p[1] = "wire" -> Carries(p[2])
    [] p[1] = "fetched" -> Hears(p[2][1])
    [] p[1] \in {"inbox", "serving"} -> Hears(p[2])
    [] p[1] = "got" -> Hears(Main)

LEMMA FromIs ==
  /\ \A e : From(<<"outbox", e>>) = Sends(e) /\ From(<<"inbox", e>>) = Hears(e)
  /\ \A t : /\ From(<<"item", t>>) = Sends(t[1]) /\ From(<<"slot", t>>) = Sends(t[1])
            /\ From(<<"moving", t>>) = Sends(t[1]) /\ From(<<"fetched", t>>) = Hears(t[1])
  /\ \A x : From(<<"wire", x>>) = Carries(x)
  /\ \A w : From(<<"serving", w>>) = Hears(w)
  /\ From(<<"got", Main>>) = Hears(Main)
BY DEF From

\* The way of a worker's replies through the queues.
TheRoute(w) == << <<"got", Main>>, <<"inbox", Main>>, <<"fetched", <<Main, Main>>>>,
                  <<"wire", <<Main, 1>>>>, <<"item", <<w, w>>>>, <<"outbox", w>> >>

LEMMA RouteIs ==
  ASSUME ~Piped, NEW w \in Workers
  PROVE  /\ TheRoute(w) \in Route(Places)
         /\ TheRoute(w)[1] = <<"got", Main>> /\ TheRoute(w)[2] = <<"inbox", Main>>
         /\ TheRoute(w)[3] = <<"fetched", <<Main, Main>>>>
         /\ TheRoute(w)[4] = <<"wire", <<Main, 1>>>>
         /\ TheRoute(w)[5] = <<"item", <<w, w>>>> /\ TheRoute(w)[6] = <<"outbox", w>>
<1>1. /\ TheRoute(w)[1] = <<"got", Main>> /\ TheRoute(w)[2] = <<"inbox", Main>>
      /\ TheRoute(w)[3] = <<"fetched", <<Main, Main>>>>
      /\ TheRoute(w)[4] = <<"wire", <<Main, 1>>>>
      /\ TheRoute(w)[5] = <<"item", <<w, w>>>> /\ TheRoute(w)[6] = <<"outbox", w>>
  BY DEF TheRoute
<1>2. /\ Main \in Ends /\ w \in Ends /\ <<Main, Main>> \in Threads /\ <<w, w>> \in Threads
      /\ <<Main, 1>> \in Wires
  BY WorkersAreEnds, OwnThread DEF Wires
<1>3. \A a \in 1 .. 6 : a \in {1, 2, 3, 4, 5, 6}
  OBVIOUS
<1>4. \A a \in 1 .. 6 : TheRoute(w)[a] \in Places
  BY <1>1, <1>2, <1>3, PlacesAre
<1>5. TheRoute(w) \in [1 .. 6 -> Places]
  <2>1. TheRoute(w) = [a \in 1 .. 6 |-> TheRoute(w)[a]]
    BY DEF TheRoute
  <2> QED
    BY <1>4, <2>1
<1>6. \A a, b \in 1 .. 6 : TheRoute(w)[a] = TheRoute(w)[b] => a = b
  BY <1>1, <1>3
<1> QED
  BY <1>1, <1>5, <1>6 DEF Route

\* A message may go from p to q: whoever may have put it may have put it there, and on the
\* way of each worker it is the next place, or none that could disturb the order.
Follows(w, p, q) == \E s \in 1 .. 5 : p = TheRoute(w)[s + 1] /\ q = TheRoute(w)[s]
MoveFits(p, q) ==
  /\ From(p) \subseteq From(q)
  /\ ~Piped => \A w \in Workers :
       \/ Follows(w, p, q)
       \/ /\ \A a \in 1 .. 6 : TheRoute(w)[a] # p
          /\ (\A a \in 1 .. 6 : TheRoute(w)[a] # q) \/ w \notin From(p)

LEMMA OnTheWay ==
  ASSUME ~Piped, NEW w \in Workers, NEW p
  PROVE  /\ (\A a \in 1 .. 6 : TheRoute(w)[a] # p) <=>
              p \notin {<<"got", Main>>, <<"inbox", Main>>, <<"fetched", <<Main, Main>>>>,
                        <<"wire", <<Main, 1>>>>, <<"item", <<w, w>>>>, <<"outbox", w>>}
<1>1. /\ TheRoute(w)[1] = <<"got", Main>> /\ TheRoute(w)[2] = <<"inbox", Main>>
      /\ TheRoute(w)[3] = <<"fetched", <<Main, Main>>>>
      /\ TheRoute(w)[4] = <<"wire", <<Main, 1>>>>
      /\ TheRoute(w)[5] = <<"item", <<w, w>>>> /\ TheRoute(w)[6] = <<"outbox", w>>
  BY RouteIs
<1>2. \A a \in 1 .. 6 : a \in {1, 2, 3, 4, 5, 6}
  OBVIOUS
<1>3. {1, 2, 3, 4, 5, 6} \subseteq 1 .. 6
  OBVIOUS
<1> HIDE DEF TheRoute
<1> QED
  BY <1>1, <1>2, <1>3

LEMMA NextOnTheWay ==
  ASSUME ~Piped, NEW w \in Workers
  PROVE  /\ Follows(w, <<"outbox", w>>, <<"item", <<w, w>>>>)
         /\ Follows(w, <<"item", <<w, w>>>>, <<"wire", <<Main, 1>>>>)
         /\ Follows(w, <<"wire", <<Main, 1>>>>, <<"fetched", <<Main, Main>>>>)
         /\ Follows(w, <<"fetched", <<Main, Main>>>>, <<"inbox", Main>>)
         /\ Follows(w, <<"inbox", Main>>, <<"got", Main>>)
<1>1. /\ TheRoute(w)[1] = <<"got", Main>> /\ TheRoute(w)[2] = <<"inbox", Main>>
      /\ TheRoute(w)[3] = <<"fetched", <<Main, Main>>>>
      /\ TheRoute(w)[4] = <<"wire", <<Main, 1>>>>
      /\ TheRoute(w)[5] = <<"item", <<w, w>>>> /\ TheRoute(w)[6] = <<"outbox", w>>
  BY RouteIs
<1> HIDE DEF TheRoute
<1>2. /\ 1 \in 1 .. 5 /\ 2 \in 1 .. 5 /\ 3 \in 1 .. 5 /\ 4 \in 1 .. 5 /\ 5 \in 1 .. 5
      /\ 1 + 1 = 2 /\ 2 + 1 = 3 /\ 3 + 1 = 4 /\ 4 + 1 = 5 /\ 5 + 1 = 6
  OBVIOUS
<1>3. Follows(w, <<"outbox", w>>, <<"item", <<w, w>>>>)
  BY <1>1, <1>2 DEF Follows
<1>4. Follows(w, <<"item", <<w, w>>>>, <<"wire", <<Main, 1>>>>)
  BY <1>1, <1>2 DEF Follows
<1>5. Follows(w, <<"wire", <<Main, 1>>>>, <<"fetched", <<Main, Main>>>>)
  BY <1>1, <1>2 DEF Follows
<1>6. Follows(w, <<"fetched", <<Main, Main>>>>, <<"inbox", Main>>)
  BY <1>1, <1>2 DEF Follows
<1>7. Follows(w, <<"inbox", Main>>, <<"got", Main>>)
  BY <1>1, <1>2 DEF Follows
<1> QED
  BY <1>3, <1>4, <1>5, <1>6, <1>7

LEMMA SendingFits ==
  ASSUME NEW t \in Threads
  PROVE  /\ MoveFits(<<"outbox", t[1]>>, <<"item", t>>)
         /\ Piped => /\ MoveFits(<<"item", t>>, <<"slot", t>>)
                     /\ MoveFits(<<"slot", t>>, <<"moving", t>>)
                     /\ MoveFits(<<"moving", t>>, <<"wire", WireOut(t)>>)
         /\ ~Piped /\ Used(t) => MoveFits(<<"item", t>>, <<"wire", WireOut(t)>>)
<1>1. /\ t[1] \in Ends /\ t = <<t[1], t[2]>> /\ (t[1] # Main => t[2] = t[1])
      /\ \A w \in Workers : w # Main
  BY ThreadEnds, WorkersAreEnds
<1>2. MoveFits(<<"outbox", t[1]>>, <<"item", t>>)
  <2>1. From(<<"outbox", t[1]>>) \subseteq From(<<"item", t>>)
    BY FromIs
  <2>2. ASSUME ~Piped, NEW w \in Workers
        PROVE  \/ Follows(w, <<"outbox", t[1]>>, <<"item", t>>)
               \/ /\ \A a \in 1 .. 6 : TheRoute(w)[a] # <<"outbox", t[1]>>
                  /\ \A a \in 1 .. 6 : TheRoute(w)[a] # <<"item", t>>
    <3>1. CASE t[1] = w
      <4>1. <<"outbox", t[1]>> = <<"outbox", w>> /\ <<"item", t>> = <<"item", <<w, w>>>>
        BY <1>1, <3>1
      <4> QED
        BY <2>2, <4>1, NextOnTheWay
    <3>2. CASE t[1] # w
      <4>1. <<"outbox", t[1]>> \notin {<<"got", Main>>, <<"inbox", Main>>,
              <<"fetched", <<Main, Main>>>>, <<"wire", <<Main, 1>>>>, <<"item", <<w, w>>>>,
              <<"outbox", w>>}
        BY <3>2
      <4>2. <<"item", t>> \notin {<<"got", Main>>, <<"inbox", Main>>,
              <<"fetched", <<Main, Main>>>>, <<"wire", <<Main, 1>>>>, <<"item", <<w, w>>>>,
              <<"outbox", w>>}
        BY <1>1, <3>2
      <4> QED
        BY <2>2, <4>1, <4>2, OnTheWay
    <3> QED
      BY <3>1, <3>2
  <2> QED
    BY <2>1, <2>2 DEF MoveFits
<1>3. ASSUME Piped
      PROVE  /\ MoveFits(<<"item", t>>, <<"slot", t>>) /\ MoveFits(<<"slot", t>>, <<"moving", t>>)
             /\ MoveFits(<<"moving", t>>, <<"wire", WireOut(t)>>)
  <2>1. /\ From(<<"item", t>>) \subseteq From(<<"slot", t>>)
        /\ From(<<"slot", t>>) \subseteq From(<<"moving", t>>)
    BY FromIs
  <2>2. Sends(t[1]) \subseteq Carries(WireOut(t))
    BY <1>3 DEF Sends, Carries, WireOut, SendConnection
  <2>3. From(<<"moving", t>>) \subseteq From(<<"wire", WireOut(t)>>)
    BY <2>2, FromIs
  <2> QED
    BY <1>3, <2>1, <2>3 DEF MoveFits
<1>4. ASSUME ~Piped, Used(t)
      PROVE  MoveFits(<<"item", t>>, <<"wire", WireOut(t)>>)
  <2>1. t = <<t[1], t[1]>> /\ (t[1] = Main \/ t[1] \in Workers)
    BY <1>1, <1>4, UsedThread DEF Ends
  <2>2. CASE t[1] = Main
    <3>1. WireOut(t) = <<Main, 0>> /\ From(<<"item", t>>) = {Main}
          /\ From(<<"wire", <<Main, 0>>>>) = {Main}
      BY <1>4, <2>2, FromIs DEF WireOut, Sends, Carries
    <3>2. ASSUME NEW w \in Workers
          PROVE  /\ \A a \in 1 .. 6 : TheRoute(w)[a] # <<"item", t>>
                 /\ w \notin From(<<"item", t>>)
      <4>1. <<"item", t>> \notin {<<"got", Main>>, <<"inbox", Main>>,
              <<"fetched", <<Main, Main>>>>, <<"wire", <<Main, 1>>>>, <<"item", <<w, w>>>>,
              <<"outbox", w>>}
        BY <1>1, <2>2, WorkersAreEnds
      <4> QED
        BY <1>4, <3>1, <4>1, OnTheWay, WorkersAreEnds
    <3> QED
      BY <3>1, <3>2 DEF MoveFits
  <2>3. CASE t[1] \in Workers
    <3>1. WireOut(t) = <<Main, 1>> /\ From(<<"item", t>>) = {t[1]}
          /\ From(<<"wire", <<Main, 1>>>>) = Workers
      <4>1. t[1] # Main
        BY <1>1, <2>3
      <4>2. WireOut(t) = <<Main, 1>>
        BY <1>4, <4>1 DEF WireOut
      <4>3. From(<<"item", t>>) = {t[1]}
        BY <1>4, <4>1, FromIs DEF Sends
      <4>4. From(<<"wire", <<Main, 1>>>>) = Workers
        BY <1>4, FromIs DEF Carries
      <4> QED
        BY <4>2, <4>3, <4>4
    <3>2. ASSUME NEW w \in Workers, w # t[1]
          PROVE  /\ \A a \in 1 .. 6 : TheRoute(w)[a] # <<"item", t>>
                 /\ w \notin From(<<"item", t>>)
      <4>1. <<"item", t>> \notin {<<"got", Main>>, <<"inbox", Main>>,
              <<"fetched", <<Main, Main>>>>, <<"wire", <<Main, 1>>>>, <<"item", <<w, w>>>>,
              <<"outbox", w>>}
        BY <2>1, <3>2
      <4> QED
        BY <1>4, <3>1, <3>2, <4>1, OnTheWay
    <3>3. Follows(t[1], <<"item", t>>, <<"wire", WireOut(t)>>)
      <4>1. <<"item", t>> = <<"item", <<t[1], t[1]>>>>
        BY <2>1
      <4> QED
        BY <1>4, <2>3, <3>1, <4>1, NextOnTheWay
    <3> QED
      BY <2>3, <3>1, <3>2, <3>3 DEF MoveFits
  <2> QED
    BY <2>1, <2>2, <2>3
<1> QED
  BY <1>2, <1>3, <1>4

LEMMA ReceivingFits ==
  ASSUME NEW t \in Threads, Used(t)
  PROVE  /\ MoveFits(<<"wire", WireIn(t)>>, <<"fetched", t>>)
         /\ MoveFits(<<"fetched", t>>, <<"inbox", t[1]>>)
<1>1. /\ t[1] \in Ends /\ t = <<t[1], t[2]>> /\ (t[1] # Main => t[2] = t[1])
      /\ \A w \in Workers : w # Main
  BY ThreadEnds, WorkersAreEnds
<1>2. CASE Piped
  <2>1. Carries(WireIn(t)) \subseteq Hears(t[1])
    BY <1>2 DEF Hears, Carries, WireIn, ReceiveConnection
  <2>2. From(<<"wire", WireIn(t)>>) \subseteq From(<<"fetched", t>>)
        /\ From(<<"fetched", t>>) \subseteq From(<<"inbox", t[1]>>)
    BY <2>1, FromIs
  <2> QED
    BY <1>2, <2>2 DEF MoveFits
<1>3. ASSUME ~Piped, t[1] = Main
      PROVE  /\ MoveFits(<<"wire", WireIn(t)>>, <<"fetched", t>>)
             /\ MoveFits(<<"fetched", t>>, <<"inbox", t[1]>>)
  <2>1. t = <<Main, Main>> /\ WireIn(t) = <<Main, 1>>
    BY <1>3, UsedThread DEF WireIn
  <2>2. /\ From(<<"wire", <<Main, 1>>>>) = Workers /\ From(<<"inbox", Main>>) = Workers
        /\ From(<<"fetched", <<Main, Main>>>>) = Workers
    BY <1>3, FromIs DEF Hears, Carries
  <2>3. ASSUME NEW w \in Workers
        PROVE  /\ Follows(w, <<"wire", <<Main, 1>>>>, <<"fetched", <<Main, Main>>>>)
               /\ Follows(w, <<"fetched", <<Main, Main>>>>, <<"inbox", Main>>)
    BY <1>3, NextOnTheWay
  <2>4. /\ MoveFits(<<"wire", <<Main, 1>>>>, <<"fetched", <<Main, Main>>>>)
        /\ MoveFits(<<"fetched", <<Main, Main>>>>, <<"inbox", Main>>)
    BY <2>2, <2>3 DEF MoveFits
  <2> QED
    BY <1>3, <2>1, <2>4
<1>4. ASSUME ~Piped, t[1] # Main
      PROVE  /\ MoveFits(<<"wire", WireIn(t)>>, <<"fetched", t>>)
             /\ MoveFits(<<"fetched", t>>, <<"inbox", t[1]>>)
  <2>1. t = <<t[1], t[1]>> /\ WireIn(t) = <<Main, 0>>
    BY <1>4, UsedThread DEF WireIn
  <2>2. /\ From(<<"wire", <<Main, 0>>>>) = {Main} /\ From(<<"inbox", t[1]>>) = {Main}
        /\ From(<<"fetched", t>>) = {Main}
    BY <1>4, FromIs DEF Hears, Carries
  <2>3. ASSUME NEW w \in Workers
        PROVE  /\ \A a \in 1 .. 6 : TheRoute(w)[a] # <<"wire", <<Main, 0>>>>
               /\ \A a \in 1 .. 6 : TheRoute(w)[a] # <<"fetched", t>>
               /\ w \notin {Main}
    <3>1. <<"wire", <<Main, 0>>>> \notin {<<"got", Main>>, <<"inbox", Main>>,
              <<"fetched", <<Main, Main>>>>, <<"wire", <<Main, 1>>>>, <<"item", <<w, w>>>>,
              <<"outbox", w>>}
      OBVIOUS
    <3>2. <<"fetched", t>> \notin {<<"got", Main>>, <<"inbox", Main>>,
              <<"fetched", <<Main, Main>>>>, <<"wire", <<Main, 1>>>>, <<"item", <<w, w>>>>,
              <<"outbox", w>>}
      BY <1>4, <2>1
    <3> QED
      BY <1>1, <1>4, <3>1, <3>2, OnTheWay
  <2> QED
    BY <2>1, <2>2, <2>3 DEF MoveFits
<1> QED
  BY <1>2, <1>3, <1>4

LEMMA UsingFits ==
  /\ MoveFits(<<"inbox", Main>>, <<"got", Main>>)
  /\ \A w \in Workers : MoveFits(<<"inbox", w>>, <<"serving", w>>)
<1>1. MoveFits(<<"inbox", Main>>, <<"got", Main>>)
  <2>1. From(<<"inbox", Main>>) \subseteq From(<<"got", Main>>)
    BY FromIs
  <2>2. ~Piped => \A w \in Workers : Follows(w, <<"inbox", Main>>, <<"got", Main>>)
    BY NextOnTheWay
  <2> QED
    BY <2>1, <2>2 DEF MoveFits
<1>2. ASSUME NEW v \in Workers PROVE MoveFits(<<"inbox", v>>, <<"serving", v>>)
  <2>1. From(<<"inbox", v>>) \subseteq From(<<"serving", v>>)
    BY FromIs
  <2>2. ASSUME ~Piped, NEW w \in Workers
        PROVE  /\ \A a \in 1 .. 6 : TheRoute(w)[a] # <<"inbox", v>>
               /\ \A a \in 1 .. 6 : TheRoute(w)[a] # <<"serving", v>>
    <3>1. <<"inbox", v>> \notin {<<"got", Main>>, <<"inbox", Main>>,
              <<"fetched", <<Main, Main>>>>, <<"wire", <<Main, 1>>>>, <<"item", <<w, w>>>>,
              <<"outbox", w>>}
      BY WorkersAreEnds
    <3>2. <<"serving", v>> \notin {<<"got", Main>>, <<"inbox", Main>>,
              <<"fetched", <<Main, Main>>>>, <<"wire", <<Main, 1>>>>, <<"item", <<w, w>>>>,
              <<"outbox", w>>}
      OBVIOUS
    <3> QED
      BY <2>2, <3>1, <3>2, OnTheWay
  <2> QED
    BY <2>1, <2>2 DEF MoveFits
<1> QED
  BY <1>1, <1>2

-----------------------------------------------------------------------------
(***************************************************************************)
(* What a step does to the boxes.                                          *)
(***************************************************************************)

LEMMA ThreadsFinite == IsFiniteSet(Threads)
<1>1. IsFiniteSet(Ends)
  BY MessagingAssumption, FS_AddElement, FS_EmptySet, FS_Singleton, FS_Union DEF Ends
<1>2. IsFiniteSet(Ends \X Ends)
  BY <1>1, FS_Product
<1>3. Threads \in SUBSET (Ends \X Ends)
  BY DEF Threads, Ends
<1> QED
  BY <1>2, <1>3, FS_Subset

LEMMA NoneOfThem ==
  ASSUME NEW A \in SUBSET Threads, NEW B \in SUBSET Threads
  PROVE  Cardinality(A) + Cardinality(B) = 0 <=> A = {} /\ B = {}
<1>1. IsFiniteSet(A) /\ IsFiniteSet(B)
  BY ThreadsFinite, FS_Subset
<1>2. Cardinality(A) \in Nat /\ Cardinality(B) \in Nat
  BY <1>1, FS_CardinalityType
<1>3. (Cardinality(A) = 0 <=> A = {}) /\ (Cardinality(B) = 0 <=> B = {})
  BY <1>1, FS_EmptySet
<1> QED
  BY <1>2, <1>3

NoneDead(s, r) == \A t \in Threads : s[t].at # "dead" /\ r[t].at # "dead"

LEMMA DeathsAre ==
  /\ Deaths = 0 <=> NoneDead(sender, receiver)
  /\ Deaths' = 0 <=> NoneDead(sender', receiver')
<1>1. \A s, r : Cardinality({t \in Threads : s[t].at = "dead"})
                  + Cardinality({t \in Threads : r[t].at = "dead"}) = 0
                <=> NoneDead(s, r)
  <2> SUFFICES ASSUME NEW s, NEW r
               PROVE  Cardinality({t \in Threads : s[t].at = "dead"})
                        + Cardinality({t \in Threads : r[t].at = "dead"}) = 0
                      <=> NoneDead(s, r)
    OBVIOUS
  <2> DEFINE A == {t \in Threads : s[t].at = "dead"}
             B == {t \in Threads : r[t].at = "dead"}
  <2>1. A \in SUBSET Threads /\ B \in SUBSET Threads
    OBVIOUS
  <2>2. A = {} /\ B = {} <=> NoneDead(s, r)
    BY DEF NoneDead
  <2>3. Cardinality(A) + Cardinality(B) = 0 <=> A = {} /\ B = {}
    <3> HIDE DEF A, B
    <3> QED
      BY <2>1, NoneOfThem
  <2> QED
    BY <2>2, <2>3
<1>2. Deaths = 0 <=> NoneDead(sender, receiver)
  BY <1>1 DEF Deaths
<1>3. Deaths' = 0 <=> NoneDead(sender', receiver')
  BY <1>1 DEF Deaths
<1> QED
  BY <1>2, <1>3

\* The dead stay dead, and what is disturbed stays so.
LEMMA StaysDisturbed ==
  ASSUME Forward
  PROVE  /\ Deaths' = 0 => Deaths = 0
         /\ Undisturbed' => Undisturbed
         /\ closing'[Main] = "open" => closing[Main] = "open"
<1>1. Deaths' = 0 => Deaths = 0
  BY DeathsAre DEF Forward, NoneDead
<1>2. \A e \in Ends : closing'[e] = "open" => closing[e] = "open"
  BY DEF Forward
<1>3. Undisturbed' <=> Deaths' = 0 /\ \A e \in Ends : closing'[e] = "open"
  BY DEF Undisturbed
<1>4. Undisturbed' => Undisturbed
  BY <1>1, <1>2, <1>3 DEF Undisturbed
<1> QED
  BY <1>1, <1>2, <1>4, WorkersAreEnds

\* A step leaves every box as it is, or passes a message on, or sends a new one, or
\* answers one, or loses some.
Rests == Content' = Content /\ UNCHANGED <<replied, produced>>
Passes ==
  /\ \E p, q : Moved(Places, Content, Content', p, q) /\ MoveFits(p, q)
  /\ UNCHANGED <<replied, produced>>
New == [id |-> produced + 1, by |-> Main]
SetsOff ==
  /\ produced + 1 \in 1 .. Messages /\ produced' = produced + 1 /\ replied' = replied
  /\ \E q : /\ Added(Places, Content, Content', q, New) /\ Main \in From(q)
            /\ ~Piped => \A w \in Workers : \A a \in 1 .. 6 : TheRoute(w)[a] # q
ReplyOf(w) == [id |-> Head(serving[w]).id, by |-> w]
Answers(w) ==
  /\ closing[w] = "open" /\ serving[w] # <<>> /\ produced' = produced
  /\ replied' = [replied EXCEPT ![w] = Append(@, ReplyOf(w))]
  /\ Content'[<<"serving", w>>] = Tail(Content[<<"serving", w>>])
  /\ Content'[<<"outbox", w>>] = Append(Content[<<"outbox", w>>], ReplyOf(w))
  /\ \A r \in Places \ {<<"serving", w>>, <<"outbox", w>>} : Content'[r] = Content[r]
\* While nothing has died and the coordinator is open, only the buffer of a worker that
\* has stopped is lost.
Drops ==
  /\ Lessened(Places, Content, Content') /\ ~Undisturbed' /\ UNCHANGED <<replied, produced>>
  /\ ~Piped /\ Deaths' = 0 /\ closing'[Main] = "open" => \A w \in Workers :
       /\ \A a \in 1 .. 5 : Content'[TheRoute(w)[a]] = Content[TheRoute(w)[a]]
       /\ Content'[TheRoute(w)[6]] \in {Content[TheRoute(w)[6]], <<>>}
       /\ closing'[w] = "open" => Content'[TheRoute(w)[6]] = Content[TheRoute(w)[6]]

LEMMA NothingMoves ==
  ASSUME layer' = layer, Stays({}), UNCHANGED <<replied, produced>>
  PROVE  Rests
<1>1. \A r \in Places : Content'[r] = Content[r]
  BY Elsewhere
<1>2. Content = [p \in Places |-> Content[p]] /\ Content' = [p \in Places |-> Content'[p]]
  BY SameLayer DEF Content
<1> QED
  BY <1>1, <1>2 DEF Rests

LEMMA PassOn ==
  ASSUME layer' = layer, UNCHANGED <<replied, produced>>, NEW p \in Places, NEW q \in Places,
         p # q, Content[p] # <<>>, Content'[p] = Tail(Content[p]),
         Content'[q] = Append(Content[q], Head(Content[p])), Stays({p, q}), MoveFits(p, q)
  PROVE  Passes
<1>1. \A r \in Places \ {p, q} : Content'[r] = Content[r]
  BY Elsewhere
<1>2. Moved(Places, Content, Content', p, q)
  BY <1>1 DEF Moved
<1> QED
  BY <1>2 DEF Passes

LEMMA SenderStays ==
  ASSUME NEW t \in Threads, NEW a, NEW i, NEW s, NEW m, SenderSet(t, a, i, s, m), NEW A,
         UNCHANGED <<receiver, inbox, serving, got>>,
         \A e \in Ends : <<"outbox", e>> \in A \/ outbox'[e] = outbox[e],
         \A x \in Wires : <<"wire", x>> \in A \/ wire'[x] = wire[x],
         <<"item", t>> \in A \/ i = sender[t].item,
         <<"slot", t>> \in A \/ s = sender[t].slot,
         <<"moving", t>> \in A \/ m = sender[t].moving
  PROVE  Stays(A)
<1>1. \A u \in Threads : /\ <<"item", u>> \in A \/ sender'[u].item = sender[u].item
                         /\ <<"slot", u>> \in A \/ sender'[u].slot = sender[u].slot
                         /\ <<"moving", u>> \in A \/ sender'[u].moving = sender[u].moving
  BY DEF SenderSet
<1> QED
  BY <1>1 DEF Stays

LEMMA ReceiverStays ==
  ASSUME NEW t \in Threads, NEW a, NEW i, ReceiverSet(t, a, i), NEW A,
         UNCHANGED <<sender, outbox, serving, got>>,
         \A e \in Ends : <<"inbox", e>> \in A \/ inbox'[e] = inbox[e],
         \A x \in Wires : <<"wire", x>> \in A \/ wire'[x] = wire[x],
         <<"fetched", t>> \in A \/ i = receiver[t].item
  PROVE  Stays(A)
<1>1. \A u \in Threads : <<"fetched", u>> \in A \/ receiver'[u].item = receiver[u].item
  BY DEF ReceiverSet
<1> QED
  BY <1>1 DEF Stays

LEMMA Alone == \A x : Append(<<>>, x) = <<x>> /\ Tail(<<x>>) = <<>> /\ <<x>> # <<>> /\ Head(<<x>>) = x
OBVIOUS

LEMMA SenderTakesMoves ==
  ASSUME Typed, ThreadsFit, NEW t \in Threads, SenderTakes(t)
  PROVE  Passes \/ SetsOff
<1> DEFINE p == <<"outbox", t[1]>>
           q == <<"item", t>>
<1>1. /\ UNCHANGED <<layer, inbox, receiver, wire, serving, replied, got>>
      /\ sender[t].item = <<>>
  BY DEF SenderTakes
<1>2. /\ t[1] \in Ends /\ p \in Places /\ q \in Places /\ p # q
      /\ outbox \in [Ends -> Seq(Message)]
      /\ t = <<t[1], t[2]>> /\ (t[1] # Main => t[2] = t[1])
      /\ Content[p] = outbox[t[1]] /\ Content[q] = <<>>
      /\ Content'[p] = outbox'[t[1]] /\ Content'[q] = sender'[t].item
  BY <1>1, ThreadEnds, PlacesAre, ContentIs, ContentIsNext DEF Typed
<1>3. ASSUME Iterates(t[1]), produced + 1 \in 1 .. Messages, produced' = produced + 1,
             SenderSet(t, "on", <<New>>, sender[t].slot, sender[t].moving), outbox' = outbox
      PROVE  SetsOff
  <2>1. t[1] = Main
    BY <1>3 DEF Iterates
  <2>2. Content'[q] = Append(Content[q], New)
    BY <1>2, <1>3, Alone DEF SenderSet
  <2>3. Stays({q})
    BY <1>1, <1>3, SenderStays
  <2>4. \A r \in Places \ {q} : Content'[r] = Content[r]
    BY <1>1, <2>3, Elsewhere
  <2>5. Main \in From(q)
    BY <2>1, FromIs DEF Sends
  <2>6. ASSUME ~Piped, NEW w \in Workers
        PROVE  \A a \in 1 .. 6 : TheRoute(w)[a] # q
    <3>1. q \notin {<<"got", Main>>, <<"inbox", Main>>, <<"fetched", <<Main, Main>>>>,
                    <<"wire", <<Main, 1>>>>, <<"item", <<w, w>>>>, <<"outbox", w>>}
      BY <1>2, <2>1, WorkersAreEnds
    <3> HIDE DEF q
    <3> QED
      BY <2>6, <3>1, OnTheWay
  <2>7. Added(Places, Content, Content', q, New)
    BY <1>2, <2>2, <2>4 DEF Added
  <2> HIDE DEF q
  <2> QED
    BY <1>1, <1>3, <2>5, <2>6, <2>7 DEF SetsOff
<1>4. ASSUME outbox[t[1]] # <<>>, outbox' = [outbox EXCEPT ![t[1]] = Tail(@)],
             SenderSet(t, "on", <<Head(outbox[t[1]])>>, sender[t].slot, sender[t].moving),
             produced' = produced
      PROVE  Passes
  <2>1. Content'[p] = Tail(Content[p]) /\ Content[p] # <<>>
    BY <1>2, <1>4
  <2>2. Content'[q] = Append(Content[q], Head(Content[p]))
    BY <1>2, <1>4, Alone DEF SenderSet
  <2>3. \A e \in Ends : p = <<"outbox", e>> \/ outbox'[e] = outbox[e]
    BY <1>2, <1>4
  <2>4. Stays({p, q})
    BY <1>1, <1>4, <2>3, SenderStays
  <2>5. MoveFits(p, q)
    BY SendingFits
  <2> HIDE DEF p, q
  <2> QED
    BY <1>1, <1>2, <1>4, <2>1, <2>2, <2>4, <2>5, PassOn
<1> QED
  BY <1>3, <1>4, SenderTakesSets DEF New

LEMMA SenderSendsMoves ==
  ASSUME Typed, ThreadsFit, NEW t \in Threads, SenderSends(t)
  PROVE  Passes
<1> DEFINE p == <<"item", t>>
<1>1. /\ UNCHANGED <<layer, produced, outbox, inbox, receiver, serving, replied, got>>
      /\ sender[t].item # <<>> /\ sender[t].at = "on"
  BY DEF SenderSends
<1>2. /\ sender[t].item \in Optional /\ wire \in [Wires -> Seq(Message)]
      /\ p \in Places /\ Content[p] = sender[t].item /\ Content'[p] = sender'[t].item
  BY <1>1, PlacesAre, ContentIs, ContentIsNext DEF Typed, SenderRecord
<1>3. /\ Head(sender[t].item) \in Message /\ sender[t].item = <<Head(sender[t].item)>>
      /\ Tail(sender[t].item) = <<>>
      /\ \A b \in Seq(Message) : b \o sender[t].item = Append(b, Head(sender[t].item))
  BY <1>1, <1>2, Single
<1>4. ASSUME Piped, sender[t].slot = <<>>, wire' = wire,
             SenderSet(t, "on", <<>>, sender[t].item, sender[t].moving)
      PROVE  Passes
  <2> DEFINE q == <<"slot", t>>
  <2>1. /\ q \in Places /\ p # q /\ Content[q] = <<>> /\ Content'[q] = sender'[t].slot
    BY <1>1, <1>4, PlacesAre, ContentIs, ContentIsNext
  <2>2. Content'[p] = Tail(Content[p]) /\ Content[p] # <<>>
    BY <1>1, <1>2, <1>3, <1>4 DEF SenderSet
  <2>3. Content'[q] = Append(Content[q], Head(Content[p]))
    BY <1>2, <1>3, <1>4, <2>1, Alone DEF SenderSet
  <2>4. Stays({p, q})
    BY <1>1, <1>4, SenderStays
  <2>5. MoveFits(p, q)
    BY <1>4, SendingFits
  <2> HIDE DEF p, q
  <2> QED
    BY <1>1, <1>2, <2>1, <2>2, <2>3, <2>4, <2>5, PassOn
<1>5. ASSUME ~Piped, WireOut(t) \in Wires,
             wire' = [wire EXCEPT ![WireOut(t)] = @ \o sender[t].item],
             SenderSet(t, "on", <<>>, sender[t].slot, sender[t].moving)
      PROVE  Passes
  <2> DEFINE q == <<"wire", WireOut(t)>>
  <2>1. /\ q \in Places /\ p # q /\ Content[q] = wire[WireOut(t)]
        /\ Content'[q] = wire'[WireOut(t)] /\ wire[WireOut(t)] \in Seq(Message)
    BY <1>1, <1>2, <1>5, PlacesAre, ContentIs, ContentIsNext
  <2>2. Content'[p] = Tail(Content[p]) /\ Content[p] # <<>>
    BY <1>1, <1>2, <1>3, <1>5 DEF SenderSet
  <2>3. Content'[q] = Append(Content[q], Head(Content[p]))
    BY <1>2, <1>3, <1>5, <2>1
  <2>4. \A x \in Wires : q = <<"wire", x>> \/ wire'[x] = wire[x]
    BY <1>2, <1>5
  <2>5. Stays({p, q})
    BY <1>1, <1>5, <2>4, SenderStays
  <2>6. MoveFits(p, q)
    BY <1>1, <1>5, SendingFits DEF ThreadsFit
  <2> HIDE DEF p, q
  <2> QED
    BY <1>1, <1>2, <2>1, <2>2, <2>3, <2>5, <2>6, PassOn
<1> QED
  BY <1>4, <1>5, SenderSendsSets

LEMMA PipeMoves ==
  ASSUME Typed, ThreadsFit, NEW t \in Threads
  PROVE  /\ PipeTakes(t) => Passes
         /\ PipeSends(t) => Passes
<1>1. /\ sender[t].slot \in Optional /\ sender[t].moving \in Optional
      /\ wire \in [Wires -> Seq(Message)]
  BY DEF Typed, SenderRecord
<1>2. ASSUME PipeTakes(t) PROVE Passes
  <2> DEFINE p == <<"slot", t>>
             q == <<"moving", t>>
  <2>1. /\ UNCHANGED <<layer, produced, outbox, inbox, receiver, wire, serving, replied, got>>
        /\ Piped /\ sender[t].slot # <<>> /\ sender[t].moving = <<>>
    BY <1>2 DEF PipeTakes
  <2>2. SenderSet(t, "on", sender[t].item, <<>>, sender[t].slot)
    BY <1>2, SenderOthersSet
  <2>3. sender[t].slot = <<Head(sender[t].slot)>> /\ Tail(sender[t].slot) = <<>>
    BY <1>1, <2>1, Single
  <2>4. /\ p \in Places /\ q \in Places /\ p # q /\ Content[p] = sender[t].slot
        /\ Content[q] = <<>> /\ Content'[p] = <<>> /\ Content'[q] = sender[t].slot
    BY <2>1, <2>2, PlacesAre, ContentIs, ContentIsNext DEF SenderSet
  <2>5. /\ Content[p] # <<>> /\ Content'[p] = Tail(Content[p])
        /\ Content'[q] = Append(Content[q], Head(Content[p]))
    BY <2>1, <2>3, <2>4, Alone
  <2>6. Stays({p, q})
    BY <2>1, <2>2, SenderStays
  <2>7. MoveFits(p, q)
    BY <2>1, SendingFits
  <2> HIDE DEF p, q
  <2> QED
    BY <2>1, <2>4, <2>5, <2>6, <2>7, PassOn
<1>3. ASSUME PipeSends(t) PROVE Passes
  <2> DEFINE p == <<"moving", t>>
             q == <<"wire", WireOut(t)>>
  <2>1. /\ UNCHANGED <<layer, produced, outbox, inbox, receiver, serving, replied, got>>
        /\ sender[t].moving # <<>>
        /\ wire' = [wire EXCEPT ![WireOut(t)] = @ \o sender[t].moving]
    BY <1>3 DEF PipeSends
  <2>2. SenderSet(t, sender[t].at, sender[t].item, sender[t].slot, <<>>)
    BY <1>3, SenderOthersSet
  <2>3. /\ Tail(sender[t].moving) = <<>>
        /\ \A b \in Seq(Message) : b \o sender[t].moving = Append(b, Head(sender[t].moving))
    BY <1>1, <2>1, Single
  <2>4. Piped /\ Used(t) /\ WireOut(t) \in Wires
    BY <2>1, UsedThread DEF ThreadsFit
  <2>5. /\ p \in Places /\ q \in Places /\ p # q /\ Content[p] = sender[t].moving
        /\ Content[q] = wire[WireOut(t)] /\ Content'[p] = <<>>
        /\ Content'[q] = wire'[WireOut(t)] /\ wire[WireOut(t)] \in Seq(Message)
    BY <1>1, <2>1, <2>2, <2>4, PlacesAre, ContentIs, ContentIsNext DEF SenderSet
  <2>6. /\ Content[p] # <<>> /\ Content'[p] = Tail(Content[p])
    BY <2>1, <2>3, <2>5
  <2>7. Content'[q] = Append(Content[q], Head(Content[p]))
    BY <1>1, <2>1, <2>3, <2>4, <2>5
  <2>8. \A x \in Wires : q = <<"wire", x>> \/ wire'[x] = wire[x]
    BY <1>1, <2>1, <2>4
  <2>9. Stays({p, q})
    BY <2>1, <2>2, <2>8, SenderStays
  <2>10. MoveFits(p, q)
    BY <2>4, SendingFits
  <2> HIDE DEF p, q
  <2> QED
    BY <2>1, <2>5, <2>6, <2>7, <2>9, <2>10, PassOn
<1> QED
  BY <1>2, <1>3

\* Only a thread whose end has stopped gives up a message it holds, and not one of a worker.
LEMMA SenderEndsMoves ==
  ASSUME Typed, ThreadsFit, Settled, NEW t \in Threads, SenderEnds(t)
  PROVE  Rests \/ Drops
<1>1. /\ UNCHANGED <<layer, produced, outbox, inbox, receiver, wire, serving, replied, got, closing>>
      /\ sender[t].at = "on" /\ Stops(t, sender[t], "send")
  BY DEF SenderEnds
<1>2. SenderSet(t, "off", <<>>, sender[t].slot, sender[t].moving)
  BY SenderOthersSet
<1>3. CASE sender[t].item = <<>>
  <2>1. Stays({})
    BY <1>1, <1>2, <1>3, SenderStays
  <2> QED
    BY <1>1, <2>1, NothingMoves
<1>4. CASE sender[t].item # <<>>
  <2>1. t[1] \in Ends /\ (t[1] = Main \/ (t[1] \in Workers /\ t = <<t[1], t[1]>>))
    BY ThreadEnds DEF Ends
  <2>2. closing[t[1]] = "stopped"
    BY <1>1, <1>4, <2>1 DEF Stops, Settled
  <2>3. t[1] = Main
    BY <1>1, <2>1, <2>2 DEF Settled
  <2>4. closing'[Main] # "open" /\ ~Undisturbed'
    BY <1>1, <2>2, <2>3, WorkersAreEnds DEF Undisturbed
  <2>5. Stays({<<"item", t>>})
    BY <1>1, <1>2, SenderStays
  <2>6. \A r \in Places \ {<<"item", t>>} : Content'[r] = Content[r]
    BY <1>1, <2>5, Elsewhere
  <2>7. Content'[<<"item", t>>] = <<>>
    BY <1>1, <1>2, ContentIsNext DEF SenderSet
  <2>8. Lessened(Places, Content, Content')
    BY <2>6, <2>7 DEF Lessened
  <2> QED
    BY <1>1, <2>4, <2>8 DEF Drops
<1> QED
  BY <1>3, <1>4

LEMMA SenderOthersMove ==
  ASSUME Typed, ThreadsFit, Settled, NEW t \in Threads
  PROVE  /\ SenderIdles(t) => Rests
         /\ SenderDies(t) => Drops
<1>1. ASSUME SenderIdles(t) PROVE Rests
  <2>1. UNCHANGED <<layer, produced, outbox, inbox, receiver, wire, serving, replied, got>>
    BY <1>1 DEF SenderIdles
  <2>2. SenderSet(t, sender[t].at, sender[t].item, sender[t].slot, sender[t].moving)
    BY <1>1, SenderOthersSet
  <2>3. Stays({})
    BY <2>1, <2>2, SenderStays
  <2> QED
    BY <2>1, <2>3, NothingMoves
<1>2. ASSUME SenderDies(t) PROVE Drops
  <2> DEFINE p == <<"outbox", t[1]>>
  <2>1. /\ UNCHANGED <<layer, produced, inbox, receiver, wire, serving, replied, got>>
        /\ \/ outbox' = outbox
           \/ outbox[t[1]] # <<>> /\ outbox' = [outbox EXCEPT ![t[1]] = Tail(@)]
    BY <1>2 DEF SenderDies
  <2>2. SenderSet(t, "dead", <<>>, sender[t].slot, sender[t].moving) /\ sender[t].item = <<>>
    BY <1>2, SenderOthersSet
  <2>3. Deaths' # 0 /\ ~Undisturbed'
    <3>1. ~NoneDead(sender', receiver')
      BY <2>2 DEF SenderSet, NoneDead
    <3>2. Deaths' # 0
      BY <3>1, DeathsAre
    <3> QED
      BY <3>2 DEF Undisturbed
  <2>4. /\ outbox \in [Ends -> Seq(Message)] /\ t[1] \in Ends
        /\ Content[p] = outbox[t[1]] /\ Content'[p] = outbox'[t[1]]
    BY <2>1, ThreadEnds, ContentIs, ContentIsNext DEF Typed
  <2>5. \A e \in Ends : p = <<"outbox", e>> \/ outbox'[e] = outbox[e]
    BY <2>1, <2>4
  <2>6. Stays({p})
    <3>1. SenderSet(t, "dead", sender[t].item, sender[t].slot, sender[t].moving)
      BY <2>2
    <3>2. \A e \in Ends : <<"outbox", e>> \in {p} \/ outbox'[e] = outbox[e]
      BY <2>5
    <3> HIDE DEF p
    <3> QED
      BY <2>1, <3>1, <3>2, SenderStays
  <2>7. \A r \in Places \ {p} : Content'[r] = Content[r]
    BY <2>1, <2>6, Elsewhere
  <2>8. Content'[p] = Content[p] \/ (Content[p] # <<>> /\ Content'[p] = Tail(Content[p]))
    BY <2>1, <2>4
  <2>9. Lessened(Places, Content, Content')
    <3> HIDE DEF p
    <3> QED
      BY <2>7, <2>8 DEF Lessened
  <2> QED
    BY <2>1, <2>3, <2>9 DEF Drops
<1> QED
  BY <1>1, <1>2

LEMMA SenderMoves ==
  ASSUME Typed, ThreadsFit, Settled, NEW t \in Threads, SenderStep(t) \/ SenderDies(t)
  PROVE  Rests \/ Passes \/ SetsOff \/ Drops
BY SenderTakesMoves, SenderSendsMoves, PipeMoves, SenderEndsMoves, SenderOthersMove DEF SenderStep

LEMMA DiesDrop ==
  ASSUME Typed, NEW t \in Threads, ReceiverSet(t, "dead", <<>>),
         UNCHANGED <<layer, produced, outbox, inbox, sender, wire, serving, replied, got>>
  PROVE  Drops
<1>1. Deaths' # 0 /\ ~Undisturbed'
  <2>1. ~NoneDead(sender', receiver')
    BY DEF ReceiverSet, NoneDead
  <2>2. Deaths' # 0
    BY <2>1, DeathsAre
  <2> QED
    BY <2>2 DEF Undisturbed
<1>2. Stays({<<"fetched", t>>})
  BY ReceiverStays
<1>3. \A r \in Places \ {<<"fetched", t>>} : Content'[r] = Content[r]
  BY <1>2, Elsewhere
<1>4. Content'[<<"fetched", t>>] = <<>>
  BY ContentIsNext DEF ReceiverSet
<1>5. Lessened(Places, Content, Content')
  BY <1>3, <1>4 DEF Lessened
<1> QED
  BY <1>1, <1>5 DEF Drops

LEMMA ReceiverMoves ==
  ASSUME Typed, ThreadsFit, NEW t \in Threads, ReceiverStep(t) \/ ReceiverDies(t)
  PROVE  Rests \/ Passes \/ Drops
<1>1. /\ UNCHANGED <<layer, produced, outbox, sender, serving, replied, got>>
      /\ receiver[t].at = "on"
  BY DEF ReceiverStep, ReceiverLooks, ReceiverTakes, ReceiverIdles, ReceiverDelivers,
         ReceiverEnds, ReceiverDies, Polls
<1>2. /\ Used(t) /\ t[1] \in Ends /\ receiver[t].item \in Optional
      /\ inbox \in [Ends -> Seq(Message)] /\ wire \in [Wires -> Seq(Message)]
  BY <1>1, ThreadEnds DEF ThreadsFit, Typed, ReceiverRecord
<1>3. CASE ReceiverLooks(t) \/ ReceiverIdles(t) \/ ReceiverEnds(t)
  <2>1. UNCHANGED <<inbox, wire>>
    BY <1>3 DEF ReceiverLooks, ReceiverIdles, ReceiverEnds
  <2>2. \/ ReceiverSet(t, "on", receiver[t].item) \/ ReceiverSet(t, "off", receiver[t].item)
    BY <1>3, ReceiverSets
  <2>3. Stays({})
    BY <1>1, <2>1, <2>2, ReceiverStays
  <2> QED
    BY <1>1, <2>3, NothingMoves
<1>4. CASE ReceiverTakes(t)
  <2> DEFINE p == <<"wire", WireIn(t)>>
             q == <<"fetched", t>>
  <2>1. inbox' = inbox /\ wire' = [wire EXCEPT ![WireIn(t)] = Tail(@)]
    BY <1>4 DEF ReceiverTakes
  <2>2. /\ receiver[t].item = <<>> /\ WireIn(t) \in Wires /\ wire[WireIn(t)] # <<>>
        /\ ReceiverSet(t, "on", <<Head(wire[WireIn(t)])>>)
    BY <1>4, ReceiverSets
  <2>3. /\ p \in Places /\ q \in Places /\ p # q /\ Content[p] = wire[WireIn(t)]
        /\ Content[q] = <<>> /\ Content'[p] = Tail(wire[WireIn(t)])
        /\ Content'[q] = <<Head(wire[WireIn(t)])>>
    BY <1>1, <1>2, <2>1, <2>2, PlacesAre, ContentIs, ContentIsNext DEF ReceiverSet
  <2>4. /\ Content[p] # <<>> /\ Content'[p] = Tail(Content[p])
        /\ Content'[q] = Append(Content[q], Head(Content[p]))
    BY <2>2, <2>3, Alone
  <2>5. \A x \in Wires : p = <<"wire", x>> \/ wire'[x] = wire[x]
    BY <1>2, <2>1, <2>2
  <2>6. Stays({p, q})
    BY <1>1, <2>1, <2>2, <2>5, ReceiverStays
  <2>7. MoveFits(p, q)
    BY <1>2, ReceivingFits
  <2> HIDE DEF p, q
  <2> QED
    BY <1>1, <2>3, <2>4, <2>6, <2>7, PassOn
<1>5. CASE ReceiverDelivers(t)
  <2> DEFINE p == <<"fetched", t>>
             q == <<"inbox", t[1]>>
  <2>1. wire' = wire /\ receiver[t].item # <<>>
    BY <1>5 DEF ReceiverDelivers
  <2>2. CASE inbox' = inbox /\ ReceiverSet(t, "dead", <<>>)
    BY <1>1, <2>1, <2>2, DiesDrop
  <2>3. ASSUME inbox' = [inbox EXCEPT ![t[1]] = @ \o receiver[t].item],
               ReceiverSet(t, "on", <<>>)
        PROVE  Passes
    <3>1. /\ Tail(receiver[t].item) = <<>>
          /\ \A b \in Seq(Message) : b \o receiver[t].item = Append(b, Head(receiver[t].item))
      BY <1>2, <2>1, Single
    <3>2. /\ p \in Places /\ q \in Places /\ p # q /\ Content[p] = receiver[t].item
          /\ Content[q] = inbox[t[1]] /\ Content'[p] = <<>> /\ Content'[q] = inbox'[t[1]]
          /\ inbox[t[1]] \in Seq(Message)
      BY <1>1, <1>2, <2>3, PlacesAre, ContentIs, ContentIsNext DEF ReceiverSet
    <3>3. Content[p] # <<>> /\ Content'[p] = Tail(Content[p])
      BY <2>1, <3>1, <3>2
    <3>4. Content'[q] = Append(Content[q], Head(Content[p]))
      BY <1>2, <2>3, <3>1, <3>2
    <3>5. \A e \in Ends : q = <<"inbox", e>> \/ inbox'[e] = inbox[e]
      BY <1>2, <2>3
    <3>6. Stays({p, q})
      BY <1>1, <2>1, <2>3, <3>5, ReceiverStays
    <3>7. MoveFits(p, q)
      BY <1>2, ReceivingFits
    <3> HIDE DEF p, q
    <3> QED
      BY <1>1, <3>2, <3>3, <3>4, <3>6, <3>7, PassOn
  <2> QED
    BY <1>5, <2>2, <2>3, ReceiverSets
<1>6. CASE ReceiverDies(t)
  <2>1. UNCHANGED <<inbox, wire>>
    BY <1>6 DEF ReceiverDies
  <2>2. ReceiverSet(t, "dead", <<>>)
    BY <1>6, ReceiverSets
  <2> QED
    BY <1>1, <2>1, <2>2, DiesDrop
<1> QED
  BY <1>3, <1>4, <1>5, <1>6 DEF ReceiverStep

LEMMA SlotTakesMoves ==
  ASSUME Typed, NEW w \in Workers, SlotTakes(w)
  PROVE  Passes
<1> DEFINE p == <<"inbox", w>>
           q == <<"serving", w>>
<1>1. /\ UNCHANGED <<layer, produced, outbox, sender, receiver, wire, replied, got>>
      /\ inbox[w] # <<>> /\ inbox' = [inbox EXCEPT ![w] = Tail(@)]
      /\ serving' = [serving EXCEPT ![w] = Append(@, Head(inbox[w]))]
  BY DEF SlotTakes
<1>2. /\ inbox \in [Ends -> Seq(Message)] /\ serving \in [Workers -> Seq(Message)] /\ w \in Ends
  BY WorkersAreEnds DEF Typed
<1>3. /\ p \in Places /\ q \in Places /\ p # q /\ Content[p] = inbox[w] /\ Content[q] = serving[w]
      /\ Content'[p] = Tail(inbox[w]) /\ Content'[q] = Append(serving[w], Head(inbox[w]))
  BY <1>1, <1>2, PlacesAre, ContentIs, ContentIsNext
<1>4. Stays({p, q})
  BY <1>1, <1>2 DEF Stays
<1>5. MoveFits(p, q)
  BY UsingFits
<1> HIDE DEF p, q
<1> QED
  BY <1>1, <1>3, <1>4, <1>5, PassOn

LEMMA MainGetsMoves ==
  ASSUME Typed, MainGets
  PROVE  Passes
<1> DEFINE p == <<"inbox", Main>>
           q == <<"got", Main>>
<1>1. /\ UNCHANGED <<layer, produced, outbox, sender, receiver, wire, serving, replied>>
      /\ inbox[Main] # <<>> /\ inbox' = [inbox EXCEPT ![Main] = Tail(@)]
      /\ got' = Append(got, Head(inbox[Main]))
  BY DEF MainGets
<1>2. inbox \in [Ends -> Seq(Message)] /\ Main \in Ends
  BY WorkersAreEnds DEF Typed
<1>3. /\ p \in Places /\ q \in Places /\ p # q /\ Content[p] = inbox[Main] /\ Content[q] = got
      /\ Content'[p] = Tail(inbox[Main]) /\ Content'[q] = Append(got, Head(inbox[Main]))
  BY <1>1, <1>2, PlacesAre, ContentIs, ContentIsNext
<1>4. Stays({p, q})
  BY <1>1, <1>2 DEF Stays
<1>5. MoveFits(p, q)
  BY UsingFits
<1> HIDE DEF p, q
<1> QED
  BY <1>1, <1>3, <1>4, <1>5, PassOn

LEMMA MainPutsMoves ==
  ASSUME Typed, MainPuts
  PROVE  SetsOff
<1> DEFINE q == <<"outbox", Main>>
<1>1. /\ UNCHANGED <<layer, inbox, sender, receiver, wire, serving, replied, got>>
      /\ produced < Messages /\ produced' = produced + 1
      /\ outbox' = [outbox EXCEPT ![Main] = Append(@, New)]
  BY DEF MainPuts, New
<1>2. outbox \in [Ends -> Seq(Message)] /\ Main \in Ends /\ produced \in 0 .. Messages
  BY WorkersAreEnds DEF Typed
<1>3. produced + 1 \in 1 .. Messages
  BY <1>1, <1>2, Bounds
<1>4. /\ q \in Places /\ Content[q] = outbox[Main]
      /\ Content'[q] = Append(outbox[Main], New)
  BY <1>1, <1>2, PlacesAre, ContentIs, ContentIsNext
<1>5. Stays({q})
  BY <1>1, <1>2 DEF Stays
<1>6. \A r \in Places \ {q} : Content'[r] = Content[r]
  BY <1>1, <1>5, Elsewhere
<1>7. Added(Places, Content, Content', q, New)
  BY <1>4, <1>6 DEF Added
<1>8. Main \in From(q)
  BY FromIs DEF Sends
<1>9. ASSUME ~Piped, NEW w \in Workers
      PROVE  \A a \in 1 .. 6 : TheRoute(w)[a] # q
  <2>1. q \notin {<<"got", Main>>, <<"inbox", Main>>, <<"fetched", <<Main, Main>>>>,
                  <<"wire", <<Main, 1>>>>, <<"item", <<w, w>>>>, <<"outbox", w>>}
    BY WorkersAreEnds
  <2> HIDE DEF q
  <2> QED
    BY <1>9, <2>1, OnTheWay
<1> HIDE DEF q
<1> QED
  BY <1>1, <1>3, <1>7, <1>8, <1>9 DEF SetsOff

LEMMA SlotRepliesMoves ==
  ASSUME Typed, Settled, NEW w \in Workers, SlotReplies(w)
  PROVE  Answers(w)
<1> DEFINE p == <<"serving", w>>
           q == <<"outbox", w>>
<1>1. /\ UNCHANGED <<layer, produced, inbox, sender, receiver, wire, got>>
      /\ serving[w] # <<>> /\ serving' = [serving EXCEPT ![w] = Tail(@)]
      /\ outbox' = [outbox EXCEPT ![w] = Append(@, ReplyOf(w))]
      /\ replied' = [replied EXCEPT ![w] = Append(@, ReplyOf(w))]
  BY DEF SlotReplies, ReplyOf
<1>2. /\ outbox \in [Ends -> Seq(Message)] /\ serving \in [Workers -> Seq(Message)] /\ w \in Ends
  BY WorkersAreEnds DEF Typed
<1>3. closing[w] = "open"
  BY <1>1 DEF Settled
<1>4. /\ Content[p] = serving[w] /\ Content[q] = outbox[w]
      /\ Content'[p] = Tail(serving[w]) /\ Content'[q] = Append(outbox[w], ReplyOf(w))
  BY <1>1, <1>2, ContentIs, ContentIsNext
<1>5. Stays({p, q})
  BY <1>1, <1>2 DEF Stays
<1>6. \A r \in Places \ {p, q} : Content'[r] = Content[r]
  BY <1>1, <1>5, Elsewhere
<1> QED
  BY <1>1, <1>3, <1>4, <1>6 DEF Answers

LEMMA StoppedMoves ==
  ASSUME Typed, NEW e \in Ends, Stopped(e),
         UNCHANGED <<layer, produced, sender, receiver, serving, replied, got>>
  PROVE  Drops
<1> DEFINE A == {<<"outbox", e>>, <<"inbox", e>>}
           B == A \cup {<<"wire", x>> : x \in Wires}
<1>1. /\ closing' = [closing EXCEPT ![e] = "stopped"]
      /\ outbox' = [outbox EXCEPT ![e] = <<>>] /\ inbox' = [inbox EXCEPT ![e] = <<>>]
      /\ wire' = wire \/ (e = Main /\ wire' = [w \in Wires |-> <<>>])
  BY DEF Stopped
<1>2. /\ outbox \in [Ends -> Seq(Message)] /\ inbox \in [Ends -> Seq(Message)]
      /\ closing \in [Ends -> {"open", "stopping", "stopped"}]
  BY DEF Typed
<1>3. closing'[e] = "stopped" /\ ~Undisturbed'
  BY <1>1, <1>2 DEF Undisturbed
<1>4. wire' = wire => Stays(A)
  BY <1>1, <1>2 DEF Stays
<1>5. Stays(B)
  BY <1>1, <1>2 DEF Stays
<1>6. \A r \in Places \ B : Content'[r] = Content[r]
  BY <1>5, Elsewhere
<1>7. \A r \in B : Content'[r] = Content[r] \/ Content'[r] = <<>>
  <2>1. Content'[<<"outbox", e>>] = <<>> /\ Content'[<<"inbox", e>>] = <<>>
    BY <1>1, <1>2, ContentIsNext
  <2>2. \A x \in Wires : /\ Content[<<"wire", x>>] = wire[x] /\ Content'[<<"wire", x>>] = wire'[x]
                         /\ wire'[x] = wire[x] \/ wire'[x] = <<>>
    BY <1>1, ContentIs, ContentIsNext
  <2> QED
    BY <2>1, <2>2
<1>8. Lessened(Places, Content, Content')
  <2> HIDE DEF B
  <2> QED
    BY <1>6, <1>7 DEF Lessened
<1>9. ASSUME ~Piped, closing'[Main] = "open", NEW w \in Workers
      PROVE  /\ \A a \in 1 .. 5 : Content'[TheRoute(w)[a]] = Content[TheRoute(w)[a]]
             /\ Content'[TheRoute(w)[6]] \in {Content[TheRoute(w)[6]], <<>>}
             /\ closing'[w] = "open" => Content'[TheRoute(w)[6]] = Content[TheRoute(w)[6]]
  <2>1. e # Main
    BY <1>3, <1>9
  <2>2. \A r \in Places \ A : Content'[r] = Content[r]
    BY <1>1, <1>4, <2>1, Elsewhere
  <2>3. /\ TheRoute(w) \in Route(Places) /\ TheRoute(w)[6] = <<"outbox", w>>
    BY <1>9, RouteIs
  <2>4. \A a \in 1 .. 6 : TheRoute(w)[a] # <<"inbox", e>>
    <3>1. <<"inbox", e>> \notin {<<"got", Main>>, <<"inbox", Main>>,
              <<"fetched", <<Main, Main>>>>, <<"wire", <<Main, 1>>>>, <<"item", <<w, w>>>>,
              <<"outbox", w>>}
      BY <2>1
    <3> QED
      BY <1>9, <3>1, OnTheWay
  <2>5. \A a \in 1 .. 6 : a # 6 \/ e # w => TheRoute(w)[a] # <<"outbox", e>>
    <3>1. CASE e # w
      <4>1. <<"outbox", e>> \notin {<<"got", Main>>, <<"inbox", Main>>,
              <<"fetched", <<Main, Main>>>>, <<"wire", <<Main, 1>>>>, <<"item", <<w, w>>>>,
              <<"outbox", w>>}
        BY <3>1
      <4> QED
        BY <1>9, <4>1, OnTheWay
    <3>2. CASE e = w
      BY <2>3, <3>2 DEF Route
    <3> QED
      BY <3>1, <3>2
  <2>6. \A a \in 1 .. 6 : TheRoute(w)[a] \in Places
    BY <2>3 DEF Route
  <2>7. \A a \in 1 .. 6 : a # 6 \/ e # w => Content'[TheRoute(w)[a]] = Content[TheRoute(w)[a]]
    BY <2>2, <2>4, <2>5, <2>6
  <2>8. \A a \in 1 .. 5 : a \in 1 .. 6 /\ a # 6
    OBVIOUS
  <2>9. e = w => Content'[TheRoute(w)[6]] = <<>> /\ closing'[w] # "open"
    <3>1. Content'[<<"outbox", e>>] = <<>>
      BY <1>1, <1>2, ContentIsNext
    <3> QED
      BY <1>3, <2>3, <3>1
  <2>10. 6 \in 1 .. 6
    OBVIOUS
  <2> HIDE DEF TheRoute
  <2> QED
    BY <2>7, <2>8, <2>9, <2>10
<1> QED
  BY <1>3, <1>8, <1>9 DEF Drops

LEMMA EndMoves ==
  ASSUME Typed, Settled, EndStep
  PROVE  Rests \/ Passes \/ SetsOff \/ Drops \/ \E w \in Workers : Answers(w)
<1>1. ASSUME NEW w \in Workers, WorkerEnd(w) \/ SlotGivesUp(w)
      PROVE  Rests \/ Passes \/ Answers(w)
  <2>1. CASE SlotAsks(w) \/ SlotResumes(w) \/ SlotGivesUp(w)
    <3>1. UNCHANGED <<layer, produced, outbox, inbox, sender, receiver, wire, serving, replied, got>>
      BY <2>1 DEF SlotAsks, SlotResumes, SlotGivesUp
    <3>2. Stays({})
      BY <3>1 DEF Stays
    <3> QED
      BY <3>1, <3>2, NothingMoves
  <2> QED
    BY <1>1, <2>1, SlotTakesMoves, SlotRepliesMoves DEF WorkerEnd
<1>2. CASE EventsAreSet \/ \E e \in Ends : StopBegins(e)
  <2>1. UNCHANGED <<layer, produced, outbox, inbox, sender, receiver, wire, serving, replied, got>>
    BY <1>2 DEF EventsAreSet, StopBegins
  <2>2. Stays({})
    BY <2>1 DEF Stays
  <2> QED
    BY <2>1, <2>2, NothingMoves
<1>3. CASE StopTimesOut \/ \E e \in Ends : StopEnds(e)
  <2>1. /\ UNCHANGED <<layer, produced, sender, receiver, serving, replied, got>>
        /\ \E e \in Ends : Stopped(e)
    BY <1>3, WorkersAreEnds DEF StopTimesOut, StopEnds
  <2> QED
    BY <2>1, StoppedMoves
<1> QED
  BY <1>1, <1>2, <1>3, MainPutsMoves, MainGetsMoves DEF EndStep

LEMMA NextMoves ==
  ASSUME Typed, ThreadsFit, Settled, MessagingNext
  PROVE  Rests \/ Passes \/ SetsOff \/ Drops \/ \E w \in Workers : Answers(w)
BY StepsAre, SenderMoves, ReceiverMoves, EndMoves

-----------------------------------------------------------------------------
(***************************************************************************)
(* Every message is once somewhere, or used up.                            *)
(***************************************************************************)

\* Every message in D was at the same place in C, or is one of S and at q.
Sources(P, C, D, q, S) ==
  \A r \in P : \A i \in DOMAIN D[r] :
    (\E j \in DOMAIN C[r] : D[r][i] = C[r][j]) \/ (r = q /\ D[r][i] \in S)

LEMMA MovedFrom ==
  ASSUME NEW P, NEW M, NEW C \in [P -> Seq(M)], NEW D \in [P -> Seq(M)],
         NEW p, NEW q, Moved(P, C, D, p, q)
  PROVE  Sources(P, C, D, q, {Head(C[p])})
<1> SUFFICES ASSUME NEW r \in P, NEW i \in DOMAIN D[r]
             PROVE  \/ \E j \in DOMAIN C[r] : D[r][i] = C[r][j]
                    \/ r = q /\ D[r][i] = Head(C[p])
  BY DEF Sources
<1>1. p \in P /\ q \in P /\ C[p] # <<>> /\ D[p] = Tail(C[p]) /\ D[q] = Append(C[q], Head(C[p]))
  BY DEF Moved
<1>2. CASE r = p
  BY <1>1, <1>2, TailOf
<1>3. CASE r = q
  <2>1. Head(C[p]) \in M
    BY <1>1, TailOf
  <2>2. /\ Len(C[q]) \in Nat /\ DOMAIN C[q] = 1 .. Len(C[q])
        /\ DOMAIN D[q] = 1 .. Len(C[q]) + 1
        /\ \A k \in 1 .. Len(C[q]) : D[q][k] = C[q][k]
        /\ D[q][Len(C[q]) + 1] = Head(C[p])
    BY <1>1, <2>1, AppendTo
  <2> QED
    BY <1>3, <2>1, <2>2
<1>4. CASE r # p /\ r # q
  BY <1>4 DEF Moved
<1> QED
  BY <1>2, <1>3, <1>4

LEMMA AddedFrom ==
  ASSUME NEW P, NEW M, NEW C \in [P -> Seq(M)], NEW D \in [P -> Seq(M)],
         NEW q, NEW x \in M, Added(P, C, D, q, x)
  PROVE  Sources(P, C, D, q, {x})
<1> SUFFICES ASSUME NEW r \in P, NEW i \in DOMAIN D[r]
             PROVE  (\E j \in DOMAIN C[r] : D[r][i] = C[r][j]) \/ (r = q /\ D[r][i] = x)
  BY DEF Sources
<1>1. CASE r = q
  <2>1. /\ Len(C[q]) \in Nat /\ DOMAIN C[q] = 1 .. Len(C[q])
        /\ DOMAIN D[q] = 1 .. Len(C[q]) + 1
        /\ \A k \in 1 .. Len(C[q]) : D[q][k] = C[q][k]
        /\ D[q][Len(C[q]) + 1] = x
    BY <1>1, AppendTo DEF Added
  <2> QED
    BY <1>1, <2>1
<1>2. CASE r # q
  BY <1>2 DEF Added
<1> QED
  BY <1>1, <1>2

LEMMA LessenedFrom ==
  ASSUME NEW P, NEW M, NEW C \in [P -> Seq(M)], NEW D \in [P -> Seq(M)], Lessened(P, C, D)
  PROVE  \A q : Sources(P, C, D, q, {})
<1> SUFFICES ASSUME NEW r \in P, NEW i \in DOMAIN D[r]
             PROVE  \E j \in DOMAIN C[r] : D[r][i] = C[r][j]
  BY DEF Sources
<1>1. CASE D[r] = C[r]
  BY <1>1
<1>2. CASE D[r] = <<>>
  BY <1>2
<1>3. CASE C[r] # <<>> /\ D[r] = Tail(C[r])
  BY <1>3, TailOf
<1> QED
  BY <1>1, <1>2, <1>3 DEF Lessened

KindsFit == \A p \in Places : \A i \in DOMAIN Content[p] : Content[p][i].by \in From(p)
\* A message that is somewhere has not been answered, or is an answer that was put.
Known(m) ==
  /\ m.by = Main => /\ m.id <= produced
                    /\ \A w \in Workers : \A n \in DOMAIN replied[w] : replied[w][n].id # m.id
  /\ m.by # Main => m.by \in Workers /\ In(replied[m.by], m)
AllKnown == \A m \in Message : Has(Places, Content, m) => Known(m)
RepliesFit ==
  \A w \in Workers : \A n \in DOMAIN replied[w] :
    replied[w][n].by = w /\ replied[w][n].id \in 1 .. produced
Answered(i) == \E w \in Workers : \E n \in DOMAIN replied[w] : replied[w][n].id = i
Complete ==
  Undisturbed =>
    /\ \A w \in Workers : \A n \in DOMAIN replied[w] : Has(Places, Content, replied[w][n])
    /\ \A i \in 1 .. produced : Has(Places, Content, [id |-> i, by |-> Main]) \/ Answered(i)
Delivery == Once(Places, Content) /\ KindsFit /\ AllKnown /\ RepliesFit /\ Complete

LEMMA SameFrom ==
  ASSUME layer' = layer
  PROVE  \A p : From(p)' = From(p)
<1>1. /\ \A e : Sends(e)' = Sends(e) /\ Hears(e)' = Hears(e)
      /\ \A x : Carries(x)' = Carries(x)
  BY SameLayer DEF Sends, Hears, Carries
<1> QED
  BY <1>1 DEF From

LEMMA Expanded ==
  ASSUME layer' = layer
  PROVE  /\ KindsFit' <=> \A p \in Places : \A i \in DOMAIN Content'[p] : Content'[p][i].by \in From(p)
         /\ Once(Places, Content)' <=> Once(Places, Content')
         /\ AllKnown' <=> \A m \in Message : Has(Places, Content', m) => Known(m)'
         /\ Complete' <=>
              (Undisturbed' =>
                 /\ \A w \in Workers : \A n \in DOMAIN replied'[w] :
                      Has(Places, Content', replied'[w][n])
                 /\ \A i \in 1 .. produced' :
                      Has(Places, Content', [id |-> i, by |-> Main]) \/ Answered(i)')
<1>1. Places' = Places /\ \A p : From(p)' = From(p)
  BY SameLayer, SameFrom
<1>2. KindsFit' <=> \A p \in Places : \A i \in DOMAIN Content'[p] : Content'[p][i].by \in From(p)
  BY <1>1 DEF KindsFit
<1>3. /\ Once(Places, Content)' <=> Once(Places, Content')
      /\ \A m : Has(Places, Content, m)' <=> Has(Places, Content', m)
  BY <1>1 DEF Once, Has, In
<1>4. AllKnown' <=> \A m \in Message : Has(Places, Content', m) => Known(m)'
  BY <1>1, <1>3 DEF AllKnown
<1>5. Complete' <=>
        (Undisturbed' =>
           /\ \A w \in Workers : \A n \in DOMAIN replied'[w] : Has(Places, Content', replied'[w][n])
           /\ \A i \in 1 .. produced' :
                Has(Places, Content', [id |-> i, by |-> Main]) \/ Answered(i)')
  BY <1>1, <1>3 DEF Complete
<1> QED
  BY <1>2, <1>3, <1>4, <1>5

\* No message becomes known otherwise while the workers reply nothing and the coordinator
\* sends nothing.
LEMMA KnownStays ==
  ASSUME UNCHANGED <<replied, produced>>
  PROVE  /\ \A m : Known(m)' <=> Known(m)
         /\ \A i : Answered(i)' <=> Answered(i)
         /\ RepliesFit' <=> RepliesFit
BY DEF Known, Answered, RepliesFit, In

LEMMA RestsDelivers ==
  ASSUME Delivery, Forward, Rests
  PROVE  Delivery'
<1>1. layer' = layer /\ Content' = Content /\ UNCHANGED <<replied, produced>>
  BY DEF Forward, Rests
<1>2. Undisturbed' => Undisturbed
  BY StaysDisturbed
<1>3. Once(Places, Content)' /\ KindsFit' /\ AllKnown' /\ RepliesFit'
  BY <1>1, Expanded, KnownStays DEF Delivery, KindsFit, AllKnown
<1>4. Complete'
  BY <1>1, <1>2, Expanded, KnownStays DEF Delivery, Complete
<1> QED
  BY <1>3, <1>4 DEF Delivery

LEMMA PassesDelivers ==
  ASSUME Typed, Typed', Delivery, Forward, Passes
  PROVE  Delivery'
<1>1. layer' = layer /\ UNCHANGED <<replied, produced>>
  BY DEF Forward, Passes
<1>2. PICK p, q : Moved(Places, Content, Content', p, q) /\ MoveFits(p, q)
  BY DEF Passes
<1>3. Content \in [Places -> Seq(Message)] /\ Content' \in [Places -> Seq(Message)]
  BY <1>1, ContentTyped, ContentTypedNext
<1>4. Undisturbed' => Undisturbed
  BY StaysDisturbed
<1>5. /\ Once(Places, Content')
      /\ \A m : Has(Places, Content', m) <=> Has(Places, Content, m)
  BY <1>2, <1>3, MovedOn DEF Delivery
<1>6. KindsFit'
  <2>1. Sources(Places, Content, Content', q, {Head(Content[p])})
    BY <1>2, <1>3, MovedFrom
  <2>2. p \in Places /\ q \in Places /\ From(p) \subseteq From(q) /\ Content[p] # <<>>
    BY <1>2 DEF Moved, MoveFits
  <2>3. 1 \in DOMAIN Content[p] /\ Head(Content[p]) = Content[p][1]
    BY <1>3, <2>2, TailOf
  <2>4. Head(Content[p]).by \in From(q)
    BY <2>2, <2>3 DEF Delivery, KindsFit
  <2>5. \A r \in Places : \A i \in DOMAIN Content'[r] : Content'[r][i].by \in From(r)
    BY <2>1, <2>4 DEF Delivery, KindsFit, Sources
  <2> QED
    BY <1>1, <2>5, Expanded
<1>7. AllKnown' /\ RepliesFit'
  BY <1>1, <1>5, Expanded, KnownStays DEF Delivery, AllKnown
<1>8. Complete'
  BY <1>1, <1>4, <1>5, Expanded, KnownStays DEF Delivery, Complete
<1> QED
  BY <1>1, <1>5, <1>6, <1>7, <1>8, Expanded DEF Delivery

LEMMA DropsDelivers ==
  ASSUME Typed, Typed', Delivery, Forward, Drops
  PROVE  Delivery'
<1>1. /\ layer' = layer /\ UNCHANGED <<replied, produced>> /\ ~Undisturbed'
      /\ Lessened(Places, Content, Content')
  BY DEF Forward, Drops
<1>2. Content \in [Places -> Seq(Message)] /\ Content' \in [Places -> Seq(Message)]
  BY <1>1, ContentTyped, ContentTypedNext
<1>3. /\ Once(Places, Content')
      /\ \A m : Has(Places, Content', m) => Has(Places, Content, m)
  BY <1>1, <1>2, LessHeld DEF Delivery
<1>4. KindsFit'
  <2>1. Sources(Places, Content, Content', Main, {})
    BY <1>1, <1>2, LessenedFrom
  <2>2. \A r \in Places : \A i \in DOMAIN Content'[r] : Content'[r][i].by \in From(r)
    BY <2>1 DEF Delivery, KindsFit, Sources
  <2> QED
    BY <1>1, <2>2, Expanded
<1>5. AllKnown' /\ RepliesFit'
  BY <1>1, <1>3, Expanded, KnownStays DEF Delivery, AllKnown
<1> QED
  BY <1>1, <1>3, <1>4, <1>5, Expanded DEF Delivery

LEMMA SetsOffDelivers ==
  ASSUME Typed, Typed', Delivery, Forward, SetsOff
  PROVE  Delivery'
<1>1. /\ layer' = layer /\ replied' = replied /\ produced' = produced + 1
      /\ produced \in Nat /\ produced + 1 \in 1 .. Messages
  BY DEF Forward, SetsOff, Typed
<1>2. PICK q : Added(Places, Content, Content', q, New) /\ Main \in From(q)
  BY DEF SetsOff
<1>3. Content \in [Places -> Seq(Message)] /\ Content' \in [Places -> Seq(Message)]
  BY <1>1, ContentTyped, ContentTypedNext
<1>4. New \in Message /\ New.id = produced + 1 /\ New.by = Main
  BY <1>1, WorkersAreEnds DEF New, Message
<1>5. Undisturbed' => Undisturbed
  BY StaysDisturbed
<1> HIDE DEF New
<1>6. ~Has(Places, Content, New)
  <2> SUFFICES ASSUME Has(Places, Content, New) PROVE FALSE
    OBVIOUS
  <2>1. Known(New)
    BY <1>4 DEF Delivery, AllKnown
  <2> QED
    BY <1>1, <1>4, <2>1 DEF Known
<1>7. /\ Once(Places, Content')
      /\ \A m : Has(Places, Content', m) <=> Has(Places, Content, m) \/ m = New
  BY <1>2, <1>3, <1>4, <1>6, PutIn DEF Delivery
<1>8. KindsFit'
  <2>1. Sources(Places, Content, Content', q, {New})
    BY <1>2, <1>3, <1>4, AddedFrom
  <2>2. \A r \in Places : \A i \in DOMAIN Content'[r] : Content'[r][i].by \in From(r)
    BY <1>2, <1>4, <2>1 DEF Delivery, KindsFit, Sources
  <2> QED
    BY <1>1, <2>2, Expanded
<1>9. \A w \in Workers : \A n \in DOMAIN replied[w] :
        /\ replied[w][n].by = w /\ replied[w][n].id \in 1 .. produced
        /\ replied[w][n].id \in 1 .. produced'
  BY <1>1 DEF Delivery, RepliesFit
<1>10. RepliesFit'
  BY <1>1, <1>9 DEF RepliesFit
<1>11. AllKnown'
  <2> SUFFICES ASSUME NEW m \in Message, Has(Places, Content', m) PROVE Known(m)'
    BY <1>1, Expanded
  <2>1. CASE Has(Places, Content, m)
    <3>1. Known(m) /\ m.id \in Int
      BY <2>1 DEF Delivery, AllKnown, Message
    <3>2. m.by = Main => m.id <= produced'
      BY <1>1, <3>1 DEF Known
    <3> QED
      BY <1>1, <3>1, <3>2 DEF Known
  <2>2. CASE m = New
    <3>1. m.by = Main /\ m.id <= produced'
      BY <1>1, <1>4, <2>2
    <3>2. \A w \in Workers : \A n \in DOMAIN replied[w] : replied[w][n].id # m.id
      BY <1>1, <1>4, <1>9, <2>2
    <3> QED
      BY <1>1, <3>1, <3>2 DEF Known
  <2> QED
    BY <1>7, <2>1, <2>2
<1>12. Complete'
  <2> SUFFICES ASSUME Undisturbed'
               PROVE  /\ \A w \in Workers : \A n \in DOMAIN replied'[w] :
                           Has(Places, Content', replied'[w][n])
                      /\ \A i \in 1 .. produced' :
                           Has(Places, Content', [id |-> i, by |-> Main]) \/ Answered(i)'
    BY <1>1, Expanded
  <2>1. /\ \A w \in Workers : \A n \in DOMAIN replied[w] : Has(Places, Content, replied[w][n])
        /\ \A i \in 1 .. produced : Has(Places, Content, [id |-> i, by |-> Main]) \/ Answered(i)
    BY <1>5 DEF Delivery, Complete
  <2>2. \A i : Answered(i) => Answered(i)'
    BY <1>1 DEF Answered
  <2>3. ASSUME NEW i \in 1 .. produced'
        PROVE  Has(Places, Content', [id |-> i, by |-> Main]) \/ Answered(i)'
    <3>1. i \in 1 .. produced \/ i = produced + 1
      BY <1>1
    <3>2. CASE i = produced + 1
      BY <1>7, <3>2 DEF New
    <3>3. CASE i \in 1 .. produced
      BY <1>7, <2>1, <2>2, <3>3
    <3> QED
      BY <3>1, <3>2, <3>3
  <2>4. \A w \in Workers : \A n \in DOMAIN replied'[w] : Has(Places, Content', replied'[w][n])
    BY <1>1, <1>7, <2>1
  <2> QED
    BY <2>3, <2>4
<1> QED
  BY <1>1, <1>7, <1>8, <1>10, <1>11, <1>12, Expanded DEF Delivery

\* A reply is added at the end of what its worker has replied.
LEMMA RepliedGrows ==
  ASSUME Typed, NEW w \in Workers, Answers(w), ReplyOf(w) \in Message
  PROVE  /\ \A v \in Workers : \A n \in DOMAIN replied'[v] :
              \/ n \in DOMAIN replied[v] /\ replied'[v][n] = replied[v][n]
              \/ v = w /\ replied'[v][n] = ReplyOf(w)
         /\ \A v \in Workers : \A n \in DOMAIN replied[v] :
              n \in DOMAIN replied'[v] /\ replied'[v][n] = replied[v][n]
         /\ \E n \in DOMAIN replied'[w] : replied'[w][n] = ReplyOf(w)
         /\ replied'[w] = Append(replied[w], ReplyOf(w))
         /\ \A v \in Workers \ {w} : replied'[v] = replied[v]
<1>1. /\ replied \in [Workers -> Seq(Message)]
      /\ replied' = [replied EXCEPT ![w] = Append(@, ReplyOf(w))]
  BY DEF Typed, Answers
<1> DEFINE s == replied[w]
           x == ReplyOf(w)
<1>2. /\ replied'[w] = Append(s, x)
      /\ \A v \in Workers \ {w} : replied'[v] = replied[v]
  BY <1>1
<1>3. /\ Len(s) \in Nat /\ DOMAIN s = 1 .. Len(s)
      /\ DOMAIN Append(s, x) = 1 .. Len(s) + 1
      /\ \A i \in 1 .. Len(s) : Append(s, x)[i] = s[i]
      /\ Append(s, x)[Len(s) + 1] = x
  <2>1. s \in Seq(Message)
    BY <1>1
  <2> HIDE DEF s, x
  <2>2. x \in Message
    BY DEF x
  <2> QED
    BY <2>1, <2>2, AppendTo
<1> HIDE DEF x
<1>4. \A n \in DOMAIN replied'[w] : (n \in DOMAIN s /\ replied'[w][n] = s[n]) \/ replied'[w][n] = x
  BY <1>2, <1>3
<1>5. /\ \A n \in DOMAIN s : n \in DOMAIN replied'[w] /\ replied'[w][n] = s[n]
      /\ \E n \in DOMAIN replied'[w] : replied'[w][n] = x
  BY <1>2, <1>3
<1> QED
  BY <1>2, <1>4, <1>5 DEF x

LEMMA AnswersTakesOut ==
  ASSUME Typed, Typed', Delivery, Forward, NEW w \in Workers, Answers(w)
  PROVE  LET h == Head(serving[w])
             x == ReplyOf(w)
         IN  /\ ~Piped /\ h \in Message /\ h.by = Main /\ h.id \in 1 .. produced
             /\ x \in Message /\ x.by = w /\ x.id = h.id /\ Has(Places, Content, h)
             /\ \A v \in Workers : \A n \in DOMAIN replied[v] : replied[v][n].id # h.id
             /\ \E B \in [Places -> Seq(Message)] :
                  /\ Once(Places, B) /\ ~Has(Places, B, h) /\ ~Has(Places, B, x)
                  /\ \A m : Has(Places, Content, m) <=> Has(Places, B, m) \/ m = h
                  /\ Added(Places, B, Content', <<"outbox", w>>, x)
                  /\ Sources(Places, Content, B, Main, {})
<1> DEFINE p == <<"serving", w>>
           q == <<"outbox", w>>
           h == Head(serving[w])
           x == ReplyOf(w)
           B == [Content EXCEPT ![p] = Tail(@)]
<1>1. /\ Content \in [Places -> Seq(Message)] /\ p \in Places /\ q \in Places /\ p # q
      /\ Content[p] = serving[w] /\ serving[w] # <<>> /\ w # Main /\ w \in Ends
  BY ContentTyped, PlacesAre, ContentIs, WorkersAreEnds DEF Answers
<1>2. /\ Content[p] \in Seq(Message) /\ h \in Message /\ h = Content[p][1]
      /\ 1 \in DOMAIN Content[p] /\ Tail(Content[p]) \in Seq(Message)
  BY <1>1, TailOf
<1>3. h.by \in From(p) /\ Has(Places, Content, h)
  BY <1>1, <1>2 DEF Delivery, KindsFit, Has, In
<1>4. ~Piped /\ h.by = Main
  BY <1>1, <1>3, FromIs DEF Hears
<1>5. Known(h)
  BY <1>2, <1>3 DEF Delivery, AllKnown
<1>6. /\ h.id \in 1 .. produced
      /\ \A v \in Workers : \A n \in DOMAIN replied[v] : replied[v][n].id # h.id
  <2>1. h.id \in 1 .. Messages /\ h.id <= produced /\ produced \in Nat /\ Messages \in Nat
    <3> HIDE DEF h
    <3>1. h.id \in 1 .. Messages
      BY <1>2 DEF Message
    <3>2. h.id <= produced
      BY <1>4, <1>5 DEF Known
    <3>3. produced \in Nat /\ Messages \in Nat
      BY Bounds DEF Typed
    <3> QED
      BY <3>1, <3>2, <3>3
  <2>2. h.id \in 1 .. produced
    BY <2>1
  <2> QED
    BY <1>4, <1>5, <2>2 DEF Known
<1>7. x \in Message /\ x.by = w /\ x.id = h.id
  BY <1>1, <1>2 DEF ReplyOf, Message
<1>8. /\ B \in [Places -> Seq(Message)] /\ B[p] = Tail(Content[p])
      /\ \A r \in Places \ {p} : B[r] = Content[r]
  BY <1>1, <1>2
<1>9. Added(Places, B, Content', q, x)
  <2>1. /\ Content'[p] = Tail(Content[p]) /\ Content'[q] = Append(Content[q], x)
        /\ \A r \in Places \ {p, q} : Content'[r] = Content[r]
    BY DEF Answers
  <2> HIDE DEF B, p, q, x
  <2>2. \A r \in Places \ {q} : Content'[r] = B[r]
    BY <1>8, <2>1
  <2>3. B[q] = Content[q]
    BY <1>1, <1>8
  <2> QED
    BY <1>1, <2>1, <2>2, <2>3 DEF Added
<1> HIDE DEF B, h, x, p, q
<1>10. /\ Once(Places, B) /\ ~Has(Places, B, h)
       /\ \A m : Has(Places, Content, m) <=> Has(Places, B, m) \/ m = h
  <2>1. h = Head(Content[p])
    BY <1>1 DEF h
  <2>2. Once(Places, Content)
    BY DEF Delivery
  <2>3. /\ Once(Places, B) /\ ~Has(Places, B, Head(Content[p]))
        /\ \A m : Has(Places, Content, m) <=> Has(Places, B, m) \/ m = Head(Content[p])
    BY <1>1, <1>8, <2>2, TakenOut
  <2> QED
    BY <2>1, <2>3
<1>11. ~Has(Places, B, x)
  <2> SUFFICES ASSUME Has(Places, B, x) PROVE FALSE
    OBVIOUS
  <2>1. Has(Places, Content, x)
    BY <1>10
  <2>2. Known(x)
    BY <1>7, <2>1 DEF Delivery, AllKnown
  <2>3. In(replied[w], x)
    BY <1>1, <1>7, <2>2 DEF Known
  <2> QED
    BY <1>6, <1>7, <2>3 DEF In
<1>12. Sources(Places, Content, B, Main, {})
  <2>1. Lessened(Places, Content, B)
    BY <1>1, <1>8 DEF Lessened
  <2> QED
    BY <1>1, <1>8, <2>1, LessenedFrom
<1> QED
  BY <1>2, <1>3, <1>4, <1>6, <1>7, <1>8, <1>9, <1>10, <1>11, <1>12 DEF h, x, q

LEMMA AnswersDelivers ==
  ASSUME Typed, Typed', Delivery, Forward, NEW w \in Workers, Answers(w)
  PROVE  Delivery'
<1> DEFINE h == Head(serving[w])
           x == ReplyOf(w)
           q == <<"outbox", w>>
<1>1. /\ ~Piped /\ h \in Message /\ h.by = Main /\ h.id \in 1 .. produced
      /\ x \in Message /\ x.by = w /\ x.id = h.id /\ Has(Places, Content, h)
      /\ \A v \in Workers : \A n \in DOMAIN replied[v] : replied[v][n].id # h.id
      /\ \E B \in [Places -> Seq(Message)] :
           /\ Once(Places, B) /\ ~Has(Places, B, h) /\ ~Has(Places, B, x)
           /\ \A m : Has(Places, Content, m) <=> Has(Places, B, m) \/ m = h
           /\ Added(Places, B, Content', q, x)
           /\ Sources(Places, Content, B, Main, {})
  BY AnswersTakesOut
<1>2. PICK B \in [Places -> Seq(Message)] :
        /\ Once(Places, B) /\ ~Has(Places, B, h) /\ ~Has(Places, B, x)
        /\ \A m : Has(Places, Content, m) <=> Has(Places, B, m) \/ m = h
        /\ Added(Places, B, Content', q, x)
        /\ Sources(Places, Content, B, Main, {})
  BY <1>1
<1>3. /\ layer' = layer /\ produced' = produced /\ produced \in Nat
      /\ (Undisturbed' => Undisturbed) /\ w # Main
  BY StaysDisturbed, WorkersAreEnds DEF Forward, Answers, Typed
<1>4. Content' \in [Places -> Seq(Message)]
  BY <1>3, ContentTypedNext
<1>5. /\ \A v \in Workers : \A n \in DOMAIN replied'[v] :
           \/ n \in DOMAIN replied[v] /\ replied'[v][n] = replied[v][n]
           \/ v = w /\ replied'[v][n] = x
      /\ \A v \in Workers : \A n \in DOMAIN replied[v] :
           n \in DOMAIN replied'[v] /\ replied'[v][n] = replied[v][n]
      /\ \E n \in DOMAIN replied'[w] : replied'[w][n] = x
  BY <1>1, RepliedGrows
<1> HIDE DEF h, x, q
<1>6. /\ Once(Places, Content')
      /\ \A m : Has(Places, Content', m) <=> Has(Places, B, m) \/ m = x
  BY <1>1, <1>2, <1>4, PutIn
<1>7. KindsFit'
  <2>1. Sources(Places, B, Content', q, {x})
    BY <1>1, <1>2, <1>4, AddedFrom
  <2>2. \A r \in Places : \A i \in DOMAIN B[r] : B[r][i].by \in From(r)
    BY <1>2 DEF Delivery, KindsFit, Sources
  <2>3. x.by \in From(q)
    BY <1>1, <1>3, FromIs DEF Sends, q
  <2>4. \A r \in Places : \A i \in DOMAIN Content'[r] : Content'[r][i].by \in From(r)
    BY <2>1, <2>2, <2>3 DEF Sources
  <2> QED
    BY <1>3, <2>4, Expanded
<1>8. RepliesFit'
  BY <1>1, <1>3, <1>5 DEF Delivery, RepliesFit
<1>9. AllKnown'
  <2> SUFFICES ASSUME NEW m \in Message, Has(Places, Content', m) PROVE Known(m)'
    BY <1>3, Expanded
  <2>1. CASE Has(Places, B, m)
    <3>1. Known(m) /\ m # h
      BY <1>2, <2>1 DEF Delivery, AllKnown
    <3>2. CASE m.by = Main
      <4>1. m.id # h.id
        BY <1>1, <3>1, <3>2 DEF Message
      <4>2. /\ m.id <= produced
            /\ \A v \in Workers : \A n \in DOMAIN replied[v] : replied[v][n].id # m.id
        BY <3>1, <3>2 DEF Known
      <4>3. \A v \in Workers : \A n \in DOMAIN replied'[v] : replied'[v][n].id # m.id
        <5> SUFFICES ASSUME NEW v \in Workers, NEW n \in DOMAIN replied'[v]
                     PROVE  replied'[v][n].id # m.id
          OBVIOUS
        <5>1. CASE n \in DOMAIN replied[v] /\ replied'[v][n] = replied[v][n]
          BY <4>2, <5>1
        <5>2. CASE replied'[v][n] = x
          BY <1>1, <4>1, <5>2
        <5> QED
          BY <1>5, <5>1, <5>2
      <4> QED
        BY <1>3, <3>2, <4>2, <4>3 DEF Known
    <3>3. CASE m.by # Main
      <4>1. m.by \in Workers /\ In(replied[m.by], m)
        BY <3>1, <3>3 DEF Known
      <4>2. In(replied'[m.by], m)
        BY <1>5, <4>1 DEF In
      <4> QED
        BY <3>3, <4>1, <4>2 DEF Known
    <3> QED
      BY <3>2, <3>3
  <2>2. CASE m = x
    <3>1. m.by = w /\ m.by # Main /\ In(replied'[m.by], m)
      BY <1>1, <1>3, <1>5, <2>2 DEF In
    <3> QED
      BY <3>1 DEF Known
  <2> QED
    BY <1>6, <2>1, <2>2
<1>10. Complete'
  <2> SUFFICES ASSUME Undisturbed'
               PROVE  /\ \A v \in Workers : \A n \in DOMAIN replied'[v] :
                           Has(Places, Content', replied'[v][n])
                      /\ \A i \in 1 .. produced' :
                           Has(Places, Content', [id |-> i, by |-> Main]) \/ Answered(i)'
    BY <1>3, Expanded
  <2>1. /\ \A v \in Workers : \A n \in DOMAIN replied[v] : Has(Places, Content, replied[v][n])
        /\ \A i \in 1 .. produced : Has(Places, Content, [id |-> i, by |-> Main]) \/ Answered(i)
    BY <1>3 DEF Delivery, Complete
  <2>2. ASSUME NEW v \in Workers, NEW n \in DOMAIN replied'[v]
        PROVE  Has(Places, Content', replied'[v][n])
    <3>1. CASE replied'[v][n] = x
      BY <1>6, <3>1
    <3>2. CASE n \in DOMAIN replied[v] /\ replied'[v][n] = replied[v][n]
      <4>1. replied[v][n].by = v /\ v # Main
        BY <3>2, WorkersAreEnds DEF Delivery, RepliesFit
      <4>2. replied[v][n] # h
        BY <1>1, <4>1
      <4>3. Has(Places, Content, replied[v][n])
        BY <2>1, <3>2
      <4> QED
        BY <1>2, <1>6, <3>2, <4>2, <4>3
    <3> QED
      BY <1>5, <3>1, <3>2
  <2>3. ASSUME NEW i \in 1 .. produced'
        PROVE  Has(Places, Content', [id |-> i, by |-> Main]) \/ Answered(i)'
    <3>1. CASE Answered(i)
      BY <1>5, <3>1 DEF Answered
    <3>2. CASE h = [id |-> i, by |-> Main]
      BY <1>1, <1>5, <3>2 DEF Answered
    <3>3. CASE h # [id |-> i, by |-> Main] /\ Has(Places, Content, [id |-> i, by |-> Main])
      BY <1>2, <1>6, <3>3
    <3> QED
      BY <1>3, <2>1, <3>1, <3>2, <3>3
  <2> QED
    BY <2>2, <2>3
<1> QED
  BY <1>3, <1>6, <1>7, <1>8, <1>9, <1>10, Expanded DEF Delivery

LEMMA NextDelivers ==
  ASSUME Typed, Typed', ThreadsFit, Settled, Delivery, Forward, MessagingNext
  PROVE  Delivery'
BY NextMoves, RestsDelivers, PassesDelivers, SetsOffDelivers, DropsDelivers, AnswersDelivers

LEMMA InitDelivers ==
  ASSUME MessagingInit
  PROVE  Delivery
<1>1. /\ \A e \in Ends : outbox[e] = <<>> /\ inbox[e] = <<>>
      /\ \A t \in Threads : /\ sender[t].item = <<>> /\ sender[t].slot = <<>>
                            /\ sender[t].moving = <<>> /\ receiver[t].item = <<>>
      /\ \A x \in Wires : wire[x] = <<>>
      /\ \A w \in Workers : serving[w] = <<>> /\ replied[w] = <<>>
      /\ got = <<>> /\ produced = 0
  BY DEF MessagingInit, NewSender, NewReceiver
<1>2. \A p \in Places : Content[p] \in {<<>>}
  <2> DEFINE C == Content
             S == {<<>>}
  <2>1. /\ \A e \in Ends : C[<<"outbox", e>>] \in S /\ C[<<"inbox", e>>] \in S
        /\ \A t \in Threads : /\ C[<<"item", t>>] \in S /\ C[<<"slot", t>>] \in S
                              /\ C[<<"moving", t>>] \in S /\ C[<<"fetched", t>>] \in S
        /\ \A x \in Wires : C[<<"wire", x>>] \in S
        /\ \A w \in Workers : C[<<"serving", w>>] \in S
        /\ C[<<"got", Main>>] \in S
    BY <1>1, ContentIs
  <2> HIDE DEF C, S
  <2>2. \A p \in Places : C[p] \in S
    BY <2>1, EachPlace
  <2> QED
    BY <2>2 DEF C, S
<1>3. DOMAIN <<>> = {} /\ 1 .. 0 = {}
  OBVIOUS
<1>4. \A p \in Places : DOMAIN Content[p] = {}
  BY <1>2, <1>3
<1>5. \A m : ~Has(Places, Content, m)
  BY <1>4 DEF Has, In
<1>6. Once(Places, Content) /\ KindsFit
  BY <1>4 DEF Once, KindsFit
<1>7. AllKnown
  BY <1>5 DEF AllKnown
<1>8. RepliesFit /\ Complete
  <2>1. \A w \in Workers : DOMAIN replied[w] = {}
    BY <1>1, <1>3
  <2>2. 1 .. produced = {}
    BY <1>1, <1>3
  <2> QED
    BY <2>1, <2>2 DEF RepliesFit, Complete
<1> QED
  BY <1>6, <1>7, <1>8 DEF Delivery

-----------------------------------------------------------------------------
(***************************************************************************)
(* Replies stay in order on their way through the queues.                  *)
(***************************************************************************)

InLine(C, w, r, open) ==
  /\ Ordered(C, TheRoute(w), r)
  /\ open => \A n \in DOMAIN r : OnRoute(C, TheRoute(w), r[n])
Orderly ==
  ~Piped /\ Deaths = 0 /\ closing[Main] = "open" =>
    \A w \in Workers : InLine(Content, w, replied[w], closing[w] = "open")

LEMMA SameOnRoute ==
  ASSUME NEW C, NEW D, NEW w, NEW r, NEW b, NEW c, InLine(C, w, r, b), c => b,
         \A a \in 1 .. 6 : D[TheRoute(w)[a]] = C[TheRoute(w)[a]]
  PROVE  InLine(D, w, r, c)
<1> DEFINE R == TheRoute(w)
<1>1. /\ \A a \in 1 .. 6 : D[R[a]] = C[R[a]]
      /\ Ordered(C, R, r) /\ (c => \A n \in DOMAIN r : OnRoute(C, R, r[n]))
  BY DEF InLine
<1> HIDE DEF R
<1>2. \A m : \A a \in 1 .. 6 : \A i : Ahead(C, R, m, a, i) => Ahead(D, R, m, a, i)
  <2> SUFFICES ASSUME NEW m, NEW a \in 1 .. 6, NEW i, Ahead(C, R, m, a, i)
               PROVE  Ahead(D, R, m, a, i)
    OBVIOUS
  <2>1. \A d \in 1 .. a : d \in 1 .. 6
    OBVIOUS
  <2> QED
    BY <1>1, <2>1 DEF Ahead
<1>3. Ordered(D, R, r)
  BY <1>1, <1>2 DEF Ordered
<1>4. \A m : OnRoute(C, R, m) => OnRoute(D, R, m)
  BY <1>1 DEF OnRoute
<1> QED
  BY <1>1, <1>3, <1>4 DEF InLine, R

LEMMA PassesInLine ==
  ASSUME Typed, Typed', Delivery, Forward, ~Piped, Passes, NEW w \in Workers, NEW b, NEW c,
         c => b, InLine(Content, w, replied[w], b)
  PROVE  InLine(Content', w, replied'[w], c)
<1>1. layer' = layer /\ replied' = replied
  BY DEF Forward, Passes
<1>2. PICK p, q : Moved(Places, Content, Content', p, q) /\ MoveFits(p, q)
  BY DEF Passes
<1> DEFINE R == TheRoute(w)
           r == replied[w]
<1>3. /\ Content \in [Places -> Seq(Message)] /\ Content' \in [Places -> Seq(Message)]
      /\ R \in Route(Places) /\ r \in Seq(Message) /\ Ordered(Content, R, r)
      /\ c => \A n \in DOMAIN r : OnRoute(Content, R, r[n])
  BY <1>1, ContentTyped, ContentTypedNext, RouteIs DEF Typed, InLine
<1>4. Ordered(Content', R, r) /\ \A m : OnRoute(Content, R, m) => OnRoute(Content', R, m)
  <2>1. CASE Follows(w, p, q)
    <3>1. PICK s \in 1 .. 5 : p = R[s + 1] /\ q = R[s]
      BY <2>1 DEF Follows
    <3>2. Moved(Places, Content, Content', R[s + 1], R[s])
      BY <1>2, <3>1
    <3> HIDE DEF R, r
    <3> QED
      BY <1>3, <3>2, OrderedMove
  <2>2. CASE ~Follows(w, p, q)
    <3>1. /\ \A a \in 1 .. 6 : R[a] # p
          /\ (\A a \in 1 .. 6 : R[a] # q) \/ w \notin From(p)
      BY <1>2, <2>2 DEF MoveFits
    <3>2. p \in Places /\ Content[p] # <<>>
      BY <1>2 DEF Moved
    <3>3. 1 \in DOMAIN Content[p] /\ Head(Content[p]) = Content[p][1]
      BY <1>3, <3>2, TailOf
    <3>4. Head(Content[p]).by \in From(p)
      BY <3>2, <3>3 DEF Delivery, KindsFit
    <3>5. \A n \in DOMAIN r : r[n].by = w
      BY DEF Delivery, RepliesFit
    <3>6. ~In(r, Head(Content[p])) \/ \A a \in 1 .. 6 : R[a] # q
      <4> HIDE DEF R, r
      <4> QED
        BY <3>1, <3>4, <3>5 DEF In
    <3> HIDE DEF R, r
    <3> QED
      BY <1>2, <1>3, <3>1, <3>6, OrderedForeign
  <2> QED
    BY <2>1, <2>2
<1> QED
  BY <1>1, <1>3, <1>4 DEF InLine

LEMMA AnswersInLine ==
  ASSUME Typed, Typed', Delivery, Forward, NEW w \in Workers, Answers(w),
         InLine(Content, w, replied[w], TRUE), NEW c
  PROVE  InLine(Content', w, replied'[w], c)
<1> DEFINE R == TheRoute(w)
           r == replied[w]
           x == ReplyOf(w)
           h == Head(serving[w])
<1>0. layer' = layer
  BY DEF Forward
<1>1. /\ ~Piped /\ x \in Message /\ x.by = w /\ x.id = h.id /\ h.by = Main
      /\ \A v \in Workers : \A n \in DOMAIN replied[v] : replied[v][n].id # h.id
      /\ ~Has(Places, Content, x)
  <2>1. /\ ~Piped /\ h.by = Main /\ x \in Message /\ x.by = w /\ x.id = h.id
        /\ \A v \in Workers : \A n \in DOMAIN replied[v] : replied[v][n].id # h.id
        /\ \E B : ~Has(Places, B, x) /\ \A m : Has(Places, Content, m) <=> Has(Places, B, m) \/ m = h
    BY AnswersTakesOut
  <2>2. x # h
    BY <2>1, WorkersAreEnds
  <2> QED
    BY <2>1, <2>2
<1>2. /\ Content \in [Places -> Seq(Message)] /\ Content' \in [Places -> Seq(Message)]
      /\ R \in Route(Places) /\ r \in Seq(Message) /\ Ordered(Content, R, r)
      /\ \A n \in DOMAIN r : OnRoute(Content, R, r[n])
  BY <1>0, <1>1, ContentTyped, ContentTypedNext, RouteIs DEF Typed, InLine
<1>3. ~In(r, x)
  BY <1>1 DEF In
<1>4. \A a \in 1 .. 6 : R[a] \in Places
  BY <1>2 DEF Route
<1>5. \A a \in 1 .. 6 : ~In(Content[R[a]], x)
  BY <1>1, <1>4 DEF Has
<1>6. /\ \A a \in 1 .. 6 : R[a] # <<"serving", w>>
      /\ R[6] = <<"outbox", w>>
  <2>1. <<"serving", w>> \notin {<<"got", Main>>, <<"inbox", Main>>,
            <<"fetched", <<Main, Main>>>>, <<"wire", <<Main, 1>>>>, <<"item", <<w, w>>>>,
            <<"outbox", w>>}
    OBVIOUS
  <2> QED
    BY <1>1, <2>1, OnTheWay, RouteIs
<1>7. \A a \in 1 .. 5 : a \in 1 .. 6 /\ a # 6 /\ 6 \in 1 .. 6
  OBVIOUS
<1>8. \A a \in 1 .. 5 : R[a] # R[6]
  BY <1>2, <1>7 DEF Route
<1>9. \A a \in 1 .. 5 : Content'[R[a]] = Content[R[a]]
  BY <1>4, <1>6, <1>7, <1>8 DEF Answers
<1>10. Content'[R[6]] = Append(Content[R[6]], x)
  BY <1>6 DEF Answers
<1>11. replied'[w] = Append(r, x)
  BY <1>1, RepliedGrows
<1> HIDE DEF R, r, x
<1>12. /\ Ordered(Content', R, Append(r, x))
       /\ \A n \in DOMAIN Append(r, x) : OnRoute(Content', R, Append(r, x)[n])
  BY <1>1, <1>2, <1>3, <1>5, <1>9, <1>10, OrderedPut
<1> QED
  BY <1>11, <1>12 DEF InLine, R

LEMMA NextOrderly ==
  ASSUME Typed, Typed', ThreadsFit, Settled, Delivery, Orderly, Forward, MessagingNext
  PROVE  Orderly'
<1>0. layer' = layer /\ Piped' = Piped
  BY SameLayer DEF Forward
<1> SUFFICES ASSUME ~Piped, Deaths' = 0, closing'[Main] = "open", NEW w \in Workers
             PROVE  InLine(Content', w, replied'[w], closing'[w] = "open")
  BY <1>0 DEF Orderly
<1> DEFINE b == closing[w] = "open"
           c == closing'[w] = "open"
<1>1. InLine(Content, w, replied[w], b) /\ (c => b)
  BY StaysDisturbed, WorkersAreEnds DEF Orderly, Forward
<1> HIDE DEF b, c
<1>2. CASE Rests
  <2>1. Content' = Content /\ replied' = replied
    BY <1>2 DEF Rests
  <2>2. InLine(Content', w, replied'[w], c)
    BY <1>1, <2>1 DEF InLine
  <2> QED
    BY <2>2 DEF c
<1>3. CASE Passes
  <2>1. InLine(Content', w, replied'[w], c)
    BY <1>1, <1>3, PassesInLine
  <2> QED
    BY <2>1 DEF c
<1>4. \A a \in 1 .. 6 : TheRoute(w)[a] \in Places
  BY RouteIs DEF Route
<1>5. CASE SetsOff
  <2>1. PICK q : Added(Places, Content, Content', q, New) /\ \A a \in 1 .. 6 : TheRoute(w)[a] # q
    BY <1>5 DEF SetsOff
  <2>2. \A a \in 1 .. 6 : Content'[TheRoute(w)[a]] = Content[TheRoute(w)[a]]
    BY <1>4, <2>1 DEF Added
  <2>3. replied' = replied
    BY <1>5 DEF SetsOff
  <2>4. InLine(Content', w, replied'[w], c)
    BY <1>1, <2>2, <2>3, SameOnRoute
  <2> QED
    BY <2>4 DEF c
<1>6. CASE Drops
  <2>1. /\ replied' = replied
        /\ \A a \in 1 .. 5 : Content'[TheRoute(w)[a]] = Content[TheRoute(w)[a]]
        /\ Content'[TheRoute(w)[6]] \in {Content[TheRoute(w)[6]], <<>>}
        /\ c => Content'[TheRoute(w)[6]] = Content[TheRoute(w)[6]]
    BY <1>6 DEF Drops, c
  <2>2. CASE c
    <3>1. \A a \in 1 .. 6 : a \in 1 .. 5 \/ a = 6
      OBVIOUS
    <3>2. \A a \in 1 .. 6 : Content'[TheRoute(w)[a]] = Content[TheRoute(w)[a]]
      BY <2>1, <2>2, <3>1
    <3>3. InLine(Content', w, replied'[w], c)
      BY <1>1, <2>1, <3>2, SameOnRoute
    <3> QED
      BY <3>3 DEF c
  <2>3. CASE ~c
    <3>1. TheRoute(w) \in Route(Places) /\ Ordered(Content, TheRoute(w), replied[w])
      BY <1>1, RouteIs DEF InLine
    <3>2. Ordered(Content', TheRoute(w), replied[w])
      BY <2>1, <3>1, OrderedLoss
    <3> QED
      BY <2>1, <2>3, <3>2 DEF InLine, c
  <2> QED
    BY <2>2, <2>3
<1>7. ASSUME NEW v \in Workers, Answers(v)
      PROVE  InLine(Content', w, replied'[w], c)
  <2>1. CASE v = w
    <3>1. InLine(Content, w, replied[w], TRUE)
      BY <1>1, <1>7, <2>1 DEF Answers, InLine, b
    <3> QED
      BY <1>7, <2>1, <3>1, AnswersInLine
  <2>2. CASE v # w
    <3>1. /\ <<"serving", v>> \notin {<<"got", Main>>, <<"inbox", Main>>,
              <<"fetched", <<Main, Main>>>>, <<"wire", <<Main, 1>>>>, <<"item", <<w, w>>>>,
              <<"outbox", w>>}
          /\ <<"outbox", v>> \notin {<<"got", Main>>, <<"inbox", Main>>,
              <<"fetched", <<Main, Main>>>>, <<"wire", <<Main, 1>>>>, <<"item", <<w, w>>>>,
              <<"outbox", w>>}
      BY <2>2
    <3>2. \A a \in 1 .. 6 : /\ TheRoute(w)[a] # <<"serving", v>>
                            /\ TheRoute(w)[a] # <<"outbox", v>>
      BY <3>1, OnTheWay
    <3>3. \A a \in 1 .. 6 : Content'[TheRoute(w)[a]] = Content[TheRoute(w)[a]]
      BY <1>4, <1>7, <3>2 DEF Answers
    <3>4. replied'[w] = replied[w]
      BY <1>7, <2>2 DEF Answers, Typed
    <3> QED
      BY <1>1, <3>3, <3>4, SameOnRoute
  <2> QED
    BY <2>1, <2>2
<1>8. (\E v \in Workers : Answers(v)) => InLine(Content', w, replied'[w], closing'[w] = "open")
  BY <1>7 DEF c
<1> QED
  BY <1>2, <1>3, <1>5, <1>6, <1>8, NextMoves

GotInOrder ==
  \A j \in DOMAIN got : \A w \in Workers : got[j].by = w =>
    \E n \in DOMAIN replied[w] :
      /\ got[j] = replied[w][n]
      /\ \A k \in 1 .. n - 1 : \E i \in 1 .. j - 1 : got[i] = replied[w][k]
\* Once the coordinator has begun to stop, it gets nothing more.
OrderKept == ~Piped /\ Deaths = 0 /\ closing[Main] # "open" => GotInOrder

LEMMA OpenInOrder ==
  ASSUME Typed, Delivery, Orderly, ~Piped, Deaths = 0, closing[Main] = "open"
  PROVE  GotInOrder
<1> SUFFICES ASSUME NEW j \in DOMAIN got, NEW w \in Workers, got[j].by = w
             PROVE  \E n \in DOMAIN replied[w] :
                      /\ got[j] = replied[w][n]
                      /\ \A k \in 1 .. n - 1 : \E i \in 1 .. j - 1 : got[i] = replied[w][k]
  BY DEF GotInOrder
<1>1. /\ got \in Seq(Message) /\ got[j] \in Message /\ j \in Nat /\ DOMAIN got = 1 .. Len(got)
      /\ Len(got) \in Nat
  <2>1. got \in Seq(Message)
    BY DEF Typed
  <2> QED
    BY <2>1
<1>2. /\ <<"got", Main>> \in Places /\ Content[<<"got", Main>>] = got
      /\ TheRoute(w)[1] = <<"got", Main>>
  BY PlacesAre, ContentIs, RouteIs
<1>3. Known(got[j])
  <2>1. Has(Places, Content, got[j])
    BY <1>2 DEF Has, In
  <2> QED
    BY <1>1, <2>1 DEF Delivery, AllKnown
<1>4. In(replied[w], got[j])
  BY <1>3, WorkersAreEnds DEF Known
<1>5. PICK n \in DOMAIN replied[w] : replied[w][n] = got[j]
  BY <1>4 DEF In
<1>6. \A k \in 1 .. n - 1 : Ahead(Content, TheRoute(w), replied[w][k], 1, j)
  <2>1. Ordered(Content, TheRoute(w), replied[w]) /\ 1 \in 1 .. 6
    BY DEF Orderly, InLine
  <2> HIDE DEF TheRoute
  <2> QED
    BY <1>2, <1>5, <2>1 DEF Ordered
<1>7. ASSUME NEW k \in 1 .. n - 1
      PROVE  \E i \in 1 .. j - 1 : got[i] = replied[w][k]
  <2>1. PICK b \in 1 .. 1 : \E i \in DOMAIN Content[TheRoute(w)[b]] :
          Content[TheRoute(w)[b]][i] = replied[w][k] /\ (b < 1 \/ i < j)
    BY <1>6 DEF Ahead
  <2>2. b = 1
    OBVIOUS
  <2>3. PICK i \in DOMAIN got : got[i] = replied[w][k] /\ i < j
    BY <1>2, <2>1, <2>2
  <2>4. i \in 1 .. j - 1
    BY <1>1, <2>3
  <2> QED
    BY <2>3, <2>4
<1> QED
  BY <1>5, <1>7

LEMMA NextKeepsOrder ==
  ASSUME Typed, Typed', ThreadsFit, Settled, Delivery, Orderly, OrderKept, Forward, MessagingNext
  PROVE  OrderKept'
<1>0. layer' = layer /\ Piped' = Piped
  BY SameLayer DEF Forward
<1> SUFFICES ASSUME ~Piped, Deaths' = 0, closing'[Main] # "open"
             PROVE  GotInOrder'
  BY <1>0 DEF OrderKept
<1>1. GotInOrder /\ got' = got
  BY OpenInOrder, StaysDisturbed DEF OrderKept, Forward
<1>2. \A w \in Workers : \A n \in DOMAIN replied[w] :
        n \in DOMAIN replied'[w] /\ replied'[w][n] = replied[w][n]
  <2>1. CASE replied' = replied
    BY <2>1
  <2>2. ASSUME NEW v \in Workers, Answers(v)
        PROVE  \A w \in Workers : \A n \in DOMAIN replied[w] :
                 n \in DOMAIN replied'[w] /\ replied'[w][n] = replied[w][n]
    <3>1. ReplyOf(v) \in Message
      BY <2>2, AnswersTakesOut
    <3> QED
      BY <2>2, <3>1, RepliedGrows
  <2>3. replied' = replied \/ \E v \in Workers : Answers(v)
    BY NextMoves DEF Rests, Passes, SetsOff, Drops
  <2> QED
    BY <2>1, <2>2, <2>3
<1>3. ASSUME NEW j \in DOMAIN got, NEW w \in Workers, got[j].by = w
      PROVE  \E n \in DOMAIN replied'[w] :
               /\ got[j] = replied'[w][n]
               /\ \A k \in 1 .. n - 1 : \E i \in 1 .. j - 1 : got[i] = replied'[w][k]
  <2>1. PICK n \in DOMAIN replied[w] :
          /\ got[j] = replied[w][n]
          /\ \A k \in 1 .. n - 1 : \E i \in 1 .. j - 1 : got[i] = replied[w][k]
    BY <1>1, <1>3 DEF GotInOrder
  <2>2. \A k \in 1 .. n - 1 : k \in DOMAIN replied[w]
    <3>1. replied[w] \in Seq(Message)
      BY DEF Typed
    <3> QED
      BY <3>1
  <2> QED
    BY <1>2, <2>1, <2>2
<1> QED
  BY <1>1, <1>3 DEF GotInOrder

-----------------------------------------------------------------------------
(***************************************************************************)
(* The theorem.                                                            *)
(***************************************************************************)

LEMMA TypesHold ==
  ASSUME Typed
  PROVE  MessagingTypeOK
<1>1. \A w \in Workers : /\ waiting[w] \in 0 .. Slots /\ demand[w] \in waiting[w] .. Slots
                         /\ serving[w] \in Seq(Message) /\ replied[w] \in Seq(Message)
  <2> SUFFICES ASSUME NEW w \in Workers
               PROVE  /\ waiting[w] \in 0 .. Slots /\ demand[w] \in waiting[w] .. Slots
                      /\ serving[w] \in Seq(Message) /\ replied[w] \in Seq(Message)
    OBVIOUS
  <2>1. /\ waiting[w] \in Nat /\ demand[w] \in Nat /\ Slots \in Nat
        /\ waiting[w] <= demand[w] /\ demand[w] <= Slots
        /\ serving[w] \in Seq(Message) /\ replied[w] \in Seq(Message)
    BY Bounds DEF Typed
  <2> QED
    BY <2>1
<1>2. /\ produced \in 0 .. Messages
      /\ \A e \in Ends : outbox[e] \in Seq(Message) /\ inbox[e] \in Seq(Message)
      /\ sender \in [Threads -> SenderRecord] /\ receiver \in [Threads -> ReceiverRecord]
      /\ \A w \in Wires : wire[w] \in Seq(Message)
      /\ closing \in [Ends -> {"open", "stopping", "stopped"}] /\ canceled \in [Ends -> BOOLEAN]
  BY DEF Typed
<1> QED
  BY <1>1, <1>2 DEF MessagingTypeOK, SenderRecord, ReceiverRecord

LEMMA NoneLostNorDoubled ==
  ASSUME Delivery
  PROVE  NeitherLostNorDoubled
<1>1. \A p \in Places : Held(p) = Content[p]
  BY DEF Content
<1>2. \A p \in Carrying : p \in Places
  BY DEF Carrying
<1>3. \A p, q \in Carrying : \A i \in DOMAIN Held(p), j \in DOMAIN Held(q) :
        Held(p)[i] = Held(q)[j] => p = q /\ i = j
  BY <1>1, <1>2 DEF Delivery, Once
<1>4. \A m : Has(Places, Content, m) => Somewhere(m)
  <2> SUFFICES ASSUME NEW m, Has(Places, Content, m) PROVE Somewhere(m)
    OBVIOUS
  <2>1. PICK p \in Places : In(Content[p], m)
    BY DEF Has
  <2>2. PICK i \in DOMAIN Held(p) : Held(p)[i] = m
    BY <1>1, <2>1 DEF In
  <2>3. DOMAIN <<>> = {}
    OBVIOUS
  <2>4. p \in Carrying
    BY <2>2, <2>3 DEF Carrying
  <2> QED
    BY <2>2, <2>4 DEF Somewhere
<1>5. ASSUME Undisturbed
      PROVE  /\ \A m \in Replies : Somewhere(m)
             /\ \A i \in 1 .. produced :
                  Somewhere([id |-> i, by |-> Main]) \/ \E m \in Replies : m.id = i
  <2>1. /\ \A w \in Workers : \A n \in DOMAIN replied[w] : Has(Places, Content, replied[w][n])
        /\ \A i \in 1 .. produced : Has(Places, Content, [id |-> i, by |-> Main]) \/ Answered(i)
    BY <1>5 DEF Delivery, Complete
  <2>2. /\ \A m \in Replies : \E w \in Workers : \E n \in DOMAIN replied[w] : m = replied[w][n]
        /\ \A w \in Workers : \A n \in DOMAIN replied[w] : replied[w][n] \in Replies
    BY DEF Replies
  <2>3. \A m \in Replies : Somewhere(m)
    BY <1>4, <2>1, <2>2
  <2>4. \A i \in 1 .. produced :
          Somewhere([id |-> i, by |-> Main]) \/ \E m \in Replies : m.id = i
    BY <1>4, <2>1, <2>2 DEF Answered
  <2> QED
    BY <2>3, <2>4
<1> QED
  BY <1>3, <1>5 DEF NeitherLostNorDoubled

LEMMA AllInOrder ==
  ASSUME Typed, Delivery, Orderly, OrderKept
  PROVE  RepliesInOrder
<1> SUFFICES ASSUME Deaths = 0 PROVE GotInOrder
  BY DEF RepliesInOrder, GotInOrder
<1>1. CASE ~Piped
  BY <1>1, OpenInOrder DEF OrderKept
<1>2. CASE Piped
  <2>1. <<"got", Main>> \in Places /\ Content[<<"got", Main>>] = got
    BY PlacesAre, ContentIs
  <2>2. From(<<"got", Main>>) = {Main}
    BY <1>2, FromIs DEF Hears
  <2>3. \A j \in DOMAIN got : got[j].by = Main
    BY <2>1, <2>2 DEF Delivery, KindsFit
  <2> QED
    BY <2>3, WorkersAreEnds DEF GotInOrder
<1> QED
  BY <1>1, <1>2

Whole ==
  /\ Typed /\ ThreadsFit /\ Settled /\ FetchFits
  /\ Delivery /\ Orderly /\ OrderKept

LEMMA InitWhole ==
  ASSUME MessagingInit
  PROVE  Whole
<1>1. Typed /\ ThreadsFit /\ Delivery
  BY InitTyped, InitDelivers
<1>2. /\ \A e \in Ends : closing[e] = "open" /\ canceled[e] = FALSE /\ inbox[e] = <<>>
      /\ \A w \in Workers : replied[w] = <<>>
      /\ \A t \in Threads : receiver[t].item = <<>> /\ receiver[t].polling = FALSE
  BY DEF MessagingInit, NewReceiver
<1>3. Settled /\ OrderKept
  BY <1>2, WorkersAreEnds DEF Settled, OrderKept
<1>4. FetchFits
  <2> SUFFICES ASSUME NEW w \in Workers PROVE Fetching(w)
    BY DEF FetchFits
  <2>1. /\ inbox[w] = <<>> /\ receiver[<<w, w>>].item = <<>>
        /\ receiver[<<w, w>>].polling = FALSE
    BY <1>2, WorkersAreEnds, OwnThread
  <2>2. Len(inbox[w]) = 0 /\ 0 <= Slots
    BY <2>1, SeqInit, Bounds
  <2> QED
    BY <2>1, <2>2 DEF Fetching
<1>5. Orderly
  <2>1. DOMAIN <<>> = {}
    OBVIOUS
  <2>2. \A w \in Workers : DOMAIN replied[w] = {}
    BY <1>2, <2>1
  <2> QED
    BY <2>2 DEF Orderly, InLine, Ordered
<1> QED
  BY <1>1, <1>3, <1>4, <1>5 DEF Whole

LEMMA NextWhole ==
  ASSUME Whole, [MessagingNext]_messagingVars
  PROVE  Whole'
<1>1. CASE MessagingNext
  <2>1. Typed /\ ThreadsFit /\ Settled /\ FetchFits /\ Delivery /\ Orderly /\ OrderKept
    BY DEF Whole
  <2>2. Typed' /\ ThreadsFit'
    BY <1>1, <2>1, NextTyped
  <2>3. Settled' /\ Forward
    BY <1>1, <2>1, NextSettles
  <2>4. FetchFits'
    BY <1>1, <2>1, <2>3, NextFetches
  <2>5. Delivery'
    BY <1>1, <2>1, <2>2, <2>3, NextDelivers
  <2>6. Orderly'
    BY <1>1, <2>1, <2>2, <2>3, NextOrderly
  <2>7. OrderKept'
    BY <1>1, <2>1, <2>2, <2>3, NextKeepsOrder
  <2> QED
    BY <2>2, <2>3, <2>4, <2>5, <2>6, <2>7 DEF Whole
<1>2. CASE UNCHANGED messagingVars
  <2>1. /\ UNCHANGED <<layer, produced, outbox, inbox, sender, receiver, wire, waiting, demand>>
        /\ UNCHANGED <<serving, replied, got, closing, canceled>>
    BY <1>2 DEF messagingVars
  <2>2. Typed' /\ ThreadsFit'
    <3>1. Typed /\ ThreadsFit /\ Wires' = Wires
      BY <2>1, SameLayer DEF Whole
    <3> QED
      BY <2>1, <3>1, SameLayer DEF Typed, ThreadsFit
  <2>3. Forward
    BY <2>1 DEF Forward
  <2>4. Settled' /\ FetchFits'
    BY <2>1, SameLayer DEF Whole, Settled, FetchFits, Fetching
  <2>5. Rests
    <3>1. Stays({})
      BY <2>1 DEF Stays
    <3> QED
      BY <2>1, <3>1, NothingMoves
  <2>6. Delivery'
    BY <2>3, <2>5, RestsDelivers DEF Whole
  <2>7. Deaths' = 0 => Deaths = 0
    BY <2>3, StaysDisturbed
  <2>8. Orderly'
    BY <2>1, <2>5, <2>7, SameLayer DEF Whole, Orderly, Rests
  <2>9. OrderKept'
    BY <2>1, <2>7, SameLayer DEF Whole, OrderKept, GotInOrder
  <2> QED
    BY <2>2, <2>4, <2>6, <2>8, <2>9 DEF Whole
<1> QED
  BY <1>1, <1>2

LEMMA WholeArrives ==
  ASSUME Whole
  PROVE  MessagesArrive
<1>1. Typed /\ FetchFits /\ Delivery /\ Orderly /\ OrderKept
  BY DEF Whole
<1> QED
  BY <1>1, TypesHold, NoneLostNorDoubled, AllInOrder, FetchesOnDemand DEF MessagesArrive

\* Whatever the transport and the numbers of workers, slots and messages: no message is
\* in two places or twice in one, none is lost while nobody stops and no thread dies, the
\* replies of a worker reach the coordinator in the order they were put, and a worker
\* takes no more off the queue than its slots have asked for.
THEOREM MessagesStayWhole == MessagingSpec => []MessagesArrive
<1>1. MessagingInit => Whole
  BY InitWhole
<1>2. Whole /\ [MessagingNext]_messagingVars => Whole'
  BY NextWhole
<1>3. Whole => MessagesArrive
  BY WholeArrives
<1> QED
  BY <1>1, <1>2, <1>3, PTL DEF MessagingSpec
=============================================================================
