--------------------------- MODULE SimObjects_proofs ---------------------------
(***************************************************************************)
(* Notes are paired, nothing dangles, groups own what they delete and      *)
(* events keep their order, for any objects, pointers and bounds.          *)
(***************************************************************************)
EXTENDS SimObjects, FunctionTheorems, FiniteSetTheorems, NaturalsInduction, SequenceTheorems, TLAPS

-----------------------------------------------------------------------------
(* Numbers, loops and sequences.                                           *)

LEMMA LeastNumber ==
  ASSUME NEW T, T \subseteq Nat, T # {}
  PROVE  \E m \in T : \A n \in T : m =< n
  <1> DEFINE R == OpToRel(<, Nat)
  <1>0. IsWellFoundedOn(R, Nat)
    BY NatLessThanWellFounded DEF OpToRel
  <1>1. PICK m \in T : \A n \in T : ~(<<n, m>> \in R)
    <2> HIDE DEF R
    <2> QED BY <1>0, WFMin
  <1>2. ASSUME NEW n \in T, n < m PROVE FALSE
    <2>1. <<n, m>> \in {pair \in Nat \X Nat : pair[1] < pair[2]}
      BY <1>2
    <2> QED BY <1>1, <2>1 DEF OpToRel
  <1>3. m \in T /\ \A n \in T : ~(n < m)
    BY <1>1, <1>2, Zenon
  <1> QED BY <1>3

\* N rounds of a loop, each of which takes the state and its number to a state.
Rounds(f, base, step, N) ==
  /\ f[0] = base
  /\ \A n \in 1 .. N : f[n] = step[<<f[n - 1], n>>]

LEMMA LoopExists ==
  ASSUME NEW D, NEW base \in D, NEW step \in [D \X (Nat \ {0}) -> D], NEW N \in Nat
  PROVE  \E f \in [0 .. N -> D] : Rounds(f, base, step, N)
  <1> DEFINE T == {n \in Nat : ~\E f \in [0 .. n -> D] : Rounds(f, base, step, n)}
  <1>1. SUFFICES ASSUME T # {} PROVE FALSE
    OBVIOUS
  <1>2. PICK m \in T : \A n \in T : m =< n
    BY <1>1, LeastNumber
  <1>3. m \in Nat /\ ~\E f \in [0 .. m -> D] : Rounds(f, base, step, m)
    BY <1>2
  <1>4. m # 0
    <2>1. [n \in 0 .. 0 |-> base] \in [0 .. 0 -> D]
      OBVIOUS
    <2>2. Rounds([n \in 0 .. 0 |-> base], base, step, 0)
      BY DEF Rounds
    <2> QED BY <1>3, <2>1, <2>2
  <1>5. m - 1 \in Nat /\ m \in Nat \ {0} /\ ~(m =< m - 1)
    BY <1>3, <1>4
  <1>6. PICK f \in [0 .. m - 1 -> D] : Rounds(f, base, step, m - 1)
    BY <1>2, <1>5
  <1> DEFINE g == [n \in 0 .. m |-> IF n = m THEN step[<<f[m - 1], m>>] ELSE f[n]]
  <1>7. g \in [0 .. m -> D]
    <2>1. f[m - 1] \in D
      BY <1>5
    <2>2. step[<<f[m - 1], m>>] \in D
      BY <1>5, <2>1
    <2>3. \A n \in 0 .. m : n # m => n \in 0 .. m - 1
      BY <1>5
    <2> QED BY <2>2, <2>3
  <1>8. g[0] = base
    BY <1>4, <1>5, <1>6 DEF Rounds
  <1>9. ASSUME NEW n \in 1 .. m PROVE g[n] = step[<<g[n - 1], n>>]
    <2>1. n \in 0 .. m /\ n - 1 \in 0 .. m /\ n - 1 # m
      BY <1>5
    <2>2. g[n - 1] = f[n - 1]
      BY <2>1
    <2>3. CASE n = m
      BY <2>1, <2>2, <2>3
    <2>4. CASE n # m
      <3>1. n \in 1 .. m - 1
        BY <1>5, <2>4
      <3> QED BY <1>6, <2>1, <2>2, <2>4, <3>1 DEF Rounds
    <2> QED BY <2>3, <2>4
  <1> QED BY <1>3, <1>7, <1>8, <1>9 DEF Rounds

\* s without the element at k.
LEMMA RemoveAtFacts ==
  ASSUME NEW S, NEW s \in Seq(S), NEW k \in 1 .. Len(s)
  PROVE  /\ RemoveAt(s, k) \in Seq(S)
         /\ Len(RemoveAt(s, k)) = Len(s) - 1
         /\ \A i \in 1 .. Len(s) - 1 : RemoveAt(s, k)[i] = IF i < k THEN s[i] ELSE s[i + 1]
  <1> DEFINE a == SubSeq(s, 1, k - 1)
             b == SubSeq(s, k + 1, Len(s))
  <1>1. Len(s) \in Nat /\ k \in Nat /\ k - 1 \in Nat
    OBVIOUS
  <1>2. /\ a \in Seq(S) /\ Len(a) = k - 1 /\ \A i \in 1 .. k - 1 : a[i] = s[i]
    BY <1>1
  <1>3. /\ b \in Seq(S) /\ Len(b) = Len(s) - k
        /\ \A i \in 1 .. Len(s) - k : b[i] = s[k + i]
    <2>1. CASE k = Len(s)
      BY <1>1, <2>1
    <2>2. CASE k # Len(s)
      <3>1. k + 1 \in 1 .. Len(s) /\ k + 1 =< Len(s)
        BY <1>1, <2>2
      <3>2. b \in Seq(S)
        BY <1>1, <3>1
      <3>3. Len(b) = Len(s) - k
        BY <1>1, <3>1
      <3>4. \A i \in 1 .. Len(s) - k : b[i] = s[k + i]
        BY <1>1, <3>1
      <3> QED BY <3>2, <3>3, <3>4
    <2> QED BY <2>1, <2>2
  <1> HIDE DEF a, b
  <1>4. RemoveAt(s, k) = a \o b
    BY DEF RemoveAt, a, b
  <1>5. a \o b \in Seq(S) /\ Len(a \o b) = Len(s) - 1
    <2>1. a \o b \in Seq(S) /\ Len(a \o b) = Len(a) + Len(b)
      BY <1>2, <1>3, ConcatProperties
    <2> QED BY <1>1, <1>2, <1>3, <2>1
  <1>6. ASSUME NEW i \in 1 .. Len(s) - 1
        PROVE  (a \o b)[i] = IF i < k THEN s[i] ELSE s[i + 1]
    <2>1. CASE i < k
      BY <1>1, <1>2, <1>3, <2>1
    <2>2. CASE ~(i < k)
      <3>1. i - (k - 1) \in 1 .. Len(s) - k /\ k + (i - (k - 1)) = i + 1
        BY <1>1, <2>2
      <3>2. (a \o b)[i] = b[i - (k - 1)]
        BY <1>1, <1>2, <1>3, <2>2
      <3> QED BY <1>3, <2>2, <3>1, <3>2
    <2> QED BY <2>1, <2>2
  <1> QED BY <1>4, <1>5, <1>6

\* s with e behind its first k elements.
LEMMA InsertAtFacts ==
  ASSUME NEW S, NEW s \in Seq(S), NEW k \in 0 .. Len(s), NEW e \in S
  PROVE  /\ InsertAt(s, k + 1, e) \in Seq(S)
         /\ Len(InsertAt(s, k + 1, e)) = Len(s) + 1
         /\ InsertAt(s, k + 1, e)[k + 1] = e
         /\ \A i \in 1 .. k : InsertAt(s, k + 1, e)[i] = s[i]
         /\ \A i \in 1 .. Len(s) + 1 : i > k + 1 => InsertAt(s, k + 1, e)[i] = s[i - 1]
  <1> DEFINE a == SubSeq(s, 1, k)
             b == SubSeq(s, k + 1, Len(s))
             c == a \o <<e>>
  <1>1. Len(s) \in Nat /\ k \in Nat /\ k =< Len(s)
    OBVIOUS
  <1>2. a \in Seq(S) /\ Len(a) = k /\ \A i \in 1 .. k : a[i] = s[i]
    BY <1>1
  <1>3. /\ b \in Seq(S) /\ Len(b) = Len(s) - k
        /\ \A i \in 1 .. Len(s) - k : b[i] = s[k + i]
    <2>1. CASE k = Len(s)
      BY <1>1, <2>1
    <2>2. CASE k # Len(s)
      <3>1. k + 1 \in 1 .. Len(s) /\ k + 1 =< Len(s)
        BY <1>1, <2>2
      <3>2. b \in Seq(S)
        BY <1>1, <3>1
      <3>3. Len(b) = Len(s) - k
        BY <1>1, <3>1
      <3>4. \A i \in 1 .. Len(s) - k : b[i] = s[k + i]
        BY <1>1, <3>1
      <3> QED BY <3>2, <3>3, <3>4
    <2> QED BY <2>1, <2>2
  <1>4. (k + 1) - 1 = k
    BY <1>1
  <1>5. InsertAt(s, k + 1, e) = c \o b
    BY <1>4 DEF InsertAt
  <1> HIDE DEF a, b
  <1>6. c \in Seq(S) /\ Len(c) = k + 1 /\ c[k + 1] = e /\ \A i \in 1 .. k : c[i] = s[i]
    BY <1>1, <1>2
  <1> HIDE DEF c
  <1>7. c \o b \in Seq(S) /\ Len(c \o b) = Len(s) + 1
    <2>1. c \o b \in Seq(S) /\ Len(c \o b) = Len(c) + Len(b)
      BY <1>3, <1>6, ConcatProperties
    <2> QED BY <1>1, <1>3, <1>6, <2>1
  <1>8. \A i \in 1 .. Len(c) + Len(b) : (c \o b)[i] = IF i =< Len(c) THEN c[i] ELSE b[i - Len(c)]
    BY <1>3, <1>6, ConcatProperties
  <1>9. (c \o b)[k + 1] = e
    BY <1>1, <1>3, <1>6, <1>8
  <1>10. \A i \in 1 .. k : (c \o b)[i] = s[i]
    BY <1>1, <1>3, <1>6, <1>8
  <1>11. ASSUME NEW i \in 1 .. Len(s) + 1, i > k + 1 PROVE (c \o b)[i] = s[i - 1]
    <2>1. i - (k + 1) \in 1 .. Len(s) - k /\ k + (i - (k + 1)) = i - 1 /\ ~(i =< k + 1)
          /\ i \in 1 .. Len(c) + Len(b)
      BY <1>1, <1>3, <1>6, <1>11
    <2>2. (c \o b)[i] = b[i - (k + 1)]
      BY <1>6, <1>8, <2>1
    <2>3. b[i - (k + 1)] = s[k + (i - (k + 1))]
      BY <1>3, <2>1
    <2> QED BY <2>1, <2>2, <2>3
  <1> QED BY <1>5, <1>7, <1>9, <1>10, <1>11

\* The place of the first element that passes the test.
LEMMA FirstNumber ==
  ASSUME NEW N \in Nat, NEW I, I \subseteq 1 .. N, I # {}
  PROVE  Min(I) \in I /\ \A j \in I : Min(I) =< j
  <1>1. I \subseteq Nat
    OBVIOUS
  <1>2. \E m \in I : \A n \in I : m =< n
    BY <1>1, LeastNumber
  <1> QED BY <1>2 DEF Min

\* RemoveFirst takes the first occurrence, if there is one.
FirstAt(s, e, k) == k \in 1 .. Len(s) /\ s[k] = e /\ \A j \in 1 .. Len(s) : s[j] = e => k =< j

LEMMA RemoveFirstFacts ==
  ASSUME NEW S, NEW s \in Seq(S), NEW e
  PROVE  \/ ~Contains(s, e) /\ RemoveFirst(s, e) = s
         \/ \E k : FirstAt(s, e, k) /\ RemoveFirst(s, e) = RemoveAt(s, k)
  <1> DEFINE I == {i \in 1 .. Len(s) : s[i] = e}
  <1>1. Len(s) \in Nat
    OBVIOUS
  <1>2. CASE I = {}
    <2>1. ~\E i \in 1 .. Len(s) : s[i] = e
      BY <1>2
    <2> QED BY <2>1 DEF Contains, RemoveFirst
  <1>3. CASE I # {}
    <2>1. Min(I) \in I /\ \A j \in I : Min(I) =< j
      BY <1>1, <1>3, FirstNumber
    <2>2. FirstAt(s, e, Min(I))
      BY <2>1 DEF FirstAt
    <2>3. SelectInSeq(s, LAMBDA v : v = e) = Min(I)
      BY <1>3 DEF SelectInSeq
    <2>4. \E i \in 1 .. Len(s) : s[i] = e
      BY <1>3
    <2>5. RemoveFirst(s, e) = RemoveAt(s, Min(I))
      BY <2>3, <2>4 DEF RemoveFirst
    <2> QED BY <2>2, <2>5
  <1> QED BY <1>2, <1>3

LEMMA RemoveFirstType ==
  ASSUME NEW S, NEW s \in Seq(S), NEW e
  PROVE  /\ RemoveFirst(s, e) \in Seq(S)
         /\ Len(RemoveFirst(s, e)) =< Len(s)
  <1>1. Len(s) \in Nat
    OBVIOUS
  <1>2. CASE RemoveFirst(s, e) = s
    BY <1>1, <1>2
  <1>3. ASSUME NEW k, FirstAt(s, e, k), RemoveFirst(s, e) = RemoveAt(s, k)
        PROVE  RemoveFirst(s, e) \in Seq(S) /\ Len(RemoveFirst(s, e)) =< Len(s)
    <2>1. k \in 1 .. Len(s)
      BY <1>3 DEF FirstAt
    <2> QED BY <1>1, <1>3, <2>1, RemoveAtFacts
  <1> QED BY <1>2, <1>3, RemoveFirstFacts

-----------------------------------------------------------------------------
(* The event queue.                                                        *)

Ordered(q)       == \A i, j \in DOMAIN q : i < j => Before(q[i], q[j])
From(q, time)    == \A i \in DOMAIN q : q[i].time >= time
PostedBy(q, seq) == \A i \in DOMAIN q : q[i].seq =< seq

\* EventsInOrder, and a number is given to one event.
QueueInv(q, time, seq) ==
  /\ q \in Seq(Events) /\ time \in 0 .. MaxTime /\ seq \in 0 .. MaxPosts
  /\ Ordered(q) /\ From(q, time) /\ PostedBy(q, seq)

EventInv == QueueInv(queue, now, posts) /\ target \in 0 .. MaxTime

LEMMA EventFields ==
  \A e \in Events : e.dest \in Targets /\ e.time \in Int /\ e.time \in 0 .. MaxTime /\ e.seq \in Int
  BY ObjectConstants DEF Events

LEMMA BeforeIsTransitive ==
  ASSUME NEW e \in Events, NEW f \in Events, NEW g \in Events, Before(e, f), Before(f, g)
  PROVE  Before(e, g)
  BY EventFields DEF Before

\* Elements of the queue, in its order: q[at[i]] for growing at[i].
LEMMA PartOfQueue ==
  ASSUME NEW time, NEW seq, NEW q, QueueInv(q, time, seq), NEW r \in Seq(Events),
         NEW at \in [DOMAIN r -> DOMAIN q],
         \A i \in DOMAIN r : r[i] = q[at[i]],
         \A i, j \in DOMAIN r : i < j => at[i] < at[j]
  PROVE  QueueInv(r, time, seq)
  BY DEF QueueInv, Ordered, From, PostedBy

LEMMA RemoveKeepsQueue ==
  ASSUME NEW time, NEW seq, NEW q, QueueInv(q, time, seq), NEW k \in DOMAIN q
  PROVE  QueueInv(RemoveAt(q, k), time, seq)
  <1> DEFINE r == RemoveAt(q, k)
             at == [i \in DOMAIN r |-> IF i < k THEN i ELSE i + 1]
  <1>1. q \in Seq(Events) /\ DOMAIN q = 1 .. Len(q) /\ Len(q) \in Nat /\ k \in 1 .. Len(q)
    BY DEF QueueInv
  <1>2. /\ r \in Seq(Events) /\ Len(r) = Len(q) - 1
        /\ \A i \in 1 .. Len(q) - 1 : r[i] = IF i < k THEN q[i] ELSE q[i + 1]
    BY <1>1, RemoveAtFacts
  <1> HIDE DEF r
  <1>3. DOMAIN r = 1 .. Len(q) - 1
    BY <1>1, <1>2
  <1>4. at \in [DOMAIN r -> DOMAIN q]
    BY <1>1, <1>3
  <1>5. \A i \in DOMAIN r : r[i] = q[at[i]]
    BY <1>2, <1>3
  <1>6. \A i, j \in DOMAIN r : i < j => at[i] < at[j]
    BY <1>1, <1>3
  <1> HIDE DEF at
  <1>7. QueueInv(r, time, seq)
    BY <1>2, <1>4, <1>5, <1>6, PartOfQueue
  <1> QED BY <1>7 DEF r

LEMMA TailKeepsQueue ==
  ASSUME NEW time, NEW seq, NEW q, QueueInv(q, time, seq), q # <<>>
  PROVE  QueueInv(Tail(q), Head(q).time, seq)
  <1> DEFINE r == Tail(q)
  <1>1. q \in Seq(Events) /\ DOMAIN q = 1 .. Len(q) /\ Len(q) \in Nat \ {0} /\ q[1] \in Events
        /\ Head(q) = q[1]
    BY DEF QueueInv
  <1>2. r \in Seq(Events) /\ DOMAIN r = 1 .. Len(q) - 1
        /\ \A i \in 1 .. Len(q) - 1 : r[i] = q[i + 1]
    BY <1>1
  <1> HIDE DEF r
  <1>3. \A i \in DOMAIN r : i + 1 \in DOMAIN q /\ 1 < i + 1 /\ r[i] = q[i + 1] /\ r[i] \in Events
    BY <1>1, <1>2
  <1>4. Ordered(r) /\ PostedBy(r, seq)
    <2>1. ASSUME NEW i \in DOMAIN r, NEW j \in DOMAIN r, i < j PROVE i + 1 < j + 1
      BY <1>2, <2>1
    <2> QED BY <1>3, <2>1 DEF QueueInv, Ordered, PostedBy
  <1>5. From(r, q[1].time)
    <2> SUFFICES ASSUME NEW i \in DOMAIN r PROVE r[i].time >= q[1].time
      BY DEF From
    <2>1. Before(q[1], r[i])
      BY <1>1, <1>3 DEF QueueInv, Ordered
    <2> QED BY <1>1, <1>3, <2>1, EventFields DEF Before
  <1>6. q[1].time \in 0 .. MaxTime
    BY <1>1, EventFields
  <1> QED BY <1>1, <1>2, <1>4, <1>5, <1>6 DEF QueueInv, r

\* The events before the place are the first ones, up to the time.
LEMMA PlaceIsBetween ==
  ASSUME NEW from, NEW seq, NEW q, QueueInv(q, from, seq), NEW time \in 0 .. MaxTime
  PROVE  LET k == Cardinality({i \in DOMAIN q : q[i].time =< time})
         IN  /\ k \in 0 .. Len(q)
             /\ \A i \in DOMAIN q : IF i =< k THEN q[i].time =< time ELSE q[i].time > time
  <1> DEFINE P == {i \in DOMAIN q : q[i].time =< time}
             A == {i \in Nat : \A j \in P : j =< i}
  <1>1. /\ q \in Seq(Events) /\ DOMAIN q = 1 .. Len(q) /\ Len(q) \in Nat
        /\ \A i \in DOMAIN q : q[i].time \in Int
    BY EventFields DEF QueueInv
  <1>2. PICK m \in A : \A n \in A : m =< n
    <2>1. Len(q) \in A
      BY <1>1
    <2>2. A \subseteq Nat
      OBVIOUS
    <2> QED BY <2>1, <2>2, LeastNumber
  <1>3. P = 1 .. m
    <2>1. m # 0 => m \in P
      <3> SUFFICES ASSUME m # 0, m \notin P PROVE FALSE
        OBVIOUS
      <3>1. m - 1 \in Nat /\ ~(m =< m - 1)
        BY <1>2
      <3>2. \A j \in P : j =< m /\ j # m /\ j \in Int
        BY <1>1, <1>2
      <3>3. \A j \in P : j =< m - 1
        BY <1>2, <3>2
      <3>4. m - 1 \in A
        BY <3>1, <3>3
      <3> QED BY <1>2, <3>1, <3>4
    <2>2. \A j \in P : j \in 1 .. m
      BY <1>1, <1>2
    <2>3. ASSUME NEW i \in 1 .. m PROVE i \in P
      <3>1. m \in P /\ m \in DOMAIN q /\ q[m].time =< time /\ i \in DOMAIN q
        BY <1>1, <1>2, <2>1, <2>3
      <3>2. CASE i = m
        BY <3>1, <3>2
      <3>3. CASE i # m
        <4>1. i < m
          BY <1>2, <2>3, <3>3
        <4>2. Before(q[i], q[m])
          BY <3>1, <4>1 DEF QueueInv, Ordered
        <4>3. q[i].time =< q[m].time
          BY <1>1, <3>1, <4>2 DEF Before
        <4>4. q[i].time =< time
          BY <1>1, <3>1, <4>3
        <4> QED BY <3>1, <4>4
      <3> QED BY <3>2, <3>3
    <2> QED BY <2>2, <2>3
  <1>4. Cardinality(P) = m
    <2>1. m \in Nat
      BY <1>2
    <2>2. Cardinality(1 .. m) = m
      <3>1. Cardinality(1 .. m) = IF 1 > m THEN 0 ELSE m - 1 + 1
        BY <2>1, FS_Interval
      <3> QED BY <2>1, <3>1
    <2> QED BY <1>3, <2>2
  <1>5. m \in 0 .. Len(q)
    <2>1. Len(q) \in A
      BY <1>1
    <2> QED BY <1>1, <1>2, <2>1
  <1>6. ASSUME NEW i \in DOMAIN q PROVE IF i =< m THEN q[i].time =< time ELSE q[i].time > time
    <2>1. i =< m <=> i \in P
      BY <1>1, <1>3, <1>5
    <2> QED BY <1>1, <2>1
  <1> QED BY <1>4, <1>5, <1>6

LEMMA InsertKeepsQueue ==
  ASSUME NEW from, NEW seq, NEW q, QueueInv(q, from, seq), NEW dest \in Targets,
         NEW time \in 0 .. MaxTime, time >= from, seq < MaxPosts, NEW k \in 0 .. Len(q),
         \A i \in DOMAIN q : IF i =< k THEN q[i].time =< time ELSE q[i].time > time
  PROVE  QueueInv(InsertAt(q, k + 1, [dest |-> dest, time |-> time, seq |-> seq + 1]),
                  from, seq + 1)
  <1> DEFINE e == [dest |-> dest, time |-> time, seq |-> seq + 1]
             r == InsertAt(q, k + 1, e)
             at(i) == IF i =< k THEN i ELSE i - 1
  <1>1. /\ q \in Seq(Events) /\ DOMAIN q = 1 .. Len(q) /\ Len(q) \in Nat /\ k \in Nat /\ k =< Len(q)
        /\ \A i \in DOMAIN q : q[i] \in Events /\ q[i].time \in Int /\ q[i].seq \in Int
        /\ time \in Int /\ seq \in Nat /\ from \in Int /\ MaxPosts \in Nat
        /\ seq + 1 \in 0 .. MaxPosts
    BY EventFields, ObjectConstants DEF QueueInv
  <1>2. e \in Events /\ e.time = time /\ e.seq = seq + 1
    <2>1. seq + 1 \in 1 .. MaxPosts
      BY <1>1
    <2> QED BY <2>1 DEF Events
  <1> HIDE DEF e
  <1>7. r \in Seq(Events) /\ Len(r) = Len(q) + 1
    BY <1>1, <1>2, InsertAtFacts
  <1>8. r[k + 1] = e /\ \A i \in 1 .. Len(q) + 1 : i # k + 1 => r[i] = q[at(i)]
    <2>1. /\ r[k + 1] = e /\ \A i \in 1 .. k : r[i] = q[i]
          /\ \A i \in 1 .. Len(q) + 1 : i > k + 1 => r[i] = q[i - 1]
      <3>1. r[k + 1] = e
        BY <1>1, <1>2, InsertAtFacts
      <3>2. \A i \in 1 .. k : r[i] = q[i]
        BY <1>1, <1>2, InsertAtFacts
      <3>3. \A i \in 1 .. Len(q) + 1 : i > k + 1 => r[i] = q[i - 1]
        BY <1>1, <1>2, InsertAtFacts
      <3> QED BY <3>1, <3>2, <3>3
    <2> HIDE DEF r
    <2>2. \A i \in 1 .. Len(q) + 1 : i # k + 1 => i \in 1 .. k \/ i > k + 1
      BY <1>1
    <2>3. \A i \in 1 .. k : at(i) = i
      BY <1>1
    <2>4. \A i \in 1 .. Len(q) + 1 : i > k + 1 => at(i) = i - 1
      BY <1>1
    <2> HIDE DEF at
    <2> QED BY <2>1, <2>2, <2>3, <2>4
  <1> HIDE DEF r
  <1>9. DOMAIN r = 1 .. Len(q) + 1
    BY <1>1, <1>7
  <1>10. \A i \in DOMAIN r : i # k + 1 => at(i) \in DOMAIN q /\ r[i] = q[at(i)]
                                          /\ (i < k + 1 <=> at(i) =< k)
    BY <1>1, <1>8, <1>9
  <1>11. \A i, j \in DOMAIN r : i < j /\ i # k + 1 /\ j # k + 1 => at(i) < at(j)
    BY <1>1, <1>9
  <1> HIDE DEF at
  <1>12. Ordered(r)
    <2> SUFFICES ASSUME NEW i \in DOMAIN r, NEW j \in DOMAIN r, i < j PROVE Before(r[i], r[j])
      BY DEF Ordered
    <2>1. CASE i # k + 1 /\ j # k + 1
      BY <1>10, <1>11, <2>1 DEF QueueInv, Ordered
    <2>2. CASE i = k + 1
      <3>1. j # k + 1 /\ ~(j < k + 1)
        BY <1>1, <1>9, <2>2
      <3>2. at(j) \in DOMAIN q /\ r[j] = q[at(j)] /\ ~(at(j) =< k)
        BY <1>10, <3>1
      <3>3. q[at(j)].time > time
        BY <3>2
      <3> QED BY <1>1, <1>2, <1>8, <2>2, <3>2, <3>3 DEF Before
    <2>3. CASE j = k + 1
      <3>1. i # k + 1 /\ i < k + 1
        BY <1>1, <1>9, <2>3
      <3>2. at(i) \in DOMAIN q /\ r[i] = q[at(i)] /\ at(i) =< k
        BY <1>10, <3>1
      <3>3. q[at(i)].time =< time
        BY <3>2
      <3>4. q[at(i)].seq =< seq
        BY <3>2 DEF QueueInv, PostedBy
      <3>5. q[at(i)].seq < seq + 1
        BY <1>1, <3>2, <3>4
      <3> QED BY <1>1, <1>2, <1>8, <2>3, <3>2, <3>3, <3>5 DEF Before
    <2> QED BY <2>1, <2>2, <2>3
  <1>13. From(r, from) /\ PostedBy(r, seq + 1)
    <2> SUFFICES ASSUME NEW i \in DOMAIN r PROVE r[i].time >= from /\ r[i].seq =< seq + 1
      BY DEF From, PostedBy
    <2>1. CASE i = k + 1
      BY <1>1, <1>2, <1>8, <2>1
    <2>2. CASE i # k + 1
      <3>1. at(i) \in DOMAIN q /\ r[i] = q[at(i)]
        BY <1>10, <2>2
      <3>2. q[at(i)].time >= from /\ q[at(i)].seq =< seq
        BY <3>1 DEF QueueInv, From, PostedBy
      <3> QED BY <1>1, <3>1, <3>2
    <2> QED BY <2>1, <2>2
  <1>14. from \in 0 .. MaxTime
    BY DEF QueueInv
  <1>15. QueueInv(r, from, seq + 1)
    BY <1>1, <1>7, <1>12, <1>13, <1>14 DEF QueueInv
  <1> QED BY <1>15 DEF e, r

\* The loop of cancelPendingEvents: after n rounds, t is what is kept of the
\* first n events.
KeptOf(t, q, o, n) ==
  /\ t \in Seq(Events) /\ Ordered(t)
  /\ \A j \in DOMAIN t : \E i \in 1 .. n : t[j] = q[i] /\ q[i].dest # o

LEMMA KeepsOneMore ==
  ASSUME NEW time, NEW seq, NEW q, QueueInv(q, time, seq), NEW o, NEW n \in 1 .. Len(q),
         NEW t, KeptOf(t, q, o, n - 1)
  PROVE  KeptOf(IF q[n].dest = o THEN t ELSE Append(t, q[n]), q, o, n)
  <1>1. q \in Seq(Events) /\ Len(q) \in Nat /\ DOMAIN q = 1 .. Len(q) /\ n \in DOMAIN q
        /\ q[n] \in Events
    BY DEF QueueInv
  <1>2. \A i \in 1 .. n - 1 : i \in 1 .. n /\ i \in DOMAIN q /\ i < n
    BY <1>1
  <1>3. CASE q[n].dest = o
    BY <1>2, <1>3 DEF KeptOf
  <1>4. CASE q[n].dest # o
    <2> DEFINE u == Append(t, q[n])
    <2>1. t \in Seq(Events)
      BY DEF KeptOf
    <2>2. /\ u \in Seq(Events) /\ DOMAIN u = 1 .. Len(t) + 1 /\ DOMAIN t = 1 .. Len(t)
          /\ Len(t) \in Nat /\ u[Len(t) + 1] = q[n]
          /\ \A j \in DOMAIN t : u[j] = t[j]
      BY <1>1, <2>1
    <2> HIDE DEF u
    <2>3. \A j \in DOMAIN u : \/ j \in DOMAIN t /\ u[j] = t[j]
                              \/ j = Len(t) + 1 /\ u[j] = q[n]
      BY <2>2
    <2>4. \A j \in DOMAIN t : \E i \in 1 .. n - 1 : t[j] = q[i] /\ q[i].dest # o
      BY DEF KeptOf
    <2>5. \A j \in DOMAIN u : \E i \in 1 .. n : u[j] = q[i] /\ q[i].dest # o
      BY <1>2, <1>4, <2>3, <2>4
    <2>6. Ordered(u)
      <3> SUFFICES ASSUME NEW i \in DOMAIN u, NEW j \in DOMAIN u, i < j PROVE Before(u[i], u[j])
        BY DEF Ordered
      <3>1. i \in DOMAIN t
        BY <2>2
      <3>2. CASE j \in DOMAIN t
        BY <2>2, <3>1, <3>2 DEF KeptOf, Ordered
      <3>3. CASE j = Len(t) + 1
        <4>1. PICK l \in 1 .. n - 1 : t[i] = q[l]
          BY <2>4, <3>1
        <4>2. Before(q[l], q[n])
          BY <1>1, <1>2, <4>1 DEF QueueInv, Ordered
        <4> QED BY <2>2, <3>1, <3>3, <4>1, <4>2
      <3> QED BY <2>3, <3>2, <3>3
    <2> QED BY <1>4, <2>2, <2>5, <2>6 DEF KeptOf, u
  <1> QED BY <1>3, <1>4

\* After it, the queue is in order and nothing in it is for the object.
LEMMA CancelKeepsQueue ==
  ASSUME NEW time, NEW seq, QueueInv(queue, time, seq), NEW o, CancelPendingEvents(o)
  PROVE  /\ QueueInv(queue', time, seq)
         /\ \A j \in DOMAIN queue' : \E i \in DOMAIN queue : queue'[j] = queue[i]
                                                             /\ queue[i].dest # o
  <1> DEFINE q == queue
             next(p) == IF q[p[2]].dest = o THEN p[1] ELSE Append(p[1], q[p[2]])
             step == [p \in Seq(Events) \X (Nat \ {0}) |->
                        IF p[2] \in 1 .. Len(q) THEN next(p) ELSE p[1]]
             N == Len(q)
             IsLoop(f) == f = [n \in 0 .. N |-> IF n = 0 THEN <<>>
                                                ELSE IF q[n].dest = o THEN f[n - 1]
                                                                      ELSE Append(f[n - 1], q[n])]
             kept == CHOOSE f : IsLoop(f)
  <1>1. q \in Seq(Events) /\ N \in Nat /\ DOMAIN q = 1 .. N
    BY DEF QueueInv
  <1>2. step \in [Seq(Events) \X (Nat \ {0}) -> Seq(Events)]
    <2> SUFFICES ASSUME NEW s \in Seq(Events), NEW n \in Nat \ {0}
                 PROVE  (IF n \in 1 .. Len(q) THEN next(<<s, n>>) ELSE s) \in Seq(Events)
      OBVIOUS
    <2> QED BY <1>1
  <1>3. PICK f \in [0 .. N -> Seq(Events)] : Rounds(f, <<>>, step, N)
    <2> HIDE DEF step, N
    <2>1. <<>> \in Seq(Events)
      OBVIOUS
    <2> QED BY <1>1, <1>2, <2>1, LoopExists
  <1>4. IsLoop(f)
    <2> SUFFICES ASSUME NEW n \in 0 .. N
                 PROVE  f[n] = IF n = 0 THEN <<>> ELSE IF q[n].dest = o THEN f[n - 1]
                                                  ELSE Append(f[n - 1], q[n])
      OBVIOUS
    <2>1. CASE n = 0
      BY <1>3, <2>1 DEF Rounds
    <2>2. CASE n # 0
      <3>1. n \in 1 .. N /\ n \in Nat \ {0} /\ n - 1 \in 0 .. N
        BY <1>1, <2>2
      <3>2. f[n - 1] \in Seq(Events) /\ f[n] = step[<<f[n - 1], n>>]
        BY <1>3, <3>1 DEF Rounds
      <3>3. step[<<f[n - 1], n>>] = next(<<f[n - 1], n>>)
        BY <3>1, <3>2
      <3> QED BY <2>2, <3>2, <3>3
    <2> QED BY <2>1, <2>2
  <1>5. IsLoop(kept)
    BY <1>4
  <1>6. queue' = kept[N]
    BY DEF CancelPendingEvents
  <1> HIDE DEF kept
  <1>7. kept[0] = <<>>
    BY <1>1, <1>5
  <1>8. \A n \in 1 .. N : kept[n] = IF q[n].dest = o THEN kept[n - 1] ELSE Append(kept[n - 1], q[n])
    <2> SUFFICES ASSUME NEW n \in 1 .. N
                 PROVE  kept[n] = IF q[n].dest = o THEN kept[n - 1] ELSE Append(kept[n - 1], q[n])
      OBVIOUS
    <2>1. n \in 0 .. N /\ n # 0
      BY <1>1
    <2> QED BY <1>5, <2>1
  <1> HIDE DEF N, q
  <1> DEFINE Bad == {n \in 0 .. N : ~KeptOf(kept[n], q, o, n)}
  <1>9. Bad = {}
    <2> SUFFICES ASSUME Bad # {} PROVE FALSE
      OBVIOUS
    <2>1. PICK m \in Bad : \A n \in Bad : m =< n
      <3>1. Bad \subseteq Nat
        OBVIOUS
      <3> QED BY <3>1, LeastNumber
    <2>2. m \in 0 .. N /\ ~KeptOf(kept[m], q, o, m)
      BY <2>1
    <2>3. m # 0
      <3>1. KeptOf(<<>>, q, o, 0)
        BY DEF KeptOf, Ordered
      <3> QED BY <1>7, <2>2, <3>1
    <2>4. m - 1 \in 0 .. N /\ m \in 1 .. N /\ ~(m =< m - 1)
      BY <1>1, <2>2, <2>3
    <2>5. KeptOf(kept[m - 1], q, o, m - 1)
      BY <2>1, <2>4
    <2>6. KeptOf(IF q[m].dest = o THEN kept[m - 1] ELSE Append(kept[m - 1], q[m]), q, o, m)
      BY <2>4, <2>5, KeepsOneMore DEF N, q
    <2> QED BY <1>8, <2>2, <2>4, <2>6
  <1>10. KeptOf(kept[N], q, o, N)
    BY <1>1, <1>9
  <1>11. \A j \in DOMAIN queue' : \E i \in DOMAIN queue : queue'[j] = queue[i] /\ queue[i].dest # o
    BY <1>1, <1>6, <1>10 DEF KeptOf, q, N
  <1>12. QueueInv(queue', time, seq)
    <2>1. queue' \in Seq(Events) /\ Ordered(queue')
      BY <1>6, <1>10 DEF KeptOf
    <2>2. From(queue', time) /\ PostedBy(queue', seq)
      BY <1>11 DEF QueueInv, From, PostedBy
    <2> QED BY <2>1, <2>2 DEF QueueInv
  <1> QED BY <1>11, <1>12

LEMMA InitQueue == Init => EventInv
  <1> SUFFICES ASSUME Init PROVE EventInv
    OBVIOUS
  <1>1. MaxTime \in Nat /\ MaxPosts \in Nat
    BY ObjectConstants
  <1> QED BY <1>1 DEF Init, EventInv, QueueInv, Ordered, From, PostedBy

LEMMA PostKeepsQueue ==
  ASSUME EventInv, NEW o \in Objects, NEW time \in now .. MaxTime, PostEvent(o, time)
  PROVE  EventInv'
  <1> DEFINE k == Cardinality({i \in DOMAIN queue : queue[i].time =< time})
  <1>1. QueueInv(queue, now, posts) /\ now \in 0 .. MaxTime /\ MaxTime \in Nat
    BY ObjectConstants DEF EventInv, QueueInv
  <1>2. time \in 0 .. MaxTime /\ time >= now
    BY <1>1
  <1>3. k \in 0 .. Len(queue)
        /\ \A i \in DOMAIN queue : IF i =< k THEN queue[i].time =< time ELSE queue[i].time > time
    BY <1>1, <1>2, PlaceIsBetween
  <1>4. /\ o \in Targets /\ posts < MaxPosts /\ posts' = posts + 1 /\ UNCHANGED <<now, target>>
        /\ queue' = InsertAt(queue, k + 1, [dest |-> o, time |-> time, seq |-> posts + 1])
    BY DEF PostEvent, PlaceOf
  <1> HIDE DEF k
  <1>5. QueueInv(InsertAt(queue, k + 1, [dest |-> o, time |-> time, seq |-> posts + 1]),
                 now, posts + 1)
    BY <1>1, <1>2, <1>3, <1>4, InsertKeepsQueue
  <1> QED BY <1>4, <1>5 DEF EventInv

LEMMA CancelEventKeepsQueue ==
  ASSUME EventInv, NEW seq, CancelEvent(seq)
  PROVE  EventInv'
  <1>1. PICK i \in DOMAIN queue : queue' = RemoveAt(queue, i)
    BY DEF CancelEvent
  <1>2. QueueInv(queue', now, posts)
    BY <1>1, RemoveKeepsQueue DEF EventInv
  <1> QED BY <1>2 DEF EventInv, CancelEvent

LEMMA AdvanceKeepsQueue ==
  ASSUME EventInv, NEW time \in now .. MaxTime, AdvanceToTime(time)
  PROVE  EventInv'
  <1>1. now \in 0 .. MaxTime /\ MaxTime \in Nat
    BY ObjectConstants DEF EventInv, QueueInv
  <1>2. target' \in 0 .. MaxTime
    BY <1>1 DEF AdvanceToTime
  <1> QED BY <1>2 DEF EventInv, AdvanceToTime

LEMMA PopKeepsQueue ==
  ASSUME EventInv, PopEvent
  PROVE  EventInv'
  <1>1. /\ queue # <<>> /\ queue' = Tail(queue) /\ now' = Head(queue).time
        /\ UNCHANGED <<target, posts>>
    BY DEF PopEvent, Due
  <1>2. QueueInv(Tail(queue), Head(queue).time, posts)
    BY <1>1, TailKeepsQueue DEF EventInv
  <1> QED BY <1>1, <1>2 DEF EventInv

LEMMA EndAdvanceKeepsQueue ==
  ASSUME EventInv, EndAdvance
  PROVE  EventInv'
  <1>1. ~Due /\ now' = target /\ UNCHANGED <<queue, target, posts>>
    BY DEF EndAdvance
  <1>2. QueueInv(queue, now, posts) /\ target \in 0 .. MaxTime /\ target \in Int
    BY ObjectConstants DEF EventInv
  <1>3. From(queue, target)
    <2> SUFFICES ASSUME NEW i \in DOMAIN queue PROVE queue[i].time >= target
      BY DEF From
    <2>1. /\ queue \in Seq(Events) /\ 1 \in DOMAIN queue /\ queue # <<>> /\ Head(queue) = queue[1]
          /\ DOMAIN queue \subseteq Nat \ {0}
      BY <1>2 DEF QueueInv
    <2>2. queue[1] \in Events /\ queue[i] \in Events
      BY <2>1
    <2>3. queue[1].time > target
      BY <1>1, <1>2, <2>1, <2>2, EventFields DEF Due
    <2>4. CASE i = 1
      BY <1>2, <2>2, <2>3, <2>4, EventFields
    <2>5. CASE i # 1
      <3>1. 1 < i
        BY <2>1, <2>5
      <3>2. Before(queue[1], queue[i])
        BY <1>2, <2>1, <3>1 DEF QueueInv, Ordered
      <3>3. queue[1].time =< queue[i].time
        BY <2>2, <3>2, EventFields DEF Before
      <3> QED BY <1>2, <2>2, <2>3, <3>3, EventFields
    <2> QED BY <2>4, <2>5
  <1>4. QueueInv(queue, target, posts)
    BY <1>2, <1>3 DEF QueueInv
  <1> QED BY <1>1, <1>2, <1>4 DEF EventInv

LEMMA UnregisterKeepsQueue ==
  ASSUME EventInv, NEW o, NEW below, NEW delete, Unregister(o, below, delete)
  PROVE  EventInv'
  <1>1. CancelPendingEvents(o) /\ UNCHANGED <<now, target, posts>>
    BY DEF Unregister
  <1>2. QueueInv(queue', now, posts)
    BY <1>1, CancelKeepsQueue DEF EventInv
  <1> QED BY <1>1, <1>2 DEF EventInv

LEMMA NextQueue == ASSUME EventInv, [Next]_vars PROVE EventInv'
  <1>1. ASSUME UNCHANGED eventVars PROVE EventInv'
    BY <1>1 DEF EventInv, eventVars
  <1>2. ASSUME NEW o \in Objects, RegisterObject(o) PROVE EventInv'
    BY <1>1, <1>2 DEF RegisterObject
  <1>3. ASSUME NEW s \in Sets, NEW o \in Objects, AddToSet(s, o) \/ RemoveFromSet(s, o)
        PROVE  EventInv'
    BY <1>1, <1>3 DEF AddToSet, RemoveFromSet
  <1>4. ASSUME NEW g \in Groups, NEW o \in Objects, AddToGroup(g, o) \/ RemoveFromGroup(g, o)
        PROVE  EventInv'
    BY <1>1, <1>4 DEF AddToGroup, RemoveFromGroup
  <1>5. ASSUME NEW r \in Refs, NEW o \in Objects, SetRef(r, o) PROVE EventInv'
    BY <1>1, <1>5 DEF SetRef
  <1>6. ASSUME NEW o \in Objects, DeleteObject(o) PROVE EventInv'
    BY <1>1, <1>6 DEF DeleteObject
  <1>7. CASE EndEvent \/ EndGroupOnRemove \/ UnregisterChild
    BY <1>1, <1>7 DEF EndEvent, EndGroupOnRemove, UnregisterChild
  <1>8. CASE EndOnRemove \/ EndGroup
    BY <1>8, UnregisterKeepsQueue DEF EndOnRemove, EndGroup
  <1>9. CASE UNCHANGED vars
    BY <1>1, <1>9 DEF vars
  <1> QED BY <1>2, <1>3, <1>4, <1>5, <1>6, <1>7, <1>8, <1>9, PostKeepsQueue, CancelEventKeepsQueue,
             AdvanceKeepsQueue, PopKeepsQueue, EndAdvanceKeepsQueue DEF Next

\* Events run at their time, those of the same time in the order of posting
\* (postEvent, cancelEvent, cancelPendingEvents, advanceToTime).
THEOREM EventsKeepOrder == Spec => []EventsInOrder
  <1>1. EventInv => EventsInOrder
    BY DEF EventInv, QueueInv, Ordered, From, EventsInOrder
  <1> QED BY <1>1, InitQueue, NextQueue, PTL DEF Spec

-----------------------------------------------------------------------------
(* How often an element occurs in a sequence.                              *)

At(s, e)    == {i \in DOMAIN s : s[i] = e}
Count(s, e) == Cardinality(At(s, e))

LEMMA AtIsFinite ==
  ASSUME NEW S, NEW s \in Seq(S), NEW e
  PROVE  IsFiniteSet(At(s, e)) /\ At(s, e) \in SUBSET (1 .. Len(s))
  <1>1. DOMAIN s = 1 .. Len(s) /\ Len(s) \in Nat
    OBVIOUS
  <1>2. IsFiniteSet(1 .. Len(s))
    BY <1>1, FS_Interval
  <1>3. At(s, e) \in SUBSET (1 .. Len(s))
    BY <1>1 DEF At
  <1> QED BY <1>2, <1>3, FS_Subset

LEMMA CountType ==
  ASSUME NEW S, NEW s \in Seq(S), NEW e
  PROVE  /\ Count(s, e) \in Nat
         /\ Count(s, e) = 0 <=> ~Contains(s, e)
         /\ Count(s, e) = 0 <=> At(s, e) = {}
         /\ s = <<>> => Count(s, e) = 0
  <1>1. IsFiniteSet(At(s, e)) /\ DOMAIN s = 1 .. Len(s)
    BY AtIsFinite
  <1>2. Cardinality(At(s, e)) \in Nat /\ (Cardinality(At(s, e)) = 0 <=> At(s, e) = {})
    BY <1>1, FS_CardinalityType, FS_EmptySet
  <1>3. At(s, e) = {} <=> ~Contains(s, e)
    BY <1>1 DEF At, Contains
  <1>4. s = <<>> => At(s, e) = {}
    BY DEF At
  <1> QED BY <1>2, <1>3, <1>4 DEF Count

\* A sequence without elements is empty.
LEMMA CountNone ==
  ASSUME NEW S, NEW s \in Seq(S), \A e \in S : Count(s, e) = 0
  PROVE  s = <<>>
  <1> SUFFICES ASSUME s # <<>> PROVE FALSE
    OBVIOUS
  <1>1. 1 \in DOMAIN s /\ s[1] \in S
    OBVIOUS
  <1>2. 1 \in At(s, s[1])
    BY <1>1 DEF At
  <1> QED BY <1>1, <1>2, CountType

\* The elements of t at I are those of s at J, if f maps I to J one to one.
LEMMA SameNumber ==
  ASSUME NEW I, NEW J, IsFiniteSet(I), NEW f \in [I -> J],
         \A i, k \in I : f[i] = f[k] => i = k,
         \A j \in J : \E i \in I : f[i] = j
  PROVE  Cardinality(J) = Cardinality(I)
  <1>1. f \in Bijection(I, J)
    BY Fun_IsBij
  <1>2. ExistsBijection(I, J)
    BY <1>1 DEF ExistsBijection
  <1> QED BY <1>2, FS_Bijection

LEMMA CountTaken ==
  ASSUME NEW S, NEW s \in Seq(S), NEW k \in 1 .. Len(s)
  PROVE  /\ Count(RemoveAt(s, k), s[k]) = Count(s, s[k]) - 1
         /\ Count(s, s[k]) > 0
         /\ \A e : e # s[k] => Count(RemoveAt(s, k), e) = Count(s, e)
  <1> DEFINE t == RemoveAt(s, k)
  <1>1. Len(s) \in Nat /\ DOMAIN s = 1 .. Len(s) /\ k \in Nat
    OBVIOUS
  <1>2. /\ t \in Seq(S) /\ Len(t) = Len(s) - 1
        /\ \A i \in 1 .. Len(s) - 1 : t[i] = IF i < k THEN s[i] ELSE s[i + 1]
    BY RemoveAtFacts
  <1> HIDE DEF t
  <1>3. DOMAIN t = 1 .. Len(s) - 1
    BY <1>1, <1>2
  <1>4. ASSUME NEW e PROVE Cardinality(At(s, e) \ {k}) = Count(t, e)
    <2> DEFINE I == At(t, e)
               J == At(s, e) \ {k}
               f == [i \in I |-> IF i < k THEN i ELSE i + 1]
    <2>1. \A i \in I : /\ i \in 1 .. Len(s) - 1
                       /\ t[i] = e
                       /\ f[i] = IF i < k THEN i ELSE i + 1
      BY <1>3 DEF At
    <2>2. ASSUME NEW i \in I PROVE f[i] \in J
      <3>1. i \in 1 .. Len(s) - 1 /\ t[i] = e
        BY <2>1
      <3>2. CASE i < k
        BY <1>1, <1>2, <2>1, <3>1, <3>2 DEF At
      <3>3. CASE ~(i < k)
        <4>1. f[i] = i + 1 /\ i + 1 \in DOMAIN s /\ i + 1 # k /\ s[i + 1] = e
          BY <1>1, <1>2, <2>1, <3>1, <3>3
        <4> QED BY <4>1 DEF At
      <3> QED BY <3>2, <3>3
    <2>3. f \in [I -> J]
      <3> HIDE DEF I, J
      <3> QED BY <2>2
    <2>4. \A i, j \in I : f[i] = f[j] => i = j
      BY <1>1, <2>1
    <2>5. ASSUME NEW j \in J PROVE \E i \in I : f[i] = j
      <3>1. j \in 1 .. Len(s) /\ j # k /\ s[j] = e
        BY <1>1 DEF At
      <3>2. CASE j < k
        <4>1. j \in DOMAIN t /\ t[j] = e
          BY <1>1, <1>2, <1>3, <3>1, <3>2
        <4>2. j \in I
          BY <4>1 DEF At
        <4> QED BY <2>1, <3>2, <4>2
      <3>3. CASE j > k
        <4>1. j - 1 \in DOMAIN t /\ ~(j - 1 < k) /\ (j - 1) + 1 = j
          BY <1>1, <1>3, <3>1, <3>3
        <4>2. t[j - 1] = e
          BY <1>2, <1>3, <3>1, <4>1
        <4>3. j - 1 \in I
          BY <4>1, <4>2 DEF At
        <4> QED BY <2>1, <4>1, <4>3
      <3> QED BY <1>1, <3>1, <3>2, <3>3
    <2>6. IsFiniteSet(I)
      BY <1>2, AtIsFinite
    <2> HIDE DEF I, J, f
    <2>7. Cardinality(J) = Cardinality(I)
      BY <2>3, <2>4, <2>5, <2>6, SameNumber
    <2> QED BY <2>7 DEF Count, I, J
  <1>5. k \in At(s, s[k])
    BY <1>1 DEF At
  <1>6. Cardinality(At(s, s[k]) \ {k}) = Cardinality(At(s, s[k])) - 1
    BY <1>5, AtIsFinite, FS_RemoveElement
  <1>7. \A e : e # s[k] => At(s, e) \ {k} = At(s, e)
    BY DEF At
  <1>8. Count(s, s[k]) > 0
    BY <1>5, CountType
  <1> QED BY <1>4, <1>6, <1>7, <1>8 DEF Count, t

LEMMA CountRemoved ==
  ASSUME NEW S, NEW s \in Seq(S), NEW e
  PROVE  /\ Count(s, e) = 0 => Count(RemoveFirst(s, e), e) = 0
         /\ Count(s, e) > 0 => Count(RemoveFirst(s, e), e) = Count(s, e) - 1
         /\ \A m : m # e => Count(RemoveFirst(s, e), m) = Count(s, m)
  <1>1. CASE ~Contains(s, e) /\ RemoveFirst(s, e) = s
    BY <1>1, CountType
  <1>2. ASSUME NEW k, FirstAt(s, e, k), RemoveFirst(s, e) = RemoveAt(s, k)
        PROVE  /\ Count(s, e) > 0
               /\ Count(RemoveFirst(s, e), e) = Count(s, e) - 1
               /\ \A m : m # e => Count(RemoveFirst(s, e), m) = Count(s, m)
    <2>1. k \in 1 .. Len(s) /\ s[k] = e
      BY <1>2 DEF FirstAt
    <2> QED BY <1>2, <2>1, CountTaken
  <1>3. Count(s, e) \in Nat
    BY CountType
  <1> QED BY <1>1, <1>2, <1>3, RemoveFirstFacts

LEMMA TailIsTaken ==
  ASSUME NEW S, NEW s \in Seq(S), s # <<>>
  PROVE  Tail(s) = RemoveAt(s, 1) /\ 1 \in 1 .. Len(s) /\ Head(s) = s[1]
  <1>1. Len(s) \in Nat /\ 1 \in 1 .. Len(s) /\ Head(s) = s[1]
    OBVIOUS
  <1>2. /\ RemoveAt(s, 1) \in Seq(S) /\ Len(RemoveAt(s, 1)) = Len(s) - 1
        /\ \A i \in 1 .. Len(s) - 1 : RemoveAt(s, 1)[i] = IF i < 1 THEN s[i] ELSE s[i + 1]
    BY <1>1, RemoveAtFacts
  <1>3. Tail(s) \in Seq(S) /\ Len(Tail(s)) = Len(s) - 1
        /\ \A i \in 1 .. Len(s) - 1 : Tail(s)[i] = s[i + 1]
    OBVIOUS
  <1>4. \A i \in 1 .. Len(s) - 1 : RemoveAt(s, 1)[i] = Tail(s)[i]
    BY <1>1, <1>2, <1>3
  <1> QED BY <1>1, <1>2, <1>3, <1>4

LEMMA CountPushed ==
  ASSUME NEW S, NEW s \in Seq(S), NEW e \in S
  PROVE  /\ <<e>> \o s \in Seq(S) /\ Len(<<e>> \o s) = Len(s) + 1
         /\ Count(<<e>> \o s, e) = Count(s, e) + 1
         /\ \A m : m # e => Count(<<e>> \o s, m) = Count(s, m)
  <1> DEFINE t == <<e>> \o s
  <1>1. t \in Seq(S) /\ t # <<>> /\ Tail(t) = s /\ Head(t) = e /\ Len(t) = Len(s) + 1
    OBVIOUS
  <1> HIDE DEF t
  <1>2. RemoveAt(t, 1) = s /\ 1 \in 1 .. Len(t) /\ t[1] = e
    BY <1>1, TailIsTaken
  <1>3. Count(s, e) = Count(t, e) - 1 /\ \A m : m # e => Count(s, m) = Count(t, m)
    BY <1>1, <1>2, CountTaken
  <1>4. Count(s, e) \in Nat /\ Count(t, e) \in Nat
    BY <1>1, CountType
  <1> QED BY <1>1, <1>3, <1>4 DEF t

-----------------------------------------------------------------------------
(* Notes.                                                                  *)

AllNotes == NotesTo("DeleteNotify", Objects) \cup NotesTo("ClearNotify", Objects)
              \cup NotesTo("ObjectRef", Refs)

NotesType(all) == all \in [Objects -> Seq(AllNotes)]

LEMMA NotesDiffer ==
  /\ \A w, x \in Objects : DeleteNote(w) \in AllNotes /\ ClearNote(x) \in AllNotes
  /\ \A r \in Refs : RefNote(r) \in AllNotes
  /\ \A w, x : DeleteNote(w) = DeleteNote(x) => w = x
  /\ \A w, x : ClearNote(w) = ClearNote(x) => w = x
  /\ \A w, x : RefNote(w) = RefNote(x) => w = x
  /\ \A w, x : DeleteNote(w) # ClearNote(x) /\ DeleteNote(w) # RefNote(x)
               /\ ClearNote(w) # RefNote(x)
  BY DEF DeleteNote, ClearNote, RefNote, AllNotes, NotesTo

\* A note is of one of three kinds.
LEMMA NoteKinds ==
  ASSUME NEW note \in AllNotes
  PROVE  \/ note.type = "DeleteNotify" /\ note.ptr \in Objects /\ note = DeleteNote(note.ptr)
         \/ note.type = "ClearNotify" /\ note.ptr \in Objects /\ note = ClearNote(note.ptr)
         \/ note.type = "ObjectRef" /\ note.ptr \in Refs /\ note = RefNote(note.ptr)
  BY DEF DeleteNote, ClearNote, RefNote, AllNotes, NotesTo

\* The notes `new' are `all' with one note less with o, if it has it.
Less(new, all, o, note) ==
  /\ NotesType(new)
  /\ \A x \in Objects : Len(new[x]) =< Len(all[x])
  /\ \A x \in Objects : \A m : ~(x = o /\ m = note) => Count(new[x], m) = Count(all[x], m)
  /\ Count(all[o], note) = 0 => Count(new[o], note) = 0
  /\ Count(all[o], note) > 0 => Count(new[o], note) = Count(all[o], note) - 1

\* One more.
More(new, all, o, note) ==
  /\ NotesType(new)
  /\ \A x \in Objects : \A m : ~(x = o /\ m = note) => Count(new[x], m) = Count(all[x], m)
  /\ Count(new[o], note) = Count(all[o], note) + 1
  /\ \A x \in Objects : x # o => new[x] = all[x]

\* The two halves of the note of w with x.
Cut(new, all, w, x) ==
  /\ NotesType(new)
  /\ \A y \in Objects : Len(new[y]) =< Len(all[y])
  /\ \A y \in Objects : \A m : ~(y = x /\ m = DeleteNote(w)) /\ ~(y = w /\ m = ClearNote(x)) =>
       Count(new[y], m) = Count(all[y], m)
  /\ Count(all[x], DeleteNote(w)) = 0 => Count(new[x], DeleteNote(w)) = 0
  /\ Count(all[x], DeleteNote(w)) > 0 =>
       Count(new[x], DeleteNote(w)) = Count(all[x], DeleteNote(w)) - 1
  /\ Count(all[w], ClearNote(x)) = 0 => Count(new[w], ClearNote(x)) = 0
  /\ Count(all[w], ClearNote(x)) > 0 =>
       Count(new[w], ClearNote(x)) = Count(all[w], ClearNote(x)) - 1

LEMMA CountOfNotes ==
  ASSUME NEW all, NotesType(all), NEW x \in Objects, NEW m
  PROVE  /\ Count(all[x], m) \in Nat /\ all[x] \in Seq(AllNotes) /\ Len(all[x]) \in Nat
         /\ Count(all[x], m) = 0 <=> ~Contains(all[x], m)
         /\ Count(all[x], m) = 0 <=> At(all[x], m) = {}
         /\ all[x] = <<>> => Count(all[x], m) = 0
  <1>1. all[x] \in Seq(AllNotes)
    BY DEF NotesType
  <1> QED BY <1>1, CountType

LEMMA RemoveNoteIsLess ==
  ASSUME NEW all, NotesType(all), NEW o \in Objects, NEW note
  PROVE  Less(RemoveNote(all, o, note), all, o, note)
  <1> DEFINE new == RemoveNote(all, o, note)
  <1>1. new = [all EXCEPT ![o] = RemoveFirst(all[o], note)]
    BY DEF RemoveNote
  <1>2. \A x \in Objects : all[x] \in Seq(AllNotes) /\ Len(all[x]) \in Nat
    BY CountOfNotes
  <1>3. /\ RemoveFirst(all[o], note) \in Seq(AllNotes)
        /\ Len(RemoveFirst(all[o], note)) =< Len(all[o])
    BY <1>2, RemoveFirstType
  <1> HIDE DEF new
  <1>4. new[o] = RemoveFirst(all[o], note) /\ \A x \in Objects : x # o => new[x] = all[x]
    BY <1>1 DEF NotesType
  <1>5. NotesType(new)
    BY <1>1, <1>3 DEF NotesType
  <1>6. \A x \in Objects : Len(new[x]) =< Len(all[x])
    BY <1>2, <1>3, <1>4
  <1>7. /\ Count(all[o], note) = 0 => Count(new[o], note) = 0
        /\ Count(all[o], note) > 0 => Count(new[o], note) = Count(all[o], note) - 1
        /\ \A m : m # note => Count(new[o], m) = Count(all[o], m)
    BY <1>2, <1>4, CountRemoved
  <1> QED BY <1>4, <1>5, <1>6, <1>7 DEF Less, new

LEMMA RemoveAtIsLess ==
  ASSUME NEW all, NotesType(all), NEW o \in Objects, NEW k \in 1 .. Len(all[o])
  PROVE  /\ Less([all EXCEPT ![o] = RemoveAt(@, k)], all, o, all[o][k])
         /\ Len([all EXCEPT ![o] = RemoveAt(@, k)][o]) = Len(all[o]) - 1
         /\ Count(all[o], all[o][k]) > 0
  <1> DEFINE new == [all EXCEPT ![o] = RemoveAt(@, k)]
             s == all[o]
             note == s[k]
  <1>1. \A x \in Objects : all[x] \in Seq(AllNotes) /\ Len(all[x]) \in Nat
    BY CountOfNotes
  <1>2. s \in Seq(AllNotes) /\ k \in 1 .. Len(s)
    BY <1>1
  <1>3. RemoveAt(s, k) \in Seq(AllNotes) /\ Len(RemoveAt(s, k)) = Len(s) - 1
    BY <1>2, RemoveAtFacts
  <1>4. new[o] = RemoveAt(s, k) /\ \A x \in Objects : x # o => new[x] = all[x]
    BY DEF NotesType
  <1>5. NotesType(new)
    BY <1>3 DEF NotesType
  <1> HIDE DEF new, s
  <1>6. \A x \in Objects : Len(new[x]) =< Len(all[x])
    BY <1>1, <1>3, <1>4 DEF s
  <1>7. /\ Count(RemoveAt(s, k), note) = Count(s, note) - 1
        /\ Count(s, note) > 0
        /\ \A e : e # note => Count(RemoveAt(s, k), e) = Count(s, e)
    BY <1>2, CountTaken
  <1> HIDE DEF note
  <1>8. /\ Count(new[o], note) = Count(all[o], note) - 1 /\ Count(all[o], note) > 0
        /\ \A e : e # note => Count(new[o], e) = Count(all[o], e)
    BY <1>4, <1>7 DEF s
  <1>9. \A x \in Objects : \A m : ~(x = o /\ m = note) => Count(new[x], m) = Count(all[x], m)
    BY <1>4, <1>8
  <1>10. Less(new, all, o, note)
    BY <1>5, <1>6, <1>8, <1>9 DEF Less
  <1> QED BY <1>3, <1>4, <1>8, <1>10 DEF new, s, note

LEMMA AddNoteIsMore ==
  ASSUME NEW all, NotesType(all), NEW o \in Objects, NEW note \in AllNotes
  PROVE  More(AddNote(all, o, note), all, o, note)
  <1> DEFINE new == AddNote(all, o, note)
  <1>1. new = [all EXCEPT ![o] = <<note>> \o all[o]]
    BY DEF AddNote
  <1>2. all[o] \in Seq(AllNotes)
    BY CountOfNotes
  <1>3. /\ <<note>> \o all[o] \in Seq(AllNotes)
        /\ Count(<<note>> \o all[o], note) = Count(all[o], note) + 1
        /\ \A m : m # note => Count(<<note>> \o all[o], m) = Count(all[o], m)
    BY <1>2, CountPushed
  <1> HIDE DEF new
  <1>4. new[o] = <<note>> \o all[o] /\ \A x \in Objects : x # o => new[x] = all[x]
    BY <1>1 DEF NotesType
  <1>5. NotesType(new)
    BY <1>1, <1>3 DEF NotesType
  <1> QED BY <1>3, <1>4, <1>5 DEF More, new

\* The two halves may go in either order.
LEMMA LessIsCut ==
  ASSUME NEW all, NotesType(all), NEW w \in Objects, NEW x \in Objects, NEW mid, NEW new,
         \/ Less(mid, all, x, DeleteNote(w)) /\ Less(new, mid, w, ClearNote(x))
         \/ Less(mid, all, w, ClearNote(x)) /\ Less(new, mid, x, DeleteNote(w))
  PROVE  Cut(new, all, w, x)
  <1>1. DeleteNote(w) # ClearNote(x)
    BY NotesDiffer
  <1>2. NotesType(new) /\ NotesType(mid)
    BY DEF Less
  <1>3. \A y \in Objects : Len(new[y]) =< Len(all[y])
    <2> SUFFICES ASSUME NEW y \in Objects PROVE Len(new[y]) =< Len(all[y])
      OBVIOUS
    <2>1. Len(new[y]) \in Nat /\ Len(mid[y]) \in Nat /\ Len(all[y]) \in Nat
      BY <1>2, CountOfNotes
    <2>2. Len(new[y]) =< Len(mid[y]) /\ Len(mid[y]) =< Len(all[y])
      BY DEF Less
    <2> QED BY <2>1, <2>2
  <1>4. CASE Less(mid, all, x, DeleteNote(w)) /\ Less(new, mid, w, ClearNote(x))
    BY <1>1, <1>2, <1>3, <1>4 DEF Cut, Less
  <1>5. CASE Less(mid, all, w, ClearNote(x)) /\ Less(new, mid, x, DeleteNote(w))
    BY <1>1, <1>2, <1>3, <1>5 DEF Cut, Less
  <1> QED BY <1>4, <1>5

LEMMA ClearNotifyIsCut ==
  ASSUME NEW all, NotesType(all), NEW w \in Objects, NEW x \in Objects
  PROVE  Cut(ClearNotify(all, w, x), all, w, x)
  <1> DEFINE mid == RemoveNote(all, x, DeleteNote(w))
  <1>1. Less(mid, all, x, DeleteNote(w))
    BY RemoveNoteIsLess
  <1>2. NotesType(mid)
    BY <1>1 DEF Less
  <1> HIDE DEF mid
  <1>3. Less(RemoveNote(mid, w, ClearNote(x)), mid, w, ClearNote(x))
    BY <1>2, RemoveNoteIsLess
  <1>4. ClearNotify(all, w, x) = RemoveNote(mid, w, ClearNote(x))
    BY DEF ClearNotify, mid
  <1> QED BY <1>1, <1>3, <1>4, LessIsCut

-----------------------------------------------------------------------------
(* What holds of the notes, the lists of the sets in S, and the pointers.  *)

Paired(all) ==
  \A w, x \in Objects : Count(all[x], DeleteNote(w)) = Count(all[w], ClearNote(x))

OfSets(all) ==
  \A w, x \in Objects : Count(all[x], DeleteNote(w)) > 0 => w \in Sets

RefsNoted(all, pointers) ==
  \A r \in Refs, x \in Objects :
    /\ pointers[r] = x => Count(all[x], RefNote(r)) = 1
    /\ pointers[r] # x => Count(all[x], RefNote(r)) = 0

MembersNoted(all, lists, S) ==
  \A s \in S, x \in Objects : Contains(lists[s], x) => Count(all[x], DeleteNote(s)) > 0

NotesInv(all, lists, pointers, S) ==
  /\ NotesType(all) /\ Paired(all) /\ OfSets(all)
  /\ RefsNoted(all, pointers) /\ MembersNoted(all, lists, S)

\* Both halves of a note of w with x go: if w is a set of S, x has left its list.
LEMMA CutKeepsNotes ==
  ASSUME NEW lists, NEW pointers, NEW S, S \subseteq Objects, NEW all,
         NotesInv(all, lists, pointers, S), NEW w \in Objects, NEW x \in Objects,
         NEW new, Cut(new, all, w, x), w \in S => ~Contains(lists[w], x)
  PROVE  NotesInv(new, lists, pointers, S)
  <1>1. NotesType(all) /\ NotesType(new)
    BY DEF NotesInv, Cut
  <1>2. ASSUME NEW v \in Objects, NEW y \in Objects
        PROVE  /\ Count(new[y], DeleteNote(v)) = Count(new[v], ClearNote(y))
               /\ Count(new[y], DeleteNote(v)) > 0 => Count(all[y], DeleteNote(v)) > 0
               /\ ~(v = w /\ y = x) => Count(new[y], DeleteNote(v)) = Count(all[y], DeleteNote(v))
    <2>1. Count(all[y], DeleteNote(v)) = Count(all[v], ClearNote(y))
      BY DEF NotesInv, Paired
    <2>2. Count(all[y], DeleteNote(v)) \in Nat /\ Count(new[y], DeleteNote(v)) \in Nat
      BY <1>1, CountOfNotes
    <2>3. CASE v = w /\ y = x
      BY <2>1, <2>2, <2>3 DEF Cut
    <2>4. CASE ~(v = w /\ y = x)
      <3>1. ~(y = x /\ DeleteNote(v) = DeleteNote(w)) /\ ~(y = w /\ DeleteNote(v) = ClearNote(x))
        BY <2>4, NotesDiffer
      <3>2. ~(v = x /\ ClearNote(y) = DeleteNote(w)) /\ ~(v = w /\ ClearNote(y) = ClearNote(x))
        BY <2>4, NotesDiffer
      <3>3. Count(new[y], DeleteNote(v)) = Count(all[y], DeleteNote(v))
        BY <3>1 DEF Cut
      <3>4. Count(new[v], ClearNote(y)) = Count(all[v], ClearNote(y))
        BY <3>2 DEF Cut
      <3> QED BY <2>1, <3>3, <3>4
    <2> QED BY <2>3, <2>4
  <1>3. Paired(new)
    BY <1>2 DEF Paired
  <1>4. OfSets(new)
    BY <1>2 DEF OfSets, NotesInv
  <1>5. RefsNoted(new, pointers)
    <2>1. \A r \in Refs, y \in Objects : Count(new[y], RefNote(r)) = Count(all[y], RefNote(r))
      BY NotesDiffer DEF Cut
    <2> QED BY <2>1 DEF RefsNoted, NotesInv
  <1>6. MembersNoted(new, lists, S)
    <2> SUFFICES ASSUME NEW s \in S, NEW y \in Objects, Contains(lists[s], y)
                 PROVE  Count(new[y], DeleteNote(s)) > 0
      BY DEF MembersNoted
    <2>1. ~(s = w /\ y = x) /\ s \in Objects
      OBVIOUS
    <2>2. Count(all[y], DeleteNote(s)) > 0
      BY DEF NotesInv, MembersNoted
    <2> QED BY <1>2, <2>1, <2>2
  <1> QED BY <1>1, <1>3, <1>4, <1>5, <1>6 DEF NotesInv

\* Less members, and less sets.
LEMMA FewerMembers ==
  ASSUME NEW all, NEW lists, NEW pointers, NEW S, NotesInv(all, lists, pointers, S),
         NEW fewer, NEW U, U \subseteq S,
         \A s \in U, x \in Objects : Contains(fewer[s], x) => Contains(lists[s], x)
  PROVE  NotesInv(all, fewer, pointers, U)
  BY DEF NotesInv, MembersNoted

\* Only objects that had notes have notes.
NoneNew(new, all) == \A x \in Objects : all[x] = <<>> => new[x] = <<>>

LEMMA LessHasNoneNew ==
  ASSUME NEW all, NotesType(all), NEW new, NotesType(new),
         \A x \in Objects : Len(new[x]) =< Len(all[x])
  PROVE  NoneNew(new, all)
  <1> SUFFICES ASSUME NEW x \in Objects, all[x] = <<>> PROVE new[x] = <<>>
    BY DEF NoneNew
  <1>1. new[x] \in Seq(AllNotes) /\ Len(new[x]) =< 0 /\ Len(new[x]) \in Nat
    <2>1. Len(all[x]) = 0 /\ Len(new[x]) =< Len(all[x])
      OBVIOUS
    <2> QED BY <2>1, CountOfNotes
  <1>2. Len(new[x]) = 0
    BY <1>1
  <1> QED BY <1>1, <1>2

-----------------------------------------------------------------------------
(* The loops of unregisterObject.                                          *)

\* A loop over notes, of which each round keeps what holds of them.
NotesLoop(new, all, lists, pointers, S) ==
  /\ NotesInv(new, lists, pointers, S)
  /\ \A x \in Objects : Len(new[x]) =< Len(all[x])

LEMMA NotesLoopGoesOn ==
  ASSUME NEW all, NotesType(all), NEW lists, NEW pointers, NEW S, NEW mid, NEW new,
         NotesLoop(mid, all, lists, pointers, S), NotesLoop(new, mid, lists, pointers, S)
  PROVE  NotesLoop(new, all, lists, pointers, S)
  <1>1. NotesType(mid) /\ NotesType(new)
    BY DEF NotesLoop, NotesInv
  <1>2. \A x \in Objects : Len(new[x]) =< Len(all[x])
    <2> SUFFICES ASSUME NEW x \in Objects PROVE Len(new[x]) =< Len(all[x])
      OBVIOUS
    <2>1. Len(new[x]) \in Nat /\ Len(mid[x]) \in Nat /\ Len(all[x]) \in Nat
      BY <1>1, CountOfNotes
    <2>2. Len(new[x]) =< Len(mid[x]) /\ Len(mid[x]) =< Len(all[x])
      BY DEF NotesLoop
    <2> QED BY <2>1, <2>2
  <1> QED BY <1>2 DEF NotesLoop

\* The loop of SimSet::onRemove.
LEMMA SetOnRemoveKeepsNotes ==
  ASSUME NEW s \in Sets, list[s] \in Seq(Objects), NEW lists, NEW pointers,
         NEW S, S \subseteq Objects, s \notin S, NEW all, NotesInv(all, lists, pointers, S)
  PROVE  NotesLoop(SetOnRemove(all, s), all, lists, pointers, S)
  <1> DEFINE D == [Objects -> Seq(AllNotes)]
             m == list[s]
             N == Len(m)
             step == [p \in D \X (Nat \ {0}) |->
                        IF p[2] \in 1 .. N THEN ClearNotify(p[1], s, m[N + 1 - p[2]]) ELSE p[1]]
             IsLoop(f) == f = [n \in 0 .. N |-> IF n = 0 THEN all
                                                ELSE ClearNotify(f[n - 1], s, m[N + 1 - n])]
             clear == CHOOSE f : IsLoop(f)
  <1>1. N \in Nat /\ all \in D /\ s \in Objects /\ NotesType(all)
    BY ObjectConstants DEF NotesInv, NotesType
  <1>2. \A n \in 1 .. N : m[N + 1 - n] \in Objects
    <2> SUFFICES ASSUME NEW n \in 1 .. N PROVE m[N + 1 - n] \in Objects
      OBVIOUS
    <2>1. N + 1 - n \in 1 .. N
      BY <1>1
    <2> QED BY <2>1
  <1>3. \A acc \in D, n \in 1 .. N : ClearNotify(acc, s, m[N + 1 - n]) \in D
    <2> SUFFICES ASSUME NEW acc \in D, NEW n \in 1 .. N
                 PROVE  ClearNotify(acc, s, m[N + 1 - n]) \in D
      OBVIOUS
    <2>1. NotesType(acc)
      BY DEF NotesType
    <2>2. Cut(ClearNotify(acc, s, m[N + 1 - n]), acc, s, m[N + 1 - n])
      BY <1>1, <1>2, <2>1, ClearNotifyIsCut
    <2> QED BY <2>2 DEF Cut, NotesType
  <1>4. step \in [D \X (Nat \ {0}) -> D]
    <2> HIDE DEF D, N, m
    <2> QED BY <1>3
  <1>5. PICK f \in [0 .. N -> D] : Rounds(f, all, step, N)
    <2> HIDE DEF D, N, m, step
    <2> QED BY <1>1, <1>4, LoopExists
  <1>6. IsLoop(f)
    <2> SUFFICES ASSUME NEW n \in 0 .. N
                 PROVE  f[n] = IF n = 0 THEN all ELSE ClearNotify(f[n - 1], s, m[N + 1 - n])
      BY <1>5
    <2>1. CASE n = 0
      BY <1>5, <2>1 DEF Rounds
    <2>2. CASE n # 0
      <3> HIDE DEF D, N, m
      <3>1. n \in 1 .. N /\ n \in Nat \ {0} /\ n - 1 \in 0 .. N
        BY <1>1, <2>2
      <3>2. f[n - 1] \in D /\ f[n] = step[<<f[n - 1], n>>]
        BY <1>5, <3>1 DEF Rounds
      <3>3. step[<<f[n - 1], n>>] = ClearNotify(f[n - 1], s, m[N + 1 - n])
        BY <3>1, <3>2
      <3> QED BY <2>2, <3>2, <3>3
    <2> QED BY <2>1, <2>2
  <1>7. IsLoop(clear)
    BY <1>6
  <1>8. SetOnRemove(all, s) = clear[N]
    BY DEF SetOnRemove
  <1> HIDE DEF clear
  <1>9. clear[0] = all
    BY <1>1, <1>7
  <1>10. \A n \in 1 .. N : clear[n] = ClearNotify(clear[n - 1], s, m[N + 1 - n])
    <2> SUFFICES ASSUME NEW n \in 1 .. N
                 PROVE  clear[n] = ClearNotify(clear[n - 1], s, m[N + 1 - n])
      OBVIOUS
    <2>1. n \in 0 .. N /\ n # 0
      BY <1>1
    <2> QED BY <1>7, <2>1
  <1> HIDE DEF N, m
  <1> DEFINE Bad == {n \in 0 .. N : ~NotesLoop(clear[n], all, lists, pointers, S)}
  <1>11. Bad = {}
    <2> SUFFICES ASSUME Bad # {} PROVE FALSE
      OBVIOUS
    <2>1. PICK k \in Bad : \A n \in Bad : k =< n
      <3>1. Bad \subseteq Nat
        OBVIOUS
      <3> QED BY <3>1, LeastNumber
    <2>2. k \in 0 .. N /\ ~NotesLoop(clear[k], all, lists, pointers, S)
      BY <2>1
    <2>3. k # 0
      <3>1. \A x \in Objects : Len(all[x]) =< Len(all[x])
        BY <1>1, CountOfNotes
      <3> QED BY <1>9, <2>2, <3>1 DEF NotesLoop
    <2>4. k - 1 \in 0 .. N /\ k \in 1 .. N /\ ~(k =< k - 1)
      BY <1>1, <2>2, <2>3
    <2>5. NotesLoop(clear[k - 1], all, lists, pointers, S)
      BY <2>1, <2>4
    <2>6. NotesInv(clear[k - 1], lists, pointers, S) /\ NotesType(clear[k - 1])
      BY <2>5 DEF NotesLoop, NotesInv
    <2>7. Cut(clear[k], clear[k - 1], s, m[N + 1 - k])
      BY <1>1, <1>2, <1>10, <2>4, <2>6, ClearNotifyIsCut
    <2>8. NotesInv(clear[k], lists, pointers, S)
      BY <1>1, <1>2, <2>4, <2>6, <2>7, CutKeepsNotes
    <2>9. NotesLoop(clear[k], clear[k - 1], lists, pointers, S)
      BY <2>7, <2>8 DEF NotesLoop, Cut
    <2> QED BY <1>1, <2>2, <2>5, <2>9, NotesLoopGoesOn
  <1>12. NotesLoop(clear[N], all, lists, pointers, S)
    <2> HIDE DEF D
    <2>1. N \in 0 .. N
      BY <1>1
    <2> QED BY <1>11, <2>1
  <1> QED BY <1>8, <1>12

\* What holds at the start and goes on holding in each round, holds in the end.
LEMMA LoopEnds ==
  ASSUME NEW N \in Nat, NEW f, NEW Good, <<f[0], 0>> \in Good,
         \A n \in 1 .. N : <<f[n - 1], n - 1>> \in Good => <<f[n], n>> \in Good
  PROVE  <<f[N], N>> \in Good
  <1> DEFINE T == {n \in 0 .. N : <<f[n], n>> \notin Good}
  <1>1. SUFFICES ASSUME T # {} PROVE FALSE
    OBVIOUS
  <1>2. PICK k \in T : \A n \in T : k =< n
    <2>1. T \subseteq Nat
      OBVIOUS
    <2> QED BY <1>1, <2>1, LeastNumber
  <1>3. k # 0
    BY <1>2
  <1>4. k \in 1 .. N /\ k - 1 \in 0 .. N /\ ~(k =< k - 1)
    BY <1>2, <1>3
  <1> QED BY <1>2, <1>4

LEMMA FirstClearFacts ==
  ASSUME NEW own \in Seq(AllNotes)
  PROVE  \/ FirstClear(own) = 0 /\ \A x \in Objects : Count(own, ClearNote(x)) = 0
         \/ /\ FirstClear(own) \in 1 .. Len(own)
            /\ \E x \in Objects : own[FirstClear(own)] = ClearNote(x)
  <1> DEFINE I == {i \in 1 .. Len(own) : own[i].type = "ClearNotify"}
  <1>1. Len(own) \in Nat /\ DOMAIN own = 1 .. Len(own)
    OBVIOUS
  <1>2. CASE I = {}
    <2>1. FirstClear(own) = 0
      BY <1>2 DEF FirstClear, SelectInSeq
    <2>2. \A x \in Objects : ~Contains(own, ClearNote(x))
      BY <1>1, <1>2 DEF Contains, ClearNote
    <2> QED BY <2>1, <2>2, CountType
  <1>3. CASE I # {}
    <2>1. Min(I) \in I
      BY <1>1, <1>3, FirstNumber
    <2>2. FirstClear(own) = Min(I)
      BY <1>3 DEF FirstClear, SelectInSeq
    <2>3. own[Min(I)] \in AllNotes /\ own[Min(I)].type = "ClearNotify"
      BY <1>1, <2>1
    <2>4. \E x \in Objects : own[Min(I)] = ClearNote(x)
      BY <2>3, NoteKinds
    <2> QED BY <2>1, <2>2, <2>4
  <1> QED BY <1>2, <1>3

LEMMA ClearFirstType ==
  ASSUME NEW o \in Objects, NEW all, NotesType(all)
  PROVE  /\ NotesType(ClearFirst(all, o))
         /\ FirstClear(all[o]) = 0 => ClearFirst(all, o) = all
         /\ FirstClear(all[o]) # 0 =>
              /\ Len(ClearFirst(all, o)[o]) =< Len(all[o]) - 1
              /\ \E w \in Objects : Cut(ClearFirst(all, o), all, o, w)
  <1> DEFINE k == FirstClear(all[o])
             new == ClearFirst(all, o)
  <1>1. all[o] \in Seq(AllNotes) /\ Len(all[o]) \in Nat
    BY CountOfNotes
  <1>2. CASE k = 0
    BY <1>2 DEF ClearFirst
  <1>3. CASE k # 0
    <2>1. k \in 1 .. Len(all[o]) /\ \E x \in Objects : all[o][k] = ClearNote(x)
      BY <1>1, <1>3, FirstClearFacts
    <2>2. PICK x \in Objects : all[o][k] = ClearNote(x)
      BY <2>1
    <2> DEFINE mid == [all EXCEPT ![o] = RemoveAt(@, k)]
    <2>3. Less(mid, all, o, ClearNote(x)) /\ Len(mid[o]) = Len(all[o]) - 1
      BY <2>1, <2>2, RemoveAtIsLess
    <2>4. all[o][k].ptr = x
      BY <2>2 DEF ClearNote
    <2>5. new = RemoveNote(mid, x, DeleteNote(o))
      BY <1>3, <2>4 DEF ClearFirst
    <2> HIDE DEF mid, new, k
    <2>6. NotesType(mid)
      BY <2>3 DEF Less
    <2>7. Less(new, mid, x, DeleteNote(o))
      BY <2>5, <2>6, RemoveNoteIsLess
    <2>8. Cut(new, all, o, x)
      BY <2>3, <2>7, LessIsCut
    <2>9. Len(new[o]) =< Len(mid[o]) /\ Len(new[o]) \in Nat /\ NotesType(new)
      BY <2>7, CountOfNotes DEF Less
    <2>10. Len(new[o]) =< Len(all[o]) - 1
      BY <1>1, <2>3, <2>9
    <2> QED BY <1>3, <2>8, <2>9, <2>10 DEF k, new
  <1> QED BY <1>2, <1>3

\* The loop of clearAllNotifications: nothing notifies o after it.
LEMMA ClearAllExists ==
  ASSUME NEW o \in Objects, NEW all, NotesType(all)
  PROVE  \E f : /\ ClearAllNotifications(all, o) = f[Len(all[o])]
                /\ f[0] = all
                /\ \A n \in 1 .. Len(all[o]) : f[n] = ClearFirst(f[n - 1], o)
  <1> DEFINE D == [Objects -> Seq(AllNotes)]
             N == Len(all[o])
             step == [p \in D \X (Nat \ {0}) |-> ClearFirst(p[1], o)]
             IsLoop(f) == f = [n \in 0 .. N |-> IF n = 0 THEN all ELSE ClearFirst(f[n - 1], o)]
             clear == CHOOSE f : IsLoop(f)
  <1>1. N \in Nat /\ all \in D
    BY CountOfNotes DEF NotesType
  <1>2. \A acc \in D : ClearFirst(acc, o) \in D
    BY ClearFirstType DEF NotesType
  <1>3. step \in [D \X (Nat \ {0}) -> D]
    <2> HIDE DEF D, N
    <2> QED BY <1>2
  <1>4. PICK f \in [0 .. N -> D] : Rounds(f, all, step, N)
    <2> HIDE DEF D, N, step
    <2> QED BY <1>1, <1>3, LoopExists
  <1>5. IsLoop(f)
    <2> SUFFICES ASSUME NEW n \in 0 .. N
                 PROVE  f[n] = IF n = 0 THEN all ELSE ClearFirst(f[n - 1], o)
      BY <1>4
    <2>1. CASE n = 0
      BY <1>4, <2>1 DEF Rounds
    <2>2. CASE n # 0
      <3> HIDE DEF D, N
      <3>1. n \in 1 .. N /\ n \in Nat \ {0} /\ n - 1 \in 0 .. N
        BY <1>1, <2>2
      <3>2. f[n - 1] \in D /\ f[n] = step[<<f[n - 1], n>>]
        BY <1>4, <3>1 DEF Rounds
      <3>3. step[<<f[n - 1], n>>] = ClearFirst(f[n - 1], o)
        BY <3>1, <3>2
      <3> QED BY <2>2, <3>2, <3>3
    <2> QED BY <2>1, <2>2
  <1>6. IsLoop(clear)
    BY <1>5
  <1>7. ClearAllNotifications(all, o) = clear[N]
    BY DEF ClearAllNotifications
  <1> HIDE DEF clear
  <1>8. clear[0] = all
    BY <1>1, <1>6
  <1>9. \A n \in 1 .. N : clear[n] = ClearFirst(clear[n - 1], o)
    <2> SUFFICES ASSUME NEW n \in 1 .. N PROVE clear[n] = ClearFirst(clear[n - 1], o)
      OBVIOUS
    <2>1. n \in 0 .. N /\ n # 0
      BY <1>1
    <2> QED BY <1>6, <2>1
  <1> QED BY <1>7, <1>8, <1>9

LEMMA ClearAllKeepsNotes ==
  ASSUME NEW o \in Objects, NEW lists, NEW pointers,
         NEW S, S \subseteq Objects, o \notin S, NEW all, NotesInv(all, lists, pointers, S)
  PROVE  /\ NotesLoop(ClearAllNotifications(all, o), all, lists, pointers, S)
         /\ \A x \in Objects : Count(ClearAllNotifications(all, o)[o], ClearNote(x)) = 0
  <1> DEFINE N == Len(all[o])
             G(d, n) == /\ NotesLoop(d, all, lists, pointers, S)
                        /\ Len(d[o]) =< N - n \/ FirstClear(d[o]) = 0
             Good == {p \in [Objects -> Seq(AllNotes)] \X (0 .. N) : G(p[1], p[2])}
  <1>1. PICK f : /\ ClearAllNotifications(all, o) = f[N]
                 /\ f[0] = all
                 /\ \A n \in 1 .. N : f[n] = ClearFirst(f[n - 1], o)
    BY ClearAllExists DEF NotesInv
  <1>2. N \in Nat /\ NotesType(all)
    BY CountOfNotes DEF NotesInv
  <1>3. \A d, n : <<d, n>> \in Good <=> NotesType(d) /\ n \in 0 .. N /\ G(d, n)
    BY DEF NotesType
  <1> HIDE DEF Good
  <1>4. <<f[0], 0>> \in Good
    <2>1. \A x \in Objects : Len(all[x]) =< Len(all[x])
      BY <1>2, CountOfNotes
    <2>2. G(all, 0)
      BY <1>2, <2>1 DEF NotesLoop
    <2> QED BY <1>1, <1>2, <1>3, <2>2
  <1>5. ASSUME NEW n \in 1 .. N, <<f[n - 1], n - 1>> \in Good PROVE <<f[n], n>> \in Good
    <2> DEFINE mid == f[n - 1]
               new == f[n]
    <2>1. NotesType(mid) /\ G(mid, n - 1)
      BY <1>3, <1>5
    <2>2. new = ClearFirst(mid, o)
      BY <1>1
    <2>3. n \in 0 .. N
      BY <1>2
    <2> HIDE DEF mid, new
    <2>4. CASE FirstClear(mid[o]) = 0
      <3>1. new = mid
        BY <2>1, <2>2, <2>4, ClearFirstType
      <3> QED BY <1>3, <2>1, <2>3, <2>4, <3>1 DEF new
    <2>5. CASE FirstClear(mid[o]) # 0
      <3>1. /\ NotesType(new) /\ Len(new[o]) =< Len(mid[o]) - 1
            /\ \E w \in Objects : Cut(new, mid, o, w)
        BY <2>1, <2>2, <2>5, ClearFirstType
      <3>2. PICK w \in Objects : Cut(new, mid, o, w)
        BY <3>1
      <3>3. NotesInv(mid, lists, pointers, S)
        BY <2>1 DEF NotesLoop
      <3>4. NotesInv(new, lists, pointers, S)
        BY <3>2, <3>3, CutKeepsNotes
      <3>5. NotesLoop(new, mid, lists, pointers, S)
        BY <3>2, <3>4 DEF NotesLoop, Cut
      <3>6. NotesLoop(new, all, lists, pointers, S)
        BY <1>2, <2>1, <3>5, NotesLoopGoesOn
      <3>7. Len(mid[o]) =< N - (n - 1) /\ Len(mid[o]) \in Nat /\ Len(new[o]) \in Nat
        BY <2>1, <2>5, <3>1, CountOfNotes
      <3>8. Len(new[o]) =< N - n
        <4> HIDE DEF N
        <4> QED BY <1>2, <3>1, <3>7
      <3> QED BY <1>3, <2>3, <3>1, <3>6, <3>8 DEF new
    <2> QED BY <2>4, <2>5
  <1>6. <<f[N], N>> \in Good
    <2> HIDE DEF N
    <2> QED BY <1>2, <1>4, <1>5, LoopEnds
  <1>7. NotesType(f[N]) /\ G(f[N], N)
    BY <1>3, <1>6
  <1>8. \A x \in Objects : Count(f[N][o], ClearNote(x)) = 0
    <2>1. f[N][o] \in Seq(AllNotes) /\ Len(f[N][o]) \in Nat
      BY <1>7, CountOfNotes
    <2>2. CASE FirstClear(f[N][o]) = 0
      <3> SUFFICES ASSUME NEW x \in Objects PROVE Count(f[N][o], ClearNote(x)) = 0
        OBVIOUS
      <3>1. FirstClear(f[N][o]) \notin 1 .. Len(f[N][o])
        BY <2>1, <2>2
      <3> QED BY <2>1, <3>1, FirstClearFacts
    <2>3. CASE Len(f[N][o]) =< N - N
      <3>1. Len(f[N][o]) = 0
        <4> HIDE DEF N
        <4> QED BY <1>2, <2>1, <2>3
      <3>2. f[N][o] = <<>>
        BY <2>1, <3>1
      <3> QED BY <1>7, <3>2, CountOfNotes
    <2> QED BY <1>7, <2>2, <2>3
  <1> QED BY <1>1, <1>7, <1>8

LEMMA RemoveFirstMembers ==
  ASSUME NEW S, NEW s \in Seq(S), NEW e
  PROVE  /\ \A x : Contains(RemoveFirst(s, e), x) => Contains(s, x)
         /\ \A x : x # e /\ Contains(s, x) => Contains(RemoveFirst(s, e), x)
         /\ IsInjective(s) => IsInjective(RemoveFirst(s, e)) /\ ~Contains(RemoveFirst(s, e), e)
  <1> DEFINE t == RemoveFirst(s, e)
  <1>1. t \in Seq(S)
    BY RemoveFirstType
  <1>2. \A x : x # e => Count(t, x) = Count(s, x)
    BY CountRemoved
  <1>3. Count(s, e) = 0 => Count(t, e) = 0
    BY CountRemoved
  <1> HIDE DEF t
  <1>4. \A x : (Count(s, x) = 0 <=> ~Contains(s, x)) /\ (Count(t, x) = 0 <=> ~Contains(t, x))
    BY <1>1, CountType
  <1>5. (\A x : Contains(t, x) => Contains(s, x)) /\ \A x : x # e /\ Contains(s, x) => Contains(t, x)
    BY <1>2, <1>3, <1>4
  <1>6. ASSUME IsInjective(s) PROVE IsInjective(t) /\ ~Contains(t, e)
    <2>1. CASE ~Contains(s, e) /\ t = s
      BY <1>6, <2>1
    <2>2. ASSUME NEW k, FirstAt(s, e, k), t = RemoveAt(s, k)
          PROVE  IsInjective(t) /\ ~Contains(t, e)
      <3>1. k \in 1 .. Len(s) /\ s[k] = e /\ Len(s) \in Nat /\ DOMAIN s = 1 .. Len(s)
        BY <2>2 DEF FirstAt
      <3>2. /\ Len(t) = Len(s) - 1 /\ DOMAIN t = 1 .. Len(t)
            /\ \A i \in 1 .. Len(s) - 1 : t[i] = IF i < k THEN s[i] ELSE s[i + 1]
        <4>1. /\ Len(t) = Len(s) - 1
              /\ \A i \in 1 .. Len(s) - 1 : t[i] = IF i < k THEN s[i] ELSE s[i + 1]
          BY <2>2, <3>1, RemoveAtFacts
        <4>2. DOMAIN t = 1 .. Len(t)
          BY <1>1
        <4> QED BY <4>1, <4>2
      <3>3. \A i, j \in 1 .. Len(s) : s[i] = s[j] => i = j
        BY <1>6, <3>1 DEF IsInjective
      <3>4. ASSUME NEW i \in 1 .. Len(s) - 1
            PROVE  \E m \in 1 .. Len(s) : /\ t[i] = s[m] /\ m # k
                                          /\ m = IF i < k THEN i ELSE i + 1
        BY <3>1, <3>2
      <3>5. ASSUME NEW i \in 1 .. Len(s) - 1, NEW j \in 1 .. Len(s) - 1, t[i] = t[j]
            PROVE  i = j
        <4>1. PICK m \in 1 .. Len(s) : t[i] = s[m] /\ m = IF i < k THEN i ELSE i + 1
          BY <3>4
        <4>2. PICK n \in 1 .. Len(s) : t[j] = s[n] /\ n = IF j < k THEN j ELSE j + 1
          BY <3>4
        <4>3. m = n
          BY <3>3, <3>5, <4>1, <4>2
        <4> QED BY <3>1, <4>1, <4>2, <4>3
      <3>6. ASSUME NEW i \in 1 .. Len(s) - 1 PROVE t[i] # e
        BY <3>1, <3>3, <3>4
      <3> QED BY <3>2, <3>5, <3>6 DEF IsInjective, Contains
    <2> QED BY <2>1, <2>2, RemoveFirstFacts DEF t
  <1> QED BY <1>5, <1>6 DEF t

\* What processDeleteNotifies works on.
Accs == [list : [Sets \cup Groups -> Seq(Objects)], ref : [Refs -> Objects \cup {NoObject}],
         notes : [Objects -> Seq(AllNotes)]]

AccInv(acc, S) ==
  /\ acc \in Accs
  /\ NotesInv(acc.notes, acc.list, acc.ref, S)
  /\ \A s \in Sets : IsInjective(acc.list[s])

NothingWatched(own) == \A x \in Objects : Count(own, ClearNote(x)) = 0

\* Notes, members of sets, and pointers only go.
Fewer(new, old) ==
  /\ \A g \in Groups : new.list[g] = old.list[g]
  /\ \A s \in Sets, x \in Objects : Contains(new.list[s], x) => Contains(old.list[s], x)
  /\ \A r \in Refs : new.ref[r] \in {old.ref[r], NoObject}
  /\ \A x \in Objects : Len(new.notes[x]) =< Len(old.notes[x])

LEMMA FewerIsTransitive ==
  ASSUME NEW old \in Accs, NEW mid \in Accs, NEW new \in Accs, Fewer(mid, old), Fewer(new, mid)
  PROVE  Fewer(new, old)
  <1>1. NotesType(old.notes) /\ NotesType(mid.notes) /\ NotesType(new.notes)
    BY DEF Accs, NotesType
  <1>2. ASSUME NEW x \in Objects PROVE Len(new.notes[x]) =< Len(old.notes[x])
    <2>1. Len(new.notes[x]) \in Nat /\ Len(mid.notes[x]) \in Nat /\ Len(old.notes[x]) \in Nat
      BY <1>1, CountOfNotes
    <2>2. Len(new.notes[x]) =< Len(mid.notes[x]) /\ Len(mid.notes[x]) =< Len(old.notes[x])
      BY DEF Fewer
    <2> QED BY <2>1, <2>2
  <1> QED BY <1>2 DEF Fewer

LEMMA TailOfNotesIsLess ==
  ASSUME NEW all, NotesType(all), NEW o \in Objects, all[o] # <<>>
  PROVE  /\ Less([all EXCEPT ![o] = Tail(@)], all, o, Head(all[o]))
         /\ Len([all EXCEPT ![o] = Tail(@)][o]) = Len(all[o]) - 1
         /\ Count(all[o], Head(all[o])) > 0 /\ Head(all[o]) \in AllNotes
  <1>1. all[o] \in Seq(AllNotes)
    BY CountOfNotes
  <1>2. Tail(all[o]) = RemoveAt(all[o], 1) /\ 1 \in 1 .. Len(all[o]) /\ Head(all[o]) = all[o][1]
    BY <1>1, TailIsTaken
  <1>3. [all EXCEPT ![o] = Tail(@)] = [all EXCEPT ![o] = RemoveAt(@, 1)]
    BY <1>2
  <1>4. Head(all[o]) \in AllNotes
    BY <1>1
  <1>5. /\ Less([all EXCEPT ![o] = RemoveAt(@, 1)], all, o, all[o][1])
        /\ Len([all EXCEPT ![o] = RemoveAt(@, 1)][o]) = Len(all[o]) - 1
        /\ Count(all[o], all[o][1]) > 0
    BY <1>2, RemoveAtIsLess
  <1> QED BY <1>2, <1>3, <1>4, <1>5

\* Another kind of note goes: the pairs and the members keep theirs.
LEMMA PointerForgotten ==
  ASSUME NEW S, S \subseteq Objects, NEW all, NEW lists,
         NEW old \in [Refs -> Objects \cup {NoObject}], NotesInv(all, lists, old, S),
         NEW o \in Objects, NEW r \in Refs,
         NEW rest, Less(rest, all, o, RefNote(r)), Count(all[o], RefNote(r)) > 0
  PROVE  NotesInv(rest, lists, [old EXCEPT ![r] = NoObject], S)
  <1> DEFINE pointers == [old EXCEPT ![r] = NoObject]
  <1>1. NotesType(all) /\ NotesType(rest) /\ NoObject \notin Objects
    BY ObjectConstants DEF NotesInv, Less
  <1>2. \A w, x \in Objects : /\ Count(rest[x], DeleteNote(w)) = Count(all[x], DeleteNote(w))
                              /\ Count(rest[x], ClearNote(w)) = Count(all[x], ClearNote(w))
    BY NotesDiffer DEF Less
  <1>3. Paired(rest)
    BY <1>2 DEF NotesInv, Paired
  <1>4. OfSets(rest)
    BY <1>2 DEF NotesInv, OfSets
  <1>5. MembersNoted(rest, lists, S)
    BY <1>2 DEF NotesInv, MembersNoted
  <1>6. RefsNoted(rest, pointers)
    <2> SUFFICES ASSUME NEW q \in Refs, NEW x \in Objects
                 PROVE  /\ pointers[q] = x => Count(rest[x], RefNote(q)) = 1
                        /\ pointers[q] # x => Count(rest[x], RefNote(q)) = 0
      BY DEF RefsNoted
    <2>1. /\ old[q] = x => Count(all[x], RefNote(q)) = 1
          /\ old[q] # x => Count(all[x], RefNote(q)) = 0
      BY DEF NotesInv, RefsNoted
    <2>2. CASE q # r
      <3>1. RefNote(q) # RefNote(r)
        BY <2>2, NotesDiffer
      <3>2. Count(rest[x], RefNote(q)) = Count(all[x], RefNote(q))
        BY <3>1 DEF Less
      <3> QED BY <2>1, <2>2, <3>2
    <2>3. CASE q = r /\ x # o
      <3>1. Count(rest[x], RefNote(q)) = Count(all[x], RefNote(q))
        BY <2>3 DEF Less
      <3>2. old[r] = o
        BY DEF NotesInv, RefsNoted
      <3> QED BY <1>1, <2>1, <2>3, <3>1, <3>2
    <2>4. CASE q = r /\ x = o
      <3>1. Count(all[o], RefNote(r)) = 1
        BY <2>1, <2>4
      <3>2. Count(rest[o], RefNote(r)) = 0
        BY <3>1 DEF Less
      <3> QED BY <1>1, <2>4, <3>2
    <2> QED BY <2>2, <2>3, <2>4
  <1> QED BY <1>1, <1>3, <1>4, <1>5, <1>6 DEF NotesInv

\* A pointer becomes NULL.
LEMMA ProcessPointer ==
  ASSUME NEW S, S \subseteq Objects, NEW acc, AccInv(acc, S), NEW o \in Objects,
         NothingWatched(acc.notes[o]),
         acc.notes[o] # <<>>, NEW r \in Refs, Head(acc.notes[o]) = RefNote(r)
  PROVE  LET new == ProcessNote(acc, o)
         IN  /\ AccInv(new, S) /\ Fewer(new, acc) /\ NothingWatched(new.notes[o])
             /\ Len(new.notes[o]) =< Len(acc.notes[o]) - 1
  <1> DEFINE all == acc.notes
             rest == [all EXCEPT ![o] = Tail(@)]
             new == ProcessNote(acc, o)
  <1>1. acc \in Accs /\ NotesType(all)
    BY DEF AccInv, Accs, NotesType
  <1>2. /\ Less(rest, all, o, RefNote(r)) /\ Len(rest[o]) = Len(all[o]) - 1
        /\ Count(all[o], RefNote(r)) > 0
    BY <1>1, TailOfNotesIsLess
  <1>3. NotesType(rest) /\ Len(rest[o]) \in Nat /\ Len(all[o]) \in Nat
    BY <1>1, <1>2, CountOfNotes DEF Less
  <1>4. new = [acc EXCEPT !.notes = rest, !.ref = [acc.ref EXCEPT ![r] = NoObject]]
    <2>1. Head(acc.notes[o]).type = "ObjectRef" /\ Head(acc.notes[o]).ptr = r
      BY DEF RefNote
    <2> QED BY <2>1 DEF ProcessNote
  <1> HIDE DEF rest, all, new
  <1>5. /\ new.notes = rest /\ new.list = acc.list /\ new.ref = [acc.ref EXCEPT ![r] = NoObject]
        /\ new \in Accs
    BY <1>1, <1>3, <1>4 DEF Accs, NotesType
  <1>6. NotesInv(rest, acc.list, [acc.ref EXCEPT ![r] = NoObject], S)
    BY <1>2, PointerForgotten DEF all, AccInv, Accs
  <1>7. AccInv(new, S)
    BY <1>5, <1>6 DEF AccInv
  <1>8. Fewer(new, acc)
    <2>1. \A x \in Objects : Len(rest[x]) =< Len(all[x])
      BY <1>2 DEF Less
    <2>2. \A q \in Refs : new.ref[q] \in {acc.ref[q], NoObject}
      BY <1>1, <1>5 DEF Accs
    <2> QED BY <1>5, <2>1, <2>2 DEF Fewer, all
  <1>9. NothingWatched(rest[o])
    <2>1. \A x \in Objects : Count(rest[o], ClearNote(x)) = Count(all[o], ClearNote(x))
      BY <1>2, NotesDiffer DEF Less
    <2> QED BY <2>1 DEF NothingWatched, all
  <1> QED BY <1>2, <1>3, <1>5, <1>7, <1>8, <1>9 DEF new, all

\* A set removes the object.
LEMMA ProcessSet ==
  ASSUME NEW S, S \subseteq Sets, NEW acc, AccInv(acc, S), NEW o \in Objects,
         NothingWatched(acc.notes[o]),
         acc.notes[o] # <<>>, NEW w \in Objects, Head(acc.notes[o]) = DeleteNote(w)
  PROVE  LET new == ProcessNote(acc, o)
         IN  /\ AccInv(new, S) /\ Fewer(new, acc) /\ NothingWatched(new.notes[o])
             /\ Len(new.notes[o]) =< Len(acc.notes[o]) - 1
  <1> DEFINE all == acc.notes
             rest == [all EXCEPT ![o] = Tail(@)]
             mid == RemoveNote(rest, w, ClearNote(o))
             end == ClearNotify(mid, w, o)
             less == [acc.list EXCEPT ![w] = RemoveFirst(@, o)]
             new == ProcessNote(acc, o)
  <1>1. acc \in Accs /\ NotesType(all) /\ NotesInv(all, acc.list, acc.ref, S)
        /\ acc.list \in [Sets \cup Groups -> Seq(Objects)]
    BY DEF AccInv, Accs, NotesType
  <1>2. /\ Less(rest, all, o, DeleteNote(w)) /\ Len(rest[o]) = Len(all[o]) - 1
        /\ Count(all[o], DeleteNote(w)) > 0
    BY <1>1, TailOfNotesIsLess
  <1>3. w \in Sets /\ w \notin Groups /\ S \subseteq Objects
    BY <1>1, <1>2, ObjectConstants DEF NotesInv, OfSets
  <1>4. new = [acc EXCEPT !.notes = end, !.list = less]
    <2>1. Head(acc.notes[o]).type = "DeleteNotify" /\ Head(acc.notes[o]).ptr = w
      BY DEF DeleteNote
    <2> QED BY <2>1 DEF ProcessNote
  <1> HIDE DEF rest, all
  <1>5. Less(mid, rest, w, ClearNote(o))
    <2>1. NotesType(rest)
      BY <1>2 DEF Less
    <2> QED BY <2>1, RemoveNoteIsLess
  <1> HIDE DEF mid
  <1>6. Cut(mid, all, w, o)
    BY <1>1, <1>2, <1>5, LessIsCut
  <1>7. Cut(end, mid, w, o)
    BY <1>6, ClearNotifyIsCut DEF Cut
  <1> HIDE DEF end
  <1>8. /\ less \in [Sets \cup Groups -> Seq(Objects)]
        /\ less[w] = RemoveFirst(acc.list[w], o)
        /\ \A s \in Sets \cup Groups : s # w => less[s] = acc.list[s]
    <2>1. acc.list[w] \in Seq(Objects)
      BY <1>1, <1>3
    <2>2. RemoveFirst(acc.list[w], o) \in Seq(Objects)
      BY <2>1, RemoveFirstType
    <2> QED BY <1>1, <1>3, <2>2
  <1>9. /\ \A x \in Objects : Contains(less[w], x) => Contains(acc.list[w], x)
        /\ IsInjective(less[w]) /\ ~Contains(less[w], o)
    <2>1. acc.list[w] \in Seq(Objects) /\ IsInjective(acc.list[w])
      BY <1>1, <1>3 DEF AccInv
    <2> QED BY <1>8, <2>1, RemoveFirstMembers
  <1> HIDE DEF less, new
  <1>10. \A s \in Sets, x \in Objects : Contains(less[s], x) => Contains(acc.list[s], x)
    BY <1>8, <1>9
  <1>11. NotesInv(all, less, acc.ref, S)
    BY <1>1, <1>10, FewerMembers
  <1>12. NotesInv(mid, less, acc.ref, S)
    BY <1>3, <1>6, <1>9, <1>11, CutKeepsNotes
  <1>13. NotesInv(end, less, acc.ref, S)
    BY <1>3, <1>7, <1>9, <1>12, CutKeepsNotes
  <1>14. /\ new.notes = end /\ new.list = less /\ new.ref = acc.ref
         /\ new \in Accs
    BY <1>1, <1>4, <1>8, <1>13 DEF Accs, NotesType, NotesInv
  <1>15. AccInv(new, S)
    <2>1. \A s \in Sets : IsInjective(less[s])
      BY <1>8, <1>9 DEF AccInv
    <2> QED BY <1>13, <1>14, <2>1 DEF AccInv
  <1>16. NotesType(mid) /\ NotesType(end) /\ NotesType(rest)
    BY <1>2, <1>6, <1>7 DEF Cut, Less
  <1>17. \A x \in Objects : Len(end[x]) =< Len(all[x]) /\ Len(end[x]) =< Len(rest[x])
    <2> SUFFICES ASSUME NEW x \in Objects
                 PROVE  Len(end[x]) =< Len(all[x]) /\ Len(end[x]) =< Len(rest[x])
      OBVIOUS
    <2>1. {Len(all[x]), Len(rest[x]), Len(mid[x]), Len(end[x])} \subseteq Nat
      BY <1>1, <1>16, CountOfNotes
    <2>2. Len(rest[x]) =< Len(all[x])
      BY <1>2 DEF Less
    <2>3. Len(mid[x]) =< Len(rest[x])
      BY <1>5 DEF Less
    <2>4. Len(end[x]) =< Len(mid[x])
      BY <1>7 DEF Cut
    <2> QED BY <2>1, <2>2, <2>3, <2>4
  <1>18. Fewer(new, acc)
    <2>1. \A g \in Groups : less[g] = acc.list[g]
      BY <1>3, <1>8
    <2> QED BY <1>10, <1>14, <1>17, <2>1 DEF Fewer, all
  <1>19. NothingWatched(end[o])
    <2> SUFFICES ASSUME NEW x \in Objects PROVE Count(end[o], ClearNote(x)) = 0
      BY DEF NothingWatched
    <2>1. Count(all[o], ClearNote(x)) = 0
      BY DEF NothingWatched, all
    <2>2. ClearNote(x) # DeleteNote(w)
      BY NotesDiffer
    <2>3. Count(mid[o], ClearNote(x)) = 0
      <3>1. CASE o = w /\ ClearNote(x) = ClearNote(o)
        BY <1>6, <2>1, <3>1 DEF Cut
      <3>2. CASE ~(o = w /\ ClearNote(x) = ClearNote(o))
        BY <1>6, <2>1, <2>2, <3>2 DEF Cut
      <3> QED BY <3>1, <3>2
    <2>4. CASE o = w /\ ClearNote(x) = ClearNote(o)
      BY <1>7, <2>3, <2>4 DEF Cut
    <2>5. CASE ~(o = w /\ ClearNote(x) = ClearNote(o))
      BY <1>7, <2>2, <2>3, <2>5 DEF Cut
    <2> QED BY <2>4, <2>5
  <1>20. Len(end[o]) =< Len(all[o]) - 1
    <2>1. Len(end[o]) =< Len(rest[o]) /\ Len(rest[o]) = Len(all[o]) - 1
      BY <1>2, <1>17
    <2> QED BY <2>1
  <1> QED BY <1>14, <1>15, <1>18, <1>19, <1>20 DEF new, all

\* One round of processDeleteNotifies.
Round(acc, o) == IF acc.notes[o] = <<>> THEN acc ELSE ProcessNote(acc, o)

InRound(acc, o, S) == AccInv(acc, S) /\ NothingWatched(acc.notes[o])

LEMMA FewerIsReflexive == ASSUME NEW acc \in Accs PROVE Fewer(acc, acc)
  <1>1. NotesType(acc.notes)
    BY DEF Accs, NotesType
  <1>2. \A x \in Objects : Len(acc.notes[x]) =< Len(acc.notes[x])
    BY <1>1, CountOfNotes
  <1> QED BY <1>2 DEF Fewer

LEMMA RoundKeeps ==
  ASSUME NEW S, S \subseteq Sets, NEW o \in Objects, NEW acc, InRound(acc, o, S)
  PROVE  /\ InRound(Round(acc, o), o, S) /\ Fewer(Round(acc, o), acc)
         /\ acc.notes[o] = <<>> => Round(acc, o) = acc
         /\ acc.notes[o] # <<>> => Len(Round(acc, o).notes[o]) =< Len(acc.notes[o]) - 1
  <1>1. AccInv(acc, S) /\ NothingWatched(acc.notes[o]) /\ acc \in Accs /\ NotesType(acc.notes)
    BY DEF InRound, AccInv, Accs, NotesType
  <1>2. CASE acc.notes[o] = <<>>
    BY <1>1, <1>2, FewerIsReflexive DEF Round
  <1>3. CASE acc.notes[o] # <<>>
    <2> DEFINE note == Head(acc.notes[o])
    <2>1. note \in AllNotes /\ Count(acc.notes[o], note) > 0
      BY <1>1, <1>3, TailOfNotesIsLess
    <2>2. Round(acc, o) = ProcessNote(acc, o) /\ S \subseteq Objects
      BY <1>3, ObjectConstants DEF Round
    <2>3. ASSUME NEW x \in Objects, note = ClearNote(x) PROVE FALSE
      <3>1. Count(acc.notes[o], note) = 0
        BY <1>1, <2>3 DEF NothingWatched
      <3> QED BY <2>1, <3>1
    <2>4. \/ \E w \in Objects : note = DeleteNote(w)
          \/ \E r \in Refs : note = RefNote(r)
      <3> HIDE DEF note
      <3> QED BY <2>1, <2>3, NoteKinds
    <2>5. CASE \E w \in Objects : note = DeleteNote(w)
      BY <1>1, <1>3, <2>2, <2>5, ProcessSet DEF InRound
    <2>6. CASE \E r \in Refs : note = RefNote(r)
      BY <1>1, <1>3, <2>2, <2>6, ProcessPointer DEF InRound
    <2> QED BY <2>4, <2>5, <2>6
  <1> QED BY <1>2, <1>3

\* f holds the state after each round.
ProcessRounds(f, before, o) ==
  /\ ProcessDeleteNotifies(before, o) = f[Len(before.notes[o])]
  /\ f[0] = before
  /\ \A n \in 1 .. Len(before.notes[o]) : f[n] = Round(f[n - 1], o)

LEMMA ProcessExists ==
  ASSUME NEW S, S \subseteq Sets, NEW o \in Objects, NEW before, InRound(before, o, S)
  PROVE  \E f : ProcessRounds(f, before, o)
  <1> DEFINE D == {acc \in Accs : InRound(acc, o, S)}
             N == Len(before.notes[o])
             step == [p \in D \X (Nat \ {0}) |-> Round(p[1], o)]
             IsLoop(f) == f = [n \in 0 .. N |->
                                 IF n = 0 THEN before
                                 ELSE IF f[n - 1].notes[o] = <<>> THEN f[n - 1]
                                 ELSE ProcessNote(f[n - 1], o)]
             process == CHOOSE f : IsLoop(f)
  <1>1. N \in Nat /\ before \in D
    <2>1. before \in Accs /\ NotesType(before.notes)
      BY DEF InRound, AccInv, Accs, NotesType
    <2> QED BY <2>1, CountOfNotes
  <1>2. \A acc \in D : Round(acc, o) \in D
    <2> SUFFICES ASSUME NEW acc \in D PROVE Round(acc, o) \in D
      OBVIOUS
    <2>1. InRound(Round(acc, o), o, S)
      BY RoundKeeps
    <2> QED BY <2>1 DEF InRound, AccInv
  <1>3. step \in [D \X (Nat \ {0}) -> D]
    <2> HIDE DEF D, N
    <2> QED BY <1>2
  <1>4. PICK f \in [0 .. N -> D] : Rounds(f, before, step, N)
    <2> HIDE DEF D, N, step
    <2> QED BY <1>1, <1>3, LoopExists
  <1>5. IsLoop(f)
    <2> SUFFICES ASSUME NEW n \in 0 .. N
                 PROVE  f[n] = IF n = 0 THEN before
                               ELSE IF f[n - 1].notes[o] = <<>> THEN f[n - 1]
                               ELSE ProcessNote(f[n - 1], o)
      BY <1>4
    <2>1. CASE n = 0
      BY <1>4, <2>1 DEF Rounds
    <2>2. CASE n # 0
      <3> HIDE DEF D, N
      <3>1. n \in 1 .. N /\ n \in Nat \ {0} /\ n - 1 \in 0 .. N
        BY <1>1, <2>2
      <3>2. f[n - 1] \in D /\ f[n] = step[<<f[n - 1], n>>]
        BY <1>4, <3>1 DEF Rounds
      <3>3. step[<<f[n - 1], n>>] = Round(f[n - 1], o)
        BY <3>1, <3>2
      <3>4. f[n] = Round(f[n - 1], o)
        BY <3>2, <3>3
      <3> QED BY <2>2, <3>4 DEF Round
    <2> QED BY <2>1, <2>2
  <1>6. IsLoop(process)
    BY <1>5
  <1>7. ProcessDeleteNotifies(before, o) = process[N]
    BY DEF ProcessDeleteNotifies
  <1> HIDE DEF process
  <1>8. process[0] = before
    BY <1>1, <1>6
  <1>9. \A n \in 1 .. N : process[n] = Round(process[n - 1], o)
    <2> SUFFICES ASSUME NEW n \in 1 .. N PROVE process[n] = Round(process[n - 1], o)
      OBVIOUS
    <2>1. n \in 0 .. N /\ n # 0
      BY <1>1
    <2> QED BY <1>6, <2>1 DEF Round
  <1> QED BY <1>7, <1>8, <1>9 DEF ProcessRounds

\* The loop of processDeleteNotifies: no note of o is left.
LEMMA ProcessKeepsNotes ==
  ASSUME NEW S, S \subseteq Sets, NEW o \in Objects, NEW before, InRound(before, o, S)
  PROVE  LET after == ProcessDeleteNotifies(before, o)
         IN  AccInv(after, S) /\ Fewer(after, before) /\ after.notes[o] = <<>>
  <1>0. PICK f : ProcessRounds(f, before, o)
    BY ProcessExists
  <1>1. /\ ProcessDeleteNotifies(before, o) = f[Len(before.notes[o])]
        /\ f[0] = before
        /\ \A n \in 1 .. Len(before.notes[o]) : f[n] = Round(f[n - 1], o)
    BY <1>0 DEF ProcessRounds
  <1> DEFINE N == Len(before.notes[o])
             G(d, n) == /\ InRound(d, o, S) /\ Fewer(d, before)
                        /\ Len(d.notes[o]) =< N - n \/ d.notes[o] = <<>>
             Good == {p \in Accs \X (0 .. N) : G(p[1], p[2])}
  <1>2. N \in Nat /\ before \in Accs /\ NotesType(before.notes)
    <2>1. before \in Accs /\ NotesType(before.notes)
      BY DEF InRound, AccInv, Accs, NotesType
    <2> QED BY <2>1, CountOfNotes
  <1>3. \A d, n : <<d, n>> \in Good <=> d \in Accs /\ n \in 0 .. N /\ G(d, n)
    OBVIOUS
  <1> HIDE DEF Good
  <1>4. <<f[0], 0>> \in Good
    <2>1. G(before, 0)
      BY <1>2, FewerIsReflexive
    <2> QED BY <1>1, <1>2, <1>3, <2>1
  <1>5. ASSUME NEW n \in 1 .. N, <<f[n - 1], n - 1>> \in Good PROVE <<f[n], n>> \in Good
    <2> DEFINE mid == f[n - 1]
               new == f[n]
    <2>1. mid \in Accs /\ G(mid, n - 1)
      BY <1>3, <1>5
    <2>2. new = Round(mid, o)
      BY <1>1
    <2>3. n \in 0 .. N
      BY <1>2
    <2> HIDE DEF mid, new
    <2>4. InRound(new, o, S) /\ Fewer(new, mid)
      BY <2>1, <2>2, RoundKeeps
    <2>5. new \in Accs /\ NotesType(new.notes) /\ NotesType(mid.notes)
      BY <2>1, <2>4 DEF InRound, AccInv, Accs, NotesType
    <2>6. Fewer(new, before)
      BY <1>2, <2>1, <2>4, <2>5, FewerIsTransitive
    <2>7. CASE mid.notes[o] = <<>>
      <3>1. new = mid
        BY <2>1, <2>2, <2>7, RoundKeeps
      <3> QED BY <1>3, <2>3, <2>4, <2>5, <2>6, <2>7, <3>1 DEF new
    <2>8. CASE mid.notes[o] # <<>>
      <3>1. Len(new.notes[o]) =< Len(mid.notes[o]) - 1
        BY <2>1, <2>2, <2>8, RoundKeeps
      <3>2. Len(mid.notes[o]) =< N - (n - 1)
            /\ Len(mid.notes[o]) \in Nat /\ Len(new.notes[o]) \in Nat
        BY <2>1, <2>5, <2>8, CountOfNotes
      <3>3. Len(new.notes[o]) =< N - n
        <4> HIDE DEF N
        <4> QED BY <1>2, <3>1, <3>2
      <3> QED BY <1>3, <2>3, <2>4, <2>5, <2>6, <3>3 DEF new
    <2> QED BY <2>7, <2>8
  <1>6. <<f[N], N>> \in Good
    <2> HIDE DEF N
    <2> QED BY <1>2, <1>4, <1>5, LoopEnds
  <1>7. f[N] \in Accs /\ G(f[N], N)
    BY <1>3, <1>6
  <1>8. f[N].notes[o] = <<>>
    <2>1. NotesType(f[N].notes)
      BY <1>7 DEF Accs, NotesType
    <2>2. f[N].notes[o] \in Seq(AllNotes) /\ Len(f[N].notes[o]) \in Nat
      BY <2>1, CountOfNotes
    <2>3. CASE Len(f[N].notes[o]) =< N - N
      <3>1. Len(f[N].notes[o]) = 0
        <4> HIDE DEF N
        <4> QED BY <1>2, <2>2, <2>3
      <3> QED BY <2>2, <3>1
    <2> QED BY <1>7, <2>3
  <1> QED BY <1>1, <1>7, <1>8 DEF InRound

\* deleteNotify: both halves of a note.
LEMMA DeleteNotifyKeepsNotes ==
  ASSUME NEW S, S \subseteq Objects, NEW all, NEW lists, NEW pointers,
         NotesInv(all, lists, pointers, S), NEW w \in Sets, NEW x \in Objects
  PROVE  LET new == DeleteNotify(all, w, x)
         IN  /\ NotesInv(new, lists, pointers, S) /\ Count(new[x], DeleteNote(w)) > 0
             /\ \A y \in Objects : y # w /\ y # x => new[y] = all[y]
  <1> DEFINE mid == AddNote(all, x, DeleteNote(w))
             new == DeleteNotify(all, w, x)
  <1>1. NotesType(all) /\ w \in Objects /\ DeleteNote(w) \in AllNotes /\ ClearNote(x) \in AllNotes
    BY NotesDiffer, ObjectConstants DEF NotesInv
  <1>2. More(mid, all, x, DeleteNote(w))
    BY <1>1, AddNoteIsMore
  <1>3. NotesType(mid)
    BY <1>2 DEF More
  <1>4. new = AddNote(mid, w, ClearNote(x))
    BY DEF DeleteNotify
  <1> HIDE DEF mid, new
  <1>5. More(new, mid, w, ClearNote(x))
    BY <1>1, <1>3, <1>4, AddNoteIsMore
  <1>6. NotesType(new)
    BY <1>5 DEF More
  <1>7. ASSUME NEW v \in Objects, NEW y \in Objects, ~(v = w /\ y = x)
        PROVE  /\ Count(new[y], DeleteNote(v)) = Count(all[y], DeleteNote(v))
               /\ Count(new[v], ClearNote(y)) = Count(all[v], ClearNote(y))
    <2>1. /\ ~(y = x /\ DeleteNote(v) = DeleteNote(w)) /\ ~(v = w /\ ClearNote(y) = ClearNote(x))
          /\ DeleteNote(v) # ClearNote(x) /\ ClearNote(y) # DeleteNote(w)
      BY <1>7, NotesDiffer
    <2>2. Count(mid[y], DeleteNote(v)) = Count(all[y], DeleteNote(v))
          /\ Count(mid[v], ClearNote(y)) = Count(all[v], ClearNote(y))
      BY <1>2, <2>1 DEF More
    <2>3. Count(new[y], DeleteNote(v)) = Count(mid[y], DeleteNote(v))
          /\ Count(new[v], ClearNote(y)) = Count(mid[v], ClearNote(y))
      BY <1>5, <2>1 DEF More
    <2> QED BY <2>2, <2>3
  <1>8. /\ Count(new[x], DeleteNote(w)) = Count(all[x], DeleteNote(w)) + 1
        /\ Count(new[w], ClearNote(x)) = Count(all[w], ClearNote(x)) + 1
    <2>1. DeleteNote(w) # ClearNote(x)
      BY NotesDiffer
    <2>2. Count(mid[x], DeleteNote(w)) = Count(all[x], DeleteNote(w)) + 1
          /\ Count(mid[w], ClearNote(x)) = Count(all[w], ClearNote(x))
      BY <1>1, <1>2, <2>1 DEF More
    <2>3. Count(new[x], DeleteNote(w)) = Count(mid[x], DeleteNote(w))
          /\ Count(new[w], ClearNote(x)) = Count(mid[w], ClearNote(x)) + 1
      BY <1>1, <1>5, <2>1 DEF More
    <2> QED BY <2>2, <2>3
  <1>9. \A v, y \in Objects : Count(all[y], DeleteNote(v)) = Count(all[v], ClearNote(y))
                              /\ Count(all[y], DeleteNote(v)) \in Nat
    BY <1>1, CountOfNotes DEF NotesInv, Paired
  <1>10. Paired(new)
    BY <1>1, <1>7, <1>8, <1>9 DEF Paired
  <1>11. Count(new[x], DeleteNote(w)) > 0
    BY <1>1, <1>8, <1>9
  <1>12. \A v, y \in Objects : Count(all[y], DeleteNote(v)) > 0 => Count(new[y], DeleteNote(v)) > 0
    BY <1>7, <1>11
  <1>13. OfSets(new)
    BY <1>7 DEF OfSets, NotesInv
  <1>14. MembersNoted(new, lists, S)
    BY <1>12 DEF MembersNoted, NotesInv
  <1>15. RefsNoted(new, pointers)
    <2>1. \A r \in Refs, y \in Objects : Count(new[y], RefNote(r)) = Count(all[y], RefNote(r))
      <3> SUFFICES ASSUME NEW r \in Refs, NEW y \in Objects
                   PROVE  Count(new[y], RefNote(r)) = Count(all[y], RefNote(r))
        OBVIOUS
      <3>1. RefNote(r) # DeleteNote(w) /\ RefNote(r) # ClearNote(x)
        BY NotesDiffer
      <3>2. Count(mid[y], RefNote(r)) = Count(all[y], RefNote(r))
        BY <1>2, <3>1 DEF More
      <3>3. Count(new[y], RefNote(r)) = Count(mid[y], RefNote(r))
        BY <1>5, <3>1 DEF More
      <3> QED BY <3>2, <3>3
    <2> QED BY <2>1 DEF RefsNoted, NotesInv
  <1>16. NotesInv(new, lists, pointers, S)
    BY <1>6, <1>10, <1>13, <1>14, <1>15 DEF NotesInv
  <1>17. \A y \in Objects : y # w /\ y # x => new[y] = all[y]
    BY <1>2, <1>5 DEF More
  <1> QED BY <1>11, <1>16, <1>17 DEF new

\* A pointer that is NULL is set.
PutRef(pointers, old, r, o) ==
  old[r] = NoObject /\ pointers[r] = o /\ \A q \in Refs : q # r => pointers[q] = old[q]

LEMMA PointerSet ==
  ASSUME NEW S, S \subseteq Objects, NEW all, NEW lists, NEW old, NotesInv(all, lists, old, S),
         NEW o \in Objects, NEW r \in Refs, NEW pointers, PutRef(pointers, old, r, o),
         NEW new, More(new, all, o, RefNote(r))
  PROVE  NotesInv(new, lists, pointers, S)
  <1>1. NotesType(all) /\ NoObject \notin Objects
    BY ObjectConstants DEF NotesInv
  <1>2. More(new, all, o, RefNote(r))
    OBVIOUS
  <1>3. \A w, x \in Objects : /\ Count(new[x], DeleteNote(w)) = Count(all[x], DeleteNote(w))
                              /\ Count(new[x], ClearNote(w)) = Count(all[x], ClearNote(w))
    BY <1>2, NotesDiffer DEF More
  <1>4. Paired(new)
    BY <1>3 DEF NotesInv, Paired
  <1>5. OfSets(new)
    BY <1>3 DEF NotesInv, OfSets
  <1>6. MembersNoted(new, lists, S)
    BY <1>3 DEF NotesInv, MembersNoted
  <1>7. RefsNoted(new, pointers)
    <2> SUFFICES ASSUME NEW q \in Refs, NEW x \in Objects
                 PROVE  /\ pointers[q] = x => Count(new[x], RefNote(q)) = 1
                        /\ pointers[q] # x => Count(new[x], RefNote(q)) = 0
      BY DEF RefsNoted
    <2>1. /\ old[q] = x => Count(all[x], RefNote(q)) = 1
          /\ old[q] # x => Count(all[x], RefNote(q)) = 0
      BY DEF NotesInv, RefsNoted
    <2>0. old[r] = NoObject /\ pointers[r] = o /\ (q # r => pointers[q] = old[q])
      BY DEF PutRef
    <2>2. CASE q # r
      <3>1. RefNote(q) # RefNote(r)
        BY <2>2, NotesDiffer
      <3>2. Count(new[x], RefNote(q)) = Count(all[x], RefNote(q))
        BY <1>2, <3>1 DEF More
      <3> QED BY <2>0, <2>1, <2>2, <3>2
    <2>3. CASE q = r /\ x # o
      <3>1. Count(new[x], RefNote(q)) = Count(all[x], RefNote(q))
        BY <1>2, <2>3 DEF More
      <3> QED BY <1>1, <2>0, <2>1, <2>3, <3>1
    <2>4. CASE q = r /\ x = o
      <3>1. Count(all[o], RefNote(r)) = 0
        BY <1>1, <2>0, <2>1, <2>4
      <3>2. Count(new[o], RefNote(r)) = 1
        BY <1>2, <3>1 DEF More
      <3> QED BY <2>0, <2>4, <3>2
    <2> QED BY <2>2, <2>3, <2>4
  <1> QED BY <1>2, <1>4, <1>5, <1>6, <1>7 DEF NotesInv, More

-----------------------------------------------------------------------------
(* The state of members, pointers and notes.                               *)

\* Calls as far as they matter here.
Frames == {c \in [at : {"onRemove", "children", "advance", "event"},
                  obj : Objects \cup {NoObject}, delete : BOOLEAN, next : Int] :
             /\ c.at \in {"onRemove", "children"} => c.obj \in Objects
             /\ c.at = "children" => c.obj \in Groups}

MemberState(mem, man, lists, groups, all, pointers, st) ==
  /\ mem \in [Objects -> {"none", "live", "freed"}] /\ man \subseteq Objects
  /\ lists \in [Sets \cup Groups -> Seq(Objects)]
  /\ groups \in [Objects -> Groups \cup {NoObject}]
  /\ pointers \in [Refs -> Objects \cup {NoObject}]
  /\ st \in Seq(Frames)
  /\ \A s \in Sets : IsInjective(lists[s])
  /\ NotesInv(all, lists, pointers, Sets \cap man)
  /\ \A x \in Objects : x \notin man => all[x] = <<>>
  /\ \A x \in Objects : mem[x] = "none" => x \notin man /\ (x \in Sets => lists[x] = <<>>)

MemberInv == MemberState(memory, manager, list, mGroup, notes, ref, stack)

LEMMA FrontFacts ==
  ASSUME NEW S, NEW s \in Seq(S), s # <<>>
  PROVE  /\ Front(s) \in Seq(S) /\ Len(Front(s)) = Len(s) - 1
         /\ Len(s) \in Nat \ {0} /\ s[Len(s)] \in S
         /\ \A i \in 1 .. Len(s) - 1 : Front(s)[i] = s[i]
  <1>1. Len(s) \in Nat /\ Len(s) # 0 /\ Front(s) = SubSeq(s, 1, Len(s) - 1)
    BY DEF Front
  <1>2. Len(s) - 1 \in Nat /\ Len(s) \in 1 .. Len(s)
    BY <1>1
  <1>3. s[Len(s)] \in S
    BY <1>2
  <1>4. SubSeq(s, 1, Len(s) - 1) \in Seq(S) /\ Len(SubSeq(s, 1, Len(s) - 1)) = Len(s) - 1
    <2>1. ASSUME NEW T, NEW t \in Seq(T), NEW n \in 0 .. Len(t)
          PROVE  SubSeq(t, 1, n) \in Seq(T) /\ Len(SubSeq(t, 1, n)) = n
      OBVIOUS
    <2>2. Len(s) - 1 \in 0 .. Len(s)
      BY <1>2
    <2> QED BY <2>1, <2>2
  <1>5. \A i \in 1 .. Len(s) - 1 : SubSeq(s, 1, Len(s) - 1)[i] = s[i]
    BY <1>1, <1>2
  <1> QED BY <1>1, <1>2, <1>3, <1>4, <1>5

LEMMA PushFacts ==
  ASSUME NEW S, NEW s \in Seq(S), NEW e \in S
  PROVE  /\ Append(s, e) \in Seq(S) /\ Len(Append(s, e)) = Len(s) + 1
         /\ Append(s, e)[Len(s) + 1] = e
         /\ \A i \in 1 .. Len(s) : Append(s, e)[i] = s[i]
  OBVIOUS

LEMMA OneFrame == ASSUME NEW S, NEW e \in S PROVE <<e>> \in Seq(S)
  OBVIOUS

LEMMA InitMembers == Init => MemberInv
  <1> SUFFICES ASSUME Init PROVE MemberInv
    OBVIOUS
  <1>1. \A e : Count(<<>>, e) = 0
    <2>1. <<>> \in Seq(AllNotes)
      OBVIOUS
    <2> QED BY <2>1, CountType
  <1>2. NoObject \notin Objects /\ Sets \subseteq Objects /\ Registered \subseteq Objects
    BY ObjectConstants
  <1>3. NotesType(notes) /\ \A x \in Objects : notes[x] = <<>>
    BY DEF Init, NotesType
  <1>4. \A s \in Sets : list[s] = <<>>
    BY DEF Init
  <1>5. Paired(notes)
    BY <1>1, <1>3 DEF Paired
  <1>6. OfSets(notes)
    BY <1>1, <1>3 DEF OfSets
  <1>7. RefsNoted(notes, ref)
    BY <1>1, <1>2, <1>3 DEF RefsNoted, Init
  <1>8. MembersNoted(notes, list, Sets \cap manager)
    <2>1. \A e : ~Contains(<<>>, e)
      BY DEF Contains
    <2> QED BY <1>4, <2>1 DEF MembersNoted
  <1>9. \A s \in Sets : IsInjective(list[s])
    BY <1>4 DEF IsInjective
  <1>10. list \in [Sets \cup Groups -> Seq(Objects)]
    <2>1. <<>> \in Seq(Objects)
      OBVIOUS
    <2> QED BY <2>1 DEF Init
  <1>11. stack \in Seq(Frames) /\ ref \in [Refs -> Objects \cup {NoObject}]
         /\ mGroup \in [Objects -> Groups \cup {NoObject}]
         /\ memory \in [Objects -> {"none", "live", "freed"}] /\ manager \subseteq Objects
         /\ \A x \in Objects : memory[x] = "none" => x \notin manager
    BY <1>2 DEF Init
  <1> QED BY <1>3, <1>4, <1>5, <1>6, <1>7, <1>8, <1>9, <1>10, <1>11
          DEF MemberInv, MemberState, NotesInv

LEMMA RegisterKeepsMembers ==
  ASSUME MemberInv, NEW o \in Objects, RegisterObject(o) PROVE MemberInv'
  <1>1. /\ memory[o] = "none" /\ memory' = [memory EXCEPT ![o] = "live"]
        /\ manager' = manager \cup {o} /\ UNCHANGED <<list, mGroup, notes, ref, stack>>
    BY DEF RegisterObject, memberVars
  <1>2. NotesInv(notes, list, ref, Sets \cap manager)
        /\ (o \in Sets => list[o] = <<>>)
    BY <1>1 DEF MemberInv, MemberState
  <1>3. MembersNoted(notes, list, Sets \cap (manager \cup {o}))
    <2>1. \A e : ~Contains(<<>>, e)
      BY DEF Contains
    <2> QED BY <1>2, <2>1 DEF NotesInv, MembersNoted
  <1>4. NotesInv(notes, list, ref, Sets \cap (manager \cup {o}))
    BY <1>2, <1>3 DEF NotesInv
  <1> QED BY <1>1, <1>4 DEF MemberInv, MemberState

LEMMA AddToSetKeepsMembers ==
  ASSUME MemberInv, NEW s \in Sets, NEW o \in Objects, AddToSet(s, o) PROVE MemberInv'
  <1>1. /\ s \in manager /\ o \in manager
        /\ list' = [list EXCEPT ![s] = IF Contains(@, o) THEN @ ELSE Append(@, o)]
        /\ notes' = DeleteNotify(notes, s, o)
        /\ UNCHANGED <<memory, manager, mGroup, ref, stack>>
    BY DEF AddToSet, objectVars
  <1> DEFINE S == Sets \cap manager
  <1>2. NotesInv(notes, list, ref, S) /\ S \subseteq Objects /\ s \in S
        /\ list \in [Sets \cup Groups -> Seq(Objects)] /\ list[s] \in Seq(Objects)
        /\ IsInjective(list[s])
    BY <1>1, ObjectConstants DEF MemberInv, MemberState
  <1>3. /\ NotesInv(notes', list, ref, S) /\ Count(notes'[o], DeleteNote(s)) > 0
        /\ \A y \in Objects : y # s /\ y # o => notes'[y] = notes[y]
    <2> HIDE DEF S
    <2> QED BY <1>1, <1>2, DeleteNotifyKeepsNotes
  <1>4. /\ list' \in [Sets \cup Groups -> Seq(Objects)] /\ IsInjective(list'[s])
        /\ \A t \in Sets \cup Groups : t # s => list'[t] = list[t]
        /\ \A x : Contains(list'[s], x) => Contains(list[s], x) \/ x = o
    <2>1. CASE Contains(list[s], o)
      <3>1. list' = list
        BY <1>1, <1>2, <2>1
      <3> QED BY <1>2, <3>1
    <2>2. CASE ~Contains(list[s], o)
      <3> DEFINE t == Append(list[s], o)
      <3>1. list' = [list EXCEPT ![s] = t]
        BY <1>1, <2>2
      <3>2. /\ t \in Seq(Objects) /\ Len(t) = Len(list[s]) + 1 /\ DOMAIN t = 1 .. Len(list[s]) + 1
            /\ t[Len(list[s]) + 1] = o /\ \A i \in 1 .. Len(list[s]) : t[i] = list[s][i]
            /\ Len(list[s]) \in Nat /\ DOMAIN list[s] = 1 .. Len(list[s])
        BY <1>2
      <3> HIDE DEF t
      <3>3. \A i \in 1 .. Len(list[s]) : list[s][i] # o
        BY <2>2 DEF Contains
      <3>4. IsInjective(t)
        BY <1>2, <3>2, <3>3 DEF IsInjective
      <3>5. \A x : Contains(t, x) => Contains(list[s], x) \/ x = o
        BY <3>2 DEF Contains
      <3> QED BY <1>2, <3>1, <3>2, <3>4, <3>5
    <2> QED BY <2>1, <2>2
  <1>5. MembersNoted(notes', list', S)
    <2> SUFFICES ASSUME NEW t \in S, NEW x \in Objects, Contains(list'[t], x)
                 PROVE  Count(notes'[x], DeleteNote(t)) > 0
      BY DEF MembersNoted
    <2>1. Contains(list[t], x) \/ (t = s /\ x = o)
      BY <1>4
    <2> QED BY <1>3, <2>1 DEF NotesInv, MembersNoted
  <1>6. NotesInv(notes', list', ref, S)
    BY <1>3, <1>5 DEF NotesInv
  <1>7. \A t \in Sets : IsInjective(list'[t])
    BY <1>4 DEF MemberInv, MemberState
  <1> QED BY <1>1, <1>3, <1>4, <1>6, <1>7 DEF MemberInv, MemberState

LEMMA RemoveFromSetKeepsMembers ==
  ASSUME MemberInv, NEW s \in Sets, NEW o \in Objects, RemoveFromSet(s, o) PROVE MemberInv'
  <1>1. /\ s \in manager /\ o \in manager
        /\ list' = [list EXCEPT ![s] = RemoveFirst(list[s], o)]
        /\ notes' = ClearNotify(notes, s, o)
        /\ UNCHANGED <<memory, manager, mGroup, ref, stack>>
    BY DEF RemoveFromSet, objectVars
  <1> DEFINE S == Sets \cap manager
  <1>2. NotesInv(notes, list, ref, S) /\ NotesType(notes) /\ S \subseteq Objects /\ s \in Objects
        /\ list \in [Sets \cup Groups -> Seq(Objects)] /\ list[s] \in Seq(Objects)
        /\ IsInjective(list[s])
    BY <1>1, ObjectConstants DEF MemberInv, MemberState, NotesInv
  <1>3. /\ RemoveFirst(list[s], o) \in Seq(Objects) /\ IsInjective(RemoveFirst(list[s], o))
        /\ ~Contains(RemoveFirst(list[s], o), o)
        /\ \A x : Contains(RemoveFirst(list[s], o), x) => Contains(list[s], x)
    BY <1>2, RemoveFirstType, RemoveFirstMembers
  <1>4. /\ list' \in [Sets \cup Groups -> Seq(Objects)] /\ list'[s] = RemoveFirst(list[s], o)
        /\ \A t \in Sets \cup Groups : t # s => list'[t] = list[t]
    BY <1>1, <1>2, <1>3
  <1> HIDE DEF S
  <1>5. NotesInv(notes, list', ref, S)
    <2>1. \A t \in S, x \in Objects : Contains(list'[t], x) => Contains(list[t], x)
      BY <1>3, <1>4 DEF S
    <2> QED BY <1>2, <2>1, FewerMembers
  <1>6. Cut(notes', notes, s, o)
    BY <1>1, <1>2, ClearNotifyIsCut
  <1>7. NotesInv(notes', list', ref, S)
    BY <1>2, <1>3, <1>4, <1>5, <1>6, CutKeepsNotes
  <1>8. NoneNew(notes', notes)
    BY <1>2, <1>6, LessHasNoneNew DEF Cut
  <1>9. \A t \in Sets : IsInjective(list'[t]) /\ (list[t] = <<>> => list'[t] = <<>>)
    <2> SUFFICES ASSUME NEW t \in Sets
                 PROVE  IsInjective(list'[t]) /\ (list[t] = <<>> => list'[t] = <<>>)
      OBVIOUS
    <2>1. CASE t # s
      BY <1>4, <2>1 DEF MemberInv, MemberState
    <2>2. CASE t = s
      <3>1. Contains(list[s], o)
        BY DEF RemoveFromSet
      <3>2. list[s] # <<>>
        BY <3>1 DEF Contains
      <3> QED BY <1>3, <1>4, <2>2, <3>2
    <2> QED BY <2>1, <2>2
  <1> QED BY <1>1, <1>4, <1>7, <1>8, <1>9 DEF MemberInv, MemberState, NoneNew, S

\* Groups' lists do not matter.
LEMMA GroupListsFree ==
  ASSUME MemberInv, list' \in [Sets \cup Groups -> Seq(Objects)],
         \A s \in Sets : list'[s] = list[s],
         mGroup' \in [Objects -> Groups \cup {NoObject}],
         UNCHANGED <<memory, manager, notes, ref>>, stack' \in Seq(Frames)
  PROVE  MemberInv'
  <1>1. NotesInv(notes, list, ref, Sets \cap manager)
    BY DEF MemberInv, MemberState
  <1>2. \A s \in Sets \cap manager, x \in Objects : Contains(list'[s], x) => Contains(list[s], x)
    OBVIOUS
  <1>3. NotesInv(notes, list', ref, Sets \cap manager)
    BY <1>1, <1>2, FewerMembers
  <1> QED BY <1>3 DEF MemberInv, MemberState

LEMMA WithoutFacts ==
  ASSUME list \in [Sets \cup Groups -> Seq(Objects)], NEW g \in Groups \cup {NoObject}, NEW o
  PROVE  /\ Without(g, o) \in [Sets \cup Groups -> Seq(Objects)]
         /\ \A s \in Sets : Without(g, o)[s] = list[s]
         /\ \A h \in Groups : h # g => Without(g, o)[h] = list[h]
         /\ g \in Groups => Without(g, o)[g] = RemoveFirst(list[g], o)
  <1>1. NoObject \notin Groups /\ Sets \cap Groups = {}
    BY ObjectConstants
  <1>2. CASE g = NoObject
    BY <1>1, <1>2 DEF Without
  <1>3. CASE g \in Groups
    <2>1. list[g] \in Seq(Objects)
      BY <1>3
    <2>2. RemoveFirst(list[g], o) \in Seq(Objects)
      BY <2>1, RemoveFirstType
    <2>3. Without(g, o) = [list EXCEPT ![g] = RemoveFirst(list[g], o)]
      BY <1>1, <1>3 DEF Without
    <2> QED BY <1>1, <1>3, <2>2, <2>3
  <1> QED BY <1>2, <1>3

LEMMA AddToGroupKeepsMembers ==
  ASSUME MemberInv, NEW g \in Groups, NEW o \in Objects, AddToGroup(g, o) PROVE MemberInv'
  <1> DEFINE w == Without(mGroup[o], o)
  <1>1. /\ list' = [w EXCEPT ![g] = Append(w[g], o)] /\ mGroup' = [mGroup EXCEPT ![o] = g]
        /\ UNCHANGED <<memory, manager, notes, ref, stack>>
    BY DEF AddToGroup, objectVars
  <1>2. /\ list \in [Sets \cup Groups -> Seq(Objects)] /\ mGroup[o] \in Groups \cup {NoObject}
        /\ mGroup \in [Objects -> Groups \cup {NoObject}] /\ stack \in Seq(Frames)
    BY DEF MemberInv, MemberState
  <1>3. w \in [Sets \cup Groups -> Seq(Objects)] /\ \A s \in Sets : w[s] = list[s]
    BY <1>2, WithoutFacts
  <1> HIDE DEF w
  <1>4. Append(w[g], o) \in Seq(Objects)
    BY <1>3
  <1>5. list' \in [Sets \cup Groups -> Seq(Objects)] /\ \A s \in Sets : list'[s] = list[s]
    BY <1>1, <1>3, <1>4, ObjectConstants
  <1> QED BY <1>1, <1>2, <1>5, GroupListsFree

LEMMA RemoveFromGroupKeepsMembers ==
  ASSUME MemberInv, NEW g \in Groups, NEW o \in Objects, RemoveFromGroup(g, o) PROVE MemberInv'
  <1>1. /\ list' = Without(g, o) /\ mGroup' = [mGroup EXCEPT ![o] = NoObject]
        /\ UNCHANGED <<memory, manager, notes, ref, stack>>
    BY DEF RemoveFromGroup, objectVars
  <1>2. /\ list \in [Sets \cup Groups -> Seq(Objects)]
        /\ mGroup \in [Objects -> Groups \cup {NoObject}] /\ stack \in Seq(Frames)
    BY DEF MemberInv, MemberState
  <1>3. list' \in [Sets \cup Groups -> Seq(Objects)] /\ \A s \in Sets : list'[s] = list[s]
    BY <1>1, <1>2, WithoutFacts
  <1> QED BY <1>1, <1>2, <1>3, GroupListsFree

LEMMA SetRefKeepsMembers ==
  ASSUME MemberInv, NEW r \in Refs, NEW o \in Objects, SetRef(r, o) PROVE MemberInv'
  <1> DEFINE S == Sets \cap manager
             null == [ref EXCEPT ![r] = NoObject]
             mid == IF ref[r] = NoObject THEN notes ELSE RemoveNote(notes, ref[r], RefNote(r))
  <1>1. /\ o \in manager /\ ref' = [ref EXCEPT ![r] = o]
        /\ notes' = AddNote(mid, o, RefNote(r))
        /\ UNCHANGED <<memory, manager, list, mGroup, stack>>
    BY DEF SetRef, objectVars
  <1>2. /\ NotesInv(notes, list, ref, S) /\ NotesType(notes) /\ S \subseteq Objects
        /\ ref \in [Refs -> Objects \cup {NoObject}] /\ NoObject \notin Objects
    BY ObjectConstants DEF MemberInv, MemberState, NotesInv
  <1> HIDE DEF S
  <1>3. NotesInv(mid, list, null, S) /\ \A x \in Objects : Len(mid[x]) =< Len(notes[x])
    <2>1. CASE ref[r] = NoObject
      <3>1. mid = notes /\ null = ref
        BY <1>2, <2>1
      <3>2. \A x \in Objects : Len(notes[x]) =< Len(notes[x])
        BY <1>2, CountOfNotes
      <3> QED BY <1>2, <3>1, <3>2
    <2>2. CASE ref[r] # NoObject
      <3>1. ref[r] \in Objects /\ mid = RemoveNote(notes, ref[r], RefNote(r))
        BY <1>2, <2>2
      <3>2. Less(mid, notes, ref[r], RefNote(r))
        BY <1>2, <3>1, RemoveNoteIsLess
      <3>3. Count(notes[ref[r]], RefNote(r)) = 1
        BY <1>2, <3>1 DEF NotesInv, RefsNoted
      <3>4. Count(notes[ref[r]], RefNote(r)) > 0
        BY <3>3
      <3> HIDE DEF mid
      <3>5. NotesInv(mid, list, null, S)
        BY <1>2, <3>1, <3>2, <3>4, PointerForgotten
      <3> QED BY <3>2, <3>5 DEF Less
    <2> QED BY <2>1, <2>2
  <1>4. PutRef(ref', null, r, o)
    BY <1>1, <1>2 DEF PutRef
  <1> HIDE DEF mid, null
  <1>5. /\ NotesInv(notes', list, ref', S)
        /\ \A y \in Objects : y # o => notes'[y] = mid[y]
    <2>1. RefNote(r) \in AllNotes
      BY NotesDiffer
    <2>2. More(notes', mid, o, RefNote(r))
      BY <1>1, <1>3, <2>1, AddNoteIsMore DEF NotesInv
    <2>3. NotesInv(notes', list, ref', S)
      BY <1>2, <1>3, <1>4, <2>2, PointerSet
    <2> QED BY <2>2, <2>3 DEF More
  <1>6. NoneNew(mid, notes)
    BY <1>2, <1>3, LessHasNoneNew DEF NotesInv
  <1>7. ref' \in [Refs -> Objects \cup {NoObject}]
    BY <1>1, <1>2
  <1> QED BY <1>1, <1>5, <1>6, <1>7 DEF MemberInv, MemberState, NoneNew, S

\* unregisterObject: the lists of groups change as they do when the object
\* leaves its group, and no note of it, or with it, is left.
LEMMA UnregisterKeepsMembers ==
  ASSUME MemberInv, NEW o \in Objects, NEW below \in Seq(Frames), NEW delete,
         Unregister(o, below, delete)
  PROVE  /\ MemberInv' /\ notes'[o] = <<>>
         /\ \A g \in Groups : list'[g] = Without(mGroup[o], o)[g]
  <1> DEFINE S == Sets \cap (manager \ {o})
             forgot == IF o \in Sets THEN SetOnRemove(notes, o) ELSE notes
             cleared == ClearAllNotifications(forgot, o)
             w == Without(mGroup[o], o)
             before == [list |-> w, ref |-> ref, notes |-> cleared]
             after == ProcessDeleteNotifies(before, o)
  <1>1. list' = after.list /\ ref' = after.ref /\ notes' = after.notes
    BY DEF Unregister
  <1>2. /\ manager' = manager \ {o}
        /\ memory' = IF delete THEN [x \in Objects |-> IF x \in Owned(o) THEN "freed" ELSE memory[x]]
                     ELSE memory
        /\ LET child == below # <<>> /\ below[Len(below)].at = "children"
           IN  /\ mGroup' = [mGroup EXCEPT ![o] = IF child THEN below[Len(below)].obj ELSE NoObject]
               /\ stack' = IF child THEN [below EXCEPT ![Len(below)].next = @ - 1] ELSE below
    BY DEF Unregister
  <1>3. /\ list \in [Sets \cup Groups -> Seq(Objects)] /\ mGroup[o] \in Groups \cup {NoObject}
        /\ mGroup \in [Objects -> Groups \cup {NoObject}]
        /\ ref \in [Refs -> Objects \cup {NoObject}]
        /\ NotesInv(notes, list, ref, Sets \cap manager) /\ NotesType(notes)
        /\ S \subseteq Sets /\ S \subseteq Objects /\ o \notin S
    BY ObjectConstants DEF MemberInv, MemberState, NotesInv
  <1>4. NotesInv(notes, list, ref, S)
    <2>1. S \subseteq Sets \cap manager
      OBVIOUS
    <2> HIDE DEF S
    <2> QED BY <1>3, <2>1, FewerMembers
  <1>5. NotesLoop(forgot, notes, list, ref, S)
    <2> HIDE DEF S
    <2>1. CASE o \in Sets
      <3>1. list[o] \in Seq(Objects)
        BY <1>3, <2>1
      <3> QED BY <1>3, <1>4, <2>1, <3>1, SetOnRemoveKeepsNotes
    <2>2. CASE o \notin Sets
      <3>1. \A x \in Objects : Len(notes[x]) =< Len(notes[x])
        BY <1>3, CountOfNotes
      <3> QED BY <1>4, <2>2, <3>1 DEF NotesLoop
    <2> QED BY <2>1, <2>2
  <1> HIDE DEF S, forgot
  <1>6. /\ NotesLoop(cleared, forgot, list, ref, S)
        /\ NothingWatched(cleared[o])
    BY <1>3, <1>5, ClearAllKeepsNotes DEF NotesLoop, NothingWatched
  <1> HIDE DEF cleared
  <1>7. /\ w \in [Sets \cup Groups -> Seq(Objects)] /\ \A s \in Sets : w[s] = list[s]
    BY <1>3, WithoutFacts
  <1>8. NotesLoop(cleared, notes, list, ref, S)
    BY <1>3, <1>5, <1>6, NotesLoopGoesOn
  <1> HIDE DEF w
  <1>9. NotesInv(cleared, w, ref, S)
    <2>1. \A s \in S, x \in Objects : Contains(w[s], x) => Contains(list[s], x)
      BY <1>3, <1>7
    <2>2. NotesInv(cleared, list, ref, S)
      BY <1>8 DEF NotesLoop
    <2> QED BY <2>1, <2>2, FewerMembers
  <1>10. InRound(before, o, S)
    <2>1. before \in Accs
      BY <1>3, <1>7, <1>9 DEF Accs, NotesInv, NotesType
    <2>2. \A s \in Sets : IsInjective(w[s])
      BY <1>7 DEF MemberInv, MemberState
    <2> QED BY <1>6, <1>9, <2>1, <2>2 DEF InRound, AccInv
  <1>11. AccInv(after, S) /\ Fewer(after, before) /\ after.notes[o] = <<>>
    <2> HIDE DEF before
    <2> QED BY <1>3, <1>10, ProcessKeepsNotes
  <1>12. /\ \A g \in Groups : after.list[g] = w[g]
         /\ \A s \in Sets, x \in Objects : Contains(after.list[s], x) => Contains(w[s], x)
         /\ \A x \in Objects : Len(after.notes[x]) =< Len(cleared[x])
    BY <1>11 DEF Fewer
  <1> HIDE DEF after, before
  <1>13. /\ list' \in [Sets \cup Groups -> Seq(Objects)]
         /\ ref' \in [Refs -> Objects \cup {NoObject}]
         /\ NotesInv(notes', list', ref', S)
         /\ \A s \in Sets : IsInjective(list'[s])
    BY <1>1, <1>11 DEF AccInv, Accs
  <1>14. \A x \in Objects : x \notin manager' => notes'[x] = <<>>
    <2> SUFFICES ASSUME NEW x \in Objects, x \notin manager' PROVE notes'[x] = <<>>
      OBVIOUS
    <2>1. CASE x = o
      BY <1>1, <1>11, <2>1
    <2>2. CASE x # o
      <3>1. notes[x] = <<>>
        BY <1>2, <2>2 DEF MemberInv, MemberState
      <3>2. NoneNew(cleared, notes) /\ NotesType(cleared)
        BY <1>3, <1>8, LessHasNoneNew DEF NotesLoop, NotesInv
      <3>3. NoneNew(notes', cleared)
        BY <1>1, <1>12, <1>13, <3>2, LessHasNoneNew DEF NotesInv
      <3> QED BY <3>1, <3>2, <3>3 DEF NoneNew
    <2> QED BY <2>1, <2>2
  <1>15. \A x \in Objects : memory'[x] = "none" => x \notin manager' /\ (x \in Sets => list'[x] = <<>>)
    <2> SUFFICES ASSUME NEW x \in Objects, memory'[x] = "none"
                 PROVE  x \notin manager' /\ (x \in Sets => list'[x] = <<>>)
      OBVIOUS
    <2>1. memory[x] = "none"
      BY <1>2
    <2>2. x \notin manager /\ (x \in Sets => list[x] = <<>>)
      BY <2>1 DEF MemberInv, MemberState
    <2>3. ASSUME x \in Sets PROVE list'[x] = <<>>
      <3>1. w[x] = <<>> /\ list'[x] \in Seq(Objects)
        BY <1>7, <1>13, <2>2, <2>3
      <3>2. \A y \in Objects : ~Contains(list'[x], y)
        BY <1>1, <1>12, <2>3, <3>1 DEF Contains
      <3>3. \A y \in Objects : Count(list'[x], y) = 0
        BY <3>1, <3>2, CountType
      <3> QED BY <3>1, <3>3, CountNone
    <2> QED BY <1>2, <2>2, <2>3
  <1>16. memory' \in [Objects -> {"none", "live", "freed"}] /\ manager' \subseteq Objects
    BY <1>2 DEF MemberInv, MemberState
  <1>17. /\ stack' \in Seq(Frames)
         /\ mGroup' \in [Objects -> Groups \cup {NoObject}]
    <2> DEFINE child == below # <<>> /\ below[Len(below)].at = "children"
               c == below[Len(below)]
    <2>1. CASE ~child
      BY <1>2, <1>3, <2>1
    <2>2. CASE child
      <3>1. Len(below) \in 1 .. Len(below) /\ Len(below) \in Nat /\ c \in Frames /\ c.at = "children"
        BY <2>2
      <3>2. c.obj \in Groups /\ [c EXCEPT !.next = c.next - 1] \in Frames
        BY <3>1 DEF Frames
      <3>3. stack' = [below EXCEPT ![Len(below)] = [c EXCEPT !.next = c.next - 1]]
        BY <1>2, <2>2
      <3>4. mGroup' = [mGroup EXCEPT ![o] = c.obj]
        BY <1>2, <2>2
      <3> HIDE DEF c, child
      <3>5. stack' \in Seq(Frames)
        BY <3>1, <3>2, <3>3
      <3> QED BY <1>3, <3>2, <3>4, <3>5
    <2> QED BY <2>1, <2>2
  <1>18. MemberInv'
    <2>1. S = Sets \cap manager'
      BY <1>2 DEF S
    <2> QED BY <1>13, <1>14, <1>15, <1>16, <1>17, <2>1 DEF MemberInv, MemberState
  <1> QED BY <1>1, <1>11, <1>12, <1>18 DEF w

LEMMA CallIsFrame ==
  \A o \in Objects \cup {NoObject}, delete \in BOOLEAN :
    /\ o \in Objects => Call("onRemove", o, delete) \in Frames
    /\ Call("event", o, delete) \in Frames /\ Call("advance", o, delete) \in Frames
  BY DEF Frames, Call

LEMMA StackOnly ==
  ASSUME MemberInv, UNCHANGED <<memory, manager, memberVars>>, stack' \in Seq(Frames)
  PROVE  MemberInv'
  BY DEF MemberInv, MemberState, memberVars

LEMMA CallsKeepMembers ==
  ASSUME MemberInv, EventInv,
         \/ \E o \in Objects : DeleteObject(o)
         \/ \E time \in now .. MaxTime : AdvanceToTime(time)
         \/ PopEvent \/ EndEvent \/ EndAdvance
  PROVE  MemberInv'
  <1>1. stack \in Seq(Frames) /\ (stack # <<>> => Front(stack) \in Seq(Frames))
    BY FrontFacts DEF MemberInv, MemberState
  <1>2. ASSUME NEW o \in Objects, DeleteObject(o) PROVE MemberInv'
    <2>1. stack' = Append(stack, Call("onRemove", o, TRUE))
          /\ UNCHANGED <<memory, manager, memberVars>>
      BY <1>2 DEF DeleteObject
    <2>2. Call("onRemove", o, TRUE) \in Frames
      BY CallIsFrame
    <2>3. stack' \in Seq(Frames)
      <3>1. Append(stack, Call("onRemove", o, TRUE)) \in Seq(Frames)
        BY <1>1, <2>2, PushFacts
      <3> QED BY <2>1, <3>1
    <2> QED BY <2>1, <2>3, StackOnly
  <1>3. ASSUME NEW time, AdvanceToTime(time) PROVE MemberInv'
    <2>1. stack' = <<Call("advance", NoObject, FALSE)>> /\ UNCHANGED <<memory, manager, memberVars>>
      BY <1>3 DEF AdvanceToTime, objectVars
    <2>2. Call("advance", NoObject, FALSE) \in Frames
      BY CallIsFrame
    <2>3. <<Call("advance", NoObject, FALSE)>> \in Seq(Frames)
      BY <2>2, OneFrame
    <2>4. stack' \in Seq(Frames)
      BY <2>1, <2>3
    <2> QED BY <2>1, <2>4, StackOnly
  <1>4. CASE PopEvent
    <2> DEFINE event == Head(queue)
    <2>1. /\ queue # <<>> /\ UNCHANGED <<memory, manager, memberVars>>
          /\ stack' \in {stack, Append(stack, Call("event", event.dest, FALSE))}
      BY <1>4 DEF PopEvent, Due, objectVars
    <2>2. event \in Events
      BY <2>1 DEF EventInv, QueueInv
    <2>3. event.dest \in Objects
      BY <2>2, EventFields, ObjectConstants
    <2>4. Call("event", event.dest, FALSE) \in Frames
      BY <2>3, CallIsFrame
    <2> HIDE DEF event
    <2>5. stack' \in Seq(Frames)
      <3>1. Append(stack, Call("event", event.dest, FALSE)) \in Seq(Frames)
        BY <1>1, <2>4, PushFacts
      <3> QED BY <1>1, <2>1, <3>1
    <2> QED BY <2>1, <2>5, StackOnly
  <1>5. CASE EndEvent
    BY <1>1, <1>5, StackOnly DEF EndEvent, objectVars
  <1>6. CASE EndAdvance
    BY <1>1, <1>6, StackOnly DEF EndAdvance, objectVars
  <1> QED BY <1>2, <1>3, <1>4, <1>5, <1>6

\* Sorting a list takes its elements to other places.
LEMMA SortIdFacts ==
  ASSUME NEW s \in Seq(Objects), NEW sorted \in SortId(s)
  PROVE  /\ sorted \in Seq(Objects) /\ Len(sorted) = Len(s)
         /\ \E place \in Bijection(1 .. Len(s), 1 .. Len(s)) :
              \A i \in 1 .. Len(s) : sorted[i] = s[place[i]]
  <1>1. DOMAIN s = 1 .. Len(s) /\ Len(s) \in Nat
    OBVIOUS
  <1>2. PICK place \in Bijection(1 .. Len(s), 1 .. Len(s)) :
          sorted = [i \in 1 .. Len(s) |-> s[place[i]]]
    BY <1>1 DEF SortId
  <1>3. place \in [1 .. Len(s) -> 1 .. Len(s)]
    BY <1>2 DEF Bijection, Injection
  <1>4. \A i \in 1 .. Len(s) : place[i] \in 1 .. Len(s) /\ s[place[i]] \in Objects
    BY <1>1, <1>3
  <1>5. sorted \in [1 .. Len(s) -> Objects]
    BY <1>2, <1>4
  <1>6. sorted \in Seq(Objects) /\ Len(sorted) = Len(s)
    BY <1>1, <1>5
  <1>7. \A i \in 1 .. Len(s) : sorted[i] = s[place[i]]
    BY <1>2
  <1> QED BY <1>6, <1>7

LEMMA EndGroupOnRemoveKeepsMembers ==
  ASSUME MemberInv, EndGroupOnRemove PROVE MemberInv'
  <1> DEFINE g == Top.obj
             n == Len(stack)
             c == [stack[n] EXCEPT !.at = "children", !.next = Len(list[g])]
  <1>1. /\ stack # <<>> /\ g \in Groups
        /\ \E sorted \in SortId(list[g]) : list' = [list EXCEPT ![g] = sorted]
        /\ stack' = [stack EXCEPT ![n] = c]
        /\ UNCHANGED <<memory, manager, mGroup, notes, ref>>
    BY DEF EndGroupOnRemove
  <1>2. /\ list \in [Sets \cup Groups -> Seq(Objects)] /\ list[g] \in Seq(Objects)
        /\ mGroup \in [Objects -> Groups \cup {NoObject}] /\ stack \in Seq(Frames)
    BY <1>1 DEF MemberInv, MemberState
  <1>3. n \in 1 .. Len(stack) /\ stack[n] \in Frames /\ stack[n].obj = g
    BY <1>1, <1>2 DEF Top
  <1>4. Len(list[g]) \in Int
    BY <1>2
  <1>5. c \in Frames
    <2> HIDE DEF g, n
    <2> QED BY <1>1, <1>3, <1>4, ObjectConstants DEF Frames
  <1>6. stack' \in Seq(Frames)
    <2> HIDE DEF g, n, c
    <2> QED BY <1>1, <1>2, <1>3, <1>5
  <1>7. list' \in [Sets \cup Groups -> Seq(Objects)] /\ \A s \in Sets : list'[s] = list[s]
    <2>1. PICK sorted \in SortId(list[g]) : list' = [list EXCEPT ![g] = sorted]
      BY <1>1
    <2>2. sorted \in Seq(Objects)
      BY <1>2, SortIdFacts
    <2> HIDE DEF g
    <2> QED BY <1>1, <1>2, <2>1, <2>2, ObjectConstants
  <1>8. UNCHANGED mGroup
    BY <1>1
  <1> QED BY <1>1, <1>2, <1>6, <1>7, <1>8, GroupListsFree

LEMMA UnregisterChildKeepsMembers ==
  ASSUME MemberInv, UnregisterChild PROVE MemberInv'
  <1> DEFINE n == Len(stack)
             child == list[Top.obj][Top.next]
  <1>1. stack # <<>> /\ Top.at = "children" /\ Top.next \in DOMAIN list[Top.obj]
        /\ UNCHANGED <<memory, manager, list, notes, ref>>
    BY DEF UnregisterChild, objectVars
  <1>2. /\ list \in [Sets \cup Groups -> Seq(Objects)]
        /\ mGroup \in [Objects -> Groups \cup {NoObject}] /\ stack \in Seq(Frames)
    BY DEF MemberInv, MemberState
  <1>3. n \in 1 .. Len(stack) /\ stack[n] \in Frames /\ Top = stack[n]
    BY <1>1, <1>2 DEF Top
  <1>4. Top.obj \in Groups /\ [stack[n] EXCEPT !.next = @ - 1] \in Frames
    BY <1>1, <1>3 DEF Frames
  <1>5. child \in Objects
    <2>1. list[Top.obj] \in Seq(Objects)
      BY <1>2, <1>4
    <2> QED BY <1>1, <2>1
  <1>6. \/ /\ mGroup' = [mGroup EXCEPT ![child] = NoObject]
           /\ stack' = Append(stack, Call("onRemove", child, FALSE))
        \/ /\ stack' = [stack EXCEPT ![n] = [stack[n] EXCEPT !.next = @ - 1]]
           /\ UNCHANGED mGroup
    BY DEF UnregisterChild
  <1> HIDE DEF n, child
  <1>7. Call("onRemove", child, FALSE) \in Frames
    BY <1>5, CallIsFrame
  <1>8. mGroup' \in [Objects -> Groups \cup {NoObject}]
    BY <1>2, <1>6
  <1>9. stack' \in Seq(Frames)
    <2>1. Append(stack, Call("onRemove", child, FALSE)) \in Seq(Frames)
      BY <1>2, <1>7, PushFacts
    <2>2. ASSUME NEW c \in Frames PROVE [stack EXCEPT ![n] = c] \in Seq(Frames)
      BY <1>2, <1>3
    <2> QED BY <1>4, <1>6, <2>1, <2>2
  <1> QED BY <1>1, <1>2, <1>8, <1>9, GroupListsFree

LEMMA EndsKeepMembers ==
  ASSUME MemberInv, EndOnRemove \/ EndGroup
  PROVE  /\ MemberInv' /\ stack # <<>> /\ Top \in Frames /\ Top.obj \in Objects
         /\ Front(stack) \in Seq(Frames) /\ Unregister(Top.obj, Front(stack), Top.delete)
         /\ notes'[Top.obj] = <<>>
         /\ \A g \in Groups : list'[g] = Without(mGroup[Top.obj], Top.obj)[g]
  <1>1. /\ stack # <<>> /\ Top.at \in {"onRemove", "children"}
        /\ Unregister(Top.obj, Front(stack), Top.delete)
    BY DEF EndOnRemove, EndGroup
  <1>2. stack \in Seq(Frames)
    BY DEF MemberInv, MemberState
  <1>3. Front(stack) \in Seq(Frames) /\ Top \in Frames
    BY <1>1, <1>2, FrontFacts DEF Top
  <1>4. Top.obj \in Objects
    BY <1>1, <1>3 DEF Frames
  <1> QED BY <1>1, <1>3, <1>4, UnregisterKeepsMembers

LEMMA NextMembers == ASSUME MemberInv, EventInv, [Next]_vars PROVE MemberInv'
  <1>1. ASSUME UNCHANGED <<memory, manager, memberVars, stack>> PROVE MemberInv'
    BY <1>1 DEF MemberInv, memberVars
  <1>2. CASE \E o \in Objects, time \in now .. MaxTime : PostEvent(o, time)
    BY <1>1, <1>2 DEF PostEvent, objectVars
  <1>3. CASE \E seq \in 1 .. MaxPosts : CancelEvent(seq)
    BY <1>1, <1>3 DEF CancelEvent, objectVars
  <1>4. CASE UNCHANGED vars
    BY <1>1, <1>4 DEF vars, objectVars
  <1> QED BY <1>2, <1>3, <1>4, RegisterKeepsMembers, AddToSetKeepsMembers, RemoveFromSetKeepsMembers,
             AddToGroupKeepsMembers, RemoveFromGroupKeepsMembers, SetRefKeepsMembers,
             CallsKeepMembers, EndGroupOnRemoveKeepsMembers, UnregisterChildKeepsMembers,
             EndsKeepMembers DEF Next

LEMMA MembersHold == Spec => [](MemberInv /\ EventInv)
  <1>1. Init => MemberInv /\ EventInv
    BY InitMembers, InitQueue
  <1>2. (MemberInv /\ EventInv) /\ [Next]_vars => (MemberInv /\ EventInv)'
    BY NextMembers, NextQueue
  <1> QED BY <1>1, <1>2, PTL DEF Spec

\* Each DeleteNotify has its ClearNotify, members of sets and pointers have
\* their notes (deleteNotify, clearNotify, clearAllNotifications,
\* processDeleteNotifies, SimSet::onRemove).
THEOREM NotesStayPaired == Spec => []NotesArePaired
  <1>1. MemberInv => NotesArePaired
    <2> SUFFICES ASSUME MemberInv PROVE NotesArePaired
      OBVIOUS
    <2>1. NotesInv(notes, list, ref, Sets \cap manager) /\ ref \in [Refs -> Objects \cup {NoObject}]
          /\ list \in [Sets \cup Groups -> Seq(Objects)]
      BY DEF MemberInv, MemberState
    <2>2. \A o, note : Times(o, note) = Count(notes[o], note)
      BY DEF Times, Count, At
    <2>3. \A w, x \in Objects : Times(x, DeleteNote(w)) = Times(w, ClearNote(x))
      BY <2>1, <2>2 DEF NotesInv, Paired
    <2>4. \A s \in Sets \cap manager : \A o \in ToSet(list[s]) : Times(o, DeleteNote(s)) > 0
      <3> SUFFICES ASSUME NEW s \in Sets \cap manager, NEW o \in ToSet(list[s])
                   PROVE  Times(o, DeleteNote(s)) > 0
        OBVIOUS
      <3>1. list[s] \in Seq(Objects)
        BY <2>1
      <3>2. Contains(list[s], o) /\ o \in Objects
        BY <3>1 DEF ToSet, Contains
      <3> QED BY <2>1, <2>2, <3>2 DEF NotesInv, MembersNoted
    <2>5. \A r \in Refs : ref[r] # NoObject => Times(ref[r], RefNote(r)) = 1
      BY <2>1, <2>2 DEF NotesInv, RefsNoted
    <2> QED BY <2>3, <2>4, <2>5 DEF NotesArePaired
  <1> QED BY <1>1, MembersHold, PTL

-----------------------------------------------------------------------------
(* Groups, as long as scripts leave alone what belongs to a dying group.   *)
(* What holds of the calls under way: the object of a removal is           *)
(* registered; above a group that unregisters its children is the removal  *)
(* of one of them; the later children are gone; an object is unregistered  *)
(* again only by its own children; it is not in a group that is dying.     *)

Removes(c)  == c.at \in {"onRemove", "children"}
Sweeps(c)   == c.at = "children"

\* The group g unregisters x, and said so.
Held(st, x, g) ==
  \E i \in 1 .. Len(st) - 1 : Sweeps(st[i]) /\ st[i].obj = g /\ st[i + 1].obj = x

\* Twice.
Double(st, x) ==
  \E i, j \in 1 .. Len(st) : /\ i < j /\ Removes(st[i]) /\ Removes(st[j])
                             /\ st[i].obj = x /\ st[j].obj = x

\* No later call removes the same object.
Latest(st, i) ==
  \A j \in 1 .. Len(st) : j > i /\ Removes(st[j]) => st[j].obj # st[i].obj

Above(lists, st, i) ==
  /\ Removes(st[i + 1]) /\ ~st[i + 1].delete /\ Contains(lists[st[i].obj], st[i + 1].obj)
  /\ Latest(st, i) => /\ st[i].next \in 1 .. Len(lists[st[i].obj])
                      /\ lists[st[i].obj][st[i].next] = st[i + 1].obj

Swept(man, lists, c) ==
  /\ c.next =< Len(lists[c.obj])
  /\ \A k \in 1 .. Len(lists[c.obj]) : k > c.next => lists[c.obj][k] \notin man

CallState(man, lists, groups, st) ==
  /\ \A i \in 1 .. Len(st) : st[i].next \in Nat /\ (Removes(st[i]) => st[i].obj \in man)
  /\ \A i \in 1 .. Len(st) - 1 : Sweeps(st[i]) => Above(lists, st, i)
  /\ \A i, j \in 1 .. Len(st) :
       i < j /\ Removes(st[i]) /\ Removes(st[j]) /\ st[i].obj = st[j].obj => Sweeps(st[i])
  /\ \A i \in 1 .. Len(st) : Sweeps(st[i]) /\ Latest(st, i) => Swept(man, lists, st[i])
  /\ \A i, j \in 1 .. Len(st) :
       j < i /\ Removes(st[i]) /\ Sweeps(st[j]) => groups[st[i].obj] # st[j].obj

\* The calls stay as they are, and nothing comes back to a dying group.
LEMMA CallsStay ==
  ASSUME NEW man, NEW lists, NEW groups, NEW st, CallState(man, lists, groups, st),
         NEW man2, NEW lists2, NEW groups2,
         \A i \in 1 .. Len(st) : Sweeps(st[i]) =>
           /\ lists2[st[i].obj] = lists[st[i].obj]
           /\ \A k \in 1 .. Len(lists[st[i].obj]) :
                lists[st[i].obj][k] \in man2 => lists[st[i].obj][k] \in man,
         \A i \in 1 .. Len(st) : Removes(st[i]) =>
           /\ st[i].obj \in man => st[i].obj \in man2
           /\ \/ groups2[st[i].obj] = groups[st[i].obj]
              \/ \A j \in 1 .. Len(st) : Sweeps(st[j]) => groups2[st[i].obj] # st[j].obj
  PROVE  CallState(man2, lists2, groups2, st)
  <1>1. \A i \in 1 .. Len(st) : st[i].next \in Nat /\ (Removes(st[i]) => st[i].obj \in man2)
    BY DEF CallState
  <1>2. \A i \in 1 .. Len(st) - 1 : Sweeps(st[i]) => Above(lists2, st, i)
    <2> SUFFICES ASSUME NEW i \in 1 .. Len(st) - 1, Sweeps(st[i]) PROVE Above(lists2, st, i)
      OBVIOUS
    <2>1. Above(lists, st, i)
      BY DEF CallState
    <2>2. lists2[st[i].obj] = lists[st[i].obj]
      <3>1. i \in 1 .. Len(st)
        OBVIOUS
      <3> QED BY <3>1
    <2> QED BY <2>1, <2>2 DEF Above
  <1>3. \A i \in 1 .. Len(st) : Sweeps(st[i]) /\ Latest(st, i) => Swept(man2, lists2, st[i])
    <2> SUFFICES ASSUME NEW i \in 1 .. Len(st), Sweeps(st[i]), Latest(st, i)
                 PROVE  Swept(man2, lists2, st[i])
      OBVIOUS
    <2>1. Swept(man, lists, st[i])
      BY DEF CallState
    <2>2. /\ lists2[st[i].obj] = lists[st[i].obj]
          /\ \A k \in 1 .. Len(lists[st[i].obj]) :
               lists[st[i].obj][k] \in man2 => lists[st[i].obj][k] \in man
      OBVIOUS
    <2> QED BY <2>1, <2>2 DEF Swept
  <1>4. ASSUME NEW i \in 1 .. Len(st), NEW j \in 1 .. Len(st), j < i, Removes(st[i]), Sweeps(st[j])
        PROVE  groups2[st[i].obj] # st[j].obj
    <2>1. groups[st[i].obj] # st[j].obj
      BY <1>4 DEF CallState
    <2> QED BY <1>4, <2>1
  <1>5. \A i, j \in 1 .. Len(st) :
          i < j /\ Removes(st[i]) /\ Removes(st[j]) /\ st[i].obj = st[j].obj => Sweeps(st[i])
    BY DEF CallState
  <1> QED BY <1>1, <1>2, <1>3, <1>4, <1>5 DEF CallState

\* st2 is st and one more call, which does not sweep.
Pushed(st2, st, c) ==
  /\ Len(st) \in Nat /\ Len(st2) = Len(st) + 1 /\ st2[Len(st) + 1] = c
  /\ \A i \in 1 .. Len(st) : st2[i] = st[i]
  /\ ~Sweeps(c) /\ c.next = 0

LEMMA PushKeepsCalls ==
  ASSUME NEW man, NEW lists, NEW groups, NEW st, CallState(man, lists, groups, st),
         NEW st2, NEW c, Pushed(st2, st, c),
         Removes(c) => c.obj \in man,
         Len(st) > 0 /\ Sweeps(st[Len(st)]) =>
           /\ Removes(c) /\ ~c.delete /\ st[Len(st)].next \in 1 .. Len(lists[st[Len(st)].obj])
           /\ lists[st[Len(st)].obj][st[Len(st)].next] = c.obj,
         Removes(c) => \A i \in 1 .. Len(st) :
           /\ Removes(st[i]) /\ st[i].obj = c.obj => Sweeps(st[i])
           /\ Sweeps(st[i]) => groups[c.obj] # st[i].obj
  PROVE  CallState(man, lists, groups, st2)
  <1> DEFINE N == Len(st)
  <1>1. /\ N \in Nat /\ Len(st2) = N + 1 /\ st2[N + 1] = c /\ c.next = 0 /\ ~Sweeps(c)
        /\ \A i \in 1 .. N : st2[i] = st[i]
    BY DEF Pushed
  <1> HIDE DEF N
  <1>2. \A i \in 1 .. N + 1 : i \in 1 .. N \/ i = N + 1
    BY <1>1
  <1>3. \A i \in 1 .. N : i \in 1 .. N + 1 /\ i # N + 1 /\ i < N + 1
    BY <1>1
  <1>4. \A i \in 1 .. N : Latest(st2, i) => Latest(st, i)
    BY <1>1, <1>3 DEF Latest, N
  <1>5. \A i \in 1 .. N + 1 : st2[i].next \in Nat /\ (Removes(st2[i]) => st2[i].obj \in man)
    BY <1>1, <1>2 DEF CallState, N
  <1>6. ASSUME NEW i \in 1 .. N, Sweeps(st2[i]) PROVE Above(lists, st2, i)
    <2>1. st2[i] = st[i]
      BY <1>1
    <2>2. CASE i = N
      <3>1. N > 0 /\ Sweeps(st[N]) /\ st2[i + 1] = c /\ st2[i] = st[N]
        BY <1>1, <1>6, <2>1, <2>2
      <3>2. /\ Removes(c) /\ ~c.delete /\ st[N].next \in 1 .. Len(lists[st[N].obj])
            /\ lists[st[N].obj][st[N].next] = c.obj
        BY <3>1 DEF N
      <3>3. Contains(lists[st[N].obj], c.obj)
        BY <3>2 DEF Contains
      <3> QED BY <3>1, <3>2, <3>3 DEF Above
    <2>3. CASE i # N
      <3>1. i \in 1 .. N - 1 /\ i + 1 \in 1 .. N
        BY <1>1, <2>3
      <3>2. Above(lists, st, i) /\ st2[i + 1] = st[i + 1]
        BY <1>1, <1>6, <2>1, <3>1 DEF CallState, N
      <3> QED BY <1>4, <2>1, <3>2 DEF Above
    <2> QED BY <2>2, <2>3
  <1>7. ASSUME NEW i \in 1 .. N + 1, NEW j \in 1 .. N + 1, i < j,
               Removes(st2[i]), Removes(st2[j]), st2[i].obj = st2[j].obj
        PROVE  Sweeps(st2[i])
    <2>1. i \in 1 .. N /\ st2[i] = st[i]
      BY <1>1, <1>7
    <2>2. CASE j = N + 1
      BY <1>1, <1>7, <2>1, <2>2 DEF N
    <2>3. CASE j # N + 1
      BY <1>1, <1>2, <1>7, <2>1, <2>3 DEF CallState, N
    <2> QED BY <2>2, <2>3
  <1>8. ASSUME NEW i \in 1 .. N + 1, Sweeps(st2[i]), Latest(st2, i) PROVE Swept(man, lists, st2[i])
    <2>1. i \in 1 .. N /\ st2[i] = st[i]
      BY <1>1, <1>2, <1>8
    <2> QED BY <1>4, <1>8, <2>1 DEF CallState, N
  <1>9. ASSUME NEW i \in 1 .. N + 1, NEW j \in 1 .. N + 1, j < i, Removes(st2[i]), Sweeps(st2[j])
        PROVE  groups[st2[i].obj] # st2[j].obj
    <2>1. j \in 1 .. N /\ st2[j] = st[j]
      BY <1>1, <1>9
    <2>2. CASE i = N + 1
      BY <1>1, <1>9, <2>1, <2>2 DEF N
    <2>3. CASE i # N + 1
      BY <1>1, <1>2, <1>9, <2>1, <2>3 DEF CallState, N
    <2> QED BY <2>2, <2>3
  <1>10. N + 1 - 1 = N
    BY <1>1
  <1> QED BY <1>1, <1>5, <1>6, <1>7, <1>8, <1>9, <1>10 DEF CallState

LEMMA PushKeepsHeld ==
  ASSUME NEW st, NEW st2, NEW c, Pushed(st2, st, c)
  PROVE  /\ \A x, g : Held(st, x, g) => Held(st2, x, g)
         /\ \A x : Double(st, x) => Double(st2, x)
  <1>1. \A i \in 1 .. Len(st) : i \in 1 .. Len(st2) /\ st2[i] = st[i]
    BY DEF Pushed
  <1>2. \A i \in 1 .. Len(st) - 1 : i \in 1 .. Len(st2) - 1 /\ i \in 1 .. Len(st)
                                    /\ i + 1 \in 1 .. Len(st)
    BY DEF Pushed
  <1>3. \A x, g : Held(st, x, g) => Held(st2, x, g)
    BY <1>1, <1>2 DEF Held
  <1>4. \A x : Double(st, x) => Double(st2, x)
    BY <1>1 DEF Double
  <1> QED BY <1>3, <1>4

\* st2 is st without its last call.
Popped(st2, st) ==
  /\ Len(st) \in Nat \ {0} /\ Len(st2) = Len(st) - 1
  /\ \A i \in 1 .. Len(st) - 1 : st2[i] = st[i]

\* No other call removes the object of the last one.
LastIsAlone(st) ==
  Removes(st[Len(st)]) =>
    \A i \in 1 .. Len(st) - 1 : Removes(st[i]) => st[i].obj # st[Len(st)].obj

LEMMA PopKeepsCalls ==
  ASSUME NEW man, NEW lists, NEW groups, NEW st, CallState(man, lists, groups, st),
         NEW st2, Popped(st2, st), LastIsAlone(st)
  PROVE  CallState(man, lists, groups, st2)
  <1> DEFINE N == Len(st)
  <1>1. /\ N \in Nat \ {0} /\ Len(st2) = N - 1 /\ \A i \in 1 .. N - 1 : st2[i] = st[i]
        /\ \A i \in 1 .. N - 1 : Removes(st[i]) /\ Removes(st[N]) => st[i].obj # st[N].obj
    BY DEF Popped, LastIsAlone
  <1> HIDE DEF N
  <1>2. /\ \A i \in 1 .. N - 1 : i \in 1 .. N
        /\ \A i \in 1 .. N - 1 - 1 : i \in 1 .. N - 1 /\ i + 1 \in 1 .. N - 1
        /\ \A i \in 1 .. N : i \in 1 .. N - 1 \/ i = N
    BY <1>1
  <1>3. \A i \in 1 .. N - 1 : Removes(st[i]) /\ Latest(st2, i) => Latest(st, i)
    <2> SUFFICES ASSUME NEW i \in 1 .. N - 1, Removes(st[i]), Latest(st2, i),
                        NEW j \in 1 .. N, j > i, Removes(st[j])
                 PROVE  st[j].obj # st[i].obj
      BY DEF Latest, N
    <2>1. CASE j = N
      BY <1>1, <2>1
    <2>2. CASE j # N
      <3>1. j \in 1 .. N - 1
        BY <1>2, <2>2
      <3> QED BY <1>1, <3>1 DEF Latest
    <2> QED BY <2>1, <2>2
  <1>4. \A i \in 1 .. N - 1 : st2[i].next \in Nat /\ (Removes(st2[i]) => st2[i].obj \in man)
    BY <1>1, <1>2 DEF CallState, N
  <1>5. ASSUME NEW i \in 1 .. N - 1 - 1, Sweeps(st2[i]) PROVE Above(lists, st2, i)
    <2>1. st2[i] = st[i] /\ st2[i + 1] = st[i + 1] /\ i \in 1 .. N - 1
      BY <1>1, <1>2
    <2>2. Above(lists, st, i) /\ Removes(st[i])
      BY <1>5, <2>1 DEF CallState, N, Removes, Sweeps
    <2> QED BY <1>3, <2>1, <2>2 DEF Above
  <1>6. \A i, j \in 1 .. N - 1 :
          i < j /\ Removes(st2[i]) /\ Removes(st2[j]) /\ st2[i].obj = st2[j].obj => Sweeps(st2[i])
    BY <1>1, <1>2 DEF CallState, N
  <1>7. ASSUME NEW i \in 1 .. N - 1, Sweeps(st2[i]), Latest(st2, i) PROVE Swept(man, lists, st2[i])
    <2>1. st2[i] = st[i] /\ i \in 1 .. N
      BY <1>1, <1>2
    <2>2. Sweeps(st[i]) /\ Removes(st[i])
      BY <1>7, <2>1 DEF Removes, Sweeps
    <2>3. Latest(st, i)
      BY <1>3, <1>7, <2>2
    <2> QED BY <2>1, <2>2, <2>3 DEF CallState, N
  <1>8. \A i, j \in 1 .. N - 1 :
          j < i /\ Removes(st2[i]) /\ Sweeps(st2[j]) => groups[st2[i].obj] # st2[j].obj
    BY <1>1, <1>2 DEF CallState, N
  <1> QED BY <1>1, <1>4, <1>5, <1>6, <1>7, <1>8 DEF CallState

LEMMA PopKeepsHeld ==
  ASSUME NEW man, NEW lists, NEW groups, NEW st, CallState(man, lists, groups, st),
         NEW st2, Popped(st2, st), NEW x, Removes(st[Len(st)]) => x # st[Len(st)].obj
  PROVE  /\ \A g : Held(st, x, g) => Held(st2, x, g)
         /\ Double(st, x) => Double(st2, x)
  <1> DEFINE N == Len(st)
  <1>1. /\ N \in Nat \ {0} /\ Len(st2) = N - 1 /\ \A i \in 1 .. N - 1 : st2[i] = st[i]
        /\ ~(Removes(st[N]) /\ st[N].obj = x)
    BY DEF Popped
  <1>2. ASSUME NEW g, Held(st, x, g) PROVE Held(st2, x, g)
    <2>1. PICK i \in 1 .. N - 1 : Sweeps(st[i]) /\ st[i].obj = g /\ st[i + 1].obj = x
      BY <1>2 DEF Held
    <2>2. Removes(st[i + 1])
      BY <2>1 DEF CallState, Above
    <2> HIDE DEF N
    <2>3. i + 1 # N
      BY <1>1, <2>1, <2>2
    <2>4. i \in 1 .. N - 1 - 1 /\ i + 1 \in 1 .. N - 1
      BY <1>1, <2>3
    <2> QED BY <1>1, <2>1, <2>4 DEF Held
  <1>3. ASSUME Double(st, x) PROVE Double(st2, x)
    <2>1. PICK i \in 1 .. N, j \in 1 .. N : /\ i < j /\ Removes(st[i]) /\ Removes(st[j])
                                            /\ st[i].obj = x /\ st[j].obj = x
      BY <1>3 DEF Double
    <2> HIDE DEF N
    <2>2. i \in 1 .. N - 1 /\ j \in 1 .. N - 1
      BY <1>1, <2>1
    <2> QED BY <1>1, <2>1, <2>2 DEF Double
  <1> QED BY <1>2, <1>3

\* st2 is st with c for its last call.
Replaced(st2, st, c) ==
  /\ Len(st) \in Nat \ {0} /\ Len(st2) = Len(st) /\ st2[Len(st)] = c
  /\ \A i \in 1 .. Len(st) - 1 : st2[i] = st[i]
  /\ c.obj = st[Len(st)].obj /\ c.delete = st[Len(st)].delete
  /\ Removes(c) /\ Removes(st[Len(st)]) /\ c.next \in Nat

LEMMA ReplaceKeepsHeld ==
  ASSUME NEW st, NEW st2, NEW c, Replaced(st2, st, c)
  PROVE  /\ \A x, g : Held(st, x, g) => Held(st2, x, g)
         /\ \A x : Double(st, x) => Double(st2, x)
  <1>1. \A i \in 1 .. Len(st) : /\ i \in 1 .. Len(st2) /\ st2[i].obj = st[i].obj
                                /\ (Removes(st[i]) => Removes(st2[i]))
    <2> SUFFICES ASSUME NEW i \in 1 .. Len(st)
                 PROVE  /\ i \in 1 .. Len(st2) /\ st2[i].obj = st[i].obj
                        /\ (Removes(st[i]) => Removes(st2[i]))
      OBVIOUS
    <2>1. i = Len(st) \/ i \in 1 .. Len(st) - 1
      BY DEF Replaced
    <2> QED BY <2>1 DEF Replaced
  <1>2. \A i \in 1 .. Len(st) - 1 : /\ i \in 1 .. Len(st2) - 1 /\ i + 1 \in 1 .. Len(st)
                                    /\ st2[i] = st[i]
    BY DEF Replaced
  <1>3. \A x, g : Held(st, x, g) => Held(st2, x, g)
    BY <1>1, <1>2 DEF Held
  <1>4. \A x : Double(st, x) => Double(st2, x)
    BY <1>1 DEF Double
  <1> QED BY <1>3, <1>4

LEMMA ReplaceKeepsCalls ==
  ASSUME NEW man, NEW lists, NEW groups, NEW st, CallState(man, lists, groups, st),
         NEW st2, NEW c, Replaced(st2, st, c), NEW lists2,
         Sweeps(c) => Swept(man, lists2, c),
         \A i \in 1 .. Len(st) - 1 : Sweeps(st[i]) =>
           \/ lists2[st[i].obj] = lists[st[i].obj]
           \/ /\ st[i].obj = c.obj
              /\ \A x : Contains(lists[st[i].obj], x) => Contains(lists2[st[i].obj], x)
  PROVE  CallState(man, lists2, groups, st2)
  <1> DEFINE N == Len(st)
  <1>1. /\ N \in Nat \ {0} /\ Len(st2) = N /\ st2[N] = c
        /\ \A i \in 1 .. N - 1 : st2[i] = st[i]
        /\ c.obj = st[N].obj /\ c.delete = st[N].delete
        /\ Removes(c) /\ Removes(st[N]) /\ c.next \in Nat
    BY DEF Replaced
  <1>2. \A i \in 1 .. N - 1 : Sweeps(st[i]) =>
           \/ lists2[st[i].obj] = lists[st[i].obj]
           \/ /\ st[i].obj = c.obj
              /\ \A x : Contains(lists[st[i].obj], x) => Contains(lists2[st[i].obj], x)
    OBVIOUS
  <1> HIDE DEF N
  <1>3. /\ \A i \in 1 .. N : i \in 1 .. N - 1 \/ i = N
        /\ \A i \in 1 .. N - 1 : i \in 1 .. N /\ i # N /\ i < N /\ i + 1 \in 1 .. N
        /\ N \in 1 .. N
    BY <1>1
  <1>4. \A i \in 1 .. N : st2[i].obj = st[i].obj /\ st2[i].delete = st[i].delete
                          /\ (Removes(st2[i]) <=> Removes(st[i]))
    BY <1>1, <1>3, Zenon
  <1>5. \A i \in 1 .. N : Latest(st2, i) <=> Latest(st, i)
    BY <1>1, <1>4 DEF Latest, N
  <1>6. \A i \in 1 .. N - 1 : Latest(st, i) => st[i].obj # c.obj
    BY <1>1, <1>3 DEF Latest, N
  <1>7. \A i \in 1 .. N : st2[i].next \in Nat /\ (Removes(st2[i]) => st2[i].obj \in man)
    BY <1>1, <1>3, <1>4 DEF CallState, N
  <1>8. ASSUME NEW i \in 1 .. N - 1, Sweeps(st2[i]) PROVE Above(lists2, st2, i)
    <2>1. st2[i] = st[i] /\ i \in 1 .. N /\ i + 1 \in 1 .. N
      BY <1>1, <1>3
    <2>2. Above(lists, st, i)
      BY <1>8, <2>1 DEF CallState, N
    <2>3. Contains(lists2[st[i].obj], st[i + 1].obj)
      BY <1>2, <1>8, <2>1, <2>2 DEF Above
    <2>4. Removes(st2[i + 1]) /\ ~st2[i + 1].delete
      BY <1>4, <2>1, <2>2, Zenon DEF Above
    <2>5. ASSUME Latest(st2, i)
          PROVE  /\ st2[i].next \in 1 .. Len(lists2[st2[i].obj])
                 /\ lists2[st2[i].obj][st2[i].next] = st2[i + 1].obj
      <3>1. Latest(st, i)
        BY <1>5, <2>1, <2>5
      <3>2. lists2[st[i].obj] = lists[st[i].obj]
        BY <1>2, <1>6, <1>8, <2>1, <3>1
      <3> QED BY <1>4, <2>1, <2>2, <3>1, <3>2 DEF Above
    <2> QED BY <1>4, <2>1, <2>3, <2>4, <2>5 DEF Above
  <1>9. ASSUME NEW i \in 1 .. N, NEW j \in 1 .. N, i < j,
               Removes(st2[i]), Removes(st2[j]), st2[i].obj = st2[j].obj
        PROVE  Sweeps(st2[i])
    <2>1. i \in 1 .. N - 1
      BY <1>1, <1>9
    <2>2. Removes(st[i]) /\ Removes(st[j]) /\ st[i].obj = st[j].obj
      BY <1>4, <1>9
    <2> QED BY <1>1, <1>9, <2>1, <2>2 DEF CallState, N
  <1>10. ASSUME NEW i \in 1 .. N, Sweeps(st2[i]), Latest(st2, i) PROVE Swept(man, lists2, st2[i])
    <2>1. CASE i = N
      BY <1>1, <1>10, <2>1
    <2>2. CASE i # N
      <3>1. i \in 1 .. N - 1 /\ st2[i] = st[i] /\ Latest(st, i)
        BY <1>1, <1>3, <1>5, <1>10, <2>2
      <3>2. lists2[st[i].obj] = lists[st[i].obj]
        BY <1>2, <1>6, <1>10, <3>1
      <3>3. Swept(man, lists, st[i])
        BY <1>10, <3>1 DEF CallState, N
      <3> QED BY <3>1, <3>2, <3>3 DEF Swept
    <2> QED BY <2>1, <2>2
  <1>11. ASSUME NEW i \in 1 .. N, NEW j \in 1 .. N, j < i, Removes(st2[i]), Sweeps(st2[j])
         PROVE  groups[st2[i].obj] # st2[j].obj
    <2>1. j \in 1 .. N - 1 /\ st2[j] = st[j]
      BY <1>1, <1>11
    <2>2. Removes(st[i]) /\ st2[i].obj = st[i].obj
      BY <1>4, <1>11
    <2> QED BY <1>11, <2>1, <2>2 DEF CallState, N
  <1> QED BY <1>1, <1>7, <1>8, <1>9, <1>10, <1>11 DEF CallState

\* Registered objects are those with the flag, and live; what a group has in its
\* list was made, is gone if the group is, and is not deleted before it.
LifeState(mem, man, fl, lists) ==
  /\ fl \in [Objects -> SUBSET {"Added", "Removed", "Deleted"}]
  /\ \A x \in Objects : /\ x \in man <=> "Added" \in fl[x]
                        /\ x \in man => mem[x] = "live"
  /\ \A g \in Groups, x \in Objects : Contains(lists[g], x) =>
       /\ mem[g] # "none" /\ mem[x] # "none"
       /\ g \notin man => x \notin man
       /\ mem[g] = "live" => mem[x] = "live"

\* OneGroup, of all objects.
OwnState(lists, groups, st) ==
  \A g \in Groups, x \in Objects :
    /\ groups[x] = g => Contains(lists[g], x)
    /\ Contains(lists[g], x) => groups[x] = g \/ Held(st, x, g) \/ Double(st, x)
    /\ Count(lists[g], x) > 1 => Double(st, x)

GroupInv ==
  /\ CallState(manager, list, mGroup, stack)
  /\ LifeState(memory, manager, flags, list)
  /\ OwnState(list, mGroup, stack)
  /\ \A i \in DOMAIN queue : queue[i].dest \in manager

LEMMA FrameFacts ==
  ASSUME MemberInv
  PROVE  /\ Len(stack) \in Nat
         /\ \A i \in 1 .. Len(stack) :
              /\ stack[i] \in Frames /\ stack[i].delete \in BOOLEAN
              /\ Removes(stack[i]) => stack[i].obj \in Objects
              /\ Sweeps(stack[i]) => Removes(stack[i]) /\ stack[i].obj \in Groups
         /\ \A g \in Groups : list[g] \in Seq(Objects) /\ Len(list[g]) \in Nat /\ g \in Objects
         /\ stack # <<>> => Len(stack) \in 1 .. Len(stack) /\ Top = stack[Len(stack)]
  <1>1. stack \in Seq(Frames) /\ list \in [Sets \cup Groups -> Seq(Objects)]
    BY DEF MemberInv, MemberState
  <1>2. Len(stack) \in Nat /\ \A i \in 1 .. Len(stack) : stack[i] \in Frames
    BY <1>1
  <1>3. stack # <<>> => Len(stack) \in 1 .. Len(stack)
    BY <1>1
  <1> QED BY <1>1, <1>2, <1>3, ObjectConstants DEF Frames, Removes, Sweeps, Top

\* The calls, and what concerns groups, stay.
LEMMA GroupsUntouched ==
  ASSUME MemberInv, GroupInv, UNCHANGED <<memory, manager, flags, mGroup, stack>>,
         \A g \in Groups : list'[g] = list[g],
         \A i \in DOMAIN queue' : queue'[i].dest \in manager
  PROVE  GroupInv'
  <1>1. CallState(manager, list', mGroup, stack)
    <2>1. \A i \in 1 .. Len(stack) : Sweeps(stack[i]) => list'[stack[i].obj] = list[stack[i].obj]
      BY FrameFacts
    <2>2. CallState(manager, list, mGroup, stack)
      BY DEF GroupInv
    <2> QED BY <2>1, <2>2, CallsStay
  <1>2. LifeState(memory, manager, flags, list')
    BY DEF GroupInv, LifeState
  <1>3. OwnState(list', mGroup, stack)
    BY DEF GroupInv, OwnState
  <1> QED BY <1>1, <1>2, <1>3 DEF GroupInv

LEMMA RegisterKeepsGroups ==
  ASSUME MemberInv, GroupInv, NEW o \in Objects, RegisterObject(o) PROVE GroupInv'
  <1>1. /\ memory[o] = "none" /\ memory' = [memory EXCEPT ![o] = "live"]
        /\ flags' = [flags EXCEPT ![o] = {"Added"}]
        /\ manager' = manager \cup {o} /\ UNCHANGED <<list, mGroup, stack, queue>>
    BY DEF RegisterObject, memberVars, eventVars
  <1>2. LifeState(memory, manager, flags, list) /\ memory \in [Objects -> {"none", "live", "freed"}]
    BY DEF GroupInv, MemberInv, MemberState
  <1>3. \A g \in Groups, x \in Objects : Contains(list[g], x) => g # o /\ x # o
    BY <1>1, <1>2 DEF LifeState
  <1>4. LifeState(memory', manager', flags', list)
    BY <1>1, <1>2, <1>3 DEF LifeState
  <1>5. CallState(manager', list, mGroup, stack)
    <2>1. CallState(manager, list, mGroup, stack)
      BY DEF GroupInv
    <2>2. ASSUME NEW i \in 1 .. Len(stack), Sweeps(stack[i]), NEW k \in 1 .. Len(list[stack[i].obj]),
                 list[stack[i].obj][k] \in manager'
          PROVE  list[stack[i].obj][k] \in manager
      <3>1. stack[i].obj \in Groups
        BY <2>2, FrameFacts
      <3>2. list[stack[i].obj] \in Seq(Objects)
        BY <3>1, FrameFacts
      <3>3. list[stack[i].obj][k] \in Objects /\ Contains(list[stack[i].obj], list[stack[i].obj][k])
        BY <3>2 DEF Contains
      <3> QED BY <1>1, <1>3, <2>2, <3>1, <3>3
    <2>3. \A i \in 1 .. Len(stack) :
            Removes(stack[i]) => (stack[i].obj \in manager => stack[i].obj \in manager')
      BY <1>1
    <2> QED BY <2>1, <2>2, <2>3, CallsStay
  <1> QED BY <1>1, <1>4, <1>5 DEF GroupInv

LEMMA SetsKeepGroups ==
  ASSUME MemberInv, GroupInv,
         \/ \E s \in Sets, o \in Objects : AddToSet(s, o) \/ RemoveFromSet(s, o)
         \/ \E r \in Refs, o \in Objects : SetRef(r, o)
  PROVE  GroupInv'
  <1>1. /\ UNCHANGED <<memory, manager, flags, mGroup, stack, queue>>
        /\ \/ \E s \in Sets : \E t : list' = [list EXCEPT ![s] = t]
           \/ UNCHANGED list
    BY DEF AddToSet, RemoveFromSet, SetRef, objectVars, eventVars
  <1>2. \A g \in Groups : list'[g] = list[g]
    <2>1. list \in [Sets \cup Groups -> Seq(Objects)] /\ Sets \cap Groups = {}
      BY ObjectConstants DEF MemberInv, MemberState
    <2> QED BY <1>1, <2>1
  <1> QED BY <1>1, <1>2, GroupsUntouched DEF GroupInv

LEMMA DestOfInserted ==
  ASSUME NEW q \in Seq(Events), NEW k \in 0 .. Len(q), NEW e \in Events, NEW man,
         e.dest \in man, \A i \in DOMAIN q : q[i].dest \in man
  PROVE  \A i \in DOMAIN InsertAt(q, k + 1, e) : InsertAt(q, k + 1, e)[i].dest \in man
  <1> DEFINE r == InsertAt(q, k + 1, e)
  <1>1. /\ r \in Seq(Events) /\ Len(r) = Len(q) + 1 /\ r[k + 1] = e
        /\ \A i \in 1 .. k : r[i] = q[i]
        /\ \A i \in 1 .. Len(q) + 1 : i > k + 1 => r[i] = q[i - 1]
    <2>1. r \in Seq(Events) /\ Len(r) = Len(q) + 1
      BY InsertAtFacts
    <2>2. r[k + 1] = e
      BY InsertAtFacts
    <2>3. \A i \in 1 .. k : r[i] = q[i]
      BY InsertAtFacts
    <2>4. \A i \in 1 .. Len(q) + 1 : i > k + 1 => r[i] = q[i - 1]
      BY InsertAtFacts
    <2> QED BY <2>1, <2>2, <2>3, <2>4
  <1>2. DOMAIN q = 1 .. Len(q) /\ Len(q) \in Nat
    OBVIOUS
  <1> HIDE DEF r
  <1>3. DOMAIN r = 1 .. Len(q) + 1
    BY <1>1
  <1>4. ASSUME NEW i \in 1 .. Len(q) + 1 PROVE r[i].dest \in man
    <2>1. CASE i =< k
      <3>1. i \in 1 .. k /\ i \in DOMAIN q
        BY <1>2, <2>1
      <3> QED BY <1>1, <3>1
    <2>2. CASE i = k + 1
      BY <1>1, <2>2
    <2>3. CASE i > k + 1
      <3>1. i - 1 \in DOMAIN q
        BY <1>2, <2>3
      <3> QED BY <1>1, <2>3, <3>1
    <2> QED BY <2>1, <2>2, <2>3
  <1> QED BY <1>3, <1>4 DEF r

LEMMA EventsKeepGroups ==
  ASSUME MemberInv, EventInv, GroupInv,
         \/ \E o \in Objects, time \in now .. MaxTime : PostEvent(o, time)
         \/ \E seq \in 1 .. MaxPosts : CancelEvent(seq)
  PROVE  GroupInv'
  <1>1. UNCHANGED <<memory, manager, flags, mGroup, stack, list>>
    BY DEF PostEvent, CancelEvent, objectVars, memberVars
  <1>2. queue \in Seq(Events) /\ DOMAIN queue = 1 .. Len(queue) /\ Len(queue) \in Nat
        /\ \A i \in DOMAIN queue : queue[i].dest \in manager
    BY DEF EventInv, QueueInv, GroupInv
  <1>3. ASSUME NEW o \in Objects, NEW time \in now .. MaxTime, PostEvent(o, time)
        PROVE  \A i \in DOMAIN queue' : queue'[i].dest \in manager
    <2> DEFINE k == Cardinality({i \in DOMAIN queue : queue[i].time =< time})
               e == [dest |-> o, time |-> time, seq |-> posts + 1]
    <2>1. QueueInv(queue, now, posts) /\ now \in 0 .. MaxTime /\ MaxTime \in Nat
      BY ObjectConstants DEF EventInv, QueueInv
    <2>2. time \in 0 .. MaxTime
      BY <2>1
    <2>3. k \in 0 .. Len(queue)
      BY <2>1, <2>2, PlaceIsBetween
    <2>4. /\ o \in Targets \cap manager /\ posts < MaxPosts
          /\ queue' = InsertAt(queue, k + 1, e)
      BY <1>3 DEF PostEvent, PlaceOf
    <2>5. e \in Events
      <3>1. posts + 1 \in 1 .. MaxPosts
        BY <2>1, <2>4, ObjectConstants DEF QueueInv
      <3> QED BY <2>2, <2>4, <3>1 DEF Events
    <2> HIDE DEF k, e
    <2>6. e.dest \in manager
      BY <2>4 DEF e
    <2> QED BY <1>2, <2>3, <2>4, <2>5, <2>6, DestOfInserted
  <1>4. ASSUME NEW seq, CancelEvent(seq)
        PROVE  \A i \in DOMAIN queue' : queue'[i].dest \in manager
    <2>1. PICK k \in 1 .. Len(queue) : queue' = RemoveAt(queue, k)
      BY <1>2, <1>4 DEF CancelEvent
    <2>2. /\ queue' \in Seq(Events) /\ Len(queue') = Len(queue) - 1
          /\ \A i \in 1 .. Len(queue) - 1 : queue'[i] = IF i < k THEN queue[i] ELSE queue[i + 1]
      BY <1>2, <2>1, RemoveAtFacts
    <2>3. DOMAIN queue' = 1 .. Len(queue) - 1
      BY <2>2
    <2>4. \A i \in 1 .. Len(queue) - 1 : i \in DOMAIN queue /\ i + 1 \in DOMAIN queue
      BY <1>2
    <2> QED BY <1>2, <2>2, <2>3, <2>4
  <1>5. \A i \in DOMAIN queue' : queue'[i].dest \in manager
    BY <1>3, <1>4
  <1> QED BY <1>1, <1>5, GroupsUntouched

LEMMA CountAppended ==
  ASSUME NEW S, NEW s \in Seq(S), NEW e \in S
  PROVE  /\ Append(s, e) \in Seq(S)
         /\ Count(Append(s, e), e) = Count(s, e) + 1
         /\ \A m : m # e => Count(Append(s, e), m) = Count(s, m)
  <1> DEFINE t == Append(s, e)
             n == Len(s) + 1
  <1>1. /\ t \in Seq(S) /\ Len(t) = n /\ t[n] = e /\ \A i \in 1 .. Len(s) : t[i] = s[i]
        /\ Len(s) \in Nat /\ DOMAIN s = 1 .. Len(s)
    BY PushFacts
  <1>2. DOMAIN t = 1 .. n
    BY <1>1
  <1> HIDE DEF t
  <1>3. \A i \in 1 .. n : i = n \/ i \in 1 .. Len(s)
    BY <1>1
  <1>4. At(t, e) = At(s, e) \cup {n} /\ n \notin At(s, e)
    BY <1>1, <1>2, <1>3 DEF At
  <1>5. IsFiniteSet(At(s, e))
    BY AtIsFinite
  <1>6. Cardinality(At(s, e) \cup {n}) = Cardinality(At(s, e)) + 1
    BY <1>4, <1>5, FS_AddElement
  <1>7. ASSUME NEW m, m # e PROVE At(t, m) = At(s, m)
    BY <1>1, <1>2, <1>3, <1>7 DEF At
  <1> QED BY <1>1, <1>4, <1>6, <1>7 DEF Count, t

\* The lists of groups when o goes from one to the other; either may be NoObject.
Moved(new, old, o, from, to) ==
  \A g \in Groups :
    /\ new[g] \in Seq(Objects)
    /\ \A x \in Objects : x # o => Count(new[g], x) = Count(old[g], x)
    /\ g # from /\ g # to => new[g] = old[g]
    /\ g = from => Count(new[g], o) = Count(old[g], o) - 1
    /\ g = to => Count(new[g], o) = Count(old[g], o) + 1

LEMMA ListCounts ==
  ASSUME NEW s \in Seq(Objects), NEW x
  PROVE  Count(s, x) \in Nat /\ (Contains(s, x) <=> Count(s, x) > 0)
  <1>1. Count(s, x) \in Nat /\ (Count(s, x) = 0 <=> ~Contains(s, x))
    BY CountType
  <1>2. Contains(s, x) \in BOOLEAN
    BY DEF Contains
  <1> QED BY <1>1, <1>2

LEMMA WithoutIsMoved ==
  ASSUME MemberInv, GroupInv, NEW o \in Objects
  PROVE  Moved(Without(mGroup[o], o), list, o, mGroup[o], NoObject)
  <1> DEFINE from == mGroup[o]
             w == Without(from, o)
  <1>1. /\ list \in [Sets \cup Groups -> Seq(Objects)] /\ from \in Groups \cup {NoObject}
        /\ \A g \in Groups : list[g] \in Seq(Objects) /\ g # NoObject
    BY ObjectConstants DEF MemberInv, MemberState
  <1>2. /\ w \in [Sets \cup Groups -> Seq(Objects)]
        /\ \A g \in Groups : g # from => w[g] = list[g]
        /\ from \in Groups => w[from] = RemoveFirst(list[from], o)
    BY <1>1, WithoutFacts
  <1>3. from \in Groups => Contains(list[from], o)
    BY DEF GroupInv, OwnState
  <1> HIDE DEF w
  <1> SUFFICES ASSUME NEW g \in Groups
               PROVE  /\ w[g] \in Seq(Objects)
                      /\ \A x \in Objects : x # o => Count(w[g], x) = Count(list[g], x)
                      /\ g # from /\ g # NoObject => w[g] = list[g]
                      /\ g = from => Count(w[g], o) = Count(list[g], o) - 1
                      /\ g = NoObject => Count(w[g], o) = Count(list[g], o) + 1
    BY DEF Moved, w
  <1>4. CASE g # from
    BY <1>1, <1>2, <1>4
  <1>5. CASE g = from
    <2>1. Count(list[g], o) > 0
      BY <1>1, <1>3, <1>5, ListCounts
    <2>2. /\ Count(RemoveFirst(list[g], o), o) = Count(list[g], o) - 1
          /\ \A x : x # o => Count(RemoveFirst(list[g], o), x) = Count(list[g], x)
      BY <1>1, <2>1, CountRemoved
    <2> QED BY <1>1, <1>2, <1>5, <2>2
  <1> QED BY <1>4, <1>5

LEMMA MovedKeepsOwn ==
  ASSUME NEW lists, NEW groups, NEW st, OwnState(lists, groups, st),
         \A g \in Groups : lists[g] \in Seq(Objects),
         groups \in [Objects -> Groups \cup {NoObject}],
         NEW o \in Objects, NEW to \in Groups \cup {NoObject}, to # groups[o],
         NEW lists2, Moved(lists2, lists, o, groups[o], to),
         to \in Groups /\ Contains(lists[to], o) => Double(st, o)
  PROVE  OwnState(lists2, [groups EXCEPT ![o] = to], st)
  <1> DEFINE groups2 == [groups EXCEPT ![o] = to]
  <1>1. /\ groups2[o] = to /\ \A x \in Objects : x # o => groups2[x] = groups[x]
    OBVIOUS
  <1> HIDE DEF groups2
  <1> SUFFICES ASSUME NEW g \in Groups, NEW x \in Objects
               PROVE  /\ groups2[x] = g => Contains(lists2[g], x)
                      /\ Contains(lists2[g], x) => groups2[x] = g \/ Held(st, x, g) \/ Double(st, x)
                      /\ Count(lists2[g], x) > 1 => Double(st, x)
    BY DEF OwnState, groups2
  <1>2. /\ lists[g] \in Seq(Objects) /\ lists2[g] \in Seq(Objects)
        /\ x # o => Count(lists2[g], x) = Count(lists[g], x)
        /\ g # groups[o] /\ g # to => lists2[g] = lists[g]
        /\ g = groups[o] => Count(lists2[g], o) = Count(lists[g], o) - 1
        /\ g = to => Count(lists2[g], o) = Count(lists[g], o) + 1
    BY DEF Moved
  <1>3. /\ Count(lists[g], x) \in Nat /\ (Contains(lists[g], x) <=> Count(lists[g], x) > 0)
        /\ Count(lists2[g], x) \in Nat /\ (Contains(lists2[g], x) <=> Count(lists2[g], x) > 0)
    BY <1>2, ListCounts
  <1>4. /\ groups[x] = g => Contains(lists[g], x)
        /\ Contains(lists[g], x) => groups[x] = g \/ Held(st, x, g) \/ Double(st, x)
        /\ Count(lists[g], x) > 1 => Double(st, x)
    BY DEF OwnState
  <1>5. CASE x # o
    BY <1>1, <1>2, <1>3, <1>4, <1>5
  <1>6. CASE x = o /\ g = to
    BY <1>1, <1>2, <1>3, <1>6
  <1>7. CASE x = o /\ g = groups[o]
    <2>1. groups2[x] # g
      BY <1>1, <1>7
    <2>2. Count(lists2[g], x) = Count(lists[g], x) - 1
      BY <1>2, <1>7
    <2>3. Count(lists2[g], x) > 0 => Count(lists[g], x) > 1
      BY <1>3, <2>2
    <2> QED BY <1>3, <1>4, <2>1, <2>3
  <1>8. CASE x = o /\ g # to /\ g # groups[o]
    BY <1>1, <1>2, <1>4, <1>8
  <1> QED BY <1>5, <1>6, <1>7, <1>8

\* What a script may touch is not dying.
LEMMA TouchedAlive ==
  ASSUME MemberInv, ~TouchDying, NEW g, MayTouch(g)
  PROVE  \A i \in 1 .. Len(stack) : Sweeps(stack[i]) => stack[i].obj # g
  <1>1. stack \in Seq(Frames) /\ DOMAIN stack = 1 .. Len(stack)
    BY DEF MemberInv, MemberState
  <1>2. CASE g = NoObject
    BY <1>2, FrameFacts, ObjectConstants
  <1>3. CASE g # NoObject
    BY <1>1, <1>3 DEF MayTouch, Dying, Under, Sweeps
  <1> QED BY <1>2, <1>3

LEMMA MovedMembers ==
  ASSUME NEW old, NEW new, NEW o \in Objects, NEW from, NEW to, from # to, Moved(new, old, o, from, to),
         \A g \in Groups : old[g] \in Seq(Objects),
         NEW g \in Groups, NEW x \in Objects, Contains(new[g], x), ~(x = o /\ g = to)
  PROVE  Contains(old[g], x)
  <1>1. /\ new[g] \in Seq(Objects)
        /\ x # o => Count(new[g], x) = Count(old[g], x)
        /\ g # from /\ g # to => new[g] = old[g]
        /\ g = from => Count(new[g], o) = Count(old[g], o) - 1
    BY DEF Moved
  <1>2. /\ Count(old[g], x) \in Nat /\ (Contains(old[g], x) <=> Count(old[g], x) > 0)
        /\ Count(new[g], x) \in Nat /\ (Contains(new[g], x) <=> Count(new[g], x) > 0)
    BY <1>1, ListCounts
  <1>3. CASE x # o
    BY <1>1, <1>2, <1>3
  <1>4. CASE x = o /\ g = from
    BY <1>1, <1>2, <1>4
  <1>5. CASE x = o /\ g # from
    BY <1>1, <1>5
  <1> QED BY <1>3, <1>4, <1>5

LEMMA CallsStayHere ==
  ASSUME NEW man, NEW lists, NEW groups, NEW st, CallState(man, lists, groups, st),
         NEW lists2, NEW groups2,
         \A i \in 1 .. Len(st) : Sweeps(st[i]) => lists2[st[i].obj] = lists[st[i].obj],
         \A i \in 1 .. Len(st) : Removes(st[i]) =>
           \/ groups2[st[i].obj] = groups[st[i].obj]
           \/ \A j \in 1 .. Len(st) : Sweeps(st[j]) => groups2[st[i].obj] # st[j].obj
  PROVE  CallState(man, lists2, groups2, st)
  BY CallsStay

\* A script moves o to another group, or out of its group.
LEMMA ScriptMovesKeeps ==
  ASSUME MemberInv, GroupInv, ~TouchDying,
         NEW o \in Objects, o \in manager, NEW to \in Groups \cup {NoObject}, to # mGroup[o],
         to \in Groups => to \in manager, MayTouch(to), MayTouch(mGroup[o]),
         Moved(list', list, o, mGroup[o], to), mGroup' = [mGroup EXCEPT ![o] = to],
         UNCHANGED <<memory, manager, flags, queue, stack>>
  PROVE  GroupInv'
  <1>1. /\ mGroup \in [Objects -> Groups \cup {NoObject}]
        /\ \A g \in Groups : list[g] \in Seq(Objects)
        /\ memory \in [Objects -> {"none", "live", "freed"}]
    BY FrameFacts DEF MemberInv, MemberState
  <1>2. \A i \in 1 .. Len(stack) : Sweeps(stack[i]) =>
          /\ stack[i].obj # to /\ stack[i].obj # mGroup[o] /\ stack[i].obj \in Groups
    BY TouchedAlive, FrameFacts
  <1>3. /\ CallState(manager, list, mGroup, stack) /\ LifeState(memory, manager, flags, list)
        /\ OwnState(list, mGroup, stack)
    BY DEF GroupInv
  <1>4. CallState(manager, list', mGroup', stack)
    <2>1. \A i \in 1 .. Len(stack) : Sweeps(stack[i]) => list'[stack[i].obj] = list[stack[i].obj]
      BY <1>2 DEF Moved
    <2>2. \A i \in 1 .. Len(stack) : Removes(stack[i]) =>
            \/ mGroup'[stack[i].obj] = mGroup[stack[i].obj]
            \/ \A j \in 1 .. Len(stack) : Sweeps(stack[j]) => mGroup'[stack[i].obj] # stack[j].obj
      BY <1>1, <1>2, FrameFacts
    <2>3. ASSUME NEW lists2, NEW groups2,
                 \A i \in 1 .. Len(stack) : Sweeps(stack[i]) =>
                   lists2[stack[i].obj] = list[stack[i].obj],
                 \A i \in 1 .. Len(stack) : Removes(stack[i]) =>
                   \/ groups2[stack[i].obj] = mGroup[stack[i].obj]
                   \/ \A j \in 1 .. Len(stack) : Sweeps(stack[j]) => groups2[stack[i].obj] # stack[j].obj
          PROVE  CallState(manager, lists2, groups2, stack)
      BY <1>3, <2>3, CallsStayHere
    <2> QED BY <2>1, <2>2, <2>3
  <1>5. LifeState(memory, manager, flags, list')
    <2>1. ASSUME NEW g \in Groups, NEW x \in Objects, Contains(list'[g], x)
          PROVE  /\ memory[g] # "none" /\ memory[x] # "none"
                 /\ g \notin manager => x \notin manager
                 /\ memory[g] = "live" => memory[x] = "live"
      <3>1. CASE x = o /\ g = to
        <4>1. memory[g] = "live" /\ memory[x] = "live" /\ g \in manager
          BY <1>3, <3>1, ObjectConstants DEF LifeState
        <4> QED BY <4>1
      <3>2. CASE ~(x = o /\ g = to)
        <4>1. Contains(list[g], x)
          BY <1>1, <2>1, <3>2, MovedMembers
        <4> QED BY <1>3, <4>1 DEF LifeState
      <3> QED BY <3>1, <3>2
    <2> QED BY <1>3, <2>1 DEF LifeState
  <1>6. OwnState(list', mGroup', stack)
    <2>1. ASSUME to \in Groups, Contains(list[to], o) PROVE Double(stack, o)
      <3>1. Held(stack, o, to) \/ Double(stack, o)
        BY <1>3, <2>1 DEF OwnState
      <3>2. ~Held(stack, o, to)
        <4>1. \A i \in 1 .. Len(stack) - 1 : i \in 1 .. Len(stack)
          BY FrameFacts
        <4> QED BY <1>2, <4>1 DEF Held
      <3> QED BY <3>1, <3>2
    <2> QED BY <1>1, <1>3, <2>1, MovedKeepsOwn
  <1> QED BY <1>4, <1>5, <1>6 DEF GroupInv

LEMMA GroupsChangeKeepsGroups ==
  ASSUME MemberInv, GroupInv, ~TouchDying,
         \E g \in Groups, o \in Objects : AddToGroup(g, o) \/ RemoveFromGroup(g, o)
  PROVE  GroupInv'
  <1>1. ASSUME NEW g \in Groups, NEW o \in Objects, RemoveFromGroup(g, o) PROVE GroupInv'
    <2>1. /\ o \in manager /\ mGroup[o] = g /\ MayTouch(g) /\ list' = Without(g, o)
          /\ mGroup' = [mGroup EXCEPT ![o] = NoObject]
          /\ UNCHANGED <<memory, manager, flags, queue, stack>>
      BY <1>1 DEF RemoveFromGroup, objectVars, eventVars
    <2>2. Moved(list', list, o, mGroup[o], NoObject)
      BY <2>1, WithoutIsMoved
    <2>3. MayTouch(NoObject) /\ NoObject \notin Groups
      BY ObjectConstants DEF MayTouch, Dying
    <2> QED BY <2>1, <2>2, <2>3, ScriptMovesKeeps
  <1>2. ASSUME NEW g \in Groups, NEW o \in Objects, AddToGroup(g, o) PROVE GroupInv'
    <2> DEFINE w == Without(mGroup[o], o)
    <2>1. /\ {g, o} \subseteq manager /\ mGroup[o] # g /\ MayTouch(g) /\ MayTouch(mGroup[o])
          /\ list' = [w EXCEPT ![g] = Append(@, o)]
          /\ mGroup' = [mGroup EXCEPT ![o] = g]
          /\ UNCHANGED <<memory, manager, flags, queue, stack>>
      BY <1>2 DEF AddToGroup, objectVars, eventVars
    <2>2. Moved(w, list, o, mGroup[o], NoObject)
      BY WithoutIsMoved
    <2>3. w \in [Sets \cup Groups -> Seq(Objects)] /\ NoObject \notin Groups
      <3>1. list \in [Sets \cup Groups -> Seq(Objects)] /\ mGroup[o] \in Groups \cup {NoObject}
        BY DEF MemberInv, MemberState
      <3> QED BY <3>1, WithoutFacts, ObjectConstants
    <2> HIDE DEF w
    <2>4. /\ list'[g] = Append(w[g], o) /\ \A h \in Groups : h # g => list'[h] = w[h]
          /\ w[g] \in Seq(Objects) /\ w[g] = list[g]
      BY <2>1, <2>2, <2>3 DEF Moved
    <2>5. /\ list'[g] \in Seq(Objects) /\ Count(list'[g], o) = Count(list[g], o) + 1
          /\ \A x : x # o => Count(list'[g], x) = Count(list[g], x)
      <3>1. /\ Append(w[g], o) \in Seq(Objects) /\ Count(Append(w[g], o), o) = Count(w[g], o) + 1
            /\ \A x : x # o => Count(Append(w[g], o), x) = Count(w[g], x)
        BY <2>4, CountAppended
      <3> QED BY <2>4, <3>1
    <2>6. Moved(list', list, o, mGroup[o], g)
      BY <2>1, <2>2, <2>3, <2>4, <2>5 DEF Moved
    <2> QED BY <2>1, <2>6, ScriptMovesKeeps
  <1> QED BY <1>1, <1>2

\* More is held, and more twice.
LEMMA HeldKeepsOwn ==
  ASSUME NEW lists, NEW groups, NEW st, OwnState(lists, groups, st), NEW st2,
         \A x, g : Held(st, x, g) => Held(st2, x, g),
         \A x : Double(st, x) => Double(st2, x)
  PROVE  OwnState(lists, groups, st2)
  BY DEF OwnState

LEMMA PushKeepsGroups ==
  ASSUME MemberInv, GroupInv, NEW c, Pushed(stack', stack, c),
         UNCHANGED <<memory, manager, flags, list, mGroup>>,
         \A i \in DOMAIN queue' : queue'[i].dest \in manager,
         Removes(c) => c.obj \in manager,
         Len(stack) > 0 => ~Sweeps(stack[Len(stack)]),
         Removes(c) => \A i \in 1 .. Len(stack) :
           /\ Removes(stack[i]) /\ stack[i].obj = c.obj => Sweeps(stack[i])
           /\ Sweeps(stack[i]) => mGroup[c.obj] # stack[i].obj
  PROVE  GroupInv'
  <1>1. /\ CallState(manager, list, mGroup, stack) /\ OwnState(list, mGroup, stack)
        /\ LifeState(memory, manager, flags, list)
    BY DEF GroupInv
  <1>2. CallState(manager, list, mGroup, stack')
    BY <1>1, PushKeepsCalls
  <1>3. OwnState(list, mGroup, stack')
    <2>1. /\ \A x, g : Held(stack, x, g) => Held(stack', x, g)
          /\ \A x : Double(stack, x) => Double(stack', x)
      BY PushKeepsHeld
    <2> QED BY <1>1, <2>1, HeldKeepsOwn
  <1> QED BY <1>1, <1>2, <1>3 DEF GroupInv

LEMMA PopKeepsGroups ==
  ASSUME MemberInv, GroupInv, stack # <<>>, ~Removes(Top), stack' = Front(stack),
         UNCHANGED <<memory, manager, flags, list, mGroup>>,
         \A i \in DOMAIN queue' : queue'[i].dest \in manager
  PROVE  GroupInv'
  <1>1. /\ CallState(manager, list, mGroup, stack) /\ OwnState(list, mGroup, stack)
        /\ LifeState(memory, manager, flags, list)
    BY DEF GroupInv
  <1>2. Popped(stack', stack) /\ ~Removes(stack[Len(stack)])
    <2>1. stack \in Seq(Frames)
      BY DEF MemberInv, MemberState
    <2> QED BY <2>1, FrontFacts DEF Popped, Top
  <1>3. CallState(manager, list, mGroup, stack')
    BY <1>1, <1>2, PopKeepsCalls DEF LastIsAlone
  <1>4. OwnState(list, mGroup, stack')
    <2>1. \A x : /\ \A g : Held(stack, x, g) => Held(stack', x, g)
                 /\ Double(stack, x) => Double(stack', x)
      BY <1>1, <1>2, PopKeepsHeld
    <2> QED BY <1>1, <2>1, HeldKeepsOwn
  <1> QED BY <1>1, <1>3, <1>4 DEF GroupInv

LEMMA PushIsPushed ==
  ASSUME NEW st \in Seq(Frames), NEW c \in Frames, ~Sweeps(c), c.next = 0
  PROVE  Pushed(Append(st, c), st, c)
  <1>1. Len(st) \in Nat
    OBVIOUS
  <1> QED BY <1>1, PushFacts DEF Pushed

LEMMA DeleteKeepsGroups ==
  ASSUME MemberInv, GroupInv, ~TouchDying, NEW o \in Objects, DeleteObject(o) PROVE GroupInv'
  <1> DEFINE c == Call("onRemove", o, TRUE)
  <1>1. /\ ScriptRuns /\ o \in manager /\ ~Under(o, "onRemove") /\ MayTouch(mGroup[o])
        /\ stack' = Append(stack, c) /\ flags' = [flags EXCEPT ![o] = @ \cup {"Deleted"}]
        /\ UNCHANGED <<memory, manager, list, mGroup, queue>>
    BY DEF DeleteObject, memberVars, eventVars
  <1>2. stack \in Seq(Frames) /\ DOMAIN stack = 1 .. Len(stack)
    BY DEF MemberInv, MemberState
  <1>3. c \in Frames /\ c.next = 0 /\ c.obj = o /\ ~Sweeps(c)
    BY CallIsFrame DEF Call, Sweeps
  <1> HIDE DEF c
  <1>4. Pushed(stack', stack, c)
    BY <1>1, <1>2, <1>3, PushIsPushed
  <1>5. Len(stack) > 0 => ~Sweeps(stack[Len(stack)])
    BY <1>1, <1>2 DEF ScriptRuns, Top, Sweeps
  <1>6. \A i \in 1 .. Len(stack) :
          /\ Removes(stack[i]) /\ stack[i].obj = o => Sweeps(stack[i])
          /\ Sweeps(stack[i]) => mGroup[o] # stack[i].obj
    BY <1>1, <1>2, TouchedAlive DEF Under, Removes, Sweeps
  <1>7. /\ CallState(manager, list, mGroup, stack) /\ OwnState(list, mGroup, stack)
        /\ LifeState(memory, manager, flags, list) /\ \A i \in DOMAIN queue : queue[i].dest \in manager
    BY DEF GroupInv
  <1>8. CallState(manager, list, mGroup, stack')
    BY <1>1, <1>3, <1>4, <1>5, <1>6, <1>7, PushKeepsCalls
  <1>9. OwnState(list, mGroup, stack')
    <2>1. /\ \A x, g : Held(stack, x, g) => Held(stack', x, g)
          /\ \A x : Double(stack, x) => Double(stack', x)
      BY <1>4, PushKeepsHeld
    <2> QED BY <1>7, <2>1, HeldKeepsOwn
  <1>10. LifeState(memory, manager, flags', list)
    BY <1>1, <1>7 DEF LifeState
  <1> QED BY <1>1, <1>7, <1>8, <1>9, <1>10 DEF GroupInv

LEMMA LoopKeepsGroups ==
  ASSUME MemberInv, EventInv, GroupInv,
         \/ \E time \in now .. MaxTime : AdvanceToTime(time)
         \/ PopEvent \/ EndEvent \/ EndAdvance
  PROVE  GroupInv'
  <1>1. stack \in Seq(Frames) /\ queue \in Seq(Events) /\ Len(stack) \in Nat
        /\ \A i \in DOMAIN queue : queue[i].dest \in manager
    BY DEF MemberInv, MemberState, EventInv, QueueInv, GroupInv
  <1>2. CASE EndEvent
    BY <1>1, <1>2, PopKeepsGroups DEF EndEvent, objectVars, memberVars, eventVars, Removes
  <1>3. CASE EndAdvance
    BY <1>1, <1>3, PopKeepsGroups DEF EndAdvance, objectVars, memberVars, Removes
  <1>4. ASSUME NEW time, AdvanceToTime(time) PROVE GroupInv'
    <2> DEFINE c == Call("advance", NoObject, FALSE)
    <2>1. stack = <<>> /\ stack' = <<c>> /\ UNCHANGED <<memory, manager, flags, list, mGroup, queue>>
      BY <1>4 DEF AdvanceToTime, objectVars, memberVars
    <2>2. c \in Frames /\ c.next = 0 /\ ~Sweeps(c) /\ ~Removes(c)
      BY CallIsFrame DEF Call, Sweeps, Removes
    <2> HIDE DEF c
    <2>3. Pushed(stack', stack, c)
      BY <2>1, <2>2 DEF Pushed
    <2>4. ~(Len(stack) > 0)
      BY <2>1
    <2> QED BY <1>1, <2>1, <2>2, <2>3, <2>4, PushKeepsGroups
  <1>5. CASE PopEvent
    <2> DEFINE event == Head(queue)
               c == Call("event", event.dest, FALSE)
    <2>1. /\ queue # <<>> /\ UNCHANGED <<memory, manager, flags, list, mGroup>>
          /\ stack' \in {stack, Append(stack, c)} /\ queue' = Tail(queue)
          /\ stack # <<>> /\ Top.at = "advance"
      BY <1>5 DEF PopEvent, Due, objectVars, memberVars
    <2>2. event \in Events
      BY <1>1, <2>1
    <2>3. c \in Frames /\ c.next = 0 /\ ~Sweeps(c) /\ ~Removes(c)
      <3>1. event.dest \in Objects
        BY <2>2, EventFields, ObjectConstants
      <3> HIDE DEF event
      <3> QED BY <3>1, CallIsFrame DEF Call, Sweeps, Removes
    <2> HIDE DEF c, event
    <2>4. \A i \in DOMAIN queue' : queue'[i].dest \in manager
      <3>1. DOMAIN queue' = 1 .. Len(queue) - 1 /\ \A i \in 1 .. Len(queue) - 1 : queue'[i] = queue[i + 1]
            /\ DOMAIN queue = 1 .. Len(queue) /\ Len(queue) \in Nat
        BY <1>1, <2>1
      <3>2. \A i \in 1 .. Len(queue) - 1 : i + 1 \in DOMAIN queue
        BY <3>1
      <3> QED BY <1>1, <3>1, <3>2
    <2>5. CASE stack' = stack
      BY <2>1, <2>4, <2>5, GroupsUntouched
    <2>6. CASE stack' = Append(stack, c)
      <3>1. Pushed(stack', stack, c)
        BY <1>1, <2>3, <2>6, PushIsPushed
      <3>2. Len(stack) > 0 => ~Sweeps(stack[Len(stack)])
        BY <2>1 DEF Top, Sweeps
      <3> QED BY <2>1, <2>3, <2>4, <3>1, <3>2, PushKeepsGroups
    <2> QED BY <2>1, <2>5, <2>6
  <1> QED BY <1>2, <1>3, <1>4, <1>5

\* Sorting takes nothing away.
LEMMA SortIdCounts ==
  ASSUME NEW s \in Seq(Objects), NEW sorted \in SortId(s)
  PROVE  /\ sorted \in Seq(Objects) /\ Len(sorted) = Len(s)
         /\ \A x : Count(sorted, x) = Count(s, x)
  <1>1. /\ sorted \in Seq(Objects) /\ Len(sorted) = Len(s) /\ Len(s) \in Nat
        /\ DOMAIN sorted = 1 .. Len(s) /\ DOMAIN s = 1 .. Len(s)
    BY SortIdFacts
  <1>2. PICK place \in Bijection(1 .. Len(s), 1 .. Len(s)) :
          \A i \in 1 .. Len(s) : sorted[i] = s[place[i]]
    BY SortIdFacts
  <1>3. /\ place \in [1 .. Len(s) -> 1 .. Len(s)]
        /\ \A i, k \in 1 .. Len(s) : place[i] = place[k] => i = k
        /\ \A j \in 1 .. Len(s) : \E i \in 1 .. Len(s) : place[i] = j
    BY <1>2 DEF Bijection, Injection, Surjection, IsInjective
  <1>4. ASSUME NEW x PROVE Count(sorted, x) = Count(s, x)
    <2> DEFINE I == At(sorted, x)
               J == At(s, x)
               f == [i \in I |-> place[i]]
    <2>1. IsFiniteSet(I)
      BY <1>1, AtIsFinite
    <2>2. I = {i \in 1 .. Len(s) : sorted[i] = x} /\ J = {i \in 1 .. Len(s) : s[i] = x}
      BY <1>1 DEF At
    <2> HIDE DEF I, J
    <2>3. f \in [I -> J]
      BY <1>2, <1>3, <2>2
    <2>4. \A i, k \in I : f[i] = f[k] => i = k
      BY <1>3, <2>2
    <2>5. ASSUME NEW j \in J PROVE \E i \in I : f[i] = j
      <3>1. j \in 1 .. Len(s) /\ s[j] = x
        BY <2>2
      <3>2. PICK i \in 1 .. Len(s) : place[i] = j
        BY <1>3, <3>1
      <3>3. i \in I
        BY <1>2, <2>2, <3>1, <3>2
      <3>4. f[i] = j
        BY <3>2, <3>3
      <3> QED BY <3>3, <3>4
    <2> HIDE DEF f
    <2>6. Cardinality(J) = Cardinality(I)
      BY <2>1, <2>3, <2>4, <2>5, SameNumber
    <2> QED BY <2>6 DEF Count, I, J
  <1> QED BY <1>1, <1>4

LEMMA SameCounts ==
  ASSUME NEW lists, NEW lists2,
         \A g \in Groups : lists[g] \in Seq(Objects) /\ lists2[g] \in Seq(Objects),
         \A g \in Groups, x \in Objects : Count(lists2[g], x) = Count(lists[g], x)
  PROVE  /\ \A g \in Groups, x \in Objects : Contains(lists2[g], x) <=> Contains(lists[g], x)
         /\ \A mem, man, fl : LifeState(mem, man, fl, lists) => LifeState(mem, man, fl, lists2)
         /\ \A groups, st : OwnState(lists, groups, st) => OwnState(lists2, groups, st)
  <1>1. \A g \in Groups, x \in Objects : Contains(lists2[g], x) <=> Contains(lists[g], x)
    <2> SUFFICES ASSUME NEW g \in Groups, NEW x \in Objects
                 PROVE  Contains(lists2[g], x) <=> Contains(lists[g], x)
      OBVIOUS
    <2>1. /\ Contains(lists[g], x) <=> Count(lists[g], x) > 0
          /\ Contains(lists2[g], x) <=> Count(lists2[g], x) > 0
      BY ListCounts
    <2> QED BY <2>1
  <1>2. \A mem, man, fl : LifeState(mem, man, fl, lists) => LifeState(mem, man, fl, lists2)
    BY <1>1 DEF LifeState
  <1>3. ASSUME NEW groups, NEW st, OwnState(lists, groups, st) PROVE OwnState(lists2, groups, st)
    <2> SUFFICES ASSUME NEW g \in Groups, NEW x \in Objects
                 PROVE  /\ groups[x] = g => Contains(lists2[g], x)
                        /\ Contains(lists2[g], x) => groups[x] = g \/ Held(st, x, g) \/ Double(st, x)
                        /\ Count(lists2[g], x) > 1 => Double(st, x)
      BY DEF OwnState
    <2>1. /\ groups[x] = g => Contains(lists[g], x)
          /\ Contains(lists[g], x) => groups[x] = g \/ Held(st, x, g) \/ Double(st, x)
          /\ Count(lists[g], x) > 1 => Double(st, x)
      BY <1>3 DEF OwnState
    <2> QED BY <1>1, <2>1
  <1> QED BY <1>1, <1>2, <1>3

LEMMA EndGroupOnRemoveKeepsGroups ==
  ASSUME MemberInv, GroupInv, EndGroupOnRemove PROVE GroupInv'
  <1> DEFINE g == Top.obj
             n == Len(stack)
             c == [stack[n] EXCEPT !.at = "children", !.next = Len(list[g])]
  <1>1. /\ stack # <<>> /\ Top.at = "onRemove" /\ g \in Groups
        /\ \E sorted \in SortId(list[g]) : list' = [list EXCEPT ![g] = sorted]
        /\ stack' = [stack EXCEPT ![n] = c]
        /\ flags' = [flags EXCEPT ![g] = @ \cup {"Removed"}]
        /\ UNCHANGED <<memory, manager, mGroup, queue>>
    BY DEF EndGroupOnRemove, eventVars
  <1>2. /\ list \in [Sets \cup Groups -> Seq(Objects)] /\ list[g] \in Seq(Objects)
        /\ stack \in Seq(Frames) /\ n \in Nat \ {0} /\ n \in 1 .. n /\ stack[n] \in Frames
        /\ Top = stack[n]
    BY <1>1, FrameFacts DEF MemberInv, MemberState, Top
  <1>3. PICK sorted \in SortId(list[g]) : list' = [list EXCEPT ![g] = sorted]
    BY <1>1
  <1>4. /\ sorted \in Seq(Objects) /\ Len(sorted) = Len(list[g])
        /\ \A x : Count(sorted, x) = Count(list[g], x)
    BY <1>2, SortIdCounts
  <1>5. /\ list'[g] = sorted /\ \A h \in Groups : h # g => list'[h] = list[h]
        /\ \A h \in Groups : list[h] \in Seq(Objects) /\ list'[h] \in Seq(Objects)
        /\ \A h \in Groups, x \in Objects : Count(list'[h], x) = Count(list[h], x)
    <2> HIDE DEF g
    <2> QED BY <1>1, <1>2, <1>3, <1>4
  <1>6. /\ c.obj = g /\ c.at = "children" /\ c.next = Len(list[g]) /\ c.delete = stack[n].delete
        /\ stack[n].obj = g
    <2>1. stack[n].obj = g
      BY <1>2
    <2> HIDE DEF g, n
    <2> QED BY <1>2, <2>1 DEF Frames
  <1> HIDE DEF g, n, c
  <1>7. Replaced(stack', stack, c)
    <2>1. /\ Len(stack') = n /\ stack'[n] = c /\ \A i \in 1 .. n - 1 : stack'[i] = stack[i]
      BY <1>1, <1>2 DEF n
    <2>2. Len(list[g]) \in Nat
      BY <1>2
    <2>3. Removes(c) /\ Removes(stack[n])
      BY <1>1, <1>2, <1>6 DEF Removes
    <2> QED BY <1>2, <1>6, <2>1, <2>2, <2>3 DEF Replaced, n
  <1>8. /\ CallState(manager, list, mGroup, stack) /\ OwnState(list, mGroup, stack)
        /\ LifeState(memory, manager, flags, list) /\ \A i \in DOMAIN queue : queue[i].dest \in manager
    BY DEF GroupInv
  <1>9. /\ \A h \in Groups, x \in Objects : Contains(list'[h], x) <=> Contains(list[h], x)
        /\ LifeState(memory, manager, flags, list')
        /\ OwnState(list', mGroup, stack)
    BY <1>5, <1>8, SameCounts
  <1>10. Swept(manager, list', c)
    BY <1>2, <1>4, <1>5, <1>6 DEF Swept
  <1>11. ASSUME NEW i \in 1 .. Len(stack) - 1, Sweeps(stack[i])
         PROVE  \/ list'[stack[i].obj] = list[stack[i].obj]
                \/ /\ stack[i].obj = c.obj
                   /\ \A x : Contains(list[stack[i].obj], x) => Contains(list'[stack[i].obj], x)
    <2>1. stack[i].obj \in Groups
      BY <1>11, FrameFacts
    <2>2. ASSUME NEW x, Contains(list[g], x) PROVE Contains(list'[g], x)
      <3>1. x \in Objects
        BY <1>2, <2>2 DEF Contains
      <3> QED BY <1>1, <1>9, <2>2, <3>1
    <2> QED BY <1>5, <1>6, <2>1, <2>2
  <1>12. CallState(manager, list', mGroup, stack')
    BY <1>7, <1>8, <1>10, <1>11, ReplaceKeepsCalls
  <1>13. OwnState(list', mGroup, stack')
    <2>1. /\ \A x, h : Held(stack, x, h) => Held(stack', x, h)
          /\ \A x : Double(stack, x) => Double(stack', x)
      BY <1>7, ReplaceKeepsHeld
    <2> QED BY <1>9, <2>1, HeldKeepsOwn
  <1>14. LifeState(memory, manager, flags', list')
    <2>1. g \in Objects
      BY <1>1, ObjectConstants
    <2> QED BY <1>1, <1>9, <2>1 DEF LifeState
  <1> QED BY <1>1, <1>8, <1>12, <1>13, <1>14 DEF GroupInv

LEMMA ChildKept ==
  ASSUME NEW man, NEW lists, NEW groups, NEW st, CallState(man, lists, groups, st),
         OwnState(lists, groups, st), groups \in [Objects -> Groups \cup {NoObject}],
         NEW child \in Objects, NEW g \in Groups,
         Contains(lists[g], child), Len(st) \in Nat \ {0}, Sweeps(st[Len(st)]), st[Len(st)].obj = g,
         NEW st2, NEW c, Pushed(st2, st, c), Removes(c), c.obj = child
  PROVE  OwnState(lists, [groups EXCEPT ![child] = NoObject], st2)
  <1> DEFINE N == Len(st)
             groups2 == [groups EXCEPT ![child] = NoObject]
  <1>1. /\ N \in Nat \ {0} /\ Len(st2) = N + 1 /\ st2[N + 1] = c
        /\ \A i \in 1 .. N : st2[i] = st[i]
        /\ Sweeps(st[N]) /\ st[N].obj = g
    BY DEF Pushed
  <1>2. /\ \A x, h : Held(st, x, h) => Held(st2, x, h)
        /\ \A x : Double(st, x) => Double(st2, x)
    BY PushKeepsHeld
  <1>3. N \in 1 .. N /\ N \in 1 .. N + 1 - 1 /\ N + 1 \in 1 .. N + 1
    BY <1>1
  <1>4. Held(st2, child, g)
    <2> HIDE DEF N
    <2>1. N \in 1 .. Len(st2) - 1 /\ Sweeps(st2[N]) /\ st2[N].obj = g /\ st2[N + 1].obj = child
      BY <1>1, <1>3
    <2> QED BY <2>1 DEF Held
  <1>5. ASSUME Held(st, child, g) PROVE Double(st2, child)
    <2>1. PICK i \in 1 .. N - 1 : Sweeps(st[i]) /\ st[i + 1].obj = child
      BY <1>5 DEF Held
    <2>2. Removes(st[i + 1])
      BY <2>1 DEF CallState, Above
    <2> HIDE DEF N
    <2>3. i + 1 \in 1 .. N /\ i + 1 \in 1 .. N + 1 /\ i + 1 < N + 1 /\ N + 1 \in 1 .. N + 1
      <3>1. N \in Nat \ {0}
        BY <1>1
      <3> QED BY <3>1
    <2>4. Len(st2) = N + 1 /\ st2[i + 1] = st[i + 1]
      BY <1>1, <2>3
    <2> QED BY <1>1, <2>1, <2>2, <2>3, <2>4 DEF Double
  <1> HIDE DEF N, groups2
  <1> SUFFICES ASSUME NEW h \in Groups, NEW x \in Objects
               PROVE  /\ groups2[x] = h => Contains(lists[h], x)
                      /\ Contains(lists[h], x) => groups2[x] = h \/ Held(st2, x, h) \/ Double(st2, x)
                      /\ Count(lists[h], x) > 1 => Double(st2, x)
    BY DEF OwnState, groups2
  <1>6. /\ groups[x] = h => Contains(lists[h], x)
        /\ Contains(lists[h], x) => groups[x] = h \/ Held(st, x, h) \/ Double(st, x)
        /\ Count(lists[h], x) > 1 => Double(st, x)
    BY DEF OwnState
  <1>7. groups2[child] = NoObject /\ (x # child => groups2[x] = groups[x])
    BY DEF groups2
  <1>8. CASE x # child
    BY <1>2, <1>6, <1>7, <1>8
  <1>9. CASE x = child
    <2>1. groups2[x] # h
      BY <1>7, <1>9, ObjectConstants
    <2>2. ASSUME Contains(lists[h], x) PROVE Held(st2, x, h) \/ Double(st2, x)
      <3>1. CASE h = g
        BY <1>4, <1>9, <3>1
      <3>2. CASE h # g /\ groups[x] = h
        <4>1. groups[child] # g
          BY <1>9, <3>2
        <4>2. groups[child] = g \/ Held(st, child, g) \/ Double(st, child)
          BY DEF OwnState
        <4> QED BY <1>2, <1>5, <1>9, <4>1, <4>2
      <3>3. CASE h # g /\ groups[x] # h
        BY <1>2, <1>6, <2>2, <3>3
      <3> QED BY <3>1, <3>2, <3>3
    <2> QED BY <1>2, <1>6, <2>1, <2>2
  <1> QED BY <1>8, <1>9

LEMMA UnregisterChildKeepsGroups ==
  ASSUME MemberInv, GroupInv, UnregisterChild PROVE GroupInv'
  <1> DEFINE n == Len(stack)
             g == Top.obj
             child == list[g][Top.next]
  <1>1. /\ stack # <<>> /\ Top.at = "children" /\ Top.next \in DOMAIN list[g]
        /\ UNCHANGED <<memory, manager, flags, list, queue>>
    BY DEF UnregisterChild, objectVars, eventVars
  <1>2. /\ mGroup \in [Objects -> Groups \cup {NoObject}] /\ stack \in Seq(Frames)
        /\ list \in [Sets \cup Groups -> Seq(Objects)]
    BY DEF MemberInv, MemberState
  <1>3. /\ n \in Nat \ {0} /\ n \in 1 .. n /\ stack[n] \in Frames /\ Top = stack[n]
        /\ Sweeps(stack[n]) /\ Removes(stack[n]) /\ g = stack[n].obj /\ g \in Groups
    BY <1>1, <1>2, FrameFacts DEF Top, Sweeps, Removes
  <1>4. /\ list[g] \in Seq(Objects) /\ DOMAIN list[g] = 1 .. Len(list[g]) /\ Len(list[g]) \in Nat
        /\ Top.next \in 1 .. Len(list[g]) /\ child \in Objects /\ Contains(list[g], child)
    <2>1. list[g] \in Seq(Objects)
      BY <1>3, FrameFacts
    <2> HIDE DEF g
    <2> QED BY <1>1, <2>1 DEF Contains
  <1>5. /\ CallState(manager, list, mGroup, stack) /\ OwnState(list, mGroup, stack)
        /\ LifeState(memory, manager, flags, list) /\ \A i \in DOMAIN queue : queue[i].dest \in manager
    BY DEF GroupInv
  <1>6. child \in manager <=> "Added" \in flags[child]
    BY <1>4, <1>5 DEF LifeState
  <1>7. CASE "Added" \in flags[child]
    <2> DEFINE c == Call("onRemove", child, FALSE)
               groups == [mGroup EXCEPT ![child] = NoObject]
    <2>1. ~Under(child, "onRemove") /\ mGroup' = groups /\ stack' = Append(stack, c)
      BY <1>7 DEF UnregisterChild
    <2>2. c \in Frames /\ c.next = 0 /\ c.obj = child /\ ~c.delete /\ ~Sweeps(c) /\ Removes(c)
      <3> HIDE DEF child
      <3> QED BY <1>4, CallIsFrame DEF Call, Sweeps, Removes
    <2>3. /\ groups[child] = NoObject /\ \A x \in Objects : x # child => groups[x] = mGroup[x]
      BY <1>2, <1>4
    <2> HIDE DEF c, child, groups
    <2>4. Pushed(stack', stack, c)
      BY <1>2, <2>1, <2>2, PushIsPushed
    <2>5. \A j \in 1 .. Len(stack) : Sweeps(stack[j]) => stack[j].obj # NoObject
      BY FrameFacts, ObjectConstants
    <2>6. CallState(manager, list, groups, stack)
      <3>1. \A i \in 1 .. Len(stack) : Removes(stack[i]) =>
              \/ groups[stack[i].obj] = mGroup[stack[i].obj]
              \/ \A j \in 1 .. Len(stack) : Sweeps(stack[j]) => groups[stack[i].obj] # stack[j].obj
        BY <2>3, <2>5, FrameFacts
      <3> QED BY <1>5, <3>1, CallsStayHere
    <2>7. \A i \in 1 .. Len(stack) :
            /\ Removes(stack[i]) /\ stack[i].obj = child => Sweeps(stack[i])
            /\ Sweeps(stack[i]) => groups[child] # stack[i].obj
      <3>1. DOMAIN stack = 1 .. Len(stack)
        BY <1>2
      <3> QED BY <2>1, <2>3, <2>5, <3>1 DEF Under, Removes, Sweeps
    <2>8. /\ stack[Len(stack)].next \in 1 .. Len(list[stack[Len(stack)].obj])
          /\ list[stack[Len(stack)].obj][stack[Len(stack)].next] = c.obj
      BY <1>3, <1>4, <2>2 DEF child
    <2>9. CallState(manager, list, groups, stack')
      BY <1>6, <1>7, <2>2, <2>4, <2>6, <2>7, <2>8, PushKeepsCalls
    <2>10. OwnState(list, groups, stack')
      <3> HIDE DEF g, n
      <3>1. OwnState(list, [mGroup EXCEPT ![child] = NoObject], stack')
        BY <1>2, <1>3, <1>4, <1>5, <2>2, <2>4, ChildKept DEF n
      <3> QED BY <3>1 DEF groups
    <2> QED BY <1>1, <1>5, <2>1, <2>9, <2>10 DEF GroupInv
  <1>8. CASE "Added" \notin flags[child]
    <2> DEFINE c == [stack[n] EXCEPT !.next = @ - 1]
    <2>1. stack' = [stack EXCEPT ![n] = c] /\ UNCHANGED mGroup
      BY <1>8 DEF UnregisterChild
    <2>2. /\ c.obj = g /\ c.at = stack[n].at /\ c.delete = stack[n].delete
          /\ c.next = Top.next - 1
      <3> HIDE DEF n
      <3> QED BY <1>3 DEF Frames
    <2>3. Sweeps(c) /\ Removes(c)
      BY <1>3, <2>2 DEF Sweeps, Removes
    <2> HIDE DEF c
    <2>4. Replaced(stack', stack, c)
      <3>1. Len(stack') = n /\ stack'[n] = c /\ \A i \in 1 .. n - 1 : stack'[i] = stack[i]
        BY <1>2, <1>3, <2>1
      <3>2. c.next \in Nat
        BY <1>4, <2>2
      <3> QED BY <1>3, <2>2, <2>3, <3>1, <3>2 DEF Replaced
    <2>5. Swept(manager, list, c)
      <3>1. Latest(stack, n)
        <4> HIDE DEF n
        <4> QED BY <1>3 DEF Latest, n
      <3>2. Swept(manager, list, stack[n])
        BY <1>3, <1>5, <3>1 DEF CallState
      <3>3. \A k \in 1 .. Len(list[g]) : k > Top.next => list[g][k] \notin manager
        BY <1>3, <3>2 DEF Swept
      <3>4. ASSUME NEW k \in 1 .. Len(list[g]), k > c.next PROVE list[g][k] \notin manager
        <4>1. k > Top.next \/ k = Top.next
          BY <1>4, <2>2, <3>4
        <4> QED BY <1>6, <1>8, <3>3, <4>1
      <3>5. c.next =< Len(list[g])
        BY <1>4, <2>2
      <3> QED BY <2>2, <3>4, <3>5 DEF Swept
    <2>6. CallState(manager, list, mGroup, stack')
      BY <1>5, <2>4, <2>5, ReplaceKeepsCalls
    <2>7. OwnState(list, mGroup, stack')
      <3>1. /\ \A x, h : Held(stack, x, h) => Held(stack', x, h)
            /\ \A x : Double(stack, x) => Double(stack', x)
        BY <2>4, ReplaceKeepsHeld
      <3> QED BY <1>5, <3>1, HeldKeepsOwn
    <2> QED BY <1>1, <1>5, <2>1, <2>6, <2>7 DEF GroupInv
  <1> QED BY <1>7, <1>8

-----------------------------------------------------------------------------
(* What a group deletes with it.                                           *)

Widened(W) == W \cup UNION {ToSet(list[g]) : g \in W \cap Groups}

LEMMA WidenedFacts ==
  ASSUME MemberInv, NEW W, W \subseteq Objects
  PROVE  /\ Widened(W) \subseteq Objects /\ W \subseteq Widened(W)
         /\ \A x \in Widened(W) : x \in W \/ \E g \in W \cap Groups : Contains(list[g], x)
  <1>1. W \subseteq Widened(W)
    BY DEF Widened
  <1>2. ASSUME NEW x \in Widened(W), x \notin W
        PROVE  x \in Objects /\ \E g \in W \cap Groups : Contains(list[g], x)
    <2>1. PICK g \in W \cap Groups : x \in ToSet(list[g])
      BY <1>2 DEF Widened
    <2>2. list[g] \in Seq(Objects)
      BY FrameFacts
    <2>3. PICK i \in DOMAIN list[g] : x = list[g][i]
      BY <2>1 DEF ToSet
    <2>4. DOMAIN list[g] = 1 .. Len(list[g])
      BY <2>2
    <2>5. Contains(list[g], x) /\ x \in Objects
      BY <2>2, <2>3, <2>4 DEF Contains
    <2> QED BY <2>5
  <1> QED BY <1>1, <1>2

LEMMA OwnedExists ==
  ASSUME MemberInv, NEW o \in Objects
  PROVE  \E N \in Nat : \E f : /\ Owned(o) = f[N] /\ f[0] = {o}
                           /\ \A n \in 1 .. N : f[n] = Widened(f[n - 1])
  <1> DEFINE D == SUBSET Objects
             N == Cardinality(Groups)
             step == [p \in D \X (Nat \ {0}) |-> Widened(p[1])]
             IsLoop(f) == f = [n \in 0 .. N |-> IF n = 0 THEN {o}
                                 ELSE f[n - 1] \cup UNION {ToSet(list[g]) : g \in f[n - 1] \cap Groups}]
             within == CHOOSE f : IsLoop(f)
  <1>1. N \in Nat /\ {o} \in D
    <2>1. IsFiniteSet(Groups)
      BY ObjectConstants, FS_Subset
    <2> QED BY <2>1, FS_CardinalityType
  <1>2. \A W \in D : Widened(W) \in D
    BY WidenedFacts
  <1>3. step \in [D \X (Nat \ {0}) -> D]
    <2> HIDE DEF D, N
    <2> QED BY <1>2
  <1>4. PICK f \in [0 .. N -> D] : Rounds(f, {o}, step, N)
    <2> HIDE DEF D, N, step
    <2> QED BY <1>1, <1>3, LoopExists
  <1>5. IsLoop(f)
    <2> SUFFICES ASSUME NEW n \in 0 .. N
                 PROVE  f[n] = IF n = 0 THEN {o}
                               ELSE f[n - 1] \cup UNION {ToSet(list[g]) : g \in f[n - 1] \cap Groups}
      BY <1>4
    <2>1. CASE n = 0
      BY <1>4, <2>1 DEF Rounds
    <2>2. CASE n # 0
      <3> HIDE DEF D, N
      <3>1. n \in 1 .. N /\ n \in Nat \ {0} /\ n - 1 \in 0 .. N
        BY <1>1, <2>2
      <3>2. f[n - 1] \in D /\ f[n] = step[<<f[n - 1], n>>]
        BY <1>4, <3>1 DEF Rounds
      <3>3. step[<<f[n - 1], n>>] = Widened(f[n - 1])
        BY <3>1, <3>2
      <3> QED BY <2>2, <3>2, <3>3 DEF Widened
    <2> QED BY <2>1, <2>2
  <1>6. IsLoop(within)
    BY <1>5
  <1>7. Owned(o) = within[N]
    BY DEF Owned
  <1> HIDE DEF within
  <1>8. within[0] = {o}
    BY <1>1, <1>6
  <1>9. \A n \in 1 .. N : within[n] = Widened(within[n - 1])
    <2> SUFFICES ASSUME NEW n \in 1 .. N PROVE within[n] = Widened(within[n - 1])
      OBVIOUS
    <2>1. n \in 0 .. N /\ n # 0
      BY <1>1
    <2>2. within[n] = within[n - 1] \cup UNION {ToSet(list[g]) : g \in within[n - 1] \cap Groups}
      BY <1>6, <2>1
    <2> QED BY <2>2 DEF Widened
  <1> QED BY <1>1, <1>7, <1>8, <1>9

\* What is owned is owned by a group that is, and was unregistered before.
OwnedBy(W, o) ==
  /\ W \subseteq Objects /\ o \in W
  /\ \A x \in W : x # o => x \notin manager /\ \E g \in W \cap Groups : Contains(list[g], x)

LEMMA OwnedFacts ==
  ASSUME MemberInv, GroupInv, NEW o \in Objects,
         o \in Groups => \A x \in Objects : Contains(list[o], x) => x \notin manager
  PROVE  OwnedBy(Owned(o), o)
  <1>1. PICK N \in Nat : \E f : /\ Owned(o) = f[N] /\ f[0] = {o}
                                /\ \A n \in 1 .. N : f[n] = Widened(f[n - 1])
    BY OwnedExists
  <1>2. PICK f : /\ Owned(o) = f[N] /\ f[0] = {o}
                 /\ \A n \in 1 .. N : f[n] = Widened(f[n - 1])
    BY <1>1
  <1> DEFINE D == SUBSET Objects
             Good == {p \in D \X Nat : OwnedBy(p[1], o)}
  <1> HIDE DEF Good
  <1>0. \A W \in D, n \in Nat : <<W, n>> \in Good <=> OwnedBy(W, o)
    <2> HIDE DEF D
    <2> QED BY DEF Good
  <1>3. <<f[0], 0>> \in Good
    <2>1. OwnedBy({o}, o)
      BY DEF OwnedBy
    <2>2. f[0] \in SUBSET Objects /\ OwnedBy(f[0], o)
      BY <1>2, <2>1
    <2> QED BY <1>0, <2>2
  <1>4. ASSUME NEW W, OwnedBy(W, o) PROVE OwnedBy(Widened(W), o)
    <2>1. /\ Widened(W) \subseteq Objects /\ W \subseteq Widened(W)
          /\ \A x \in Widened(W) : x \in W \/ \E g \in W \cap Groups : Contains(list[g], x)
      BY <1>4, WidenedFacts DEF OwnedBy
    <2>2. ASSUME NEW x \in Widened(W), x # o
          PROVE  x \notin manager /\ \E g \in Widened(W) \cap Groups : Contains(list[g], x)
      <3>1. CASE x \in W
        BY <1>4, <2>1, <2>2, <3>1 DEF OwnedBy
      <3>2. CASE x \notin W
        <4>1. PICK g \in W \cap Groups : Contains(list[g], x)
          BY <2>1, <3>2
        <4>2. x \in Objects
          BY <2>1
        <4>3. x \notin manager
          <5>1. CASE g = o
            BY <4>1, <4>2, <5>1
          <5>2. CASE g # o
            <6>1. g \notin manager
              BY <1>4, <5>2 DEF OwnedBy
            <6> QED BY <4>1, <4>2, <6>1 DEF GroupInv, LifeState
          <5> QED BY <5>1, <5>2
        <4> QED BY <2>1, <4>1, <4>3
      <3> QED BY <3>1, <3>2
    <2> QED BY <1>4, <2>1, <2>2 DEF OwnedBy
  <1>5. ASSUME NEW n \in 1 .. N, <<f[n - 1], n - 1>> \in Good PROVE <<f[n], n>> \in Good
    <2>1. OwnedBy(f[n - 1], o)
      <3> HIDE DEF D
      <3> QED BY <1>5 DEF Good
    <2>2. f[n] = Widened(f[n - 1]) /\ n \in Nat
      BY <1>2
    <2>3. OwnedBy(f[n], o)
      BY <1>4, <2>1, <2>2
    <2>4. f[n] \in SUBSET Objects
      BY <2>3 DEF OwnedBy
    <2> QED BY <1>0, <2>2, <2>3, <2>4
  <1>6. <<f[N], N>> \in Good
    BY <1>3, <1>5, LoopEnds
  <1>7. OwnedBy(f[N], o)
    <2> HIDE DEF D
    <2> QED BY <1>6 DEF Good
  <1> QED BY <1>2, <1>7

-----------------------------------------------------------------------------
(* The end of a removal.                                                   *)

\* The call that ends is the only one that removes its object, and its children
\* are gone.
LEMMA TopIsAlone ==
  ASSUME MemberInv, GroupInv, EndOnRemove \/ EndGroup
  PROVE  /\ LastIsAlone(stack) /\ Removes(stack[Len(stack)]) /\ ~Double(stack, Top.obj)
         /\ Top = stack[Len(stack)] /\ Len(stack) \in Nat \ {0} /\ Top.obj \in Objects
         /\ Top.obj \in manager
         /\ Top.obj \in Groups => \A x \in Objects : Contains(list[Top.obj], x) => x \notin manager
  <1> DEFINE N == Len(stack)
             o == Top.obj
  <1>1. /\ stack # <<>> /\ \/ Top.at = "onRemove" /\ o \notin Groups
                           \/ Top.at = "children" /\ Top.next = 0
    BY DEF EndOnRemove, EndGroup
  <1>2. /\ N \in Nat \ {0} /\ N \in 1 .. N /\ Top = stack[N]
    BY <1>1, FrameFacts
  <1>3. Removes(stack[N]) /\ o \in Objects
    BY <1>1, <1>2, FrameFacts DEF Removes
  <1>4. CallState(manager, list, mGroup, stack)
    BY DEF GroupInv
  <1>5. o \in manager
    BY <1>2, <1>3, <1>4 DEF CallState
  <1>6. Latest(stack, N)
    <2>1. ~\E j \in 1 .. N : j > N
      BY <1>2
    <2> QED BY <2>1 DEF Latest
  <1>7. ASSUME o \in Groups, NEW x \in Objects, Contains(list[o], x) PROVE x \notin manager
    <2>1. Sweeps(stack[N]) /\ stack[N].next = 0
      BY <1>1, <1>2, <1>7 DEF Sweeps
    <2>2. Swept(manager, list, stack[N])
      BY <1>2, <1>4, <1>6, <2>1 DEF CallState
    <2>3. \A k \in 1 .. Len(list[o]) : list[o][k] \notin manager
      BY <1>2, <2>1, <2>2 DEF Swept
    <2> QED BY <1>7, <2>3 DEF Contains
  <1>8. ASSUME NEW i \in 1 .. N - 1, Removes(stack[i]), stack[i].obj = o PROVE FALSE
    <2>1. i \in 1 .. N /\ i < N /\ i + 1 \in 1 .. N
      BY <1>2
    <2>2. Sweeps(stack[i])
      BY <1>2, <1>3, <1>4, <1>8, <2>1 DEF CallState
    <2>3. o \in Groups
      BY <1>8, <2>1, <2>2, FrameFacts
    <2>4. Removes(stack[i + 1]) /\ Contains(list[o], stack[i + 1].obj)
      BY <1>4, <1>8, <2>2 DEF CallState, Above
    <2>5. stack[i + 1].obj \in manager /\ stack[i + 1].obj \in Objects
      BY <1>4, <2>1, <2>4, FrameFacts DEF CallState
    <2> QED BY <1>7, <2>3, <2>4, <2>5
  <1>9. LastIsAlone(stack)
    BY <1>2, <1>8 DEF LastIsAlone
  <1>10. ~Double(stack, o)
    <2> SUFFICES ASSUME NEW i \in 1 .. N, NEW j \in 1 .. N, i < j, Removes(stack[i]),
                        stack[i].obj = o
                 PROVE  FALSE
      BY DEF Double
    <2>1. i \in 1 .. N - 1
      BY <1>2
    <2> QED BY <1>8, <2>1
  <1> QED BY <1>2, <1>3, <1>5, <1>7, <1>9, <1>10

\* The call is over; if it was the removal of a child, its group goes on.
Ended(st2, st, c) ==
  /\ Len(st) > 1 /\ Sweeps(st[Len(st) - 1])
  /\ Len(st2) = Len(st) - 1 /\ st2[Len(st) - 1] = c
  /\ \A i \in 1 .. Len(st) - 2 : st2[i] = st[i]
  /\ Sweeps(c) /\ c.obj = st[Len(st) - 1].obj /\ c.delete = st[Len(st) - 1].delete
  /\ c.next = st[Len(st) - 1].next - 1

LEMMA EndedFacts ==
  ASSUME MemberInv, EndOnRemove \/ EndGroup
  PROVE  \/ /\ Len(stack) > 1 => ~Sweeps(stack[Len(stack) - 1])
            /\ stack' = Front(stack) /\ mGroup' = [mGroup EXCEPT ![Top.obj] = NoObject]
         \/ /\ \E c : Ended(stack', stack, c)
            /\ mGroup' = [mGroup EXCEPT ![Top.obj] = stack[Len(stack) - 1].obj]
  <1> DEFINE below == Front(stack)
             M == Len(below)
             child == below # <<>> /\ below[Len(below)].at = "children"
  <1>1. /\ stack # <<>> /\ Unregister(Top.obj, below, Top.delete) /\ below \in Seq(Frames)
    BY EndsKeepMembers
  <1>2. /\ mGroup' = [mGroup EXCEPT ![Top.obj] = IF child THEN below[Len(below)].obj ELSE NoObject]
        /\ stack' = IF child THEN [below EXCEPT ![Len(below)].next = @ - 1] ELSE below
    BY <1>1 DEF Unregister
  <1>3. /\ Len(stack) \in Nat \ {0} /\ M = Len(stack) - 1
        /\ \A i \in 1 .. M : below[i] = stack[i]
    <2>1. stack \in Seq(Frames)
      BY DEF MemberInv, MemberState
    <2> QED BY <1>1, <2>1, FrontFacts
  <1>4. M \in Nat /\ (below # <<>> <=> M > 0)
    BY <1>1
  <1>5. CASE ~child
    <2>1. Len(stack) > 1 => ~Sweeps(stack[Len(stack) - 1])
      <3> HIDE DEF M
      <3>1. ASSUME Len(stack) > 1 PROVE M \in 1 .. M /\ M > 0
        BY <1>3, <1>4, <3>1
      <3> QED BY <1>3, <1>4, <1>5, <3>1 DEF Sweeps, M
    <2> QED BY <1>2, <1>5, <2>1
  <1>6. CASE child
    <2> DEFINE c == [below[M] EXCEPT !.next = below[M].next - 1]
    <2>1. M \in 1 .. M /\ M > 0 /\ below[M] \in Frames /\ Sweeps(below[M])
      BY <1>1, <1>4, <1>6 DEF Sweeps
    <2>2. stack' = [below EXCEPT ![M] = c]
      BY <1>2, <1>6
    <2>3. /\ c.obj = below[M].obj /\ c.at = below[M].at /\ c.delete = below[M].delete
          /\ c.next = below[M].next - 1
      <3> HIDE DEF below
      <3> QED BY <2>1 DEF Frames
    <2>4. Sweeps(c)
      BY <2>1, <2>3 DEF Sweeps
    <2> HIDE DEF c
    <2>5. /\ Len(stack') = M /\ stack'[M] = c /\ \A i \in 1 .. M - 1 : stack'[i] = below[i]
      <3> HIDE DEF below
      <3> QED BY <1>1, <2>1, <2>2
    <2>6. below[M] = stack[M]
      BY <1>3, <2>1
    <2> HIDE DEF M
    <2>7. Ended(stack', stack, c)
      <3>1. Len(stack) - 1 = M /\ Len(stack) - 2 = M - 1 /\ Len(stack) > 1
        BY <1>3, <1>4, <2>1
      <3>2. \A i \in 1 .. M - 1 : i \in 1 .. M
        BY <1>4
      <3>3. \A i \in 1 .. M - 1 : stack'[i] = stack[i]
        BY <1>3, <2>5, <3>2
      <3> QED BY <2>1, <2>3, <2>4, <2>5, <2>6, <3>1, <3>3 DEF Ended
    <2>8. mGroup' = [mGroup EXCEPT ![Top.obj] = stack[Len(stack) - 1].obj]
      BY <1>2, <1>3, <1>6, <2>6 DEF M
    <2> QED BY <2>7, <2>8
  <1> QED BY <1>5, <1>6

\* st2 is what is left of st when its last call, which is st1 without, has ended.
Left(st2, st1, st) ==
  /\ Popped(st1, st)
  /\ \/ st2 = st1 /\ (Len(st) > 1 => ~Sweeps(st[Len(st) - 1]))
     \/ \E c : Ended(st2, st, c)

LEMMA LeftIsReplaced ==
  ASSUME NEW st, NEW st1, NEW st2, NEW c, Popped(st1, st), Ended(st2, st, c), c.next \in Nat
  PROVE  Replaced(st2, st1, c)
  <1> DEFINE N == Len(st)
  <1>1. /\ N \in Nat \ {0} /\ N > 1 /\ Len(st1) = N - 1 /\ Len(st2) = N - 1 /\ st2[N - 1] = c
        /\ \A i \in 1 .. N - 1 : st1[i] = st[i]
        /\ \A i \in 1 .. N - 2 : st2[i] = st[i]
        /\ Sweeps(c) /\ Sweeps(st[N - 1]) /\ c.obj = st[N - 1].obj /\ c.delete = st[N - 1].delete
    BY DEF Popped, Ended
  <1> HIDE DEF N
  <1>2. N - 1 \in Nat \ {0} /\ N - 1 \in 1 .. N - 1 /\ N - 1 - 1 = N - 2
        /\ \A i \in 1 .. N - 2 : i \in 1 .. N - 1
    BY <1>1
  <1>3. st1[N - 1] = st[N - 1] /\ \A i \in 1 .. N - 2 : st2[i] = st1[i]
    BY <1>1, <1>2
  <1>4. Removes(c) /\ Removes(st1[N - 1])
    BY <1>1, <1>3 DEF Removes, Sweeps
  <1> QED BY <1>1, <1>2, <1>3, <1>4 DEF Replaced

\* The group goes on at the child before.
LEMMA EndedIsSwept ==
  ASSUME NEW man, NEW lists, NEW groups, NEW st, CallState(man, lists, groups, st),
         Len(st) \in Nat \ {0}, Removes(st[Len(st)]), LastIsAlone(st),
         NEW lists2, \A i \in 1 .. Len(st) - 1 : Sweeps(st[i]) => lists2[st[i].obj] = lists[st[i].obj],
         NEW st2, NEW c, Ended(st2, st, c)
  PROVE  /\ c.next \in Nat /\ Swept(man \ {st[Len(st)].obj}, lists2, c)
         /\ Contains(lists2[c.obj], st[Len(st)].obj)
  <1> DEFINE N == Len(st)
             p == st[N - 1]
             o == st[N].obj
  <1>1. /\ N \in Nat \ {0} /\ N > 1 /\ Sweeps(p) /\ Sweeps(c) /\ c.obj = p.obj /\ c.next = p.next - 1
    BY DEF Ended
  <1>2. /\ \A i \in 1 .. N - 1 : Removes(st[i]) => st[i].obj # o
        /\ \A i \in 1 .. N - 1 : Sweeps(st[i]) => lists2[st[i].obj] = lists[st[i].obj]
        /\ Removes(st[N])
    BY DEF LastIsAlone
  <1> HIDE DEF N
  <1>3. /\ N - 1 \in 1 .. N - 1 /\ N - 1 \in 1 .. N /\ N - 1 + 1 = N
        /\ \A j \in 1 .. N : j > N - 1 => j = N
    BY <1>1
  <1>4. Removes(p) /\ lists2[p.obj] = lists[p.obj] /\ p.obj # o
    BY <1>1, <1>2, <1>3 DEF Removes, Sweeps
  <1>5. Latest(st, N - 1)
    BY <1>3, <1>4 DEF Latest, N
  <1>6. Swept(man, lists, p)
    BY <1>1, <1>3, <1>5 DEF CallState, N
  <1>7. Above(lists, st, N - 1)
    BY <1>1, <1>3 DEF CallState, N
  <1>8. p.next \in 1 .. Len(lists[p.obj]) /\ lists[p.obj][p.next] = o /\ Contains(lists[p.obj], o)
    BY <1>3, <1>5, <1>7 DEF Above
  <1>9. p.next \in Nat /\ p.next =< Len(lists[p.obj])
    BY <1>3, <1>6 DEF CallState, N, Swept
  <1> HIDE DEF p, o
  <1>10. c.next \in Nat
    BY <1>1, <1>8, <1>9
  <1>11. Swept(man \ {o}, lists2, c)
    <2>1. ASSUME NEW k \in 1 .. Len(lists[p.obj]), k > c.next PROVE lists[p.obj][k] \notin man \ {o}
      <3>1. k = p.next \/ k > p.next
        BY <1>1, <1>9, <2>1
      <3> QED BY <1>6, <1>8, <3>1 DEF Swept
    <2>2. \A k \in 1 .. Len(lists2[c.obj]) : k > c.next => lists2[c.obj][k] \notin man \ {o}
      BY <1>1, <1>4, <2>1
    <2>3. c.next =< Len(lists2[c.obj])
      <3>1. p.next - 1 \in 0 .. Len(lists[p.obj])
        BY <1>8, <1>9
      <3> QED BY <1>1, <1>4, <3>1
    <2> QED BY <2>2, <2>3 DEF Swept
  <1> QED BY <1>1, <1>4, <1>8, <1>10, <1>11 DEF o, N

LEMMA EndKeepsCalls ==
  ASSUME NEW man, NEW lists, NEW groups, NEW st, CallState(man, lists, groups, st),
         Len(st) \in Nat \ {0}, Removes(st[Len(st)]), LastIsAlone(st),
         NEW lists2, \A i \in 1 .. Len(st) - 1 : Sweeps(st[i]) => lists2[st[i].obj] = lists[st[i].obj],
         NEW groups2, \A i \in 1 .. Len(st) - 1 : Removes(st[i]) => groups2[st[i].obj] = groups[st[i].obj],
         NEW st1, NEW st2, Left(st2, st1, st)
  PROVE  CallState(man \ {st[Len(st)].obj}, lists2, groups2, st2)
  <1> DEFINE o == st[Len(st)].obj
             man2 == man \ {o}
  <1>1. /\ Popped(st1, st) /\ Len(st1) = Len(st) - 1
        /\ \A i \in 1 .. Len(st1) : st1[i] = st[i] /\ i \in 1 .. Len(st) - 1
    BY DEF Left, Popped
  <1>2. CallState(man, lists, groups, st1)
    BY <1>1, PopKeepsCalls
  <1>3. \A i \in 1 .. Len(st1) : Removes(st1[i]) =>
          /\ st1[i].obj # o /\ groups2[st1[i].obj] = groups[st1[i].obj]
          /\ (st1[i].obj \in man => st1[i].obj \in man2)
    BY <1>1 DEF LastIsAlone
  <1>4. \A i \in 1 .. Len(st1) : Sweeps(st1[i]) => lists2[st1[i].obj] = lists[st1[i].obj]
    BY <1>1
  <1> HIDE DEF o
  <1>5. CallState(man2, lists2, groups2, st1)
    <2>1. \A i \in 1 .. Len(st1) : Sweeps(st1[i]) =>
            /\ lists2[st1[i].obj] = lists[st1[i].obj]
            /\ \A k \in 1 .. Len(lists[st1[i].obj]) :
                 lists[st1[i].obj][k] \in man2 => lists[st1[i].obj][k] \in man
      BY <1>4
    <2> HIDE DEF man2
    <2> QED BY <1>2, <1>3, <2>1, CallsStay
  <1>6. CASE st2 = st1
    BY <1>5, <1>6 DEF o
  <1>7. ASSUME NEW c, Ended(st2, st, c) PROVE CallState(man2, lists2, groups2, st2)
    <2>1. c.next \in Nat /\ Swept(man2, lists2, c)
      BY <1>7, EndedIsSwept DEF o
    <2>2. Replaced(st2, st1, c)
      BY <1>1, <1>7, <2>1, LeftIsReplaced
    <2> HIDE DEF man2
    <2> QED BY <1>5, <2>1, <2>2, ReplaceKeepsCalls
  <1> QED BY <1>6, <1>7 DEF Left, o

LEMMA EndKeepsHeld ==
  ASSUME NEW man, NEW lists, NEW groups, NEW st, CallState(man, lists, groups, st),
         Len(st) \in Nat \ {0}, Removes(st[Len(st)]), LastIsAlone(st),
         NEW st1, NEW st2, Left(st2, st1, st), NEW x, x # st[Len(st)].obj
  PROVE  /\ \A g : Held(st, x, g) => Held(st2, x, g)
         /\ Double(st, x) => Double(st2, x)
  <1>1. Popped(st1, st)
    BY DEF Left
  <1>2. /\ \A g : Held(st, x, g) => Held(st1, x, g)
        /\ Double(st, x) => Double(st1, x)
    BY <1>1, PopKeepsHeld
  <1>3. CASE st2 = st1
    BY <1>2, <1>3
  <1>4. ASSUME NEW c, Ended(st2, st, c)
        PROVE  /\ \A g : Held(st1, x, g) => Held(st2, x, g)
               /\ Double(st1, x) => Double(st2, x)
    <2>1. c.next \in Nat
      <3>1. \A i \in 1 .. Len(st) - 1 : Sweeps(st[i]) => lists[st[i].obj] = lists[st[i].obj]
        OBVIOUS
      <3> QED BY <1>4, <3>1, EndedIsSwept
    <2>2. Replaced(st2, st1, c)
      BY <1>1, <1>4, <2>1, LeftIsReplaced
    <2> QED BY <2>2, ReplaceKeepsHeld
  <1> QED BY <1>2, <1>3, <1>4 DEF Left

LEMMA EndsFacts ==
  ASSUME MemberInv, GroupInv, EndOnRemove \/ EndGroup
  PROVE  /\ Moved(list', list, Top.obj, mGroup[Top.obj], NoObject)
         /\ Left(stack', Front(stack), stack)
         /\ \A i \in 1 .. Len(stack) - 1 :
              Sweeps(stack[i]) => list'[stack[i].obj] = list[stack[i].obj]
  <1> DEFINE o == Top.obj
             N == Len(stack)
  <1>1. /\ stack # <<>> /\ o \in Objects
        /\ \A g \in Groups : list'[g] = Without(mGroup[o], o)[g]
    BY EndsKeepMembers
  <1>2. Moved(list', list, o, mGroup[o], NoObject)
    <2>1. Moved(Without(mGroup[o], o), list, o, mGroup[o], NoObject)
      BY <1>1, WithoutIsMoved
    <2> QED BY <1>1, <2>1 DEF Moved
  <1>3. Left(stack', Front(stack), stack)
    <2>1. stack \in Seq(Frames)
      BY DEF MemberInv, MemberState
    <2>2. Popped(Front(stack), stack)
      BY <1>1, <2>1, FrontFacts DEF Popped
    <2>3. \/ stack' = Front(stack) /\ (Len(stack) > 1 => ~Sweeps(stack[Len(stack) - 1]))
          \/ \E c : Ended(stack', stack, c)
      BY EndedFacts
    <2> QED BY <2>2, <2>3 DEF Left
  <1>4. ASSUME NEW i \in 1 .. N - 1, Sweeps(stack[i]) PROVE list'[stack[i].obj] = list[stack[i].obj]
    <2>1. /\ Removes(stack[N]) /\ Top = stack[N] /\ N \in Nat \ {0}
      BY TopIsAlone
    <2>2. i \in 1 .. N /\ N \in 1 .. N /\ i < N
      BY <2>1
    <2>3. mGroup[o] # stack[i].obj
      BY <1>4, <2>1, <2>2 DEF GroupInv, CallState
    <2>4. stack[i].obj \in Groups /\ stack[i].obj # NoObject
      BY <1>4, <2>2, FrameFacts, ObjectConstants
    <2> QED BY <1>2, <2>3, <2>4 DEF Moved
  <1> QED BY <1>2, <1>3, <1>4

LEMMA EndsKeepCalls ==
  ASSUME MemberInv, GroupInv, EndOnRemove \/ EndGroup
  PROVE  CallState(manager', list', mGroup', stack')
  <1> DEFINE o == Top.obj
             N == Len(stack)
  <1>1. /\ LastIsAlone(stack) /\ Removes(stack[N]) /\ Top = stack[N] /\ N \in Nat \ {0}
        /\ o \in Objects
    BY TopIsAlone
  <1>2. /\ Left(stack', Front(stack), stack)
        /\ \A i \in 1 .. N - 1 : Sweeps(stack[i]) => list'[stack[i].obj] = list[stack[i].obj]
    BY EndsFacts
  <1>3. manager' = manager \ {stack[N].obj}
    BY <1>1, EndsKeepMembers DEF Unregister
  <1>4. \A i \in 1 .. N - 1 : Removes(stack[i]) => mGroup'[stack[i].obj] = mGroup[stack[i].obj]
    <2> SUFFICES ASSUME NEW i \in 1 .. N - 1, Removes(stack[i])
                 PROVE  mGroup'[stack[i].obj] = mGroup[stack[i].obj]
      OBVIOUS
    <2>1. stack[i].obj # o
      BY <1>1 DEF LastIsAlone
    <2>2. mGroup \in [Objects -> Groups \cup {NoObject}]
      BY DEF MemberInv, MemberState
    <2>3. \E to : mGroup' = [mGroup EXCEPT ![o] = to]
      BY EndedFacts
    <2>4. stack[i].obj \in Objects
      <3>1. i \in 1 .. Len(stack)
        BY <1>1
      <3> QED BY <3>1, FrameFacts
    <2> QED BY <2>1, <2>2, <2>3, <2>4
  <1>5. CallState(manager, list, mGroup, stack)
    BY DEF GroupInv
  <1>6. ASSUME NEW lists2, NEW groups2, NEW st1, NEW st2, Left(st2, st1, stack),
               \A i \in 1 .. N - 1 : Sweeps(stack[i]) => lists2[stack[i].obj] = list[stack[i].obj],
               \A i \in 1 .. N - 1 : Removes(stack[i]) =>
                 groups2[stack[i].obj] = mGroup[stack[i].obj]
        PROVE  CallState(manager \ {stack[N].obj}, lists2, groups2, st2)
    BY <1>1, <1>5, <1>6, EndKeepsCalls
  <1> QED BY <1>2, <1>3, <1>4, <1>6

\* A group has the object in its list only if it is unregistering it.
LEMMA EndsListed ==
  ASSUME MemberInv, GroupInv, EndOnRemove \/ EndGroup, NEW g \in Groups,
         Contains(list'[g], Top.obj)
  PROVE  Len(stack) > 1 /\ Sweeps(stack[Len(stack) - 1]) /\ stack[Len(stack) - 1].obj = g
  <1> DEFINE o == Top.obj
             N == Len(stack)
  <1>1. /\ LastIsAlone(stack) /\ Removes(stack[N]) /\ Top = stack[N] /\ N \in Nat \ {0}
        /\ ~Double(stack, o) /\ o \in Objects
    BY TopIsAlone
  <1>2. Moved(list', list, o, mGroup[o], NoObject)
    BY EndsFacts
  <1>3. /\ mGroup \in [Objects -> Groups \cup {NoObject}]
        /\ list[g] \in Seq(Objects) /\ g # NoObject
    BY ObjectConstants DEF MemberInv, MemberState
  <1>4. CallState(manager, list, mGroup, stack) /\ OwnState(list, mGroup, stack)
    BY DEF GroupInv
  <1>5. /\ list'[g] \in Seq(Objects) /\ list[g] \in Seq(Objects)
        /\ g # mGroup[o] => list'[g] = list[g]
        /\ g = mGroup[o] => Count(list'[g], o) = Count(list[g], o) - 1
    BY <1>2, <1>3 DEF Moved
  <1>6. /\ Count(list[g], o) \in Nat /\ Count(list'[g], o) > 0
        /\ Count(list'[g], o) \in Nat
    BY <1>5, ListCounts
  <1>7. ~(Count(list[g], o) > 1)
    BY <1>1, <1>4 DEF OwnState
  <1>8. mGroup[o] # g
    BY <1>5, <1>6, <1>7
  <1>9. Held(stack, o, g)
    BY <1>1, <1>4, <1>5, <1>8 DEF OwnState
  <1>10. PICK i \in 1 .. N - 1 : Sweeps(stack[i]) /\ stack[i].obj = g /\ stack[i + 1].obj = o
    BY <1>9 DEF Held
  <1>11. Removes(stack[i + 1])
    BY <1>4, <1>10 DEF CallState, Above
  <1>12. ~(i + 1 \in 1 .. N - 1)
    BY <1>1, <1>10, <1>11 DEF LastIsAlone
  <1> HIDE DEF N
  <1>13. i = N - 1 /\ N > 1
    BY <1>1, <1>12
  <1> QED BY <1>10, <1>13 DEF N

LEMMA EndsKeepOwn ==
  ASSUME MemberInv, GroupInv, EndOnRemove \/ EndGroup
  PROVE  OwnState(list', mGroup', stack')
  <1> DEFINE o == Top.obj
             N == Len(stack)
  <1>1. /\ LastIsAlone(stack) /\ Removes(stack[N]) /\ Top = stack[N] /\ N \in Nat \ {0}
        /\ ~Double(stack, o) /\ o \in Objects
    BY TopIsAlone
  <1>2. /\ Moved(list', list, o, mGroup[o], NoObject)
        /\ Left(stack', Front(stack), stack)
        /\ \A i \in 1 .. N - 1 : Sweeps(stack[i]) => list'[stack[i].obj] = list[stack[i].obj]
    BY EndsFacts
  <1>3. /\ mGroup \in [Objects -> Groups \cup {NoObject}]
        /\ \A g \in Groups : list[g] \in Seq(Objects) /\ g # NoObject
    BY ObjectConstants DEF MemberInv, MemberState
  <1>4. CallState(manager, list, mGroup, stack) /\ OwnState(list, mGroup, stack)
    BY DEF GroupInv
  <1>5. \/ /\ N > 1 => ~Sweeps(stack[N - 1])
           /\ mGroup' = [mGroup EXCEPT ![o] = NoObject]
        \/ /\ \E c : Ended(stack', stack, c)
           /\ mGroup' = [mGroup EXCEPT ![o] = stack[N - 1].obj]
    BY EndedFacts
  <1>6. ASSUME NEW x \in Objects, x # o
        PROVE  /\ mGroup'[x] = mGroup[x]
               /\ \A g : Held(stack, x, g) => Held(stack', x, g)
               /\ Double(stack, x) => Double(stack', x)
    <2>1. mGroup'[x] = mGroup[x]
      BY <1>3, <1>5, <1>6
    <2>2. ASSUME NEW st1, NEW st2, Left(st2, st1, stack)
          PROVE  /\ \A g : Held(stack, x, g) => Held(st2, x, g)
                 /\ Double(stack, x) => Double(st2, x)
      BY <1>1, <1>4, <1>6, <2>2, EndKeepsHeld
    <2> QED BY <1>2, <2>1, <2>2
  <1>7. ASSUME NEW g \in Groups, Contains(list'[g], o)
        PROVE  N > 1 /\ Sweeps(stack[N - 1]) /\ stack[N - 1].obj = g
    BY <1>7, EndsListed
  <1>8. ASSUME NEW g \in Groups PROVE ~(Count(list'[g], o) > 1)
    <2> SUFFICES ASSUME Count(list'[g], o) > 1 PROVE FALSE
      OBVIOUS
    <2>1. /\ list'[g] \in Seq(Objects) /\ list[g] \in Seq(Objects)
          /\ g # mGroup[o] => list'[g] = list[g]
          /\ g = mGroup[o] => Count(list'[g], o) = Count(list[g], o) - 1
      BY <1>2, <1>3 DEF Moved
    <2>2. Count(list[g], o) \in Nat /\ Count(list'[g], o) \in Nat
      BY <2>1, ListCounts
    <2>3. ~(Count(list[g], o) > 1)
      BY <1>1, <1>4 DEF OwnState
    <2> QED BY <2>1, <2>2, <2>3
  <1>9. ASSUME NEW g \in Groups
        PROVE  /\ mGroup'[o] = g => Contains(list'[g], o)
               /\ Contains(list'[g], o) => mGroup'[o] = g
    <2>1. CASE (N > 1 => ~Sweeps(stack[N - 1])) /\ mGroup' = [mGroup EXCEPT ![o] = NoObject]
      <3>1. mGroup'[o] # g
        BY <1>1, <1>3, <2>1
      <3> QED BY <1>7, <2>1, <3>1
    <2>2. ASSUME NEW c, Ended(stack', stack, c),
                 mGroup' = [mGroup EXCEPT ![o] = stack[N - 1].obj]
          PROVE  /\ mGroup'[o] = g => Contains(list'[g], o)
                 /\ Contains(list'[g], o) => mGroup'[o] = g
      <3>1. mGroup'[o] = stack[N - 1].obj
        BY <1>1, <1>3, <2>2
      <3>2. c.obj = stack[N - 1].obj
        BY <2>2 DEF Ended
      <3>3. ASSUME NEW lists2, NEW st2, Ended(st2, stack, c),
                   \A i \in 1 .. N - 1 : Sweeps(stack[i]) =>
                     lists2[stack[i].obj] = list[stack[i].obj]
            PROVE  Contains(lists2[c.obj], stack[N].obj)
        BY <1>1, <1>4, <3>3, EndedIsSwept
      <3>4. Contains(list'[c.obj], o)
        BY <1>1, <1>2, <2>2, <3>3
      <3> QED BY <1>7, <3>1, <3>2, <3>4
    <2> QED BY <1>5, <2>1, <2>2
  <1> SUFFICES ASSUME NEW g \in Groups, NEW x \in Objects
               PROVE  /\ mGroup'[x] = g => Contains(list'[g], x)
                      /\ Contains(list'[g], x) =>
                           mGroup'[x] = g \/ Held(stack', x, g) \/ Double(stack', x)
                      /\ Count(list'[g], x) > 1 => Double(stack', x)
    BY DEF OwnState
  <1>10. CASE x = o
    BY <1>8, <1>9, <1>10
  <1>11. CASE x # o
    <2>1. Count(list'[g], x) = Count(list[g], x) /\ list'[g] \in Seq(Objects)
      BY <1>2, <1>11 DEF Moved
    <2>2. /\ Contains(list[g], x) <=> Count(list[g], x) > 0
          /\ Contains(list'[g], x) <=> Count(list'[g], x) > 0
      BY <1>3, <2>1, ListCounts
    <2>3. /\ mGroup[x] = g => Contains(list[g], x)
          /\ Contains(list[g], x) => mGroup[x] = g \/ Held(stack, x, g) \/ Double(stack, x)
          /\ Count(list[g], x) > 1 => Double(stack, x)
      BY <1>4 DEF OwnState
    <2> QED BY <1>6, <1>11, <2>1, <2>2, <2>3
  <1> QED BY <1>10, <1>11

\* What is freed was unregistered, and no group that stays has it.
LEMMA EndsKeepLife ==
  ASSUME MemberInv, GroupInv, EndOnRemove \/ EndGroup
  PROVE  LifeState(memory', manager', flags', list')
  <1> DEFINE o == Top.obj
             N == Len(stack)
  <1>1. /\ LastIsAlone(stack) /\ Removes(stack[N]) /\ Top = stack[N] /\ N \in Nat \ {0}
        /\ ~Double(stack, o) /\ o \in Objects /\ o \in manager
        /\ o \in Groups => \A x \in Objects : Contains(list[o], x) => x \notin manager
    BY TopIsAlone
  <1>2. /\ flags' = [flags EXCEPT ![o] = (@ \ {"Added"}) \cup {"Removed"}]
        /\ manager' = manager \ {o}
        /\ memory' = IF Top.delete
                       THEN [x \in Objects |-> IF x \in Owned(o) THEN "freed" ELSE memory[x]]
                       ELSE memory
    BY EndsKeepMembers DEF Unregister
  <1>3. /\ LifeState(memory, manager, flags, list) /\ OwnState(list, mGroup, stack)
        /\ CallState(manager, list, mGroup, stack)
    BY DEF GroupInv
  <1>4. /\ memory \in [Objects -> {"none", "live", "freed"}]
        /\ mGroup \in [Objects -> Groups \cup {NoObject}]
        /\ \A g \in Groups : list[g] \in Seq(Objects) /\ g # NoObject /\ g \in Objects
    BY ObjectConstants DEF MemberInv, MemberState
  <1>5. OwnedBy(Owned(o), o)
    BY <1>1, OwnedFacts
  <1>6. ASSUME NEW x \in Objects
        PROVE  /\ memory'[x] # memory[x] => Top.delete /\ x \in Owned(o)
               /\ memory'[x] = memory[x] \/ memory'[x] = "freed"
               /\ Top.delete /\ x \in Owned(o) => memory'[x] = "freed"
    BY <1>2, <1>4
  <1>7. flags' \in [Objects -> SUBSET {"Added", "Removed", "Deleted"}]
        /\ \A x \in Objects : x \in manager' <=> "Added" \in flags'[x]
    <2>1. flags \in [Objects -> SUBSET {"Added", "Removed", "Deleted"}]
          /\ \A x \in Objects : x \in manager <=> "Added" \in flags[x]
      BY <1>3 DEF LifeState
    <2>2. flags' \in [Objects -> SUBSET {"Added", "Removed", "Deleted"}]
          /\ flags'[o] = (flags[o] \ {"Added"}) \cup {"Removed"}
          /\ \A x \in Objects : x # o => flags'[x] = flags[x]
      BY <1>1, <1>2, <2>1
    <2> QED BY <1>2, <2>1, <2>2
  <1>8. ASSUME NEW x \in Objects, x \in manager' PROVE memory'[x] = "live"
    <2>1. x \in manager /\ x # o /\ memory[x] = "live"
      BY <1>2, <1>3, <1>8 DEF LifeState
    <2>2. x \notin Owned(o)
      BY <1>5, <2>1 DEF OwnedBy
    <2> QED BY <1>6, <2>1, <2>2
  <1>9. ASSUME NEW g \in Groups, NEW x \in Objects, Contains(list'[g], x)
        PROVE  /\ memory'[g] # "none" /\ memory'[x] # "none"
               /\ g \notin manager' => x \notin manager'
               /\ memory'[g] = "live" => memory'[x] = "live"
    <2>1. Contains(list[g], x)
      <3>1. \/ Moved(list', list, o, mGroup[o], NoObject) /\ mGroup[o] # NoObject
            \/ list'[g] = list[g]
        <4>1. Moved(list', list, o, mGroup[o], NoObject)
          BY EndsFacts
        <4>2. mGroup[o] = NoObject => list'[g] = list[g]
          BY <1>4, <4>1 DEF Moved
        <4> QED BY <4>1, <4>2
      <3>2. ASSUME NEW new, Moved(new, list, o, mGroup[o], NoObject), mGroup[o] # NoObject,
                   Contains(new[g], x)
            PROVE  Contains(list[g], x)
        BY <1>1, <1>4, <3>2, MovedMembers
      <3> QED BY <1>9, <3>1, <3>2
    <2>2. /\ memory[g] # "none" /\ memory[x] # "none"
          /\ g \notin manager => x \notin manager
          /\ memory[g] = "live" => memory[x] = "live"
      BY <1>3, <2>1 DEF LifeState
    <2>3. g \in Objects
      BY <1>4
    <2>4. memory'[g] # "none" /\ memory'[x] # "none"
      BY <1>6, <2>2, <2>3
    <2>5. g \notin manager' => x \notin manager'
      BY <1>1, <1>2, <2>1, <2>2
    <2>6. ASSUME memory'[g] = "live" PROVE memory'[x] = "live"
      <3>1. memory[g] = "live" /\ memory[x] = "live" /\ ~(Top.delete /\ g \in Owned(o))
        BY <1>6, <2>2, <2>3, <2>6
      <3> SUFFICES ASSUME Top.delete, x \in Owned(o) PROVE FALSE
        BY <1>6, <3>1
      <3>2. CASE x = o
        <4>1. N > 1 /\ Sweeps(stack[N - 1])
          BY <1>9, <3>2, EndsListed
        <4>2. N - 1 \in 1 .. N - 1 /\ N - 1 + 1 = N
          BY <1>1, <4>1
        <4>3. ~stack[N].delete
          BY <1>3, <4>1, <4>2 DEF CallState, Above
        <4> QED BY <1>1, <4>3
      <3>3. CASE x # o
        <4>1. PICK h \in Owned(o) \cap Groups : Contains(list[h], x) /\ x \notin manager
          BY <1>5, <3>3 DEF OwnedBy
        <4>2. \A i \in 1 .. N : Removes(stack[i]) => stack[i].obj # x
          BY <1>3, <4>1 DEF CallState
        <4>3. \A f : ~Held(stack, x, f)
          <5> SUFFICES ASSUME NEW i \in 1 .. N - 1, Sweeps(stack[i]), stack[i + 1].obj = x
                       PROVE  FALSE
            BY DEF Held
          <5>1. Removes(stack[i + 1])
            BY <1>3 DEF CallState, Above
          <5>2. i + 1 \in 1 .. N
            BY <1>1
          <5> QED BY <4>2, <5>1, <5>2
        <4>4. ~Double(stack, x)
          BY <4>2 DEF Double
        <4>5. mGroup[x] = h /\ mGroup[x] = g
          BY <1>3, <2>1, <4>1, <4>3, <4>4 DEF OwnState
        <4> QED BY <3>1, <4>1, <4>5
      <3> QED BY <3>2, <3>3
    <2> QED BY <2>4, <2>5, <2>6
  <1> QED BY <1>7, <1>8, <1>9 DEF LifeState

LEMMA EndsKeepGroups ==
  ASSUME MemberInv, EventInv, GroupInv, EndOnRemove \/ EndGroup
  PROVE  GroupInv'
  <1>1. manager' = manager \ {Top.obj} /\ CancelPendingEvents(Top.obj)
    BY EndsKeepMembers DEF Unregister
  <1>2. \A j \in DOMAIN queue' : \E i \in DOMAIN queue : queue'[j] = queue[i]
                                                         /\ queue[i].dest # Top.obj
    BY <1>1, CancelKeepsQueue DEF EventInv
  <1>3. \A i \in DOMAIN queue' : queue'[i].dest \in manager'
    BY <1>1, <1>2 DEF GroupInv
  <1> QED BY <1>3, EndsKeepCalls, EndsKeepLife, EndsKeepOwn DEF GroupInv

-----------------------------------------------------------------------------
LEMMA InitGroups == Init => GroupInv
  <1> SUFFICES ASSUME Init PROVE GroupInv
    OBVIOUS
  <1>1. /\ flags = [x \in Objects |-> IF x \in Registered THEN {"Added"} ELSE {}]
        /\ memory = [x \in Objects |-> IF x \in Registered THEN "live" ELSE "none"]
        /\ manager = Registered /\ list = [s \in Sets \cup Groups |-> <<>>]
        /\ mGroup = [x \in Objects |-> NoObject] /\ queue = <<>> /\ stack = <<>>
    BY DEF Init
  <1>2. Len(stack) = 0 /\ DOMAIN queue = {} /\ 1 .. Len(stack) = {} /\ 1 .. Len(stack) - 1 = {}
    BY <1>1
  <1>3. CallState(manager, list, mGroup, stack)
    BY <1>2 DEF CallState
  <1>4. \A g \in Groups : \A x : ~Contains(list[g], x) /\ Count(list[g], x) = 0
    <2>1. <<>> \in Seq(Objects)
      OBVIOUS
    <2>2. \A x : Count(<<>>, x) = 0 /\ ~Contains(<<>>, x)
      BY <2>1, CountType
    <2> QED BY <1>1, <2>2
  <1>5. LifeState(memory, manager, flags, list)
    BY <1>1, <1>4 DEF LifeState
  <1>6. OwnState(list, mGroup, stack)
    <2>1. \A g \in Groups, x \in Objects : mGroup[x] # g
      BY <1>1, ObjectConstants
    <2> QED BY <1>4, <2>1 DEF OwnState
  <1> QED BY <1>2, <1>3, <1>5, <1>6 DEF GroupInv

LEMMA NextGroups ==
  ASSUME ~TouchDying, MemberInv, EventInv, GroupInv, [Next]_vars
  PROVE  GroupInv'
  <1>1. CASE UNCHANGED vars
    BY <1>1 DEF vars, objectVars, memberVars, eventVars, GroupInv
  <1>2. CASE \E o \in Objects : RegisterObject(o)
    BY <1>2, RegisterKeepsGroups
  <1>3. CASE \/ \E s \in Sets, o \in Objects : AddToSet(s, o) \/ RemoveFromSet(s, o)
             \/ \E r \in Refs, o \in Objects : SetRef(r, o)
    BY <1>3, SetsKeepGroups
  <1>4. CASE \E g \in Groups, o \in Objects : AddToGroup(g, o) \/ RemoveFromGroup(g, o)
    BY <1>4, GroupsChangeKeepsGroups
  <1>5. CASE \E o \in Objects : DeleteObject(o)
    BY <1>5, DeleteKeepsGroups
  <1>6. CASE \/ \E o \in Objects, time \in now .. MaxTime : PostEvent(o, time)
             \/ \E seq \in 1 .. MaxPosts : CancelEvent(seq)
    BY <1>6, EventsKeepGroups
  <1>7. CASE \/ \E time \in now .. MaxTime : AdvanceToTime(time)
             \/ PopEvent \/ EndEvent \/ EndAdvance
    BY <1>7, LoopKeepsGroups
  <1>8. CASE EndOnRemove \/ EndGroup
    BY <1>8, EndsKeepGroups
  <1>9. CASE EndGroupOnRemove
    BY <1>9, EndGroupOnRemoveKeepsGroups
  <1>10. CASE UnregisterChild
    BY <1>10, UnregisterChildKeepsGroups
  <1> QED BY <1>1, <1>2, <1>3, <1>4, <1>5, <1>6, <1>7, <1>8, <1>9, <1>10 DEF Next

LEMMA GroupsHold ==
  ASSUME ~TouchDying PROVE Spec => [](MemberInv /\ EventInv /\ GroupInv)
  <1>1. Init => MemberInv /\ EventInv /\ GroupInv
    BY InitMembers, InitQueue, InitGroups
  <1>2. MemberInv /\ EventInv /\ GroupInv /\ [Next]_vars => (MemberInv /\ EventInv /\ GroupInv)'
    BY NextMembers, NextQueue, NextGroups
  <1> QED BY <1>1, <1>2, PTL DEF Spec

-----------------------------------------------------------------------------
(* What the invariants say.                                                *)

LEMMA ToSetIsContained ==
  ASSUME NEW S, NEW s \in Seq(S), NEW x PROVE x \in ToSet(s) <=> Contains(s, x)
  <1>1. DOMAIN s = 1 .. Len(s)
    OBVIOUS
  <1> QED BY <1>1 DEF ToSet, Contains

LEMMA TypesHold == MemberInv /\ EventInv /\ GroupInv => TypeOK
  <1> SUFFICES ASSUME MemberInv, EventInv, GroupInv PROVE TypeOK
    OBVIOUS
  <1>1. /\ memory \in [Objects -> {"none", "live", "freed"}] /\ manager \subseteq Objects
        /\ list \in [Sets \cup Groups -> Seq(Objects)]
        /\ mGroup \in [Objects -> Groups \cup {NoObject}]
        /\ ref \in [Refs -> Objects \cup {NoObject}]
        /\ stack \in Seq(Frames) /\ \A s \in Sets : IsInjective(list[s])
    BY DEF MemberInv, MemberState
  <1>2. \A x \in Objects : notes[x] \in Seq(AllNotes)
    BY DEF MemberInv, MemberState, NotesInv, NotesType
  <1>3. queue \in Seq(Events) /\ now \in 0 .. MaxTime /\ target \in 0 .. MaxTime
        /\ posts \in 0 .. MaxPosts
    BY DEF EventInv, QueueInv
  <1>4. flags \in [Objects -> SUBSET {"Added", "Removed", "Deleted"}]
    BY DEF GroupInv, LifeState
  <1>5. stack \in Seq(Calls)
    <2>1. \A i \in 1 .. Len(stack) : stack[i] \in Frames /\ stack[i].next \in Nat
      BY <1>1 DEF GroupInv, CallState
    <2>2. \A c \in Frames : c.next \in Nat => c \in Calls
      BY DEF Frames, Calls
    <2>3. \A i \in 1 .. Len(stack) : stack[i] \in Calls
      BY <2>1, <2>2
    <2>4. Len(stack) \in Nat /\ stack = [i \in 1 .. Len(stack) |-> stack[i]]
      BY <1>1
    <2> QED BY <2>3, <2>4
  <1> QED BY <1>1, <1>2, <1>3, <1>4, <1>5 DEF TypeOK, AllNotes

LEMMA PairCounts ==
  ASSUME NEW a, NEW b, a # b
  PROVE  Cardinality({a} \cup {b}) = 2
  <1>1. IsFiniteSet({a}) /\ Cardinality({a}) = 1
    BY FS_Singleton
  <1>2. Cardinality({a} \cup {b}) = IF b \in {a} THEN Cardinality({a}) ELSE Cardinality({a}) + 1
    BY <1>1, FS_AddElement, Zenon
  <1>3. b \notin {a}
    OBVIOUS
  <1>4. Cardinality({a} \cup {b}) = Cardinality({a}) + 1
    BY <1>2, <1>3, Zenon
  <1>5. Cardinality({a} \cup {b}) = 1 + 1
    BY <1>1, <1>4, Zenon
  <1> DEFINE c == Cardinality({a} \cup {b})
  <1>6. c = 1 + 1
    BY <1>5
  <1> HIDE DEF c
  <1>7. c = 2
    BY <1>6
  <1> QED BY <1>7, Zenon DEF c

LEMMA TwoPlaces ==
  ASSUME NEW S, NEW s \in Seq(S), NEW i \in DOMAIN s, NEW j \in DOMAIN s, i # j, s[i] = s[j]
  PROVE  Count(s, s[i]) > 1
  <1>1. IsFiniteSet(At(s, s[i])) /\ {i, j} \in SUBSET At(s, s[i])
    BY AtIsFinite DEF At
  <1>2. Cardinality({i} \cup {j}) = 2
    BY PairCounts
  <1>3. Cardinality({i, j}) =< Cardinality(At(s, s[i])) /\ {i, j} = {i} \cup {j}
    BY <1>1, FS_Subset
  <1>4. Cardinality(At(s, s[i])) \in Nat
    BY <1>1, FS_CardinalityType
  <1> QED BY <1>2, <1>3, <1>4 DEF Count

LEMMA OneGroupHolds == MemberInv /\ GroupInv => OneGroup
  <1> SUFFICES ASSUME MemberInv, GroupInv, NEW o \in manager, NEW g \in Groups
               PROVE  /\ mGroup[o] = g => Contains(list[g], o)
                      /\ Contains(list[g], o) => mGroup[o] = g \/ Dying(g) \/ Twice(o)
                      /\ \A i, j \in DOMAIN list[g] :
                           i # j /\ list[g][i] = o /\ list[g][j] = o => Twice(o)
    BY DEF OneGroup
  <1>1. o \in Objects /\ DOMAIN stack = 1 .. Len(stack) /\ Len(stack) \in Nat
        /\ list[g] \in Seq(Objects) /\ g # NoObject
    BY ObjectConstants DEF MemberInv, MemberState
  <1>2. /\ mGroup[o] = g => Contains(list[g], o)
        /\ Contains(list[g], o) => mGroup[o] = g \/ Held(stack, o, g) \/ Double(stack, o)
        /\ Count(list[g], o) > 1 => Double(stack, o)
    BY <1>1 DEF GroupInv, OwnState
  <1>3. Held(stack, o, g) => Dying(g)
    <2>1. \A i \in 1 .. Len(stack) - 1 : i \in DOMAIN stack
      BY <1>1
    <2> QED BY <1>1, <2>1 DEF Held, Dying, Under, Sweeps
  <1>4. Double(stack, o) => Twice(o)
    <2>1. \A i, j \in 1 .. Len(stack) : i < j => i # j
      BY <1>1
    <2> QED BY <1>1, <2>1 DEF Double, Twice, Removes
  <1>5. ASSUME NEW i \in DOMAIN list[g], NEW j \in DOMAIN list[g], i # j, list[g][i] = o,
               list[g][j] = o
        PROVE  Twice(o)
    <2>1. Count(list[g], o) > 1
      BY <1>1, <1>5, TwoPlaces
    <2> QED BY <1>2, <1>4, <2>1
  <1> QED BY <1>2, <1>3, <1>4, <1>5

LEMMA ChildrenRemovedHolds == MemberInv /\ GroupInv => ChildrenAreRemoved
  <1> SUFFICES ASSUME MemberInv, GroupInv, stack # <<>>, Top.at = "children", Top.next = 0,
                      NEW o \in ToSet(list[Top.obj])
               PROVE  o \notin manager
    BY DEF ChildrenAreRemoved
  <1> DEFINE N == Len(stack)
  <1>1. N \in 1 .. N /\ Top = stack[N] /\ N \in Nat
    BY FrameFacts
  <1>2. Sweeps(stack[N]) /\ stack[N].next = 0
    BY <1>1 DEF Sweeps
  <1>3. list[Top.obj] \in Seq(Objects)
    BY <1>1, <1>2, FrameFacts
  <1>4. Latest(stack, N)
    <2>1. ~\E j \in 1 .. N : j > N
      BY <1>1
    <2> QED BY <2>1 DEF Latest
  <1>5. Swept(manager, list, stack[N])
    BY <1>1, <1>2, <1>4 DEF GroupInv, CallState
  <1>6. \A k \in 1 .. Len(list[Top.obj]) : list[Top.obj][k] \notin manager
    BY <1>1, <1>2, <1>5 DEF Swept
  <1>7. DOMAIN list[Top.obj] = 1 .. Len(list[Top.obj])
    BY <1>3
  <1> QED BY <1>6, <1>7 DEF ToSet

\* A note that is with an object is with one that is registered.
LEMMA NotedIsRegistered ==
  ASSUME MemberInv, NEW o \in Objects, NEW note, Count(notes[o], note) > 0
  PROVE  o \in manager
  <1>1. NotesType(notes) /\ (o \notin manager => notes[o] = <<>>)
    BY DEF MemberInv, MemberState, NotesInv
  <1>2. notes[o] = <<>> => Count(notes[o], note) = 0
    BY <1>1, CountOfNotes
  <1> QED BY <1>1, <1>2

LEMMA NothingDanglesHolds == MemberInv /\ EventInv /\ GroupInv => NothingDangles
  <1> SUFFICES ASSUME MemberInv, EventInv, GroupInv PROVE NothingDangles
    OBVIOUS
  <1>1. /\ manager \subseteq Objects /\ list \in [Sets \cup Groups -> Seq(Objects)]
        /\ ref \in [Refs -> Objects \cup {NoObject}]
        /\ NotesInv(notes, list, ref, Sets \cap manager)
    BY DEF MemberInv, MemberState
  <1>2. NotesType(notes) /\ Paired(notes) /\ RefsNoted(notes, ref)
        /\ MembersNoted(notes, list, Sets \cap manager)
    BY <1>1 DEF NotesInv
  <1>3. \A o \in manager : Live(o)
    BY <1>1 DEF GroupInv, LifeState, Live
  <1>4. ASSUME NEW s \in Sets, s \in manager, NEW o \in ToSet(list[s]) PROVE Live(o)
    <2>1. Contains(list[s], o) /\ o \in Objects
      <3>1. list[s] \in Seq(Objects)
        BY <1>1
      <3>2. Contains(list[s], o)
        BY <3>1, ToSetIsContained
      <3> QED BY <3>1, <3>2 DEF Contains
    <2>2. Count(notes[o], DeleteNote(s)) > 0
      BY <1>2, <1>4, <2>1 DEF MembersNoted
    <2> QED BY <1>3, <2>1, <2>2, NotedIsRegistered
  <1>5. ASSUME NEW g \in Groups, Live(g), NEW o \in ToSet(list[g]) PROVE Live(o)
    <2>1. Contains(list[g], o) /\ o \in Objects
      <3>1. list[g] \in Seq(Objects)
        BY <1>1
      <3>2. Contains(list[g], o)
        BY <3>1, ToSetIsContained
      <3> QED BY <3>1, <3>2 DEF Contains
    <2> QED BY <1>5, <2>1 DEF GroupInv, LifeState, Live
  <1>6. \A i \in DOMAIN queue : queue[i].dest \in manager
    BY DEF GroupInv
  <1>7. ASSUME NEW r \in Refs, ref[r] # NoObject PROVE ref[r] \in manager
    <2>1. ref[r] \in Objects
      BY <1>1, <1>7
    <2>2. Count(notes[ref[r]], RefNote(r)) = 1
      BY <1>2, <2>1 DEF RefsNoted
    <2> QED BY <2>1, <2>2, NotedIsRegistered
  <1>8. ASSUME NEW o \in manager, NEW i \in DOMAIN notes[o], notes[o][i].type # "ObjectRef"
        PROVE  Live(notes[o][i].ptr)
    <2> DEFINE note == notes[o][i]
               p == note.ptr
    <2>1. o \in Objects /\ notes[o] \in Seq(AllNotes)
      BY <1>1, <1>2 DEF NotesType
    <2>2. i \in 1 .. Len(notes[o]) /\ note \in AllNotes
      BY <2>1
    <2>3. Count(notes[o], note) > 0
      BY <2>1, <2>2, CountTaken
    <2>4. /\ p \in Objects
          /\ \/ note = DeleteNote(p)
             \/ note = ClearNote(p)
      BY <1>8, <2>2, NoteKinds
    <2> HIDE DEF note, p
    <2>5. CASE note = DeleteNote(p)
      <3>1. Count(notes[p], ClearNote(o)) > 0
        BY <1>2, <2>1, <2>3, <2>4, <2>5 DEF Paired
      <3> QED BY <1>3, <2>4, <3>1, NotedIsRegistered DEF p, note
    <2>6. CASE note = ClearNote(p)
      <3>1. Count(notes[p], DeleteNote(o)) > 0
        BY <1>2, <2>1, <2>3, <2>4, <2>6 DEF Paired
      <3> QED BY <1>3, <2>4, <3>1, NotedIsRegistered DEF p, note
    <2> QED BY <2>4, <2>5, <2>6
  <1> QED BY <1>3, <1>4, <1>5, <1>6, <1>7, <1>8 DEF NothingDangles

\* Where scripts leave alone what belongs to a dying group: a group owns what it
\* will delete, and deletes nothing that is still registered (SimGroup::addObject,
\* removeObject, onRemove, ~SimGroup and unregisterObject).
THEOREM GroupsOwn == ASSUME ~TouchDying PROVE Spec => []GroupsSound
  <1>1. MemberInv /\ EventInv /\ GroupInv => GroupsSound
    BY TypesHold, OneGroupHolds, ChildrenRemovedHolds DEF GroupsSound
  <1> QED BY <1>1, GroupsHold, PTL

\* There too: dictionaries, sets, groups, the event queue, pointers and notes
\* keep no object that is gone (unregisterObject, processDeleteNotifies,
\* clearAllNotifications, SimSet::onRemove, cancelPendingEvents, ~SimGroup).
THEOREM NothingIsLeft == ASSUME ~TouchDying PROVE Spec => []NothingDangles
  <1> QED BY NothingDanglesHolds, GroupsHold, PTL
=============================================================================
