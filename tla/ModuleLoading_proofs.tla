------------------------- MODULE ModuleLoading_proofs -------------------------
(***************************************************************************)
(* One version of a module is loaded at a time and what is loaded is what  *)
(* is counted, for any definitions, dependencies, groups and scripts.      *)
(* Where modules depend on each other alike in all versions, counts are    *)
(* what the holders have taken and what is needed is loaded; where each    *)
(* comes in one version, clearDatabase is never refused.                   *)
(***************************************************************************)
EXTENDS ModuleLoading, FiniteSetTheorems, NaturalsInduction, SequenceTheorems, TLAPS

-----------------------------------------------------------------------------
(* Numbers and loops.                                                      *)

LEMMA LeastNumber ==
  ASSUME NEW T, T \subseteq Nat, T # {}
  PROVE  \E m \in T : \A n \in T : m =< n
  <1> DEFINE R == OpToRel(<, Nat)
  <1>0. IsWellFoundedOn(R, Nat)
    BY NatLessThanWellFounded DEF OpToRel
  <1>1. PICK m \in T : \A n \in T : ~(<<n, m>> \in R)
    <2> HIDE DEF R
    <2> QED BY <1>0, WFMin
  <1>2. ASSUME NEW n \in T, n < m PROVE FALSE
    <2>1. <<n, m>> \in {pair \in Nat \X Nat : pair[1] < pair[2]}
      BY <1>2
    <2> QED BY <1>1, <2>1 DEF OpToRel
  <1>3. m \in T /\ \A n \in T : ~(n < m)
    BY <1>1, <1>2, Zenon
  <1> QED BY <1>3

\* N rounds of a loop, each of which takes the state and its number to a state.
Rounds(f, base, step, N) ==
  /\ f[0] = base
  /\ \A n \in 1 .. N : f[n] = step[<<f[n - 1], n>>]

LEMMA LoopExists ==
  ASSUME NEW D, NEW base \in D, NEW step \in [D \X (Nat \ {0}) -> D], NEW N \in Nat
  PROVE  \E f \in [0 .. N -> D] : Rounds(f, base, step, N)
  <1> DEFINE T == {n \in Nat : ~\E f \in [0 .. n -> D] : Rounds(f, base, step, n)}
  <1>1. SUFFICES ASSUME T # {} PROVE FALSE
    OBVIOUS
  <1>2. PICK m \in T : \A n \in T : m =< n
    BY <1>1, LeastNumber
  <1>3. m \in Nat /\ ~\E f \in [0 .. m -> D] : Rounds(f, base, step, m)
    BY <1>2
  <1>4. m # 0
    <2>1. [n \in 0 .. 0 |-> base] \in [0 .. 0 -> D]
      OBVIOUS
    <2>2. Rounds([n \in 0 .. 0 |-> base], base, step, 0)
      BY DEF Rounds
    <2> QED BY <1>3, <2>1, <2>2
  <1>5. m - 1 \in Nat /\ m \in Nat \ {0} /\ ~(m =< m - 1)
    BY <1>3, <1>4
  <1>6. PICK f \in [0 .. m - 1 -> D] : Rounds(f, base, step, m - 1)
    BY <1>2, <1>5
  <1> DEFINE g == [n \in 0 .. m |-> IF n = m THEN step[<<f[m - 1], m>>] ELSE f[n]]
  <1>7. g \in [0 .. m -> D]
    <2>1. f[m - 1] \in D
      BY <1>5
    <2>2. step[<<f[m - 1], m>>] \in D
      BY <1>5, <2>1
    <2>3. \A n \in 0 .. m : n # m => n \in 0 .. m - 1
      BY <1>5
    <2> QED BY <2>2, <2>3
  <1>8. g[0] = base
    BY <1>4, <1>5, <1>6 DEF Rounds
  <1>9. ASSUME NEW n \in 1 .. m PROVE g[n] = step[<<g[n - 1], n>>]
    <2>1. n \in 0 .. m /\ n - 1 \in 0 .. m /\ n - 1 # m
      BY <1>5
    <2>2. g[n - 1] = f[n - 1]
      BY <2>1
    <2>3. CASE n = m
      BY <2>1, <2>2, <2>3
    <2>4. CASE n # m
      <3>1. n \in 1 .. m - 1
        BY <1>5, <2>4
      <3> QED BY <1>6, <2>1, <2>2, <2>4, <3>1 DEF Rounds
    <2> QED BY <2>3, <2>4
  <1> QED BY <1>3, <1>7, <1>8, <1>9 DEF Rounds

HasHighest(T) == \E d \in T : \A e \in T : e.version =< d.version

LEMMA HighestExists ==
  ASSUME NEW T, T \subseteq Definitions, T # {} PROVE HasHighest(T)
  <1> DEFINE Bad == {n \in Nat : \E U \in SUBSET T : /\ U # {} /\ IsFiniteSet(U) /\ Cardinality(U) = n
                                                   /\ ~HasHighest(U)}
  <1> SUFFICES ASSUME ~HasHighest(T) PROVE FALSE
    OBVIOUS
  <1>1. IsFiniteSet(T) /\ Cardinality(T) \in Nat
    <2>1. IsFiniteSet(T)
      BY ModuleConstants, FS_Subset
    <2> QED BY <2>1, FS_CardinalityType
  <1>2. Cardinality(T) \in Bad
    BY <1>1
  <1>3. PICK m \in Bad : \A n \in Bad : m =< n
    <2> HIDE DEF Bad
    <2>1. Bad \subseteq Nat
      BY DEF Bad
    <2> QED BY <1>2, <2>1, LeastNumber
  <1>4. PICK U \in SUBSET T : U # {} /\ IsFiniteSet(U) /\ Cardinality(U) = m /\ ~HasHighest(U)
    BY <1>3
  <1>5. PICK u : u \in U
    BY <1>4
  <1>6. /\ IsFiniteSet(U \ {u}) /\ Cardinality(U \ {u}) = m - 1 /\ m - 1 \in Nat
    <2>1. /\ IsFiniteSet(U \ {u})
          /\ Cardinality(U \ {u}) = IF u \in U THEN Cardinality(U) - 1 ELSE Cardinality(U)
      BY <1>4, FS_RemoveElement
    <2>2. Cardinality(U \ {u}) \in Nat
      BY <2>1, FS_CardinalityType
    <2> QED BY <1>4, <1>5, <2>1, <2>2
  <1>7. \A d \in U : d.version \in Nat
    BY ModuleConstants
  <1>8. CASE U \ {u} = {}
    <2>1. \A e \in U : e = u
      BY <1>8
    <2>2. \A e \in U : e.version =< u.version
      BY <1>5, <1>7, <2>1
    <2> QED BY <1>4, <1>5, <2>2 DEF HasHighest
  <1>9. CASE U \ {u} # {}
    <2>1. ~(m =< m - 1)
      BY <1>3
    <2>2. m - 1 \notin Bad
      BY <1>3, <2>1
    <2>3. HasHighest(U \ {u})
      BY <1>6, <1>9, <2>2
    <2>4. PICK d \in U \ {u} : \A e \in U \ {u} : e.version =< d.version
      BY <2>3 DEF HasHighest
    <2>5. CASE u.version =< d.version
      <3>1. \A e \in U : e.version =< d.version
        BY <2>4, <2>5
      <3> QED BY <1>4, <3>1 DEF HasHighest
    <2>6. CASE ~(u.version =< d.version)
      <3>1. \A e \in U : e.version =< u.version
        BY <1>5, <1>7, <2>4, <2>6
      <3> QED BY <1>4, <1>5, <3>1 DEF HasHighest
    <2> QED BY <2>5, <2>6
  <1> QED BY <1>8, <1>9

LEMMA LatestIsOne == ASSUME NEW T, T \subseteq Definitions, T # {} PROVE Latest(T) \in T
  BY HighestExists DEF HasHighest, Latest

-----------------------------------------------------------------------------
(* What is resolved is registered.                                         *)

Resolvers == [Queues \X database -> Queues]

LEMMA OneIsQueue ==
  ASSUME database \subseteq Definitions, NEW inner \in Resolvers, NEW queue \in Queues,
         NEW dep \in Wants
  PROVE  ResolveOne(inner, queue, dep) \in Queues
  <1> DEFINE at      == {n \in DOMAIN queue.ready : queue.ready[n].def.id = dep.id}
             first   == CHOOSE n \in at : TRUE
             wanted  == {d \in database : d.id = dep.id /\ dep.version \in {0, d.version}}
             missing == IF Enforce THEN Failed(queue) ELSE queue
             inside  == [queue EXCEPT !.resolving = @ \cup {dep.id}]
             behind  == inner[<<inside, Latest(wanted)>>]
             Entries == [def : database, strict : BOOLEAN]
             result  == ResolveOne(inner, queue, dep)
  <1>1. /\ queue.ok \in BOOLEAN /\ queue.ready \in Seq(Entries) /\ queue.resolving \in SUBSET Ids
        /\ dep.id \in Ids
    BY DEF Queues, Wants
  <1>2. Failed(queue) \in Queues /\ missing \in Queues
    BY DEF Queues, Failed
  <1>3. wanted # {} => Latest(wanted) \in database
    <2>1. wanted \subseteq Definitions
      OBVIOUS
    <2> HIDE DEF wanted
    <2>2. wanted # {} => Latest(wanted) \in wanted
      BY <2>1, LatestIsOne
    <2> QED BY <2>2 DEF wanted
  <1> HIDE DEF wanted
  <1>4. ASSUME at # {}, wanted # {}
        PROVE  [queue EXCEPT !.ready[first] = [def |-> Latest(wanted), strict |-> TRUE]] \in Queues
    <2>1. first \in at
      BY <1>4
    <2>2. [def |-> Latest(wanted), strict |-> TRUE] \in Entries
      BY <1>3, <1>4
    <2> DEFINE e == [def |-> Latest(wanted), strict |-> TRUE]
    <2>3. [queue.ready EXCEPT ![first] = e] \in Seq(Entries)
      <3> HIDE DEF e, Entries
      <3>1. first \in 1 .. Len(queue.ready)
        BY <1>1, <2>1
      <3> QED BY <1>1, <2>2, <3>1 DEF e
    <2> QED BY <1>1, <2>3 DEF Queues
  <1>5. ASSUME wanted # {}
        PROVE  [behind EXCEPT !.resolving = queue.resolving,
                  !.ready = Append(@, [def |-> Latest(wanted), strict |-> FALSE])] \in Queues
    <2>1. inside \in Queues
      BY <1>1 DEF Queues
    <2>2. behind \in Queues
      <3> HIDE DEF inside
      <3> QED BY <1>3, <1>5, <2>1 DEF Resolvers
    <2> DEFINE e == [def |-> Latest(wanted), strict |-> FALSE]
    <2>3. e \in Entries
      BY <1>3, <1>5
    <2> HIDE DEF behind, e
    <2>4. behind.ok \in BOOLEAN /\ behind.ready \in Seq(Entries)
      BY <2>2 DEF Queues
    <2>5. Append(behind.ready, e) \in Seq(Entries)
      <3> HIDE DEF Entries
      <3> QED BY <2>3, <2>4
    <2>6. [behind EXCEPT !.resolving = queue.resolving, !.ready = Append(@, e)] \in Queues
      BY <1>1, <2>2, <2>4, <2>5 DEF Queues
    <2> QED BY <2>6 DEF e
  <1>6. result = IF at # {}
        THEN IF dep.version \in {0, queue.ready[first].def.version} THEN queue
             ELSE IF queue.ready[first].strict THEN Failed(queue)
             ELSE IF wanted = {} THEN missing
             ELSE [queue EXCEPT !.ready[first] = [def |-> Latest(wanted), strict |-> TRUE]]
        ELSE IF dep.id \in queue.resolving THEN Failed(queue)
             ELSE IF wanted = {} THEN missing
             ELSE [behind EXCEPT !.resolving = queue.resolving,
                     !.ready = Append(@, [def |-> Latest(wanted), strict |-> FALSE])]
    BY DEF ResolveOne, wanted
  <1> HIDE DEF result, at, first, missing, behind
  <1> QED BY <1>2, <1>4, <1>5, <1>6 DEF result

LEMMA LoopOfAll ==
  ASSUME database \subseteq Definitions, NEW inner \in Resolvers, NEW queue \in Queues,
         NEW deps \in Seq(Wants)
  PROVE  \E g \in [0 .. Len(deps) -> Queues] :
           /\ g = [n \in 0 .. Len(deps) |->
                     IF n = 0 THEN queue
                     ELSE IF g[n - 1].ok THEN ResolveOne(inner, g[n - 1], deps[n]) ELSE g[n - 1]]
           /\ ResolveAll(inner, queue, deps) = g[Len(deps)]
  <1> DEFINE N == Len(deps)
             next(q, n) == IF n \in 1 .. N /\ q.ok THEN ResolveOne(inner, q, deps[n]) ELSE q
             step == [p \in Queues \X (Nat \ {0}) |-> next(p[1], p[2])]
             IsLoop(f) == f = [n \in 0 .. N |->
                                 IF n = 0 THEN queue
                                 ELSE IF f[n - 1].ok THEN ResolveOne(inner, f[n - 1], deps[n])
                                                     ELSE f[n - 1]]
             done == CHOOSE f : IsLoop(f)
  <1>1. N \in Nat /\ \A n \in 1 .. N : deps[n] \in Wants
    OBVIOUS
  <1>2. \A q \in Queues : \A n : next(q, n) \in Queues
    BY <1>1, OneIsQueue
  <1>3. step \in [Queues \X (Nat \ {0}) -> Queues]
    <2> HIDE DEF next
    <2> QED BY <1>2
  <1>4. PICK f \in [0 .. N -> Queues] : Rounds(f, queue, step, N)
    <2> HIDE DEF step, N
    <2> QED BY <1>1, <1>3, LoopExists
  <1>5. IsLoop(f)
    <2> SUFFICES ASSUME NEW n \in 0 .. N
                 PROVE  f[n] = IF n = 0 THEN queue
                               ELSE IF f[n - 1].ok THEN ResolveOne(inner, f[n - 1], deps[n])
                                                   ELSE f[n - 1]
      BY <1>4
    <2>1. CASE n = 0
      BY <1>4, <2>1 DEF Rounds
    <2>2. CASE n # 0
      <3> HIDE DEF N, next
      <3>1. n \in 1 .. N /\ n \in Nat \ {0} /\ n - 1 \in 0 .. N
        BY <1>1, <2>2
      <3>2. f[n - 1] \in Queues /\ f[n] = step[<<f[n - 1], n>>]
        BY <1>4, <3>1 DEF Rounds
      <3>3. step[<<f[n - 1], n>>] = next(f[n - 1], n)
        BY <3>1, <3>2
      <3> QED BY <2>2, <3>1, <3>2, <3>3 DEF next
    <2> QED BY <2>1, <2>2
  <1>6. IsLoop(done)
    BY <1>5
  <1>7. ResolveAll(inner, queue, deps) = done[N]
    BY DEF ResolveAll
  <1>8. ASSUME NEW g, IsLoop(g), NEW n \in 0 .. N PROVE g[n] \in Queues
    <2> DEFINE T == {k \in 0 .. N : g[k] \notin Queues}
    <2> SUFFICES ASSUME T # {} PROVE FALSE
      OBVIOUS
    <2>1. PICK k \in T : \A j \in T : k =< j
      <3>1. T \subseteq Nat
        BY <1>1
      <3> HIDE DEF T
      <3> QED BY <3>1, LeastNumber
    <2>2. k \in 0 .. N /\ g[k] \notin Queues
      BY <2>1
    <2>3. CASE k = 0
      BY <1>8, <2>2, <2>3
    <2>4. CASE k # 0
      <3>1. k \in 1 .. N /\ k - 1 \in 0 .. N /\ ~(k =< k - 1)
        BY <1>1, <2>2, <2>4
      <3>2. g[k - 1] \in Queues
        BY <2>1, <3>1
      <3>3. g[k] = IF g[k - 1].ok THEN ResolveOne(inner, g[k - 1], deps[k]) ELSE g[k - 1]
        BY <1>8, <2>2, <2>4
      <3>4. ResolveOne(inner, g[k - 1], deps[k]) \in Queues
        BY <1>1, <3>1, <3>2, OneIsQueue
      <3> QED BY <2>2, <3>2, <3>3, <3>4
    <2> QED BY <2>3, <2>4
  <1>9. done \in [0 .. N -> Queues]
    <2>1. done = [n \in 0 .. N |-> done[n]]
      <3> HIDE DEF done
      <3> QED BY <1>6
    <2> HIDE DEF done, IsLoop
    <2> QED BY <1>6, <1>8, <2>1
  <1>10. \E g \in [0 .. N -> Queues] : IsLoop(g) /\ ResolveAll(inner, queue, deps) = g[N]
    <2> HIDE DEF done, IsLoop
    <2> QED BY <1>6, <1>7, <1>9
  <1> QED BY <1>10

LEMMA AllIsQueue ==
  ASSUME database \subseteq Definitions, NEW inner \in Resolvers, NEW queue \in Queues,
         NEW deps \in Seq(Wants)
  PROVE  ResolveAll(inner, queue, deps) \in Queues
  <1> DEFINE N == Len(deps)
  <1>1. N \in Nat /\ N \in 0 .. N
    OBVIOUS
  <1>2. \E g \in [0 .. N -> Queues] : ResolveAll(inner, queue, deps) = g[N]
    BY LoopOfAll
  <1> HIDE DEF N
  <1> QED BY <1>1, <1>2

LEMMA IdsFinite == IsFiniteSet(Ids) /\ Cardinality(Ids) \in Nat
  <1> DEFINE idOf == [d \in Definitions |-> d.id]
  <1>1. idOf \in Surjection(Definitions, Ids)
    BY DEF Surjection, Ids
  <1> HIDE DEF idOf
  <1>2. IsFiniteSet(Ids)
    BY <1>1, ModuleConstants, FS_Surjection
  <1> QED BY <1>2, FS_CardinalityType

Nothing == [ok |-> TRUE, ready |-> <<>>, resolving |-> {}]

LEMMA LoopOfResolved ==
  ASSUME database \subseteq Definitions
  PROVE  \E g \in [0 .. Cardinality(Ids) -> Resolvers] :
           /\ g = [n \in 0 .. Cardinality(Ids) |->
                     [p \in Queues \X database |->
                        IF n = 0 THEN p[1] ELSE ResolveAll(g[n - 1], p[1], Dependencies[p[2]])]]
           /\ \A wants : Resolved(wants) = ResolveAll(g[Cardinality(Ids)], Nothing, wants)
  <1> DEFINE N == Cardinality(Ids)
             base == [p \in Queues \X database |-> p[1]]
             deeper(inner) == [p \in Queues \X database |->
                                 ResolveAll(inner, p[1], Dependencies[p[2]])]
             step == [q \in Resolvers \X (Nat \ {0}) |-> deeper(q[1])]
             IsLoop(f) == f = [n \in 0 .. N |->
                                 [p \in Queues \X database |->
                                    IF n = 0 THEN p[1]
                                    ELSE ResolveAll(f[n - 1], p[1], Dependencies[p[2]])]]
             resolve == CHOOSE f : IsLoop(f)
  <1>1. N \in Nat
    BY IdsFinite
  <1>3. base \in Resolvers
    BY DEF Resolvers
  <1>4. \A inner \in Resolvers : deeper(inner) \in Resolvers
    <2> SUFFICES ASSUME NEW inner \in Resolvers, NEW p \in Queues \X database
                 PROVE  ResolveAll(inner, p[1], Dependencies[p[2]]) \in Queues
      BY DEF Resolvers
    <2>1. p[1] \in Queues /\ Dependencies[p[2]] \in Seq(Wants)
      BY ModuleConstants
    <2> QED BY <2>1, AllIsQueue
  <1>5. step \in [Resolvers \X (Nat \ {0}) -> Resolvers]
    <2> HIDE DEF deeper
    <2> QED BY <1>4
  <1>6. PICK f \in [0 .. N -> Resolvers] : Rounds(f, base, step, N)
    <2> HIDE DEF step, base, N
    <2> QED BY <1>1, <1>3, <1>5, LoopExists
  <1>7. IsLoop(f)
    <2> DEFINE round(n) == [p \in Queues \X database |->
                                    IF n = 0 THEN p[1]
                                    ELSE ResolveAll(f[n - 1], p[1], Dependencies[p[2]])]
    <2> SUFFICES ASSUME NEW n \in 0 .. N PROVE f[n] = round(n)
      BY <1>6
    <2>1. CASE n = 0
      <3>1. f[0] = base
        BY <1>6 DEF Rounds
      <3> QED BY <2>1, <3>1
    <2>2. CASE n # 0
      <3> HIDE DEF N, deeper
      <3>1. n \in 1 .. N /\ n \in Nat \ {0} /\ n - 1 \in 0 .. N
        BY <1>1, <2>2
      <3>2. f[n - 1] \in Resolvers /\ f[n] = step[<<f[n - 1], n>>]
        BY <1>6, <3>1 DEF Rounds
      <3>3. step[<<f[n - 1], n>>] = deeper(f[n - 1])
        BY <3>1, <3>2
      <3>4. round(n) = deeper(f[n - 1])
        BY <2>2 DEF deeper
      <3> QED BY <3>2, <3>3, <3>4
    <2> QED BY <2>1, <2>2
  <1>8. IsLoop(resolve)
    BY <1>7
  <1>9. \A wants : Resolved(wants) = ResolveAll(resolve[N], Nothing, wants)
    BY DEF Resolved, Nothing
  <1>10. ASSUME NEW g, IsLoop(g), NEW n \in 0 .. N PROVE g[n] \in Resolvers
    <2> DEFINE T == {k \in 0 .. N : g[k] \notin Resolvers}
    <2> SUFFICES ASSUME T # {} PROVE FALSE
      OBVIOUS
    <2>1. PICK k \in T : \A j \in T : k =< j
      <3>1. T \subseteq Nat
        BY <1>1
      <3> HIDE DEF T
      <3> QED BY <3>1, LeastNumber
    <2>2. k \in 0 .. N /\ g[k] \notin Resolvers
      BY <2>1
    <2>3. g[k] = [p \in Queues \X database |->
                    IF k = 0 THEN p[1] ELSE ResolveAll(g[k - 1], p[1], Dependencies[p[2]])]
      <3> HIDE DEF N
      <3> QED BY <1>10, <2>2
    <2>4. CASE k = 0
      <3>1. g[k] = base
        BY <2>3, <2>4
      <3> QED BY <1>3, <2>2, <3>1
    <2>5. CASE k # 0
      <3>1. k \in 1 .. N /\ k - 1 \in 0 .. N /\ ~(k =< k - 1)
        BY <1>1, <2>2, <2>5
      <3>2. g[k - 1] \in Resolvers
        BY <2>1, <3>1
      <3>3. g[k] = deeper(g[k - 1])
        BY <2>3, <2>5
      <3> QED BY <1>4, <2>2, <3>2, <3>3
    <2> QED BY <2>4, <2>5
  <1>11. resolve \in [0 .. N -> Resolvers]
    <2>1. resolve = [n \in 0 .. N |-> resolve[n]]
      <3> HIDE DEF resolve
      <3> QED BY <1>8
    <2> HIDE DEF resolve, IsLoop
    <2> QED BY <1>8, <1>10, <2>1
  <1>12. \E g \in [0 .. N -> Resolvers] :
           IsLoop(g) /\ \A wants : Resolved(wants) = ResolveAll(g[N], Nothing, wants)
    <2> HIDE DEF resolve, IsLoop
    <2> QED BY <1>8, <1>9, <1>11
  <1> QED BY <1>12

LEMMA ResolvedIsQueue ==
  ASSUME database \subseteq Definitions, NEW wants \in Seq(Wants) PROVE Resolved(wants) \in Queues
  <1> DEFINE N == Cardinality(Ids)
  <1>1. N \in Nat /\ N \in 0 .. N
    BY IdsFinite
  <1>2. \E g \in [0 .. N -> Resolvers] : Resolved(wants) = ResolveAll(g[N], Nothing, wants)
    <2>1. PICK g \in [0 .. N -> Resolvers] :
            \A w : Resolved(w) = ResolveAll(g[N], Nothing, w)
      BY LoopOfResolved
    <2> QED BY <2>1
  <1>3. Nothing \in Queues
    BY DEF Nothing, Queues
  <1> HIDE DEF N
  <1>4. PICK g \in [0 .. N -> Resolvers] : Resolved(wants) = ResolveAll(g[N], Nothing, wants)
    BY <1>2
  <1>5. g[N] \in Resolvers
    BY <1>1
  <1> QED BY <1>3, <1>4, <1>5, AllIsQueue

LEMMA ReadyIsRegistered ==
  ASSUME NEW resolved \in Queues
  PROVE  /\ ReadyOf(resolved) \in Seq(database)
         /\ Len(ReadyOf(resolved)) = Len(resolved.ready)
         /\ Len(resolved.ready) \in Nat
  <1>1. resolved.ready \in Seq([def : database, strict : BOOLEAN])
    BY DEF Queues
  <1>2. \A n \in 1 .. Len(resolved.ready) : resolved.ready[n].def \in database
    <2> SUFFICES ASSUME NEW n \in 1 .. Len(resolved.ready)
                 PROVE  resolved.ready[n].def \in database
      OBVIOUS
    <2> DEFINE Entries == [def : database, strict : BOOLEAN]
    <2>1. resolved.ready[n] \in Entries
      <3> HIDE DEF Entries
      <3>1. resolved.ready \in Seq(Entries)
        BY <1>1 DEF Entries
      <3> QED BY <3>1
    <2> QED BY <2>1
  <1> QED BY <1>1, <1>2 DEF ReadyOf

LEMMA GroupReady ==
  ASSUME TypeOK, NEW g \in Groups
  PROVE  /\ ReadyOf(GroupResolved(g)) \in Seq(database)
         /\ Len(ReadyOf(GroupResolved(g))) = Len(GroupResolved(g).ready)
         /\ Len(GroupResolved(g).ready) \in Nat
  <1> DEFINE wants == [n \in DOMAIN groupModules[g] |-> Wanted(groupModules[g][n], 0)]
  <1>1. groupModules[g] \in Seq(Ids)
    BY DEF TypeOK
  <1>2. wants \in Seq(Wants)
    <2>1. \A n \in 1 .. Len(groupModules[g]) : Wanted(groupModules[g][n], 0) \in Wants
      BY <1>1 DEF Wanted, Wants
    <2> QED BY <1>1, <2>1
  <1>3. GroupResolved(g) \in Queues
    <2> HIDE DEF wants
    <2>1. Resolved(wants) \in Queues
      BY <1>2, ResolvedIsQueue DEF TypeOK
    <2> QED BY <2>1 DEF GroupResolved, wants
  <1> QED BY <1>3, ReadyIsRegistered

LEMMA ModuleReady ==
  ASSUME TypeOK, NEW id \in Ids, NEW version \in Nat
  PROVE  /\ ReadyOf(ModuleResolved(id, version)) \in Seq(database)
         /\ Len(ReadyOf(ModuleResolved(id, version))) = Len(ModuleResolved(id, version).ready)
         /\ Len(ModuleResolved(id, version).ready) \in Nat
  <1>1. <<Wanted(id, version)>> \in Seq(Wants)
    BY DEF Wanted, Wants
  <1>2. ModuleResolved(id, version) \in Queues
    BY <1>1, ResolvedIsQueue DEF TypeOK, ModuleResolved
  <1> QED BY <1>2, ReadyIsRegistered

-----------------------------------------------------------------------------
(* The lists of the manager.                                               *)

LEMMA IdsOfGroup ==
  ASSUME NEW definitions \in Seq(Definitions), NEW g PROVE IdsInOrder(definitions, g) \in Seq(Ids)
  <1> DEFINE N == Len(definitions)
             next(s, n) ==
               IF n \in 1 .. N
                 THEN IF GroupOf[definitions[n].id] = g /\ ~Contains(s, definitions[n].id)
                        THEN Append(s, definitions[n].id) ELSE s
                 ELSE s
             step == [p \in Seq(Ids) \X (Nat \ {0}) |-> next(p[1], p[2])]
             IsLoop(f) == f = [n \in 0 .. N |->
               IF n = 0 THEN <<>>
               ELSE LET d == definitions[n]
                    IN  IF GroupOf[d.id] = g /\ ~Contains(f[n - 1], d.id)
                          THEN Append(f[n - 1], d.id) ELSE f[n - 1]]
             ids == CHOOSE f : IsLoop(f)
  <1>1. N \in Nat /\ \A n \in 1 .. N : definitions[n].id \in Ids
    BY DEF Ids
  <1>2. \A s \in Seq(Ids) : \A n : next(s, n) \in Seq(Ids)
    BY <1>1
  <1>3. step \in [Seq(Ids) \X (Nat \ {0}) -> Seq(Ids)]
    <2> HIDE DEF next
    <2> QED BY <1>2
  <1>4. <<>> \in Seq(Ids)
    OBVIOUS
  <1>5. PICK f \in [0 .. N -> Seq(Ids)] : Rounds(f, <<>>, step, N)
    <2> HIDE DEF step, N
    <2> DEFINE D == Seq(Ids)
    <2>1. <<>> \in D /\ step \in [D \X (Nat \ {0}) -> D]
      BY <1>3, <1>4
    <2> HIDE DEF D
    <2>2. \E f \in [0 .. N -> D] : Rounds(f, <<>>, step, N)
      BY <1>1, <2>1, LoopExists
    <2> QED BY <2>2 DEF D
  <1>6. IsLoop(f)
    <2> SUFFICES ASSUME NEW n \in 0 .. N
                 PROVE  f[n] = IF n = 0 THEN <<>>
                   ELSE LET d == definitions[n]
                        IN  IF GroupOf[d.id] = g /\ ~Contains(f[n - 1], d.id)
                              THEN Append(f[n - 1], d.id) ELSE f[n - 1]
      BY <1>5
    <2>1. CASE n = 0
      BY <1>5, <2>1 DEF Rounds
    <2>2. CASE n # 0
      <3> HIDE DEF N, next
      <3>1. n \in 1 .. N /\ n \in Nat \ {0} /\ n - 1 \in 0 .. N
        BY <1>1, <2>2
      <3>2. f[n - 1] \in Seq(Ids) /\ f[n] = step[<<f[n - 1], n>>]
        BY <1>5, <3>1 DEF Rounds
      <3>3. step[<<f[n - 1], n>>] = next(f[n - 1], n)
        BY <3>1, <3>2
      <3> QED BY <2>2, <3>1, <3>2, <3>3 DEF next
    <2> QED BY <2>1, <2>2
  <1>7. IsLoop(ids)
    BY <1>6
  <1>8. IdsInOrder(definitions, g) = ids[N]
    BY DEF IdsInOrder
  <1>9. ASSUME NEW h, IsLoop(h), NEW n \in 0 .. N PROVE h[n] \in Seq(Ids)
    <2> DEFINE T == {k \in 0 .. N : h[k] \notin Seq(Ids)}
    <2> SUFFICES ASSUME T # {} PROVE FALSE
      OBVIOUS
    <2>1. PICK k \in T : \A j \in T : k =< j
      <3>1. T \subseteq Nat
        BY <1>1
      <3> HIDE DEF T
      <3> QED BY <3>1, LeastNumber
    <2>2. k \in 0 .. N /\ h[k] \notin Seq(Ids)
      BY <2>1
    <2>3. CASE k = 0
      BY <1>9, <2>2, <2>3
    <2>4. CASE k # 0
      <3>1. k \in 1 .. N /\ k - 1 \in 0 .. N /\ ~(k =< k - 1)
        BY <1>1, <2>2, <2>4
      <3>2. h[k - 1] \in Seq(Ids)
        BY <2>1, <3>1
      <3>3. h[k] = next(h[k - 1], k)
        BY <1>9, <2>2, <2>4, <3>1
      <3> HIDE DEF next
      <3> QED BY <1>2, <2>2, <3>2, <3>3
    <2> QED BY <2>3, <2>4
  <1>10. N \in 0 .. N
    BY <1>1
  <1> HIDE DEF ids, IsLoop
  <1> QED BY <1>7, <1>8, <1>9, <1>10

LEMMA PlaceIsSelected ==
  ASSUME NEW s, NEW x, Len(s) \in Nat, Contains(s, x)
  PROVE  /\ SelectInSeq(s, LAMBDA y : y = x) \in 1 .. Len(s)
         /\ s[SelectInSeq(s, LAMBDA y : y = x)] = x
  <1> DEFINE I == {i \in 1 .. Len(s) : s[i] = x}
             m == CHOOSE a \in I : \A b \in I : a =< b
  <1>1. I # {} /\ I \subseteq Nat
    BY DEF Contains
  <1>2. SelectInSeq(s, LAMBDA y : y = x) = m
    BY <1>1 DEF SelectInSeq, Min
  <1>3. m \in I
    <2> HIDE DEF I
    <2>1. \E a \in I : \A b \in I : a =< b
      BY <1>1, LeastNumber
    <2> QED BY <2>1
  <1> QED BY <1>2, <1>3

\* All but the element erased are still there, each as often as before.
LEMMA ErasedFast ==
  ASSUME NEW S, NEW s \in Seq(S), NEW x, Contains(s, x), IsInjective(s)
  PROVE  /\ EraseFast(s, x) \in Seq(S)
         /\ IsInjective(EraseFast(s, x))
         /\ Range(EraseFast(s, x)) = Range(s) \ {x}
  <1> DEFINE i == SelectInSeq(s, LAMBDA y : y = x)
             N == Len(s)
             r == [n \in 1 .. N - 1 |-> IF n = i THEN s[N] ELSE s[n]]
  <1>1. N \in Nat /\ DOMAIN s = 1 .. N /\ \A n \in 1 .. N : s[n] \in S
    OBVIOUS
  <1>2. i \in 1 .. N /\ s[i] = x
    BY <1>1, PlaceIsSelected
  <1> HIDE DEF i
  <1>3. EraseFast(s, x) = r
    <2>1. EraseFast(s, x) = Front([s EXCEPT ![i] = s[N]])
      BY DEF EraseFast, i
    <2>2. [s EXCEPT ![i] = s[N]] \in Seq(S) /\ Len([s EXCEPT ![i] = s[N]]) = N
      BY <1>1, <1>2
    <2>3. Front([s EXCEPT ![i] = s[N]]) = [n \in 1 .. N - 1 |-> [s EXCEPT ![i] = s[N]][n]]
      BY <1>1, <2>2 DEF Front
    <2>4. \A n \in 1 .. N - 1 : [s EXCEPT ![i] = s[N]][n] = IF n = i THEN s[N] ELSE s[n]
      BY <1>1
    <2> QED BY <2>1, <2>3, <2>4
  <1> HIDE DEF N
  <1>4. N >= 1 /\ N \in 1 .. N /\ N - 1 \in Nat /\ \A n \in 1 .. N - 1 : n \in 1 .. N /\ n # N
    BY <1>1, <1>2
  <1>5. DOMAIN r = 1 .. N - 1 /\ \A n \in 1 .. N - 1 : r[n] = IF n = i THEN s[N] ELSE s[n]
    OBVIOUS
  <1>6. \A n \in 1 .. N - 1 : r[n] \in S
    BY <1>1, <1>4, <1>5
  <1>7. r \in Seq(S)
    BY <1>4, <1>6, <1>5
  <1> HIDE DEF r
  <1>8. IsInjective(r)
    <2> SUFFICES ASSUME NEW a \in 1 .. N - 1, NEW b \in 1 .. N - 1, r[a] = r[b] PROVE a = b
      BY <1>5 DEF IsInjective
    <2> QED BY <1>1, <1>4, <1>5 DEF IsInjective
  <1>9. \A n \in 1 .. N - 1 : r[n] \in Range(s) \ {x}
    <2> TAKE n \in 1 .. N - 1
    <2>1. n = i => N # i
      BY <1>4
    <2> QED BY <1>1, <1>2, <1>4, <1>5, <2>1 DEF IsInjective, Range
  <1>10. ASSUME NEW n \in 1 .. N, s[n] # x PROVE s[n] \in Range(r)
    <2>1. n # i
      BY <1>2, <1>10
    <2>2. CASE n = N
      <3>1. i \in 1 .. N - 1 /\ r[i] = s[n]
        BY <1>1, <1>2, <1>5, <2>1, <2>2
      <3> QED BY <1>5, <3>1 DEF Range
    <2>3. CASE n # N
      <3>1. n \in 1 .. N - 1
        BY <1>1, <2>3
      <3> QED BY <1>5, <2>1, <3>1 DEF Range
    <2> QED BY <2>2, <2>3
  <1>11. Range(r) = Range(s) \ {x}
    <2>1. Range(r) \subseteq Range(s) \ {x}
      BY <1>5, <1>9 DEF Range
    <2>2. Range(s) \ {x} \subseteq Range(r)
      BY <1>1, <1>10 DEF Range
    <2> QED BY <2>1, <2>2
  <1> QED BY <1>3, <1>7, <1>8, <1>11

-----------------------------------------------------------------------------
(* The inductive invariant: what the calls under way still have to load or *)
(* to unload is registered, and the one they are at is among it.           *)

FrameOf(f, registered) ==
  /\ f.kind \in {"load", "unload"} /\ f.holder \in Holders \cup {NoId}
  /\ f.ready \in Seq(registered)
  /\ f.next \in Nat /\ f.script \in BOOLEAN
  /\ f.kind = "load" => f.next >= 1
  /\ f.kind = "unload" => f.next =< Len(f.ready)
  /\ f.script => f.next >= 1

CallOf(registered) == {f \in Calls : FrameOf(f, registered)}

Listed(list, count) ==
  /\ \A i, j \in DOMAIN list : list[i].id = list[j].id => i = j
  /\ \A d \in Definitions : d \in Range(list) <=> count[d] > 0

Others ==
  /\ groupModules \in [Groups -> Seq(Ids)]
  /\ groupsLoaded \in Seq(Groups) /\ IsInjective(groupsLoaded)
  /\ clearing \in {"no", "yes", "done"}
  /\ explicit \in [Slots -> Ids \cup {NoId}]
  /\ hold \in [Holders -> SUBSET Definitions]
  /\ late \in BOOLEAN

Counted ==
  /\ database \subseteq Definitions
  /\ loaded \in Seq(database)
  /\ loadCount \in [Definitions -> Nat]
  /\ Listed(loaded, loadCount)

IInv == Others /\ Counted /\ stack \in Seq(CallOf(database))

LEMMA TypeFollows == ASSUME IInv PROVE TypeOK
  <1>1. loadCount \in [Definitions -> Int]
    BY DEF IInv, Counted
  <1>2. stack \in Seq(Calls)
    <2>1. CallOf(database) \subseteq Calls
      BY DEF CallOf
    <2> HIDE DEF CallOf
    <2> QED BY <2>1 DEF IInv
  <1> QED BY <1>1, <1>2 DEF IInv, Others, Counted, TypeOK

LEMMA InitCorrect == Init => IInv
  <1> SUFFICES ASSUME Init PROVE IInv
    OBVIOUS
  <1>1. Registered \in Seq(Definitions)
    BY ModuleConstants
  <1>2. database \subseteq Definitions
    BY <1>1 DEF Init, Range
  <1>3. groupModules \in [Groups -> Seq(Ids)]
    BY <1>1, IdsOfGroup DEF Init
  <1>4. Others
    <2>1. groupsLoaded \in Seq(Groups) /\ IsInjective(groupsLoaded)
      BY DEF Init, IsInjective
    <2>2. explicit \in [Slots -> Ids \cup {NoId}] /\ hold \in [Holders -> SUBSET Definitions]
      BY DEF Init
    <2>3. clearing \in {"no", "yes", "done"} /\ late \in BOOLEAN
      BY DEF Init
    <2> QED BY <1>3, <2>1, <2>2, <2>3 DEF Others
  <1>5. Counted
    BY <1>2 DEF Init, Counted, Listed, Range
  <1>6. stack \in Seq(CallOf(database))
    BY DEF Init
  <1> QED BY <1>4, <1>5, <1>6 DEF IInv

\* The innermost call and what it is at.
LEMMA TopFacts ==
  ASSUME IInv, stack # <<>>
  PROVE  /\ Top \in Calls /\ FrameOf(Top, database)
         /\ Len(stack) \in 1 .. Len(stack) /\ Len(stack) \in Nat
  <1> DEFINE S == CallOf(database)
  <1>1. stack \in Seq(S)
    BY DEF IInv
  <1> HIDE DEF S
  <1>2. Len(stack) \in Nat /\ Len(stack) \in 1 .. Len(stack) /\ stack[Len(stack)] \in S
    BY <1>1
  <1> QED BY <1>2 DEF S, CallOf, Top

LEMMA AtNext ==
  ASSUME IInv, stack # <<>>, Top.next \in 1 .. Len(Top.ready)
  PROVE  Top.ready[Top.next] \in database /\ Top.ready[Top.next] \in Definitions
  <1>1. Top.ready \in Seq(database)
    BY TopFacts DEF FrameOf
  <1> QED BY <1>1 DEF IInv, Counted

LEMMA TopWithCall ==
  ASSUME IInv, stack # <<>>, NEW next \in Nat, NEW script \in BOOLEAN,
         Top.kind = "load" => next >= 1,
         Top.kind = "unload" => next =< Len(Top.ready),
         script => next >= 1
  PROVE  TopWith(next, script) \in Seq(CallOf(database))
  <1> DEFINE f == [Top EXCEPT !.next = next, !.script = script]
             S == CallOf(database)
  <1>1. Top \in Calls /\ FrameOf(Top, database)
    BY TopFacts
  <1>2. FrameOf(f, database)
    BY <1>1 DEF FrameOf, Calls
  <1>3. f \in S
    <2>1. f \in Calls
      BY <1>1 DEF Calls
    <2> HIDE DEF f
    <2> QED BY <1>2, <2>1 DEF CallOf
  <1>4. stack \in Seq(S) /\ Len(stack) \in 1 .. Len(stack)
    BY TopFacts DEF IInv
  <1>5. TopWith(next, script) = [stack EXCEPT ![Len(stack)] = f]
    BY DEF TopWith, Top
  <1> HIDE DEF S, f
  <1> QED BY <1>3, <1>4, <1>5 DEF S

LEMMA LoadedAsOne ==
  ASSUME IInv, NEW id, LoadedAs(id) # {}
  PROVE  /\ (CHOOSE e \in LoadedAs(id) : TRUE) \in LoadedAs(id)
         /\ \A e \in LoadedAs(id) : /\ e \in Definitions /\ e \in database /\ e \in Range(loaded)
                                    /\ e.id = id /\ loadCount[e] > 0
  <1>1. (CHOOSE e \in LoadedAs(id) : TRUE) \in LoadedAs(id)
    OBVIOUS
  <1>2. ASSUME NEW e \in LoadedAs(id)
        PROVE  /\ e \in Definitions /\ e \in database /\ e \in Range(loaded)
               /\ e.id = id /\ loadCount[e] > 0
    <2>1. e \in Range(loaded) /\ e.id = id
      BY <1>2 DEF LoadedAs
    <2>2. e \in database /\ e \in Definitions
      BY <2>1 DEF Range, IInv, Counted
    <2> QED BY <2>1, <2>2 DEF IInv, Counted, Listed
  <1> QED BY <1>1, <1>2

LEMMA NewCall ==
  ASSUME IInv, NEW kind \in {"load", "unload"}, NEW holder \in Holders \cup {NoId},
         NEW ready \in Seq(database), NEW next \in Nat,
         kind = "load" => next >= 1, kind = "unload" => next =< Len(ready)
  PROVE  Append(stack, [kind |-> kind, holder |-> holder, ready |-> ready, next |-> next,
                        script |-> FALSE]) \in Seq(CallOf(database))
  <1> DEFINE f == [kind |-> kind, holder |-> holder, ready |-> ready, next |-> next,
                   script |-> FALSE]
             S == CallOf(database)
  <1>1. ready \in Seq(Definitions)
    BY DEF IInv, Counted
  <1>2. f \in Calls
    BY <1>1 DEF Calls
  <1>3. FrameOf(f, database)
    BY DEF FrameOf
  <1>4. f \in S
    <2> HIDE DEF f
    <2> QED BY <1>2, <1>3 DEF CallOf
  <1>5. stack \in Seq(S)
    BY DEF IInv
  <1> HIDE DEF f, S
  <1>6. Append(stack, f) \in Seq(S)
    BY <1>4, <1>5
  <1> QED BY <1>6 DEF f, S

LEMMA LoadCall ==
  ASSUME IInv, NEW holder \in Holders, NEW resolved, ReadyOf(resolved) \in Seq(database),
         Load(holder, resolved)
  PROVE  stack' \in Seq(CallOf(database))
  BY NewCall DEF Load

LEMMA UnloadCall ==
  ASSUME IInv, NEW holder \in Holders \cup {NoId}, NEW resolved,
         ReadyOf(resolved) \in Seq(database), Len(ReadyOf(resolved)) = Len(resolved.ready),
         Len(resolved.ready) \in Nat, Unload(holder, resolved)
  PROVE  stack' \in Seq(CallOf(database))
  <1>1. Len(resolved.ready) =< Len(ReadyOf(resolved))
    OBVIOUS
  <1> QED BY <1>1, NewCall DEF Unload

\* A step that leaves the counts alone.
LEMMA CountsKept ==
  ASSUME IInv, Others', stack' \in Seq(CallOf(database)),
         UNCHANGED <<database, loaded, loadCount>>
  PROVE  IInv'
  <1>1. Counted'
    BY DEF IInv, Counted, Listed
  <1>2. (stack \in Seq(CallOf(database)))'
    BY DEF CallOf, FrameOf
  <1> QED BY <1>1, <1>2 DEF IInv

LEMMA LoadGroupStep ==
  ASSUME IInv, NEW g \in Groups, LoadModuleGroup(g) PROVE IInv'
  <1>1. g \in Holders
    BY DEF Holders
  <1>2. stack' \in Seq(CallOf(database))
    BY <1>1, TypeFollows, GroupReady, LoadCall DEF LoadModuleGroup
  <1>3. groupsLoaded' \in Seq(Groups) /\ IsInjective(groupsLoaded')
    <2>1. groupsLoaded \in Seq(Groups) /\ groupsLoaded' = Append(groupsLoaded, g)
      BY DEF IInv, Others, LoadModuleGroup
    <2>2. \A n \in 1 .. Len(groupsLoaded) : groupsLoaded[n] # g
      BY DEF LoadModuleGroup, Contains
    <2>3. IsInjective(Append(groupsLoaded, g))
      BY <2>1, <2>2 DEF IInv, Others, IsInjective
    <2> QED BY <2>1, <2>3
  <1>4. Others'
    BY <1>3 DEF IInv, Others, LoadModuleGroup, databaseVars
  <1> QED BY <1>2, <1>4, CountsKept DEF LoadModuleGroup, databaseVars

LEMMA UnloadGroupStep ==
  ASSUME IInv, NEW g \in Groups, UnloadGroup(g) PROVE IInv'
  <1>1. g \in Holders \cup {NoId}
    BY DEF Holders
  <1>2. stack' \in Seq(CallOf(database))
    BY <1>1, TypeFollows, GroupReady, UnloadCall DEF UnloadGroup
  <1>3. groupsLoaded' \in Seq(Groups) /\ IsInjective(groupsLoaded')
    BY ErasedFast DEF IInv, Others, UnloadGroup
  <1>4. Others'
    BY <1>3 DEF IInv, Others, UnloadGroup, databaseVars
  <1> QED BY <1>2, <1>4, CountsKept DEF UnloadGroup, databaseVars

LEMMA LoadExplicitStep ==
  ASSUME IInv, NEW id \in Ids, NEW version \in Versions, LoadModuleExplicit(id, version)
  PROVE  IInv'
  <1> DEFINE free == {s \in Slots : explicit[s] = NoId /\ ~UnderWay(s)}
             slot == CHOOSE s \in free : \A t \in free : s =< t
             resolved == ModuleResolved(id, version)
  <1>1. slot \in Slots
    <2>1. free # {} /\ free \subseteq Nat /\ free \subseteq Slots
      BY DEF LoadModuleExplicit, Slots
    <2> HIDE DEF free
    <2>2. \E s \in free : \A t \in free : s =< t
      BY <2>1, LeastNumber
    <2> QED BY <2>1, <2>2
  <1>2. /\ Load(slot, resolved)
        /\ explicit' = [explicit EXCEPT ![slot] = id]
        /\ UNCHANGED <<databaseVars, groupsLoaded, loaded, loadCount, hold, clearing>>
    BY DEF LoadModuleExplicit
  <1> HIDE DEF slot
  <1>3. version \in Nat
    BY ModuleConstants DEF Versions
  <1>4. ReadyOf(resolved) \in Seq(database)
    BY <1>3, TypeFollows, ModuleReady
  <1>5. slot \in Holders
    BY <1>1 DEF Holders
  <1> HIDE DEF resolved
  <1>6. stack' \in Seq(CallOf(database))
    BY <1>2, <1>4, <1>5, LoadCall
  <1>7. Others'
    BY <1>2 DEF IInv, Others, databaseVars
  <1> QED BY <1>2, <1>6, <1>7, CountsKept DEF databaseVars

LEMMA UnloadExplicitStep ==
  ASSUME IInv, NEW id \in Ids, NEW holder \in Slots \cup {NoId}, UnloadExplicit(id, holder)
  PROVE  IInv'
  <1> DEFINE version == (CHOOSE d \in LoadedAs(id) : TRUE).version
             resolved == ModuleResolved(id, version)
  <1>1. version \in Nat
    BY LoadedAsOne, ModuleConstants DEF UnloadExplicit
  <1>2. /\ Unload(holder, resolved)
        /\ explicit' = [s \in Slots |-> IF s = holder THEN NoId ELSE explicit[s]]
        /\ UNCHANGED <<databaseVars, groupsLoaded, loaded, loadCount, hold, clearing>>
    BY DEF UnloadExplicit
  <1> HIDE DEF version
  <1>3. /\ ReadyOf(resolved) \in Seq(database)
        /\ Len(ReadyOf(resolved)) = Len(resolved.ready)
        /\ Len(resolved.ready) \in Nat
    BY <1>1, TypeFollows, ModuleReady
  <1>4. holder \in Holders \cup {NoId}
    BY DEF Holders
  <1> HIDE DEF resolved
  <1>5. stack' \in Seq(CallOf(database))
    BY <1>2, <1>3, <1>4, UnloadCall
  <1>6. Others'
    BY <1>2 DEF IInv, Others, databaseVars
  <1> QED BY <1>2, <1>5, <1>6, CountsKept DEF databaseVars

LEMMA LoadNextStep == ASSUME IInv, LoadNext PROVE IInv'
  <1> DEFINE d == Top.ready[Top.next]
             counted == IF LoadedAs(d.id) # {} THEN CHOOSE e \in LoadedAs(d.id) : TRUE ELSE d
  <1>1. /\ stack # <<>> /\ Top.kind = "load" /\ ~Top.script /\ Top.next =< Len(Top.ready)
        /\ loadCount' = [loadCount EXCEPT ![counted] = @ + 1]
        /\ hold' = [hold EXCEPT ![Top.holder] = @ \cup {counted}]
        /\ IF LoadedAs(d.id) # {}
             THEN loaded' = loaded /\ stack' = TopWith(Top.next + 1, FALSE)
             ELSE loaded' = Append(loaded, d) /\ stack' = TopWith(Top.next, TRUE)
        /\ UNCHANGED <<databaseVars, groupsLoaded, explicit, clearing>>
    BY DEF LoadNext
  <1>2. FrameOf(Top, database)
    BY <1>1, TopFacts
  <1>3. /\ Top.next \in Nat /\ Top.next >= 1 /\ Top.next + 1 \in Nat /\ Top.next + 1 >= 1
        /\ Top.kind # "unload"
    BY <1>1, <1>2 DEF FrameOf
  <1>4. Top.next \in 1 .. Len(Top.ready)
    <2>1. Len(Top.ready) \in Nat
      BY <1>2 DEF FrameOf
    <2> QED BY <1>1, <1>3, <2>1
  <1>5. d \in database /\ d \in Definitions
    BY <1>1, <1>4, AtNext
  <1> HIDE DEF d
  <1>6. counted \in Definitions
    BY <1>5, LoadedAsOne
  <1>7. (stack \in Seq(CallOf(database)))'
    <2>1. TopWith(Top.next + 1, FALSE) \in Seq(CallOf(database))
      BY <1>1, <1>3, TopWithCall
    <2>2. TopWith(Top.next, TRUE) \in Seq(CallOf(database))
      BY <1>1, <1>3, TopWithCall
    <2>3. stack' \in Seq(CallOf(database))
      BY <1>1, <2>1, <2>2
    <2> QED BY <1>1, <2>3 DEF CallOf, FrameOf, databaseVars
  <1>8. Others'
    <2>1. hold' \in [Holders -> SUBSET Definitions]
      BY <1>1, <1>6 DEF IInv, Others
    <2> QED BY <1>1, <2>1 DEF IInv, Others, databaseVars
  <1>9. Counted'
    <2>1. loadCount \in [Definitions -> Nat] /\ loaded \in Seq(database) /\ database' = database
      BY <1>1 DEF IInv, Counted, databaseVars
    <2>2. loadCount' \in [Definitions -> Nat]
      BY <1>1, <1>6, <2>1
    <2>3. \A e \in Definitions : loadCount'[e] = IF e = counted THEN loadCount[e] + 1 ELSE loadCount[e]
      BY <1>1, <2>1
    <2>4. \A e \in Definitions : loadCount'[e] > 0 <=> e = counted \/ loadCount[e] > 0
      BY <2>1, <2>3
    <2>5. CASE LoadedAs(d.id) # {}
      <3>1. counted \in Range(loaded)
        BY <2>5, LoadedAsOne
      <3>2. loaded' = loaded
        BY <1>1, <2>5
      <3> HIDE DEF counted
      <3>3. Listed(loaded', loadCount')
        BY <2>4, <3>1, <3>2 DEF IInv, Counted, Listed
      <3> QED BY <2>1, <2>2, <3>2, <3>3 DEF IInv, Counted
    <2>6. CASE LoadedAs(d.id) = {}
      <3>1. counted = d /\ loaded' = Append(loaded, d)
        BY <1>1, <2>6
      <3>2. \A n \in DOMAIN loaded : loaded[n].id # d.id
        BY <2>6 DEF LoadedAs, Range
      <3> DEFINE N == Len(loaded)
      <3>3. /\ N \in Nat /\ DOMAIN loaded = 1 .. N /\ DOMAIN loaded' = 1 .. N + 1
            /\ loaded' \in Seq(database) /\ loaded'[N + 1] = d
            /\ \A n \in 1 .. N : loaded'[n] = loaded[n]
        BY <1>5, <2>1, <3>1
      <3> HIDE DEF N, counted
      <3>4. \A n \in 1 .. N + 1 : n = N + 1 \/ n \in 1 .. N
        BY <3>3
      <3>5. N + 1 \in 1 .. N + 1 /\ \A n \in 1 .. N : n \in 1 .. N + 1
        BY <3>3
      <3>6. \A i, j \in DOMAIN loaded' : loaded'[i].id = loaded'[j].id => i = j
        BY <3>2, <3>3, <3>4 DEF IInv, Counted, Listed
      <3>7. \A e : e \in Range(loaded') <=> e = d \/ e \in Range(loaded)
        BY <3>3, <3>4, <3>5 DEF Range
      <3>8. Listed(loaded', loadCount')
        BY <2>4, <3>1, <3>6, <3>7 DEF IInv, Counted, Listed
      <3> QED BY <2>1, <2>2, <3>3, <3>8 DEF IInv, Counted
    <2> QED BY <2>5, <2>6
  <1> QED BY <1>7, <1>8, <1>9 DEF IInv

LEMMA UnloadNextStep == ASSUME IInv, UnloadNext PROVE IInv'
  <1> DEFINE d == Top.ready[Top.next]
             counted == CHOOSE e \in LoadedAs(d.id) : TRUE
  <1>1. /\ stack # <<>> /\ Top.kind = "unload" /\ ~Top.script /\ Top.next > 0
        /\ IF LoadedAs(d.id) = {}
             THEN stack' = TopWith(Top.next - 1, FALSE) /\ UNCHANGED <<loaded, loadCount, hold>>
             ELSE /\ loadCount' = [loadCount EXCEPT ![counted] = @ - 1]
                  /\ hold' = [h \in Holders |-> IF h = Top.holder THEN hold[h] \ {counted}
                                                                  ELSE hold[h]]
                  /\ IF loadCount'[counted] = 0
                       THEN loaded' = EraseFast(loaded, counted) /\ stack' = TopWith(Top.next, TRUE)
                       ELSE loaded' = loaded /\ stack' = TopWith(Top.next - 1, FALSE)
        /\ UNCHANGED <<databaseVars, groupsLoaded, explicit, clearing>>
    BY DEF UnloadNext
  <1>2. FrameOf(Top, database)
    BY <1>1, TopFacts
  <1>3. /\ Top.next \in Nat /\ Top.next >= 1 /\ Top.next - 1 \in Nat /\ Top.kind # "load"
        /\ Top.next =< Len(Top.ready) /\ Top.next - 1 =< Len(Top.ready)
    <2>1. Len(Top.ready) \in Nat
      BY <1>2 DEF FrameOf
    <2> QED BY <1>1, <1>2, <2>1 DEF FrameOf
  <1> HIDE DEF d
  <1>4. /\ TopWith(Top.next - 1, FALSE) \in Seq(CallOf(database))
        /\ TopWith(Top.next, TRUE) \in Seq(CallOf(database))
    <2>1. TopWith(Top.next - 1, FALSE) \in Seq(CallOf(database))
      BY <1>1, <1>3, TopWithCall
    <2>2. TopWith(Top.next, TRUE) \in Seq(CallOf(database))
      BY <1>1, <1>3, TopWithCall
    <2> QED BY <2>1, <2>2
  <1>5. CASE LoadedAs(d.id) = {}
    <2>1. /\ stack' = TopWith(Top.next - 1, FALSE)
          /\ UNCHANGED <<loaded, loadCount, hold>>
          /\ UNCHANGED <<databaseVars, groupsLoaded, explicit, clearing>>
      BY <1>1, <1>5
    <2>2. Others'
      BY <2>1 DEF IInv, Others, databaseVars
    <2>3. stack' \in Seq(CallOf(database))
      BY <1>4, <2>1
    <2> QED BY <2>1, <2>2, <2>3, CountsKept DEF databaseVars
  <1>6. CASE LoadedAs(d.id) # {}
    <2>1. /\ loadCount' = [loadCount EXCEPT ![counted] = @ - 1]
          /\ hold' = [h \in Holders |-> IF h = Top.holder THEN hold[h] \ {counted} ELSE hold[h]]
          /\ IF loadCount'[counted] = 0
               THEN loaded' = EraseFast(loaded, counted) /\ stack' = TopWith(Top.next, TRUE)
               ELSE loaded' = loaded /\ stack' = TopWith(Top.next - 1, FALSE)
          /\ UNCHANGED <<databaseVars, groupsLoaded, explicit, clearing>>
      BY <1>1, <1>6
    <2>2. counted \in Definitions /\ counted \in Range(loaded) /\ loadCount[counted] > 0
      BY <1>6, LoadedAsOne
    <2> HIDE DEF counted
    <2>3. (stack \in Seq(CallOf(database)))'
      <3>1. stack' \in Seq(CallOf(database))
        BY <1>4, <2>1
      <3> QED BY <2>1, <3>1 DEF CallOf, FrameOf, databaseVars
    <2>4. Others'
      <3>1. hold' \in [Holders -> SUBSET Definitions]
        BY <2>1 DEF IInv, Others
      <3> QED BY <2>1, <3>1 DEF IInv, Others, databaseVars
    <2>5. /\ loadCount \in [Definitions -> Nat] /\ loaded \in Seq(database)
          /\ database' = database /\ Listed(loaded, loadCount) /\ database \subseteq Definitions
      BY <2>1 DEF IInv, Counted, databaseVars
    <2>6. loadCount' \in [Definitions -> Nat]
      BY <2>1, <2>2, <2>5
    <2>7. /\ loadCount'[counted] = loadCount[counted] - 1
          /\ \A e \in Definitions : e # counted => loadCount'[e] = loadCount[e]
      BY <2>1, <2>2, <2>5
    <2>8. CASE loadCount'[counted] = 0
      <3>1. loaded' = EraseFast(loaded, counted)
        BY <2>1, <2>8
      <3>2. Contains(loaded, counted)
        BY <2>2, <2>5 DEF Contains, Range
      <3>3. IsInjective(loaded)
        BY <2>5 DEF IsInjective, Listed
      <3>4. /\ loaded' \in Seq(database) /\ IsInjective(loaded')
            /\ Range(loaded') = Range(loaded) \ {counted}
        BY <2>5, <3>1, <3>2, <3>3, ErasedFast
      <3>5. \A i, j \in DOMAIN loaded' : loaded'[i].id = loaded'[j].id => i = j
        <4> SUFFICES ASSUME NEW i \in DOMAIN loaded', NEW j \in DOMAIN loaded',
                            loaded'[i].id = loaded'[j].id
                     PROVE  i = j
          OBVIOUS
        <4>1. loaded'[i] \in Range(loaded) /\ loaded'[j] \in Range(loaded)
          BY <3>4 DEF Range
        <4>2. loaded'[i] = loaded'[j]
          BY <2>5, <4>1 DEF Listed, Range
        <4> QED BY <3>4, <4>2 DEF IsInjective
      <3>6. \A e \in Definitions : e \in Range(loaded') <=> loadCount'[e] > 0
        BY <2>5, <2>7, <2>8, <3>4 DEF Listed
      <3>7. Counted'
        BY <2>5, <2>6, <3>4, <3>5, <3>6 DEF Counted, Listed
      <3> QED BY <2>3, <2>4, <3>7 DEF IInv
    <2>9. CASE loadCount'[counted] # 0
      <3>1. loaded' = loaded
        BY <2>1, <2>9
      <3>2. loadCount'[counted] > 0
        BY <2>2, <2>6, <2>9
      <3>3. \A e \in Definitions : e \in Range(loaded') <=> loadCount'[e] > 0
        BY <2>2, <2>5, <2>7, <3>1, <3>2 DEF Listed
      <3>4. Counted'
        BY <2>5, <2>6, <3>1, <3>3 DEF Counted, Listed
      <3> QED BY <2>3, <2>4, <3>4 DEF IInv
    <2> QED BY <2>8, <2>9
  <1> QED BY <1>5, <1>6

LEMMA EndScriptStep == ASSUME IInv, EndScript PROVE IInv'
  <1> DEFINE next == IF Top.kind = "load" THEN Top.next + 1 ELSE Top.next - 1
  <1>1. /\ stack # <<>> /\ Top.script /\ stack' = TopWith(next, FALSE)
        /\ UNCHANGED <<databaseVars, loadVars, clearing>>
    BY DEF EndScript
  <1>2. FrameOf(Top, database)
    BY <1>1, TopFacts
  <1>3. Len(Top.ready) \in Nat
    BY <1>2 DEF FrameOf
  <1>4. /\ next \in Nat
        /\ Top.kind = "load" => next >= 1
        /\ Top.kind = "unload" => next =< Len(Top.ready)
    BY <1>1, <1>2, <1>3 DEF FrameOf
  <1> HIDE DEF next
  <1>5. stack' \in Seq(CallOf(database))
    BY <1>1, <1>4, TopWithCall
  <1>6. Others'
    BY <1>1 DEF IInv, Others, databaseVars, loadVars
  <1> QED BY <1>1, <1>5, <1>6, CountsKept DEF databaseVars, loadVars

LEMMA EndCallStep == ASSUME IInv, EndCall PROVE IInv'
  <1>1. stack # <<>> /\ stack' = Front(stack) /\ UNCHANGED <<databaseVars, loadVars, clearing>>
    BY DEF EndCall
  <1>2. stack' \in Seq(CallOf(database))
    <2> DEFINE S == CallOf(database)
    <2>1. stack \in Seq(S)
      BY DEF IInv
    <2> HIDE DEF S
    <2>2. Front(stack) \in Seq(S)
      BY <1>1, <2>1 DEF Front
    <2> QED BY <1>1, <2>2 DEF S
  <1>3. Others'
    BY <1>1 DEF IInv, Others, databaseVars, loadVars
  <1> QED BY <1>1, <1>2, <1>3, CountsKept DEF databaseVars, loadVars

\* With no call under way the database may change.
LEMMA DatabaseChanged ==
  ASSUME IInv, stack' = <<>>, Others', database' \subseteq Definitions, loaded \in Seq(database'),
         UNCHANGED <<loaded, loadCount>>
  PROVE  IInv'
  <1>1. Counted'
    BY DEF IInv, Counted, Listed
  <1>2. (stack \in Seq(CallOf(database)))'
    OBVIOUS
  <1> QED BY <1>1, <1>2 DEF IInv

LEMMA RegisterStep == ASSUME IInv, NEW d \in Definitions, RegisterModule(d) PROVE IInv'
  <1> DEFINE g == GroupOf[d.id]
  <1>1. /\ stack' = <<>> /\ database' = database \cup {d}
        /\ groupModules' = [groupModules EXCEPT ![g] = IF Contains(@, d.id) THEN @ ELSE Append(@, d.id)]
        /\ late' = (late \/ loaded # <<>>)
        /\ UNCHANGED <<loadVars, clearing>>
    BY DEF RegisterModule
  <1>2. database' \subseteq Definitions /\ loaded \in Seq(database')
    BY <1>1 DEF IInv, Counted
  <1>3. groupModules' \in [Groups -> Seq(Ids)]
    <2>1. groupModules \in [Groups -> Seq(Ids)] /\ d.id \in Ids
      BY DEF IInv, Others, Ids
    <2> HIDE DEF g
    <2>2. \A s \in Seq(Ids) : (IF Contains(s, d.id) THEN s ELSE Append(s, d.id)) \in Seq(Ids)
      BY <2>1
    <2> QED BY <1>1, <2>1, <2>2
  <1>4. late' \in BOOLEAN
    BY <1>1 DEF IInv, Others
  <1>5. Others'
    BY <1>1, <1>3, <1>4 DEF IInv, Others, loadVars
  <1> QED BY <1>1, <1>2, <1>5, DatabaseChanged DEF loadVars

LEMMA UnregisterStep == ASSUME IInv, NEW d \in Definitions, UnregisterModule(d) PROVE IInv'
  <1>1. /\ stack' = <<>> /\ loadCount[d] =< 0 /\ database' = database \ {d}
        /\ UNCHANGED <<groupModules, late, loadVars, clearing>>
    BY DEF UnregisterModule
  <1>2. loaded \in Seq(database')
    <2>1. d \notin Range(loaded)
      <3>1. loadCount[d] \in Nat
        BY DEF IInv, Counted
      <3>2. ~(loadCount[d] > 0)
        BY <1>1, <3>1
      <3> QED BY <3>2 DEF IInv, Counted, Listed
    <2>2. loaded \in Seq(database)
      BY DEF IInv, Counted
    <2>3. \A n \in 1 .. Len(loaded) : loaded[n] \in database \ {d}
      BY <2>1, <2>2 DEF Range
    <2> QED BY <1>1, <2>2, <2>3
  <1>3. database' \subseteq Definitions
    BY <1>1 DEF IInv, Counted
  <1>4. Others'
    BY <1>1 DEF IInv, Others, loadVars
  <1> QED BY <1>1, <1>2, <1>3, <1>4, DatabaseChanged DEF loadVars

LEMMA ClearStep == ASSUME IInv, ClearDatabase PROVE IInv'
  <1>1. stack' = <<>> /\ clearing' = "yes" /\ UNCHANGED <<databaseVars, loadVars>>
    BY DEF ClearDatabase
  <1>2. Others'
    BY <1>1 DEF IInv, Others, databaseVars, loadVars
  <1>3. database' \subseteq Definitions /\ loaded \in Seq(database')
    BY <1>1 DEF IInv, Counted, databaseVars
  <1> QED BY <1>1, <1>2, <1>3, DatabaseChanged DEF databaseVars, loadVars

LEMMA ClearNextStep == ASSUME IInv, ClearNext PROVE IInv'
  <1>1. CASE groupsLoaded # <<>> /\ UnloadGroup(Head(groupsLoaded))
    <2>1. Head(groupsLoaded) \in Groups
      BY <1>1 DEF IInv, Others
    <2> QED BY <1>1, <2>1, UnloadGroupStep
  <1>2. CASE loaded # <<>> /\ ClearModules
    <2>1. Head(loaded).id \in Ids
      BY <1>2 DEF IInv, Counted, Ids
    <2> QED BY <1>2, <2>1, UnloadExplicitStep DEF ClearModules
  <1> QED BY <1>1, <1>2 DEF ClearNext

LEMMA EndClearStep == ASSUME IInv, EndClear PROVE IInv'
  <1>1. /\ stack' = <<>> /\ clearing' = "done" /\ loaded = <<>>
        /\ database' = {} /\ groupModules' = [g \in Groups |-> <<>>]
        /\ UNCHANGED <<late, loadVars>>
    BY DEF EndClear
  <1>2. Others'
    BY <1>1 DEF IInv, Others, loadVars
  <1>3. database' \subseteq Definitions /\ loaded \in Seq(database')
    BY <1>1
  <1> QED BY <1>1, <1>2, <1>3, DatabaseChanged DEF loadVars

LEMMA StepCorrect == IInv /\ [Next]_vars => IInv'
  <1> SUFFICES ASSUME IInv, [Next]_vars PROVE IInv'
    OBVIOUS
  <1>1. CASE \E g \in Groups : LoadModuleGroup(g) \/ UnloadModuleGroup(g)
    BY <1>1, LoadGroupStep, UnloadGroupStep DEF UnloadModuleGroup
  <1>2. CASE \E id \in Ids : \E version \in Versions : LoadModuleExplicit(id, version)
    BY <1>2, LoadExplicitStep
  <1>3. ASSUME NEW s \in Slots, UnloadModuleExplicit(s) PROVE IInv'
    <2>1. explicit[s] \in Ids
      BY <1>3 DEF IInv, Others, UnloadModuleExplicit
    <2> QED BY <1>3, <2>1, UnloadExplicitStep DEF UnloadModuleExplicit
  <1>4. CASE CallNext
    BY <1>4, LoadNextStep, UnloadNextStep, EndScriptStep, EndCallStep DEF CallNext
  <1>5. CASE \E d \in Definitions : RegisterModule(d) \/ UnregisterModule(d)
    BY <1>5, RegisterStep, UnregisterStep
  <1>6. CASE ClearDatabase
    BY <1>6, ClearStep
  <1>7. CASE ClearNext
    BY <1>7, ClearNextStep
  <1>8. CASE EndClear
    BY <1>8, EndClearStep
  <1>9. CASE UNCHANGED vars
    <2>1. Others'
      BY <1>9 DEF IInv, Others, vars, databaseVars, loadVars
    <2>2. stack' \in Seq(CallOf(database))
      BY <1>9 DEF IInv, vars
    <2> QED BY <1>9, <2>1, <2>2, CountsKept DEF vars, databaseVars, loadVars
  <1> QED BY <1>1, <1>2, <1>3, <1>4, <1>5, <1>6, <1>7, <1>8, <1>9 DEF Next

\* One version of a module is loaded at a time, what is loaded is registered and
\* counted, and what is counted is loaded, through calls within calls, refused
\* calls, definitions that come and go and clearDatabase.
THEOREM LoadedCounted == Spec => []LoadedIsCounted
  <1>1. IInv => LoadedIsCounted
    <2> SUFFICES ASSUME IInv PROVE LoadedIsCounted
      OBVIOUS
    <2>1. TypeOK
      BY TypeFollows
    <2> QED BY <2>1 DEF IInv, Counted, Listed, LoadedIsCounted
  <1>2. Spec => []IInv
    BY InitCorrect, StepCorrect, PTL DEF Spec
  <1> QED BY <1>1, <1>2, PTL

-----------------------------------------------------------------------------
(* What is resolved: when nothing fails, exactly what can be reached from  *)
(* what is wanted, each module behind all that it depends on.              *)

DepIds(d) == {dep.id : dep \in Range(Dependencies[d])}

\* All versions of a module depend on the same modules.
VersionsAlike == \A d, e \in Definitions : d.id = e.id => DepIds(d) = DepIds(e)

Closed(S) == \A d \in Definitions : d.id \in S => DepIds(d) \subseteq S

Reachable(W) == {id \in Ids : \A S \in SUBSET Ids : W \subseteq S /\ Closed(S) => id \in S}

UpTo(ready, k) == {ready[n].id : n \in 1 .. k}

InOrder(ready) ==
  /\ \A i, j \in DOMAIN ready : ready[i].id = ready[j].id => i = j
  /\ \A n \in DOMAIN ready : DepIds(ready[n]) \subseteq UpTo(ready, n - 1)

IdsIn(queue) == UpTo(ReadyOf(queue), Len(queue.ready))

Ordered(queue) == InOrder(ReadyOf(queue)) /\ IdsIn(queue) \cap queue.resolving = {}

\* The queue was extended by what is wanted and what that depends on.
Extends(result, queue, wanted) ==
  result.ok =>
    /\ Ordered(result) /\ result.resolving = queue.resolving
    /\ IdsIn(queue) \cup wanted \subseteq IdsIn(result)
    /\ \A S \in SUBSET Ids : IdsIn(queue) \cup wanted \subseteq S /\ Closed(S) => IdsIn(result) \subseteq S

LEMMA InOrderAppend ==
  ASSUME NEW s \in Seq(Definitions), InOrder(s), NEW d \in Definitions,
         d.id \notin UpTo(s, Len(s)), DepIds(d) \subseteq UpTo(s, Len(s))
  PROVE  /\ InOrder(Append(s, d))
         /\ UpTo(Append(s, d), Len(s) + 1) = UpTo(s, Len(s)) \cup {d.id}
  <1> DEFINE N == Len(s)
             t == Append(s, d)
  <1>1. /\ N \in Nat /\ DOMAIN s = 1 .. N /\ DOMAIN t = 1 .. N + 1
        /\ t[N + 1] = d /\ \A n \in 1 .. N : t[n] = s[n]
    OBVIOUS
  <1> HIDE DEF N, t
  <1>2. /\ \A n \in 1 .. N + 1 : n = N + 1 \/ n \in 1 .. N
        /\ N + 1 \in 1 .. N + 1 /\ N + 1 \notin 1 .. N /\ N + 1 - 1 = N
        /\ \A n \in 1 .. N : n \in 1 .. N + 1 /\ \A k \in 1 .. n - 1 : k \in 1 .. N
    BY <1>1
  <1>3. \A n \in 1 .. N : s[n].id # d.id
    BY DEF UpTo, N
  <1>4. \A i, j \in DOMAIN t : t[i].id = t[j].id => i = j
    BY <1>1, <1>2, <1>3 DEF InOrder
  <1>5. \A n \in 1 .. N : UpTo(t, n - 1) = UpTo(s, n - 1)
    BY <1>1, <1>2 DEF UpTo
  <1>6. UpTo(t, N) = UpTo(s, N)
    BY <1>1 DEF UpTo
  <1>7. ASSUME NEW n \in DOMAIN t PROVE DepIds(t[n]) \subseteq UpTo(t, n - 1)
    <2>1. CASE n = N + 1
      BY <1>1, <1>2, <1>6, <2>1 DEF N
    <2>2. CASE n \in 1 .. N
      <3>1. DepIds(s[n]) \subseteq UpTo(s, n - 1)
        BY <1>1, <2>2 DEF InOrder
      <3> QED BY <1>1, <1>5, <2>2, <3>1
    <2> QED BY <1>1, <1>2, <2>1, <2>2
  <1>8. UpTo(t, N + 1) = UpTo(s, N) \cup {d.id}
    <2>1. ASSUME NEW x \in UpTo(t, N + 1) PROVE x \in UpTo(s, N) \cup {d.id}
      <3>1. PICK n \in 1 .. N + 1 : x = t[n].id
        BY DEF UpTo
      <3> QED BY <1>1, <1>2, <3>1 DEF UpTo
    <2>2. ASSUME NEW x \in UpTo(s, N) PROVE x \in UpTo(t, N + 1)
      <3>1. PICK n \in 1 .. N : x = s[n].id
        BY DEF UpTo
      <3> QED BY <1>1, <1>2, <3>1 DEF UpTo
    <2>3. d.id \in UpTo(t, N + 1)
      BY <1>1, <1>2 DEF UpTo
    <2> QED BY <2>1, <2>2, <2>3
  <1> QED BY <1>4, <1>7, <1>8 DEF InOrder, N, t

LEMMA InOrderReplace ==
  ASSUME VersionsAlike, NEW s \in Seq(Definitions), InOrder(s), NEW i \in 1 .. Len(s),
         NEW d \in Definitions, d.id = s[i].id
  PROVE  /\ InOrder([s EXCEPT ![i] = d])
         /\ UpTo([s EXCEPT ![i] = d], Len(s)) = UpTo(s, Len(s))
  <1> DEFINE N == Len(s)
             t == [s EXCEPT ![i] = d]
  <1>1. /\ N \in Nat /\ DOMAIN s = 1 .. N /\ DOMAIN t = 1 .. N
        /\ \A n \in 1 .. N : t[n] = IF n = i THEN d ELSE s[n]
    OBVIOUS
  <1>2. \A n \in 1 .. N : s[n] \in Definitions
    OBVIOUS
  <1> HIDE DEF N, t
  <1>3. \A n \in 1 .. N : t[n].id = s[n].id /\ t[n] \in Definitions
    BY <1>1, <1>2
  <1>4. \A n \in 1 .. N : DepIds(t[n]) = DepIds(s[n])
    BY <1>2, <1>3 DEF VersionsAlike
  <1>5. \A n \in 1 .. N : \A k \in 1 .. n - 1 : k \in 1 .. N
    BY <1>1
  <1>6. \A n \in 1 .. N : UpTo(t, n - 1) = UpTo(s, n - 1)
    BY <1>3, <1>5 DEF UpTo
  <1>7. UpTo(t, N) = UpTo(s, N)
    BY <1>3 DEF UpTo
  <1>8. InOrder(t)
    BY <1>1, <1>3, <1>4, <1>6 DEF InOrder
  <1> QED BY <1>7, <1>8 DEF N, t

LEMMA ReadyFacts ==
  ASSUME database \subseteq Definitions, NEW queue \in Queues
  PROVE  /\ ReadyOf(queue) \in Seq(Definitions) /\ Len(ReadyOf(queue)) = Len(queue.ready)
         /\ Len(queue.ready) \in Nat /\ DOMAIN queue.ready = 1 .. Len(queue.ready)
         /\ \A n \in 1 .. Len(queue.ready) : ReadyOf(queue)[n] = queue.ready[n].def
         /\ IdsIn(queue) \subseteq Ids
         /\ queue.resolving \in SUBSET Ids
  <1>1. ReadyOf(queue) \in Seq(database) /\ Len(ReadyOf(queue)) = Len(queue.ready) /\ Len(queue.ready) \in Nat
    BY ReadyIsRegistered
  <1>2. queue.ready \in Seq([def : database, strict : BOOLEAN]) /\ queue.resolving \in SUBSET Ids
    BY DEF Queues
  <1>3. DOMAIN queue.ready = 1 .. Len(queue.ready)
    BY <1>2
  <1>4. \A n \in 1 .. Len(queue.ready) : ReadyOf(queue)[n] = queue.ready[n].def
    BY <1>3 DEF ReadyOf
  <1>5. ReadyOf(queue) \in Seq(Definitions)
    BY <1>1
  <1>6. IdsIn(queue) \subseteq Ids
    <2>1. \A n \in 1 .. Len(queue.ready) : ReadyOf(queue)[n] \in Definitions
      BY <1>1, <1>5
    <2> QED BY <2>1 DEF IdsIn, UpTo, Ids
  <1> QED BY <1>1, <1>2, <1>3, <1>4, <1>5, <1>6

LEMMA ReplaceExtends ==
  ASSUME VersionsAlike, database \subseteq Definitions, NEW queue \in Queues, Ordered(queue),
         NEW i \in 1 .. Len(queue.ready), NEW d \in database, d.id = queue.ready[i].def.id
  PROVE  Extends([queue EXCEPT !.ready[i] = [def |-> d, strict |-> TRUE]], queue, {d.id})
  <1> DEFINE e == [def |-> d, strict |-> TRUE]
             result == [queue EXCEPT !.ready[i] = e]
             s == ReadyOf(queue)
             N == Len(queue.ready)
  <1>1. /\ s \in Seq(Definitions) /\ Len(s) = N /\ N \in Nat /\ DOMAIN queue.ready = 1 .. N
        /\ \A n \in 1 .. N : s[n] = queue.ready[n].def
    BY ReadyFacts
  <1>2. result.resolving = queue.resolving /\ result.ready = [queue.ready EXCEPT ![i] = e]
    BY DEF Queues
  <1>3. e.def = d
    OBVIOUS
  <1> HIDE DEF e, result
  <1>4. DOMAIN result.ready = 1 .. N /\ \A n \in 1 .. N : result.ready[n] = IF n = i THEN e ELSE queue.ready[n]
    BY <1>1, <1>2
  <1>5. Len(result.ready) = N
    BY <1>1, <1>2, <1>4
  <1>6. ReadyOf(result) = [s EXCEPT ![i] = d]
    <2>1. DOMAIN s = 1 .. N
      BY <1>1
    <2> QED BY <1>1, <1>3, <1>4, <2>1 DEF ReadyOf
  <1>7. d \in Definitions /\ d.id = s[i].id /\ InOrder(s) /\ i \in 1 .. Len(s)
    BY <1>1 DEF Ordered
  <1> HIDE DEF s, N
  <1>8. InOrder(ReadyOf(result)) /\ UpTo(ReadyOf(result), N) = UpTo(s, N)
    <2>1. s \in Seq(Definitions) /\ Len(s) = N
      BY <1>1
    <2>2. InOrder([s EXCEPT ![i] = d]) /\ UpTo([s EXCEPT ![i] = d], Len(s)) = UpTo(s, Len(s))
      BY <1>7, <2>1, InOrderReplace
    <2> QED BY <1>6, <2>1, <2>2
  <1>9. IdsIn(result) = IdsIn(queue)
    BY <1>5, <1>8 DEF IdsIn, s, N
  <1>10. d.id \in IdsIn(queue)
    BY <1>1, <1>7 DEF IdsIn, UpTo, s, N
  <1>11. Ordered(result)
    BY <1>2, <1>8, <1>9 DEF Ordered
  <1>12. Extends(result, queue, {d.id})
    BY <1>2, <1>9, <1>10, <1>11 DEF Extends
  <1> QED BY <1>12 DEF result, e

LEMMA AppendExtends ==
  ASSUME database \subseteq Definitions, NEW queue \in Queues, Ordered(queue), NEW d \in database,
         d.id \notin IdsIn(queue), d.id \notin queue.resolving,
         NEW behind \in Queues,
         Extends(behind, [queue EXCEPT !.resolving = @ \cup {d.id}], DepIds(d))
  PROVE  Extends([behind EXCEPT !.resolving = queue.resolving,
                    !.ready = Append(@, [def |-> d, strict |-> FALSE])], queue, {d.id})
  <1> DEFINE e == [def |-> d, strict |-> FALSE]
             inside == [queue EXCEPT !.resolving = @ \cup {d.id}]
             result == [behind EXCEPT !.resolving = queue.resolving, !.ready = Append(@, e)]
             s == ReadyOf(behind)
             N == Len(behind.ready)
  <1>1. /\ s \in Seq(Definitions) /\ Len(s) = N /\ N \in Nat /\ DOMAIN behind.ready = 1 .. N
        /\ \A n \in 1 .. N : s[n] = behind.ready[n].def
    BY ReadyFacts
  <1>2. /\ result.ok = behind.ok /\ result.resolving = queue.resolving
        /\ result.ready = Append(behind.ready, e)
    BY DEF Queues
  <1>3. inside.resolving = queue.resolving \cup {d.id} /\ inside.ready = queue.ready
    BY DEF Queues
  <1>4. e.def = d
    OBVIOUS
  <1>5. IdsIn(inside) = IdsIn(queue)
    BY <1>3 DEF IdsIn, ReadyOf
  <1>6. behind.ready \in Seq([def : database, strict : BOOLEAN])
    BY DEF Queues
  <1> HIDE DEF e, inside, result
  <1>7. SUFFICES ASSUME behind.ok PROVE Extends(result, queue, {d.id})
    BY <1>2 DEF Extends, result, e
  <1>8. /\ Ordered(behind) /\ behind.resolving = inside.resolving
        /\ IdsIn(inside) \cup DepIds(d) \subseteq IdsIn(behind)
        /\ \A S \in SUBSET Ids : IdsIn(inside) \cup DepIds(d) \subseteq S /\ Closed(S) =>
             IdsIn(behind) \subseteq S
    BY <1>7 DEF Extends, inside
  <1>9. /\ Len(result.ready) = N + 1 /\ DOMAIN result.ready = 1 .. N + 1
        /\ result.ready[N + 1] = e /\ \A n \in 1 .. N : result.ready[n] = behind.ready[n]
    <2> DEFINE b == behind.ready
    <2>1. b \in Seq([def : database, strict : BOOLEAN]) /\ result.ready = Append(b, e)
      BY <1>2, <1>6
    <2> HIDE DEF b
    <2>2. /\ Len(result.ready) = Len(b) + 1 /\ DOMAIN result.ready = 1 .. Len(b) + 1
          /\ result.ready[Len(b) + 1] = e /\ \A n \in 1 .. Len(b) : result.ready[n] = b[n]
      BY <2>1
    <2> QED BY <2>2 DEF b
  <1>10. ReadyOf(result) = Append(s, d)
    <2>1. ReadyOf(result) = [n \in 1 .. N + 1 |-> result.ready[n].def]
      BY <1>9 DEF ReadyOf
    <2>2. /\ Append(s, d) = [n \in 1 .. N + 1 |-> Append(s, d)[n]]
          /\ Append(s, d)[N + 1] = d /\ \A n \in 1 .. N : Append(s, d)[n] = s[n]
      <3>1. s \in Seq(Definitions) /\ Len(s) = N /\ d \in Definitions
        BY <1>1
      <3> HIDE DEF s, N
      <3> DEFINE t == Append(s, d)
      <3>2. Len(t) = N + 1 /\ t[N + 1] = d /\ \A n \in 1 .. N : t[n] = s[n]
        BY <3>1
      <3>3. t \in Seq(Definitions)
        BY <3>1
      <3> HIDE DEF t
      <3>4. t = [n \in 1 .. Len(t) |-> t[n]]
        BY <3>3
      <3> QED BY <3>2, <3>4 DEF t
    <2>3. \A n \in 1 .. N + 1 : n = N + 1 \/ n \in 1 .. N
      BY <1>1
    <2>4. \A n \in 1 .. N + 1 : result.ready[n].def = Append(s, d)[n]
      <3> HIDE DEF s, N
      <3> QED BY <1>1, <1>4, <1>9, <2>2, <2>3
    <2> HIDE DEF s, N
    <2> QED BY <2>1, <2>2, <2>4
  <1>11. d \in Definitions /\ InOrder(s) /\ d.id \notin UpTo(s, N) /\ DepIds(d) \subseteq UpTo(s, N)
    BY <1>3, <1>8 DEF Ordered, IdsIn
  <1> HIDE DEF s, N
  <1>12. InOrder(ReadyOf(result)) /\ UpTo(ReadyOf(result), N + 1) = UpTo(s, N) \cup {d.id}
    BY <1>1, <1>10, <1>11, InOrderAppend
  <1>13. IdsIn(result) = IdsIn(behind) \cup {d.id}
    BY <1>9, <1>12 DEF IdsIn, s, N
  <1>14. Ordered(result)
    <2>1. IdsIn(behind) \cap (queue.resolving \cup {d.id}) = {}
      BY <1>3, <1>8 DEF Ordered
    <2> QED BY <1>2, <1>12, <1>13, <2>1 DEF Ordered
  <1>15. ASSUME NEW S \in SUBSET Ids, IdsIn(queue) \cup {d.id} \subseteq S, Closed(S)
         PROVE  IdsIn(result) \subseteq S
    <2>1. DepIds(d) \subseteq S
      BY <1>11, <1>15 DEF Closed
    <2>2. IdsIn(behind) \subseteq S
      BY <1>5, <1>8, <1>15, <2>1
    <2> QED BY <1>13, <1>15, <2>2
  <1> QED BY <1>2, <1>5, <1>8, <1>13, <1>14, <1>15 DEF Extends

\* Resolving within a module, as long as more than m modules are being resolved.
InnerExtends(inner, m) ==
  \A queue \in Queues, d \in database :
    queue.ok /\ Ordered(queue) /\ Cardinality(queue.resolving) > m =>
      Extends(inner[<<queue, d>>], queue, DepIds(d))

LEMMA OneExtends ==
  ASSUME VersionsAlike, Enforce, database \subseteq Definitions,
         NEW inner \in Resolvers, NEW m \in Nat, InnerExtends(inner, m),
         NEW queue \in Queues, queue.ok, Ordered(queue), Cardinality(queue.resolving) >= m,
         NEW dep \in Wants
  PROVE  Extends(ResolveOne(inner, queue, dep), queue, {dep.id})
  <1> DEFINE at      == {n \in DOMAIN queue.ready : queue.ready[n].def.id = dep.id}
             first   == CHOOSE n \in at : TRUE
             wanted  == {d \in database : d.id = dep.id /\ dep.version \in {0, d.version}}
             missing == IF Enforce THEN Failed(queue) ELSE queue
             inside  == [queue EXCEPT !.resolving = @ \cup {dep.id}]
             behind  == inner[<<inside, Latest(wanted)>>]
             N       == Len(queue.ready)
             result  == ResolveOne(inner, queue, dep)
  <1>1. /\ N \in Nat /\ DOMAIN queue.ready = 1 .. N
        /\ \A n \in 1 .. N : ReadyOf(queue)[n] = queue.ready[n].def
        /\ queue.resolving \in SUBSET Ids /\ dep.id \in Ids
    BY ReadyFacts DEF Wants
  <1>2. wanted # {} => Latest(wanted) \in database /\ Latest(wanted).id = dep.id
    <2>1. wanted \subseteq Definitions
      OBVIOUS
    <2> HIDE DEF wanted
    <2>2. wanted # {} => Latest(wanted) \in wanted
      BY <2>1, LatestIsOne
    <2> QED BY <2>2 DEF wanted
  <1>3. Extends(Failed(queue), queue, {dep.id})
    <2>1. Failed(queue).ok = FALSE
      BY DEF Failed, Queues
    <2> QED BY <2>1 DEF Extends
  <1>4. at = {} <=> dep.id \notin IdsIn(queue)
    BY <1>1 DEF IdsIn, UpTo
  <1>5. result = IF at # {}
        THEN IF dep.version \in {0, queue.ready[first].def.version} THEN queue
             ELSE IF queue.ready[first].strict THEN Failed(queue)
             ELSE IF wanted = {} THEN missing
             ELSE [queue EXCEPT !.ready[first] = [def |-> Latest(wanted), strict |-> TRUE]]
        ELSE IF dep.id \in queue.resolving THEN Failed(queue)
             ELSE IF wanted = {} THEN missing
             ELSE [behind EXCEPT !.resolving = queue.resolving,
                     !.ready = Append(@, [def |-> Latest(wanted), strict |-> FALSE])]
    BY DEF ResolveOne
  <1>6. missing = Failed(queue)
    OBVIOUS
  <1> HIDE DEF wanted, missing, result
  <1>7. ASSUME at # {} PROVE Extends(queue, queue, {dep.id})
    BY <1>4, <1>7 DEF Extends
  <1>8. ASSUME at # {}, wanted # {}
        PROVE  Extends([queue EXCEPT !.ready[first] = [def |-> Latest(wanted), strict |-> TRUE]],
                       queue, {dep.id})
    <2>1. first \in 1 .. N /\ queue.ready[first].def.id = dep.id
      BY <1>1, <1>8
    <2> HIDE DEF first
    <2>2. Extends([queue EXCEPT !.ready[first] = [def |-> Latest(wanted), strict |-> TRUE]],
                  queue, {Latest(wanted).id})
      BY <1>2, <1>8, <2>1, ReplaceExtends
    <2> QED BY <1>2, <1>8, <2>2
  <1>9. ASSUME at = {}, dep.id \notin queue.resolving, wanted # {}
        PROVE  Extends([behind EXCEPT !.resolving = queue.resolving,
                          !.ready = Append(@, [def |-> Latest(wanted), strict |-> FALSE])],
                       queue, {dep.id})
    <2> DEFINE d == Latest(wanted)
    <2>1. d \in database /\ d.id = dep.id
      BY <1>2, <1>9
    <2>2. /\ inside.ok = queue.ok /\ inside.ready = queue.ready
          /\ inside.resolving = queue.resolving \cup {dep.id}
      BY DEF Queues
    <2>3. inside \in Queues
      BY <1>1 DEF Queues
    <2> HIDE DEF inside, d
    <2>4. Ordered(inside)
      <3>1. ReadyOf(inside) = ReadyOf(queue) /\ IdsIn(inside) = IdsIn(queue)
        BY <2>2 DEF ReadyOf, IdsIn
      <3> QED BY <1>4, <1>9, <2>2, <3>1 DEF Ordered
    <2>5. Cardinality(inside.resolving) > m
      <3>1. IsFiniteSet(queue.resolving)
        BY <1>1, IdsFinite, FS_Subset
      <3>2. Cardinality(inside.resolving) = Cardinality(queue.resolving) + 1
        BY <1>9, <2>2, <3>1, FS_AddElement, Zenon
      <3>3. Cardinality(queue.resolving) \in Nat
        BY <3>1, FS_CardinalityType
      <3> QED BY <3>2, <3>3
    <2>6. behind \in Queues
      BY <2>1, <2>3 DEF Resolvers, d
    <2>7. Extends(behind, inside, DepIds(d))
      BY <2>1, <2>2, <2>3, <2>4, <2>5 DEF InnerExtends, d
    <2> HIDE DEF behind
    <2>8. inside = [queue EXCEPT !.resolving = @ \cup {d.id}]
      BY <2>1 DEF inside
    <2>9. Extends(behind, [queue EXCEPT !.resolving = @ \cup {d.id}], DepIds(d))
      BY <2>7, <2>8
    <2>10. d.id \notin IdsIn(queue) /\ d.id \notin queue.resolving
      BY <1>4, <1>9, <2>1
    <2>11. Extends([behind EXCEPT !.resolving = queue.resolving,
                      !.ready = Append(@, [def |-> d, strict |-> FALSE])], queue, {d.id})
      BY <2>1, <2>6, <2>9, <2>10, AppendExtends
    <2> QED BY <2>1, <2>11 DEF d
  <1> HIDE DEF at, first, behind
  <1> QED BY <1>3, <1>5, <1>6, <1>7, <1>8, <1>9 DEF result

LEMMA ExtendsTwice ==
  ASSUME NEW r, NEW q, NEW p, NEW V, NEW W, q.ok, Extends(q, p, V), Extends(r, q, W)
  PROVE  Extends(r, p, V \cup W)
  <1> SUFFICES ASSUME r.ok PROVE Extends(r, p, V \cup W)
    BY DEF Extends
  <1>1. /\ q.resolving = p.resolving /\ IdsIn(p) \cup V \subseteq IdsIn(q)
        /\ \A S \in SUBSET Ids : IdsIn(p) \cup V \subseteq S /\ Closed(S) => IdsIn(q) \subseteq S
    BY DEF Extends
  <1>2. /\ Ordered(r) /\ r.resolving = q.resolving /\ IdsIn(q) \cup W \subseteq IdsIn(r)
        /\ \A S \in SUBSET Ids : IdsIn(q) \cup W \subseteq S /\ Closed(S) => IdsIn(r) \subseteq S
    BY DEF Extends
  <1>3. ASSUME NEW S \in SUBSET Ids, IdsIn(p) \cup (V \cup W) \subseteq S, Closed(S)
        PROVE  IdsIn(r) \subseteq S
    <2>1. IdsIn(q) \subseteq S
      BY <1>1, <1>3
    <2> QED BY <1>2, <1>3, <2>1
  <1> QED BY <1>1, <1>2, <1>3 DEF Extends

LEMMA AllExtends ==
  ASSUME VersionsAlike, Enforce, database \subseteq Definitions,
         NEW inner \in Resolvers, NEW m \in Nat, InnerExtends(inner, m),
         NEW queue \in Queues, queue.ok, Ordered(queue), Cardinality(queue.resolving) >= m,
         NEW deps \in Seq(Wants)
  PROVE  Extends(ResolveAll(inner, queue, deps), queue, {deps[n].id : n \in DOMAIN deps})
  <1> DEFINE N == Len(deps)
             ids(n) == {deps[i].id : i \in 1 .. n}
             IsLoop(f) == f = [n \in 0 .. N |->
                                 IF n = 0 THEN queue
                                 ELSE IF f[n - 1].ok THEN ResolveOne(inner, f[n - 1], deps[n])
                                                     ELSE f[n - 1]]
  <1>1. N \in Nat /\ DOMAIN deps = 1 .. N /\ \A n \in 1 .. N : deps[n] \in Wants
    OBVIOUS
  <1>2. PICK g \in [0 .. N -> Queues] : IsLoop(g) /\ ResolveAll(inner, queue, deps) = g[N]
    BY LoopOfAll
  <1>3. ASSUME NEW n \in 0 .. N PROVE Extends(g[n], queue, ids(n))
    <2> DEFINE T == {k \in 0 .. N : ~Extends(g[k], queue, ids(k))}
    <2> SUFFICES ASSUME T # {} PROVE FALSE
      OBVIOUS
    <2>1. PICK k \in T : \A j \in T : k =< j
      <3>1. T \subseteq Nat
        BY <1>1
      <3> HIDE DEF T
      <3> QED BY <3>1, LeastNumber
    <2>2. k \in 0 .. N /\ ~Extends(g[k], queue, ids(k))
      BY <2>1
    <2>3. g[k] = IF k = 0 THEN queue
                 ELSE IF g[k - 1].ok THEN ResolveOne(inner, g[k - 1], deps[k]) ELSE g[k - 1]
      <3> HIDE DEF N
      <3> QED BY <1>2, <2>2
    <2>4. CASE k = 0
      <3>1. ids(k) = {} /\ g[k] = queue
        BY <2>3, <2>4
      <3>2. Extends(queue, queue, {})
        BY DEF Extends
      <3> QED BY <2>2, <3>1, <3>2
    <2>5. CASE k # 0
      <3>1. k \in 1 .. N /\ k - 1 \in 0 .. N /\ ~(k =< k - 1)
        BY <1>1, <2>2, <2>5
      <3>2. Extends(g[k - 1], queue, ids(k - 1)) /\ g[k - 1] \in Queues
        BY <1>2, <2>1, <3>1
      <3>3. CASE ~g[k - 1].ok
        <4>1. g[k] = g[k - 1]
          BY <2>3, <2>5, <3>3
        <4> QED BY <2>2, <3>3, <4>1 DEF Extends
      <3>4. CASE g[k - 1].ok
        <4> DEFINE q == g[k - 1]
        <4>1. Ordered(q) /\ q.resolving = queue.resolving
          BY <3>2, <3>4 DEF Extends
        <4>2. q \in Queues /\ q.ok /\ deps[k] \in Wants /\ Cardinality(q.resolving) >= m
          BY <1>1, <3>1, <3>2, <3>4, <4>1
        <4>3. g[k] = ResolveOne(inner, q, deps[k])
          BY <2>3, <2>5, <3>4
        <4> HIDE DEF q
        <4>4. Extends(g[k], q, {deps[k].id})
          BY <4>1, <4>2, <4>3, OneExtends
        <4>5. Extends(g[k], queue, ids(k - 1) \cup {deps[k].id})
          <5> HIDE DEF ids
          <5> QED BY <3>2, <4>2, <4>4, ExtendsTwice DEF q
        <4>6. ids(k - 1) \cup {deps[k].id} = ids(k)
          <5>1. \A i : i \in 1 .. k <=> i \in 1 .. k - 1 \/ i = k
            BY <3>1
          <5> QED BY <5>1
        <4> QED BY <2>2, <4>5, <4>6
      <3> QED BY <3>3, <3>4
    <2> QED BY <2>4, <2>5
  <1>4. Extends(g[N], queue, ids(N))
    BY <1>1, <1>3
  <1> QED BY <1>1, <1>2, <1>4

\* A module that depends on itself is found out before the depth is used up.
LEMMA DepthExtends ==
  ASSUME VersionsAlike, Enforce, database \subseteq Definitions,
         NEW g \in [0 .. Cardinality(Ids) -> Resolvers],
         g = [n \in 0 .. Cardinality(Ids) |->
                [p \in Queues \X database |->
                   IF n = 0 THEN p[1] ELSE ResolveAll(g[n - 1], p[1], Dependencies[p[2]])]]
  PROVE  InnerExtends(g[Cardinality(Ids)], 0)
  <1> DEFINE N == Cardinality(Ids)
             IsLoop == g = [n \in 0 .. N |->
                [p \in Queues \X database |->
                   IF n = 0 THEN p[1] ELSE ResolveAll(g[n - 1], p[1], Dependencies[p[2]])]]
             T == {n \in 0 .. N : ~InnerExtends(g[n], N - n)}
  <1>1. N \in Nat /\ IsFiniteSet(Ids)
    BY IdsFinite
  <1>2. ASSUME T # {} PROVE FALSE
    <2>1. PICK k \in T : \A j \in T : k =< j
      <3>1. T \subseteq Nat
        BY <1>1
      <3> HIDE DEF T
      <3> QED BY <1>2, <3>1, LeastNumber
    <2>2. k \in 0 .. N /\ ~InnerExtends(g[k], N - k)
      BY <2>1
    <2>3. PICK queue \in Queues, d \in database :
            /\ queue.ok /\ Ordered(queue) /\ Cardinality(queue.resolving) > N - k
            /\ ~Extends(g[k][<<queue, d>>], queue, DepIds(d))
      BY <2>2 DEF InnerExtends
    <2>4. queue.resolving \in SUBSET Ids
      BY DEF Queues
    <2>5. Cardinality(queue.resolving) \in Nat /\ Cardinality(queue.resolving) =< N
      <3>1. IsFiniteSet(queue.resolving)
        BY <1>1, <2>4, FS_Subset
      <3> QED BY <1>1, <2>4, <3>1, FS_Subset, FS_CardinalityType
    <2>6. k # 0
      BY <1>1, <2>3, <2>5
    <2>7. k - 1 \in 0 .. N /\ ~(k =< k - 1) /\ N - (k - 1) \in Nat /\ k \in Nat
      BY <1>1, <2>2, <2>6
    <2>8. InnerExtends(g[k - 1], N - (k - 1)) /\ g[k - 1] \in Resolvers
      BY <2>1, <2>7
    <2>9. Cardinality(queue.resolving) >= N - (k - 1)
      BY <1>1, <2>2, <2>3, <2>5
    <2>10. Dependencies[d] \in Seq(Wants)
      BY ModuleConstants
    <2>11. g[k][<<queue, d>>] = ResolveAll(g[k - 1], queue, Dependencies[d])
      <3>1. IsLoop
        OBVIOUS
      <3> HIDE DEF N
      <3>2. g[k] = [p \in Queues \X database |->
                      IF k = 0 THEN p[1] ELSE ResolveAll(g[k - 1], p[1], Dependencies[p[2]])]
        BY <2>2, <3>1
      <3> QED BY <2>6, <3>2
    <2> DEFINE inner == g[k - 1]
               m == N - (k - 1)
               deps == Dependencies[d]
    <2>12. /\ inner \in Resolvers /\ m \in Nat /\ InnerExtends(inner, m)
           /\ Cardinality(queue.resolving) >= m /\ deps \in Seq(Wants)
      BY <2>7, <2>8, <2>9, <2>10
    <2> HIDE DEF inner, m, deps
    <2>13. Extends(ResolveAll(inner, queue, deps), queue, {deps[n].id : n \in DOMAIN deps})
      BY <2>3, <2>12, AllExtends
    <2>14. DepIds(d) = {deps[n].id : n \in DOMAIN deps}
      BY DEF DepIds, Range, deps
    <2> QED BY <2>3, <2>11, <2>13, <2>14 DEF inner, deps
  <1>3. N \in 0 .. N /\ N - N = 0
    BY <1>1
  <1> HIDE DEF N
  <1>4. InnerExtends(g[N], N - N)
    BY <1>2, <1>3
  <1> QED BY <1>3, <1>4 DEF N

\* What is resolved is what is reachable, in order.
LEMMA ResolvedReachable ==
  ASSUME VersionsAlike, Enforce, database \subseteq Definitions, NEW wants \in Seq(Wants),
         Resolved(wants).ok
  PROVE  /\ InOrder(ReadyOf(Resolved(wants)))
         /\ UpTo(ReadyOf(Resolved(wants)), Len(Resolved(wants).ready))
              = Reachable({wants[n].id : n \in DOMAIN wants})
  <1> DEFINE N == Cardinality(Ids)
             r == Resolved(wants)
             W == {wants[n].id : n \in DOMAIN wants}
  <1>1. PICK g \in [0 .. N -> Resolvers] :
          /\ g = [n \in 0 .. N |->
                [p \in Queues \X database |->
                   IF n = 0 THEN p[1] ELSE ResolveAll(g[n - 1], p[1], Dependencies[p[2]])]]
          /\ \A w : Resolved(w) = ResolveAll(g[N], Nothing, w)
    BY LoopOfResolved
  <1>2. InnerExtends(g[N], 0)
    BY <1>1, DepthExtends
  <1>3. g[N] \in Resolvers
    BY IdsFinite
  <1>4. r = ResolveAll(g[N], Nothing, wants)
    BY <1>1
  <1>5. Nothing \in Queues /\ Nothing.ok /\ Nothing.resolving = {} /\ Nothing.ready = <<>>
    BY DEF Nothing, Queues
  <1>6. ReadyOf(Nothing) = <<>> /\ IdsIn(Nothing) = {}
    BY <1>5 DEF ReadyOf, IdsIn, UpTo
  <1>7. Ordered(Nothing)
    BY <1>5, <1>6 DEF Ordered, InOrder
  <1>8. Cardinality(Nothing.resolving) >= 0
    BY <1>5, FS_EmptySet
  <1> HIDE DEF N, W
  <1>9. Extends(r, Nothing, W)
    <2> DEFINE inner == g[N]
    <2>1. inner \in Resolvers /\ InnerExtends(inner, 0) /\ r = ResolveAll(inner, Nothing, wants)
      BY <1>2, <1>3, <1>4
    <2> HIDE DEF inner, r
    <2>2. Extends(ResolveAll(inner, Nothing, wants), Nothing, {wants[n].id : n \in DOMAIN wants})
      BY <1>5, <1>7, <1>8, <2>1, AllExtends
    <2> QED BY <2>1, <2>2 DEF W
  <1>10. r \in Queues
    BY ResolvedIsQueue
  <1> HIDE DEF r
  <1>11. r.ok
    BY DEF r
  <1>12. /\ Ordered(r) /\ W \subseteq IdsIn(r)
         /\ \A S \in SUBSET Ids : W \subseteq S /\ Closed(S) => IdsIn(r) \subseteq S
    BY <1>6, <1>9, <1>11 DEF Extends
  <1> DEFINE M == Len(r.ready)
             s == ReadyOf(r)
  <1>13. IdsIn(r) \in SUBSET Ids /\ M \in Nat /\ DOMAIN s = 1 .. M /\ \A n \in 1 .. M : s[n] \in Definitions
    <2>1. s \in Seq(Definitions) /\ Len(s) = M /\ M \in Nat /\ IdsIn(r) \subseteq Ids
      BY <1>10, ReadyFacts
    <2> HIDE DEF s, M
    <2> QED BY <2>1
  <1> HIDE DEF M, s
  <1>14. Closed(IdsIn(r))
    <2> SUFFICES ASSUME NEW d \in Definitions, d.id \in IdsIn(r) PROVE DepIds(d) \subseteq IdsIn(r)
      BY DEF Closed
    <2>1. PICK n \in 1 .. M : d.id = s[n].id
      BY DEF IdsIn, UpTo, M, s
    <2>2. DepIds(d) = DepIds(s[n])
      BY <1>13, <2>1 DEF VersionsAlike
    <2>3. DepIds(s[n]) \subseteq UpTo(s, n - 1)
      BY <1>12, <1>13 DEF Ordered, InOrder, s
    <2>4. \A k \in 1 .. n - 1 : k \in 1 .. M
      BY <1>13
    <2> QED BY <2>2, <2>3, <2>4 DEF UpTo, IdsIn, M, s
  <1>15. IdsIn(r) = Reachable(W)
    BY <1>12, <1>13, <1>14 DEF Reachable
  <1> QED BY <1>12, <1>15 DEF Ordered, IdsIn, r, W

LEMMA GroupNeeds ==
  ASSUME VersionsAlike, Enforce, TypeOK, NEW g \in Groups, Compatible(GroupResolved(g))
  PROVE  /\ InOrder(ReadyOf(GroupResolved(g)))
         /\ UpTo(ReadyOf(GroupResolved(g)), Len(GroupResolved(g).ready))
              = Reachable(Range(groupModules[g]))
  <1> DEFINE wants == [n \in DOMAIN groupModules[g] |-> Wanted(groupModules[g][n], 0)]
  <1>1. groupModules[g] \in Seq(Ids)
    BY DEF TypeOK
  <1>2. wants \in Seq(Wants)
    <2>1. \A n \in 1 .. Len(groupModules[g]) : Wanted(groupModules[g][n], 0) \in Wants
      BY <1>1 DEF Wanted, Wants
    <2> QED BY <1>1, <2>1
  <1>3. {wants[n].id : n \in DOMAIN wants} = Range(groupModules[g])
    <2>1. DOMAIN wants = DOMAIN groupModules[g]
      OBVIOUS
    <2>2. \A n \in DOMAIN groupModules[g] : wants[n].id = groupModules[g][n]
      BY DEF Wanted
    <2> QED BY <2>1, <2>2 DEF Range
  <1>4. GroupResolved(g) = Resolved(wants)
    BY DEF GroupResolved
  <1>5. Resolved(wants).ok
    BY <1>4 DEF Compatible
  <1> HIDE DEF wants
  <1>6. /\ InOrder(ReadyOf(Resolved(wants)))
        /\ UpTo(ReadyOf(Resolved(wants)), Len(Resolved(wants).ready))
             = Reachable({wants[n].id : n \in DOMAIN wants})
    BY <1>2, <1>5, ResolvedReachable DEF TypeOK
  <1> QED BY <1>3, <1>4, <1>6

LEMMA ModuleNeeds ==
  ASSUME VersionsAlike, Enforce, TypeOK, NEW id \in Ids, NEW version \in Nat,
         Compatible(ModuleResolved(id, version))
  PROVE  /\ InOrder(ReadyOf(ModuleResolved(id, version)))
         /\ UpTo(ReadyOf(ModuleResolved(id, version)), Len(ModuleResolved(id, version).ready))
              = Reachable({id})
  <1> DEFINE wants == <<Wanted(id, version)>>
  <1>1. wants \in Seq(Wants)
    BY DEF Wanted, Wants
  <1>2. {wants[n].id : n \in DOMAIN wants} = {id}
    BY DEF Wanted
  <1>3. ModuleResolved(id, version) = Resolved(wants)
    BY DEF ModuleResolved
  <1>4. Resolved(wants).ok
    BY <1>3 DEF Compatible
  <1> HIDE DEF wants
  <1>5. /\ InOrder(ReadyOf(Resolved(wants)))
        /\ UpTo(ReadyOf(Resolved(wants)), Len(Resolved(wants).ready))
             = Reachable({wants[n].id : n \in DOMAIN wants})
    BY <1>1, <1>4, ResolvedReachable DEF TypeOK
  <1> QED BY <1>2, <1>3, <1>5

-----------------------------------------------------------------------------
(* What the holders hold.                                                  *)

IdsHeld(S) == {d.id : d \in S}

HeldBy(d, held) == {h \in Holders : d \in held[h]}

CountsMatch(count, held) ==
  \A d \in Definitions : IsFiniteSet(HeldBy(d, held)) /\ count[d] = Cardinality(HeldBy(d, held))

\* How many of its modules a call has counted, or has still to give back.
Done(f) == IF f.script = (f.kind = "load") THEN f.next ELSE f.next - 1

FrameHolds(f, held, on, want) ==
  /\ f.holder \in Holders
  /\ InOrder(f.ready)
  /\ Done(f) \in 0 .. Len(f.ready)
  /\ IdsHeld(held[f.holder]) = UpTo(f.ready, Done(f))
  /\ f.kind = "load" => f.holder \in on /\ UpTo(f.ready, Len(f.ready)) = Reachable(want[f.holder])
  /\ f.kind = "unload" => f.holder \notin on

FramesHold(frames, held, on, want) ==
  /\ \A i, j \in DOMAIN frames : frames[i].holder = frames[j].holder => i = j
  /\ \A n \in DOMAIN frames : FrameHolds(frames[n], held, on, want)
  /\ \A n \in DOMAIN frames : n < Len(frames) => frames[n].kind = "load"

IdleHolds(frames, held, on, want) ==
  \A h \in Holders : (\A n \in DOMAIN frames : frames[n].holder # h) =>
    /\ h \in on => IdsHeld(held[h]) = Reachable(want[h])
    /\ h \notin on => held[h] = {}

\* The holders that are loaded, and the modules they were loaded for.
On == {h \in Holders : IF h \in Groups THEN Contains(groupsLoaded, h) ELSE explicit[h] # NoId}
Want == [h \in Holders |-> IF h \in Groups THEN Range(groupModules[h]) ELSE {explicit[h]}]

Held(count, frames, held, on, want) ==
  CountsMatch(count, held) /\ FramesHold(frames, held, on, want) /\ IdleHolds(frames, held, on, want)

HoldInv == clearing = "no" => Held(loadCount, stack, hold, On, Want)

LEMMA PushHolds ==
  ASSUME NEW S, NEW frames \in Seq(S), NEW held, NEW on, NEW want, NEW on2, NEW want2,
         FramesHold(frames, held, on, want), IdleHolds(frames, held, on, want),
         \A n \in DOMAIN frames : frames[n].kind = "load",
         NEW f \in S, \A n \in DOMAIN frames : frames[n].holder # f.holder,
         FrameHolds(f, held, on2, want2),
         \A h \in Holders \ {f.holder} : (h \in on2 <=> h \in on) /\ want2[h] = want[h]
  PROVE  /\ FramesHold(Append(frames, f), held, on2, want2)
         /\ IdleHolds(Append(frames, f), held, on2, want2)
  <1> DEFINE N == Len(frames)
             t == Append(frames, f)
  <1>1. /\ N \in Nat /\ DOMAIN frames = 1 .. N /\ DOMAIN t = 1 .. N + 1 /\ Len(t) = N + 1
        /\ t[N + 1] = f /\ \A n \in 1 .. N : t[n] = frames[n]
    OBVIOUS
  <1> HIDE DEF N, t
  <1>2. /\ \A n \in 1 .. N + 1 : n = N + 1 \/ n \in 1 .. N
        /\ N + 1 \in 1 .. N + 1 /\ N + 1 \notin 1 .. N /\ ~(N + 1 < N + 1)
        /\ \A n \in 1 .. N : n \in 1 .. N + 1
    BY <1>1
  <1>3. \A i, j \in DOMAIN t : t[i].holder = t[j].holder => i = j
    BY <1>1, <1>2 DEF FramesHold
  <1>4. \A n \in DOMAIN t : FrameHolds(t[n], held, on2, want2)
    <2>1. ASSUME NEW n \in 1 .. N PROVE FrameHolds(frames[n], held, on2, want2)
      <3>1. FrameHolds(frames[n], held, on, want) /\ frames[n].holder # f.holder
        BY <1>1 DEF FramesHold
      <3>2. frames[n].holder \in Holders \ {f.holder}
        BY <3>1 DEF FrameHolds
      <3> QED BY <3>1, <3>2 DEF FrameHolds
    <2> QED BY <1>1, <1>2, <2>1
  <1>5. \A n \in DOMAIN t : n < Len(t) => t[n].kind = "load"
    BY <1>1, <1>2
  <1>6. ASSUME NEW h \in Holders, \A n \in DOMAIN t : t[n].holder # h
        PROVE  /\ h \in on2 => IdsHeld(held[h]) = Reachable(want2[h])
               /\ h \notin on2 => held[h] = {}
    <2>1. h # f.holder /\ \A n \in DOMAIN frames : frames[n].holder # h
      BY <1>1, <1>2, <1>6
    <2> QED BY <2>1 DEF IdleHolds
  <1> QED BY <1>3, <1>4, <1>5, <1>6 DEF FramesHold, IdleHolds, t

LEMMA TopHolds ==
  ASSUME NEW S, NEW frames \in Seq(S), frames # <<>>, NEW held, NEW held2, NEW on, NEW want,
         FramesHold(frames, held, on, want), IdleHolds(frames, held, on, want),
         NEW f \in S, f.holder = frames[Len(frames)].holder,
         FrameHolds(f, held2, on, want),
         \A h \in Holders \ {f.holder} : held2[h] = held[h]
  PROVE  /\ FramesHold([frames EXCEPT ![Len(frames)] = f], held2, on, want)
         /\ IdleHolds([frames EXCEPT ![Len(frames)] = f], held2, on, want)
  <1> DEFINE N == Len(frames)
             t == [frames EXCEPT ![N] = f]
  <1>1. /\ N \in Nat /\ N \in 1 .. N /\ DOMAIN frames = 1 .. N /\ DOMAIN t = 1 .. N /\ Len(t) = N
        /\ \A n \in 1 .. N : t[n] = IF n = N THEN f ELSE frames[n]
    OBVIOUS
  <1>2. f.holder = frames[N].holder
    OBVIOUS
  <1> HIDE DEF N, t
  <1>3. \A n \in 1 .. N : t[n].holder = frames[n].holder
    BY <1>1, <1>2
  <1>4. \A i, j \in DOMAIN t : t[i].holder = t[j].holder => i = j
    BY <1>1, <1>3 DEF FramesHold
  <1>5. ASSUME NEW n \in 1 .. N PROVE FrameHolds(t[n], held2, on, want)
    <2>1. CASE n = N
      BY <1>1, <2>1
    <2>2. CASE n # N
      <3>1. frames[n].holder # f.holder /\ FrameHolds(frames[n], held, on, want)
        BY <1>1, <1>2, <2>2 DEF FramesHold
      <3>2. held2[frames[n].holder] = held[frames[n].holder]
        BY <3>1 DEF FrameHolds
      <3> QED BY <1>1, <2>2, <3>1, <3>2 DEF FrameHolds
    <2> QED BY <2>1, <2>2
  <1>6. \A n \in DOMAIN t : n < Len(t) => t[n].kind = "load"
    BY <1>1 DEF FramesHold, N
  <1>7. ASSUME NEW h \in Holders, \A n \in DOMAIN t : t[n].holder # h
        PROVE  /\ h \in on => IdsHeld(held2[h]) = Reachable(want[h])
               /\ h \notin on => held2[h] = {}
    <2>1. h # f.holder /\ \A n \in DOMAIN frames : frames[n].holder # h
      BY <1>1, <1>2, <1>3, <1>7
    <2>2. held2[h] = held[h]
      BY <2>1
    <2> QED BY <2>1, <2>2 DEF IdleHolds
  <1> QED BY <1>1, <1>4, <1>5, <1>6, <1>7 DEF FramesHold, IdleHolds, t, N

LEMMA FrontIsShorter ==
  ASSUME NEW S, NEW s \in Seq(S), s # <<>>
  PROVE  /\ Len(s) \in Nat /\ Len(s) \in 1 .. Len(s) /\ DOMAIN s = 1 .. Len(s) /\ Len(s) - 1 \in Nat
         /\ DOMAIN Front(s) = 1 .. Len(s) - 1 /\ Len(Front(s)) = Len(s) - 1
         /\ \A n \in 1 .. Len(s) - 1 : Front(s)[n] = s[n]
  <1> DEFINE N == Len(s)
             r == [n \in 1 .. N - 1 |-> s[n]]
  <1>1. N \in Nat /\ N # 0 /\ DOMAIN s = 1 .. N /\ \A n \in 1 .. N : s[n] \in S
    BY EmptySeq
  <1>2. Front(s) = r
    BY <1>1 DEF Front
  <1> HIDE DEF N
  <1>3. N \in 1 .. N /\ N - 1 \in Nat /\ \A n \in 1 .. N - 1 : n \in 1 .. N
    BY <1>1
  <1>4. r \in Seq(S)
    BY <1>1, <1>3
  <1>5. DOMAIN r = 1 .. N - 1 /\ \A n \in 1 .. N - 1 : r[n] = s[n]
    OBVIOUS
  <1>6. Len(r) = N - 1
    BY <1>3, <1>4, <1>5
  <1> QED BY <1>1, <1>2, <1>3, <1>5, <1>6 DEF N

LEMMA PopHolds ==
  ASSUME NEW S, NEW frames \in Seq(S), frames # <<>>, NEW held, NEW on, NEW want,
         FramesHold(frames, held, on, want), IdleHolds(frames, held, on, want),
         frames[Len(frames)].script = FALSE,
         Len(frames[Len(frames)].ready) \in Nat,
         frames[Len(frames)].next =
           (IF frames[Len(frames)].kind = "load" THEN Len(frames[Len(frames)].ready) + 1 ELSE 0),
         frames[Len(frames)].kind \in {"load", "unload"}
  PROVE  FramesHold(Front(frames), held, on, want) /\ IdleHolds(Front(frames), held, on, want)
  <1> DEFINE N == Len(frames)
             t == Front(frames)
             f == frames[N]
  <1>1. /\ N \in Nat /\ N \in 1 .. N /\ DOMAIN frames = 1 .. N /\ N - 1 \in Nat
        /\ DOMAIN t = 1 .. N - 1 /\ Len(t) = N - 1 /\ \A n \in 1 .. N - 1 : t[n] = frames[n]
    BY FrontIsShorter
  <1>2. FrameHolds(f, held, on, want)
    BY <1>1 DEF FramesHold
  <1>3. f.script = FALSE /\ Len(f.ready) \in Nat
    OBVIOUS
  <1>4. /\ f.next = (IF f.kind = "load" THEN Len(f.ready) + 1 ELSE 0)
        /\ f.kind \in {"load", "unload"}
    OBVIOUS
  <1> HIDE DEF N, t, f
  <1>5. \A n \in 1 .. N - 1 : n \in 1 .. N /\ n < N
    BY <1>1
  <1>6. \A n \in 1 .. N : n = N \/ n \in 1 .. N - 1
    BY <1>1
  <1>7. FramesHold(t, held, on, want)
    <2>1. \A n \in 1 .. N - 1 : n < N => frames[n].kind = "load"
      BY <1>1, <1>5 DEF FramesHold, N
    <2>2. \A n \in DOMAIN t : n < Len(t) => t[n].kind = "load"
      BY <1>1, <1>5, <2>1
    <2> QED BY <1>1, <1>5, <2>2 DEF FramesHold
  <1>8. /\ f.holder \in on => IdsHeld(held[f.holder]) = Reachable(want[f.holder])
        /\ f.holder \notin on => held[f.holder] = {}
    <2>1. CASE f.kind = "load"
      <3>1. Done(f) = f.next - 1
        BY <1>3, <2>1, Zenon DEF Done
      <3>2. Done(f) = Len(f.ready)
        BY <1>3, <1>4, <2>1, <3>1
      <3> QED BY <1>2, <2>1, <3>2 DEF FrameHolds
    <2>2. CASE f.kind = "unload"
      <3>1. f.kind # "load"
        BY <2>2
      <3>2. Done(f) = f.next
        BY <1>3, <3>1, Zenon DEF Done
      <3>3. Done(f) = 0
        BY <1>4, <3>1, <3>2
      <3>4. IdsHeld(held[f.holder]) = {}
        BY <1>2, <3>3 DEF FrameHolds, UpTo
      <3> QED BY <1>2, <2>2, <3>4 DEF FrameHolds, IdsHeld
    <2> QED BY <1>4, <2>1, <2>2
  <1>9. ASSUME NEW h \in Holders, \A n \in DOMAIN t : t[n].holder # h
        PROVE  /\ h \in on => IdsHeld(held[h]) = Reachable(want[h])
               /\ h \notin on => held[h] = {}
    <2>1. CASE h = f.holder
      BY <1>8, <2>1
    <2>2. CASE h # f.holder
      <3>1. \A n \in DOMAIN frames : frames[n].holder # h
        BY <1>1, <1>6, <1>9, <2>2 DEF f
      <3> QED BY <3>1 DEF IdleHolds
    <2> QED BY <2>1, <2>2
  <1> QED BY <1>7, <1>9 DEF IdleHolds, t

LEMMA CountsAdd ==
  ASSUME NEW count \in [Definitions -> Nat], NEW held \in [Holders -> SUBSET Definitions],
         CountsMatch(count, held), NEW h \in Holders, NEW d \in Definitions, d \notin held[h]
  PROVE  CountsMatch([count EXCEPT ![d] = @ + 1], [held EXCEPT ![h] = @ \cup {d}])
  <1> DEFINE held2 == [held EXCEPT ![h] = @ \cup {d}]
             count2 == [count EXCEPT ![d] = @ + 1]
             H == HeldBy(d, held)
  <1>1. \A k \in Holders : held2[k] = IF k = h THEN held[k] \cup {d} ELSE held[k]
    OBVIOUS
  <1>2. \A e \in Definitions : count2[e] = IF e = d THEN count[e] + 1 ELSE count[e]
    OBVIOUS
  <1> HIDE DEF held2, count2
  <1>3. HeldBy(d, held2) = H \cup {h}
    BY <1>1 DEF HeldBy
  <1>4. \A e \in Definitions : e # d => HeldBy(e, held2) = HeldBy(e, held)
    BY <1>1 DEF HeldBy
  <1>5. h \notin H /\ IsFiniteSet(H) /\ count[d] = Cardinality(H)
    BY DEF HeldBy, CountsMatch
  <1>6. IsFiniteSet(H \cup {h}) /\ Cardinality(H \cup {h}) = Cardinality(H) + 1
    <2> HIDE DEF H
    <2>1. /\ IsFiniteSet(H \cup {h})
          /\ Cardinality(H \cup {h}) = IF h \in H THEN Cardinality(H) ELSE Cardinality(H) + 1
      BY <1>5, FS_AddElement
    <2> QED BY <1>5, <2>1
  <1> HIDE DEF H
  <1> SUFFICES ASSUME NEW e \in Definitions
               PROVE  IsFiniteSet(HeldBy(e, held2)) /\ count2[e] = Cardinality(HeldBy(e, held2))
    BY DEF CountsMatch, held2, count2
  <1>7. CASE e = d
    BY <1>2, <1>3, <1>5, <1>6, <1>7
  <1>8. CASE e # d
    BY <1>2, <1>4, <1>8 DEF CountsMatch
  <1> QED BY <1>7, <1>8

LEMMA CountsTake ==
  ASSUME NEW count \in [Definitions -> Nat], NEW held \in [Holders -> SUBSET Definitions],
         CountsMatch(count, held), NEW h \in Holders, NEW d \in Definitions, d \in held[h]
  PROVE  CountsMatch([count EXCEPT ![d] = @ - 1],
                     [k \in Holders |-> IF k = h THEN held[k] \ {d} ELSE held[k]])
  <1> DEFINE held2 == [k \in Holders |-> IF k = h THEN held[k] \ {d} ELSE held[k]]
             count2 == [count EXCEPT ![d] = @ - 1]
             H == HeldBy(d, held)
  <1>1. \A k \in Holders : held2[k] = IF k = h THEN held[k] \ {d} ELSE held[k]
    OBVIOUS
  <1>2. \A e \in Definitions : count2[e] = IF e = d THEN count[e] - 1 ELSE count[e]
    OBVIOUS
  <1> HIDE DEF held2, count2
  <1>3. HeldBy(d, held2) = H \ {h}
    BY <1>1 DEF HeldBy
  <1>4. \A e \in Definitions : e # d => HeldBy(e, held2) = HeldBy(e, held)
    BY <1>1 DEF HeldBy
  <1>5. h \in H /\ IsFiniteSet(H) /\ count[d] = Cardinality(H)
    BY DEF HeldBy, CountsMatch
  <1>6. IsFiniteSet(H \ {h}) /\ Cardinality(H \ {h}) = Cardinality(H) - 1
    <2> HIDE DEF H
    <2>1. /\ IsFiniteSet(H \ {h})
          /\ Cardinality(H \ {h}) = IF h \in H THEN Cardinality(H) - 1 ELSE Cardinality(H)
      BY <1>5, FS_RemoveElement
    <2> QED BY <1>5, <2>1
  <1> HIDE DEF H
  <1> SUFFICES ASSUME NEW e \in Definitions
               PROVE  IsFiniteSet(HeldBy(e, held2)) /\ count2[e] = Cardinality(HeldBy(e, held2))
    BY DEF CountsMatch, held2, count2
  <1>7. CASE e = d
    BY <1>2, <1>3, <1>5, <1>6, <1>7
  <1>8. CASE e # d
    BY <1>2, <1>4, <1>8 DEF CountsMatch
  <1> QED BY <1>7, <1>8

-----------------------------------------------------------------------------
(* The counts are the holds: the steps.                                    *)

LEMMA LoadDone ==
  ASSUME NEW f, f.script \in BOOLEAN, f.kind = "load"
  PROVE  Done(f) = IF f.script THEN f.next ELSE f.next - 1
  BY Zenon DEF Done

LEMMA UnloadDone ==
  ASSUME NEW f, f.script \in BOOLEAN, f.kind = "unload"
  PROVE  Done(f) = IF f.script THEN f.next - 1 ELSE f.next
  <1>1. f.kind # "load"
    OBVIOUS
  <1> QED BY <1>1, Zenon DEF Done

LEMMA ContainsIsRange ==
  ASSUME NEW S, NEW s \in Seq(S), NEW x PROVE Contains(s, x) <=> x \in Range(s)
  <1>1. DOMAIN s = 1 .. Len(s)
    OBVIOUS
  <1> QED BY <1>1 DEF Contains, Range

\* The parts of the invariant until clearDatabase.
HoldState == /\ CountsMatch(loadCount, hold)
             /\ FramesHold(stack, hold, On, Want)
             /\ IdleHolds(stack, hold, On, Want)

LEMMA HoldParts == HoldInv <=> (clearing = "no" => HoldState)
  BY DEF HoldInv, HoldState, Held

LEMMA InitHolds == Init => HoldInv
  <1> SUFFICES ASSUME Init PROVE HoldState
    BY HoldParts
  <1>1. stack = <<>> /\ DOMAIN stack = {} /\ groupsLoaded = <<>>
    BY DEF Init
  <1>2. \A h \in Holders : hold[h] = {}
    BY DEF Init
  <1>3. CountsMatch(loadCount, hold)
    <2> SUFFICES ASSUME NEW d \in Definitions
                 PROVE  IsFiniteSet(HeldBy(d, hold)) /\ loadCount[d] = Cardinality(HeldBy(d, hold))
      BY DEF CountsMatch
    <2>1. HeldBy(d, hold) = {}
      BY <1>2 DEF HeldBy
    <2>2. loadCount[d] = 0
      BY DEF Init
    <2> QED BY <2>1, <2>2, FS_EmptySet
  <1>4. FramesHold(stack, hold, On, Want)
    BY <1>1 DEF FramesHold
  <1>5. \A h : ~Contains(groupsLoaded, h)
    BY <1>1 DEF Contains
  <1>6. ASSUME NEW h \in Holders PROVE h \notin On
    <2>1. CASE h \in Groups
      BY <1>5, <2>1 DEF On
    <2>2. CASE h \notin Groups
      <3>1. h \in Slots
        BY <2>2 DEF Holders
      <3> QED BY <2>2, <3>1 DEF On, Init
    <2> QED BY <2>1, <2>2
  <1>7. IdleHolds(stack, hold, On, Want)
    BY <1>2, <1>6 DEF IdleHolds
  <1> QED BY <1>3, <1>4, <1>7 DEF HoldState

\* A call begins: it holds nothing yet, or all that it will give back.
LEMMA CallBegins ==
  ASSUME IInv, HoldState, ScriptRuns, NEW kind \in {"load", "unload"},
         NEW h \in Holders, ~UnderWay(h), NEW ready \in Seq(Definitions), InOrder(ready),
         NEW on, NEW want,
         \A k \in Holders \ {h} : (k \in on <=> k \in On) /\ want[k] = Want[k],
         UpTo(ready, Len(ready)) = Reachable(want[h]), want[h] = Want[h] \/ h \notin On,
         kind = "load" => h \notin On /\ h \in on,
         kind = "unload" => h \in On /\ h \notin on
  PROVE  LET f == [kind |-> kind, holder |-> h, ready |-> ready,
                   next |-> IF kind = "load" THEN 1 ELSE Len(ready), script |-> FALSE]
         IN  FramesHold(Append(stack, f), hold, on, want) /\ IdleHolds(Append(stack, f), hold, on, want)
  <1> DEFINE f == [kind |-> kind, holder |-> h, ready |-> ready,
                   next |-> IF kind = "load" THEN 1 ELSE Len(ready), script |-> FALSE]
  <1>1. Len(ready) \in Nat
    OBVIOUS
  <1>2. f \in Calls
    BY <1>1 DEF Calls
  <1>3. /\ f.kind = kind /\ f.holder = h /\ f.ready = ready /\ f.script = FALSE
        /\ f.next = IF kind = "load" THEN 1 ELSE Len(ready)
    OBVIOUS
  <1> HIDE DEF f
  <1>4. stack \in Seq(Calls)
    BY TypeFollows DEF TypeOK
  <1>5. FramesHold(stack, hold, On, Want) /\ IdleHolds(stack, hold, On, Want)
    BY DEF HoldState
  <1>6. \A n \in DOMAIN stack : stack[n].kind = "load"
    <2> SUFFICES ASSUME NEW n \in DOMAIN stack, ~(n < Len(stack)) PROVE stack[n].kind = "load"
      BY <1>5 DEF FramesHold
    <2>1. n = Len(stack) /\ stack # <<>>
      BY <1>4
    <2> QED BY <2>1 DEF ScriptRuns, Top
  <1>7. \A n \in DOMAIN stack : stack[n].holder # h
    BY DEF UnderWay
  <1>8. /\ h \in On => IdsHeld(hold[h]) = Reachable(Want[h])
        /\ h \notin On => hold[h] = {}
    BY <1>5, <1>7 DEF IdleHolds
  <1>9. f.script \in BOOLEAN /\ f.kind = kind /\ ~f.script
    BY <1>3
  <1>10. Done(f) \in 0 .. Len(f.ready) /\ IdsHeld(hold[h]) = UpTo(ready, Done(f))
    <2>1. CASE kind = "load"
      <3>1. f.kind = "load"
        BY <1>9, <2>1
      <3>2. Done(f) = f.next - 1
        BY <1>9, <3>1, LoadDone
      <3>3. Done(f) = 0
        BY <1>3, <2>1, <3>2
      <3>4. IdsHeld(hold[h]) = {}
        BY <1>8, <2>1 DEF IdsHeld
      <3>5. UpTo(ready, 0) = {}
        BY DEF UpTo
      <3> QED BY <1>1, <1>3, <3>3, <3>4, <3>5
    <2>2. CASE kind = "unload"
      <3>1. f.kind = "unload"
        BY <1>9, <2>2
      <3>2. Done(f) = f.next
        BY <1>9, <3>1, UnloadDone
      <3>3. Done(f) = Len(ready)
        BY <1>3, <2>2, <3>2
      <3>4. IdsHeld(hold[h]) = Reachable(want[h])
        BY <1>8, <2>2
      <3> QED BY <1>1, <1>3, <3>3, <3>4
    <2> QED BY <2>1, <2>2
  <1>11. FrameHolds(f, hold, on, want)
    BY <1>3, <1>10 DEF FrameHolds
  <1>12. FramesHold(Append(stack, f), hold, on, want) /\ IdleHolds(Append(stack, f), hold, on, want)
    BY <1>2, <1>3, <1>4, <1>5, <1>6, <1>7, <1>11, PushHolds
  <1> QED BY <1>12 DEF f

\* A step that leaves alone what the counts and the holds are about.
LEMMA HoldKept ==
  ASSUME HoldInv, clearing' = clearing \/ clearing' # "no",
         UNCHANGED <<loadCount, stack, hold, groupsLoaded, explicit, groupModules>>
  PROVE  HoldInv'
  <1> SUFFICES ASSUME clearing' = "no" PROVE HoldState'
    BY HoldParts DEF HoldInv, HoldState, Held
  <1>1. HoldState
    BY HoldParts
  <1>2. On' = On /\ Want' = Want
    BY DEF On, Want
  <1>3. CountsMatch(loadCount, hold)' /\ FramesHold(stack, hold, On, Want)'
        /\ IdleHolds(stack, hold, On, Want)'
    BY <1>1, <1>2 DEF HoldState
  <1> QED BY <1>3 DEF HoldState

LEMMA LoadGroupHolds ==
  ASSUME VersionsAlike, Enforce, IInv, HoldState, NEW g \in Groups, LoadModuleGroup(g)
  PROVE  HoldState'
  <1> DEFINE ready == ReadyOf(GroupResolved(g))
             f == [kind |-> "load", holder |-> g, ready |-> ready, next |-> 1, script |-> FALSE]
  <1>1. /\ ScriptRuns /\ ~Contains(groupsLoaded, g) /\ Compatible(GroupResolved(g))
        /\ groupsLoaded' = Append(groupsLoaded, g) /\ stack' = Append(stack, f)
        /\ UNCHANGED <<groupModules, loadCount, explicit, hold>>
    BY DEF LoadModuleGroup, Load, databaseVars
  <1>2. g \in Holders /\ g \notin On
    BY <1>1 DEF Holders, On
  <1>3. \A h \in Holders : h \in On' <=> h = g \/ h \in On
    <2>1. groupsLoaded \in Seq(Groups)
      BY DEF IInv, Others
    <2>2. \A h : Contains(groupsLoaded', h) <=> h = g \/ Contains(groupsLoaded, h)
      <3> DEFINE N == Len(groupsLoaded)
      <3>1. /\ N \in Nat /\ Len(groupsLoaded') = N + 1 /\ groupsLoaded'[N + 1] = g
            /\ \A n \in 1 .. N : groupsLoaded'[n] = groupsLoaded[n]
        BY <1>1, <2>1
      <3> HIDE DEF N
      <3>2. /\ \A n \in 1 .. N + 1 : n = N + 1 \/ n \in 1 .. N
            /\ N + 1 \in 1 .. N + 1 /\ \A n \in 1 .. N : n \in 1 .. N + 1
        BY <3>1
      <3> QED BY <3>1, <3>2 DEF Contains, N
    <2> QED BY <1>1, <2>2 DEF On
  <1>4. Want' = Want
    BY <1>1 DEF Want
  <1>5. /\ ready \in Seq(Definitions) /\ InOrder(ready)
        /\ UpTo(ready, Len(ready)) = Reachable(Want[g])
    <2>1. TypeOK
      BY TypeFollows
    <2>2. ready \in Seq(database) /\ Len(ready) = Len(GroupResolved(g).ready)
      BY <2>1, GroupReady
    <2>3. InOrder(ready) /\ UpTo(ready, Len(GroupResolved(g).ready)) = Reachable(Range(groupModules[g]))
      BY <1>1, <2>1, GroupNeeds
    <2>4. Want[g] = Range(groupModules[g])
      BY <1>2 DEF Want
    <2>5. ready \in Seq(Definitions)
      BY <2>1, <2>2 DEF TypeOK
    <2> HIDE DEF ready
    <2> QED BY <2>2, <2>3, <2>4, <2>5
  <1>6. ~UnderWay(g)
    <2>1. FramesHold(stack, hold, On, Want) /\ stack \in Seq(Calls)
      BY TypeFollows DEF HoldState, TypeOK
    <2> SUFFICES ASSUME NEW n \in DOMAIN stack, stack[n].holder = g PROVE FALSE
      BY DEF UnderWay
    <2>2. stack[n].kind = "load"
      <3>1. CASE n < Len(stack)
        BY <2>1, <3>1 DEF FramesHold
      <3>2. CASE ~(n < Len(stack))
        <4>1. n = Len(stack) /\ stack # <<>>
          BY <2>1, <3>2
        <4> QED BY <1>1, <4>1 DEF ScriptRuns, Top
      <3> QED BY <3>1, <3>2
    <2> QED BY <1>2, <2>1, <2>2 DEF FramesHold, FrameHolds
  <1> HIDE DEF ready, f
  <1>7. FramesHold(Append(stack, f), hold, On', Want) /\ IdleHolds(Append(stack, f), hold, On', Want)
    <2> DEFINE on == On'
    <2>1. \A k \in Holders \ {g} : (k \in on <=> k \in On) /\ Want[k] = Want[k]
      BY <1>3
    <2>2. g \in on
      BY <1>2, <1>3
    <2> HIDE DEF on
    <2>3. FramesHold(Append(stack, f), hold, on, Want) /\ IdleHolds(Append(stack, f), hold, on, Want)
      BY <1>1, <1>2, <1>5, <1>6, <2>1, <2>2, CallBegins DEF f
    <2> QED BY <2>3 DEF on
  <1>8. (CountsMatch(loadCount, hold))'
    BY <1>1 DEF HoldState
  <1> QED BY <1>1, <1>4, <1>7, <1>8 DEF HoldState

LEMMA UnloadGroupHolds ==
  ASSUME VersionsAlike, Enforce, IInv, HoldState, NEW g \in Groups, UnloadModuleGroup(g)
  PROVE  HoldState'
  <1> DEFINE ready == ReadyOf(GroupResolved(g))
             f == [kind |-> "unload", holder |-> g, ready |-> ready, next |-> Len(ready),
                   script |-> FALSE]
  <1>1. /\ ScriptRuns /\ ~UnderWay(g) /\ Contains(groupsLoaded, g) /\ Compatible(GroupResolved(g))
        /\ groupsLoaded' = EraseFast(groupsLoaded, g) /\ Unload(g, GroupResolved(g))
        /\ UNCHANGED <<groupModules, loadCount, explicit, hold>>
    BY DEF UnloadModuleGroup, UnloadGroup, databaseVars
  <1>2. TypeOK
    BY TypeFollows
  <1>3. g \in Holders /\ g \in On
    BY <1>1 DEF Holders, On
  <1>4. \A h \in Holders : h \in On' <=> h # g /\ h \in On
    <2>1. groupsLoaded \in Seq(Groups) /\ IsInjective(groupsLoaded)
      BY <1>2 DEF TypeOK
    <2>2. groupsLoaded' \in Seq(Groups) /\ Range(groupsLoaded') = Range(groupsLoaded) \ {g}
      BY <1>1, <2>1, ErasedFast
    <2>3. \A h : Contains(groupsLoaded', h) <=> h # g /\ Contains(groupsLoaded, h)
      BY <2>1, <2>2, ContainsIsRange
    <2> QED BY <1>1, <2>3 DEF On
  <1>5. Want' = Want
    BY <1>1 DEF Want
  <1>6. /\ ready \in Seq(Definitions) /\ InOrder(ready)
        /\ UpTo(ready, Len(ready)) = Reachable(Want[g])
        /\ Len(ready) = Len(GroupResolved(g).ready)
    <2>2. ready \in Seq(database) /\ Len(ready) = Len(GroupResolved(g).ready)
      BY <1>2, GroupReady
    <2>3. InOrder(ready) /\ UpTo(ready, Len(GroupResolved(g).ready)) = Reachable(Range(groupModules[g]))
      BY <1>1, <1>2, GroupNeeds
    <2>4. Want[g] = Range(groupModules[g])
      BY <1>3 DEF Want
    <2>5. ready \in Seq(Definitions)
      BY <1>2, <2>2 DEF TypeOK
    <2> HIDE DEF ready
    <2> QED BY <2>2, <2>3, <2>4, <2>5
  <1>7. stack' = Append(stack, f)
    BY <1>1, <1>6 DEF Unload
  <1> HIDE DEF ready, f
  <1>8. FramesHold(Append(stack, f), hold, On', Want) /\ IdleHolds(Append(stack, f), hold, On', Want)
    <2> DEFINE on == On'
    <2>1. \A k \in Holders \ {g} : (k \in on <=> k \in On) /\ Want[k] = Want[k]
      BY <1>4
    <2>2. g \notin on
      BY <1>3, <1>4
    <2> HIDE DEF on
    <2>3. FramesHold(Append(stack, f), hold, on, Want) /\ IdleHolds(Append(stack, f), hold, on, Want)
      BY <1>1, <1>3, <1>6, <2>1, <2>2, CallBegins DEF f
    <2> QED BY <2>3 DEF on
  <1>9. (CountsMatch(loadCount, hold))'
    BY <1>1 DEF HoldState
  <1> QED BY <1>1, <1>5, <1>7, <1>8, <1>9 DEF HoldState

\* The version that an explicit load is undone with.
LEMMA VersionIsNat ==
  ASSUME IInv, NEW id, LoadedAs(id) # {}
  PROVE  (CHOOSE d \in LoadedAs(id) : TRUE).version \in Nat
  BY LoadedAsOne, ModuleConstants

LEMMA LoadExplicitHolds ==
  ASSUME VersionsAlike, Enforce, IInv, HoldState, NEW id \in Ids, NEW version \in Versions,
         LoadModuleExplicit(id, version)
  PROVE  HoldState'
  <1> DEFINE free == {s \in Slots : explicit[s] = NoId /\ ~UnderWay(s)}
             slot == CHOOSE s \in free : \A t \in free : s =< t
             ready == ReadyOf(ModuleResolved(id, version))
             f == [kind |-> "load", holder |-> slot, ready |-> ready, next |-> 1, script |-> FALSE]
  <1>1. /\ ScriptRuns /\ free # {} /\ Compatible(ModuleResolved(id, version))
        /\ explicit' = [explicit EXCEPT ![slot] = id] /\ stack' = Append(stack, f)
        /\ UNCHANGED <<groupModules, groupsLoaded, loadCount, hold>>
    BY DEF LoadModuleExplicit, Load, databaseVars
  <1>2. slot \in free
    <2>1. free # {} /\ free \subseteq Nat
      BY <1>1 DEF Slots
    <2> HIDE DEF free
    <2>2. \E s \in free : \A t \in free : s =< t
      BY <2>1, LeastNumber
    <2> QED BY <2>2
  <1>3. slot \in Slots /\ explicit[slot] = NoId /\ ~UnderWay(slot)
    BY <1>2
  <1> HIDE DEF slot, free
  <1>4. /\ slot \in Holders /\ slot \notin Groups /\ slot \notin On
        /\ id # NoId
    BY <1>3, ModuleConstants DEF Holders, On
  <1>5. \A h \in Holders \ {slot} : (h \in On' <=> h \in On) /\ Want'[h] = Want[h]
    <2>1. explicit \in [Slots -> Ids \cup {NoId}]
      BY DEF IInv, Others
    <2>2. \A s \in Slots : s # slot => explicit'[s] = explicit[s]
      BY <1>1, <2>1
    <2>3. \A h \in Holders : h \notin Groups => h \in Slots
      BY DEF Holders
    <2> QED BY <1>1, <2>2, <2>3 DEF On, Want
  <1>6. slot \in On' /\ Want'[slot] = {id}
    <2>1. explicit'[slot] = id
      BY <1>1, <1>3 DEF IInv, Others
    <2> QED BY <1>4, <2>1 DEF On, Want
  <1>7. /\ ready \in Seq(Definitions) /\ InOrder(ready)
        /\ UpTo(ready, Len(ready)) = Reachable({id})
    <2>1. TypeOK /\ version \in Nat
      BY TypeFollows, ModuleConstants DEF Versions
    <2>2. ready \in Seq(database) /\ Len(ready) = Len(ModuleResolved(id, version).ready)
      BY <2>1, ModuleReady
    <2>3. InOrder(ready) /\ UpTo(ready, Len(ModuleResolved(id, version).ready)) = Reachable({id})
      BY <1>1, <2>1, ModuleNeeds
    <2>4. ready \in Seq(Definitions)
      BY <2>1, <2>2 DEF TypeOK
    <2> HIDE DEF ready
    <2> QED BY <2>2, <2>3, <2>4
  <1> HIDE DEF ready, f
  <1>8. FramesHold(Append(stack, f), hold, On', Want') /\ IdleHolds(Append(stack, f), hold, On', Want')
    <2> DEFINE on == On'
               want == Want'
    <2>1. \A k \in Holders \ {slot} : (k \in on <=> k \in On) /\ want[k] = Want[k]
      BY <1>5
    <2>2. slot \in on /\ UpTo(ready, Len(ready)) = Reachable(want[slot])
      BY <1>6, <1>7
    <2> HIDE DEF on, want
    <2>3. FramesHold(Append(stack, f), hold, on, want) /\ IdleHolds(Append(stack, f), hold, on, want)
      BY <1>1, <1>3, <1>4, <1>7, <2>1, <2>2, CallBegins DEF f
    <2> QED BY <2>3 DEF on, want
  <1>9. (CountsMatch(loadCount, hold))'
    BY <1>1 DEF HoldState
  <1> QED BY <1>1, <1>8, <1>9 DEF HoldState

LEMMA UnloadExplicitHolds ==
  ASSUME VersionsAlike, Enforce, IInv, HoldState, NEW slot \in Slots, UnloadModuleExplicit(slot)
  PROVE  HoldState'
  <1> DEFINE id == explicit[slot]
             version == (CHOOSE d \in LoadedAs(id) : TRUE).version
             ready == ReadyOf(ModuleResolved(id, version))
             f == [kind |-> "unload", holder |-> slot, ready |-> ready, next |-> Len(ready),
                   script |-> FALSE]
  <1>1. /\ ScriptRuns /\ ~UnderWay(slot) /\ id # NoId /\ LoadedAs(id) # {}
        /\ Compatible(ModuleResolved(id, version)) /\ Unload(slot, ModuleResolved(id, version))
        /\ explicit' = [s \in Slots |-> IF s = slot THEN NoId ELSE explicit[s]]
        /\ UNCHANGED <<groupModules, groupsLoaded, loadCount, hold>>
    BY DEF UnloadModuleExplicit, UnloadExplicit, databaseVars
  <1>2. TypeOK
    BY TypeFollows
  <1>3. id \in Ids /\ version \in Nat
    BY <1>1, <1>2, VersionIsNat DEF TypeOK
  <1>4. slot \in Holders /\ slot \notin Groups
    BY ModuleConstants DEF Holders
  <1>5. slot \in On /\ Want[slot] = {id}
    BY <1>1, <1>4 DEF On, Want
  <1> HIDE DEF version
  <1>6. /\ ready \in Seq(Definitions) /\ InOrder(ready)
        /\ UpTo(ready, Len(ready)) = Reachable(Want[slot])
        /\ Len(ready) = Len(ModuleResolved(id, version).ready)
    <2>1. ready \in Seq(database) /\ Len(ready) = Len(ModuleResolved(id, version).ready)
      BY <1>2, <1>3, ModuleReady
    <2>2. InOrder(ready) /\ UpTo(ready, Len(ModuleResolved(id, version).ready)) = Reachable({id})
      BY <1>1, <1>2, <1>3, ModuleNeeds
    <2>3. ready \in Seq(Definitions)
      BY <1>2, <2>1 DEF TypeOK
    <2> HIDE DEF ready
    <2> QED BY <1>5, <2>1, <2>2, <2>3
  <1>7. stack' = Append(stack, f)
    BY <1>1, <1>6 DEF Unload
  <1> HIDE DEF ready, f, id
  <1>8. slot \notin On' /\ \A h \in Holders \ {slot} : h \in On' <=> h \in On
    <2>1. explicit'[slot] = NoId /\ \A s \in Slots : s # slot => explicit'[s] = explicit[s]
      BY <1>1
    <2>2. \A h \in Holders : h \notin Groups => h \in Slots
      BY DEF Holders
    <2> QED BY <1>1, <1>4, <2>1, <2>2 DEF On
  <1>9. \A h \in Holders \ {slot} : Want'[h] = Want[h]
    <2>1. \A s \in Slots : s # slot => explicit'[s] = explicit[s]
      BY <1>1
    <2>2. \A h \in Holders : h \notin Groups => h \in Slots
      BY DEF Holders
    <2> QED BY <1>1, <2>1, <2>2 DEF Want
  <1>10. FramesHold(Append(stack, f), hold, On', Want') /\ IdleHolds(Append(stack, f), hold, On', Want')
    <2> DEFINE on == On'
               want == [Want' EXCEPT ![slot] = Want[slot]]
               want2 == Want'
    <2>1. \A k \in Holders \ {slot} : (k \in on <=> k \in On) /\ want[k] = Want[k]
      BY <1>8, <1>9 DEF Want
    <2>2. slot \notin on /\ want[slot] = Want[slot]
      BY <1>4, <1>8 DEF Want
    <2>3. \A h \in on : want2[h] = want[h]
      BY <2>2 DEF Want
    <2> HIDE DEF on, want, want2
    <2>4. FramesHold(Append(stack, f), hold, on, want) /\ IdleHolds(Append(stack, f), hold, on, want)
      BY <1>1, <1>4, <1>5, <1>6, <2>1, <2>2, CallBegins DEF f
    <2>5. \A F : FrameHolds(F, hold, on, want) => FrameHolds(F, hold, on, want2)
      BY <2>3 DEF FrameHolds
    <2>6. FramesHold(Append(stack, f), hold, on, want2)
      BY <2>4, <2>5 DEF FramesHold
    <2>7. IdleHolds(Append(stack, f), hold, on, want2)
      BY <2>3, <2>4 DEF IdleHolds
    <2> QED BY <2>6, <2>7 DEF on, want2
  <1>11. (CountsMatch(loadCount, hold))'
    BY <1>1 DEF HoldState
  <1> QED BY <1>1, <1>7, <1>10, <1>11 DEF HoldState

\* The invariant after a step of the innermost call.
LEMMA TopSteps ==
  ASSUME IInv, HoldState, stack # <<>>, NEW next \in Nat, NEW script \in BOOLEAN,
         stack' = TopWith(next, script),
         UNCHANGED <<groupsLoaded, groupModules, explicit>>,
         hold' \in [Holders -> SUBSET Definitions],
         \A h \in Holders \ {Top.holder} : hold'[h] = hold[h],
         LET f == [Top EXCEPT !.next = next, !.script = script]
         IN  Done(f) \in 0 .. Len(Top.ready) /\ IdsHeld(hold'[Top.holder]) = UpTo(Top.ready, Done(f)),
         CountsMatch(loadCount', hold')
  PROVE  HoldState'
  <1> DEFINE f == [Top EXCEPT !.next = next, !.script = script]
             held == hold'
  <1>1. On' = On /\ Want' = Want
    BY DEF On, Want
  <1>2. stack \in Seq(Calls) /\ Top \in Calls /\ Len(stack) \in DOMAIN stack
    <2>1. stack \in Seq(Calls)
      BY TypeFollows DEF TypeOK
    <2> QED BY <2>1, TopFacts
  <1>3. f \in Calls /\ f.holder = Top.holder /\ f.ready = Top.ready /\ f.kind = Top.kind
    BY <1>2 DEF Calls
  <1>4. stack' = [stack EXCEPT ![Len(stack)] = f]
    BY DEF TopWith, Top
  <1>5. FramesHold(stack, hold, On, Want) /\ IdleHolds(stack, hold, On, Want)
    BY DEF HoldState
  <1>6. FrameHolds(Top, hold, On, Want)
    BY <1>2, <1>5 DEF FramesHold, Top
  <1>7. Done(f) \in 0 .. Len(Top.ready) /\ IdsHeld(held[Top.holder]) = UpTo(Top.ready, Done(f))
    OBVIOUS
  <1> HIDE DEF f, held
  <1>8. FrameHolds(f, held, On, Want)
    BY <1>3, <1>6, <1>7 DEF FrameHolds
  <1>9. /\ FramesHold([stack EXCEPT ![Len(stack)] = f], held, On, Want)
        /\ IdleHolds([stack EXCEPT ![Len(stack)] = f], held, On, Want)
    <2>1. f.holder = stack[Len(stack)].holder
      BY <1>3 DEF Top
    <2>2. \A h \in Holders \ {f.holder} : held[h] = hold[h]
      BY <1>3 DEF held
    <2> QED BY <1>2, <1>3, <1>5, <1>8, <2>1, <2>2, TopHolds
  <1> QED BY <1>1, <1>4, <1>9 DEF HoldState, held

\* Where the innermost call is.
LEMMA TopHeld ==
  ASSUME IInv, HoldState, stack # <<>>
  PROVE  /\ FrameHolds(Top, hold, On, Want) /\ FrameOf(Top, database)
         /\ Top.ready \in Seq(Definitions) /\ Len(Top.ready) \in Nat
         /\ Top.holder \in Holders /\ InOrder(Top.ready)
         /\ Done(Top) \in 0 .. Len(Top.ready)
         /\ IdsHeld(hold[Top.holder]) = UpTo(Top.ready, Done(Top))
  <1>1. FrameOf(Top, database) /\ Top \in Calls /\ Len(stack) \in 1 .. Len(stack)
    BY TopFacts
  <1>2. stack \in Seq(Calls)
    BY TypeFollows DEF TypeOK
  <1>3. Len(stack) \in DOMAIN stack
    BY <1>1, <1>2
  <1>4. FrameHolds(Top, hold, On, Want)
    BY <1>3 DEF HoldState, FramesHold, Top
  <1>5. Top.ready \in Seq(Definitions)
    BY <1>1 DEF Calls
  <1>6. Len(Top.ready) \in Nat
    BY <1>5
  <1> QED BY <1>1, <1>4, <1>5, <1>6 DEF FrameHolds

LEMMA OneMoreId ==
  ASSUME NEW ready \in Seq(Definitions), NEW n \in 1 .. Len(ready), InOrder(ready)
  PROVE  /\ UpTo(ready, n) = UpTo(ready, n - 1) \cup {ready[n].id}
         /\ ready[n].id \notin UpTo(ready, n - 1)
         /\ DepIds(ready[n]) \subseteq UpTo(ready, n - 1)
  <1> DEFINE N == Len(ready)
  <1>1. N \in Nat /\ DOMAIN ready = 1 .. N
    OBVIOUS
  <1> HIDE DEF N
  <1>2. /\ \A k \in 1 .. n : k = n \/ k \in 1 .. n - 1
        /\ \A k \in 1 .. n - 1 : k \in 1 .. n /\ k # n /\ k \in 1 .. N
        /\ n \in 1 .. n
    BY <1>1 DEF N
  <1>3. UpTo(ready, n) = UpTo(ready, n - 1) \cup {ready[n].id}
    BY <1>2 DEF UpTo
  <1>4. ready[n].id \notin UpTo(ready, n - 1)
    BY <1>1, <1>2 DEF UpTo, InOrder, N
  <1>5. DepIds(ready[n]) \subseteq UpTo(ready, n - 1)
    BY <1>1 DEF InOrder, N
  <1> QED BY <1>3, <1>4, <1>5

LEMMA LoadNextHolds == ASSUME IInv, HoldState, LoadNext PROVE HoldState'
  <1> DEFINE d == Top.ready[Top.next]
             counted == IF LoadedAs(d.id) # {} THEN CHOOSE e \in LoadedAs(d.id) : TRUE ELSE d
             h == Top.holder
  <1>1. /\ stack # <<>> /\ Top.kind = "load" /\ ~Top.script /\ Top.next =< Len(Top.ready)
        /\ loadCount' = [loadCount EXCEPT ![counted] = @ + 1]
        /\ hold' = [hold EXCEPT ![h] = @ \cup {counted}]
        /\ stack' = TopWith(Top.next + 1, FALSE) \/ stack' = TopWith(Top.next, TRUE)
        /\ UNCHANGED <<databaseVars, groupsLoaded, explicit, clearing>>
    BY DEF LoadNext
  <1>2. /\ FrameOf(Top, database) /\ Top.ready \in Seq(Definitions) /\ Len(Top.ready) \in Nat
        /\ h \in Holders /\ InOrder(Top.ready)
        /\ IdsHeld(hold[h]) = UpTo(Top.ready, Done(Top))
    BY <1>1, TopHeld
  <1>3. Top.next \in Nat /\ Top.next >= 1 /\ Top.kind = "load"
    BY <1>1, <1>2 DEF FrameOf
  <1>4. Top.next \in 1 .. Len(Top.ready) /\ Top.next + 1 \in Nat
    BY <1>1, <1>2, <1>3
  <1>5. Done(Top) = Top.next - 1
    <2>1. Top.script \in BOOLEAN
      BY <1>2 DEF FrameOf
    <2> QED BY <1>1, <2>1, LoadDone
  <1>6. counted \in Definitions /\ counted.id = d.id
    <2>1. d \in Definitions
      BY <1>1, <1>4, AtNext
    <2> HIDE DEF d
    <2> QED BY <2>1, LoadedAsOne
  <1>7. /\ UpTo(Top.ready, Top.next) = UpTo(Top.ready, Top.next - 1) \cup {d.id}
        /\ d.id \notin UpTo(Top.ready, Top.next - 1)
    BY <1>2, <1>4, OneMoreId
  <1> HIDE DEF d, counted, h
  <1>8. counted \notin hold[h]
    BY <1>2, <1>5, <1>6, <1>7 DEF IdsHeld
  <1>9. /\ hold \in [Holders -> SUBSET Definitions] /\ loadCount \in [Definitions -> Nat]
        /\ CountsMatch(loadCount, hold)
    BY DEF IInv, Others, Counted, HoldState
  <1>10. CountsMatch(loadCount', hold')
    BY <1>1, <1>2, <1>6, <1>8, <1>9, CountsAdd
  <1>11. /\ hold' \in [Holders -> SUBSET Definitions] /\ hold'[h] = hold[h] \cup {counted}
         /\ \A k \in Holders \ {h} : hold'[k] = hold[k]
    BY <1>1, <1>2, <1>6, <1>9
  <1>12. IdsHeld(hold'[h]) = UpTo(Top.ready, Top.next)
    <2>1. IdsHeld(hold'[h]) = IdsHeld(hold[h]) \cup {counted.id}
      BY <1>11 DEF IdsHeld
    <2> QED BY <1>2, <1>5, <1>6, <1>7, <2>1
  <1>13. ASSUME NEW next \in Nat, NEW script \in BOOLEAN, stack' = TopWith(next, script),
                next = IF script THEN Top.next ELSE Top.next + 1
         PROVE  HoldState'
    <2> DEFINE f == [Top EXCEPT !.next = next, !.script = script]
    <2>1. f.next = next /\ f.script = script /\ f.kind = "load"
      <3>1. Top \in Calls
        BY <1>1, TopFacts
      <3> QED BY <1>3, <3>1 DEF Calls
    <2>2. Done(f) = Top.next
      <3> HIDE DEF f
      <3>1. f.script \in BOOLEAN
        BY <2>1
      <3>2. Done(f) = IF f.script THEN f.next ELSE f.next - 1
        BY <2>1, <3>1, LoadDone
      <3>3. CASE script
        BY <1>13, <2>1, <3>2, <3>3
      <3>4. CASE ~script
        <4>1. Done(f) = next - 1 /\ next = Top.next + 1
          BY <1>13, <2>1, <3>2, <3>4
        <4> QED BY <1>3, <4>1
      <3> QED BY <3>3, <3>4
    <2>3. Done(f) \in 0 .. Len(Top.ready)
      BY <1>2, <1>4, <2>2
    <2>4. IdsHeld(hold'[Top.holder]) = UpTo(Top.ready, Done(f))
      BY <1>12, <2>2 DEF h
    <2>5. \A k \in Holders \ {Top.holder} : hold'[k] = hold[k]
      BY <1>11 DEF h
    <2>6. UNCHANGED <<groupsLoaded, groupModules, explicit>>
      BY <1>1 DEF databaseVars
    <2> QED BY <1>1, <1>10, <1>11, <1>13, <2>3, <2>4, <2>5, <2>6, TopSteps
  <1>14. CASE stack' = TopWith(Top.next + 1, FALSE)
    <2>1. Top.next + 1 = IF FALSE THEN Top.next ELSE Top.next + 1
      OBVIOUS
    <2> QED BY <1>4, <1>13, <1>14, <2>1
  <1>15. CASE stack' = TopWith(Top.next, TRUE)
    <2>1. Top.next = IF TRUE THEN Top.next ELSE Top.next + 1
      OBVIOUS
    <2> QED BY <1>3, <1>13, <1>15, <2>1
  <1> QED BY <1>1, <1>14, <1>15

LEMMA HeldIsLoaded ==
  ASSUME IInv, HoldState, NEW h \in Holders, NEW e \in hold[h]
  PROVE  e \in Definitions /\ e \in Range(loaded) /\ e \in LoadedAs(e.id)
  <1>1. e \in Definitions
    BY DEF IInv, Others
  <1>2. /\ IsFiniteSet(HeldBy(e, hold)) /\ loadCount[e] = Cardinality(HeldBy(e, hold))
        /\ HeldBy(e, hold) # {}
    BY <1>1 DEF HoldState, CountsMatch, HeldBy
  <1>3. loadCount[e] # 0 /\ loadCount[e] \in Nat
    BY <1>1, <1>2, FS_EmptySet DEF IInv, Counted
  <1>4. loadCount[e] > 0
    BY <1>3
  <1>5. e \in Range(loaded)
    BY <1>1, <1>4 DEF IInv, Counted, Listed
  <1> QED BY <1>1, <1>5 DEF LoadedAs

LEMMA LoadedOnce ==
  ASSUME IInv, NEW d \in Range(loaded), NEW e \in Range(loaded), d.id = e.id PROVE d = e
  BY DEF IInv, Counted, Listed, Range

LEMMA UnloadNextHolds == ASSUME IInv, HoldState, UnloadNext PROVE HoldState'
  <1> DEFINE d == Top.ready[Top.next]
             counted == CHOOSE e \in LoadedAs(d.id) : TRUE
             h == Top.holder
  <1>1. /\ stack # <<>> /\ Top.kind = "unload" /\ ~Top.script /\ Top.next > 0
        /\ LoadedAs(d.id) # {} =>
             /\ loadCount' = [loadCount EXCEPT ![counted] = @ - 1]
             /\ hold' = [k \in Holders |-> IF k = h THEN hold[k] \ {counted} ELSE hold[k]]
             /\ stack' = TopWith(Top.next - 1, FALSE) \/ stack' = TopWith(Top.next, TRUE)
        /\ UNCHANGED <<databaseVars, groupsLoaded, explicit, clearing>>
    BY DEF UnloadNext
  <1>2. /\ FrameOf(Top, database) /\ Top.ready \in Seq(Definitions) /\ Len(Top.ready) \in Nat
        /\ h \in Holders /\ InOrder(Top.ready)
        /\ IdsHeld(hold[h]) = UpTo(Top.ready, Done(Top))
    BY <1>1, TopHeld
  <1>3. /\ Top.next \in Nat /\ Top.next - 1 \in Nat /\ Top.next \in 1 .. Len(Top.ready)
        /\ Top.next - 1 \in 0 .. Len(Top.ready)
    <2>1. Top.next \in Nat /\ Top.next =< Len(Top.ready)
      BY <1>1, <1>2 DEF FrameOf
    <2> QED BY <1>1, <1>2, <2>1
  <1>4. Done(Top) = Top.next
    <2>1. Top.script \in BOOLEAN
      BY <1>2 DEF FrameOf
    <2> QED BY <1>1, <2>1, UnloadDone
  <1>5. /\ UpTo(Top.ready, Top.next) = UpTo(Top.ready, Top.next - 1) \cup {d.id}
        /\ d.id \notin UpTo(Top.ready, Top.next - 1)
    BY <1>2, <1>3, OneMoreId
  <1> HIDE DEF d, h
  <1>6. PICK e \in hold[h] : e.id = d.id
    BY <1>2, <1>4, <1>5 DEF IdsHeld
  <1>7. e \in Definitions /\ e \in Range(loaded) /\ e \in LoadedAs(d.id)
    BY <1>2, <1>6, HeldIsLoaded
  <1>8. counted = e
    <2>1. counted \in Range(loaded) /\ counted.id = d.id
      BY <1>7, LoadedAsOne
    <2> HIDE DEF counted
    <2> QED BY <1>6, <1>7, <2>1, LoadedOnce
  <1> HIDE DEF counted
  <1>9. /\ hold \in [Holders -> SUBSET Definitions] /\ loadCount \in [Definitions -> Nat]
        /\ CountsMatch(loadCount, hold)
    BY DEF IInv, Others, Counted, HoldState
  <1>10. /\ loadCount' = [loadCount EXCEPT ![e] = @ - 1]
         /\ hold' = [k \in Holders |-> IF k = h THEN hold[k] \ {e} ELSE hold[k]]
         /\ stack' = TopWith(Top.next - 1, FALSE) \/ stack' = TopWith(Top.next, TRUE)
    BY <1>1, <1>7, <1>8
  <1>11. CountsMatch(loadCount', hold')
    BY <1>2, <1>6, <1>7, <1>9, <1>10, CountsTake
  <1>12. /\ hold' \in [Holders -> SUBSET Definitions] /\ hold'[h] = hold[h] \ {e}
         /\ \A k \in Holders \ {h} : hold'[k] = hold[k]
    BY <1>2, <1>9, <1>10
  <1>13. IdsHeld(hold'[h]) = UpTo(Top.ready, Top.next - 1)
    <2>1. \A x \in hold[h] : x.id = d.id => x = e
      BY <1>2, <1>6, <1>7, HeldIsLoaded, LoadedOnce
    <2>2. IdsHeld(hold'[h]) = IdsHeld(hold[h]) \ {d.id}
      BY <1>6, <1>12, <2>1 DEF IdsHeld
    <2> QED BY <1>2, <1>4, <1>5, <2>2
  <1>14. ASSUME NEW next \in Nat, NEW script \in BOOLEAN, stack' = TopWith(next, script),
                next = IF script THEN Top.next ELSE Top.next - 1
         PROVE  HoldState'
    <2> DEFINE f == [Top EXCEPT !.next = next, !.script = script]
    <2>1. f.next = next /\ f.script = script /\ f.kind = "unload"
      <3>1. Top \in Calls
        BY <1>1, TopFacts
      <3> QED BY <1>1, <3>1 DEF Calls
    <2>2. Done(f) = Top.next - 1
      <3> HIDE DEF f
      <3>1. f.script \in BOOLEAN
        BY <2>1
      <3>2. Done(f) = IF f.script THEN f.next - 1 ELSE f.next
        BY <2>1, <3>1, UnloadDone
      <3> QED BY <1>14, <2>1, <3>2
    <2>3. Done(f) \in 0 .. Len(Top.ready)
      BY <1>3, <2>2
    <2>4. IdsHeld(hold'[Top.holder]) = UpTo(Top.ready, Done(f))
      BY <1>13, <2>2 DEF h
    <2>5. \A k \in Holders \ {Top.holder} : hold'[k] = hold[k]
      BY <1>12 DEF h
    <2>6. UNCHANGED <<groupsLoaded, groupModules, explicit>>
      BY <1>1 DEF databaseVars
    <2> QED BY <1>1, <1>11, <1>12, <1>14, <2>3, <2>4, <2>5, <2>6, TopSteps
  <1>15. CASE stack' = TopWith(Top.next - 1, FALSE)
    <2>1. Top.next - 1 = IF FALSE THEN Top.next ELSE Top.next - 1
      OBVIOUS
    <2> QED BY <1>3, <1>14, <1>15, <2>1
  <1>16. CASE stack' = TopWith(Top.next, TRUE)
    <2>1. Top.next = IF TRUE THEN Top.next ELSE Top.next - 1
      OBVIOUS
    <2> QED BY <1>3, <1>14, <1>16, <2>1
  <1> QED BY <1>10, <1>15, <1>16

LEMMA EndScriptHolds == ASSUME IInv, HoldState, EndScript PROVE HoldState'
  <1> DEFINE next == IF Top.kind = "load" THEN Top.next + 1 ELSE Top.next - 1
             f == [Top EXCEPT !.next = next, !.script = FALSE]
  <1>1. /\ stack # <<>> /\ Top.script /\ stack' = TopWith(next, FALSE)
        /\ UNCHANGED <<databaseVars, loadVars, clearing>>
    BY DEF EndScript
  <1>2. /\ FrameOf(Top, database) /\ Top.holder \in Holders
        /\ Done(Top) \in 0 .. Len(Top.ready)
        /\ IdsHeld(hold[Top.holder]) = UpTo(Top.ready, Done(Top))
    BY <1>1, TopHeld
  <1>3. /\ Top.next \in Nat /\ Top.next >= 1 /\ next \in Nat /\ Top.script \in BOOLEAN
        /\ Top.kind \in {"load", "unload"}
    BY <1>1, <1>2 DEF FrameOf
  <1>4. f.next = next /\ f.script = FALSE /\ f.kind = Top.kind
    <2>1. Top \in Calls
      BY <1>1, TopFacts
    <2> QED BY <2>1 DEF Calls
  <1>5. Done(f) = Done(Top)
    <2> HIDE DEF f
    <2>1. f.script \in BOOLEAN /\ ~f.script
      BY <1>4
    <2>2. CASE Top.kind = "load"
      <3>1. Done(Top) = Top.next
        <4>1. Done(Top) = IF Top.script THEN Top.next ELSE Top.next - 1
          BY <1>3, <2>2, LoadDone
        <4> QED BY <1>1, <4>1
      <3>2. f.kind = "load"
        BY <1>4, <2>2
      <3>3. Done(f) = f.next - 1
        BY <2>1, <3>2, LoadDone
      <3> QED BY <1>3, <1>4, <2>2, <3>1, <3>3
    <2>3. CASE Top.kind = "unload"
      <3>1. Done(Top) = Top.next - 1
        <4>1. Done(Top) = IF Top.script THEN Top.next - 1 ELSE Top.next
          BY <1>3, <2>3, UnloadDone
        <4> QED BY <1>1, <4>1
      <3>2. f.kind = "unload"
        BY <1>4, <2>3
      <3>3. Done(f) = f.next
        BY <2>1, <3>2, UnloadDone
      <3> QED BY <1>3, <1>4, <2>3, <3>1, <3>3
    <2> QED BY <1>3, <2>2, <2>3
  <1>6. UNCHANGED <<groupsLoaded, groupModules, explicit, hold, loadCount>>
    BY <1>1 DEF databaseVars, loadVars
  <1>7. /\ hold' \in [Holders -> SUBSET Definitions]
        /\ \A k \in Holders \ {Top.holder} : hold'[k] = hold[k]
        /\ CountsMatch(loadCount', hold')
    BY <1>6 DEF IInv, Others, HoldState
  <1>8. Done(f) \in 0 .. Len(Top.ready) /\ IdsHeld(hold'[Top.holder]) = UpTo(Top.ready, Done(f))
    BY <1>2, <1>5, <1>6
  <1>9. FALSE \in BOOLEAN
    OBVIOUS
  <1> HIDE DEF next
  <1> QED BY <1>1, <1>3, <1>6, <1>7, <1>8, <1>9, TopSteps

LEMMA EndCallHolds == ASSUME IInv, HoldState, EndCall PROVE HoldState'
  <1>1. /\ stack # <<>> /\ ~Top.script /\ stack' = Front(stack)
        /\ Top.next = (IF Top.kind = "load" THEN Len(Top.ready) + 1 ELSE 0)
        /\ UNCHANGED <<databaseVars, loadVars, clearing>>
    BY DEF EndCall
  <1>2. FrameOf(Top, database) /\ Len(Top.ready) \in Nat
    BY <1>1, TopHeld
  <1>3. Top.script = FALSE /\ Top.kind \in {"load", "unload"}
    BY <1>1, <1>2 DEF FrameOf
  <1>4. stack \in Seq(Calls)
    BY TypeFollows DEF TypeOK
  <1>5. FramesHold(stack, hold, On, Want) /\ IdleHolds(stack, hold, On, Want)
    BY DEF HoldState
  <1>6. FramesHold(Front(stack), hold, On, Want) /\ IdleHolds(Front(stack), hold, On, Want)
    BY <1>1, <1>2, <1>3, <1>4, <1>5, PopHolds DEF Top
  <1>7. On' = On /\ Want' = Want /\ hold' = hold /\ loadCount' = loadCount
    BY <1>1 DEF On, Want, databaseVars, loadVars
  <1> QED BY <1>1, <1>6, <1>7 DEF HoldState

LEMMA RegisterHolds ==
  ASSUME IInv, HoldState, NEW d \in Definitions, RegisterModule(d) PROVE HoldState'
  <1> DEFINE g == GroupOf[d.id]
  <1>1. /\ stack = <<>> /\ ~Contains(groupsLoaded, g)
        /\ groupModules' = [groupModules EXCEPT ![g] = IF Contains(@, d.id) THEN @ ELSE Append(@, d.id)]
        /\ UNCHANGED <<groupsLoaded, loadCount, explicit, hold, stack>>
    BY DEF RegisterModule, loadVars
  <1> HIDE DEF g
  <1>2. On' = On
    BY <1>1 DEF On
  <1>3. \A h \in On : Want'[h] = Want[h]
    <2> TAKE h \in On
    <2>1. CASE h \in Groups
      <3>1. h # g
        BY <1>1, <2>1 DEF On
      <3>2. groupModules'[h] = groupModules[h]
        BY <1>1, <2>1, <3>1 DEF IInv, Others
      <3> QED BY <2>1, <3>2 DEF On, Want
    <2>2. CASE h \notin Groups
      BY <1>1, <2>2 DEF On, Want
    <2> QED BY <2>1, <2>2
  <1>4. FramesHold(stack, hold, On, Want')
    <2>1. DOMAIN stack = {}
      BY <1>1
    <2> QED BY <2>1 DEF FramesHold
  <1>5. IdleHolds(stack, hold, On, Want')
    <2> DEFINE want == Want'
    <2>1. \A h \in On : want[h] = Want[h]
      BY <1>3
    <2> HIDE DEF want
    <2>2. IdleHolds(stack, hold, On, want)
      BY <2>1 DEF HoldState, IdleHolds
    <2> QED BY <2>2 DEF want
  <1> QED BY <1>1, <1>2, <1>4, <1>5 DEF HoldState

\* The calls, until clearDatabase.
Begins ==
  \/ \E g \in Groups : LoadModuleGroup(g) \/ UnloadModuleGroup(g)
  \/ \E id \in Ids : \E version \in Versions : LoadModuleExplicit(id, version)
  \/ \E s \in Slots : UnloadModuleExplicit(s)

LEMMA BeginHolds ==
  ASSUME VersionsAlike, Enforce, IInv, HoldInv, Begins PROVE HoldInv'
  <1>1. clearing = "no"
    BY DEF Begins, LoadModuleGroup, UnloadModuleGroup, LoadModuleExplicit, UnloadModuleExplicit, ScriptRuns
  <1>2. HoldState
    BY <1>1, HoldParts
  <1>3. HoldState'
    BY <1>2, LoadGroupHolds, UnloadGroupHolds, LoadExplicitHolds, UnloadExplicitHolds DEF Begins
  <1> QED BY <1>3 DEF HoldInv, HoldState, Held

LEMMA CallHolds ==
  ASSUME IInv, HoldInv, CallNext PROVE HoldInv'
  <1>1. clearing' = clearing
    BY DEF CallNext, LoadNext, UnloadNext, EndScript, EndCall
  <1>2. CASE clearing = "no"
    <2>1. HoldState
      BY <1>2, HoldParts
    <2>2. HoldState'
      BY <2>1, LoadNextHolds, UnloadNextHolds, EndScriptHolds, EndCallHolds DEF CallNext
    <2> QED BY <2>2 DEF HoldInv, HoldState, Held
  <1>3. CASE clearing # "no"
    BY <1>1, <1>3 DEF HoldInv
  <1> QED BY <1>2, <1>3

LEMMA StepHolds ==
  ASSUME VersionsAlike, Enforce, IInv, HoldInv, [Next]_vars PROVE HoldInv'
  <1>1. CASE Begins
    BY <1>1, BeginHolds
  <1>2. CASE CallNext
    BY <1>2, CallHolds
  <1>3. ASSUME NEW d \in Definitions, RegisterModule(d) PROVE HoldInv'
    <2>1. HoldState'
      BY <1>3, HoldParts, RegisterHolds DEF RegisterModule
    <2> QED BY <2>1 DEF HoldInv, HoldState, Held
  <1>4. ASSUME NEW d \in Definitions, UnregisterModule(d) PROVE HoldInv'
    BY <1>4, HoldKept DEF UnregisterModule, loadVars
  <1>5. CASE ClearDatabase
    BY <1>5 DEF ClearDatabase, HoldInv
  <1>6. CASE ClearNext
    <2>1. clearing' = "yes"
      BY <1>6 DEF ClearNext, ClearModules, UnloadGroup, UnloadExplicit
    <2> QED BY <2>1 DEF HoldInv
  <1>7. CASE EndClear
    BY <1>7 DEF EndClear, HoldInv
  <1>8. CASE UNCHANGED vars
    BY <1>8, HoldKept DEF vars, databaseVars, loadVars
  <1> QED BY <1>1, <1>2, <1>3, <1>4, <1>5, <1>6, <1>7, <1>8 DEF Next, Begins

LEMMA HoldsAlways == ASSUME VersionsAlike, Enforce PROVE Spec => [](IInv /\ HoldInv)
  <1>1. Init => IInv /\ HoldInv
    BY InitCorrect, InitHolds
  <1>2. IInv /\ HoldInv /\ [Next]_vars => (IInv /\ HoldInv)'
    BY StepCorrect, StepHolds
  <1> QED BY <1>1, <1>2, PTL DEF Spec

\* Resolving a group again to unload it gives the ids that were resolved to load
\* it, through versions that come and go: a definition's count is the number of
\* groups and explicit loads that hold it, and what is idle and not loaded holds
\* nothing.  (Until clearDatabase; with dependencies enforced and the same
\* dependencies in every version of a module.)
THEOREM CountsHeld == ASSUME VersionsAlike, Enforce PROVE Spec => []CountsAreHolds
  <1>1. IInv /\ HoldInv => CountsAreHolds
    <2> SUFFICES ASSUME IInv, HoldInv, clearing = "no"
                 PROVE  /\ \A d \in Definitions : loadCount[d] = Cardinality({h \in Holders : d \in hold[h]})
                        /\ \A g \in Groups : hold[g] # {} => Contains(groupsLoaded, g) \/ UnderWay(g)
                        /\ \A s \in Slots : hold[s] # {} => explicit[s] # NoId \/ UnderWay(s)
      BY DEF CountsAreHolds
    <2>1. HoldState
      BY HoldParts
    <2>2. \A d \in Definitions : loadCount[d] = Cardinality({h \in Holders : d \in hold[h]})
      BY <2>1 DEF HoldState, CountsMatch, HeldBy
    <2>3. \A h \in Holders : hold[h] # {} => h \in On \/ UnderWay(h)
      BY <2>1 DEF HoldState, IdleHolds, UnderWay
    <2>4. \A g \in Groups : g \in Holders /\ (g \in On => Contains(groupsLoaded, g))
      BY DEF Holders, On
    <2>5. \A s \in Slots : s \in Holders /\ (s \in On => explicit[s] # NoId)
      BY ModuleConstants DEF Holders, On
    <2> QED BY <2>2, <2>3, <2>4, <2>5
  <1> QED BY <1>1, HoldsAlways, PTL

-----------------------------------------------------------------------------
(* What is depended on is loaded.                                          *)

\* No module asks for a version that another version of what it names is not:
\* the engine's own modules come in one version each, and all ask for that.
AnyVersionFits ==
  \A d, e \in Definitions : \A dep \in Range(Dependencies[d]) :
    e.id = dep.id => dep.version \in {0, e.version}

LEMMA ReachableIsClosed ==
  ASSUME NEW W, NEW d \in Definitions, d.id \in Reachable(W)
  PROVE  DepIds(d) \subseteq Reachable(W)
  <1>1. DepIds(d) \subseteq Ids
    <2> SUFFICES ASSUME NEW dep \in Range(Dependencies[d]) PROVE dep.id \in Ids
      BY DEF DepIds
    <2>1. Dependencies[d] \in Seq(Wants)
      BY ModuleConstants
    <2>2. dep \in Wants
      BY <2>1 DEF Range
    <2> QED BY <2>2 DEF Wants
  <1> QED BY <1>1 DEF Reachable, Closed

\* A holder holds what the modules it holds depend on.
LEMMA HeldIsClosed ==
  ASSUME VersionsAlike, IInv, HoldState, NEW h \in Holders, NEW d \in hold[h]
  PROVE  DepIds(d) \subseteq IdsHeld(hold[h])
  <1>1. d \in Definitions /\ d.id \in IdsHeld(hold[h])
    BY HeldIsLoaded DEF IdsHeld
  <1>2. CASE \A n \in DOMAIN stack : stack[n].holder # h
    <2>1. IdsHeld(hold[h]) = Reachable(Want[h])
      BY <1>2 DEF HoldState, IdleHolds
    <2> QED BY <1>1, <2>1, ReachableIsClosed
  <1>3. ASSUME NEW n \in DOMAIN stack, stack[n].holder = h PROVE DepIds(d) \subseteq IdsHeld(hold[h])
    <2> DEFINE f == stack[n]
               N == Done(f)
    <2>1. FrameHolds(f, hold, On, Want)
      BY DEF HoldState, FramesHold
    <2>2. f.ready \in Seq(Definitions)
      <3>1. stack \in Seq(Calls)
        BY TypeFollows DEF TypeOK
      <3>2. f \in Calls
        BY <3>1
      <3> QED BY <3>2 DEF Calls
    <2>3. InOrder(f.ready) /\ N \in 0 .. Len(f.ready) /\ IdsHeld(hold[h]) = UpTo(f.ready, N)
      BY <1>3, <2>1 DEF FrameHolds
    <2> HIDE DEF f, N
    <2>4. PICK k \in 1 .. N : d.id = f.ready[k].id
      BY <1>1, <2>3 DEF UpTo
    <2>5. Len(f.ready) \in Nat
      BY <2>2
    <2>6. k \in 1 .. Len(f.ready) /\ \A j \in 1 .. k - 1 : j \in 1 .. N
      BY <2>3, <2>5
    <2>7. DepIds(f.ready[k]) \subseteq UpTo(f.ready, k - 1)
      BY <2>2, <2>3, <2>6, OneMoreId
    <2>8. UpTo(f.ready, k - 1) \subseteq UpTo(f.ready, N)
      BY <2>6 DEF UpTo
    <2>9. DepIds(d) = DepIds(f.ready[k])
      <3>1. f.ready[k] \in Definitions
        BY <2>2, <2>6
      <3> QED BY <1>1, <2>4, <3>1 DEF VersionsAlike
    <2> QED BY <2>3, <2>7, <2>8, <2>9
  <1> QED BY <1>2, <1>3

LEMMA HeldSatisfies ==
  ASSUME AnyVersionFits, IInv, HoldState, NEW h \in Holders, NEW d \in Definitions,
         DepIds(d) \subseteq IdsHeld(hold[h])
  PROVE  Satisfied(d)
  <1> SUFFICES ASSUME NEW dep \in Range(Dependencies[d])
               PROVE  \E e \in LoadedAs(dep.id) : dep.version \in {0, e.version}
    BY DEF Satisfied
  <1>1. dep.id \in IdsHeld(hold[h])
    BY DEF DepIds
  <1>2. PICK e \in hold[h] : e.id = dep.id
    BY <1>1 DEF IdsHeld
  <1>3. e \in Definitions /\ e \in LoadedAs(dep.id)
    BY <1>2, HeldIsLoaded
  <1>4. dep.version \in {0, e.version}
    BY <1>2, <1>3 DEF AnyVersionFits
  <1> QED BY <1>3, <1>4

\* Whatever a loaded module depends on is loaded, and was loaded when its script
\* was executed: groups that share modules may be loaded and unloaded within each
\* other, and versions come and go.  (Until clearDatabase.)
THEOREM DependenciesKept ==
  ASSUME VersionsAlike, AnyVersionFits, Enforce PROVE Spec => []DependenciesLoaded
  <1>1. IInv /\ HoldInv => DependenciesLoaded
    <2> SUFFICES ASSUME IInv, HoldInv, clearing = "no"
                 PROVE  /\ \A d \in Range(loaded) : Satisfied(d)
                        /\ stack # <<>> /\ Top.script => Satisfied(Top.ready[Top.next])
      BY DEF DependenciesLoaded
    <2>1. HoldState
      BY HoldParts
    <2>2. ASSUME NEW d \in Range(loaded) PROVE Satisfied(d)
      <3>1. d \in Definitions /\ loadCount[d] > 0
        BY DEF IInv, Counted, Listed, Range
      <3>2. loadCount[d] = Cardinality(HeldBy(d, hold))
        BY <2>1, <3>1 DEF HoldState, CountsMatch
      <3>3. HeldBy(d, hold) # {}
        BY <3>1, <3>2, FS_EmptySet
      <3>4. PICK h \in Holders : d \in hold[h]
        BY <3>3 DEF HeldBy
      <3>5. DepIds(d) \subseteq IdsHeld(hold[h])
        BY <2>1, <3>4, HeldIsClosed
      <3> QED BY <2>1, <3>1, <3>4, <3>5, HeldSatisfies
    <2>3. ASSUME stack # <<>>, Top.script PROVE Satisfied(Top.ready[Top.next])
      <3> DEFINE n == Top.next
                 N == Done(Top)
      <3>1. /\ FrameOf(Top, database) /\ Top.ready \in Seq(Definitions) /\ Len(Top.ready) \in Nat
            /\ Top.holder \in Holders /\ InOrder(Top.ready)
            /\ N \in 0 .. Len(Top.ready) /\ IdsHeld(hold[Top.holder]) = UpTo(Top.ready, N)
        BY <2>1, <2>3, TopHeld
      <3>2. n \in Nat /\ n >= 1 /\ Top.script \in BOOLEAN /\ Top.kind \in {"load", "unload"}
        BY <2>3, <3>1 DEF FrameOf
      <3>3. n \in 1 .. Len(Top.ready) /\ n - 1 =< N
        <4>1. CASE Top.kind = "load"
          <5>1. N = IF Top.script THEN n ELSE n - 1
            BY <3>2, <4>1, LoadDone
          <5>2. N = n
            BY <2>3, <5>1
          <5> QED BY <3>1, <3>2, <5>2
        <4>2. CASE Top.kind = "unload"
          <5>1. N = IF Top.script THEN n - 1 ELSE n
            BY <3>2, <4>2, UnloadDone
          <5>2. N = n - 1
            BY <2>3, <5>1
          <5>3. n =< Len(Top.ready)
            BY <3>1, <4>2 DEF FrameOf
          <5> QED BY <3>1, <3>2, <5>2, <5>3
        <4> QED BY <3>2, <4>1, <4>2
      <3>4. DepIds(Top.ready[n]) \subseteq UpTo(Top.ready, n - 1)
        BY <3>1, <3>3, OneMoreId
      <3>5. UpTo(Top.ready, n - 1) \subseteq UpTo(Top.ready, N)
        <4> HIDE DEF n, N
        <4>1. \A j \in 1 .. n - 1 : j \in 1 .. N
          BY <3>1, <3>2, <3>3
        <4> QED BY <4>1 DEF UpTo
      <3>6. Top.ready[n] \in Definitions
        BY <3>1, <3>3
      <3>7. DepIds(Top.ready[n]) \subseteq IdsHeld(hold[Top.holder])
        BY <3>1, <3>4, <3>5
      <3> QED BY <2>1, <3>1, <3>6, <3>7, HeldSatisfies
    <2> QED BY <2>2, <2>3
  <1> QED BY <1>1, HoldsAlways, PTL

-----------------------------------------------------------------------------
(* When resolving succeeds.                                                *)

\* Whatever version of a module there is will do.
Fits(dep) == \A e \in Definitions : e.id = dep.id => dep.version \in {0, e.version}

\* A module comes in some order of the registered ones behind all that it depends
\* on, and none of these is being resolved.
Placed(registered, id, resolving) ==
  \E s \in Seq(registered) : \E k \in 1 .. Len(s) :
    InOrder(s) /\ s[k].id = id /\ resolving \cap UpTo(s, k) = {}

InnerSucceeds(inner) ==
  \A queue \in Queues, d \in database :
    queue.ok /\ (\A id \in DepIds(d) : Placed(database, id, queue.resolving)) =>
      inner[<<queue, d>>].ok

LEMMA PlacedBehind ==
  ASSUME VersionsAlike, database \subseteq Definitions, NEW s \in Seq(database), InOrder(s),
         NEW k \in 1 .. Len(s), NEW d \in database, d.id = s[k].id,
         NEW resolving, resolving \cap UpTo(s, k) = {}, NEW id \in DepIds(d)
  PROVE  Placed(database, id, resolving \cup {d.id})
  <1>1. s \in Seq(Definitions) /\ Len(s) \in Nat
    OBVIOUS
  <1>2. s[k] \in Definitions /\ d \in Definitions
    BY <1>1
  <1>3. /\ UpTo(s, k) = UpTo(s, k - 1) \cup {s[k].id} /\ s[k].id \notin UpTo(s, k - 1)
        /\ DepIds(s[k]) \subseteq UpTo(s, k - 1)
    BY <1>1, OneMoreId
  <1>4. DepIds(d) = DepIds(s[k])
    BY <1>2 DEF VersionsAlike
  <1>5. PICK j \in 1 .. k - 1 : id = s[j].id
    BY <1>3, <1>4 DEF UpTo
  <1>6. j \in 1 .. Len(s) /\ \A i \in 1 .. j : i \in 1 .. k - 1
    BY <1>1
  <1>7. UpTo(s, j) \subseteq UpTo(s, k - 1)
    BY <1>6 DEF UpTo
  <1>8. (resolving \cup {d.id}) \cap UpTo(s, j) = {}
    BY <1>3, <1>7
  <1> QED BY <1>5, <1>6, <1>8 DEF Placed

LEMMA OneSucceeds ==
  ASSUME VersionsAlike, database \subseteq Definitions, NEW inner \in Resolvers, InnerSucceeds(inner),
         NEW queue \in Queues, queue.ok, NEW dep \in Wants, Fits(dep),
         Placed(database, dep.id, queue.resolving)
  PROVE  /\ ResolveOne(inner, queue, dep).ok
         /\ ResolveOne(inner, queue, dep).resolving = queue.resolving
  <1> DEFINE at      == {n \in DOMAIN queue.ready : queue.ready[n].def.id = dep.id}
             first   == CHOOSE n \in at : TRUE
             wanted  == {d \in database : d.id = dep.id /\ dep.version \in {0, d.version}}
             missing == IF Enforce THEN Failed(queue) ELSE queue
             inside  == [queue EXCEPT !.resolving = @ \cup {dep.id}]
             behind  == inner[<<inside, Latest(wanted)>>]
             result  == ResolveOne(inner, queue, dep)
  <1>1. PICK s \in Seq(database) : \E k \in 1 .. Len(s) :
          InOrder(s) /\ s[k].id = dep.id /\ queue.resolving \cap UpTo(s, k) = {}
    BY DEF Placed
  <1>2. PICK k \in 1 .. Len(s) :
          InOrder(s) /\ s[k].id = dep.id /\ queue.resolving \cap UpTo(s, k) = {}
    BY <1>1
  <1>3. s[k] \in database /\ s[k] \in Definitions
    OBVIOUS
  <1>4. s[k] \in wanted
    BY <1>2, <1>3 DEF Fits
  <1>5. Latest(wanted) \in database /\ Latest(wanted).id = dep.id
    <2>1. wanted \subseteq Definitions /\ wanted # {}
      BY <1>4
    <2> HIDE DEF wanted
    <2>2. Latest(wanted) \in wanted
      BY <2>1, LatestIsOne
    <2> QED BY <2>2 DEF wanted
  <1>6. dep.id \notin queue.resolving
    <2>1. k \in 1 .. k
      OBVIOUS
    <2> QED BY <1>2, <2>1 DEF UpTo
  <1>7. result = IF at # {}
        THEN IF dep.version \in {0, queue.ready[first].def.version} THEN queue
             ELSE IF queue.ready[first].strict THEN Failed(queue)
             ELSE IF wanted = {} THEN missing
             ELSE [queue EXCEPT !.ready[first] = [def |-> Latest(wanted), strict |-> TRUE]]
        ELSE IF dep.id \in queue.resolving THEN Failed(queue)
             ELSE IF wanted = {} THEN missing
             ELSE [behind EXCEPT !.resolving = queue.resolving,
                     !.ready = Append(@, [def |-> Latest(wanted), strict |-> FALSE])]
    BY DEF ResolveOne
  <1> HIDE DEF result, missing
  <1>8. CASE at # {}
    <2>1. first \in DOMAIN queue.ready /\ queue.ready[first].def.id = dep.id
      BY <1>8
    <2>2. queue.ready[first].def \in Definitions
      <3> HIDE DEF first
      <3>1. /\ DOMAIN queue.ready = 1 .. Len(queue.ready) /\ ReadyOf(queue) \in Seq(Definitions)
            /\ \A n \in 1 .. Len(queue.ready) : ReadyOf(queue)[n] = queue.ready[n].def
            /\ Len(ReadyOf(queue)) = Len(queue.ready)
        BY ReadyFacts
      <3> QED BY <2>1, <3>1
    <2>3. dep.version \in {0, queue.ready[first].def.version}
      BY <2>1, <2>2 DEF Fits
    <2>4. result = queue
      BY <1>7, <1>8, <2>3
    <2> QED BY <2>4 DEF result
  <1>9. CASE at = {}
    <2> DEFINE d == Latest(wanted)
               e == [def |-> d, strict |-> FALSE]
               last == [behind EXCEPT !.resolving = queue.resolving, !.ready = Append(@, e)]
    <2>1. result = last
      BY <1>4, <1>6, <1>7, <1>9
    <2>2. queue.resolving \in SUBSET Ids /\ dep.id \in Ids
      BY DEF Queues, Wants
    <2>3. inside \in Queues /\ inside.ok /\ inside.resolving = queue.resolving \cup {dep.id}
      BY <2>2 DEF Queues
    <2> HIDE DEF inside, wanted, at, first
    <2>4. d \in database /\ d.id = dep.id
      BY <1>5
    <2> HIDE DEF d
    <2>5. behind \in Queues
      BY <2>3, <2>4 DEF Resolvers, d
    <2>6. \A id \in DepIds(d) : Placed(database, id, queue.resolving \cup {d.id})
      BY <1>2, <2>4, PlacedBehind
    <2>7. \A id \in DepIds(d) : Placed(database, id, inside.resolving)
      BY <2>3, <2>4, <2>6
    <2>8. behind.ok
      BY <2>3, <2>4, <2>7 DEF InnerSucceeds, d
    <2> HIDE DEF behind, e
    <2>9. last.ok = behind.ok /\ last.resolving = queue.resolving
      BY <2>5 DEF Queues
    <2> QED BY <2>1, <2>8, <2>9 DEF result
  <1> QED BY <1>8, <1>9

LEMMA AllSucceeds ==
  ASSUME VersionsAlike, database \subseteq Definitions, NEW inner \in Resolvers, InnerSucceeds(inner),
         NEW queue \in Queues, queue.ok, NEW deps \in Seq(Wants),
         \A n \in DOMAIN deps : Fits(deps[n]) /\ Placed(database, deps[n].id, queue.resolving)
  PROVE  ResolveAll(inner, queue, deps).ok
  <1> DEFINE N == Len(deps)
             IsLoop(f) == f = [n \in 0 .. N |->
                                 IF n = 0 THEN queue
                                 ELSE IF f[n - 1].ok THEN ResolveOne(inner, f[n - 1], deps[n])
                                                     ELSE f[n - 1]]
             Good(q) == q.ok /\ q.resolving = queue.resolving
  <1>1. N \in Nat /\ DOMAIN deps = 1 .. N /\ \A n \in 1 .. N : deps[n] \in Wants
    OBVIOUS
  <1>2. PICK g \in [0 .. N -> Queues] : IsLoop(g) /\ ResolveAll(inner, queue, deps) = g[N]
    BY LoopOfAll
  <1>3. ASSUME NEW n \in 0 .. N PROVE Good(g[n])
    <2> DEFINE T == {k \in 0 .. N : ~Good(g[k])}
    <2> SUFFICES ASSUME T # {} PROVE FALSE
      OBVIOUS
    <2>1. PICK k \in T : \A j \in T : k =< j
      <3>1. T \subseteq Nat
        BY <1>1
      <3> HIDE DEF T
      <3> QED BY <3>1, LeastNumber
    <2>2. k \in 0 .. N /\ ~Good(g[k])
      BY <2>1
    <2>3. g[k] = IF k = 0 THEN queue
                 ELSE IF g[k - 1].ok THEN ResolveOne(inner, g[k - 1], deps[k]) ELSE g[k - 1]
      <3> HIDE DEF N
      <3> QED BY <1>2, <2>2
    <2>4. CASE k = 0
      BY <2>2, <2>3, <2>4
    <2>5. CASE k # 0
      <3>1. k \in 1 .. N /\ k - 1 \in 0 .. N /\ ~(k =< k - 1)
        BY <1>1, <2>2, <2>5
      <3>2. Good(g[k - 1]) /\ g[k - 1] \in Queues
        BY <1>2, <2>1, <3>1
      <3> DEFINE q == g[k - 1]
                 dep == deps[k]
      <3>3. /\ q \in Queues /\ q.ok /\ q.resolving = queue.resolving /\ dep \in Wants
            /\ Fits(dep) /\ Placed(database, dep.id, q.resolving)
        BY <1>1, <3>1, <3>2
      <3>4. g[k] = ResolveOne(inner, q, dep)
        BY <2>3, <2>5, <3>3
      <3> HIDE DEF q, dep
      <3>5. g[k].ok /\ g[k].resolving = q.resolving
        BY <3>3, <3>4, OneSucceeds
      <3> QED BY <2>2, <3>3, <3>5
    <2> QED BY <2>4, <2>5
  <1>4. Good(g[N])
    BY <1>1, <1>3
  <1> QED BY <1>2, <1>4

LEMMA DepthSucceeds ==
  ASSUME VersionsAlike, AnyVersionFits, database \subseteq Definitions,
         NEW g \in [0 .. Cardinality(Ids) -> Resolvers],
         g = [n \in 0 .. Cardinality(Ids) |->
                [p \in Queues \X database |->
                   IF n = 0 THEN p[1] ELSE ResolveAll(g[n - 1], p[1], Dependencies[p[2]])]]
  PROVE  InnerSucceeds(g[Cardinality(Ids)])
  <1> DEFINE N == Cardinality(Ids)
             IsLoop == g = [n \in 0 .. N |->
                [p \in Queues \X database |->
                   IF n = 0 THEN p[1] ELSE ResolveAll(g[n - 1], p[1], Dependencies[p[2]])]]
             T == {n \in 0 .. N : ~InnerSucceeds(g[n])}
  <1>1. N \in Nat
    BY IdsFinite
  <1>2. ASSUME T # {} PROVE FALSE
    <2>1. PICK k \in T : \A j \in T : k =< j
      <3>1. T \subseteq Nat
        BY <1>1
      <3> HIDE DEF T
      <3> QED BY <1>2, <3>1, LeastNumber
    <2>2. k \in 0 .. N /\ ~InnerSucceeds(g[k])
      BY <2>1
    <2>3. PICK queue \in Queues, d \in database :
            /\ queue.ok /\ \A id \in DepIds(d) : Placed(database, id, queue.resolving)
            /\ ~g[k][<<queue, d>>].ok
      BY <2>2 DEF InnerSucceeds
    <2>4. g[k][<<queue, d>>] = IF k = 0 THEN queue ELSE ResolveAll(g[k - 1], queue, Dependencies[d])
      <3>1. IsLoop
        OBVIOUS
      <3> HIDE DEF N
      <3>2. g[k] = [p \in Queues \X database |->
                      IF k = 0 THEN p[1] ELSE ResolveAll(g[k - 1], p[1], Dependencies[p[2]])]
        BY <2>2, <3>1
      <3> QED BY <3>2
    <2>5. k # 0
      BY <2>3, <2>4
    <2>6. k - 1 \in 0 .. N /\ ~(k =< k - 1)
      BY <1>1, <2>2, <2>5
    <2>7. InnerSucceeds(g[k - 1]) /\ g[k - 1] \in Resolvers
      BY <2>1, <2>6
    <2> DEFINE inner == g[k - 1]
               deps == Dependencies[d]
    <2>8. inner \in Resolvers /\ InnerSucceeds(inner) /\ deps \in Seq(Wants)
      BY <2>7, ModuleConstants
    <2>9. \A n \in DOMAIN deps : Fits(deps[n]) /\ deps[n].id \in DepIds(d)
      <3>1. \A n \in DOMAIN deps : deps[n] \in Range(deps)
        BY DEF Range
      <3>2. d \in Definitions
        OBVIOUS
      <3> QED BY <3>1, <3>2 DEF DepIds, AnyVersionFits, Fits
    <2> HIDE DEF inner, deps
    <2>10. ResolveAll(inner, queue, deps).ok
      BY <2>3, <2>8, <2>9, AllSucceeds
    <2> QED BY <2>3, <2>4, <2>5, <2>10 DEF inner, deps
  <1>3. N \in 0 .. N
    BY <1>1
  <1> HIDE DEF N
  <1> QED BY <1>2, <1>3 DEF N

LEMMA ResolvedSucceeds ==
  ASSUME VersionsAlike, AnyVersionFits, database \subseteq Definitions, NEW wants \in Seq(Wants),
         \A n \in DOMAIN wants : Fits(wants[n]) /\ Placed(database, wants[n].id, {})
  PROVE  Resolved(wants).ok
  <1> DEFINE N == Cardinality(Ids)
  <1>1. PICK g \in [0 .. N -> Resolvers] :
          /\ g = [n \in 0 .. N |->
                [p \in Queues \X database |->
                   IF n = 0 THEN p[1] ELSE ResolveAll(g[n - 1], p[1], Dependencies[p[2]])]]
          /\ \A w : Resolved(w) = ResolveAll(g[N], Nothing, w)
    BY LoopOfResolved
  <1>2. InnerSucceeds(g[N])
    BY <1>1, DepthSucceeds
  <1>3. g[N] \in Resolvers
    BY IdsFinite
  <1>4. Nothing \in Queues /\ Nothing.ok /\ Nothing.resolving = {}
    BY DEF Nothing, Queues
  <1> DEFINE inner == g[N]
  <1>5. inner \in Resolvers /\ InnerSucceeds(inner) /\ Resolved(wants) = ResolveAll(inner, Nothing, wants)
    BY <1>1, <1>2, <1>3
  <1> HIDE DEF inner
  <1>6. \A n \in DOMAIN wants : Fits(wants[n]) /\ Placed(database, wants[n].id, Nothing.resolving)
    BY <1>4
  <1>7. ResolveAll(inner, Nothing, wants).ok
    BY <1>4, <1>5, <1>6, AllSucceeds
  <1> QED BY <1>5, <1>7

-----------------------------------------------------------------------------
(* clearDatabase: what was resolved once can be resolved again.            *)

\* Modules come in one version each, as those of the engine do.
OneVersion == \A d, e \in Definitions : d.id = e.id => d = e

LEMMA OneIsAlike == OneVersion => VersionsAlike
  BY DEF OneVersion, VersionsAlike

LoadsInOrder(frames) == \A n \in DOMAIN frames : frames[n].kind = "load" => InOrder(frames[n].ready)

ListPlaced(registered, list) == \A d \in Range(list) : Placed(registered, d.id, {})

GroupsPlaced(registered, groups, modules) ==
  \A g \in Range(groups) : \A id \in Range(modules[g]) : Placed(registered, id, {})

ClearInv ==
  /\ LoadsInOrder(stack)
  /\ ListPlaced(database, loaded)
  /\ GroupsPlaced(database, groupsLoaded, groupModules)

LEMMA PlacedInOrder ==
  ASSUME NEW registered, NEW s \in Seq(registered), InOrder(s), NEW id \in UpTo(s, Len(s))
  PROVE  Placed(registered, id, {})
  <1>1. PICK k \in 1 .. Len(s) : s[k].id = id
    BY DEF UpTo
  <1> QED BY <1>1 DEF Placed

LEMMA PlacedStays ==
  ASSUME NEW registered, NEW more, registered \subseteq more, NEW id, Placed(registered, id, {})
  PROVE  Placed(more, id, {})
  <1>1. PICK s \in Seq(registered) : \E k \in 1 .. Len(s) : InOrder(s) /\ s[k].id = id
    BY DEF Placed
  <1>2. s \in Seq(more)
    OBVIOUS
  <1> QED BY <1>1, <1>2 DEF Placed

LEMMA WantedIsReachable == ASSUME NEW W, W \subseteq Ids PROVE W \subseteq Reachable(W)
  BY DEF Reachable

LEMMA InitClear == Init => ClearInv
  <1> SUFFICES ASSUME Init PROVE ClearInv
    OBVIOUS
  <1>1. DOMAIN stack = {} /\ Range(loaded) = {} /\ Range(groupsLoaded) = {}
    BY DEF Init, Range
  <1> QED BY <1>1 DEF ClearInv, LoadsInOrder, ListPlaced, GroupsPlaced

LEMMA CallInOrder ==
  ASSUME NEW S, NEW frames \in Seq(S), NEW f \in S, LoadsInOrder(frames),
         f.kind = "load" => InOrder(f.ready)
  PROVE  LoadsInOrder(Append(frames, f))
  <1> DEFINE N == Len(frames)
             t == Append(frames, f)
  <1>1. /\ N \in Nat /\ DOMAIN frames = 1 .. N /\ DOMAIN t = 1 .. N + 1
        /\ t[N + 1] = f /\ \A n \in 1 .. N : t[n] = frames[n]
    OBVIOUS
  <1> HIDE DEF N, t
  <1>2. \A n \in 1 .. N + 1 : n = N + 1 \/ n \in 1 .. N
    BY <1>1
  <1>3. LoadsInOrder(t)
    BY <1>1, <1>2 DEF LoadsInOrder
  <1> QED BY <1>3 DEF t

LEMMA LoadKeepsOrder ==
  ASSUME IInv, LoadsInOrder(stack), NEW holder \in Holders, NEW resolved,
         ReadyOf(resolved) \in Seq(Definitions), InOrder(ReadyOf(resolved)), Load(holder, resolved)
  PROVE  LoadsInOrder(stack')
  <1> DEFINE f == [kind |-> "load", holder |-> holder, ready |-> ReadyOf(resolved),
                   next |-> 1, script |-> FALSE]
  <1>1. f \in Calls /\ f.ready = ReadyOf(resolved)
    BY DEF Calls
  <1>2. stack' = Append(stack, f)
    BY DEF Load
  <1>3. stack \in Seq(Calls)
    BY TypeFollows DEF TypeOK
  <1> HIDE DEF f
  <1> QED BY <1>1, <1>2, <1>3, CallInOrder

LEMMA UnloadKeepsOrder ==
  ASSUME IInv, LoadsInOrder(stack), NEW holder \in Holders \cup {NoId}, NEW resolved,
         ReadyOf(resolved) \in Seq(Definitions), Len(resolved.ready) \in Nat, Unload(holder, resolved)
  PROVE  LoadsInOrder(stack')
  <1> DEFINE f == [kind |-> "unload", holder |-> holder, ready |-> ReadyOf(resolved),
                   next |-> Len(resolved.ready), script |-> FALSE]
  <1>1. f \in Calls /\ f.kind # "load"
    BY DEF Calls
  <1>2. stack' = Append(stack, f)
    BY DEF Unload
  <1>3. stack \in Seq(Calls)
    BY TypeFollows DEF TypeOK
  <1> HIDE DEF f
  <1> QED BY <1>1, <1>2, <1>3, CallInOrder

LEMMA TopInOrder ==
  ASSUME IInv, LoadsInOrder(stack), stack # <<>>, NEW next, NEW script
  PROVE  LoadsInOrder(TopWith(next, script))
  <1> DEFINE f == [Top EXCEPT !.next = next, !.script = script]
             t == TopWith(next, script)
             N == Len(stack)
  <1>1. N \in Nat /\ Top \in Calls /\ N \in 1 .. N
    BY TopFacts
  <1>2. f.kind = Top.kind /\ f.ready = Top.ready
    BY <1>1 DEF Calls
  <1>3. stack \in Seq(Calls)
    BY TypeFollows DEF TypeOK
  <1>4. DOMAIN stack = 1 .. N
    BY <1>3
  <1>5. t = [stack EXCEPT ![N] = f]
    BY DEF TopWith, Top
  <1>6. stack[N] = Top
    BY DEF Top
  <1> HIDE DEF f, t, N
  <1>7. DOMAIN t = DOMAIN stack /\ \A n \in DOMAIN stack : t[n] = IF n = N THEN f ELSE stack[n]
    BY <1>4, <1>5
  <1>8. LoadsInOrder(t)
    BY <1>1, <1>2, <1>4, <1>6, <1>7 DEF LoadsInOrder
  <1> QED BY <1>8 DEF t

LEMMA LoadGroupClear ==
  ASSUME OneVersion, Enforce, IInv, ClearInv, NEW g \in Groups, LoadModuleGroup(g)
  PROVE  ClearInv'
  <1> DEFINE ready == ReadyOf(GroupResolved(g))
  <1>1. /\ Compatible(GroupResolved(g)) /\ Load(g, GroupResolved(g))
        /\ groupsLoaded' = Append(groupsLoaded, g)
        /\ UNCHANGED <<database, groupModules, loaded>>
    BY DEF LoadModuleGroup, databaseVars
  <1>2. TypeOK /\ g \in Holders
    BY TypeFollows DEF Holders
  <1>3. /\ ready \in Seq(database) /\ ready \in Seq(Definitions) /\ InOrder(ready)
        /\ UpTo(ready, Len(ready)) = Reachable(Range(groupModules[g]))
    <2>1. ready \in Seq(database) /\ Len(ready) = Len(GroupResolved(g).ready)
      BY <1>2, GroupReady
    <2>2. InOrder(ready) /\ UpTo(ready, Len(GroupResolved(g).ready)) = Reachable(Range(groupModules[g]))
      BY <1>1, <1>2, OneIsAlike, GroupNeeds
    <2>3. ready \in Seq(Definitions)
      BY <1>2, <2>1 DEF TypeOK
    <2> HIDE DEF ready
    <2> QED BY <2>1, <2>2, <2>3
  <1>4. LoadsInOrder(stack')
    BY <1>1, <1>2, <1>3, LoadKeepsOrder DEF ClearInv
  <1>5. \A id \in Range(groupModules[g]) : Placed(database, id, {})
    <2>1. Range(groupModules[g]) \subseteq Ids
      BY <1>2 DEF TypeOK, Range
    <2> HIDE DEF ready
    <2>2. Range(groupModules[g]) \subseteq UpTo(ready, Len(ready))
      BY <1>3, <2>1, WantedIsReachable
    <2> QED BY <1>3, <2>2, PlacedInOrder
  <1>6. \A h \in Range(groupsLoaded') : h = g \/ h \in Range(groupsLoaded)
    <2> DEFINE N == Len(groupsLoaded)
    <2>1. /\ N \in Nat /\ DOMAIN groupsLoaded' = 1 .. N + 1 /\ DOMAIN groupsLoaded = 1 .. N
          /\ groupsLoaded'[N + 1] = g /\ \A n \in 1 .. N : groupsLoaded'[n] = groupsLoaded[n]
      BY <1>1, <1>2 DEF TypeOK
    <2> HIDE DEF N
    <2>2. \A n \in 1 .. N + 1 : n = N + 1 \/ n \in 1 .. N
      BY <2>1
    <2> QED BY <2>1, <2>2 DEF Range
  <1>7. GroupsPlaced(database, groupsLoaded', groupModules)
    BY <1>5, <1>6 DEF ClearInv, GroupsPlaced
  <1> QED BY <1>1, <1>4, <1>7 DEF ClearInv

LEMMA LoadExplicitClear ==
  ASSUME OneVersion, Enforce, IInv, ClearInv, NEW id \in Ids, NEW version \in Versions,
         LoadModuleExplicit(id, version)
  PROVE  ClearInv'
  <1> DEFINE free == {s \in Slots : explicit[s] = NoId /\ ~UnderWay(s)}
             slot == CHOOSE s \in free : \A t \in free : s =< t
             ready == ReadyOf(ModuleResolved(id, version))
  <1>1. /\ free # {} /\ Compatible(ModuleResolved(id, version))
        /\ Load(slot, ModuleResolved(id, version))
        /\ UNCHANGED <<database, groupModules, groupsLoaded, loaded>>
    BY DEF LoadModuleExplicit, databaseVars
  <1>2. slot \in Holders
    <2>1. free # {} /\ free \subseteq Nat /\ free \subseteq Slots
      BY <1>1 DEF Slots
    <2> HIDE DEF free
    <2>2. \E s \in free : \A t \in free : s =< t
      BY <2>1, LeastNumber
    <2> QED BY <2>1, <2>2 DEF Holders
  <1>3. ready \in Seq(Definitions) /\ InOrder(ready)
    <2>1. TypeOK /\ version \in Nat
      BY TypeFollows, ModuleConstants DEF Versions
    <2>2. ready \in Seq(database)
      BY <2>1, ModuleReady
    <2>3. InOrder(ready)
      BY <1>1, <2>1, OneIsAlike, ModuleNeeds
    <2> QED BY <2>1, <2>2, <2>3 DEF TypeOK
  <1> HIDE DEF slot, free
  <1>4. LoadsInOrder(stack')
    BY <1>1, <1>2, <1>3, LoadKeepsOrder DEF ClearInv
  <1> QED BY <1>1, <1>4 DEF ClearInv

LEMMA UnloadGroupClear ==
  ASSUME IInv, ClearInv, NEW g \in Groups, UnloadGroup(g) PROVE ClearInv'
  <1>1. /\ Contains(groupsLoaded, g) /\ Unload(g, GroupResolved(g))
        /\ groupsLoaded' = EraseFast(groupsLoaded, g)
        /\ UNCHANGED <<database, groupModules, loaded>>
    BY DEF UnloadGroup, databaseVars
  <1>2. TypeOK /\ g \in Holders \cup {NoId}
    BY TypeFollows DEF Holders
  <1>3. ReadyOf(GroupResolved(g)) \in Seq(Definitions) /\ Len(GroupResolved(g).ready) \in Nat
    BY <1>2, GroupReady DEF TypeOK
  <1>4. LoadsInOrder(stack')
    BY <1>1, <1>2, <1>3, UnloadKeepsOrder DEF ClearInv
  <1>5. Range(groupsLoaded') = Range(groupsLoaded) \ {g}
    BY <1>1, <1>2, ErasedFast DEF TypeOK
  <1> QED BY <1>1, <1>4, <1>5 DEF ClearInv, GroupsPlaced

LEMMA UnloadExplicitClear ==
  ASSUME IInv, ClearInv, NEW id \in Ids, NEW holder \in Holders \cup {NoId}, UnloadExplicit(id, holder)
  PROVE  ClearInv'
  <1> DEFINE version == (CHOOSE d \in LoadedAs(id) : TRUE).version
             resolved == ModuleResolved(id, version)
  <1>1. /\ LoadedAs(id) # {} /\ Unload(holder, resolved)
        /\ UNCHANGED <<database, groupModules, groupsLoaded, loaded>>
    BY DEF UnloadExplicit, databaseVars
  <1>2. TypeOK /\ version \in Nat
    BY <1>1, TypeFollows, VersionIsNat
  <1> HIDE DEF version
  <1>3. ReadyOf(resolved) \in Seq(Definitions) /\ Len(resolved.ready) \in Nat
    BY <1>2, ModuleReady DEF TypeOK
  <1> HIDE DEF resolved
  <1>4. LoadsInOrder(stack')
    BY <1>1, <1>3, UnloadKeepsOrder DEF ClearInv
  <1> QED BY <1>1, <1>4 DEF ClearInv

LEMMA CallClear == ASSUME OneVersion, IInv, ClearInv, CallNext PROVE ClearInv'
  <1>1. stack # <<>> /\ UNCHANGED <<database, groupModules, groupsLoaded>>
    BY DEF CallNext, LoadNext, UnloadNext, EndScript, EndCall, databaseVars, loadVars
  <1>2. TypeOK
    BY TypeFollows
  <1>3. LoadsInOrder(stack')
    <2>1. CASE \E next, script : stack' = TopWith(next, script)
      BY <1>1, <2>1, TopInOrder DEF ClearInv
    <2>2. CASE EndCall
      <3>1. stack' = Front(stack) /\ stack \in Seq(Calls)
        BY <1>2, <2>2 DEF EndCall, TypeOK
      <3>2. /\ DOMAIN Front(stack) = 1 .. Len(stack) - 1 /\ DOMAIN stack = 1 .. Len(stack)
            /\ \A n \in 1 .. Len(stack) - 1 : Front(stack)[n] = stack[n]
            /\ Len(stack) \in Nat
        BY <1>1, <3>1, FrontIsShorter
      <3>3. \A n \in 1 .. Len(stack) - 1 : n \in 1 .. Len(stack)
        BY <3>2
      <3> QED BY <3>1, <3>2, <3>3 DEF ClearInv, LoadsInOrder
    <2>3. CASE LoadNext
      BY <2>1, <2>3 DEF LoadNext
    <2>4. CASE UnloadNext
      BY <2>1, <2>4 DEF UnloadNext
    <2>5. CASE EndScript
      BY <2>1, <2>5 DEF EndScript
    <2> QED BY <2>2, <2>3, <2>4, <2>5 DEF CallNext
  <1>4. ListPlaced(database, loaded')
    <2>1. CASE LoadNext
      <3> DEFINE d == Top.ready[Top.next]
      <3>1. /\ Top.kind = "load" /\ Top.next =< Len(Top.ready)
            /\ loaded' = loaded \/ loaded' = Append(loaded, d)
        BY <2>1 DEF LoadNext
      <3>2. FrameOf(Top, database) /\ Len(stack) \in 1 .. Len(stack)
        BY <1>1, TopFacts
      <3>3. Top.ready \in Seq(database) /\ Top.next \in Nat /\ Top.next >= 1
        BY <3>1, <3>2 DEF FrameOf
      <3>4. Len(Top.ready) \in Nat
        BY <3>3
      <3>5. Top.next \in 1 .. Len(Top.ready)
        BY <3>1, <3>3, <3>4
      <3>6. InOrder(Top.ready)
        <4>1. Len(stack) \in DOMAIN stack
          BY <1>2, <3>2 DEF TypeOK
        <4> QED BY <3>1, <4>1 DEF ClearInv, LoadsInOrder, Top
      <3>7. d.id \in UpTo(Top.ready, Len(Top.ready))
        BY <3>5 DEF UpTo
      <3>8. Placed(database, d.id, {})
        BY <3>3, <3>6, <3>7, PlacedInOrder
      <3>9. d \in database
        BY <3>3, <3>5
      <3> HIDE DEF d
      <3>10. \A e \in Range(loaded') : e = d \/ e \in Range(loaded)
        <4>1. CASE loaded' = loaded
          BY <4>1
        <4>2. CASE loaded' = Append(loaded, d)
          <5> DEFINE N == Len(loaded)
          <5>1. /\ N \in Nat /\ DOMAIN loaded' = 1 .. N + 1 /\ DOMAIN loaded = 1 .. N
                /\ loaded'[N + 1] = d /\ \A n \in 1 .. N : loaded'[n] = loaded[n]
            BY <1>2, <3>9, <4>2 DEF TypeOK
          <5> HIDE DEF N
          <5>2. \A n \in 1 .. N + 1 : n = N + 1 \/ n \in 1 .. N
            BY <5>1
          <5> QED BY <5>1, <5>2 DEF Range
        <4> QED BY <3>1, <4>1, <4>2
      <3> QED BY <3>8, <3>10 DEF ClearInv, ListPlaced
    <2>2. CASE UnloadNext
      <3> DEFINE d == Top.ready[Top.next]
                 counted == CHOOSE e \in LoadedAs(d.id) : TRUE
      <3>1. \/ loaded' = loaded
            \/ LoadedAs(d.id) # {} /\ loaded' = EraseFast(loaded, counted)
        BY <2>2 DEF UnloadNext
      <3>2. CASE LoadedAs(d.id) # {} /\ loaded' = EraseFast(loaded, counted)
        <4>1. counted \in Range(loaded)
          BY <3>2, LoadedAsOne
        <4> HIDE DEF counted, d
        <4>2. loaded \in Seq(database) /\ IsInjective(loaded)
          BY DEF IInv, Counted, Listed, IsInjective
        <4>3. Contains(loaded, counted)
          BY <4>1, <4>2, ContainsIsRange
        <4>4. Range(loaded') = Range(loaded) \ {counted}
          BY <3>2, <4>2, <4>3, ErasedFast
        <4> QED BY <4>4 DEF ClearInv, ListPlaced
      <3>3. CASE loaded' = loaded
        BY <3>3 DEF ClearInv
      <3> QED BY <3>1, <3>2, <3>3
    <2>3. CASE EndScript \/ EndCall
      <3>1. loaded' = loaded
        BY <2>3 DEF EndScript, EndCall, loadVars
      <3> QED BY <3>1 DEF ClearInv
    <2> QED BY <2>1, <2>2, <2>3 DEF CallNext
  <1> QED BY <1>1, <1>3, <1>4 DEF ClearInv

LEMMA RegisterClear ==
  ASSUME IInv, ClearInv, NEW d \in Definitions, RegisterModule(d) PROVE ClearInv'
  <1> DEFINE g == GroupOf[d.id]
  <1>1. /\ ~Contains(groupsLoaded, g) /\ database' = database \cup {d}
        /\ groupModules' = [groupModules EXCEPT ![g] = IF Contains(@, d.id) THEN @ ELSE Append(@, d.id)]
        /\ UNCHANGED <<stack, loaded, groupsLoaded>>
    BY DEF RegisterModule, loadVars
  <1> HIDE DEF g
  <1>2. \A id : Placed(database, id, {}) => Placed(database', id, {})
    <2> DEFINE more == database'
    <2>1. database \subseteq more
      BY <1>1
    <2> HIDE DEF more
    <2>2. \A id : Placed(database, id, {}) => Placed(more, id, {})
      BY <2>1, PlacedStays
    <2> QED BY <2>2 DEF more
  <1>3. \A h \in Range(groupsLoaded) : groupModules'[h] = groupModules[h]
    <2>1. groupsLoaded \in Seq(Groups) /\ groupModules \in [Groups -> Seq(Ids)]
      BY DEF IInv, Others
    <2>2. g \notin Range(groupsLoaded)
      BY <1>1, <2>1, ContainsIsRange
    <2>3. Range(groupsLoaded) \subseteq Groups
      BY <2>1 DEF Range
    <2> QED BY <1>1, <2>1, <2>2, <2>3
  <1>4. ListPlaced(database', loaded)
    BY <1>2 DEF ClearInv, ListPlaced
  <1>5. GroupsPlaced(database', groupsLoaded, groupModules')
    BY <1>2, <1>3 DEF ClearInv, GroupsPlaced
  <1> QED BY <1>1, <1>4, <1>5 DEF ClearInv

LEMMA ClearInvStep ==
  ASSUME OneVersion, Enforce, IInv, ClearInv, [Next]_vars PROVE ClearInv'
  <1>1. CASE \E g \in Groups : LoadModuleGroup(g) \/ UnloadModuleGroup(g)
    BY <1>1, LoadGroupClear, UnloadGroupClear DEF UnloadModuleGroup
  <1>2. CASE \E id \in Ids : \E version \in Versions : LoadModuleExplicit(id, version)
    BY <1>2, LoadExplicitClear
  <1>3. ASSUME NEW s \in Slots, UnloadModuleExplicit(s) PROVE ClearInv'
    <2>1. explicit[s] \in Ids /\ s \in Holders \cup {NoId}
      BY <1>3 DEF IInv, Others, UnloadModuleExplicit, Holders
    <2> QED BY <1>3, <2>1, UnloadExplicitClear DEF UnloadModuleExplicit
  <1>4. CASE CallNext
    BY <1>4, CallClear
  <1>5. ASSUME NEW d \in Definitions, RegisterModule(d) PROVE ClearInv'
    BY <1>5, RegisterClear
  <1>6. ASSUME NEW d \in Definitions, UnregisterModule(d) PROVE ClearInv'
    <2>1. database \subseteq Definitions
      BY DEF IInv, Counted
    <2> QED BY <1>6, <2>1 DEF UnregisterModule, OneVersion
  <1>7. CASE ClearDatabase
    BY <1>7 DEF ClearDatabase, ClearInv, databaseVars, loadVars
  <1>8. CASE ClearNext
    <2>1. CASE groupsLoaded # <<>> /\ UnloadGroup(Head(groupsLoaded))
      <3>1. Head(groupsLoaded) \in Groups
        BY <2>1 DEF IInv, Others
      <3> QED BY <2>1, <3>1, UnloadGroupClear
    <2>2. CASE loaded # <<>> /\ ClearModules
      <3>1. Head(loaded).id \in Ids /\ NoId \in Holders \cup {NoId}
        BY <2>2 DEF IInv, Counted, Ids
      <3> QED BY <2>2, <3>1, UnloadExplicitClear DEF ClearModules
    <2> QED BY <1>8, <2>1, <2>2 DEF ClearNext
  <1>9. CASE EndClear
    <2>1. stack' = <<>> /\ loaded' = <<>> /\ groupsLoaded' = <<>>
      BY <1>9 DEF EndClear, loadVars
    <2>2. DOMAIN stack' = {} /\ Range(loaded') = {} /\ Range(groupsLoaded') = {}
      BY <2>1 DEF Range
    <2> QED BY <2>2 DEF ClearInv, LoadsInOrder, ListPlaced, GroupsPlaced
  <1>10. CASE UNCHANGED vars
    BY <1>10 DEF vars, databaseVars, loadVars, ClearInv
  <1> QED BY <1>1, <1>2, <1>3, <1>4, <1>5, <1>6, <1>7, <1>8, <1>9, <1>10 DEF Next

\* Nothing is refused for what is loaded in another version.
LEMMA NoneRefused ==
  ASSUME OneVersion, TypeOK, NEW resolved, resolved.ok, ReadyOf(resolved) \in Seq(database)
  PROVE  Compatible(resolved)
  <1>1. ASSUME NEW d \in Range(ReadyOf(resolved)), NEW e \in LoadedAs(d.id) PROVE e = d
    <2>1. d \in Definitions
      BY DEF Range, TypeOK
    <2>2. e \in Definitions /\ e.id = d.id
      BY DEF LoadedAs, Range, TypeOK
    <2> QED BY <2>1, <2>2 DEF OneVersion
  <1> QED BY <1>1 DEF Compatible

\* The call that clearDatabase makes next is not refused, and gives back what it is
\* made for: at any time, and also if definitions came while modules were loaded.
FirstCanGo ==
  /\ groupsLoaded # <<>> => Compatible(GroupResolved(Head(groupsLoaded)))
  /\ groupsLoaded = <<>> /\ loaded # <<>> =>
       LET resolved == ModuleResolved(Head(loaded).id, Head(loaded).version)
       IN  Compatible(resolved) /\ Contains(ReadyOf(resolved), Head(loaded))

\* With modules that come in one version each, no call of clearDatabase is refused
\* and each gives back what it is made for: a definition that comes while
\* modules are loaded does not disturb it, whatever scripts have done before.
THEOREM ClearIsNeverRefused ==
  ASSUME OneVersion, AnyVersionFits, Enforce PROVE Spec => [](FirstCanGo /\ ClearGoesOn)
  <1>1. IInv /\ ClearInv => FirstCanGo
    <2> SUFFICES ASSUME IInv, ClearInv
                 PROVE  FirstCanGo
      OBVIOUS
    <2>1. TypeOK /\ VersionsAlike /\ database \subseteq Definitions
      BY TypeFollows, OneIsAlike DEF TypeOK
    <2>2. ASSUME groupsLoaded # <<>> PROVE Compatible(GroupResolved(Head(groupsLoaded)))
      <3> DEFINE g == Head(groupsLoaded)
                 wants == [n \in DOMAIN groupModules[g] |-> Wanted(groupModules[g][n], 0)]
      <3>1. g \in Groups /\ g \in Range(groupsLoaded)
        BY <2>1, <2>2 DEF TypeOK, Range
      <3> HIDE DEF g
      <3>2. groupModules[g] \in Seq(Ids)
        BY <2>1, <3>1 DEF TypeOK
      <3>3. wants \in Seq(Wants)
        <4>1. \A n \in 1 .. Len(groupModules[g]) : Wanted(groupModules[g][n], 0) \in Wants
          BY <3>2 DEF Wanted, Wants
        <4> QED BY <3>2, <4>1
      <3>4. \A n \in DOMAIN wants : Fits(wants[n]) /\ Placed(database, wants[n].id, {})
        <4> SUFFICES ASSUME NEW n \in DOMAIN groupModules[g]
                     PROVE  Fits(wants[n]) /\ Placed(database, wants[n].id, {})
          OBVIOUS
        <4>1. wants[n].id = groupModules[g][n] /\ wants[n].version = 0
          BY DEF Wanted
        <4>2. groupModules[g][n] \in Range(groupModules[g])
          BY DEF Range
        <4> QED BY <3>1, <4>1, <4>2 DEF Fits, ClearInv, GroupsPlaced
      <3>5. GroupResolved(g) = Resolved(wants)
        BY DEF GroupResolved
      <3> HIDE DEF wants
      <3>6. GroupResolved(g).ok
        BY <2>1, <3>3, <3>4, <3>5, ResolvedSucceeds
      <3>7. ReadyOf(GroupResolved(g)) \in Seq(database)
        BY <2>1, <3>1, GroupReady
      <3>8. Compatible(GroupResolved(g))
        BY <2>1, <3>6, <3>7, NoneRefused
      <3> QED BY <3>8 DEF g
    <2>3. ASSUME loaded # <<>>
          PROVE  LET resolved == ModuleResolved(Head(loaded).id, Head(loaded).version)
                 IN  Compatible(resolved) /\ Contains(ReadyOf(resolved), Head(loaded))
      <3> DEFINE h == Head(loaded)
                 wants == <<Wanted(h.id, h.version)>>
                 resolved == ModuleResolved(h.id, h.version)
                 ready == ReadyOf(resolved)
      <3>1. h \in Range(loaded) /\ h \in database
        BY <2>1, <2>3 DEF TypeOK, Range
      <3> HIDE DEF h
      <3>2. h \in Definitions /\ h.id \in Ids /\ h.version \in Nat
        BY <2>1, <3>1, ModuleConstants DEF Ids
      <3>3. wants \in Seq(Wants) /\ DOMAIN wants = {1} /\ wants[1].id = h.id /\ wants[1].version = h.version
        BY <3>2 DEF Wanted, Wants
      <3>4. resolved = Resolved(wants)
        BY DEF ModuleResolved
      <3> HIDE DEF wants
      <3>5. Fits(wants[1]) /\ Placed(database, wants[1].id, {})
        BY <3>1, <3>2, <3>3 DEF Fits, OneVersion, ClearInv, ListPlaced
      <3>6. resolved.ok
        BY <2>1, <3>3, <3>4, <3>5, ResolvedSucceeds
      <3>7. ready \in Seq(database) /\ Len(ready) = Len(resolved.ready)
        BY <2>1, <3>2, ModuleReady
      <3>8. Compatible(resolved)
        <4> HIDE DEF resolved
        <4> QED BY <2>1, <3>6, <3>7, NoneRefused
      <3>9. UpTo(ready, Len(resolved.ready)) = Reachable({h.id})
        BY <2>1, <3>2, <3>8, ModuleNeeds
      <3>10. h.id \in UpTo(ready, Len(ready))
        BY <3>2, <3>7, <3>9, WantedIsReachable
      <3> HIDE DEF resolved, ready
      <3>11. PICK k \in 1 .. Len(ready) : h.id = ready[k].id
        BY <3>10 DEF UpTo
      <3>12. ready[k] \in Definitions
        BY <2>1, <3>7
      <3>13. ready[k] = h
        BY <3>2, <3>11, <3>12 DEF OneVersion
      <3>14. Contains(ready, h)
        BY <3>13 DEF Contains
      <3> QED BY <3>8, <3>14 DEF h, resolved, ready
    <2> QED BY <2>2, <2>3 DEF FirstCanGo
  <1>2. FirstCanGo => ClearGoesOn
    BY DEF FirstCanGo, ClearGoesOn
  <1>3. Init => IInv /\ ClearInv
    BY InitCorrect, InitClear
  <1>4. IInv /\ ClearInv /\ [Next]_vars => (IInv /\ ClearInv)'
    BY StepCorrect, ClearInvStep
  <1> QED BY <1>1, <1>2, <1>3, <1>4, PTL DEF Spec
=============================================================================
