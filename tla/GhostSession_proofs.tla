-------------------------- MODULE GhostSession_proofs --------------------------
(***************************************************************************)
(* When normal ghosting starts, both ends have the same ghosts, and files  *)
(* are downloaded whole, for any objects, files, number of indices and     *)
(* number of sessions.                                                     *)
(***************************************************************************)
EXTENDS GhostSession, FiniteSetTheorems, NaturalsInduction, SequenceTheorems, TLAPS

-----------------------------------------------------------------------------
(* The invariant.                                                          *)

Ends(m)   == m.type = "EndGhosting"
Brings(m) == m.type = "GhostAlwaysObject"
Closes(m) == m.type = "GhostAlwaysDone"

\* The event at k comes before any end of ghosting: it is of the session the
\* client is in.
Now(c, k) == \A j \in DOMAIN c : j < k => ~Ends(c[j])

\* No end of ghosting comes behind it: it is of the server's last session.
Latest(c, k) == \A j \in DOMAIN c : j >= k => ~Ends(c[j])

\* No end is coming: what the client has is of the server's last session.
Current(c) == \A j \in DOMAIN c : ~Ends(c[j])

\* There is an end between two events.
EndBetween(c, j, k) == \E e \in DOMAIN c : j < e /\ e < k /\ Ends(c[e])

\* In a session an index is given once, behind the last object comes the event
\* that says so, and once, with the number of the session.
ChannelInv(c, number, active) ==
  /\ \A j, k \in DOMAIN c : j < k /\ Brings(c[j]) /\ Brings(c[k]) /\ c[j].index = c[k].index =>
       EndBetween(c, j, k)
  /\ \A j, k \in DOMAIN c : j < k /\ Closes(c[j]) /\ (Brings(c[k]) \/ Closes(c[k])) =>
       EndBetween(c, j, k)
  /\ \A k \in DOMAIN c : Closes(c[k]) =>
       /\ c[k].sequence # 0 /\ c[k].sequence =< number
       /\ c[k].sequence = number => active
       /\ c[k].sequence = number <=> Latest(c, k)

\* An object of the list waits to be registered.
Waits(list, k) == k \in DOMAIN list /\ list[k] # ListEnd

\* An object waits for the index i.
Awaited(list, i) == \E k \in DOMAIN list : Waits(list, k) /\ list[k].index = i

\* The end of the list has come.
Complete(list) == \E k \in DOMAIN list : list[k] = ListEnd

\* The list of the client holds an index once, and none that is in its table;
\* its end comes last.
ListInv(list, local) ==
  /\ \A k \in DOMAIN list : Waits(list, k) => local[list[k].index] = None
  /\ \A j, k \in DOMAIN list : Waits(list, j) /\ Waits(list, k) /\ j # k =>
       list[j].index # list[k].index
  /\ \A k \in DOMAIN list : list[k] = ListEnd => k = Len(list)

\* What is on its way in the session the client is in fits what it has.
ArrivalInv(c, list, local) ==
  \A k \in DOMAIN c : Now(c, k) =>
    /\ Brings(c[k]) => ~Awaited(list, c[k].index) /\ local[c[k].index] = None
    /\ Complete(list) => ~Brings(c[k]) /\ ~Closes(c[k])

\* The ghost at index i is coming, is awaited, or is there.
Coming(c, i) == \E k \in DOMAIN c : Latest(c, k) /\ Brings(c[k]) /\ c[k].index = i

Given(c, list, local, i) == \/ Coming(c, i)
                            \/ Current(c) /\ (Awaited(list, i) \/ local[i] # None)

\* The ghosts sent as events are those the client has or is about to get, and
\* they are ghosts of the objects the server sent, as long as these exist.
GivenInv(c, list, local, infos) ==
  /\ \A i \in Indices : infos[i].state = "event" <=> Given(c, list, local, i)
  /\ \A k \in DOMAIN c : Latest(c, k) /\ Brings(c[k]) =>
       infos[c[k].index].obj \in {None, c[k].obj}
  /\ Current(c) => \A k \in DOMAIN list : Waits(list, k) =>
       infos[list[k].index].obj \in {None, list[k].obj}
  /\ Current(c) => \A i \in Indices : local[i] # None =>
       infos[i].obj \in {None, local[i]}

\* The client has the number of the server's session when all the objects of
\* that have come, and no end of it is under way.
NumberInv(c, list, number, seen, active) ==
  /\ seen =< number
  /\ seen = number =>
       /\ number # 0 => active
       /\ \A k \in DOMAIN c : ~Ends(c[k]) /\ ~Brings(c[k]) /\ ~Closes(c[k])
  /\ Complete(list) => seen # 0 /\ (Current(c) => seen = number)

EventInv(c, list, local, infos, number, seen, active) ==
  /\ ChannelInv(c, number, active)
  /\ ListInv(list, local)
  /\ ArrivalInv(c, list, local)
  /\ GivenInv(c, list, local, infos)
  /\ NumberInv(c, list, number, seen, active)

\* The answer of a session comes from a client that has all its ghosts.
AnswerInv(server, list, number, seen) ==
  \A k \in DOMAIN server : server[k].type = "ReadyForNormalGhosts" =>
    /\ server[k].sequence # 0 /\ server[k].sequence =< number
    /\ server[k].sequence = number => seen = number /\ list = <<>>

\* The server's ghost infos, and when it sends normal ghosts.
InfosInv ==
  /\ ~scoping => \A i \in Indices : ghost[i] = FreeInfo
  /\ \A i \in Indices : ghost[i].obj # None => ghost[i].obj \in alive
  /\ ghosting => sequence # 0 /\ clientSequence = sequence /\ saveList = <<>>

AlwaysInv == \A j, k \in DOMAIN always : always[j] = always[k] => j = k

IInv ==
  /\ TypeOK
  /\ AlwaysInv
  /\ InfosInv
  /\ EventInv(toClient, saveList, localGhost, ghost, sequence, clientSequence, scoping)
  /\ AnswerInv(toServer, saveList, sequence, clientSequence)

\* The types of what these speak of.
Typed(c, list, local, infos, number, seen, active) ==
  /\ c \in Seq(ClientMessages)
  /\ list \in Seq(Saves)
  /\ local \in [Indices -> Objects \cup {None, Placeholder}]
  /\ infos \in [Indices -> Infos]
  /\ number \in Nat /\ seen \in Nat /\ active \in BOOLEAN

LEMMA ConstantFacts ==
  /\ None \notin Objects /\ Placeholder \notin Objects /\ Placeholder # None
  /\ MaxGhostCount \in Nat /\ IsFiniteSet(Objects)
  /\ Cardinality(Objects) =< MaxGhostCount
  /\ InTransit \in Nat /\ InTransit > 0 /\ MaxFileNames \in Nat /\ MaxFileNames > 0
  /\ MaxSessions \in Nat
  BY SessionConstants

LEMMA MessageFacts ==
  ASSUME NEW m \in ClientMessages
  PROVE  /\ Ends(m) => ~Brings(m) /\ ~Closes(m)
         /\ Brings(m) => ~Closes(m) /\ m.index \in Indices /\ m.obj \in Objects
         /\ Closes(m) => m.sequence \in Nat
  BY DEF ClientMessages, Ends, Brings, Closes

LEMMA SaveFacts ==
  ASSUME NEW save \in Saves
  PROVE  /\ save # ListEnd => save.obj \in Objects \cup {Placeholder} /\ save.obj # None
                              /\ save.index \in Indices
         /\ ListEnd \in Saves
  BY ConstantFacts DEF Saves, ListEnd

LEMMA MakeSave ==
  ASSUME NEW o \in Objects \cup {Placeholder}, NEW i \in Indices
  PROVE  /\ [obj |-> o, index |-> i] \in Saves
         /\ [obj |-> o, index |-> i] # ListEnd
  <1>1. o # None
    BY ConstantFacts
  <1>2. [obj |-> o, index |-> i].obj # ListEnd.obj
    BY <1>1 DEF ListEnd
  <1> QED BY <1>2 DEF Saves

-----------------------------------------------------------------------------
(* An event is taken from the channel.                                     *)

\* d is c without its first event.
Rest(d, c) ==
  /\ d \in Seq(ClientMessages) /\ c \in Seq(ClientMessages)
  /\ Len(c) = Len(d) + 1
  /\ \A k \in 1 .. Len(d) : d[k] = c[k + 1]

LEMMA TailIsRest ==
  ASSUME NEW c \in Seq(ClientMessages), c # <<>>
  PROVE  /\ Rest(Tail(c), c)
         /\ Head(c) = c[1] /\ c[1] \in ClientMessages /\ 1 \in DOMAIN c
         /\ Tail(c) \in Seq(ClientMessages)
  BY DEF Rest

LEMMA RestPlaces ==
  ASSUME NEW c, NEW d, Rest(d, c)
  PROVE  /\ DOMAIN c = 1 .. Len(c) /\ DOMAIN d = 1 .. Len(d)
         /\ Len(c) \in Nat /\ Len(d) \in Nat
         /\ \A k \in DOMAIN d : k + 1 \in DOMAIN c /\ d[k] = c[k + 1]
         /\ \A k \in DOMAIN c : k # 1 => k - 1 \in DOMAIN d /\ c[k] = d[k - 1]
         /\ 1 \in DOMAIN c
         /\ \A k \in DOMAIN d : Latest(d, k) <=> Latest(c, k + 1)
         /\ Current(c) <=> Current(d) /\ ~Ends(c[1])
         /\ Latest(c, 1) <=> Current(c)
         /\ \A k \in DOMAIN d : Now(c, k + 1) <=> Now(d, k) /\ ~Ends(c[1])
         /\ Now(c, 1)
  <1>1. /\ Len(c) \in Nat /\ Len(d) \in Nat /\ Len(c) = Len(d) + 1
        /\ DOMAIN c = 1 .. Len(c) /\ DOMAIN d = 1 .. Len(d)
        /\ \A k \in DOMAIN d : d[k] = c[k + 1]
    BY DEF Rest
  <1>2. /\ \A k \in DOMAIN d : k + 1 \in DOMAIN c /\ d[k] = c[k + 1]
        /\ \A k \in DOMAIN c : k # 1 => k - 1 \in DOMAIN d /\ c[k] = d[k - 1]
        /\ 1 \in DOMAIN c
    BY <1>1
  <1>3. ASSUME NEW k \in DOMAIN d PROVE Latest(d, k) <=> Latest(c, k + 1)
    <2>1. Latest(c, k + 1) => Latest(d, k)
      BY <1>1, <1>2 DEF Latest
    <2>2. ASSUME Latest(d, k), NEW j \in DOMAIN c, j >= k + 1 PROVE ~Ends(c[j])
      BY <1>1, <1>2, <2>2 DEF Latest
    <2> QED BY <2>1, <2>2 DEF Latest
  <1>4. Current(c) <=> Current(d) /\ ~Ends(c[1])
    <2>1. Current(c) => Current(d) /\ ~Ends(c[1])
      BY <1>1, <1>2 DEF Current
    <2>2. ASSUME Current(d), ~Ends(c[1]), NEW j \in DOMAIN c PROVE ~Ends(c[j])
      BY <1>1, <1>2, <2>2 DEF Current
    <2> QED BY <2>1, <2>2 DEF Current
  <1>5. Latest(c, 1) <=> Current(c)
    BY <1>1 DEF Latest, Current
  <1>6. ASSUME NEW k \in DOMAIN d PROVE Now(c, k + 1) <=> Now(d, k) /\ ~Ends(c[1])
    <2>1. ASSUME Now(c, k + 1) PROVE Now(d, k) /\ ~Ends(c[1])
      BY <1>1, <1>2, <2>1 DEF Now
    <2>2. ASSUME Now(d, k), ~Ends(c[1]), NEW j \in DOMAIN c, j < k + 1 PROVE ~Ends(c[j])
      BY <1>1, <1>2, <2>2 DEF Now
    <2> QED BY <2>1, <2>2 DEF Now
  <1>7. Now(c, 1)
    BY <1>1 DEF Now
  <1> QED BY <1>1, <1>2, <1>3, <1>4, <1>5, <1>6, <1>7

\* What the first event adds to the ghosts given.
LEMMA RestComing ==
  ASSUME NEW c, NEW d, Rest(d, c), NEW i
  PROVE  Coming(c, i) <=> Coming(d, i) \/ (Current(c) /\ Brings(c[1]) /\ c[1].index = i)
  <1>1. ASSUME NEW k \in DOMAIN c, Latest(c, k), Brings(c[k]), c[k].index = i
        PROVE  Coming(d, i) \/ (Current(c) /\ Brings(c[1]) /\ c[1].index = i)
    <2>1. CASE k = 1
      BY <1>1, <2>1, RestPlaces
    <2>2. CASE k # 1
      <3>1. k - 1 \in DOMAIN d /\ c[k] = d[k - 1]
        BY <2>2, RestPlaces
      <3>2. k - 1 + 1 = k
        BY RestPlaces
      <3>3. Latest(d, k - 1)
        BY <1>1, <3>1, <3>2, RestPlaces
      <3> QED BY <1>1, <3>1, <3>3 DEF Coming
    <2> QED BY <2>1, <2>2
  <1>2. ASSUME NEW l \in DOMAIN d, Latest(d, l), Brings(d[l]), d[l].index = i
        PROVE  \E k \in DOMAIN c : Latest(c, k) /\ Brings(c[k]) /\ c[k].index = i
    BY <1>2, RestPlaces
  <1>3. ASSUME Current(c), Brings(c[1]), c[1].index = i
        PROVE  \E k \in DOMAIN c : Latest(c, k) /\ Brings(c[k]) /\ c[k].index = i
    BY <1>3, RestPlaces
  <1> QED BY <1>1, <1>2, <1>3 DEF Coming

LEMMA RestBetween ==
  ASSUME NEW c, NEW d, Rest(d, c), NEW j \in DOMAIN d, NEW k \in DOMAIN d
  PROVE  EndBetween(d, j, k) <=> EndBetween(c, j + 1, k + 1)
  <1>1. ASSUME NEW e \in DOMAIN d, j < e, e < k, Ends(d[e]) PROVE EndBetween(c, j + 1, k + 1)
    <2>1. e + 1 \in DOMAIN c /\ d[e] = c[e + 1] /\ j + 1 < e + 1 /\ e + 1 < k + 1
      BY <1>1, RestPlaces
    <2> QED BY <1>1, <2>1 DEF EndBetween
  <1>2. ASSUME NEW e \in DOMAIN c, j + 1 < e, e < k + 1, Ends(c[e]) PROVE EndBetween(d, j, k)
    <2>1. e # 1
      BY <1>2, RestPlaces
    <2>2. e - 1 \in DOMAIN d /\ c[e] = d[e - 1]
      BY <2>1, RestPlaces
    <2>3. j < e - 1 /\ e - 1 < k
      BY <1>2, RestPlaces
    <2> QED BY <1>2, <2>2, <2>3 DEF EndBetween
  <1> QED BY <1>1, <1>2 DEF EndBetween

LEMMA RestChannel ==
  ASSUME NEW c, NEW d, Rest(d, c), NEW number, NEW active, ChannelInv(c, number, active)
  PROVE  ChannelInv(d, number, active)
  <1>1. ASSUME NEW j \in DOMAIN d, NEW k \in DOMAIN d, j < k, Brings(d[j]), Brings(d[k]),
               d[j].index = d[k].index
        PROVE  EndBetween(d, j, k)
    <2>1. j + 1 \in DOMAIN c /\ k + 1 \in DOMAIN c /\ j + 1 < k + 1
          /\ d[j] = c[j + 1] /\ d[k] = c[k + 1]
      BY <1>1, RestPlaces
    <2>2. EndBetween(c, j + 1, k + 1)
      BY <1>1, <2>1 DEF ChannelInv
    <2> QED BY <2>2, RestBetween
  <1>2. ASSUME NEW j \in DOMAIN d, NEW k \in DOMAIN d, j < k, Closes(d[j]),
               Brings(d[k]) \/ Closes(d[k])
        PROVE  EndBetween(d, j, k)
    <2>1. j + 1 \in DOMAIN c /\ k + 1 \in DOMAIN c /\ j + 1 < k + 1
          /\ d[j] = c[j + 1] /\ d[k] = c[k + 1]
      BY <1>2, RestPlaces
    <2>2. EndBetween(c, j + 1, k + 1)
      BY <1>2, <2>1 DEF ChannelInv
    <2> QED BY <2>2, RestBetween
  <1>3. ASSUME NEW k \in DOMAIN d, Closes(d[k])
        PROVE  /\ d[k].sequence # 0 /\ d[k].sequence =< number
               /\ d[k].sequence = number => active
               /\ d[k].sequence = number <=> Latest(d, k)
    BY <1>3, RestPlaces DEF ChannelInv
  <1> QED BY <1>1, <1>2, <1>3 DEF ChannelInv

-----------------------------------------------------------------------------
(* The client's list.                                                      *)

LEMMA ListAppend ==
  ASSUME NEW list \in Seq(Saves), NEW save \in Saves
  PROVE  /\ Append(list, save) \in Seq(Saves)
         /\ DOMAIN list = 1 .. Len(list) /\ Len(list) \in Nat
         /\ DOMAIN Append(list, save) = 1 .. Len(list) + 1
         /\ Len(Append(list, save)) = Len(list) + 1
         /\ Append(list, save)[Len(list) + 1] = save
         /\ \A k \in DOMAIN list : Append(list, save)[k] = list[k]
  OBVIOUS

LEMMA AppendAwaited ==
  ASSUME NEW list \in Seq(Saves), NEW save \in Saves, NEW i
  PROVE  /\ Awaited(Append(list, save), i) <=>
              Awaited(list, i) \/ (save # ListEnd /\ save.index = i)
         /\ Complete(Append(list, save)) <=> Complete(list) \/ save = ListEnd
  <1> DEFINE l == Append(list, save)
             n == Len(list)
  <1>1. /\ DOMAIN list = 1 .. n /\ n \in Nat /\ DOMAIN l = 1 .. n + 1
        /\ l[n + 1] = save /\ \A k \in DOMAIN list : l[k] = list[k]
    BY ListAppend
  <1> HIDE DEF l, n
  <1>2. DOMAIN l = DOMAIN list \cup {n + 1}
    BY <1>1
  <1>3. Awaited(l, i) <=> Awaited(list, i) \/ (save # ListEnd /\ save.index = i)
    BY <1>1, <1>2 DEF Awaited, Waits
  <1>4. Complete(l) <=> Complete(list) \/ save = ListEnd
    BY <1>1, <1>2 DEF Complete
  <1> QED BY <1>3, <1>4 DEF l

\* An object that is not in the list yet joins it.
LEMMA ListGrows ==
  ASSUME NEW list \in Seq(Saves), NEW save \in Saves, NEW local,
         ListInv(list, local), ~Complete(list),
         save # ListEnd => ~Awaited(list, save.index) /\ local[save.index] = None
  PROVE  ListInv(Append(list, save), local)
  <1> DEFINE l == Append(list, save)
             n == Len(list)
  <1>1. /\ DOMAIN list = 1 .. n /\ n \in Nat /\ DOMAIN l = 1 .. n + 1 /\ Len(l) = n + 1
        /\ l[n + 1] = save /\ \A k \in DOMAIN list : l[k] = list[k]
    BY ListAppend
  <1> HIDE DEF l, n
  <1>2. \A k \in DOMAIN l : k \in DOMAIN list \/ k = n + 1
    BY <1>1
  <1>3. ASSUME NEW k \in DOMAIN l, Waits(l, k) PROVE local[l[k].index] = None
    BY <1>1, <1>2, <1>3 DEF Waits, ListInv
  <1>4. ASSUME NEW j \in DOMAIN l, NEW k \in DOMAIN l, Waits(l, j), Waits(l, k), j # k
        PROVE  l[j].index # l[k].index
    <2>1. CASE j \in DOMAIN list /\ k \in DOMAIN list
      BY <1>1, <1>4, <2>1 DEF Waits, ListInv
    <2>2. CASE j = n + 1
      <3>1. k \in DOMAIN list
        BY <1>2, <1>4, <2>2
      <3> QED BY <1>1, <1>4, <2>2, <3>1 DEF Waits, Awaited
    <2>3. CASE k = n + 1
      <3>1. j \in DOMAIN list
        BY <1>2, <1>4, <2>3
      <3> QED BY <1>1, <1>4, <2>3, <3>1 DEF Waits, Awaited
    <2> QED BY <1>2, <2>1, <2>2, <2>3
  <1>5. ASSUME NEW k \in DOMAIN l, l[k] = ListEnd PROVE k = Len(l)
    BY <1>1, <1>2, <1>5 DEF Complete
  <1>6. ListInv(l, local)
    BY <1>3, <1>4, <1>5 DEF ListInv
  <1> QED BY <1>6 DEF l

-----------------------------------------------------------------------------
(* The client takes an event.                                              *)

LEMMA RestArrival ==
  ASSUME NEW c, NEW d, Rest(d, c), ~Ends(c[1]), NEW list, NEW local,
         ArrivalInv(c, list, local)
  PROVE  ArrivalInv(d, list, local)
  <1> SUFFICES ASSUME NEW k \in DOMAIN d, Now(d, k)
               PROVE  /\ Brings(d[k]) => ~Awaited(list, d[k].index) /\ local[d[k].index] = None
                      /\ Complete(list) => ~Brings(d[k]) /\ ~Closes(d[k])
    BY DEF ArrivalInv
  <1>1. k + 1 \in DOMAIN c /\ d[k] = c[k + 1] /\ Now(c, k + 1)
    BY RestPlaces
  <1> QED BY <1>1 DEF ArrivalInv

\* An event that is none of the three.
LEMMA TakeOther ==
  ASSUME NEW c, NEW d, Rest(d, c), ~Ends(c[1]), ~Brings(c[1]), ~Closes(c[1]),
         NEW list, NEW local, NEW infos, NEW number, NEW seen, NEW active,
         EventInv(c, list, local, infos, number, seen, active)
  PROVE  EventInv(d, list, local, infos, number, seen, active)
  <1>1. ChannelInv(d, number, active) /\ ListInv(list, local)
    BY RestChannel DEF EventInv
  <1>2. ArrivalInv(d, list, local)
    BY RestArrival DEF EventInv
  <1>3. GivenInv(d, list, local, infos)
    <2>1. GivenInv(c, list, local, infos)
      BY DEF EventInv
    <2>2. Current(c) <=> Current(d)
      BY RestPlaces
    <2>3. \A i : Given(c, list, local, i) <=> Given(d, list, local, i)
      BY <2>2, RestComing DEF Given
    <2>4. \A k \in DOMAIN d : Latest(d, k) => Latest(c, k + 1) /\ k + 1 \in DOMAIN c
                                                /\ d[k] = c[k + 1]
      BY RestPlaces
    <2>5. \A k \in DOMAIN d : Latest(d, k) /\ Brings(d[k]) =>
            infos[d[k].index].obj \in {None, d[k].obj}
      BY <2>1, <2>4 DEF GivenInv
    <2> QED BY <2>1, <2>2, <2>3, <2>5 DEF GivenInv
  <1>4. NumberInv(d, list, number, seen, active)
    <2>1. NumberInv(c, list, number, seen, active)
      BY DEF EventInv
    <2>2. Current(c) <=> Current(d)
      BY RestPlaces
    <2>3. \A k \in DOMAIN d : k + 1 \in DOMAIN c /\ d[k] = c[k + 1]
      BY RestPlaces
    <2> QED BY <2>1, <2>2, <2>3 DEF NumberInv
  <1> QED BY <1>1, <1>2, <1>3, <1>4 DEF EventInv

\* GhostAlwaysObject: the object joins the list.
LEMMA TakeObject ==
  ASSUME NEW c, NEW d, Rest(d, c), Brings(c[1]), ~Ends(c[1]),
         NEW list \in Seq(Saves), NEW save \in Saves, save # ListEnd,
         save.index = c[1].index,
         NEW local, NEW infos, NEW number, NEW seen, NEW active,
         infos[c[1].index].obj \in {None, c[1].obj} =>
           infos[c[1].index].obj \in {None, save.obj},
         EventInv(c, list, local, infos, number, seen, active)
  PROVE  EventInv(d, Append(list, save), local, infos, number, seen, active)
  <1> DEFINE l == Append(list, save)
  <1>0. 1 \in DOMAIN c /\ Now(c, 1) /\ (Current(c) <=> Current(d))
        /\ (Latest(c, 1) <=> Current(c))
    BY RestPlaces
  <1>1. /\ ChannelInv(c, number, active) /\ ListInv(list, local)
        /\ ArrivalInv(c, list, local) /\ GivenInv(c, list, local, infos)
        /\ NumberInv(c, list, number, seen, active)
    BY DEF EventInv
  <1>2. ~Complete(list) /\ ~Awaited(list, save.index) /\ local[save.index] = None
    BY <1>0, <1>1 DEF ArrivalInv
  <1>3. /\ \A i : Awaited(l, i) <=> Awaited(list, i) \/ save.index = i
        /\ ~Complete(l)
    BY <1>2, AppendAwaited
  <1>4. ChannelInv(d, number, active) /\ ListInv(l, local)
    BY <1>1, <1>2, RestChannel, ListGrows
  <1>5. ArrivalInv(d, l, local)
    <2> SUFFICES ASSUME NEW k \in DOMAIN d, Now(d, k), Brings(d[k])
                 PROVE  ~Awaited(l, d[k].index) /\ local[d[k].index] = None
      BY <1>3 DEF ArrivalInv
    <2>1. ArrivalInv(d, list, local)
      BY <1>1, RestArrival
    <2>2. d[k].index # save.index
      <3> SUFFICES ASSUME d[k].index = save.index PROVE FALSE
        OBVIOUS
      <3>1. k + 1 \in DOMAIN c /\ 1 < k + 1 /\ d[k] = c[k + 1] /\ Now(c, k + 1)
        BY RestPlaces
      <3>2. EndBetween(c, 1, k + 1)
        BY <1>0, <1>1, <3>1 DEF ChannelInv
      <3> QED BY <3>1, <3>2 DEF EndBetween, Now
    <2> QED BY <1>3, <2>1, <2>2 DEF ArrivalInv
  <1>6. GivenInv(d, l, local, infos)
    <2>1. ASSUME NEW i PROVE Given(c, list, local, i) <=> Given(d, l, local, i)
      BY <1>0, <1>3, RestComing DEF Given
    <2>2. \A k \in DOMAIN d : Latest(d, k) => Latest(c, k + 1) /\ k + 1 \in DOMAIN c
                                                /\ d[k] = c[k + 1]
      BY RestPlaces
    <2>3. \A k \in DOMAIN d : Latest(d, k) /\ Brings(d[k]) =>
            infos[d[k].index].obj \in {None, d[k].obj}
      BY <1>1, <2>2 DEF GivenInv
    <2>4. ASSUME Current(d), NEW k \in DOMAIN l, Waits(l, k)
          PROVE  infos[l[k].index].obj \in {None, l[k].obj}
      <3>1. CASE k \in DOMAIN list
        <4>1. l[k] = list[k] /\ Waits(list, k)
          BY <2>4, <3>1, ListAppend DEF Waits
        <4> QED BY <1>0, <1>1, <2>4, <3>1, <4>1 DEF GivenInv
      <3>2. CASE k \notin DOMAIN list
        <4>1. l[k] = save
          BY <3>2, ListAppend
        <4>2. infos[c[1].index].obj \in {None, c[1].obj}
          BY <1>0, <1>1, <2>4 DEF GivenInv
        <4> QED BY <4>1, <4>2
      <3> QED BY <3>1, <3>2
    <2> HIDE DEF l
    <2> QED BY <1>0, <1>1, <2>1, <2>3, <2>4 DEF GivenInv
  <1>7. NumberInv(d, l, number, seen, active)
    <2>1. seen # number /\ seen =< number
      BY <1>0, <1>1 DEF NumberInv
    <2> QED BY <1>3, <2>1 DEF NumberInv
  <1>8. EventInv(d, l, local, infos, number, seen, active)
    BY <1>4, <1>5, <1>6, <1>7 DEF EventInv
  <1> QED BY <1>8 DEF l

\* GhostAlwaysDone: the list is complete, and the number of the session known.
LEMMA TakeDone ==
  ASSUME NEW c, NEW d, Rest(d, c), Closes(c[1]), ~Ends(c[1]), ~Brings(c[1]),
         NEW list \in Seq(Saves),
         NEW local, NEW infos, NEW number, NEW seen, NEW active,
         EventInv(c, list, local, infos, number, seen, active)
  PROVE  EventInv(d, Append(list, ListEnd), local, infos, number, c[1].sequence, active)
  <1> DEFINE l == Append(list, ListEnd)
  <1>0. 1 \in DOMAIN c /\ Now(c, 1) /\ (Current(c) <=> Current(d))
        /\ (Latest(c, 1) <=> Current(c)) /\ ListEnd \in Saves
    BY RestPlaces DEF Saves
  <1>1. /\ ChannelInv(c, number, active) /\ ListInv(list, local)
        /\ ArrivalInv(c, list, local) /\ GivenInv(c, list, local, infos)
    BY DEF EventInv
  <1>2. ~Complete(list)
    BY <1>0, <1>1 DEF ArrivalInv
  <1>3. (\A i : Awaited(l, i) <=> Awaited(list, i)) /\ Complete(l)
    BY <1>0, <1>2, AppendAwaited
  <1>4. ChannelInv(d, number, active) /\ ListInv(l, local)
    BY <1>0, <1>1, <1>2, RestChannel, ListGrows
  <1>5. ASSUME NEW k \in DOMAIN d, Brings(d[k]) \/ Closes(d[k])
        PROVE  ~Now(d, k) /\ ~Current(d)
    <2>1. k + 1 \in DOMAIN c /\ 1 < k + 1 /\ d[k] = c[k + 1] /\ (Now(d, k) => Now(c, k + 1))
      BY RestPlaces
    <2>2. EndBetween(c, 1, k + 1)
      BY <1>0, <1>1, <1>5, <2>1 DEF ChannelInv
    <2> QED BY <1>0, <2>1, <2>2 DEF EndBetween, Now, Current
  <1>6. ArrivalInv(d, l, local)
    BY <1>3, <1>5 DEF ArrivalInv
  <1>7. GivenInv(d, l, local, infos)
    <2>1. ASSUME NEW i PROVE Given(c, list, local, i) <=> Given(d, l, local, i)
      BY <1>0, <1>3, RestComing DEF Given
    <2>2. \A k \in DOMAIN d : Latest(d, k) => Latest(c, k + 1) /\ k + 1 \in DOMAIN c
                                                /\ d[k] = c[k + 1]
      BY RestPlaces
    <2>3. \A k \in DOMAIN d : Latest(d, k) /\ Brings(d[k]) =>
            infos[d[k].index].obj \in {None, d[k].obj}
      BY <1>1, <2>2 DEF GivenInv
    <2>4. ASSUME Current(d), NEW k \in DOMAIN l, Waits(l, k)
          PROVE  infos[l[k].index].obj \in {None, l[k].obj}
      <3>1. k \in DOMAIN list
        BY <1>0, <2>4, ListAppend DEF Waits
      <3>2. l[k] = list[k] /\ Waits(list, k)
        BY <1>0, <2>4, <3>1, ListAppend DEF Waits
      <3> QED BY <1>0, <1>1, <2>4, <3>1, <3>2 DEF GivenInv
    <2> HIDE DEF l
    <2> QED BY <1>0, <1>1, <2>1, <2>3, <2>4 DEF GivenInv
  <1>8. NumberInv(d, l, number, c[1].sequence, active)
    <2>1. /\ c[1].sequence # 0 /\ c[1].sequence =< number
          /\ c[1].sequence = number => active
          /\ c[1].sequence = number <=> Current(c)
      BY <1>0, <1>1 DEF ChannelInv
    <2>2. c[1].sequence = number =>
            \A k \in DOMAIN d : ~Ends(d[k]) /\ ~Brings(d[k]) /\ ~Closes(d[k])
      BY <1>0, <1>5, <2>1 DEF Current
    <2> QED BY <1>0, <2>1, <2>2 DEF NumberInv
  <1>9. EventInv(d, l, local, infos, number, c[1].sequence, active)
    BY <1>4, <1>6, <1>7, <1>8 DEF EventInv
  <1> QED BY <1>9 DEF l

\* EndGhosting: list and table are emptied.
LEMMA TakeEnd ==
  ASSUME NEW c, NEW d, Rest(d, c), Ends(c[1]), ~Closes(c[1]), ~Brings(c[1]),
         NEW list, NEW local, NEW infos, NEW number, NEW seen, NEW active,
         EventInv(c, list, local, infos, number, seen, active)
  PROVE  EventInv(d, <<>>, [i \in Indices |-> None], infos, number, seen, active)
  <1> DEFINE none == [i \in Indices |-> None]
  <1>0. 1 \in DOMAIN c /\ ~Current(c)
    BY RestPlaces
  <1>1. /\ ChannelInv(c, number, active)
        /\ GivenInv(c, list, local, infos) /\ NumberInv(c, list, number, seen, active)
    BY DEF EventInv
  <1>2. (\A i : ~Awaited(<<>>, i)) /\ ~Complete(<<>>)
    BY DEF Awaited, Complete
  <1>3. ChannelInv(d, number, active)
    BY <1>1, RestChannel
  <1>4. ListInv(<<>>, none)
    BY DEF ListInv, Waits
  <1>5. ArrivalInv(d, <<>>, none)
    <2>1. \A k \in DOMAIN d : Brings(d[k]) => none[d[k].index] = None
      <3> SUFFICES ASSUME NEW k \in DOMAIN d, Brings(d[k]) PROVE none[d[k].index] = None
        OBVIOUS
      <3>1. d[k] \in ClientMessages
        BY DEF Rest
      <3> QED BY <3>1, MessageFacts
    <2> HIDE DEF none
    <2> QED BY <1>2, <2>1 DEF ArrivalInv
  <1>6. GivenInv(d, <<>>, none, infos)
    <2>1. ASSUME NEW i \in Indices PROVE Given(c, list, local, i) <=> Given(d, <<>>, none, i)
      <3>1. Coming(c, i) <=> Coming(d, i)
        BY <1>0, RestComing
      <3>2. none[i] = None
        OBVIOUS
      <3> HIDE DEF none
      <3> QED BY <1>0, <1>2, <3>1, <3>2 DEF Given
    <2>2. \A k \in DOMAIN d : Latest(d, k) => Latest(c, k + 1) /\ k + 1 \in DOMAIN c
                                                /\ d[k] = c[k + 1]
      BY RestPlaces
    <2>3. \A k \in DOMAIN d : Latest(d, k) /\ Brings(d[k]) =>
            infos[d[k].index].obj \in {None, d[k].obj}
      BY <1>1, <2>2 DEF GivenInv
    <2>4. \A k \in DOMAIN <<>> : ~Waits(<<>>, k)
      BY DEF Waits
    <2>5. \A i \in Indices : none[i] = None
      OBVIOUS
    <2> HIDE DEF none
    <2> QED BY <1>1, <2>1, <2>3, <2>4, <2>5 DEF GivenInv
  <1>7. NumberInv(d, <<>>, number, seen, active)
    BY <1>0, <1>1, <1>2 DEF NumberInv
  <1> QED BY <1>3, <1>4, <1>5, <1>6, <1>7 DEF EventInv

-----------------------------------------------------------------------------
(* The client registers the first n objects of its list.                   *)

Tables == [Indices -> Objects \cup {None, Placeholder}]

\* The table with the first n objects of the list.
Loaded(local, list, n) ==
  [i \in Indices |-> IF \E j \in 1 .. n : list[j].index = i
                       THEN list[CHOOSE j \in 1 .. n : list[j].index = i].obj
                       ELSE local[i]]

Among(list, n, i) == \E j \in 1 .. n : list[j].index = i

LEMMA LoadedFacts ==
  ASSUME NEW list \in Seq(Saves), NEW n \in 0 .. Len(list),
         \A j \in 1 .. n : list[j] # ListEnd,
         NEW local \in Tables
  PROVE  /\ Loaded(local, list, n) \in Tables
         /\ \A i \in Indices :
              /\ ~Among(list, n, i) => Loaded(local, list, n)[i] = local[i]
              /\ Among(list, n, i) =>
                   /\ \E j \in 1 .. n : list[j].index = i /\ Loaded(local, list, n)[i] = list[j].obj
                   /\ Loaded(local, list, n)[i] # None
  <1> DEFINE g == Loaded(local, list, n)
  <1>1. ASSUME NEW i \in Indices, Among(list, n, i)
        PROVE  /\ \E j \in 1 .. n : list[j].index = i /\ g[i] = list[j].obj
               /\ g[i] # None /\ g[i] \in Objects \cup {Placeholder}
    <2> DEFINE m == CHOOSE j \in 1 .. n : list[j].index = i
    <2>1. m \in 1 .. n /\ list[m].index = i
      BY <1>1 DEF Among
    <2>2. g[i] = list[m].obj
      BY <1>1 DEF Among, Loaded
    <2> HIDE DEF m
    <2>3. list[m] \in Saves /\ list[m] # ListEnd
      BY <2>1
    <2> QED BY <2>1, <2>2, <2>3, SaveFacts
  <1>2. ASSUME NEW i \in Indices, ~Among(list, n, i) PROVE g[i] = local[i]
    BY <1>2 DEF Among, Loaded
  <1>3. g \in Tables
    <2>1. \A i \in Indices : g[i] \in Objects \cup {None, Placeholder}
      BY <1>1, <1>2 DEF Tables
    <2>2. g = [i \in Indices |-> g[i]]
      BY DEF Loaded
    <2> HIDE DEF g
    <2> QED BY <2>1, <2>2 DEF Tables
  <1> HIDE DEF g
  <1> QED BY <1>1, <1>2, <1>3 DEF g

LEMMA RestOfList ==
  ASSUME NEW list \in Seq(Saves), NEW n \in 0 .. Len(list)
  PROVE  /\ SubSeq(list, n + 1, Len(list)) \in Seq(Saves)
         /\ Len(SubSeq(list, n + 1, Len(list))) = Len(list) - n
         /\ DOMAIN SubSeq(list, n + 1, Len(list)) = 1 .. Len(list) - n
         /\ DOMAIN list = 1 .. Len(list) /\ Len(list) \in Nat
         /\ \A k \in 1 .. Len(list) - n : SubSeq(list, n + 1, Len(list))[k] = list[n + k]
  OBVIOUS

LEMMA RestAwaited ==
  ASSUME NEW list \in Seq(Saves), NEW n \in 0 .. Len(list),
         \A j \in 1 .. n : list[j] # ListEnd, NEW i
  PROVE  /\ Awaited(list, i) <=> Awaited(SubSeq(list, n + 1, Len(list)), i) \/ Among(list, n, i)
         /\ Complete(list) <=> Complete(SubSeq(list, n + 1, Len(list)))
  <1> DEFINE rest == SubSeq(list, n + 1, Len(list))
             len == Len(list)
  <1>1. /\ DOMAIN rest = 1 .. len - n /\ DOMAIN list = 1 .. len /\ len \in Nat
        /\ \A k \in 1 .. len - n : rest[k] = list[n + k]
    BY RestOfList
  <1> HIDE DEF rest, len
  <1>0. n \in 0 .. len
    BY DEF len
  <1>2. \A k \in DOMAIN rest : n + k \in DOMAIN list /\ rest[k] = list[n + k]
    BY <1>0, <1>1
  <1>3. \A k \in DOMAIN list : k \in 1 .. n \/ (k - n \in DOMAIN rest /\ rest[k - n] = list[k])
    <2> SUFFICES ASSUME NEW k \in DOMAIN list, k \notin 1 .. n
                 PROVE  k - n \in DOMAIN rest /\ rest[k - n] = list[k]
      OBVIOUS
    <2>1. k - n \in 1 .. len - n /\ n + (k - n) = k
      BY <1>0, <1>1
    <2> QED BY <1>1, <2>1
  <1>4. 1 .. n \subseteq DOMAIN list
    BY <1>0, <1>1
  <1>5. Awaited(list, i) <=> Awaited(rest, i) \/ Among(list, n, i)
    <2>1. ASSUME NEW k \in DOMAIN list, Waits(list, k), list[k].index = i
          PROVE  Awaited(rest, i) \/ Among(list, n, i)
      BY <1>3, <2>1 DEF Awaited, Among, Waits
    <2>2. ASSUME NEW k \in DOMAIN rest, Waits(rest, k), rest[k].index = i
          PROVE  Awaited(list, i)
      BY <1>2, <2>2 DEF Awaited, Waits
    <2>3. ASSUME NEW j \in 1 .. n, list[j].index = i PROVE Awaited(list, i)
      BY <1>4, <2>3 DEF Awaited, Waits
    <2> QED BY <2>1, <2>2, <2>3 DEF Awaited, Among
  <1>6. Complete(list) <=> Complete(rest)
    BY <1>2, <1>3 DEF Complete
  <1> QED BY <1>5, <1>6 DEF rest, len

LEMMA LoadFirst ==
  ASSUME NEW list \in Seq(Saves), NEW n \in 0 .. Len(list),
         \A j \in 1 .. n : list[j] # ListEnd,
         NEW local \in Tables,
         NEW c \in Seq(ClientMessages),
         NEW infos, NEW number, NEW seen, NEW active,
         EventInv(c, list, local, infos, number, seen, active)
  PROVE  EventInv(c, SubSeq(list, n + 1, Len(list)), Loaded(local, list, n),
                  infos, number, seen, active)
  <1> DEFINE rest == SubSeq(list, n + 1, Len(list))
             g == Loaded(local, list, n)
             len == Len(list)
  <1>1. /\ ChannelInv(c, number, active) /\ ListInv(list, local)
        /\ ArrivalInv(c, list, local) /\ GivenInv(c, list, local, infos)
        /\ NumberInv(c, list, number, seen, active)
    BY DEF EventInv
  <1>2. /\ DOMAIN rest = 1 .. len - n /\ DOMAIN list = 1 .. len /\ len \in Nat
        /\ Len(rest) = len - n /\ n \in 0 .. len
        /\ \A k \in 1 .. len - n : rest[k] = list[n + k]
    BY RestOfList
  <1>3. \A i : Awaited(list, i) <=> Awaited(rest, i) \/ Among(list, n, i)
    BY RestAwaited
  <1>4. Complete(list) <=> Complete(rest)
    BY RestAwaited
  <1>5. \A i \in Indices :
          /\ ~Among(list, n, i) => g[i] = local[i]
          /\ Among(list, n, i) =>
               /\ \E j \in 1 .. n : list[j].index = i /\ g[i] = list[j].obj
               /\ g[i] # None
    BY LoadedFacts
  <1>6. \A k \in DOMAIN list : Waits(list, k) => list[k].index \in Indices
    <2>1. \A k \in DOMAIN list : list[k] \in Saves
      OBVIOUS
    <2> QED BY <2>1, SaveFacts DEF Waits
  <1> HIDE DEF rest, g, len
  <1>7. \A k \in DOMAIN rest : n + k \in DOMAIN list /\ rest[k] = list[n + k]
                               /\ (Waits(rest, k) <=> Waits(list, n + k))
    BY <1>2 DEF Waits
  <1>8. 1 .. n \subseteq DOMAIN list /\ \A j \in 1 .. n : Waits(list, j)
    BY <1>2 DEF Waits
  <1>9. ListInv(rest, g)
    <2>1. ASSUME NEW k \in DOMAIN rest, Waits(rest, k) PROVE g[rest[k].index] = None
      <3>1. n + k \in DOMAIN list /\ rest[k] = list[n + k] /\ Waits(list, n + k)
        BY <1>7, <2>1
      <3>2. local[rest[k].index] = None /\ rest[k].index \in Indices
        BY <1>1, <1>6, <3>1 DEF ListInv
      <3>3. ~Among(list, n, rest[k].index)
        <4> SUFFICES ASSUME NEW j \in 1 .. n, list[j].index = list[n + k].index PROVE FALSE
          BY <3>1 DEF Among
        <4>1. j # n + k
          BY <1>2
        <4> QED BY <1>1, <1>8, <3>1, <4>1 DEF ListInv
      <3> QED BY <1>5, <3>2, <3>3
    <2>2. ASSUME NEW j \in DOMAIN rest, NEW k \in DOMAIN rest, Waits(rest, j), Waits(rest, k),
                 j # k
          PROVE  rest[j].index # rest[k].index
      <3>1. n + j # n + k
        BY <1>2, <2>2
      <3> QED BY <1>1, <1>7, <2>2, <3>1 DEF ListInv
    <2>3. ASSUME NEW k \in DOMAIN rest, rest[k] = ListEnd PROVE k = Len(rest)
      <3>1. n + k = Len(list)
        BY <1>1, <1>7, <2>3 DEF ListInv
      <3> QED BY <1>2, <3>1 DEF len
    <2> QED BY <2>1, <2>2, <2>3 DEF ListInv
  <1>10. ArrivalInv(c, rest, g)
    <2> SUFFICES ASSUME NEW k \in DOMAIN c, Now(c, k)
                 PROVE  /\ Brings(c[k]) => ~Awaited(rest, c[k].index) /\ g[c[k].index] = None
                        /\ Complete(rest) => ~Brings(c[k]) /\ ~Closes(c[k])
      BY DEF ArrivalInv
    <2>1. Complete(rest) => ~Brings(c[k]) /\ ~Closes(c[k])
      BY <1>1, <1>4 DEF ArrivalInv
    <2>2. ASSUME Brings(c[k]) PROVE ~Awaited(rest, c[k].index) /\ g[c[k].index] = None
      <3>1. ~Awaited(list, c[k].index) /\ local[c[k].index] = None
        BY <1>1, <2>2 DEF ArrivalInv
      <3>2. c[k].index \in Indices
        BY <2>2, MessageFacts
      <3> QED BY <1>3, <1>5, <3>1, <3>2
    <2> QED BY <2>1, <2>2
  <1>11. GivenInv(c, rest, g, infos)
    <2>1. ASSUME NEW i \in Indices PROVE Given(c, list, local, i) <=> Given(c, rest, g, i)
      BY <1>3, <1>5 DEF Given
    <2>2. ASSUME Current(c), NEW k \in DOMAIN rest, Waits(rest, k)
          PROVE  infos[rest[k].index].obj \in {None, rest[k].obj}
      BY <1>1, <1>7, <2>2 DEF GivenInv
    <2>3. ASSUME Current(c), NEW i \in Indices, g[i] # None
          PROVE  infos[i].obj \in {None, g[i]}
      <3>1. CASE Among(list, n, i)
        BY <1>1, <1>5, <1>8, <2>3, <3>1 DEF GivenInv
      <3>2. CASE ~Among(list, n, i)
        BY <1>1, <1>5, <2>3, <3>2 DEF GivenInv
      <3> QED BY <3>1, <3>2
    <2> QED BY <1>1, <2>1, <2>2, <2>3 DEF GivenInv
  <1>12. NumberInv(c, rest, number, seen, active)
    BY <1>1, <1>4 DEF NumberInv
  <1>13. EventInv(c, rest, g, infos, number, seen, active)
    BY <1>1, <1>9, <1>10, <1>11, <1>12 DEF EventInv
  <1> QED BY <1>13 DEF rest, g

\* The end of the list is all that is left.
LEMMA DropEnd ==
  ASSUME NEW list \in Seq(Saves), list # <<>>, Head(list) = ListEnd,
         NEW c, NEW local, NEW infos, NEW number, NEW seen, NEW active,
         EventInv(c, list, local, infos, number, seen, active)
  PROVE  /\ Tail(list) = <<>>
         /\ EventInv(c, <<>>, local, infos, number, seen, active)
         /\ seen # 0
         /\ Current(c) => seen = number
  <1>1. /\ ChannelInv(c, number, active) /\ ListInv(list, local)
        /\ ArrivalInv(c, list, local) /\ GivenInv(c, list, local, infos)
        /\ NumberInv(c, list, number, seen, active)
    BY DEF EventInv
  <1>2. 1 \in DOMAIN list /\ list[1] = ListEnd
    OBVIOUS
  <1>3. Len(list) = 1
    BY <1>1, <1>2 DEF ListInv
  <1>4. Tail(list) = <<>> /\ DOMAIN list = {1}
    <2>1. /\ Tail(list) \in Seq(Saves) /\ Len(Tail(list)) = Len(list) - 1
          /\ DOMAIN list = 1 .. Len(list)
      OBVIOUS
    <2>2. Len(Tail(list)) = 0
      BY <1>3, <2>1
    <2>3. Tail(list) = <<>>
      BY <2>1, <2>2, EmptySeq
    <2> QED BY <1>3, <2>1, <2>3
  <1>5. /\ \A i : ~Awaited(<<>>, i) /\ ~Awaited(list, i)
        /\ ~Complete(<<>>) /\ Complete(list)
        /\ \A k : ~Waits(<<>>, k)
    BY <1>2, <1>4 DEF Awaited, Complete, Waits
  <1>6. ListInv(<<>>, local)
    BY <1>5 DEF ListInv
  <1>7. ArrivalInv(c, <<>>, local)
    BY <1>1, <1>5 DEF ArrivalInv
  <1>8. GivenInv(c, <<>>, local, infos)
    BY <1>1, <1>5 DEF GivenInv, Given
  <1>9. NumberInv(c, <<>>, number, seen, active)
    BY <1>1, <1>5 DEF NumberInv
  <1>10. seen # 0 /\ (Current(c) => seen = number)
    BY <1>1, <1>5 DEF NumberInv
  <1> QED BY <1>1, <1>4, <1>6, <1>7, <1>8, <1>9, <1>10 DEF EventInv

-----------------------------------------------------------------------------
(* Events are posted to the client.                                        *)

\* d is c and then s.
Posted(d, c, s) ==
  /\ d \in Seq(ClientMessages) /\ c \in Seq(ClientMessages) /\ s \in Seq(ClientMessages)
  /\ Len(d) = Len(c) + Len(s)
  /\ \A k \in 1 .. Len(c) : d[k] = c[k]
  /\ \A k \in 1 .. Len(s) : d[Len(c) + k] = s[k]

LEMMA ConcatIsPosted ==
  ASSUME NEW c \in Seq(ClientMessages), NEW s \in Seq(ClientMessages)
  PROVE  Posted(c \o s, c, s)
  BY DEF Posted

LEMMA PostedPlaces ==
  ASSUME NEW c, NEW d, NEW s, Posted(d, c, s)
  PROVE  /\ DOMAIN c = 1 .. Len(c) /\ DOMAIN d = 1 .. Len(d) /\ DOMAIN s = 1 .. Len(s)
         /\ Len(c) \in Nat /\ Len(d) \in Nat /\ Len(s) \in Nat
         /\ \A k \in DOMAIN c : k \in DOMAIN d /\ d[k] = c[k]
         /\ \A k \in DOMAIN s : Len(c) + k \in DOMAIN d /\ d[Len(c) + k] = s[k]
                                /\ Len(c) + k \notin DOMAIN c
         /\ \A k \in DOMAIN d :
              k \in DOMAIN c \/ (k - Len(c) \in DOMAIN s /\ d[k] = s[k - Len(c)]
                                   /\ k > Len(c) /\ Len(c) + (k - Len(c)) = k)
         /\ \A k \in DOMAIN c : Now(d, k) <=> Now(c, k)
         /\ \A k \in DOMAIN d : k \notin DOMAIN c /\ Now(d, k) => Current(c)
         /\ \A k \in DOMAIN c : Latest(d, k) => Latest(c, k)
         /\ Current(d) => Current(c)
         /\ \A j, k \in DOMAIN c : EndBetween(c, j, k) => EndBetween(d, j, k)
  <1> DEFINE n == Len(c)
             m == Len(s)
             l == Len(d)
  <1>1. /\ DOMAIN c = 1 .. n /\ DOMAIN d = 1 .. l /\ DOMAIN s = 1 .. m
        /\ n \in Nat /\ l \in Nat /\ m \in Nat /\ l = n + m
        /\ \A k \in 1 .. n : d[k] = c[k]
        /\ \A k \in 1 .. m : d[n + k] = s[k]
    BY DEF Posted
  <1> HIDE DEF n, m, l
  <1>2. /\ \A k \in DOMAIN c : k \in DOMAIN d /\ d[k] = c[k]
        /\ \A k \in DOMAIN s : n + k \in DOMAIN d /\ d[n + k] = s[k] /\ n + k \notin DOMAIN c
    BY <1>1
  <1>3. ASSUME NEW k \in DOMAIN d, k \notin DOMAIN c
        PROVE  k - n \in DOMAIN s /\ d[k] = s[k - n] /\ k > n /\ n + (k - n) = k
    <2>1. k - n \in 1 .. m /\ k > n /\ n + (k - n) = k
      BY <1>1, <1>3
    <2> QED BY <1>1, <2>1
  <1>4. ASSUME NEW k \in DOMAIN c PROVE Now(d, k) <=> Now(c, k)
    <2>1. Now(d, k) => Now(c, k)
      BY <1>2 DEF Now
    <2>2. ASSUME Now(c, k), NEW j \in DOMAIN d, j < k PROVE ~Ends(d[j])
      <3>1. j \in DOMAIN c
        BY <1>1, <2>2
      <3> QED BY <1>2, <2>2, <3>1 DEF Now
    <2> QED BY <2>1, <2>2 DEF Now
  <1>5. ASSUME NEW k \in DOMAIN d, k \notin DOMAIN c, Now(d, k) PROVE Current(c)
    <2>1. \A j \in DOMAIN c : j < k
      BY <1>1, <1>3, <1>5
    <2> QED BY <1>2, <1>5, <2>1 DEF Now, Current
  <1>6. ASSUME NEW k \in DOMAIN c, Latest(d, k) PROVE Latest(c, k)
    BY <1>2, <1>6 DEF Latest
  <1>7. Current(d) => Current(c)
    BY <1>2 DEF Current
  <1>8. ASSUME NEW j \in DOMAIN c, NEW k \in DOMAIN c, EndBetween(c, j, k)
        PROVE  EndBetween(d, j, k)
    BY <1>2, <1>8 DEF EndBetween
  <1>9. \A k \in DOMAIN d : k \in DOMAIN c \/ (k - n \in DOMAIN s /\ d[k] = s[k - n]
                                   /\ k > n /\ n + (k - n) = k)
    BY <1>3
  <1>10. DOMAIN c = 1 .. n /\ DOMAIN d = 1 .. l /\ DOMAIN s = 1 .. m
         /\ n \in Nat /\ l \in Nat /\ m \in Nat
    BY <1>1
  <1>11. \A k \in DOMAIN c : Now(d, k) <=> Now(c, k)
    BY <1>4
  <1>12. \A k \in DOMAIN d : k \notin DOMAIN c /\ Now(d, k) => Current(c)
    BY <1>5
  <1>13. \A k \in DOMAIN c : Latest(d, k) => Latest(c, k)
    BY <1>6
  <1>14. \A j, k \in DOMAIN c : EndBetween(c, j, k) => EndBetween(d, j, k)
    BY <1>8
  <1> QED BY <1>2, <1>7, <1>9, <1>10, <1>11, <1>12, <1>13, <1>14 DEF n, m, l

\* Nothing of ghosting is among the events.
Neutral(s) == \A k \in DOMAIN s : ~Ends(s[k]) /\ ~Brings(s[k]) /\ ~Closes(s[k])

LEMMA PostNeutral ==
  ASSUME NEW c, NEW d, NEW s, Posted(d, c, s), Neutral(s),
         NEW list, NEW local, NEW infos, NEW number, NEW seen, NEW active,
         EventInv(c, list, local, infos, number, seen, active)
  PROVE  EventInv(d, list, local, infos, number, seen, active)
  <1>1. /\ ChannelInv(c, number, active) /\ ListInv(list, local)
        /\ ArrivalInv(c, list, local) /\ GivenInv(c, list, local, infos)
        /\ NumberInv(c, list, number, seen, active)
    BY DEF EventInv
  <1>2. \A k \in DOMAIN d : k \notin DOMAIN c => ~Ends(d[k]) /\ ~Brings(d[k]) /\ ~Closes(d[k])
    BY PostedPlaces DEF Neutral
  <1>3. /\ \A k \in DOMAIN c : k \in DOMAIN d /\ d[k] = c[k]
        /\ \A k \in DOMAIN c : Now(d, k) <=> Now(c, k)
        /\ \A k \in DOMAIN c : Latest(d, k) => Latest(c, k)
        /\ Current(d) => Current(c)
        /\ \A j, k \in DOMAIN c : EndBetween(c, j, k) => EndBetween(d, j, k)
    BY PostedPlaces
  <1>4. \A k \in DOMAIN c : Latest(d, k) <=> Latest(c, k)
    <2> SUFFICES ASSUME NEW k \in DOMAIN c, Latest(c, k), NEW j \in DOMAIN d, j >= k, Ends(d[j])
                 PROVE  FALSE
      BY <1>3 DEF Latest
    <2>1. j \in DOMAIN c
      BY <1>2
    <2> QED BY <1>3, <2>1 DEF Latest
  <1>5. Current(d) <=> Current(c)
    <2> SUFFICES ASSUME Current(c), NEW j \in DOMAIN d, Ends(d[j]) PROVE FALSE
      BY <1>3 DEF Current
    <2>1. j \in DOMAIN c
      BY <1>2
    <2> QED BY <1>3, <2>1 DEF Current
  <1>6. \A k \in DOMAIN d : Brings(d[k]) \/ Closes(d[k]) => k \in DOMAIN c
    BY <1>2
  <1>7. ChannelInv(d, number, active)
    BY <1>1, <1>3, <1>4, <1>6 DEF ChannelInv
  <1>8. ArrivalInv(d, list, local)
    BY <1>1, <1>3, <1>6 DEF ArrivalInv
  <1>9. GivenInv(d, list, local, infos)
    <2>1. ASSUME NEW i PROVE Coming(d, i) <=> Coming(c, i)
      BY <1>3, <1>4, <1>6 DEF Coming
    <2>2. ASSUME NEW i PROVE Given(d, list, local, i) <=> Given(c, list, local, i)
      BY <1>5, <2>1 DEF Given
    <2>3. \A k \in DOMAIN d : Latest(d, k) /\ Brings(d[k]) =>
            infos[d[k].index].obj \in {None, d[k].obj}
      BY <1>1, <1>3, <1>4, <1>6 DEF GivenInv
    <2> QED BY <1>1, <1>5, <2>2, <2>3 DEF GivenInv
  <1>10. NumberInv(d, list, number, seen, active)
    <2>1. seen = number => \A k \in DOMAIN d : ~Ends(d[k]) /\ ~Brings(d[k]) /\ ~Closes(d[k])
      BY <1>1, <1>2, <1>3 DEF NumberInv
    <2> QED BY <1>1, <1>5, <2>1 DEF NumberInv
  <1> QED BY <1>1, <1>7, <1>8, <1>9, <1>10 DEF EventInv

\* resetGhosting: the last of the events is the end.
LEMMA PostEnd ==
  ASSUME NEW c, NEW d, NEW s, Posted(d, c, s), Len(s) = 1, Ends(s[1]),
         NEW list, NEW local, NEW infos, NEW number \in Nat, NEW seen \in Nat, NEW active,
         NEW none, \A i \in Indices : none[i] = FreeInfo,
         NEW later, later = number + 1,
         EventInv(c, list, local, infos, number, seen, active)
  PROVE  EventInv(d, list, local, none, later, seen, FALSE)
  <1>1. /\ ChannelInv(c, number, active) /\ ListInv(list, local)
        /\ ArrivalInv(c, list, local) /\ GivenInv(c, list, local, infos)
        /\ NumberInv(c, list, number, seen, active)
    BY DEF EventInv
  <1> DEFINE last == Len(c) + 1
  <1>2. /\ last \in DOMAIN d /\ d[last] = s[1] /\ last \notin DOMAIN c
        /\ last \in Nat
        /\ \A k \in DOMAIN d : k \in DOMAIN c \/ k = last
    <2>1. 1 \in DOMAIN s /\ DOMAIN s = {1}
      BY PostedPlaces
    <2>2. \A k \in DOMAIN d : k \in DOMAIN c \/ k = last
      <3> SUFFICES ASSUME NEW k \in DOMAIN d, k \notin DOMAIN c PROVE k = last
        OBVIOUS
      <3>1. k - Len(c) = 1 /\ Len(c) + (k - Len(c)) = k
        BY <2>1, PostedPlaces
      <3> QED BY <3>1
    <2> QED BY <2>1, <2>2, PostedPlaces
  <1>3. \A k \in DOMAIN d : k =< last
    <2>1. Len(d) = last
      BY DEF Posted
    <2>2. DOMAIN d = 1 .. Len(d) /\ Len(d) \in Nat
      BY PostedPlaces
    <2> HIDE DEF last
    <2> QED BY <2>1, <2>2
  <1> HIDE DEF last
  <1>4. Ends(d[last]) /\ ~Brings(d[last]) /\ ~Closes(d[last])
    BY <1>2 DEF Ends, Brings, Closes
  <1>5. /\ \A k \in DOMAIN c : k \in DOMAIN d /\ d[k] = c[k]
        /\ \A k \in DOMAIN c : Now(d, k) <=> Now(c, k)
        /\ \A j, k \in DOMAIN c : EndBetween(c, j, k) => EndBetween(d, j, k)
        /\ DOMAIN d \subseteq Nat
    BY PostedPlaces
  <1>6. ~Current(d) /\ \A k \in DOMAIN d : ~Latest(d, k)
    BY <1>2, <1>3, <1>4, <1>5 DEF Current, Latest
  <1>7. \A k \in DOMAIN d : Brings(d[k]) \/ Closes(d[k]) => k \in DOMAIN c
    BY <1>2, <1>4
  <1>8. seen =< later /\ seen # later
    BY <1>1 DEF NumberInv
  <1>9. ChannelInv(d, later, FALSE)
    <2>1. ASSUME NEW k \in DOMAIN d, Closes(d[k])
          PROVE  /\ d[k].sequence # 0 /\ d[k].sequence =< later
                 /\ d[k].sequence # later
      <3>1. c[k].sequence # 0 /\ c[k].sequence =< number /\ c[k] = d[k]
        BY <1>1, <1>5, <1>7, <2>1 DEF ChannelInv
      <3>2. c[k] \in ClientMessages
        BY <1>7, <2>1 DEF Posted
      <3>3. c[k].sequence \in Nat
        BY <2>1, <3>1, <3>2, MessageFacts
      <3> QED BY <3>1, <3>3
    <2> QED BY <1>1, <1>5, <1>6, <1>7, <2>1 DEF ChannelInv
  <1>10. ArrivalInv(d, list, local)
    BY <1>1, <1>5, <1>7 DEF ArrivalInv
  <1>11. GivenInv(d, list, local, none)
    <2>1. \A i \in Indices : none[i].state # "event"
      BY DEF FreeInfo
    <2>2. \A i : ~Given(d, list, local, i)
      BY <1>6 DEF Given, Coming
    <2> QED BY <1>6, <2>1, <2>2 DEF GivenInv
  <1>12. NumberInv(d, list, later, seen, FALSE)
    BY <1>1, <1>6, <1>8 DEF NumberInv
  <1> QED BY <1>1, <1>9, <1>10, <1>11, <1>12 DEF EventInv

\* The events of a session that starts: the objects, each with an index of its
\* own, and then that they are all; "sent" are the ghost infos then.
Session(s, n, sent, later) ==
  /\ n \in Nat /\ Len(s) = n + 1
  /\ \A k \in 1 .. n : Brings(s[k])
  /\ \A j, k \in 1 .. n : j # k => s[j].index # s[k].index
  /\ Closes(s[n + 1]) /\ s[n + 1].sequence = later
  /\ \A i \in Indices : sent[i].state = "event" <=> \E k \in 1 .. n : s[k].index = i
  /\ \A k \in 1 .. n : sent[s[k].index].obj = s[k].obj

\* Before a session starts nothing is given, and the client is not complete.
LEMMA NothingGiven ==
  ASSUME NEW c, NEW list, NEW local, NEW infos, NEW number, NEW seen,
         NEW was, ~was,
         EventInv(c, list, local, infos, number, seen, was),
         \A i \in Indices : infos[i] = FreeInfo
  PROVE  /\ \A i \in Indices : ~Given(c, list, local, i)
         /\ Current(c) => ~Complete(list)
         /\ \A k \in DOMAIN c : Closes(c[k]) => ~Latest(c, k)
  <1>1. /\ ChannelInv(c, number, was)
        /\ GivenInv(c, list, local, infos)
        /\ NumberInv(c, list, number, seen, was)
    BY DEF EventInv
  <1>2. \A i \in Indices : infos[i].state # "event"
    BY DEF FreeInfo
  <1>3. \A i \in Indices : ~Given(c, list, local, i)
    BY <1>1, <1>2 DEF GivenInv
  <1>4. Current(c) => ~Complete(list)
    BY <1>1 DEF NumberInv
  <1>5. \A k \in DOMAIN c : Closes(c[k]) => ~Latest(c, k)
    BY <1>1 DEF ChannelInv
  <1> QED BY <1>3, <1>4, <1>5

\* activateGhosting.
LEMMA PostSession ==
  ASSUME NEW c, NEW d, NEW s, Posted(d, c, s),
         NEW list \in Seq(Saves),
         NEW local, NEW infos, NEW number \in Nat, NEW seen \in Nat, NEW was, ~was,
         \A i \in Indices : infos[i] = FreeInfo,
         NEW sent, NEW later, later = number + 1, NEW n, Session(s, n, sent, later),
         EventInv(c, list, local, infos, number, seen, was)
  PROVE  EventInv(d, list, local, sent, later, seen, TRUE)
  <1>1. /\ ChannelInv(c, number, was) /\ ListInv(list, local)
        /\ ArrivalInv(c, list, local) /\ GivenInv(c, list, local, infos)
        /\ NumberInv(c, list, number, seen, was)
    BY DEF EventInv
  <1>2. /\ \A i \in Indices : ~Given(c, list, local, i)
        /\ Current(c) => ~Complete(list)
        /\ \A k \in DOMAIN c : Closes(c[k]) => ~Latest(c, k)
    BY NothingGiven
  <1> DEFINE m == Len(c)
             New(k) == k > m /\ k - m \in DOMAIN s /\ d[k] = s[k - m] /\ m + (k - m) = k
  <1>3. /\ DOMAIN c = 1 .. m /\ m \in Nat
        /\ \A k \in DOMAIN c : k \in DOMAIN d /\ d[k] = c[k]
        /\ \A k \in DOMAIN c : Now(d, k) <=> Now(c, k)
        /\ \A k \in DOMAIN d : k \notin DOMAIN c /\ Now(d, k) => Current(c)
        /\ \A k \in DOMAIN c : Latest(d, k) => Latest(c, k)
        /\ Current(d) => Current(c)
        /\ \A j, k \in DOMAIN c : EndBetween(c, j, k) => EndBetween(d, j, k)
        /\ DOMAIN d \subseteq Nat
    BY PostedPlaces
  <1>4. \A k \in DOMAIN d : k \in DOMAIN c \/ New(k)
    BY PostedPlaces
  <1>5. \A k \in DOMAIN s : m + k \in DOMAIN d /\ d[m + k] = s[k] /\ m + k \notin DOMAIN c
    BY PostedPlaces
  <1>6. n \in Nat /\ DOMAIN s = 1 .. n + 1 /\ Len(d) = m + (n + 1) /\ DOMAIN d = 1 .. Len(d)
    <2>1. n \in Nat /\ Len(s) = n + 1
      BY DEF Session
    <2>2. DOMAIN s = 1 .. Len(s) /\ DOMAIN d = 1 .. Len(d) /\ Len(d) = m + Len(s)
      BY PostedPlaces DEF Posted
    <2> HIDE DEF m
    <2> QED BY <2>1, <2>2
  <1> HIDE DEF m
  <1>7. /\ \A k \in 1 .. n : Brings(s[k]) /\ ~Closes(s[k]) /\ ~Ends(s[k])
        /\ Closes(s[n + 1]) /\ ~Brings(s[n + 1]) /\ ~Ends(s[n + 1])
        /\ s[n + 1].sequence = later
        /\ \A j, k \in 1 .. n : j # k => s[j].index # s[k].index
    BY DEF Session, Brings, Closes, Ends
  <1>8. \A k \in DOMAIN s : (k \in 1 .. n \/ k = n + 1) /\ ~Ends(s[k])
    BY <1>6, <1>7
  <1>9. \A k \in DOMAIN d : New(k) => ~Ends(d[k]) /\ Latest(d, k)
    <2>1. \A k \in DOMAIN d : New(k) => ~Ends(d[k])
      BY <1>8
    <2>2. \A j, k \in DOMAIN d : New(k) /\ j >= k => New(j)
      BY <1>3, <1>4
    <2> QED BY <2>1, <2>2 DEF Latest
  <1>10. \A k \in DOMAIN s : Brings(s[k]) => k \in 1 .. n
    BY <1>7, <1>8
  <1>11. \A k \in DOMAIN s : Closes(s[k]) => k = n + 1
    BY <1>7, <1>8
  <1>12. \A k \in DOMAIN s : Brings(s[k]) => s[k].index \in Indices
    <2>1. \A k \in DOMAIN s : s[k] \in ClientMessages
      BY DEF Posted
    <2> QED BY <2>1, MessageFacts
  <1>13. \A k \in DOMAIN c : Brings(c[k]) => c[k].index \in Indices
    <2>1. \A k \in DOMAIN c : c[k] \in ClientMessages
      BY DEF Posted
    <2> QED BY <2>1, MessageFacts
  <1>14. \A k \in DOMAIN c : Brings(c[k]) => ~Latest(c, k)
    BY <1>2, <1>13 DEF Given, Coming
  <1>15. \A j, k \in DOMAIN d : j \in DOMAIN c /\ (Brings(c[j]) \/ Closes(c[j])) /\ New(k) =>
           EndBetween(d, j, k)
    <2> SUFFICES ASSUME NEW j \in DOMAIN c, Brings(c[j]) \/ Closes(c[j]), NEW k \in DOMAIN d,
                        New(k)
                 PROVE  EndBetween(d, j, k)
      OBVIOUS
    <2>1. PICK e \in DOMAIN c : e >= j /\ Ends(c[e])
      BY <1>2, <1>14 DEF Latest
    <2>2. e # j
      BY <2>1 DEF Ends, Brings, Closes
    <2>3. j < e /\ e < k
      BY <1>3, <2>1, <2>2
    <2> QED BY <1>3, <2>1, <2>3 DEF EndBetween
  <1>16. ChannelInv(d, later, TRUE)
    <2>1. ASSUME NEW j \in DOMAIN d, NEW k \in DOMAIN d, j < k, Brings(d[j]), Brings(d[k]),
                 d[j].index = d[k].index
          PROVE  EndBetween(d, j, k)
      <3>1. CASE j \in DOMAIN c /\ k \in DOMAIN c
        BY <1>1, <1>3, <2>1, <3>1 DEF ChannelInv
      <3>2. CASE j \in DOMAIN c /\ New(k)
        BY <1>3, <1>15, <2>1, <3>2
      <3>3. CASE New(j) /\ k \in DOMAIN c
        BY <1>3, <2>1, <3>3
      <3>4. CASE New(j) /\ New(k)
        <4>1. j - m \in 1 .. n /\ k - m \in 1 .. n
          BY <1>10, <2>1, <3>4
        <4>2. j - m # k - m
          BY <2>1, <3>4, <1>3
        <4> QED BY <1>7, <2>1, <3>4, <4>1, <4>2
      <3> QED BY <1>4, <3>1, <3>2, <3>3, <3>4
    <2>2. ASSUME NEW j \in DOMAIN d, NEW k \in DOMAIN d, j < k, Closes(d[j]),
                 Brings(d[k]) \/ Closes(d[k])
          PROVE  EndBetween(d, j, k)
      <3>1. CASE j \in DOMAIN c /\ k \in DOMAIN c
        BY <1>1, <1>3, <2>2, <3>1 DEF ChannelInv
      <3>2. CASE j \in DOMAIN c /\ New(k)
        BY <1>3, <1>15, <2>2, <3>2
      <3>3. CASE New(j)
        <4>1. j - m = n + 1
          BY <1>11, <2>2, <3>3
        <4>2. j = Len(d)
          BY <1>3, <1>6, <3>3, <4>1
        <4>3. k =< Len(d)
          BY <1>6
        <4> QED BY <1>3, <1>6, <2>2, <4>2, <4>3
      <3> QED BY <1>4, <3>1, <3>2, <3>3
    <2>3. ASSUME NEW k \in DOMAIN d, Closes(d[k])
          PROVE  /\ d[k].sequence # 0 /\ d[k].sequence =< later
                 /\ d[k].sequence = later <=> Latest(d, k)
      <3>1. CASE k \in DOMAIN c
        <4>0. c[k] = d[k] /\ Closes(c[k])
          BY <1>3, <2>3, <3>1
        <4>1. c[k].sequence # 0 /\ c[k].sequence =< number /\ c[k] = d[k] /\ ~Latest(c, k)
          BY <1>1, <1>2, <3>1, <4>0 DEF ChannelInv
        <4>2. c[k] \in ClientMessages
          <5>1. c \in Seq(ClientMessages)
            BY DEF Posted
          <5>2. \A q \in Seq(ClientMessages) : \A j \in DOMAIN q : q[j] \in ClientMessages
            OBVIOUS
          <5> QED BY <3>1, <5>1, <5>2, Zenon
        <4>3. c[k].sequence \in Nat
          BY <2>3, <4>1, <4>2, MessageFacts
        <4>4. ~Latest(d, k)
          BY <1>3, <3>1, <4>1
        <4>5. c[k].sequence # later /\ c[k].sequence =< later
          BY <4>1, <4>3
        <4> QED BY <4>1, <4>4, <4>5
      <3>2. CASE New(k)
        <4>1. d[k].sequence = later
          BY <1>7, <1>11, <2>3, <3>2
        <4> QED BY <1>9, <3>2, <4>1
      <3> QED BY <1>4, <3>1, <3>2
    <2> QED BY <2>1, <2>2, <2>3 DEF ChannelInv
  <1>17. ArrivalInv(d, list, local)
    <2> SUFFICES ASSUME NEW k \in DOMAIN d, Now(d, k)
                 PROVE  /\ Brings(d[k]) => ~Awaited(list, d[k].index) /\ local[d[k].index] = None
                        /\ Complete(list) => ~Brings(d[k]) /\ ~Closes(d[k])
      BY DEF ArrivalInv
    <2>1. CASE k \in DOMAIN c
      BY <1>1, <1>3, <2>1 DEF ArrivalInv
    <2>2. CASE New(k)
      <3>1. Current(c)
        BY <1>3, <2>2
      <3>2. Brings(d[k]) => d[k].index \in Indices
        BY <1>12, <2>2
      <3> QED BY <1>2, <3>1, <3>2 DEF Given
    <2> QED BY <1>4, <2>1, <2>2
  <1>18. GivenInv(d, list, local, sent)
    <2>1. \A i \in Indices : sent[i].state = "event" <=> \E k \in 1 .. n : s[k].index = i
      BY DEF Session
    <2>2. \A k \in 1 .. n : sent[s[k].index].obj = s[k].obj
      BY DEF Session
    <2>3. \A k \in DOMAIN d : Latest(d, k) /\ Brings(d[k]) => New(k) /\ k - m \in 1 .. n
      BY <1>3, <1>4, <1>10, <1>14
    <2>4. \A k \in 1 .. n : m + k \in DOMAIN d /\ d[m + k] = s[k] /\ Brings(d[m + k])
                              /\ Latest(d, m + k)
      <3> SUFFICES ASSUME NEW k \in 1 .. n
                   PROVE  m + k \in DOMAIN d /\ d[m + k] = s[k] /\ Brings(d[m + k])
                              /\ Latest(d, m + k)
        OBVIOUS
      <3>1. k \in DOMAIN s
        BY <1>6
      <3>2. m + k \in DOMAIN d /\ d[m + k] = s[k] /\ m + k \notin DOMAIN c
        BY <1>5, <3>1
      <3>3. New(m + k)
        BY <1>4, <3>2
      <3> QED BY <1>7, <1>9, <3>2, <3>3
    <2>5. ASSUME NEW i \in Indices PROVE Coming(d, i) <=> \E k \in 1 .. n : s[k].index = i
      BY <2>3, <2>4 DEF Coming
    <2>6. ASSUME NEW i \in Indices
          PROVE  ~(Current(d) /\ (Awaited(list, i) \/ local[i] # None))
      BY <1>2, <1>3 DEF Given
    <2>7. ASSUME NEW i \in Indices PROVE sent[i].state = "event" <=> Given(d, list, local, i)
      BY <2>1, <2>5, <2>6 DEF Given
    <2>8. ASSUME NEW k \in DOMAIN d, Latest(d, k), Brings(d[k])
          PROVE  sent[d[k].index].obj \in {None, d[k].obj}
      BY <2>2, <2>3, <2>8
    <2>9. ASSUME Current(d), NEW k \in DOMAIN list, Waits(list, k) PROVE FALSE
      <3>1. list[k].index \in Indices
        BY <2>9, SaveFacts DEF Waits
      <3> QED BY <2>6, <2>9, <3>1 DEF Awaited
    <2> HIDE DEF New
    <2> QED BY <2>6, <2>7, <2>8, <2>9 DEF GivenInv
  <1>19. NumberInv(d, list, later, seen, TRUE)
    <2>1. seen =< later /\ seen # later
      BY <1>1 DEF NumberInv
    <2>2. Complete(list) => seen # 0 /\ ~Current(d)
      BY <1>1, <1>2, <1>3 DEF NumberInv
    <2> QED BY <2>1, <2>2 DEF NumberInv
  <1> QED BY <1>1, <1>16, <1>17, <1>18, <1>19 DEF EventInv

-----------------------------------------------------------------------------
(* The ghost infos change, but not which of them went out as events.       *)

LEMMA InfosChange ==
  ASSUME NEW c \in Seq(ClientMessages), NEW list \in Seq(Saves),
         NEW local, NEW infos, NEW number, NEW seen, NEW active, NEW now,
         \A i \in Indices : /\ now[i].state = "event" <=> infos[i].state = "event"
                            /\ infos[i].state = "event" => now[i].obj \in {None, infos[i].obj},
         EventInv(c, list, local, infos, number, seen, active)
  PROVE  EventInv(c, list, local, now, number, seen, active)
  <1>1. /\ ChannelInv(c, number, active) /\ ListInv(list, local)
        /\ ArrivalInv(c, list, local) /\ GivenInv(c, list, local, infos)
        /\ NumberInv(c, list, number, seen, active)
    BY DEF EventInv
  <1>2. \A i \in Indices : Given(c, list, local, i) =>
          infos[i].state = "event" /\ now[i].obj \in {None, infos[i].obj}
    BY <1>1 DEF GivenInv
  <1>3. ASSUME NEW k \in DOMAIN c, Latest(c, k), Brings(c[k])
        PROVE  now[c[k].index].obj \in {None, c[k].obj}
    <2>1. c[k].index \in Indices
      BY <1>3, MessageFacts
    <2>2. Given(c, list, local, c[k].index)
      BY <1>3 DEF Given, Coming
    <2> QED BY <1>1, <1>2, <1>3, <2>1, <2>2 DEF GivenInv
  <1>4. ASSUME Current(c), NEW k \in DOMAIN list, Waits(list, k)
        PROVE  now[list[k].index].obj \in {None, list[k].obj}
    <2>1. list[k].index \in Indices
      BY <1>4, SaveFacts DEF Waits
    <2>2. Given(c, list, local, list[k].index)
      BY <1>4 DEF Given, Awaited
    <2> QED BY <1>1, <1>2, <1>4, <2>1, <2>2 DEF GivenInv
  <1>5. ASSUME Current(c), NEW i \in Indices, local[i] # None
        PROVE  now[i].obj \in {None, local[i]}
    <2>1. Given(c, list, local, i)
      BY <1>5 DEF Given
    <2> QED BY <1>1, <1>2, <1>5, <2>1 DEF GivenInv
  <1>6. GivenInv(c, list, local, now)
    BY <1>1, <1>3, <1>4, <1>5 DEF GivenInv
  <1> QED BY <1>1, <1>6 DEF EventInv

-----------------------------------------------------------------------------
(* Numbers and sequences.                                                  *)

LEMMA LeastNumber ==
  ASSUME NEW T, T \subseteq Nat, T # {}
  PROVE  \E m \in T : \A n \in T : m =< n
  <1> DEFINE R == OpToRel(<, Nat)
  <1>0. IsWellFoundedOn(R, Nat)
    BY NatLessThanWellFounded DEF OpToRel
  <1>1. PICK m \in T : \A n \in T : ~(<<n, m>> \in R)
    <2> HIDE DEF R
    <2> QED BY <1>0, WFMin
  <1>2. ASSUME NEW n \in T, n < m PROVE FALSE
    <2>1. <<n, m>> \in {pair \in Nat \X Nat : pair[1] < pair[2]}
      BY <1>2
    <2> QED BY <1>1, <2>1 DEF OpToRel
  <1>3. m \in T /\ \A n \in T : ~(n < m)
    BY <1>1, <1>2, Zenon
  <1> QED BY <1>3

LEMMA MinNumber ==
  ASSUME NEW T, T \subseteq Nat, T # {}
  PROVE  Min(T) \in T /\ \A n \in T : Min(T) =< n
  <1>1. \E m \in T : \A n \in T : m =< n
    BY LeastNumber
  <1> QED BY <1>1 DEF Min

LEMMA MaxNumber ==
  ASSUME NEW N \in Nat, NEW T, T \subseteq 0 .. N, T # {}
  PROVE  Max(T) \in T /\ \A n \in T : Max(T) >= n
  <1> DEFINE U == {N - n : n \in T}
  <1>1. PICK m \in U : \A n \in U : m =< n
    <2>1. U \subseteq Nat
      OBVIOUS
    <2>2. \A n \in T : N - n \in U
      OBVIOUS
    <2> QED BY <2>1, <2>2, LeastNumber
  <1>2. PICK x \in T : m = N - x
    BY <1>1
  <1>3. \A n \in T : x >= n
    <2> SUFFICES ASSUME NEW n \in T PROVE x >= n
      OBVIOUS
    <2>1. N - n \in U
      OBVIOUS
    <2> HIDE DEF U
    <2>2. m =< N - n
      BY <1>1, <2>1
    <2> QED BY <1>2, <2>2
  <1>4. \E y \in T : \A n \in T : y >= n
    BY <1>3
  <1> QED BY <1>4 DEF Max

LEMMA LesserNumber ==
  ASSUME NEW m \in Nat, NEW n \in Nat
  PROVE  Min({m, n}) \in Nat /\ Min({m, n}) =< m /\ Min({m, n}) =< n
  BY MinNumber

\* A part of a sequence.
LEMMA PartOfSeq ==
  ASSUME NEW T, NEW s \in Seq(T), NEW n \in Nat
  PROVE  /\ n =< Len(s) => SubSeq(s, 1, n) \in Seq(T) /\ Len(SubSeq(s, 1, n)) = n
         /\ n \in 1 .. Len(s) => SubSeq(s, n, Len(s)) \in Seq(T)
  OBVIOUS

\* The loop of Excluding.
IsKept(kept, s, S, N) ==
  kept = [n \in 0 .. N |->
            IF n = 0 THEN <<>>
            ELSE IF s[n] \in S THEN kept[n - 1] ELSE Append(kept[n - 1], s[n])]

LEMMA KeptGoesOn ==
  ASSUME NEW s, NEW S, NEW N \in Nat, NEW f, IsKept(f, s, S, N)
  PROVE  \E g : IsKept(g, s, S, N + 1)
  <1> DEFINE next == IF s[N + 1] \in S THEN f[N] ELSE Append(f[N], s[N + 1])
             g == [n \in 0 .. N + 1 |-> IF n = N + 1 THEN next ELSE f[n]]
  <1>1. ASSUME NEW n \in 0 .. N + 1
        PROVE  g[n] = IF n = 0 THEN <<>>
                      ELSE IF s[n] \in S THEN g[n - 1] ELSE Append(g[n - 1], s[n])
    <2>1. CASE n = N + 1
      <3>1. g[n] = next /\ g[n - 1] = f[N] /\ n # 0
        BY <2>1
      <3> QED BY <2>1, <3>1
    <2>2. CASE n \in 0 .. N
      <3>1. f[n] = IF n = 0 THEN <<>>
                   ELSE IF s[n] \in S THEN f[n - 1] ELSE Append(f[n - 1], s[n])
        BY <2>2, Zenon DEF IsKept
      <3>2. g[n] = f[n] /\ (n # 0 => g[n - 1] = f[n - 1])
        BY <2>2
      <3> QED BY <3>1, <3>2
    <2> QED BY <2>1, <2>2
  <1>2. IsKept(g, s, S, N + 1)
    BY <1>1 DEF IsKept
  <1> QED BY <1>2

LEMMA KeptExists ==
  ASSUME NEW s, NEW S, NEW N \in Nat
  PROVE  \E f : IsKept(f, s, S, N)
  <1> DEFINE T == {n \in Nat : ~\E f : IsKept(f, s, S, n)}
  <1>1. SUFFICES ASSUME T # {} PROVE FALSE
    OBVIOUS
  <1>2. PICK m \in T : \A n \in T : m =< n
    BY <1>1, LeastNumber
  <1>3. m \in Nat /\ ~\E f : IsKept(f, s, S, m)
    BY <1>2
  <1>4. CASE m = 0
    <2>1. IsKept([n \in 0 .. 0 |-> <<>>], s, S, 0)
      BY DEF IsKept
    <2> QED BY <1>3, <1>4, <2>1
  <1>5. CASE m # 0
    <2>1. m - 1 \in Nat /\ (m - 1) + 1 = m /\ ~(m =< m - 1)
      BY <1>3, <1>5
    <2>2. \E f : IsKept(f, s, S, m - 1)
      BY <1>2, <2>1
    <2>3. \E f : IsKept(f, s, S, (m - 1) + 1)
      BY <2>1, <2>2, KeptGoesOn
    <2> QED BY <1>3, <2>1, <2>3
  <1> QED BY <1>4, <1>5

LEMMA KeptRounds ==
  ASSUME NEW s, NEW S, Len(s) \in Nat
  PROVE  \E kept : /\ kept[0] = <<>>
                   /\ \A n \in 1 .. Len(s) :
                        kept[n] = IF s[n] \in S THEN kept[n - 1] ELSE Append(kept[n - 1], s[n])
                   /\ Excluding(s, S) = kept[Len(s)]
  <1> DEFINE kept == CHOOSE f : IsKept(f, s, S, Len(s))
  <1>1. IsKept(kept, s, S, Len(s))
    BY KeptExists
  <1>2. Excluding(s, S) = kept[Len(s)]
    BY DEF Excluding, IsKept
  <1> HIDE DEF kept
  <1>3. kept[0] = <<>>
    BY <1>1 DEF IsKept
  <1>4. ASSUME NEW n \in 1 .. Len(s)
        PROVE  kept[n] = IF s[n] \in S THEN kept[n - 1] ELSE Append(kept[n - 1], s[n])
    <2>1. n \in 0 .. Len(s) /\ n # 0
      BY <1>4
    <2>2. kept[n] = IF n = 0 THEN <<>>
                    ELSE IF s[n] \in S THEN kept[n - 1] ELSE Append(kept[n - 1], s[n])
      BY <1>1, <2>1, Zenon DEF IsKept
    <2> QED BY <2>1, <2>2
  <1> QED BY <1>2, <1>3, <1>4

Different(s) == \A j, k \in DOMAIN s : s[j] = s[k] => j = k

\* t is what is left of the first n elements of s.
Left(t, s, S, T, n) ==
  /\ t \in Seq(T \ S)
  /\ \A j \in DOMAIN t : \E i \in 1 .. n : t[j] = s[i]
  /\ Different(s) => Different(t)
  /\ S = {} /\ n # 0 => t # <<>>

LEMMA OneMoreLeft ==
  ASSUME NEW T, NEW s \in Seq(T), NEW S, NEW n \in 1 .. Len(s), NEW t,
         Left(t, s, S, T, n - 1), s[n] \notin S
  PROVE  Left(Append(t, s[n]), s, S, T, n)
  <1> DEFINE u == Append(t, s[n])
  <1>1. s[n] \in T \ S /\ t \in Seq(T \ S) /\ DOMAIN s = 1 .. Len(s) /\ Len(s) \in Nat
    BY DEF Left
  <1>2. /\ u \in Seq(T \ S) /\ DOMAIN u = 1 .. Len(t) + 1 /\ DOMAIN t = 1 .. Len(t)
        /\ Len(t) \in Nat
        /\ \A j \in DOMAIN t : u[j] = t[j]
        /\ u[Len(t) + 1] = s[n]
    BY <1>1
  <1> HIDE DEF u
  <1>3. \A j \in DOMAIN u : (j \in DOMAIN t /\ u[j] = t[j]) \/ (j = Len(t) + 1 /\ u[j] = s[n])
    BY <1>2
  <1>4. \A j \in DOMAIN t : \E i \in 1 .. n - 1 : t[j] = s[i] /\ i \in 1 .. n /\ i # n
                                                    /\ i \in DOMAIN s
    <2>1. \A i \in 1 .. n - 1 : i \in 1 .. n /\ i # n /\ i \in DOMAIN s
      BY <1>1
    <2> QED BY <2>1 DEF Left
  <1>5. \A j \in DOMAIN u : \E i \in 1 .. n : u[j] = s[i]
    BY <1>3, <1>4
  <1>6. Different(s) => Different(u)
    <2> SUFFICES ASSUME Different(s), NEW j \in DOMAIN u, NEW k \in DOMAIN u, u[j] = u[k]
                 PROVE  j = k
      BY DEF Different
    <2>1. n \in DOMAIN s
      BY <1>1
    <2>2. \A i \in DOMAIN t : t[i] # s[n]
      BY <1>4, <2>1 DEF Different
    <2>3. Different(t)
      BY DEF Left
    <2> QED BY <1>3, <2>2, <2>3 DEF Different
  <1>7. u # <<>>
    BY <1>2
  <1> QED BY <1>2, <1>5, <1>6, <1>7 DEF Left, u

LEMMA NoneMoreLeft ==
  ASSUME NEW T, NEW s \in Seq(T), NEW S, NEW n \in 1 .. Len(s), NEW t,
         Left(t, s, S, T, n - 1), s[n] \in S
  PROVE  Left(t, s, S, T, n)
  <1>1. \A i \in 1 .. n - 1 : i \in 1 .. n
    OBVIOUS
  <1> QED BY <1>1 DEF Left

\* What Excluding leaves is of the other elements, and holds none twice if the
\* sequence does not.  Without the members of no set, it is not empty.
LEMMA ExcludingLeaves ==
  ASSUME NEW T, NEW s \in Seq(T), NEW S
  PROVE  Left(Excluding(s, S), s, S, T, Len(s))
  <1>1. Len(s) \in Nat
    OBVIOUS
  <1>2. PICK kept : /\ kept[0] = <<>>
                    /\ \A n \in 1 .. Len(s) :
                         kept[n] = IF s[n] \in S THEN kept[n - 1] ELSE Append(kept[n - 1], s[n])
                    /\ Excluding(s, S) = kept[Len(s)]
    BY <1>1, KeptRounds
  <1> DEFINE Bad == {n \in 0 .. Len(s) : ~Left(kept[n], s, S, T, n)}
  <1>3. SUFFICES ASSUME Bad # {} PROVE FALSE
    BY <1>1, <1>2
  <1>4. PICK m \in Bad : \A n \in Bad : m =< n
    <2>1. Bad \subseteq Nat
      BY <1>1
    <2> QED BY <1>3, <2>1, LeastNumber
  <1>5. m \in 0 .. Len(s) /\ ~Left(kept[m], s, S, T, m)
    BY <1>4
  <1>6. m # 0
    <2>1. Left(<<>>, s, S, T, 0)
      BY DEF Left, Different
    <2> QED BY <1>2, <1>5, <2>1
  <1>7. m - 1 \in 0 .. Len(s) /\ m \in 1 .. Len(s) /\ ~(m =< m - 1)
    BY <1>1, <1>5, <1>6
  <1>8. Left(kept[m - 1], s, S, T, m - 1)
    BY <1>4, <1>7
  <1>9. CASE s[m] \notin S
    BY <1>2, <1>5, <1>7, <1>8, <1>9, OneMoreLeft
  <1>10. CASE s[m] \in S
    <2>1. kept[m] = kept[m - 1]
      BY <1>2, <1>7, <1>10
    <2> QED BY <1>5, <1>7, <1>8, <1>10, <2>1, NoneMoreLeft
  <1> QED BY <1>9, <1>10

LEMMA ExcludingType ==
  ASSUME NEW T, NEW s \in Seq(T), NEW S
  PROVE  /\ Excluding(s, S) \in Seq(T \ S) /\ Excluding(s, S) \in Seq(T)
         /\ Different(s) => Different(Excluding(s, S))
         /\ S = {} /\ s # <<>> => Excluding(s, S) # <<>>
  <1>1. Left(Excluding(s, S), s, S, T, Len(s))
    BY ExcludingLeaves
  <1>2. Excluding(s, S) \in Seq(T \ S) => Excluding(s, S) \in Seq(T)
    OBVIOUS
  <1>3. s # <<>> => Len(s) # 0
    OBVIOUS
  <1> QED BY <1>1, <1>2, <1>3 DEF Left

\* A set in any order: SetToSeq.
LEMMA SetToSeqType ==
  ASSUME NEW S, IsFiniteSet(S)
  PROVE  SetToSeq(S) \in Seq(S) /\ Different(SetToSeq(S))
  <1> DEFINE N == Cardinality(S)
             IsOrder(f) == f \in [1 .. N -> S] /\ IsInjective(f)
  <1>1. N \in Nat /\ ExistsBijection(1 .. N, S)
    BY FS_CardinalityType
  <1>2. PICK f \in Bijection(1 .. N, S) : TRUE
    BY <1>1 DEF ExistsBijection
  <1>3. f \in [1 .. N -> S] /\ IsInjective(f)
    BY <1>2 DEF Bijection, Injection, Surjection, IsInjective
  <1>4. SetToSeq(S) \in [1 .. N -> S] /\ IsInjective(SetToSeq(S))
    BY <1>3 DEF SetToSeq
  <1>5. SetToSeq(S) \in Seq(S)
    BY <1>1, <1>4
  <1> QED BY <1>4, <1>5 DEF IsInjective, Different

\* A sequence of different objects is not longer than there are objects.
LEMMA DifferentIsShort ==
  ASSUME NEW s \in Seq(Objects), Different(s)
  PROVE  Len(s) \in Nat /\ Len(s) =< MaxGhostCount
  <1>1. s \in [1 .. Len(s) -> Objects] /\ Len(s) \in Nat
    OBVIOUS
  <1>2. Len(s) =< Cardinality(Objects)
    <2>1. SUFFICES ASSUME Len(s) > Cardinality(Objects) PROVE FALSE
      <3>1. Cardinality(Objects) \in Nat
        BY ConstantFacts, FS_CardinalityType
      <3> QED BY <1>1, <3>1
    <2>2. IsFiniteSet(1 .. Len(s)) /\ Cardinality(1 .. Len(s)) = Len(s)
      <3> DEFINE n == Len(s)
      <3>1. n \in Int /\ 1 \in Int /\ n >= 0
        BY <1>1
      <3> HIDE DEF n
      <3>2. IsFiniteSet(1 .. n) /\ Cardinality(1 .. n) = (IF 1 > n THEN 0 ELSE n - 1 + 1)
        BY <3>1, FS_Interval
      <3>3. IsFiniteSet(1 .. n) /\ Cardinality(1 .. n) = n
        BY <3>1, <3>2
      <3> QED BY <3>3 DEF n
    <2>3. Cardinality(1 .. Len(s)) > Cardinality(Objects)
      BY <2>1, <2>2
    <2>4. \E x, y \in 1 .. Len(s) : x # y /\ s[x] = s[y]
      BY <1>1, <2>2, <2>3, ConstantFacts, FS_PigeonHole
    <2> QED BY <1>1, <2>4 DEF Different
  <1>3. Cardinality(Objects) \in Nat
    BY ConstantFacts, FS_CardinalityType
  <1> QED BY <1>1, <1>2, <1>3, ConstantFacts

-----------------------------------------------------------------------------
(* The client loads what it can and asks for what it lacks.                *)

Faults == {"none", "error", "client", "server"}

LEMMA StillMissingType ==
  ASSUME NEW files \in Seq(Files), NEW stored
  PROVE  StillMissing(files, stored) \in Seq(Files)
  <1> DEFINE lacking == {k \in DOMAIN files : files[k] \notin Found(stored)}
  <1>1. CASE lacking = {}
    BY <1>1 DEF StillMissing
  <1>2. CASE lacking # {}
    <2>1. lacking \subseteq Nat
      OBVIOUS
    <2>2. Min(lacking) \in lacking
      BY <1>2, <2>1, MinNumber
    <2>3. Min(lacking) \in 1 .. Len(files) /\ Min(lacking) \in Nat
      BY <2>2
    <2>4. SubSeq(files, Min(lacking), Len(files)) \in Seq(Files)
      BY <2>3, PartOfSeq
    <2> QED BY <1>2, <2>4 DEF StillMissing
  <1> QED BY <1>1, <1>2

LEMMA LacksType ==
  ASSUME NEW obj \in Objects \cup {Placeholder}, NEW stored
  PROVE  Lacks(obj, stored) \in Seq(Files)
  <1>1. CASE obj = Placeholder
    BY <1>1 DEF Lacks
  <1>2. CASE obj # Placeholder
    <2>1. Needs[obj] \in Seq(Files)
      BY <1>2, SessionConstants
    <2>2. Excluding(Needs[obj], Found(stored)) \in Seq(Files)
      BY <2>1, ExcludingType
    <2> QED BY <1>2, <2>2 DEF Lacks
  <1> QED BY <1>1, <1>2

LEMMA LoggedType ==
  ASSUME NEW obj \in Objects \cup {Placeholder}, NEW stored, NEW files \in Seq(Files),
         NEW logged \in Prefixes(Lacks(obj, stored))
  PROVE  StillMissing(files \o Excluding(logged, Range(files)), stored) \in Seq(Files)
  <1> DEFINE lacks == Lacks(obj, stored)
  <1>1. lacks \in Seq(Files)
    BY LacksType
  <1>2. PICK n \in 0 .. Len(lacks) : logged = SubSeq(lacks, 1, n)
    BY DEF Prefixes
  <1> HIDE DEF lacks
  <1>3. logged \in Seq(Files)
    BY <1>1, <1>2
  <1>4. Excluding(logged, Range(files)) \in Seq(Files)
    BY <1>3, ExcludingType
  <1>5. files \o Excluding(logged, Range(files)) \in Seq(Files)
    BY <1>4
  <1> QED BY <1>5, StillMissingType

Asks(m) == m \in ServerMessages /\ m.type = "FileDownloadRequest"
Answers(m) == m.type = "ReadyForNormalGhosts"

\* The client posts no answer, if anything.
PostsNoAnswer(server, posted) ==
  posted = server \/ \E m : Asks(m) /\ posted = Append(server, m)

LEMMA RequestTypes ==
  ASSUME NEW files \in Seq(Files), delivered' \in Nat, toServer \in Seq(ServerMessages),
         RequestFiles(files)
  PROVE  /\ missing' \in Seq(Files)
         /\ PostsNoAnswer(toServer, toServer')
         /\ toServer' \in Seq(ServerMessages)
  <1> DEFINE n == Min({Len(missing'), MaxFileNames})
             m == [type |-> "FileDownloadRequest", names |-> SubSeq(missing', 1, n),
                   after |-> delivered']
  <1>1. missing' = files /\ toServer' = Append(toServer, m)
    BY DEF RequestFiles, PostToServer
  <1>2. n \in Nat /\ n =< Len(missing')
    <2>1. Len(missing') \in Nat /\ MaxFileNames \in Nat
      BY <1>1, ConstantFacts
    <2> QED BY <2>1, LesserNumber
  <1> HIDE DEF n
  <1>3. SubSeq(missing', 1, n) \in Seq(Files)
    BY <1>1, <1>2, PartOfSeq
  <1>4. Asks(m)
    BY <1>3 DEF Asks, ServerMessages
  <1> HIDE DEF m
  <1>5. toServer' \in Seq(ServerMessages)
    BY <1>1, <1>4 DEF Asks
  <1> QED BY <1>1, <1>4, <1>5 DEF PostsNoAnswer

\* The first n of the list are registered; if then its end is reached, an
\* answer is posted.
Loads(list, left, local, loaded, server, posted, seq, n) ==
  /\ n \in 0 .. Len(list)
  /\ \A j \in 1 .. n : list[j] # ListEnd
  /\ loaded = Loaded(local, list, n)
  /\ \/ left = SubSeq(list, n + 1, Len(list)) /\ PostsNoAnswer(server, posted)
     \/ /\ SubSeq(list, n + 1, Len(list)) # <<>>
        /\ Head(SubSeq(list, n + 1, Len(list))) = ListEnd
        /\ left = Tail(SubSeq(list, n + 1, Len(list)))
        /\ \E m : Answers(m) /\ m.sequence = seq /\ posted = Append(server, m)

Loading(list, left, local, loaded, server, posted, seq) ==
  \E n : Loads(list, left, local, loaded, server, posted, seq, n)

\* loadNextGhostAlwaysObject does so.
LEMMA LoadNextLoads ==
  ASSUME NEW list \in Seq(Saves), NEW new, NEW files \in Seq(Files), NEW seq \in Nat,
         NEW num \in Nat, fault \in Faults,
         delivered' \in Nat, toServer \in Seq(ServerMessages),
         LoadNextGhostAlwaysObject(list, new, files, seq, num)
  PROVE  /\ Loading(list, saveList', localGhost, localGhost', toServer, toServer', seq)
         /\ missing' \in Seq(Files) /\ numDownloaded' \in Nat /\ fault' \in Faults
         /\ toServer' \in Seq(ServerMessages)
  <1> DEFINE loads(save) == save # ListEnd /\ Lacks(save.obj, disk') = <<>>
             S == {k \in 0 .. Len(list) : \A j \in 1 .. k : loads(list[j])}
             n == Max(S)
             rest == SubSeq(list, n + 1, Len(list))
             m == [type |-> "ReadyForNormalGhosts", sequence |-> seq, after |-> delivered']
  <1>1. n \in 0 .. Len(list) /\ \A j \in 1 .. n : list[j] # ListEnd
    <2>1. Len(list) \in Nat /\ 0 \in S /\ S \subseteq 0 .. Len(list)
      OBVIOUS
    <2>2. n \in S
      <3> HIDE DEF S
      <3> QED BY <2>1, MaxNumber
    <2>3. \A j \in 1 .. n : loads(list[j])
      <3> HIDE DEF n, loads
      <3> QED BY <2>2
    <2> QED BY <2>2, <2>3
  <1>2. /\ localGhost' = Loaded(localGhost, list, n)
        /\ \/ /\ rest = <<>>
              /\ saveList' = <<>> /\ missing' = files
              /\ numDownloaded' = num
              /\ toServer' = toServer /\ fault' = fault
           \/ /\ rest # <<>> /\ Head(rest) = ListEnd
              /\ saveList' = Tail(rest) /\ missing' = files
              /\ numDownloaded' = num
              /\ toServer' = Append(toServer, m)
              /\ fault' = fault
           \/ /\ rest # <<>> /\ Head(rest) # ListEnd
              /\ saveList' = rest
              /\ \/ /\ fault' = "error"
                    /\ missing' = files /\ numDownloaded' = num
                    /\ toServer' = toServer
                 \/ /\ \E logged \in Prefixes(Lacks(Head(rest).obj, disk')) \ {<<>>} :
                         RequestFiles(StillMissing(files \o Excluding(logged, Range(files)),
                                                   disk'))
                    /\ numDownloaded' = 0
                    /\ fault' = fault
    BY Zenon DEF LoadNextGhostAlwaysObject, Loaded, PostToServer
  <1> HIDE DEF n
  <1>3. rest \in Seq(Saves)
    BY <1>1
  <1> HIDE DEF rest
  <1>4. CASE rest = <<>> /\ saveList' = <<>> /\ missing' = files /\ numDownloaded' = num
             /\ toServer' = toServer /\ fault' = fault
    <2>1. Loading(list, saveList', localGhost, localGhost', toServer, toServer', seq)
      <3>1. Loads(list, saveList', localGhost, localGhost', toServer, toServer', seq, n)
        BY <1>1, <1>2, <1>4 DEF Loads, rest, PostsNoAnswer
      <3> QED BY <3>1 DEF Loading
    <2> QED BY <1>4, <2>1
  <1>5. CASE rest # <<>> /\ Head(rest) = ListEnd /\ saveList' = Tail(rest) /\ missing' = files
             /\ numDownloaded' = num /\ toServer' = Append(toServer, m) /\ fault' = fault
    <2>1. m \in ServerMessages
      BY DEF ServerMessages
    <2>2. Answers(m) /\ m.sequence = seq
      BY DEF Answers
    <2> HIDE DEF m
    <2>3. Loading(list, saveList', localGhost, localGhost', toServer, toServer', seq)
      <3>1. Loads(list, saveList', localGhost, localGhost', toServer, toServer', seq, n)
        BY <1>1, <1>2, <1>5, <2>2 DEF Loads, rest
      <3> QED BY <3>1 DEF Loading
    <2>4. toServer' \in Seq(ServerMessages)
      BY <1>5, <2>1
    <2> QED BY <1>5, <2>3, <2>4
  <1>6. CASE saveList' = rest /\ fault' = "error" /\ missing' = files /\ numDownloaded' = num
             /\ toServer' = toServer
    <2>1. Loading(list, saveList', localGhost, localGhost', toServer, toServer', seq)
      <3>1. Loads(list, saveList', localGhost, localGhost', toServer, toServer', seq, n)
        BY <1>1, <1>2, <1>6 DEF Loads, rest, PostsNoAnswer
      <3> QED BY <3>1 DEF Loading
    <2> QED BY <1>6, <2>1 DEF Faults
  <1>7. ASSUME rest # <<>>, Head(rest) # ListEnd, saveList' = rest,
               NEW logged \in Prefixes(Lacks(Head(rest).obj, disk')),
               RequestFiles(StillMissing(files \o Excluding(logged, Range(files)), disk')),
               numDownloaded' = 0, fault' = fault
        PROVE  /\ Loading(list, saveList', localGhost, localGhost', toServer, toServer', seq)
               /\ missing' \in Seq(Files) /\ numDownloaded' \in Nat /\ fault' \in Faults
               /\ toServer' \in Seq(ServerMessages)
    <2>1. Head(rest) \in Saves
      BY <1>3, <1>7
    <2> DEFINE obj == Head(rest).obj
               left == StillMissing(files \o Excluding(logged, Range(files)), disk')
    <2>2. obj \in Objects \cup {Placeholder}
      BY <1>7, <2>1, SaveFacts
    <2>3. logged \in Prefixes(Lacks(obj, disk'))
      BY <1>7
    <2> HIDE DEF obj
    <2>4. left \in Seq(Files)
      BY <2>2, <2>3, LoggedType
    <2>5. RequestFiles(left)
      BY <1>7
    <2> HIDE DEF left
    <2>6. /\ missing' \in Seq(Files) /\ PostsNoAnswer(toServer, toServer')
          /\ toServer' \in Seq(ServerMessages)
      BY <2>4, <2>5, RequestTypes
    <2>7. Loading(list, saveList', localGhost, localGhost', toServer, toServer', seq)
      <3>1. Loads(list, saveList', localGhost, localGhost', toServer, toServer', seq, n)
        BY <1>1, <1>2, <1>7, <2>6 DEF Loads, rest
      <3> QED BY <3>1 DEF Loading
    <2> QED BY <1>7, <2>6, <2>7
  <1> QED BY <1>2, <1>4, <1>5, <1>6, <1>7

\* What is posted keeps the answers as they should be.
LEMMA PostOne ==
  ASSUME NEW server \in Seq(ServerMessages), NEW posted, NEW list,
         NEW number \in Nat, NEW seen \in Nat,
         AnswerInv(server, list, number, seen),
         NEW m, posted = Append(server, m),
         Answers(m) => /\ m.sequence # 0 /\ m.sequence =< number
                       /\ m.sequence = number => seen = number /\ list = <<>>
  PROVE  AnswerInv(posted, list, number, seen)
  <1>1. DOMAIN posted = 1 .. Len(server) + 1 /\ DOMAIN server = 1 .. Len(server)
        /\ Len(server) \in Nat /\ posted[Len(server) + 1] = m
        /\ \A k \in DOMAIN server : posted[k] = server[k]
    OBVIOUS
  <1>2. \A k \in DOMAIN posted : (k \in DOMAIN server /\ posted[k] = server[k]) \/ posted[k] = m
    BY <1>1
  <1> QED BY <1>2 DEF AnswerInv, Answers

LEMMA PostNoAnswer ==
  ASSUME NEW server \in Seq(ServerMessages), NEW posted, NEW list,
         NEW number \in Nat, NEW seen \in Nat,
         AnswerInv(server, list, number, seen), PostsNoAnswer(server, posted)
  PROVE  AnswerInv(posted, list, number, seen)
  <1>1. ASSUME NEW m, Asks(m), posted = Append(server, m)
        PROVE  AnswerInv(posted, list, number, seen)
    <2>1. ~Answers(m)
      BY <1>1 DEF Asks, Answers
    <2> QED BY <1>1, <2>1, PostOne
  <1> QED BY <1>1 DEF PostsNoAnswer

LEMMA PostAnswer ==
  ASSUME NEW server \in Seq(ServerMessages), NEW posted, NEW list, list = <<>>,
         NEW number \in Nat, NEW seen \in Nat, seen # 0, seen =< number,
         AnswerInv(server, list, number, seen),
         NEW m, Answers(m), m.sequence = seen, posted = Append(server, m)
  PROVE  AnswerInv(posted, list, number, seen)
  BY PostOne

\* The list may shrink, but one that is empty stays so.
LEMMA AnswersFit ==
  ASSUME NEW server, NEW list, NEW left, list = <<>> => left = <<>>,
         NEW number, NEW seen, AnswerInv(server, list, number, seen)
  PROVE  AnswerInv(server, left, number, seen)
  BY DEF AnswerInv

StaysEmpty(list, left) == list = <<>> => left = <<>>

\* Loading keeps everything.
LEMMA LoadsKeeps ==
  ASSUME NEW list \in Seq(Saves), NEW left, NEW loaded,
         NEW local \in Tables,
         NEW server \in Seq(ServerMessages), NEW posted,
         NEW c \in Seq(ClientMessages),
         NEW infos, NEW number \in Nat, NEW seen \in Nat, NEW active,
         Loading(list, left, local, loaded, server, posted, seen),
         EventInv(c, list, local, infos, number, seen, active),
         AnswerInv(server, list, number, seen)
  PROVE  /\ left \in Seq(Saves)
         /\ loaded \in Tables
         /\ EventInv(c, left, loaded, infos, number, seen, active)
         /\ AnswerInv(posted, left, number, seen)
         /\ StaysEmpty(list, left)
  <1>0. PICK n : Loads(list, left, local, loaded, server, posted, seen, n)
    BY DEF Loading
  <1> DEFINE rest == SubSeq(list, n + 1, Len(list))
  <1>1. n \in 0 .. Len(list) /\ \A j \in 1 .. n : list[j] # ListEnd
    BY <1>0 DEF Loads
  <1>2. loaded \in Tables
    BY <1>0, <1>1, LoadedFacts DEF Loads
  <1>3. EventInv(c, rest, loaded, infos, number, seen, active)
    BY <1>0, <1>1, LoadFirst DEF Loads
  <1>4. rest \in Seq(Saves) /\ (list = <<>> => rest = <<>>)
    <2>1. rest \in Seq(Saves) /\ Len(rest) = Len(list) - n /\ Len(list) \in Nat
      BY <1>1, RestOfList
    <2>2. ASSUME list = <<>> PROVE rest = <<>>
      <3>1. Len(list) = 0
        BY <2>2
      <3>2. n = 0
        BY <1>1, <3>1
      <3>3. Len(rest) = 0
        BY <2>1, <3>1, <3>2
      <3> HIDE DEF rest
      <3> QED BY <2>1, <3>3, EmptySeq
    <2> QED BY <2>1, <2>2
  <1>5. CASE left = rest /\ PostsNoAnswer(server, posted)
    <2>1. AnswerInv(server, left, number, seen)
      BY <1>4, <1>5, AnswersFit
    <2>2. AnswerInv(posted, left, number, seen)
      BY <1>5, <2>1, PostNoAnswer
    <2> QED BY <1>2, <1>3, <1>4, <1>5, <2>2 DEF StaysEmpty
  <1>6. CASE /\ rest # <<>> /\ Head(rest) = ListEnd /\ left = Tail(rest)
             /\ \E m : Answers(m) /\ m.sequence = seen /\ posted = Append(server, m)
    <2> HIDE DEF rest
    <2>1. /\ Tail(rest) = <<>>
          /\ EventInv(c, <<>>, loaded, infos, number, seen, active)
          /\ seen # 0
      BY <1>3, <1>4, <1>6, DropEnd
    <2>2. seen =< number
      BY <1>3 DEF EventInv, NumberInv
    <2>3. left \in Seq(Saves) /\ left = <<>>
      <3>1. left = <<>>
        BY <1>6, <2>1, Zenon
      <3>2. <<>> \in Seq(Saves)
        OBVIOUS
      <3> QED BY <3>1, <3>2
    <2>4. AnswerInv(server, left, number, seen)
      BY <2>3 DEF AnswerInv
    <2>5. PICK m : Answers(m) /\ m.sequence = seen /\ posted = Append(server, m)
      BY <1>6
    <2>6. AnswerInv(posted, left, number, seen)
      BY <2>1, <2>2, <2>3, <2>4, <2>5, PostAnswer
    <2> QED BY <1>2, <2>1, <2>3, <2>6 DEF StaysEmpty
  <1> QED BY <1>0, <1>5, <1>6 DEF Loads

-----------------------------------------------------------------------------
(* The steps of the client.                                                *)

ServerTypes ==
  /\ alive \subseteq Objects
  /\ always \in Seq(alive)
  /\ scoping \in BOOLEAN /\ ghosting \in BOOLEAN /\ (ghosting => scoping)
  /\ sequence \in Nat /\ sessions \in Nat
  /\ ghost \in [Indices -> Infos]
  /\ upload \in [file : Files \cup {None}, size : Nat, offset : Nat]

ClientTypes ==
  /\ overlapped \in BOOLEAN
  /\ clientSequence \in Nat /\ numDownloaded \in Nat
  /\ saveList \in Seq(Saves)
  /\ localGhost \in Tables
  /\ missing \in Seq(Files)
  /\ buffer \in [size : Nat, data : Seq(Chunk), null : BOOLEAN]
  /\ disk \in [Files -> Seq(Chunk)]
  /\ fault \in Faults

ChannelTypes ==
  /\ toClient \in Seq(ClientMessages) /\ toServer \in Seq(ServerMessages)
  /\ notified \in Nat /\ delivered \in Nat /\ notified =< delivered

LEMMA TypeParts == TypeOK <=> ServerTypes /\ ClientTypes /\ ChannelTypes
  BY DEF TypeOK, ServerTypes, ClientTypes, ChannelTypes, Faults, Tables

LEMMA TypePartsNext == TypeOK' <=> ServerTypes' /\ ClientTypes' /\ ChannelTypes'
  BY DEF TypeOK, ServerTypes, ClientTypes, ChannelTypes, Faults, Tables

\* While normal ghosts are sent, no event of a session is on its way.
LEMMA GhostingIsQuiet ==
  ASSUME IInv, ghosting
  PROVE  /\ \A k \in DOMAIN toClient : ~Ends(toClient[k]) /\ ~Brings(toClient[k])
                                         /\ ~Closes(toClient[k])
         /\ saveList = <<>> /\ scoping
  BY DEF IInv, InfosInv, EventInv, NumberInv, TypeOK

\* What a step of the client must keep.
LEMMA ClientStep ==
  ASSUME IInv, UNCHANGED serverVars, ClientTypes',
         toClient' \in Seq(ClientMessages), toServer' \in Seq(ServerMessages),
         delivered' \in {delivered, delivered + 1},
         ghosting => clientSequence' = clientSequence /\ saveList' = <<>>,
         EventInv(toClient', saveList', localGhost', ghost, sequence, clientSequence', scoping),
         AnswerInv(toServer', saveList', sequence, clientSequence')
  PROVE  IInv'
  <1>1. UNCHANGED <<alive, always, scoping, ghosting, sequence, ghost, sessions, upload,
                    notified>>
    BY DEF serverVars, sessionVars, uploadVars
  <1>2. ServerTypes /\ ChannelTypes
    BY TypeParts DEF IInv
  <1>3. TypeOK'
    <2>1. ServerTypes'
      BY <1>1, <1>2 DEF ServerTypes
    <2>2. ChannelTypes'
      BY <1>1, <1>2 DEF ChannelTypes
    <2> QED BY <2>1, <2>2, TypePartsNext
  <1>4. AlwaysInv'
    BY <1>1 DEF IInv, AlwaysInv
  <1>5. InfosInv'
    BY <1>1 DEF IInv, InfosInv
  <1> QED BY <1>1, <1>3, <1>4, <1>5 DEF IInv

\* What a client does with its list when it is told to go on.
LEMMA LoadNextKeeps ==
  ASSUME IInv, NEW list \in Seq(Saves), NEW new, NEW files \in Seq(Files), NEW seq \in Nat,
         NEW num \in Nat, delivered' \in Nat, NEW c \in Seq(ClientMessages),
         EventInv(c, list, localGhost, ghost, sequence, seq, scoping),
         AnswerInv(toServer, list, sequence, seq),
         LoadNextGhostAlwaysObject(list, new, files, seq, num)
  PROVE  /\ saveList' \in Seq(Saves)
         /\ localGhost' \in Tables
         /\ missing' \in Seq(Files) /\ numDownloaded' \in Nat /\ fault' \in Faults
         /\ toServer' \in Seq(ServerMessages)
         /\ EventInv(c, saveList', localGhost', ghost, sequence, seq, scoping)
         /\ AnswerInv(toServer', saveList', sequence, seq)
         /\ StaysEmpty(list, saveList')
  <1>1. /\ fault \in Faults /\ toServer \in Seq(ServerMessages)
        /\ localGhost \in Tables
        /\ sequence \in Nat
    BY TypeParts DEF IInv, ClientTypes, ChannelTypes, ServerTypes
  <1>2. Loading(list, saveList', localGhost, localGhost', toServer, toServer', seq)
    BY <1>1, LoadNextLoads
  <1>3. /\ saveList' \in Seq(Saves)
        /\ localGhost' \in Tables
        /\ EventInv(c, saveList', localGhost', ghost, sequence, seq, scoping)
        /\ AnswerInv(toServer', saveList', sequence, seq)
        /\ StaysEmpty(list, saveList')
    BY <1>1, <1>2, LoadsKeeps
  <1>4. missing' \in Seq(Files) /\ numDownloaded' \in Nat /\ fault' \in Faults
        /\ toServer' \in Seq(ServerMessages)
    BY <1>1, LoadNextLoads
  <1> QED BY <1>3, <1>4

\* Something joins the list.
LEMMA PushKeeps ==
  ASSUME IInv, NEW save \in Saves, NEW seq \in Nat,
         delivered' \in Nat, NEW c \in Seq(ClientMessages),
         EventInv(c, Append(saveList, save), localGhost, ghost, sequence, seq, scoping),
         AnswerInv(toServer, Append(saveList, save), sequence, seq),
         PushGhostSave(save, seq)
  PROVE  /\ saveList' \in Seq(Saves)
         /\ localGhost' \in Tables
         /\ missing' \in Seq(Files) /\ numDownloaded' \in Nat /\ fault' \in Faults
         /\ toServer' \in Seq(ServerMessages)
         /\ EventInv(c, saveList', localGhost', ghost, sequence, seq, scoping)
         /\ AnswerInv(toServer', saveList', sequence, seq)
  <1>1. /\ saveList \in Seq(Saves) /\ missing \in Seq(Files) /\ numDownloaded \in Nat
        /\ fault \in Faults /\ toServer \in Seq(ServerMessages)
        /\ localGhost \in Tables
    BY TypeParts DEF IInv, ClientTypes, ChannelTypes
  <1> DEFINE list == Append(saveList, save)
             new == TRUE
  <1>2. list \in Seq(Saves)
    BY <1>1
  <1>3. CASE saveList = <<>>
    <2>1. list = <<save>>
      BY <1>3
    <2>2. LoadNextGhostAlwaysObject(<<save>>, new, missing, seq, numDownloaded)
      BY <1>3 DEF PushGhostSave
    <2> HIDE DEF list, new
    <2>3. LoadNextGhostAlwaysObject(list, new, missing, seq, numDownloaded)
      BY <2>1, <2>2
    <2>4. EventInv(c, list, localGhost, ghost, sequence, seq, scoping)
          /\ AnswerInv(toServer, list, sequence, seq)
      BY DEF list
    <2> QED BY <1>1, <1>2, <2>3, <2>4, LoadNextKeeps
  <1>4. CASE saveList # <<>>
    <2>1. saveList' = list
          /\ UNCHANGED <<localGhost, missing, numDownloaded, toServer, fault>>
      BY <1>4 DEF PushGhostSave
    <2> QED BY <1>1, <1>2, <2>1
  <1> QED BY <1>3, <1>4

\* The client takes the first event.
LEMMA Taken ==
  ASSUME IInv, NEW type, Process(type)
  PROVE  /\ Rest(toClient', toClient) /\ toClient[1].type = type
         /\ toClient[1] = Head(toClient)
         /\ toClient[1] \in ClientMessages /\ 1 \in DOMAIN toClient
         /\ toClient' \in Seq(ClientMessages)
         /\ UNCHANGED serverVars
  <1>1. toClient \in Seq(ClientMessages) /\ toClient # <<>> /\ toClient' = Tail(toClient)
        /\ Head(toClient).type = type /\ UNCHANGED serverVars
    BY TypeParts DEF IInv, ChannelTypes, Process
  <1> QED BY <1>1, TailIsRest

\* With an event of a session on its way no answer has its number.
LEMMA NoAnswerYet ==
  ASSUME IInv, NEW k \in DOMAIN toClient,
         Ends(toClient[k]) \/ Brings(toClient[k]) \/ Closes(toClient[k]),
         NEW list, NEW seen
  PROVE  AnswerInv(toServer, list, sequence, seen) /\ ~ghosting
  <1>1. clientSequence # sequence
    BY DEF IInv, EventInv, NumberInv
  <1> QED BY <1>1 DEF IInv, AnswerInv, InfosInv

LEMMA GhostAlwaysObjectKeeps ==
  ASSUME IInv, GhostAlwaysObject
  PROVE  IInv'
  <1> DEFINE event == Head(toClient)
  <1>1. Process("GhostAlwaysObject")
        /\ UNCHANGED <<delivered, clientSequence, buffer, disk, overlapped>>
    BY DEF GhostAlwaysObject
  <1>2. PICK obj \in {event.obj} \cup (IF event.obj \in alive THEN {} ELSE {Placeholder}) :
           PushGhostSave([obj |-> obj, index |-> event.index], clientSequence)
    BY DEF GhostAlwaysObject
  <1>3. /\ Rest(toClient', toClient) /\ toClient[1].type = "GhostAlwaysObject"
        /\ toClient[1] = event
        /\ event \in ClientMessages /\ 1 \in DOMAIN toClient
        /\ toClient' \in Seq(ClientMessages) /\ UNCHANGED serverVars
    BY <1>1, Taken
  <1> HIDE DEF event
  <1>4. Brings(toClient[1]) /\ ~Ends(toClient[1])
    BY <1>3 DEF Brings, Ends
  <1>5. event.obj \in Objects /\ event.index \in Indices
    BY <1>3, <1>4, MessageFacts
  <1>6. /\ ClientTypes /\ ChannelTypes
        /\ EventInv(toClient, saveList, localGhost, ghost, sequence, clientSequence, scoping)
        /\ \A i \in Indices : ghost[i].obj # None => ghost[i].obj \in alive
    BY TypeParts DEF IInv, InfosInv
  <1> DEFINE save == [obj |-> obj, index |-> event.index]
  <1>7. obj = event.obj \/ (obj = Placeholder /\ event.obj \notin alive)
    BY <1>2
  <1>8. save \in Saves /\ save # ListEnd
    BY <1>5, <1>7, MakeSave
  <1>9. save.obj = obj /\ save.index = event.index
    OBVIOUS
  <1>10. PushGhostSave(save, clientSequence)
    BY <1>2
  <1> HIDE DEF save
  <1>11. ghost[toClient[1].index].obj \in {None, toClient[1].obj} =>
           ghost[toClient[1].index].obj \in {None, save.obj}
    BY <1>3, <1>5, <1>6, <1>7, <1>9, ConstantFacts
  <1>12. EventInv(toClient', Append(saveList, save), localGhost, ghost, sequence,
                  clientSequence, scoping)
    BY <1>3, <1>4, <1>6, <1>8, <1>9, <1>11, TakeObject DEF ClientTypes
  <1>13. AnswerInv(toServer, Append(saveList, save), sequence, clientSequence) /\ ~ghosting
    BY <1>3, <1>4, NoAnswerYet
  <1>14. clientSequence \in Nat /\ delivered' \in Nat
    BY <1>1, <1>6 DEF ClientTypes, ChannelTypes
  <1>15. /\ saveList' \in Seq(Saves)
         /\ localGhost' \in Tables
         /\ missing' \in Seq(Files) /\ numDownloaded' \in Nat /\ fault' \in Faults
         /\ toServer' \in Seq(ServerMessages)
         /\ EventInv(toClient', saveList', localGhost', ghost, sequence, clientSequence, scoping)
         /\ AnswerInv(toServer', saveList', sequence, clientSequence)
    BY <1>3, <1>8, <1>10, <1>12, <1>13, <1>14, PushKeeps
  <1>16. ClientTypes'
    BY <1>1, <1>6, <1>15 DEF ClientTypes
  <1> QED BY <1>1, <1>3, <1>13, <1>15, <1>16, ClientStep

LEMMA GhostAlwaysDoneKeeps ==
  ASSUME IInv, GhostAlwaysDone
  PROVE  IInv'
  <1>1. /\ Process("GhostAlwaysDone")
        /\ clientSequence' = Head(toClient).sequence
        /\ UNCHANGED <<delivered, buffer, disk, overlapped>>
        /\ PushGhostSave(ListEnd, clientSequence')
    BY DEF GhostAlwaysDone
  <1>2. /\ Rest(toClient', toClient) /\ toClient[1].type = "GhostAlwaysDone"
        /\ clientSequence' = toClient[1].sequence
        /\ toClient[1] \in ClientMessages /\ 1 \in DOMAIN toClient
        /\ toClient' \in Seq(ClientMessages) /\ UNCHANGED serverVars
    BY <1>1, Taken
  <1>3. Closes(toClient[1]) /\ ~Ends(toClient[1]) /\ ~Brings(toClient[1])
    BY <1>2 DEF Brings, Ends, Closes
  <1>4. /\ ClientTypes /\ ChannelTypes
        /\ EventInv(toClient, saveList, localGhost, ghost, sequence, clientSequence, scoping)
    BY TypeParts DEF IInv
  <1>5. ListEnd \in Saves
    BY DEF Saves
  <1> DEFINE seq == clientSequence'
  <1>6. EventInv(toClient', Append(saveList, ListEnd), localGhost, ghost, sequence,
                 toClient[1].sequence, scoping)
    BY <1>2, <1>3, <1>4, TakeDone DEF ClientTypes
  <1>7. EventInv(toClient', Append(saveList, ListEnd), localGhost, ghost, sequence,
                 seq, scoping)
    BY <1>2, <1>6
  <1>8. AnswerInv(toServer, Append(saveList, ListEnd), sequence, seq) /\ ~ghosting
    <2> HIDE DEF seq
    <2> QED BY <1>2, <1>3, NoAnswerYet
  <1>9. seq \in Nat /\ delivered' \in Nat
    BY <1>1, <1>2, <1>3, <1>4, MessageFacts DEF ChannelTypes
  <1>10. PushGhostSave(ListEnd, seq)
    BY <1>1
  <1>11. /\ saveList' \in Seq(Saves)
         /\ localGhost' \in Tables
         /\ missing' \in Seq(Files) /\ numDownloaded' \in Nat /\ fault' \in Faults
         /\ toServer' \in Seq(ServerMessages)
         /\ EventInv(toClient', saveList', localGhost', ghost, sequence, seq, scoping)
         /\ AnswerInv(toServer', saveList', sequence, seq)
    <2> HIDE DEF seq
    <2> QED BY <1>2, <1>5, <1>7, <1>8, <1>9, <1>10, PushKeeps
  <1>12. ClientTypes'
    BY <1>1, <1>4, <1>9, <1>11 DEF ClientTypes
  <1> QED BY <1>1, <1>2, <1>8, <1>11, <1>12, ClientStep

\* The client goes on with its downloads, or with its list.
LEMMA SendNextKeeps ==
  ASSUME IInv, NEW files \in Seq(Files), NEW num \in Nat, delivered' \in Nat,
         NEW c \in Seq(ClientMessages),
         EventInv(c, saveList, localGhost, ghost, sequence, clientSequence, scoping),
         SendNextFileDownloadRequest(files, num)
  PROVE  /\ saveList' \in Seq(Saves)
         /\ localGhost' \in Tables
         /\ missing' \in Seq(Files) /\ numDownloaded' \in Nat /\ fault' \in Faults
         /\ toServer' \in Seq(ServerMessages)
         /\ EventInv(c, saveList', localGhost', ghost, sequence, clientSequence, scoping)
         /\ AnswerInv(toServer', saveList', sequence, clientSequence)
         /\ StaysEmpty(saveList, saveList')
  <1>1. /\ saveList \in Seq(Saves) /\ localGhost \in Tables
        /\ fault \in Faults /\ toServer \in Seq(ServerMessages)
        /\ clientSequence \in Nat /\ sequence \in Nat
        /\ AnswerInv(toServer, saveList, sequence, clientSequence)
    BY TypeParts DEF IInv, ClientTypes, ChannelTypes, ServerTypes
  <1> DEFINE left == StillMissing(files, disk')
             new == num # 0
             none == <<>>
  <1>2. left \in Seq(Files) /\ none \in Seq(Files)
    BY StillMissingType
  <1>3. \/ /\ RequestFiles(left) /\ numDownloaded' = num
           /\ saveList' = saveList /\ localGhost' = localGhost /\ fault' = fault
        \/ LoadNextGhostAlwaysObject(saveList, new, none, clientSequence, num)
    BY DEF SendNextFileDownloadRequest
  <1> HIDE DEF left, new, none
  <1>4. CASE /\ RequestFiles(left) /\ numDownloaded' = num
             /\ saveList' = saveList /\ localGhost' = localGhost /\ fault' = fault
    <2>1. missing' \in Seq(Files) /\ PostsNoAnswer(toServer, toServer')
          /\ toServer' \in Seq(ServerMessages)
      BY <1>1, <1>2, <1>4, RequestTypes
    <2>2. AnswerInv(toServer', saveList, sequence, clientSequence)
      BY <1>1, <2>1, PostNoAnswer
    <2> QED BY <1>1, <1>4, <2>1, <2>2 DEF StaysEmpty
  <1>5. CASE LoadNextGhostAlwaysObject(saveList, new, none, clientSequence, num)
    BY <1>1, <1>2, <1>5, LoadNextKeeps
  <1> QED BY <1>3, <1>4, <1>5

\* An event that has nothing to do with the start and end of ghosting.
LEMMA TakenOther ==
  ASSUME IInv, NEW type \in {"SendNextDownloadRequest", "FileDownloadSize", "FileChunk"},
         Process(type)
  PROVE  EventInv(toClient', saveList, localGhost, ghost, sequence, clientSequence, scoping)
  <1>1. Rest(toClient', toClient) /\ toClient[1].type = type
    BY Taken
  <1>2. ~Ends(toClient[1]) /\ ~Brings(toClient[1]) /\ ~Closes(toClient[1])
    BY <1>1 DEF Ends, Brings, Closes
  <1> QED BY <1>1, <1>2, TakeOther DEF IInv

LEMMA EndGhostingKeeps ==
  ASSUME IInv, EndGhosting
  PROVE  IInv'
  <1>1. /\ Process("EndGhosting")
        /\ localGhost' = [i \in Indices |-> None] /\ saveList' = <<>>
        /\ overlapped' = (overlapped \/ Downloading)
        /\ UNCHANGED <<delivered, clientSequence, downloadVars, toServer, fault>>
    BY DEF EndGhosting
  <1>2. /\ Rest(toClient', toClient) /\ toClient[1].type = "EndGhosting"
        /\ 1 \in DOMAIN toClient
        /\ toClient' \in Seq(ClientMessages) /\ UNCHANGED serverVars
    BY <1>1, Taken
  <1>3. Ends(toClient[1]) /\ ~Closes(toClient[1]) /\ ~Brings(toClient[1])
    BY <1>2 DEF Brings, Ends, Closes
  <1>4. ClientTypes /\ ChannelTypes
    BY TypeParts DEF IInv
  <1>5. EventInv(toClient', <<>>, [i \in Indices |-> None], ghost, sequence, clientSequence,
                 scoping)
    BY <1>2, <1>3, TakeEnd DEF IInv
  <1>6. EventInv(toClient', saveList', localGhost', ghost, sequence, clientSequence', scoping)
    BY <1>1, <1>5
  <1>7. AnswerInv(toServer, saveList', sequence, clientSequence) /\ ~ghosting
    BY <1>2, <1>3, NoAnswerYet
  <1>8. AnswerInv(toServer', saveList', sequence, clientSequence')
    BY <1>1, <1>7
  <1>9. ClientTypes'
    <2>1. overlapped' \in BOOLEAN
      BY <1>1, <1>4 DEF ClientTypes, Downloading
    <2>2. localGhost' \in Tables
      BY <1>1 DEF Tables
    <2>3. saveList' \in Seq(Saves)
      BY <1>1
    <2> QED BY <1>1, <1>4, <2>1, <2>2, <2>3 DEF ClientTypes, downloadVars
  <1> QED BY <1>1, <1>2, <1>4, <1>6, <1>7, <1>8, <1>9, ClientStep DEF ChannelTypes

LEMMA SendNextDownloadRequestKeeps ==
  ASSUME IInv, SendNextDownloadRequest
  PROVE  IInv'
  <1>1. /\ Process("SendNextDownloadRequest")
        /\ UNCHANGED <<delivered, clientSequence, buffer, disk, overlapped>>
        /\ SendNextFileDownloadRequest(missing, numDownloaded)
    BY DEF SendNextDownloadRequest
  <1>2. toClient' \in Seq(ClientMessages) /\ UNCHANGED serverVars
    BY <1>1, Taken
  <1>3. ClientTypes /\ ChannelTypes
    BY TypeParts DEF IInv
  <1>4. EventInv(toClient', saveList, localGhost, ghost, sequence, clientSequence, scoping)
    BY <1>1, TakenOther
  <1>5. missing \in Seq(Files) /\ numDownloaded \in Nat /\ delivered' \in Nat
    BY <1>1, <1>3 DEF ClientTypes, ChannelTypes
  <1>6. /\ saveList' \in Seq(Saves)
        /\ localGhost' \in Tables
        /\ missing' \in Seq(Files) /\ numDownloaded' \in Nat /\ fault' \in Faults
        /\ toServer' \in Seq(ServerMessages)
        /\ EventInv(toClient', saveList', localGhost', ghost, sequence, clientSequence, scoping)
        /\ AnswerInv(toServer', saveList', sequence, clientSequence)
        /\ StaysEmpty(saveList, saveList')
    BY <1>1, <1>2, <1>4, <1>5, SendNextKeeps
  <1>7. ClientTypes'
    BY <1>1, <1>3, <1>6 DEF ClientTypes
  <1>8. ghosting => clientSequence' = clientSequence /\ saveList' = <<>>
    BY <1>1, <1>6, GhostingIsQuiet DEF StaysEmpty
  <1> QED BY <1>1, <1>2, <1>6, <1>7, <1>8, ClientStep

\* The client's ghosts are left alone.
LEMMA DownloadStep ==
  ASSUME IInv, UNCHANGED serverVars, toClient' \in Seq(ClientMessages),
         UNCHANGED <<saveList, localGhost, clientSequence, overlapped, toServer>>,
         delivered' \in {delivered, delivered + 1},
         missing' \in Seq(Files), numDownloaded' \in Nat,
         buffer' \in [size : Nat, data : Seq(Chunk), null : BOOLEAN],
         disk' \in [Files -> Seq(Chunk)], fault' \in Faults,
         EventInv(toClient', saveList, localGhost, ghost, sequence, clientSequence, scoping)
  PROVE  IInv'
  <1>1. ClientTypes /\ ChannelTypes /\ AnswerInv(toServer, saveList, sequence, clientSequence)
    BY TypeParts DEF IInv
  <1>2. ClientTypes'
    BY <1>1 DEF ClientTypes
  <1>3. ghosting => clientSequence' = clientSequence /\ saveList' = <<>>
    BY GhostingIsQuiet
  <1>4. /\ EventInv(toClient', saveList', localGhost', ghost, sequence, clientSequence', scoping)
        /\ AnswerInv(toServer', saveList', sequence, clientSequence')
        /\ toServer' \in Seq(ServerMessages)
    BY <1>1 DEF ChannelTypes
  <1> QED BY <1>2, <1>3, <1>4, ClientStep

LEMMA FileDownloadSizeKeeps ==
  ASSUME IInv, FileDownloadSize
  PROVE  IInv'
  <1>1. /\ Process("FileDownloadSize")
        /\ buffer' = [size |-> Head(toClient).size, data |-> <<>>, null |-> FALSE]
        /\ UNCHANGED <<delivered, clientSequence, saveList, localGhost, missing, disk,
                       numDownloaded, overlapped, toServer, fault>>
    BY DEF FileDownloadSize
  <1>2. /\ toClient' \in Seq(ClientMessages) /\ UNCHANGED serverVars
        /\ toClient[1] = Head(toClient) /\ toClient[1] \in ClientMessages
        /\ toClient[1].type = "FileDownloadSize"
    BY <1>1, Taken
  <1>3. Head(toClient).size \in Nat
    BY <1>2 DEF ClientMessages
  <1>4. buffer' \in [size : Nat, data : Seq(Chunk), null : BOOLEAN]
    BY <1>1, <1>3
  <1>5. EventInv(toClient', saveList, localGhost, ghost, sequence, clientSequence, scoping)
    BY <1>1, TakenOther
  <1>6. ClientTypes
    BY TypeParts DEF IInv
  <1> QED BY <1>1, <1>2, <1>4, <1>5, <1>6, DownloadStep DEF ClientTypes

LEMMA EmptyChunkKeeps ==
  ASSUME IInv, EmptyChunk
  PROVE  IInv'
  <1>1. /\ Process("FileChunk") /\ delivered' = delivered + 1
        /\ UNCHANGED <<clientSequence, overlapped>>
        /\ buffer' = [buffer EXCEPT !.null = TRUE]
        /\ \/ missing = <<>> /\ fault' = "client" /\ missing' = missing
           \/ missing # <<>> /\ missing' = Tail(missing) /\ fault' = fault
        /\ UNCHANGED <<saveList, localGhost, disk, numDownloaded, toServer>>
    BY DEF EmptyChunk, ChunkReceived
  <1>2. toClient' \in Seq(ClientMessages) /\ UNCHANGED serverVars
    BY <1>1, Taken
  <1>3. EventInv(toClient', saveList, localGhost, ghost, sequence, clientSequence, scoping)
    BY <1>1, TakenOther
  <1>4. ClientTypes
    BY TypeParts DEF IInv
  <1>5. buffer' \in [size : Nat, data : Seq(Chunk), null : BOOLEAN]
    BY <1>1, <1>4 DEF ClientTypes
  <1>6. missing' \in Seq(Files) /\ fault' \in Faults
    <2>1. missing \in Seq(Files) /\ fault \in Faults
      BY <1>4 DEF ClientTypes
    <2>2. missing # <<>> => Tail(missing) \in Seq(Files)
      BY <2>1
    <2> QED BY <1>1, <2>1, <2>2 DEF Faults
  <1> QED BY <1>1, <1>2, <1>3, <1>4, <1>5, <1>6, DownloadStep DEF ClientTypes

LEMMA FileChunkKeeps ==
  ASSUME IInv, FileChunk
  PROVE  IInv'
  <1> DEFINE data == Append(buffer.data, Head(toClient).chunk)
             wild == buffer.null \/ missing = <<>>
  <1>1. /\ Process("FileChunk") /\ delivered' = delivered + 1
        /\ UNCHANGED <<clientSequence, overlapped>>
        /\ Head(toClient).chunk # None
        /\ \/ /\ fault' \in Faults
              /\ UNCHANGED <<downloadVars, saveList, localGhost, toServer>>
           \/ /\ buffer' = [buffer EXCEPT !.data = data]
              /\ UNCHANGED <<missing, disk, numDownloaded, saveList, localGhost, toServer, fault>>
           \/ /\ ~wild
              /\ buffer' = [buffer EXCEPT !.data = data, !.null = TRUE]
              /\ disk' = [disk EXCEPT ![Head(missing)] = data]
              /\ SendNextFileDownloadRequest(Tail(missing), numDownloaded + 1)
    BY DEF FileChunk, ChunkReceived, Faults
  <1>2. /\ toClient' \in Seq(ClientMessages) /\ UNCHANGED serverVars
        /\ toClient[1] = Head(toClient) /\ toClient[1] \in ClientMessages
        /\ toClient[1].type = "FileChunk"
    BY <1>1, Taken
  <1>3. EventInv(toClient', saveList, localGhost, ghost, sequence, clientSequence, scoping)
    BY <1>1, TakenOther
  <1>4. ClientTypes /\ ChannelTypes
    BY TypeParts DEF IInv
  <1>5. data \in Seq(Chunk)
    <2>1. Head(toClient).chunk \in Chunk
      BY <1>1, <1>2 DEF ClientMessages
    <2> QED BY <1>4, <2>1 DEF ClientTypes
  <1>6. CASE fault' \in Faults /\ UNCHANGED <<downloadVars, saveList, localGhost, toServer>>
    BY <1>1, <1>2, <1>3, <1>4, <1>6, DownloadStep DEF ClientTypes, downloadVars
  <1>7. CASE /\ buffer' = [buffer EXCEPT !.data = data]
             /\ UNCHANGED <<missing, disk, numDownloaded, saveList, localGhost, toServer, fault>>
    <2> HIDE DEF data
    <2>1. buffer' \in [size : Nat, data : Seq(Chunk), null : BOOLEAN]
      BY <1>4, <1>5, <1>7 DEF ClientTypes
    <2> QED BY <1>1, <1>2, <1>3, <1>4, <1>7, <2>1, DownloadStep DEF ClientTypes
  <1>8. CASE /\ ~wild
             /\ buffer' = [buffer EXCEPT !.data = data, !.null = TRUE]
             /\ disk' = [disk EXCEPT ![Head(missing)] = data]
             /\ SendNextFileDownloadRequest(Tail(missing), numDownloaded + 1)
    <2> HIDE DEF data
    <2>1. buffer' \in [size : Nat, data : Seq(Chunk), null : BOOLEAN]
      BY <1>4, <1>5, <1>8 DEF ClientTypes
    <2>2. Tail(missing) \in Seq(Files) /\ Head(missing) \in Files
      BY <1>4, <1>8 DEF ClientTypes
    <2>3. disk' \in [Files -> Seq(Chunk)]
      BY <1>4, <1>5, <1>8, <2>2 DEF ClientTypes
    <2>4. numDownloaded + 1 \in Nat /\ delivered' \in Nat
      <3>1. numDownloaded \in Nat /\ delivered \in Nat /\ delivered' = delivered + 1
        BY <1>1, <1>4 DEF ClientTypes, ChannelTypes
      <3> QED BY <3>1
    <2> DEFINE files == Tail(missing)
               num == numDownloaded + 1
    <2>5. files \in Seq(Files) /\ num \in Nat /\ SendNextFileDownloadRequest(files, num)
      BY <1>8, <2>2, <2>4
    <2> HIDE DEF files, num
    <2>6. /\ saveList' \in Seq(Saves)
          /\ localGhost' \in Tables
          /\ missing' \in Seq(Files) /\ numDownloaded' \in Nat /\ fault' \in Faults
          /\ toServer' \in Seq(ServerMessages)
          /\ EventInv(toClient', saveList', localGhost', ghost, sequence, clientSequence, scoping)
          /\ AnswerInv(toServer', saveList', sequence, clientSequence)
          /\ StaysEmpty(saveList, saveList')
      BY <1>2, <1>3, <2>4, <2>5, SendNextKeeps
    <2>7. ClientTypes'
      BY <1>1, <1>4, <2>1, <2>3, <2>6 DEF ClientTypes
    <2>8. ghosting => clientSequence' = clientSequence /\ saveList' = <<>>
      BY <1>1, <2>6, GhostingIsQuiet DEF StaysEmpty
    <2> QED BY <1>1, <1>2, <2>6, <2>7, <2>8, ClientStep
  <1> QED BY <1>1, <1>6, <1>7, <1>8

-----------------------------------------------------------------------------
(* The steps of the server.                                                *)

\* What a step of the server must keep.
LEMMA ServerStep ==
  ASSUME IInv, UNCHANGED clientVars, ServerTypes', toClient' \in Seq(ClientMessages),
         UNCHANGED <<toServer, notified, fault>>, AlwaysInv', InfosInv',
         EventInv(toClient', saveList, localGhost, ghost', sequence', clientSequence, scoping'),
         AnswerInv(toServer, saveList, sequence', clientSequence)
  PROVE  IInv'
  <1>1. UNCHANGED <<delivered, clientSequence, saveList, localGhost, missing, buffer, disk,
                    numDownloaded, overlapped>>
    BY DEF clientVars, downloadVars
  <1>2. ClientTypes /\ ChannelTypes
    BY TypeParts DEF IInv
  <1>3. TypeOK'
    <2>1. ClientTypes'
      BY <1>1, <1>2 DEF ClientTypes
    <2>2. ChannelTypes'
      BY <1>1, <1>2 DEF ChannelTypes
    <2> QED BY <2>1, <2>2, TypePartsNext
  <1> QED BY <1>1, <1>3 DEF IInv

\* The object o leaves the ghost-always set, and its ghosts lose it.
LEMMA DetachKeeps ==
  ASSUME IInv, NEW o \in Objects, NEW left, left \in {alive, alive \ {o}}, alive' = left,
         always' = Excluding(always, {o}),
         ghost' = [i \in Indices |->
                     IF ghost[i].obj = o THEN [ghost[i] EXCEPT !.obj = None] ELSE ghost[i]],
         UNCHANGED <<scoping, ghosting, sequence, sessions, uploadVars, toClient, toServer,
                     clientVars, fault>>
  PROVE  IInv'
  <1>1. /\ ServerTypes /\ InfosInv /\ AlwaysInv
        /\ EventInv(toClient, saveList, localGhost, ghost, sequence, clientSequence, scoping)
        /\ AnswerInv(toServer, saveList, sequence, clientSequence)
        /\ toClient \in Seq(ClientMessages) /\ saveList \in Seq(Saves)
    BY TypeParts DEF IInv, ClientTypes, ChannelTypes
  <1>2. always' \in Seq(alive') /\ Different(always')
    <2>1. always \in Seq(alive) /\ Different(always)
      BY <1>1 DEF ServerTypes, AlwaysInv, Different
    <2>2. /\ Excluding(always, {o}) \in Seq(alive \ {o})
          /\ Excluding(always, {o}) \in Seq(alive)
          /\ Different(Excluding(always, {o}))
      BY <2>1, ExcludingType
    <2> QED BY <2>2
  <1>3. \A i \in Indices :
          /\ ghost'[i] \in Infos /\ ghost'[i].state = ghost[i].state
          /\ ghost'[i].obj \in {None, ghost[i].obj} /\ ghost'[i].obj # o
          /\ ghost[i] = FreeInfo => ghost'[i] = FreeInfo
    <2>1. ghost \in [Indices -> Infos] /\ None # o
      BY <1>1, ConstantFacts DEF ServerTypes
    <2> SUFFICES ASSUME NEW i \in Indices
                 PROVE  /\ ghost'[i] \in Infos /\ ghost'[i].state = ghost[i].state
                        /\ ghost'[i].obj \in {None, ghost[i].obj} /\ ghost'[i].obj # o
                        /\ ghost[i] = FreeInfo => ghost'[i] = FreeInfo
      OBVIOUS
    <2>2. ghost'[i] = IF ghost[i].obj = o THEN [ghost[i] EXCEPT !.obj = None] ELSE ghost[i]
      OBVIOUS
    <2>3. ghost[i] \in Infos
      BY <2>1
    <2>4. CASE ghost[i].obj = o
      <3>1. ghost'[i] = [ghost[i] EXCEPT !.obj = None]
        BY <2>2, <2>4
      <3>2. ghost[i] # FreeInfo
        BY <2>1, <2>4 DEF FreeInfo
      <3> QED BY <2>1, <2>3, <3>1, <3>2 DEF Infos
    <2>5. CASE ghost[i].obj # o
      BY <2>2, <2>3, <2>5
    <2> QED BY <2>4, <2>5
  <1>4. ghost' \in [Indices -> Infos]
    BY <1>3
  <1>5. EventInv(toClient, saveList, localGhost, ghost', sequence, clientSequence, scoping)
    <2> DEFINE now == ghost'
    <2>1. \A i \in Indices : /\ now[i].state = "event" <=> ghost[i].state = "event"
                             /\ ghost[i].state = "event" => now[i].obj \in {None, ghost[i].obj}
      BY <1>3
    <2> HIDE DEF now
    <2>2. EventInv(toClient, saveList, localGhost, now, sequence, clientSequence, scoping)
      BY <1>1, <2>1, InfosChange
    <2> QED BY <2>2 DEF now
  <1>6. InfosInv'
    <2>1. clientSequence' = clientSequence /\ saveList' = saveList
      BY DEF clientVars
    <2>2. \A i \in Indices : ghost'[i].obj # None => ghost'[i].obj \in alive'
      BY <1>1, <1>3 DEF InfosInv
    <2> QED BY <1>1, <1>3, <2>1, <2>2 DEF InfosInv
  <1>7. ServerTypes'
    <2>1. alive' \subseteq Objects
      BY <1>1 DEF ServerTypes
    <2>2. upload' = upload
      BY DEF uploadVars
    <2> QED BY <1>1, <1>2, <1>4, <2>1, <2>2 DEF ServerTypes
  <1>8. AlwaysInv'
    BY <1>2 DEF AlwaysInv, Different
  <1> QED BY <1>1, <1>5, <1>6, <1>7, <1>8, ServerStep DEF uploadVars

LEMMA DeleteObjectKeeps ==
  ASSUME IInv, NEW o \in Objects, DeleteObject(o)
  PROVE  IInv'
  <1>1. alive' = alive \ {o}
    BY DEF DeleteObject
  <1> DEFINE left == alive \ {o}
  <1>2. left \in {alive, alive \ {o}} /\ alive' = left
    BY <1>1
  <1> HIDE DEF left
  <1> QED BY <1>2, DetachKeeps DEF DeleteObject

LEMMA ClearScopeAlwaysKeeps ==
  ASSUME IInv, NEW o \in Objects, ClearScopeAlways(o)
  PROVE  IInv'
  <1> DEFINE left == alive
  <1>1. left \in {alive, alive \ {o}} /\ alive' = left
    BY DEF ClearScopeAlways
  <1> HIDE DEF left
  <1> QED BY <1>1, DetachKeeps DEF ClearScopeAlways

LEMMA SetScopeAlwaysKeeps ==
  ASSUME IInv, NEW o \in Objects, SetScopeAlways(o)
  PROVE  IInv'
  <1>1. /\ ServerTypes /\ InfosInv /\ AlwaysInv
        /\ EventInv(toClient, saveList, localGhost, ghost, sequence, clientSequence, scoping)
        /\ AnswerInv(toServer, saveList, sequence, clientSequence)
        /\ toClient \in Seq(ClientMessages) /\ saveList \in Seq(Saves)
    BY TypeParts DEF IInv, ClientTypes, ChannelTypes
  <1>2. /\ o \in alive \ Range(always) /\ always' = Append(always, o)
        /\ UNCHANGED <<alive, scoping, ghosting, sequence, sessions, uploadVars, toClient,
                       toServer, clientVars, fault>>
        /\ \/ /\ ghosting
              /\ \E i \in Indices : /\ ghost[i].state = "free"
                                    /\ ghost' = [ghost EXCEPT ![i] = [obj |-> o, state |-> "new"]]
           \/ ghost' = ghost
    BY DEF SetScopeAlways
  <1>3. always' \in Seq(alive') /\ Different(always')
    <2>1. always \in Seq(alive) /\ Different(always)
      BY <1>1 DEF ServerTypes, AlwaysInv, Different
    <2>2. \A j \in DOMAIN always : always[j] # o
      BY <1>2 DEF Range
    <2>3. /\ always' \in Seq(alive) /\ DOMAIN always' = 1 .. Len(always) + 1
          /\ DOMAIN always = 1 .. Len(always) /\ Len(always) \in Nat
          /\ \A j \in DOMAIN always : always'[j] = always[j]
          /\ always'[Len(always) + 1] = o
      BY <1>2, <2>1
    <2>4. \A j \in DOMAIN always' : (j \in DOMAIN always /\ always'[j] = always[j])
                                      \/ (j = Len(always) + 1 /\ always'[j] = o)
      BY <2>3
    <2>5. Different(always')
      BY <2>1, <2>2, <2>4 DEF Different
    <2> QED BY <1>2, <2>3, <2>5
  <1>4. \A i \in Indices :
          /\ ghost'[i] \in Infos
          /\ ghost'[i] = ghost[i] \/ (/\ ghost[i].state = "free" /\ ghosting
                                      /\ ghost'[i] = [obj |-> o, state |-> "new"])
    <2>1. ghost \in [Indices -> Infos] /\ [obj |-> o, state |-> "new"] \in Infos
      BY <1>1 DEF ServerTypes, Infos
    <2> QED BY <1>2, <2>1
  <1>5. ghost' \in [Indices -> Infos]
    <2>1. ghost \in [Indices -> Infos]
      BY <1>1 DEF ServerTypes
    <2>2. ghost' = [i \in Indices |-> ghost'[i]]
      BY <1>2, <2>1
    <2> QED BY <1>4, <2>2
  <1>6. EventInv(toClient, saveList, localGhost, ghost', sequence, clientSequence, scoping)
    <2> DEFINE now == ghost'
    <2>1. \A i \in Indices : /\ now[i].state = "event" <=> ghost[i].state = "event"
                             /\ ghost[i].state = "event" => now[i].obj \in {None, ghost[i].obj}
      BY <1>4
    <2> HIDE DEF now
    <2>2. EventInv(toClient, saveList, localGhost, now, sequence, clientSequence, scoping)
      BY <1>1, <2>1, InfosChange
    <2> QED BY <2>2 DEF now
  <1>7. InfosInv'
    <2>1. clientSequence' = clientSequence /\ saveList' = saveList
      BY <1>2 DEF clientVars
    <2>2. \A i \in Indices : ghost'[i].obj # None => ghost'[i].obj \in alive'
      BY <1>1, <1>2, <1>4 DEF InfosInv
    <2>3. ~scoping' => \A i \in Indices : ghost'[i] = FreeInfo
      BY <1>1, <1>2, <1>4 DEF InfosInv, ServerTypes
    <2> QED BY <1>1, <1>2, <2>1, <2>2, <2>3 DEF InfosInv
  <1>8. ServerTypes'
    <2>1. upload' = upload
      BY <1>2 DEF uploadVars
    <2> QED BY <1>1, <1>2, <1>3, <1>5, <2>1 DEF ServerTypes
  <1>9. AlwaysInv'
    BY <1>3 DEF AlwaysInv, Different
  <1> QED BY <1>1, <1>2, <1>6, <1>7, <1>8, <1>9, ServerStep DEF uploadVars

LEMMA AppendIsPosted ==
  ASSUME NEW c \in Seq(ClientMessages), NEW m \in ClientMessages
  PROVE  Posted(Append(c, m), c, <<m>>) /\ Append(c, m) \in Seq(ClientMessages)
         /\ Len(<<m>>) = 1 /\ <<m>>[1] = m
  BY DEF Posted

\* The answers there are belong to the sessions before.
LEMMA AnswersOfBefore ==
  ASSUME NEW server \in Seq(ServerMessages), NEW list, NEW number \in Nat, NEW seen,
         NEW later, later = number + 1, AnswerInv(server, list, number, seen)
  PROVE  AnswerInv(server, list, later, seen)
  <1> SUFFICES ASSUME NEW k \in DOMAIN server, Answers(server[k])
               PROVE  /\ server[k].sequence # 0 /\ server[k].sequence =< later
                      /\ server[k].sequence # later
    BY DEF AnswerInv, Answers
  <1>1. server[k] \in ServerMessages
    OBVIOUS
  <1>2. server[k].sequence \in Nat
    BY <1>1 DEF ServerMessages, Answers
  <1>3. server[k].sequence # 0 /\ server[k].sequence =< number
    BY DEF AnswerInv, Answers
  <1> QED BY <1>2, <1>3

LEMMA ResetGhostingKeeps ==
  ASSUME IInv, ResetGhosting
  PROVE  IInv'
  <1>1. /\ ServerTypes /\ InfosInv /\ AlwaysInv /\ ClientTypes /\ ChannelTypes
        /\ EventInv(toClient, saveList, localGhost, ghost, sequence, clientSequence, scoping)
        /\ AnswerInv(toServer, saveList, sequence, clientSequence)
    BY TypeParts DEF IInv
  <1> DEFINE m == [type |-> "EndGhosting"]
             later == sequence + 1
             none == ghost'
             s == <<m>>
  <1>2. /\ ghosting' = FALSE /\ scoping' = FALSE /\ toClient' = Append(toClient, m)
        /\ sequence' = later /\ ghost' = [i \in Indices |-> FreeInfo]
        /\ UNCHANGED <<alive, always, sessions, uploadVars, toServer, clientVars, fault>>
    BY DEF ResetGhosting
  <1>3. m \in ClientMessages /\ Ends(m)
    BY DEF ClientMessages, Ends
  <1> HIDE DEF m
  <1>4. Posted(toClient', toClient, s) /\ Len(s) = 1 /\ Ends(s[1])
        /\ toClient' \in Seq(ClientMessages)
    BY <1>1, <1>2, <1>3, AppendIsPosted DEF ChannelTypes
  <1>5. later \in Nat /\ later = sequence + 1 /\ sequence \in Nat /\ clientSequence \in Nat
    BY <1>1 DEF ServerTypes, ClientTypes
  <1>6. \A i \in Indices : none[i] = FreeInfo
    BY <1>2
  <1>7. none \in [Indices -> Infos]
    BY <1>2 DEF FreeInfo, Infos
  <1> HIDE DEF later, none, s
  <1>8. EventInv(toClient', saveList, localGhost, none, later, clientSequence, FALSE)
    BY <1>1, <1>4, <1>5, <1>6, PostEnd
  <1>9. EventInv(toClient', saveList, localGhost, ghost', sequence', clientSequence, scoping')
    BY <1>2, <1>8 DEF none
  <1>10. AnswerInv(toServer, saveList, sequence', clientSequence)
    BY <1>1, <1>2, <1>5, AnswersOfBefore DEF ChannelTypes
  <1>11. ServerTypes'
    <2>1. upload' = upload
      BY <1>2 DEF uploadVars
    <2> QED BY <1>1, <1>2, <1>5, <1>7, <2>1 DEF ServerTypes, none
  <1>12. InfosInv'
    BY <1>2, <1>6 DEF InfosInv, none, FreeInfo
  <1>13. AlwaysInv'
    BY <1>1, <1>2 DEF AlwaysInv
  <1> QED BY <1>2, <1>4, <1>9, <1>10, <1>11, <1>12, <1>13, ServerStep DEF uploadVars

LEMMA ReversedList ==
  ASSUME NEW objs \in Seq(ClientMessages), NEW n \in Nat, Len(objs) = n
  PROVE  /\ Reverse(objs) \in Seq(ClientMessages) /\ Len(Reverse(objs)) = n
         /\ \A k \in 1 .. n : Reverse(objs)[k] = objs[n - k + 1]
  <1> DEFINE r == Reverse(objs)
  <1>1. r = [k \in 1 .. n |-> objs[(n - k) + 1]]
    BY DEF Reverse
  <1>2. \A k \in 1 .. n : (n - k) + 1 \in 1 .. n /\ objs[(n - k) + 1] \in ClientMessages
    OBVIOUS
  <1> HIDE DEF r
  <1>3. /\ r \in Seq(ClientMessages) /\ Len(r) = n
        /\ \A k \in 1 .. n : r[k] = objs[n - k + 1]
    BY <1>1, <1>2
  <1> QED BY <1>3 DEF r

LEMMA ListAndEnd ==
  ASSUME NEW r \in Seq(ClientMessages), NEW m \in ClientMessages
  PROVE  /\ r \o <<m>> \in Seq(ClientMessages) /\ Len(r \o <<m>>) = Len(r) + 1
         /\ (r \o <<m>>)[Len(r) + 1] = m
         /\ \A k \in 1 .. Len(r) : (r \o <<m>>)[k] = r[k]
  OBVIOUS

\* A list and one event more, posted to what has been posted.
LEMMA PostedTwice ==
  ASSUME NEW c \in Seq(ClientMessages), NEW r \in Seq(ClientMessages), NEW m \in ClientMessages
  PROVE  /\ Posted(c \o r \o <<m>>, c, r \o <<m>>)
         /\ c \o r \o <<m>> \in Seq(ClientMessages)
  <1>1. <<m>> \in Seq(ClientMessages)
    OBVIOUS
  <1>2. (c \o r) \o <<m>> = c \o (r \o <<m>>)
    BY <1>1, ConcatAssociative
  <1>3. r \o <<m>> \in Seq(ClientMessages)
    BY ListAndEnd
  <1>4. c \o (r \o <<m>>) \in Seq(ClientMessages)
    BY <1>3
  <1>5. Posted(c \o (r \o <<m>>), c, r \o <<m>>)
    BY <1>3, ConcatIsPosted
  <1> QED BY <1>2, <1>4, <1>5


\* What the start of ghosting posts: the objects from the last to the first,
\* then the number of the session.
LEMMA ActivateGhostingPosts ==
  ASSUME IInv, ActivateGhosting
  PROVE  \E s : /\ Posted(toClient', toClient, s) /\ Len(s) = Len(always) + 1
                /\ \A k \in 1 .. Len(always) :
                     /\ Brings(s[k]) /\ s[k].index = MaxGhostCount - k
                     /\ s[k].obj = always[Len(always) - k + 1]
                /\ Closes(s[Len(always) + 1]) /\ s[Len(always) + 1].sequence = sequence + 1
  <1>1. ServerTypes /\ AlwaysInv /\ ChannelTypes
    BY TypeParts DEF IInv
  <1> DEFINE n == Len(always)
             later == sequence + 1
             objs == [j \in 1 .. n |-> [type |-> "GhostAlwaysObject", obj |-> always[j],
                                        index |-> MaxGhostCount - n + j - 1]]
             m == [type |-> "GhostAlwaysDone", sequence |-> later]
             s == Reverse(objs) \o <<m>>
  <1>2. n \in Nat /\ n =< MaxGhostCount /\ MaxGhostCount \in Nat
        /\ \A j \in 1 .. n : always[j] \in Objects /\ always[j] \in alive
    <2>1. always \in Seq(alive) /\ always \in Seq(Objects) /\ Different(always)
      BY <1>1 DEF ServerTypes, AlwaysInv, Different
    <2>2. Len(always) \in Nat /\ Len(always) =< MaxGhostCount
      BY <2>1, DifferentIsShort
    <2> QED BY <2>1, <2>2, ConstantFacts
  <1>3. toClient' = toClient \o Reverse(objs) \o <<m>>
    BY Zenon DEF ActivateGhosting
  <1>4. later \in Nat
    BY <1>1 DEF ServerTypes
  <1> HIDE DEF n, later
  <1>5. /\ objs \in Seq(ClientMessages) /\ Len(objs) = n
        /\ \A j \in 1 .. n : /\ Brings(objs[j]) /\ objs[j].obj = always[j]
                             /\ objs[j].index = MaxGhostCount - n + j - 1
    <2>1. \A j \in 1 .. n : objs[j] = [type |-> "GhostAlwaysObject", obj |-> always[j],
                                       index |-> MaxGhostCount - n + j - 1]
      OBVIOUS
    <2>2. \A j \in 1 .. n : MaxGhostCount - n + j - 1 \in Indices
      BY <1>2 DEF Indices
    <2>3. \A j \in 1 .. n : objs[j] \in ClientMessages
      BY <1>2, <2>1, <2>2 DEF ClientMessages
    <2>4. objs \in [1 .. n -> ClientMessages]
      BY <2>3
    <2>5. objs \in Seq(ClientMessages) /\ Len(objs) = n
      BY <1>2, <2>4
    <2> HIDE DEF objs
    <2> QED BY <2>1, <2>5 DEF Brings
  <1>6. m \in ClientMessages /\ Closes(m) /\ m.sequence = later
    BY <1>4 DEF ClientMessages, Closes
  <1> HIDE DEF objs, m
  <1>7. /\ Posted(toClient', toClient, s) /\ toClient' \in Seq(ClientMessages)
        /\ Len(s) = n + 1
        /\ \A k \in 1 .. n : s[k] = objs[n - k + 1]
        /\ s[n + 1] = m
    <2>1. toClient \in Seq(ClientMessages)
      BY <1>1 DEF ChannelTypes
    <2> DEFINE r == Reverse(objs)
    <2>2. n \in Nat /\ m \in ClientMessages /\ objs \in Seq(ClientMessages) /\ Len(objs) = n
      BY <1>2, <1>5, <1>6
    <2>3. /\ r \in Seq(ClientMessages) /\ Len(r) = n
          /\ \A k \in 1 .. n : r[k] = objs[n - k + 1]
      BY <2>2, ReversedList
    <2>4. s = r \o <<m>> /\ toClient' = toClient \o r \o <<m>>
      BY <1>3
    <2> HIDE DEF r, s
    <2>5. Len(s) = n + 1 /\ s[n + 1] = m /\ \A k \in 1 .. n : s[k] = r[k]
      <3> DEFINE u == r \o <<m>>
      <3>1. Len(u) = Len(r) + 1 /\ u[Len(r) + 1] = m /\ \A k \in 1 .. Len(r) : u[k] = r[k]
        BY <2>2, <2>3, ListAndEnd, Zenon
      <3>2. s = u /\ Len(r) = n
        BY <2>3, <2>4
      <3> HIDE DEF u
      <3> QED BY <3>1, <3>2
    <2>6. Posted(toClient', toClient, s) /\ toClient' \in Seq(ClientMessages)
      BY <2>1, <2>2, <2>3, <2>4, PostedTwice
    <2> QED BY <2>3, <2>5, <2>6
  <1> HIDE DEF s
  <1>8. \A k \in 1 .. n : /\ n - k + 1 \in 1 .. n /\ s[k] = objs[n - k + 1]
                          /\ Brings(s[k]) /\ s[k].index = MaxGhostCount - k
                          /\ s[k].obj = always[n - k + 1]
    <2> SUFFICES ASSUME NEW k \in 1 .. n
                 PROVE  /\ n - k + 1 \in 1 .. n /\ s[k] = objs[n - k + 1]
                        /\ Brings(s[k]) /\ s[k].index = MaxGhostCount - k
                        /\ s[k].obj = always[n - k + 1]
      OBVIOUS
    <2>1. n - k + 1 \in 1 .. n
      BY <1>2
    <2>2. MaxGhostCount - n + (n - k + 1) - 1 = MaxGhostCount - k
      BY <1>2
    <2> QED BY <1>5, <1>7, <2>1, <2>2
  <1> QED BY <1>6, <1>7, <1>8 DEF n, later

LEMMA ActivateGhostingKeeps ==
  ASSUME IInv, ActivateGhosting
  PROVE  IInv'
  <1>1. /\ ServerTypes /\ InfosInv /\ AlwaysInv /\ ClientTypes /\ ChannelTypes
        /\ EventInv(toClient, saveList, localGhost, ghost, sequence, clientSequence, scoping)
        /\ AnswerInv(toServer, saveList, sequence, clientSequence)
    BY TypeParts DEF IInv
  <1> DEFINE n == Len(always)
             later == sequence + 1
             sent == ghost'
  <1>2. n \in Nat /\ n =< MaxGhostCount /\ MaxGhostCount \in Nat
        /\ \A j \in 1 .. n : always[j] \in Objects /\ always[j] \in alive
    <2>1. always \in Seq(alive) /\ always \in Seq(Objects) /\ Different(always)
      BY <1>1 DEF ServerTypes, AlwaysInv, Different
    <2>2. Len(always) \in Nat /\ Len(always) =< MaxGhostCount
      BY <2>1, DifferentIsShort
    <2> QED BY <2>1, <2>2, ConstantFacts
  <1>3. /\ ~scoping /\ sequence' = later /\ scoping' = TRUE /\ sessions' = sessions + 1
        /\ ghost' = [i \in Indices |->
                      IF \E j \in 1 .. n : i = MaxGhostCount - n + j - 1
                        THEN [obj |-> always[i - (MaxGhostCount - n + 0 - 1)], state |-> "event"]
                        ELSE FreeInfo]
        /\ UNCHANGED <<alive, always, ghosting, uploadVars, toServer, clientVars, fault>>
    BY Zenon DEF ActivateGhosting
  <1>4. later \in Nat /\ later = sequence + 1 /\ sequence \in Nat /\ clientSequence \in Nat
        /\ sessions' \in Nat
    <2>1. sequence \in Nat /\ sessions \in Nat /\ clientSequence \in Nat
      BY <1>1 DEF ServerTypes, ClientTypes
    <2> QED BY <1>3, <2>1
  <1>5. PICK s : /\ Posted(toClient', toClient, s) /\ Len(s) = n + 1
                 /\ \A k \in 1 .. n : /\ Brings(s[k]) /\ s[k].index = MaxGhostCount - k
                                      /\ s[k].obj = always[n - k + 1]
                 /\ Closes(s[n + 1]) /\ s[n + 1].sequence = later
    BY ActivateGhostingPosts
  <1> HIDE DEF n, later
  <1>6. Posted(toClient', toClient, s) /\ toClient' \in Seq(ClientMessages)
    BY <1>5 DEF Posted
  <1>9. \A i \in Indices : \A k \in 1 .. n : i = MaxGhostCount - k =>
          sent[i] = [obj |-> always[n - k + 1], state |-> "event"]
    <2> SUFFICES ASSUME NEW i \in Indices, NEW k \in 1 .. n, i = MaxGhostCount - k
                 PROVE  sent[i] = [obj |-> always[n - k + 1], state |-> "event"]
      OBVIOUS
    <2>1. n - k + 1 \in 1 .. n /\ i = MaxGhostCount - n + (n - k + 1) - 1
      BY <1>2
    <2>2. i - (MaxGhostCount - n + 0 - 1) = n - k + 1
      BY <1>2
    <2> QED BY <1>3, <2>1, <2>2
  <1>10. \A i \in Indices : (\A k \in 1 .. n : i # MaxGhostCount - k) => sent[i] = FreeInfo
    <2> SUFFICES ASSUME NEW i \in Indices, NEW j \in 1 .. n, i = MaxGhostCount - n + j - 1
                 PROVE  \E k \in 1 .. n : i = MaxGhostCount - k
      BY <1>3
    <2>1. n - j + 1 \in 1 .. n /\ i = MaxGhostCount - (n - j + 1)
      BY <1>2
    <2> QED BY <2>1
  <1>11. \A k \in 1 .. n : MaxGhostCount - k \in Indices
    BY <1>2 DEF Indices
  <1>12. Session(s, n, sent, later)
    <2>1. \A j, k \in 1 .. n : j # k => s[j].index # s[k].index
      <3>1. \A j, k \in 1 .. n : j # k => MaxGhostCount - j # MaxGhostCount - k
        BY <1>2
      <3> QED BY <1>5, <3>1
    <2>2. ASSUME NEW i \in Indices
          PROVE  sent[i].state = "event" <=> \E k \in 1 .. n : s[k].index = i
      <3>1. CASE \E k \in 1 .. n : i = MaxGhostCount - k
        <4>1. PICK k \in 1 .. n : i = MaxGhostCount - k
          BY <3>1
        <4>2. sent[i] = [obj |-> always[n - k + 1], state |-> "event"]
          BY <1>9, <4>1
        <4> HIDE DEF sent
        <4> QED BY <1>5, <4>1, <4>2
      <3>2. CASE \A k \in 1 .. n : i # MaxGhostCount - k
        BY <1>5, <1>10, <3>2 DEF FreeInfo
      <3> QED BY <3>1, <3>2
    <2>3. \A k \in 1 .. n : sent[s[k].index].obj = s[k].obj
      <3> SUFFICES ASSUME NEW k \in 1 .. n PROVE sent[s[k].index].obj = s[k].obj
        OBVIOUS
      <3>1. s[k].index = MaxGhostCount - k /\ s[k].index \in Indices
            /\ s[k].obj = always[n - k + 1]
        BY <1>5, <1>11
      <3>2. sent[s[k].index] = [obj |-> always[n - k + 1], state |-> "event"]
        BY <1>9, <3>1
      <3> HIDE DEF sent
      <3> QED BY <3>1, <3>2
    <2> QED BY <1>2, <1>5, <2>1, <2>2, <2>3 DEF Session
  <1>13. \A i \in Indices : sent[i] \in Infos /\ (sent[i].obj # None => sent[i].obj \in alive)
    <2> SUFFICES ASSUME NEW i \in Indices
                 PROVE  sent[i] \in Infos /\ (sent[i].obj # None => sent[i].obj \in alive)
      OBVIOUS
    <2>1. CASE \E k \in 1 .. n : i = MaxGhostCount - k
      <3>1. PICK k \in 1 .. n : i = MaxGhostCount - k
        BY <2>1
      <3>2. sent[i] = [obj |-> always[n - k + 1], state |-> "event"] /\ n - k + 1 \in 1 .. n
        BY <1>2, <1>9, <3>1
      <3>3. always[n - k + 1] \in Objects /\ always[n - k + 1] \in alive
        BY <1>2, <3>2
      <3> HIDE DEF sent
      <3> QED BY <3>2, <3>3 DEF Infos
    <2>2. CASE \A k \in 1 .. n : i # MaxGhostCount - k
      BY <1>10, <2>2 DEF FreeInfo, Infos
    <2> QED BY <2>1, <2>2
  <1>14. sent \in [Indices -> Infos]
    <2>1. sent = [i \in Indices |-> sent[i]]
      BY <1>3
    <2> QED BY <1>13, <2>1
  <1> HIDE DEF sent
  <1>17. \A i \in Indices : ghost[i] = FreeInfo
    BY <1>1, <1>3 DEF InfosInv
  <1>18. EventInv(toClient', saveList, localGhost, sent, later, clientSequence, TRUE)
    BY <1>1, <1>4, <1>5, <1>3, <1>12, <1>17, PostSession DEF ClientTypes
  <1>19. EventInv(toClient', saveList, localGhost, ghost', sequence', clientSequence, scoping')
    BY <1>3, <1>18 DEF sent
  <1>20. AnswerInv(toServer, saveList, sequence', clientSequence)
    BY <1>1, <1>3, <1>4, AnswersOfBefore DEF ChannelTypes
  <1>21. ServerTypes'
    <2>1. upload' = upload
      BY <1>3 DEF uploadVars
    <2> QED BY <1>1, <1>3, <1>4, <1>14, <2>1 DEF ServerTypes, sent
  <1>22. InfosInv'
    <2>1. ~ghosting
      BY <1>1, <1>3 DEF ServerTypes
    <2>2. \A i \in Indices : ghost'[i].obj # None => ghost'[i].obj \in alive
      BY <1>13 DEF sent
    <2> QED BY <1>3, <2>1, <2>2 DEF InfosInv
  <1>23. AlwaysInv'
    BY <1>1, <1>3 DEF AlwaysInv
  <1> QED BY <1>3, <1>6, <1>19, <1>20, <1>21, <1>22, <1>23, ServerStep DEF uploadVars

\* Uploads.
Uploads == [file : Files \cup {None}, size : Nat, offset : Nat]

LEMMA ChunkEventsType ==
  ASSUME NEW chunks \in Seq(Chunk)
  PROVE  ChunkEvents(chunks) \in Seq(ClientMessages) /\ Neutral(ChunkEvents(chunks))
  <1> DEFINE s == ChunkEvents(chunks)
  <1>1. s = [k \in 1 .. Len(chunks) |-> [type |-> "FileChunk", chunk |-> chunks[k]]]
        /\ Len(chunks) \in Nat
    BY DEF ChunkEvents
  <1>2. \A k \in 1 .. Len(chunks) :
          [type |-> "FileChunk", chunk |-> chunks[k]] \in ClientMessages
    BY DEF ClientMessages
  <1>3. s \in [1 .. Len(chunks) -> ClientMessages]
        /\ \A k \in DOMAIN s : s[k].type = "FileChunk"
    BY <1>1, <1>2
  <1> HIDE DEF s
  <1>4. s \in Seq(ClientMessages)
    <2> DEFINE len == Len(chunks)
    <2>1. len \in Nat /\ s \in [1 .. len -> ClientMessages]
      BY <1>1, <1>3
    <2> HIDE DEF len
    <2> QED BY <2>1
  <1>5. Neutral(s)
    BY <1>3 DEF Neutral, Ends, Brings, Closes
  <1> QED BY <1>4, <1>5 DEF s

LEMMA ConcatNeutral ==
  ASSUME NEW s \in Seq(ClientMessages), NEW t \in Seq(ClientMessages), Neutral(s), Neutral(t)
  PROVE  s \o t \in Seq(ClientMessages) /\ Neutral(s \o t)
  <1> DEFINE u == s \o t
  <1>1. u \in Seq(ClientMessages) /\ Posted(u, s, t)
    BY ConcatIsPosted
  <1> HIDE DEF u
  <1>2. \A k \in DOMAIN u : (k \in DOMAIN s /\ u[k] = s[k])
                              \/ (k - Len(s) \in DOMAIN t /\ u[k] = t[k - Len(s)])
    BY <1>1, PostedPlaces
  <1>3. Neutral(u)
    BY <1>2 DEF Neutral
  <1> QED BY <1>1, <1>3 DEF u

LEMMA OneNeutral ==
  ASSUME NEW m \in ClientMessages, ~Ends(m), ~Brings(m), ~Closes(m)
  PROVE  <<m>> \in Seq(ClientMessages) /\ Neutral(<<m>>)
  BY DEF Neutral

LEMMA FullFileType ==
  ASSUME NEW f \in Files
  PROVE  FullFile(f) \in Seq(Chunk) /\ Len(FullFile(f)) = Chunks[f]
  <1> DEFINE size == Chunks[f]
             full == FullFile(f)
  <1>1. size \in Nat /\ full = [k \in 1 .. size |-> [file |-> f, at |-> k]]
    BY SessionConstants DEF FullFile
  <1>2. \A k \in 1 .. size : [file |-> f, at |-> k] \in Chunk
    BY DEF Chunk
  <1> HIDE DEF size, full
  <1>3. full \in [1 .. size -> Chunk]
    BY <1>1, <1>2
  <1>4. full \in Seq(Chunk) /\ Len(full) = size
    BY <1>1, <1>3
  <1> QED BY <1>4 DEF full, size

LEMMA StartSendingFileType ==
  ASSUME NEW f \in Files
  PROVE  /\ StartSendingFile(f) = [up |-> StartSendingFile(f).up,
                                   events |-> StartSendingFile(f).events]
         /\ StartSendingFile(f).up \in Uploads
         /\ StartSendingFile(f).events \in Seq(ClientMessages)
         /\ Neutral(StartSendingFile(f).events)
  <1> DEFINE n == Min({InTransit, Chunks[f]})
             m == [type |-> "FileDownloadSize", size |-> Chunks[f]]
             chunks == SubSeq(FullFile(f), 1, n)
             up == [file |-> IF n < InTransit THEN None ELSE f, size |-> Chunks[f], offset |-> n]
             events == <<m>> \o ChunkEvents(chunks)
  <1>1. StartSendingFile(f) = [up |-> up, events |-> events]
    BY Zenon DEF StartSendingFile
  <1>2. InTransit \in Nat /\ Chunks[f] \in Nat
    BY SessionConstants
  <1>3. n \in Nat /\ n =< Chunks[f]
    BY <1>2, LesserNumber
  <1>4. up \in Uploads
    <2> HIDE DEF n
    <2> QED BY <1>2, <1>3 DEF Uploads
  <1>5. FullFile(f) \in Seq(Chunk) /\ Len(FullFile(f)) = Chunks[f]
    BY FullFileType
  <1>6. chunks \in Seq(Chunk)
    <2> HIDE DEF n
    <2> QED BY <1>3, <1>5, PartOfSeq
  <1>7. m \in ClientMessages /\ ~Ends(m) /\ ~Brings(m) /\ ~Closes(m)
    BY <1>2 DEF ClientMessages, Ends, Brings, Closes
  <1> HIDE DEF chunks, m
  <1> DEFINE one == <<m>>
             rest == ChunkEvents(chunks)
  <1>8. one \in Seq(ClientMessages) /\ Neutral(one)
    BY <1>7, OneNeutral
  <1>9. rest \in Seq(ClientMessages) /\ Neutral(rest)
    BY <1>6, ChunkEventsType
  <1> HIDE DEF one, rest
  <1>10. one \o rest \in Seq(ClientMessages) /\ Neutral(one \o rest)
    BY <1>8, <1>9, ConcatNeutral
  <1>11. events = one \o rest
    BY DEF one, rest
  <1> HIDE DEF up, events
  <1> QED BY <1>1, <1>4, <1>10, <1>11

LEMMA AnswerToType ==
  ASSUME NEW names \in Seq(Files), upload \in Uploads
  PROVE  /\ AnswerTo(names).up \in Uploads
         /\ AnswerTo(names).events \in Seq(ClientMessages)
         /\ Neutral(AnswerTo(names).events)
  <1> DEFINE found   == {k \in DOMAIN names : names[k] \in Served}
             lacking == IF found = {} THEN Len(names) ELSE Min(found) - 1
             answer  == IF found = {} THEN NoFileSent ELSE StartSendingFile(names[Min(found)])
             none    == [k \in 1 .. lacking |-> NoSuchFile]
  <1>1. AnswerTo(names) = [answer EXCEPT !.events = none \o @]
    BY Zenon DEF AnswerTo
  <1>2. found # {} => Min(found) \in DOMAIN names /\ Min(found) \in Nat /\ Min(found) > 0
    <2> SUFFICES ASSUME found # {}
                 PROVE  Min(found) \in DOMAIN names /\ Min(found) \in Nat /\ Min(found) > 0
      OBVIOUS
    <2>1. found \subseteq Nat
      OBVIOUS
    <2>2. Min(found) \in found
      BY <2>1, MinNumber
    <2> QED BY <2>2
  <1>3. lacking \in Nat
    <2> HIDE DEF found
    <2> QED BY <1>2
  <1>4. /\ answer = [up |-> answer.up, events |-> answer.events]
        /\ answer.up \in Uploads /\ answer.events \in Seq(ClientMessages)
        /\ Neutral(answer.events)
    <2>1. CASE found = {}
      <3> DEFINE m == [type |-> "SendNextDownloadRequest"]
      <3>1. m \in ClientMessages /\ ~Ends(m) /\ ~Brings(m) /\ ~Closes(m)
        BY DEF ClientMessages, Ends, Brings, Closes
      <3>2. answer = [up |-> [upload EXCEPT !.file = None], events |-> <<m>>]
        BY <2>1 DEF NoFileSent
      <3> HIDE DEF answer, m
      <3>3. <<m>> \in Seq(ClientMessages) /\ Neutral(<<m>>)
        BY <3>1, OneNeutral
      <3>4. [upload EXCEPT !.file = None] \in Uploads
        BY DEF Uploads
      <3> QED BY <3>2, <3>3, <3>4
    <2>2. CASE found # {}
      <3> DEFINE f == names[Min(found)]
      <3>1. f \in Files /\ answer = StartSendingFile(f)
        BY <1>2, <2>2
      <3> HIDE DEF f, answer
      <3> QED BY <3>1, StartSendingFileType
    <2> QED BY <2>1, <2>2
  <1> HIDE DEF found, lacking, answer
  <1>5. NoSuchFile \in ClientMessages /\ ~Ends(NoSuchFile) /\ ~Brings(NoSuchFile)
        /\ ~Closes(NoSuchFile)
    BY DEF NoSuchFile, ClientMessages, Ends, Brings, Closes
  <1>6. none \in Seq(ClientMessages) /\ Neutral(none)
    <2>1. none \in [1 .. lacking -> ClientMessages] /\ \A k \in DOMAIN none : none[k] = NoSuchFile
      BY <1>5
    <2> HIDE DEF none
    <2>2. none \in Seq(ClientMessages)
      BY <1>3, <2>1
    <2> QED BY <1>5, <2>1, <2>2 DEF Neutral
  <1> HIDE DEF none
  <1> DEFINE events == answer.events
  <1>7. events \in Seq(ClientMessages) /\ Neutral(events)
    BY <1>4
  <1>8. none \o events \in Seq(ClientMessages) /\ Neutral(none \o events)
    <2> HIDE DEF events
    <2> QED BY <1>6, <1>7, ConcatNeutral
  <1>9. AnswerTo(names).up = answer.up /\ AnswerTo(names).events = none \o events
    BY <1>1, <1>4
  <1> HIDE DEF events
  <1> QED BY <1>4, <1>8, <1>9

\* The server takes an event.
LEMMA RestAnswers ==
  ASSUME NEW server \in Seq(ServerMessages), server # <<>>,
         NEW list, NEW number, NEW seen, AnswerInv(server, list, number, seen)
  PROVE  /\ Tail(server) \in Seq(ServerMessages) /\ Head(server) \in ServerMessages
         /\ AnswerInv(Tail(server), list, number, seen)
         /\ Answers(Head(server)) =>
              /\ Head(server).sequence # 0 /\ Head(server).sequence =< number
              /\ Head(server).sequence = number => seen = number /\ list = <<>>
  <1> DEFINE t == Tail(server)
             h == Head(server)
  <1>1. /\ t \in Seq(ServerMessages) /\ h \in ServerMessages /\ h = server[1]
        /\ 1 \in DOMAIN server
        /\ \A k \in DOMAIN t : k + 1 \in DOMAIN server /\ t[k] = server[k + 1]
    OBVIOUS
  <1> HIDE DEF t, h
  <1>2. AnswerInv(t, list, number, seen)
    BY <1>1 DEF AnswerInv
  <1>3. Answers(h) => /\ h.sequence # 0 /\ h.sequence =< number
                      /\ h.sequence = number => seen = number /\ list = <<>>
    BY <1>1 DEF AnswerInv, Answers
  <1> QED BY <1>1, <1>2, <1>3 DEF t, h

\* A step of the server that concerns uploads only.
LEMMA UploadStep ==
  ASSUME IInv, UNCHANGED <<alive, sessionVars, clientVars>>,
         upload' \in Uploads, NEW s, Neutral(s), Posted(toClient', toClient, s),
         toServer' \in Seq(ServerMessages),
         AnswerInv(toServer', saveList, sequence, clientSequence),
         notified' \in Nat, notified' =< delivered, fault' \in Faults
  PROVE  IInv'
  <1>1. UNCHANGED <<delivered, clientSequence, saveList, localGhost, missing, buffer, disk,
                    numDownloaded, overlapped>>
        /\ UNCHANGED <<alive, always, scoping, ghosting, sequence, ghost, sessions>>
    BY DEF clientVars, downloadVars, sessionVars
  <1>2. ClientTypes /\ ChannelTypes /\ ServerTypes
    BY TypeParts DEF IInv
  <1>3. toClient' \in Seq(ClientMessages)
    BY DEF Posted
  <1>4. TypeOK'
    <2>1. ClientTypes'
      BY <1>1, <1>2 DEF ClientTypes
    <2>2. ChannelTypes'
      BY <1>1, <1>2, <1>3 DEF ChannelTypes
    <2>3. ServerTypes'
      BY <1>1, <1>2 DEF ServerTypes, Uploads
    <2> QED BY <2>1, <2>2, <2>3, TypePartsNext
  <1>5. EventInv(toClient', saveList, localGhost, ghost, sequence, clientSequence, scoping)
    BY PostNeutral DEF IInv
  <1>6. InfosInv' /\ AlwaysInv'
    BY <1>1 DEF IInv, InfosInv, AlwaysInv
  <1> QED BY <1>1, <1>4, <1>5, <1>6 DEF IInv

LEMMA FileDownloadRequestKeeps ==
  ASSUME IInv, FileDownloadRequest
  PROVE  IInv'
  <1> DEFINE names == Head(toServer).names
             events == AnswerTo(names).events
  <1>1. /\ toServer # <<>> /\ Head(toServer).type = "FileDownloadRequest"
        /\ toServer' = Tail(toServer) /\ upload' = AnswerTo(names).up
        /\ toClient' = toClient \o events
        /\ UNCHANGED <<alive, sessionVars, notified, clientVars, fault>>
    BY Zenon DEF FileDownloadRequest
  <1>2. ClientTypes /\ ChannelTypes /\ ServerTypes
    BY TypeParts DEF IInv
  <1>3. toServer' \in Seq(ServerMessages) /\ Head(toServer) \in ServerMessages
        /\ AnswerInv(toServer', saveList, sequence, clientSequence)
    BY <1>1, <1>2, RestAnswers DEF IInv, ChannelTypes
  <1>4. names \in Seq(Files)
    BY <1>1, <1>3 DEF ServerMessages
  <1>5. upload \in Uploads
    BY <1>2 DEF ServerTypes, Uploads
  <1> HIDE DEF names
  <1>6. upload' \in Uploads /\ events \in Seq(ClientMessages) /\ Neutral(events)
    BY <1>1, <1>4, <1>5, AnswerToType
  <1> HIDE DEF events
  <1>7. Posted(toClient', toClient, events)
    BY <1>1, <1>2, <1>6, ConcatIsPosted DEF ChannelTypes
  <1>8. notified' \in Nat /\ notified' =< delivered /\ fault' \in Faults
    BY <1>1, <1>2 DEF ChannelTypes, ClientTypes
  <1> QED BY <1>1, <1>3, <1>6, <1>7, <1>8, UploadStep

LEMMA ChunkNotifiedKeeps ==
  ASSUME IInv, ChunkNotified
  PROVE  IInv'
  <1>1. ClientTypes /\ ChannelTypes /\ ServerTypes
    BY TypeParts DEF IInv
  <1> DEFINE next == SendFileChunk(upload)
  <1>2. /\ notified < delivered /\ notified' = notified + 1
        /\ \/ fault' = "server" /\ upload' = upload /\ toClient' = toClient
           \/ /\ ~(upload.file = None /\ next.chunks # <<>>)
              /\ upload' = next.up /\ toClient' = toClient \o ChunkEvents(next.chunks)
              /\ fault' = fault
        /\ UNCHANGED <<alive, sessionVars, toServer, clientVars>>
    BY Zenon DEF ChunkNotified
  <1>3. upload \in Uploads
    BY <1>1 DEF ServerTypes, Uploads
  <1>4. notified' \in Nat /\ notified' =< delivered
    BY <1>1, <1>2 DEF ChannelTypes
  <1>5. toServer' \in Seq(ServerMessages)
        /\ AnswerInv(toServer', saveList, sequence, clientSequence)
    BY <1>1, <1>2 DEF IInv, ChannelTypes
  <1>6. CASE fault' = "server" /\ upload' = upload /\ toClient' = toClient
    <2> DEFINE none == <<>>
    <2>1. none \in Seq(ClientMessages) /\ Neutral(none)
      BY DEF Neutral
    <2>2. Posted(toClient', toClient, none)
      BY <1>1, <1>6 DEF Posted, ChannelTypes
    <2> HIDE DEF none
    <2>3. fault' \in Faults
      BY <1>6 DEF Faults
    <2> QED BY <1>2, <1>3, <1>4, <1>5, <1>6, <2>1, <2>2, <2>3, UploadStep
  <1>7. CASE /\ ~(upload.file = None /\ next.chunks # <<>>)
             /\ upload' = next.up /\ toClient' = toClient \o ChunkEvents(next.chunks)
             /\ fault' = fault
    <2>1. next.chunks \in Seq(Chunk) /\ next.up \in Uploads
      <3>1. upload.file \in Files \cup {None} /\ upload.offset \in Nat /\ upload.size \in Nat
        BY <1>3 DEF Uploads
      <3>2. CASE upload.offset < upload.size
        <4> DEFINE chunk == [file |-> upload.file, at |-> upload.offset + 1]
        <4>1. next = [up |-> [upload EXCEPT !.offset = @ + 1], chunks |-> <<chunk>>]
          BY <3>2 DEF SendFileChunk
        <4>2. next.chunks = <<chunk>> /\ next.up = [upload EXCEPT !.offset = @ + 1]
          BY <4>1
        <4>3. next.chunks # <<>>
          BY <4>2
        <4>4. upload.file # None
          BY <1>7, <4>3
        <4>5. chunk \in Chunk
          BY <3>1, <4>4 DEF Chunk
        <4>6. [upload EXCEPT !.offset = @ + 1] \in Uploads
          BY <1>3, <3>1 DEF Uploads
        <4> HIDE DEF chunk, next
        <4> QED BY <4>2, <4>5, <4>6
      <3>3. CASE ~(upload.offset < upload.size)
        <4>1. next = [up |-> [upload EXCEPT !.file = None], chunks |-> <<>>]
          BY <3>3 DEF SendFileChunk
        <4>2. [upload EXCEPT !.file = None] \in Uploads
          BY <1>3 DEF Uploads
        <4> QED BY <4>1, <4>2
      <3> QED BY <3>2, <3>3
    <2> DEFINE chunks == next.chunks
               events == ChunkEvents(chunks)
    <2>2. chunks \in Seq(Chunk) /\ upload' \in Uploads /\ toClient' = toClient \o events
      BY <1>7, <2>1
    <2> HIDE DEF chunks
    <2>3. events \in Seq(ClientMessages) /\ Neutral(events)
      BY <2>2, ChunkEventsType
    <2> HIDE DEF events
    <2>4. Posted(toClient', toClient, events)
      BY <1>1, <2>2, <2>3, ConcatIsPosted DEF ChannelTypes
    <2>5. fault' \in Faults
      BY <1>1, <1>7 DEF ClientTypes
    <2> QED BY <1>2, <1>4, <1>5, <2>2, <2>3, <2>4, <2>5, UploadStep
  <1> QED BY <1>2, <1>6, <1>7

\* The server starts normal ghosts only on the answer of its own session.
LEMMA ReadyForNormalGhostsKeeps ==
  ASSUME IInv, ReadyForNormalGhosts
  PROVE  IInv'
  <1> DEFINE message == Head(toServer)
  <1>1. /\ toServer # <<>> /\ message.type = "ReadyForNormalGhosts"
        /\ toServer' = Tail(toServer)
        /\ ghosting' = (ghosting \/ message.sequence = sequence)
        /\ UNCHANGED <<alive, always, scoping, sequence, ghost, sessions, uploadVars, toClient,
                       clientVars, fault>>
    BY DEF ReadyForNormalGhosts
  <1>2. /\ ClientTypes /\ ChannelTypes /\ ServerTypes /\ InfosInv /\ AlwaysInv
        /\ EventInv(toClient, saveList, localGhost, ghost, sequence, clientSequence, scoping)
    BY TypeParts DEF IInv
  <1>3. /\ toServer' \in Seq(ServerMessages)
        /\ AnswerInv(toServer', saveList, sequence, clientSequence)
        /\ Answers(message) =>
              /\ message.sequence # 0 /\ message.sequence =< sequence
              /\ message.sequence = sequence => clientSequence = sequence /\ saveList = <<>>
    BY <1>1, <1>2, RestAnswers DEF IInv, ChannelTypes
  <1>4. message.sequence = sequence =>
          sequence # 0 /\ clientSequence = sequence /\ saveList = <<>> /\ scoping
    <2>1. message.sequence = sequence =>
            sequence # 0 /\ clientSequence = sequence /\ saveList = <<>>
      BY <1>1, <1>3 DEF Answers
    <2>2. clientSequence = sequence /\ sequence # 0 => scoping
      BY <1>2 DEF EventInv, NumberInv
    <2> QED BY <2>1, <2>2
  <1> HIDE DEF message
  <1>5. UNCHANGED <<delivered, clientSequence, saveList, localGhost, missing, buffer, disk,
                    numDownloaded, overlapped, upload, notified>>
    BY <1>1 DEF clientVars, downloadVars, uploadVars
  <1>6. TypeOK'
    <2>1. ClientTypes'
      BY <1>1, <1>2, <1>5 DEF ClientTypes
    <2>2. ChannelTypes'
      BY <1>1, <1>2, <1>3, <1>5 DEF ChannelTypes
    <2>3. ServerTypes'
      <3>1. ghosting' \in BOOLEAN /\ (ghosting' => scoping)
        BY <1>1, <1>2, <1>4 DEF ServerTypes
      <3> QED BY <1>1, <1>2, <1>5, <3>1 DEF ServerTypes
    <2> QED BY <2>1, <2>2, <2>3, TypePartsNext
  <1>7. InfosInv'
    <2>1. ghosting' => sequence # 0 /\ clientSequence = sequence /\ saveList = <<>>
      BY <1>1, <1>2, <1>4 DEF InfosInv
    <2> QED BY <1>1, <1>2, <1>5, <2>1 DEF InfosInv
  <1>8. AlwaysInv'
    BY <1>1, <1>2 DEF AlwaysInv
  <1> QED BY <1>1, <1>2, <1>3, <1>5, <1>6, <1>7, <1>8 DEF IInv

-----------------------------------------------------------------------------
(* The theorems.                                                           *)

LEMMA InitInv == Init => IInv
  <1> SUFFICES ASSUME Init PROVE IInv
    OBVIOUS
  <1>1. /\ alive = Objects /\ always = SetToSeq(Objects)
        /\ scoping = FALSE /\ ghosting = FALSE /\ sequence = 0
        /\ ghost = [i \in Indices |-> FreeInfo]
        /\ upload = [file |-> None, size |-> 0, offset |-> 0]
        /\ sessions = 0 /\ toClient = <<>> /\ toServer = <<>>
        /\ notified = 0 /\ delivered = 0 /\ clientSequence = 0 /\ saveList = <<>>
        /\ localGhost = [i \in Indices |-> None] /\ missing = <<>>
        /\ buffer = [size |-> 0, data |-> <<>>, null |-> TRUE]
        /\ disk = [f \in Files |-> IF f \in Held THEN FullFile(f) ELSE <<>>]
        /\ numDownloaded = 0 /\ overlapped = FALSE /\ fault = "none"
    BY DEF Init
  <1>2. always \in Seq(alive) /\ Different(always)
    BY <1>1, ConstantFacts, SetToSeqType
  <1>3. ServerTypes
    BY <1>1, <1>2 DEF ServerTypes, Infos, FreeInfo
  <1>4. ClientTypes
    <2>1. disk \in [Files -> Seq(Chunk)]
      <3>1. \A f \in Files : FullFile(f) \in Seq(Chunk)
        BY FullFileType
      <3> QED BY <1>1, <3>1
    <2>2. localGhost \in Tables
      BY <1>1 DEF Tables
    <2>3. buffer \in [size : Nat, data : Seq(Chunk), null : BOOLEAN]
      BY <1>1
    <2>4. overlapped \in BOOLEAN /\ clientSequence \in Nat /\ numDownloaded \in Nat
      BY <1>1
    <2>5. saveList \in Seq(Saves) /\ missing \in Seq(Files)
      <3>1. <<>> \in Seq(Saves) /\ <<>> \in Seq(Files)
        OBVIOUS
      <3> QED BY <1>1, <3>1, Zenon
    <2>6. fault \in Faults
      BY <1>1, Zenon DEF Faults
    <2> QED BY <2>1, <2>2, <2>3, <2>4, <2>5, <2>6 DEF ClientTypes
  <1>5. ChannelTypes
    BY <1>1 DEF ChannelTypes
  <1>6. AlwaysInv
    BY <1>2 DEF AlwaysInv, Different
  <1>7. InfosInv
    BY <1>1 DEF InfosInv, FreeInfo
  <1>8. EventInv(toClient, saveList, localGhost, ghost, sequence, clientSequence, scoping)
    <2> DEFINE none == <<>>
    <2>1. (\A k \in DOMAIN none : FALSE)
      OBVIOUS
    <2>2. toClient = none /\ saveList = none
      BY <1>1
    <2> HIDE DEF none
    <2>3. ChannelInv(none, sequence, scoping) /\ ListInv(none, localGhost)
          /\ ArrivalInv(none, none, localGhost)
      BY <2>1 DEF ChannelInv, ListInv, ArrivalInv
    <2>4. GivenInv(none, none, localGhost, ghost)
      <3>1. \A i \in Indices : localGhost[i] = None /\ ghost[i].state # "event"
        BY <1>1 DEF FreeInfo
      <3>2. \A i \in Indices : ~Given(none, none, localGhost, i)
        BY <2>1, <3>1 DEF Given, Coming, Awaited
      <3> QED BY <2>1, <3>1, <3>2 DEF GivenInv
    <2>5. NumberInv(none, none, sequence, clientSequence, scoping)
      BY <1>1, <2>1 DEF NumberInv, Complete
    <2>6. EventInv(none, none, localGhost, ghost, sequence, clientSequence, scoping)
      BY <2>3, <2>4, <2>5 DEF EventInv
    <2> QED BY <2>2, <2>6
  <1>9. AnswerInv(toServer, saveList, sequence, clientSequence)
    BY <1>1 DEF AnswerInv
  <1> QED BY <1>3, <1>4, <1>5, <1>6, <1>7, <1>8, <1>9, TypeParts DEF IInv

LEMMA NextInv == IInv /\ [Next]_vars => IInv'
  <1> SUFFICES ASSUME IInv, [Next]_vars PROVE IInv'
    OBVIOUS
  <1>1. CASE Next
    <2>1. CASE ActivateGhosting \/ ResetGhosting
      BY <2>1, ActivateGhostingKeeps, ResetGhostingKeeps
    <2>2. ASSUME NEW o \in Objects, DeleteObject(o) \/ SetScopeAlways(o) \/ ClearScopeAlways(o)
          PROVE  IInv'
      BY <2>2, DeleteObjectKeeps, SetScopeAlwaysKeeps, ClearScopeAlwaysKeeps
    <2>3. CASE ServerProcesses \/ ChunkNotified
      BY <2>3, FileDownloadRequestKeeps, ReadyForNormalGhostsKeeps, ChunkNotifiedKeeps
      DEF ServerProcesses
    <2>4. CASE ClientProcesses
      BY <2>4, GhostAlwaysObjectKeeps, GhostAlwaysDoneKeeps, EndGhostingKeeps,
         SendNextDownloadRequestKeeps, FileDownloadSizeKeeps, EmptyChunkKeeps, FileChunkKeeps
      DEF ClientProcesses
    <2> QED BY <1>1, <2>1, <2>2, <2>3, <2>4 DEF Next
  <1>2. CASE UNCHANGED vars
    <2>1. UNCHANGED <<alive, always, scoping, ghosting, sequence, ghost, sessions, upload,
                      notified, toClient, toServer, delivered, clientSequence, saveList,
                      localGhost, missing, buffer, disk, numDownloaded, overlapped, fault>>
      BY <1>2 DEF vars, sessionVars, uploadVars, clientVars, downloadVars
    <2>2. TypeOK'
      BY <2>1 DEF IInv, TypeOK
    <2>3. AlwaysInv' /\ InfosInv'
      BY <2>1 DEF IInv, AlwaysInv, InfosInv
    <2> QED BY <2>1, <2>2, <2>3 DEF IInv
  <1> QED BY <1>1, <1>2

\* The inductive invariant.
THEOREM SessionInvariant == Spec => []IInv
  BY InitInv, NextInv, PTL DEF Spec

\* No assert of loadNextGhostAlwaysObject fails: whatever waits in the save list
\* finds its index free in the client's table, and nothing is behind its end.
THEOREM ListsAreSound == Spec => []SaveListSound
  <1>1. IInv => SaveListSound
    <2> SUFFICES ASSUME IInv PROVE SaveListSound
      OBVIOUS
    <2>1. ListInv(saveList, localGhost)
      BY DEF IInv, EventInv
    <2>2. SaveListLoads
      BY <2>1 DEF ListInv, SaveListLoads, Waits
    <2> QED BY <2>2 DEF IInv, SaveListSound
  <1> QED BY <1>1, SessionInvariant, PTL

\* While normal ghosts are sent, the client has those ghosts, of those objects,
\* that the server holds to be sent as events, and no others.
THEOREM BothEndsInStep == Spec => []GhostsInStep
  <1>1. IInv => GhostsInStep
    <2> SUFFICES ASSUME IInv, ghosting,
                        NEW i \in Indices
                 PROVE  /\ scoping
                        /\ (localGhost[i] # None) <=> (ghost[i].state = "event")
                        /\ ghost[i].obj # None /\ ghost[i].state = "event" =>
                             localGhost[i] = ghost[i].obj
      BY GhostingIsQuiet DEF GhostsInStep
    <2>1. /\ \A k \in DOMAIN toClient : ~Ends(toClient[k]) /\ ~Brings(toClient[k])
          /\ saveList = <<>> /\ scoping
      BY GhostingIsQuiet
    <2>2. Current(toClient) /\ ~Coming(toClient, i) /\ ~Awaited(saveList, i)
      BY <2>1 DEF Current, Coming, Awaited
    <2>3. GivenInv(toClient, saveList, localGhost, ghost)
      BY DEF IInv, EventInv
    <2>4. ghost[i].state = "event" <=> localGhost[i] # None
      BY <2>2, <2>3 DEF GivenInv, Given
    <2>5. localGhost[i] # None => ghost[i].obj \in {None, localGhost[i]}
      BY <2>2, <2>3 DEF GivenInv
    <2> QED BY <2>1, <2>4, <2>5
  <1> QED BY <1>1, SessionInvariant, PTL

-----------------------------------------------------------------------------
(* Downloads.  One thing is under way at a time: a request, or the answer   *)
(* to it, of which the chunks are the last part.                            *)

\* The events of a download.
OfDownload(m) == m.type \in {"FileDownloadSize", "SendNextDownloadRequest", "FileChunk"}

\* d are the events of downloads in c, in their order: p says where they are.
AreDownloads(d, c) ==
  \E p \in [DOMAIN d -> DOMAIN c] :
    /\ \A i, j \in DOMAIN d : i < j => p[i] < p[j]
    /\ \A i \in DOMAIN d : d[i] = c[p[i]]
    /\ \A k \in DOMAIN c : OfDownload(c[k]) <=> \E i \in DOMAIN d : p[i] = k

Requests(m) == m.type = "FileDownloadRequest"
NoRequest(server) == \A k \in DOMAIN server : ~Requests(server[k])

\* The first object of the list waits for a file.
FirstWaits(list) == list # <<>> /\ list[1] # ListEnd

\* It needs a file that the server has not got.
Unserved(list) ==
  /\ list # <<>> /\ list[1].obj \in Objects
  /\ ~(Range(Needs[list[1].obj]) \subseteq Held \cup Served)

\* The missing files are files it needs.
AreItsFiles(list, files) ==
  /\ list # <<>> /\ list[1].obj \in Objects
  /\ \A k \in DOMAIN files : files[k] \in Range(Needs[list[1].obj]) \ Held

\* The last file has come, and no chunk is left to send.
Whole(buf) == Len(buf.data) >= buf.size
Sent(up)   == up.offset = up.size

\* The names are the first of the missing files.
NamesOf(names, files) ==
  /\ names # <<>> /\ Len(names) =< Len(files)
  /\ \A k \in DOMAIN names : names[k] = files[k]

\* The file f is sent: it is open until its last chunk is.
Sends(up, f) ==
  /\ up.size = Chunks[f] /\ up.file \in {None, f} /\ up.offset =< up.size
  /\ up.file = None => up.offset = up.size

ChunkEvent(f, k) == [type |-> "FileChunk", chunk |-> [file |-> f, at |-> k]]

\* One request is on its way, and its names are the first of the missing files.
OneRequest(server, files) ==
  \E k \in DOMAIN server : /\ Requests(server[k]) /\ NamesOf(server[k].names, files)
                           /\ \A j \in DOMAIN server : j # k => ~Requests(server[j])

\* The client is told of a files that the server has not got, and that there is
\* no other.
Refusal(d, a) ==
  /\ Len(d) = a + 1 /\ d[a + 1].type = "SendNextDownloadRequest"
  /\ \A k \in 1 .. a : d[k] = NoSuchFile

\* The client is told of a files that the server has not got, then comes f.
Delivery(d, up, a, f) ==
  /\ Len(d) = a + 1 + up.offset
  /\ \A k \in 1 .. a : d[k] = NoSuchFile
  /\ d[a + 1] = [type |-> "FileDownloadSize", size |-> Chunks[f]]
  /\ \A k \in 1 .. up.offset : d[a + 1 + k] = ChunkEvent(f, k)

\* Nothing is downloaded.
Idle(d, server, files, buf, up) ==
  d = <<>> /\ NoRequest(server) /\ files = <<>> /\ Whole(buf) /\ Sent(up)

\* A request is on its way.  What the client asks for when it has got no file
\* for the object is a file of the object.
Asked(d, server, list, files, buf, up, num) ==
  /\ d = <<>> /\ Whole(buf) /\ Sent(up) /\ FirstWaits(list)
  /\ OneRequest(server, files)
  /\ num = 0 => Unserved(list) \/ AreItsFiles(list, files)

\* The server has none of the files: a of them are still to be told.
Refused(d, server, list, files, buf, up, num, a) ==
  /\ Refusal(d, a) /\ a =< Len(files)
  /\ NoRequest(server) /\ Whole(buf) /\ Sent(up) /\ FirstWaits(list)
  /\ num = 0 => Unserved(list)

\* The file f is coming behind the names of a that are not; its first chunks
\* may be on their way.
Starting(d, server, list, files, buf, up, a, f) ==
  /\ Delivery(d, up, a, f)
  /\ a + 1 =< Len(files) /\ files[a + 1] = f
  /\ NoRequest(server) /\ Whole(buf) /\ Sends(up, f) /\ FirstWaits(list)

\* The file f is the first of the missing files, and r chunks have come.
Receiving(d, server, list, files, buf, up, r, f) ==
  /\ r =< up.offset /\ Len(d) = up.offset - r
  /\ \A k \in 1 .. Len(d) : d[k] = ChunkEvent(f, r + k)
  /\ buf.size = Chunks[f] /\ ~buf.null /\ Len(buf.data) = r /\ r < buf.size
  /\ \A k \in 1 .. r : buf.data[k] = [file |-> f, at |-> k]
  /\ files # <<>> /\ files[1] = f
  /\ NoRequest(server) /\ Sends(up, f) /\ FirstWaits(list)

\* One thing at a time.
Stage(d, server, list, files, buf, up, num) ==
  \/ Idle(d, server, files, buf, up)
  \/ Asked(d, server, list, files, buf, up, num)
  \/ \E a \in Nat : Refused(d, server, list, files, buf, up, num, a)
  \/ \E a \in Nat, f \in Files : Starting(d, server, list, files, buf, up, a, f)
  \/ \E r \in Nat, f \in Files : Receiving(d, server, list, files, buf, up, r, f)

\* The files stored are whole, and those the client has from the start are.
StoredInv(stored) ==
  /\ \A f \in Files : stored[f] \in {<<>>, FullFile(f)}
  /\ \A f \in Held : stored[f] # <<>>

FaultInv(failed, list) == /\ failed \in {"none", "error"}
                          /\ failed = "error" => Unserved(list)

StageInv(c, server, list, files, buf, up, num) ==
  \E d \in Seq(ClientMessages) :
    AreDownloads(d, c) /\ Stage(d, server, list, files, buf, up, num)

DownloadInv ==
  ~overlapped =>
    /\ StoredInv(disk) /\ FaultInv(fault, saveList)
    /\ Running => StageInv(toClient, toServer, saveList, missing, buffer, upload, numDownloaded)

-----------------------------------------------------------------------------
(* The events of downloads among all events.                               *)

\* p says where they are.
Places(p, d, c) ==
  /\ p \in [DOMAIN d -> DOMAIN c]
  /\ \A i, j \in DOMAIN d : i < j => p[i] < p[j]
  /\ \A i \in DOMAIN d : d[i] = c[p[i]]
  /\ \A k \in DOMAIN c : OfDownload(c[k]) <=> \E i \in DOMAIN d : p[i] = k

LEMMA PlacesGiven ==
  ASSUME NEW d, NEW c
  PROVE  AreDownloads(d, c) <=> \E p : Places(p, d, c)
  BY DEF AreDownloads, Places

\* Another event is taken.
LEMMA TakeNoDownload ==
  ASSUME NEW c, NEW e, Rest(e, c), ~OfDownload(c[1]),
         NEW d \in Seq(ClientMessages), AreDownloads(d, c)
  PROVE  AreDownloads(d, e)
  <1>1. PICK p : Places(p, d, c)
    BY PlacesGiven
  <1>2. /\ \A k \in DOMAIN c : k # 1 => k - 1 \in DOMAIN e /\ c[k] = e[k - 1]
        /\ \A k \in DOMAIN e : k + 1 \in DOMAIN c /\ e[k] = c[k + 1]
        /\ DOMAIN c \subseteq Nat /\ DOMAIN e \subseteq Nat /\ DOMAIN d \subseteq Nat
        /\ 1 \in DOMAIN c /\ 0 \notin DOMAIN e
    BY RestPlaces
  <1> DEFINE q == [i \in DOMAIN d |-> p[i] - 1]
  <1>3. \A i \in DOMAIN d : p[i] \in DOMAIN c /\ p[i] # 1 /\ d[i] = c[p[i]]
    BY <1>1, <1>2 DEF Places
  <1>4. \A i \in DOMAIN d : q[i] \in DOMAIN e /\ d[i] = e[q[i]] /\ q[i] + 1 = p[i]
    BY <1>2, <1>3
  <1>5. q \in [DOMAIN d -> DOMAIN e]
    BY <1>4
  <1>6. ASSUME NEW i \in DOMAIN d, NEW j \in DOMAIN d, i < j PROVE q[i] < q[j]
    <2>1. p[i] < p[j]
      BY <1>1, <1>6 DEF Places
    <2> QED BY <1>2, <1>3, <2>1
  <1>7. ASSUME NEW k \in DOMAIN e PROVE OfDownload(e[k]) <=> \E i \in DOMAIN d : q[i] = k
    <2>1. OfDownload(e[k]) <=> \E i \in DOMAIN d : p[i] = k + 1
      BY <1>1, <1>2 DEF Places
    <2>2. \A i \in DOMAIN d : p[i] = k + 1 <=> q[i] = k
      BY <1>2, <1>3
    <2> QED BY <2>1, <2>2
  <1> HIDE DEF q
  <1>8. Places(q, d, e)
    BY <1>4, <1>5, <1>6, <1>7 DEF Places
  <1> QED BY <1>8, PlacesGiven

\* The first of them is taken.
LEMMA TakeDownload ==
  ASSUME NEW c, NEW e, Rest(e, c), OfDownload(c[1]),
         NEW d \in Seq(ClientMessages), AreDownloads(d, c)
  PROVE  /\ d # <<>> /\ d[1] = c[1]
         /\ Tail(d) \in Seq(ClientMessages) /\ AreDownloads(Tail(d), e)
  <1>1. PICK p : Places(p, d, c)
    BY PlacesGiven
  <1>2. /\ \A k \in DOMAIN c : k # 1 => k - 1 \in DOMAIN e /\ c[k] = e[k - 1]
        /\ \A k \in DOMAIN e : k + 1 \in DOMAIN c /\ e[k] = c[k + 1]
        /\ DOMAIN c \subseteq Nat /\ DOMAIN e \subseteq Nat /\ DOMAIN d \subseteq Nat
        /\ 1 \in DOMAIN c /\ 0 \notin DOMAIN e /\ 0 \notin DOMAIN c
    BY RestPlaces
  <1>3. PICK f \in DOMAIN d : p[f] = 1
    BY <1>1, <1>2 DEF Places
  <1>4. d # <<>> /\ 1 \in DOMAIN d /\ DOMAIN d = 1 .. Len(d) /\ Len(d) \in Nat
    BY <1>3
  <1>5. f = 1
    <2>1. SUFFICES ASSUME 1 < f PROVE FALSE
      BY <1>3, <1>4
    <2>2. p[1] < p[f] /\ p[1] \in DOMAIN c
      BY <1>1, <1>4, <2>1 DEF Places
    <2> QED BY <1>2, <1>3, <2>2
  <1>6. d[1] = c[1]
    BY <1>1, <1>3, <1>5 DEF Places
  <1> DEFINE t == Tail(d)
  <1>7. /\ t \in Seq(ClientMessages) /\ \A i \in DOMAIN t : i + 1 \in DOMAIN d /\ t[i] = d[i + 1]
        /\ \A i \in DOMAIN d : i # 1 => i - 1 \in DOMAIN t /\ i - 1 + 1 = i
        /\ DOMAIN t \subseteq Nat \ {0}
    BY <1>4
  <1> HIDE DEF t
  <1> DEFINE q == [i \in DOMAIN t |-> p[i + 1] - 1]
  <1>8. \A i \in DOMAIN t : p[i + 1] \in DOMAIN c /\ p[i + 1] # 1 /\ t[i] = c[p[i + 1]]
    <2> SUFFICES ASSUME NEW i \in DOMAIN t
                 PROVE  p[i + 1] \in DOMAIN c /\ p[i + 1] # 1 /\ t[i] = c[p[i + 1]]
      OBVIOUS
    <2>1. i + 1 \in DOMAIN d /\ 1 < i + 1
      BY <1>7
    <2>2. p[1] < p[i + 1] /\ p[i + 1] \in DOMAIN c /\ d[i + 1] = c[p[i + 1]]
      BY <1>1, <1>4, <2>1 DEF Places
    <2> QED BY <1>2, <1>3, <1>5, <1>7, <2>2
  <1>9. \A i \in DOMAIN t : q[i] \in DOMAIN e /\ t[i] = e[q[i]] /\ q[i] + 1 = p[i + 1]
    BY <1>2, <1>8
  <1>10. q \in [DOMAIN t -> DOMAIN e]
    BY <1>9
  <1>11. ASSUME NEW i \in DOMAIN t, NEW j \in DOMAIN t, i < j PROVE q[i] < q[j]
    <2>1. i + 1 \in DOMAIN d /\ j + 1 \in DOMAIN d /\ i + 1 < j + 1
      BY <1>7, <1>11
    <2>2. p[i + 1] < p[j + 1]
      BY <1>1, <2>1 DEF Places
    <2> QED BY <1>2, <1>8, <2>2
  <1>12. ASSUME NEW k \in DOMAIN e PROVE OfDownload(e[k]) <=> \E i \in DOMAIN t : q[i] = k
    <2>1. OfDownload(e[k]) <=> \E i \in DOMAIN d : p[i] = k + 1
      BY <1>1, <1>2 DEF Places
    <2>2. ASSUME NEW i \in DOMAIN d, p[i] = k + 1 PROVE i - 1 \in DOMAIN t /\ q[i - 1] = k
      <3>1. i # 1
        BY <1>2, <1>3, <1>5, <2>2
      <3>2. i - 1 \in DOMAIN t /\ i - 1 + 1 = i
        BY <1>7, <3>1
      <3> QED BY <1>2, <2>2, <3>2
    <2>3. ASSUME NEW i \in DOMAIN t, q[i] = k PROVE i + 1 \in DOMAIN d /\ p[i + 1] = k + 1
      BY <1>7, <1>9, <2>3
    <2> QED BY <2>1, <2>2, <2>3
  <1> HIDE DEF q
  <1>13. Places(q, t, e)
    BY <1>9, <1>10, <1>11, <1>12 DEF Places
  <1>14. AreDownloads(t, e)
    BY <1>13, PlacesGiven
  <1> QED BY <1>4, <1>6, <1>7, <1>14 DEF t

\* Other events are posted.
LEMMA PostNoDownloads ==
  ASSUME NEW c, NEW e, NEW s, Posted(e, c, s), \A k \in DOMAIN s : ~OfDownload(s[k]),
         NEW d \in Seq(ClientMessages), AreDownloads(d, c)
  PROVE  AreDownloads(d, e)
  <1>1. PICK p : Places(p, d, c)
    BY PlacesGiven
  <1>2. /\ \A k \in DOMAIN c : k \in DOMAIN e /\ e[k] = c[k]
        /\ \A k \in DOMAIN e : k \in DOMAIN c \/ \E j \in DOMAIN s : e[k] = s[j]
    BY PostedPlaces
  <1>3. \A i \in DOMAIN d : p[i] \in DOMAIN c /\ d[i] = c[p[i]]
    BY <1>1 DEF Places
  <1>4. p \in [DOMAIN d -> DOMAIN e] /\ \A i \in DOMAIN d : d[i] = e[p[i]]
    <2>1. DOMAIN c \subseteq DOMAIN e
      BY <1>2
    <2> QED BY <1>1, <1>2, <1>3, <2>1 DEF Places
  <1>5. ASSUME NEW k \in DOMAIN e PROVE OfDownload(e[k]) <=> \E i \in DOMAIN d : p[i] = k
    <2>1. CASE k \in DOMAIN c
      BY <1>1, <1>2, <2>1 DEF Places
    <2>2. CASE k \notin DOMAIN c
      BY <1>2, <1>3, <2>2
    <2> QED BY <2>1, <2>2
  <1>6. Places(p, d, e)
    BY <1>1, <1>4, <1>5 DEF Places
  <1> QED BY <1>6, PlacesGiven

\* Events of a download are posted.
LEMMA PostDownloads ==
  ASSUME NEW c, NEW e, NEW s, Posted(e, c, s), \A k \in DOMAIN s : OfDownload(s[k]),
         NEW d, AreDownloads(d, c), NEW b, Posted(b, d, s)
  PROVE  AreDownloads(b, e)
  <1>1. PICK p : Places(p, d, c)
    BY PlacesGiven
  <1> DEFINE n == Len(d)
             m == Len(c)
  <1>2. /\ \A k \in DOMAIN c : k \in DOMAIN e /\ e[k] = c[k] /\ k =< m
        /\ \A k \in DOMAIN s : m + k \in DOMAIN e /\ e[m + k] = s[k]
        /\ \A k \in DOMAIN e : k \in DOMAIN c \/ (k - m \in DOMAIN s /\ m + (k - m) = k /\ k > m)
        /\ \A k \in DOMAIN d : k \in DOMAIN b /\ b[k] = d[k] /\ k =< n
        /\ \A k \in DOMAIN s : n + k \in DOMAIN b /\ b[n + k] = s[k]
        /\ \A k \in DOMAIN b : k \in DOMAIN d \/ (k - n \in DOMAIN s /\ n + (k - n) = k /\ k > n
                                                    /\ b[k] = s[k - n])
        /\ m \in Nat /\ n \in Nat /\ DOMAIN s \subseteq Nat \ {0}
        /\ DOMAIN c \subseteq Nat /\ DOMAIN b \subseteq Nat /\ DOMAIN e \subseteq Nat
    <2>1. DOMAIN c = 1 .. m /\ DOMAIN d = 1 .. n /\ m \in Nat /\ n \in Nat
          /\ DOMAIN s = 1 .. Len(s) /\ Len(s) \in Nat
          /\ DOMAIN e = 1 .. Len(e) /\ DOMAIN b = 1 .. Len(b)
      BY PostedPlaces
    <2> HIDE DEF m, n
    <2>2. /\ \A k \in DOMAIN c : k =< m
          /\ \A k \in DOMAIN d : k =< n
          /\ DOMAIN s \subseteq Nat \ {0}
          /\ DOMAIN c \subseteq Nat /\ DOMAIN b \subseteq Nat /\ DOMAIN e \subseteq Nat
      BY <2>1
    <2>3. /\ \A k \in DOMAIN c : k \in DOMAIN e /\ e[k] = c[k]
          /\ \A k \in DOMAIN s : m + k \in DOMAIN e /\ e[m + k] = s[k]
          /\ \A k \in DOMAIN e :
               k \in DOMAIN c \/ (k - m \in DOMAIN s /\ m + (k - m) = k /\ k > m)
      BY PostedPlaces DEF m
    <2>4. /\ \A k \in DOMAIN d : k \in DOMAIN b /\ b[k] = d[k]
          /\ \A k \in DOMAIN s : n + k \in DOMAIN b /\ b[n + k] = s[k]
          /\ \A k \in DOMAIN b : k \in DOMAIN d \/ (k - n \in DOMAIN s /\ n + (k - n) = k /\ k > n
                                                    /\ b[k] = s[k - n])
      BY PostedPlaces DEF n
    <2> QED BY <2>1, <2>2, <2>3, <2>4
  <1> HIDE DEF n, m
  <1>3. \A i \in DOMAIN d : p[i] \in DOMAIN c /\ d[i] = c[p[i]]
    BY <1>1 DEF Places
  <1> DEFINE q == [i \in DOMAIN b |-> IF i \in DOMAIN d THEN p[i] ELSE m + (i - n)]
  <1>4. \A i \in DOMAIN d : q[i] = p[i]
    BY <1>2
  <1>5. \A i \in DOMAIN b : i \notin DOMAIN d =>
          q[i] = m + (i - n) /\ i - n \in DOMAIN s /\ b[i] = s[i - n] /\ i > n
    BY <1>2
  <1>6. \A k \in DOMAIN s : q[n + k] = m + k /\ n + k \notin DOMAIN d
    <2> SUFFICES ASSUME NEW k \in DOMAIN s PROVE q[n + k] = m + k /\ n + k \notin DOMAIN d
      OBVIOUS
    <2>1. n + k \in DOMAIN b /\ ~(n + k =< n) /\ (n + k) - n = k
      BY <1>2
    <2>2. n + k \notin DOMAIN d
      BY <1>2, <2>1
    <2> HIDE DEF q
    <2>3. q[n + k] = m + ((n + k) - n)
      BY <1>5, <2>1, <2>2
    <2> QED BY <2>1, <2>2, <2>3
  <1>7. q \in [DOMAIN b -> DOMAIN e] /\ \A i \in DOMAIN b : b[i] = e[q[i]]
    <2> SUFFICES ASSUME NEW i \in DOMAIN b PROVE q[i] \in DOMAIN e /\ b[i] = e[q[i]]
      OBVIOUS
    <2>1. CASE i \in DOMAIN d
      BY <1>2, <1>3, <1>4, <2>1
    <2>2. CASE i \notin DOMAIN d
      BY <1>2, <1>5, <2>2
    <2> QED BY <2>1, <2>2
  <1> HIDE DEF q
  <1>8. ASSUME NEW i \in DOMAIN b, NEW j \in DOMAIN b, i < j PROVE q[i] < q[j]
    <2>1. CASE j \in DOMAIN d
      <3>1. i \in DOMAIN d
        <4>1. SUFFICES ASSUME i \notin DOMAIN d PROVE FALSE
          OBVIOUS
        <4>2. i > n /\ j =< n /\ i \in Nat /\ j \in Nat
          BY <1>2, <2>1, <4>1
        <4> QED BY <1>2, <1>8, <4>2
      <3> QED BY <1>1, <1>4, <1>8, <2>1, <3>1 DEF Places
    <2>2. CASE j \notin DOMAIN d
      <3>1. q[j] = m + (j - n) /\ j > n /\ j \in Nat
        BY <1>2, <1>5, <2>2
      <3>2. CASE i \in DOMAIN d
        <4>1. q[i] =< m /\ q[i] \in Nat
          BY <1>2, <1>3, <1>4, <3>2
        <4> QED BY <1>2, <3>1, <4>1
      <3>3. CASE i \notin DOMAIN d
        <4>1. q[i] = m + (i - n) /\ i \in Nat
          BY <1>2, <1>5, <3>3
        <4> QED BY <1>2, <1>8, <3>1, <4>1
      <3> QED BY <3>2, <3>3
    <2> QED BY <2>1, <2>2
  <1>9. ASSUME NEW k \in DOMAIN e PROVE OfDownload(e[k]) <=> \E i \in DOMAIN b : q[i] = k
    <2>1. CASE k \in DOMAIN c
      <3>1. OfDownload(e[k]) <=> \E i \in DOMAIN d : p[i] = k
        BY <1>1, <1>2, <2>1 DEF Places
      <3>2. ASSUME NEW i \in DOMAIN b, i \notin DOMAIN d PROVE q[i] # k
        <4>1. q[i] = m + (i - n) /\ i - n \in Nat \ {0}
          BY <1>2, <1>5, <3>2
        <4>2. k =< m /\ k \in Nat
          BY <1>2, <2>1
        <4> QED BY <1>2, <4>1, <4>2
      <3> QED BY <1>2, <1>4, <3>1, <3>2
    <2>2. CASE k \notin DOMAIN c
      <3>1. k - m \in DOMAIN s /\ m + (k - m) = k
        BY <1>2, <2>2
      <3>2. OfDownload(e[k])
        BY <1>2, <3>1
      <3>3. n + (k - m) \in DOMAIN b /\ q[n + (k - m)] = k
        BY <1>2, <1>6, <3>1
      <3> QED BY <3>2, <3>3
    <2> QED BY <2>1, <2>2
  <1>10. Places(q, b, e)
    BY <1>7, <1>8, <1>9 DEF Places
  <1> QED BY <1>10, PlacesGiven

\* They are among all events.
LEMMA DownloadsAreThere ==
  ASSUME NEW c, NEW d, AreDownloads(d, c), NEW i \in DOMAIN d
  PROVE  \E k \in DOMAIN c : c[k] = d[i]
  BY DEF AreDownloads

-----------------------------------------------------------------------------
(* The steps of the server.                                                *)

\* Other events are posted, and no more.
LEMMA ServerKeepsDownload ==
  ASSUME DownloadInv, NEW s, Posted(toClient', toClient, s), \A k \in DOMAIN s : ~OfDownload(s[k]),
         UNCHANGED <<uploadVars, toServer, clientVars, fault>>
  PROVE  DownloadInv'
  <1>1. UNCHANGED <<upload, toServer, saveList, missing, buffer, disk, numDownloaded, overlapped,
                    fault>>
    BY DEF uploadVars, clientVars, downloadVars
  <1>2. ASSUME StageInv(toClient, toServer, saveList, missing, buffer, upload, numDownloaded)
        PROVE  StageInv(toClient', toServer, saveList, missing, buffer, upload, numDownloaded)
    BY <1>2, PostNoDownloads DEF StageInv
  <1> QED BY <1>1, <1>2 DEF DownloadInv, Running

LEMMA ActivateKeepsDownload ==
  ASSUME IInv, DownloadInv, ActivateGhosting
  PROVE  DownloadInv'
  <1>1. PICK s : /\ Posted(toClient', toClient, s) /\ Len(s) = Len(always) + 1
                 /\ \A k \in 1 .. Len(always) : Brings(s[k])
                 /\ Closes(s[Len(always) + 1])
    BY ActivateGhostingPosts
  <1>2. \A k \in DOMAIN s : ~OfDownload(s[k])
    <2>1. DOMAIN s = 1 .. Len(s) /\ Len(always) \in Nat
      BY <1>1, PostedPlaces, TypeParts DEF IInv, ServerTypes
    <2>2. \A k \in DOMAIN s : k \in 1 .. Len(always) \/ k = Len(always) + 1
      BY <1>1, <2>1
    <2> QED BY <1>1, <2>2 DEF OfDownload, Brings, Closes
  <1> QED BY <1>1, <1>2, ServerKeepsDownload DEF ActivateGhosting

LEMMA ResetKeepsDownload ==
  ASSUME IInv, DownloadInv, ResetGhosting
  PROVE  DownloadInv'
  <1> DEFINE m == [type |-> "EndGhosting"]
             s == <<m>>
  <1>1. toClient' = Append(toClient, m)
        /\ UNCHANGED <<uploadVars, toServer, clientVars, fault>>
    BY DEF ResetGhosting
  <1>2. m \in ClientMessages /\ ~OfDownload(m)
    BY DEF ClientMessages, OfDownload
  <1>3. toClient \in Seq(ClientMessages)
    BY TypeParts DEF IInv, ChannelTypes
  <1> HIDE DEF m
  <1>4. Posted(toClient', toClient, s) /\ \A k \in DOMAIN s : ~OfDownload(s[k])
    BY <1>1, <1>2, <1>3, AppendIsPosted
  <1> QED BY <1>1, <1>4, ServerKeepsDownload

LEMMA ScopeKeepsDownload ==
  ASSUME IInv, DownloadInv,
         UNCHANGED <<uploadVars, toClient, toServer, clientVars, fault>>
  PROVE  DownloadInv'
  <1> DEFINE s == <<>>
  <1>1. toClient \in Seq(ClientMessages)
    BY TypeParts DEF IInv, ChannelTypes
  <1>2. Posted(toClient', toClient, s) /\ \A k \in DOMAIN s : ~OfDownload(s[k])
    BY <1>1 DEF Posted
  <1> HIDE DEF s
  <1> QED BY <1>2, ServerKeepsDownload

\* The server takes an event.
LEMMA RestRequests ==
  ASSUME NEW server \in Seq(ServerMessages), server # <<>>, NEW files
  PROVE  /\ NoRequest(server) => NoRequest(Tail(server)) /\ ~Requests(Head(server))
         /\ OneRequest(server, files) =>
              IF Requests(Head(server))
                THEN NamesOf(Head(server).names, files) /\ NoRequest(Tail(server))
                ELSE OneRequest(Tail(server), files)
  <1> DEFINE t == Tail(server)
             h == Head(server)
  <1>1. /\ h = server[1] /\ 1 \in DOMAIN server /\ DOMAIN server \subseteq Nat
        /\ \A k \in DOMAIN t : k + 1 \in DOMAIN server /\ t[k] = server[k + 1] /\ k + 1 # 1
        /\ \A k \in DOMAIN server : k # 1 => k - 1 \in DOMAIN t /\ t[k - 1] = server[k]
                                             /\ (k - 1) + 1 = k
        /\ DOMAIN t \subseteq Nat
    OBVIOUS
  <1> HIDE DEF t, h
  <1>2. NoRequest(server) => NoRequest(t) /\ ~Requests(h)
    BY <1>1 DEF NoRequest
  <1>3. ASSUME NEW k \in DOMAIN server, Requests(server[k]), NamesOf(server[k].names, files),
               \A j \in DOMAIN server : j # k => ~Requests(server[j])
        PROVE  IF Requests(h) THEN NamesOf(h.names, files) /\ NoRequest(t)
                              ELSE OneRequest(t, files)
    <2>1. CASE k = 1
      <3>1. NoRequest(t)
        BY <1>1, <1>3, <2>1 DEF NoRequest
      <3> QED BY <1>1, <1>3, <2>1, <3>1
    <2>2. CASE k # 1
      <3>1. ~Requests(h)
        BY <1>1, <1>3, <2>2
      <3>2. k - 1 \in DOMAIN t /\ t[k - 1] = server[k]
        BY <1>1, <2>2
      <3>3. \A j \in DOMAIN t : j # k - 1 => ~Requests(t[j])
        <4> SUFFICES ASSUME NEW j \in DOMAIN t, j # k - 1 PROVE ~Requests(t[j])
          OBVIOUS
        <4>1. j + 1 \in DOMAIN server /\ t[j] = server[j + 1] /\ j + 1 # k
          BY <1>1, <2>2
        <4> QED BY <1>3, <4>1
      <3> QED BY <1>3, <3>1, <3>2, <3>3 DEF OneRequest
    <2> QED BY <2>1, <2>2
  <1>4. OneRequest(server, files) => IF Requests(h) THEN NamesOf(h.names, files) /\ NoRequest(t)
                                                    ELSE OneRequest(t, files)
    BY <1>3 DEF OneRequest
  <1> QED BY <1>2, <1>4 DEF t, h

LEMMA ReadyKeepsDownload ==
  ASSUME IInv, DownloadInv, ReadyForNormalGhosts
  PROVE  DownloadInv'
  <1>1. /\ toServer # <<>> /\ Head(toServer).type = "ReadyForNormalGhosts"
        /\ toServer' = Tail(toServer) /\ UNCHANGED <<uploadVars, toClient, clientVars, fault>>
    BY DEF ReadyForNormalGhosts
  <1>2. UNCHANGED <<upload, toClient, saveList, missing, buffer, disk, numDownloaded, overlapped,
                    fault>>
    BY <1>1 DEF uploadVars, clientVars, downloadVars
  <1>3. toServer \in Seq(ServerMessages)
    BY TypeParts DEF IInv, ChannelTypes
  <1>4. ~Requests(Head(toServer))
    BY <1>1 DEF Requests
  <1>5. /\ NoRequest(toServer) => NoRequest(toServer')
        /\ \A files : OneRequest(toServer, files) => OneRequest(toServer', files)
    BY <1>1, <1>3, <1>4, RestRequests
  <1>6. ASSUME NEW d, Stage(d, toServer, saveList, missing, buffer, upload, numDownloaded)
        PROVE  Stage(d, toServer', saveList, missing, buffer, upload, numDownloaded)
    <2>1. CASE Idle(d, toServer, missing, buffer, upload)
      BY <1>5, <2>1 DEF Stage, Idle
    <2>2. CASE Asked(d, toServer, saveList, missing, buffer, upload, numDownloaded)
      BY <1>5, <2>2 DEF Stage, Asked
    <2>3. ASSUME NEW a \in Nat,
                 Refused(d, toServer, saveList, missing, buffer, upload, numDownloaded, a)
          PROVE  Stage(d, toServer', saveList, missing, buffer, upload, numDownloaded)
      BY <1>5, <2>3 DEF Stage, Refused
    <2>4. ASSUME NEW a \in Nat, NEW f \in Files,
                 Starting(d, toServer, saveList, missing, buffer, upload, a, f)
          PROVE  Stage(d, toServer', saveList, missing, buffer, upload, numDownloaded)
      BY <1>5, <2>4 DEF Stage, Starting
    <2>5. ASSUME NEW r \in Nat, NEW f \in Files,
                 Receiving(d, toServer, saveList, missing, buffer, upload, r, f)
          PROVE  Stage(d, toServer', saveList, missing, buffer, upload, numDownloaded)
      BY <1>5, <2>5 DEF Stage, Receiving
    <2> QED BY <1>6, <2>1, <2>2, <2>3, <2>4, <2>5 DEF Stage
  <1>7. StageInv(toClient, toServer, saveList, missing, buffer, upload, numDownloaded) =>
          StageInv(toClient', toServer', saveList, missing, buffer, upload, numDownloaded)
    BY <1>2, <1>6 DEF StageInv
  <1> QED BY <1>2, <1>7 DEF DownloadInv, Running

\* What startSendingFile sends.
LEMMA StartSendingFileIs ==
  ASSUME NEW f \in Files
  PROVE  \E up \in Uploads, e \in Seq(ClientMessages) :
           /\ StartSendingFile(f) = [up |-> up, events |-> e]
           /\ Sends(up, f) /\ Delivery(e, up, 0, f)
           /\ \A k \in DOMAIN e : OfDownload(e[k])
  <1> DEFINE n == Min({InTransit, Chunks[f]})
             m == [type |-> "FileDownloadSize", size |-> Chunks[f]]
             chunks == SubSeq(FullFile(f), 1, n)
             sent == ChunkEvents(chunks)
             up == [file |-> IF n < InTransit THEN None ELSE f, size |-> Chunks[f], offset |-> n]
             e == <<m>> \o sent
  <1>1. StartSendingFile(f) = [up |-> up, events |-> e]
    BY Zenon DEF StartSendingFile
  <1>2. InTransit \in Nat /\ Chunks[f] \in Nat
    BY SessionConstants
  <1>3. n \in Nat /\ n =< Chunks[f] /\ (n < InTransit => n = Chunks[f])
    <2>1. Min({InTransit, Chunks[f]}) \in {InTransit, Chunks[f]}
      BY <1>2, MinNumber
    <2> QED BY <1>2, <2>1, LesserNumber
  <1>4. up \in Uploads
    <2> HIDE DEF n
    <2> QED BY <1>2, <1>3 DEF Uploads
  <1>5. Sends(up, f) /\ up.offset = n
    <2>1. None # f
      BY SessionConstants
    <2> HIDE DEF n
    <2> QED BY <1>2, <1>3, <2>1 DEF Sends
  <1>6. FullFile(f) \in Seq(Chunk) /\ Len(FullFile(f)) = Chunks[f]
        /\ \A k \in 1 .. Chunks[f] : FullFile(f)[k] = [file |-> f, at |-> k]
    BY FullFileType DEF FullFile
  <1>7. /\ chunks \in Seq(Chunk) /\ Len(chunks) = n
        /\ \A k \in 1 .. n : chunks[k] = [file |-> f, at |-> k]
    <2> DEFINE full == FullFile(f)
    <2> HIDE DEF n, full
    <2>1. full \in Seq(Chunk) /\ Len(full) = Chunks[f]
          /\ \A k \in 1 .. Chunks[f] : full[k] = [file |-> f, at |-> k]
      BY <1>6 DEF full
    <2>2. SubSeq(full, 1, n) \in Seq(Chunk) /\ Len(SubSeq(full, 1, n)) = n
          /\ \A k \in 1 .. n : SubSeq(full, 1, n)[k] = full[k] /\ k \in 1 .. Chunks[f]
      BY <1>2, <1>3, <2>1
    <2> QED BY <2>1, <2>2 DEF full
  <1>8. /\ sent \in Seq(ClientMessages) /\ Len(sent) = n
        /\ \A k \in 1 .. n : sent[k] = ChunkEvent(f, k)
    <2>1. sent \in Seq(ClientMessages)
      BY <1>7, ChunkEventsType
    <2>2. DOMAIN chunks = 1 .. n
      BY <1>7
    <2>3. DOMAIN sent = 1 .. n /\ \A k \in 1 .. n : sent[k] = ChunkEvent(f, k)
      <3> HIDE DEF chunks, n
      <3> QED BY <1>7, <2>2 DEF ChunkEvents, ChunkEvent
    <2> HIDE DEF sent, n
    <2>4. Len(sent) = n
      BY <1>3, <2>1, <2>3
    <2> QED BY <2>1, <2>3, <2>4
  <1>9. m \in ClientMessages /\ OfDownload(m)
    BY <1>2 DEF ClientMessages, OfDownload
  <1>10. \A k \in 1 .. n : OfDownload(ChunkEvent(f, k))
    BY DEF OfDownload, ChunkEvent
  <1> HIDE DEF n, sent, up
  <1>11. /\ e \in Seq(ClientMessages) /\ Len(e) = 1 + n /\ e[1] = m
         /\ \A k \in 1 .. n : e[1 + k] = sent[k]
    <2> HIDE DEF m
    <2> QED BY <1>3, <1>8, <1>9
  <1> HIDE DEF e
  <1>12. Delivery(e, up, 0, f)
    BY <1>3, <1>5, <1>8, <1>11 DEF Delivery
  <1>13. \A k \in DOMAIN e : OfDownload(e[k])
    <2>1. \A k \in DOMAIN e : k = 1 \/ \E j \in 1 .. n : k = 1 + j
      <3> SUFFICES ASSUME NEW k \in DOMAIN e, k # 1 PROVE \E j \in 1 .. n : k = 1 + j
        OBVIOUS
      <3>1. k - 1 \in 1 .. n /\ k = 1 + (k - 1)
        BY <1>3, <1>11
      <3> QED BY <3>1
    <2> HIDE DEF m
    <2> QED BY <1>8, <1>9, <1>10, <1>11, <2>1
  <1> QED BY <1>1, <1>4, <1>5, <1>11, <1>12, <1>13

\* a times that there is no such file.
LEMMA NoSuchFileTimes ==
  ASSUME NEW a \in Nat
  PROVE  /\ [k \in 1 .. a |-> NoSuchFile] \in Seq(ClientMessages)
         /\ Len([k \in 1 .. a |-> NoSuchFile]) = a
         /\ \A k \in 1 .. a : [j \in 1 .. a |-> NoSuchFile][k] = NoSuchFile
  <1> DEFINE none == [k \in 1 .. a |-> NoSuchFile]
  <1>1. NoSuchFile \in ClientMessages
    BY DEF NoSuchFile, ClientMessages
  <1>2. none \in [1 .. a -> ClientMessages] /\ \A k \in 1 .. a : none[k] = NoSuchFile
    BY <1>1
  <1> HIDE DEF none
  <1>3. none \in Seq(ClientMessages) /\ Len(none) = a
    BY <1>2
  <1> QED BY <1>2, <1>3 DEF none

\* So often, before what is sent.
LEMMA NoSuchFiles ==
  ASSUME NEW a \in Nat, NEW e \in Seq(ClientMessages), \A k \in DOMAIN e : OfDownload(e[k]),
         NEW none, NEW u, Posted(u, none, e),
         Len(none) = a, \A k \in 1 .. a : none[k] = NoSuchFile
  PROVE  /\ u \in Seq(ClientMessages) /\ Len(u) = a + Len(e)
         /\ \A k \in 1 .. a : u[k] = NoSuchFile
         /\ \A k \in 1 .. Len(e) : u[a + k] = e[k]
         /\ \A k \in DOMAIN u : OfDownload(u[k])
  <1>1. OfDownload(NoSuchFile)
    BY DEF NoSuchFile, OfDownload
  <1>2. u \in Seq(ClientMessages) /\ Len(u) = a + Len(e) /\ (\A k \in 1 .. a : u[k] = NoSuchFile)
        /\ \A k \in 1 .. Len(e) : u[a + k] = e[k]
    BY DEF Posted
  <1>3. /\ DOMAIN none = 1 .. Len(none)
        /\ \A k \in DOMAIN u : k \in DOMAIN none
                                \/ (k - Len(none) \in DOMAIN e /\ u[k] = e[k - Len(none)])
    BY PostedPlaces
  <1> QED BY <1>1, <1>2, <1>3

\* The answer to a request.
Answered(names, up, now, e) ==
  \/ /\ \A k \in DOMAIN names : names[k] \notin Served
     /\ now = [up EXCEPT !.file = None] /\ Refusal(e, Len(names))
  \/ \E a \in Nat, f \in Files : /\ a + 1 \in DOMAIN names /\ f = names[a + 1]
                                 /\ Sends(now, f) /\ Delivery(e, now, a, f)

LEMMA AnswerToIs ==
  ASSUME NEW names \in Seq(Files), upload \in Uploads
  PROVE  \E up \in Uploads, e \in Seq(ClientMessages) :
           /\ AnswerTo(names).up = up /\ AnswerTo(names).events = e
           /\ Answered(names, upload, up, e)
           /\ \A k \in DOMAIN e : OfDownload(e[k])
  <1> DEFINE found   == {k \in DOMAIN names : names[k] \in Served}
             lacking == IF found = {} THEN Len(names) ELSE Min(found) - 1
             answer  == IF found = {} THEN NoFileSent ELSE StartSendingFile(names[Min(found)])
             none    == [k \in 1 .. lacking |-> NoSuchFile]
  <1>1. AnswerTo(names) = [answer EXCEPT !.events = none \o @]
    BY Zenon DEF AnswerTo
  <1>2. CASE found = {}
    <2> DEFINE m == [type |-> "SendNextDownloadRequest"]
               up == [upload EXCEPT !.file = None]
               e == <<m>>
               n == Len(names)
    <2>1. lacking = n /\ n \in Nat
      BY <1>2
    <2>2. answer = [up |-> up, events |-> e]
      BY <1>2 DEF NoFileSent
    <2>3. m \in ClientMessages /\ OfDownload(m) /\ m.type = "SendNextDownloadRequest"
      BY DEF ClientMessages, OfDownload
    <2>4. up \in Uploads
      BY DEF Uploads
    <2> HIDE DEF found, lacking, answer, m, up, n
    <2>5. /\ e \in Seq(ClientMessages) /\ Len(e) = 1 /\ e[1] = m
          /\ \A k \in DOMAIN e : OfDownload(e[k])
      BY <2>3
    <2> HIDE DEF e
    <2>6. /\ none \in Seq(ClientMessages) /\ Len(none) = n
          /\ \A k \in 1 .. n : none[k] = NoSuchFile
      BY <2>1, NoSuchFileTimes
    <2> HIDE DEF none
    <2> DEFINE u == none \o e
    <2>u. Posted(u, none, e)
      BY <2>5, <2>6, ConcatIsPosted
    <2>v. AnswerTo(names).up = up /\ AnswerTo(names).events = u
      BY <1>1, <2>2
    <2> HIDE DEF u
    <2>7. /\ u \in Seq(ClientMessages) /\ Len(u) = n + Len(e)
          /\ \A k \in 1 .. n : u[k] = NoSuchFile
          /\ \A k \in 1 .. Len(e) : u[n + k] = e[k]
          /\ \A k \in DOMAIN u : OfDownload(u[k])
      BY <2>1, <2>5, <2>6, <2>u, NoSuchFiles
    <2>9. Refusal(u, n)
      BY <2>1, <2>3, <2>5, <2>7 DEF Refusal
    <2>10. Answered(names, upload, up, u)
      BY <1>2, <2>9 DEF Answered, found, up, n
    <2> QED BY <2>4, <2>7, <2>v, <2>10
  <1>3. CASE found # {}
    <2> DEFINE f == names[Min(found)]
               a == Min(found) - 1
    <2>1. Min(found) \in found
      <3>1. found \subseteq Nat
        OBVIOUS
      <3> HIDE DEF found
      <3> QED BY <1>3, <3>1, MinNumber
    <2>2. a \in Nat /\ a + 1 = Min(found) /\ a + 1 \in DOMAIN names /\ f \in Files
      BY <2>1
    <2>3. lacking = a /\ answer = StartSendingFile(f)
      BY <1>3
    <2>4. f = names[a + 1]
      BY <2>2
    <2> HIDE DEF found, lacking, answer, f, a
    <2>5. PICK up \in Uploads, e \in Seq(ClientMessages) :
            /\ StartSendingFile(f) = [up |-> up, events |-> e]
            /\ Sends(up, f) /\ Delivery(e, up, 0, f)
            /\ \A k \in DOMAIN e : OfDownload(e[k])
      BY <2>2, StartSendingFileIs
    <2>6. /\ none \in Seq(ClientMessages) /\ Len(none) = a
          /\ \A k \in 1 .. a : none[k] = NoSuchFile
      BY <2>2, <2>3, NoSuchFileTimes
    <2> HIDE DEF none
    <2> DEFINE u == none \o e
    <2>u. Posted(u, none, e)
      BY <2>5, <2>6, ConcatIsPosted
    <2>v. AnswerTo(names).up = up /\ AnswerTo(names).events = u
      BY <1>1, <2>3, <2>5
    <2> HIDE DEF u
    <2>7. /\ u \in Seq(ClientMessages) /\ Len(u) = a + Len(e)
          /\ \A k \in 1 .. a : u[k] = NoSuchFile
          /\ \A k \in 1 .. Len(e) : u[a + k] = e[k]
          /\ \A k \in DOMAIN u : OfDownload(u[k])
      BY <2>2, <2>5, <2>6, <2>u, NoSuchFiles
    <2>9. Delivery(u, up, a, f)
      <3>1. /\ Len(u) = a + Len(e)
            /\ \A k \in 1 .. a : u[k] = NoSuchFile
            /\ \A k \in 1 .. Len(e) : u[a + k] = e[k]
        BY <2>7
      <3>2. /\ Len(e) = up.offset + 1 /\ up.offset \in Nat
            /\ e[1] = [type |-> "FileDownloadSize", size |-> Chunks[f]]
            /\ \A k \in 1 .. up.offset : e[1 + k] = ChunkEvent(f, k)
        BY <2>5 DEF Delivery, Uploads
      <3>3. Len(u) = a + 1 + up.offset /\ u[a + 1] = e[1]
        <4> DEFINE m == up.offset
                   l == Len(e)
        <4>1. l = m + 1 /\ m \in Nat /\ a \in Nat /\ Len(u) = a + l
          BY <2>2, <3>1, <3>2
        <4> HIDE DEF m, l
        <4>2. 1 \in 1 .. l /\ Len(u) = a + 1 + m
          BY <4>1
        <4>3. u[a + 1] = e[1]
          BY <3>1, <4>2 DEF l
        <4> QED BY <4>2, <4>3 DEF m
      <3>4. ASSUME NEW k \in 1 .. up.offset PROVE u[a + 1 + k] = ChunkEvent(f, k)
        <4>1. 1 + k \in 1 .. Len(e) /\ a + (1 + k) = a + 1 + k
          BY <2>2, <3>2
        <4>2. u[a + (1 + k)] = e[1 + k]
          BY <3>1, <4>1
        <4> QED BY <3>2, <4>1, <4>2
      <3> QED BY <3>1, <3>2, <3>3, <3>4 DEF Delivery
    <2>10. Answered(names, upload, up, u)
      BY <2>2, <2>4, <2>5, <2>9 DEF Answered
    <2> QED BY <2>7, <2>v, <2>10
  <1> QED BY <1>2, <1>3

LEMMA AnsweredStage ==
  ASSUME NEW d, NEW server, NEW list, NEW files \in Seq(Files), NEW buf, NEW up \in Uploads,
         NEW num,
         Asked(d, server, list, files, buf, up, num),
         NEW left, NoRequest(left), NEW names \in Seq(Files), NamesOf(names, files),
         NEW now \in Uploads, NEW e, Answered(names, up, now, e)
  PROVE  Stage(e, left, list, files, buf, now, num)
  <1>1. /\ Whole(buf) /\ Sent(up) /\ FirstWaits(list)
        /\ num = 0 => Unserved(list) \/ AreItsFiles(list, files)
    BY DEF Asked
  <1>2. /\ Len(names) \in Nat /\ Len(files) \in Nat /\ Len(names) =< Len(files)
        /\ DOMAIN names = 1 .. Len(names) /\ 1 \in DOMAIN names
        /\ \A k \in DOMAIN names : k \in DOMAIN files /\ names[k] = files[k]
    BY DEF NamesOf
  <1>3. CASE /\ \A k \in DOMAIN names : names[k] \notin Served
             /\ now = [up EXCEPT !.file = None] /\ Refusal(e, Len(names))
    <2>1. Sent(now)
      BY <1>1, <1>3 DEF Sent, Uploads
    <2>2. AreItsFiles(list, files) => Unserved(list)
      BY <1>2, <1>3 DEF AreItsFiles, Unserved
    <2>3. Refused(e, left, list, files, buf, now, num, Len(names))
      BY <1>1, <1>2, <1>3, <2>1, <2>2 DEF Refused
    <2> QED BY <1>2, <2>3 DEF Stage
  <1>4. ASSUME NEW a \in Nat, NEW f \in Files, a + 1 \in DOMAIN names, f = names[a + 1],
               Sends(now, f), Delivery(e, now, a, f)
        PROVE  Stage(e, left, list, files, buf, now, num)
    <2>1. a + 1 =< Len(files) /\ files[a + 1] = f
      BY <1>2, <1>4
    <2>2. Starting(e, left, list, files, buf, now, a, f)
      BY <1>1, <1>4, <2>1 DEF Starting
    <2> QED BY <2>2 DEF Stage
  <1> QED BY <1>3, <1>4 DEF Answered

LEMMA RequestKeepsDownload ==
  ASSUME IInv, DownloadInv, FileDownloadRequest
  PROVE  DownloadInv'
  <1> DEFINE names == Head(toServer).names
  <1>1. /\ toServer # <<>> /\ Head(toServer).type = "FileDownloadRequest"
        /\ toServer' = Tail(toServer) /\ upload' = AnswerTo(names).up
        /\ toClient' = toClient \o AnswerTo(names).events
        /\ Running /\ UNCHANGED <<clientVars, fault>>
    BY Zenon DEF FileDownloadRequest
  <1>2. UNCHANGED <<saveList, missing, buffer, disk, numDownloaded, overlapped, fault>>
    BY <1>1 DEF clientVars, downloadVars
  <1>3. SUFFICES ASSUME ~overlapped
                 PROVE  StageInv(toClient', toServer', saveList, missing, buffer, upload',
                                 numDownloaded)
    BY <1>1, <1>2 DEF DownloadInv, Running
  <1>4. /\ toClient \in Seq(ClientMessages) /\ toServer \in Seq(ServerMessages)
        /\ upload \in Uploads /\ missing \in Seq(Files)
    BY TypeParts DEF IInv, ChannelTypes, ServerTypes, ClientTypes, Uploads
  <1>5. Head(toServer) \in ServerMessages /\ names \in Seq(Files) /\ Requests(Head(toServer))
    <2>1. Head(toServer) \in ServerMessages
      BY <1>1, <1>4
    <2> QED BY <1>1, <2>1 DEF ServerMessages, Requests
  <1>6. PICK d \in Seq(ClientMessages) :
          /\ AreDownloads(d, toClient)
          /\ Stage(d, toServer, saveList, missing, buffer, upload, numDownloaded)
    BY <1>1, <1>3 DEF DownloadInv, StageInv
  <1>7. Asked(d, toServer, saveList, missing, buffer, upload, numDownloaded)
    <2>1. ~NoRequest(toServer)
      BY <1>1, <1>4, <1>5, RestRequests
    <2> QED BY <1>6, <2>1 DEF Stage, Idle, Refused, Starting, Receiving
  <1>8. NamesOf(names, missing) /\ NoRequest(toServer')
    BY <1>1, <1>4, <1>5, <1>7, RestRequests DEF Asked
  <1> HIDE DEF names
  <1>9. PICK up \in Uploads, e \in Seq(ClientMessages) :
          /\ AnswerTo(names).up = up /\ AnswerTo(names).events = e
          /\ Answered(names, upload, up, e)
          /\ \A k \in DOMAIN e : OfDownload(e[k])
    BY <1>4, <1>5, AnswerToIs
  <1>10. Stage(e, toServer', saveList, missing, buffer, up, numDownloaded)
    BY <1>4, <1>5, <1>7, <1>8, <1>9, AnsweredStage
  <1>11. AreDownloads(e, toClient')
    <2>1. Posted(toClient', toClient, e)
      BY <1>1, <1>4, <1>9, ConcatIsPosted
    <2>2. d = <<>> /\ Len(d) = 0
      BY <1>7 DEF Asked
    <2>3. Posted(e, d, e)
      BY <1>6, <1>9, <2>2 DEF Posted
    <2> QED BY <1>6, <1>9, <2>1, <2>3, PostDownloads
  <1> QED BY <1>1, <1>9, <1>10, <1>11 DEF StageInv

\* The places behind the names and the size.
LEMMA ChunkPlaces ==
  ASSUME NEW a \in Nat, NEW n \in Nat, NEW l, l = a + 1 + n
  PROVE  /\ l \in Nat /\ a + 1 \in 1 .. l
         /\ \A k \in 1 .. a : k \in 1 .. l
         /\ \A k \in 1 .. n + 1 : IF k = n + 1 THEN a + 1 + k = l + 1
                                   ELSE k \in 1 .. n /\ a + 1 + k \in 1 .. l
  OBVIOUS

\* One chunk more is sent.
LEMMA OneMoreChunk ==
  ASSUME NEW d \in Seq(ClientMessages), NEW server, NEW list, NEW files, NEW buf, NEW num,
         NEW up \in Uploads, Stage(d, server, list, files, buf, up, num), up.offset < up.size,
         NEW now, now = [up EXCEPT !.offset = @ + 1],
         NEW m, m = ChunkEvent(up.file, up.offset + 1)
  PROVE  /\ up.file # None
         /\ Stage(Append(d, m), server, list, files, buf, now, num)
  <1> DEFINE n == up.offset
             l == Len(d)
             b == Append(d, m)
  <1>1. n \in Nat /\ up.size \in Nat /\ n < up.size /\ l \in Nat
    BY DEF Uploads
  <1>2. now.offset = n + 1 /\ now.size = up.size /\ now.file = up.file
    BY DEF Uploads
  <1>3. Len(b) = l + 1 /\ b[l + 1] = m /\ \A k \in 1 .. l : b[k] = d[k]
    OBVIOUS
  <1>4. ~Sent(up)
    BY <1>1 DEF Sent
  <1>5. \A f : Sends(up, f) => up.file = f /\ up.file # None /\ Sends(now, f)
    BY <1>1, <1>2 DEF Sends
  <1> HIDE DEF n, l, b
  <1>6. ASSUME NEW a \in Nat, NEW f \in Files, Starting(d, server, list, files, buf, up, a, f)
        PROVE  up.file # None /\ Starting(b, server, list, files, buf, now, a, f)
    <2>1. Delivery(d, up, a, f) /\ Sends(up, f)
      BY <1>6 DEF Starting
    <2>2. m = ChunkEvent(f, n + 1)
      BY <1>5, <2>1 DEF n
    <2>3. l = a + 1 + n /\ Len(b) = a + 1 + (n + 1)
      <3>1. l = a + 1 + n
        BY <2>1 DEF Delivery, n, l
      <3> QED BY <1>1, <1>3, <3>1
    <2>4. ASSUME NEW k \in 1 .. n + 1 PROVE b[a + 1 + k] = ChunkEvent(f, k)
      <3>1. CASE k = n + 1
        <4>1. a + 1 + k = l + 1
          BY <1>1, <2>3, <3>1, ChunkPlaces
        <4> QED BY <1>3, <2>2, <3>1, <4>1
      <3>2. CASE k # n + 1
        <4>1. k \in 1 .. n /\ a + 1 + k \in 1 .. l
          BY <1>1, <2>3, <3>2, ChunkPlaces
        <4> QED BY <1>3, <2>1, <4>1 DEF Delivery, n
      <3> QED BY <3>1, <3>2
    <2>5. b[a + 1] = d[a + 1] /\ \A k \in 1 .. a : b[k] = d[k]
      <3>1. a + 1 \in 1 .. l /\ \A k \in 1 .. a : k \in 1 .. l
        BY <1>1, <2>3, ChunkPlaces
      <3> QED BY <1>3, <3>1
    <2>6. Delivery(b, now, a, f)
      BY <1>2, <2>1, <2>3, <2>4, <2>5 DEF Delivery
    <2> QED BY <1>5, <1>6, <2>1, <2>6 DEF Starting
  <1>7. ASSUME NEW r \in Nat, NEW f \in Files, Receiving(d, server, list, files, buf, up, r, f)
        PROVE  up.file # None /\ Receiving(b, server, list, files, buf, now, r, f)
    <2>1. /\ r =< n /\ l = n - r /\ Sends(up, f)
          /\ \A k \in 1 .. l : d[k] = ChunkEvent(f, r + k)
      BY <1>7 DEF Receiving, n, l
    <2>2. m = ChunkEvent(f, n + 1)
      BY <1>5, <2>1 DEF n
    <2>3. Len(b) = (n + 1) - r /\ r =< n + 1 /\ r + (l + 1) = n + 1
      BY <1>1, <1>3, <2>1
    <2>4. ASSUME NEW k \in 1 .. Len(b) PROVE b[k] = ChunkEvent(f, r + k)
      <3>1. CASE k = l + 1
        BY <1>3, <2>2, <2>3, <3>1
      <3>2. CASE k # l + 1
        <4>1. k \in 1 .. l
          BY <1>1, <1>3, <3>2
        <4> QED BY <1>3, <2>1, <4>1
      <3> QED BY <3>1, <3>2
    <2> QED BY <1>2, <1>5, <1>7, <2>1, <2>3, <2>4 DEF Receiving
  <1>8. up.file # None /\ Stage(b, server, list, files, buf, now, num)
    BY <1>4, <1>6, <1>7 DEF Stage, Idle, Asked, Refused
  <1> QED BY <1>8 DEF b

\* The file is closed.
LEMMA FileIsClosed ==
  ASSUME NEW d, NEW server, NEW list, NEW files, NEW buf, NEW num,
         NEW up \in Uploads, Stage(d, server, list, files, buf, up, num), ~(up.offset < up.size),
         NEW now, now = [up EXCEPT !.file = None]
  PROVE  Stage(d, server, list, files, buf, now, num)
  <1>1. /\ now.offset = up.offset /\ now.size = up.size /\ now.file = None
        /\ up.offset \in Nat /\ up.size \in Nat
    BY DEF Uploads
  <1>2. /\ Sent(up) => Sent(now)
        /\ \A f : Sends(up, f) => Sends(now, f)
        /\ \A a, f : Delivery(d, up, a, f) => Delivery(d, now, a, f)
    BY <1>1 DEF Sent, Sends, Delivery
  <1>3. ASSUME NEW r \in Nat, NEW f \in Files, Receiving(d, server, list, files, buf, up, r, f)
        PROVE  Receiving(d, server, list, files, buf, now, r, f)
    BY <1>1, <1>2, <1>3 DEF Receiving
  <1> QED BY <1>2, <1>3 DEF Stage, Idle, Asked, Refused, Starting

LEMMA ChunkNotifiedKeepsDownload ==
  ASSUME IInv, DownloadInv, ChunkNotified
  PROVE  DownloadInv'
  <1> DEFINE next == SendFileChunk(upload)
  <1>1. /\ Running /\ UNCHANGED <<toServer, clientVars>>
        /\ IF upload.file = None /\ next.chunks # <<>>
             THEN fault' = "server" /\ UNCHANGED <<upload, toClient>>
             ELSE /\ upload' = next.up
                  /\ toClient' = toClient \o ChunkEvents(next.chunks)
                  /\ UNCHANGED fault
    BY Zenon DEF ChunkNotified
  <1>2. UNCHANGED <<toServer, saveList, missing, buffer, disk, numDownloaded, overlapped>>
    BY <1>1 DEF clientVars, downloadVars
  <1>3. SUFFICES ASSUME ~overlapped
                 PROVE  /\ fault' = fault
                        /\ StageInv(toClient', toServer, saveList, missing, buffer, upload',
                                    numDownloaded)
    BY <1>1, <1>2 DEF DownloadInv, Running
  <1>4. toClient \in Seq(ClientMessages) /\ upload \in Uploads
    BY TypeParts DEF IInv, ChannelTypes, ServerTypes, Uploads
  <1>5. PICK d \in Seq(ClientMessages) :
          /\ AreDownloads(d, toClient)
          /\ Stage(d, toServer, saveList, missing, buffer, upload, numDownloaded)
    BY <1>1, <1>3 DEF DownloadInv, StageInv
  <1>6. CASE upload.offset < upload.size
    <2> DEFINE chunk == [file |-> upload.file, at |-> upload.offset + 1]
               m == [type |-> "FileChunk", chunk |-> chunk]
               now == [upload EXCEPT !.offset = @ + 1]
               s == <<m>>
               b == Append(d, m)
    <2>1. next = [up |-> now, chunks |-> <<chunk>>]
      BY <1>6 DEF SendFileChunk
    <2>2. m = ChunkEvent(upload.file, upload.offset + 1)
      BY DEF ChunkEvent
    <2>3. next.up = now /\ next.chunks = <<chunk>>
      BY <2>1
    <2> HIDE DEF now, next
    <2>4. upload.file # None /\ Stage(b, toServer, saveList, missing, buffer, now, numDownloaded)
      <3> HIDE DEF m
      <3>1. now = [upload EXCEPT !.offset = @ + 1]
        BY DEF now
      <3> QED BY <1>4, <1>5, <1>6, <2>2, <3>1, OneMoreChunk
    <2>5. m \in ClientMessages /\ OfDownload(m)
      <3>1. chunk \in Chunk
        BY <1>4, <2>4 DEF Uploads, Chunk
      <3> HIDE DEF chunk
      <3> QED BY <3>1 DEF ClientMessages, OfDownload
    <2>6. ChunkEvents(<<chunk>>) = s
      <3> HIDE DEF chunk
      <3>1. DOMAIN <<chunk>> = 1 .. 1 /\ <<chunk>>[1] = chunk
        OBVIOUS
      <3>2. ChunkEvents(<<chunk>>) = [k \in 1 .. 1 |-> m]
        BY <3>1 DEF ChunkEvents
      <3> HIDE DEF m
      <3> QED BY <3>2
    <2>7. fault' = fault /\ upload' = now /\ toClient' = toClient \o s
      BY <1>1, <2>3, <2>4, <2>6
    <2> HIDE DEF m, chunk
    <2>8. s \in Seq(ClientMessages) /\ \A k \in DOMAIN s : OfDownload(s[k])
      BY <2>5
    <2>9. Posted(b, d, s) /\ b \in Seq(ClientMessages)
      BY <1>5, <2>5, AppendIsPosted
    <2> HIDE DEF s, b
    <2>10. Posted(toClient', toClient, s)
      BY <1>4, <2>7, <2>8, ConcatIsPosted
    <2>11. AreDownloads(b, toClient')
      BY <1>5, <2>8, <2>9, <2>10, PostDownloads
    <2> QED BY <2>4, <2>7, <2>9, <2>11 DEF StageInv
  <1>7. CASE ~(upload.offset < upload.size)
    <2> DEFINE now == [upload EXCEPT !.file = None]
               none == <<>>
    <2>1. next = [up |-> now, chunks |-> none]
      BY <1>7 DEF SendFileChunk
    <2>2. next.up = now /\ next.chunks = none
      BY <2>1
    <2>3. ChunkEvents(none) = none
      BY DEF ChunkEvents
    <2>4. fault' = fault /\ upload' = now /\ toClient' = toClient
      <3>1. toClient \o none = toClient
        BY <1>4
      <3> HIDE DEF next, now
      <3> QED BY <1>1, <2>2, <2>3, <3>1
    <2>5. Stage(d, toServer, saveList, missing, buffer, now, numDownloaded)
      BY <1>4, <1>5, <1>7, FileIsClosed
    <2> QED BY <1>5, <2>4, <2>5 DEF StageInv
  <1> QED BY <1>6, <1>7

-----------------------------------------------------------------------------
(* What the client does when no download is under way.                     *)

\* It has got all it needs, is turned away, or asks for files.
Outcome(failed, list, server, files, num) ==
  \/ failed = "none" /\ files = <<>> /\ NoRequest(server)
  \/ failed = "error" /\ Unserved(list)
  \/ /\ failed = "none" /\ FirstWaits(list) /\ OneRequest(server, files)
     /\ num = 0 => Unserved(list) \/ AreItsFiles(list, files)

LEMMA OutcomeKeeps ==
  ASSUME Outcome(fault', saveList', toServer', missing', numDownloaded'),
         NEW d, d = <<>>, AreDownloads(d, toClient'), Whole(buffer'), Sent(upload'),
         StoredInv(disk')
  PROVE  DownloadInv'
  <1>1. d \in Seq(ClientMessages)
    OBVIOUS
  <1>2. CASE fault' = "none" /\ missing' = <<>> /\ NoRequest(toServer')
    <2>1. Idle(d, toServer', missing', buffer', upload')
      BY <1>2 DEF Idle
    <2>2. Stage(d, toServer', saveList', missing', buffer', upload', numDownloaded')
      BY <2>1 DEF Stage
    <2> QED BY <1>1, <1>2, <2>2 DEF DownloadInv, StageInv, FaultInv, Running
  <1>3. CASE fault' = "error" /\ Unserved(saveList')
    BY <1>3 DEF DownloadInv, FaultInv, Running
  <1>4. CASE /\ fault' = "none" /\ FirstWaits(saveList') /\ OneRequest(toServer', missing')
             /\ numDownloaded' = 0 => Unserved(saveList') \/ AreItsFiles(saveList', missing')
    <2>1. Asked(d, toServer', saveList', missing', buffer', upload', numDownloaded')
      BY <1>4 DEF Asked
    <2>2. Stage(d, toServer', saveList', missing', buffer', upload', numDownloaded')
      BY <2>1 DEF Stage
    <2> QED BY <1>1, <1>4, <2>2 DEF DownloadInv, StageInv, FaultInv, Running
  <1> QED BY <1>2, <1>3, <1>4 DEF Outcome

\* An answer is no request.
LEMMA PostNoRequest ==
  ASSUME NEW server \in Seq(ServerMessages), NoRequest(server), NEW m, ~Requests(m)
  PROVE  NoRequest(Append(server, m))
  <1> DEFINE u == Append(server, m)
  <1>1. /\ DOMAIN u = 1 .. Len(server) + 1 /\ DOMAIN server = 1 .. Len(server)
        /\ u[Len(server) + 1] = m /\ \A k \in DOMAIN server : u[k] = server[k]
        /\ Len(server) \in Nat
    OBVIOUS
  <1> HIDE DEF u
  <1>2. \A k \in DOMAIN u : k \in DOMAIN server \/ k = Len(server) + 1
    BY <1>1
  <1>3. NoRequest(u)
    BY <1>1, <1>2 DEF NoRequest
  <1> QED BY <1>3 DEF u

LEMMA PostRequest ==
  ASSUME NEW server \in Seq(ServerMessages), NoRequest(server), NEW m, Requests(m),
         NEW files, NamesOf(m.names, files)
  PROVE  OneRequest(Append(server, m), files)
  <1> DEFINE u == Append(server, m)
  <1>1. /\ DOMAIN u = 1 .. Len(server) + 1 /\ DOMAIN server = 1 .. Len(server)
        /\ u[Len(server) + 1] = m /\ \A k \in DOMAIN server : u[k] = server[k]
        /\ Len(server) \in Nat
    OBVIOUS
  <1> HIDE DEF u
  <1>2. \A k \in DOMAIN u : k \in DOMAIN server \/ k = Len(server) + 1
    BY <1>1
  <1>3. OneRequest(u, files)
    <2>1. \A k \in DOMAIN u : k # Len(server) + 1 => ~Requests(u[k])
      BY <1>1, <1>2 DEF NoRequest
    <2>2. Len(server) + 1 \in DOMAIN u
      BY <1>1
    <2> QED BY <1>1, <2>1, <2>2 DEF OneRequest
  <1> QED BY <1>3 DEF u

\* The names are as many of the missing files as one request may hold.
LEMMA RequestFilesAsks ==
  ASSUME NEW files \in Seq(Files), files # <<>>, RequestFiles(files),
         toServer \in Seq(ServerMessages), NoRequest(toServer)
  PROVE  missing' = files /\ OneRequest(toServer', files)
  <1> DEFINE n == Min({Len(files), MaxFileNames})
             names == SubSeq(files, 1, n)
             m == [type |-> "FileDownloadRequest", names |-> names, after |-> delivered']
  <1>1. missing' = files /\ toServer' = Append(toServer, m)
    BY DEF RequestFiles, PostToServer
  <1>2. Len(files) \in Nat /\ Len(files) > 0 /\ MaxFileNames \in Nat /\ MaxFileNames > 0
    BY ConstantFacts
  <1>3. n \in Nat /\ n =< Len(files) /\ n > 0
    <2>1. n \in {Len(files), MaxFileNames}
      BY <1>2, MinNumber
    <2> QED BY <1>2, <2>1, LesserNumber
  <1> HIDE DEF n
  <1>4. Len(names) = n /\ DOMAIN names = 1 .. n /\ \A k \in 1 .. n : names[k] = files[k]
    BY <1>3
  <1>5. NamesOf(names, files)
    <2>1. names # <<>>
      BY <1>3, <1>4
    <2> QED BY <1>3, <1>4, <2>1 DEF NamesOf
  <1> HIDE DEF names
  <1>6. Requests(m) /\ NamesOf(m.names, files)
    BY <1>5 DEF Requests
  <1> HIDE DEF m
  <1> QED BY <1>1, <1>6, PostRequest

\* Of files that are all missing, the first is among those that still are.
LEMMA StillMissingIs ==
  ASSUME NEW files \in Seq(Files), NEW stored, NEW T, T \cap Found(stored) = {},
         files \in Seq(T), files # <<>>
  PROVE  LET left == StillMissing(files, stored)
         IN  left # <<>> /\ \A k \in DOMAIN left : left[k] \in T
  <1> DEFINE lacking == {k \in DOMAIN files : files[k] \notin Found(stored)}
             n == Min(lacking)
             left == SubSeq(files, n, Len(files))
  <1>1. 1 \in lacking /\ lacking \subseteq Nat
    OBVIOUS
  <1>2. n \in lacking
    <2> HIDE DEF lacking
    <2> QED BY <1>1, MinNumber
  <1>3. StillMissing(files, stored) = left
    BY <1>1, Zenon DEF StillMissing
  <1>4. n \in 1 .. Len(files) /\ Len(files) \in Nat
    BY <1>2
  <1> HIDE DEF n, lacking
  <1>5. left # <<>> /\ left \in Seq(T)
    <2>1. left \in Seq(T)
      BY <1>4, PartOfSeq
    <2>2. Len(left) = Len(files) - n + 1
      BY <1>4
    <2>3. Len(left) # 0
      BY <1>4, <2>2
    <2> HIDE DEF left
    <2> QED BY <2>1, <2>3
  <1>6. \A k \in DOMAIN left : left[k] \in T
    <2> HIDE DEF left
    <2> QED BY <1>5
  <1> HIDE DEF left
  <1> QED BY <1>3, <1>5, <1>6

\* The files an object lacks are of those it needs, and the client has none of
\* them.
LEMMA LacksIs ==
  ASSUME NEW obj \in Objects \cup {Placeholder}, NEW stored, Lacks(obj, stored) # <<>>
  PROVE  obj \in Objects /\ Lacks(obj, stored) \in Seq(Range(Needs[obj]) \ Found(stored))
  <1>1. obj \in Objects /\ Lacks(obj, stored) = Excluding(Needs[obj], Found(stored))
    BY DEF Lacks
  <1>2. Needs[obj] \in Seq(Files)
    BY <1>1, SessionConstants
  <1>3. Needs[obj] \in Seq(Range(Needs[obj]))
    BY <1>2 DEF Range
  <1> QED BY <1>1, <1>3, ExcludingType

\* What is asked for when an object of the list lacks files.
LEMMA LoggedIs ==
  ASSUME NEW obj \in Objects \cup {Placeholder}, NEW stored, StoredInv(stored),
         NEW none, none = <<>>,
         NEW logged \in Prefixes(Lacks(obj, stored)), logged # <<>>
  PROVE  LET left == StillMissing(none \o Excluding(logged, Range(none)), stored)
         IN  /\ obj \in Objects /\ left \in Seq(Files) /\ left # <<>>
             /\ \A k \in DOMAIN left : left[k] \in Range(Needs[obj]) \ Held
  <1> DEFINE lacks == Lacks(obj, stored)
             T == Range(Needs[obj]) \ Found(stored)
             all == Excluding(logged, Range(none))
             left == StillMissing(all, stored)
  <1>1. PICK n \in 0 .. Len(lacks) : logged = SubSeq(lacks, 1, n)
    BY DEF Prefixes
  <1>2. lacks # <<>> /\ lacks \in Seq(Files)
    <2>1. lacks \in Seq(Files)
      BY LacksType
    <2> HIDE DEF lacks
    <2>2. lacks = <<>> => SubSeq(lacks, 1, n) = <<>>
      BY <1>1
    <2> QED BY <1>1, <2>1, <2>2
  <1>3. obj \in Objects /\ lacks \in Seq(T)
    BY <1>2, LacksIs
  <1> HIDE DEF lacks, T
  <1>4. logged \in Seq(Files) /\ logged \in Seq(T)
    BY <1>1, <1>2, <1>3
  <1>5. Range(none) = {}
    BY DEF Range
  <1>6. all \in Seq(Files) /\ all \in Seq(T) /\ all # <<>>
    <2> DEFINE S == Range(none)
    <2> HIDE DEF S
    <2>1. S = {}
      BY <1>5 DEF S
    <2>2. Excluding(logged, S) \in Seq(Files) /\ Excluding(logged, S) \in Seq(T)
          /\ Excluding(logged, S) # <<>>
      BY <1>4, <2>1, ExcludingType
    <2> QED BY <2>2 DEF S
  <1>7. none \o all = all
    <2> HIDE DEF all
    <2> QED BY <1>6
  <1> HIDE DEF all
  <1>8. T \cap Found(stored) = {}
    BY DEF T
  <1>9. left \in Seq(Files) /\ left # <<>> /\ \A k \in DOMAIN left : left[k] \in T
    BY <1>6, <1>8, StillMissingIs, StillMissingType
  <1>10. T \subseteq Range(Needs[obj]) \ Held
    <2>1. Held \subseteq Files
      BY SessionConstants
    <2> QED BY <2>1 DEF T, StoredInv, Found
  <1> HIDE DEF left
  <1>11. /\ obj \in Objects /\ left \in Seq(Files) /\ left # <<>>
         /\ \A k \in DOMAIN left : left[k] \in Range(Needs[obj]) \ Held
    BY <1>3, <1>9, <1>10
  <1> QED BY <1>7, <1>11 DEF left, all

\* loadNextGhostAlwaysObject.
LEMMA LoadNextOutcome ==
  ASSUME NEW list \in Seq(Saves), NEW new, NEW none, none = <<>>, NEW seq, NEW num,
         fault = "none", toServer \in Seq(ServerMessages), NoRequest(toServer),
         StoredInv(disk'), new \/ Unserved(list),
         LoadNextGhostAlwaysObject(list, new, none, seq, num)
  PROVE  Outcome(fault', saveList', toServer', missing', numDownloaded')
  <1> DEFINE loads(save) == save # ListEnd /\ Lacks(save.obj, disk') = <<>>
             S == {k \in 0 .. Len(list) : \A j \in 1 .. k : loads(list[j])}
             n == Max(S)
             rest == SubSeq(list, n + 1, Len(list))
             m == [type |-> "ReadyForNormalGhosts", sequence |-> seq, after |-> delivered']
  <1>1. n \in 0 .. Len(list)
    <2>1. Len(list) \in Nat /\ 0 \in S /\ S \subseteq 0 .. Len(list)
      OBVIOUS
    <2> HIDE DEF S
    <2> QED BY <2>1, MaxNumber
  <1>2. \/ /\ rest = <<>>
           /\ missing' = none
           /\ toServer' = toServer /\ fault' = fault
        \/ /\ missing' = none
           /\ toServer' = Append(toServer, m)
           /\ fault' = fault
        \/ /\ rest # <<>> /\ Head(rest) # ListEnd
           /\ saveList' = rest
           /\ \/ /\ n = 0 /\ ~new /\ fault' = "error"
              \/ /\ \E logged \in Prefixes(Lacks(Head(rest).obj, disk')) \ {<<>>} :
                      RequestFiles(StillMissing(none \o Excluding(logged, Range(none)), disk'))
                 /\ fault' = fault
    BY Zenon DEF LoadNextGhostAlwaysObject, PostToServer
  <1> HIDE DEF n
  <1>3. rest \in Seq(Saves) /\ (n = 0 => rest = list)
    BY <1>1
  <1> HIDE DEF rest
  <1>4. CASE missing' = none /\ toServer' = toServer /\ fault' = fault
    BY <1>4 DEF Outcome
  <1>5. CASE missing' = none /\ toServer' = Append(toServer, m) /\ fault' = fault
    <2>1. ~Requests(m)
      BY DEF Requests
    <2> HIDE DEF m
    <2>2. NoRequest(toServer')
      BY <1>5, <2>1, PostNoRequest
    <2> QED BY <1>5, <2>2 DEF Outcome
  <1>6. CASE saveList' = rest /\ n = 0 /\ ~new /\ fault' = "error"
    BY <1>3, <1>6 DEF Outcome
  <1>7. ASSUME rest # <<>>, Head(rest) # ListEnd, saveList' = rest,
               NEW logged \in Prefixes(Lacks(Head(rest).obj, disk')) \ {<<>>},
               RequestFiles(StillMissing(none \o Excluding(logged, Range(none)), disk')),
               fault' = fault
        PROVE  Outcome(fault', saveList', toServer', missing', numDownloaded')
    <2> DEFINE obj == rest[1].obj
               left == StillMissing(none \o Excluding(logged, Range(none)), disk')
    <2>1. rest[1] \in Saves /\ rest[1] # ListEnd /\ Head(rest) = rest[1]
      BY <1>3, <1>7
    <2>2. obj \in Objects \cup {Placeholder}
      BY <2>1, SaveFacts
    <2>3. logged \in Prefixes(Lacks(obj, disk')) /\ logged # <<>>
      BY <1>7, <2>1
    <2> HIDE DEF obj
    <2>4. /\ obj \in Objects /\ left \in Seq(Files) /\ left # <<>>
          /\ \A k \in DOMAIN left : left[k] \in Range(Needs[obj]) \ Held
      BY <2>2, <2>3, LoggedIs
    <2>5. RequestFiles(left)
      BY <1>7
    <2> HIDE DEF left
    <2>6. missing' = left /\ OneRequest(toServer', left)
      BY <2>4, <2>5, RequestFilesAsks
    <2>7. FirstWaits(rest) /\ AreItsFiles(rest, left)
      BY <1>7, <2>1, <2>4 DEF FirstWaits, AreItsFiles, obj
    <2> QED BY <1>7, <2>6, <2>7 DEF Outcome
  <1> QED BY <1>2, <1>4, <1>5, <1>6, <1>7

\* sendNextFileDownloadRequest.
LEMMA SendNextOutcome ==
  ASSUME saveList \in Seq(Saves), NEW files \in Seq(Files), NEW num,
         fault = "none", toServer \in Seq(ServerMessages), NoRequest(toServer),
         StoredInv(disk'), FirstWaits(saveList), num = 0 => Unserved(saveList),
         SendNextFileDownloadRequest(files, num)
  PROVE  Outcome(fault', saveList', toServer', missing', numDownloaded')
  <1> DEFINE left == StillMissing(files, disk')
             new == num # 0
             none == <<>>
  <1>1. left \in Seq(Files)
    BY StillMissingType
  <1>2. \/ /\ left # <<>> /\ RequestFiles(left) /\ numDownloaded' = num
           /\ saveList' = saveList /\ fault' = fault
        \/ LoadNextGhostAlwaysObject(saveList, new, none, clientSequence, num)
    BY DEF SendNextFileDownloadRequest
  <1>3. new \/ Unserved(saveList)
    OBVIOUS
  <1> HIDE DEF left, new
  <1>4. CASE /\ left # <<>> /\ RequestFiles(left) /\ numDownloaded' = num
             /\ saveList' = saveList /\ fault' = fault
    <2>1. missing' = left /\ OneRequest(toServer', left)
      BY <1>1, <1>4, RequestFilesAsks
    <2> QED BY <1>4, <2>1 DEF Outcome
  <1>5. CASE LoadNextGhostAlwaysObject(saveList, new, none, clientSequence, num)
    <2>1. none = <<>>
      OBVIOUS
    <2> HIDE DEF none
    <2> QED BY <1>3, <1>5, <2>1, LoadNextOutcome
  <1> QED BY <1>2, <1>4, <1>5

-----------------------------------------------------------------------------
(* The steps of the client, for what is downloaded.                        *)

DownloadTypes ==
  /\ toClient \in Seq(ClientMessages) /\ toServer \in Seq(ServerMessages)
  /\ upload \in Uploads /\ missing \in Seq(Files) /\ numDownloaded \in Nat
  /\ saveList \in Seq(Saves)
  /\ buffer \in [size : Nat, data : Seq(Chunk), null : BOOLEAN]
  /\ disk \in [Files -> Seq(Chunk)]

LEMMA DownloadTypesHold ==
  ASSUME IInv PROVE DownloadTypes
  BY TypeParts DEF IInv, ChannelTypes, ServerTypes, ClientTypes, DownloadTypes, Uploads

\* The stage a step of the client starts from.
LEMMA StageNow ==
  ASSUME DownloadInv, Running, ~overlapped
  PROVE  /\ fault = "none" /\ StoredInv(disk)
         /\ \E d \in Seq(ClientMessages) :
              /\ AreDownloads(d, toClient)
              /\ Stage(d, toServer, saveList, missing, buffer, upload, numDownloaded)
  BY DEF DownloadInv, StageInv, Running

\* A client that downloads has an object that waits.
LEMMA NobodyWaits ==
  ASSUME NEW d, NEW server, NEW list, NEW files, NEW buf, NEW up, NEW num,
         Stage(d, server, list, files, buf, up, num), ~FirstWaits(list)
  PROVE  Idle(d, server, files, buf, up)
  BY DEF Stage, Asked, Refused, Starting, Receiving

\* What is behind the first object makes no difference.
LEMMA BehindTheFirst ==
  ASSUME NEW d, NEW server, NEW list, NEW files, NEW buf, NEW up, NEW num, NEW later,
         Stage(d, server, list, files, buf, up, num),
         list # <<>> => later # <<>> /\ later[1] = list[1]
  PROVE  Stage(d, server, later, files, buf, up, num)
  <1>1. /\ FirstWaits(list) => FirstWaits(later)
        /\ Unserved(list) => Unserved(later)
        /\ AreItsFiles(list, files) => AreItsFiles(later, files)
    BY DEF FirstWaits, Unserved, AreItsFiles
  <1>2. Asked(d, server, list, files, buf, up, num) => Asked(d, server, later, files, buf, up, num)
    BY <1>1 DEF Asked
  <1>3. \A a : Refused(d, server, list, files, buf, up, num, a) =>
                 Refused(d, server, later, files, buf, up, num, a)
    BY <1>1 DEF Refused
  <1>4. \A a, f : Starting(d, server, list, files, buf, up, a, f) =>
                    Starting(d, server, later, files, buf, up, a, f)
    BY <1>1 DEF Starting
  <1>5. \A r, f : Receiving(d, server, list, files, buf, up, r, f) =>
                    Receiving(d, server, later, files, buf, up, r, f)
    BY <1>1 DEF Receiving
  <1> QED BY <1>2, <1>3, <1>4, <1>5 DEF Stage

\* Something joins the list.
LEMMA PushKeepsDownload ==
  ASSUME IInv, DownloadInv, NEW save \in Saves, NEW seq, Running,
         Rest(toClient', toClient), ~OfDownload(toClient[1]),
         UNCHANGED <<serverVars, buffer, disk, overlapped>>, PushGhostSave(save, seq)
  PROVE  DownloadInv'
  <1>1. DownloadTypes
    BY DownloadTypesHold
  <1>2. UNCHANGED <<upload, buffer, disk, overlapped>>
    BY DEF serverVars, uploadVars
  <1>3. SUFFICES ASSUME ~overlapped PROVE DownloadInv'
    BY <1>2 DEF DownloadInv
  <1>4. fault = "none" /\ StoredInv(disk')
    BY <1>2, <1>3, StageNow
  <1>5. PICK d \in Seq(ClientMessages) :
          /\ AreDownloads(d, toClient)
          /\ Stage(d, toServer, saveList, missing, buffer, upload, numDownloaded)
    BY <1>3, StageNow
  <1>6. AreDownloads(d, toClient')
    BY <1>5, TakeNoDownload
  <1>7. CASE saveList = <<>>
    <2> DEFINE list == <<save>>
               new == TRUE
    <2>1. Idle(d, toServer, missing, buffer, upload)
      <3>1. ~FirstWaits(saveList)
        BY <1>7 DEF FirstWaits
      <3> QED BY <1>5, <3>1, NobodyWaits
    <2>2. list \in Seq(Saves) /\ new
      OBVIOUS
    <2>3. LoadNextGhostAlwaysObject(list, new, missing, seq, numDownloaded)
      BY <1>7 DEF PushGhostSave
    <2> HIDE DEF list, new
    <2>4. Outcome(fault', saveList', toServer', missing', numDownloaded')
      BY <1>1, <1>4, <2>1, <2>2, <2>3, LoadNextOutcome DEF DownloadTypes, Idle
    <2>5. d = <<>> /\ Whole(buffer') /\ Sent(upload')
      BY <1>2, <2>1 DEF Idle
    <2> QED BY <1>4, <1>6, <2>4, <2>5, OutcomeKeeps
  <1>8. CASE saveList # <<>>
    <2>1. saveList' = Append(saveList, save)
          /\ UNCHANGED <<missing, numDownloaded, toServer, fault>>
      BY <1>8 DEF PushGhostSave
    <2>2. saveList' # <<>> /\ saveList'[1] = saveList[1]
      <3> DEFINE list == Append(saveList, save)
      <3>1. /\ saveList \in Seq(Saves) /\ DOMAIN saveList = 1 .. Len(saveList)
            /\ Len(saveList) \in Nat /\ DOMAIN list = 1 .. Len(saveList) + 1
            /\ \A k \in DOMAIN saveList : list[k] = saveList[k]
        BY <1>1, ListAppend DEF DownloadTypes
      <3>2. 1 \in DOMAIN saveList /\ 1 \in DOMAIN list
        BY <1>8, <3>1
      <3>3. list # <<>> /\ list[1] = saveList[1]
        BY <3>1, <3>2
      <3> HIDE DEF list
      <3>4. saveList' = list
        BY <2>1 DEF list
      <3> QED BY <3>3, <3>4
    <2>3. Stage(d, toServer, saveList', missing, buffer, upload, numDownloaded)
      BY <1>5, <2>2, BehindTheFirst
    <2>4. StageInv(toClient', toServer', saveList', missing', buffer', upload', numDownloaded')
      BY <1>2, <1>5, <1>6, <2>1, <2>3 DEF StageInv
    <2> QED BY <1>4, <2>1, <2>4 DEF DownloadInv, FaultInv
  <1> QED BY <1>7, <1>8

LEMMA ObjectKeepsDownload ==
  ASSUME IInv, DownloadInv, GhostAlwaysObject
  PROVE  DownloadInv'
  <1> DEFINE event == Head(toClient)
  <1>1. Process("GhostAlwaysObject") /\ UNCHANGED <<buffer, disk, overlapped>>
    BY DEF GhostAlwaysObject
  <1>2. PICK obj \in {event.obj} \cup (IF event.obj \in alive THEN {} ELSE {Placeholder}) :
           PushGhostSave([obj |-> obj, index |-> event.index], clientSequence)
    BY DEF GhostAlwaysObject
  <1>3. /\ Rest(toClient', toClient) /\ toClient[1].type = "GhostAlwaysObject"
        /\ toClient[1] = event /\ event \in ClientMessages /\ UNCHANGED serverVars
    BY <1>1, Taken
  <1> HIDE DEF event
  <1>4. event.obj \in Objects /\ event.index \in Indices
    BY <1>3, MessageFacts DEF Brings
  <1> DEFINE save == [obj |-> obj, index |-> event.index]
  <1>5. save \in Saves
    BY <1>2, <1>4, MakeSave
  <1>6. PushGhostSave(save, clientSequence)
    BY <1>2
  <1>7. ~OfDownload(toClient[1]) /\ Running
    BY <1>1, <1>3 DEF OfDownload, Process
  <1> HIDE DEF save
  <1> QED BY <1>1, <1>3, <1>5, <1>6, <1>7, PushKeepsDownload

LEMMA DoneKeepsDownload ==
  ASSUME IInv, DownloadInv, GhostAlwaysDone
  PROVE  DownloadInv'
  <1> DEFINE seq == clientSequence'
  <1>1. Process("GhostAlwaysDone") /\ UNCHANGED <<buffer, disk, overlapped>>
        /\ PushGhostSave(ListEnd, seq)
    BY DEF GhostAlwaysDone
  <1>2. /\ Rest(toClient', toClient) /\ toClient[1].type = "GhostAlwaysDone"
        /\ UNCHANGED serverVars
    BY <1>1, Taken
  <1>3. ListEnd \in Saves
    BY DEF Saves
  <1>4. ~OfDownload(toClient[1]) /\ Running
    BY <1>1, <1>2 DEF OfDownload, Process
  <1> HIDE DEF seq
  <1> QED BY <1>1, <1>2, <1>3, <1>4, PushKeepsDownload

\* Ghosting ends while nothing is downloaded.
LEMMA EndKeepsDownload ==
  ASSUME IInv, DownloadInv, EndGhosting
  PROVE  DownloadInv'
  <1>1. /\ Process("EndGhosting") /\ overlapped' = (overlapped \/ Downloading)
        /\ UNCHANGED <<missing, buffer, disk, numDownloaded, toServer, fault>>
    BY DEF EndGhosting, downloadVars
  <1>2. /\ Rest(toClient', toClient) /\ toClient[1].type = "EndGhosting" /\ UNCHANGED upload
        /\ Running
    BY <1>1, Taken DEF serverVars, uploadVars, Process
  <1>3. SUFFICES ASSUME ~overlapped, ~Downloading PROVE DownloadInv'
    <2>1. overlapped \/ Downloading => overlapped' = TRUE
      BY <1>1, Zenon
    <2>2. overlapped' = TRUE => DownloadInv'
      BY DEF DownloadInv
    <2> QED BY <2>1, <2>2
  <1>4. fault = "none" /\ StoredInv(disk) /\ DownloadTypes
    BY <1>2, <1>3, StageNow, DownloadTypesHold
  <1>5. PICK d \in Seq(ClientMessages) :
          /\ AreDownloads(d, toClient)
          /\ Stage(d, toServer, saveList, missing, buffer, upload, numDownloaded)
    BY <1>2, <1>3, StageNow
  <1>6. AreDownloads(d, toClient')
    BY <1>2, <1>5, TakeNoDownload DEF OfDownload
  <1>7. /\ \A k \in DOMAIN toServer : ~Requests(toServer[k])
        /\ \A k \in DOMAIN toClient :
             toClient[k].type \notin {"FileDownloadSize", "SendNextDownloadRequest"}
        /\ ~(Len(buffer.data) < buffer.size)
    BY <1>3 DEF Downloading, Requests
  <1>8. \A i \in DOMAIN d : d[i].type \notin {"FileDownloadSize", "SendNextDownloadRequest"}
    <2> SUFFICES ASSUME NEW i \in DOMAIN d
                 PROVE  d[i].type \notin {"FileDownloadSize", "SendNextDownloadRequest"}
      OBVIOUS
    <2>1. \E k \in DOMAIN toClient : toClient[k] = d[i]
      BY <1>5, DownloadsAreThere
    <2> QED BY <1>7, <2>1
  <1>9. Idle(d, toServer, missing, buffer, upload)
    <2>1. ~Asked(d, toServer, saveList, missing, buffer, upload, numDownloaded)
      BY <1>7 DEF Asked, OneRequest
    <2>2. \A a \in Nat : ~Refused(d, toServer, saveList, missing, buffer, upload, numDownloaded, a)
      <3> SUFFICES ASSUME NEW a \in Nat, Refusal(d, a) PROVE FALSE
        BY DEF Refused
      <3>1. a + 1 \in DOMAIN d
        BY DEF Refusal
      <3> QED BY <1>8, <3>1 DEF Refusal
    <2>3. \A a \in Nat, f \in Files :
            ~Starting(d, toServer, saveList, missing, buffer, upload, a, f)
      <3> SUFFICES ASSUME NEW a \in Nat, NEW f \in Files, Delivery(d, upload, a, f) PROVE FALSE
        BY DEF Starting
      <3>1. a + 1 \in DOMAIN d
        <4> DEFINE n == upload.offset
                   l == Len(d)
        <4>1. n \in Nat /\ l = a + 1 + n /\ DOMAIN d = 1 .. l
          BY <1>4 DEF DownloadTypes, Uploads, Delivery
        <4> HIDE DEF n, l
        <4> QED BY <4>1, ChunkPlaces
      <3>2. d[a + 1].type = "FileDownloadSize"
        BY DEF Delivery
      <3> QED BY <1>8, <3>1, <3>2
    <2>4. \A r \in Nat, f \in Files :
            ~Receiving(d, toServer, saveList, missing, buffer, upload, r, f)
      BY <1>7 DEF Receiving
    <2> QED BY <1>5, <2>1, <2>2, <2>3, <2>4 DEF Stage
  <1>10. Outcome(fault', saveList', toServer', missing', numDownloaded')
    BY <1>1, <1>4, <1>9 DEF Outcome, Idle
  <1>11. d = <<>> /\ Whole(buffer') /\ Sent(upload') /\ StoredInv(disk')
    BY <1>1, <1>2, <1>4, <1>9 DEF Idle
  <1> QED BY <1>6, <1>10, <1>11, OutcomeKeeps

LEMMA TailOfDownload ==
  ASSUME NEW d \in Seq(ClientMessages), d # <<>>
  PROVE  /\ Tail(d) \in Seq(ClientMessages) /\ Len(Tail(d)) = Len(d) - 1
         /\ \A k \in 1 .. Len(d) - 1 : Tail(d)[k] = d[k + 1]
         /\ Len(d) \in Nat /\ Len(d) > 0
         /\ Len(d) = 1 => Tail(d) = <<>>
  <1> DEFINE e == Tail(d)
  <1>1. /\ e \in Seq(ClientMessages) /\ Len(e) = Len(d) - 1
        /\ \A k \in 1 .. Len(d) - 1 : e[k] = d[k + 1]
        /\ Len(d) \in Nat /\ Len(d) > 0
    OBVIOUS
  <1> HIDE DEF e
  <1>2. Len(d) = 1 => e = <<>>
    <2>1. Len(d) = 1 => Len(e) = 0
      BY <1>1
    <2>2. Len(e) = 0 => e = <<>>
      BY <1>1
    <2> QED BY <2>1, <2>2
  <1> QED BY <1>1, <1>2 DEF e

\* The first event of a download is that of its stage.
LEMMA FirstOfStage ==
  ASSUME NEW d \in Seq(ClientMessages), d # <<>>, NEW server, NEW list, NEW files, NEW buf,
         NEW up \in Uploads, NEW num, Stage(d, server, list, files, buf, up, num)
  PROVE  \/ \E a \in Nat :
              /\ Refused(d, server, list, files, buf, up, num, a)
              /\ IF a = 0 THEN d[1].type = "SendNextDownloadRequest" ELSE d[1] = NoSuchFile
         \/ \E a \in Nat, f \in Files :
              /\ Starting(d, server, list, files, buf, up, a, f)
              /\ IF a = 0 THEN d[1] = [type |-> "FileDownloadSize", size |-> Chunks[f]]
                 ELSE d[1] = NoSuchFile
         \/ \E r \in Nat, f \in Files :
              /\ Receiving(d, server, list, files, buf, up, r, f)
              /\ d[1] = ChunkEvent(f, r + 1)
  <1>1. ~Idle(d, server, files, buf, up) /\ ~Asked(d, server, list, files, buf, up, num)
    BY DEF Idle, Asked
  <1>2. ASSUME NEW a \in Nat, Refused(d, server, list, files, buf, up, num, a)
        PROVE  IF a = 0 THEN d[1].type = "SendNextDownloadRequest" ELSE d[1] = NoSuchFile
    <2>1. a = 0 => a + 1 = 1
      OBVIOUS
    <2>2. a # 0 => 1 \in 1 .. a
      OBVIOUS
    <2> QED BY <1>2, <2>1, <2>2 DEF Refused, Refusal
  <1>3. ASSUME NEW a \in Nat, NEW f \in Files, Starting(d, server, list, files, buf, up, a, f)
        PROVE  IF a = 0 THEN d[1] = [type |-> "FileDownloadSize", size |-> Chunks[f]]
               ELSE d[1] = NoSuchFile
    <2>1. a = 0 => a + 1 = 1
      OBVIOUS
    <2>2. a # 0 => 1 \in 1 .. a
      OBVIOUS
    <2> QED BY <1>3, <2>1, <2>2 DEF Starting, Delivery
  <1>4. ASSUME NEW r \in Nat, NEW f \in Files, Receiving(d, server, list, files, buf, up, r, f)
        PROVE  d[1] = ChunkEvent(f, r + 1)
    <2>1. 1 \in 1 .. Len(d)
      OBVIOUS
    <2> QED BY <1>4, <2>1 DEF Receiving
  <1> QED BY <1>1, <1>2, <1>3, <1>4 DEF Stage

\* What it says of the stage.
LEMMA StageOfFirst ==
  ASSUME NEW d \in Seq(ClientMessages), d # <<>>, NEW server, NEW list, NEW files, NEW buf,
         NEW up \in Uploads, NEW num, Stage(d, server, list, files, buf, up, num)
  PROVE  /\ d[1].type = "SendNextDownloadRequest" =>
              Refused(d, server, list, files, buf, up, num, 0)
         /\ d[1].type = "FileDownloadSize" =>
              \E f \in Files : /\ Starting(d, server, list, files, buf, up, 0, f)
                               /\ d[1].size = Chunks[f]
         /\ d[1].type = "FileChunk" =>
              IF d[1].chunk = None
                THEN \E a \in Nat \ {0} :
                       \/ Refused(d, server, list, files, buf, up, num, a)
                       \/ \E f \in Files : Starting(d, server, list, files, buf, up, a, f)
                ELSE \E r \in Nat, f \in Files :
                       /\ Receiving(d, server, list, files, buf, up, r, f)
                       /\ d[1] = ChunkEvent(f, r + 1)
  <1> DEFINE refused ==
               \E a \in Nat :
                 /\ Refused(d, server, list, files, buf, up, num, a)
                 /\ IF a = 0 THEN d[1].type = "SendNextDownloadRequest" ELSE d[1] = NoSuchFile
             starting ==
               \E a \in Nat, f \in Files :
                 /\ Starting(d, server, list, files, buf, up, a, f)
                 /\ IF a = 0 THEN d[1] = [type |-> "FileDownloadSize", size |-> Chunks[f]]
                    ELSE d[1] = NoSuchFile
             receiving ==
               \E r \in Nat, f \in Files : /\ Receiving(d, server, list, files, buf, up, r, f)
                                          /\ d[1] = ChunkEvent(f, r + 1)
  <1>0. refused \/ starting \/ receiving
    BY FirstOfStage
  <1>1. /\ NoSuchFile.type = "FileChunk" /\ NoSuchFile.chunk = None
        /\ \A f \in Files, k \in Nat :
             /\ ChunkEvent(f, k).type = "FileChunk"
             /\ ChunkEvent(f, k).chunk # None
    <2>1. \A f \in Files, k \in Nat : [file |-> f, at |-> k] \in [file : Files, at : Nat]
      OBVIOUS
    <2>2. None \notin [file : Files, at : Nat]
      BY SessionConstants
    <2> QED BY <2>1, <2>2 DEF NoSuchFile, ChunkEvent
  <1>2. CASE refused
    BY <1>1, <1>2
  <1>3. ASSUME NEW a \in Nat, NEW f \in Files,
               Starting(d, server, list, files, buf, up, a, f),
               IF a = 0 THEN d[1] = [type |-> "FileDownloadSize", size |-> Chunks[f]]
                        ELSE d[1] = NoSuchFile
        PROVE  IF a = 0 THEN d[1].type = "FileDownloadSize" /\ d[1].size = Chunks[f]
                        ELSE d[1].type = "FileChunk" /\ d[1].chunk = None
    BY <1>1, <1>3
  <1>4. ASSUME NEW r \in Nat, NEW f \in Files, d[1] = ChunkEvent(f, r + 1)
        PROVE  d[1].type = "FileChunk" /\ d[1].chunk # None
    <2>1. r + 1 \in Nat
      OBVIOUS
    <2> QED BY <1>1, <1>4, <2>1
  <1>5. CASE starting
    <2>1. PICK a \in Nat, f \in Files :
               /\ Starting(d, server, list, files, buf, up, a, f)
               /\ IF a = 0 THEN d[1] = [type |-> "FileDownloadSize", size |-> Chunks[f]]
                  ELSE d[1] = NoSuchFile
      BY <1>5
    <2>2. IF a = 0 THEN d[1].type = "FileDownloadSize" /\ d[1].size = Chunks[f]
                   ELSE d[1].type = "FileChunk" /\ d[1].chunk = None
      BY <1>3, <2>1
    <2> QED BY <2>1, <2>2
  <1>6. CASE receiving
    BY <1>4, <1>6
  <1> HIDE DEF refused, starting, receiving
  <1> QED BY <1>0, <1>2, <1>5, <1>6

LEMMA StageOfChunk ==
  ASSUME NEW d \in Seq(ClientMessages), d # <<>>, NEW server, NEW list, NEW files, NEW buf,
         NEW up \in Uploads, NEW num, Stage(d, server, list, files, buf, up, num),
         d[1].type = "FileChunk", d[1].chunk # None
  PROVE  \E r \in Nat, f \in Files : /\ Receiving(d, server, list, files, buf, up, r, f)
                                     /\ d[1] = ChunkEvent(f, r + 1)
  <1> DEFINE receiving == \E r \in Nat, f \in Files :
                            /\ Receiving(d, server, list, files, buf, up, r, f)
                            /\ d[1] = ChunkEvent(f, r + 1)
             others == \E a \in Nat \ {0} :
                         \/ Refused(d, server, list, files, buf, up, num, a)
                         \/ \E f \in Files : Starting(d, server, list, files, buf, up, a, f)
  <1>1. d[1].type = "FileChunk" => IF d[1].chunk = None THEN others ELSE receiving
    BY StageOfFirst
  <1> HIDE DEF receiving, others
  <1>2. receiving
    BY <1>1
  <1> QED BY <1>2 DEF receiving

\* The client takes an event of a download.
LEMMA TakesDownload ==
  ASSUME IInv, DownloadInv, ~overlapped,
         NEW type \in {"FileDownloadSize", "SendNextDownloadRequest", "FileChunk"}, Process(type)
  PROVE  /\ DownloadTypes /\ fault = "none" /\ StoredInv(disk) /\ UNCHANGED upload
         /\ \E d \in Seq(ClientMessages) :
              /\ d # <<>> /\ d[1] = Head(toClient) /\ d[1].type = type
              /\ Stage(d, toServer, saveList, missing, buffer, upload, numDownloaded)
              /\ Tail(d) \in Seq(ClientMessages) /\ AreDownloads(Tail(d), toClient')
  <1>1. /\ Rest(toClient', toClient) /\ toClient[1].type = type /\ toClient[1] = Head(toClient)
        /\ UNCHANGED upload /\ Running
    BY Taken DEF serverVars, uploadVars, Process
  <1>2. OfDownload(toClient[1])
    BY <1>1 DEF OfDownload
  <1>3. PICK d \in Seq(ClientMessages) :
          /\ AreDownloads(d, toClient)
          /\ Stage(d, toServer, saveList, missing, buffer, upload, numDownloaded)
    BY <1>1, StageNow
  <1>4. d # <<>> /\ d[1] = toClient[1] /\ Tail(d) \in Seq(ClientMessages)
        /\ AreDownloads(Tail(d), toClient')
    BY <1>1, <1>2, <1>3, TakeDownload
  <1> QED BY <1>1, <1>3, <1>4, StageNow, DownloadTypesHold

LEMMA SendNextKeepsDownload ==
  ASSUME IInv, DownloadInv, SendNextDownloadRequest
  PROVE  DownloadInv'
  <1>1. /\ Process("SendNextDownloadRequest") /\ UNCHANGED <<buffer, disk, overlapped>>
        /\ SendNextFileDownloadRequest(missing, numDownloaded)
    BY DEF SendNextDownloadRequest
  <1>2. SUFFICES ASSUME ~overlapped PROVE DownloadInv'
    BY <1>1 DEF DownloadInv
  <1>3. DownloadTypes /\ fault = "none" /\ StoredInv(disk) /\ UNCHANGED upload
    BY <1>1, <1>2, TakesDownload
  <1>4. PICK d \in Seq(ClientMessages) :
          /\ d # <<>> /\ d[1].type = "SendNextDownloadRequest"
          /\ Stage(d, toServer, saveList, missing, buffer, upload, numDownloaded)
          /\ Tail(d) \in Seq(ClientMessages) /\ AreDownloads(Tail(d), toClient')
    BY <1>1, <1>2, TakesDownload
  <1>5. Refused(d, toServer, saveList, missing, buffer, upload, numDownloaded, 0)
    <2>1. upload \in Uploads
      BY <1>3 DEF DownloadTypes
    <2> QED BY <1>4, <2>1, StageOfFirst
  <1>6. Tail(d) = <<>>
    <2>1. Len(d) = 1
      BY <1>5 DEF Refused, Refusal
    <2> QED BY <1>4, <2>1, TailOfDownload
  <1>7. Outcome(fault', saveList', toServer', missing', numDownloaded')
    <2> DEFINE files == missing
               num == numDownloaded
    <2>1. /\ saveList \in Seq(Saves) /\ files \in Seq(Files) /\ toServer \in Seq(ServerMessages)
          /\ SendNextFileDownloadRequest(files, num) /\ StoredInv(disk')
      BY <1>1, <1>3 DEF DownloadTypes
    <2>2. NoRequest(toServer) /\ FirstWaits(saveList) /\ (num = 0 => Unserved(saveList))
      BY <1>5 DEF Refused
    <2> HIDE DEF files, num
    <2> QED BY <1>3, <2>1, <2>2, SendNextOutcome
  <1>8. Whole(buffer') /\ Sent(upload') /\ StoredInv(disk')
    BY <1>1, <1>3, <1>5 DEF Refused
  <1> DEFINE e == Tail(d)
  <1>9. e = <<>> /\ AreDownloads(e, toClient')
    BY <1>4, <1>6
  <1> HIDE DEF e
  <1> QED BY <1>7, <1>8, <1>9, OutcomeKeeps

LEMMA SizeKeepsDownload ==
  ASSUME IInv, DownloadInv, FileDownloadSize
  PROVE  DownloadInv'
  <1>1. /\ Process("FileDownloadSize")
        /\ buffer' = [size |-> Head(toClient).size, data |-> <<>>, null |-> FALSE]
        /\ UNCHANGED <<saveList, missing, disk, numDownloaded, overlapped, toServer, fault>>
    BY DEF FileDownloadSize
  <1>2. SUFFICES ASSUME ~overlapped PROVE DownloadInv'
    BY <1>1 DEF DownloadInv
  <1>3. DownloadTypes /\ fault = "none" /\ StoredInv(disk) /\ UNCHANGED upload
    BY <1>1, <1>2, TakesDownload
  <1>4. PICK d \in Seq(ClientMessages) :
          /\ d # <<>> /\ d[1] = Head(toClient) /\ d[1].type = "FileDownloadSize"
          /\ Stage(d, toServer, saveList, missing, buffer, upload, numDownloaded)
          /\ Tail(d) \in Seq(ClientMessages) /\ AreDownloads(Tail(d), toClient')
    BY <1>1, <1>2, TakesDownload
  <1>5. upload \in Uploads
    BY <1>3 DEF DownloadTypes
  <1>6. PICK f \in Files :
          /\ Starting(d, toServer, saveList, missing, buffer, upload, 0, f)
          /\ d[1].size = Chunks[f]
    BY <1>4, <1>5, StageOfFirst
  <1>7. buffer' = [size |-> Chunks[f], data |-> <<>>, null |-> FALSE]
    BY <1>1, <1>4, <1>6
  <1> DEFINE e == Tail(d)
             n == upload.offset
  <1>8. /\ n \in Nat /\ Len(d) = 1 + n
        /\ \A k \in 1 .. n : d[1 + k] = ChunkEvent(f, k)
        /\ missing[1] = f /\ missing # <<>> /\ Sends(upload, f) /\ NoRequest(toServer)
        /\ FirstWaits(saveList)
    <2>1. upload.offset \in Nat /\ 0 + 1 = 1
      BY <1>5 DEF Uploads
    <2>2. Delivery(d, upload, 0, f) /\ 1 =< Len(missing) /\ missing[1] = f
      BY <1>6, <2>1 DEF Starting
    <2>3. missing # <<>>
      BY <2>2
    <2> QED BY <1>6, <2>1, <2>2, <2>3 DEF Delivery, Starting
  <1> HIDE DEF n
  <1>9. Len(e) = n /\ \A k \in 1 .. n : e[k] = ChunkEvent(f, k)
    <2>1. /\ Len(e) = Len(d) - 1
          /\ \A k \in 1 .. Len(d) - 1 : e[k] = d[k + 1]
      BY <1>4, TailOfDownload
    <2> HIDE DEF e
    <2>2. Len(e) = n /\ \A k \in 1 .. n : e[k] = d[k + 1] /\ k + 1 = 1 + k
      BY <1>8, <2>1
    <2> QED BY <1>8, <2>2
  <1> HIDE DEF e
  <1>10. Receiving(e, toServer, saveList, missing, buffer', upload, 0, f)
    <2>1. Chunks[f] \in Nat /\ Chunks[f] > 0
      BY SessionConstants
    <2>2. /\ buffer'.size = Chunks[f] /\ ~buffer'.null /\ buffer'.data = <<>>
      BY <1>7
    <2>3. Len(buffer'.data) = 0 /\ 0 < buffer'.size /\ 1 .. 0 = {}
      BY <2>1, <2>2
    <2>4. 0 =< n /\ Len(e) = n - 0 /\ \A k \in 1 .. Len(e) : e[k] = ChunkEvent(f, 0 + k)
      BY <1>8, <1>9
    <2> QED BY <1>8, <2>2, <2>3, <2>4 DEF Receiving, n
  <1>11. Stage(e, toServer, saveList, missing, buffer', upload, numDownloaded)
    BY <1>10 DEF Stage
  <1>12. e \in Seq(ClientMessages) /\ AreDownloads(e, toClient')
    BY <1>4 DEF e
  <1>13. StageInv(toClient', toServer', saveList', missing', buffer', upload', numDownloaded')
    BY <1>1, <1>3, <1>11, <1>12 DEF StageInv
  <1> QED BY <1>1, <1>3, <1>13 DEF DownloadInv, FaultInv

\* One file less is to be told that the server has not got it.
LEMMA OneRefusalLess ==
  ASSUME NEW d \in Seq(ClientMessages), d # <<>>, NEW files \in Seq(Files),
         NEW a \in Nat \ {0}, NEW b, b = a - 1, a =< Len(files)
  PROVE  /\ files # <<>> /\ b \in Nat /\ b =< Len(Tail(files))
         /\ Refusal(d, a) => Refusal(Tail(d), b)
         /\ \A up \in Uploads : \A f : Delivery(d, up, a, f) => Delivery(Tail(d), up, b, f)
         /\ \A f : a + 1 =< Len(files) /\ files[a + 1] = f =>
                     b + 1 =< Len(Tail(files)) /\ Tail(files)[b + 1] = f
  <1> DEFINE e == Tail(d)
             l == Len(d)
             rest == Tail(files)
             m == Len(files)
  <1>1. /\ e \in Seq(ClientMessages) /\ Len(e) = l - 1 /\ l \in Nat /\ l > 0
        /\ \A k \in 1 .. l - 1 : e[k] = d[k + 1]
    BY TailOfDownload
  <1>2. /\ m \in Nat /\ a =< m /\ a \in Nat /\ a > 0 /\ b = a - 1 /\ b \in Nat /\ a = b + 1
    OBVIOUS
  <1>3. files # <<>>
    BY <1>2
  <1>4. Len(rest) = m - 1 /\ \A k \in 1 .. m - 1 : rest[k] = files[k + 1]
    BY <1>3
  <1> HIDE DEF e, l, rest, m
  <1>5. b =< Len(rest)
    BY <1>2, <1>4
  <1>6. ASSUME Refusal(d, a) PROVE Refusal(e, b)
    <2>1. l = a + 1 /\ d[a + 1].type = "SendNextDownloadRequest"
          /\ \A k \in 1 .. a : d[k] = NoSuchFile
      BY <1>6 DEF Refusal, l
    <2>2. Len(e) = b + 1 /\ b + 1 \in 1 .. l - 1 /\ b + 1 = a
      BY <1>1, <1>2, <2>1
    <2>3. e[b + 1] = d[a + 1]
      BY <1>1, <2>2
    <2>4. \A k \in 1 .. b : k \in 1 .. l - 1 /\ k + 1 \in 1 .. a
      BY <1>2, <2>1
    <2>5. \A k \in 1 .. b : e[k] = NoSuchFile
      BY <1>1, <2>1, <2>4
    <2> QED BY <2>1, <2>2, <2>3, <2>5 DEF Refusal
  <1>7. ASSUME NEW up \in Uploads, NEW f, Delivery(d, up, a, f) PROVE Delivery(e, up, b, f)
    <2> DEFINE n == up.offset
    <2>1. /\ l = a + 1 + n /\ \A k \in 1 .. a : d[k] = NoSuchFile
          /\ d[a + 1] = [type |-> "FileDownloadSize", size |-> Chunks[f]]
          /\ \A k \in 1 .. n : d[a + 1 + k] = ChunkEvent(f, k)
      BY <1>7 DEF Delivery, l
    <2>2. n \in Nat
      BY DEF Uploads
    <2> HIDE DEF n
    <2>3. /\ Len(e) = b + 1 + n /\ b + 1 \in 1 .. l - 1 /\ b + 1 = a
          /\ \A k \in 1 .. b : k \in 1 .. l - 1 /\ k + 1 \in 1 .. a
          /\ \A k \in 1 .. n : b + 1 + k \in 1 .. l - 1 /\ (b + 1 + k) + 1 = a + 1 + k
      <3>1. l = a + 1 + n
        BY <2>1
      <3> QED BY <1>1, <1>2, <2>2, <3>1
    <2>4. e[b + 1] = d[a + 1]
      BY <1>1, <2>3
    <2>5. \A k \in 1 .. b : e[k] = NoSuchFile
      BY <1>1, <2>1, <2>3
    <2>6. \A k \in 1 .. n : e[b + 1 + k] = ChunkEvent(f, k)
      <3> SUFFICES ASSUME NEW k \in 1 .. n PROVE e[b + 1 + k] = ChunkEvent(f, k)
        OBVIOUS
      <3>1. e[b + 1 + k] = d[(b + 1 + k) + 1] /\ (b + 1 + k) + 1 = a + 1 + k
        BY <1>1, <2>3
      <3> QED BY <2>1, <3>1
    <2> QED BY <2>1, <2>3, <2>4, <2>5, <2>6 DEF Delivery, n
  <1>8. ASSUME NEW f, a + 1 =< m, files[a + 1] = f PROVE b + 1 =< Len(rest) /\ rest[b + 1] = f
    <2>1. b + 1 =< m - 1 /\ b + 1 \in 1 .. m - 1 /\ (b + 1) + 1 = a + 1
      BY <1>2, <1>8
    <2> QED BY <1>4, <1>8, <2>1
  <1> QED BY <1>2, <1>3, <1>5, <1>6, <1>7, <1>8 DEF e, rest, m

LEMMA EmptyKeepsDownload ==
  ASSUME IInv, DownloadInv, EmptyChunk
  PROVE  DownloadInv'
  <1>1. /\ Process("FileChunk") /\ Head(toClient).chunk = None
        /\ buffer' = [buffer EXCEPT !.null = TRUE]
        /\ missing # <<>> => missing' = Tail(missing) /\ fault' = fault
        /\ UNCHANGED <<saveList, disk, numDownloaded, toServer, overlapped>>
    BY DEF EmptyChunk, ChunkReceived
  <1>2. SUFFICES ASSUME ~overlapped PROVE DownloadInv'
    BY <1>1 DEF DownloadInv
  <1>3. DownloadTypes /\ fault = "none" /\ StoredInv(disk) /\ UNCHANGED upload
    BY <1>1, <1>2, TakesDownload
  <1>4. PICK d \in Seq(ClientMessages) :
          /\ d # <<>> /\ d[1] = Head(toClient) /\ d[1].type = "FileChunk"
          /\ Stage(d, toServer, saveList, missing, buffer, upload, numDownloaded)
          /\ Tail(d) \in Seq(ClientMessages) /\ AreDownloads(Tail(d), toClient')
    BY <1>1, <1>2, TakesDownload
  <1>5. upload \in Uploads /\ missing \in Seq(Files) /\ Len(missing) \in Nat
    BY <1>3 DEF DownloadTypes
  <1>6. PICK a \in Nat \ {0} :
          \/ Refused(d, toServer, saveList, missing, buffer, upload, numDownloaded, a)
          \/ \E f \in Files : Starting(d, toServer, saveList, missing, buffer, upload, a, f)
    BY <1>1, <1>4, <1>5, StageOfFirst
  <1> DEFINE b == a - 1
             e == Tail(d)
             rest == Tail(missing)
  <1>7. a =< Len(missing)
    BY <1>5, <1>6 DEF Refused, Starting
  <1>8. /\ missing # <<>> /\ b \in Nat /\ b =< Len(rest)
        /\ Refusal(d, a) => Refusal(e, b)
        /\ \A up \in Uploads : \A f : Delivery(d, up, a, f) => Delivery(e, up, b, f)
        /\ \A f : a + 1 =< Len(missing) /\ missing[a + 1] = f =>
                    b + 1 =< Len(rest) /\ rest[b + 1] = f
    BY <1>4, <1>5, <1>7, OneRefusalLess
  <1> HIDE DEF b, e
  <1>9. missing' = rest /\ fault' = fault
    BY <1>1, <1>8
  <1> HIDE DEF rest
  <1>10. Whole(buffer) => Whole(buffer')
    BY <1>1, <1>3 DEF Whole, DownloadTypes
  <1>11. Stage(e, toServer, saveList, rest, buffer', upload, numDownloaded)
    <2>1. CASE Refused(d, toServer, saveList, missing, buffer, upload, numDownloaded, a)
      <3>1. Refused(e, toServer, saveList, rest, buffer', upload, numDownloaded, b)
        BY <1>8, <1>10, <2>1 DEF Refused
      <3> QED BY <1>8, <3>1 DEF Stage
    <2>2. ASSUME NEW f \in Files, Starting(d, toServer, saveList, missing, buffer, upload, a, f)
          PROVE  Stage(e, toServer, saveList, rest, buffer', upload, numDownloaded)
      <3>1. Starting(e, toServer, saveList, rest, buffer', upload, b, f)
        BY <1>5, <1>8, <1>10, <2>2 DEF Starting
      <3> QED BY <1>8, <3>1 DEF Stage
    <2> QED BY <1>6, <2>1, <2>2
  <1>12. e \in Seq(ClientMessages) /\ AreDownloads(e, toClient')
    BY <1>4 DEF e
  <1>13. StageInv(toClient', toServer', saveList', missing', buffer', upload', numDownloaded')
    BY <1>1, <1>3, <1>9, <1>11, <1>12 DEF StageInv
  <1> QED BY <1>1, <1>3, <1>9, <1>13 DEF DownloadInv, FaultInv

\* A file whose chunks have all come is whole.
LEMMA FileIsFull ==
  ASSUME NEW f \in Files, NEW data \in Seq(Chunk), Len(data) = Chunks[f],
         \A k \in 1 .. Chunks[f] : data[k] = [file |-> f, at |-> k]
  PROVE  data = FullFile(f)
  <1>1. data = [k \in 1 .. Chunks[f] |-> data[k]]
    OBVIOUS
  <1> QED BY <1>1 DEF FullFile

LEMMA ChunkKeepsDownload ==
  ASSUME IInv, DownloadInv, FileChunk
  PROVE  DownloadInv'
  <1> DEFINE data == Append(buffer.data, Head(toClient).chunk)
             wild == buffer.null \/ missing = <<>>
  <1>1. /\ Process("FileChunk") /\ Head(toClient).chunk # None /\ UNCHANGED overlapped
        /\ \/ Len(data) > buffer.size \/ wild
           \/ /\ Len(data) < buffer.size /\ ~wild
              /\ buffer' = [buffer EXCEPT !.data = data]
              /\ UNCHANGED <<missing, disk, numDownloaded, saveList, toServer, fault>>
           \/ /\ Len(data) = buffer.size /\ ~wild
              /\ buffer' = [buffer EXCEPT !.data = data, !.null = TRUE]
              /\ disk' = [disk EXCEPT ![Head(missing)] = data]
              /\ SendNextFileDownloadRequest(Tail(missing), numDownloaded + 1)
    BY DEF FileChunk, ChunkReceived
  <1>2. SUFFICES ASSUME ~overlapped PROVE DownloadInv'
    BY <1>1 DEF DownloadInv
  <1>3. DownloadTypes /\ fault = "none" /\ StoredInv(disk) /\ UNCHANGED upload
    BY <1>1, <1>2, TakesDownload
  <1>4. PICK d \in Seq(ClientMessages) :
          /\ d # <<>> /\ d[1] = Head(toClient) /\ d[1].type = "FileChunk"
          /\ Stage(d, toServer, saveList, missing, buffer, upload, numDownloaded)
          /\ Tail(d) \in Seq(ClientMessages) /\ AreDownloads(Tail(d), toClient')
    BY <1>1, <1>2, TakesDownload
  <1>5. /\ upload \in Uploads /\ missing \in Seq(Files) /\ saveList \in Seq(Saves)
        /\ buffer \in [size : Nat, data : Seq(Chunk), null : BOOLEAN]
        /\ disk \in [Files -> Seq(Chunk)] /\ toServer \in Seq(ServerMessages)
        /\ numDownloaded \in Nat
    BY <1>3 DEF DownloadTypes
  <1>6. PICK r \in Nat, f \in Files :
          /\ Receiving(d, toServer, saveList, missing, buffer, upload, r, f)
          /\ d[1] = ChunkEvent(f, r + 1)
    <2>1. d[1].chunk # None /\ upload \in Uploads
      BY <1>1, <1>4, <1>5
    <2>2. \E r \in Nat, f \in Files :
            /\ Receiving(d, toServer, saveList, missing, buffer, upload, r, f)
            /\ d[1] = ChunkEvent(f, r + 1)
      BY <1>4, <2>1, StageOfChunk
    <2> QED BY <2>2
  <1> DEFINE e == Tail(d)
             n == upload.offset
             size == Chunks[f]
             old == buffer.data
             l == Len(d)
  <1>7. /\ r =< n /\ l = n - r /\ \A k \in 1 .. l : d[k] = ChunkEvent(f, r + k)
        /\ buffer.size = size /\ ~buffer.null /\ Len(old) = r /\ r < size
        /\ \A k \in 1 .. r : old[k] = [file |-> f, at |-> k]
        /\ missing # <<>> /\ missing[1] = f
        /\ NoRequest(toServer) /\ Sends(upload, f) /\ FirstWaits(saveList)
    BY <1>6 DEF Receiving
  <1>8. /\ e \in Seq(ClientMessages) /\ Len(e) = l - 1 /\ l \in Nat /\ l > 0
        /\ \A k \in 1 .. l - 1 : e[k] = d[k + 1]
        /\ l = 1 => e = <<>>
    BY <1>4, TailOfDownload
  <1>9. n \in Nat /\ size \in Nat /\ upload.size = size /\ n =< size
    <2>1. upload.offset \in Nat /\ Chunks[f] \in Nat
      BY <1>5, SessionConstants DEF Uploads
    <2> QED BY <1>7, <2>1 DEF Sends
  <1>10. /\ data \in Seq(Chunk) /\ Len(data) = r + 1
         /\ \A k \in 1 .. r + 1 : data[k] = [file |-> f, at |-> k]
    <2> DEFINE chunk == [file |-> f, at |-> r + 1]
    <2>1. chunk \in Chunk
      BY DEF Chunk
    <2>2. old \in Seq(Chunk) /\ Len(old) = r
      BY <1>5, <1>7
    <2>3. data = Append(old, chunk)
      <3>1. d[1].chunk = chunk
        BY <1>6 DEF ChunkEvent
      <3> HIDE DEF chunk
      <3> QED BY <1>4, <3>1
    <2> HIDE DEF data, old, chunk
    <2>4. /\ data \in Seq(Chunk) /\ Len(data) = r + 1 /\ data[r + 1] = chunk
          /\ \A k \in 1 .. r : data[k] = old[k]
      BY <2>1, <2>2, <2>3
    <2>5. \A k \in 1 .. r + 1 : k \in 1 .. r \/ k = r + 1
      OBVIOUS
    <2> QED BY <1>7, <2>4, <2>5 DEF chunk
  <1> HIDE DEF data, old, e, l, n, size
  <1>11. ~(Len(data) > buffer.size \/ wild)
    BY <1>7, <1>9, <1>10
  <1>12. CASE /\ Len(data) < buffer.size /\ ~wild
              /\ buffer' = [buffer EXCEPT !.data = data]
              /\ UNCHANGED <<missing, disk, numDownloaded, saveList, toServer, fault>>
    <2>1. buffer'.size = size /\ buffer'.data = data /\ ~buffer'.null
      BY <1>5, <1>7, <1>12
    <2>2. r + 1 \in Nat /\ r + 1 < size /\ r + 1 =< n /\ Len(e) = n - (r + 1)
      BY <1>7, <1>8, <1>9, <1>10, <1>12
    <2>3. \A k \in 1 .. Len(e) : e[k] = ChunkEvent(f, (r + 1) + k)
      <3> SUFFICES ASSUME NEW k \in 1 .. Len(e) PROVE e[k] = ChunkEvent(f, (r + 1) + k)
        OBVIOUS
      <3>1. k \in 1 .. l - 1 /\ k + 1 \in 1 .. l /\ r + (k + 1) = (r + 1) + k
        BY <1>8
      <3> QED BY <1>7, <1>8, <3>1
    <2>4. Receiving(e, toServer, saveList, missing, buffer', upload, r + 1, f)
      BY <1>7, <1>10, <2>1, <2>2, <2>3 DEF Receiving, n, size
    <2>5. Stage(e, toServer, saveList, missing, buffer', upload, numDownloaded)
      BY <2>2, <2>4 DEF Stage
    <2>6. AreDownloads(e, toClient')
      BY <1>4 DEF e
    <2>7. StageInv(toClient', toServer', saveList', missing', buffer', upload', numDownloaded')
      BY <1>3, <1>8, <1>12, <2>5, <2>6 DEF StageInv
    <2> QED BY <1>3, <1>12, <2>7 DEF DownloadInv, FaultInv
  <1>13. CASE /\ Len(data) = buffer.size /\ ~wild
              /\ buffer' = [buffer EXCEPT !.data = data, !.null = TRUE]
              /\ disk' = [disk EXCEPT ![Head(missing)] = data]
              /\ SendNextFileDownloadRequest(Tail(missing), numDownloaded + 1)
    <2>1. r + 1 = size /\ n = size /\ l = 1
      BY <1>7, <1>8, <1>9, <1>10, <1>13
    <2>2. data = FullFile(f)
      BY <1>10, <2>1, FileIsFull DEF size
    <2>3. StoredInv(disk')
      <3>1. disk' = [disk EXCEPT ![f] = FullFile(f)]
        <4>1. Head(missing) = f
          BY <1>5, <1>7
        <4>2. disk' = [disk EXCEPT ![Head(missing)] = data]
          BY <1>13
        <4> QED BY <2>2, <4>1, <4>2
      <3>2. FullFile(f) # <<>>
        <4>1. Chunks[f] \in Nat \ {0}
          BY SessionConstants
        <4>2. Len(FullFile(f)) = Chunks[f]
          BY <4>1 DEF FullFile
        <4> QED BY <4>1, <4>2
      <3>3. Held \subseteq Files
        BY SessionConstants
      <3> QED BY <1>3, <1>5, <3>1, <3>2, <3>3 DEF StoredInv
    <2>4. Whole(buffer') /\ Sent(upload')
      <3>1. buffer'.size = size /\ buffer'.data = data
        BY <1>5, <1>7, <1>13
      <3> QED BY <1>3, <1>9, <1>10, <2>1, <3>1 DEF Whole, Sent, n
    <2> DEFINE files == Tail(missing)
               num == numDownloaded + 1
    <2>5. files \in Seq(Files) /\ num # 0 /\ SendNextFileDownloadRequest(files, num)
      BY <1>5, <1>7, <1>13
    <2> HIDE DEF files, num
    <2>6. Outcome(fault', saveList', toServer', missing', numDownloaded')
      BY <1>3, <1>5, <1>7, <2>3, <2>5, SendNextOutcome
    <2>7. e = <<>> /\ AreDownloads(e, toClient')
      BY <1>4, <1>8, <2>1 DEF e
    <2> QED BY <2>3, <2>4, <2>6, <2>7, OutcomeKeeps
  <1> HIDE DEF wild
  <1> QED BY <1>1, <1>11, <1>12, <1>13

LEMMA InitDownload == Init => DownloadInv
  <1> SUFFICES ASSUME Init PROVE DownloadInv
    OBVIOUS
  <1> DEFINE d == <<>>
  <1>1. /\ toClient = <<>> /\ toServer = <<>> /\ saveList = <<>> /\ missing = <<>>
        /\ upload = [file |-> None, size |-> 0, offset |-> 0]
        /\ buffer = [size |-> 0, data |-> <<>>, null |-> TRUE]
        /\ disk = [f \in Files |-> IF f \in Held THEN FullFile(f) ELSE <<>>]
        /\ numDownloaded = 0 /\ fault = "none"
    BY DEF Init
  <1>2. StoredInv(disk)
    <2>1. Held \subseteq Files
      BY SessionConstants
    <2>2. \A f \in Files : FullFile(f) # <<>>
      <3> SUFFICES ASSUME NEW f \in Files PROVE FullFile(f) # <<>>
        OBVIOUS
      <3>1. Chunks[f] \in Nat \ {0}
        BY SessionConstants
      <3>2. Len(FullFile(f)) = Chunks[f]
        BY FullFileType
      <3> QED BY <3>1, <3>2
    <2> QED BY <1>1, <2>1, <2>2 DEF StoredInv
  <1>3. Idle(d, toServer, missing, buffer, upload)
    <2>1. NoRequest(toServer)
      BY <1>1 DEF NoRequest
    <2>2. Whole(buffer) /\ Sent(upload)
      BY <1>1 DEF Whole, Sent
    <2> QED BY <1>1, <2>1, <2>2 DEF Idle
  <1>4. AreDownloads(d, toClient)
    <2>1. Places(d, d, toClient)
      BY <1>1 DEF Places
    <2> QED BY <2>1, PlacesGiven
  <1>5. d \in Seq(ClientMessages)
    OBVIOUS
  <1> HIDE DEF d
  <1>6. StageInv(toClient, toServer, saveList, missing, buffer, upload, numDownloaded)
    BY <1>3, <1>4, <1>5 DEF StageInv, Stage
  <1> QED BY <1>1, <1>2, <1>6 DEF DownloadInv, FaultInv

LEMMA NextDownload == IInv /\ DownloadInv /\ [Next]_vars => DownloadInv'
  <1> SUFFICES ASSUME IInv, DownloadInv, [Next]_vars PROVE DownloadInv'
    OBVIOUS
  <1>1. CASE ActivateGhosting \/ ResetGhosting
    BY <1>1, ActivateKeepsDownload, ResetKeepsDownload
  <1>2. ASSUME NEW o \in Objects, DeleteObject(o) \/ SetScopeAlways(o) \/ ClearScopeAlways(o)
        PROVE  DownloadInv'
    <2>1. UNCHANGED <<uploadVars, toClient, toServer, clientVars, fault>>
      BY <1>2 DEF DeleteObject, SetScopeAlways, ClearScopeAlways
    <2> QED BY <2>1, ScopeKeepsDownload
  <1>3. CASE ServerProcesses \/ ChunkNotified
    BY <1>3, RequestKeepsDownload, ReadyKeepsDownload, ChunkNotifiedKeepsDownload
    DEF ServerProcesses
  <1>4. CASE ClientProcesses
    BY <1>4, ObjectKeepsDownload, DoneKeepsDownload, EndKeepsDownload, SendNextKeepsDownload,
       SizeKeepsDownload, EmptyKeepsDownload, ChunkKeepsDownload
    DEF ClientProcesses
  <1>5. CASE UNCHANGED vars
    <2>1. UNCHANGED <<uploadVars, toClient, toServer, clientVars, fault>>
      BY <1>5 DEF vars, clientVars, uploadVars, downloadVars
    <2> QED BY <2>1, ScopeKeepsDownload
  <1> QED BY <1>1, <1>2, <1>3, <1>4, <1>5 DEF Next

\* The inductive invariant of the downloads.
THEOREM DownloadInvariant == Spec => []DownloadInv
  BY InitDownload, NextDownload, SessionInvariant, PTL DEF Spec

\* As long as ghosting is never ended during a download: whatever the client
\* stores under a name is that file as a whole, the client never reads a name or a
\* buffer it has not got (chunkReceived), the server never a file it has closed
\* (sendFileChunk), and the client is turned away only for an object that needs a
\* file the server has not got.
THEOREM DownloadsCorrect == Spec => []DownloadsAreSound
  <1>1. DownloadInv => DownloadsAreSound
    <2> SUFFICES ASSUME DownloadInv, ~overlapped
                 PROVE  /\ \A f \in Files : disk[f] \in {<<>>, FullFile(f)}
                        /\ fault \notin {"client", "server"}
                        /\ fault = "error" =>
                             /\ saveList # <<>>
                             /\ ~(Range(Needs[Head(saveList).obj]) \subseteq Held \cup Served)
      BY DEF DownloadsAreSound
    <2>1. StoredInv(disk) /\ FaultInv(fault, saveList)
      BY DEF DownloadInv
    <2>2. saveList # <<>> => Head(saveList) = saveList[1]
      OBVIOUS
    <2> QED BY <2>1, <2>2 DEF StoredInv, FaultInv, Unserved
  <1> QED BY <1>1, DownloadInvariant, PTL
=============================================================================
