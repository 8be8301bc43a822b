--------------------------- MODULE NetEvent_proofs ---------------------------
(***************************************************************************)
(* The event manager delivers every event as it promises, for any number   *)
(* of events of each kind, any size of packets and of the notify window,   *)
(* and any event window that is not wider than the sequence numbers.       *)
(*                                                                         *)
(* Lists of notes are built by loops.  What the loops compute is proved    *)
(* from LeastNumber below: if a claim about the first n rounds failed for  *)
(* some n, it would fail for a least one.                                  *)
(***************************************************************************)
EXTENDS NetEvent, FiniteSetTheorems, NaturalsInduction, SequenceTheorems, TLAPS

-----------------------------------------------------------------------------
(* The invariant.                                                          *)

PostedBy(ps) == {e \in Possible : e.num < ps[e.kind]}

\* The only note that an event ever has.
NumberOf(e) == IF e.kind = "ordered" THEN e.num ELSE InvalidSendEventSeq
NoteOf(e) == [event |-> e, seq |-> NumberOf(e)]
GoodNotes(ps) == {NoteOf(e) : e \in PostedBy(ps)}

In(notes, e) == \E i \in DOMAIN notes : notes[i].event = e
Once(notes, e) == \E i \in DOMAIN notes : /\ notes[i].event = e
                                          /\ \A j \in DOMAIN notes : notes[j].event = e => j = i

Distinct(notes) == \A i, j \in DOMAIN notes : notes[i].event = notes[j].event => i = j
Ascending(notes) == \A i, j \in DOMAIN notes : i < j => notes[i].seq < notes[j].seq

\* The unordered queue; the lists of ordered events; the notes of a packet.
UnorderedList(notes, ps) ==
  /\ notes \in Seq(GoodNotes(ps))
  /\ \A i \in DOMAIN notes : notes[i].event.kind # "ordered"
  /\ Distinct(notes)

OrderedList(notes, ps) ==
  /\ notes \in Seq(GoodNotes(ps))
  /\ \A i \in DOMAIN notes : notes[i].event.kind = "ordered"
  /\ Ascending(notes)

PacketList(notes, ps) ==
  /\ notes \in Seq(GoodNotes(ps))
  /\ Distinct(notes)
  /\ \A i, j \in DOMAIN notes :
       i < j /\ notes[i].event.kind = "ordered" /\ notes[j].event.kind = "ordered" =>
         notes[i].seq < notes[j].seq

\* An ordered event that travels is within the event window.
WithinWindow(notes, la) ==
  \A i \in DOMAIN notes : notes[i].event.kind = "ordered" => notes[i].seq =< la + EventWindow

\* Where an event is, when its connection has not been removed: in a queue, in
\* one packet, in the list of acked events, or notified.  t is what was told
\* of it and n how often it was read.
NoPacket(e, c) == \A i \in DOMAIN c : ~In(c[i], e)

Queued(e, uq, sq, nl, c, t, n) ==
  /\ In(uq, e) \/ In(sq, e)
  /\ NoPacket(e, c) /\ ~In(nl, e) /\ t = <<>> /\ n = 0

Carried(e, uq, sq, nl, c, w, t, n) ==
  /\ \E i \in DOMAIN c : /\ In(c[i], e) /\ (n = 1 <=> w[i] = "handled")
                         /\ \A j \in DOMAIN c : In(c[j], e) => j = i
  /\ ~In(uq, e) /\ ~In(sq, e) /\ ~In(nl, e) /\ t = <<>>

Held(e, uq, sq, nl, c, t, n) ==
  /\ In(nl, e) /\ n = 1
  /\ ~In(uq, e) /\ ~In(sq, e) /\ NoPacket(e, c) /\ t = <<>>

Notified(e, uq, sq, nl, c, t, n) ==
  /\ \/ t = <<TRUE>> /\ n = 1
     \/ t = <<FALSE>> /\ n = 0 /\ e.kind = "unguaranteed"
  /\ ~In(uq, e) /\ ~In(sq, e) /\ ~In(nl, e) /\ NoPacket(e, c)

Place(e, uq, sq, nl, c, w, la, t, n) ==
  \/ /\ \/ Queued(e, uq, sq, nl, c, t, n)
        \/ Carried(e, uq, sq, nl, c, w, t, n)
        \/ Held(e, uq, sq, nl, c, t, n)
     /\ e.kind = "ordered" => e.num > la
  \/ /\ Notified(e, uq, sq, nl, c, t, n)
     /\ e.kind = "ordered" => e.num =< la

\* An event in a packet that may still arrive is in no other packet and has
\* not been read.  (All that is left of Place when the connection is removed.)
Unread(e, c, w, n) ==
  \A i \in DOMAIN c : w[i] = "flying" /\ In(c[i], e) =>
    n = 0 /\ \A j \in DOMAIN c : In(c[j], e) => j = i

\* The sending end.
SenderInv(uq, sq, nl, la, ps, w, c) ==
  /\ ps \in [Kinds -> Nat] /\ \A k \in Kinds : ps[k] =< MaxPosted[k]
  /\ la \in Nat \cup {InvalidSendEventSeq}
  /\ w \in Seq(Net!Fates)
  /\ c \in Seq(Seq(GoodNotes(ps))) /\ Len(c) = Len(w)
  /\ UnorderedList(uq, ps) /\ OrderedList(sq, ps) /\ OrderedList(nl, ps)
  /\ \A i \in DOMAIN c : PacketList(c[i], ps) /\ WithinWindow(c[i], la)
  /\ \A i \in DOMAIN nl : nl[i].seq > la + 1

\* The receiving end.
ReceiverInv(la, ps, nr, wt, pr, tm) ==
  /\ nr \in Nat /\ nr =< ps["ordered"] /\ la + 1 =< nr
  /\ OrderedList(wt, ps)
  /\ \A i \in DOMAIN wt : wt[i].seq > nr
  /\ pr = [i \in 1 .. nr |-> [kind |-> "ordered", num |-> i - 1]]
  /\ tm \in [Possible -> {0, 1}]
  /\ \A e \in Possible : e \notin PostedBy(ps) => tm[e] = 0
  /\ \A e \in PostedBy(ps) :
       e.kind = "ordered" => (tm[e] = 1 <=> e.num < nr \/ In(wt, e))

\* The events.
PlacesInv(uq, sq, nl, la, ps, w, c, tm, td) ==
  /\ td \in [Possible -> Seq(BOOLEAN)]
  /\ \A e \in Possible : e \notin PostedBy(ps) => td[e] = <<>>
  /\ \A e \in PostedBy(ps) : Place(e, uq, sq, nl, c, w, la, td[e], tm[e])

RemovedInv(ps, w, c, tm, td) ==
  /\ td \in [Possible -> Seq(BOOLEAN)]
  /\ \A e \in PostedBy(ps) : Len(td[e]) = 1
  /\ \A e \in PostedBy(ps) : Unread(e, c, w, tm[e])

IInv ==
  /\ removed \in BOOLEAN
  /\ SenderInv(unorderedQueue, sendQueue, notifyList, lastAcked, posted, window, contents)
  /\ ReceiverInv(lastAcked, posted, nextRecv, waiting, processed, times)
  /\ ~removed => PlacesInv(unorderedQueue, sendQueue, notifyList, lastAcked, posted, window,
                           contents, times, told)
  /\ removed => RemovedInv(posted, window, contents, times, told)

-----------------------------------------------------------------------------
(* Numbers.                                                                *)

LEMMA ConstantTypes ==
  /\ EventSeqMod \in Nat /\ EventSeqMod >= 1
  /\ EventWindow \in Nat /\ EventWindow >= 1 /\ EventWindow =< EventSeqMod
  /\ SendWindow \in Nat /\ SendWindow >= 1
  /\ MaxFit \in Nat /\ MaxFit >= 1
  /\ MaxPosted \in [Kinds -> Nat]
  /\ "ordered" \in Kinds
BY EventConstants DEF Kinds

\* Every set of numbers has a least one.
LEMMA LeastNumber ==
  ASSUME NEW T, T \subseteq Nat, T # {}
  PROVE  \E m \in T : \A n \in T : m =< n
<1>1. PICK m \in T : \A n \in T : ~(<<n, m>> \in OpToRel(<, Nat))
  BY NatLessThanWellFounded, WFMin
<1>2. ASSUME NEW n \in T, n < m PROVE FALSE
  <2>1. <<n, m>> \in {pair \in Nat \X Nat : pair[1] < pair[2]}
    BY <1>2
  <2> QED BY <2>1, <1>1 DEF OpToRel
<1>3. m \in T /\ \A n \in T : ~(n < m)
  BY <1>1, <1>2, Zenon
<1> QED BY <1>3

\* What Min and Max choose.
LEMMA MinNumber ==
  ASSUME NEW T, T \subseteq Nat, T # {}
  PROVE  Min(T) \in T /\ \A n \in T : Min(T) =< n
<1>1. \E m \in T : \A n \in T : m =< n
  BY LeastNumber
<1> QED BY <1>1 DEF Min

LEMMA MaxNumber ==
  ASSUME NEW N \in Nat, NEW T, T \subseteq 0 .. N, T # {}
  PROVE  Max(T) \in T /\ \A n \in T : Max(T) >= n
<1> DEFINE U == {N - n : n \in T}
<1>1. PICK m \in U : \A n \in U : m =< n
  <2>1. U \subseteq Nat
    OBVIOUS
  <2>2. \A n \in T : N - n \in U
    OBVIOUS
  <2> QED BY <2>1, <2>2, LeastNumber
<1>2. PICK x \in T : m = N - x
  BY <1>1
<1>3. \A n \in T : x >= n
  BY <1>1, <1>2
<1>4. \E y \in T : \A n \in T : y >= n
  BY <1>3
<1> QED BY <1>4 DEF Max

\* The 7 bits of a number that is ahead of the next one, but not by more than
\* they can tell.
LEMMA DecodedNumber ==
  ASSUME NEW next \in Nat, NEW seq \in Nat, next =< seq, seq < next + EventSeqMod
  PROVE  DecodeSeq(seq % EventSeqMod, next) = seq
<1> DEFINE M  == EventSeqMod
           qn == next \div M
           qs == seq \div M
           rn == next % M
           rs == seq % M
<1>1. M \in Nat /\ M >= 1
  BY ConstantTypes
<1> HIDE DEF M
<1>2. /\ qn \in Nat /\ rn \in 0 .. M - 1 /\ next = M * qn + rn
      /\ qs \in Nat /\ rs \in 0 .. M - 1 /\ seq = M * qs + rs
  BY <1>1
<1> HIDE DEF qn, qs, rn, rs
<1>3. seq < next + M
  BY DEF M
<1>4. qs = qn \/ qs = qn + 1
  <2>1. ASSUME qs < qn PROVE FALSE
    <3>1. M * qs + M =< M * qn
      <4>1. M * (qs + 1) =< M * qn
        BY <2>1, <1>1, <1>2
      <4> QED BY <4>1, <1>1, <1>2
    <3> QED BY <3>1, <1>1, <1>2
  <2>2. ASSUME qs > qn + 1 PROVE FALSE
    <3>1. M * qn + 2 * M =< M * qs
      <4>1. M * (qn + 2) =< M * qs
        BY <2>2, <1>1, <1>2
      <4> QED BY <4>1, <1>1, <1>2
    <3> QED BY <3>1, <1>1, <1>2, <1>3
  <2> QED BY <2>1, <2>2, <1>2
<1>5. CASE qs = qn
  BY <1>5, <1>1, <1>2 DEF DecodeSeq, M, rn, rs
<1>6. CASE qs = qn + 1
  <2>1. M * qs = M * qn + M
    BY <1>6, <1>1, <1>2
  <2>2. rs < rn
    BY <2>1, <1>1, <1>2, <1>3
  <2> QED BY <2>1, <2>2, <1>1, <1>2 DEF DecodeSeq, M, rn, rs
<1> QED BY <1>4, <1>5, <1>6

-----------------------------------------------------------------------------
(* Events, notes and lists of notes.                                       *)

LEMMA PossibleEvent ==
  ASSUME NEW e \in Possible
  PROVE  /\ e.kind \in Kinds /\ e.num \in Nat /\ e.num < MaxPosted[e.kind]
         /\ e = [kind |-> e.kind, num |-> e.num] /\ e \in Events
<1>1. PICK k \in Kinds : e \in [kind : {k}, num : 0 .. MaxPosted[k] - 1]
  BY DEF Possible
<1>2. MaxPosted[k] \in Nat
  BY ConstantTypes
<1> QED BY <1>1, <1>2 DEF Events

LEMMA EventIsPossible ==
  ASSUME NEW k \in Kinds, NEW n \in Nat, n < MaxPosted[k]
  PROVE  [kind |-> k, num |-> n] \in Possible
<1>1. MaxPosted[k] \in Nat
  BY ConstantTypes
<1>2. [kind |-> k, num |-> n] \in [kind : {k}, num : 0 .. MaxPosted[k] - 1]
  BY <1>1
<1> QED BY <1>2 DEF Possible

LEMMA GoodNote ==
  ASSUME NEW ps, NEW note \in GoodNotes(ps)
  PROVE  /\ note.event \in PostedBy(ps) /\ note.event \in Possible
         /\ note.event.kind \in Kinds /\ note.event.num \in Nat
         /\ note = NoteOf(note.event)
         /\ note.seq = NumberOf(note.event)
         /\ note.event.kind = "ordered" => note.seq = note.event.num
         /\ note.seq \in Nat \cup {InvalidSendEventSeq} /\ note \in Notes
<1>1. PICK e \in PostedBy(ps) : note = NoteOf(e)
  BY DEF GoodNotes
<1>2. note.event = e /\ note.seq = NumberOf(e)
  BY <1>1 DEF NoteOf
<1>3. e \in Possible
  BY DEF PostedBy
<1>4. e.kind \in Kinds /\ e.num \in Nat /\ e \in Events
  BY <1>3, PossibleEvent
<1>5. note \in Notes
  BY <1>1, <1>4 DEF Notes, NotesOf, NoteOf, NumberOf
<1> QED BY <1>1, <1>2, <1>3, <1>4, <1>5 DEF NumberOf

\* Two notes of ordered events with one number are one note.
LEMMA SameNumber ==
  ASSUME NEW ps, NEW a \in GoodNotes(ps), NEW b \in GoodNotes(ps),
         a.event.kind = "ordered", b.event.kind = "ordered", a.seq = b.seq
  PROVE  a = b /\ a.event = b.event
<1>1. a.event = [kind |-> "ordered", num |-> a.seq]
  BY GoodNote, PossibleEvent
<1>2. b.event = [kind |-> "ordered", num |-> b.seq]
  BY GoodNote, PossibleEvent
<1> QED BY <1>1, <1>2, GoodNote

\* Later posts keep the notes good.
LEMMA MoreGoodNotes ==
  ASSUME NEW ps \in [Kinds -> Nat], NEW qs \in [Kinds -> Nat],
         \A k \in Kinds : ps[k] =< qs[k]
  PROVE  PostedBy(ps) \subseteq PostedBy(qs) /\ GoodNotes(ps) \subseteq GoodNotes(qs)
<1>1. PostedBy(ps) \subseteq PostedBy(qs)
  BY PossibleEvent DEF PostedBy
<1> QED BY <1>1 DEF GoodNotes

IsList(s) == \E S : s \in Seq(S)

LEMMA ListBasics ==
  ASSUME NEW s, IsList(s)
  PROVE  Len(s) \in Nat /\ DOMAIN s = 1 .. Len(s)
BY DEF IsList

LEMMA ElementsOf ==
  ASSUME NEW S, NEW s \in Seq(S)
  PROVE  IsList(s) /\ \A i \in DOMAIN s : s[i] \in S
BY DEF IsList

LEMMA GoodElements ==
  ASSUME NEW ps, NEW s \in Seq(GoodNotes(ps))
  PROVE  IsList(s) /\ \A i \in DOMAIN s : s[i] \in GoodNotes(ps)
BY ElementsOf

LEMMA OrderedDistinct ==
  ASSUME NEW ps, NEW s, OrderedList(s, ps)
  PROVE  Distinct(s)
<1>1. s \in Seq(GoodNotes(ps))
  BY DEF OrderedList
<1>2. SUFFICES ASSUME NEW i \in DOMAIN s, NEW j \in DOMAIN s, s[i].event = s[j].event
               PROVE  i = j
  BY DEF Distinct
<1>3. s[i].seq = s[j].seq /\ s[i].seq = s[i].event.num /\ s[i].event.num \in Nat
  BY <1>1, <1>2, GoodElements, GoodNote DEF OrderedList
<1>4. i \in Nat /\ j \in Nat
  BY <1>1, GoodElements, ListBasics
<1>5. ~(i < j) /\ ~(j < i)
  <2>1. Ascending(s)
    BY DEF OrderedList
  <2>2. ~(s[i].seq < s[j].seq) /\ ~(s[j].seq < s[i].seq)
    BY <1>3
  <2> QED BY <2>1, <2>2 DEF Ascending
<1> QED BY <1>4, <1>5

LEMMA EmptyLists ==
  ASSUME NEW ps
  PROVE  UnorderedList(<<>>, ps) /\ OrderedList(<<>>, ps) /\ \A e : ~In(<<>>, e)
BY DEF UnorderedList, OrderedList, Distinct, Ascending, In

\* The head of a list and the rest of it.
Until(s, n) == SubSeq(s, 1, n)
After(s, n) == SubSeq(s, n + 1, Len(s))

LEMMA PartsTyped ==
  ASSUME NEW S, NEW s \in Seq(S), NEW n \in 0 .. Len(s)
  PROVE  Until(s, n) \in Seq(S) /\ After(s, n) \in Seq(S)
BY SubSeqProperties DEF Until, After

LEMMA Parts ==
  ASSUME NEW s, IsList(s), NEW n \in 0 .. Len(s)
  PROVE  /\ Len(Until(s, n)) = n
         /\ DOMAIN Until(s, n) = 1 .. n
         /\ \A i \in 1 .. n : Until(s, n)[i] = s[i]
         /\ Len(After(s, n)) = Len(s) - n
         /\ DOMAIN After(s, n) = 1 .. Len(s) - n
         /\ \A i \in 1 .. Len(s) - n : After(s, n)[i] = s[n + i]
<1>1. PICK S : s \in Seq(S)
  BY DEF IsList
<1> QED BY <1>1, SubSeqProperties DEF Until, After

LEMMA PartsHold ==
  ASSUME NEW s, IsList(s), NEW n \in 0 .. Len(s), NEW e
  PROVE  /\ In(s, e) <=> In(Until(s, n), e) \/ In(After(s, n), e)
         /\ Distinct(s) => ~(In(Until(s, n), e) /\ In(After(s, n), e))
<1> DEFINE f == Until(s, n)
           a == After(s, n)
<1>1. /\ DOMAIN f = 1 .. n /\ \A i \in 1 .. n : f[i] = s[i]
      /\ DOMAIN a = 1 .. Len(s) - n /\ \A i \in 1 .. Len(s) - n : a[i] = s[n + i]
      /\ DOMAIN s = 1 .. Len(s) /\ Len(s) \in Nat
  BY Parts, ListBasics
<1> HIDE DEF f, a
<1>2. In(s, e) => In(f, e) \/ In(a, e)
  <2>1. SUFFICES ASSUME NEW i \in DOMAIN s, s[i].event = e
                 PROVE  In(f, e) \/ In(a, e)
    BY DEF In
  <2>2. CASE i \in 1 .. n
    BY <2>1, <2>2, <1>1 DEF In
  <2>3. CASE i \in n + 1 .. Len(s)
    <3>1. i - n \in 1 .. Len(s) - n /\ n + (i - n) = i
      BY <2>3, <1>1
    <3>2. a[i - n] = s[i]
      BY <3>1, <1>1
    <3> QED BY <3>1, <3>2, <2>1, <1>1 DEF In
  <2> QED BY <2>2, <2>3, <1>1
<1>3. In(f, e) => In(s, e)
  BY <1>1 DEF In
<1>4. In(a, e) => In(s, e)
  BY <1>1 DEF In
<1>5. Distinct(s) => ~(In(f, e) /\ In(a, e))
  <2>1. SUFFICES ASSUME Distinct(s), NEW i \in DOMAIN f, f[i].event = e,
                        NEW j \in DOMAIN a, a[j].event = e
                 PROVE  FALSE
    BY DEF In
  <2>2. /\ i \in DOMAIN s /\ s[i].event = e
        /\ n + j \in DOMAIN s /\ s[n + j].event = e
    BY <2>1, <1>1
  <2>3. i # n + j
    BY <2>1, <1>1
  <2> QED BY <2>1, <2>2, <2>3 DEF Distinct
<1> QED BY <1>2, <1>3, <1>4, <1>5 DEF f, a

LEMMA PartsDistinct ==
  ASSUME NEW s, IsList(s), NEW n \in 0 .. Len(s), Distinct(s)
  PROVE  Distinct(Until(s, n)) /\ Distinct(After(s, n))
<1> DEFINE f == Until(s, n)
           a == After(s, n)
<1>1. /\ DOMAIN f = 1 .. n /\ \A i \in 1 .. n : f[i] = s[i]
      /\ DOMAIN a = 1 .. Len(s) - n /\ \A i \in 1 .. Len(s) - n : a[i] = s[n + i]
      /\ DOMAIN s = 1 .. Len(s) /\ Len(s) \in Nat
  BY Parts, ListBasics
<1> HIDE DEF f, a
<1>2. \A i, j \in DOMAIN f : f[i].event = f[j].event => i = j
  BY <1>1 DEF Distinct
<1>3. ASSUME NEW i \in DOMAIN a, NEW j \in DOMAIN a, a[i].event = a[j].event
      PROVE  i = j
  <2>1. /\ i \in 1 .. Len(s) - n /\ j \in 1 .. Len(s) - n
        /\ n + i \in DOMAIN s /\ n + j \in DOMAIN s
    BY <1>1, <1>3
  <2>2. s[n + i].event = s[n + j].event
    BY <2>1, <1>1, <1>3
  <2>3. n + i = n + j
    BY <2>1, <2>2 DEF Distinct
  <2> QED BY <2>1, <2>3
<1> QED BY <1>2, <1>3 DEF Distinct, f, a

\* What holds of every note of a list holds of every note of its parts.
LEMMA PartsElements ==
  ASSUME NEW s, IsList(s), NEW n \in 0 .. Len(s)
  PROVE  /\ \A i \in DOMAIN Until(s, n) : i \in DOMAIN s /\ Until(s, n)[i] = s[i]
         /\ \A i \in DOMAIN After(s, n) : n + i \in DOMAIN s /\ After(s, n)[i] = s[n + i]
<1> DEFINE f == Until(s, n)
           a == After(s, n)
<1>1. /\ DOMAIN f = 1 .. n /\ \A i \in 1 .. n : f[i] = s[i]
      /\ DOMAIN a = 1 .. Len(s) - n /\ \A i \in 1 .. Len(s) - n : a[i] = s[n + i]
      /\ DOMAIN s = 1 .. Len(s) /\ Len(s) \in Nat
  BY Parts, ListBasics
<1> HIDE DEF f, a
<1>2. \A i \in DOMAIN f : i \in DOMAIN s /\ f[i] = s[i]
  BY <1>1
<1>3. \A i \in DOMAIN a : n + i \in DOMAIN s /\ a[i] = s[n + i]
  BY <1>1
<1> QED BY <1>2, <1>3 DEF f, a

LEMMA PartsAscending ==
  ASSUME NEW s, IsList(s), NEW n \in 0 .. Len(s), Ascending(s)
  PROVE  Ascending(Until(s, n)) /\ Ascending(After(s, n))
<1> DEFINE f == Until(s, n)
           a == After(s, n)
<1>1. /\ \A i \in DOMAIN f : i \in DOMAIN s /\ f[i] = s[i]
      /\ \A i \in DOMAIN a : n + i \in DOMAIN s /\ a[i] = s[n + i]
  BY PartsElements
<1>2. DOMAIN a = 1 .. Len(s) - n /\ Len(s) \in Nat
  BY Parts, ListBasics
<1> HIDE DEF f, a
<1>3. \A i, j \in DOMAIN f : i < j => f[i].seq < f[j].seq
  BY <1>1 DEF Ascending
<1>4. ASSUME NEW i \in DOMAIN a, NEW j \in DOMAIN a, i < j
      PROVE  a[i].seq < a[j].seq
  <2>1. n + i < n + j
    BY <1>2, <1>4
  <2>2. s[n + i].seq < s[n + j].seq
    BY <2>1, <1>1 DEF Ascending
  <2> QED BY <2>2, <1>1
<1> QED BY <1>3, <1>4 DEF Ascending, f, a

LEMMA PartsOfUnordered ==
  ASSUME NEW ps, NEW s, UnorderedList(s, ps), NEW n \in 0 .. Len(s)
  PROVE  UnorderedList(Until(s, n), ps) /\ UnorderedList(After(s, n), ps)
<1>1. s \in Seq(GoodNotes(ps)) /\ Distinct(s)
      /\ \A i \in DOMAIN s : s[i].event.kind # "ordered"
  BY DEF UnorderedList
<1>2. IsList(s)
  BY <1>1, GoodElements
<1>3. Until(s, n) \in Seq(GoodNotes(ps)) /\ After(s, n) \in Seq(GoodNotes(ps))
  BY <1>1, PartsTyped
<1>4. Distinct(Until(s, n)) /\ Distinct(After(s, n))
  BY <1>1, <1>2, PartsDistinct
<1>5. /\ \A i \in DOMAIN Until(s, n) : Until(s, n)[i].event.kind # "ordered"
      /\ \A i \in DOMAIN After(s, n) : After(s, n)[i].event.kind # "ordered"
  BY <1>1, <1>2, PartsElements
<1> QED BY <1>3, <1>4, <1>5 DEF UnorderedList

LEMMA PartsOfOrdered ==
  ASSUME NEW ps, NEW s, OrderedList(s, ps), NEW n \in 0 .. Len(s)
  PROVE  OrderedList(Until(s, n), ps) /\ OrderedList(After(s, n), ps)
<1>1. s \in Seq(GoodNotes(ps)) /\ Ascending(s)
      /\ \A i \in DOMAIN s : s[i].event.kind = "ordered"
  BY DEF OrderedList
<1>2. IsList(s)
  BY <1>1, GoodElements
<1>3. Until(s, n) \in Seq(GoodNotes(ps)) /\ After(s, n) \in Seq(GoodNotes(ps))
  BY <1>1, PartsTyped
<1>4. Ascending(Until(s, n)) /\ Ascending(After(s, n))
  BY <1>1, <1>2, PartsAscending
<1>5. /\ \A i \in DOMAIN Until(s, n) : Until(s, n)[i].event.kind = "ordered"
      /\ \A i \in DOMAIN After(s, n) : After(s, n)[i].event.kind = "ordered"
  BY <1>1, <1>2, PartsElements
<1> QED BY <1>3, <1>4, <1>5 DEF OrderedList

\* Two lists, one behind the other.
Join(s, t) == s \o t

LEMMA JoinBasics ==
  ASSUME NEW s, IsList(s), NEW t, IsList(t)
  PROVE  /\ IsList(Join(s, t)) /\ Len(Join(s, t)) = Len(s) + Len(t)
         /\ DOMAIN Join(s, t) = 1 .. Len(s) + Len(t)
         /\ \A i \in DOMAIN s : i \in DOMAIN Join(s, t) /\ Join(s, t)[i] = s[i]
         /\ \A i \in DOMAIN t :
              Len(s) + i \in DOMAIN Join(s, t) /\ Join(s, t)[Len(s) + i] = t[i]
         /\ \A i \in DOMAIN Join(s, t) :
              i \in DOMAIN s \/ (i - Len(s) \in DOMAIN t /\ i > Len(s))
<1>1. PICK S : s \in Seq(S)
  BY DEF IsList
<1>2. PICK T : t \in Seq(T)
  BY DEF IsList
<1> DEFINE U == S \cup T
<1>3. s \in Seq(U) /\ t \in Seq(U)
  BY <1>1, <1>2
<1> HIDE DEF U
<1>4. /\ Join(s, t) \in Seq(U) /\ Len(Join(s, t)) = Len(s) + Len(t)
      /\ \A i \in 1 .. Len(s) + Len(t) :
           Join(s, t)[i] = IF i =< Len(s) THEN s[i] ELSE t[i - Len(s)]
  BY <1>3, ConcatProperties DEF Join
<1>5. /\ DOMAIN s = 1 .. Len(s) /\ Len(s) \in Nat
      /\ DOMAIN t = 1 .. Len(t) /\ Len(t) \in Nat
      /\ DOMAIN Join(s, t) = 1 .. Len(s) + Len(t)
  BY <1>3, <1>4
<1>6. \A i \in DOMAIN t : Len(s) + i \in 1 .. Len(s) + Len(t) /\ ~(Len(s) + i =< Len(s))
                          /\ (Len(s) + i) - Len(s) = i
  BY <1>5
<1>7. IsList(Join(s, t))
  BY <1>4 DEF IsList
<1>8. \A i \in DOMAIN t : Join(s, t)[Len(s) + i] = t[i]
  BY <1>4, <1>6
<1>9. \A i \in DOMAIN s : i \in DOMAIN Join(s, t) /\ Join(s, t)[i] = s[i]
  BY <1>4, <1>5
<1>10. \A i \in DOMAIN Join(s, t) : i \in DOMAIN s \/ (i - Len(s) \in DOMAIN t /\ i > Len(s))
  BY <1>5
<1> QED BY <1>4, <1>5, <1>6, <1>7, <1>8, <1>9, <1>10

LEMMA JoinTyped ==
  ASSUME NEW S, NEW s \in Seq(S), NEW t \in Seq(S)
  PROVE  Join(s, t) \in Seq(S)
BY DEF Join

LEMMA JoinElements ==
  ASSUME NEW s, IsList(s), NEW t, IsList(t), NEW i \in DOMAIN Join(s, t)
  PROVE  \/ i \in DOMAIN s /\ Join(s, t)[i] = s[i]
         \/ i - Len(s) \in DOMAIN t /\ Join(s, t)[i] = t[i - Len(s)] /\ i > Len(s)
<1>1. CASE i \in DOMAIN s
  BY <1>1, JoinBasics
<1>2. CASE i - Len(s) \in DOMAIN t /\ i > Len(s)
  <2>1. Join(s, t)[Len(s) + (i - Len(s))] = t[i - Len(s)]
    BY <1>2, JoinBasics
  <2>2. Len(s) + (i - Len(s)) = i
    <3>1. Len(s) \in Nat /\ Len(t) \in Nat
      BY ListBasics
    <3>2. i \in 1 .. Len(s) + Len(t)
      BY JoinBasics
    <3> QED BY <3>1, <3>2
  <2> QED BY <2>1, <2>2, <1>2
<1> QED BY <1>1, <1>2, JoinBasics

LEMMA JoinHolds ==
  ASSUME NEW s, IsList(s), NEW t, IsList(t), NEW e
  PROVE  /\ In(Join(s, t), e) <=> In(s, e) \/ In(t, e)
         /\ Once(s, e) /\ ~In(t, e) => Once(Join(s, t), e)
         /\ ~In(s, e) /\ Once(t, e) => Once(Join(s, t), e)
<1> DEFINE j == Join(s, t)
<1>1. /\ \A i \in DOMAIN s : i \in DOMAIN j /\ j[i] = s[i]
      /\ \A i \in DOMAIN t : Len(s) + i \in DOMAIN j /\ j[Len(s) + i] = t[i]
  BY JoinBasics
<1>2. \A i \in DOMAIN j : \/ i \in DOMAIN s /\ j[i] = s[i]
                          \/ i - Len(s) \in DOMAIN t /\ j[i] = t[i - Len(s)]
  BY JoinElements
<1>3. /\ DOMAIN s = 1 .. Len(s) /\ Len(s) \in Nat
      /\ DOMAIN t = 1 .. Len(t) /\ Len(t) \in Nat
      /\ DOMAIN j = 1 .. Len(s) + Len(t)
  BY JoinBasics, ListBasics
<1> HIDE DEF j
<1>4. In(j, e) => In(s, e) \/ In(t, e)
  BY <1>2 DEF In
<1>5. In(s, e) => In(j, e)
  BY <1>1 DEF In
<1>6. In(t, e) => In(j, e)
  BY <1>1 DEF In
<1>7. ASSUME Once(s, e), ~In(t, e)
      PROVE  Once(j, e)
  <2>1. PICK i \in DOMAIN s : s[i].event = e /\ \A k \in DOMAIN s : s[k].event = e => k = i
    BY <1>7 DEF Once
  <2>2. \A k \in DOMAIN j : j[k].event = e => k = i
    BY <2>1, <1>2, <1>7 DEF In
  <2>3. i \in DOMAIN j /\ j[i].event = e
    BY <2>1, <1>1
  <2> QED BY <2>2, <2>3 DEF Once
<1>8. ASSUME ~In(s, e), Once(t, e)
      PROVE  Once(j, e)
  <2>1. PICK i \in DOMAIN t : t[i].event = e /\ \A k \in DOMAIN t : t[k].event = e => k = i
    BY <1>8 DEF Once
  <2>2. ASSUME NEW k \in DOMAIN j, j[k].event = e
        PROVE  k = Len(s) + i
    <3>1. k - Len(s) \in DOMAIN t /\ t[k - Len(s)].event = e
      BY <2>2, <1>2, <1>8 DEF In
    <3>2. k - Len(s) = i
      BY <3>1, <2>1
    <3> QED BY <3>2, <1>3
  <2>3. Len(s) + i \in DOMAIN j /\ j[Len(s) + i].event = e
    BY <2>1, <1>1
  <2> QED BY <2>2, <2>3 DEF Once
<1> QED BY <1>4, <1>5, <1>6, <1>7, <1>8 DEF j

LEMMA DistinctOnce ==
  ASSUME NEW s, Distinct(s), NEW e, In(s, e)
  PROVE  Once(s, e)
BY DEF Distinct, In, Once

LEMMA JoinDistinct ==
  ASSUME NEW s, IsList(s), Distinct(s), NEW t, IsList(t), Distinct(t),
         \A e : ~(In(s, e) /\ In(t, e))
  PROVE  Distinct(Join(s, t))
<1> DEFINE j == Join(s, t)
<1>2. \A i \in DOMAIN j : \/ i \in DOMAIN s /\ j[i] = s[i]
                          \/ i - Len(s) \in DOMAIN t /\ j[i] = t[i - Len(s)]
  BY JoinElements
<1>3. /\ DOMAIN s = 1 .. Len(s) /\ Len(s) \in Nat
      /\ DOMAIN t = 1 .. Len(t) /\ Len(t) \in Nat
      /\ DOMAIN j = 1 .. Len(s) + Len(t)
  BY JoinBasics, ListBasics
<1> HIDE DEF j
<1>4. SUFFICES ASSUME NEW i \in DOMAIN j, NEW k \in DOMAIN j, j[i].event = j[k].event
               PROVE  i = k
  BY DEF Distinct, j
<1>5. CASE i \in DOMAIN s /\ j[i] = s[i] /\ k \in DOMAIN s /\ j[k] = s[k]
  BY <1>4, <1>5 DEF Distinct
<1>6. CASE /\ i - Len(s) \in DOMAIN t /\ j[i] = t[i - Len(s)]
           /\ k - Len(s) \in DOMAIN t /\ j[k] = t[k - Len(s)]
  <2>1. i - Len(s) = k - Len(s)
    BY <1>4, <1>6 DEF Distinct
  <2> QED BY <2>1, <1>3
<1>7. ~(i \in DOMAIN s /\ j[i] = s[i] /\ k - Len(s) \in DOMAIN t /\ j[k] = t[k - Len(s)])
  BY <1>4 DEF In
<1>8. ~(k \in DOMAIN s /\ j[k] = s[k] /\ i - Len(s) \in DOMAIN t /\ j[i] = t[i - Len(s)])
  BY <1>4 DEF In
<1> QED BY <1>2, <1>5, <1>6, <1>7, <1>8

LEMMA JoinUnordered ==
  ASSUME NEW ps, NEW s, UnorderedList(s, ps), NEW t, UnorderedList(t, ps),
         \A e : ~(In(s, e) /\ In(t, e))
  PROVE  UnorderedList(Join(s, t), ps)
<1>1. /\ s \in Seq(GoodNotes(ps)) /\ Distinct(s)
      /\ t \in Seq(GoodNotes(ps)) /\ Distinct(t)
      /\ \A i \in DOMAIN s : s[i].event.kind # "ordered"
      /\ \A i \in DOMAIN t : t[i].event.kind # "ordered"
  BY DEF UnorderedList
<1>2. IsList(s) /\ IsList(t)
  BY <1>1, GoodElements
<1>3. Join(s, t) \in Seq(GoodNotes(ps))
  BY <1>1, JoinTyped
<1>4. Distinct(Join(s, t))
  BY <1>1, <1>2, JoinDistinct
<1>5. \A i \in DOMAIN Join(s, t) : Join(s, t)[i].event.kind # "ordered"
  BY <1>1, <1>2, JoinElements
<1> QED BY <1>3, <1>4, <1>5 DEF UnorderedList

\* A packet: unordered events first, then ordered ones.
LEMMA JoinPacket ==
  ASSUME NEW ps, NEW s, UnorderedList(s, ps), NEW t, OrderedList(t, ps)
  PROVE  /\ PacketList(Join(s, t), ps)
         /\ \A la : WithinWindow(t, la) => WithinWindow(Join(s, t), la)
<1> DEFINE j == Join(s, t)
<1>1. /\ s \in Seq(GoodNotes(ps)) /\ Distinct(s)
      /\ t \in Seq(GoodNotes(ps)) /\ Ascending(t)
      /\ \A i \in DOMAIN s : s[i].event.kind # "ordered"
      /\ \A i \in DOMAIN t : t[i].event.kind = "ordered"
  BY DEF UnorderedList, OrderedList
<1>2. IsList(s) /\ IsList(t) /\ Distinct(t)
  BY <1>1, GoodElements, OrderedDistinct
<1>3. j \in Seq(GoodNotes(ps))
  BY <1>1, JoinTyped
<1>4. \A e : ~(In(s, e) /\ In(t, e))
  BY <1>1 DEF In
<1>5. Distinct(j)
  BY <1>1, <1>2, <1>4, JoinDistinct
<1>6. \A i \in DOMAIN j : \/ i \in DOMAIN s /\ j[i] = s[i]
                          \/ i - Len(s) \in DOMAIN t /\ j[i] = t[i - Len(s)]
  BY <1>2, JoinElements
<1>7. Len(s) \in Nat /\ \A i \in DOMAIN j : i \in Nat
  <2>1. Len(s) \in Nat /\ Len(t) \in Nat
    BY <1>2, ListBasics
  <2>2. DOMAIN j = 1 .. Len(s) + Len(t)
    BY <1>2, JoinBasics
  <2> HIDE DEF j
  <2> QED BY <2>1, <2>2
<1> HIDE DEF j
<1>8. ASSUME NEW i \in DOMAIN j, NEW k \in DOMAIN j, i < k,
             j[i].event.kind = "ordered", j[k].event.kind = "ordered"
      PROVE  j[i].seq < j[k].seq
  <2>1. /\ i - Len(s) \in DOMAIN t /\ j[i] = t[i - Len(s)]
        /\ k - Len(s) \in DOMAIN t /\ j[k] = t[k - Len(s)]
    BY <1>1, <1>6, <1>8
  <2>2. i - Len(s) < k - Len(s)
    BY <1>7, <1>8
  <2> QED BY <2>1, <2>2, <1>1 DEF Ascending
<1>9. ASSUME NEW la, WithinWindow(t, la)
      PROVE  WithinWindow(j, la)
  BY <1>1, <1>6, <1>9 DEF WithinWindow
<1>10. PacketList(j, ps)
  BY <1>3, <1>5, <1>8 DEF PacketList
<1> QED BY <1>9, <1>10 DEF j

LEMMA ReverseUnordered ==
  ASSUME NEW ps, NEW s, UnorderedList(s, ps)
  PROVE  /\ UnorderedList(Reverse(s), ps)
         /\ \A e : In(Reverse(s), e) <=> In(s, e)
<1> DEFINE r == Reverse(s)
<1>1. /\ s \in Seq(GoodNotes(ps)) /\ Distinct(s)
      /\ \A i \in DOMAIN s : s[i].event.kind # "ordered"
  BY DEF UnorderedList
<1>2. IsList(s) /\ Len(s) \in Nat /\ DOMAIN s = 1 .. Len(s)
  BY <1>1, GoodElements, ListBasics
<1>3. r = [i \in 1 .. Len(s) |-> s[(Len(s) - i) + 1]]
  BY DEF Reverse
<1>4. \A i \in 1 .. Len(s) : (Len(s) - i) + 1 \in DOMAIN s /\ (Len(s) - ((Len(s) - i) + 1)) + 1 = i
  BY <1>2
<1>5. DOMAIN r = 1 .. Len(s) /\ \A i \in 1 .. Len(s) : r[i] = s[(Len(s) - i) + 1]
  BY <1>3
<1>6. r \in Seq(GoodNotes(ps))
  <2>1. r \in [1 .. Len(s) -> GoodNotes(ps)]
    BY <1>1, <1>3, <1>4, GoodElements
  <2> QED BY <2>1, <1>2
<1> HIDE DEF r
<1>7. ASSUME NEW i \in DOMAIN r, NEW k \in DOMAIN r, r[i].event = r[k].event
      PROVE  i = k
  <2>1. (Len(s) - i) + 1 = (Len(s) - k) + 1
    BY <1>1, <1>4, <1>5, <1>7 DEF Distinct
  <2> QED BY <2>1, <1>2, <1>5
<1>8. ASSUME NEW e
      PROVE  In(r, e) <=> In(s, e)
  <2>1. In(r, e) => In(s, e)
    BY <1>4, <1>5 DEF In
  <2>2. ASSUME NEW i \in DOMAIN s, s[i].event = e
        PROVE  In(r, e)
    <3>1. (Len(s) - i) + 1 \in DOMAIN r /\ r[(Len(s) - i) + 1] = s[i]
      BY <1>2, <1>4, <1>5
    <3> QED BY <3>1, <2>2 DEF In
  <2> QED BY <2>1, <2>2 DEF In
<1>9. \A i \in DOMAIN r : r[i].event.kind # "ordered"
  BY <1>1, <1>4, <1>5
<1> QED BY <1>6, <1>7, <1>8, <1>9 DEF UnorderedList, Distinct, r

-----------------------------------------------------------------------------
(* OfKind: the loop that picks the notes of one kind.                      *)

IsPick(pick, notes, kind, N) ==
  pick = [n \in 0 .. N |->
            IF n = 0 THEN <<>>
            ELSE IF notes[n].event.kind = kind THEN Append(pick[n - 1], notes[n])
            ELSE pick[n - 1]]

LEMMA PickGoesOn ==
  ASSUME NEW notes, NEW kind, NEW N \in Nat, NEW f, IsPick(f, notes, kind, N)
  PROVE  \E g : IsPick(g, notes, kind, N + 1)
<1> DEFINE next == IF notes[N + 1].event.kind = kind THEN Append(f[N], notes[N + 1]) ELSE f[N]
           g == [n \in 0 .. N + 1 |-> IF n = N + 1 THEN next ELSE f[n]]
<1>1. ASSUME NEW n \in 0 .. N + 1
      PROVE  g[n] = IF n = 0 THEN <<>>
                    ELSE IF notes[n].event.kind = kind THEN Append(g[n - 1], notes[n])
                    ELSE g[n - 1]
  <2>1. CASE n = N + 1
    <3>1. g[n] = next /\ g[n - 1] = f[N] /\ n # 0
      BY <2>1
    <3> QED BY <3>1, <2>1
  <2>2. CASE n \in 0 .. N
    <3>1. f[n] = IF n = 0 THEN <<>>
                 ELSE IF notes[n].event.kind = kind THEN Append(f[n - 1], notes[n])
                 ELSE f[n - 1]
      BY <2>2, Zenon DEF IsPick
    <3>2. g[n] = f[n] /\ (n # 0 => g[n - 1] = f[n - 1])
      BY <2>2
    <3> QED BY <3>1, <3>2
  <2> QED BY <2>1, <2>2
<1>2. IsPick(g, notes, kind, N + 1)
  BY <1>1 DEF IsPick
<1> QED BY <1>2

LEMMA PickExists ==
  ASSUME NEW notes, NEW kind, NEW N \in Nat
  PROVE  \E f : IsPick(f, notes, kind, N)
<1> DEFINE T == {n \in Nat : ~\E f : IsPick(f, notes, kind, n)}
<1>1. SUFFICES ASSUME T # {} PROVE FALSE
  OBVIOUS
<1>2. PICK m \in T : \A n \in T : m =< n
  BY <1>1, LeastNumber
<1>3. m \in Nat /\ ~\E f : IsPick(f, notes, kind, m)
  BY <1>2
<1>4. CASE m = 0
  <2>1. IsPick([n \in 0 .. 0 |-> <<>>], notes, kind, 0)
    BY DEF IsPick
  <2> QED BY <2>1, <1>3, <1>4
<1>5. CASE m # 0
  <2>1. m - 1 \in Nat /\ (m - 1) + 1 = m /\ ~(m =< m - 1)
    BY <1>3, <1>5
  <2>2. \E f : IsPick(f, notes, kind, m - 1)
    BY <2>1, <1>2
  <2>3. \E f : IsPick(f, notes, kind, (m - 1) + 1)
    BY <2>1, <2>2, PickGoesOn
  <2> QED BY <2>1, <2>3, <1>3
<1> QED BY <1>4, <1>5

LEMMA PickRounds ==
  ASSUME NEW notes, NEW kind, Len(notes) \in Nat
  PROVE  \E pick : /\ pick[0] = <<>>
                   /\ \A n \in 1 .. Len(notes) :
                        pick[n] = IF notes[n].event.kind = kind
                                    THEN Append(pick[n - 1], notes[n]) ELSE pick[n - 1]
                   /\ OfKind(notes, kind) = pick[Len(notes)]
<1> DEFINE pick == CHOOSE f : IsPick(f, notes, kind, Len(notes))
<1>1. IsPick(pick, notes, kind, Len(notes))
  BY PickExists
<1>2. OfKind(notes, kind) = pick[Len(notes)]
  BY DEF OfKind, IsPick
<1> HIDE DEF pick
<1>3. pick[0] = <<>>
  BY <1>1 DEF IsPick
<1>4. ASSUME NEW n \in 1 .. Len(notes)
      PROVE  pick[n] = IF notes[n].event.kind = kind
                         THEN Append(pick[n - 1], notes[n]) ELSE pick[n - 1]
  <2>1. n \in 0 .. Len(notes) /\ n # 0
    BY <1>4
  <2>2. pick[n] = IF n = 0 THEN <<>>
                  ELSE IF notes[n].event.kind = kind THEN Append(pick[n - 1], notes[n])
                  ELSE pick[n - 1]
    BY <1>1, <2>1, Zenon DEF IsPick
  <2> QED BY <2>1, <2>2
<1> QED BY <1>2, <1>3, <1>4

\* What has been picked after n rounds.
Picked(s, notes, kind, n, ps) ==
  /\ s \in Seq(GoodNotes(ps))
  /\ \A j \in DOMAIN s : s[j].event.kind = kind /\ \E i \in 1 .. n : s[j] = notes[i]
  /\ \A i \in 1 .. n : notes[i].event.kind = kind => \E j \in DOMAIN s : s[j] = notes[i]
  /\ Distinct(s)
  /\ kind = "ordered" => Ascending(s)

LEMMA PickOne ==
  ASSUME NEW ps, NEW notes, PacketList(notes, ps), NEW kind, NEW n \in 1 .. Len(notes),
         NEW s, Picked(s, notes, kind, n - 1, ps), notes[n].event.kind = kind
  PROVE  Picked(Append(s, notes[n]), notes, kind, n, ps)
<1> DEFINE t == Append(s, notes[n])
<1>1. /\ notes \in Seq(GoodNotes(ps)) /\ Distinct(notes) /\ IsList(notes)
      /\ DOMAIN notes = 1 .. Len(notes) /\ Len(notes) \in Nat
      /\ notes[n] \in GoodNotes(ps) /\ n \in DOMAIN notes
  <2>1. notes \in Seq(GoodNotes(ps)) /\ Distinct(notes)
    BY DEF PacketList
  <2> QED BY <2>1, GoodElements, ListBasics
<1>2. /\ s \in Seq(GoodNotes(ps)) /\ Distinct(s)
      /\ \A j \in DOMAIN s : s[j].event.kind = kind /\ \E i \in 1 .. n - 1 : s[j] = notes[i]
      /\ \A i \in 1 .. n - 1 : notes[i].event.kind = kind => \E j \in DOMAIN s : s[j] = notes[i]
      /\ kind = "ordered" => Ascending(s)
  BY DEF Picked
<1>3. /\ t \in Seq(GoodNotes(ps)) /\ DOMAIN t = 1 .. Len(s) + 1 /\ Len(s) \in Nat
      /\ DOMAIN s = 1 .. Len(s)
      /\ \A j \in DOMAIN s : t[j] = s[j]
      /\ t[Len(s) + 1] = notes[n]
  BY <1>1, <1>2
<1> HIDE DEF t
<1>4. \A j \in DOMAIN t : (j \in DOMAIN s /\ t[j] = s[j]) \/ (j = Len(s) + 1 /\ t[j] = notes[n])
  BY <1>3
<1>5. \A j \in DOMAIN s : \E i \in 1 .. n - 1 : /\ s[j] = notes[i] /\ i \in DOMAIN notes
                                                /\ i < n /\ i \in 1 .. n
  BY <1>1, <1>2
<1>6. \A j \in DOMAIN t : t[j].event.kind = kind /\ \E i \in 1 .. n : t[j] = notes[i]
  BY <1>2, <1>4, <1>5
<1>7. ASSUME NEW i \in 1 .. n, notes[i].event.kind = kind
      PROVE  \E j \in DOMAIN t : t[j] = notes[i]
  <2>1. CASE i = n
    BY <2>1, <1>3
  <2>2. CASE i # n
    <3>1. i \in 1 .. n - 1
      BY <2>2
    <3>2. PICK j \in DOMAIN s : s[j] = notes[i]
      BY <3>1, <1>2, <1>7
    <3> QED BY <3>2, <1>3
  <2> QED BY <2>1, <2>2
<1>8. \A j \in DOMAIN s : s[j].event # notes[n].event
  BY <1>1, <1>5 DEF Distinct
<1>9. Distinct(t)
  BY <1>2, <1>4, <1>8 DEF Distinct
<1>10. ASSUME kind = "ordered"
       PROVE  Ascending(t)
  <2>1. ASSUME NEW j \in DOMAIN s
        PROVE  s[j].seq < notes[n].seq
    <3>1. PICK i \in 1 .. n - 1 : s[j] = notes[i] /\ i \in DOMAIN notes /\ i < n
      BY <1>5
    <3>2. notes[i].event.kind = "ordered" /\ notes[n].event.kind = "ordered"
      BY <3>1, <1>2, <1>10
    <3>3. notes[i].seq < notes[n].seq
      BY <3>1, <3>2, <1>1 DEF PacketList
    <3> QED BY <3>1, <3>3
  <2>2. ASSUME NEW i \in DOMAIN t, NEW j \in DOMAIN t, i < j
        PROVE  t[i].seq < t[j].seq
    <3>1. i \in DOMAIN s /\ t[i] = s[i]
      BY <1>3, <1>4, <2>2
    <3>2. CASE j \in DOMAIN s /\ t[j] = s[j]
      BY <3>1, <3>2, <2>2, <1>2, <1>10 DEF Ascending
    <3>3. CASE t[j] = notes[n]
      BY <3>1, <3>3, <2>1
    <3> QED BY <3>2, <3>3, <1>4
  <2> QED BY <2>2 DEF Ascending
<1> QED BY <1>3, <1>6, <1>7, <1>9, <1>10 DEF Picked, t

LEMMA PickNone ==
  ASSUME NEW ps, NEW notes, PacketList(notes, ps), NEW kind, NEW n \in 1 .. Len(notes),
         NEW s, Picked(s, notes, kind, n - 1, ps), notes[n].event.kind # kind
  PROVE  Picked(s, notes, kind, n, ps)
<1>1. \A i \in 1 .. n - 1 : i \in 1 .. n
  OBVIOUS
<1>2. \A i \in 1 .. n : i = n \/ i \in 1 .. n - 1
  OBVIOUS
<1> QED BY <1>1, <1>2 DEF Picked

LEMMA KindPicked ==
  ASSUME NEW ps, NEW notes, PacketList(notes, ps), NEW kind
  PROVE  Picked(OfKind(notes, kind), notes, kind, Len(notes), ps)
<1>1. Len(notes) \in Nat
  BY GoodElements, ListBasics DEF PacketList
<1>2. PICK pick : /\ pick[0] = <<>>
                  /\ \A n \in 1 .. Len(notes) :
                       pick[n] = IF notes[n].event.kind = kind
                                   THEN Append(pick[n - 1], notes[n]) ELSE pick[n - 1]
                  /\ OfKind(notes, kind) = pick[Len(notes)]
  BY <1>1, PickRounds
<1> DEFINE T == {n \in 0 .. Len(notes) : ~Picked(pick[n], notes, kind, n, ps)}
<1>3. SUFFICES ASSUME T # {} PROVE FALSE
  BY <1>1, <1>2
<1>4. PICK m \in T : \A n \in T : m =< n
  <2>1. T \subseteq Nat
    BY <1>1
  <2> QED BY <2>1, <1>3, LeastNumber
<1>5. m \in 0 .. Len(notes) /\ ~Picked(pick[m], notes, kind, m, ps)
  BY <1>4
<1>6. m # 0
  <2>1. Picked(<<>>, notes, kind, 0, ps)
    BY DEF Picked, Distinct, Ascending
  <2> QED BY <2>1, <1>2, <1>5
<1>7. m - 1 \in 0 .. Len(notes) /\ m \in 1 .. Len(notes) /\ ~(m =< m - 1)
  BY <1>1, <1>5, <1>6
<1>8. Picked(pick[m - 1], notes, kind, m - 1, ps)
  BY <1>4, <1>7
<1>9. CASE notes[m].event.kind = kind
  BY <1>9, <1>8, <1>7, <1>5, <1>2, PickOne
<1>10. CASE notes[m].event.kind # kind
  BY <1>10, <1>8, <1>7, <1>5, <1>2, PickNone
<1> QED BY <1>9, <1>10

\* The notes of one kind in a packet.
LEMMA NotesOfKind ==
  ASSUME NEW ps, NEW notes, PacketList(notes, ps), NEW kind
  PROVE  /\ kind = "ordered" => OrderedList(OfKind(notes, kind), ps)
         /\ kind # "ordered" => UnorderedList(OfKind(notes, kind), ps)
         /\ \A e : In(OfKind(notes, kind), e) <=> In(notes, e) /\ e.kind = kind
         /\ \A j \in DOMAIN OfKind(notes, kind) :
              \E i \in DOMAIN notes : OfKind(notes, kind)[j] = notes[i]
<1> DEFINE s == OfKind(notes, kind)
<1>1. Picked(s, notes, kind, Len(notes), ps)
  BY KindPicked
<1>2. DOMAIN notes = 1 .. Len(notes)
  BY GoodElements, ListBasics DEF PacketList
<1> HIDE DEF s
<1>3. /\ kind = "ordered" => OrderedList(s, ps)
      /\ kind # "ordered" => UnorderedList(s, ps)
  BY <1>1 DEF Picked, OrderedList, UnorderedList
<1>4. \A j \in DOMAIN s : \E i \in DOMAIN notes : s[j] = notes[i]
  BY <1>1, <1>2 DEF Picked
<1>5. \A e : In(s, e) => In(notes, e) /\ e.kind = kind
  <2>1. \A j \in DOMAIN s : s[j].event.kind = kind
    BY <1>1 DEF Picked
  <2> QED BY <2>1, <1>4 DEF In
<1>6. ASSUME NEW i \in DOMAIN notes, notes[i].event.kind = kind
      PROVE  In(s, notes[i].event)
  <2>1. PICK j \in DOMAIN s : s[j] = notes[i]
    BY <1>1, <1>2, <1>6 DEF Picked
  <2> QED BY <2>1 DEF In
<1>7. \A e : In(notes, e) /\ e.kind = kind => In(s, e)
  BY <1>6 DEF In
<1> QED BY <1>3, <1>4, <1>5, <1>7 DEF s

-----------------------------------------------------------------------------
(* MergeBySeq: the loop that puts the notes of a packet into a list.       *)

IsMerge(merge, list, notes, N) ==
  merge = [n \in 0 .. N |-> IF n = 0 THEN [list |-> list, at |-> 0]
                                     ELSE InsertBySeq(merge[n - 1], notes[n])]

LEMMA MergeGoesOn ==
  ASSUME NEW list, NEW notes, NEW N \in Nat, NEW f, IsMerge(f, list, notes, N)
  PROVE  \E g : IsMerge(g, list, notes, N + 1)
<1> DEFINE g == [n \in 0 .. N + 1 |-> IF n = N + 1 THEN InsertBySeq(f[N], notes[N + 1])
                                                   ELSE f[n]]
<1>1. ASSUME NEW n \in 0 .. N + 1
      PROVE  g[n] = IF n = 0 THEN [list |-> list, at |-> 0]
                             ELSE InsertBySeq(g[n - 1], notes[n])
  <2>1. CASE n = N + 1
    <3>1. g[n] = InsertBySeq(f[N], notes[N + 1]) /\ g[n - 1] = f[N] /\ n # 0
      BY <2>1
    <3> QED BY <3>1, <2>1
  <2>2. CASE n \in 0 .. N
    <3>1. f[n] = IF n = 0 THEN [list |-> list, at |-> 0]
                          ELSE InsertBySeq(f[n - 1], notes[n])
      BY <2>2, Zenon DEF IsMerge
    <3>2. g[n] = f[n] /\ (n # 0 => g[n - 1] = f[n - 1])
      BY <2>2
    <3> QED BY <3>1, <3>2
  <2> QED BY <2>1, <2>2
<1>2. IsMerge(g, list, notes, N + 1)
  BY <1>1 DEF IsMerge
<1> QED BY <1>2

LEMMA MergeExists ==
  ASSUME NEW list, NEW notes, NEW N \in Nat
  PROVE  \E f : IsMerge(f, list, notes, N)
<1> DEFINE T == {n \in Nat : ~\E f : IsMerge(f, list, notes, n)}
<1>1. SUFFICES ASSUME T # {} PROVE FALSE
  OBVIOUS
<1>2. PICK m \in T : \A n \in T : m =< n
  BY <1>1, LeastNumber
<1>3. m \in Nat /\ ~\E f : IsMerge(f, list, notes, m)
  BY <1>2
<1>4. CASE m = 0
  <2>1. IsMerge([n \in 0 .. 0 |-> [list |-> list, at |-> 0]], list, notes, 0)
    BY DEF IsMerge
  <2> QED BY <2>1, <1>3, <1>4
<1>5. CASE m # 0
  <2>1. m - 1 \in Nat /\ (m - 1) + 1 = m /\ ~(m =< m - 1)
    BY <1>3, <1>5
  <2>2. \E f : IsMerge(f, list, notes, m - 1)
    BY <2>1, <1>2
  <2>3. \E f : IsMerge(f, list, notes, (m - 1) + 1)
    BY <2>1, <2>2, MergeGoesOn
  <2> QED BY <2>1, <2>3, <1>3
<1> QED BY <1>4, <1>5

LEMMA MergeRounds ==
  ASSUME NEW list, NEW notes, Len(notes) \in Nat
  PROVE  \E merge : /\ merge[0] = [list |-> list, at |-> 0]
                    /\ \A n \in 1 .. Len(notes) : merge[n] = InsertBySeq(merge[n - 1], notes[n])
                    /\ MergeBySeq(list, notes) = merge[Len(notes)].list
<1> DEFINE merge == CHOOSE f : IsMerge(f, list, notes, Len(notes))
<1>1. IsMerge(merge, list, notes, Len(notes))
  BY MergeExists
<1>2. MergeBySeq(list, notes) = merge[Len(notes)].list
  BY DEF MergeBySeq, IsMerge
<1> HIDE DEF merge
<1>3. merge[0] = [list |-> list, at |-> 0]
  BY <1>1 DEF IsMerge
<1>4. ASSUME NEW n \in 1 .. Len(notes)
      PROVE  merge[n] = InsertBySeq(merge[n - 1], notes[n])
  <2>1. n \in 0 .. Len(notes) /\ n # 0
    BY <1>4
  <2>2. merge[n] = IF n = 0 THEN [list |-> list, at |-> 0]
                            ELSE InsertBySeq(merge[n - 1], notes[n])
    BY <1>1, <2>1, Zenon DEF IsMerge
  <2> QED BY <2>1, <2>2
<1> QED BY <1>2, <1>3, <1>4

\* A note put behind the at-th of a list.
Insert(list, at, note) == InsertAt(list, at + 1, note)

LEMMA Inserted ==
  ASSUME NEW S, NEW list \in Seq(S), NEW at \in 0 .. Len(list), NEW note \in S
  PROVE  /\ Insert(list, at, note) \in Seq(S)
         /\ DOMAIN Insert(list, at, note) = 1 .. Len(list) + 1
         /\ \A i \in 1 .. Len(list) + 1 :
              Insert(list, at, note)[i] = IF i =< at THEN list[i]
                                          ELSE IF i = at + 1 THEN note ELSE list[i - 1]
<1> DEFINE f == Until(list, at)
           a == After(list, at)
<1>1. /\ f \in Seq(S) /\ Len(f) = at /\ \A i \in 1 .. at : f[i] = list[i]
      /\ a \in Seq(S) /\ Len(a) = Len(list) - at
      /\ \A i \in 1 .. Len(list) - at : a[i] = list[at + i]
  BY Parts, PartsTyped, ElementsOf
<1>2. Len(list) \in Nat
  OBVIOUS
<1>3. (at + 1) - 1 = at /\ 1 + at = at + 1
  BY <1>2
<1>4. Insert(list, at, note) = (f \o <<note>>) \o a
  BY <1>3 DEF Insert, InsertAt, Until, After
<1> HIDE DEF f, a
<1> DEFINE g == f \o <<note>>
<1>5. /\ g \in Seq(S) /\ Len(g) = at + 1 /\ g[at + 1] = note
      /\ \A i \in 1 .. at : g[i] = list[i]
  <2>1. g = Append(f, note)
    BY <1>1
  <2>2. /\ Append(f, note) \in Seq(S) /\ Len(Append(f, note)) = Len(f) + 1
        /\ \A i \in 1 .. Len(f) : Append(f, note)[i] = f[i]
        /\ Append(f, note)[Len(f) + 1] = note
    BY <1>1, AppendProperties
  <2> QED BY <2>1, <2>2, <1>1, <1>2
<1> HIDE DEF g
<1> DEFINE h == g \o a
<1>6. /\ h \in Seq(S) /\ Len(h) = Len(list) + 1
      /\ \A i \in 1 .. at + 1 : h[i] = g[i]
      /\ \A i \in at + 2 .. Len(list) + 1 : h[i] = a[i - (at + 1)]
  BY <1>1, <1>2, <1>5
<1>7. \A i \in at + 2 .. Len(list) + 1 : h[i] = list[i - 1]
  <2>1. SUFFICES ASSUME NEW i \in at + 2 .. Len(list) + 1 PROVE h[i] = list[i - 1]
    OBVIOUS
  <2>2. i - (at + 1) \in 1 .. Len(list) - at /\ at + (i - (at + 1)) = i - 1
    BY <1>2
  <2>3. a[i - (at + 1)] = list[i - 1]
    BY <2>2, <1>1
  <2> QED BY <2>3, <1>6
<1>8. Insert(list, at, note) = h
  BY <1>4 DEF g, h
<1> HIDE DEF h
<1>9. DOMAIN h = 1 .. Len(list) + 1
  BY <1>6
<1>10. \A i \in 1 .. Len(list) + 1 :
         h[i] = IF i =< at THEN list[i] ELSE IF i = at + 1 THEN note ELSE list[i - 1]
  <2>1. SUFFICES ASSUME NEW i \in 1 .. Len(list) + 1
                 PROVE  h[i] = IF i =< at THEN list[i]
                               ELSE IF i = at + 1 THEN note ELSE list[i - 1]
    OBVIOUS
  <2>2. CASE i =< at
    <3>1. i \in 1 .. at /\ i \in 1 .. at + 1
      BY <2>2
    <3> QED BY <3>1, <2>2, <1>5, <1>6
  <2>3. CASE i = at + 1
    <3>1. at + 1 \in 1 .. at + 1 /\ ~(at + 1 =< at)
      BY <1>2
    <3> QED BY <3>1, <2>3, <1>5, <1>6
  <2>4. CASE i > at + 1
    <3>1. i \in at + 2 .. Len(list) + 1 /\ ~(i =< at) /\ i # at + 1
      BY <2>4, <1>2
    <3> QED BY <3>1, <1>7
  <2> QED BY <2>2, <2>3, <2>4, <1>2
<1> QED BY <1>6, <1>8, <1>9, <1>10

\* Where the search from a place ends.
LEMMA PlaceFound ==
  ASSUME NEW list, IsList(list), NEW from \in 0 .. Len(list), NEW note
  PROVE  /\ PlaceFor(list, from, note) \in from .. Len(list)
         /\ \/ PlaceFor(list, from, note) = Len(list)
            \/ list[PlaceFor(list, from, note) + 1].seq >= note.seq
         /\ \A i \in from .. Len(list) :
              i < PlaceFor(list, from, note) => ~(list[i + 1].seq >= note.seq)
<1> DEFINE T == {i \in from .. Len(list) : i = Len(list) \/ list[i + 1].seq >= note.seq}
<1>1. Len(list) \in Nat
  BY ListBasics
<1>2. Min(T) \in T /\ \A i \in T : Min(T) =< i
  <2>1. T \subseteq Nat
    BY <1>1
  <2>2. Len(list) \in T
    BY <1>1
  <2> QED BY <2>1, <2>2, MinNumber
<1>3. PlaceFor(list, from, note) = Min(T)
  BY DEF PlaceFor
<1>4. Min(T) \in from .. Len(list) /\ (Min(T) = Len(list) \/ list[Min(T) + 1].seq >= note.seq)
  BY <1>2
<1>5. ASSUME NEW i \in from .. Len(list), i < Min(T)
      PROVE  ~(list[i + 1].seq >= note.seq)
  <2>1. i \notin T
    BY <1>1, <1>2, <1>4, <1>5
  <2> QED BY <2>1
<1> QED BY <1>3, <1>4, <1>5

\* The list, and the place in it, after n rounds.
Merged(acc, list, notes, n, ps) ==
  /\ OrderedList(acc.list, ps)
  /\ acc.at \in 0 .. Len(acc.list)
  /\ n = 0 => acc.at = 0
  /\ n > 0 => acc.at > 0 /\ acc.list[acc.at] = notes[n]
  /\ \A e : In(acc.list, e) <=> In(list, e) \/ \E i \in 1 .. n : notes[i].event = e

LEMMA NumbersOfOrdered ==
  ASSUME NEW ps, NEW s, OrderedList(s, ps)
  PROVE  /\ IsList(s) /\ DOMAIN s = 1 .. Len(s) /\ Len(s) \in Nat
         /\ \A i \in DOMAIN s : /\ s[i] \in GoodNotes(ps) /\ s[i].event.kind = "ordered"
                                /\ s[i].seq \in Nat /\ s[i].seq = s[i].event.num
                                /\ s[i].event \in PostedBy(ps)
<1>1. s \in Seq(GoodNotes(ps))
  BY DEF OrderedList
<1>2. IsList(s) /\ \A i \in DOMAIN s : s[i] \in GoodNotes(ps)
  BY <1>1, GoodElements
<1>3. \A i \in DOMAIN s : s[i].event.kind = "ordered"
  BY DEF OrderedList
<1> QED BY <1>2, <1>3, ListBasics, GoodNote

LEMMA MergeOne ==
  ASSUME NEW ps, NEW list, NEW notes, OrderedList(notes, ps), NEW n \in 1 .. Len(notes),
         ~In(list, notes[n].event),
         NEW acc, Merged(acc, list, notes, n - 1, ps)
  PROVE  Merged(InsertBySeq(acc, notes[n]), list, notes, n, ps)
<1> DEFINE old  == acc.list
           note == notes[n]
           p    == PlaceFor(old, acc.at, note)
           new  == Insert(old, p, note)
<1>1. /\ IsList(notes) /\ DOMAIN notes = 1 .. Len(notes) /\ Len(notes) \in Nat
      /\ \A i \in DOMAIN notes : notes[i] \in GoodNotes(ps) /\ notes[i].event.kind = "ordered"
      /\ \A i \in DOMAIN notes : notes[i].seq \in Nat
      /\ Distinct(notes) /\ Ascending(notes)
  BY NumbersOfOrdered, OrderedDistinct DEF OrderedList
<1>2. /\ OrderedList(old, ps) /\ acc.at \in 0 .. Len(old)
      /\ n = 1 => acc.at = 0
      /\ n > 1 => acc.at > 0 /\ old[acc.at] = notes[n - 1]
      /\ \A e : In(old, e) <=> In(list, e) \/ \E i \in 1 .. n - 1 : notes[i].event = e
  BY DEF Merged
<1>3. /\ IsList(old) /\ DOMAIN old = 1 .. Len(old) /\ Len(old) \in Nat
      /\ \A i \in DOMAIN old : old[i] \in GoodNotes(ps) /\ old[i].event.kind = "ordered"
      /\ \A i \in DOMAIN old : old[i].seq \in Nat
      /\ Ascending(old) /\ old \in Seq(GoodNotes(ps))
  BY <1>2, NumbersOfOrdered DEF OrderedList
<1>4. note \in GoodNotes(ps) /\ note.event.kind = "ordered" /\ note.seq \in Nat
  BY <1>1
<1>5. /\ p \in acc.at .. Len(old)
      /\ p = Len(old) \/ old[p + 1].seq >= note.seq
      /\ \A i \in acc.at .. Len(old) : i < p => ~(old[i + 1].seq >= note.seq)
  BY <1>2, <1>3, PlaceFound
<1>6. InsertBySeq(acc, note) = [list |-> new, at |-> p + 1]
  BY DEF InsertBySeq, Insert
<1>7. p \in 0 .. Len(old) /\ p \in Nat
  BY <1>2, <1>3, <1>5
<1> HIDE DEF note, p, old
<1>8. /\ new \in Seq(GoodNotes(ps)) /\ DOMAIN new = 1 .. Len(old) + 1
      /\ \A i \in 1 .. Len(old) + 1 :
           new[i] = IF i =< p THEN old[i] ELSE IF i = p + 1 THEN note ELSE old[i - 1]
  <2>1. old \in Seq(GoodNotes(ps)) /\ p \in 0 .. Len(old) /\ note \in GoodNotes(ps)
    BY <1>3, <1>4, <1>7
  <2>2. /\ Insert(old, p, note) \in Seq(GoodNotes(ps))
        /\ DOMAIN Insert(old, p, note) = 1 .. Len(old) + 1
        /\ \A i \in 1 .. Len(old) + 1 :
             Insert(old, p, note)[i]
               = IF i =< p THEN old[i] ELSE IF i = p + 1 THEN note ELSE old[i - 1]
    BY <2>1, Inserted
  <2> QED BY <2>2, Zenon
<1> HIDE DEF new
<1>9. \A i \in DOMAIN new : \/ i =< p /\ i \in DOMAIN old /\ new[i] = old[i]
                            \/ i = p + 1 /\ new[i] = note
                            \/ i > p + 1 /\ i - 1 \in DOMAIN old /\ new[i] = old[i - 1]
  BY <1>3, <1>7, <1>8
<1>10. ~In(old, note.event)
  <2>1. \A i \in 1 .. n - 1 : i \in DOMAIN notes /\ n \in DOMAIN notes /\ i # n
    BY <1>1
  <2>2. \A i \in 1 .. n - 1 : notes[i].event # notes[n].event
    BY <2>1, <1>1 DEF Distinct
  <2> QED BY <2>2, <1>2 DEF note, old
<1>11. \A i \in DOMAIN old : old[i].seq # note.seq
  BY <1>3, <1>4, <1>10, SameNumber DEF In
<1>12. ASSUME NEW i \in DOMAIN old, i =< p
       PROVE  old[i].seq < note.seq
  <2>1. CASE i > acc.at
    <3>1. i - 1 \in acc.at .. Len(old) /\ i - 1 < p /\ (i - 1) + 1 = i
      BY <2>1, <1>2, <1>3, <1>7, <1>12 DEF old
    <3>2. ~(old[i].seq >= note.seq)
      BY <3>1, <1>5
    <3> QED BY <3>2, <1>3, <1>4
  <2>2. CASE i =< acc.at
    <3>1. n > 1 /\ acc.at \in DOMAIN old /\ acc.at > 0
      BY <2>2, <1>1, <1>2, <1>3 DEF old
    <3>2. old[acc.at] = notes[n - 1]
      BY <3>1, <1>2 DEF old
    <3>3. n - 1 \in DOMAIN notes /\ n \in DOMAIN notes /\ n - 1 < n
      BY <3>1, <1>1
    <3>4. old[acc.at].seq < note.seq
      BY <3>2, <3>3, <1>1 DEF Ascending, note
    <3>5. i = acc.at \/ old[i].seq < old[acc.at].seq
      BY <2>2, <3>1, <1>3 DEF Ascending
    <3> QED BY <3>1, <3>4, <3>5, <1>3, <1>4
  <2> QED BY <2>1, <2>2, <1>2, <1>3 DEF old
<1>13. ASSUME NEW i \in DOMAIN old, i > p
       PROVE  note.seq < old[i].seq
  <2>1. p + 1 \in DOMAIN old /\ old[p + 1].seq >= note.seq
    <3>1. i =< Len(old) /\ i \in Nat /\ Len(old) \in Nat
      BY <1>3
    <3>2. i > p /\ p \in Nat
      BY <1>7, <1>13
    <3>3. p + 1 \in 1 .. Len(old) /\ p # Len(old)
      BY <3>1, <3>2
    <3>4. p + 1 \in DOMAIN old
      BY <3>3, <1>3
    <3> QED BY <3>3, <3>4, <1>5, Zenon
  <2>2. i = p + 1 \/ old[p + 1].seq < old[i].seq
    BY <2>1, <1>3, <1>7, <1>13 DEF Ascending
  <2>3. note.seq < old[p + 1].seq
    <3>1. old[p + 1].seq # note.seq /\ old[p + 1].seq \in Nat
      BY <2>1, <1>3, <1>11
    <3> QED BY <3>1, <2>1, <1>4
  <2>4. old[i].seq \in Nat /\ old[p + 1].seq \in Nat
    BY <2>1, <1>3, <1>13
  <2> QED BY <2>2, <2>3, <2>4, <1>4
<1>14. Ascending(new)
  <2>1. SUFFICES ASSUME NEW i \in DOMAIN new, NEW j \in DOMAIN new, i < j
                 PROVE  new[i].seq < new[j].seq
    BY DEF Ascending
  <2>2. i \in Nat /\ j \in Nat
    BY <1>3, <1>8
  <2>3. CASE i =< p /\ i \in DOMAIN old /\ new[i] = old[i]
    <3>1. CASE j \in DOMAIN old /\ new[j] = old[j]
      BY <2>1, <2>3, <3>1, <1>3 DEF Ascending
    <3>2. CASE new[j] = note
      BY <2>3, <3>2, <1>12
    <3>3. CASE j > p + 1 /\ j - 1 \in DOMAIN old /\ new[j] = old[j - 1]
      <4>1. i < j - 1
        BY <2>2, <2>3, <3>3, <1>7
      <4> QED BY <4>1, <2>3, <3>3, <1>3 DEF Ascending
    <3> QED BY <3>1, <3>2, <3>3, <1>9
  <2>4. CASE i = p + 1 /\ new[i] = note
    <3>1. j > p + 1 /\ j - 1 \in DOMAIN old /\ new[j] = old[j - 1]
      BY <2>1, <2>2, <2>4, <1>7, <1>9
    <3>2. j - 1 > p
      BY <3>1, <2>2, <1>7
    <3> QED BY <3>1, <3>2, <2>4, <1>13
  <2>5. CASE i > p + 1 /\ i - 1 \in DOMAIN old /\ new[i] = old[i - 1]
    <3>1. j > p + 1 /\ j - 1 \in DOMAIN old /\ new[j] = old[j - 1]
      BY <2>1, <2>2, <2>5, <1>7, <1>9
    <3>2. i - 1 < j - 1
      BY <2>1, <2>2
    <3> QED BY <3>1, <3>2, <2>5, <1>3 DEF Ascending
  <2> QED BY <2>3, <2>4, <2>5, <1>9
<1>15. OrderedList(new, ps)
  <2>1. \A i \in DOMAIN new : new[i].event.kind = "ordered"
    BY <1>3, <1>4, <1>9
  <2> QED BY <2>1, <1>8, <1>14 DEF OrderedList
<1>16. \A e : In(new, e) <=> In(old, e) \/ note.event = e
  <2>1. \A e : In(new, e) => In(old, e) \/ note.event = e
    BY <1>9 DEF In
  <2>2. In(new, note.event)
    <3>1. p + 1 \in DOMAIN new /\ new[p + 1] = note
      BY <1>3, <1>7, <1>8
    <3> QED BY <3>1 DEF In
  <2>3. ASSUME NEW i \in DOMAIN old
        PROVE  In(new, old[i].event)
    <3>1. CASE i =< p
      <4>1. i \in DOMAIN new /\ new[i] = old[i]
        BY <3>1, <1>3, <1>7, <1>8
      <4> QED BY <4>1 DEF In
    <3>2. CASE i > p
      <4>1. i + 1 \in DOMAIN new /\ ~(i + 1 =< p) /\ i + 1 # p + 1 /\ (i + 1) - 1 = i
        BY <3>2, <1>3, <1>7, <1>8
      <4>2. new[i + 1] = old[i]
        BY <4>1, <1>8
      <4> QED BY <4>1, <4>2 DEF In
    <3> QED BY <3>1, <3>2, <1>3, <1>7
  <2>4. \A e : In(old, e) => In(new, e)
    BY <2>3 DEF In
  <2> QED BY <2>1, <2>2, <2>4
<1>17. \A e : In(new, e) <=> In(list, e) \/ \E i \in 1 .. n : notes[i].event = e
  <2>1. \A i : i \in 1 .. n <=> i = n \/ i \in 1 .. n - 1
    OBVIOUS
  <2>2. \A e : (\E i \in 1 .. n : notes[i].event = e) <=>
                 (note.event = e \/ \E i \in 1 .. n - 1 : notes[i].event = e)
    BY <2>1, Zenon DEF note
  <2> QED BY <2>2, <1>2, <1>16 DEF old
<1>18. p + 1 \in 0 .. Len(new) /\ new[p + 1] = note /\ p + 1 > 0
  <2>1. Len(new) = Len(old) + 1
    BY <1>3, <1>8
  <2> QED BY <2>1, <1>3, <1>7, <1>8
<1> DEFINE res == InsertBySeq(acc, note)
<1>19. res.list = new /\ res.at = p + 1
  BY <1>6
<1> HIDE DEF res
<1>20. Merged(res, list, notes, n, ps)
  BY <1>15, <1>17, <1>18, <1>19 DEF Merged, note
<1> QED BY <1>20 DEF res, note

LEMMA AllMerged ==
  ASSUME NEW ps, NEW list, OrderedList(list, ps), NEW notes, OrderedList(notes, ps),
         \A i \in DOMAIN notes : ~In(list, notes[i].event)
  PROVE  \E acc : Merged(acc, list, notes, Len(notes), ps) /\ MergeBySeq(list, notes) = acc.list
<1>1. Len(notes) \in Nat /\ DOMAIN notes = 1 .. Len(notes)
  BY NumbersOfOrdered
<1>2. PICK merge : /\ merge[0] = [list |-> list, at |-> 0]
                   /\ \A n \in 1 .. Len(notes) : merge[n] = InsertBySeq(merge[n - 1], notes[n])
                   /\ MergeBySeq(list, notes) = merge[Len(notes)].list
  BY <1>1, MergeRounds
<1> DEFINE T == {n \in 0 .. Len(notes) : ~Merged(merge[n], list, notes, n, ps)}
<1>3. SUFFICES ASSUME T # {} PROVE FALSE
  BY <1>1, <1>2
<1>4. PICK m \in T : \A n \in T : m =< n
  <2>1. T \subseteq Nat
    BY <1>1
  <2> QED BY <2>1, <1>3, LeastNumber
<1>5. m \in 0 .. Len(notes) /\ ~Merged(merge[m], list, notes, m, ps)
  BY <1>4
<1>6. m # 0
  <2>1. merge[0].list = list /\ merge[0].at = 0
    BY <1>2
  <2>2. Len(list) \in Nat
    BY NumbersOfOrdered
  <2>3. Merged(merge[0], list, notes, 0, ps)
    BY <2>1, <2>2 DEF Merged
  <2> QED BY <2>3, <1>5
<1>7. m - 1 \in 0 .. Len(notes) /\ m \in 1 .. Len(notes) /\ ~(m =< m - 1)
  BY <1>1, <1>5, <1>6
<1>8. Merged(merge[m - 1], list, notes, m - 1, ps)
  BY <1>4, <1>7
<1> QED BY <1>1, <1>2, <1>5, <1>7, <1>8, MergeOne

\* Notes that are not in the list go to their places in it.
LEMMA NotesMerged ==
  ASSUME NEW ps, NEW list, OrderedList(list, ps), NEW notes, OrderedList(notes, ps),
         \A e : ~(In(list, e) /\ In(notes, e))
  PROVE  /\ OrderedList(MergeBySeq(list, notes), ps)
         /\ \A e : In(MergeBySeq(list, notes), e) <=> In(list, e) \/ In(notes, e)
<1>1. \A i \in DOMAIN notes : ~In(list, notes[i].event)
  BY DEF In
<1>2. PICK acc : Merged(acc, list, notes, Len(notes), ps) /\ MergeBySeq(list, notes) = acc.list
  BY <1>1, AllMerged
<1>3. DOMAIN notes = 1 .. Len(notes)
  BY NumbersOfOrdered
<1>4. \A e : In(acc.list, e) <=> In(list, e) \/ \E i \in DOMAIN notes : notes[i].event = e
  BY <1>2, <1>3 DEF Merged
<1>5. OrderedList(acc.list, ps)
  BY <1>2 DEF Merged
<1> QED BY <1>2, <1>4, <1>5 DEF In

-----------------------------------------------------------------------------
(* The notes at the head of a list that are due.                           *)

LEMMA RunFound ==
  ASSUME NEW ps, NEW list, OrderedList(list, ps), NEW next \in Nat,
         \A i \in DOMAIN list : list[i].seq >= next
  PROVE  /\ RunLength(list, next) \in 0 .. Len(list)
         /\ \A i \in 1 .. RunLength(list, next) : list[i].seq = next + i - 1
         /\ \A i \in DOMAIN list : i > RunLength(list, next) =>
              list[i].seq > next + RunLength(list, next)
<1> DEFINE T == {n \in 0 .. Len(list) : \A i \in 1 .. n : list[i].seq = next + i - 1}
           run == Max(T)
<1>1. /\ DOMAIN list = 1 .. Len(list) /\ Len(list) \in Nat /\ Ascending(list)
      /\ \A i \in DOMAIN list : list[i].seq \in Nat
  BY NumbersOfOrdered DEF OrderedList
<1>2. run \in T /\ \A n \in T : run >= n
  <2>1. T \subseteq 0 .. Len(list)
    OBVIOUS
  <2>2. 0 \in T
    BY <1>1
  <2> QED BY <2>1, <2>2, <1>1, MaxNumber
<1>3. RunLength(list, next) = run
  BY DEF RunLength
<1>4. run \in 0 .. Len(list) /\ \A i \in 1 .. run : list[i].seq = next + i - 1
  BY <1>2
<1>5. ASSUME run < Len(list)
      PROVE  list[run + 1].seq > next + run
  <2>1. run + 1 \notin T
    <3>1. ~(run >= run + 1)
      BY <1>1, <1>4
    <3> QED BY <3>1, <1>2
  <2>2. run + 1 \in 0 .. Len(list) /\ run + 1 \in DOMAIN list /\ run \in Nat
    BY <1>1, <1>4, <1>5
  <2>3. PICK i \in 1 .. run + 1 : list[i].seq # next + i - 1
    BY <2>1, <2>2
  <2>4. i = run + 1
    BY <2>2, <2>3, <1>4
  <2>5. list[run + 1].seq # next + run
    BY <2>2, <2>3, <2>4
  <2>6. list[run + 1].seq >= next + run
    <3>1. CASE run = 0
      BY <3>1, <2>2
    <3>2. CASE run # 0
      <4>1. run \in 1 .. run /\ run \in DOMAIN list /\ run < run + 1
        BY <3>2, <2>2, <1>1, <1>4
      <4>2. list[run].seq = next + run - 1
        BY <4>1, <1>4
      <4>3. list[run].seq < list[run + 1].seq
        BY <4>1, <2>2, <1>1 DEF Ascending
      <4>4. list[run + 1].seq \in Nat
        BY <2>2, <1>1
      <4> QED BY <4>2, <4>3, <4>4, <2>2
    <3> QED BY <3>1, <3>2
  <2>7. list[run + 1].seq \in Nat
    BY <2>2, <1>1
  <2> QED BY <2>2, <2>5, <2>6, <2>7
<1> HIDE DEF run
<1>6. ASSUME NEW i \in DOMAIN list, i > run
      PROVE  list[i].seq > next + run
  <2>1. run < Len(list) /\ run + 1 \in DOMAIN list /\ run \in Nat
    <3>1. i =< Len(list) /\ i \in Nat /\ Len(list) \in Nat /\ run \in Nat
      BY <1>1, <1>4
    <3> QED BY <3>1, <1>1, <1>6
  <2>2. i = run + 1 \/ list[run + 1].seq < list[i].seq
    <3>1. i = run + 1 \/ run + 1 < i
      BY <2>1, <1>1, <1>6
    <3> QED BY <3>1, <2>1, <1>1 DEF Ascending
  <2>3. list[i].seq \in Nat /\ list[run + 1].seq \in Nat
    BY <2>1, <1>1
  <2> QED BY <2>1, <2>2, <2>3, <1>5
<1> QED BY <1>3, <1>4, <1>6

LEMMA RunTaken ==
  ASSUME NEW ps, NEW list, OrderedList(list, ps), NEW next \in Nat,
         \A i \in DOMAIN list : list[i].seq >= next,
         NEW run, run = RunLength(list, next)
  PROVE  /\ run \in 0 .. Len(list)
         /\ \A i \in 1 .. run : list[i].event = [kind |-> "ordered", num |-> next + i - 1]
         /\ \A e \in PostedBy(ps) : e.kind = "ordered" =>
              /\ In(Until(list, run), e) <=> In(list, e) /\ e.num < next + run
              /\ In(After(list, run), e) <=> In(list, e) /\ ~(e.num < next + run)
              /\ next =< e.num /\ e.num < next + run => In(list, e)
         /\ \A i \in DOMAIN After(list, run) : After(list, run)[i].seq > next + run
<1>1. /\ IsList(list) /\ DOMAIN list = 1 .. Len(list) /\ Len(list) \in Nat
      /\ \A i \in DOMAIN list : /\ list[i].seq \in Nat /\ list[i].seq = list[i].event.num
                                /\ list[i].event.kind = "ordered"
                                /\ list[i].event \in PostedBy(ps)
  BY NumbersOfOrdered
<1>2. /\ run \in 0 .. Len(list)
      /\ \A i \in 1 .. run : list[i].seq = next + i - 1
      /\ \A i \in DOMAIN list : i > run => list[i].seq > next + run
  BY RunFound
<1> DEFINE f == Until(list, run)
           a == After(list, run)
<1>3. /\ DOMAIN f = 1 .. run /\ \A i \in 1 .. run : f[i] = list[i]
      /\ DOMAIN a = 1 .. Len(list) - run /\ \A i \in 1 .. Len(list) - run : a[i] = list[run + i]
      /\ \A i \in DOMAIN a : run + i \in DOMAIN list /\ a[i] = list[run + i]
  <2>1. IsList(list) /\ run \in 0 .. Len(list)
    BY <1>1, <1>2
  <2>2. \A i \in DOMAIN a : run + i \in DOMAIN list /\ a[i] = list[run + i]
    BY <2>1, PartsElements
  <2>3. /\ DOMAIN f = 1 .. run /\ \A i \in 1 .. run : f[i] = list[i]
        /\ DOMAIN a = 1 .. Len(list) - run /\ \A i \in 1 .. Len(list) - run : a[i] = list[run + i]
    BY <2>1, Parts
  <2> QED BY <2>2, <2>3
<1>4. \A e : In(list, e) <=> In(f, e) \/ In(a, e)
  BY <1>1, <1>2, PartsHold
<1> HIDE DEF f, a
<1>5. \A i \in 1 .. run : /\ i \in DOMAIN list
                          /\ list[i].event = [kind |-> "ordered", num |-> next + i - 1]
  <2>1. SUFFICES ASSUME NEW i \in 1 .. run
                 PROVE  /\ i \in DOMAIN list
                        /\ list[i].event = [kind |-> "ordered", num |-> next + i - 1]
    OBVIOUS
  <2>2. i \in DOMAIN list
    BY <1>1, <1>2
  <2>3. /\ list[i].event \in Possible /\ list[i].event.kind = "ordered"
        /\ list[i].event.num = next + i - 1
    BY <2>2, <1>1, <1>2 DEF PostedBy
  <2> QED BY <2>2, <2>3, PossibleEvent
<1>6. \A i \in DOMAIN a : a[i].seq > next + run
  <2>1. SUFFICES ASSUME NEW i \in DOMAIN a PROVE a[i].seq > next + run
    OBVIOUS
  <2>2. run + i > run
    BY <1>1, <1>2, <1>3
  <2> QED BY <2>2, <1>2, <1>3
<1>7. \A e : In(f, e) => e.num < next + run
  <2>1. SUFFICES ASSUME NEW i \in 1 .. run PROVE f[i].event.num < next + run
    BY <1>3 DEF In
  <2>2. f[i].event.num = next + i - 1
    <3>1. f[i] = list[i] /\ list[i].event = [kind |-> "ordered", num |-> next + i - 1]
      BY <1>3, <1>5
    <3> QED BY <3>1
  <2> QED BY <2>2, <1>1, <1>2
<1>8. \A e : In(a, e) => ~(e.num < next + run)
  <2>1. SUFFICES ASSUME NEW i \in DOMAIN a PROVE ~(a[i].event.num < next + run)
    BY DEF In
  <2>2. a[i].seq = a[i].event.num /\ a[i].seq \in Nat /\ run \in Nat
    BY <1>1, <1>2, <1>3
  <2> QED BY <2>2, <1>6
<1>9. ASSUME NEW e \in PostedBy(ps), e.kind = "ordered", next =< e.num, e.num < next + run
      PROVE  In(list, e)
  <2>1. e = [kind |-> "ordered", num |-> e.num] /\ e.num \in Nat
    BY <1>9, PossibleEvent DEF PostedBy
  <2>2. e.num - next + 1 \in 1 .. run /\ next + (e.num - next + 1) - 1 = e.num
    BY <2>1, <1>1, <1>2, <1>9
  <2>3. list[e.num - next + 1].event = e /\ e.num - next + 1 \in DOMAIN list
    BY <2>1, <2>2, <1>5
  <2> QED BY <2>3 DEF In
<1> QED BY <1>2, <1>4, <1>5, <1>6, <1>7, <1>8, <1>9 DEF f, a

-----------------------------------------------------------------------------
(* What is told of an event, and how often it is read.                     *)

LEMMA CountedOnce ==
  ASSUME NEW notes, NEW e, Once(notes, e)
  PROVE  Count(notes, e) = 1
<1>1. PICK i \in DOMAIN notes : /\ notes[i].event = e
                                /\ \A j \in DOMAIN notes : notes[j].event = e => j = i
  BY DEF Once
<1>2. {j \in DOMAIN notes : notes[j].event = e} = {i}
  BY <1>1
<1> QED BY <1>2, FS_Singleton DEF Count

LEMMA CountedNone ==
  ASSUME NEW notes, NEW e, ~In(notes, e)
  PROVE  Count(notes, e) = 0
<1>1. {j \in DOMAIN notes : notes[j].event = e} = {}
  BY DEF In
<1> QED BY <1>1, FS_EmptySet DEF Count

\* The arguments of notifyDelivered, as the terms that the lemmas below are
\* instantiated with.
Yes == TRUE
No  == FALSE
Unordered    == {"guaranteed", "unguaranteed"}
Unguaranteed == {"unguaranteed"}

LEMMA DeliveredOnce ==
  ASSUME NEW e \in Possible, NEW notes, Once(notes, e), NEW kinds, e.kind \in kinds,
         NEW history, history[e] = <<>>, NEW madeit
  PROVE  NotifyDelivered(history, notes, kinds, madeit)[e] = <<madeit>>
<1>1. NotifyDelivered(history, notes, kinds, madeit)[e] = <<>> \o [n \in 1 .. 1 |-> madeit]
  BY CountedOnce DEF NotifyDelivered
<1>2. [n \in 1 .. 1 |-> madeit] = <<madeit>>
  OBVIOUS
<1>3. <<>> \o <<madeit>> = <<madeit>>
  OBVIOUS
<1> QED BY <1>1, <1>2, <1>3

LEMMA DeliveredNot ==
  ASSUME NEW e \in Possible, NEW notes, ~In(notes, e),
         NEW history, history[e] \in Seq(BOOLEAN), NEW kinds, NEW madeit
  PROVE  NotifyDelivered(history, notes, kinds, madeit)[e] = history[e]
<1>1. Count(notes, e) = 0
  BY CountedNone
<1>2. [n \in 1 .. 0 |-> madeit] = <<>>
  OBVIOUS
<1>3. history[e] \o <<>> = history[e]
  OBVIOUS
<1>4. NotifyDelivered(history, notes, kinds, madeit)[e]
        = IF e.kind \in kinds THEN history[e] \o [n \in 1 .. 0 |-> madeit] ELSE history[e]
  BY <1>1 DEF NotifyDelivered
<1> QED BY <1>2, <1>3, <1>4

LEMMA DeliveredOther ==
  ASSUME NEW e \in Possible, NEW kinds, e.kind \notin kinds, NEW notes, NEW history, NEW madeit
  PROVE  NotifyDelivered(history, notes, kinds, madeit)[e] = history[e]
BY DEF NotifyDelivered

LEMMA DeliveredDomain ==
  ASSUME NEW history, NEW notes, NEW kinds, NEW madeit,
         \A e \in Possible : NotifyDelivered(history, notes, kinds, madeit)[e] \in Seq(BOOLEAN)
  PROVE  NotifyDelivered(history, notes, kinds, madeit) \in [Possible -> Seq(BOOLEAN)]
<1> DEFINE f == NotifyDelivered(history, notes, kinds, madeit)
<1>1. f = [e \in Possible |-> f[e]]
  BY DEF NotifyDelivered
<1> HIDE DEF f
<1>2. f \in [Possible -> Seq(BOOLEAN)]
  BY <1>1 DEF f
<1> QED BY <1>2 DEF f

-----------------------------------------------------------------------------
(* The first states.                                                       *)

LEMMA InitInv == Init => IInv
<1> SUFFICES ASSUME Init PROVE IInv
  OBVIOUS
<1> USE DEF Init
<1>1. PostedBy(posted) = {}
  BY PossibleEvent DEF PostedBy
<1>2. SenderInv(unorderedQueue, sendQueue, notifyList, lastAcked, posted, window, contents)
  <2>1. posted \in [Kinds -> Nat] /\ \A k \in Kinds : posted[k] =< MaxPosted[k]
    BY ConstantTypes
  <2>2. window = <<>> /\ contents = <<>>
    BY DEF Net!Init
  <2>3. window \in Seq(Net!Fates) /\ contents \in Seq(Seq(GoodNotes(posted)))
        /\ Len(contents) = Len(window)
    BY <2>2
  <2>4. DOMAIN contents = {} /\ DOMAIN notifyList = {}
    BY <2>2
  <2> QED BY <2>1, <2>3, <2>4, EmptyLists DEF SenderInv
<1>3. ReceiverInv(lastAcked, posted, nextRecv, waiting, processed, times)
  <2>1. lastAcked + 1 = 0 /\ nextRecv = 0 /\ posted["ordered"] = 0
    BY ConstantTypes DEF InvalidSendEventSeq
  <2>2. processed = [i \in 1 .. nextRecv |-> [kind |-> "ordered", num |-> i - 1]]
    OBVIOUS
  <2>3. times \in [Possible -> {0, 1}] /\ \A e \in Possible : times[e] = 0
    OBVIOUS
  <2>4. DOMAIN waiting = {}
    OBVIOUS
  <2> QED BY <1>1, <2>1, <2>2, <2>3, <2>4, EmptyLists DEF ReceiverInv
<1>4. PlacesInv(unorderedQueue, sendQueue, notifyList, lastAcked, posted, window,
                contents, times, told)
  BY <1>1 DEF PlacesInv
<1> QED BY <1>2, <1>3, <1>4 DEF IInv

-----------------------------------------------------------------------------
(* Posting an event.                                                       *)

LEMMA PostedOne ==
  ASSUME NEW ps \in [Kinds -> Nat], \A k \in Kinds : ps[k] =< MaxPosted[k],
         NEW kind \in Kinds, ps[kind] < MaxPosted[kind],
         NEW qs \in [Kinds -> Nat], qs[kind] = ps[kind] + 1,
         \A k \in Kinds : k # kind => qs[k] = ps[k],
         NEW new, new = [kind |-> kind, num |-> ps[kind]]
  PROVE  /\ \A k \in Kinds : ps[k] =< qs[k] /\ qs[k] =< MaxPosted[k]
         /\ new \in PostedBy(qs) /\ new \notin PostedBy(ps) /\ new \in Possible
         /\ \A e \in PostedBy(qs) : e = new \/ e \in PostedBy(ps)
         /\ PostedBy(ps) \subseteq PostedBy(qs) /\ GoodNotes(ps) \subseteq GoodNotes(qs)
         /\ NoteOf(new) \in GoodNotes(qs)
<1>1. ps[kind] \in Nat /\ MaxPosted[kind] \in Nat
  BY ConstantTypes
<1>2. qs \in [Kinds -> Nat] /\ qs[kind] = ps[kind] + 1 /\ \A k \in Kinds : k # kind => qs[k] = ps[k]
  BY <1>1
<1>3. \A k \in Kinds : ps[k] =< qs[k] /\ qs[k] =< MaxPosted[k]
  <2>1. \A k \in Kinds : MaxPosted[k] \in Nat /\ ps[k] \in Nat
    BY ConstantTypes
  <2> QED BY <1>1, <1>2, <2>1
<1>4. new \in Possible /\ new.kind = kind /\ new.num = ps[kind]
  BY <1>1, EventIsPossible
<1>5. new \in PostedBy(qs) /\ new \notin PostedBy(ps)
  BY <1>1, <1>2, <1>4 DEF PostedBy
<1>6. ASSUME NEW e \in PostedBy(qs), e \notin PostedBy(ps)
      PROVE  e = new
  <2>1. e \in Possible /\ e.num < qs[e.kind] /\ ~(e.num < ps[e.kind])
    BY <1>6 DEF PostedBy
  <2>2. e.kind \in Kinds /\ e.num \in Nat /\ e = [kind |-> e.kind, num |-> e.num]
    BY <2>1, PossibleEvent
  <2>3. e.kind = kind
    BY <2>1, <2>2, <1>2
  <2>4. e.num = ps[kind]
    BY <2>1, <2>2, <2>3, <1>1, <1>2
  <2> QED BY <2>2, <2>3, <2>4
<1>7. NoteOf(new) \in GoodNotes(qs)
  BY <1>5 DEF GoodNotes
<1>8. PostedBy(ps) \subseteq PostedBy(qs) /\ GoodNotes(ps) \subseteq GoodNotes(qs)
  <2>1. \A k \in Kinds : ps[k] =< qs[k]
    BY <1>3
  <2> QED BY <2>1, <1>2, MoreGoodNotes
<1> QED BY <1>2, <1>3, <1>4, <1>5, <1>6, <1>7, <1>8

LEMMA MoreLists ==
  ASSUME NEW ps, NEW qs, GoodNotes(ps) \subseteq GoodNotes(qs), NEW s
  PROVE  /\ s \in Seq(GoodNotes(ps)) => s \in Seq(GoodNotes(qs))
         /\ UnorderedList(s, ps) => UnorderedList(s, qs)
         /\ OrderedList(s, ps) => OrderedList(s, qs)
         /\ PacketList(s, ps) => PacketList(s, qs)
<1>1. s \in Seq(GoodNotes(ps)) => s \in Seq(GoodNotes(qs))
  OBVIOUS
<1> QED BY <1>1 DEF UnorderedList, OrderedList, PacketList

LEMMA NotYetInList ==
  ASSUME NEW ps, NEW s \in Seq(GoodNotes(ps)), NEW e, e \notin PostedBy(ps)
  PROVE  ~In(s, e)
BY GoodElements, GoodNote DEF In

\* A list with one more note.
With(s, note) == Append(s, note)

LEMMA WithHolds ==
  ASSUME NEW S, NEW s \in Seq(S), NEW note \in S
  PROVE  /\ With(s, note) \in Seq(S)
         /\ \A i \in DOMAIN With(s, note) :
              \/ i \in DOMAIN s /\ With(s, note)[i] = s[i]
              \/ i = Len(s) + 1 /\ With(s, note)[i] = note
         /\ \A e : In(With(s, note), e) <=> In(s, e) \/ note.event = e
<1> DEFINE t == With(s, note)
<1>1. /\ t \in Seq(S) /\ DOMAIN s = 1 .. Len(s) /\ Len(s) \in Nat
      /\ DOMAIN t = 1 .. Len(s) + 1
      /\ \A i \in 1 .. Len(s) : t[i] = s[i]
      /\ t[Len(s) + 1] = note
  BY AppendProperties DEF With
<1> HIDE DEF t
<1>2. \A i \in DOMAIN t : (i \in DOMAIN s /\ t[i] = s[i]) \/ (i = Len(s) + 1 /\ t[i] = note)
  BY <1>1
<1>3. \A i \in DOMAIN s : i \in DOMAIN t /\ t[i] = s[i]
  BY <1>1
<1>4. Len(s) + 1 \in DOMAIN t
  BY <1>1
<1>5. \A e : In(t, e) => In(s, e) \/ note.event = e
  BY <1>2 DEF In
<1>6. \A e : In(s, e) => In(t, e)
  BY <1>3 DEF In
<1>7. In(t, note.event)
  BY <1>1, <1>4 DEF In
<1> QED BY <1>1, <1>2, <1>5, <1>6, <1>7 DEF t

LEMMA WithUnordered ==
  ASSUME NEW qs, NEW s, UnorderedList(s, qs), NEW note \in GoodNotes(qs),
         note.event.kind # "ordered", ~In(s, note.event)
  PROVE  UnorderedList(With(s, note), qs)
<1> DEFINE t == With(s, note)
<1>1. /\ s \in Seq(GoodNotes(qs)) /\ Distinct(s)
      /\ \A i \in DOMAIN s : s[i].event.kind # "ordered"
  BY DEF UnorderedList
<1>2. /\ t \in Seq(GoodNotes(qs))
      /\ \A i \in DOMAIN t : (i \in DOMAIN s /\ t[i] = s[i]) \/ (i = Len(s) + 1 /\ t[i] = note)
  BY <1>1, WithHolds
<1> HIDE DEF t
<1>3. \A i \in DOMAIN s : s[i].event # note.event
  BY DEF In
<1>4. Distinct(t)
  BY <1>1, <1>2, <1>3 DEF Distinct
<1>5. \A i \in DOMAIN t : t[i].event.kind # "ordered"
  BY <1>1, <1>2
<1> QED BY <1>2, <1>4, <1>5 DEF UnorderedList, t

LEMMA WithOrdered ==
  ASSUME NEW qs, NEW s, OrderedList(s, qs), NEW note \in GoodNotes(qs),
         note.event.kind = "ordered", \A i \in DOMAIN s : s[i].seq < note.seq
  PROVE  OrderedList(With(s, note), qs)
<1> DEFINE t == With(s, note)
<1>1. /\ s \in Seq(GoodNotes(qs)) /\ Ascending(s)
      /\ \A i \in DOMAIN s : s[i].event.kind = "ordered"
      /\ DOMAIN s = 1 .. Len(s) /\ Len(s) \in Nat
  BY NumbersOfOrdered DEF OrderedList
<1>2. /\ t \in Seq(GoodNotes(qs))
      /\ \A i \in DOMAIN t : (i \in DOMAIN s /\ t[i] = s[i]) \/ (i = Len(s) + 1 /\ t[i] = note)
  BY <1>1, WithHolds
<1> HIDE DEF t
<1>3. ASSUME NEW i \in DOMAIN t, NEW j \in DOMAIN t, i < j
      PROVE  t[i].seq < t[j].seq
  <2>1. i \in DOMAIN s /\ t[i] = s[i]
    BY <1>1, <1>2, <1>3
  <2>2. CASE j \in DOMAIN s /\ t[j] = s[j]
    BY <2>1, <2>2, <1>1, <1>3 DEF Ascending
  <2>3. CASE t[j] = note
    BY <2>1, <2>3
  <2> QED BY <2>2, <2>3, <1>2
<1>4. \A i \in DOMAIN t : t[i].event.kind = "ordered"
  BY <1>1, <1>2
<1> QED BY <1>2, <1>3, <1>4 DEF OrderedList, Ascending, t

\* Where an event is follows from the lists it is in.
LEMMA PlaceSame ==
  ASSUME NEW e, NEW uq, NEW sq, NEW nl, NEW c, NEW w, NEW la, NEW t, NEW n,
         Place(e, uq, sq, nl, c, w, la, t, n),
         NEW uq2, In(uq2, e) <=> In(uq, e),
         NEW sq2, In(sq2, e) <=> In(sq, e)
  PROVE  Place(e, uq2, sq2, nl, c, w, la, t, n)
BY DEF Place, Queued, Carried, Held, Notified

LEMMA PostStep ==
  ASSUME IInv, NEW kind \in Kinds, PostNetEvent(kind)
  PROVE  IInv'
<1> DEFINE event == [kind |-> kind, num |-> posted[kind]]
           note  == [event |-> event,
                     seq |-> IF kind = "ordered" THEN posted[kind] ELSE InvalidSendEventSeq]
<1>1. /\ ~removed /\ removed' = removed
      /\ posted[kind] < MaxPosted[kind] /\ posted' = [posted EXCEPT ![kind] = @ + 1]
      /\ IF kind = "ordered"
           THEN sendQueue' = With(sendQueue, note) /\ unorderedQueue' = unorderedQueue
           ELSE unorderedQueue' = With(unorderedQueue, note) /\ sendQueue' = sendQueue
      /\ notifyList' = notifyList /\ lastAcked' = lastAcked /\ told' = told
      /\ window' = window /\ contents' = contents
      /\ nextRecv' = nextRecv /\ waiting' = waiting
      /\ processed' = processed /\ times' = times
  BY DEF PostNetEvent, receiverVars, With
<1>2. note = NoteOf(event) /\ note.event = event /\ event.kind = kind
  BY DEF NoteOf, NumberOf
<1> HIDE DEF note
<1>3. /\ SenderInv(unorderedQueue, sendQueue, notifyList, lastAcked, posted, window, contents)
      /\ ReceiverInv(lastAcked, posted, nextRecv, waiting, processed, times)
      /\ PlacesInv(unorderedQueue, sendQueue, notifyList, lastAcked, posted, window,
                   contents, times, told)
  BY <1>1 DEF IInv
<1>4. /\ posted \in [Kinds -> Nat] /\ \A k \in Kinds : posted[k] =< MaxPosted[k]
      /\ lastAcked \in Nat \cup {InvalidSendEventSeq}
      /\ window \in Seq(Net!Fates)
      /\ contents \in Seq(Seq(GoodNotes(posted))) /\ Len(contents) = Len(window)
      /\ UnorderedList(unorderedQueue, posted) /\ OrderedList(sendQueue, posted)
      /\ OrderedList(notifyList, posted)
      /\ \A i \in DOMAIN contents : PacketList(contents[i], posted)
                                    /\ WithinWindow(contents[i], lastAcked)
      /\ \A i \in DOMAIN notifyList : notifyList[i].seq > lastAcked + 1
  BY <1>3 DEF SenderInv
<1>5. /\ posted' \in [Kinds -> Nat]
      /\ \A k \in Kinds : posted[k] =< posted'[k] /\ posted'[k] =< MaxPosted[k]
      /\ event \in PostedBy(posted') /\ event \notin PostedBy(posted) /\ event \in Possible
      /\ \A e \in PostedBy(posted') : e = event \/ e \in PostedBy(posted)
      /\ PostedBy(posted) \subseteq PostedBy(posted')
      /\ GoodNotes(posted) \subseteq GoodNotes(posted')
      /\ note \in GoodNotes(posted')
  <2>1. event = [kind |-> kind, num |-> posted[kind]]
    OBVIOUS
  <2>2. /\ posted' \in [Kinds -> Nat] /\ posted'[kind] = posted[kind] + 1
        /\ \A k \in Kinds : k # kind => posted'[k] = posted[k]
    BY <1>1, <1>4
  <2>3. posted[kind] < MaxPosted[kind]
    BY <1>1
  <2>4. posted \in [Kinds -> Nat] /\ \A k \in Kinds : posted[k] =< MaxPosted[k]
    BY <1>4
  <2> HIDE DEF event
  <2>5. /\ \A k \in Kinds : posted[k] =< posted'[k] /\ posted'[k] =< MaxPosted[k]
        /\ event \in PostedBy(posted') /\ event \notin PostedBy(posted) /\ event \in Possible
        /\ \A e \in PostedBy(posted') : e = event \/ e \in PostedBy(posted)
        /\ PostedBy(posted) \subseteq PostedBy(posted')
        /\ GoodNotes(posted) \subseteq GoodNotes(posted')
        /\ NoteOf(event) \in GoodNotes(posted')
    BY <2>1, <2>2, <2>3, <2>4, PostedOne
  <2> QED BY <2>2, <2>5, <1>2
<1>6. /\ unorderedQueue \in Seq(GoodNotes(posted)) /\ sendQueue \in Seq(GoodNotes(posted))
      /\ notifyList \in Seq(GoodNotes(posted))
      /\ \A i \in DOMAIN contents : contents[i] \in Seq(GoodNotes(posted))
  BY <1>4 DEF UnorderedList, OrderedList, PacketList
<1>7. /\ UnorderedList(unorderedQueue, posted') /\ OrderedList(sendQueue, posted')
      /\ OrderedList(notifyList, posted')
      /\ \A i \in DOMAIN contents : PacketList(contents[i], posted')
  BY <1>4, <1>5, MoreLists
<1>8. /\ ~In(unorderedQueue, event) /\ ~In(sendQueue, event) /\ ~In(notifyList, event)
      /\ NoPacket(event, contents)
  BY <1>5, <1>6, NotYetInList DEF NoPacket
<1>9. /\ UnorderedList(unorderedQueue', posted') /\ OrderedList(sendQueue', posted')
      /\ In(unorderedQueue', event) \/ In(sendQueue', event)
      /\ \A e : e # event => /\ In(unorderedQueue', e) <=> In(unorderedQueue, e)
                             /\ In(sendQueue', e) <=> In(sendQueue, e)
  <2>1. CASE kind = "ordered"
    <3>1. sendQueue' = With(sendQueue, note) /\ unorderedQueue' = unorderedQueue
      BY <1>1, <2>1
    <3>2. \A e : In(With(sendQueue, note), e) <=> In(sendQueue, e) \/ event = e
      <4>1. sendQueue \in Seq(GoodNotes(posted'))
        BY <1>7 DEF OrderedList
      <4> QED BY <4>1, <1>2, <1>5, WithHolds
    <3>3. ASSUME NEW i \in DOMAIN sendQueue
          PROVE  sendQueue[i].seq < note.seq
      <4>1. /\ sendQueue[i].event.kind = "ordered" /\ sendQueue[i].event \in PostedBy(posted)
            /\ sendQueue[i].seq = sendQueue[i].event.num
        BY <1>4, NumbersOfOrdered
      <4>2. note.seq = posted["ordered"]
        BY <2>1 DEF note
      <4> QED BY <4>1, <4>2 DEF PostedBy
    <3>4. OrderedList(With(sendQueue, note), posted')
      BY <3>3, <2>1, <1>2, <1>5, <1>7, WithOrdered
    <3> QED BY <3>1, <3>2, <3>4, <1>7
  <2>2. CASE kind # "ordered"
    <3>1. unorderedQueue' = With(unorderedQueue, note) /\ sendQueue' = sendQueue
      BY <1>1, <2>2
    <3>2. \A e : In(With(unorderedQueue, note), e) <=> In(unorderedQueue, e) \/ event = e
      <4>1. unorderedQueue \in Seq(GoodNotes(posted'))
        BY <1>7 DEF UnorderedList
      <4> QED BY <4>1, <1>2, <1>5, WithHolds
    <3>3. UnorderedList(With(unorderedQueue, note), posted')
      BY <2>2, <1>2, <1>5, <1>7, <1>8, WithUnordered
    <3> QED BY <3>1, <3>2, <3>3, <1>7
  <2> QED BY <2>1, <2>2
<1>10. SenderInv(unorderedQueue', sendQueue', notifyList', lastAcked', posted', window', contents')
  <2>1. contents \in Seq(Seq(GoodNotes(posted')))
    BY <1>4, <1>5
  <2> QED BY <2>1, <1>1, <1>4, <1>5, <1>7, <1>9 DEF SenderInv
<1>11. /\ nextRecv \in Nat /\ nextRecv =< posted["ordered"] /\ lastAcked + 1 =< nextRecv
       /\ OrderedList(waiting, posted)
       /\ \A i \in DOMAIN waiting : waiting[i].seq > nextRecv
       /\ processed = [i \in 1 .. nextRecv |-> [kind |-> "ordered", num |-> i - 1]]
       /\ times \in [Possible -> {0, 1}]
       /\ \A e \in Possible : e \notin PostedBy(posted) => times[e] = 0
       /\ \A e \in PostedBy(posted) :
            e.kind = "ordered" => (times[e] = 1 <=> e.num < nextRecv \/ In(waiting, e))
  BY <1>3 DEF ReceiverInv
<1>12. ReceiverInv(lastAcked', posted', nextRecv', waiting', processed', times')
  <2>1. nextRecv =< posted'["ordered"]
    <3>1. "ordered" \in Kinds
      BY ConstantTypes
    <3> QED BY <3>1, <1>4, <1>5, <1>11
  <2>2. OrderedList(waiting, posted')
    BY <1>5, <1>11, MoreLists
  <2>3. \A e \in Possible : e \notin PostedBy(posted') => times[e] = 0
    BY <1>5, <1>11
  <2>4. ASSUME NEW e \in PostedBy(posted'), e.kind = "ordered"
        PROVE  times[e] = 1 <=> e.num < nextRecv \/ In(waiting, e)
    <3>1. CASE e \in PostedBy(posted)
      BY <3>1, <2>4, <1>11
    <3>2. CASE e = event
      <4>1. times[e] = 0
        BY <3>2, <1>5, <1>11
      <4>2. ~In(waiting, e)
        <5>1. waiting \in Seq(GoodNotes(posted))
          BY <1>11 DEF OrderedList
        <5> QED BY <5>1, <3>2, <1>5, NotYetInList
      <4>3. ~(e.num < nextRecv)
        <5>1. e.num = posted["ordered"] /\ posted["ordered"] \in Nat
          BY <3>2, <2>4, <1>4
        <5> QED BY <5>1, <1>11
      <4> QED BY <4>1, <4>2, <4>3
    <3> QED BY <3>1, <3>2, <1>5
  <2> QED BY <2>1, <2>2, <2>3, <2>4, <1>1, <1>11 DEF ReceiverInv
<1>13. PlacesInv(unorderedQueue', sendQueue', notifyList', lastAcked', posted', window',
                 contents', times', told')
  <2>1. /\ told \in [Possible -> Seq(BOOLEAN)]
        /\ \A e \in Possible : e \notin PostedBy(posted) => told[e] = <<>>
        /\ \A e \in PostedBy(posted) :
             Place(e, unorderedQueue, sendQueue, notifyList, contents, window, lastAcked,
                   told[e], times[e])
    BY <1>3 DEF PlacesInv
  <2>2. \A e \in Possible : e \notin PostedBy(posted') => told[e] = <<>>
    BY <2>1, <1>5
  <2>3. ASSUME NEW e \in PostedBy(posted')
        PROVE  Place(e, unorderedQueue', sendQueue', notifyList, contents, window, lastAcked,
                     told[e], times[e])
    <3>1. CASE e \in PostedBy(posted)
      <4>1. e # event
        BY <3>1, <1>5
      <4> QED BY <4>1, <3>1, <2>1, <1>9, PlaceSame
    <3>2. CASE e = event
      <4>1. told[e] = <<>> /\ times[e] = 0
        BY <3>2, <2>1, <1>5, <1>11
      <4>2. Queued(e, unorderedQueue', sendQueue', notifyList, contents, told[e], times[e])
        BY <4>1, <3>2, <1>8, <1>9 DEF Queued
      <4>3. e.kind = "ordered" => e.num > lastAcked
        <5>1. ASSUME e.kind = "ordered"
              PROVE  e.num > lastAcked
          <6>1. e.num = posted["ordered"] /\ posted["ordered"] \in Nat
            BY <5>1, <3>2, <1>4
          <6>2. lastAcked \in Int
            BY <1>4 DEF InvalidSendEventSeq
          <6> QED BY <6>1, <6>2, <1>11
        <5> QED BY <5>1
      <4> QED BY <4>2, <4>3 DEF Place
    <3> QED BY <3>1, <3>2, <1>5
  <2> QED BY <2>1, <2>2, <2>3, <1>1 DEF PlacesInv
<1> QED BY <1>1, <1>10, <1>12, <1>13 DEF IInv

-----------------------------------------------------------------------------
(* Sending a packet.                                                       *)

\* A packet p becomes the last one; what is in it has left the queues.
PacketAdded(c, w, k, p, c2, w2) ==
  /\ k \notin DOMAIN c /\ DOMAIN c2 = DOMAIN c \cup {k}
  /\ c2[k] = p /\ \A i \in DOMAIN c : c2[i] = c[i]
  /\ w2[k] = "flying" /\ \A i \in DOMAIN c : w2[i] = w[i]

QueuesCut(e, uq, sq, p, uq2, sq2) ==
  /\ In(uq, e) \/ In(sq, e) <=> In(uq2, e) \/ In(sq2, e) \/ In(p, e)
  /\ ~(In(p, e) /\ (In(uq2, e) \/ In(sq2, e)))

LEMMA PlaceSent ==
  ASSUME NEW e, NEW uq, NEW sq, NEW nl, NEW c, NEW w, NEW la, NEW t, NEW n,
         Place(e, uq, sq, nl, c, w, la, t, n),
         NEW p, NEW uq2, NEW sq2, QueuesCut(e, uq, sq, p, uq2, sq2),
         NEW k, NEW c2, NEW w2, PacketAdded(c, w, k, p, c2, w2)
  PROVE  Place(e, uq2, sq2, nl, c2, w2, la, t, n)
<1> USE DEF QueuesCut, PacketAdded
<1>1. ASSUME NoPacket(e, c), ~In(p, e)
      PROVE  NoPacket(e, c2)
  BY <1>1 DEF NoPacket
<1>2. CASE Queued(e, uq, sq, nl, c, t, n) /\ (e.kind = "ordered" => e.num > la)
  <2>1. CASE In(p, e)
    <3>1. Carried(e, uq2, sq2, nl, c2, w2, t, n)
      <4>1. In(c2[k], e) /\ (n = 1 <=> w2[k] = "handled")
        BY <2>1, <1>2 DEF Queued
      <4>2. \A j \in DOMAIN c2 : In(c2[j], e) => j = k
        BY <1>2 DEF Queued, NoPacket
      <4> QED BY <4>1, <4>2, <2>1, <1>2 DEF Queued, Carried
    <3> QED BY <3>1, <1>2 DEF Place
  <2>2. CASE ~In(p, e)
    <3>1. Queued(e, uq2, sq2, nl, c2, t, n)
      BY <2>2, <1>1, <1>2 DEF Queued
    <3> QED BY <3>1, <1>2 DEF Place
  <2> QED BY <2>1, <2>2
<1>3. CASE Carried(e, uq, sq, nl, c, w, t, n) /\ (e.kind = "ordered" => e.num > la)
  <2>1. ~In(uq2, e) /\ ~In(sq2, e) /\ ~In(p, e)
    BY <1>3 DEF Carried
  <2>2. PICK i \in DOMAIN c : /\ In(c[i], e) /\ (n = 1 <=> w[i] = "handled")
                              /\ \A j \in DOMAIN c : In(c[j], e) => j = i
    BY <1>3 DEF Carried
  <2>3. /\ i \in DOMAIN c2 /\ In(c2[i], e) /\ (n = 1 <=> w2[i] = "handled")
        /\ \A j \in DOMAIN c2 : In(c2[j], e) => j = i
    BY <2>1, <2>2
  <2>4. Carried(e, uq2, sq2, nl, c2, w2, t, n)
    BY <2>1, <2>3, <1>3 DEF Carried
  <2> QED BY <2>4, <1>3 DEF Place
<1>4. CASE Held(e, uq, sq, nl, c, t, n) /\ (e.kind = "ordered" => e.num > la)
  <2>1. Held(e, uq2, sq2, nl, c2, t, n)
    BY <1>1, <1>4 DEF Held
  <2> QED BY <2>1, <1>4 DEF Place
<1>5. CASE Notified(e, uq, sq, nl, c, t, n) /\ (e.kind = "ordered" => e.num =< la)
  <2>1. Notified(e, uq2, sq2, nl, c2, t, n)
    BY <1>1, <1>5 DEF Notified
  <2> QED BY <2>1, <1>5 DEF Place
<1> QED BY <1>2, <1>3, <1>4, <1>5 DEF Place

\* How much of the queues goes into a packet.
LEMMA PacketFilled ==
  ASSUME IInv, NEW fit \in 1 .. MaxFit, EventWritePacket(fit)
  PROVE  \E a \in 0 .. Len(unorderedQueue), b \in 0 .. Len(sendQueue) :
           /\ contents' = With(contents, Join(Until(unorderedQueue, a), Until(sendQueue, b)))
           /\ unorderedQueue' = After(unorderedQueue, a)
           /\ sendQueue' = After(sendQueue, b)
           /\ \A i \in 1 .. b : sendQueue[i].seq =< lastAcked + EventWindow
<1> DEFINE nUnordered == Min({fit, Len(unorderedQueue)})
           T          == {n \in 0 .. Len(sendQueue) :
                            \A i \in 1 .. n : InEventWindow(sendQueue[i])}
           sendable   == Max(T)
           nOrdered   == Min({fit - nUnordered, sendable})
<1>1. IsList(unorderedQueue) /\ IsList(sendQueue)
  BY NumbersOfOrdered, GoodElements DEF IInv, SenderInv, UnorderedList
<1>2. Len(unorderedQueue) \in Nat /\ Len(sendQueue) \in Nat /\ fit \in Nat /\ fit >= 1
  BY <1>1, ListBasics, ConstantTypes
<1>3. nUnordered \in 0 .. Len(unorderedQueue) /\ nUnordered =< fit
  <2>1. {fit, Len(unorderedQueue)} \subseteq Nat
    BY <1>2
  <2>2. /\ nUnordered \in {fit, Len(unorderedQueue)}
        /\ \A n \in {fit, Len(unorderedQueue)} : nUnordered =< n
    BY <2>1, MinNumber
  <2> QED BY <2>2, <1>2
<1>4. sendable \in T
  <2>1. 0 \in T /\ T \subseteq 0 .. Len(sendQueue)
    BY <1>2
  <2> QED BY <2>1, <1>2, MaxNumber
<1>5. nOrdered \in 0 .. Len(sendQueue) /\ nOrdered =< sendable
  <2>1. sendable \in 0 .. Len(sendQueue) /\ fit - nUnordered \in Nat
    BY <1>2, <1>3, <1>4
  <2> HIDE DEF sendable, nUnordered
  <2>2. {fit - nUnordered, sendable} \subseteq Nat
    BY <2>1, <1>2
  <2>3. /\ nOrdered \in {fit - nUnordered, sendable}
        /\ \A n \in {fit - nUnordered, sendable} : nOrdered =< n
    BY <2>2, MinNumber
  <2> QED BY <2>1, <2>3, <1>2
<1>6. \A i \in 1 .. nOrdered : sendQueue[i].seq =< lastAcked + EventWindow
  <2>1. \A i \in 1 .. sendable : InEventWindow(sendQueue[i])
    BY <1>4
  <2>2. sendable \in Nat
    BY <1>2, <1>4
  <2> HIDE DEF sendable, nOrdered
  <2>3. \A i \in 1 .. nOrdered : i \in 1 .. sendable
    BY <2>2, <1>2, <1>5
  <2> QED BY <2>1, <2>3 DEF InEventWindow
<1>7. /\ contents' = With(contents, Join(Until(unorderedQueue, nUnordered),
                                         Until(sendQueue, nOrdered)))
      /\ unorderedQueue' = After(unorderedQueue, nUnordered)
      /\ sendQueue' = After(sendQueue, nOrdered)
  BY DEF EventWritePacket, With, Join, Until, After
<1> HIDE DEF nUnordered, nOrdered
<1> QED BY <1>3, <1>5, <1>6, <1>7

LEMMA SendStep ==
  ASSUME IInv, SendPacket
  PROVE  IInv'
<1>1. /\ ~removed /\ removed' = removed
      /\ window' = With(window, "flying")
      /\ notifyList' = notifyList /\ lastAcked' = lastAcked /\ told' = told
      /\ posted' = posted
      /\ nextRecv' = nextRecv /\ waiting' = waiting
      /\ processed' = processed /\ times' = times
  BY DEF SendPacket, receiverVars, With, Net!Send
<1>2. PICK fit \in 1 .. MaxFit : EventWritePacket(fit)
  BY DEF SendPacket
<1>3. PICK a \in 0 .. Len(unorderedQueue), b \in 0 .. Len(sendQueue) :
        /\ contents' = With(contents, Join(Until(unorderedQueue, a), Until(sendQueue, b)))
        /\ unorderedQueue' = After(unorderedQueue, a)
        /\ sendQueue' = After(sendQueue, b)
        /\ \A i \in 1 .. b : sendQueue[i].seq =< lastAcked + EventWindow
  BY <1>2, PacketFilled
<1> DEFINE u == Until(unorderedQueue, a)
           s == Until(sendQueue, b)
           p == Join(u, s)
<1>4. /\ SenderInv(unorderedQueue, sendQueue, notifyList, lastAcked, posted, window, contents)
      /\ ReceiverInv(lastAcked, posted, nextRecv, waiting, processed, times)
      /\ PlacesInv(unorderedQueue, sendQueue, notifyList, lastAcked, posted, window,
                   contents, times, told)
  BY <1>1 DEF IInv
<1>5. /\ posted \in [Kinds -> Nat] /\ \A k \in Kinds : posted[k] =< MaxPosted[k]
      /\ lastAcked \in Nat \cup {InvalidSendEventSeq}
      /\ window \in Seq(Net!Fates)
      /\ contents \in Seq(Seq(GoodNotes(posted))) /\ Len(contents) = Len(window)
      /\ UnorderedList(unorderedQueue, posted) /\ OrderedList(sendQueue, posted)
      /\ OrderedList(notifyList, posted)
      /\ \A i \in DOMAIN contents : PacketList(contents[i], posted)
                                    /\ WithinWindow(contents[i], lastAcked)
      /\ \A i \in DOMAIN notifyList : notifyList[i].seq > lastAcked + 1
  BY <1>4 DEF SenderInv
<1>6. /\ IsList(unorderedQueue) /\ Distinct(unorderedQueue)
      /\ IsList(sendQueue) /\ Distinct(sendQueue)
      /\ \A i \in DOMAIN unorderedQueue : unorderedQueue[i].event.kind # "ordered"
      /\ \A i \in DOMAIN sendQueue : sendQueue[i].event.kind = "ordered"
  BY <1>5, NumbersOfOrdered, OrderedDistinct, GoodElements DEF UnorderedList
<1>7. /\ UnorderedList(u, posted) /\ UnorderedList(unorderedQueue', posted)
      /\ OrderedList(s, posted) /\ OrderedList(sendQueue', posted)
  BY <1>3, <1>5, PartsOfUnordered, PartsOfOrdered
<1>8. \A e : /\ In(unorderedQueue, e) <=> In(u, e) \/ In(unorderedQueue', e)
             /\ ~(In(u, e) /\ In(unorderedQueue', e))
             /\ In(sendQueue, e) <=> In(s, e) \/ In(sendQueue', e)
             /\ ~(In(s, e) /\ In(sendQueue', e))
  BY <1>3, <1>6, PartsHold
<1>9. \A e : ~(In(unorderedQueue, e) /\ In(sendQueue, e))
  BY <1>6 DEF In
<1>10. WithinWindow(s, lastAcked)
  <2>1. \A i \in DOMAIN s : i \in 1 .. b /\ s[i] = sendQueue[i]
    BY <1>3, <1>6, Parts
  <2> QED BY <2>1, <1>3 DEF WithinWindow
<1> HIDE DEF u, s
<1>11. PacketList(p, posted) /\ WithinWindow(p, lastAcked)
  BY <1>7, <1>10, JoinPacket
<1>12. \A e : In(p, e) <=> In(u, e) \/ In(s, e)
  <2>1. IsList(u) /\ IsList(s)
    BY <1>7, NumbersOfOrdered, GoodElements DEF UnorderedList
  <2> QED BY <2>1, JoinHolds
<1>13. contents' = With(contents, p)
  BY <1>3 DEF u, s
<1> HIDE DEF p
<1> DEFINE k == Len(contents) + 1
<1>14. /\ contents' \in Seq(Seq(GoodNotes(posted))) /\ window' \in Seq(Net!Fates)
       /\ Len(contents') = Len(window')
       /\ DOMAIN contents' = DOMAIN contents \cup {k} /\ k \notin DOMAIN contents
       /\ contents'[k] = p /\ \A i \in DOMAIN contents : contents'[i] = contents[i]
       /\ window'[k] = "flying" /\ \A i \in DOMAIN contents : window'[i] = window[i]
  <2>1. p \in Seq(GoodNotes(posted)) /\ "flying" \in Net!Fates
    BY <1>11 DEF PacketList, Net!Fates
  <2>2. /\ contents' \in Seq(Seq(GoodNotes(posted))) /\ Len(contents') = Len(contents) + 1
        /\ contents'[Len(contents) + 1] = p
        /\ \A i \in 1 .. Len(contents) : contents'[i] = contents[i]
    BY <2>1, <1>5, <1>13, AppendProperties DEF With
  <2>3. /\ window' \in Seq(Net!Fates) /\ Len(window') = Len(window) + 1
        /\ window'[Len(window) + 1] = "flying"
        /\ \A i \in 1 .. Len(window) : window'[i] = window[i]
    BY <2>1, <1>1, <1>5, AppendProperties DEF With
  <2>4. DOMAIN contents = 1 .. Len(contents) /\ Len(contents) \in Nat
        /\ DOMAIN contents' = 1 .. Len(contents')
    BY <2>2, <1>5
  <2>5. /\ Len(contents') = Len(window') /\ Len(window) = Len(contents)
        /\ DOMAIN contents' = 1 .. Len(contents) + 1
    BY <2>2, <2>3, <2>4, <1>5
  <2>6. DOMAIN contents' = DOMAIN contents \cup {k} /\ k \notin DOMAIN contents
    BY <2>4, <2>5
  <2>7. /\ window'[k] = "flying" /\ \A i \in DOMAIN contents : window'[i] = window[i]
        /\ contents'[k] = p /\ \A i \in DOMAIN contents : contents'[i] = contents[i]
    BY <2>2, <2>3, <2>4, <2>5
  <2> QED BY <2>2, <2>3, <2>5, <2>6, <2>7
<1> HIDE DEF k
<1>15. SenderInv(unorderedQueue', sendQueue', notifyList', lastAcked', posted', window', contents')
  <2>1. \A i \in DOMAIN contents' : PacketList(contents'[i], posted)
                                    /\ WithinWindow(contents'[i], lastAcked)
    BY <1>5, <1>11, <1>14
  <2> QED BY <2>1, <1>1, <1>5, <1>7, <1>14 DEF SenderInv
<1>16. PlacesInv(unorderedQueue', sendQueue', notifyList', lastAcked', posted', window',
                 contents', times', told')
  <2>1. ASSUME NEW e \in PostedBy(posted)
        PROVE  Place(e, unorderedQueue', sendQueue', notifyList, contents', window', lastAcked,
                     told[e], times[e])
    <3>1. Place(e, unorderedQueue, sendQueue, notifyList, contents, window, lastAcked,
                told[e], times[e])
      BY <1>4 DEF PlacesInv
    <3>2. QueuesCut(e, unorderedQueue, sendQueue, p, unorderedQueue', sendQueue')
      BY <1>8, <1>9, <1>12 DEF QueuesCut
    <3>3. PacketAdded(contents, window, k, p, contents', window')
      BY <1>14 DEF PacketAdded
    <3> QED BY <3>1, <3>2, <3>3, PlaceSent
  <2> QED BY <2>1, <1>1, <1>4 DEF PlacesInv
<1> QED BY <1>1, <1>4, <1>15, <1>16 DEF IInv

-----------------------------------------------------------------------------
(* Handling a packet.                                                      *)

LEMMA PlaceUnread ==
  ASSUME NEW e, NEW uq, NEW sq, NEW nl, NEW c, NEW w, NEW la, NEW t, NEW n \in {0, 1},
         Place(e, uq, sq, nl, c, w, la, t, n)
  PROVE  Unread(e, c, w, n)
<1>1. SUFFICES ASSUME NEW i \in DOMAIN c, w[i] = "flying", In(c[i], e)
               PROVE  n = 0 /\ \A j \in DOMAIN c : In(c[j], e) => j = i
  BY DEF Unread
<1>2. ~NoPacket(e, c)
  BY <1>1 DEF NoPacket
<1>3. Carried(e, uq, sq, nl, c, w, t, n)
  BY <1>2 DEF Place, Queued, Held, Notified
<1>4. PICK k \in DOMAIN c : /\ In(c[k], e) /\ (n = 1 <=> w[k] = "handled")
                            /\ \A j \in DOMAIN c : In(c[j], e) => j = k
  BY <1>3 DEF Carried
<1>5. k = i
  BY <1>1, <1>4
<1>6. n # 1
  BY <1>1, <1>4, <1>5
<1> QED BY <1>4, <1>5, <1>6

\* Packet i is handled, and earlier ones are lost.
FateSettled(w, w2, i, c) ==
  /\ i \in DOMAIN c /\ w[i] = "flying" /\ w2[i] = "handled"
  /\ \A j \in DOMAIN c : j # i => /\ w2[j] = "handled" <=> w[j] = "handled"
                                  /\ w2[j] = "flying" => w[j] = "flying"

ReadAgain(notes, e, n, n2) == /\ In(notes, e) => n2 = 1
                              /\ ~In(notes, e) => n2 = n

LEMMA PlaceHandled ==
  ASSUME NEW e, NEW uq, NEW sq, NEW nl, NEW c, NEW w, NEW la, NEW t, NEW n \in {0, 1},
         Place(e, uq, sq, nl, c, w, la, t, n),
         NEW i, NEW w2, FateSettled(w, w2, i, c), NEW n2, ReadAgain(c[i], e, n, n2)
  PROVE  Place(e, uq, sq, nl, c, w2, la, t, n2)
<1>1. CASE In(c[i], e)
  <2>1. ~NoPacket(e, c)
    BY <1>1 DEF NoPacket, FateSettled
  <2>2. Carried(e, uq, sq, nl, c, w, t, n) /\ (e.kind = "ordered" => e.num > la)
    BY <2>1 DEF Place, Queued, Held, Notified
  <2>3. PICK k \in DOMAIN c : In(c[k], e) /\ \A j \in DOMAIN c : In(c[j], e) => j = k
    BY <2>2 DEF Carried
  <2>4. k = i
    BY <1>1, <2>3 DEF FateSettled
  <2>5. n2 = 1 /\ w2[k] = "handled"
    BY <1>1, <2>4 DEF ReadAgain, FateSettled
  <2>6. Carried(e, uq, sq, nl, c, w2, t, n2)
    BY <2>2, <2>3, <2>5 DEF Carried
  <2> QED BY <2>2, <2>6 DEF Place
<1>2. CASE ~In(c[i], e)
  <2>1. n2 = n
    BY <1>2 DEF ReadAgain
  <2>2. ASSUME Carried(e, uq, sq, nl, c, w, t, n)
        PROVE  Carried(e, uq, sq, nl, c, w2, t, n)
    <3>1. PICK k \in DOMAIN c : /\ In(c[k], e) /\ (n = 1 <=> w[k] = "handled")
                                /\ \A j \in DOMAIN c : In(c[j], e) => j = k
      BY <2>2 DEF Carried
    <3>2. k # i
      BY <3>1, <1>2
    <3>3. w2[k] = "handled" <=> w[k] = "handled"
      BY <3>2 DEF FateSettled
    <3>4. n = 1 <=> w2[k] = "handled"
      BY <3>1, <3>3
    <3> QED BY <3>1, <3>4, <2>2 DEF Carried
  <2> QED BY <2>1, <2>2 DEF Place
<1> QED BY <1>1, <1>2

LEMMA UnreadHandled ==
  ASSUME NEW e, NEW c, NEW w, NEW n \in {0, 1}, Unread(e, c, w, n),
         NEW i, NEW w2, FateSettled(w, w2, i, c), NEW n2, ReadAgain(c[i], e, n, n2)
  PROVE  Unread(e, c, w2, n2)
<1>1. SUFFICES ASSUME NEW k \in DOMAIN c, w2[k] = "flying", In(c[k], e)
               PROVE  n2 = 0 /\ \A j \in DOMAIN c : In(c[j], e) => j = k
  BY DEF Unread
<1>2. k # i
  BY <1>1 DEF FateSettled
<1>3. w[k] = "flying"
  BY <1>1, <1>2 DEF FateSettled
<1>4. n = 0 /\ \A j \in DOMAIN c : In(c[j], e) => j = k
  BY <1>1, <1>3 DEF Unread
<1>5. ~In(c[i], e)
  BY <1>2, <1>4 DEF FateSettled
<1> QED BY <1>4, <1>5 DEF ReadAgain

\* The ordered events of a packet that is on its way are read as what they are.
LEMMA ReadAsSent ==
  ASSUME NEW la \in Nat \cup {InvalidSendEventSeq}, NEW nr \in Nat, la + 1 =< nr,
         NEW o, NEW ps, OrderedList(o, ps), WithinWindow(o, la),
         \A j \in DOMAIN o : o[j].seq >= nr
  PROVE  [j \in DOMAIN o |-> [o[j] EXCEPT !.seq = DecodeSeq(o[j].seq % EventSeqMod, nr)]] = o
<1> DEFINE read == [j \in DOMAIN o |->
                      [o[j] EXCEPT !.seq = DecodeSeq(o[j].seq % EventSeqMod, nr)]]
<1>1. /\ IsList(o) /\ o \in Seq(GoodNotes(ps))
      /\ \A j \in DOMAIN o : /\ o[j] \in GoodNotes(ps) /\ o[j].event.kind = "ordered"
                             /\ o[j].seq \in Nat
  BY NumbersOfOrdered DEF OrderedList
<1>2. la \in Int
  BY DEF InvalidSendEventSeq
<1>3. ASSUME NEW j \in DOMAIN o
      PROVE  read[j] = o[j]
  <2>1. o[j].seq \in Nat /\ nr =< o[j].seq
    BY <1>1
  <2>2. o[j].seq < nr + EventSeqMod
    <3>1. o[j].seq =< la + EventWindow
      BY <1>1 DEF WithinWindow
    <3> QED BY <3>1, <2>1, <1>2, ConstantTypes
  <2>3. DecodeSeq(o[j].seq % EventSeqMod, nr) = o[j].seq
    BY <2>1, <2>2, DecodedNumber
  <2>4. read[j] = [o[j] EXCEPT !.seq = o[j].seq]
    BY <2>3
  <2>5. o[j] = [event |-> o[j].event, seq |-> o[j].seq]
    BY <1>1, GoodNote DEF NoteOf
  <2> QED BY <2>4, <2>5
<1>4. o = [j \in DOMAIN o |-> o[j]]
  BY <1>1
<1>5. DOMAIN read = DOMAIN o /\ read = [j \in DOMAIN read |-> read[j]]
  OBVIOUS
<1> HIDE DEF read
<1>6. read = o
  BY <1>3, <1>4, <1>5
<1> QED BY <1>6 DEF read

\* What eventReadPacket computes from the lists wt and o.
ReadFrom(nr, wt, pr, tm, o, notes, merged, run, pr2, tm2) ==
  /\ merged = MergeBySeq(wt, o) /\ run = RunLength(merged, nr)
  /\ tm2 = [e \in Possible |-> tm[e] + Count(notes, e)]
  /\ pr2 = pr \o [i \in 1 .. run |-> merged[i].event]

\* What the receiving end knows after it has read a packet.
LEMMA ReceiverStep ==
  ASSUME NEW la \in Nat \cup {InvalidSendEventSeq}, NEW ps \in [Kinds -> Nat],
         NEW nr, NEW wt, NEW pr, NEW tm, ReceiverInv(la, ps, nr, wt, pr, tm),
         NEW o, OrderedList(o, ps), NEW notes, PacketList(notes, ps),
         \A e : In(o, e) <=> In(notes, e) /\ e.kind = "ordered",
         \A e \in PostedBy(ps) : In(notes, e) => tm[e] = 0,
         NEW merged, NEW run, NEW pr2, NEW tm2,
         ReadFrom(nr, wt, pr, tm, o, notes, merged, run, pr2, tm2)
  PROVE  /\ ReceiverInv(la, ps, nr + run, After(merged, run), pr2, tm2)
         /\ \A e \in PostedBy(ps) : ReadAgain(notes, e, tm[e], tm2[e])
         /\ run \in Nat
<1>1. /\ merged = MergeBySeq(wt, o) /\ run = RunLength(merged, nr)
       /\ tm2 = [e \in Possible |-> tm[e] + Count(notes, e)]
       /\ pr2 = pr \o [i \in 1 .. run |-> merged[i].event]
  BY DEF ReadFrom
<1>2. /\ nr \in Nat /\ nr =< ps["ordered"] /\ la + 1 =< nr
      /\ OrderedList(wt, ps)
      /\ \A i \in DOMAIN wt : wt[i].seq > nr
      /\ pr = [i \in 1 .. nr |-> [kind |-> "ordered", num |-> i - 1]]
      /\ tm \in [Possible -> {0, 1}]
      /\ \A e \in Possible : e \notin PostedBy(ps) => tm[e] = 0
      /\ \A e \in PostedBy(ps) :
           e.kind = "ordered" => (tm[e] = 1 <=> e.num < nr \/ In(wt, e))
  BY DEF ReceiverInv
<1>3. notes \in Seq(GoodNotes(ps)) /\ Distinct(notes)
  BY DEF PacketList
<1>4. ASSUME NEW e, In(o, e)
      PROVE  e \in PostedBy(ps) /\ e.kind = "ordered" /\ tm[e] = 0 /\ In(notes, e)
  <2>1. e \in PostedBy(ps) /\ e.kind = "ordered"
    BY <1>4, NumbersOfOrdered DEF In
  <2> QED BY <2>1, <1>4
<1>5. ASSUME NEW e, In(wt, e), In(o, e)
      PROVE  FALSE
  <2>1. e \in PostedBy(ps) /\ e.kind = "ordered" /\ tm[e] = 0
    BY <1>4, <1>5
  <2>2. tm[e] = 1 <=> e.num < nr \/ In(wt, e)
    BY <2>1, <1>2
  <2> QED BY <2>1, <2>2, <1>5
<1>6. /\ OrderedList(merged, ps)
      /\ \A e : In(merged, e) <=> In(wt, e) \/ In(o, e)
  BY <1>1, <1>2, <1>5, NotesMerged
<1>7. ASSUME NEW i \in DOMAIN merged
      PROVE  merged[i].seq >= nr
  <2>1. /\ merged[i].seq = merged[i].event.num /\ merged[i].event.num \in Nat
        /\ In(merged, merged[i].event)
    BY <1>6, <1>7, NumbersOfOrdered DEF In
  <2>2. CASE In(wt, merged[i].event)
    <3>1. PICK j \in DOMAIN wt : wt[j].event = merged[i].event
      BY <2>2 DEF In
    <3>2. wt[j].seq = merged[i].event.num /\ wt[j].seq > nr
      BY <3>1, <1>2, NumbersOfOrdered
    <3>3. nr \in Nat
      BY <1>2
    <3> QED BY <3>2, <3>3, <2>1
  <2>3. CASE In(o, merged[i].event)
    <3>1. merged[i].event \in PostedBy(ps) /\ tm[merged[i].event] = 0
      BY <2>3, <1>4
    <3>2. merged[i].event.kind = "ordered"
      BY <2>3, <1>4
    <3>3. ~(merged[i].event.num < nr)
      BY <3>1, <3>2, <1>2
    <3>4. nr \in Nat
      BY <1>2
    <3> QED BY <3>3, <3>4, <2>1
  <2> QED BY <2>1, <2>2, <2>3, <1>6
<1>8. /\ run \in 0 .. Len(merged)
      /\ \A i \in 1 .. run : merged[i].event = [kind |-> "ordered", num |-> nr + i - 1]
      /\ \A e \in PostedBy(ps) : e.kind = "ordered" =>
           /\ In(After(merged, run), e) <=> In(merged, e) /\ ~(e.num < nr + run)
           /\ nr =< e.num /\ e.num < nr + run => In(merged, e)
      /\ \A i \in DOMAIN After(merged, run) : After(merged, run)[i].seq > nr + run
  <2>1. nr \in Nat /\ OrderedList(merged, ps) /\ \A i \in DOMAIN merged : merged[i].seq >= nr
    BY <1>2, <1>6, <1>7
  <2>2. run = RunLength(merged, nr)
    BY <1>1
  <2> QED BY <2>1, <2>2, RunTaken
<1>9. run \in Nat /\ Len(merged) \in Nat
  <2>1. Len(merged) \in Nat
    BY <1>6, NumbersOfOrdered
  <2> QED BY <2>1, <1>8
<1>10. OrderedList(After(merged, run), ps)
  BY <1>6, <1>8, PartsOfOrdered
<1>11. nr + run =< ps["ordered"]
  <2>1. CASE run = 0
    BY <2>1, <1>2
  <2>2. CASE run # 0
    <3>1. run \in 1 .. run /\ run \in DOMAIN merged
      <4>1. DOMAIN merged = 1 .. Len(merged)
        BY <1>6, NumbersOfOrdered
      <4> QED BY <4>1, <2>2, <1>8, <1>9
    <3>2. merged[run].event \in PostedBy(ps)
      BY <3>1, <1>6, NumbersOfOrdered
    <3>3. merged[run].event.num = nr + run - 1 /\ merged[run].event.kind = "ordered"
      <4>1. merged[run].event = [kind |-> "ordered", num |-> nr + run - 1]
        BY <3>1, <1>8
      <4> QED BY <4>1
    <3>4. ps["ordered"] \in Nat
      BY ConstantTypes
    <3> QED BY <3>2, <3>3, <3>4, <1>2, <1>9 DEF PostedBy
  <2> QED BY <2>1, <2>2
<1>12. pr2 = [i \in 1 .. nr + run |-> [kind |-> "ordered", num |-> i - 1]]
  <2> DEFINE S == [kind : {"ordered"}, num : Int]
             more == [i \in 1 .. run |-> merged[i].event]
  <2>1. more = [i \in 1 .. run |-> [kind |-> "ordered", num |-> nr + i - 1]]
    BY <1>8
  <2>2. pr \in Seq(S) /\ Len(pr) = nr
    <3>1. nr \in Nat /\ pr = [i \in 1 .. nr |-> [kind |-> "ordered", num |-> i - 1]]
      BY <1>2
    <3>2. \A i \in 1 .. nr : [kind |-> "ordered", num |-> i - 1] \in S
      BY <3>1
    <3> HIDE DEF S
    <3>3. pr \in [1 .. nr -> S]
      BY <3>1, <3>2
    <3>4. \A n \in Nat : \A f \in [1 .. n -> S] : f \in Seq(S) /\ Len(f) = n
      OBVIOUS
    <3> QED BY <3>1, <3>3, <3>4
  <2>3. \A i \in 1 .. run : more[i] = [kind |-> "ordered", num |-> nr + i - 1]
    BY <2>1
  <2>4. DOMAIN more = 1 .. run /\ more = [i \in 1 .. run |-> more[i]]
    OBVIOUS
  <2> HIDE DEF more
  <2>5. ASSUME NEW i \in 1 .. run
         PROVE  more[i] \in S
    <3>1. nr + i - 1 \in Int
      BY <1>2, <1>9
    <3>2. \A n \in Int : [kind |-> "ordered", num |-> n] \in S
      OBVIOUS
    <3>3. more[i] = [kind |-> "ordered", num |-> nr + i - 1]
      BY <2>3
    <3> QED BY <3>1, <3>2, <3>3, Zenon
  <2> HIDE DEF S
  <2>6. more \in Seq(S) /\ Len(more) = run
    <3>1. more \in [1 .. run -> S]
      BY <2>4, <2>5
    <3>2. \A n \in Nat : \A f \in [1 .. n -> S] : f \in Seq(S) /\ Len(f) = n
      OBVIOUS
    <3> QED BY <3>1, <3>2, <1>9
  <2>7. pr2 = pr \o more
    BY <1>1 DEF more
  <2>8. /\ pr2 \in Seq(S) /\ Len(pr2) = nr + run
        /\ \A i \in 1 .. nr + run : pr2[i] = IF i =< nr THEN pr[i] ELSE more[i - nr]
    <3>1. /\ pr \o more \in Seq(S) /\ Len(pr \o more) = Len(pr) + Len(more)
          /\ \A i \in 1 .. Len(pr) + Len(more) :
               (pr \o more)[i] = IF i =< Len(pr) THEN pr[i] ELSE more[i - Len(pr)]
      BY <2>6, <2>2, ConcatProperties
    <3> QED BY <3>1, <2>6, <2>2, <2>7
  <2>9. ASSUME NEW i \in 1 .. nr + run
        PROVE  pr2[i] = [kind |-> "ordered", num |-> i - 1]
    <3>1. CASE i =< nr
      <4>1. i \in 1 .. nr
        BY <3>1, <1>2, <1>9
      <4> QED BY <4>1, <3>1, <2>8, <1>2
    <3>2. CASE ~(i =< nr)
      <4>1. i - nr \in 1 .. run /\ nr + (i - nr) - 1 = i - 1
        BY <3>2, <1>2, <1>9
      <4>2. more[i - nr] = [kind |-> "ordered", num |-> i - 1]
        BY <4>1, <2>3
      <4> QED BY <4>2, <3>2, <2>8
    <3> QED BY <3>1, <3>2
  <2>10. pr2 = [i \in 1 .. nr + run |-> pr2[i]]
    <3>1. pr2 \in [1 .. Len(pr2) -> S]
      BY <2>8, LenProperties
    <3> QED BY <3>1, <2>8
  <2> QED BY <2>9, <2>10
<1>13. ASSUME NEW e \in Possible
       PROVE  /\ In(notes, e) => e \in PostedBy(ps) /\ tm[e] = 0 /\ tm2[e] = 1
              /\ ~In(notes, e) => tm2[e] = tm[e]
  <2>1. tm2[e] = tm[e] + Count(notes, e) /\ tm[e] \in {0, 1}
    BY <1>2, <1>1
  <2>2. ASSUME In(notes, e)
        PROVE  e \in PostedBy(ps) /\ tm[e] = 0 /\ tm2[e] = 1
    <3>1. e \in PostedBy(ps)
      BY <2>2, <1>3, NotYetInList
    <3>2. Count(notes, e) = 1
      BY <2>2, <1>3, DistinctOnce, CountedOnce
    <3>3. tm[e] = 0
      BY <3>1, <2>2
    <3> QED BY <3>1, <3>2, <3>3, <2>1
  <2>3. ASSUME ~In(notes, e)
        PROVE  tm2[e] = tm[e]
    <3>1. Count(notes, e) = 0
      BY <2>3, CountedNone
    <3> QED BY <3>1, <2>1
  <2> QED BY <2>2, <2>3
<1>14. tm2 \in [Possible -> {0, 1}] /\ \A e \in Possible : e \notin PostedBy(ps) => tm2[e] = 0
  <2>1. \A e \in Possible : tm2[e] \in {0, 1}
    BY <1>2, <1>13
  <2>2. tm2 = [e \in Possible |-> tm2[e]]
    BY <1>1
  <2>3. \A e \in Possible : e \notin PostedBy(ps) => tm2[e] = 0
    BY <1>2, <1>13
  <2> QED BY <2>1, <2>2, <2>3
<1>15. ASSUME NEW e \in PostedBy(ps), e.kind = "ordered"
       PROVE  tm2[e] = 1 <=> e.num < nr + run \/ In(After(merged, run), e)
  <2>1. e \in Possible /\ e.num \in Nat
    BY PossibleEvent DEF PostedBy
  <2>2. tm2[e] = 1 <=> tm[e] = 1 \/ In(notes, e)
    BY <2>1, <1>13
  <2>3. tm2[e] = 1 <=> e.num < nr \/ In(merged, e)
    BY <2>2, <1>2, <1>6, <1>15
  <2>4. /\ In(After(merged, run), e) <=> In(merged, e) /\ ~(e.num < nr + run)
        /\ nr =< e.num /\ e.num < nr + run => In(merged, e)
    BY <1>8, <1>15
  <2>5. e.num < nr => e.num < nr + run
    BY <2>1, <1>2, <1>9
  <2>6. nr =< e.num \/ e.num < nr
    BY <2>1, <1>2
  <2> QED BY <2>3, <2>4, <2>5, <2>6
<1>16. nr + run \in Nat /\ la + 1 =< nr + run
  <2>1. la \in Int
    BY DEF InvalidSendEventSeq
  <2> QED BY <2>1, <1>2, <1>9
<1>17. ReceiverInv(la, ps, nr + run, After(merged, run), pr2, tm2)
  BY <1>8, <1>10, <1>11, <1>12, <1>14, <1>15, <1>16 DEF ReceiverInv
<1>18. \A e \in PostedBy(ps) : ReadAgain(notes, e, tm[e], tm2[e])
  BY <1>13 DEF ReadAgain, PostedBy
<1> QED BY <1>9, <1>17, <1>18

LEMMA WindowHandled ==
  ASSUME window \in Seq(Net!Fates), NEW c, DOMAIN c = DOMAIN window,
         NEW i \in DOMAIN window, Net!Handle(i)
  PROVE  /\ window' \in Seq(Net!Fates) /\ Len(window') = Len(window)
         /\ FateSettled(window, window', i, c)
<1>1. /\ window[i] = "flying"
      /\ window' = [j \in DOMAIN window |->
                      CASE j = i -> "handled"
                        [] j < i /\ window[j] = "flying" -> "lost"
                        [] OTHER -> window[j]]
  BY DEF Net!Handle
<1>2. DOMAIN window = 1 .. Len(window) /\ Len(window) \in Nat
  OBVIOUS
<1>3. \A j \in DOMAIN window :
        /\ j = i => window'[j] = "handled"
        /\ j # i => window'[j] = window[j] \/ (window[j] = "flying" /\ window'[j] = "lost")
  BY <1>1
<1>4. \A j \in DOMAIN window : window[j] \in Net!Fates /\ window'[j] \in Net!Fates
  BY <1>3 DEF Net!Fates
<1>5. window' \in Seq(Net!Fates) /\ Len(window') = Len(window)
  <2>1. DOMAIN window' = 1 .. Len(window) /\ window' = [j \in 1 .. Len(window) |-> window'[j]]
    BY <1>1, <1>2
  <2>2. window' \in [1 .. Len(window) -> Net!Fates]
    BY <2>1, <1>2, <1>4
  <2> QED BY <2>2, <1>2
<1>6. FateSettled(window, window', i, c)
  BY <1>1, <1>3 DEF FateSettled
<1> QED BY <1>5, <1>6

\* What holds of the packets whether the connection has been removed or not.
LEMMA AllUnread ==
  ASSUME IInv
  PROVE  \A e \in PostedBy(posted) : times[e] \in {0, 1} /\ Unread(e, contents, window, times[e])
<1>1. \A e \in PostedBy(posted) : times[e] \in {0, 1}
  BY DEF IInv, ReceiverInv, PostedBy
<1>2. CASE removed
  BY <1>1, <1>2 DEF IInv, RemovedInv
<1>3. CASE ~removed
  <2>1. \A e \in PostedBy(posted) :
          Place(e, unorderedQueue, sendQueue, notifyList, contents, window, lastAcked,
                told[e], times[e])
    BY <1>3 DEF IInv, PlacesInv
  <2> QED BY <2>1, <1>1, PlaceUnread
<1> QED BY <1>2, <1>3 DEF IInv

\* eventReadPacket, from the ordered notes with their numbers decoded.
ReadResult(read, notes) ==
  LET merged == MergeBySeq(waiting, read)
      run    == RunLength(merged, nextRecv)
  IN  /\ times' = [e \in Possible |-> times[e] + Count(notes, e)]
      /\ processed' = processed \o [k \in 1 .. run |-> merged[k].event]
      /\ nextRecv' = nextRecv + run
      /\ waiting' = SubSeq(merged, run + 1, Len(merged))

LEMMA PacketRead ==
  ASSUME IInv, NEW i \in DOMAIN window, window[i] = "flying", EventReadPacket(contents[i])
  PROVE  /\ ReceiverInv(lastAcked, posted, nextRecv', waiting', processed', times')
         /\ \A e \in PostedBy(posted) : ReadAgain(contents[i], e, times[e], times'[e])
         /\ \E n \in Nat : nextRecv' = nextRecv + n
<1> DEFINE notes  == contents[i]
           o      == OfKind(notes, "ordered")
           merged == MergeBySeq(waiting, o)
           run    == RunLength(merged, nextRecv)
<1>1. /\ SenderInv(unorderedQueue, sendQueue, notifyList, lastAcked, posted, window, contents)
      /\ ReceiverInv(lastAcked, posted, nextRecv, waiting, processed, times)
  BY DEF IInv
<1>2. /\ posted \in [Kinds -> Nat] /\ lastAcked \in Nat \cup {InvalidSendEventSeq}
      /\ i \in DOMAIN contents
      /\ PacketList(notes, posted) /\ WithinWindow(notes, lastAcked)
  <2>1. DOMAIN contents = DOMAIN window
    BY <1>1 DEF SenderInv
  <2> QED BY <2>1, <1>1 DEF SenderInv
<1>3. \A e \in PostedBy(posted) : In(notes, e) => times[e] = 0
  BY <1>2, AllUnread DEF Unread
<1>4. /\ OrderedList(o, posted)
      /\ \A e : In(o, e) <=> In(notes, e) /\ e.kind = "ordered"
      /\ \A j \in DOMAIN o : \E k \in DOMAIN notes : o[j] = notes[k]
  BY <1>2, NotesOfKind
<1>5. WithinWindow(o, lastAcked)
  BY <1>2, <1>4 DEF WithinWindow
<1>6. /\ nextRecv \in Nat /\ lastAcked + 1 =< nextRecv
      /\ \A e \in PostedBy(posted) :
           e.kind = "ordered" => (times[e] = 1 <=> e.num < nextRecv \/ In(waiting, e))
  BY <1>1 DEF ReceiverInv
<1> HIDE DEF o
<1>7. ASSUME NEW j \in DOMAIN o
      PROVE  o[j].seq >= nextRecv
  <2>1. /\ o[j].event \in PostedBy(posted) /\ o[j].event.kind = "ordered"
        /\ o[j].seq = o[j].event.num /\ o[j].seq \in Nat
    BY <1>4, NumbersOfOrdered
  <2>2. In(o, o[j].event)
    BY DEF In
  <2>3. times[o[j].event] = 0
    BY <2>1, <2>2, <1>3, <1>4
  <2>4. ~(o[j].event.num < nextRecv)
    BY <2>1, <2>3, <1>6
  <2> QED BY <2>1, <2>4, <1>6
<1>8. [j \in DOMAIN o |-> [o[j] EXCEPT !.seq = DecodeSeq(o[j].seq % EventSeqMod, nextRecv)]] = o
  BY <1>2, <1>4, <1>5, <1>6, <1>7, ReadAsSent
<1>9. /\ times' = [e \in Possible |-> times[e] + Count(notes, e)]
      /\ processed' = processed \o [k \in 1 .. run |-> merged[k].event]
      /\ nextRecv' = nextRecv + run
      /\ waiting' = After(merged, run)
  <2>1. ReadResult([j \in DOMAIN o |->
                      [o[j] EXCEPT !.seq = DecodeSeq(o[j].seq % EventSeqMod, nextRecv)]], notes)
    BY Zenon DEF EventReadPacket, ReadResult, o
  <2>2. ReadResult(o, notes)
    BY <2>1, <1>8
  <2> QED BY <2>2, Zenon DEF ReadResult, After
<1> HIDE DEF run, merged, notes
<1>10. merged = MergeBySeq(waiting, o) /\ run = RunLength(merged, nextRecv)
  BY DEF merged, run
<1>11. /\ ReceiverInv(lastAcked, posted, nextRecv + run, After(merged, run), processed', times')
       /\ \A e \in PostedBy(posted) : ReadAgain(notes, e, times[e], times'[e])
       /\ run \in Nat
  <2>1. /\ lastAcked \in Nat \cup {InvalidSendEventSeq} /\ posted \in [Kinds -> Nat]
        /\ ReceiverInv(lastAcked, posted, nextRecv, waiting, processed, times)
        /\ OrderedList(o, posted) /\ PacketList(notes, posted)
        /\ \A e : In(o, e) <=> In(notes, e) /\ e.kind = "ordered"
    BY <1>1, <1>2, <1>4
  <2>2. \A e \in PostedBy(posted) : In(notes, e) => times[e] = 0
    BY <1>3
  <2>3. ReadFrom(nextRecv, waiting, processed, times, o, notes, merged, run, processed', times')
    BY <1>9, <1>10 DEF ReadFrom
  <2> QED BY <2>1, <2>2, <2>3, ReceiverStep
<1> QED BY <1>9, <1>11 DEF notes

LEMMA HandleStep ==
  ASSUME IInv, NEW i \in DOMAIN window, HandlePacket(i)
  PROVE  IInv'
<1>1. /\ Net!Handle(i) /\ EventReadPacket(contents[i])
      /\ unorderedQueue' = unorderedQueue /\ sendQueue' = sendQueue
      /\ notifyList' = notifyList /\ lastAcked' = lastAcked
      /\ posted' = posted /\ told' = told /\ contents' = contents /\ removed' = removed
  BY DEF HandlePacket, senderVars
<1>2. /\ removed \in BOOLEAN
      /\ SenderInv(unorderedQueue, sendQueue, notifyList, lastAcked, posted, window, contents)
  BY DEF IInv
<1>3. window \in Seq(Net!Fates) /\ DOMAIN contents = DOMAIN window
  BY <1>2 DEF SenderInv
<1>4. /\ window' \in Seq(Net!Fates) /\ Len(window') = Len(window)
      /\ FateSettled(window, window', i, contents)
  BY <1>1, <1>3, WindowHandled
<1>5. /\ ReceiverInv(lastAcked, posted, nextRecv', waiting', processed', times')
      /\ \A e \in PostedBy(posted) : ReadAgain(contents[i], e, times[e], times'[e])
  <2>1. window[i] = "flying"
    BY <1>4 DEF FateSettled
  <2> QED BY <2>1, <1>1, PacketRead
<1>6. SenderInv(unorderedQueue', sendQueue', notifyList', lastAcked', posted', window', contents')
  BY <1>1, <1>2, <1>4 DEF SenderInv
<1>7. ASSUME ~removed
      PROVE  PlacesInv(unorderedQueue', sendQueue', notifyList', lastAcked', posted', window',
                       contents', times', told')
  <2>1. /\ told \in [Possible -> Seq(BOOLEAN)]
        /\ \A e \in Possible : e \notin PostedBy(posted) => told[e] = <<>>
        /\ \A e \in PostedBy(posted) :
             Place(e, unorderedQueue, sendQueue, notifyList, contents, window, lastAcked,
                   told[e], times[e])
    BY <1>7 DEF IInv, PlacesInv
  <2>2. \A e \in PostedBy(posted) :
          Place(e, unorderedQueue, sendQueue, notifyList, contents, window', lastAcked,
                told[e], times'[e])
    BY <2>1, <1>4, <1>5, AllUnread, PlaceHandled
  <2> QED BY <2>1, <2>2, <1>1 DEF PlacesInv
<1>8. ASSUME removed
      PROVE  RemovedInv(posted', window', contents', times', told')
  <2>1. /\ told \in [Possible -> Seq(BOOLEAN)]
        /\ \A e \in PostedBy(posted) : Len(told[e]) = 1
        /\ \A e \in PostedBy(posted) : Unread(e, contents, window, times[e])
    BY <1>8 DEF IInv, RemovedInv
  <2>2. \A e \in PostedBy(posted) : Unread(e, contents, window', times'[e])
    BY <2>1, <1>4, <1>5, AllUnread, UnreadHandled
  <2> QED BY <2>1, <2>2, <1>1 DEF RemovedInv
<1> QED BY <1>1, <1>2, <1>5, <1>6, <1>7, <1>8 DEF IInv

-----------------------------------------------------------------------------
(* The notify of a packet.                                                 *)

\* The oldest packet goes, the others move up.
PacketTaken(c, w, c2, w2) ==
  /\ 1 \in DOMAIN c
  /\ \A i \in DOMAIN c2 : /\ i \in Nat /\ i >= 1 /\ i + 1 \in DOMAIN c
                          /\ c2[i] = c[i + 1] /\ w2[i] = w[i + 1]
  /\ \A i \in DOMAIN c : i \in Nat /\ (i # 1 => i - 1 \in DOMAIN c2)

LEMMA OldestTaken ==
  ASSUME IInv, window # <<>>, Net!Notify(1), contents' = Tail(contents)
  PROVE  /\ PacketTaken(contents, window, contents', window')
         /\ window[1] \in {"handled", "lost"}
         /\ window' \in Seq(Net!Fates)
         /\ contents' \in Seq(Seq(GoodNotes(posted))) /\ Len(contents') = Len(window')
<1>1. /\ window \in Seq(Net!Fates)
      /\ contents \in Seq(Seq(GoodNotes(posted))) /\ Len(contents) = Len(window)
  BY DEF IInv, SenderInv
<1>2. /\ window[1] # "flying"
      /\ window' = After(window, 1)
  BY DEF Net!Notify, After
<1>3. /\ Len(window) \in Nat /\ Len(window) >= 1
      /\ DOMAIN window = 1 .. Len(window) /\ DOMAIN contents = 1 .. Len(window)
      /\ \A i \in DOMAIN window : window[i] \in Net!Fates
  BY <1>1
<1>4. /\ IsList(window) /\ 1 \in 0 .. Len(window)
  BY <1>1, <1>3 DEF IsList
<1>5. /\ window' \in Seq(Net!Fates)
      /\ Len(window') = Len(window) - 1
      /\ \A i \in 1 .. Len(window) - 1 : window'[i] = window[1 + i]
  BY <1>1, <1>2, <1>4, Parts, PartsTyped
<1>6. /\ contents' \in Seq(Seq(GoodNotes(posted))) /\ Len(contents') = Len(contents) - 1
      /\ \A i \in 1 .. Len(contents) - 1 : contents'[i] = contents[i + 1]
  <2>1. contents # <<>>
    BY <1>1, <1>3
  <2> QED BY <2>1, <1>1, HeadTailProperties
<1>7. DOMAIN contents' = 1 .. Len(window) - 1
  BY <1>1, <1>6
<1>8. PacketTaken(contents, window, contents', window')
  <2>1. 1 \in DOMAIN contents
    BY <1>3
  <2>2. ASSUME NEW i \in DOMAIN contents'
        PROVE  /\ i \in Nat /\ i >= 1 /\ i + 1 \in DOMAIN contents
               /\ contents'[i] = contents[i + 1] /\ window'[i] = window[i + 1]
    <3>1. /\ i \in 1 .. Len(window) - 1 /\ i \in Nat /\ i >= 1
          /\ i + 1 \in 1 .. Len(window) /\ 1 + i = i + 1
      BY <1>3, <1>7
    <3>2. contents'[i] = contents[i + 1]
      BY <3>1, <1>1, <1>6
    <3>3. window'[i] = window[i + 1]
      BY <3>1, <1>5
    <3> QED BY <3>1, <3>2, <3>3, <1>3
  <2>3. ASSUME NEW i \in DOMAIN contents
        PROVE  i \in Nat /\ (i # 1 => i - 1 \in DOMAIN contents')
    BY <1>3, <1>7
  <2> QED BY <2>1, <2>2, <2>3 DEF PacketTaken
<1>9. window[1] \in {"handled", "lost"}
  BY <1>2, <1>3 DEF Net!Fates
<1> QED BY <1>1, <1>5, <1>6, <1>8, <1>9

\* An event of the oldest packet is nowhere else.
LEMMA PlaceTaken ==
  ASSUME NEW e, NEW uq, NEW sq, NEW nl, NEW c, NEW w, NEW la, NEW t, NEW n \in {0, 1},
         Place(e, uq, sq, nl, c, w, la, t, n),
         NEW c2, NEW w2, PacketTaken(c, w, c2, w2), In(c[1], e)
  PROVE  /\ ~In(uq, e) /\ ~In(sq, e) /\ ~In(nl, e) /\ NoPacket(e, c2) /\ t = <<>>
         /\ n = IF w[1] = "handled" THEN 1 ELSE 0
         /\ e.kind = "ordered" => e.num > la
<1>1. 1 \in DOMAIN c /\ ~NoPacket(e, c)
  BY DEF NoPacket, PacketTaken
<1>2. Carried(e, uq, sq, nl, c, w, t, n) /\ (e.kind = "ordered" => e.num > la)
  BY <1>1 DEF Place, Queued, Held, Notified
<1>3. PICK k \in DOMAIN c : /\ In(c[k], e) /\ (n = 1 <=> w[k] = "handled")
                            /\ \A j \in DOMAIN c : In(c[j], e) => j = k
  BY <1>2 DEF Carried
<1>4. k = 1
  BY <1>1, <1>3
<1>5. NoPacket(e, c2)
  <2>1. SUFFICES ASSUME NEW i \in DOMAIN c2, In(c2[i], e)
                 PROVE  FALSE
    BY DEF NoPacket
  <2>2. i >= 1 /\ i \in Nat /\ i + 1 \in DOMAIN c /\ In(c[i + 1], e)
    BY <2>1 DEF PacketTaken
  <2>3. i + 1 = 1
    BY <2>2, <1>3, <1>4
  <2> QED BY <2>2, <2>3
<1> QED BY <1>2, <1>3, <1>4, <1>5 DEF Carried

\* Any other event stays where it is when its queues do.
LEMMA PlaceKept ==
  ASSUME NEW e, NEW uq, NEW sq, NEW nl, NEW c, NEW w, NEW la, NEW t, NEW n,
         Place(e, uq, sq, nl, c, w, la, t, n),
         NEW c2, NEW w2, PacketTaken(c, w, c2, w2), ~In(c[1], e),
         NEW uq2, In(uq2, e) <=> In(uq, e), NEW sq2, In(sq2, e) <=> In(sq, e),
         NEW nl2, In(nl2, e) <=> In(nl, e),
         NEW la2, e.kind = "ordered" => /\ e.num > la => e.num > la2
                                        /\ e.num =< la => e.num =< la2
  PROVE  Place(e, uq2, sq2, nl2, c2, w2, la2, t, n)
<1>1. NoPacket(e, c) => NoPacket(e, c2)
  BY DEF NoPacket, PacketTaken
<1>2. ASSUME Carried(e, uq, sq, nl, c, w, t, n)
      PROVE  Carried(e, uq2, sq2, nl2, c2, w2, t, n)
  <2>1. PICK k \in DOMAIN c : /\ In(c[k], e) /\ (n = 1 <=> w[k] = "handled")
                              /\ \A j \in DOMAIN c : In(c[j], e) => j = k
    BY <1>2 DEF Carried
  <2>2. k # 1 /\ k \in Nat
    BY <2>1 DEF PacketTaken
  <2>3. k - 1 \in DOMAIN c2
    BY <2>1, <2>2 DEF PacketTaken
  <2>4. c2[k - 1] = c[k] /\ w2[k - 1] = w[k]
    <3>1. /\ c2[k - 1] = c[(k - 1) + 1] /\ w2[k - 1] = w[(k - 1) + 1]
      BY <2>3 DEF PacketTaken
    <3>2. (k - 1) + 1 = k
      BY <2>2
    <3> QED BY <3>1, <3>2
  <2>5. ASSUME NEW j \in DOMAIN c2, In(c2[j], e)
        PROVE  j = k - 1
    <3>1. j \in Nat /\ j + 1 \in DOMAIN c /\ In(c[j + 1], e)
      BY <2>5 DEF PacketTaken
    <3>2. j + 1 = k
      BY <3>1, <2>1
    <3> QED BY <3>1, <3>2
  <2>6. /\ In(c2[k - 1], e) /\ (n = 1 <=> w2[k - 1] = "handled")
        /\ \A j \in DOMAIN c2 : In(c2[j], e) => j = k - 1
    BY <2>1, <2>4, <2>5
  <2> QED BY <2>3, <2>6, <1>2 DEF Carried
<1>3. Queued(e, uq, sq, nl, c, t, n) => Queued(e, uq2, sq2, nl2, c2, t, n)
  BY <1>1 DEF Queued
<1>4. Held(e, uq, sq, nl, c, t, n) => Held(e, uq2, sq2, nl2, c2, t, n)
  BY <1>1 DEF Held
<1>5. Notified(e, uq, sq, nl, c, t, n) => Notified(e, uq2, sq2, nl2, c2, t, n)
  BY <1>1 DEF Notified
<1> QED BY <1>2, <1>3, <1>4, <1>5 DEF Place

\* What eventPacketReceived makes of the ordered events o of the packet.
LEMMA ReceivedLists ==
  ASSUME NEW la \in Nat \cup {InvalidSendEventSeq}, NEW ps,
         NEW nl, OrderedList(nl, ps), \A i \in DOMAIN nl : nl[i].seq > la + 1,
         NEW o, OrderedList(o, ps), \A e : In(o, e) => ~In(nl, e) /\ e.num > la,
         NEW merged, merged = MergeBySeq(nl, o), NEW run, run = RunLength(merged, la + 1)
  PROVE  /\ run \in Nat
         /\ OrderedList(Until(merged, run), ps) /\ OrderedList(After(merged, run), ps)
         /\ \A i \in DOMAIN After(merged, run) : After(merged, run)[i].seq > la + run + 1
         /\ \A e \in PostedBy(ps) : e.kind = "ordered" =>
              /\ In(Until(merged, run), e) <=> (In(nl, e) \/ In(o, e)) /\ e.num =< la + run
              /\ In(After(merged, run), e) <=> (In(nl, e) \/ In(o, e)) /\ e.num > la + run
              /\ e.num > la /\ e.num =< la + run => In(nl, e) \/ In(o, e)
         /\ \A m \in Nat : la < m /\ m =< la + run =>
              /\ [kind |-> "ordered", num |-> m] \in PostedBy(ps)
              /\ \/ In(nl, [kind |-> "ordered", num |-> m])
                 \/ In(o, [kind |-> "ordered", num |-> m])
<1>1. la \in Int /\ la + 1 \in Nat
  BY DEF InvalidSendEventSeq
<1>2. /\ OrderedList(merged, ps)
      /\ \A e : In(merged, e) <=> In(nl, e) \/ In(o, e)
  BY NotesMerged
<1>3. ASSUME NEW i \in DOMAIN merged
      PROVE  merged[i].seq >= la + 1
  <2>1. /\ merged[i].seq = merged[i].event.num /\ merged[i].event.num \in Nat
        /\ In(merged, merged[i].event)
    BY <1>2, NumbersOfOrdered DEF In
  <2>2. CASE In(nl, merged[i].event)
    <3>1. PICK j \in DOMAIN nl : nl[j].event = merged[i].event
      BY <2>2 DEF In
    <3>2. nl[j].seq = merged[i].event.num /\ nl[j].seq > la + 1
      BY <3>1, NumbersOfOrdered
    <3> QED BY <3>2, <2>1, <1>1
  <2>3. CASE In(o, merged[i].event)
    BY <2>1, <2>3, <1>1
  <2> QED BY <2>1, <2>2, <2>3, <1>2
<1>4. /\ run \in 0 .. Len(merged)
      /\ \A i \in 1 .. run : merged[i].event = [kind |-> "ordered", num |-> la + 1 + i - 1]
      /\ \A e \in PostedBy(ps) : e.kind = "ordered" =>
           /\ In(Until(merged, run), e) <=> In(merged, e) /\ e.num < la + 1 + run
           /\ In(After(merged, run), e) <=> In(merged, e) /\ ~(e.num < la + 1 + run)
           /\ la + 1 =< e.num /\ e.num < la + 1 + run => In(merged, e)
      /\ \A i \in DOMAIN After(merged, run) : After(merged, run)[i].seq > la + 1 + run
  <2>1. /\ la + 1 \in Nat /\ OrderedList(merged, ps)
        /\ \A i \in DOMAIN merged : merged[i].seq >= la + 1
    BY <1>1, <1>2, <1>3
  <2> QED BY <2>1, RunTaken
<1>5. /\ Len(merged) \in Nat /\ DOMAIN merged = 1 .. Len(merged)
      /\ \A i \in DOMAIN merged : merged[i].event \in PostedBy(ps)
  BY <1>2, NumbersOfOrdered
<1>6. run \in Nat
  BY <1>4, <1>5
<1>7. OrderedList(Until(merged, run), ps) /\ OrderedList(After(merged, run), ps)
  BY <1>2, <1>4, PartsOfOrdered
<1>8. \A i \in DOMAIN After(merged, run) : After(merged, run)[i].seq > la + run + 1
  <2>1. la + 1 + run = la + run + 1
    BY <1>1, <1>6
  <2> QED BY <2>1, <1>4
<1>9. ASSUME NEW e \in PostedBy(ps), e.kind = "ordered"
      PROVE  /\ In(Until(merged, run), e) <=> (In(nl, e) \/ In(o, e)) /\ e.num =< la + run
             /\ In(After(merged, run), e) <=> (In(nl, e) \/ In(o, e)) /\ e.num > la + run
             /\ e.num > la /\ e.num =< la + run => In(nl, e) \/ In(o, e)
  <2>1. e.num \in Nat
    BY PossibleEvent DEF PostedBy
  <2>2. /\ e.num < la + 1 + run <=> e.num =< la + run
        /\ ~(e.num < la + 1 + run) <=> e.num > la + run
        /\ la + 1 =< e.num <=> e.num > la
    BY <2>1, <1>1, <1>6
  <2> QED BY <2>2, <1>2, <1>4, <1>9
<1>10. ASSUME NEW m \in Nat, la < m, m =< la + run
       PROVE  /\ [kind |-> "ordered", num |-> m] \in PostedBy(ps)
              /\ \/ In(nl, [kind |-> "ordered", num |-> m])
                 \/ In(o, [kind |-> "ordered", num |-> m])
  <2>1. m - la \in 1 .. run /\ la + 1 + (m - la) - 1 = m
    BY <1>1, <1>6, <1>10
  <2>2. merged[m - la].event = [kind |-> "ordered", num |-> m]
    BY <2>1, <1>4
  <2>3. m - la \in DOMAIN merged
    BY <2>1, <1>4, <1>5
  <2>4. /\ [kind |-> "ordered", num |-> m] \in PostedBy(ps)
        /\ In(merged, [kind |-> "ordered", num |-> m])
    BY <2>2, <2>3, <1>5 DEF In
  <2> QED BY <2>4, <1>2
<1> QED BY <1>6, <1>7, <1>8, <1>9, <1>10

\* The events notified as received: unordered ones of the packet, ordered ones
\* of the run u.
Acked(e, notes, u) == IF e.kind = "ordered" THEN In(u, e) ELSE In(notes, e)

ToldAcked(e, notes, u, t, t2) ==
  /\ Acked(e, notes, u) => (t = <<>> => t2 = <<TRUE>>)
  /\ ~Acked(e, notes, u) => t2 = t

\* What the run u and the list nl2 left over hold of one event.
RunSettled(e, nl, notes, la, u, nl2, la2) ==
  /\ e.kind = "ordered" =>
       /\ In(u, e) <=> (In(nl, e) \/ In(notes, e)) /\ e.num =< la2
       /\ In(nl2, e) <=> (In(nl, e) \/ In(notes, e)) /\ e.num > la2
       /\ e.num > la /\ ~(e.num > la2) => In(nl, e) \/ In(notes, e)
       /\ e.num =< la => e.num =< la2
       /\ e.num > la2 <=> ~(e.num =< la2)
  /\ e.kind # "ordered" => ~In(nl, e) /\ ~In(nl2, e)

\* What becomes of one event when its packet, or that of an earlier ordered
\* event, is notified as received.
LEMMA PlaceReceived ==
  ASSUME NEW e, NEW uq, NEW sq, NEW nl, NEW c, NEW w, NEW la, NEW t, NEW n \in {0, 1},
         Place(e, uq, sq, nl, c, w, la, t, n),
         NEW c2, NEW w2, PacketTaken(c, w, c2, w2), w[1] = "handled",
         NEW la2, NEW u, NEW nl2, RunSettled(e, nl, c[1], la, u, nl2, la2),
         NEW t2, ToldAcked(e, c[1], u, t, t2)
  PROVE  Place(e, uq, sq, nl2, c2, w2, la2, t2, n)
<1> USE DEF RunSettled, Acked, ToldAcked
<1>1. CASE In(c[1], e) \/ In(nl, e)
  <2>1. /\ ~In(uq, e) /\ ~In(sq, e) /\ NoPacket(e, c2) /\ t = <<>> /\ n = 1
        /\ e.kind = "ordered" => e.num > la
    <3>1. CASE In(c[1], e)
      BY <3>1, PlaceTaken
    <3>2. CASE In(nl, e) /\ ~In(c[1], e)
      <4>1. Held(e, uq, sq, nl, c, t, n) /\ (e.kind = "ordered" => e.num > la)
        BY <3>2 DEF Place, Queued, Carried, Held, Notified
      <4>2. NoPacket(e, c2)
        BY <4>1 DEF Held, NoPacket, PacketTaken
      <4> QED BY <4>1, <4>2 DEF Held
    <3> QED BY <1>1, <3>1, <3>2
  <2>2. CASE Acked(e, c[1], u)
    <3>1. t2 = <<TRUE>> /\ ~In(nl2, e) /\ (e.kind = "ordered" => e.num =< la2)
      BY <2>1, <2>2
    <3>2. Notified(e, uq, sq, nl2, c2, t2, n)
      BY <3>1, <2>1 DEF Notified
    <3> QED BY <3>1, <3>2 DEF Place
  <2>3. CASE ~Acked(e, c[1], u)
    <3>1. t2 = <<>> /\ In(nl2, e) /\ (e.kind = "ordered" => e.num > la2)
      BY <2>1, <2>3, <1>1
    <3>2. Held(e, uq, sq, nl2, c2, t2, n)
      BY <3>1, <2>1 DEF Held
    <3> QED BY <3>1, <3>2 DEF Place
  <2> QED BY <2>2, <2>3
<1>2. CASE ~In(c[1], e) /\ ~In(nl, e)
  <2>1. t2 = t /\ ~In(nl2, e)
    BY <1>2
  <2>2. e.kind = "ordered" => /\ e.num > la => e.num > la2
                              /\ e.num =< la => e.num =< la2
    BY <1>2
  <2> QED BY <2>1, <2>2, <1>2, PlaceKept
<1> QED BY <1>1, <1>2

LEMMA ToldReceived ==
  ASSUME NEW ps, NEW notes, PacketList(notes, ps), NEW u, OrderedList(u, ps),
         NEW td \in [Possible -> Seq(BOOLEAN)],
         \A e \in Possible : Acked(e, notes, u) => td[e] = <<>>,
         NEW td2, td2 = NotifyDelivered(
                          NotifyDelivered(td, notes, Unordered, Yes),
                          u, Kinds, Yes)
  PROVE  /\ td2 \in [Possible -> Seq(BOOLEAN)]
         /\ \A e \in Possible : /\ Acked(e, notes, u) => td2[e] = <<Yes>>
                                /\ ~Acked(e, notes, u) => td2[e] = td[e]
<1> DEFINE mid == NotifyDelivered(td, notes, Unordered, Yes)
<1>1. /\ Distinct(notes) /\ Distinct(u)
      /\ \A e : In(u, e) => e.kind = "ordered"
  BY OrderedDistinct DEF PacketList, OrderedList, In
<1>2. <<Yes>> \in Seq(BOOLEAN)
  BY DEF Yes
<1>3. ASSUME NEW e \in Possible
      PROVE  /\ Acked(e, notes, u) => td2[e] = <<Yes>>
             /\ ~Acked(e, notes, u) => td2[e] = td[e]
             /\ td2[e] \in Seq(BOOLEAN)
  <2>1. td[e] \in Seq(BOOLEAN) /\ e.kind \in Kinds
    BY PossibleEvent
  <2>2. CASE e.kind = "ordered"
    <3>1. mid[e] = td[e]
      <4>1. e.kind \notin Unordered
        BY <2>2 DEF Unordered
      <4> QED BY <4>1, DeliveredOther
    <3> HIDE DEF mid
    <3>2. td2 = NotifyDelivered(mid, u, Kinds, Yes)
      BY DEF mid
    <3>3. CASE In(u, e)
      <4>1. Once(u, e) /\ mid[e] = <<>>
        BY <3>1, <3>3, <1>1, <2>2, DistinctOnce DEF Acked
      <4>2. td2[e] = <<Yes>>
        BY <4>1, <3>2, <2>1, DeliveredOnce
      <4> QED BY <4>2, <3>3, <2>2, <1>2 DEF Acked
    <3>4. CASE ~In(u, e)
      <4>1. mid[e] \in Seq(BOOLEAN)
        BY <2>1, <3>1
      <4>2. td2[e] = mid[e]
        BY <4>1, <3>2, <3>4, DeliveredNot
      <4> QED BY <4>2, <2>1, <3>1, <3>4, <2>2 DEF Acked
    <3> QED BY <3>3, <3>4
  <2>3. CASE e.kind # "ordered"
    <3>1. ~In(u, e) /\ e.kind \in Unordered
      BY <1>1, <2>1, <2>3 DEF Kinds, Unordered
    <3>2. /\ In(notes, e) => mid[e] = <<Yes>>
          /\ ~In(notes, e) => mid[e] = td[e]
      <4>1. CASE In(notes, e)
        <5>1. Once(notes, e) /\ td[e] = <<>>
          BY <4>1, <1>1, <2>3, DistinctOnce DEF Acked
        <5> QED BY <5>1, <4>1, <3>1, DeliveredOnce
      <4>2. CASE ~In(notes, e)
        BY <4>2, <2>1, DeliveredNot
      <4> QED BY <4>1, <4>2
    <3> HIDE DEF mid
    <3>3. td2 = NotifyDelivered(mid, u, Kinds, Yes)
      BY DEF mid
    <3>4. mid[e] \in Seq(BOOLEAN)
      BY <3>2, <2>1, <1>2
    <3>5. td2[e] = mid[e]
      BY <3>1, <3>3, <3>4, DeliveredNot
    <3> QED BY <3>2, <3>4, <3>5, <2>3 DEF Acked
  <2> QED BY <2>2, <2>3
<1>4. td2 \in [Possible -> Seq(BOOLEAN)]
  BY <1>3, DeliveredDomain
<1> QED BY <1>3, <1>4

\* What was within the event window stays within it when more is acked.
LEMMA WindowGoesOn ==
  ASSUME NEW ps, NEW s, PacketList(s, ps), NEW la \in Int, WithinWindow(s, la),
         NEW la2 \in Int, la2 >= la
  PROVE  WithinWindow(s, la2)
<1>1. \A i \in DOMAIN s : s[i] \in GoodNotes(ps)
  BY GoodElements DEF PacketList
<1>2. \A i \in DOMAIN s : s[i].seq \in Int
  BY <1>1, GoodNote DEF InvalidSendEventSeq
<1> QED BY <1>2, ConstantTypes DEF WithinWindow

LEMMA ReceivedStep ==
  ASSUME IInv, HandleNotify, window[1] = "handled"
  PROVE  IInv' /\ lastAcked' >= lastAcked
<1> DEFINE notes  == contents[1]
           o      == OfKind(notes, "ordered")
           merged == MergeBySeq(notifyList, o)
           run    == RunLength(merged, lastAcked + 1)
           u      == Until(merged, run)
<1>1. /\ ~removed /\ removed' = removed /\ window # <<>> /\ Net!Notify(1)
      /\ contents' = Tail(contents) /\ posted' = posted
      /\ nextRecv' = nextRecv /\ waiting' = waiting
      /\ processed' = processed /\ times' = times
      /\ EventPacketReceived(notes)
  BY DEF HandleNotify, receiverVars
<1>2. /\ told' = NotifyDelivered(
                   NotifyDelivered(told, notes, Unordered, Yes),
                   u, Kinds, Yes)
      /\ lastAcked' = lastAcked + run
      /\ notifyList' = After(merged, run)
      /\ unorderedQueue' = unorderedQueue /\ sendQueue' = sendQueue
  BY <1>1 DEF EventPacketReceived, Until, After, Yes, Unordered
<1>3. /\ PacketTaken(contents, window, contents', window')
      /\ window' \in Seq(Net!Fates)
      /\ contents' \in Seq(Seq(GoodNotes(posted))) /\ Len(contents') = Len(window')
  BY <1>1, OldestTaken
<1>4. /\ SenderInv(unorderedQueue, sendQueue, notifyList, lastAcked, posted, window, contents)
      /\ ReceiverInv(lastAcked, posted, nextRecv, waiting, processed, times)
      /\ PlacesInv(unorderedQueue, sendQueue, notifyList, lastAcked, posted, window,
                   contents, times, told)
  BY <1>1 DEF IInv
<1>5. /\ lastAcked \in Nat \cup {InvalidSendEventSeq} /\ lastAcked \in Int
      /\ OrderedList(notifyList, posted) /\ UnorderedList(unorderedQueue, posted)
      /\ \A i \in DOMAIN notifyList : notifyList[i].seq > lastAcked + 1
      /\ \A i \in DOMAIN contents : PacketList(contents[i], posted)
                                    /\ WithinWindow(contents[i], lastAcked)
  BY <1>4 DEF SenderInv, InvalidSendEventSeq
<1>6. /\ told \in [Possible -> Seq(BOOLEAN)]
      /\ \A e \in Possible : e \notin PostedBy(posted) => told[e] = <<>>
      /\ \A e \in PostedBy(posted) :
           Place(e, unorderedQueue, sendQueue, notifyList, contents, window, lastAcked,
                 told[e], times[e])
  BY <1>4 DEF PlacesInv
<1>7. PacketList(notes, posted)
  BY <1>3, <1>5 DEF PacketTaken
<1>8. /\ OrderedList(o, posted)
      /\ \A e : In(o, e) <=> In(notes, e) /\ e.kind = "ordered"
      /\ \A e : In(notes, e) => e \in PostedBy(posted)
  BY <1>7, NotesOfKind, NotYetInList DEF PacketList
<1>9. \A e \in PostedBy(posted) : times[e] \in {0, 1}
  BY AllUnread
<1>10. ASSUME NEW e, In(notes, e)
       PROVE  /\ ~In(notifyList, e) /\ told[e] = <<>> /\ times[e] = 1
              /\ e.kind = "ordered" => e.num > lastAcked
  <2>1. e \in PostedBy(posted) /\ times[e] \in {0, 1} /\ In(contents[1], e)
    BY <1>8, <1>9, <1>10
  <2>2. Place(e, unorderedQueue, sendQueue, notifyList, contents, window, lastAcked,
              told[e], times[e])
    BY <2>1, <1>6
  <2> HIDE DEF notes
  <2> QED BY <2>1, <2>2, <1>3, PlaceTaken
<1>11. ASSUME NEW e, In(notifyList, e)
       PROVE  e \in PostedBy(posted) /\ e.kind = "ordered" /\ told[e] = <<>> /\ times[e] = 1
  <2>1. e \in PostedBy(posted) /\ e.kind = "ordered"
    BY <1>5, <1>11, NumbersOfOrdered DEF In
  <2>2. Place(e, unorderedQueue, sendQueue, notifyList, contents, window, lastAcked,
              told[e], times[e])
    BY <2>1, <1>6
  <2> QED BY <2>1, <2>2, <1>11 DEF Place, Queued, Carried, Held, Notified
<1> HIDE DEF notes, o
<1>12. \A e : In(o, e) => ~In(notifyList, e) /\ e.num > lastAcked
  BY <1>8, <1>10
<1>13. /\ run \in Nat
       /\ OrderedList(u, posted) /\ OrderedList(After(merged, run), posted)
       /\ \A i \in DOMAIN After(merged, run) : After(merged, run)[i].seq > lastAcked + run + 1
       /\ \A e \in PostedBy(posted) : e.kind = "ordered" =>
            /\ In(u, e) <=> (In(notifyList, e) \/ In(o, e)) /\ e.num =< lastAcked + run
            /\ In(After(merged, run), e) <=>
                 (In(notifyList, e) \/ In(o, e)) /\ e.num > lastAcked + run
            /\ e.num > lastAcked /\ e.num =< lastAcked + run => In(notifyList, e) \/ In(o, e)
       /\ \A m \in Nat : lastAcked < m /\ m =< lastAcked + run =>
            /\ [kind |-> "ordered", num |-> m] \in PostedBy(posted)
            /\ \/ In(notifyList, [kind |-> "ordered", num |-> m])
               \/ In(o, [kind |-> "ordered", num |-> m])
  BY <1>5, <1>8, <1>12, ReceivedLists
<1> HIDE DEF merged, run
<1>14. \A e : In(u, e) => e \in PostedBy(posted) /\ e.kind = "ordered"
  BY <1>13, NumbersOfOrdered DEF In
<1> HIDE DEF u
<1>15. lastAcked' \in Nat \cup {InvalidSendEventSeq} /\ lastAcked' \in Int /\ lastAcked' >= lastAcked
  BY <1>2, <1>5, <1>13 DEF InvalidSendEventSeq
<1>16. SenderInv(unorderedQueue', sendQueue', notifyList', lastAcked', posted', window', contents')
  <2>1. \A i \in DOMAIN contents' : PacketList(contents'[i], posted)
                                    /\ WithinWindow(contents'[i], lastAcked')
    <3>1. \A i \in DOMAIN contents' : PacketList(contents'[i], posted)
                                      /\ WithinWindow(contents'[i], lastAcked)
      BY <1>3, <1>5 DEF PacketTaken
    <3>2. \A s : PacketList(s, posted) /\ WithinWindow(s, lastAcked) => WithinWindow(s, lastAcked')
      BY <1>5, <1>15, WindowGoesOn
    <3> QED BY <3>1, <3>2
  <2>2. \A i \in DOMAIN notifyList' : notifyList'[i].seq > lastAcked' + 1
    BY <1>2, <1>13
  <2>3. /\ posted \in [Kinds -> Nat] /\ \A k \in Kinds : posted[k] =< MaxPosted[k]
        /\ OrderedList(sendQueue, posted)
    BY <1>4 DEF SenderInv
  <2> QED BY <2>1, <2>2, <2>3, <1>1, <1>2, <1>3, <1>5, <1>13, <1>15 DEF SenderInv
<1>17. lastAcked' + 1 =< nextRecv
  <2>1. nextRecv \in Nat /\ lastAcked + 1 =< nextRecv
    BY <1>4 DEF ReceiverInv
  <2>2. SUFFICES ASSUME lastAcked < nextRecv, nextRecv =< lastAcked + run
                 PROVE  FALSE
    BY <2>1, <1>2, <1>5, <1>13
  <2> DEFINE e == [kind |-> "ordered", num |-> nextRecv]
  <2>3. e \in PostedBy(posted) /\ (In(notifyList, e) \/ In(o, e))
    BY <2>1, <2>2, <1>13
  <2>4. e.kind = "ordered" /\ e.num = nextRecv
    OBVIOUS
  <2> HIDE DEF e
  <2>5. times[e] = 1
    BY <2>3, <1>8, <1>10, <1>11
  <2>6. In(waiting, e)
    <3>1. times[e] = 1 <=> e.num < nextRecv \/ In(waiting, e)
      BY <2>3, <2>4, <1>4 DEF ReceiverInv
    <3> QED BY <3>1, <2>1, <2>4, <2>5
  <2>7. PICK i \in DOMAIN waiting : waiting[i].event = e
    BY <2>6 DEF In
  <2>8. waiting[i].seq > nextRecv /\ waiting[i].seq = e.num
    BY <2>7, <1>4, NumbersOfOrdered DEF ReceiverInv
  <2> QED BY <2>8, <2>4, <2>1
<1>18. ReceiverInv(lastAcked', posted', nextRecv', waiting', processed', times')
  BY <1>1, <1>4, <1>17 DEF ReceiverInv
<1>19. /\ told' \in [Possible -> Seq(BOOLEAN)]
       /\ \A e \in Possible : /\ Acked(e, notes, u) => told'[e] = <<Yes>>
                              /\ ~Acked(e, notes, u) => told'[e] = told[e]
  <2>1. \A e \in Possible : Acked(e, notes, u) => told[e] = <<>>
    <3>1. ASSUME NEW e, In(u, e)
          PROVE  told[e] = <<>>
      <4>1. In(notifyList, e) \/ In(o, e)
        BY <3>1, <1>13, <1>14
      <4> QED BY <4>1, <1>8, <1>10, <1>11
    <3> QED BY <3>1, <1>10 DEF Acked
  <2>2. /\ PacketList(notes, posted) /\ OrderedList(u, posted)
        /\ told \in [Possible -> Seq(BOOLEAN)]
        /\ told' = NotifyDelivered(
                     NotifyDelivered(told, notes, Unordered, Yes),
                     u, Kinds, Yes)
    BY <1>2, <1>6, <1>7, <1>13
  <2> QED BY <2>1, <2>2, ToldReceived
<1>20. PlacesInv(unorderedQueue', sendQueue', notifyList', lastAcked', posted', window',
                 contents', times', told')
  <2>1. ASSUME NEW e \in Possible, e \notin PostedBy(posted)
        PROVE  told'[e] = <<>>
    <3>1. ~Acked(e, notes, u)
      BY <2>1, <1>8, <1>14 DEF Acked
    <3> QED BY <3>1, <2>1, <1>6, <1>19
  <2>2. ASSUME NEW e \in PostedBy(posted)
        PROVE  Place(e, unorderedQueue, sendQueue, notifyList', contents', window', lastAcked',
                     told'[e], times[e])
    <3>1. Place(e, unorderedQueue, sendQueue, notifyList, contents, window, lastAcked,
                told[e], times[e]) /\ times[e] \in {0, 1}
      BY <1>6, <1>9
    <3>2. e \in Possible /\ e.num \in Nat
      BY PossibleEvent DEF PostedBy
    <3>3. ToldAcked(e, contents[1], u, told[e], told'[e])
      BY <3>2, <1>19 DEF ToldAcked, Yes, notes
    <3>4. RunSettled(e, notifyList, contents[1], lastAcked, u, notifyList', lastAcked')
      <4>1. ASSUME e.kind = "ordered"
            PROVE  /\ In(u, e) <=> (In(notifyList, e) \/ In(notes, e)) /\ e.num =< lastAcked'
                   /\ In(notifyList', e) <=>
                        (In(notifyList, e) \/ In(notes, e)) /\ e.num > lastAcked'
                   /\ e.num > lastAcked /\ e.num =< lastAcked' =>
                        In(notifyList, e) \/ In(notes, e)
        BY <4>1, <1>2, <1>8, <1>13
      <4>2. /\ e.num =< lastAcked => e.num =< lastAcked'
            /\ e.num > lastAcked' <=> ~(e.num =< lastAcked')
        BY <3>2, <1>5, <1>15
      <4>3. ASSUME In(notifyList', e)
            PROVE  e.kind = "ordered"
        BY <4>3, <1>2, <1>13, NumbersOfOrdered DEF In
      <4> QED BY <4>1, <4>2, <4>3, <1>11 DEF RunSettled, notes
    <3>5. PacketTaken(contents, window, contents', window') /\ window[1] = "handled"
      BY <1>3
    <3> QED BY <3>1, <3>3, <3>4, <3>5, PlaceReceived
  <2> QED BY <2>1, <2>2, <1>1, <1>2, <1>19 DEF PlacesInv
<1> QED BY <1>1, <1>15, <1>16, <1>18, <1>20 DEF IInv

\* The notes of a dropped packet that were not guaranteed are reported lost,
\* the others are queued again.
QueuedAgain(e, uq, sq, notes, uq2, sq2) ==
  /\ In(uq2, e) <=> In(uq, e) \/ (In(notes, e) /\ e.kind = "guaranteed")
  /\ In(sq2, e) <=> In(sq, e) \/ (In(notes, e) /\ e.kind = "ordered")

ToldLost(e, notes, t, t2) ==
  /\ In(notes, e) /\ e.kind = "unguaranteed" => (t = <<>> => t2 = <<FALSE>>)
  /\ ~(In(notes, e) /\ e.kind = "unguaranteed") => t2 = t

LEMMA PlaceDropped ==
  ASSUME NEW e, NEW uq, NEW sq, NEW nl, NEW c, NEW w, NEW la, NEW t, NEW n \in {0, 1},
         Place(e, uq, sq, nl, c, w, la, t, n), e.kind \in Kinds,
         NEW c2, NEW w2, PacketTaken(c, w, c2, w2), w[1] # "handled",
         NEW uq2, NEW sq2, QueuedAgain(e, uq, sq, c[1], uq2, sq2),
         NEW t2, ToldLost(e, c[1], t, t2)
  PROVE  Place(e, uq2, sq2, nl, c2, w2, la, t2, n)
<1> USE DEF QueuedAgain, ToldLost
<1>1. CASE ~In(c[1], e)
  BY <1>1, PlaceKept
<1>2. CASE In(c[1], e)
  <2>1. /\ ~In(uq, e) /\ ~In(sq, e) /\ ~In(nl, e) /\ NoPacket(e, c2) /\ t = <<>> /\ n = 0
        /\ e.kind = "ordered" => e.num > la
    BY <1>2, PlaceTaken
  <2>2. CASE e.kind = "unguaranteed"
    <3>1. t2 = <<FALSE>> /\ ~In(uq2, e) /\ ~In(sq2, e)
      BY <2>1, <2>2, <1>2
    <3>2. Notified(e, uq2, sq2, nl, c2, t2, n)
      BY <3>1, <2>1, <2>2 DEF Notified
    <3> QED BY <3>2, <2>2 DEF Place
  <2>3. CASE e.kind # "unguaranteed"
    <3>1. t2 = <<>> /\ (In(uq2, e) \/ In(sq2, e))
      BY <2>1, <2>3, <1>2 DEF Kinds
    <3>2. Queued(e, uq2, sq2, nl, c2, t2, n)
      BY <3>1, <2>1 DEF Queued
    <3> QED BY <3>2, <2>1 DEF Place
  <2> QED BY <2>2, <2>3
<1> QED BY <1>1, <1>2

LEMMA ToldDropped ==
  ASSUME NEW notes, Distinct(notes), NEW td \in [Possible -> Seq(BOOLEAN)],
         \A e \in Possible : In(notes, e) /\ e.kind = "unguaranteed" => td[e] = <<>>,
         NEW td2, td2 = NotifyDelivered(td, notes, Unguaranteed, No)
  PROVE  /\ td2 \in [Possible -> Seq(BOOLEAN)]
         /\ \A e \in Possible :
              /\ In(notes, e) /\ e.kind = "unguaranteed" => td2[e] = <<No>>
              /\ ~(In(notes, e) /\ e.kind = "unguaranteed") => td2[e] = td[e]
<1>1. <<No>> \in Seq(BOOLEAN)
  BY DEF No
<1>2. ASSUME NEW e \in Possible
      PROVE  /\ In(notes, e) /\ e.kind = "unguaranteed" => td2[e] = <<No>>
             /\ ~(In(notes, e) /\ e.kind = "unguaranteed") => td2[e] = td[e]
             /\ td2[e] \in Seq(BOOLEAN)
  <2>1. td[e] \in Seq(BOOLEAN)
    OBVIOUS
  <2>2. CASE In(notes, e) /\ e.kind = "unguaranteed"
    <3>1. Once(notes, e) /\ e.kind \in Unguaranteed /\ td[e] = <<>>
      BY <2>2, DistinctOnce DEF Unguaranteed
    <3>2. td2[e] = <<No>>
      BY <3>1, DeliveredOnce
    <3> QED BY <3>2, <2>2, <1>1
  <2>3. CASE ~In(notes, e)
    <3>1. td2[e] = td[e]
      BY <2>1, <2>3, DeliveredNot
    <3> QED BY <3>1, <2>1, <2>3
  <2>4. CASE e.kind # "unguaranteed"
    <3>1. e.kind \notin Unguaranteed
      BY <2>4 DEF Unguaranteed
    <3>2. td2[e] = td[e]
      BY <3>1, DeliveredOther
    <3> QED BY <3>2, <2>1, <2>4
  <2> QED BY <2>2, <2>3, <2>4
<1>3. td2 \in [Possible -> Seq(BOOLEAN)]
  BY <1>2, DeliveredDomain
<1> QED BY <1>2, <1>3

LEMMA DroppedStep ==
  ASSUME IInv, HandleNotify, window[1] # "handled"
  PROVE  IInv'
<1> DEFINE notes == contents[1]
           o     == OfKind(notes, "ordered")
           g     == OfKind(notes, "guaranteed")
<1>1. /\ ~removed /\ removed' = removed /\ window # <<>> /\ Net!Notify(1)
      /\ contents' = Tail(contents) /\ posted' = posted
      /\ nextRecv' = nextRecv /\ waiting' = waiting
      /\ processed' = processed /\ times' = times
      /\ EventPacketDropped(notes)
  BY DEF HandleNotify, receiverVars
<1>2. /\ sendQueue' = MergeBySeq(sendQueue, o)
      /\ unorderedQueue' = Join(Reverse(g), unorderedQueue)
      /\ told' = NotifyDelivered(told, notes, Unguaranteed, No)
      /\ notifyList' = notifyList /\ lastAcked' = lastAcked
  BY <1>1 DEF EventPacketDropped, Join, Unguaranteed, No
<1>3. /\ PacketTaken(contents, window, contents', window')
      /\ window' \in Seq(Net!Fates)
      /\ contents' \in Seq(Seq(GoodNotes(posted))) /\ Len(contents') = Len(window')
  BY <1>1, OldestTaken
<1>4. /\ SenderInv(unorderedQueue, sendQueue, notifyList, lastAcked, posted, window, contents)
      /\ ReceiverInv(lastAcked, posted, nextRecv, waiting, processed, times)
      /\ PlacesInv(unorderedQueue, sendQueue, notifyList, lastAcked, posted, window,
                   contents, times, told)
  BY <1>1 DEF IInv
<1>5. /\ posted \in [Kinds -> Nat] /\ \A k \in Kinds : posted[k] =< MaxPosted[k]
      /\ lastAcked \in Nat \cup {InvalidSendEventSeq}
      /\ OrderedList(notifyList, posted) /\ OrderedList(sendQueue, posted)
      /\ UnorderedList(unorderedQueue, posted)
      /\ \A i \in DOMAIN notifyList : notifyList[i].seq > lastAcked + 1
      /\ \A i \in DOMAIN contents : PacketList(contents[i], posted)
                                    /\ WithinWindow(contents[i], lastAcked)
  BY <1>4 DEF SenderInv
<1>6. /\ told \in [Possible -> Seq(BOOLEAN)]
      /\ \A e \in Possible : e \notin PostedBy(posted) => told[e] = <<>>
      /\ \A e \in PostedBy(posted) :
           Place(e, unorderedQueue, sendQueue, notifyList, contents, window, lastAcked,
                 told[e], times[e])
  BY <1>4 DEF PlacesInv
<1>7. PacketList(notes, posted)
  BY <1>3, <1>5 DEF PacketTaken
<1>8. /\ OrderedList(o, posted) /\ UnorderedList(g, posted)
      /\ \A e : In(o, e) <=> In(notes, e) /\ e.kind = "ordered"
      /\ \A e : In(g, e) <=> In(notes, e) /\ e.kind = "guaranteed"
      /\ \A e : In(notes, e) => e \in PostedBy(posted)
  BY <1>7, NotesOfKind, NotYetInList DEF PacketList
<1>9. \A e \in PostedBy(posted) : times[e] \in {0, 1}
  BY AllUnread
<1>10. ASSUME NEW e, In(notes, e)
       PROVE  ~In(unorderedQueue, e) /\ ~In(sendQueue, e) /\ told[e] = <<>>
  <2>1. e \in PostedBy(posted) /\ times[e] \in {0, 1} /\ In(contents[1], e)
    BY <1>8, <1>9, <1>10
  <2>2. Place(e, unorderedQueue, sendQueue, notifyList, contents, window, lastAcked,
              told[e], times[e])
    BY <2>1, <1>6
  <2> HIDE DEF notes
  <2> QED BY <2>1, <2>2, <1>3, PlaceTaken
<1> HIDE DEF notes, o, g
<1>11. /\ OrderedList(sendQueue', posted)
       /\ \A e : In(sendQueue', e) <=> In(sendQueue, e) \/ In(o, e)
  BY <1>2, <1>5, <1>8, <1>10, NotesMerged
<1>12. /\ UnorderedList(unorderedQueue', posted)
       /\ \A e : In(unorderedQueue', e) <=> In(unorderedQueue, e) \/ In(g, e)
  <2>1. /\ UnorderedList(Reverse(g), posted)
        /\ \A e : In(Reverse(g), e) <=> In(g, e)
    BY <1>8, ReverseUnordered
  <2>2. IsList(Reverse(g)) /\ IsList(unorderedQueue)
    BY <2>1, <1>5, GoodElements DEF UnorderedList
  <2>3. \A e : ~(In(Reverse(g), e) /\ In(unorderedQueue, e))
    BY <2>1, <1>8, <1>10
  <2>4. UnorderedList(Join(Reverse(g), unorderedQueue), posted)
    BY <2>1, <2>3, <1>5, JoinUnordered
  <2>5. \A e : In(Join(Reverse(g), unorderedQueue), e) <=> In(g, e) \/ In(unorderedQueue, e)
    BY <2>1, <2>2, JoinHolds
  <2> QED BY <2>4, <2>5, <1>2
<1>13. SenderInv(unorderedQueue', sendQueue', notifyList', lastAcked', posted', window', contents')
  <2>1. \A i \in DOMAIN contents' : PacketList(contents'[i], posted)
                                    /\ WithinWindow(contents'[i], lastAcked)
    BY <1>3, <1>5 DEF PacketTaken
  <2> QED BY <2>1, <1>1, <1>2, <1>3, <1>5, <1>11, <1>12 DEF SenderInv
<1>14. ReceiverInv(lastAcked', posted', nextRecv', waiting', processed', times')
  BY <1>1, <1>2, <1>4
<1>15. /\ told' \in [Possible -> Seq(BOOLEAN)]
       /\ \A e \in Possible :
            /\ In(notes, e) /\ e.kind = "unguaranteed" => told'[e] = <<No>>
            /\ ~(In(notes, e) /\ e.kind = "unguaranteed") => told'[e] = told[e]
  <2>1. Distinct(notes)
    BY <1>7 DEF PacketList
  <2>2. /\ told' = NotifyDelivered(told, notes, Unguaranteed, No)
        /\ told \in [Possible -> Seq(BOOLEAN)]
        /\ \A e \in Possible : In(notes, e) /\ e.kind = "unguaranteed" => told[e] = <<>>
    BY <1>2, <1>6, <1>10
  <2> QED BY <2>1, <2>2, ToldDropped
<1>16. PlacesInv(unorderedQueue', sendQueue', notifyList', lastAcked', posted', window',
                 contents', times', told')
  <2>1. \A e \in Possible : e \notin PostedBy(posted) => told'[e] = <<>>
    BY <1>6, <1>8, <1>15
  <2>2. ASSUME NEW e \in PostedBy(posted)
        PROVE  Place(e, unorderedQueue', sendQueue', notifyList, contents', window', lastAcked,
                     told'[e], times[e])
    <3>1. Place(e, unorderedQueue, sendQueue, notifyList, contents, window, lastAcked,
                told[e], times[e]) /\ times[e] \in {0, 1}
      BY <1>6, <1>9
    <3>2. e \in Possible /\ e.kind \in Kinds
      BY PossibleEvent DEF PostedBy
    <3>3. ToldLost(e, contents[1], told[e], told'[e])
      BY <3>2, <1>15 DEF No, ToldLost, notes
    <3>4. QueuedAgain(e, unorderedQueue, sendQueue, contents[1], unorderedQueue', sendQueue')
      BY <1>8, <1>11, <1>12 DEF QueuedAgain, notes
    <3>5. PacketTaken(contents, window, contents', window') /\ window[1] # "handled"
      BY <1>3
    <3> QED BY <3>1, <3>2, <3>3, <3>4, <3>5, PlaceDropped
  <2> QED BY <2>1, <2>2, <1>1, <1>2, <1>15 DEF PlacesInv
<1> QED BY <1>1, <1>13, <1>14, <1>16 DEF IInv

-----------------------------------------------------------------------------
(* Removing the connection.                                                *)

PlacesOf(c) == UNION {{i} \X DOMAIN c[i] : i \in DOMAIN c}
FlyingOf(c) == [place \in PlacesOf(c) |-> c[place[1]][place[2]]]
Guaranteed == {"guaranteed", "ordered"}

\* The notes of all packets, counted together.
LEMMA FlyingHolds ==
  ASSUME NEW c, NEW e
  PROVE  /\ In(FlyingOf(c), e) <=> ~NoPacket(e, c)
         /\ \A i \in DOMAIN c :
              Once(c[i], e) /\ (\A j \in DOMAIN c : In(c[j], e) => j = i) => Once(FlyingOf(c), e)
<1>1. ASSUME NEW place \in PlacesOf(c)
      PROVE  /\ place[1] \in DOMAIN c /\ place[2] \in DOMAIN c[place[1]]
             /\ place = <<place[1], place[2]>>
             /\ FlyingOf(c)[place] = c[place[1]][place[2]]
  BY DEF PlacesOf, FlyingOf
<1>2. ASSUME NEW i \in DOMAIN c, NEW j \in DOMAIN c[i]
      PROVE  <<i, j>> \in PlacesOf(c) /\ FlyingOf(c)[<<i, j>>] = c[i][j]
  <2>1. <<i, j>> \in {i} \X DOMAIN c[i]
    OBVIOUS
  <2>2. <<i, j>> \in PlacesOf(c)
    BY <2>1 DEF PlacesOf
  <2>3. FlyingOf(c)[<<i, j>>] = c[<<i, j>>[1]][<<i, j>>[2]]
    BY <2>2 DEF FlyingOf
  <2> QED BY <2>2, <2>3
<1>3. DOMAIN FlyingOf(c) = PlacesOf(c)
  BY DEF FlyingOf
<1>4. ASSUME In(FlyingOf(c), e)
      PROVE  ~NoPacket(e, c)
  <2>1. PICK place \in PlacesOf(c) : FlyingOf(c)[place].event = e
    BY <1>3, <1>4 DEF In
  <2>2. In(c[place[1]], e) /\ place[1] \in DOMAIN c
    BY <2>1, <1>1 DEF In
  <2> QED BY <2>2 DEF NoPacket
<1>5. ASSUME ~NoPacket(e, c)
      PROVE  In(FlyingOf(c), e)
  <2>1. PICK i \in DOMAIN c : In(c[i], e)
    BY <1>5 DEF NoPacket
  <2>2. PICK j \in DOMAIN c[i] : c[i][j].event = e
    BY <2>1 DEF In
  <2>3. <<i, j>> \in DOMAIN FlyingOf(c) /\ FlyingOf(c)[<<i, j>>].event = e
    BY <2>2, <1>2, <1>3
  <2> QED BY <2>3 DEF In
<1>6. ASSUME NEW i \in DOMAIN c, Once(c[i], e), \A j \in DOMAIN c : In(c[j], e) => j = i
      PROVE  Once(FlyingOf(c), e)
  <2>1. PICK j \in DOMAIN c[i] : /\ c[i][j].event = e
                                 /\ \A k \in DOMAIN c[i] : c[i][k].event = e => k = j
    BY <1>6 DEF Once
  <2>2. <<i, j>> \in DOMAIN FlyingOf(c) /\ FlyingOf(c)[<<i, j>>].event = e
    BY <2>1, <1>2, <1>3
  <2>3. ASSUME NEW place \in DOMAIN FlyingOf(c), FlyingOf(c)[place].event = e
        PROVE  place = <<i, j>>
    <3>1. /\ place[1] \in DOMAIN c /\ place[2] \in DOMAIN c[place[1]]
          /\ place = <<place[1], place[2]>>
          /\ c[place[1]][place[2]].event = e
      BY <2>3, <1>1, <1>3
    <3>2. place[1] = i
      BY <3>1, <1>6 DEF In
    <3>3. place[2] = j
      BY <3>1, <3>2, <2>1
    <3> QED BY <3>1, <3>2, <3>3
  <2> QED BY <2>2, <2>3 DEF Once
<1> QED BY <1>4, <1>5, <1>6

\* What an event is told when the connection is removed.
LEMMA ToldRemoved ==
  ASSUME NEW e \in Possible, NEW td, td[e] \in Seq(BOOLEAN),
         NEW flying, In(flying, e) => Once(flying, e) /\ td[e] = <<>>,
         NEW rest, In(rest, e) => Once(rest, e) /\ td[e] = <<>> /\ ~In(flying, e),
         NEW dropped, dropped = NotifyDelivered(td, flying, Unguaranteed, No),
         NEW kept, kept = NotifyDelivered(dropped, flying, Guaranteed, Yes),
         NEW td2, td2 = NotifyDelivered(kept, rest, Kinds, Yes)
  PROVE  /\ td2[e] \in Seq(BOOLEAN)
         /\ In(flying, e) \/ In(rest, e) => Len(td2[e]) = 1
         /\ ~In(flying, e) /\ ~In(rest, e) => td2[e] = td[e]
<1>1. /\ <<Yes>> \in Seq(BOOLEAN) /\ Len(<<Yes>>) = 1
      /\ <<No>> \in Seq(BOOLEAN) /\ Len(<<No>>) = 1
  BY DEF Yes, No
<1>2. e.kind \in Kinds
  BY PossibleEvent
<1>3. CASE In(flying, e)
  <2>1. Once(flying, e) /\ td[e] = <<>> /\ ~In(rest, e)
    BY <1>3
  <2>2. CASE e.kind = "unguaranteed"
    <3>1. e.kind \in Unguaranteed /\ e.kind \notin Guaranteed
      BY <2>2 DEF Unguaranteed, Guaranteed
    <3>2. dropped[e] = <<No>>
      BY <2>1, <3>1, DeliveredOnce
    <3>3. kept[e] = <<No>>
      BY <3>1, <3>2, DeliveredOther
    <3>4. kept[e] \in Seq(BOOLEAN)
      BY <3>3, <1>1
    <3>5. td2[e] = kept[e]
      BY <3>4, <2>1, DeliveredNot
    <3> QED BY <3>3, <3>5, <1>1, <1>3
  <2>3. CASE e.kind # "unguaranteed"
    <3>1. e.kind \notin Unguaranteed /\ e.kind \in Guaranteed
      BY <2>3, <1>2 DEF Unguaranteed, Guaranteed, Kinds
    <3>2. dropped[e] = td[e]
      BY <3>1, DeliveredOther
    <3>3. dropped[e] = <<>>
      BY <3>2, <2>1
    <3>4. kept[e] = <<Yes>>
      BY <3>1, <3>3, <2>1, DeliveredOnce
    <3>5. kept[e] \in Seq(BOOLEAN)
      BY <3>4, <1>1
    <3>6. td2[e] = kept[e]
      BY <3>5, <2>1, DeliveredNot
    <3> QED BY <3>4, <3>6, <1>1, <1>3
  <2> QED BY <2>2, <2>3
<1>4. CASE ~In(flying, e)
  <2>1. dropped[e] = td[e]
    BY <1>4, DeliveredNot
  <2>2. dropped[e] \in Seq(BOOLEAN)
    BY <2>1
  <2>3. kept[e] = td[e]
    BY <1>4, <2>1, <2>2, DeliveredNot
  <2>4. kept[e] \in Seq(BOOLEAN)
    BY <2>3
  <2>5. CASE In(rest, e)
    <3>1. Once(rest, e) /\ kept[e] = <<>>
      BY <2>3, <2>5
    <3>2. td2[e] = <<Yes>>
      BY <3>1, <1>2, DeliveredOnce
    <3> QED BY <3>2, <1>1, <2>5
  <2>6. CASE ~In(rest, e)
    <3>1. td2[e] = kept[e]
      BY <2>4, <2>6, DeliveredNot
    <3> QED BY <3>1, <2>3, <1>4, <2>6
  <2> QED BY <2>5, <2>6
<1> QED BY <1>3, <1>4

LEMMA OnRemoveStep ==
  ASSUME IInv, OnRemove
  PROVE  IInv'
<1> DEFINE rest    == Join(Join(notifyList, unorderedQueue), sendQueue)
           flying  == FlyingOf(contents)
           dropped == NotifyDelivered(told, flying, Unguaranteed, No)
           kept    == NotifyDelivered(dropped, flying, Guaranteed, Yes)
<1>1. /\ ~removed /\ removed' = TRUE
      /\ told' = NotifyDelivered(kept, rest, Kinds, Yes)
      /\ notifyList' = <<>> /\ unorderedQueue' = <<>> /\ sendQueue' = <<>>
      /\ lastAcked' = lastAcked /\ posted' = posted /\ window' = window /\ contents' = contents
      /\ nextRecv' = nextRecv /\ waiting' = waiting
      /\ processed' = processed /\ times' = times
  BY DEF OnRemove, receiverVars, Join, PlacesOf, FlyingOf, Yes, No, Unguaranteed, Guaranteed
<1>2. /\ SenderInv(unorderedQueue, sendQueue, notifyList, lastAcked, posted, window, contents)
      /\ ReceiverInv(lastAcked, posted, nextRecv, waiting, processed, times)
      /\ PlacesInv(unorderedQueue, sendQueue, notifyList, lastAcked, posted, window,
                   contents, times, told)
  BY <1>1 DEF IInv
<1>3. /\ UnorderedList(unorderedQueue, posted) /\ OrderedList(sendQueue, posted)
      /\ OrderedList(notifyList, posted)
      /\ \A i \in DOMAIN contents : PacketList(contents[i], posted)
  BY <1>2 DEF SenderInv
<1>4. /\ told \in [Possible -> Seq(BOOLEAN)]
      /\ \A e \in Possible : e \notin PostedBy(posted) => told[e] = <<>>
      /\ \A e \in PostedBy(posted) :
           Place(e, unorderedQueue, sendQueue, notifyList, contents, window, lastAcked,
                 told[e], times[e])
  BY <1>2 DEF PlacesInv
<1>5. /\ IsList(notifyList) /\ IsList(unorderedQueue) /\ IsList(sendQueue)
      /\ Distinct(notifyList) /\ Distinct(unorderedQueue) /\ Distinct(sendQueue)
      /\ IsList(Join(notifyList, unorderedQueue))
  <2>1. /\ IsList(notifyList) /\ IsList(unorderedQueue) /\ IsList(sendQueue)
        /\ Distinct(notifyList) /\ Distinct(unorderedQueue) /\ Distinct(sendQueue)
    BY <1>3, NumbersOfOrdered, OrderedDistinct, GoodElements DEF UnorderedList
  <2> QED BY <2>1, JoinBasics
<1>6. \A e : In(rest, e) <=> In(notifyList, e) \/ In(unorderedQueue, e) \/ In(sendQueue, e)
  <2>1. \A e : In(Join(notifyList, unorderedQueue), e) <=> In(notifyList, e) \/ In(unorderedQueue, e)
    BY <1>5, JoinHolds
  <2> QED BY <2>1, <1>5, JoinHolds
<1>7. \A e : In(flying, e) <=> ~NoPacket(e, contents)
  BY FlyingHolds
<1>8. ASSUME NEW e \in Possible, e \notin PostedBy(posted)
      PROVE  ~In(rest, e) /\ ~In(flying, e)
  <2>1. ~In(notifyList, e) /\ ~In(unorderedQueue, e) /\ ~In(sendQueue, e)
    BY <1>3, <1>8, NotYetInList DEF UnorderedList, OrderedList
  <2>2. \A i \in DOMAIN contents : ~In(contents[i], e)
    BY <1>3, <1>8, NotYetInList DEF PacketList
  <2> QED BY <2>1, <2>2, <1>6, <1>7 DEF NoPacket
<1>9. ASSUME NEW e \in PostedBy(posted), In(flying, e)
      PROVE  Once(flying, e) /\ told[e] = <<>> /\ ~In(rest, e)
  <2>1. ~NoPacket(e, contents)
    BY <1>7, <1>9
  <2>2. Carried(e, unorderedQueue, sendQueue, notifyList, contents, window, told[e], times[e])
    BY <2>1, <1>4 DEF Place, Queued, Held, Notified
  <2>3. /\ told[e] = <<>>
        /\ ~In(notifyList, e) /\ ~In(unorderedQueue, e) /\ ~In(sendQueue, e)
    BY <2>2 DEF Carried
  <2>4. PICK i \in DOMAIN contents : /\ In(contents[i], e)
                                     /\ \A j \in DOMAIN contents : In(contents[j], e) => j = i
    BY <2>2 DEF Carried
  <2>5. Once(contents[i], e)
    <3>1. Distinct(contents[i])
      BY <1>3 DEF PacketList
    <3> QED BY <3>1, <2>4, DistinctOnce
  <2>6. Once(flying, e)
    BY <2>4, <2>5, FlyingHolds
  <2> QED BY <2>3, <2>6, <1>6
<1>10. ASSUME NEW e \in PostedBy(posted), In(rest, e)
       PROVE  Once(rest, e) /\ told[e] = <<>>
  <2>1. In(notifyList, e) \/ In(unorderedQueue, e) \/ In(sendQueue, e)
    BY <1>6, <1>10
  <2>2. /\ told[e] = <<>>
        /\ In(notifyList, e) => ~In(unorderedQueue, e) /\ ~In(sendQueue, e)
    BY <2>1, <1>4 DEF Place, Queued, Carried, Held, Notified
  <2>3. ~(In(unorderedQueue, e) /\ In(sendQueue, e))
    BY <1>3 DEF In, UnorderedList, OrderedList
  <2>4. /\ In(notifyList, e) => Once(notifyList, e)
        /\ In(unorderedQueue, e) => Once(unorderedQueue, e)
        /\ In(sendQueue, e) => Once(sendQueue, e)
    BY <1>5, DistinctOnce
  <2>5. /\ In(Join(notifyList, unorderedQueue), e) <=> In(notifyList, e) \/ In(unorderedQueue, e)
        /\ In(notifyList, e) \/ In(unorderedQueue, e) => Once(Join(notifyList, unorderedQueue), e)
    BY <2>2, <2>4, <1>5, JoinHolds
  <2>6. Once(rest, e)
    BY <2>1, <2>2, <2>3, <2>4, <2>5, <1>5, JoinHolds
  <2> QED BY <2>2, <2>6
<1> HIDE DEF rest, flying
<1>11. ASSUME NEW e \in Possible
       PROVE  /\ told'[e] \in Seq(BOOLEAN)
              /\ In(flying, e) \/ In(rest, e) => Len(told'[e]) = 1
              /\ ~In(flying, e) /\ ~In(rest, e) => told'[e] = told[e]
  <2>1. told[e] \in Seq(BOOLEAN)
    BY <1>4
  <2>2. In(flying, e) => Once(flying, e) /\ told[e] = <<>>
    BY <1>8, <1>9
  <2>3. In(rest, e) => Once(rest, e) /\ told[e] = <<>> /\ ~In(flying, e)
    BY <1>8, <1>9, <1>10
  <2>4. told' = NotifyDelivered(kept, rest, Kinds, Yes)
    BY <1>1
  <2>5. /\ dropped = NotifyDelivered(told, flying, Unguaranteed, No)
        /\ kept = NotifyDelivered(dropped, flying, Guaranteed, Yes)
    OBVIOUS
  <2> HIDE DEF dropped, kept
  <2> QED BY <2>1, <2>2, <2>3, <2>4, <2>5, ToldRemoved
<1>12. told' \in [Possible -> Seq(BOOLEAN)]
  <2>1. told' = NotifyDelivered(kept, rest, Kinds, Yes)
    BY <1>1
  <2> HIDE DEF kept
  <2> QED BY <2>1, <1>11, DeliveredDomain
<1>13. ASSUME NEW e \in PostedBy(posted)
       PROVE  Len(told'[e]) = 1 /\ Unread(e, contents, window, times[e])
  <2>1. e \in Possible
    BY DEF PostedBy
  <2>2. Place(e, unorderedQueue, sendQueue, notifyList, contents, window, lastAcked,
              told[e], times[e])
    BY <1>4
  <2>3. CASE In(flying, e) \/ In(rest, e)
    BY <2>1, <2>3, <1>11, AllUnread
  <2>4. CASE ~In(flying, e) /\ ~In(rest, e)
    <3>1. /\ NoPacket(e, contents)
          /\ ~In(notifyList, e) /\ ~In(unorderedQueue, e) /\ ~In(sendQueue, e)
      BY <2>4, <1>6, <1>7
    <3>2. Notified(e, unorderedQueue, sendQueue, notifyList, contents, told[e], times[e])
      BY <2>2, <3>1 DEF Place, Queued, Carried, Held, NoPacket
    <3>3. told[e] = <<TRUE>> \/ told[e] = <<FALSE>>
      BY <3>2 DEF Notified
    <3>4. Len(<<TRUE>>) = 1 /\ Len(<<FALSE>>) = 1
      OBVIOUS
    <3>5. Len(told[e]) = 1
      BY <3>3, <3>4
    <3> QED BY <3>5, <2>1, <2>4, <1>11, AllUnread
  <2> QED BY <2>3, <2>4
<1>14. RemovedInv(posted', window', contents', times', told')
  BY <1>1, <1>12, <1>13 DEF RemovedInv
<1>15. SenderInv(unorderedQueue', sendQueue', notifyList', lastAcked', posted', window', contents')
  <2>1. UnorderedList(<<>>, posted) /\ OrderedList(<<>>, posted)
    BY EmptyLists
  <2>2. \A i \in DOMAIN notifyList' : notifyList'[i].seq > lastAcked + 1
    BY <1>1
  <2> QED BY <2>1, <2>2, <1>1, <1>2 DEF SenderInv
<1> QED BY <1>1, <1>2, <1>14, <1>15 DEF IInv

-----------------------------------------------------------------------------
(* The theorems.                                                           *)

LEMMA NextStep ==
  ASSUME IInv, [Next]_vars
  PROVE  IInv'
<1>1. CASE \E kind \in Kinds : PostNetEvent(kind)
  BY <1>1, PostStep
<1>2. CASE SendPacket
  BY <1>2, SendStep
<1>3. CASE HandleNotify
  BY <1>3, ReceivedStep, DroppedStep
<1>4. CASE \E i \in DOMAIN window : HandlePacket(i)
  BY <1>4, HandleStep
<1>5. CASE OnRemove
  BY <1>5, OnRemoveStep
<1>6. CASE UNCHANGED vars
  BY <1>6 DEF vars, senderVars, receiverVars, IInv
<1> QED BY <1>1, <1>2, <1>3, <1>4, <1>5, <1>6 DEF Next

\* The invariant holds in every state: each event is where its history says.
THEOREM Invariance == Spec => []IInv
<1>1. Init => IInv
  BY InitInv
<1>2. IInv /\ [Next]_vars => IInv'
  BY NextStep
<1> QED BY <1>1, <1>2, PTL DEF Spec

LEMMA InvSound == IInv => QueuesSound
<1> SUFFICES ASSUME IInv PROVE QueuesSound
  OBVIOUS
<1>1. /\ SenderInv(unorderedQueue, sendQueue, notifyList, lastAcked, posted, window, contents)
      /\ ReceiverInv(lastAcked, posted, nextRecv, waiting, processed, times)
      /\ removed \in BOOLEAN
  BY DEF IInv
<1>2. GoodNotes(posted) \subseteq Notes
  BY GoodNote
<1>3. \A s \in Seq(GoodNotes(posted)) : s \in Seq(Notes)
  BY <1>2
<1>4. /\ unorderedQueue \in Seq(Notes) /\ sendQueue \in Seq(Notes)
      /\ notifyList \in Seq(Notes) /\ waiting \in Seq(Notes)
  BY <1>1, <1>3 DEF SenderInv, ReceiverInv, UnorderedList, OrderedList
<1>5. contents \in Seq(Seq(Notes))
  <2>1. contents \in Seq(Seq(GoodNotes(posted))) /\ Seq(GoodNotes(posted)) \subseteq Seq(Notes)
    BY <1>1, <1>3 DEF SenderInv
  <2> QED BY <2>1
<1>6. processed \in Seq(Events)
  <2>1. nextRecv \in Nat /\ processed = [i \in 1 .. nextRecv |-> [kind |-> "ordered", num |-> i - 1]]
    BY <1>1 DEF ReceiverInv
  <2>2. ASSUME NEW i \in 1 .. nextRecv
        PROVE  [kind |-> "ordered", num |-> i - 1] \in Events
    <3>1. i - 1 \in Nat
      BY <2>1
    <3> QED BY <3>1, ConstantTypes DEF Events
  <2>3. processed \in [1 .. nextRecv -> Events]
    BY <2>1, <2>2
  <2>4. \A n \in Nat : \A f \in [1 .. n -> Events] : f \in Seq(Events)
    OBVIOUS
  <2> QED BY <2>1, <2>3, <2>4
<1>7. told \in [Possible -> Seq(BOOLEAN)] /\ times \in [Possible -> Nat]
  BY <1>1 DEF IInv, PlacesInv, RemovedInv, ReceiverInv
<1>8. TypeOK
  BY <1>1, <1>4, <1>5, <1>6, <1>7 DEF TypeOK, SenderInv, ReceiverInv
<1>9. WaitingIsAhead
  BY <1>1, NumbersOfOrdered DEF WaitingIsAhead, ReceiverInv
<1> QED BY <1>8, <1>9 DEF QueuesSound

\* The lists of both ends hold what their next steps take them for, and an
\* ordered event read ahead of its turn has its own number, which is still to
\* come: mWaitSeqEvents never keeps an event for ever.
THEOREM QueuesAreSound == Spec => []QueuesSound
BY Invariance, InvSound, PTL

LEMMA InvOnce == IInv => OncePerEvent
<1> SUFFICES ASSUME IInv PROVE OncePerEvent
  OBVIOUS
<1>1. ReceiverInv(lastAcked, posted, nextRecv, waiting, processed, times)
  BY DEF IInv
<1>2. processed = [i \in 1 .. nextRecv |-> [kind |-> "ordered", num |-> i - 1]]
  BY <1>1 DEF ReceiverInv
<1>3. \A e \in Possible : times[e] =< 1
  BY <1>1 DEF ReceiverInv
<1>4. ASSUME NEW e \in Posted
      PROVE  Len(told[e]) =< 1 /\ (removed => Len(told[e]) = 1)
  <2>1. e \in PostedBy(posted)
    BY DEF Posted, PostedBy
  <2>2. CASE removed
    <3>1. Len(told[e]) = 1
      BY <2>1, <2>2 DEF IInv, RemovedInv
    <3> QED BY <3>1
  <2>3. CASE ~removed
    <3>1. Place(e, unorderedQueue, sendQueue, notifyList, contents, window, lastAcked,
                told[e], times[e])
      BY <2>1, <2>3 DEF IInv, PlacesInv
    <3>2. told[e] = <<>> \/ told[e] = <<TRUE>> \/ told[e] = <<FALSE>>
      BY <3>1 DEF Place, Queued, Carried, Held, Notified
    <3>3. Len(<<>>) = 0 /\ Len(<<TRUE>>) = 1 /\ Len(<<FALSE>>) = 1
      OBVIOUS
    <3>4. Len(told[e]) = 0 \/ Len(told[e]) = 1
      BY <3>2, <3>3, Zenon
    <3>5. \A n : n = 0 \/ n = 1 => n =< 1
      OBVIOUS
    <3> QED BY <3>4, <3>5, <2>3, Zenon
  <2> QED BY <2>2, <2>3 DEF IInv
<1> QED BY <1>2, <1>3, <1>4 DEF OncePerEvent

\* The ordered events processed are the first ones posted, each once, whatever
\* was lost, resent and overtaken; no unordered event is processed twice; none
\* is notified twice, and each is by the time its connection is removed.
THEOREM OnceForEveryEvent == Spec => []OncePerEvent
BY Invariance, InvOnce, PTL

LEMMA OnlyElement ==
  ASSUME NEW x, NEW s, s = <<x>>, NEW i \in DOMAIN s
  PROVE  s[i] = x
OBVIOUS

LEMMA InvTruthful == IInv => NotifiesAreTruthful
<1> SUFFICES ASSUME IInv, ~removed, NEW e \in Posted, NEW i \in DOMAIN told[e]
             PROVE  /\ told[e][i] <=> WasProcessed(e)
                    /\ told[e][i] \/ e.kind = "unguaranteed"
  BY DEF NotifiesAreTruthful
<1>1. e \in PostedBy(posted) /\ e.num \in Nat
  BY PossibleEvent DEF Posted, PostedBy
<1>2. Place(e, unorderedQueue, sendQueue, notifyList, contents, window, lastAcked,
            told[e], times[e])
  BY <1>1 DEF IInv, PlacesInv
<1>3. /\ nextRecv \in Nat /\ lastAcked \in Int /\ lastAcked + 1 =< nextRecv
  BY DEF IInv, SenderInv, ReceiverInv, InvalidSendEventSeq
<1>4. told[e] # <<>>
  OBVIOUS
<1>5. /\ \/ told[e] = <<TRUE>> /\ times[e] = 1
         \/ told[e] = <<FALSE>> /\ times[e] = 0 /\ e.kind = "unguaranteed"
      /\ e.kind = "ordered" => e.num =< lastAcked
  BY <1>2, <1>4 DEF Place, Queued, Carried, Held, Notified
<1>6. CASE told[e] = <<TRUE>> /\ times[e] = 1
  <2>1. told[e][i] = Yes
    BY <1>6, OnlyElement DEF Yes
  <2>2. WasProcessed(e)
    BY <1>1, <1>3, <1>5, <1>6 DEF WasProcessed
  <2> QED BY <2>1, <2>2, Zenon DEF Yes
<1>7. CASE told[e] = <<FALSE>> /\ times[e] = 0 /\ e.kind = "unguaranteed"
  <2>1. told[e][i] = No
    BY <1>7, OnlyElement DEF No
  <2>2. ~WasProcessed(e)
    BY <1>7 DEF WasProcessed
  <2> QED BY <2>1, <2>2, <1>7, Zenon DEF No
<1> QED BY <1>5, <1>6, <1>7

\* While the connection stays, an event is reported delivered only when the
\* other end has processed it, and reported lost only when it has not and never
\* asked for a guarantee.
THEOREM TruthfulNotifies == Spec => []NotifiesAreTruthful
BY Invariance, InvTruthful, PTL

LEMMA MoreAcked ==
  ASSUME NEW la \in Int, NEW la2 \in Int, la2 >= la, la2 # la, NEW nr \in Nat, la2 + 1 =< nr
  PROVE  \E n \in 1 .. nr - (la + 1) : (la + 1) + n =< nr /\ la2 + 1 = (la + 1) + n
<1>1. (la2 - la) \in 1 .. nr - (la + 1) /\ (la + 1) + (la2 - la) =< nr
  OBVIOUS
<1> QED BY <1>1

LEMMA OrderStep ==
  ASSUME IInv, IInv', [Next]_vars
  PROVE  [Ordered!Next]_<<posted["ordered"], nextRecv, lastAcked + 1>>
<1>1. /\ lastAcked \in Int /\ nextRecv \in Nat /\ posted["ordered"] \in Nat
      /\ lastAcked' \in Int /\ nextRecv' \in Nat
      /\ nextRecv' =< posted'["ordered"] /\ lastAcked' + 1 =< nextRecv'
      /\ posted \in [Kinds -> Nat] /\ "ordered" \in Kinds
  <2>1. posted \in [Kinds -> Nat] /\ lastAcked \in Int
    BY DEF IInv, SenderInv, InvalidSendEventSeq
  <2>2. nextRecv \in Nat
    BY DEF IInv, ReceiverInv
  <2>3. lastAcked' \in Int
    BY DEF IInv, SenderInv, InvalidSendEventSeq
  <2>4. nextRecv' \in Nat /\ nextRecv' =< posted'["ordered"] /\ lastAcked' + 1 =< nextRecv'
    BY DEF IInv, ReceiverInv
  <2> QED BY <2>1, <2>2, <2>3, <2>4, ConstantTypes
<1>2. CASE \E kind \in Kinds : PostNetEvent(kind)
  <2>1. PICK kind \in Kinds : PostNetEvent(kind)
    BY <1>2
  <2>2. posted' = [posted EXCEPT ![kind] = @ + 1] /\ nextRecv' = nextRecv /\ lastAcked' = lastAcked
    BY <2>1 DEF PostNetEvent, receiverVars
  <2>3. CASE kind = "ordered"
    <3>1. posted'["ordered"] = posted["ordered"] + 1
      BY <2>2, <2>3, <1>1
    <3> QED BY <3>1, <2>2 DEF Ordered!Next, Ordered!Post
  <2>4. CASE kind # "ordered"
    <3>1. posted'["ordered"] = posted["ordered"]
      BY <2>2, <2>4, <1>1
    <3> QED BY <3>1, <2>2
  <2> QED BY <2>3, <2>4
<1>3. CASE HandleNotify
  <2>1. posted' = posted /\ nextRecv' = nextRecv
    BY <1>3 DEF HandleNotify, receiverVars
  <2>2. lastAcked' >= lastAcked
    <3>1. CASE window[1] = "handled"
      BY <3>1, <1>3, ReceivedStep
    <3>2. CASE window[1] # "handled"
      <4>1. lastAcked' = lastAcked
        BY <3>2, <1>3 DEF HandleNotify, EventPacketDropped
      <4> QED BY <4>1, <1>1
    <3> QED BY <3>1, <3>2
  <2>3. CASE lastAcked' = lastAcked
    BY <2>1, <2>3
  <2>4. CASE lastAcked' # lastAcked
    <3>1. PICK n \in 1 .. nextRecv - (lastAcked + 1) :
            (lastAcked + 1) + n =< nextRecv /\ lastAcked' + 1 = (lastAcked + 1) + n
      <4>1. lastAcked \in Int /\ lastAcked' \in Int /\ nextRecv \in Nat
        BY <1>1
      <4>2. lastAcked' >= lastAcked /\ lastAcked' # lastAcked /\ lastAcked' + 1 =< nextRecv
        BY <2>1, <2>2, <2>4, <1>1
      <4> QED BY <4>1, <4>2, MoreAcked
    <3>2. Ordered!Notify(n)
      BY <3>1, <2>1 DEF Ordered!Notify
    <3> QED BY <3>1, <3>2 DEF Ordered!Next
  <2> QED BY <2>3, <2>4
<1>4. CASE \E i \in DOMAIN window : HandlePacket(i)
  <2>1. PICK i \in DOMAIN window : HandlePacket(i)
    BY <1>4
  <2>2. posted' = posted /\ lastAcked' = lastAcked /\ window[i] = "flying"
        /\ EventReadPacket(contents[i])
    BY <2>1 DEF HandlePacket, senderVars, Net!Handle
  <2>3. PICK n \in Nat : nextRecv' = nextRecv + n
    BY <2>2, PacketRead
  <2>4. CASE n = 0
    BY <2>2, <2>3, <2>4, <1>1
  <2>5. CASE n # 0
    <3>1. n \in 1 .. posted["ordered"] - nextRecv /\ nextRecv + n =< posted["ordered"]
      BY <2>2, <2>3, <2>5, <1>1
    <3>2. Ordered!Process(n)
      BY <3>1, <2>2, <2>3 DEF Ordered!Process
    <3> QED BY <3>1, <3>2 DEF Ordered!Next
  <2> QED BY <2>4, <2>5
<1>5. CASE SendPacket \/ OnRemove \/ UNCHANGED vars
  <2>1. posted' = posted /\ nextRecv' = nextRecv /\ lastAcked' = lastAcked
    BY <1>5 DEF SendPacket, OnRemove, vars, senderVars, receiverVars
  <2> QED BY <2>1
<1> QED BY <1>2, <1>3, <1>4, <1>5 DEF Next

\* The ordered events are an EventOrder: the first ones posted are processed,
\* and of those the first ones are notified.
THEOREM OrderedIsDelivered == Spec => OrderedDelivery
<1>1. Init => Ordered!Init
  <2>1. SUFFICES ASSUME Init
                 PROVE  posted["ordered"] = 0 /\ nextRecv = 0 /\ lastAcked + 1 = 0
    BY DEF Ordered!Init
  <2> QED BY <2>1, ConstantTypes DEF Init, InvalidSendEventSeq
<1>2. IInv /\ IInv' /\ [Next]_vars => [Ordered!Next]_<<posted["ordered"], nextRecv, lastAcked + 1>>
  BY OrderStep
<1> QED BY <1>1, <1>2, Invariance, PTL DEF Spec, OrderedDelivery, Ordered!Spec
=============================================================================
