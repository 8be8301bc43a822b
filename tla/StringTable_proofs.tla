------------------------- MODULE StringTable_proofs -------------------------
(***************************************************************************)
(* Both ends of StringTable agree on what an index means, for any number   *)
(* of strings, entries and arguments of a command.                         *)
(***************************************************************************)
EXTENDS StringTable, SequenceTheorems, TLAPS

\* What the other end will find at index i when it has processed the events evs
\* up to the k-th: it has processed proc of them and has the table rem.
Gives(e, i) == \E s \in Strings : e = StringEvent(i, s)
Reads(evs, proc, rem, i, s, k) ==
  \/ \E j \in proc + 1 .. k : /\ evs[j] = StringEvent(i, s)
                              /\ \A l \in j + 1 .. k : ~Gives(evs[l], i)
  \/ rem[i] = s /\ \A l \in proc + 1 .. k : ~Gives(evs[l], i)

Texts == Strings \cup {NoString}

LEMMA ConstantTypes ==
  /\ EntryCount \in Nat /\ EntryCount >= 1
  /\ MaxArgs \in Nat /\ MaxArgs >= 1 /\ MaxArgs =< EntryCount
  /\ NoString \notin Strings
  /\ Indices = 0 .. EntryCount - 1
BY StringConstants DEF Indices

-----------------------------------------------------------------------------
(* Events.                                                                 *)

LEMMA StringEvents ==
  ASSUME NEW i, NEW s
  PROVE  /\ ~IsCommand(StringEvent(i, s))
         /\ StringEvent(i, s).index = i /\ StringEvent(i, s).string = s
         /\ \A j, t : StringEvent(j, t) = StringEvent(i, s) => j = i /\ t = s
<1>1. ~IsCommand(StringEvent(i, s))
  BY DEF IsCommand, StringEvent
<1>2. StringEvent(i, s).index = i /\ StringEvent(i, s).string = s
  BY DEF StringEvent
<1>3. \A j, t : StringEvent(j, t).index = j /\ StringEvent(j, t).string = t
  BY DEF StringEvent
<1> QED BY <1>1, <1>2, <1>3

LEMMA CommandEvents ==
  ASSUME NEW tags, NEW ids
  PROVE  /\ IsCommand(CommandEvent(tags, ids))
         /\ CommandEvent(tags, ids).tags = tags /\ CommandEvent(tags, ids).ids = ids
         /\ \A i : ~Gives(CommandEvent(tags, ids), i)
<1>1. IsCommand(CommandEvent(tags, ids))
  BY DEF IsCommand, CommandEvent
<1>2. CommandEvent(tags, ids).tags = tags /\ CommandEvent(tags, ids).ids = ids
  BY DEF CommandEvent
<1> QED BY <1>1, <1>2, StringEvents DEF Gives

LEMMA EventIsEither ==
  ASSUME NEW e \in Event
  PROVE  \/ \E i \in Indices, s \in Strings : e = StringEvent(i, s)
         \/ \E n \in 1 .. MaxArgs : \E tags \in [1 .. n -> Strings], ids \in [1 .. n -> Indices] :
              e = CommandEvent(tags, ids)
BY DEF Event

LEMMA StringEventsAreEvents ==
  ASSUME NEW i \in Indices, NEW s \in Strings
  PROVE  StringEvent(i, s) \in Event
BY DEF Event

LEMMA CommandEventsAreEvents ==
  ASSUME NEW n \in 1 .. MaxArgs, NEW tags \in [1 .. n -> Strings], NEW ids \in [1 .. n -> Indices]
  PROVE  CommandEvent(tags, ids) \in Event
BY DEF Event

-----------------------------------------------------------------------------
(* Reading.                                                                *)

LEMMA ReadsAppend ==
  ASSUME NEW evs \in Seq(Event), NEW proc \in 0 .. Len(evs), NEW rem, NEW i, NEW s \in Texts,
         NEW e \in Event
  PROVE  /\ \A k \in proc .. Len(evs) :
              Reads(evs, proc, rem, i, s, k) => Reads(Append(evs, e), proc, rem, i, s, k)
         /\ ~Gives(e, i) /\ Reads(evs, proc, rem, i, s, Len(evs)) =>
              Reads(Append(evs, e), proc, rem, i, s, Len(evs) + 1)
         /\ e = StringEvent(i, s) => Reads(Append(evs, e), proc, rem, i, s, Len(evs) + 1)
<1> DEFINE more == Append(evs, e)
<1>1. /\ Len(evs) \in Nat
      /\ \A k \in 1 .. Len(evs) : more[k] = evs[k]
      /\ more[Len(evs) + 1] = e
  BY AppendProperties, LenProperties
<1> HIDE DEF more
<1>2. \A k \in proc .. Len(evs) :
         Reads(evs, proc, rem, i, s, k) => Reads(more, proc, rem, i, s, k)
  BY <1>1 DEF Reads
<1>3. ~Gives(e, i) /\ Reads(evs, proc, rem, i, s, Len(evs)) =>
         Reads(more, proc, rem, i, s, Len(evs) + 1)
  BY <1>1 DEF Reads
<1>4. e = StringEvent(i, s) => Reads(more, proc, rem, i, s, Len(evs) + 1)
  BY <1>1 DEF Reads
<1> QED BY <1>2, <1>3, <1>4 DEF more

LEMMA ReadsProcessString ==
  ASSUME NEW evs \in Seq(Event), NEW proc \in 0 .. Len(evs) - 1, NEW rem \in [Indices -> Texts],
         NEW j \in Indices, NEW t \in Strings, evs[proc + 1] = StringEvent(j, t),
         NEW i \in Indices, NEW s \in Texts, NEW k \in proc + 1 .. Len(evs),
         Reads(evs, proc, rem, i, s, k)
  PROVE  Reads(evs, proc + 1, [rem EXCEPT ![j] = t], i, s, k)
<1> DEFINE new == [rem EXCEPT ![j] = t]
<1>1. new[j] = t /\ \A x \in Indices : x # j => new[x] = rem[x]
  OBVIOUS
<1> HIDE DEF new
<1>2. Gives(evs[proc + 1], j)
  BY DEF Gives
<1>3. StringEvent(i, s) = StringEvent(j, t) => i = j /\ s = t
  BY StringEvents
<1>4. Len(evs) \in Nat
  BY LenProperties
<1>5. CASE \E m \in proc + 1 .. k : /\ evs[m] = StringEvent(i, s)
                                    /\ \A l \in m + 1 .. k : ~Gives(evs[l], i)
  <2>1. PICK m \in proc + 1 .. k : /\ evs[m] = StringEvent(i, s)
                                   /\ \A l \in m + 1 .. k : ~Gives(evs[l], i)
    BY <1>5
  <2>2. CASE m = proc + 1
    <3>1. i = j /\ s = t
      BY <2>1, <2>2, <1>3
    <3> QED BY <3>1, <2>1, <2>2, <1>1, <1>4 DEF Reads
  <2>3. CASE m # proc + 1
    BY <2>1, <2>3, <1>4 DEF Reads
  <2> QED BY <2>2, <2>3
<1>6. CASE rem[i] = s /\ \A l \in proc + 1 .. k : ~Gives(evs[l], i)
  <2>1. i # j
    BY <1>2, <1>4, <1>6
  <2> QED BY <2>1, <1>1, <1>4, <1>6 DEF Reads
<1> QED BY <1>5, <1>6 DEF Reads, new

LEMMA ReadsProcessCommand ==
  ASSUME NEW evs \in Seq(Event), NEW proc \in 0 .. Len(evs) - 1, NEW rem,
         \A i : ~Gives(evs[proc + 1], i),
         NEW i \in Indices, NEW s \in Texts, NEW k \in proc + 1 .. Len(evs),
         Reads(evs, proc, rem, i, s, k)
  PROVE  /\ Reads(evs, proc + 1, rem, i, s, k)
         /\ k = proc + 1 => rem[i] = s
<1>1. Len(evs) \in Nat
  BY LenProperties
<1>2. evs[proc + 1] # StringEvent(i, s) \/ s = NoString
  BY DEF Gives, Texts
<1>3. CASE \E m \in proc + 1 .. k : /\ evs[m] = StringEvent(i, s)
                                    /\ \A l \in m + 1 .. k : ~Gives(evs[l], i)
  <2>1. PICK m \in proc + 1 .. k : /\ evs[m] = StringEvent(i, s)
                                   /\ \A l \in m + 1 .. k : ~Gives(evs[l], i)
    BY <1>3
  <2>2. evs[m] \in Event
    BY <1>1, ElementOfSeq
  <2>3. s \in Strings
    BY <2>1, <2>2, EventIsEither, StringEvents, CommandEvents
  <2>4. m # proc + 1
    BY <2>1, <2>3 DEF Gives
  <2> QED BY <2>1, <2>4, <1>1 DEF Reads
<1>4. CASE rem[i] = s /\ \A l \in proc + 1 .. k : ~Gives(evs[l], i)
  BY <1>1, <1>4 DEF Reads
<1> QED BY <1>3, <1>4 DEF Reads

-----------------------------------------------------------------------------
(* The invariant.                                                          *)

\* The list holds each index once.
LruInv ==
  /\ lru \in [1 .. EntryCount -> Indices]
  /\ \A m, n \in 1 .. EntryCount : lru[m] = lru[n] => m = n
  /\ \A i \in Indices : \E n \in 1 .. EntryCount : lru[n] = i

\* The tags of the command validated so far are in the last places.
Validated == Len(command) - Len(validating)
InLast(m, s) == \E p \in EntryCount - m + 1 .. EntryCount : entry[lru[p]].string = s
ValidatedInv ==
  /\ Len(validating) =< Len(command)
  /\ \A n \in 1 .. Len(validating) : validating[n] = command[Validated + n]
  /\ \A n \in 1 .. Validated : InLast(Validated, command[n])

\* Once all events are processed the other end has the sender's table.
TablesInv ==
  \A i \in Indices : Reads(events, processed, remote, i, entry[i].string, Len(events))

\* A command will find its tags.
CommandFinds(k) ==
  IsCommand(events[k]) =>
    \A n \in DOMAIN events[k].tags :
      Reads(events, processed, remote, events[k].ids[n], events[k].tags[n], k)
CommandsInv == \A k \in processed + 1 .. Len(events) : CommandFinds(k)

\* What is confirmed was notified.
ConfirmedInv ==
  \A i \in Indices : entry[i].receiveConfirmed =>
    \E k \in 1 .. notified : events[k] = StringEvent(i, entry[i].string)

\* A handle will find its string, which the other end has had at that index.
HandleFinds(h) ==
  /\ h.before =< Len(events)
  /\ h.index # InvalidEntryId =>
       /\ \E k \in 1 .. processed : events[k] = StringEvent(h.index, h.string)
       /\ processed =< h.before =>
            Reads(events, processed, remote, h.index, h.string, h.before)
HandlesInv == \A h \in handles : HandleFinds(h)

IInv == /\ TypeOK /\ LruInv /\ ValidatedInv /\ TablesInv /\ CommandsInv
        /\ ConfirmedInv /\ HandlesInv /\ CommandsReadAsWritten

LEMMA EventCounts ==
  ASSUME TypeOK
  PROVE  /\ events \in Seq(Event) /\ Len(events) \in Nat
         /\ processed \in Nat /\ processed =< Len(events)
         /\ notified \in Nat /\ notified =< processed
         /\ \A k \in 1 .. Len(events) : events[k] \in Event
<1>1. events \in Seq(Event) /\ processed \in 0 .. Len(events) /\ notified \in 0 .. processed
  BY DEF TypeOK
<1> QED BY <1>1, LenProperties, ElementOfSeq

LEMMA CommandShape ==
  ASSUME NEW e \in Event, IsCommand(e)
  PROVE  \E n \in 1 .. MaxArgs : /\ e.tags \in [1 .. n -> Strings] /\ e.ids \in [1 .. n -> Indices]
                                 /\ \A i : ~Gives(e, i)
BY EventIsEither, StringEvents, CommandEvents

LEMMA InitCorrect == Init => IInv
<1> SUFFICES ASSUME Init PROVE IInv
  OBVIOUS
<1>1. TypeOK
  <2>1. \A i \in Indices : i + 1 \in 1 .. EntryCount /\ lru[i + 1] = i
    BY ConstantTypes DEF Init
  <2>2. Indices \subseteq {lru[n] : n \in DOMAIN lru}
    BY <2>1, ConstantTypes DEF Init
  <2> QED BY <2>2, ConstantTypes DEF Init, TypeOK
<1>2. LruInv
  BY ConstantTypes DEF Init, LruInv
<1>3. ValidatedInv
  BY ConstantTypes DEF Init, ValidatedInv, Validated
<1>4. Len(events) = 0 /\ processed = 0 /\ \A i \in Indices : remote[i] = entry[i].string
  BY DEF Init
<1>5. TablesInv
  BY <1>4 DEF TablesInv, Reads
<1> QED BY <1>1, <1>2, <1>3, <1>4, <1>5
        DEF Init, IInv, CommandsInv, ConfirmedInv, HandlesInv, CommandsReadAsWritten

-----------------------------------------------------------------------------
(* The sender's table.                                                     *)

\* An index moved to the end moves the others by one place at most.
LEMMA PushBackKeeps ==
  ASSUME LruInv, NEW index \in Indices, PushBack(index)
  PROVE  /\ LruInv'
         /\ lru'[EntryCount] = index
         /\ \A p \in 1 .. EntryCount :
              \/ lru[p] = index
              \/ lru'[p] = lru[p]
              \/ p > 1 /\ lru'[p - 1] = lru[p]
<1> DEFINE place == CHOOSE n \in DOMAIN lru : lru[n] = index
<1>1. place \in 1 .. EntryCount /\ lru[place] = index
  BY DEF LruInv
<1>2. lru' = [n \in 1 .. EntryCount |-> IF n < place THEN lru[n]
                                       ELSE IF n < EntryCount THEN lru[n + 1] ELSE index]
  BY DEF PushBack, LruInv
<1> HIDE DEF place
<1> DEFINE from(n) == IF n < place THEN n ELSE IF n < EntryCount THEN n + 1 ELSE place
<1>3. \A n \in 1 .. EntryCount : from(n) \in 1 .. EntryCount
  BY <1>1, ConstantTypes
<1>4. /\ lru' = [n \in 1 .. EntryCount |-> lru[from(n)]]
      /\ from(EntryCount) = place
  <2>1. from(EntryCount) = place
    BY <1>1, ConstantTypes
  <2>2. ASSUME NEW n \in 1 .. EntryCount
        PROVE  lru'[n] = lru[from(n)]
    BY <1>1, <1>2, ConstantTypes
  <2> QED BY <2>1, <2>2, <1>2
<1>5. \A m, n \in 1 .. EntryCount : from(m) = from(n) => m = n
  BY <1>1, ConstantTypes
<1>6. \A p \in 1 .. EntryCount : p = place \/ p = from(p) \/ (p > 1 /\ p = from(p - 1))
  BY <1>1, ConstantTypes
<1>7. EntryCount \in 1 .. EntryCount /\ \A p \in 1 .. EntryCount : p > 1 => p - 1 \in 1 .. EntryCount
  BY ConstantTypes
<1> HIDE DEF from
<1>8. lru' \in [1 .. EntryCount -> Indices] /\ lru'[EntryCount] = index
  BY <1>1, <1>3, <1>4, <1>7 DEF LruInv
<1>9. \A m, n \in 1 .. EntryCount : lru'[m] = lru'[n] => m = n
  BY <1>3, <1>4, <1>5 DEF LruInv
<1>10. \A p \in 1 .. EntryCount : \/ lru[p] = index
                                  \/ lru'[p] = lru[p]
                                  \/ p > 1 /\ lru'[p - 1] = lru[p]
  BY <1>1, <1>4, <1>6, <1>7
<1>11. ASSUME NEW i \in Indices PROVE \E n \in 1 .. EntryCount : lru'[n] = i
  <2>1. PICK p \in 1 .. EntryCount : lru[p] = i
    BY DEF LruInv
  <2> QED BY <2>1, <1>7, <1>8, <1>10
<1> QED BY <1>8, <1>9, <1>10, <1>11 DEF LruInv

\* A further event leaves what was to be found before it.
LEMMA FurtherEvent ==
  ASSUME IInv, NEW e \in Event, events' = Append(events, e),
         UNCHANGED <<processed, notified, remote, called>>
  PROVE  /\ events' \in Seq(Event) /\ Len(events') = Len(events) + 1
         /\ \A k \in 1 .. Len(events) : events'[k] = events[k]
         /\ events'[Len(events) + 1] = e
         /\ \A k \in processed + 1 .. Len(events) : CommandFinds(k)'
         /\ \A h \in handles : HandleFinds(h)'
         /\ CommandsReadAsWritten'
<1>0. TypeOK
  BY DEF IInv
<1>1. /\ events' \in Seq(Event) /\ Len(events') = Len(events) + 1
      /\ \A k \in 1 .. Len(events) : events'[k] = events[k]
      /\ events'[Len(events) + 1] = e
  BY <1>0, EventCounts, AppendProperties
<1>5. events \in Seq(Event) /\ processed \in 0 .. Len(events)
  BY <1>0 DEF TypeOK
<1>2. ASSUME NEW k \in processed + 1 .. Len(events)
      PROVE  CommandFinds(k)'
  <2>1. CommandFinds(k) /\ k \in 1 .. Len(events) /\ k \in processed .. Len(events)
    BY <1>0, EventCounts DEF IInv, CommandsInv
  <2>2. events'[k] = events[k] /\ events[k] \in Event
    BY <2>1, <1>0, <1>1, EventCounts
  <2>3. ASSUME IsCommand(events[k]), NEW n \in DOMAIN events[k].tags
        PROVE  Reads(events', processed, remote, events[k].ids[n], events[k].tags[n], k)
    <3>1. events[k].tags[n] \in Texts
      BY <2>2, <2>3, CommandShape DEF Texts
    <3>2. Reads(events, processed, remote, events[k].ids[n], events[k].tags[n], k)
      BY <2>1, <2>3 DEF CommandFinds
    <3> QED BY <3>1, <3>2, <2>1, <1>5, ReadsAppend
  <2> QED BY <2>2, <2>3 DEF CommandFinds
<1>3. ASSUME NEW h \in handles
      PROVE  HandleFinds(h)'
  <2>1. HandleFinds(h) /\ h.before \in Nat /\ h.string \in Texts
    BY <1>0 DEF IInv, HandlesInv, TypeOK, Handles, Texts
  <2>2. processed =< h.before /\ Reads(events, processed, remote, h.index, h.string, h.before) =>
          Reads(events', processed, remote, h.index, h.string, h.before)
    <3> SUFFICES ASSUME processed =< h.before,
                        Reads(events, processed, remote, h.index, h.string, h.before)
                 PROVE  Reads(events', processed, remote, h.index, h.string, h.before)
      OBVIOUS
    <3>1. h.before \in processed .. Len(events)
      BY <2>1, <1>0, EventCounts DEF HandleFinds
    <3> QED BY <3>1, <2>1, <1>5, ReadsAppend
  <2> QED BY <2>1, <2>2, <1>0, <1>1, EventCounts DEF HandleFinds
<1>4. CommandsReadAsWritten'
  BY <1>0, <1>1, EventCounts DEF IInv, CommandsReadAsWritten, TypeOK
<1> QED BY <1>1, <1>2, <1>3, <1>4

LEMMA SeqOfLru == ASSUME LruInv PROVE Head(lru) = lru[1] /\ lru[1] \in Indices
<1>1. 1 \in 1 .. EntryCount
  BY ConstantTypes
<1>2. lru \in Seq(Indices)
  BY ConstantTypes DEF LruInv
<1> QED BY <1>1, <1>2 DEF LruInv

\* checkString keeps the tables in step, and the tags validated so far stay in
\* the last places of the list, with the new one.
LEMMA CheckStringKeeps ==
  ASSUME IInv, NEW string \in Strings, CheckString(string),
         UNCHANGED <<processed, notified, remote, called>>
  PROVE  /\ entry' \in [Indices -> [string : Texts, receiveConfirmed : BOOLEAN]]
         /\ events' \in Seq(Event) /\ Len(events') >= Len(events)
         /\ LruInv' /\ TablesInv' /\ CommandsInv' /\ ConfirmedInv'
         /\ \A h \in handles : HandleFinds(h)'
         /\ CommandsReadAsWritten'
         /\ entry'[lru'[EntryCount]].string = string
         /\ \A m \in 0 .. EntryCount - 1 : \A t \in Strings : InLast(m, t) => InLast(m + 1, t)'
         /\ IndexOf(string) # {} => UNCHANGED <<entry, events>>
<1>0. /\ TypeOK /\ LruInv /\ TablesInv /\ CommandsInv /\ ConfirmedInv /\ HandlesInv
      /\ CommandsReadAsWritten
      /\ entry \in [Indices -> [string : Texts, receiveConfirmed : BOOLEAN]]
      /\ events \in Seq(Event) /\ processed \in 0 .. Len(events)
  BY DEF IInv, TypeOK, Texts
<1>00. EntryCount \in 1 .. EntryCount
  BY ConstantTypes
<1>1. CASE IndexOf(string) # {}
  <2>1. PICK index \in IndexOf(string) : PushBack(index)
    BY <1>1 DEF CheckString
  <2>2. UNCHANGED <<entry, events>>
    BY <1>1 DEF CheckString
  <2>3. index \in Indices /\ entry[index].string = string
    BY <2>1 DEF IndexOf
  <2>4. /\ LruInv' /\ lru'[EntryCount] = index
        /\ \A p \in 1 .. EntryCount : \/ lru[p] = index
                                      \/ lru'[p] = lru[p]
                                      \/ p > 1 /\ lru'[p - 1] = lru[p]
    BY <1>0, <2>1, <2>3, PushBackKeeps
  <2>5. ASSUME NEW m \in 0 .. EntryCount - 1, NEW t \in Strings, InLast(m, t)
        PROVE  InLast(m + 1, t)'
    <3>1. PICK p \in EntryCount - m + 1 .. EntryCount : entry[lru[p]].string = t
      BY <2>5 DEF InLast
    <3>2. p \in 1 .. EntryCount /\ p \in EntryCount - (m + 1) + 1 .. EntryCount
          /\ p - 1 \in EntryCount - (m + 1) + 1 .. EntryCount
          /\ EntryCount \in EntryCount - (m + 1) + 1 .. EntryCount
      BY ConstantTypes
    <3> QED BY <3>1, <3>2, <2>2, <2>3, <2>4 DEF InLast
  <2>6. TablesInv' /\ CommandsInv' /\ ConfirmedInv' /\ CommandsReadAsWritten'
    BY <1>0, <2>2
       DEF TablesInv, CommandsInv, CommandFinds, ConfirmedInv, CommandsReadAsWritten
  <2>7. \A h \in handles : HandleFinds(h)'
    BY <1>0, <2>2 DEF HandlesInv, HandleFinds
  <2>8. Len(events') >= Len(events)
    BY <1>0, <2>2, EventCounts
  <2> QED BY <1>0, <1>00, <2>2, <2>3, <2>4, <2>5, <2>6, <2>7, <2>8
<1>2. CASE IndexOf(string) = {}
  <2> DEFINE index == lru[1]
             e == StringEvent(index, string)
  <2>1. index \in Indices /\ Head(lru) = index
    BY <1>0, SeqOfLru
  <2>2. /\ PushBack(index)
        /\ entry' = [entry EXCEPT ![index] = [string |-> string, receiveConfirmed |-> FALSE]]
        /\ events' = Append(events, e)
    BY <1>2, <2>1 DEF CheckString
  <2>3. e \in Event
    BY <2>1, StringEventsAreEvents
  <2>4. /\ LruInv' /\ lru'[EntryCount] = index
        /\ \A p \in 1 .. EntryCount : \/ lru[p] = index
                                      \/ lru'[p] = lru[p]
                                      \/ p > 1 /\ lru'[p - 1] = lru[p]
    BY <1>0, <2>1, <2>2, PushBackKeeps
  <2>5. /\ events' \in Seq(Event) /\ Len(events') = Len(events) + 1
        /\ \A k \in 1 .. Len(events) : events'[k] = events[k]
        /\ events'[Len(events) + 1] = e
        /\ \A k \in processed + 1 .. Len(events) : CommandFinds(k)'
        /\ \A h \in handles : HandleFinds(h)'
        /\ CommandsReadAsWritten'
    BY <2>2, <2>3, FurtherEvent
  <2>6. /\ entry'[index].string = string /\ entry'[index].receiveConfirmed = FALSE
        /\ \A i \in Indices : i # index => entry'[i] = entry[i]
        /\ entry' \in [Indices -> [string : Texts, receiveConfirmed : BOOLEAN]]
    BY <1>0, <2>1, <2>2 DEF Texts
  <2>7. /\ ~IsCommand(e) /\ Gives(e, index)
        /\ \A i \in Indices : i # index => ~Gives(e, i)
    BY StringEvents DEF Gives
  <2>8. Len(events) \in Nat
    BY <1>0, EventCounts
  <2> HIDE DEF index
  <2>9. ASSUME NEW m \in 0 .. EntryCount - 1, NEW t \in Strings, InLast(m, t)
        PROVE  InLast(m + 1, t)'
    <3>1. PICK p \in EntryCount - m + 1 .. EntryCount : entry[lru[p]].string = t
      BY <2>9 DEF InLast
    <3>2. p \in 1 .. EntryCount /\ p \in EntryCount - (m + 1) + 1 .. EntryCount
          /\ p - 1 \in EntryCount - (m + 1) + 1 .. EntryCount /\ p # 1
          /\ 1 \in 1 .. EntryCount
      BY ConstantTypes
    <3>3. lru[p] # index /\ lru[p] \in Indices
      BY <3>2, <1>0 DEF LruInv, index
    <3> QED BY <3>1, <3>2, <3>3, <2>4, <2>6 DEF InLast
  <2>10. TablesInv'
    <3> SUFFICES ASSUME NEW i \in Indices
                 PROVE  Reads(events', processed, remote, i, entry'[i].string, Len(events'))
      BY DEF TablesInv
    <3>1. Len(events) \in processed .. Len(events) /\ entry'[i].string \in Texts
      BY <1>0, <2>6, <2>8
    <3>2. CASE i = index
      BY <3>1, <3>2, <1>0, <2>2, <2>3, <2>5, <2>6, ReadsAppend
    <3>3. CASE i # index
      <4>1. ~Gives(e, i) /\ entry'[i].string = entry[i].string
        BY <3>3, <2>6, <2>7
      <4>2. Reads(events, processed, remote, i, entry'[i].string, Len(events))
        BY <4>1, <1>0 DEF TablesInv
      <4> QED BY <4>1, <4>2, <3>1, <1>0, <2>2, <2>3, <2>5, ReadsAppend
    <3> QED BY <3>2, <3>3
  <2>11. CommandsInv'
    <3> SUFFICES ASSUME NEW k \in processed + 1 .. Len(events) + 1
                 PROVE  CommandFinds(k)'
      BY <2>5 DEF CommandsInv
    <3>1. CASE k = Len(events) + 1
      BY <3>1, <2>5, <2>7 DEF CommandFinds
    <3>2. CASE k # Len(events) + 1
      <4>1. k \in processed + 1 .. Len(events)
        BY <3>2, <1>0, <2>8
      <4> QED BY <4>1, <2>5
    <3> QED BY <3>1, <3>2
  <2>12. ConfirmedInv'
    <3> SUFFICES ASSUME NEW i \in Indices, entry'[i].receiveConfirmed
                 PROVE  \E k \in 1 .. notified : events'[k] = StringEvent(i, entry'[i].string)
      BY DEF ConfirmedInv
    <3>1. i # index /\ entry'[i] = entry[i]
      BY <2>6
    <3>2. PICK k \in 1 .. notified : events[k] = StringEvent(i, entry[i].string)
      BY <3>1, <1>0 DEF ConfirmedInv
    <3>3. k \in 1 .. Len(events)
      BY <1>0, EventCounts
    <3> QED BY <3>1, <3>2, <3>3, <2>5
  <2> QED BY <1>2, <2>4, <2>5, <2>6, <2>8, <2>9, <2>10, <2>11, <2>12
<1> QED BY <1>1, <1>2

-----------------------------------------------------------------------------
(* The actions.                                                            *)

\* The table as TypeOK describes it, from the parts the lemmas keep.
LEMMA ListedEntries ==
  ASSUME LruInv
  PROVE  /\ lru \in [1 .. EntryCount -> Indices]
         /\ Indices \subseteq {lru[n] : n \in DOMAIN lru}
BY DEF LruInv

LEMMA TagsAreSequences ==
  ASSUME NEW tags \in Tags
  PROVE  /\ tags \in Seq(Strings) /\ Len(tags) \in 1 .. MaxArgs /\ tags # <<>>
         /\ tags \in [1 .. Len(tags) -> Strings]
<1>1. PICK n \in 1 .. MaxArgs : tags \in [1 .. n -> Strings]
  BY DEF Tags
<1>2. tags \in Seq(Strings) /\ Len(tags) = n
  BY <1>1, ConstantTypes
<1>3. tags # <<>>
  BY <1>1, <1>2, EmptySeq
<1> QED BY <1>1, <1>2, <1>3

LEMMA SendKeeps ==
  ASSUME IInv, NEW tags \in Tags, SendRemoteCommand(tags)
  PROVE  IInv'
<1>1. UNCHANGED <<entry, lru, events, notified, processed, remote, called, handles>>
  BY DEF SendRemoteCommand, tableVars, remoteVars
<1>2. command' = tags /\ validating' = tags
  BY DEF SendRemoteCommand
<1>3. tags \in Seq(Strings) /\ Len(tags) \in Nat
  BY TagsAreSequences, ConstantTypes
<1>4. TypeOK'
  BY <1>1, <1>2, <1>3 DEF IInv, TypeOK
<1>5. ValidatedInv'
  BY <1>2, <1>3 DEF ValidatedInv, Validated
<1>6. LruInv' /\ TablesInv' /\ CommandsInv' /\ ConfirmedInv' /\ HandlesInv'
      /\ CommandsReadAsWritten'
  BY <1>1 DEF IInv, LruInv, TablesInv, CommandsInv, CommandFinds, ConfirmedInv, HandlesInv,
              HandleFinds, CommandsReadAsWritten
<1> QED BY <1>4, <1>5, <1>6 DEF IInv

LEMMA ValidateKeeps ==
  ASSUME IInv, ValidateSendString
  PROVE  IInv'
<1> DEFINE string == Head(validating)
<1>1. /\ validating # <<>> /\ CheckString(string) /\ validating' = Tail(validating)
      /\ UNCHANGED <<command, notified, processed, remote, called, handles>>
  BY DEF ValidateSendString, remoteVars
<1>2. /\ TypeOK /\ ValidatedInv /\ validating \in Seq(Strings)
      /\ command \in Tags \cup {<<>>}
  BY DEF IInv, TypeOK
<1>3. /\ string \in Strings /\ string = validating[1]
      /\ Tail(validating) \in Seq(Strings) /\ Len(validating) \in Nat /\ Len(validating) >= 1
      /\ Len(Tail(validating)) = Len(validating) - 1
      /\ \A n \in 1 .. Len(validating) - 1 : Tail(validating)[n] = validating[n + 1]
  BY <1>1, <1>2, HeadTailProperties, EmptySeq, LenProperties, ElementOfSeq
<1>4. /\ Len(command) \in 1 .. MaxArgs
      /\ \A n \in 1 .. Len(command) : command[n] \in Strings
  <2>1. command # <<>>
    BY <1>2, <1>3 DEF ValidatedInv
  <2> QED BY <2>1, <1>2, TagsAreSequences
<1> HIDE DEF string
<1>5. /\ entry' \in [Indices -> [string : Texts, receiveConfirmed : BOOLEAN]]
      /\ events' \in Seq(Event) /\ Len(events') >= Len(events)
      /\ LruInv' /\ TablesInv' /\ CommandsInv' /\ ConfirmedInv'
      /\ \A h \in handles : HandleFinds(h)'
      /\ CommandsReadAsWritten'
      /\ entry'[lru'[EntryCount]].string = string
      /\ \A m \in 0 .. EntryCount - 1 : \A t \in Strings : InLast(m, t) => InLast(m + 1, t)'
  BY <1>1, <1>3, CheckStringKeeps
<1>6. Validated \in 0 .. EntryCount - 1 /\ Validated' = Validated + 1
      /\ Len(validating') = Len(validating) - 1 /\ Validated + 1 \in 1 .. Len(command)
  BY <1>1, <1>2, <1>3, <1>4, ConstantTypes DEF Validated, ValidatedInv
<1>7. ValidatedInv'
  <2>1. Len(validating') =< Len(command')
    BY <1>1, <1>2, <1>3, <1>4, <1>6 DEF ValidatedInv
  <2>2. ASSUME NEW n \in 1 .. Len(validating')
        PROVE  validating'[n] = command'[Validated' + n]
    <3>1. n \in 1 .. Len(validating) - 1 /\ n + 1 \in 1 .. Len(validating)
          /\ Validated' + n = Validated + (n + 1)
      BY <1>3, <1>6
    <3> QED BY <3>1, <1>1, <1>2, <1>3 DEF ValidatedInv
  <2>3. ASSUME NEW n \in 1 .. Validated + 1
        PROVE  InLast(Validated, command[n])'
    <3>1. PICK m \in 0 .. EntryCount - 1, t \in Strings : m = Validated /\ t = command[n]
      BY <1>4, <1>6
    <3> SUFFICES InLast(m + 1, t)'
      BY <3>1, <1>1, <1>6 DEF InLast
    <3>2. CASE n = Validated + 1
      <4>1. t = string
        BY <3>1, <3>2, <1>2, <1>3 DEF ValidatedInv
      <4>2. EntryCount \in EntryCount - (m + 1) + 1 .. EntryCount
        BY ConstantTypes
      <4> QED BY <4>1, <4>2, <1>5 DEF InLast
    <3>3. CASE n # Validated + 1
      <4>1. n \in 1 .. Validated
        BY <3>3, <1>6
      <4>2. InLast(m, t)
        BY <3>1, <4>1, <1>2 DEF ValidatedInv, InLast
      <4> QED BY <4>2, <1>5
    <3> QED BY <3>2, <3>3
  <2> QED BY <2>1, <2>2, <2>3, <1>1, <1>6 DEF ValidatedInv
<1>8. TypeOK'
  <2>1. lru' \in [1 .. EntryCount -> Indices] /\ Indices \subseteq {lru'[n] : n \in DOMAIN lru'}
    BY <1>5 DEF LruInv
  <2>2. processed \in 0 .. Len(events') /\ notified \in 0 .. processed
    BY <1>2, <1>5, EventCounts DEF TypeOK
  <2> QED BY <2>1, <2>2, <1>1, <1>2, <1>3, <1>5 DEF TypeOK, Texts
<1> QED BY <1>1, <1>5, <1>7, <1>8 DEF IInv, HandlesInv

\* getNetSendId finds every tag of the command: validating the later ones has
\* not moved an earlier one to the front of the list.
LEMMA IdsAreFound ==
  ASSUME TypeOK, LruInv, ValidatedInv, validating = <<>>, NEW n \in DOMAIN command
  PROVE  /\ IndexOf(command[n]) # {}
         /\ GetNetSendId(command[n]) \in Indices
         /\ entry[GetNetSendId(command[n])].string = command[n]
<1>1. command # <<>> /\ command \in Tags
  BY DEF TypeOK
<1>2. DOMAIN command = 1 .. Len(command) /\ Len(command) \in 1 .. MaxArgs
  BY <1>1, TagsAreSequences
<1>3. Validated = Len(command)
  BY <1>2, ConstantTypes DEF Validated
<1>4. PICK p \in EntryCount - Len(command) + 1 .. EntryCount : entry[lru[p]].string = command[n]
  BY <1>2, <1>3 DEF ValidatedInv, InLast
<1>5. p \in 1 .. EntryCount
  BY <1>2, ConstantTypes
<1>6. lru[p] \in IndexOf(command[n])
  BY <1>4, <1>5 DEF LruInv, IndexOf
<1>7. GetNetSendId(command[n]) \in IndexOf(command[n])
  BY <1>6 DEF GetNetSendId
<1> QED BY <1>6, <1>7 DEF IndexOf

LEMMA PostKeeps ==
  ASSUME IInv, PostRemoteCommand
  PROVE  IInv'
<1> DEFINE ids == [n \in DOMAIN command |-> GetNetSendId(command[n])]
           e   == CommandEvent(command, ids)
<1>0. /\ TypeOK /\ LruInv /\ ValidatedInv /\ TablesInv /\ ConfirmedInv
      /\ events \in Seq(Event) /\ processed \in 0 .. Len(events) /\ Len(events) \in Nat
      /\ entry \in [Indices -> [string : Texts, receiveConfirmed : BOOLEAN]]
  BY EventCounts DEF IInv, TypeOK, Texts
<1>1. /\ command # <<>> /\ validating = <<>> /\ command' = <<>> /\ events' = Append(events, e)
      /\ UNCHANGED <<entry, lru, validating, notified, processed, remote, called, handles>>
  BY DEF PostRemoteCommand, tableVars, remoteVars
<1>2. /\ command \in Tags /\ Len(command) \in 1 .. MaxArgs
      /\ command \in [1 .. Len(command) -> Strings] /\ DOMAIN command = 1 .. Len(command)
  BY <1>0, <1>1, TagsAreSequences DEF TypeOK
<1>3. \A n \in DOMAIN command : /\ ids[n] \in Indices
                                /\ entry[ids[n]].string = command[n]
  BY <1>0, <1>1, IdsAreFound
<1>4. ids \in [1 .. Len(command) -> Indices]
  BY <1>2, <1>3
<1>5. /\ e \in Event /\ IsCommand(e) /\ e.tags = command /\ e.ids = ids
      /\ \A i : ~Gives(e, i)
  BY <1>2, <1>4, CommandEvents, CommandEventsAreEvents
<1> HIDE DEF e, ids
<1>6. /\ events' \in Seq(Event) /\ Len(events') = Len(events) + 1
      /\ \A k \in 1 .. Len(events) : events'[k] = events[k]
      /\ events'[Len(events) + 1] = e
      /\ \A k \in processed + 1 .. Len(events) : CommandFinds(k)'
      /\ \A h \in handles : HandleFinds(h)'
      /\ CommandsReadAsWritten'
  BY <1>1, <1>5, FurtherEvent
<1>7. ASSUME NEW i \in Indices
      PROVE  Reads(events', processed, remote, i, entry[i].string, Len(events) + 1)
  <2>1. Reads(events, processed, remote, i, entry[i].string, Len(events))
        /\ entry[i].string \in Texts
    BY <1>0 DEF TablesInv
  <2> QED BY <2>1, <1>0, <1>1, <1>5, ReadsAppend
<1>8. TablesInv'
  BY <1>1, <1>6, <1>7 DEF TablesInv
<1>9. CommandsInv'
  <2> SUFFICES ASSUME NEW k \in processed + 1 .. Len(events) + 1
               PROVE  CommandFinds(k)'
    BY <1>1, <1>6 DEF CommandsInv
  <2>1. CASE k = Len(events) + 1
    <3> SUFFICES ASSUME NEW n \in DOMAIN command
                 PROVE  Reads(events', processed, remote, ids[n], command[n], Len(events) + 1)
      BY <2>1, <1>1, <1>5, <1>6 DEF CommandFinds
    <3> QED BY <1>3, <1>7
  <2>2. CASE k # Len(events) + 1
    <3>1. k \in processed + 1 .. Len(events)
      BY <2>2, <1>0
    <3> QED BY <3>1, <1>6
  <2> QED BY <2>1, <2>2
<1>10. ConfirmedInv'
  <2> SUFFICES ASSUME NEW i \in Indices, entry[i].receiveConfirmed
               PROVE  \E k \in 1 .. notified : events'[k] = StringEvent(i, entry[i].string)
    BY <1>1 DEF ConfirmedInv
  <2>1. PICK k \in 1 .. notified : events[k] = StringEvent(i, entry[i].string)
    BY <1>0 DEF ConfirmedInv
  <2>2. k \in 1 .. Len(events)
    BY <1>0, EventCounts
  <2> QED BY <2>1, <2>2, <1>6
<1>11. LruInv' /\ ValidatedInv'
  BY <1>0, <1>1 DEF LruInv, ValidatedInv, Validated
<1>12. TypeOK'
  BY <1>0, <1>1, <1>6 DEF TypeOK
<1> QED BY <1>1, <1>6, <1>8, <1>9, <1>10, <1>11, <1>12 DEF IInv, HandlesInv

LEMMA PackKeeps ==
  ASSUME IInv, NEW string \in Strings, PackNetStringHandle(string)
  PROVE  IInv'
<1> DEFINE received == {i \in IndexOf(string) : entry[i].receiveConfirmed}
           index    == IF received = {} THEN InvalidEntryId ELSE CHOOSE i \in received : TRUE
           handle   == [string |-> string, index |-> index, before |-> Len(events')]
<1>0. TypeOK /\ ValidatedInv /\ LruInv /\ ConfirmedInv
  BY DEF IInv
<1>1. /\ command = <<>> /\ CheckString(string)
      /\ handles' = handles \cup {handle}
      /\ UNCHANGED <<validating, command, notified, processed, remote, called>>
  BY DEF PackNetStringHandle, commandVars, remoteVars
<1>2. /\ entry' \in [Indices -> [string : Texts, receiveConfirmed : BOOLEAN]]
      /\ events' \in Seq(Event) /\ Len(events') >= Len(events)
      /\ LruInv' /\ TablesInv' /\ CommandsInv' /\ ConfirmedInv'
      /\ \A h \in handles : HandleFinds(h)'
      /\ CommandsReadAsWritten'
      /\ IndexOf(string) # {} => UNCHANGED <<entry, events>>
  BY <1>1, CheckStringKeeps
<1>3. Len(events') \in Nat /\ processed \in 0 .. Len(events') /\ notified \in 0 .. processed
  BY <1>0, <1>2, EventCounts, LenProperties DEF TypeOK
<1>4. index \in Indices \cup {InvalidEntryId}
  BY DEF IndexOf
<1>5. PICK h \in Handles : h = handle
  BY <1>3, <1>4 DEF Handles
<1>6. HandleFinds(h)'
  <2>1. h.before = Len(events') /\ h.index = index /\ h.string = string
    BY <1>5
  <2>2. CASE received = {}
    <3>1. h.index = InvalidEntryId
      BY <2>1, <2>2
    <3> HIDE DEF index, received, handle
    <3> QED BY <3>1, <2>1, <1>3 DEF HandleFinds, InvalidEntryId
  <2>3. CASE received # {}
    <3>1. index \in Indices /\ entry[index].string = string /\ entry[index].receiveConfirmed
          /\ UNCHANGED <<entry, events>>
      BY <2>3, <1>2 DEF IndexOf
    <3> HIDE DEF index, received, handle
    <3>2. PICK k \in 1 .. notified : events[k] = StringEvent(h.index, h.string)
      BY <3>1, <2>1, <1>0 DEF ConfirmedInv
    <3>3. k \in 1 .. processed /\ events'[k] = StringEvent(h.index, h.string)
      BY <3>1, <3>2, <1>0, EventCounts
    <3>4. Reads(events', processed, remote, h.index, h.string, h.before)
      BY <3>1, <2>1, <1>1, <1>2 DEF TablesInv
    <3> QED BY <3>3, <3>4, <2>1, <1>1, <1>3 DEF HandleFinds
  <2> QED BY <2>2, <2>3
<1>7. HandlesInv'
  BY <1>1, <1>2, <1>5, <1>6 DEF HandlesInv
<1> HIDE DEF handle, index, received
<1>8. ValidatedInv'
  BY <1>0, <1>1 DEF ValidatedInv, Validated
<1>9. TypeOK'
  BY <1>0, <1>1, <1>2, <1>3, <1>5, ListedEntries DEF TypeOK, Texts, LruInv
<1> QED BY <1>2, <1>7, <1>8, <1>9 DEF IInv

LEMMA NotifyKeeps ==
  ASSUME IInv, NotifyDelivered
  PROVE  IInv'
<1> DEFINE event == events[notified + 1]
<1>0. /\ TypeOK /\ LruInv /\ ValidatedInv /\ TablesInv /\ ConfirmedInv
      /\ entry \in [Indices -> [string : Texts, receiveConfirmed : BOOLEAN]]
      /\ Len(events) \in Nat /\ processed \in 0 .. Len(events) /\ notified \in 0 .. processed
  BY EventCounts DEF IInv, TypeOK, Texts
<1>1. /\ command = <<>> /\ notified + 1 =< processed /\ notified' = notified + 1
      /\ UNCHANGED <<lru, validating, command, events, processed, remote, called, handles>>
      /\ entry' = IF ~IsCommand(event) /\ entry[event.index].string = event.string
                    THEN [entry EXCEPT ![event.index].receiveConfirmed = TRUE]
                    ELSE entry
  BY DEF NotifyDelivered, Order!Notify, commandVars
<1>2. event \in Event
  BY <1>0, <1>1, EventCounts
<1>3. ~IsCommand(event) => \E i \in Indices, s \in Strings : event = StringEvent(i, s)
  BY <1>2, EventIsEither, CommandEvents
<1>4. ~IsCommand(event) => event.index \in Indices /\ event = StringEvent(event.index, event.string)
  BY <1>3, StringEvents
<1> HIDE DEF event
<1>5. /\ entry' \in [Indices -> [string : Texts, receiveConfirmed : BOOLEAN]]
      /\ \A i \in Indices :
           /\ entry'[i].string = entry[i].string
           /\ entry'[i].receiveConfirmed =>
                entry[i].receiveConfirmed \/ event = StringEvent(i, entry[i].string)
  <2>1. CASE ~IsCommand(event) /\ entry[event.index].string = event.string
    <3>1. entry' = [entry EXCEPT ![event.index].receiveConfirmed = TRUE]
      BY <2>1, <1>1
    <3> QED BY <3>1, <2>1, <1>0, <1>4
  <2>2. CASE ~(~IsCommand(event) /\ entry[event.index].string = event.string)
    BY <2>2, <1>0, <1>1
  <2> QED BY <2>1, <2>2
<1>6. TypeOK'
  BY <1>0, <1>1, <1>5 DEF TypeOK, Texts
<1>7. ConfirmedInv'
  <2> SUFFICES ASSUME NEW i \in Indices, entry'[i].receiveConfirmed
               PROVE  \E k \in 1 .. notified + 1 : events[k] = StringEvent(i, entry[i].string)
    BY <1>1, <1>5 DEF ConfirmedInv
  <2>1. CASE entry[i].receiveConfirmed
    <3>1. PICK k \in 1 .. notified : events[k] = StringEvent(i, entry[i].string)
      BY <2>1, <1>0 DEF ConfirmedInv
    <3> QED BY <3>1, <1>0
  <2>2. CASE event = StringEvent(i, entry[i].string)
    BY <2>2, <1>0 DEF event
  <2> QED BY <2>1, <2>2, <1>5
<1>8. TablesInv'
  BY <1>0, <1>1, <1>5 DEF TablesInv
<1>9. ValidatedInv'
  BY <1>0, <1>1 DEF ValidatedInv, Validated
<1>10. LruInv' /\ CommandsInv' /\ HandlesInv' /\ CommandsReadAsWritten'
  BY <1>1 DEF IInv, LruInv, CommandsInv, CommandFinds, HandlesInv, HandleFinds,
              CommandsReadAsWritten
<1> QED BY <1>6, <1>7, <1>8, <1>9, <1>10 DEF IInv

\* Processing one event leaves what was to be found after it.
LEMMA ReadsProcess ==
  ASSUME IInv, ProcessEvent, NEW i \in Indices, NEW s \in Texts,
         NEW k \in processed + 1 .. Len(events), Reads(events, processed, remote, i, s, k)
  PROVE  Reads(events, processed + 1, remote', i, s, k)
<1> DEFINE event == events[processed + 1]
<1>1. /\ processed + 1 =< Len(events) /\ processed' = processed + 1
      /\ IF IsCommand(event) THEN UNCHANGED remote
                             ELSE remote' = [remote EXCEPT ![event.index] = event.string]
  BY DEF ProcessEvent, Order!Process
<1>2. /\ events \in Seq(Event) /\ remote \in [Indices -> Texts] /\ Len(events) \in Nat
      /\ processed \in 0 .. Len(events) - 1 /\ event \in Event
  BY <1>1, EventCounts DEF IInv, TypeOK, Texts
<1>3. CASE IsCommand(event)
  <2>1. \A j : ~Gives(event, j)
    BY <1>2, <1>3, CommandShape
  <2> QED BY <2>1, <1>1, <1>2, <1>3, ReadsProcessCommand
<1>4. CASE ~IsCommand(event)
  <2>1. PICK j \in Indices, t \in Strings : event = StringEvent(j, t)
    BY <1>2, <1>4, EventIsEither, CommandEvents
  <2>2. remote' = [remote EXCEPT ![j] = t]
    BY <2>1, <1>1, <1>4, StringEvents
  <2> QED BY <2>1, <2>2, <1>2, ReadsProcessString
<1> QED BY <1>3, <1>4

LEMMA ProcessKeeps ==
  ASSUME IInv, ProcessEvent
  PROVE  IInv'
<1> DEFINE event == events[processed + 1]
<1>0. /\ TypeOK /\ LruInv /\ ValidatedInv /\ TablesInv /\ CommandsInv /\ ConfirmedInv
      /\ HandlesInv /\ CommandsReadAsWritten
      /\ entry \in [Indices -> [string : Texts, receiveConfirmed : BOOLEAN]]
      /\ remote \in [Indices -> Texts]
      /\ Len(events) \in Nat /\ processed \in 0 .. Len(events) /\ notified \in 0 .. processed
  BY EventCounts DEF IInv, TypeOK, Texts
<1>1. /\ processed + 1 =< Len(events) /\ processed' = processed + 1
      /\ UNCHANGED <<entry, lru, validating, command, events, notified, handles>>
      /\ IF IsCommand(event)
           THEN /\ called' = called \cup
                     {[at |-> processed + 1,
                       args |-> [n \in DOMAIN event.ids |-> remote[event.ids[n]]]]}
                /\ UNCHANGED remote
           ELSE /\ remote' = [remote EXCEPT ![event.index] = event.string]
                /\ UNCHANGED called
  BY DEF ProcessEvent, Order!Process, tableVars, commandVars
<1>2. event \in Event /\ processed + 1 \in processed + 1 .. Len(events)
  BY <1>0, <1>1, EventCounts
<1>3. remote' \in [Indices -> Texts]
  <2>1. CASE IsCommand(event)
    BY <2>1, <1>0, <1>1
  <2>2. CASE ~IsCommand(event)
    <3>1. event.index \in Indices /\ event.string \in Texts
      BY <1>2, <2>2, EventIsEither, CommandEvents, StringEvents DEF Texts
    <3> QED BY <3>1, <2>2, <1>0, <1>1
  <2> QED BY <2>1, <2>2
<1>4. /\ called' \subseteq [at : 1 .. processed + 1, args : Seq(Texts)]
      /\ CommandsReadAsWritten'
  <2>1. called \subseteq [at : 1 .. processed + 1, args : Seq(Texts)]
    BY <1>0 DEF TypeOK, Texts
  <2>2. CASE ~IsCommand(event)
    BY <2>1, <2>2, <1>0, <1>1 DEF CommandsReadAsWritten
  <2>3. CASE IsCommand(event)
    <3> DEFINE args == [n \in DOMAIN event.ids |-> remote[event.ids[n]]]
    <3>1. PICK n \in 1 .. MaxArgs : /\ event.tags \in [1 .. n -> Strings]
                                    /\ event.ids \in [1 .. n -> Indices]
                                    /\ \A i : ~Gives(event, i)
      BY <1>2, <2>3, CommandShape
    <3>2. args \in [1 .. n -> Texts] /\ args \in Seq(Texts)
      <4>1. DOMAIN event.ids = 1 .. n /\ \A m \in 1 .. n : remote[event.ids[m]] \in Texts
        BY <3>1, <1>0
      <4>2. args \in [1 .. n -> Texts]
        BY <4>1
      <4>3. n \in Nat
        BY ConstantTypes
      <4> HIDE DEF args
      <4> QED BY <4>2, <4>3
    <3>3. ASSUME NEW m \in 1 .. n
          PROVE  args[m] = event.tags[m]
      <4>1. Reads(events, processed, remote, event.ids[m], event.tags[m], processed + 1)
        BY <3>1, <2>3, <1>0, <1>2 DEF CommandsInv, CommandFinds
      <4>2. remote[event.ids[m]] = event.tags[m]
        <5>1. event.ids[m] \in Indices /\ event.tags[m] \in Texts /\ events \in Seq(Event)
              /\ processed \in 0 .. Len(events) - 1
          BY <3>1, <1>0, <1>1, EventCounts DEF Texts
        <5> QED BY <5>1, <4>1, <3>1, <1>2, ReadsProcessCommand
      <4> QED BY <4>2, <3>1
    <3>4. args = event.tags
      <4> HIDE DEF args, event
      <4> QED BY <3>1, <3>2, <3>3
    <3>5. called' = called \cup {[at |-> processed + 1, args |-> args]}
      BY <2>3, <1>1
    <3> HIDE DEF args
    <3>6. CommandsReadAsWritten'
      BY <3>4, <3>5, <1>0, <1>1 DEF CommandsReadAsWritten
    <3>7. called' \subseteq [at : 1 .. processed + 1, args : Seq(Texts)]
      BY <3>2, <3>5, <2>1, <1>0
    <3> QED BY <3>6, <3>7
  <2> QED BY <2>2, <2>3
<1> HIDE DEF event
<1>5. TypeOK'
  BY <1>0, <1>1, <1>3, <1>4 DEF TypeOK, Texts
<1>6. TablesInv'
  <2> SUFFICES ASSUME NEW i \in Indices
               PROVE  Reads(events, processed + 1, remote', i, entry[i].string, Len(events))
    BY <1>1 DEF TablesInv
  <2>1. /\ Reads(events, processed, remote, i, entry[i].string, Len(events))
        /\ entry[i].string \in Texts /\ Len(events) \in processed + 1 .. Len(events)
    BY <1>0, <1>1 DEF TablesInv
  <2> QED BY <2>1, ReadsProcess
<1>7. CommandsInv'
  <2> SUFFICES ASSUME NEW k \in processed + 1 + 1 .. Len(events), IsCommand(events[k]),
                      NEW n \in DOMAIN events[k].tags
               PROVE  Reads(events, processed + 1, remote', events[k].ids[n], events[k].tags[n], k)
    BY <1>1 DEF CommandsInv, CommandFinds
  <2>1. k \in processed + 1 .. Len(events) /\ events[k] \in Event
    BY <1>0, EventCounts
  <2>2. Reads(events, processed, remote, events[k].ids[n], events[k].tags[n], k)
    BY <2>1, <1>0 DEF CommandsInv, CommandFinds
  <2>3. events[k].ids[n] \in Indices /\ events[k].tags[n] \in Texts
    BY <2>1, CommandShape DEF Texts
  <2> QED BY <2>1, <2>2, <2>3, ReadsProcess
<1>8. HandlesInv'
  <2> SUFFICES ASSUME NEW h \in handles
               PROVE  HandleFinds(h)'
    BY <1>1 DEF HandlesInv
  <2>1. HandleFinds(h) /\ h \in Handles
    BY <1>0 DEF HandlesInv, TypeOK
  <2>2. h.string \in Texts /\ h.index \in Indices \cup {InvalidEntryId} /\ h.before \in Nat
    BY <2>1 DEF Handles, Texts
  <2>3. ASSUME h.index # InvalidEntryId, processed + 1 =< h.before
        PROVE  Reads(events, processed + 1, remote', h.index, h.string, h.before)
    <3>1. h.before \in processed + 1 .. Len(events) /\ h.index \in Indices
          /\ Reads(events, processed, remote, h.index, h.string, h.before)
      BY <2>1, <2>2, <2>3, <1>0 DEF HandleFinds
    <3> QED BY <3>1, <2>2, ReadsProcess
  <2> QED BY <2>1, <2>2, <2>3, <1>0, <1>1 DEF HandleFinds
<1>9. LruInv' /\ ValidatedInv' /\ ConfirmedInv'
  BY <1>0, <1>1 DEF LruInv, ValidatedInv, Validated, InLast, ConfirmedInv
<1> QED BY <1>4, <1>5, <1>6, <1>7, <1>8, <1>9 DEF IInv

LEMMA ArrivalKeeps ==
  ASSUME IInv, HandleArrives
  PROVE  IInv'
<1>1. /\ handles' \subseteq handles
      /\ UNCHANGED <<entry, lru, validating, command, events, notified, processed, remote, called>>
  BY DEF HandleArrives, tableVars, commandVars, remoteVars
<1>2. TypeOK' /\ HandlesInv'
  BY <1>1 DEF IInv, TypeOK, HandlesInv, HandleFinds
<1>3. LruInv' /\ ValidatedInv' /\ TablesInv' /\ CommandsInv' /\ ConfirmedInv'
      /\ CommandsReadAsWritten'
  BY <1>1 DEF IInv, LruInv, ValidatedInv, Validated, InLast, TablesInv, CommandsInv, CommandFinds,
              ConfirmedInv, CommandsReadAsWritten
<1> QED BY <1>2, <1>3 DEF IInv

-----------------------------------------------------------------------------
(* The results.                                                            *)

THEOREM StringTableInvariant == Spec => []IInv
<1>1. ASSUME IInv, [Next]_vars
      PROVE  IInv'
  <2>1. ASSUME NEW tags \in Tags, SendRemoteCommand(tags) PROVE IInv'
    BY <1>1, <2>1, SendKeeps
  <2>2. CASE ValidateSendString
    BY <1>1, <2>2, ValidateKeeps
  <2>3. CASE PostRemoteCommand
    BY <1>1, <2>3, PostKeeps
  <2>4. ASSUME NEW string \in Strings, PackNetStringHandle(string) PROVE IInv'
    BY <1>1, <2>4, PackKeeps
  <2>5. CASE NotifyDelivered
    BY <1>1, <2>5, NotifyKeeps
  <2>6. CASE ProcessEvent
    BY <1>1, <2>6, ProcessKeeps
  <2>7. CASE HandleArrives
    BY <1>1, <2>7, ArrivalKeeps
  <2>8. CASE UNCHANGED vars
    BY <1>1, <2>8
       DEF vars, tableVars, commandVars, remoteVars, IInv, TypeOK, LruInv, ValidatedInv, Validated,
           InLast, TablesInv, CommandsInv, CommandFinds, ConfirmedInv, HandlesInv, HandleFinds,
           CommandsReadAsWritten
  <2> QED BY <1>1, <2>1, <2>2, <2>3, <2>4, <2>5, <2>6, <2>7, <2>8 DEF Next
<1> QED BY <1>1, InitCorrect, PTL DEF Spec

\* The variables keep their types: no index outside the table is used, and the
\* list holds every index.
THEOREM StringTypeCorrect == Spec => []TypeOK
<1>1. IInv => TypeOK
  BY DEF IInv
<1> QED BY <1>1, StringTableInvariant, PTL

\* A remote command is called with the strings it was sent with, however many
\* strings the sender has pushed out of its table since.
THEOREM CommandsRead == Spec => []CommandsReadAsWritten
<1>1. IInv => CommandsReadAsWritten
  BY DEF IInv
<1> QED BY <1>1, StringTableInvariant, PTL

\* The assertion of getNetSendId holds as long as a command has no more tags
\* than the table has entries.
THEOREM NetSendIdFound == Spec => []NetSendIdIsFound
<1>1. IInv => NetSendIdIsFound
  BY IdsAreFound DEF IInv, NetSendIdIsFound
<1> QED BY <1>1, StringTableInvariant, PTL

\* With no event under way the two ends have the same table.
THEOREM TablesAgreeAlways == Spec => []TablesAgree
<1>1. IInv => TablesAgree
  <2> SUFFICES ASSUME IInv, processed = Len(events), NEW i \in Indices
               PROVE  remote[i] = entry[i].string
    BY DEF TablesAgree
  <2>1. Reads(events, processed, remote, i, entry[i].string, Len(events)) /\ Len(events) \in Nat
    BY EventCounts DEF IInv, TablesInv
  <2> QED BY <2>1 DEF Reads
<1> QED BY <1>1, StringTableInvariant, PTL

\* A handle that is read gives the string it was written for, or the event that
\* brings this string back to the index was posted before the handle was written.
THEOREM HandlesCorrect == Spec => []HandlesReadOrAwait
<1>1. IInv => HandlesReadOrAwait
  <2> SUFFICES ASSUME IInv, NEW h \in handles, MayBeRead(h), Unpacked(h) # h.string
               PROVE  /\ \E k \in 1 .. processed : Maps(k, h.index, h.string)
                      /\ \E k \in processed + 1 .. h.before : Maps(k, h.index, h.string)
    BY DEF HandlesReadOrAwait
  <2>1. TypeOK /\ HandleFinds(h)
    BY DEF IInv, HandlesInv
  <2>2. h.index # InvalidEntryId /\ remote[h.index] # h.string /\ processed =< h.before
    BY DEF Unpacked, MayBeRead
  <2>3. /\ \E k \in 1 .. processed : events[k] = StringEvent(h.index, h.string)
        /\ \E k \in processed + 1 .. h.before : events[k] = StringEvent(h.index, h.string)
    BY <2>1, <2>2 DEF HandleFinds, Reads
  <2>4. DOMAIN events = 1 .. Len(events) /\ h.before =< Len(events)
    BY <2>1, EventCounts, LenProperties DEF HandleFinds
  <2>5. h.before \in Nat
    BY <2>1 DEF TypeOK, Handles
  <2> QED BY <2>1, <2>3, <2>4, <2>5, EventCounts DEF Maps
<1> QED BY <1>1, StringTableInvariant, PTL
=============================================================================
