------------------------------ MODULE NetEvent ------------------------------
(***************************************************************************)
(* The event manager of NetConnection (network/netEvent.cc) in one         *)
(* direction: events posted at the sending end travel in the packets of    *)
(* the notify window (PacketWindow) and are processed by the receiving     *)
(* end.                                                                    *)
(*                                                                         *)
(* Lists of notes are sequences.  Payloads are left out; how many events   *)
(* fit into a packet is any number up to MaxFit, but at least one: events  *)
(* are written first and isFull() is asked before an event, not after it.  *)
(***************************************************************************)
EXTENDS Integers, Sequences, SequencesExt, FiniteSetsExt

CONSTANTS EventSeqMod,  \* 128: event sequence numbers travel in 7 bits
          EventWindow,  \* 126: how far an event may be ahead of the acks
          SendWindow,   \* 30: windowFull()
          MaxFit,       \* bound: events in one packet
          MaxPosted     \* bound: events posted of each kind

Kinds == {"ordered", "guaranteed", "unguaranteed"}      \* mGuaranteeType

ASSUME EventConstants ==
  /\ {EventSeqMod, EventWindow, SendWindow, MaxFit} \subseteq Nat \ {0}
  /\ EventWindow =< EventSeqMod
  /\ MaxPosted \in [Kinds -> Nat]

VARIABLES
  unorderedQueue,       \* mUnorderedSendEventQueueHead...
  sendQueue,            \* mSendEventQueueHead...
  notifyList,           \* mNotifyEventList: acked before an earlier event was
  lastAcked,            \* mLastAckedEventSeq
  posted,               \* events posted of each kind; mNextSendEventSeq
  window, contents,     \* the packets not yet notified, and their eventLists
  nextRecv,             \* mNextRecvEventSeq
  waiting,              \* mWaitSeqEvents
  removed,              \* the sending end's connection has been removed
  processed,            \* history: the ordered events processed
  times,                \* history: how often each unordered event was
  told                  \* history: notifyDelivered's madeit, per event

senderVars   == <<unorderedQueue, sendQueue, notifyList, lastAcked, posted, told>>
receiverVars == <<nextRecv, waiting, processed, times>>
vars == <<senderVars, window, contents, receiverVars, removed>>

Net == INSTANCE PacketWindow
Ordered == INSTANCE EventOrder WITH posted <- posted["ordered"], processed <- nextRecv,
                                    notified <- lastAcked + 1

InvalidSendEventSeq == -1

Events == [kind : Kinds, num : Nat]
Possible == UNION {[kind : {k}, num : 0 .. MaxPosted[k] - 1] : k \in Kinds}
NotesOf(events) == [event : events, seq : Nat \cup {InvalidSendEventSeq}]
Notes == NotesOf(Events)

Posted == {e \in Possible : e.num < posted[e.kind]}

TypeOK ==
  /\ {unorderedQueue, sendQueue, notifyList, waiting} \subseteq Seq(Notes)
  /\ lastAcked \in Nat \cup {InvalidSendEventSeq}
  /\ posted \in [Kinds -> Nat]
  /\ window \in Seq(Net!Fates)
  /\ contents \in Seq(Seq(Notes)) /\ Len(contents) = Len(window)
  /\ nextRecv \in Nat
  /\ removed \in BOOLEAN
  /\ processed \in Seq(Events)
  /\ times \in [Possible -> Nat]
  /\ told \in [Possible -> Seq(BOOLEAN)]

Init ==
  /\ unorderedQueue = <<>> /\ sendQueue = <<>> /\ notifyList = <<>>
  /\ lastAcked = InvalidSendEventSeq
  /\ posted = [k \in Kinds |-> 0]
  /\ Net!Init /\ contents = <<>>
  /\ nextRecv = 0
  /\ waiting = <<>>
  /\ removed = FALSE
  /\ processed = <<>>
  /\ times = [e \in Possible |-> 0]
  /\ told = [e \in Possible |-> <<>>]

-----------------------------------------------------------------------------
(* Lists of notes.                                                         *)

\* Where a note goes in a list sorted by sequence number, looking from the
\* place `from' on: behind the last smaller one.
PlaceFor(list, from, note) ==
  Min({i \in from .. Len(list) : i = Len(list) \/ list[i + 1].seq >= note.seq})

\* (mutant) Every note is looked for from the end.
MergeAtEnd(list, notes) == list \o notes

\* A note goes into a list; the search for its place starts behind `at'.
InsertBySeq(acc, note) ==
  LET at == PlaceFor(acc.list, acc.at, note)
  IN  [list |-> InsertAt(acc.list, at + 1, note), at |-> at + 1]

\* The notes of one packet go into a list in one pass: the search for each
\* place goes on behind the note inserted before.
MergeBySeq(list, notes) ==
  LET merge[n \in 0 .. Len(notes)] ==
        IF n = 0 THEN [list |-> list, at |-> 0]
                 ELSE InsertBySeq(merge[n - 1], notes[n])
  IN  merge[Len(notes)].list

\* The notes of one kind, in their order.
OfKind(notes, kind) ==
  LET pick[n \in 0 .. Len(notes)] ==
        IF n = 0 THEN <<>>
        ELSE IF notes[n].event.kind = kind THEN Append(pick[n - 1], notes[n])
        ELSE pick[n - 1]
  IN  pick[Len(notes)]

\* How many notes at the head of the list carry the numbers next, next + 1...
RunLength(list, next) ==
  Max({n \in 0 .. Len(list) : \A i \in 1 .. n : list[i].seq = next + i - 1})

\* How many of the notes carry the event.
Count(notes, e) == Cardinality({i \in DOMAIN notes : notes[i].event = e})

\* madeit is reported for the events of those kinds among the notes.
NotifyDelivered(history, notes, kinds, madeit) ==
  [e \in Possible |->
     IF e.kind \in kinds THEN history[e] \o [n \in 1 .. Count(notes, e) |-> madeit]
                         ELSE history[e]]

-----------------------------------------------------------------------------
(* The sending end.                                                        *)

PostNetEvent(kind) ==
  LET event == [kind |-> kind, num |-> posted[kind]]
      note  == [event |-> event,
                seq |-> IF kind = "ordered" THEN posted[kind] ELSE InvalidSendEventSeq]
  IN  /\ ~removed
      /\ posted[kind] < MaxPosted[kind]
      /\ posted' = [posted EXCEPT ![kind] = @ + 1]
      /\ IF kind = "ordered"
           THEN sendQueue' = Append(sendQueue, note) /\ UNCHANGED unorderedQueue
           ELSE unorderedQueue' = Append(unorderedQueue, note) /\ UNCHANGED sendQueue
      /\ UNCHANGED <<notifyList, lastAcked, told, window, contents, receiverVars,
                     removed>>

\* (mutant) No event window.
InEventWindowAlways(note) == TRUE

InEventWindow(note) == note.seq =< lastAcked + EventWindow

\* eventWritePacket: unordered events until the packet is full, then ordered
\* ones until it is full or the event window is.
EventWritePacket(fit) ==
  LET nUnordered == Min({fit, Len(unorderedQueue)})
      sendable   == Max({n \in 0 .. Len(sendQueue) :
                           \A i \in 1 .. n : InEventWindow(sendQueue[i])})
      nOrdered   == Min({fit - nUnordered, sendable})
  IN  /\ contents' = Append(contents, SubSeq(unorderedQueue, 1, nUnordered)
                                        \o SubSeq(sendQueue, 1, nOrdered))
      /\ unorderedQueue' = SubSeq(unorderedQueue, nUnordered + 1, Len(unorderedQueue))
      /\ sendQueue' = SubSeq(sendQueue, nOrdered + 1, Len(sendQueue))

SendPacket == /\ ~removed
              /\ Net!Send
              /\ \E fit \in 1 .. MaxFit : EventWritePacket(fit)
              /\ UNCHANGED <<notifyList, lastAcked, posted, told, receiverVars, removed>>

\* (mutant) An ordered event is notified as soon as its packet is.
EventPacketReceivedAtOnce(notes) ==
  /\ lastAcked' = lastAcked + Len(OfKind(notes, "ordered"))
  /\ told' = NotifyDelivered(told, notes, Kinds, TRUE)
  /\ UNCHANGED <<unorderedQueue, sendQueue, notifyList>>

\* eventPacketReceived: ordered events are notified in order.
EventPacketReceived(notes) ==
  LET merged == MergeBySeq(notifyList, OfKind(notes, "ordered"))
      run    == RunLength(merged, lastAcked + 1)
  IN  /\ told' = NotifyDelivered(
                   NotifyDelivered(told, notes, {"guaranteed", "unguaranteed"}, TRUE),
                   SubSeq(merged, 1, run), Kinds, TRUE)
      /\ lastAcked' = lastAcked + run
      /\ notifyList' = SubSeq(merged, run + 1, Len(merged))
      /\ UNCHANGED <<unorderedQueue, sendQueue>>

\* (mutant) The guaranteed events of a dropped packet are not sent again.
EventPacketDroppedOrderedOnly(notes) ==
  /\ sendQueue' = MergeBySeq(sendQueue, OfKind(notes, "ordered"))
  /\ told' = NotifyDelivered(told, notes, {"unguaranteed"}, FALSE)
  /\ UNCHANGED <<unorderedQueue, notifyList, lastAcked>>

\* eventPacketDropped: guaranteed events go back to the queues, each to the
\* head of the unordered one or to its place in the ordered one.
EventPacketDropped(notes) ==
  /\ sendQueue' = MergeBySeq(sendQueue, OfKind(notes, "ordered"))
  /\ unorderedQueue' = Reverse(OfKind(notes, "guaranteed")) \o unorderedQueue
  /\ told' = NotifyDelivered(told, notes, {"unguaranteed"}, FALSE)
  /\ UNCHANGED <<notifyList, lastAcked>>

\* The oldest packet's notify.  processRawPacket makes these calls one after
\* the other; here other steps may come between two of them.
HandleNotify ==
  /\ ~removed
  /\ window # <<>>
  /\ Net!Notify(1)
  /\ contents' = Tail(contents)
  /\ IF window[1] = "handled" THEN EventPacketReceived(contents[1])
                              ELSE EventPacketDropped(contents[1])
  /\ UNCHANGED <<posted, receiverVars, removed>>

\* NetConnection::onRemove: the packets not yet notified are notified dropped,
\* then eventOnRemove reports every event left as delivered.  What is on its
\* way may still arrive.
OnRemove ==
  LET places  == UNION {{i} \X DOMAIN contents[i] : i \in DOMAIN contents}
      flying  == [place \in places |-> contents[place[1]][place[2]]]
      dropped == NotifyDelivered(told, flying, {"unguaranteed"}, FALSE)
      kept    == NotifyDelivered(dropped, flying, {"guaranteed", "ordered"}, TRUE)
  IN  /\ ~removed
      /\ removed' = TRUE
      /\ told' = NotifyDelivered(kept, notifyList \o unorderedQueue \o sendQueue, Kinds, TRUE)
      /\ notifyList' = <<>> /\ unorderedQueue' = <<>> /\ sendQueue' = <<>>
      /\ UNCHANGED <<lastAcked, posted, window, contents, receiverVars>>

-----------------------------------------------------------------------------
(* The receiving end.                                                      *)

\* (mutant) The 7 bits are extended with the high bits of the next number
\* expected, without a carry.
DecodeSeqNoCarry(bits, next) == (next - (next % EventSeqMod)) + bits

\* The number that has the 7 bits received and is the first one from the next
\* number expected on.
DecodeSeq(bits, next) ==
  LET seq == (next - (next % EventSeqMod)) + bits
  IN  IF seq < next THEN seq + EventSeqMod ELSE seq

\* eventReadPacket: unordered events are processed as they are read; ordered
\* ones are put in their places and then processed as far as none is missing.
\* (A number that follows the one before it is sent as one bit: it is read as
\* the same 7 bits.)
EventReadPacket(notes) ==
  LET read   == [i \in DOMAIN OfKind(notes, "ordered") |->
                   LET note == OfKind(notes, "ordered")[i]
                   IN  [note EXCEPT !.seq = DecodeSeq(note.seq % EventSeqMod, nextRecv)]]
      merged == MergeBySeq(waiting, read)
      run    == RunLength(merged, nextRecv)
  IN  /\ times' = [e \in Possible |->
                     times[e] + Count(notes, e)]
      /\ processed' = processed \o [i \in 1 .. run |-> merged[i].event]
      /\ nextRecv' = nextRecv + run
      /\ waiting' = SubSeq(merged, run + 1, Len(merged))

HandlePacket(i) == /\ Net!Handle(i)
                   /\ EventReadPacket(contents[i])
                   /\ UNCHANGED <<senderVars, contents, removed>>

-----------------------------------------------------------------------------
Next == \/ \E kind \in Kinds : PostNetEvent(kind)
        \/ SendPacket
        \/ HandleNotify
        \/ \E i \in DOMAIN window : HandlePacket(i)
        \/ OnRemove

Spec == Init /\ [][Next]_vars

\* Packets are sent at every tick of the main loop while the window is not
\* full, and acks come back.  The network loses no event for ever: of the
\* packets that carry it (and of the last packets of a window) some arrive.
\* (Each step of the window is a step of one action of Next.)
Arrives(i) == i \in DOMAIN window /\ Net!Handle(i)
Carries(i, e) == \E j \in DOMAIN contents[i] : contents[i][j].event = e

Fairness ==
  /\ WF_window(~removed /\ Net!Send)
  /\ WF_window(~removed /\ window # <<>> /\ Net!Notify(1))
  /\ SF_window(Arrives(Len(window)))
  /\ \A e \in Possible : SF_window(\E i \in DOMAIN contents : Carries(i, e) /\ Arrives(i))

FairSpec == Spec /\ Fairness

-----------------------------------------------------------------------------
(* Properties.                                                             *)

\* An ordered event read ahead of its turn has kept its number, so its turn
\* comes: nothing in the list is left behind.
WaitingIsAhead ==
  \A i \in DOMAIN waiting : /\ waiting[i].seq = waiting[i].event.num
                            /\ waiting[i].seq > nextRecv

\* What lies in the lists of both ends is what their next steps take it for.
QueuesSound == TypeOK /\ WaitingIsAhead

\* The ordered events are an EventOrder: processed in the order of posting, and
\* the acks come in order too, never before the other end has processed the
\* event.
OrderedDelivery == Ordered!Spec

WasProcessed(e) == IF e.kind = "ordered" THEN e.num < nextRecv ELSE times[e] > 0

\* An event reported delivered was processed before, one reported not
\* delivered never is, and only unguaranteed events may be reported so; as
\* long as the connection stays.
NotifiesAreTruthful ==
  ~removed => \A e \in Posted : \A madeit \in {told[e][i] : i \in DOMAIN told[e]} :
                /\ madeit <=> WasProcessed(e)
                /\ madeit \/ e.kind = "unguaranteed"

\* The ordered events processed are the first ones posted, none left out or
\* taken for another: 7 bits are enough, whatever was lost, resent and
\* overtaken.  No event is processed or notified twice, and by the time its
\* connection is gone each has been notified: no note is leaked or freed twice.
OncePerEvent ==
  /\ processed = [i \in 1 .. nextRecv |-> [kind |-> "ordered", num |-> i - 1]]
  /\ \A e \in Possible : times[e] =< 1
  /\ \A e \in Posted : Len(told[e]) =< 1 /\ (removed => Len(told[e]) = 1)

\* An event posted with a guarantee is processed, unless its connection goes.
GuaranteedIsProcessed ==
  \A k \in {"ordered", "guaranteed"} : \A n \in 0 .. MaxPosted[k] - 1 :
    posted[k] > n ~> IF k = "ordered" THEN nextRecv > n \/ removed
                     ELSE times[[kind |-> k, num |-> n]] > 0 \/ removed

\* Every event posted is notified in the end.
EveryEventIsNotified ==
  \A k \in Kinds : \A n \in 0 .. MaxPosted[k] - 1 :
    posted[k] > n ~> told[[kind |-> k, num |-> n]] # <<>>
=============================================================================
