---------------------------- MODULE StringTable -----------------------------
(***************************************************************************)
(* The strings two connected ends share (network/connectionStringTable.cc) *)
(* in one direction: the sender keeps EntryCount strings, the least        *)
(* recently used of them makes room for a new one, and a NetStringEvent    *)
(* tells the other end what an index now means.  Remote commands name      *)
(* strings by index, and so do handles written straight into a packet, as  *)
(* a ghost's packUpdate does, once the string is confirmed.                *)
(*                                                                         *)
(* The events travel as EventOrder promises, which NetEvent implements.    *)
(* Packets are read in the order they are written in or not at all, so a   *)
(* handle is read before any event posted after it was written, or never.  *)
(* Strings are members of a set: the hash table is a search by string.     *)
(***************************************************************************)
EXTENDS Integers, Sequences, FiniteSets

CONSTANTS Strings,      \* the strings used
          NoString,     \* the handle of no string: an entry not yet used
          EntryCount,   \* 32
          MaxArgs,      \* 20: MaxRemoteCommandArgs
          MaxEvents,    \* bound: events posted
          MaxHandles    \* bound: handles in the packets under way

ASSUME StringConstants ==
  /\ EntryCount \in Nat \ {0} /\ MaxArgs \in 1 .. EntryCount
  /\ MaxEvents \in Nat /\ MaxHandles \in Nat
  /\ NoString \notin Strings

VARIABLES
  entry,        \* mEntryTable: string and receiveConfirmed of each index
  lru,          \* the list from mLRUHead to mLRUTail
  validating,   \* the tags of the remote command being made, not yet validated
  command,      \* all its tags; <<>> between commands
  events,       \* the events posted
  processed,    \* how many of them the other end has processed
  notified,     \* how many were notified as delivered
  remote,       \* mRemoteStringTable of the other end
  called,       \* history: the commands the other end has called
  handles       \* the handles in packets that may still arrive

tableVars   == <<entry, lru>>
commandVars == <<validating, command>>
remoteVars  == <<processed, remote, called>>
vars == <<tableVars, commandVars, events, notified, remoteVars, handles>>

Order == INSTANCE EventOrder WITH posted <- Len(events)

Indices == 0 .. EntryCount - 1
InvalidEntryId == EntryCount
Tags == UNION {[1 .. n -> Strings] : n \in 1 .. MaxArgs}

\* NetStringEvent(index, string) and RemoteCommandEvent: mTagv and the indices
\* it writes.
StringEvent(index, string) == [index |-> index, string |-> string]
CommandEvent(tags, ids)    == [tags |-> tags, ids |-> ids]
IsCommand(event) == "tags" \in DOMAIN event

Event == {StringEvent(index, string) : index \in Indices, string \in Strings} \cup
         UNION {{CommandEvent(tags, ids) : tags \in [1 .. n -> Strings], ids \in [1 .. n -> Indices]} :
                   n \in 1 .. MaxArgs}

Handles == [string : Strings, index : Indices \cup {InvalidEntryId}, before : Nat]

TypeOK ==
  /\ entry \in [Indices -> [string : Strings \cup {NoString}, receiveConfirmed : BOOLEAN]]
  /\ lru \in [1 .. EntryCount -> Indices] /\ Indices \subseteq {lru[n] : n \in DOMAIN lru}
  /\ validating \in Seq(Strings) /\ command \in Tags \cup {<<>>}
  /\ events \in Seq(Event)
  /\ notified \in 0 .. processed /\ processed \in 0 .. Len(events)
  /\ remote \in [Indices -> Strings \cup {NoString}]
  /\ called \subseteq [at : 1 .. processed, args : Seq(Strings \cup {NoString})]
  /\ handles \subseteq Handles

Init ==
  /\ entry = [i \in Indices |-> [string |-> NoString, receiveConfirmed |-> FALSE]]
  /\ lru = [n \in 1 .. EntryCount |-> n - 1]
  /\ validating = <<>> /\ command = <<>>
  /\ events = <<>> /\ notified = 0
  /\ processed = 0
  /\ remote = [i \in Indices |-> NoString]
  /\ called = {}
  /\ handles = {}

-----------------------------------------------------------------------------
(* The sender's table.                                                     *)

\* (mutant) The entry is linked in at the back and not unlinked.
PushBackTwice(index) == lru' = Append(lru, index)

PushBack(index) ==
  LET place == CHOOSE n \in DOMAIN lru : lru[n] = index
  IN  lru' = [n \in DOMAIN lru |-> IF n < place THEN lru[n]
                                  ELSE IF n < EntryCount THEN lru[n + 1] ELSE index]

IndexOf(string) == {i \in Indices : entry[i].string = string}

\* (mutant) A string found is not made the most recently used one.
CheckStringUnused(string) ==
  IF IndexOf(string) # {}
    THEN UNCHANGED <<tableVars, events>>
    ELSE LET index == Head(lru)
         IN  /\ PushBack(index)
             /\ entry' = [entry EXCEPT ![index] = [string |-> string, receiveConfirmed |-> FALSE]]
             /\ events' = Append(events, StringEvent(index, string))

\* (mutant) The entry taken for a new string stays at the front.
CheckStringFront(string) ==
  IF IndexOf(string) # {}
    THEN /\ \E index \in IndexOf(string) : PushBack(index)
         /\ UNCHANGED <<entry, events>>
    ELSE LET index == Head(lru)
         IN  /\ entry' = [entry EXCEPT ![index] = [string |-> string, receiveConfirmed |-> FALSE]]
             /\ events' = Append(events, StringEvent(index, string))
             /\ UNCHANGED lru

\* (mutant) A confirmation outlives its string.
CheckStringConfirmed(string) ==
  IF IndexOf(string) # {}
    THEN /\ \E index \in IndexOf(string) : PushBack(index)
         /\ UNCHANGED <<entry, events>>
    ELSE LET index == Head(lru)
         IN  /\ PushBack(index)
             /\ entry' = [entry EXCEPT ![index].string = string]
             /\ events' = Append(events, StringEvent(index, string))

\* (mutant) A string that has been posted before is not posted again.
CheckStringOnce(string) ==
  IF IndexOf(string) # {}
    THEN /\ \E index \in IndexOf(string) : PushBack(index)
         /\ UNCHANGED <<entry, events>>
    ELSE LET index == Head(lru)
         IN  /\ PushBack(index)
             /\ entry' = [entry EXCEPT ![index] = [string |-> string, receiveConfirmed |-> FALSE]]
             /\ events' = IF \E k \in DOMAIN events : events[k] = StringEvent(index, string)
                            THEN events ELSE Append(events, StringEvent(index, string))

\* checkString: a string in the table becomes the most recently used one; else
\* it takes the least recently used entry, and the other end is told.
CheckString(string) ==
  IF IndexOf(string) # {}
    THEN /\ \E index \in IndexOf(string) : PushBack(index)
         /\ UNCHANGED <<entry, events>>
    ELSE LET index == Head(lru)
         IN  /\ PushBack(index)
             /\ entry' = [entry EXCEPT ![index] = [string |-> string, receiveConfirmed |-> FALSE]]
             /\ events' = Append(events, StringEvent(index, string))

\* getNetSendId: in a release build a string that is not found gets index 0.
GetNetSendId(string) == IF IndexOf(string) = {} THEN 0 ELSE CHOOSE i \in IndexOf(string) : TRUE

\* sendRemoteCommand, one call after the other: it starts with its arguments
\* that are tags, validates each, then makes the event and posts it.  Until
\* then the sender does nothing else; the other end may.
SendRemoteCommand(tags) ==
  /\ command = <<>>
  /\ Len(events) + Len(tags) < MaxEvents
  /\ command' = tags /\ validating' = tags
  /\ UNCHANGED <<tableVars, events, notified, remoteVars, handles>>

ValidateSendString ==
  /\ validating # <<>>
  /\ CheckString(Head(validating))
  /\ validating' = Tail(validating)
  /\ UNCHANGED <<command, notified, remoteVars, handles>>

PostRemoteCommand ==
  /\ command # <<>> /\ validating = <<>>
  /\ events' = Append(events,
                 CommandEvent(command, [n \in DOMAIN command |-> GetNetSendId(command[n])]))
  /\ command' = <<>>
  /\ UNCHANGED <<tableVars, validating, notified, remoteVars, handles>>

\* packNetStringHandleU, for a ghost's packUpdate: the index of a string the
\* other end is known to have, else the string itself.
PackNetStringHandle(string) ==
  /\ command = <<>>
  /\ Len(events) < MaxEvents /\ Cardinality(handles) < MaxHandles
  /\ CheckString(string)
  /\ LET received == {i \in IndexOf(string) : entry[i].receiveConfirmed}
         index    == IF received = {} THEN InvalidEntryId ELSE CHOOSE i \in received : TRUE
     IN  handles' = handles \cup {[string |-> string, index |-> index, before |-> Len(events')]}
  /\ UNCHANGED <<commandVars, notified, remoteVars>>

\* notifyDelivered of the oldest event not notified: a NetStringEvent confirms
\* its string if the entry still, or again, holds it.
NotifyDelivered ==
  /\ command = <<>>
  /\ UNCHANGED <<lru, commandVars, events, remote, called, handles>>
  /\ Order!Notify(1)
  /\ LET event == events[notified']
     IN  entry' = IF ~IsCommand(event) /\ entry[event.index].string = event.string
                    THEN [entry EXCEPT ![event.index].receiveConfirmed = TRUE]
                    ELSE entry

-----------------------------------------------------------------------------
(* The other end.                                                          *)

\* The next event: mapString, or the command with its tags translated.
ProcessEvent ==
  /\ UNCHANGED <<tableVars, commandVars, events, handles>>
  /\ Order!Process(1)
  /\ LET event == events[processed']
     IN  IF IsCommand(event)
           THEN /\ called' = called \cup
                     {[at |-> processed', args |-> [n \in DOMAIN event.ids |-> remote[event.ids[n]]]]}
                /\ UNCHANGED remote
           ELSE /\ remote' = [remote EXCEPT ![event.index] = event.string]
                /\ UNCHANGED called

\* What unpackNetStringHandleU returns of a handle.
Unpacked(handle) ==
  IF handle.index = InvalidEntryId THEN handle.string ELSE remote[handle.index]

MayBeRead(handle) == processed =< handle.before

\* The packet of a handle is read or lost; what is read goes to the ghost.
HandleArrives ==
  \E handle \in handles :
    /\ handles' = handles \ {handle}
    /\ UNCHANGED <<tableVars, commandVars, events, notified, remoteVars>>

-----------------------------------------------------------------------------
Next == \/ \E tags \in Tags : SendRemoteCommand(tags)
        \/ ValidateSendString
        \/ PostRemoteCommand
        \/ \E string \in Strings : PackNetStringHandle(string)
        \/ NotifyDelivered
        \/ ProcessEvent
        \/ HandleArrives

Spec == Init /\ [][Next]_vars

-----------------------------------------------------------------------------
(* Properties.                                                             *)

Maps(k, index, string) == k \in DOMAIN events /\ events[k] = StringEvent(index, string)

\* Every command is called with the strings it was sent with: no index it
\* names was given to another string on the way.
CommandsReadAsWritten == \A call \in called : call.args = events[call.at].tags

\* The assertion of getNetSendId: validating the later arguments of a command
\* has not pushed an earlier one out of the table.
NetSendIdIsFound ==
  validating = <<>> => \A n \in DOMAIN command : IndexOf(command[n]) # {}

\* When all events are processed, both ends agree on every index.
TablesAgree == processed = Len(events) => \A i \in Indices : remote[i] = entry[i].string

\* A handle reads as it was written.  The exception is a string that has left
\* its entry and come back: the entry was confirmed by the event of its first
\* stay, and the one of its second stay is still on its way.
HandlesReadOrAwait ==
  \A handle \in handles : MayBeRead(handle) =>
    \/ Unpacked(handle) = handle.string
    \/ /\ \E k \in 1 .. processed : Maps(k, handle.index, handle.string)
       /\ \E k \in processed + 1 .. handle.before : Maps(k, handle.index, handle.string)
=============================================================================
