# Torque2D in TLA+

A verification development of the Torque2D engine (`src/engine/source`): TLA+
modules of the parts where several actors, lost messages or long sequences of
calls decide whether the code is right, the TLC runs that check them on small
instances, and theorems checked by TLAPS for every value of the constants.

The engine is mostly a single threaded simulation with a script interpreter and
a renderer. Its distributed part is the network layer (`network/`): two
processes that keep a view of each other over UDP. That is the core of this
development. Beside it stand two parts of the simulation where scripts call back
into the code that called them: the life of objects (`sim/`) and the module
manager (`module/`). All source paths below are relative to `src/engine/source`.

## 1. The system

### 1.1 The network layer

    server's objects                                   client's ghosts
    NetObject: setMaskBits, scope flags                mLocalGhosts
         |                                                  ^
    netGhost.cc ghostWritePacket      netEvent.cc      ghostReadPacket
         |        which objects, which bits  |  events      |
         +------------ writePacket ----------+          readPacket
                           |                                |
    netConnection.cc  checkPacketSend                  handlePacket
                      handleNotify <--- outcome             |
                           |                                |
    connectionProtocol.cc  buildSendPacketHeader       processRawPacket
                           \________  UDP  ________________/

    netInterface.cc: challenge, connect, accept, reject, disconnect, time outs;
    it makes the NetConnections on which all of the above works.

| Part | State it keeps | Operations | What is hard |
|---|---|---|---|
| **ConnectionProtocol** (`network/connectionProtocol.cc`, `checkPacketSend` and `handleNotify` of `netConnection.cc`) | last sequence sent, received and acked, a 32 bit mask of the packets received, what the other end is known to know, a queue of notes | build a header, send data / ping / ack, process a packet | loss, duplication, reordering; 9 bit numbers that wrap; an ack field of 0 to 4 bytes whose length both ends must derive alike; acks of acks |
| **NetEvent** (`network/netEvent.cc`) | send queues (ordered, unordered), events in each packet in flight, events acked out of order, the receiver's waiting list | post, write, packet received, packet dropped, read and process, removal | resending, 7 bit numbers that wrap, order, the window of 126 |
| **NetGhost** (`network/netGhost.cc`, `network/netObject.cc`) | for each client and object a ghost info (mask, flags, place in `mGhostArray`), dirty bits of the objects, the refs in each packet, the client's table of ghosts | change state, scope in / out / always, delete, write, received, dropped, read | the server must guess what the client has; indices are reused; dropped updates are merged with later ones |
| **NetInterface** (`network/netInterface.cc`, `network/gameConnection.cc`) | the client's pending connection, the server's address table, the random data of the process | challenge, request, accept, reject, disconnect, retry, time out | repeated and late requests, restarts, sessions of the same address |
| **Ghosting sessions** (`netGhost.cc` 729-996) | ghosting sequence, ghost-always set, the events that carry its objects, the client's list of objects waiting to be registered | activate, reset, change of the ghost-always set, deletion, messages | races the events still in flight; a stale answer must not start a new session |
| **File download** (`network/netDownload.cc`) | list of missing files, the file under way at either end, chunks in transit | request, size, chunk, notify, refuse | an object that lacks a file is retried after each download while others queue up behind it |
| **String table** (`network/connectionStringTable.*`, `RemoteCommandEvent.*`) | entries in order of use with confirmed flags, the other end's copy, a command under construction | check, validate, post, pack a handle, confirm, map | entries are reused while references to them are in flight, on two channels |
| rates (`netConnection.cc`) | present and maximal rates, "changed" flags, ping times | check, write, read, notify | rates lost and overtaken; ping time outs |

The engine calls the network from its main loop, so a received packet is
processed to the end before anything else happens in that process: one step of
a model is one such call. Interleavings are those between the two processes and
the network.

What makes each correct:

* protocol: what a sender is told of a packet is what happened to it; packets
  are handled in order and at most once; a new packet is never refused; the
  assertions on the ack bytes and on the notify queue hold;
* events: guaranteed events are processed once, ordered ones in order; each
  event is notified once, truthfully, also when the connection goes;
* ghosts: the client reads a packet the way the server wrote it; no change is
  forgotten; an index is reused only when the client has given it up; a ghost
  whose object has gone goes too;
* handshake: no record of an unchallenged client, no session replaced by a
  repeated packet, every attempt ends, a new attempt gets a new session;
* sessions: when normal ghosts start, both ends have the same ghosts, whatever
  an earlier session left under way; every session started gets there; files
  come whole;
* strings: an index means the same to the one who wrote it and the one who reads
  it.

### 1.2 The rest of the engine

| Part | Why it is or is not a subject |
|---|---|
| **SimObject, sets, groups, pointers** (`sim/simObject.cc`, `simSet.cc`) | notes between objects and lists of members, taken apart in a deletion in the middle of which scripts do all of it again |
| **Sim event queue** (`sim/simManager.cc`) | events that post, cancel and delete; order of events of the same time; events of objects that go. One thread: `TORQUE_MULTITHREAD` is not defined |
| **Module manager** (`module/`) | dependencies resolved when loading and again when unloading, load counts over groups and explicit loads, scripts that load and unload in turn, versions that come and go |
| Message dispatcher (`messaging/`) | queues, listeners, reference counts, listeners that go away; planned |
| Asset manager (`assets/`) | acquire and release counts, dependencies; planned |
| datablocks, components, undo, dictionaries | sequential containers of one thread |
| Console (compiler, interpreter) | a large sequential interpreter, out of reach of small models |
| 2d, GUI, graphics, sound, input, math | floating point, drawing, devices |
| Platform layer and ports | interfaces to operating systems; UDP and mutexes are modelled from their use |
| Streams, TAML, XML, JSON | encodings; a packet is the record its reader gets back |
| Third party code, templates, tools | not the program's own logic |

`PROJECT.json` lists every part with its sources, and the hazards of the code
each at its line.

## 2. The modules

    ConnectionProtocol --(TLC and TLAPS: EachWayNotifies)--> NotifyWindow
                                                                  |
                                              (TLAPS: WindowImplementsPackets)
                                                                  v
                                   NetEvent, NetGhost --INSTANCE--> PacketWindow
                                      |
             (TLC and TLAPS: OrderedDelivery)
                                      v
    StringTable --INSTANCE--> EventOrder
    GhostSession  (its messages are ordered events too)

    NetHandshake        SimObjects        ModuleLoading

`PacketWindow` is what the writers of packets see of the protocol: the fates of
the packets not yet notified, with the actions `Send`, `Handle(i)` and
`Notify(n)`. `NotifyWindow` is the same with the packets already notified kept,
so that the promise of the class comment of `connectionProtocol.h` can be
stated. The protocol with data packets implements `NotifyWindow` in each
direction; the models of events and ghosts are built on `PacketWindow`, not on
the protocol itself. Without that split a model of ghosts would carry all the
sequence numbers and masks. (With pings the protocol does *not* implement the
window: findings 1 and 2. The results on events and ghosts hold as far as
the window does.)

`EventOrder` is the same idea one layer up: what the users of guaranteed ordered
events see of the event manager, with the actions `Post`, `Process(n)` and
`Notify(n)`. `NetEvent` implements it (`OrderedDelivery`); `StringTable` takes its
channel from it, and `GhostSession` keeps each way as a sequence of messages.

### 2.1 ConnectionProtocol

Two ends of one session. The variables are the fields of the class, with
`ackMask` as the set of the positions of the 1 bits; `wire[p]` holds the packets
that may still arrive at `p`; `handled`, `acked` and `nacked` are histories.
Sequence numbers are full numbers in the state, as in the code. A packet holds
its numbers too, but the receiver reads only their low bits (`PacketSeq`,
`PacketAck`): the wrap of the 9 bits is `% SeqMod`.

| Action | Code |
|---|---|
| `CheckPacketSend(p)` | `NetConnection::checkPacketSend`: `windowFull`, `buildSendPacketHeader`, the note appended, the slot of `mLastSeqRecvdAtSend` |
| `SendPingPacket(p)` | `sendPingPacket` from `checkTimeout`; a ping has the number of the last data packet |
| `Receive(p)` | `processRawPacket`: the decoding of the numbers, the early returns (`Accepted`), the shift of the mask, the loop of notifies, the ack of a ping *before* `mLastSeqRecvd` is assigned, `handlePacket` unless the number is the last one |

The network loses (a packet never received), duplicates and, unless `InOrder`,
reorders; it delivers no packet so late that its number has wrapped around
(`Fresh`), an assumption without which no protocol with 9 bit numbers works.
The comparison of the low bit of the connect sequence, and the block of the
start of a demo recording, are left out.

### 2.2 NetEvent

One direction. Lists of notes are sequences; `contents[i]` is the list of events
of the i-th packet not yet notified. The notes of a packet are inserted into a
sorted list in one pass (`MergeBySeq`), the way `eventPacketReceived`,
`eventPacketDropped` and `eventReadPacket` do. How many events fit into a packet
is any number, at least one. The loops that build lists are recursive functions
inside LET, so that they can be proved about. `OnRemove` is
`NetConnection::onRemove` with `eventOnRemove`. The error returns of
`eventReadPacket` disconnect in the same call and are left out.

### 2.3 NetGhost

A server with a set of objects and one client, while ghosting is active. An
object's state is a version number per mask bit; a ghost carries the versions it
was sent. `mGhostArray` is abstracted to the range each ghost info is in (free,
zero mask, non zero mask), which is all the code reads from the order but for
`mGhostFreeIndex`'s choice: which free info is taken is any. `SendPacket` is the
whole of `ghostWritePacket`: leave the scope, query the scope (any set of
objects may be in view), detach, free, sort by priority, write as many as fit;
the `packUpdate` of an object may leave bits for later (`PackRetains`).
`HandleNotify` is `ghostPacketReceived` or `ghostPacketDropped`, `HandlePacket`
is `ghostReadPacket`.

### 2.4 NetHandshake

One client address and the server. Both ends may restart; the client connects
up to `MaxAttempts` times. Time is left out: a retry or a time out may be due
whenever `checkTimeouts` looks. `mConnectSendCount` is not initialised by the
code, so its start is any value (`Garbage`). `by` is a history: the attempt
whose request made the server's end.

### 2.5 GhostSession

A server whose game may activate and end ghosting at any time, delete objects
and change the ghost-always set, and one client. `toClient` and `toServer` are the
events on their way; each action processes one.

| Action | Code |
|---|---|
| `ActivateGhosting`, `ResetGhosting` | the same of `NetConnection`: scoping the ghost-always objects, one event each, a message; and detaching them |
| `SetScopeAlways`, `ClearScopeAlways`, `DeleteObject` | `NetObject::setScopeAlways`, `clearScopeAlways`, `onRemove` |
| `ReadyForNormalGhosts`, `EndGhosting`, `GhostAlwaysDone` | `handleConnectionMessage` |
| `GhostAlwaysObject` | `setGhostAlwaysObject` and `loadNextGhostAlwaysObject`, with its loop over the objects that wait |
| `FileDownloadRequest`, `SendNextDownloadRequest`, `FileDownloadSize`, `FileChunk`, `EmptyChunk`, `ChunkNotified` | `netDownload.cc`: the request events, `startSendingFile`, `sendFileChunk`, `chunkReceived` |

`ClientMessages` and `ServerMessages` are the events each way may hold; `Excluding`
is the loop that leaves members out of a list. A file is a number of chunks, at
least one. What is read after the end of a
list, an assertion that fails or a connection ended for an error stop the model
(`fault`); `overlapped` records that ghosting was ended during a download.

### 2.6 StringTable

One direction. The list of use is `lru`, an entry its string and flag. A remote
command is three kinds of step as in the code: all its tags are validated
(`ValidateSendString`, each a `checkString`), then numbered and posted. A handle of
a ghost update is packed with an index when the entry is confirmed
(`PackNetStringHandle`); packets are read in the order they are written in or
not at all, so a handle may be read as long as no later event has been
processed (`MayBeRead`).

### 2.7 SimObjects

The calls under way are a stack: `unregisterObject` at the `onRemove` script of an
object or at a child of a group, `advanceToTime`, an event. Scripts run at the
bottom, in an `onRemove` and in an event, and may do whatever reaches objects in
the manager: register, add to and remove from sets and groups, set a pointer,
post and cancel events, delete. `notes` is the list `mNotifyList` in the code's order;
`EndOnRemove` is the rest of `unregisterObject` after the script, with the notes
processed in that order. `TouchDying` says whether scripts add to, or delete
from, a group that is being removed. The loops (over members, notes, events, what a
group owns) are recursive functions, so that they can be reasoned about. A group may be
unregistered again by the group it is in while a script of one of its own children runs
(`Twice`): the program ends at an assertion when it comes to that child again, and
until then the group may be in two lists.

### 2.8 ModuleLoading

`ResolveOne` is `resolveModuleDependencies` and `ResolveAll` its loop over the
dependencies; `Resolved` ties them together, as a recursive function to the depth that
the check for cycles allows. `LoadModuleGroup` and `LoadModuleExplicit` resolve,
check versions and push a call; `LoadNext`, `EndScript` and `EndCall` are its loop, with
the script of each module between two steps, in which further calls may begin.
`UnloadNext` likewise, from the last module to the first. `RegisterModule` and
`UnregisterModule` change the definitions known; `ClearDatabase` unloads all of it.
`hold` is a history: what each group or explicit load has counted.

## 3. What the runs check

The scaled down window (`SeqMod` 6, `RecvWindow` 3, `SendWindow` 2, `AckBits` 4,
`AckByte` 2, `MaxAckBytes` 2, `Slots` 2) keeps the relations between the
constants of the code (512, 31, 30, 32, 8, 4, 32), which are all that
`ProtocolConstants` asks for; the proofs hold for every such choice.

| Run | Bounds | What it shows |
|---|---|---|
| `protocol_data` | 6 data packets each way, no pings, reordering: three windows and one wrap | `AckedWasHandled`, `NackedNeverHandled`, `NewerIsAccepted`; each direction implements `NotifyWindow` |
| `protocol_pings` | 5 data packets one way, 1 back, 2 pings or acks each: the client's numbers fill two windows while the server is never acked | `AckFieldFits`, `NotifyQueueIsWindow`, `HandledInOrder` (197,703 states) |
| `protocol_ping_ordered` | 2 and 1, order kept | **violation** of `NackedNeverHandled`: finding 1 |
| `event_delivery` | 4 ordered, 1 guaranteed and 1 unguaranteed event; event numbers modulo 3, an event window of 2 and 2 packets in flight, so that the numbers wrap and the window stops the sender | `QueuesSound`, `OncePerEvent`, `NotifiesAreTruthful`; `OrderedDelivery`; `GuaranteedIsProcessed` and `EveryEventIsNotified` (19,895 states) |
| `ghost_objects` | two objects, two indices, one bit, a change and a change of scope flags, two packets in flight, updates that leave bits for later | `GhostTableSound`, `ReadsAsWritten`, `StaleIsComing`, `KillIsComing` (2,319,087 states): an index is taken back and given to the other object while packets speak of it |
| `ghost_live` | two objects, two indices, priorities | `EventuallyInSync` (62,653 states) |
| `session_loading` | two sessions, two ghost-always objects, three files (one missing at the server), chunks one at a time, the longest file of two | `SaveListSound`, `GhostsInStep`, `DownloadsAreSound`, `SessionStarts` (139,323 states): a session ends at any moment of the loading of the one before |
| `handshake_sessions` | three attempts, one restart of the server, one retry | `OnlyChallengedClients`, `RepeatedRequestKeepsConnection`, `EveryAttemptEnds` |
| `handshake_again` | the same | **violation** of `NewAttemptNewConnection`: finding 3 |
| `shared_strings` | 3 strings over 2 entries, commands of up to 2 tags (as many as there are entries), 7 events | `CommandsReadAsWritten`, `NetSendIdIsFound`, `TablesAgree`, `HandlesReadOrAwait` (3,539,001 states): a string leaves the table and comes back while handles are in flight |
| `sim_lifecycle` | two groups that may be nested, a set, a pointer, two events; two deletions deep in an event | `GroupsSound`, `NothingDangles`, `NotesArePaired`, `EventsInOrder` (389,234 states) |
| `module_groups` | two groups, five definitions of four modules, dependencies with and without a version, two explicit loads, a load within a load | `LoadedIsCounted`, `CountsAreHolds`, `DependenciesLoaded` (the order of unloading: finding 4), `ClearGoesOn` (131,586 states) |

Every property of a passing run has a mutant in `PROJECT.json`: an operator next
to the one it replaces, marked `(mutant)`, with a plausible mistake of that code
under which the run fails.

The type invariants of `NetEvent` and `NetGhost` also state that the lists of
refs stay in step with the window (`packetReceived` and `packetDropped` pop both).
Some properties are conjunctions of named parts: `QueuesSound` (`TypeOK`,
`WaitingIsAhead`), `GhostTableSound` (`TypeOK`, `GhostArrayValid`, `FreeIndexUnused`,
`WrittenObjectsExist`), `SaveListSound` (`TypeOK`, `SaveListLoads`), `GroupsSound` (`TypeOK`,
`OneGroup`, `ChildrenAreRemoved`).

Some properties have a condition, each on what the code does not survive:
`DependenciesLoaded` and `CountsAreHolds` speak of the time until `clearDatabase` (finding
5), `DownloadsAreSound` speaks of sessions not ended during a download, `ClearGoesOn` of
databases to which nothing came while modules were loaded, and `sim_lifecycle`
has `TouchDying = FALSE` (section 4, last paragraph).

### Fairness

* `NetEvent`, `NetGhost`: the main loop sends at every tick while the window is
  not full (`WF` of `Net!Send`) and acks come back (`WF` of `Net!Notify(1)`);
  the network is assumed to deliver some of the packets that are sent again and
  again (`SF` of the arrival of the last packet of a window and of a packet that
  carries a given event or ghost). The conditions are on the variables of the
  window only: whatever the content of a packet, it is one step of one action.
  Posting, changing objects, removal have no fairness.
* `NetGhost` also: `collapseDirtyList` is called at every tick.
* `GhostSession`: every message is processed and every chunk notified in the end
  (`WF`), which is what `NetEvent` shows of guaranteed events
  (`GuaranteedIsProcessed`, `EveryEventIsNotified`). The game's calls have none.
* `NetHandshake`: `checkTimeouts` is called at every turn of the main loop.
  Nothing else is certain: the network may lose everything.

## 4. Findings

1. **A ping is acked with the wrong mask.** `processRawPacket` shifts `mAckMask`
   for a ping (`connectionProtocol.cc:190`) and sends the ack (line 230) before it
   assigns `mLastSeqRecvd` (line 237). When the data packets sent just before the
   ping were lost, the ack pairs the new mask with the old number: packets that
   were handled are reported dropped, and their guaranteed events sent twice.
2. **A ping that overtakes a data packet.** It carries that packet's number; the
   packet is then acked in the mask and never handled. (No run of its own:
   `protocol_ping_ordered` with `InOrder = FALSE` and the property
   `AckedWasHandled`.)
3. **Every connection has the sequence 0.** `startConnection` sets the
   `mConnectSequence` of `ConnectionProtocol`, the handshake reads the field of
   the same name of `NetConnection`. A client that connects again while the
   server still has the old connection is accepted by the old one. With the
   number set as meant the property holds in the same model.
4. **A module is unloaded before what it depends on**, unlike the documentation's example.
   `unloadModuleGroup` and `unloadModuleExplicit` go from the last module resolved to
   the first (`moduleManager.cc:551`, `901`). `moduleManager.dox:245` describes the
   opposite: of `Game`, which depends on `GameCore`, it says that the count of `GameCore`
   is reduced, that it is unloaded at zero, and that the system "then proceeds to unload
   the "Game" module itself". The documentation contradicts itself, as line 209 says that a
   module depended on "is never unloaded whilst the module itself is loaded". The
   code does what line 209 says: `module_groups` checks it (`DependenciesLoaded`), and its
   mutant `UnloadInOrder` is the order of line 245. The claim of line 245, stated as an
   invariant (what a module depends on is gone when its destroy function runs, unless
   another group or explicit load holds it), is violated in the same instance by one
   explicit load of `y` and its unloading.
5. **`clearDatabase` unloads in the order of loading.** It unloads the first of the modules
   loaded explicitly until none is left (`moduleManager.cc:1739-1746`), so what a module
   depends on goes before the module, against line 209. `DependenciesLoaded` therefore
   speaks of the time until `clearDatabase`; without that condition it is violated by
   one explicit load of `y` and `clearDatabase`.

Findings 1 and 3 have a run that expects the violation. For 4 and 5 the run shows what the
code does, and the violations were found by the same instance with the invariant changed.

Without a run of their own; each is at its line in the hazards of `PROJECT.json`.

* Network: `mConnectSendCount` is never initialised (`netInterface.cc:450`), so an
  attempt may be given up after its first request. `clearMaskBits` called with
  several bits can leave a zero mask among the non zero ones (`netObject.cc:99`),
  which is why `ghost_objects` calls it with single bits. A removed connection
  reports events no packet ever carried as delivered (`netEvent.cc:73`), which is
  why `NotifiesAreTruthful` speaks of connections that stay. `setScopeAlways` on an
  object already ghosted leaves the flag off the ghost info
  (`ScopeAlwaysIsGhosted` of `NetGhost` is false), and on one set while the
  ghost-always objects are being sent it scopes nobody.
* Sessions: `EndGhosting` leaves the list of missing files and the request under way
  (`netGhost.cc:764`), after which a file can be saved under another's name; a
  file of zero bytes never arrives (`netDownload.cc:193`).
* Simulation: with `TouchDying = TRUE` an `onRemove` that adds a registered object to
  the group being removed has it freed by `~SimGroup` while it is registered
  (`simSet.cc:400`). Without it too, a group that is unregistered twice (section 2.7) can
  be in the lists of two groups; `OneGroup` first said that it never is, and the attempt
  to prove it showed a case with four groups, one within the other, which the instance
  of the run is too small for and a larger one has.
* Modules: a module queued without a version is replaced by the version a later
  one asks for and what the new version depends on is not resolved
  (`moduleManager.cc:2336`); a group one of whose modules a script has unloaded
  explicitly comes, when it is unloaded, to a module that is not loaded, and the message
  that says so reads the entry that was not found (`moduleManager.cc:568`), which is why
  the model's scripts unload only what they have loaded; a version registered while an older one is loaded
  makes the group's unloading fail, and `clearDatabase` repeats it for ever
  (`moduleManager.cc:1732`).

## 5. What is proved

Proofs are in modules of their own. All results hold for every value of the
constants allowed by the assumption named.

**`ConnectionProtocol_proofs`**, from `ProtocolConstants`.

* `TypeCorrect` and `NotifyQueueCorrect`: `Spec => []TypeOK` and
  `[]NotifyQueueIsWindow`, pings included. The invariant is
  `TypeInv == TypeOK /\ NotifyQueueIsWindow /\ AckAckBounded`: the queue is only
  known to be long enough for the loop of notifies because it is the window,
  and its type only then; `AckAckBounded` (what the other end is known to know
  is not more than was received) keeps the number of ack bytes a natural number.
* `AckedHandled` and `NackedUnhandled`: when no end sends pings (`DataOnly`),
  `[]AckedWasHandled` and `[]NackedNeverHandled`. That a notify is truthful
  rests on the numbers, masks and slots of both ends and on every packet in
  flight. `DataInv` states for each end: the windows of both
  directions enclose each other (`WindowInv`), the mask is the packets handled
  (`MaskInv`), what an end takes the other to know the other knows (`KnownInv`,
  `SlotInv`), a packet in flight tells the truth over as many bits as
  its receiver may still want (`WireInv`), and outcomes are right so far
  (`OutcomeInv`). The key lemmas are that a number is decoded as it was written
  (`DecodeFresh`) and that a bit cut off by the length of the ack field is one
  the receiver no longer asks for.
* `EachWayIsWindow`: with data packets only, `Spec => EachWayNotifies`. Each
  direction, seen through the numbers of its sender and the outcomes so far, takes
  only steps of `NotifyWindow` or stutters: a send adds a flying packet, a packet
  received is the one whose number is decoded, and the loop of notifies tells of
  the first ones, of each what happened to it. With `WindowImplementsPackets` it
  closes the chain from UDP to the window under `NetEvent` and `NetGhost`.

And from `ProtocolConstants` alone, pings, acks and reordering included:

* `AcksFit` (`[]AckFieldFits`), `NewerAccepted` (`[]NewerIsAccepted`) and
  `InOrderHandled` (`HandledInOrder`). Masks may lie here (findings 1 and 2), so
  the invariant `OrderInv` has none: the windows enclose each other, a packet in
  flight is within what its sender has sent and received, acks grow with the
  sequence numbers, and the acks still open fit into `AckBits`.

And of the window itself (`Window`), for every `SendWindow`:

* `WindowIsTruthful`: `Window!Spec => []Window!NotifiesAreTruthful`, with the
  invariant that no packet already notified is still flying.
* `WindowImplementsPackets`: `NotifyWindow` implements `PacketWindow` under the
  view `Unnotified` that forgets the packets already notified.

**`NetHandshake_proofs`**, from `HandshakeConstants`: `HandshakeTypeCorrect`,
`ServerOnlyChallenged` and `RepeatsAreHarmless`. The invariant adds that the
server has at most one connection of an address (`OneConnection`), which the
comparison of sequences needs.

**`StringTable_proofs`**, from `StringConstants`, for any number of strings,
entries and arguments.

* `StringTypeCorrect`, `CommandsRead`, `NetSendIdFound`, `TablesAgreeAlways` and
  `HandlesCorrect`: all five properties of `shared_strings`. The invariant `IInv` is
  built on one notion, `Reads(events, processed, remote, i, s, k)`: when the other
  end has processed the first `k` events it will find `s` at index `i`, because the
  last of these events for `i` brings `s`, or none does and `s` is there already.
  It says of each entry that its string will be read after the last event
  (`TablesInv`), of each command and handle under way that it will find its
  strings at its own place (`CommandsInv`, `HandlesInv`), that a confirmed string
  has been processed (`ConfirmedInv`), and that the tags validated so far are in
  the last places of the list (`ValidatedInv`), which needs the list to hold each
  index once (`LruInv`) and a command to have no more tags than the table has
  entries. Appending an event disturbs no earlier reading (`ReadsAppend`), and
  processing one moves it from the events into the table (`ReadsProcessString`,
  `ReadsProcessCommand`); each action preserves `IInv` by these and `PushBackKeeps`.

**`NetGhost_proofs`**, from `GhostConstants` and `NoneIsNoGhost` (the value that
stands for NULL is not a ghost), for any objects, indices, bits and windows.

* `TypeCorrect`, `FreeIndices` (`FreeIndexUnused`, `WrittenObjectsExist`), `TableSound`
  (`[]GhostTableSound`), `UpdatesAreReadAsWritten`, `NoChangeIsForgotten`
  (`[]StaleIsComing`) and `NoKillIsForgotten` (`[]KillIsComing`): every invariant of
  `ghost_objects`. The invariant tells the life of a ghost index (`Lifetime`): it is
  unused, unsent, being created, created or dying, and each of these fixes the
  flags of the info, what the client has, and which packets hold refs to the index
  and of which kind: while a ghost is created a single packet speaks of it,
  and behind a kill there is none. Since a packet that arrives leaves those behind
  it flying (`FlyingLast`), versions only grow from the client through the packets
  to the object (`Grows`), and a bit that is not yet at the client is dirty, in the
  mask, or in a packet not lost (`Coming`): `packetDropped` gives back exactly the
  bits that no later packet carries.
* `TableSound` alone assumes `OneBitMasks`: `clearMaskBits` is called with
  single bits. Without it the range of an info and its mask disagree (section 4).

**`NetEvent_proofs`**, from `EventConstants`, for any number of events, any size of
packets, and any window not wider than the numbers.

* `QueuesAreSound`, `OnceForEveryEvent`, `TruthfulNotifies`: the three invariants of
  `event_delivery`, and `OrderedIsDelivered`: `NetEvent` implements `EventOrder`. The
  invariant gives each event of a connection that stays its one place
  (`Place`): in a queue, in one packet, acked ahead of its turn, or notified;
  and what was told of it and how often it was read depend on the place only. The
  lists are in the order of the numbers (`SenderInv`), what waits at the receiver is
  ahead of `nextRecv` and within the window (`ReceiverInv`), so that a number cut to 7
  bits is decoded as it was written, and a connection removed holds nothing
  (`RemovedInv`).
* The lists are built by loops, and what a loop computes is proved without an
  induction theorem: were a claim about its first n rounds false for some n, it
  would be false for a least one (`LeastNumber`), which is neither 0 nor behind a
  round that keeps it. Thus `MergeBySeq` merges, the loop of acks takes the longest
  run of consecutive numbers, and the queue is written in its order.

**`GhostSession_proofs`**, from `SessionConstants`, for any objects, files, lengths of
files, number of indices and of sessions.

* `SessionInvariant` (`Spec => []IInv`), `ListsAreSound` (`[]SaveListSound`) and
  `BothEndsInStep` (`[]GhostsInStep`). The invariant reads the events on their way to
  the client as a history still to come, cut by the ends of ghosting in it:
  those before the first end belong to the session the client is in (`Now`),
  those behind the last one to the session of the server (`Latest`), and
  when there is none the two are the same (`Current`). `ChannelInv`: within a session
  each index is given once and its number comes last. `ListInv` and `ArrivalInv`: what
  waits and what arrives fits what the client has. `GivenInv`: the
  ghosts the server sent as events are exactly those that are coming, waiting or
  there. `NumberInv` and `AnswerInv`: a client that has the number of the server's
  session has all its objects, and so has the sender of an answer with that number
  that is still under way. `GhostsInStep` follows when the answer is
  processed; the number is what makes a stale answer harmless.
* `DownloadInvariant` (`Spec => []DownloadInv`) and `DownloadsCorrect`
  (`[]DownloadsAreSound`), on top of the first. The events of a download are mixed with
  those of ghosting; `AreDownloads` says which they are and in which order.
  `DownloadInv`: unless ghosting was ended during a download, one thing is under way
  at a time (`Stage`), and each stage says what is in both channels, the upload, the
  buffer and the list of missing files: nothing (`Idle`); a request whose names are the
  first of the list (`Asked`); a word for each file the server lacks, then that there
  is no other (`Refused`), or then the size of a file f that is the next of the list and
  the chunks sent so far (`Starting`); the chunks of f not yet read (`Receiving`). That
  a chunk belongs to the file at the head of the list is thus never a matter of
  luck, and the end of an answer finds an object waiting.
  The hypothesis of `DownloadsAreSound`, `~overlapped`, is needed: `EndGhosting` leaves
  the request under way (section 4).

**`SimObjects_proofs`**, from `ObjectConstants`, for any objects, sets, groups within
groups, pointers and bounds.

* `EventsKeepOrder` (`[]EventsInOrder`): an event is put behind those of its time, and
  cancelling takes a part of the queue in its order (`QueueInv`).
* `NotesStayPaired` (`[]NotesArePaired`). `NotesInv` counts notes: each pair of objects has
  as many delete notifies at one end as clear notifies at the other, only sets
  watch, each pointer has one note with what it points to and none elsewhere, and a
  member of a registered set has a note of it. Every change of the lists is one note
  less, one more, or both halves of one (`Less`, `More`, `Cut`); the three loops of
  `unregisterObject` are sequences of those, after which the object has no note left,
  neither of its own nor with others, so that `ClearNotify` finds both ends.
* `GroupsOwn` (`[]GroupsSound`) and `NothingIsLeft` (`[]NothingDangles`), when scripts leave
  alone what belongs to a dying group (`~TouchDying`, without which both are false:
  section 4). `CallState` says what holds of the calls under way: the object of a
  removal is registered; above a group that unregisters its children is the removal of
  the child it is at, made by no `deleteObject`; the later children are gone
  (`Swept`); an object that is removed is in no group that is dying; and it is removed
  again only from among its own children. Where a script may do anything, this is
  what makes the loop of `SimGroup::onRemove` end with all children gone. `LifeState`:
  what is in the list of a group was made, is gone from the manager if the group is,
  and is not freed before it; thus what `~SimGroup` frees (`Owned`, to any depth) was
  unregistered (`OwnedFacts`) and is in no group that stays. `OwnState` is `OneGroup` for
  all objects, with the child that its group unregisters, and the group removed
  twice, as the only exceptions. The rest of `NothingDangles` is `NotesInv`: an object has
  a note only while it is registered.

**`ModuleLoading_proofs`**, from `ModuleConstants`, for any definitions, dependencies,
groups and bounds.

* `LoadedCounted` (`[]LoadedIsCounted`). The invariant adds that counts are never negative,
  and of each call under way that what it has still to load or unload is registered and
  the module it is at is one of them (`FrameOf`): a script in the middle of a call may load
  and unload anything, but nothing is registered or removed under a call. That what is
  resolved is registered (`ResolvedIsQueue`), whatever fails or is ignored on the way, is
  shown for both loops of `Resolved`, over the entries of the queue and over the depth, as
  rounds of a loop (`LoopExists`); the loop of `IdsInOrder` is another.

* `CountsHeld` (`[]CountsAreHolds`) and `DependenciesKept` (`[]DependenciesLoaded`), from
  assumptions about the modules that the two theorems state, for the properties are not
  true of every set of modules:
  - `Enforce`: what is missing refuses the load (the default, `mEnforceDependencies(true)`).
    Otherwise a dependency registered later is given back without having been taken.
  - `VersionsAlike`: all versions of a module depend on the same modules. Otherwise a
    version that is queued and then replaced, because a later module asks for another one,
    leaves its dependencies in the queue; once it is unregistered, or if it comes
    later, unloading resolves others than loading did.
  - `AnyVersionFits`, for `DependenciesKept` only: no module asks for a version that another
    version of what it names is not. Otherwise the script of a module that comes first
    loads the other version explicitly, and the call under way takes that one.

  The engine's own modules come in one version each, and all dependencies ask for that.
  With an instance that breaks one of the three, TLC finds `DependenciesLoaded` violated,
  and with one that breaks `Enforce` or `VersionsAlike` also `CountsAreHolds`.

  The argument has two parts. What is resolved, when nothing fails, is exactly what can
  be reached from what is wanted (`Reachable`), each module once and behind all that it
  depends on (`InOrder`): `OneExtends`, `AllExtends` and `DepthExtends` carry this through
  the loops, with failure for a module that is already `resolving`, and
  `ResolvedReachable` concludes. It depends neither on the versions registered nor on the
  order of wanting, so resolving again gives the same ids in whatever state. The
  inductive invariant `HoldInv` (until `clearDatabase`) then says what each group or
  explicit load holds: all that is reachable if it is loaded and no call of it is under way,
  nothing if it is not loaded, and otherwise the ids up to where its call is
  (`FrameHolds`, `Done`); of the calls under way, which are of different holders, all
  but the innermost load. A module loaded in another version than was resolved, by a
  script in the middle of the call, is held by its id. `DependenciesKept` follows: what is
  loaded is held by someone, and what a holder holds is closed, also halfway
  (`HeldIsClosed`).

* `ClearIsNeverRefused` (`[]ClearGoesOn`, and more: `FirstCanGo` says the same at any time
  and also after definitions came while modules were loaded), for modules that come in
  one version each (`OneVersion`), under `AnyVersionFits` and `Enforce`. With a second version
  registered late, clearing can be refused for ever, which is why `ClearGoesOn` excludes
  that and the theorem assumes `OneVersion`. The argument is the other half of that about
  resolving: it *succeeds* (`ResolvedSucceeds`, through the same loops: `OneSucceeds`,
  `AllSucceeds`, `DepthSucceeds`) for a module that is `Placed`, that is, stands in some
  sequence of registered definitions that is `InOrder`. Such a sequence has no cycle and
  no gap, and bounds the depth; what is queued already, and what else is registered,
  does not matter. The sequence that a call under way is loading is one
  (`LoadsInOrder`), so what is loaded (`ListPlaced`) and what the loaded groups want
  (`GroupsPlaced`) stays `Placed`: registering only adds, and in the model a definition
  is unregistered only while another version of it stays, so never here (`ClearInvStep`).

**Only model-checked:**

* All liveness: fairness and `ENABLED` are out of the prover's reach.
* `DependenciesLoaded` and `ClearGoesOn` beyond the assumptions of the theorems above: in
  the instance of `module_groups`, `z` asks for the first version of `b`, and `b` has a
  second.

The library's induction theorems take an operator as their parameter, which no
installed prover instantiates: recursive *functions* are reasoned about by the least
counterexample, as above.

## 6. Not modelled

* Rates, ping times and the delay credit of `NetConnection`: how often packets are
  sent, which the models leave to fairness.
* Demo recordings, info packets and server queries, TCP and HTTP objects, the
  telnet console.
* Names, fields and datablocks of objects, reordering and `clear` of sets, merging,
  copying and synchronizing of modules, and destroy functions of modules that
  call the manager.
* The message dispatcher and the asset manager: planned below.
* The interpreter, streams and bit streams, TAML, rendering, physics, GUI, sound,
  platform code, third party libraries: sequential code, floating point or
  interfaces to devices. They are most of the engine's lines.

## 7. Plan

Done: the modules of section 2, with the proofs of section 5.

Next, modelling (at most twelve runs are kept, so that all of them are run
at every change; a new question shares a run or replaces the smaller of two):

1. `Dispatcher`: queues, listeners, references, listeners deleted in a dispatch.
2. `AssetManager`: acquire and release, dependencies, unloading.
3. `RateNegotiation`.

Next, proofs: those of the modules to come. (At most eight modules hold theorems, so that
all of them are checked at every change.)
