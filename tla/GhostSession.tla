---------------------------- MODULE GhostSession ----------------------------
(***************************************************************************)
(* How ghosting starts and ends on a connection (network/netGhost.cc) and  *)
(* the download of the files its first ghosts need (netDownload.cc).       *)
(*                                                                         *)
(* The server scopes the ghost-always objects and posts each of them as an *)
(* event; the client registers them one by one, downloads what they miss   *)
(* in between, and answers that it is ready for normal ghosts.  The game   *)
(* may end ghosting and start it again at any time.                        *)
(*                                                                         *)
(* All messages are ordered guaranteed events: each way is a sequence      *)
(* (NetEvent: OrderedDelivery, GuaranteedIsProcessed).  A file is a        *)
(* number of chunks; a chunk is the file it was read from and its place.   *)
(* Ghost updates are NetGhost's, GhostAlwaysStarting only calls a script.  *)
(***************************************************************************)
EXTENDS Integers, Sequences, SequencesExt, FiniteSetsExt

CONSTANTS Objects,      \* the server's ghostable objects
          Files,        \* files an object may need
          Needs,        \* Needs[o]: the files object o needs, in that order
          Held,         \* files the client has from the start
          Served,       \* files the server has
          Chunks,       \* Chunks[f]: the size of file f in chunks
          None,         \* NULL
          Placeholder,  \* the NetObject sent for an object that is gone
          MaxGhostCount,\* number of ghost indices
          InTransit,    \* 32: chunks sent before the first is notified
          MaxFileNames, \* 31: names in one request
          MaxSessions   \* bound: activations of ghosting

ASSUME SessionConstants ==
  /\ IsFiniteSet(Objects)
  /\ None \notin Objects \cup Files /\ None \notin [file : Files, at : Nat]
  /\ Placeholder \notin Objects \cup {None}
  /\ Needs \in [Objects -> Seq(Files)]
  /\ Held \cup Served \subseteq Files
  /\ Chunks \in [Files -> Nat \ {0}]
  /\ {InTransit, MaxFileNames, MaxSessions} \subseteq Nat \ {0}
  /\ MaxGhostCount \in Nat /\ MaxGhostCount >= Cardinality(Objects)

VARIABLES
  alive,                \* server: objects registered
  always,               \* server: the ghost always set, in its order
  scoping, ghosting,    \* server: mScoping, mGhosting
  sequence,             \* server: mGhostingSequence
  ghost,                \* server: the ghost infos
  upload,               \* server: mCurrentDownloadingFile, size and offset
  sessions,             \* server: activations so far
  toClient, toServer,   \* events posted and not yet processed
  notified,             \* chunks the server has got a notify for
  delivered,            \* chunks the client has processed
  clientSequence,       \* client: mGhostingSequence
  saveList,             \* client: mGhostAlwaysSaveList
  localGhost,           \* client: mLocalGhosts
  missing,              \* client: mMissingFileList
  buffer,               \* client: mCurrentFileBuffer, its size and offset
  disk,                 \* client: the chunks stored under each file name
  numDownloaded,        \* client: mNumDownloadedFiles
  overlapped,           \* history: ghosting ended during a download
  fault                 \* history: an error or a wild access has ended it

uploadVars == <<upload, notified>>
sessionVars == <<always, scoping, ghosting, sequence, ghost, sessions>>
downloadVars == <<missing, buffer, disk, numDownloaded>>
clientVars == <<delivered, clientSequence, saveList, localGhost, downloadVars, overlapped>>
serverVars == <<alive, sessionVars, uploadVars>>
vars == <<alive, sessionVars, uploadVars, toClient, toServer, clientVars, fault>>

Indices == 0 .. MaxGhostCount - 1
Chunk == [file : Files, at : Nat]
FullFile(f) == [k \in 1 .. Chunks[f] |-> [file |-> f, at |-> k]]

\* The ghost infos: "event" says the object went out as an event (ScopedEvent),
\* "new" that it is NotYetGhosted.  One without its object is to be killed.
FreeInfo == [obj |-> None, state |-> "free"]
Infos == [obj : Objects \cup {None}, state : {"free", "new", "event"}]

\* The events, to the client and to the server.
ClientMessages ==
  [type : {"GhostAlwaysObject"}, obj : Objects, index : Indices]
    \cup [type : {"GhostAlwaysDone"}, sequence : Nat]
    \cup [type : {"EndGhosting", "SendNextDownloadRequest"}]
    \cup [type : {"FileDownloadSize"}, size : Nat]
    \cup [type : {"FileChunk"}, chunk : Chunk \cup {None}]
ServerMessages ==
  [type : {"ReadyForNormalGhosts"}, sequence : Nat, after : Nat]
    \cup [type : {"FileDownloadRequest"}, names : Seq(Files), after : Nat]

\* What ends the save list: all the ghost-always objects have come.
ListEnd == [obj |-> None, index |-> 0]
Saves == [obj : Objects \cup {Placeholder}, index : Indices] \cup {ListEnd}

TypeOK ==
  /\ alive \subseteq Objects
  /\ always \in Seq(alive)
  /\ {scoping, ghosting, overlapped} \subseteq BOOLEAN /\ (ghosting => scoping)
  /\ {sequence, clientSequence, sessions, notified, delivered, numDownloaded}
       \subseteq Nat
  /\ ghost \in [Indices -> Infos]
  /\ upload \in [file : Files \cup {None}, size : Nat, offset : Nat]
  /\ notified =< delivered
  /\ toClient \in Seq(ClientMessages) /\ toServer \in Seq(ServerMessages)
  /\ saveList \in Seq(Saves)
  /\ localGhost \in [Indices -> Objects \cup {None, Placeholder}]
  /\ missing \in Seq(Files)
  /\ buffer \in [size : Nat, data : Seq(Chunk), null : BOOLEAN]
  /\ disk \in [Files -> Seq(Chunk)]
  /\ fault \in {"none", "error", "client", "server"}

Init ==
  /\ alive = Objects /\ always = SetToSeq(Objects)
  /\ scoping = FALSE /\ ghosting = FALSE /\ sequence = 0
  /\ ghost = [i \in Indices |-> FreeInfo]
  /\ upload = [file |-> None, size |-> 0, offset |-> 0]
  /\ sessions = 0
  /\ toClient = <<>> /\ toServer = <<>>
  /\ notified = 0 /\ delivered = 0
  /\ clientSequence = 0
  /\ saveList = <<>>
  /\ localGhost = [i \in Indices |-> None]
  /\ missing = <<>>
  /\ buffer = [size |-> 0, data |-> <<>>, null |-> TRUE]
  /\ disk = [f \in Files |-> IF f \in Held THEN FullFile(f) ELSE <<>>]
  /\ numDownloaded = 0
  /\ overlapped = FALSE
  /\ fault = "none"

\* The sequence without the members of S.
Excluding(s, S) ==
  LET kept[n \in 0 .. Len(s)] ==
        IF n = 0 THEN <<>>
        ELSE IF s[n] \in S THEN kept[n - 1] ELSE Append(kept[n - 1], s[n])
  IN  kept[Len(s)]

\* The connection is there.
Running == fault = "none"

-----------------------------------------------------------------------------
(* The server's sessions.                                                  *)

\* activateGhosting: the ghost-always objects take the highest indices, and
\* are posted from the last to the first.
ActivateGhosting ==
  LET size == Len(always)
      index(j) == MaxGhostCount - size + j - 1
  IN  /\ Running
      /\ ~scoping
      /\ sessions < MaxSessions
      /\ sessions' = sessions + 1
      /\ sequence' = sequence + 1
      /\ scoping' = TRUE
      /\ ghost' = [i \in Indices |->
                     IF \E j \in 1 .. size : i = index(j)
                       THEN [obj |-> always[i - index(0)], state |-> "event"]
                       ELSE FreeInfo]
      /\ toClient' = toClient
           \o Reverse([j \in 1 .. size |->
                         [type |-> "GhostAlwaysObject", obj |-> always[j], index |-> index(j)]])
           \o <<[type |-> "GhostAlwaysDone", sequence |-> sequence + 1]>>
      /\ UNCHANGED <<alive, always, ghosting, uploadVars, toServer, clientVars, fault>>

\* resetGhosting and clearGhostInfo.
ResetGhosting ==
  /\ Running /\ scoping
  /\ ghosting' = FALSE /\ scoping' = FALSE
  /\ toClient' = Append(toClient, [type |-> "EndGhosting"])
  /\ sequence' = sequence + 1
  /\ ghost' = [i \in Indices |-> FreeInfo]
  /\ UNCHANGED <<alive, always, sessions, uploadVars, toServer, clientVars, fault>>

\* NetObject::onRemove: the object leaves the set and its ghosts are detached.
DeleteObject(o) ==
  /\ Running /\ o \in alive
  /\ alive' = alive \ {o}
  /\ always' = Excluding(always, {o})
  /\ ghost' = [i \in Indices |->
                 IF ghost[i].obj = o THEN [ghost[i] EXCEPT !.obj = None] ELSE ghost[i]]
  /\ UNCHANGED <<scoping, ghosting, sequence, sessions, uploadVars, toClient, toServer,
                 clientVars, fault>>

\* clearScopeAlways: as DeleteObject, but the object lives on.
ClearScopeAlways(o) ==
  /\ Running /\ o \in Range(always)
  /\ always' = Excluding(always, {o})
  /\ ghost' = [i \in Indices |->
                 IF ghost[i].obj = o THEN [ghost[i] EXCEPT !.obj = None] ELSE ghost[i]]
  /\ UNCHANGED <<alive, scoping, ghosting, sequence, sessions, uploadVars, toClient,
                 toServer, clientVars, fault>>

\* setScopeAlways: the object joins the set and, while mGhosting, the scope.
SetScopeAlways(o) ==
  /\ Running /\ o \in alive \ Range(always)
  /\ always' = Append(always, o)
  /\ \/ /\ ghosting
        /\ \E i \in Indices : /\ ghost[i].state = "free"
                             /\ ghost' = [ghost EXCEPT ![i] = [obj |-> o, state |-> "new"]]
     \/ /\ ~ghosting \/ \A i \in Indices : ghost[i].state # "free"
        /\ UNCHANGED ghost
  /\ UNCHANGED <<alive, scoping, ghosting, sequence, sessions, uploadVars, toClient,
                 toServer, clientVars, fault>>

-----------------------------------------------------------------------------
(* The server's uploads.                                                   *)

\* sendFileChunk: the next chunk of the file, or the file is closed.
SendFileChunk(up) ==
  IF up.offset < up.size
    THEN [up |-> [up EXCEPT !.offset = @ + 1],
          chunks |-> <<[file |-> up.file, at |-> up.offset + 1]>>]
    ELSE [up |-> [up EXCEPT !.file = None], chunks |-> <<>>]

ChunkEvents(chunks) == [k \in DOMAIN chunks |-> [type |-> "FileChunk", chunk |-> chunks[k]]]

\* startSendingFile for a file the server has: its size, then chunks as many
\* as may be in transit.  A call of sendFileChunk behind the last one closes it.
StartSendingFile(f) ==
  LET n == Min({InTransit, Chunks[f]})
  IN  [up |-> [file |-> IF n < InTransit THEN None ELSE f, size |-> Chunks[f], offset |-> n],
       events |-> <<[type |-> "FileDownloadSize", size |-> Chunks[f]]>>
                    \o ChunkEvents(SubSeq(FullFile(f), 1, n))]

\* A chunk of no bytes: the server has not got the file.
NoSuchFile == [type |-> "FileChunk", chunk |-> None]

\* None of the files requested is there.
NoFileSent == [up |-> [upload EXCEPT !.file = None],
               events |-> <<[type |-> "SendNextDownloadRequest"]>>]

\* (mutant) The client is not told of the files that are not sent.
AnswerToSilent(names) ==
  LET found == {k \in DOMAIN names : names[k] \in Served}
  IN  IF found = {} THEN [NoFileSent EXCEPT !.events = <<>>]
                    ELSE StartSendingFile(names[Min(found)])

\* Which of the files is sent, and what the client is told of the others.
AnswerTo(names) ==
  LET found   == {k \in DOMAIN names : names[k] \in Served}
      lacking == IF found = {} THEN Len(names) ELSE Min(found) - 1
      answer  == IF found = {} THEN NoFileSent ELSE StartSendingFile(names[Min(found)])
  IN  [answer EXCEPT !.events = [k \in 1 .. lacking |-> NoSuchFile] \o @]


\* FileDownloadRequestEvent::process: the first of the files that the server
\* has is sent; for each before it, and if there is none, the client is told.
FileDownloadRequest ==
  LET request == Head(toServer)
      answer  == AnswerTo(request.names)
  IN  /\ Running /\ toServer # <<>> /\ request.type = "FileDownloadRequest"
      /\ notified >= request.after
      /\ toServer' = Tail(toServer)
      /\ upload' = answer.up
      /\ toClient' = toClient \o answer.events
      /\ UNCHANGED <<alive, sessionVars, notified, clientVars, fault>>

\* FileChunkEvent::notifyDelivered.  Without an open file the read is wild.
ChunkNotified ==
  LET next == SendFileChunk(upload)
  IN  /\ Running /\ notified < delivered
      /\ notified' = notified + 1
      /\ IF upload.file = None /\ next.chunks # <<>>
           THEN fault' = "server" /\ UNCHANGED <<upload, toClient>>
           ELSE /\ upload' = next.up
                /\ toClient' = toClient \o ChunkEvents(next.chunks)
                /\ UNCHANGED fault
      /\ UNCHANGED <<alive, sessionVars, toServer, clientVars>>

\* (mutant) Any client that is ready starts normal ghosting.
ReadyForNormalGhostsAny ==
  LET message == Head(toServer)
  IN  /\ Running /\ toServer # <<>> /\ message.type = "ReadyForNormalGhosts"
      /\ notified >= message.after
      /\ toServer' = Tail(toServer)
      /\ ghosting' = scoping
      /\ UNCHANGED <<alive, always, scoping, sequence, ghost, sessions, uploadVars, toClient,
                     clientVars, fault>>

\* ReadyForNormalGhosts of an earlier session is ignored.
ReadyForNormalGhosts ==
  LET message == Head(toServer)
  IN  /\ Running /\ toServer # <<>> /\ message.type = "ReadyForNormalGhosts"
      /\ notified >= message.after
      /\ toServer' = Tail(toServer)
      /\ ghosting' = (ghosting \/ message.sequence = sequence)
      /\ UNCHANGED <<alive, always, scoping, sequence, ghost, sessions, uploadVars, toClient,
                     clientVars, fault>>

-----------------------------------------------------------------------------
(* The client.                                                             *)

\* Events carry how many chunks were processed before they were posted: the
\* acks of those reach the server with them at the latest.
PostToServer(message) == toServer' = Append(toServer, message)

Found(stored) == {f \in Files : stored[f] # <<>>}

\* registerObject fails if a file is missing; the resource manager logs the
\* missing files the object has asked for, up to where it gave up.
Lacks(obj, stored) ==
  IF obj = Placeholder THEN <<>>
  ELSE Excluding(Needs[obj], Found(stored))

\* What is left of the missing files once those found by now are passed over.
StillMissing(files, stored) ==
  LET lacking == {k \in DOMAIN files : files[k] \notin Found(stored)}
  IN  IF lacking = {} THEN <<>> ELSE SubSeq(files, Min(lacking), Len(files))

RequestFiles(files) ==
  /\ missing' = files
  /\ PostToServer([type |-> "FileDownloadRequest",
                   names |-> SubSeq(missing', 1, Min({Len(missing'), MaxFileNames})),
                   after |-> delivered'])

\* loadNextGhostAlwaysObject: objects are registered and taken from the list
\* until one lacks a file or the end is reached.  new says whether the first
\* one may ask for files (hadNewFiles), files what is in mMissingFileList, seq
\* is mGhostingSequence, num mNumDownloadedFiles.
LoadNextGhostAlwaysObject(list, new, files, seq, num) ==
  LET loads(save) == save # ListEnd /\ Lacks(save.obj, disk') = <<>>
      n    == Max({k \in 0 .. Len(list) : \A j \in 1 .. k : loads(list[j])})
      rest == SubSeq(list, n + 1, Len(list))
  IN  /\ localGhost' = [i \in Indices |->
                          IF \E j \in 1 .. n : list[j].index = i
                            THEN list[CHOOSE j \in 1 .. n : list[j].index = i].obj
                            ELSE localGhost[i]]
      /\ \/ /\ rest = <<>>
            /\ saveList' = <<>> /\ missing' = files
            /\ numDownloaded' = num
            /\ UNCHANGED <<toServer, fault>>
         \/ /\ rest # <<>> /\ Head(rest) = ListEnd
            /\ saveList' = Tail(rest) /\ missing' = files
            /\ numDownloaded' = num
            /\ PostToServer([type |-> "ReadyForNormalGhosts", sequence |-> seq,
                             after |-> delivered'])
            /\ UNCHANGED fault
         \/ /\ rest # <<>> /\ Head(rest) # ListEnd
            /\ saveList' = rest
            /\ IF n = 0 /\ ~new
                 THEN /\ fault' = "error"
                      /\ missing' = files /\ numDownloaded' = num
                      /\ UNCHANGED toServer
                 ELSE /\ \E logged \in Prefixes(Lacks(Head(rest).obj, disk')) \ {<<>>} :
                           RequestFiles(StillMissing(files \o Excluding(logged, Range(files)),
                                                     disk'))
                      /\ numDownloaded' = 0
                      /\ UNCHANGED fault

\* sendNextFileDownloadRequest, and fileDownloadSegmentComplete when there is
\* nothing left to request.
SendNextFileDownloadRequest(files, num) ==
  LET left == StillMissing(files, disk')
  IN  IF left # <<>>
        THEN /\ RequestFiles(left)
             /\ numDownloaded' = num
             /\ UNCHANGED <<saveList, localGhost, fault>>
        ELSE LoadNextGhostAlwaysObject(saveList, num # 0, <<>>, clientSequence, num)

\* The next event is of the type and taken from the channel.
Process(type) ==
  /\ Running /\ toClient # <<>> /\ Head(toClient).type = type
  /\ toClient' = Tail(toClient)
  /\ UNCHANGED serverVars

\* Something joins the save list; if it is alone there, loading starts.
PushGhostSave(save, seq) ==
  IF saveList = <<>>
    THEN LoadNextGhostAlwaysObject(<<save>>, TRUE, missing, seq, numDownloaded)
    ELSE /\ saveList' = Append(saveList, save)
         /\ UNCHANGED <<localGhost, missing, numDownloaded, toServer, fault>>

\* GhostAlwaysObjectEvent.  The server looks its object up when a packet is
\* written: a placeholder comes for one that was gone by then.
GhostAlwaysObject ==
  LET event == Head(toClient)
  IN  /\ Process("GhostAlwaysObject")
      /\ UNCHANGED <<delivered, clientSequence, buffer, disk, overlapped>>
      /\ \E obj \in {event.obj} \cup (IF event.obj \in alive THEN {} ELSE {Placeholder}) :
           PushGhostSave([obj |-> obj, index |-> event.index], clientSequence)

GhostAlwaysDone ==
  /\ Process("GhostAlwaysDone")
  /\ clientSequence' = Head(toClient).sequence
  /\ UNCHANGED <<delivered, buffer, disk, overlapped>>
  /\ PushGhostSave(ListEnd, clientSequence')

\* A request is on its way, or its answer is.
Downloading ==
  \/ \E k \in DOMAIN toServer : toServer[k].type = "FileDownloadRequest"
  \/ \E k \in DOMAIN toClient :
       toClient[k].type \in {"FileDownloadSize", "SendNextDownloadRequest"}
  \/ Len(buffer.data) < buffer.size

\* (mutant) Objects that wait for files stay in the list.
EndGhostingListKept ==
  /\ Process("EndGhosting")
  /\ localGhost' = [i \in Indices |-> None]
  /\ overlapped' = (overlapped \/ Downloading)
  /\ UNCHANGED <<delivered, clientSequence, saveList, downloadVars, toServer, fault>>

\* EndGhosting deletes all ghosts, and those that wait for files.
EndGhosting ==
  /\ Process("EndGhosting")
  /\ localGhost' = [i \in Indices |-> None]
  /\ saveList' = <<>>
  /\ overlapped' = (overlapped \/ Downloading)
  /\ UNCHANGED <<delivered, clientSequence, downloadVars, toServer, fault>>

SendNextDownloadRequest ==
  /\ Process("SendNextDownloadRequest")
  /\ UNCHANGED <<delivered, clientSequence, buffer, disk, overlapped>>
  /\ SendNextFileDownloadRequest(missing, numDownloaded)

FileDownloadSize ==
  /\ Process("FileDownloadSize")
  /\ buffer' = [size |-> Head(toClient).size, data |-> <<>>, null |-> FALSE]
  /\ UNCHANGED <<delivered, clientSequence, saveList, localGhost, missing, disk,
                 numDownloaded, overlapped, toServer, fault>>

ChunkReceived == /\ Process("FileChunk")
                 /\ delivered' = delivered + 1
                 /\ UNCHANGED <<clientSequence, overlapped>>

\* (mutant) The name of a file the server has not got stays in the list.
EmptyChunkKept ==
  /\ ChunkReceived /\ Head(toClient).chunk = None
  /\ buffer' = [buffer EXCEPT !.null = TRUE]
  /\ UNCHANGED <<missing, fault, saveList, localGhost, disk, numDownloaded, toServer>>

\* chunkReceived: the server has not got the file.
EmptyChunk ==
  /\ ChunkReceived /\ Head(toClient).chunk = None
  /\ buffer' = [buffer EXCEPT !.null = TRUE]
  /\ IF missing = <<>> THEN fault' = "client" /\ UNCHANGED missing
                       ELSE missing' = Tail(missing) /\ UNCHANGED fault
  /\ UNCHANGED <<saveList, localGhost, disk, numDownloaded, toServer>>

\* chunkReceived: the chunk goes into the buffer, and a file that is whole is
\* saved under the first name of the list.
FileChunk ==
  LET data == Append(buffer.data, Head(toClient).chunk)
      wild == buffer.null \/ missing = <<>>
  IN  /\ ChunkReceived /\ Head(toClient).chunk # None
      /\ \/ /\ Len(data) > buffer.size \/ wild
            /\ fault' = IF Len(data) > buffer.size THEN "error" ELSE "client"
            /\ UNCHANGED <<downloadVars, saveList, localGhost, toServer>>
         \/ /\ Len(data) < buffer.size /\ ~wild
            /\ buffer' = [buffer EXCEPT !.data = data]
            /\ UNCHANGED <<missing, disk, numDownloaded, saveList, localGhost, toServer, fault>>
         \/ /\ Len(data) = buffer.size /\ ~wild
            /\ buffer' = [buffer EXCEPT !.data = data, !.null = TRUE]
            /\ disk' = [disk EXCEPT ![Head(missing)] = data]
            /\ SendNextFileDownloadRequest(Tail(missing), numDownloaded + 1)

-----------------------------------------------------------------------------
ServerProcesses == FileDownloadRequest \/ ReadyForNormalGhosts
ClientProcesses == \/ GhostAlwaysObject \/ GhostAlwaysDone \/ EndGhosting
                   \/ SendNextDownloadRequest \/ FileDownloadSize
                   \/ EmptyChunk \/ FileChunk

Next == \/ ActivateGhosting \/ ResetGhosting
        \/ \E o \in Objects : \/ DeleteObject(o)
                              \/ SetScopeAlways(o) \/ ClearScopeAlways(o)
        \/ ServerProcesses \/ ChunkNotified
        \/ ClientProcesses

Spec == Init /\ [][Next]_vars

\* Every event is processed and every chunk notified in the end (NetEvent:
\* GuaranteedIsProcessed, EveryEventIsNotified).
Fairness == /\ WF_vars(ClientProcesses)
            /\ WF_vars(ServerProcesses)
            /\ WF_vars(ChunkNotified)

FairSpec == Spec /\ Fairness

-----------------------------------------------------------------------------
(* Properties.                                                             *)

\* When normal ghosts start, on the answer of this session and no other, the
\* client has every ghost the server believes to have sent as an event, and
\* no ghost the server does not know: the first updates and kills will find
\* what they are for.
GhostsInStep ==
  ghosting => /\ scoping
              /\ \A i \in Indices :
                   /\ (localGhost[i] # None) <=> (ghost[i].state = "event")
                   /\ ghost[i].obj # None /\ ghost[i].state = "event" =>
                        localGhost[i] = ghost[i].obj

\* The asserts of loadNextGhostAlwaysObject: no ghost is in the table yet when
\* one that waits is put there, and nothing waits behind the end of the list.
SaveListLoads ==
  \A k \in DOMAIN saveList :
    IF saveList[k] = ListEnd THEN k = Len(saveList)
    ELSE localGhost[saveList[k].index] = None

\* What loadNextGhostAlwaysObject finds when files have come.
SaveListSound == TypeOK /\ SaveListLoads

\* netConnection.h: the file that is being downloaded is the first in the list
\* of missing files.
DownloadingIsFirst ==
  \A k \in DOMAIN buffer.data :
    Len(buffer.data) < buffer.size => missing # <<>> /\ missing[1] = buffer.data[k].file

\* Unless ghosting was ended during a download, files are saved whole and
\* under their own names, neither end reads what is not there, and a client is
\* turned away only for an object that needs a file the server has not got.
DownloadsAreSound ==
  ~overlapped =>
    /\ \A f \in Files : disk[f] \in {<<>>, FullFile(f)}
    /\ fault \notin {"client", "server"}
    /\ fault = "error" =>
         /\ saveList # <<>>
         /\ ~(Range(Needs[Head(saveList).obj]) \subseteq Held \cup Served)

\* A session that is started comes to normal ghosts, unless it is ended, or
\* the connection is.
SessionStarts == scoping ~> ghosting \/ ~scoping \/ ~Running
=============================================================================
