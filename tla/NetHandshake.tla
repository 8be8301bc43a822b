---------------------------- MODULE NetHandshake ----------------------------
(***************************************************************************)
(* The connection handshake of NetInterface (network/netInterface.cc) with *)
(* GameConnection as the class of the connections: one client address that *)
(* connects, disconnects and connects again, and the server.               *)
(*                                                                         *)
(* sequence is what getSequence() returns, the mConnectSequence of         *)
(* NetConnection.  startConnection sets the field of the same name of      *)
(* ConnectionProtocol, which no part of the handshake reads.               *)
(*                                                                         *)
(* The network (external: UDP) loses, duplicates and reorders packets.  A  *)
(* packet the server ignores because it does not allow connections is one  *)
(* that was lost.  Time is left out: a retry or a time out may be due      *)
(* whenever the code looks.                                                *)
(***************************************************************************)
EXTENDS Integers

CONSTANTS RetryCount,   \* 4: ChallengeRetryCount, ConnectRetryCount
          MaxAttempts,  \* bound: connections the client starts
          MaxRestarts   \* bound: restarts of the server's process

ASSUME HandshakeConstants == {RetryCount, MaxAttempts, MaxRestarts} \subseteq Nat

VARIABLES
  attempt,      \* the connections the client has started so far
  client,       \* the client's NetConnection, or NoConnection
  server,       \* the server's NetConnections in the address table
  run,          \* the server's process, which owns mRandomHashData
  toServer,     \* packets that may still arrive at the server
  toClient      \* packets that may still arrive at the client

vars == <<attempt, client, server, run, toServer, toClient>>

Sequences == {0}
Digests == 0 .. MaxRestarts     \* computeNetMD5, by the random data in it
Attempts == 0 .. MaxAttempts    \* 0 for none

\* by is a history: the attempt whose ConnectRequest created the server's end.
ServerConnection == [sequence : Sequences, by : Attempts, digest : Digests,
                     object : {0, 1}]

States == {"NotConnected", "AwaitingChallengeResponse", "AwaitingConnectResponse",
           "established"}

\* An uninitialized mConnectSendCount above RetryCount acts as RetryCount + 1;
\* -1 is the one that the first increment wraps to 0.
Garbage == -1 .. RetryCount + 1

NoConnection == [state |-> "NotConnected", sequence |-> 0, digest |-> 0,
                 sendCount |-> 0, by |-> 0]

ChallengeRequest(s)     == [type |-> "ConnectChallengeRequest", sequence |-> s,
                            digest |-> 0, by |-> 0]
ChallengeResponse(s, d) == [type |-> "ConnectChallengeResponse", sequence |-> s,
                            digest |-> d, by |-> 0]
ConnectRequest(s, d, a) == [type |-> "ConnectRequest", sequence |-> s,
                            digest |-> d, by |-> a]
ConnectAccept(s, a)     == [type |-> "ConnectAccept", sequence |-> s,
                            digest |-> 0, by |-> a]
ConnectReject(s)        == [type |-> "ConnectReject", sequence |-> s,
                            digest |-> 0, by |-> 0]
Disconnect(s)           == [type |-> "Disconnect", sequence |-> s,
                            digest |-> 0, by |-> 0]

Packet == [type : {"ConnectChallengeRequest", "ConnectChallengeResponse",
                   "ConnectRequest", "ConnectAccept", "ConnectReject", "Disconnect"},
           sequence : Sequences, digest : Digests, by : Attempts]

TypeOK ==
  /\ attempt \in Attempts
  /\ client \in [state : States, sequence : Sequences, digest : Digests,
                 sendCount : 0 .. RetryCount + 2, by : Attempts]
  /\ server \subseteq ServerConnection
  /\ run \in Digests
  /\ toServer \subseteq Packet
  /\ toClient \subseteq Packet

Init ==
  /\ attempt = 0
  /\ client = NoConnection
  /\ server = {}
  /\ run = 0
  /\ toServer = {} /\ toClient = {}

Send(packet) == toServer' = toServer \cup {packet} /\ UNCHANGED toClient

-----------------------------------------------------------------------------
(* The client.                                                             *)

StartConnection ==
  /\ client = NoConnection
  /\ attempt < MaxAttempts
  /\ attempt' = attempt + 1
  /\ \E count \in Garbage :
       client' = [NoConnection EXCEPT !.state = "AwaitingChallengeResponse",
                                      !.sendCount = count + 1]
  /\ Send(ChallengeRequest(NoConnection.sequence))
  /\ UNCHANGED <<server, run>>

\* findPendingConnection: connections are pending until they are established.
Pending == client.state \in {"AwaitingChallengeResponse", "AwaitingConnectResponse"}

\* (mutant) A response is taken in any state of a pending connection.
HandleConnectChallengeResponseAgain(m) ==
  /\ m.type = "ConnectChallengeResponse"
  /\ Pending /\ m.sequence = client.sequence
  /\ client' = [client EXCEPT !.state = "AwaitingConnectResponse",
                              !.digest = m.digest, !.sendCount = 1]
  /\ Send(ConnectRequest(client.sequence, m.digest, attempt))
  /\ UNCHANGED <<attempt, server, run>>

HandleConnectChallengeResponse(m) ==
  /\ m.type = "ConnectChallengeResponse"
  /\ m.sequence = client.sequence
  /\ client.state = "AwaitingChallengeResponse"
  /\ client' = [client EXCEPT !.state = "AwaitingConnectResponse",
                              !.digest = m.digest, !.sendCount = 1]
  /\ Send(ConnectRequest(client.sequence, m.digest, attempt))
  /\ UNCHANGED <<attempt, server, run>>

\* Accepted, unless readConnectAccept finds a fault.  Either way the connection
\* is no longer pending.
HandleConnectAccept(m) ==
  /\ m.type = "ConnectAccept"
  /\ m.sequence = client.sequence
  /\ client.state = "AwaitingConnectResponse"
  /\ client' \in {[client EXCEPT !.state = "established", !.by = m.by], NoConnection}
  /\ UNCHANGED <<attempt, server, run, toServer, toClient>>

HandleConnectReject(m) ==
  /\ m.type = "ConnectReject"
  /\ m.sequence = client.sequence
  /\ Pending
  /\ client' = NoConnection
  /\ UNCHANGED <<attempt, server, run, toServer, toClient>>

\* The client's connection is deleted: an established one tells the server
\* (GameConnection::onRemove).
DeleteClient ==
  /\ client # NoConnection
  /\ client' = NoConnection
  /\ IF client.state = "established" THEN Send(Disconnect(client.sequence))
                                     ELSE UNCHANGED <<toServer, toClient>>
  /\ UNCHANGED <<attempt, server, run>>

\* Only established connections are looked up by address.
ClientHandleDisconnect(m) ==
  /\ m.type = "Disconnect"
  /\ m.sequence = client.sequence
  /\ client.state = "established"
  /\ DeleteClient

\* (mutant) Only the count next to the last one is taken for the end.
CheckTimeoutsExact ==
  /\ Pending
  /\ IF client.sendCount = RetryCount + 1
       THEN client' = NoConnection /\ UNCHANGED <<toServer, toClient>>
       ELSE /\ client' = [client EXCEPT !.sendCount = @ + 1]
            /\ Send(IF client.state = "AwaitingChallengeResponse"
                      THEN ChallengeRequest(client.sequence)
                      ELSE ConnectRequest(client.sequence, client.digest, attempt))
  /\ UNCHANGED <<attempt, server, run>>

\* checkTimeouts for a pending connection: it is retried or given up.
CheckTimeouts ==
  /\ Pending
  /\ IF client.sendCount > RetryCount
       THEN client' = NoConnection /\ UNCHANGED <<toServer, toClient>>
       ELSE /\ client' = [client EXCEPT !.sendCount = @ + 1]
            /\ Send(IF client.state = "AwaitingChallengeResponse"
                      THEN ChallengeRequest(client.sequence)
                      ELSE ConnectRequest(client.sequence, client.digest, attempt))
  /\ UNCHANGED <<attempt, server, run>>

\* The client's process ends without a word.
ClientCrash == /\ client # NoConnection
               /\ client' = NoConnection
               /\ UNCHANGED <<attempt, server, run, toServer, toClient>>

-----------------------------------------------------------------------------
(* The server.                                                             *)

Reply(packets) == toClient' = toClient \cup packets /\ UNCHANGED toServer

\* No record is kept of a challenge.
HandleConnectChallengeRequest(m) ==
  /\ m.type = "ConnectChallengeRequest"
  /\ Reply({ChallengeResponse(m.sequence, run)})
  /\ UNCHANGED <<attempt, client, server, run>>

\* The connection made for a request; its place in memory is not that of the
\* connection it replaces.
NewConnection(m) ==
  [sequence |-> m.sequence, by |-> m.by, digest |-> m.digest,
   object |-> IF \E connect \in server : connect.object = 0 THEN 1 ELSE 0]

\* The request is read and accepted or refused.  A connection deleted, also
\* the one just made and refused, says so to the client.
ReadConnectRequest(m) ==
  LET conn == NewConnection(m)
      gone == {Disconnect(connect.sequence) : connect \in server}
  IN  \/ /\ server' = {conn}
         /\ Reply(gone \cup {ConnectAccept(conn.sequence, conn.by)})
      \/ /\ server' = {}
         /\ Reply(gone \cup {ConnectReject(conn.sequence), Disconnect(conn.sequence)})

\* (mutant) A request from a connected address is always taken for a new one.
HandleConnectRequestAfresh(m) ==
  /\ m.type = "ConnectRequest"
  /\ m.digest = run
  /\ \A connect \in server : connect.sequence =< m.sequence
  /\ ReadConnectRequest(m)
  /\ UNCHANGED <<attempt, client, run>>

\* (mutant) The digest is not checked.
HandleConnectRequestUnchecked(m) ==
  /\ m.type = "ConnectRequest"
  /\ IF \E connect \in server : connect.sequence = m.sequence
       THEN /\ Reply({ConnectAccept(connect.sequence, connect.by) : connect \in server})
            /\ UNCHANGED server
       ELSE /\ \A connect \in server : connect.sequence =< m.sequence
            /\ ReadConnectRequest(m)
  /\ UNCHANGED <<attempt, client, run>>

\* A request for the sequence already connected is accepted once more; else,
\* with a good digest, it replaces a connection that is not newer.
HandleConnectRequest(m) ==
  /\ m.type = "ConnectRequest"
  /\ IF \E connect \in server : connect.sequence = m.sequence
       THEN /\ Reply({ConnectAccept(connect.sequence, connect.by) : connect \in server})
            /\ UNCHANGED server
       ELSE /\ m.digest = run
            /\ \A connect \in server : connect.sequence =< m.sequence
            /\ ReadConnectRequest(m)
  /\ UNCHANGED <<attempt, client, run>>

\* The server's connection is deleted: by the game, or because it timed out.
DeleteServer(connect) ==
  /\ server' = server \ {connect}
  /\ Reply({Disconnect(connect.sequence)})
  /\ UNCHANGED <<attempt, client, run>>

ServerHandleDisconnect(m) ==
  /\ m.type = "Disconnect"
  /\ \E connect \in server : /\ connect.sequence = m.sequence
                             /\ DeleteServer(connect)

\* A new process of the server knows no connection and draws new random data.
ServerRestart ==
  /\ run < MaxRestarts
  /\ run' = run + 1
  /\ server' = {}
  /\ UNCHANGED <<attempt, client, toServer, toClient>>

-----------------------------------------------------------------------------
ClientReceives(m) == \/ HandleConnectChallengeResponse(m)
                     \/ HandleConnectAccept(m)
                     \/ HandleConnectReject(m)
                     \/ ClientHandleDisconnect(m)

ServerReceives(m) == \/ HandleConnectChallengeRequest(m)
                     \/ HandleConnectRequest(m)
                     \/ ServerHandleDisconnect(m)

Next == \/ StartConnection \/ CheckTimeouts \/ DeleteClient \/ ClientCrash
        \/ \E m \in toClient : ClientReceives(m)
        \/ \E m \in toServer : ServerReceives(m)
        \/ \E connect \in server : DeleteServer(connect)
        \/ ServerRestart

Spec == Init /\ [][Next]_vars

\* checkTimeouts is called at every turn of the main loop; nothing else is
\* certain to happen.
Fairness == WF_vars(CheckTimeouts)

FairSpec == Spec /\ Fairness

-----------------------------------------------------------------------------
(* Properties.                                                             *)

\* The overview of netInterface.cc: no connection record exists on the server
\* for a client that has not been challenged by this very process of it,
\* whatever requests are still about from before a restart.
OnlyChallengedClients == \A connect \in server : connect.digest = run

\* A request that is repeated, by a retry or by the network, does not put a
\* new connection in the place of the one it has already made.
RepeatedRequestKeepsConnection ==
  [][\A old \in server, new \in server' : old.by = new.by => old = new]_vars

\* Every attempt to connect comes to an end, although packets that restart
\* the count of the retries may come any number of times.
EveryAttemptEnds ==
  \A n \in 1 .. MaxAttempts : attempt = n /\ Pending ~> ~(attempt = n /\ Pending)

\* The comment in handleConnectRequest says of the connection of an earlier
\* attempt "disconnect this one, and allow the new one to be created": a client
\* is connected to the connection its own request has made.
NewAttemptNewConnection == client.state = "established" => client.by = attempt
=============================================================================
