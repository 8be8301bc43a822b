------------------------ MODULE NetHandshake_proofs ------------------------
(***************************************************************************)
(* Proofs about NetHandshake, for any number of retries, attempts and      *)
(* restarts.                                                               *)
(***************************************************************************)
EXTENDS NetHandshake, TLAPS

\* What the constants are, and the messages, connections and types made of
\* them.
LEMMA ConstantTypes ==
  /\ RetryCount \in Nat /\ MaxAttempts \in Nat /\ MaxRestarts \in Nat
  /\ 0 \in Attempts /\ 0 \in Digests /\ 0 \in Sequences
BY HandshakeConstants DEF Attempts, Digests, Sequences

LEMMA PacketTypes ==
  ASSUME NEW s \in Sequences, NEW d \in Digests, NEW a \in Attempts
  PROVE  {ChallengeRequest(s), ChallengeResponse(s, d), ConnectRequest(s, d, a),
          ConnectAccept(s, a), ConnectReject(s), Disconnect(s)} \subseteq Packet
BY ConstantTypes DEF ChallengeRequest, ChallengeResponse, ConnectRequest,
     ConnectAccept, ConnectReject, Disconnect, Packet

\* The server's table holds at most one connection of the address.
OneConnection == \A c, d \in server : c = d

IInv == TypeOK /\ OneConnection /\ OnlyChallengedClients

LEMMA InitCorrect == Init => IInv
BY ConstantTypes
DEF Init, IInv, TypeOK, OneConnection, OnlyChallengedClients, NoConnection, States

\* The steps of the client leave the server's process alone.
LEMMA ClientSteps ==
  ASSUME IInv,
         \/ StartConnection \/ CheckTimeouts \/ DeleteClient \/ ClientCrash
         \/ \E m \in toClient : ClientReceives(m)
  PROVE  IInv'
<1>1. server' = server /\ run' = run
  BY DEF StartConnection, CheckTimeouts, DeleteClient, ClientCrash, ClientReceives,
         HandleConnectChallengeResponse, HandleConnectAccept, HandleConnectReject,
         ClientHandleDisconnect
<1>2. (OneConnection /\ OnlyChallengedClients)'
  BY <1>1 DEF IInv, OneConnection, OnlyChallengedClients
<1> DEFINE ClientType(c) == c \in [state : States, sequence : Sequences,
                                   digest : Digests,
                                   sendCount : 0 .. RetryCount + 2, by : Attempts]
<1>3. ClientType(NoConnection)
  BY ConstantTypes DEF NoConnection, States
<1>4. CASE StartConnection
  <2>1. attempt' \in Attempts
    <3>1. attempt \in 0 .. MaxAttempts
      BY DEF IInv, TypeOK, Attempts
    <3>2. attempt' = attempt + 1 /\ attempt < MaxAttempts
      BY <1>4 DEF StartConnection
    <3> QED BY <3>1, <3>2, ConstantTypes DEF Attempts
  <2>2. ClientType(client')
    <3>1. PICK count \in -1 .. RetryCount + 1 :
            client' = [NoConnection EXCEPT !.state = "AwaitingChallengeResponse",
                                           !.sendCount = count + 1]
      BY <1>4 DEF StartConnection, Garbage
    <3>2. count + 1 \in 0 .. RetryCount + 2
      BY ConstantTypes
    <3> HIDE DEF NoConnection
    <3> QED BY <1>3, <3>1, <3>2 DEF States
  <2>3. (toServer \subseteq Packet /\ toClient \subseteq Packet)'
    BY <1>4, ConstantTypes, PacketTypes DEF StartConnection, Send, NoConnection, IInv, TypeOK
  <2> QED BY <1>1, <1>2, <2>1, <2>2, <2>3 DEF IInv, TypeOK
<1>5. CASE CheckTimeouts
  <2>1. ClientType(client')
    BY <1>5, <1>3, ConstantTypes DEF CheckTimeouts, IInv, TypeOK
  <2>2. (toServer \subseteq Packet /\ toClient \subseteq Packet)'
    BY <1>5, ConstantTypes, PacketTypes DEF CheckTimeouts, Send, IInv, TypeOK
  <2>3. attempt' = attempt
    BY <1>5 DEF CheckTimeouts
  <2> QED BY <1>1, <1>2, <2>1, <2>2, <2>3 DEF IInv, TypeOK
<1>6. CASE DeleteClient
  <2>1. (toServer \subseteq Packet /\ toClient \subseteq Packet)'
    BY <1>6, ConstantTypes, PacketTypes DEF DeleteClient, Send, IInv, TypeOK
  <2> QED BY <1>1, <1>2, <1>3, <1>6, <2>1 DEF DeleteClient, IInv, TypeOK
<1>7. CASE ClientCrash
  BY <1>1, <1>2, <1>3, <1>7 DEF ClientCrash, IInv, TypeOK
<1>8. ASSUME NEW m \in toClient, ClientReceives(m)
      PROVE  IInv'
  <2>1. m \in Packet
    BY DEF IInv, TypeOK
  <2>2. CASE HandleConnectChallengeResponse(m)
    <3>1. ClientType(client')
      <4>1. m.digest \in Digests /\ 1 \in 0 .. RetryCount + 2
        BY <2>1, ConstantTypes DEF Packet
      <4>2. ClientType(client)
        BY DEF IInv, TypeOK
      <4> QED BY <2>2, <4>1, <4>2 DEF HandleConnectChallengeResponse, States
    <3>2. (toServer \subseteq Packet /\ toClient \subseteq Packet)'
      <4>1. client.sequence \in Sequences /\ m.digest \in Digests /\ attempt \in Attempts
        BY <2>1 DEF IInv, TypeOK, Packet
      <4>2. ConnectRequest(client.sequence, m.digest, attempt) \in Packet
        BY <4>1, PacketTypes
      <4> QED BY <2>2, <4>2 DEF HandleConnectChallengeResponse, Send, IInv, TypeOK
    <3>3. attempt' = attempt
      BY <2>2 DEF HandleConnectChallengeResponse
    <3> QED BY <1>1, <1>2, <3>1, <3>2, <3>3 DEF IInv, TypeOK
  <2>3. CASE HandleConnectAccept(m)
    <3>1. ClientType(client')
      BY <1>3, <2>1, <2>3 DEF HandleConnectAccept, IInv, TypeOK, Packet, States
    <3> QED BY <1>1, <1>2, <2>3, <3>1 DEF HandleConnectAccept, IInv, TypeOK
  <2>4. CASE HandleConnectReject(m)
    BY <1>1, <1>2, <1>3, <2>4 DEF HandleConnectReject, IInv, TypeOK
  <2>5. CASE ClientHandleDisconnect(m)
    BY <1>6, <2>5 DEF ClientHandleDisconnect
  <2> QED BY <1>8, <2>2, <2>3, <2>4, <2>5 DEF ClientReceives
<1> QED BY <1>4, <1>5, <1>6, <1>7, <1>8

\* A request makes a connection only with a digest of this process, and only
\* when no connection is there.
LEMMA RequestStep ==
  ASSUME IInv, NEW m \in toServer, HandleConnectRequest(m)
  PROVE  IInv' /\ (server' = server \/ server = {})
<1>1. m \in Packet
  BY DEF IInv, TypeOK
<1>2. CASE \E connect \in server : connect.sequence = m.sequence
  <2>1. server' = server /\ attempt' = attempt /\ client' = client /\ run' = run
    BY <1>2 DEF HandleConnectRequest
  <2>2. (toServer \subseteq Packet /\ toClient \subseteq Packet)'
    <3>1. \A connect \in server :
            ConnectAccept(connect.sequence, connect.by) \in Packet
      BY ConstantTypes, PacketTypes DEF IInv, TypeOK, ServerConnection
    <3> QED BY <1>2, <3>1 DEF HandleConnectRequest, Reply, IInv, TypeOK
  <2> QED BY <2>1, <2>2 DEF IInv, TypeOK, OneConnection, OnlyChallengedClients
<1>3. CASE ~\E connect \in server : connect.sequence = m.sequence
  <2>1. server = {}
    BY <1>1, <1>3 DEF IInv, TypeOK, ServerConnection, Packet, Sequences
  <2>2. /\ ReadConnectRequest(m) /\ m.digest = run
        /\ attempt' = attempt /\ client' = client /\ run' = run
    BY <1>3 DEF HandleConnectRequest
  <2>3. NewConnection(m) \in ServerConnection
    BY <1>1 DEF NewConnection, ServerConnection, Packet
  <2>4. /\ (toServer \subseteq Packet /\ toClient \subseteq Packet)'
        /\ server' \subseteq {NewConnection(m)}
    <3>1. {ConnectAccept(m.sequence, m.by), ConnectReject(m.sequence),
           Disconnect(m.sequence)} \subseteq Packet
      BY <1>1, ConstantTypes, PacketTypes DEF Packet
    <3>2. /\ NewConnection(m).sequence = m.sequence
          /\ NewConnection(m).by = m.by
      BY DEF NewConnection
    <3> QED BY <2>1, <2>2, <3>1, <3>2 DEF ReadConnectRequest, Reply, IInv, TypeOK
  <2>5. NewConnection(m).digest = run'
    BY <2>2 DEF NewConnection
  <2> QED BY <2>1, <2>2, <2>3, <2>4, <2>5
          DEF IInv, TypeOK, OneConnection, OnlyChallengedClients
<1> QED BY <1>2, <1>3

LEMMA DeleteStep ==
  ASSUME IInv, NEW connect \in server, DeleteServer(connect)
  PROVE  IInv' /\ server' \subseteq server
<1>1. Disconnect(connect.sequence) \in Packet
  BY ConstantTypes, PacketTypes DEF IInv, TypeOK, ServerConnection
<1> QED BY <1>1 DEF DeleteServer, Reply, IInv, TypeOK, OneConnection,
                    OnlyChallengedClients

\* The steps of the server: no step puts a connection in the place of one that
\* is there.
LEMMA ServerSteps ==
  ASSUME IInv,
         \/ \E m \in toServer : ServerReceives(m)
         \/ \E connect \in server : DeleteServer(connect)
         \/ ServerRestart
  PROVE  IInv' /\ (server' \subseteq server \/ server = {})
<1>1. ASSUME NEW m \in toServer, ServerReceives(m)
      PROVE  IInv' /\ (server' \subseteq server \/ server = {})
  <2>1. CASE HandleConnectChallengeRequest(m)
    <3>1. ChallengeResponse(m.sequence, run) \in Packet
      BY ConstantTypes, PacketTypes DEF IInv, TypeOK, Packet
    <3> QED BY <2>1, <3>1 DEF HandleConnectChallengeRequest, Reply, IInv, TypeOK,
                              OneConnection, OnlyChallengedClients
  <2>2. CASE HandleConnectRequest(m)
    BY <2>2, RequestStep
  <2>3. CASE ServerHandleDisconnect(m)
    BY <2>3, DeleteStep DEF ServerHandleDisconnect
  <2> QED BY <1>1, <2>1, <2>2, <2>3 DEF ServerReceives
<1>2. CASE \E connect \in server : DeleteServer(connect)
  BY <1>2, DeleteStep
<1>3. CASE ServerRestart
  BY <1>3, ConstantTypes DEF ServerRestart, IInv, TypeOK, OneConnection,
       OnlyChallengedClients, Digests
<1> QED BY <1>1, <1>2, <1>3

LEMMA StepCorrect == IInv /\ [Next]_vars => IInv'
<1> SUFFICES ASSUME IInv, [Next]_vars PROVE IInv'
  OBVIOUS
<1>1. CASE UNCHANGED vars
  BY <1>1 DEF vars, IInv, TypeOK, OneConnection, OnlyChallengedClients
<1> QED BY <1>1, ClientSteps, ServerSteps DEF Next

LEMMA Invariant == Spec => []IInv
BY InitCorrect, StepCorrect, PTL DEF Spec

\* The fields of both ends and the packets keep to their types; the count of
\* the retries does so although it starts from an uninitialized value.
THEOREM HandshakeTypeCorrect == Spec => []TypeOK
<1>1. IInv => TypeOK
  BY DEF IInv
<1> QED BY <1>1, Invariant, PTL

\* The server has a record of no client it has not challenged since it started.
THEOREM ServerOnlyChallenged == Spec => []OnlyChallengedClients
<1>1. IInv => OnlyChallengedClients
  BY DEF IInv
<1> QED BY <1>1, Invariant, PTL

\* A repeated request never puts a new connection in the place of the one that
\* it has made.
THEOREM RepeatsAreHarmless == Spec => RepeatedRequestKeepsConnection
<1> DEFINE Kept == \A old \in server, new \in server' : old.by = new.by => old = new
<1>1. IInv /\ [Next]_vars => [Kept]_vars
  <2> SUFFICES ASSUME IInv, Next PROVE Kept
    OBVIOUS
  <2>1. server' \subseteq server \/ server = {}
    <3>1. CASE \/ StartConnection \/ CheckTimeouts \/ DeleteClient \/ ClientCrash
               \/ \E m \in toClient : ClientReceives(m)
      BY <3>1 DEF StartConnection, CheckTimeouts, DeleteClient, ClientCrash,
           ClientReceives, HandleConnectChallengeResponse, HandleConnectAccept,
           HandleConnectReject, ClientHandleDisconnect
    <3> QED BY <3>1, ServerSteps DEF Next
  <2> QED BY <2>1 DEF IInv, OneConnection
<1> QED BY <1>1, Invariant, PTL DEF Spec, RepeatedRequestKeepsConnection
=============================================================================
