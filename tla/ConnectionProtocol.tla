------------------------- MODULE ConnectionProtocol -------------------------
(***************************************************************************)
(* Two ends of one established session running ConnectionProtocol          *)
(* (network/connectionProtocol.cc), with the part of NetConnection that    *)
(* sends packets and keeps the queue of notifies (netConnection.cc,        *)
(* checkPacketSend and handleNotify).  One step is one call made by the    *)
(* main loop: the process is single threaded, so a received packet is      *)
(* processed to the end before anything else happens at that end.          *)
(*                                                                         *)
(* Both ends hold the same connect sequence, so the comparison of its low  *)
(* bit at the head of processRawPacket always succeeds here.  The contents *)
(* of data packets are the subject of NetEvent and NetGhost.               *)
(*                                                                         *)
(* The network (external: UDP) loses, duplicates and, unless InOrder,      *)
(* reorders packets, but delivers none so old that the sequence numbers    *)
(* have wrapped around since (Fresh).                                      *)
(***************************************************************************)
EXTENDS Integers, Sequences, FiniteSetsExt

CONSTANTS SeqMod,       \* 512: sequence numbers travel in 9 bits
          RecvWindow,   \* 31: how far ahead a packet is accepted
          SendWindow,   \* 30: windowFull()
          AckBits,      \* 32: width of mAckMask
          AckByte,      \* 8: bits per byte of the ack field
          MaxAckBytes,  \* 4: longest ack field
          Slots,        \* 32: size of mLastSeqRecvdAtSend
          InOrder,      \* whether the network keeps the order of packets
          MaxSeq,       \* bound: data packets each end sends
          MaxExtra      \* bound: pings and acks each end sends

Peers == {"client", "server"}
Other(p) == IF p = "client" THEN "server" ELSE "client"

ASSUME ProtocolConstants ==
  /\ {RecvWindow, SendWindow, AckBits, AckByte, MaxAckBytes, Slots} \subseteq Nat \ {0}
  /\ SeqMod \in Nat /\ SeqMod > RecvWindow + SendWindow
  /\ SendWindow =< Slots /\ SendWindow =< RecvWindow
  /\ SendWindow < AckBits
  /\ RecvWindow < AckBits
  /\ AckByte * MaxAckBytes = AckBits
  /\ InOrder \in BOOLEAN
  /\ MaxSeq \in [Peers -> Nat] /\ MaxExtra \in [Peers -> Nat]

VARIABLES
  lastSeqRecvdAtSend,   \* mLastSeqRecvdAtSend, indexed modulo Slots
  lastSeqRecvd,         \* mLastSeqRecvd
  highestAckedSeq,      \* mHighestAckedSeq
  lastSendSeq,          \* mLastSendSeq
  ackMask,              \* mAckMask, as the set of the positions of its 1 bits
  lastRecvAckAck,       \* mLastRecvAckAck
  notifyQueue,          \* mNotifyQueueHead...: the packets whose notify is due
  wire,                 \* wire[p]: packets that may still arrive at p
  extra,                \* pings and acks sent by p so far
  handled,              \* history: data packets handed to handlePacket at p
  acked, nacked         \* history: p's packets notified received / dropped

protocolVars == <<lastSeqRecvdAtSend, lastSeqRecvd, highestAckedSeq, lastSendSeq,
                  ackMask, lastRecvAckAck, notifyQueue>>
historyVars == <<handled, acked, nacked>>
vars == <<protocolVars, wire, extra, historyVars>>

Bits == 0 .. AckBits - 1
PacketType == {"data", "ping", "ack"}

\* seq and ack are the full numbers the sender holds; the receiver reads only
\* their low bits.  order is the position among the sender's packets.
Packet == [type : PacketType, seq : Nat, ack : Nat, bytes : Nat,
           mask : SUBSET Bits, order : Nat]

TypeOK ==
  /\ lastSeqRecvdAtSend \in [Peers -> [0 .. Slots - 1 -> Nat]]
  /\ lastSeqRecvd \in [Peers -> Nat]
  /\ highestAckedSeq \in [Peers -> Nat]
  /\ lastSendSeq \in [Peers -> Nat]
  /\ ackMask \in [Peers -> SUBSET Bits]
  /\ lastRecvAckAck \in [Peers -> Nat]
  /\ notifyQueue \in [Peers -> Seq(Nat)]
  /\ wire \in [Peers -> SUBSET Packet]
  /\ extra \in [Peers -> Nat]
  /\ handled \in [Peers -> SUBSET Nat]
  /\ acked \in [Peers -> SUBSET Nat]
  /\ nacked \in [Peers -> SUBSET Nat]

Init ==
  /\ lastSeqRecvdAtSend \in [Peers -> {[s \in 0 .. Slots - 1 |-> 0]}]
  /\ lastSeqRecvd = [p \in Peers |-> 0]
  /\ highestAckedSeq = [p \in Peers |-> 0]
  /\ lastSendSeq = [p \in Peers |-> 0]
  /\ ackMask = [p \in Peers |-> {}]
  /\ lastRecvAckAck = [p \in Peers |-> 0]
  /\ notifyQueue = [p \in Peers |-> <<>>]
  /\ wire = [p \in Peers |-> {}]
  /\ extra = [p \in Peers |-> 0]
  /\ handled = [p \in Peers |-> {}]
  /\ acked = [p \in Peers |-> {}]
  /\ nacked = [p \in Peers |-> {}]

-----------------------------------------------------------------------------
(* Building and sending a packet.                                          *)

\* (mutant) The byte count is rounded down.
AckByteCountRoundedDown(recvd, ackAck) == (recvd - ackAck) \div AckByte

\* How many bytes of mAckMask the header carries.
AckByteCount(recvd, ackAck) == (recvd - ackAck + AckByte - 1) \div AckByte

\* buildSendPacketHeader: only the low bits of the mask that fit the count
\* are written.
BuildSendPacketHeader(type, seq, recvd, ackAck, mask, order) ==
  LET bytes == AckByteCount(recvd, ackAck)
  IN  [type |-> type, seq |-> seq, ack |-> recvd, bytes |-> bytes,
       mask |-> {b \in mask : b < AckByte * bytes}, order |-> order]

\* (mutant) One packet more than the window.
WindowFullOneLate(p) == lastSendSeq[p] - highestAckedSeq[p] > SendWindow

WindowFull(p) == lastSendSeq[p] - highestAckedSeq[p] >= SendWindow

\* checkPacketSend: a data packet and the notify kept for it.
CheckPacketSend(p) ==
  LET seq == lastSendSeq[p] + 1
  IN  /\ ~WindowFull(p)
      /\ seq =< MaxSeq[p]
      /\ lastSendSeq' = [lastSendSeq EXCEPT ![p] = seq]
      /\ lastSeqRecvdAtSend' =
           [lastSeqRecvdAtSend EXCEPT ![p][seq % Slots] = lastSeqRecvd[p]]
      /\ notifyQueue' = [notifyQueue EXCEPT ![p] = Append(@, seq)]
      /\ wire' = [wire EXCEPT ![Other(p)] = @ \cup
           {BuildSendPacketHeader("data", seq, lastSeqRecvd[p], lastRecvAckAck[p],
                                  ackMask[p], seq + extra[p])}]
      /\ UNCHANGED <<lastSeqRecvd, highestAckedSeq, ackMask, lastRecvAckAck,
                     extra, historyVars>>

\* (mutant) A ping takes a sequence number of its own.
SendPingPacketNumbered(p) ==
  /\ extra[p] < MaxExtra[p]
  /\ extra' = [extra EXCEPT ![p] = @ + 1]
  /\ lastSendSeq' = [lastSendSeq EXCEPT ![p] = @ + 1]
  /\ UNCHANGED <<lastSeqRecvdAtSend, lastSeqRecvd, highestAckedSeq, ackMask,
                 lastRecvAckAck, notifyQueue, wire, historyVars>>

\* sendPingPacket, called by checkTimeout when the other end has been silent.
SendPingPacket(p) ==
  /\ extra[p] < MaxExtra[p]
  /\ extra' = [extra EXCEPT ![p] = @ + 1]
  /\ wire' = [wire EXCEPT ![Other(p)] = @ \cup
       {BuildSendPacketHeader("ping", lastSendSeq[p], lastSeqRecvd[p],
                              lastRecvAckAck[p], ackMask[p],
                              lastSendSeq[p] + extra[p] + 1)}]
  /\ UNCHANGED <<protocolVars, historyVars>>

-----------------------------------------------------------------------------
(* Processing a packet.                                                    *)

\* (mutant) No account of the wrap around.
DecodeNoWrap(bits, base) == (base - (base % SeqMod)) + bits

\* (mutant) A number equal to the last one is taken for a wrapped one.
DecodeWrapsAtEqual(bits, base) ==
  LET n == (base - (base % SeqMod)) + bits
  IN  IF n =< base THEN n + SeqMod ELSE n

\* The number that has the low bits received and is the first such number
\* from base on.
Decode(bits, base) ==
  LET n == (base - (base % SeqMod)) + bits
  IN  IF n < base THEN n + SeqMod ELSE n

PacketSeq(p, pkt) == Decode(pkt.seq % SeqMod, lastSeqRecvd[p])
PacketAck(p, pkt) == Decode(pkt.ack % SeqMod, highestAckedSeq[p])

\* The early returns of processRawPacket: a packet that fails one of these
\* changes nothing.
Accepted(p, pkt) == /\ pkt.bytes =< MaxAckBytes
                    /\ PacketSeq(p, pkt) =< lastSeqRecvd[p] + RecvWindow
                    /\ PacketAck(p, pkt) =< lastSendSeq[p]

\* (mutant) The mask is wider than its 32 bits.
ShiftedMaskUnbounded(mask, delta, isData) ==
  {b + delta : b \in mask} \cup (IF isData THEN {0} ELSE {})

\* mAckMask <<= delta; a data packet is then acked in bit 0.
ShiftedMask(mask, delta, isData) ==
  {b \in Bits : b - delta \in mask} \cup (IF isData THEN {0} ELSE {})

\* (mutant) The bits are read one place off.
SuccessesOffByOne(mask, count) == {j \in 1 .. count : count - j + 1 \in mask}

\* Of the count packets this one notifies, the indices of those whose bit of
\* the ack field is set.
Successes(mask, count) == {j \in 1 .. count : count - j \in mask}

\* (mutant) The other end's window is not consulted.
AckAckAfterNoClamp(slots, ackAck, highest, won, seq) ==
  IF won = {} THEN ackAck ELSE slots[(highest + Max(won)) % Slots]

\* mLastRecvAckAck after the notifies: what this end had received when it sent
\* the last packet now acked, or more when the other end's window says so.
AckAckAfter(slots, ackAck, highest, won, seq) ==
  LET known == IF won = {} THEN ackAck ELSE slots[(highest + Max(won)) % Slots]
  IN  IF seq - known > AckBits THEN seq - AckBits ELSE known

\* handleNotify pops one notify per packet acked or nacked.
HandleNotifies(p, won, count) ==
  /\ acked' = [acked EXCEPT ![p] = @ \cup {notifyQueue[p][j] : j \in won}]
  /\ nacked' = [nacked EXCEPT ![p] =
                  @ \cup {notifyQueue[p][j] : j \in (1 .. count) \ won}]
  /\ notifyQueue' = [notifyQueue EXCEPT ![p] = SubSeq(@, count + 1, Len(@))]

\* A ping is acked with the mask already shifted, but with mLastSeqRecvd as it
\* was before the ping.
AckPacketFor(p, pkt, ackAck, mask) ==
  IF pkt.type # "ping" THEN {}
  ELSE {BuildSendPacketHeader("ack", lastSendSeq[p], lastSeqRecvd[p], ackAck, mask,
                              lastSendSeq[p] + extra[p] + 1)}

\* handlePacket is called for a data packet unless its sequence number is the
\* last one received.
HandlePacket(p, pkt, seq) ==
  handled' = [handled EXCEPT ![p] =
                IF pkt.type = "data" /\ seq # lastSeqRecvd[p]
                  THEN @ \cup {pkt.seq} ELSE @]

\* A packet is never so late that its low bits are taken for a newer number.
Fresh(p, pkt) == /\ lastSeqRecvd[p] - pkt.seq < SeqMod - RecvWindow
                 /\ highestAckedSeq[p] - pkt.ack < SeqMod - SendWindow

ProcessRawPacket(p, pkt) ==
  LET seq   == PacketSeq(p, pkt)
      count == PacketAck(p, pkt) - highestAckedSeq[p]
      won   == Successes(pkt.mask, count)
      mask  == ShiftedMask(ackMask[p], seq - lastSeqRecvd[p], pkt.type = "data")
      ackAck == AckAckAfter(lastSeqRecvdAtSend[p], lastRecvAckAck[p],
                            highestAckedSeq[p], won, seq)
  IN  /\ Accepted(p, pkt)
      /\ pkt.type = "ping" => extra[p] < MaxExtra[p]
      /\ ackMask' = [ackMask EXCEPT ![p] = mask]
      /\ HandleNotifies(p, won, count)
      /\ lastRecvAckAck' = [lastRecvAckAck EXCEPT ![p] = ackAck]
      /\ highestAckedSeq' = [highestAckedSeq EXCEPT ![p] = PacketAck(p, pkt)]
      /\ extra' = [extra EXCEPT ![p] = IF pkt.type = "ping" THEN @ + 1 ELSE @]
      /\ wire' = [q \in Peers |->
                    IF q = p
                      THEN IF InOrder THEN {m \in wire[p] : m.order > pkt.order}
                                      ELSE wire[p]
                      ELSE wire[q] \cup AckPacketFor(p, pkt, ackAck, mask)]
      /\ lastSeqRecvd' = [lastSeqRecvd EXCEPT ![p] = seq]
      /\ HandlePacket(p, pkt, seq)
      /\ UNCHANGED <<lastSeqRecvdAtSend, lastSendSeq>>

\* The network hands p a packet; out of order delivery leaves it on the wire,
\* so that it may also come twice.  A packet never received is a lost one.
Receive(p) == \E pkt \in wire[p] : Fresh(p, pkt) /\ ProcessRawPacket(p, pkt)

Next == \E p \in Peers : CheckPacketSend(p) \/ SendPingPacket(p) \/ Receive(p)

Spec == Init /\ [][Next]_vars

-----------------------------------------------------------------------------
(* Properties.                                                             *)

\* The queue of notifies and the protocol's window speak of the same packets:
\* the assertion of handleNotify never fails and the outcome computed for a
\* sequence number reaches the note of the packet that carries it.
NotifyQueueIsWindow ==
  \A p \in Peers :
    /\ Len(notifyQueue[p]) = lastSendSeq[p] - highestAckedSeq[p]
    /\ \A j \in 1 .. Len(notifyQueue[p]) :
         notifyQueue[p][j] = highestAckedSeq[p] + j

\* The assertion of buildSendPacketHeader: four bytes are always enough for
\* the acks the other end may still be waiting for.
AckFieldFits ==
  \A p \in Peers : AckByteCount(lastSeqRecvd[p], lastRecvAckAck[p]) =< MaxAckBytes

\* A packet reported received to its sender was handled by the other end.
AckedWasHandled == \A p \in Peers : acked[p] \subseteq handled[Other(p)]

\* A packet reported dropped to its sender was not and will never be handled:
\* what the sender sends again does not arrive twice.
NackedNeverHandled == \A p \in Peers : nacked[p] \cap handled[Other(p)] = {}

\* A packet newer than the last one received is never refused, and its numbers
\* are read as the sender wrote them, across the wrap of the 9 bits: the two
\* ends' windows fit each other.
NewerIsAccepted ==
  \A p \in Peers : \A pkt \in wire[p] :
    Fresh(p, pkt) /\ pkt.seq > lastSeqRecvd[p] =>
      /\ Accepted(p, pkt)
      /\ PacketSeq(p, pkt) = pkt.seq
      /\ PacketAck(p, pkt) = pkt.ack

\* The packets an end handles come in the order they were sent in, none twice.
HandledInOrder ==
  [][\A p \in Peers : \A n \in handled'[p] \ handled[p] :
       \A m \in handled[p] : m < n]_vars

\* The direction from p to the other end, seen as a NotifyWindow.
FateOf(p) == [i \in 1 .. lastSendSeq[p] |->
                CASE i \in handled[Other(p)] -> "handled"
                  [] i \notin handled[Other(p)] /\ i =< lastSeqRecvd[Other(p)] -> "lost"
                  [] OTHER -> "flying"]
ToldOf(p) == [i \in 1 .. highestAckedSeq[p] |-> i \in acked[p]]

ToServer == INSTANCE NotifyWindow WITH fate <- FateOf("client"), told <- ToldOf("client")
ToClient == INSTANCE NotifyWindow WITH fate <- FateOf("server"), told <- ToldOf("server")

\* Each direction is a notify window, whatever the other direction carries.
EachWayNotifies == ToServer!Spec /\ ToClient!Spec
=============================================================================
