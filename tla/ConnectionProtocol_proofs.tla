---------------------- MODULE ConnectionProtocol_proofs ----------------------
EXTENDS ConnectionProtocol, TLAPS, WellFoundedInduction, SequenceTheorems

-----------------------------------------------------------------------------
(* Arithmetic of the header.                                               *)

\* A remainder lies below its divisor (indexing of mLastSeqRecvdAtSend).
LEMMA ModRange == ASSUME NEW a \in Nat, NEW n \in Nat \ {0}
                  PROVE  a % n \in 0 .. n - 1
  OBVIOUS

LEMMA ModDecompose == ASSUME NEW a \in Nat, NEW n \in Nat \ {0}
                      PROVE  a = n * (a \div n) + (a % n) /\ a \div n \in Nat
  OBVIOUS

LEMMA NoMultipleBetween ==
  ASSUME NEW n \in Nat \ {0}, NEW k \in Int, -n < n * k, n * k < n
  PROVE  k = 0
  <1>1. k >= 1 => n * k >= n
    OBVIOUS
  <1>2. k =< -1 => n * k =< -n
    OBVIOUS
  <1> QED BY <1>1, <1>2

\* Decode gives the first number from base on that has the low bits of value.
LEMMA DecodeRange ==
  ASSUME NEW value \in Nat, NEW base \in Nat
  PROVE  /\ Decode(value % SeqMod, base) \in Nat
         /\ base =< Decode(value % SeqMod, base)
         /\ Decode(value % SeqMod, base) < base + SeqMod
         /\ \E k \in Int : Decode(value % SeqMod, base) = value + SeqMod * k
  <1> DEFINE v == value % SeqMod
             b == base % SeqMod
             n == (base - b) + v
  <1>0. SeqMod \in Nat \ {0}
    BY ProtocolConstants
  <1>1. v \in 0 .. SeqMod - 1 /\ b \in 0 .. SeqMod - 1
    BY <1>0, ModRange
  <1>2. value = SeqMod * (value \div SeqMod) + v /\ value \div SeqMod \in Nat
    BY <1>0, ModDecompose
  <1>3. base = SeqMod * (base \div SeqMod) + b /\ base \div SeqMod \in Nat
    BY <1>0, ModDecompose
  <1>4. base - b >= 0
    BY <1>0, <1>3
  <1>5. n = value + SeqMod * ((base \div SeqMod) - (value \div SeqMod))
    BY <1>0, <1>1, <1>2, <1>3
  <1>6. n + SeqMod = value + SeqMod * ((base \div SeqMod) - (value \div SeqMod) + 1)
    BY <1>0, <1>1, <1>2, <1>3, <1>5
  <1>7. Decode(v, base) = IF n < base THEN n + SeqMod ELSE n
    BY DEF Decode
  <1>8. \E k \in Int : Decode(v, base) = value + SeqMod * k
    BY <1>2, <1>3, <1>5, <1>6, <1>7
  <1>9. n \in Nat /\ base - SeqMod < n /\ n < base + SeqMod
    BY <1>0, <1>1, <1>4
  <1> HIDE DEF v, b, n
  <1>10. /\ Decode(v, base) \in Nat
         /\ base =< Decode(v, base)
         /\ Decode(v, base) < base + SeqMod
    BY <1>0, <1>7, <1>9
  <1> QED BY <1>8, <1>10 DEF v

\* A number that is not too old, and that reads as one within the window,
\* is read as it was written.
LEMMA DecodeFresh ==
  ASSUME NEW value \in Nat, NEW base \in Nat, NEW w \in Nat,
         base - value < SeqMod - w, value < base + SeqMod,
         Decode(value % SeqMod, base) =< base + w
  PROVE  Decode(value % SeqMod, base) = value
  <1>0. SeqMod \in Nat \ {0}
    BY ProtocolConstants
  <1> DEFINE d == Decode(value % SeqMod, base)
  <1>1. d \in Nat /\ base =< d /\ \E k \in Int : d = value + SeqMod * k
    BY DecodeRange
  <1>2. PICK k \in Int : d = value + SeqMod * k
    BY <1>1
  <1> HIDE DEF d
  <1>3. -SeqMod < d - value /\ d - value < SeqMod
    BY <1>0, <1>1 DEF d
  <1>4. k = 0
    BY <1>0, <1>1, <1>2, <1>3, NoMultipleBetween
  <1> QED BY <1>0, <1>1, <1>2, <1>4 DEF d

\* The bytes of the header cover the difference they are computed from.
LEMMA AckByteCountCovers ==
  ASSUME NEW recvd \in Nat, NEW ackAck \in Nat, ackAck =< recvd
  PROVE  /\ AckByteCount(recvd, ackAck) \in Nat
         /\ recvd - ackAck =< AckByte * AckByteCount(recvd, ackAck)
  <1> DEFINE m == recvd - ackAck + AckByte - 1
  <1>1. AckByte \in Nat \ {0}
    BY ProtocolConstants
  <1>2. m \in Nat
    BY <1>1
  <1>3. /\ m = AckByte * (m \div AckByte) + (m % AckByte)
        /\ m \div AckByte \in Nat
        /\ m % AckByte \in 0 .. AckByte - 1
    BY <1>1, <1>2, ModRange, ModDecompose
  <1> QED BY <1>1, <1>3 DEF AckByteCount

\* The last of the packets acked exists.
LEMMA MaxInRange ==
  ASSUME NEW n \in Nat, NEW S \in SUBSET (1 .. n), S # {}
  PROVE  Max(S) \in S
  <1> DEFINE R == OpToRel(<, Nat)
             T == {n - x : x \in S}
  <1>1. T \subseteq Nat /\ T # {}
    <2>1. \A x \in S : n - x \in Nat
      OBVIOUS
    <2> QED BY <2>1 DEF T
  <1>2. \E x \in T : \A y \in T : ~ (<<y, x>> \in R)
    BY <1>1, NatLessThanWellFounded, WFMin
  <1>3. PICK z \in S : \A y \in T : ~ (<<y, n - z>> \in R)
    BY <1>2
  <1>4. \A y \in S : z >= y
    <2> SUFFICES ASSUME NEW y \in S, y > z PROVE FALSE
      OBVIOUS
    <2>1. n - y \in Nat /\ n - z \in Nat /\ n - y < n - z
      OBVIOUS
    <2>2. <<n - y, n - z>> \in R
      BY <2>1 DEF OpToRel
    <2> QED BY <1>3, <2>2
  <1> QED BY <1>4 DEF Max

-----------------------------------------------------------------------------
(* Types and the queue of notifies, with pings and acks.                   *)

\* What a peer thinks the other end knows never exceeds what it received.
AckAckBounded ==
  \A p \in Peers :
    /\ lastRecvAckAck[p] =< lastSeqRecvd[p]
    /\ \A s \in 0 .. Slots - 1 : lastSeqRecvdAtSend[p][s] =< lastSeqRecvd[p]

TypeInv == TypeOK /\ NotifyQueueIsWindow /\ AckAckBounded

LEMMA ConstantTypes ==
  /\ SeqMod \in Nat \ {0} /\ RecvWindow \in Nat \ {0} /\ SendWindow \in Nat \ {0}
  /\ AckBits \in Nat \ {0} /\ AckByte \in Nat \ {0} /\ MaxAckBytes \in Nat \ {0}
  /\ Slots \in Nat \ {0}
  /\ SeqMod > RecvWindow + SendWindow /\ SendWindow =< Slots
  /\ SendWindow < AckBits /\ RecvWindow < AckBits
  BY ProtocolConstants

LEMMA PeersFact == \A p \in Peers : Other(p) \in Peers /\ Other(p) # p
                                    /\ Other(Other(p)) = p
                                    /\ Peers = {p, Other(p)}
  BY DEF Peers, Other

LEMMA HeaderType ==
  ASSUME NEW type \in PacketType, NEW seq \in Nat, NEW recvd \in Nat,
         NEW ackAck \in Nat, ackAck =< recvd, NEW mask \in SUBSET Bits,
         NEW order \in Nat
  PROVE  BuildSendPacketHeader(type, seq, recvd, ackAck, mask, order) \in Packet
  BY AckByteCountCovers DEF BuildSendPacketHeader, Packet

LEMMA TypeInit == Init => TypeInv
  <1> SUFFICES ASSUME Init PROVE TypeInv
    OBVIOUS
  <1> USE ConstantTypes DEF Init
  <1>1. TypeOK
    BY DEF TypeOK
  <1>2. NotifyQueueIsWindow
    BY DEF NotifyQueueIsWindow
  <1>3. AckAckBounded
    BY DEF AckAckBounded
  <1> QED BY <1>1, <1>2, <1>3 DEF TypeInv

LEMMA TypeCheckPacketSend ==
  ASSUME TypeInv, NEW p \in Peers, CheckPacketSend(p)
  PROVE  TypeInv'
  <1> DEFINE q == Other(p)
             seq == lastSendSeq[p] + 1
  <1> USE PeersFact
  <1>0. TypeOK /\ NotifyQueueIsWindow /\ AckAckBounded
    BY DEF TypeInv
  <1>1. seq \in Nat /\ seq % Slots \in 0 .. Slots - 1
    <2>1. seq \in Nat
      BY <1>0 DEF TypeOK
    <2> HIDE DEF seq
    <2> QED BY <2>1, ModRange, ConstantTypes
  <1>2. BuildSendPacketHeader("data", seq, lastSeqRecvd[p], lastRecvAckAck[p],
                              ackMask[p], seq + extra[p]) \in Packet
    BY <1>0, <1>1, HeaderType DEF TypeOK, AckAckBounded, PacketType
  <1>3. TypeOK'
    <2>1. lastSeqRecvdAtSend' \in [Peers -> [0 .. Slots - 1 -> Nat]]
      BY <1>0, <1>1 DEF TypeOK, CheckPacketSend
    <2>2. wire' \in [Peers -> SUBSET Packet]
      BY <1>0, <1>2 DEF TypeOK, CheckPacketSend
    <2>3. lastSendSeq' \in [Peers -> Nat] /\ notifyQueue' \in [Peers -> Seq(Nat)]
      BY <1>0, <1>1 DEF TypeOK, CheckPacketSend
    <2> QED BY <1>0, <2>1, <2>2, <2>3 DEF TypeOK, CheckPacketSend, historyVars
  <1>4. NotifyQueueIsWindow'
    <2> SUFFICES ASSUME NEW r \in Peers
                 PROVE  /\ Len(notifyQueue'[r]) = lastSendSeq'[r] - highestAckedSeq'[r]
                        /\ \A j \in 1 .. Len(notifyQueue'[r]) :
                             notifyQueue'[r][j] = highestAckedSeq'[r] + j
      BY DEF NotifyQueueIsWindow
    <2>1. CASE r = p
      <3>1. notifyQueue'[p] = Append(notifyQueue[p], seq)
        BY <1>0 DEF CheckPacketSend, TypeOK
      <3>2. lastSendSeq'[p] = seq /\ highestAckedSeq' = highestAckedSeq
        BY <1>0 DEF CheckPacketSend, TypeOK
      <3>3. notifyQueue[p] \in Seq(Nat)
        BY <1>0 DEF TypeOK
      <3> QED BY <1>0, <2>1, <3>1, <3>2, <3>3 DEF TypeOK, NotifyQueueIsWindow
    <2>2. CASE r # p
      BY <1>0, <2>2 DEF CheckPacketSend, TypeOK, NotifyQueueIsWindow
    <2> QED BY <2>1, <2>2
  <1>5. AckAckBounded'
    BY <1>0, <1>1 DEF CheckPacketSend, TypeOK, AckAckBounded
  <1> QED BY <1>3, <1>4, <1>5 DEF TypeInv

LEMMA TypeSendPingPacket ==
  ASSUME TypeInv, NEW p \in Peers, SendPingPacket(p)
  PROVE  TypeInv'
  <1> USE PeersFact
  <1>0. TypeOK /\ NotifyQueueIsWindow /\ AckAckBounded
    BY DEF TypeInv
  <1>1. BuildSendPacketHeader("ping", lastSendSeq[p], lastSeqRecvd[p],
                              lastRecvAckAck[p], ackMask[p],
                              lastSendSeq[p] + extra[p] + 1) \in Packet
    BY <1>0, HeaderType DEF TypeOK, AckAckBounded, PacketType
  <1>2. TypeOK'
    <2>1. wire' \in [Peers -> SUBSET Packet]
      BY <1>0, <1>1 DEF TypeOK, SendPingPacket
    <2>2. extra' \in [Peers -> Nat]
      BY <1>0 DEF TypeOK, SendPingPacket
    <2> QED BY <1>0, <2>1, <2>2 DEF TypeOK, SendPingPacket, protocolVars, historyVars
  <1>3. NotifyQueueIsWindow' /\ AckAckBounded'
    BY <1>0 DEF SendPingPacket, protocolVars, NotifyQueueIsWindow, AckAckBounded
  <1> QED BY <1>2, <1>3 DEF TypeInv

\* The values ProcessRawPacket computes, and where they lie.
LEMMA ProcessValues ==
  ASSUME TypeInv, NEW p \in Peers, NEW pkt \in Packet, Accepted(p, pkt),
         NEW seq, seq = PacketSeq(p, pkt),
         NEW count, count = PacketAck(p, pkt) - highestAckedSeq[p],
         NEW won, won = Successes(pkt.mask, count),
         NEW mask, mask = ShiftedMask(ackMask[p], seq - lastSeqRecvd[p],
                                      pkt.type = "data"),
         NEW ackAck, ackAck = AckAckAfter(lastSeqRecvdAtSend[p], lastRecvAckAck[p],
                                          highestAckedSeq[p], won, seq)
  PROVE  /\ seq \in Nat /\ lastSeqRecvd[p] =< seq
         /\ seq =< lastSeqRecvd[p] + RecvWindow
         /\ PacketAck(p, pkt) \in Nat
         /\ count \in 0 .. Len(notifyQueue[p])
         /\ won \in SUBSET (1 .. count)
         /\ mask \in SUBSET Bits
         /\ ackAck \in Nat /\ ackAck =< lastSeqRecvd[p]
  <1> USE ConstantTypes
  <1>0. TypeOK /\ NotifyQueueIsWindow /\ AckAckBounded
    BY DEF TypeInv
  <1>1. /\ lastSeqRecvd[p] \in Nat /\ highestAckedSeq[p] \in Nat
        /\ lastSendSeq[p] \in Nat /\ lastRecvAckAck[p] \in Nat
        /\ pkt.seq \in Nat /\ pkt.ack \in Nat
    BY <1>0 DEF TypeOK, Packet
  <1>2. seq \in Nat /\ lastSeqRecvd[p] =< seq /\ seq =< lastSeqRecvd[p] + RecvWindow
    BY <1>1, DecodeRange DEF PacketSeq, Accepted
  <1>3. /\ PacketAck(p, pkt) \in Nat /\ highestAckedSeq[p] =< PacketAck(p, pkt)
        /\ PacketAck(p, pkt) =< lastSendSeq[p]
    BY <1>1, DecodeRange DEF PacketAck, Accepted
  <1>4. count \in 0 .. Len(notifyQueue[p])
    <2>1. Len(notifyQueue[p]) = lastSendSeq[p] - highestAckedSeq[p]
      BY <1>0 DEF NotifyQueueIsWindow
    <2> QED BY <1>1, <1>3, <2>1
  <1>5. won \in SUBSET (1 .. count)
    BY DEF Successes
  <1>6. mask \in SUBSET Bits
    <2>1. 0 \in Bits
      BY DEF Bits
    <2> QED BY <2>1 DEF ShiftedMask
  <1>7. ackAck \in Nat /\ ackAck =< lastSeqRecvd[p]
    <2> DEFINE i == highestAckedSeq[p] + Max(won)
               known == IF won = {} THEN lastRecvAckAck[p]
                                    ELSE lastSeqRecvdAtSend[p][i % Slots]
    <2>1. won # {} => i % Slots \in 0 .. Slots - 1
      <3> SUFFICES ASSUME won # {} PROVE i % Slots \in 0 .. Slots - 1
        OBVIOUS
      <3>1. Max(won) \in 1 .. count
        <4>1. count \in Nat
          BY <1>1, <1>3
        <4>2. Max(won) \in won
          BY <1>5, <4>1, MaxInRange
        <4> QED BY <1>5, <4>2
      <3>2. i \in Nat
        BY <1>1, <1>4, <3>1
      <3> HIDE DEF i
      <3> QED BY <3>2, ModRange
    <2>2. known \in Nat /\ known =< lastSeqRecvd[p]
      <3>1. CASE won = {}
        BY <1>0, <1>1, <3>1 DEF AckAckBounded
      <3>2. CASE won # {}
        <4> HIDE DEF i
        <4>1. lastSeqRecvdAtSend[p] \in [0 .. Slots - 1 -> Nat]
          BY <1>0 DEF TypeOK
        <4> QED BY <1>0, <2>1, <3>2, <4>1 DEF AckAckBounded
      <3> QED BY <3>1, <3>2
    <2>3. ackAck = IF seq - known > AckBits THEN seq - AckBits ELSE known
      BY DEF AckAckAfter
    <2> HIDE DEF known
    <2> QED BY <1>1, <1>2, <2>2, <2>3
  <1> QED BY <1>2, <1>3, <1>4, <1>5, <1>6, <1>7

LEMMA TypeProcessRawPacket ==
  ASSUME TypeInv, NEW p \in Peers, NEW pkt \in wire[p], ProcessRawPacket(p, pkt)
  PROVE  TypeInv'
  <1> DEFINE seq == PacketSeq(p, pkt)
             count == PacketAck(p, pkt) - highestAckedSeq[p]
             won == Successes(pkt.mask, count)
             mask == ShiftedMask(ackMask[p], seq - lastSeqRecvd[p], pkt.type = "data")
             ackAck == AckAckAfter(lastSeqRecvdAtSend[p], lastRecvAckAck[p],
                                   highestAckedSeq[p], won, seq)
  <1> USE PeersFact
  <1>0. TypeOK /\ NotifyQueueIsWindow /\ AckAckBounded
    BY DEF TypeInv
  <1>1. pkt \in Packet
    BY <1>0 DEF TypeOK
  <1>2. Accepted(p, pkt)
    BY DEF ProcessRawPacket
  <1>3. /\ seq \in Nat /\ lastSeqRecvd[p] =< seq
        /\ seq =< lastSeqRecvd[p] + RecvWindow
        /\ PacketAck(p, pkt) \in Nat
        /\ count \in 0 .. Len(notifyQueue[p])
        /\ won \in SUBSET (1 .. count)
        /\ mask \in SUBSET Bits
        /\ ackAck \in Nat /\ ackAck =< lastSeqRecvd[p]
    BY <1>1, <1>2, ProcessValues
  <1>4. /\ ackMask' = [ackMask EXCEPT ![p] = mask]
        /\ HandleNotifies(p, won, count)
        /\ lastRecvAckAck' = [lastRecvAckAck EXCEPT ![p] = ackAck]
        /\ highestAckedSeq' = [highestAckedSeq EXCEPT ![p] = PacketAck(p, pkt)]
        /\ extra' = [extra EXCEPT ![p] = IF pkt.type = "ping" THEN @ + 1 ELSE @]
        /\ wire' = [q \in Peers |->
                      IF q = p
                        THEN IF InOrder THEN {m \in wire[p] : m.order > pkt.order}
                                        ELSE wire[p]
                        ELSE wire[q] \cup AckPacketFor(p, pkt, ackAck, mask)]
        /\ lastSeqRecvd' = [lastSeqRecvd EXCEPT ![p] = seq]
        /\ HandlePacket(p, pkt, seq)
        /\ UNCHANGED <<lastSeqRecvdAtSend, lastSendSeq>>
    BY DEF ProcessRawPacket
  <1>5. pkt.seq \in Nat
    BY <1>1 DEF Packet
  <1> HIDE DEF seq, count, won, mask, ackAck
  <1>6. TypeOK'
    <2>1. wire' \in [Peers -> SUBSET Packet]
      <3>1. AckPacketFor(p, pkt, ackAck, mask) \subseteq Packet
        BY <1>0, <1>3, HeaderType DEF AckPacketFor, TypeOK, PacketType
      <3>2. \A r \in Peers : wire[r] \in SUBSET Packet
        BY <1>0 DEF TypeOK
      <3> QED BY <1>4, <3>1, <3>2
    <2>2. /\ notifyQueue' \in [Peers -> Seq(Nat)]
          /\ acked' \in [Peers -> SUBSET Nat]
          /\ nacked' \in [Peers -> SUBSET Nat]
      <3>1. notifyQueue[p] \in Seq(Nat)
        BY <1>0 DEF TypeOK
      <3>2. \A j \in 1 .. count : notifyQueue[p][j] \in Nat
        BY <1>3, <3>1
      <3>3. SubSeq(notifyQueue[p], count + 1, Len(notifyQueue[p])) \in Seq(Nat)
        BY <1>3, <3>1
      <3>4. {notifyQueue[p][j] : j \in won} \subseteq Nat
        BY <1>3, <3>2
      <3>5. {notifyQueue[p][j] : j \in (1 .. count) \ won} \subseteq Nat
        BY <1>3, <3>2
      <3>6. notifyQueue \in [Peers -> Seq(Nat)] /\ acked \in [Peers -> SUBSET Nat]
            /\ nacked \in [Peers -> SUBSET Nat]
        BY <1>0 DEF TypeOK
      <3>7. notifyQueue' \in [Peers -> Seq(Nat)]
        BY <1>4, <3>3, <3>6 DEF HandleNotifies
      <3>8. acked' \in [Peers -> SUBSET Nat]
        BY <1>4, <3>4, <3>6 DEF HandleNotifies
      <3>9. nacked' \in [Peers -> SUBSET Nat]
        BY <1>4, <3>5, <3>6 DEF HandleNotifies
      <3> QED BY <3>7, <3>8, <3>9
    <2>3. handled' \in [Peers -> SUBSET Nat] /\ extra' \in [Peers -> Nat]
      BY <1>0, <1>4, <1>5 DEF TypeOK, HandlePacket
    <2>4. /\ ackMask' \in [Peers -> SUBSET Bits]
          /\ lastRecvAckAck' \in [Peers -> Nat]
          /\ highestAckedSeq' \in [Peers -> Nat]
          /\ lastSeqRecvd' \in [Peers -> Nat]
      BY <1>0, <1>3, <1>4 DEF TypeOK
    <2> QED BY <1>0, <1>4, <2>1, <2>2, <2>3, <2>4 DEF TypeOK
  <1>7. NotifyQueueIsWindow'
    <2> SUFFICES ASSUME NEW r \in Peers
                 PROVE  /\ Len(notifyQueue'[r]) = lastSendSeq'[r] - highestAckedSeq'[r]
                        /\ \A j \in 1 .. Len(notifyQueue'[r]) :
                             notifyQueue'[r][j] = highestAckedSeq'[r] + j
      BY DEF NotifyQueueIsWindow
    <2>1. CASE r = p
      <3>1. notifyQueue[p] \in Seq(Nat) /\ highestAckedSeq[p] \in Nat
            /\ lastSendSeq[p] \in Nat
        BY <1>0 DEF TypeOK
      <3>2. notifyQueue'[p] = SubSeq(notifyQueue[p], count + 1, Len(notifyQueue[p]))
        BY <1>0, <1>4 DEF HandleNotifies, TypeOK
      <3>3. /\ highestAckedSeq'[p] = highestAckedSeq[p] + count
            /\ lastSendSeq'[p] = lastSendSeq[p]
        BY <1>0, <1>3, <1>4, <3>1 DEF TypeOK, count
      <3>4. /\ Len(notifyQueue[p]) = lastSendSeq[p] - highestAckedSeq[p]
            /\ \A j \in 1 .. Len(notifyQueue[p]) :
                 notifyQueue[p][j] = highestAckedSeq[p] + j
        BY <1>0 DEF NotifyQueueIsWindow
      <3>5. /\ Len(notifyQueue'[p]) = Len(notifyQueue[p]) - count
            /\ \A j \in 1 .. Len(notifyQueue[p]) - count :
                 notifyQueue'[p][j] = notifyQueue[p][count + j]
        BY <1>3, <3>1, <3>2
      <3>6. Len(notifyQueue'[p]) = lastSendSeq'[p] - highestAckedSeq'[p]
        BY <1>3, <3>1, <3>3, <3>4, <3>5
      <3>7. ASSUME NEW j \in 1 .. Len(notifyQueue'[p])
            PROVE  notifyQueue'[p][j] = highestAckedSeq'[p] + j
        <4>1. j \in 1 .. Len(notifyQueue[p]) - count
          BY <3>5
        <4>2. count + j \in 1 .. Len(notifyQueue[p]) /\ count \in Nat /\ j \in Nat
          BY <1>3, <3>1, <4>1
        <4>3. notifyQueue[p][count + j] = highestAckedSeq[p] + (count + j)
          BY <3>4, <4>2
        <4> QED BY <3>1, <3>3, <3>5, <4>1, <4>2, <4>3
      <3> QED BY <2>1, <3>6, <3>7
    <2>2. CASE r # p
      <3>1. /\ notifyQueue'[r] = notifyQueue[r]
            /\ highestAckedSeq'[r] = highestAckedSeq[r]
            /\ lastSendSeq'[r] = lastSendSeq[r]
        BY <1>0, <1>4, <2>2 DEF HandleNotifies, TypeOK
      <3>2. /\ Len(notifyQueue[r]) = lastSendSeq[r] - highestAckedSeq[r]
            /\ \A j \in 1 .. Len(notifyQueue[r]) :
                 notifyQueue[r][j] = highestAckedSeq[r] + j
        BY <1>0 DEF NotifyQueueIsWindow
      <3> QED BY <3>1, <3>2
    <2> QED BY <2>1, <2>2
  <1>8. AckAckBounded'
    <2>1. \A r \in Peers : /\ lastSeqRecvd[r] =< lastSeqRecvd'[r]
                           /\ lastSeqRecvdAtSend'[r] = lastSeqRecvdAtSend[r]
                           /\ lastSeqRecvd'[r] \in Nat /\ lastSeqRecvd[r] \in Nat
                           /\ lastSeqRecvdAtSend[r] \in [0 .. Slots - 1 -> Nat]
      BY <1>0, <1>3, <1>4 DEF TypeOK
    <2>2. \A r \in Peers : lastRecvAckAck'[r] =< lastSeqRecvd'[r]
      BY <1>0, <1>3, <1>4, <2>1 DEF TypeOK, AckAckBounded
    <2>3. ASSUME NEW r \in Peers, NEW s \in 0 .. Slots - 1
          PROVE  lastSeqRecvdAtSend'[r][s] =< lastSeqRecvd'[r]
      <3>1. lastSeqRecvdAtSend[r][s] =< lastSeqRecvd[r]
        BY <1>0 DEF AckAckBounded
      <3>2. lastSeqRecvdAtSend[r][s] \in Nat
        BY <2>1
      <3> QED BY <2>1, <3>1, <3>2
    <2> QED BY <2>2, <2>3 DEF AckAckBounded
  <1> QED BY <1>6, <1>7, <1>8 DEF TypeInv

LEMMA TypeInvariant == Spec => []TypeInv
  <1>1. TypeInv /\ [Next]_vars => TypeInv'
    <2> SUFFICES ASSUME TypeInv, [Next]_vars PROVE TypeInv'
      OBVIOUS
    <2>1. CASE Next
      BY <2>1, TypeCheckPacketSend, TypeSendPingPacket, TypeProcessRawPacket
         DEF Next, Receive
    <2>2. CASE UNCHANGED vars
      BY <2>2 DEF vars, protocolVars, historyVars, TypeInv, TypeOK,
                  NotifyQueueIsWindow, AckAckBounded
    <2> QED BY <2>1, <2>2
  <1> QED BY <1>1, TypeInit, PTL DEF Spec

\* Every field of both ends keeps its type, whatever the network does and with
\* any number of pings.
THEOREM TypeCorrect == Spec => []TypeOK
  <1>1. TypeInv => TypeOK
    BY DEF TypeInv
  <1> QED BY <1>1, TypeInvariant, PTL

\* The notify that handleNotify pops is the one of the packet being acked or
\* nacked, for any windows and with any number of pings.
THEOREM NotifyQueueCorrect == Spec => []NotifyQueueIsWindow
  <1>1. TypeInv => NotifyQueueIsWindow
    BY DEF TypeInv
  <1> QED BY <1>1, TypeInvariant, PTL

-----------------------------------------------------------------------------
(* Truthful notifies, as long as the ends send data packets only.          *)

DataOnly == MaxExtra = [p \in Peers |-> 0]

\* How far the two ends of one direction are apart.
WindowInv(p) ==
  /\ lastSeqRecvd[p] =< lastSendSeq[Other(p)]
  /\ highestAckedSeq[p] =< lastSeqRecvd[Other(p)]
  /\ highestAckedSeq[p] =< lastSendSeq[p]
  /\ lastSendSeq[p] =< highestAckedSeq[p] + SendWindow

HandledInv(p) == /\ handled[p] \subseteq 1 .. lastSeqRecvd[p]
                 /\ lastSeqRecvd[p] > 0 => lastSeqRecvd[p] \in handled[p]

\* The mask says which of the last packets were handled.
MaskInv(p) == \A b \in Bits : b \in ackMask[p] <=> lastSeqRecvd[p] - b \in handled[p]

\* What p takes the other end to know, the other end knows.
KnownInv(p) == lastRecvAckAck[p] =< highestAckedSeq[Other(p)]

SlotInv(p) ==
  \A i \in highestAckedSeq[p] + 1 .. lastSendSeq[p] :
    i \in handled[Other(p)] =>
      lastSeqRecvdAtSend[p][i % Slots] =< highestAckedSeq[Other(p)]

\* A packet p sent tells the truth about what p had handled, over enough bits
\* for all the receiver may still want to know.
PacketInv(p, pkt) ==
  /\ pkt.type = "data"
  /\ pkt.seq \in 1 .. lastSendSeq[p]
  /\ pkt.ack =< lastSeqRecvd[p]
  /\ \A b \in Bits : b \in pkt.mask => pkt.ack - b \in handled[p]
  /\ \A b \in Bits : b < AckByte * pkt.bytes /\ pkt.ack - b \in handled[p] => b \in pkt.mask
  /\ pkt.ack - AckByte * pkt.bytes =< highestAckedSeq[Other(p)]
  /\ pkt.seq > highestAckedSeq[p] =>
       lastSeqRecvdAtSend[p][pkt.seq % Slots] = pkt.ack

WireInv(p) == \A pkt \in wire[Other(p)] : PacketInv(p, pkt)

OutcomeInv(p) ==
  /\ acked[p] \cup nacked[p] \subseteq 1 .. highestAckedSeq[p]
  /\ acked[p] \subseteq handled[Other(p)]
  /\ nacked[p] \cap handled[Other(p)] = {}

PeerInv(p) == /\ extra[p] = 0
              /\ WindowInv(p)
              /\ HandledInv(p)
              /\ MaskInv(p)
              /\ KnownInv(p)
              /\ SlotInv(p)
              /\ WireInv(p)
              /\ OutcomeInv(p)

DataInv == \A p \in Peers : PeerInv(p)

LEMMA DataInit == Init => DataInv
  <1> USE ConstantTypes DEF Init
  <1> SUFFICES ASSUME Init, NEW p \in Peers PROVE PeerInv(p)
    BY DEF DataInv
  <1>1. Other(p) \in Peers
    BY PeersFact
  <1>2. extra[p] = 0 /\ WindowInv(p) /\ HandledInv(p) /\ KnownInv(p) /\ SlotInv(p)
    BY <1>1 DEF WindowInv, HandledInv, KnownInv, SlotInv
  <1>3. MaskInv(p) /\ WireInv(p) /\ OutcomeInv(p)
    BY <1>1 DEF MaskInv, WireInv, OutcomeInv
  <1> QED BY <1>2, <1>3 DEF PeerInv

\* Packets less than Slots apart have different slots.
LEMMA SlotsDiffer ==
  ASSUME NEW i \in Nat, NEW j \in Nat, i < j, j - i < Slots
  PROVE  i % Slots # j % Slots
  <1>1. i = Slots * (i \div Slots) + (i % Slots) /\ i \div Slots \in Nat
        /\ i % Slots \in 0 .. Slots - 1
    BY ConstantTypes, ModDecompose, ModRange
  <1>2. j = Slots * (j \div Slots) + (j % Slots) /\ j \div Slots \in Nat
        /\ j % Slots \in 0 .. Slots - 1
    BY ConstantTypes, ModDecompose, ModRange
  <1>3. SUFFICES ASSUME i % Slots = j % Slots PROVE FALSE
    OBVIOUS
  <1>4. j - i = Slots * ((j \div Slots) - (i \div Slots))
    BY <1>1, <1>2, <1>3, ConstantTypes
  <1>5. (j \div Slots) - (i \div Slots) = 0
    <2> DEFINE k == (j \div Slots) - (i \div Slots)
    <2>1. k \in Int
      BY <1>1, <1>2
    <2>2. -Slots < Slots * k /\ Slots * k < Slots
      BY <1>4, ConstantTypes
    <2> HIDE DEF k
    <2>3. k = 0
      BY <2>1, <2>2, ConstantTypes, NoMultipleBetween
    <2> QED BY <2>3 DEF k
  <1> QED BY <1>4, <1>5, ConstantTypes

LEMMA DataCheckPacketSend ==
  ASSUME TypeInv, DataInv, NEW p \in Peers, CheckPacketSend(p)
  PROVE  DataInv'
  <1> DEFINE q == Other(p)
             seq == lastSendSeq[p] + 1
             hdr == BuildSendPacketHeader("data", seq, lastSeqRecvd[p],
                      lastRecvAckAck[p], ackMask[p], seq + extra[p])
  <1>0. TypeOK /\ AckAckBounded
    BY DEF TypeInv
  <1>1. q \in Peers /\ q # p /\ Other(q) = p /\ Peers = {p, q}
    BY PeersFact
  <1>2. /\ \A r \in Peers : /\ lastSeqRecvd[r] \in Nat /\ highestAckedSeq[r] \in Nat
                            /\ lastSendSeq[r] \in Nat /\ lastRecvAckAck[r] \in Nat
                            /\ handled[r] \subseteq Nat
                            /\ lastSeqRecvdAtSend[r] \in [0 .. Slots - 1 -> Nat]
    BY <1>0 DEF TypeOK
  <1>3. seq \in Nat /\ seq % Slots \in 0 .. Slots - 1
    <2>1. seq \in Nat
      BY <1>2
    <2> HIDE DEF seq
    <2> QED BY <2>1, ModRange, ConstantTypes
  <1>4. /\ lastSendSeq' = [lastSendSeq EXCEPT ![p] = seq]
        /\ lastSeqRecvdAtSend' =
             [lastSeqRecvdAtSend EXCEPT ![p][seq % Slots] = lastSeqRecvd[p]]
        /\ wire' = [wire EXCEPT ![q] = @ \cup {hdr}]
        /\ UNCHANGED <<lastSeqRecvd, highestAckedSeq, ackMask, lastRecvAckAck,
                       extra, handled, acked, nacked>>
        /\ lastSendSeq[p] - highestAckedSeq[p] < SendWindow
    BY <1>0, <1>2, ConstantTypes DEF CheckPacketSend, historyVars, WindowFull
  <1>5. PeerInv(p) /\ PeerInv(q)
    BY <1>1 DEF DataInv
  <1>6. /\ wire'[q] = wire[q] \cup {hdr} /\ wire'[p] = wire[p]
        /\ lastSendSeq'[p] = seq /\ lastSendSeq'[q] = lastSendSeq[q]
        /\ lastSeqRecvdAtSend'[q] = lastSeqRecvdAtSend[q]
        /\ lastSeqRecvdAtSend'[p][seq % Slots] = lastSeqRecvd[p]
        /\ \A s \in 0 .. Slots - 1 :
             s # seq % Slots => lastSeqRecvdAtSend'[p][s] = lastSeqRecvdAtSend[p][s]
    BY <1>0, <1>1, <1>2, <1>3, <1>4 DEF TypeOK
  <1>7. ASSUME NEW i \in highestAckedSeq[p] + 1 .. lastSendSeq[p]
        PROVE  lastSeqRecvdAtSend'[p][i % Slots] = lastSeqRecvdAtSend[p][i % Slots]
    <2>1. i \in Nat /\ i < seq /\ seq - i < Slots
      <3>1. lastSendSeq[p] - highestAckedSeq[p] < SendWindow
        BY <1>4
      <3>2. highestAckedSeq[p] \in Nat /\ lastSendSeq[p] \in Nat
        BY <1>2
      <3> QED BY <3>1, <3>2, ConstantTypes
    <2>2. i % Slots # seq % Slots /\ i % Slots \in 0 .. Slots - 1
      BY <1>3, <2>1, SlotsDiffer, ModRange, ConstantTypes
    <2> QED BY <1>6, <2>2
  <1> HIDE DEF q, seq, hdr
  <1>8. WindowInv(p)' /\ WindowInv(q)'
    <2>1. WindowInv(p) /\ WindowInv(q)
      BY <1>5 DEF PeerInv
    <2>2. lastSeqRecvd' = lastSeqRecvd /\ highestAckedSeq' = highestAckedSeq
      BY <1>4
    <2>3. lastSendSeq[p] - highestAckedSeq[p] < SendWindow
      BY <1>4
    <2>4. /\ lastSeqRecvd[p] \in Nat /\ lastSeqRecvd[q] \in Nat
          /\ highestAckedSeq[p] \in Nat /\ highestAckedSeq[q] \in Nat
          /\ lastSendSeq[p] \in Nat /\ lastSendSeq[q] \in Nat
      BY <1>1, <1>2
    <2>5. Other(p) = q /\ Other(q) = p
      BY <1>1 DEF q
    <2>6. lastSendSeq'[p] = lastSendSeq[p] + 1 /\ lastSendSeq'[q] = lastSendSeq[q]
      BY <1>6 DEF seq
    <2> QED BY <2>1, <2>2, <2>3, <2>4, <2>5, <2>6, ConstantTypes DEF WindowInv
  <1>9. SlotInv(p)'
    <2> SUFFICES ASSUME NEW i \in highestAckedSeq[p] + 1 .. seq, i \in handled[q]
                 PROVE  lastSeqRecvdAtSend'[p][i % Slots] =< highestAckedSeq[q]
      BY <1>4, <1>6 DEF SlotInv, q
    <2>1. i # seq
      BY <1>1, <1>2, <1>5 DEF PeerInv, WindowInv, HandledInv, seq
    <2>2. i \in highestAckedSeq[p] + 1 .. lastSendSeq[p]
      BY <1>2, <2>1 DEF seq
    <2> QED BY <1>5, <1>7, <2>2 DEF PeerInv, SlotInv, q
  <1>10. SlotInv(q)'
    BY <1>1, <1>4, <1>5, <1>6 DEF PeerInv, SlotInv
  <1>11. WireInv(p)'
    <2>1. ASSUME NEW pkt \in wire[q] PROVE PacketInv(p, pkt)'
      <3>1. PacketInv(p, pkt)
        BY <1>5, <2>1 DEF PeerInv, WireInv, q
      <3>2. pkt.seq > highestAckedSeq[p] =>
              lastSeqRecvdAtSend'[p][pkt.seq % Slots] = pkt.ack
        BY <1>2, <1>7, <3>1 DEF PacketInv
      <3>3. pkt.seq \in 1 .. seq
        BY <1>2, <3>1 DEF PacketInv, seq
      <3> QED BY <1>4, <1>6, <3>1, <3>2, <3>3 DEF PacketInv
    <2>2. ASSUME NEW pkt, pkt = hdr PROVE PacketInv(p, pkt)'
      <3>1. /\ pkt.type = "data" /\ pkt.seq = seq /\ pkt.ack = lastSeqRecvd[p]
            /\ pkt.bytes = AckByteCount(lastSeqRecvd[p], lastRecvAckAck[p])
            /\ pkt.mask = {b \in ackMask[p] : b < AckByte * pkt.bytes}
        BY <2>2 DEF hdr, BuildSendPacketHeader
      <3>2. seq \in 1 .. seq
        BY <1>2 DEF seq
      <3>3. /\ pkt.bytes \in Nat
            /\ lastSeqRecvd[p] - lastRecvAckAck[p] =< AckByte * pkt.bytes
        BY <1>0, <1>2, <3>1, AckByteCountCovers DEF AckAckBounded
      <3>4. pkt.ack - AckByte * pkt.bytes =< highestAckedSeq[q]
        <4> DEFINE covered == AckByte * pkt.bytes
        <4>1. covered \in Nat
          BY <3>3, ConstantTypes
        <4>2. lastSeqRecvd[p] - lastRecvAckAck[p] =< covered
          BY <3>3
        <4>3. lastRecvAckAck[p] =< highestAckedSeq[q]
          BY <1>5 DEF PeerInv, KnownInv, q
        <4> HIDE DEF covered
        <4>4. pkt.ack - covered =< highestAckedSeq[q]
          BY <1>1, <1>2, <3>1, <4>1, <4>2, <4>3
        <4> QED BY <4>4 DEF covered
      <3>5. \A b \in Bits : b \in ackMask[p] <=> lastSeqRecvd[p] - b \in handled[p]
        BY <1>5 DEF PeerInv, MaskInv
      <3>6. /\ \A b \in Bits : b \in pkt.mask => pkt.ack - b \in handled[p]
            /\ \A b \in Bits : b < AckByte * pkt.bytes /\ pkt.ack - b \in handled[p]
                                 => b \in pkt.mask
        BY <3>1, <3>5
      <3>7. pkt.ack =< lastSeqRecvd[p]
        BY <1>2, <3>1
      <3>8. lastSeqRecvdAtSend'[p][pkt.seq % Slots] = pkt.ack
        BY <1>6, <3>1
      <3>9. /\ pkt.seq \in 1 .. lastSendSeq'[p]
            /\ lastSeqRecvd' = lastSeqRecvd /\ highestAckedSeq' = highestAckedSeq
            /\ handled' = handled /\ Other(p) = q
        BY <1>4, <1>6, <3>1, <3>2 DEF q
      <3>10. /\ pkt.type = "data"
             /\ pkt.seq \in 1 .. lastSendSeq'[p]
             /\ pkt.ack =< lastSeqRecvd'[p]
             /\ \A b \in Bits : b \in pkt.mask => pkt.ack - b \in handled'[p]
             /\ \A b \in Bits : b < AckByte * pkt.bytes /\ pkt.ack - b \in handled'[p]
                                 => b \in pkt.mask
             /\ pkt.ack - AckByte * pkt.bytes =< highestAckedSeq'[Other(p)]
             /\ pkt.seq > highestAckedSeq'[p] =>
                  lastSeqRecvdAtSend'[p][pkt.seq % Slots] = pkt.ack
        BY <3>1, <3>4, <3>6, <3>7, <3>8, <3>9
      <3> QED BY <3>10 DEF PacketInv
    <2>3. \A pkt \in wire'[q] : PacketInv(p, pkt)'
      BY <1>6, <2>1, <2>2
    <2> QED BY <2>3 DEF WireInv, q
  <1>12. WireInv(q)'
    <2> SUFFICES ASSUME NEW pkt \in wire[p] PROVE PacketInv(q, pkt)'
      BY <1>1, <1>6 DEF WireInv
    <2>1. PacketInv(q, pkt)
      BY <1>1, <1>5 DEF PeerInv, WireInv
    <2> QED BY <1>1, <1>4, <1>6, <2>1 DEF PacketInv
  <1>13. \A r \in {p, q} : /\ (extra[r] = 0)' /\ HandledInv(r)' /\ MaskInv(r)'
                           /\ KnownInv(r)' /\ OutcomeInv(r)'
    BY <1>4, <1>5 DEF PeerInv, HandledInv, MaskInv, KnownInv, OutcomeInv
  <1> QED BY <1>1, <1>8, <1>9, <1>10, <1>11, <1>12, <1>13 DEF DataInv, PeerInv

\* In a data-only session the numbers of a packet that is accepted are read as
\* they were written.
LEMMA AcceptedIsRead ==
  ASSUME TypeInv, DataInv, NEW p \in Peers, NEW pkt \in wire[p],
         Fresh(p, pkt), Accepted(p, pkt)
  PROVE  PacketSeq(p, pkt) = pkt.seq /\ PacketAck(p, pkt) = pkt.ack
  <1> DEFINE q == Other(p)
  <1>0. TypeOK
    BY DEF TypeInv
  <1>1. q \in Peers /\ Other(q) = p
    BY PeersFact
  <1>2. /\ lastSeqRecvd[p] \in Nat /\ lastSeqRecvd[q] \in Nat
        /\ highestAckedSeq[p] \in Nat /\ highestAckedSeq[q] \in Nat
        /\ lastSendSeq[p] \in Nat /\ lastSendSeq[q] \in Nat
        /\ pkt \in Packet
    BY <1>0, <1>1 DEF TypeOK
  <1>3. pkt.seq \in Nat /\ pkt.ack \in Nat
    BY <1>2 DEF Packet
  <1>4. /\ WindowInv(p) /\ WindowInv(q) /\ PacketInv(q, pkt)
    BY <1>1 DEF DataInv, PeerInv, WireInv
  <1>5. pkt.seq =< lastSendSeq[q] /\ pkt.ack =< lastSeqRecvd[q]
    BY <1>2, <1>4 DEF PacketInv
  <1>6. /\ lastSeqRecvd[p] =< lastSendSeq[q] /\ lastSeqRecvd[q] =< lastSendSeq[p]
        /\ highestAckedSeq[q] =< lastSeqRecvd[p]
        /\ lastSendSeq[q] =< highestAckedSeq[q] + SendWindow
        /\ lastSendSeq[p] =< highestAckedSeq[p] + SendWindow
    BY <1>1, <1>4 DEF WindowInv
  <1> HIDE DEF q
  <1>7. PacketSeq(p, pkt) = pkt.seq
    <2>1. lastSeqRecvd[p] - pkt.seq < SeqMod - RecvWindow
      BY DEF Fresh
    <2>2. pkt.seq < lastSeqRecvd[p] + SeqMod
      BY <1>2, <1>3, <1>5, <1>6, ConstantTypes
    <2>3. Decode(pkt.seq % SeqMod, lastSeqRecvd[p]) =< lastSeqRecvd[p] + RecvWindow
      BY DEF Accepted, PacketSeq
    <2> QED BY <1>2, <1>3, <2>1, <2>2, <2>3, DecodeFresh, ConstantTypes DEF PacketSeq
  <1>8. PacketAck(p, pkt) = pkt.ack
    <2>1. highestAckedSeq[p] - pkt.ack < SeqMod - SendWindow
      BY DEF Fresh
    <2>2. pkt.ack < highestAckedSeq[p] + SeqMod
      BY <1>2, <1>3, <1>5, <1>6, ConstantTypes
    <2>3. Decode(pkt.ack % SeqMod, highestAckedSeq[p]) \in Nat
      BY <1>2, <1>3, DecodeRange
    <2>4. Decode(pkt.ack % SeqMod, highestAckedSeq[p]) =< highestAckedSeq[p] + SendWindow
      <3>1. Decode(pkt.ack % SeqMod, highestAckedSeq[p]) =< lastSendSeq[p]
        BY DEF Accepted, PacketAck
      <3> QED BY <1>2, <1>6, <2>3, <3>1, ConstantTypes
    <2> QED BY <1>2, <1>3, <2>1, <2>2, <2>4, DecodeFresh, ConstantTypes DEF PacketAck
  <1> QED BY <1>7, <1>8

LEMMA DataProcessRawPacket ==
  ASSUME TypeInv, DataInv, NEW p \in Peers, NEW pkt \in wire[p],
         Fresh(p, pkt), ProcessRawPacket(p, pkt)
  PROVE  DataInv'
  <1> DEFINE q == Other(p)
             count == pkt.ack - highestAckedSeq[p]
             won == Successes(pkt.mask, count)
             delta == pkt.seq - lastSeqRecvd[p]
             ackAck == AckAckAfter(lastSeqRecvdAtSend[p], lastRecvAckAck[p],
                                   highestAckedSeq[p], won, pkt.seq)
  <1>0. TypeOK /\ NotifyQueueIsWindow /\ AckAckBounded
    BY DEF TypeInv
  <1>1. q \in Peers /\ q # p /\ Other(q) = p /\ Other(p) = q /\ Peers = {p, q}
    BY PeersFact
  <1>2. /\ \A r \in Peers : /\ lastSeqRecvd[r] \in Nat /\ highestAckedSeq[r] \in Nat
                            /\ lastSendSeq[r] \in Nat /\ lastRecvAckAck[r] \in Nat
                            /\ handled[r] \subseteq Nat
                            /\ lastSeqRecvdAtSend[r] \in [0 .. Slots - 1 -> Nat]
                            /\ ackMask[r] \in SUBSET Bits
        /\ pkt \in Packet
    BY <1>0 DEF TypeOK
  <1>3. PeerInv(p) /\ PeerInv(q) /\ PacketInv(q, pkt)
    BY <1>1 DEF DataInv, PeerInv, WireInv
  <1>4. PacketSeq(p, pkt) = pkt.seq /\ PacketAck(p, pkt) = pkt.ack /\ Accepted(p, pkt)
    BY AcceptedIsRead DEF ProcessRawPacket
  <1>5. /\ pkt.seq \in Nat /\ lastSeqRecvd[p] =< pkt.seq
        /\ pkt.ack \in Nat
        /\ count \in 0 .. Len(notifyQueue[p])
        /\ won \in SUBSET (1 .. count)
        /\ ackAck \in Nat
    BY <1>2, <1>4, ProcessValues
  <1>6. /\ pkt.type = "data" /\ pkt.seq \in 1 .. lastSendSeq[q] /\ pkt.ack =< lastSeqRecvd[q]
        /\ \A b \in Bits : b \in pkt.mask => pkt.ack - b \in handled[q]
        /\ \A b \in Bits : b < AckByte * pkt.bytes /\ pkt.ack - b \in handled[q] => b \in pkt.mask
        /\ pkt.ack - AckByte * pkt.bytes =< highestAckedSeq[p]
        /\ pkt.seq > highestAckedSeq[q] =>
             lastSeqRecvdAtSend[q][pkt.seq % Slots] = pkt.ack
    BY <1>1, <1>3 DEF PacketInv
  <1>7. /\ ackMask' = [ackMask EXCEPT ![p] = ShiftedMask(ackMask[p], delta, TRUE)]
        /\ HandleNotifies(p, won, count)
        /\ lastRecvAckAck' = [lastRecvAckAck EXCEPT ![p] = ackAck]
        /\ highestAckedSeq' = [highestAckedSeq EXCEPT ![p] = pkt.ack]
        /\ extra' = [extra EXCEPT ![p] = extra[p]]
        /\ wire' = [r \in Peers |->
                      IF r = p
                        THEN IF InOrder THEN {m \in wire[p] : m.order > pkt.order}
                                        ELSE wire[p]
                        ELSE wire[r]]
        /\ lastSeqRecvd' = [lastSeqRecvd EXCEPT ![p] = pkt.seq]
        /\ handled' = [handled EXCEPT ![p] = IF pkt.seq # lastSeqRecvd[p]
                                               THEN @ \cup {pkt.seq} ELSE @]
        /\ lastSeqRecvdAtSend' = lastSeqRecvdAtSend /\ lastSendSeq' = lastSendSeq
    BY <1>4, <1>6 DEF ProcessRawPacket, AckPacketFor, HandlePacket
  <1>8. /\ highestAckedSeq[p] =< pkt.ack /\ pkt.ack =< lastSendSeq[p]
    <2>1. Len(notifyQueue[p]) = lastSendSeq[p] - highestAckedSeq[p]
      BY <1>0 DEF NotifyQueueIsWindow
    <2> QED BY <1>2, <1>5, <2>1
  <1> HIDE DEF q, count, won, delta, ackAck
  <1>9. /\ lastSeqRecvd'[p] = pkt.seq /\ lastSeqRecvd'[q] = lastSeqRecvd[q]
        /\ highestAckedSeq'[p] = pkt.ack /\ highestAckedSeq'[q] = highestAckedSeq[q]
        /\ lastRecvAckAck'[p] = ackAck /\ lastRecvAckAck'[q] = lastRecvAckAck[q]
        /\ extra'[p] = extra[p] /\ extra'[q] = extra[q]
        /\ handled'[q] = handled[q] /\ ackMask'[q] = ackMask[q]
        /\ ackMask'[p] = ShiftedMask(ackMask[p], delta, TRUE)
        /\ wire'[p] \subseteq wire[p] /\ wire'[q] = wire[q]
        /\ lastSendSeq'[p] = lastSendSeq[p] /\ lastSendSeq'[q] = lastSendSeq[q]
    BY <1>0, <1>1, <1>7 DEF TypeOK
  <1>10. handled'[p] = IF pkt.seq # lastSeqRecvd[p] THEN handled[p] \cup {pkt.seq}
                                                    ELSE handled[p]
    BY <1>0, <1>7 DEF TypeOK
  <1>11. /\ handled[p] \subseteq 1 .. lastSeqRecvd[p]
         /\ handled[q] \subseteq 1 .. lastSeqRecvd[q]
         /\ lastSeqRecvd[p] > 0 => lastSeqRecvd[p] \in handled[p]
    BY <1>3 DEF PeerInv, HandledInv
  <1>12. /\ lastSeqRecvd[p] =< lastSendSeq[q] /\ lastSeqRecvd[q] =< lastSendSeq[p]
         /\ highestAckedSeq[q] =< lastSeqRecvd[p]
         /\ highestAckedSeq[p] =< lastSeqRecvd[q]
         /\ highestAckedSeq[q] =< lastSendSeq[q]
         /\ lastSendSeq[p] =< highestAckedSeq[p] + SendWindow
         /\ lastSendSeq[q] =< highestAckedSeq[q] + SendWindow
    BY <1>1, <1>3 DEF PeerInv, WindowInv
  <1>13. /\ lastSeqRecvd[p] \in Nat /\ lastSeqRecvd[q] \in Nat
         /\ highestAckedSeq[p] \in Nat /\ highestAckedSeq[q] \in Nat
         /\ lastSendSeq[p] \in Nat /\ lastSendSeq[q] \in Nat
         /\ lastRecvAckAck[p] \in Nat /\ lastRecvAckAck[q] \in Nat
    BY <1>1, <1>2
  \* What is handled later is newer than all an earlier packet could ack.
  <1>14. \A n \in Int : n =< lastSeqRecvd[p] => (n \in handled'[p] <=> n \in handled[p])
    BY <1>5, <1>10, <1>13
  \* The outcome computed for each packet is the right one.
  <1>15. \A j \in 1 .. count : j \in won <=> highestAckedSeq[p] + j \in handled[q]
    <2> SUFFICES ASSUME NEW j \in 1 .. count
                 PROVE  j \in won <=> highestAckedSeq[p] + j \in handled[q]
      OBVIOUS
    <2> DEFINE b == count - j
               covered == AckByte * pkt.bytes
    <2>1. count = pkt.ack - highestAckedSeq[p] /\ count \in Nat
      BY <1>5, <1>8, <1>13 DEF count
    <2> HIDE DEF b
    <2>1a. /\ pkt.ack \in Nat /\ highestAckedSeq[p] \in Nat /\ j \in Nat
           /\ b = count - j /\ 1 =< j /\ j =< count
      BY <1>5, <1>13, <2>1 DEF b
    <2>1b. count =< SendWindow
      <3>1. pkt.ack =< lastSendSeq[p] /\ lastSendSeq[p] =< highestAckedSeq[p] + SendWindow
        BY <1>8, <1>12
      <3> QED BY <1>13, <2>1, <2>1a, <3>1, ConstantTypes
    <2>2. b \in Bits
      BY <2>1, <2>1a, <2>1b, ConstantTypes DEF Bits
    <2>3. covered \in Nat
      <3>1. pkt.bytes \in Nat
        BY <1>2 DEF Packet
      <3> QED BY <3>1, ConstantTypes
    <2>4. b < covered
      <3>1. pkt.ack - covered =< highestAckedSeq[p]
        BY <1>6
      <3> HIDE DEF covered
      <3> QED BY <2>1, <2>1a, <2>3, <3>1
    <2>5. pkt.ack - b = highestAckedSeq[p] + j
      BY <2>1, <2>1a
    <2>6. b \in pkt.mask <=> pkt.ack - b \in handled[q]
      BY <1>6, <2>2, <2>4
    <2>7. j \in won <=> b \in pkt.mask
      BY DEF won, Successes, b
    <2> QED BY <2>5, <2>6, <2>7
  <1>16. (extra[p] = 0)' /\ (extra[q] = 0)'
    BY <1>3, <1>9 DEF PeerInv
  <1>17. WindowInv(p)' /\ WindowInv(q)'
    <2>1. /\ pkt.seq \in Nat /\ pkt.ack \in Nat
          /\ lastSeqRecvd[p] =< pkt.seq /\ pkt.seq =< lastSendSeq[q]
          /\ pkt.ack =< lastSeqRecvd[q]
      BY <1>5, <1>6, <1>13
    <2>2. WindowInv(p)'
      BY <1>1, <1>8, <1>9, <1>12, <1>13, <2>1, ConstantTypes DEF WindowInv
    <2>3. WindowInv(q)'
      BY <1>1, <1>8, <1>9, <1>12, <1>13, <2>1, ConstantTypes DEF WindowInv
    <2> QED BY <2>2, <2>3
  <1>18. HandledInv(p)' /\ HandledInv(q)'
    <2>1. HandledInv(q)'
      BY <1>3, <1>9 DEF PeerInv, HandledInv
    <2>2. handled'[p] \subseteq 1 .. pkt.seq
      BY <1>5, <1>6, <1>10, <1>11, <1>13
    <2>3. pkt.seq \in handled'[p]
      BY <1>6, <1>10, <1>11, <1>13
    <2> QED BY <1>9, <2>1, <2>2, <2>3 DEF HandledInv
  <1>19. MaskInv(p)' /\ MaskInv(q)'
    <2>1. MaskInv(q)'
      BY <1>3, <1>9 DEF PeerInv, MaskInv
    <2>2. ASSUME NEW b \in Bits
          PROVE  b \in ackMask'[p] <=> pkt.seq - b \in handled'[p]
      <3>0. b \in Nat /\ delta \in Nat /\ pkt.seq = lastSeqRecvd[p] + delta
        BY <1>5, <1>13 DEF Bits, delta
      <3>1. \A c \in Bits : c \in ackMask[p] <=> lastSeqRecvd[p] - c \in handled[p]
        BY <1>3 DEF PeerInv, MaskInv
      <3>2. b \in ackMask'[p] <=> b - delta \in ackMask[p] \/ b = 0
        BY <1>9 DEF ShiftedMask
      <3>3. CASE b = 0
        <4>1. pkt.seq \in handled'[p]
          BY <1>6, <1>10, <1>11, <1>13
        <4> QED BY <1>5, <3>2, <3>3, <4>1
      <3>4. CASE b # 0 /\ b < delta
        <4>1. b - delta \notin ackMask[p]
          BY <1>1, <1>2, <3>0, <3>4 DEF Bits
        <4>2. pkt.seq - b \notin handled'[p]
          BY <1>10, <1>11, <1>13, <3>0, <3>4
        <4> QED BY <3>2, <3>4, <4>1, <4>2
      <3>5. CASE b # 0 /\ b >= delta
        <4>1. b - delta \in Bits
          BY <3>0, <3>5, ConstantTypes DEF Bits
        <4>2. b - delta \in ackMask[p] <=> lastSeqRecvd[p] - (b - delta) \in handled[p]
          BY <3>1, <4>1
        <4>3. lastSeqRecvd[p] - (b - delta) = pkt.seq - b /\ pkt.seq - b =< lastSeqRecvd[p]
              /\ pkt.seq - b \in Int
          BY <1>13, <3>0, <3>5
        <4> QED BY <1>14, <3>2, <3>5, <4>2, <4>3
      <3> QED BY <3>0, <3>3, <3>4, <3>5
    <2> QED BY <1>9, <2>1, <2>2 DEF MaskInv
  <1>20. KnownInv(p)' /\ KnownInv(q)'
    <2>1. KnownInv(q)'
      BY <1>1, <1>3, <1>5, <1>8, <1>9, <1>13 DEF PeerInv, KnownInv
    <2>2. ackAck =< highestAckedSeq[q]
      <3> DEFINE i == highestAckedSeq[p] + Max(won)
                 known == IF won = {} THEN lastRecvAckAck[p]
                                      ELSE lastSeqRecvdAtSend[p][i % Slots]
      <3>1. known =< highestAckedSeq[q] /\ known \in Nat
        <4>1. CASE won = {}
          BY <1>1, <1>3, <1>13, <4>1 DEF PeerInv, KnownInv
        <4>2. CASE won # {}
          <5>1. count \in Nat /\ count = pkt.ack - highestAckedSeq[p]
            BY <1>8, <1>5, <1>13 DEF count
          <5>2. Max(won) \in won /\ Max(won) \in 1 .. count
            BY <1>5, <4>2, <5>1, MaxInRange
          <5>3. i \in handled[q]
            BY <1>15, <5>2
          <5>4. i \in highestAckedSeq[p] + 1 .. lastSendSeq[p] /\ i \in Nat
            <6>1. pkt.ack \in Nat /\ pkt.ack =< lastSendSeq[p]
              BY <1>5, <1>8
            <6> HIDE DEF known
            <6> QED BY <1>13, <5>1, <5>2, <6>1
          <5> HIDE DEF i
          <5>5. i % Slots \in 0 .. Slots - 1
            BY <5>4, ModRange, ConstantTypes
          <5>6. lastSeqRecvdAtSend[p][i % Slots] =< highestAckedSeq[q]
            BY <1>1, <1>3, <5>3, <5>4 DEF PeerInv, SlotInv
          <5>7. lastSeqRecvdAtSend[p][i % Slots] \in Nat
            BY <1>2, <5>5
          <5> QED BY <4>2, <5>6, <5>7
        <4> QED BY <4>1, <4>2
      <3>2. ackAck = IF pkt.seq - known > AckBits THEN pkt.seq - AckBits ELSE known
        BY DEF ackAck, AckAckAfter
      <3> HIDE DEF known
      <3>3. pkt.seq =< highestAckedSeq[q] + SendWindow
        BY <1>6, <1>12, <1>13, ConstantTypes
      <3> QED BY <1>5, <1>13, <3>1, <3>2, <3>3, ConstantTypes
    <2> QED BY <1>1, <1>9, <2>1, <2>2 DEF KnownInv
  <1>21. SlotInv(p)' /\ SlotInv(q)'
    <2>1. SlotInv(p)'
      <3> SUFFICES ASSUME NEW i \in pkt.ack + 1 .. lastSendSeq[p], i \in handled[q]
                   PROVE  lastSeqRecvdAtSend[p][i % Slots] =< highestAckedSeq[q]
        BY <1>1, <1>7, <1>9 DEF SlotInv
      <3>1. i \in highestAckedSeq[p] + 1 .. lastSendSeq[p]
        BY <1>5, <1>8, <1>13
      <3> QED BY <1>1, <1>3, <3>1 DEF PeerInv, SlotInv
    <2>2. SlotInv(q)'
      <3> SUFFICES ASSUME NEW i \in highestAckedSeq[q] + 1 .. lastSendSeq[q],
                          i \in handled'[p]
                   PROVE  lastSeqRecvdAtSend[q][i % Slots] =< pkt.ack
        BY <1>1, <1>7, <1>9 DEF SlotInv
      <3>1. CASE i \in handled[p]
        <4>1. lastSeqRecvdAtSend[q][i % Slots] =< highestAckedSeq[p]
          BY <1>1, <1>3, <3>1 DEF PeerInv, SlotInv
        <4>2. i \in Nat
          BY <1>13
        <4>3. i % Slots \in 0 .. Slots - 1
          BY <4>2, ModRange, ConstantTypes
        <4>4. lastSeqRecvdAtSend[q][i % Slots] \in Nat
          BY <1>1, <1>2, <4>3
        <4> QED BY <1>5, <1>8, <1>13, <4>1, <4>4
      <3>2. CASE i \notin handled[p]
        <4>1. i = pkt.seq
          BY <1>10, <3>2
        <4>2. pkt.seq > highestAckedSeq[q]
          BY <1>13, <4>1
        <4> QED BY <1>5, <1>6, <4>1, <4>2
      <3> QED BY <3>1, <3>2
    <2> QED BY <2>1, <2>2
  <1>22. WireInv(p)'
    <2> SUFFICES ASSUME NEW m \in wire[q] PROVE PacketInv(p, m)'
      BY <1>1, <1>9 DEF WireInv
    <2>1. PacketInv(p, m)
      BY <1>1, <1>3 DEF PeerInv, WireInv
    <2>2. m \in Packet
      BY <1>0, <1>1 DEF TypeOK
    <2>3. m.seq \in Nat /\ m.ack \in Nat /\ m.ack =< lastSeqRecvd[p]
      BY <2>1, <2>2 DEF Packet, PacketInv
    <2>4. \A b \in Bits : m.ack - b \in handled'[p] <=> m.ack - b \in handled[p]
      <3> SUFFICES ASSUME NEW b \in Bits
                   PROVE  m.ack - b \in handled'[p] <=> m.ack - b \in handled[p]
        OBVIOUS
      <3>1. m.ack - b \in Int /\ m.ack - b =< lastSeqRecvd[p]
        BY <1>13, <2>3, ConstantTypes DEF Bits
      <3> QED BY <1>14, <3>1
    <2>5. m.ack =< lastSeqRecvd'[p]
      BY <1>5, <1>9, <1>13, <2>3
    <2>6. m.seq > highestAckedSeq'[p] => m.seq > highestAckedSeq[p]
      BY <1>5, <1>8, <1>9, <1>13, <2>3
    <2> QED BY <1>1, <1>7, <1>9, <2>1, <2>4, <2>5, <2>6 DEF PacketInv
  <1>23. WireInv(q)'
    <2> SUFFICES ASSUME NEW m \in wire[p] PROVE PacketInv(q, m)'
      BY <1>1, <1>9 DEF WireInv
    <2>1. PacketInv(q, m)
      BY <1>1, <1>3 DEF PeerInv, WireInv
    <2>2. m.ack - AckByte * m.bytes =< highestAckedSeq'[p]
      <3> DEFINE covered == AckByte * m.bytes
      <3>1. m \in Packet
        BY <1>0 DEF TypeOK
      <3>2. covered \in Nat /\ m.ack \in Nat
        BY <3>1, ConstantTypes DEF Packet
      <3>3. m.ack - covered =< highestAckedSeq[p]
        BY <1>1, <2>1 DEF PacketInv
      <3> HIDE DEF covered
      <3>4. m.ack - covered =< pkt.ack
        BY <1>5, <1>8, <1>13, <3>2, <3>3
      <3> QED BY <1>9, <3>4 DEF covered
    <2> QED BY <1>1, <1>7, <1>9, <2>1, <2>2 DEF PacketInv
  <1>24. OutcomeInv(p)'
    <2>1. \A j \in 1 .. count : notifyQueue[p][j] = highestAckedSeq[p] + j
      BY <1>0, <1>5 DEF NotifyQueueIsWindow
    <2>2. /\ acked'[p] = acked[p] \cup {notifyQueue[p][j] : j \in won}
          /\ nacked'[p] = nacked[p] \cup {notifyQueue[p][j] : j \in (1 .. count) \ won}
      BY <1>0, <1>7 DEF HandleNotifies, TypeOK
    <2>3. /\ acked[p] \cup nacked[p] \subseteq 1 .. highestAckedSeq[p]
          /\ acked[p] \subseteq handled[q]
          /\ nacked[p] \cap handled[q] = {}
      BY <1>1, <1>3 DEF PeerInv, OutcomeInv
    <2>4. count = pkt.ack - highestAckedSeq[p] /\ count \in Nat
      BY <1>5, <1>8, <1>13 DEF count
    <2>4a. \A h, a, c \in Nat : \A j : c = a - h /\ j \in 1 .. c => h + j \in 1 .. a
      OBVIOUS
    <2>4b. \A j \in 1 .. count : highestAckedSeq[p] + j \in 1 .. pkt.ack
      BY <1>5, <1>13, <2>4, <2>4a
    <2>5. \A n \in acked'[p] : n \in 1 .. pkt.ack /\ n \in handled[q]
      <3> SUFFICES ASSUME NEW n \in acked'[p], n \notin acked[p]
                   PROVE  n \in 1 .. pkt.ack /\ n \in handled[q]
        BY <1>5, <1>8, <1>13, <2>3
      <3>1. PICK j \in won : n = highestAckedSeq[p] + j
        BY <1>5, <2>1, <2>2
      <3>2. j \in 1 .. count
        BY <1>5
      <3>3. n \in handled[q]
        BY <1>15, <3>1, <3>2
      <3>4. n \in 1 .. pkt.ack
        BY <2>4b, <3>1, <3>2
      <3> QED BY <3>3, <3>4
    <2>6. \A n \in nacked'[p] : n \in 1 .. pkt.ack /\ n \notin handled[q]
      <3> SUFFICES ASSUME NEW n \in nacked'[p], n \notin nacked[p]
                   PROVE  n \in 1 .. pkt.ack /\ n \notin handled[q]
        BY <1>5, <1>8, <1>13, <2>3
      <3>1. PICK j \in (1 .. count) \ won : n = highestAckedSeq[p] + j
        BY <2>1, <2>2
      <3>2. n \notin handled[q]
        BY <1>15, <3>1
      <3>3. n \in 1 .. pkt.ack
        BY <2>4b, <3>1
      <3> QED BY <3>2, <3>3
    <2> QED BY <1>1, <1>9, <2>5, <2>6 DEF OutcomeInv
  <1>25. OutcomeInv(q)'
    <2>1. acked'[q] = acked[q] /\ nacked'[q] = nacked[q]
      BY <1>0, <1>1, <1>7 DEF HandleNotifies, TypeOK
    <2>2. /\ acked[q] \cup nacked[q] \subseteq 1 .. highestAckedSeq[q]
          /\ acked[q] \subseteq handled[p]
          /\ nacked[q] \cap handled[p] = {}
      BY <1>1, <1>3 DEF PeerInv, OutcomeInv
    <2>3. \A n \in nacked[q] : n \in Int /\ n =< lastSeqRecvd[p]
      BY <1>12, <1>13, <2>2
    <2>4. nacked[q] \cap handled'[p] = {}
      BY <1>14, <2>2, <2>3
    <2>5. acked[q] \subseteq handled'[p]
      BY <1>10, <2>2
    <2> QED BY <1>1, <1>9, <2>1, <2>2, <2>4, <2>5 DEF OutcomeInv
  <1>26. PeerInv(p)'
    BY <1>16, <1>17, <1>18, <1>19, <1>20, <1>21, <1>22, <1>24 DEF PeerInv
  <1>27. PeerInv(q)'
    BY <1>16, <1>17, <1>18, <1>19, <1>20, <1>21, <1>23, <1>25 DEF PeerInv
  <1> QED BY <1>1, <1>26, <1>27 DEF DataInv

LEMMA DataInvariant == ASSUME DataOnly PROVE Spec => []DataInv
  <1>1. TypeInv /\ DataInv /\ [Next]_vars => DataInv'
    <2> SUFFICES ASSUME TypeInv, DataInv, [Next]_vars PROVE DataInv'
      OBVIOUS
    <2>1. ASSUME NEW p \in Peers, CheckPacketSend(p) PROVE DataInv'
      BY <2>1, DataCheckPacketSend
    <2>2. ASSUME NEW p \in Peers, SendPingPacket(p) PROVE FALSE
      BY <2>2 DEF DataOnly, SendPingPacket, DataInv, PeerInv
    <2>3. ASSUME NEW p \in Peers, Receive(p) PROVE DataInv'
      BY <2>3, DataProcessRawPacket DEF Receive
    <2>4. CASE UNCHANGED vars
      BY <2>4 DEF vars, protocolVars, historyVars, DataInv, PeerInv, WindowInv,
                  HandledInv, MaskInv, KnownInv, SlotInv, WireInv, PacketInv, OutcomeInv
    <2> QED BY <2>1, <2>2, <2>3, <2>4 DEF Next
  <1> QED BY <1>1, DataInit, TypeInvariant, PTL DEF Spec

\* A packet reported received was handled: for every window, mask width and
\* network, as long as no ping is needed.
THEOREM AckedHandled == ASSUME DataOnly PROVE Spec => []AckedWasHandled
  <1>1. DataInv => AckedWasHandled
    BY DEF DataInv, PeerInv, OutcomeInv, AckedWasHandled
  <1> QED BY <1>1, DataInvariant, PTL

\* A packet reported dropped is never handled, so that what is sent again does
\* not arrive twice.
THEOREM NackedUnhandled == ASSUME DataOnly PROVE Spec => []NackedNeverHandled
  <1>1. DataInv => NackedNeverHandled
    BY DEF DataInv, PeerInv, OutcomeInv, NackedNeverHandled
  <1> QED BY <1>1, DataInvariant, PTL

-----------------------------------------------------------------------------
(* Each direction is a notify window, as long as no ping is needed.        *)

Way(p) == INSTANCE NotifyWindow WITH fate <- FateOf(p), told <- ToldOf(p)

\* What became of n packets, of which those in h were handled and all up to r
\* are decided; and what was told of n packets, those in a received.
FatesOf(n, h, r) == [i \in 1 .. n |->
                       CASE i \in h -> "handled"
                         [] i \notin h /\ i =< r -> "lost"
                         [] OTHER -> "flying"]
ToldsOf(n, a) == [i \in 1 .. n |-> i \in a]

LEMMA FatesType ==
  ASSUME NEW n \in Nat, NEW h \in SUBSET Nat, NEW r \in Nat
  PROVE  /\ FatesOf(n, h, r) \in Seq({"handled", "lost", "flying"})
         /\ DOMAIN FatesOf(n, h, r) = 1 .. n /\ Len(FatesOf(n, h, r)) = n
         /\ \A i \in 1 .. n :
              /\ i \in h => FatesOf(n, h, r)[i] = "handled"
              /\ i \notin h /\ i =< r => FatesOf(n, h, r)[i] = "lost"
              /\ i \notin h /\ i > r => FatesOf(n, h, r)[i] = "flying"
  BY DEF FatesOf

LEMMA ToldsType ==
  ASSUME NEW n \in Nat, NEW a
  PROVE  /\ DOMAIN ToldsOf(n, a) = 1 .. n /\ Len(ToldsOf(n, a)) = n
         /\ \A i \in 1 .. n : ToldsOf(n, a)[i] = (i \in a)
  BY DEF ToldsOf

\* A packet sent is a packet flying.
LEMMA FatesAppend ==
  ASSUME NEW n \in Nat, NEW r \in Nat, r =< n, NEW h \in SUBSET (1 .. r)
  PROVE  FatesOf(n + 1, h, r) = Append(FatesOf(n, h, r), "flying")
  <1> DEFINE f == FatesOf(n, h, r)
             g == FatesOf(n + 1, h, r)
  <1>1. /\ f \in Seq({"handled", "lost", "flying"}) /\ Len(f) = n
        /\ g \in Seq({"handled", "lost", "flying"}) /\ Len(g) = n + 1
    BY FatesType
  <1>2. \A i \in 1 .. n : g[i] = f[i]
    <2> SUFFICES ASSUME NEW i \in 1 .. n PROVE g[i] = f[i]
      OBVIOUS
    <2>1. /\ i \in h => f[i] = "handled"
          /\ i \notin h /\ i =< r => f[i] = "lost"
          /\ i \notin h /\ i > r => f[i] = "flying"
      BY FatesType
    <2>2. /\ i \in h => g[i] = "handled"
          /\ i \notin h /\ i =< r => g[i] = "lost"
          /\ i \notin h /\ i > r => g[i] = "flying"
      BY FatesType
    <2> QED BY <2>1, <2>2
  <1>3. g[n + 1] = "flying"
    BY FatesType
  <1> HIDE DEF f, g
  <1>4. g = Append(f, "flying")
    BY <1>1, <1>2, <1>3
  <1> QED BY <1>4 DEF f, g

\* Handling packet i decides the packets before it.
LEMMA FatesHandle ==
  ASSUME NEW n \in Nat, NEW r \in Nat, NEW h \in SUBSET (1 .. r),
         NEW i \in r + 1 .. n
  PROVE  /\ i \in DOMAIN FatesOf(n, h, r)
         /\ FatesOf(n, h, r)[i] = "flying"
         /\ FatesOf(n, h \cup {i}, i) =
              [j \in DOMAIN FatesOf(n, h, r) |->
                 CASE j = i -> "handled"
                   [] j < i /\ FatesOf(n, h, r)[j] = "flying" -> "lost"
                   [] OTHER -> FatesOf(n, h, r)[j]]
  <1> DEFINE f == FatesOf(n, h, r)
             g == FatesOf(n, h \cup {i}, i)
             e == [j \in DOMAIN f |-> CASE j = i -> "handled"
                                        [] j < i /\ f[j] = "flying" -> "lost"
                                        [] OTHER -> f[j]]
  <1>1. DOMAIN f = 1 .. n /\ DOMAIN g = 1 .. n
    BY FatesType
  <1>2. i \in 1 .. n /\ i \notin h /\ f[i] = "flying"
    BY FatesType
  <1>3. ASSUME NEW j \in 1 .. n PROVE g[j] = e[j]
    <2>1. /\ j \in h => f[j] = "handled"
          /\ j \notin h /\ j =< r => f[j] = "lost"
          /\ j \notin h /\ j > r => f[j] = "flying"
      BY FatesType
    <2>2. /\ j \in h \cup {i} => g[j] = "handled"
          /\ j \notin h \cup {i} /\ j =< i => g[j] = "lost"
          /\ j \notin h \cup {i} /\ j > i => g[j] = "flying"
      BY FatesType
    <2>3. j \in h => j =< r
      OBVIOUS
    <2> HIDE DEF f, g
    <2>4. e[j] = CASE j = i -> "handled"
                   [] j < i /\ f[j] = "flying" -> "lost"
                   [] OTHER -> f[j]
      BY <1>1
    <2>5. CASE j = i
      BY <2>2, <2>4, <2>5
    <2>6. CASE j < i
      BY <2>1, <2>2, <2>4, <2>6
    <2>7. CASE j > i
      BY <2>1, <2>2, <2>4, <2>7
    <2> QED BY <2>5, <2>6, <2>7
  <1>4. g = e
    <2> HIDE DEF f, g
    <2>1. e = [j \in 1 .. n |-> e[j]] /\ DOMAIN e = 1 .. n
      BY <1>1
    <2>2. g = [j \in 1 .. n |-> g[j]]
      <3>1. g = [j \in 1 .. n |-> CASE j \in h \cup {i} -> "handled"
                                    [] j \notin h \cup {i} /\ j =< i -> "lost"
                                    [] OTHER -> "flying"]
        BY DEF g, FatesOf
      <3> QED BY <3>1
    <2> QED BY <1>3, <2>1, <2>2
  <1> QED BY <1>1, <1>2, <1>4

LEMMA WayValues ==
  ASSUME NEW p
  PROVE  /\ FateOf(p) = FatesOf(lastSendSeq[p], handled[Other(p)], lastSeqRecvd[Other(p)])
         /\ ToldOf(p) = ToldsOf(highestAckedSeq[p], acked[p])
  BY DEF FateOf, ToldOf, FatesOf, ToldsOf

\* The same in the next state.
LEMMA WayValuesNext ==
  ASSUME NEW p
  PROVE  /\ FateOf(p)' = FatesOf(lastSendSeq'[p], handled'[Other(p)], lastSeqRecvd'[Other(p)])
         /\ ToldOf(p)' = ToldsOf(highestAckedSeq'[p], acked'[p])
  BY DEF FateOf, ToldOf, FatesOf, ToldsOf

\* What the two ends of the direction from p to q hold.
LEMMA WayTypes ==
  ASSUME TypeInv, DataInv, NEW p \in Peers
  PROVE  /\ Other(p) \in Peers /\ Other(p) # p /\ Other(Other(p)) = p
         /\ lastSendSeq[p] \in Nat /\ highestAckedSeq[p] \in Nat
         /\ lastSeqRecvd[Other(p)] \in Nat
         /\ highestAckedSeq[p] =< lastSeqRecvd[Other(p)]
         /\ lastSeqRecvd[Other(p)] =< lastSendSeq[p]
         /\ handled[Other(p)] \in SUBSET (1 .. lastSeqRecvd[Other(p)])
         /\ acked[p] \in SUBSET (1 .. highestAckedSeq[p])
         /\ acked[p] \subseteq handled[Other(p)]
         /\ nacked[p] \cap handled[Other(p)] = {}
  <1>1. Other(p) \in Peers /\ Other(p) # p /\ Other(Other(p)) = p
    BY PeersFact
  <1>2. TypeOK /\ PeerInv(p) /\ PeerInv(Other(p))
    BY <1>1 DEF TypeInv, DataInv
  <1>3. lastSendSeq[p] \in Nat /\ highestAckedSeq[p] \in Nat
        /\ lastSeqRecvd[Other(p)] \in Nat
    BY <1>1, <1>2 DEF TypeOK
  <1> QED BY <1>1, <1>2, <1>3 DEF PeerInv, WindowInv, HandledInv, OutcomeInv

LEMMA WayInit == ASSUME Init, NEW p \in Peers PROVE Way(p)!Init
  <1>1. lastSendSeq[p] = 0 /\ highestAckedSeq[p] = 0
    BY DEF Init
  <1>2. FateOf(p) = <<>> /\ ToldOf(p) = <<>>
    BY <1>1, WayValues DEF FatesOf, ToldsOf
  <1> QED BY <1>2 DEF Way!Init

\* Nothing happens in the direction from p when neither end's numbers change.
LEMMA WayStutter ==
  ASSUME NEW p,
         lastSendSeq'[p] = lastSendSeq[p], highestAckedSeq'[p] = highestAckedSeq[p],
         acked'[p] = acked[p], handled'[Other(p)] = handled[Other(p)],
         lastSeqRecvd'[Other(p)] = lastSeqRecvd[Other(p)]
  PROVE  UNCHANGED Way(p)!vars
  <1>1. FateOf(p)' = FateOf(p) /\ ToldOf(p)' = ToldOf(p)
    BY WayValues, WayValuesNext
  <1> QED BY <1>1 DEF Way!vars

LEMMA WaySend ==
  ASSUME TypeInv, DataInv, NEW p \in Peers, CheckPacketSend(p)
  PROVE  /\ Way(p)!Send
         /\ UNCHANGED Way(Other(p))!vars
  <1> DEFINE q == Other(p)
             n == lastSendSeq[p]
             r == lastSeqRecvd[q]
             h == handled[q]
  <1>1. /\ q \in Peers /\ q # p /\ Other(q) = p
        /\ n \in Nat /\ r \in Nat /\ r =< n /\ h \in SUBSET (1 .. r)
        /\ highestAckedSeq[p] \in Nat
    BY WayTypes
  <1>2. TypeOK
    BY DEF TypeInv
  <1>3. /\ lastSendSeq'[p] = n + 1 /\ lastSendSeq'[q] = lastSendSeq[q]
        /\ handled' = handled /\ acked' = acked
        /\ lastSeqRecvd' = lastSeqRecvd /\ highestAckedSeq' = highestAckedSeq
        /\ n - highestAckedSeq[p] < SendWindow
    <2>1. lastSendSeq' = [lastSendSeq EXCEPT ![p] = n + 1]
      BY DEF CheckPacketSend
    <2>2. ~(n - highestAckedSeq[p] >= SendWindow)
      BY DEF CheckPacketSend, WindowFull
    <2> QED BY <1>1, <1>2, <2>1, <2>2, ConstantTypes DEF CheckPacketSend, historyVars, TypeOK
  <1>4. Way(p)!Send
    <2>1. Len(FateOf(p)) = n /\ Len(ToldOf(p)) = highestAckedSeq[p]
      BY <1>1, WayValues, FatesType, ToldsType
    <2>2. FateOf(p)' = Append(FateOf(p), "flying")
      <3>1. FateOf(p) = FatesOf(n, h, r) /\ FateOf(p)' = FatesOf(n + 1, h, r)
        BY <1>3, WayValues, WayValuesNext
      <3> HIDE DEF n, h, r
      <3>2. FatesOf(n + 1, h, r) = Append(FatesOf(n, h, r), "flying")
        BY <1>1, FatesAppend
      <3> QED BY <3>1, <3>2
    <2>3. ToldOf(p)' = ToldOf(p)
      BY <1>3, WayValues, WayValuesNext
    <2> QED BY <1>3, <2>1, <2>2, <2>3 DEF Way!Send
  <1>5. UNCHANGED Way(q)!vars
    BY <1>1, <1>3, WayStutter
  <1> QED BY <1>4, <1>5

\* A packet from the other end: it is handled, unless it is a copy of the last
\* one, and of the packets it notifies those are acked that were handled.
LEMMA ReceivedValues ==
  ASSUME TypeInv, DataInv, NEW p \in Peers, NEW pkt \in wire[p],
         Fresh(p, pkt), ProcessRawPacket(p, pkt)
  PROVE  /\ lastSendSeq' = lastSendSeq
         /\ highestAckedSeq' = [highestAckedSeq EXCEPT ![p] = pkt.ack]
         /\ pkt.ack \in highestAckedSeq[p] .. lastSeqRecvd[Other(p)]
         /\ lastSeqRecvd' = [lastSeqRecvd EXCEPT ![p] = pkt.seq]
         /\ pkt.seq \in lastSeqRecvd[p] .. lastSendSeq[Other(p)]
         /\ handled' = [handled EXCEPT ![p] =
                          IF pkt.seq # lastSeqRecvd[p] THEN @ \cup {pkt.seq} ELSE @]
         /\ acked'[Other(p)] = acked[Other(p)]
         /\ \A i \in 1 .. pkt.ack :
              i \in acked'[p] <=> IF i =< highestAckedSeq[p] THEN i \in acked[p]
                                                               ELSE i \in handled[Other(p)]
  <1> DEFINE q == Other(p)
             count == pkt.ack - highestAckedSeq[p]
             won == Successes(pkt.mask, count)
  <1>1. /\ q \in Peers /\ q # p /\ Other(q) = p
    BY WayTypes
  <1>2. TypeOK /\ NotifyQueueIsWindow /\ DataInv' /\ TypeInv'
    BY DataProcessRawPacket, TypeProcessRawPacket DEF TypeInv
  <1>3. PacketSeq(p, pkt) = pkt.seq /\ PacketAck(p, pkt) = pkt.ack
    BY AcceptedIsRead DEF ProcessRawPacket
  <1>4. /\ lastSendSeq' = lastSendSeq
        /\ highestAckedSeq' = [highestAckedSeq EXCEPT ![p] = pkt.ack]
        /\ lastSeqRecvd' = [lastSeqRecvd EXCEPT ![p] = pkt.seq]
        /\ HandleNotifies(p, won, count)
        /\ HandlePacket(p, pkt, pkt.seq)
    BY <1>3 DEF ProcessRawPacket
  <1>5. PacketInv(q, pkt) /\ pkt \in Packet
    BY <1>1, <1>2 DEF DataInv, PeerInv, WireInv, TypeOK
  <1>6. /\ pkt.type = "data" /\ pkt.seq \in Nat /\ pkt.ack \in Nat
        /\ pkt.seq =< lastSendSeq[q] /\ pkt.ack =< lastSeqRecvd[q]
    BY <1>5 DEF PacketInv, Packet
  <1>7. /\ lastSendSeq[p] \in Nat /\ highestAckedSeq[p] \in Nat /\ lastSeqRecvd[q] \in Nat
        /\ lastSendSeq[q] \in Nat /\ highestAckedSeq[q] \in Nat /\ lastSeqRecvd[p] \in Nat
    BY <1>1, <1>2 DEF TypeOK
  <1>8. highestAckedSeq[p] =< pkt.ack /\ lastSeqRecvd[p] =< pkt.seq
    BY <1>3, <1>6, <1>7, DecodeRange DEF PacketSeq, PacketAck
  <1>9. handled' = [handled EXCEPT ![p] =
                      IF pkt.seq # lastSeqRecvd[p] THEN @ \cup {pkt.seq} ELSE @]
    BY <1>4, <1>6 DEF HandlePacket
  <1>10. acked'[q] = acked[q]
    BY <1>1, <1>2, <1>4 DEF HandleNotifies, TypeOK
  <1>11. ASSUME NEW i \in 1 .. pkt.ack
         PROVE  i \in acked'[p] <=> IF i =< highestAckedSeq[p] THEN i \in acked[p]
                                                                 ELSE i \in handled[q]
    <2>1. /\ acked'[p] = acked[p] \cup {notifyQueue[p][j] : j \in won}
          /\ nacked'[p] = nacked[p] \cup {notifyQueue[p][j] : j \in (1 .. count) \ won}
      BY <1>2, <1>4 DEF HandleNotifies, TypeOK
    <2>2. won \in SUBSET (1 .. count)
      BY DEF Successes
    <2>3. \A j \in 1 .. count : notifyQueue[p][j] = highestAckedSeq[p] + j
      <3> DEFINE len == Len(notifyQueue[p])
      <3>1. len = lastSendSeq[p] - highestAckedSeq[p]
        BY <1>2 DEF NotifyQueueIsWindow
      <3>2. pkt.ack =< lastSendSeq[p]
        BY <1>3 DEF ProcessRawPacket, Accepted
      <3> HIDE DEF len
      <3>3. \A j \in 1 .. count : j \in 1 .. len
        BY <1>6, <1>7, <3>1, <3>2
      <3> QED BY <1>2, <3>3 DEF NotifyQueueIsWindow, len
    <2>4. handled'[q] = handled[q]
      BY <1>1, <1>2, <1>9 DEF TypeOK
    <2>5. acked'[p] \subseteq handled[q] /\ nacked'[p] \cap handled[q] = {}
      <3>1. OutcomeInv(p)'
        BY <1>2 DEF DataInv, PeerInv
      <3> QED BY <2>4, <3>1 DEF OutcomeInv
    <2> HIDE DEF won, count, q
    <2>6. CASE i =< highestAckedSeq[p]
      <3>1. \A j \in won : notifyQueue[p][j] # i
        BY <1>6, <1>7, <2>2, <2>3, <2>6 DEF count
      <3> QED BY <2>1, <2>6, <3>1
    <2>7. CASE i > highestAckedSeq[p]
      <3> DEFINE j == i - highestAckedSeq[p]
      <3>1. j \in 1 .. count /\ notifyQueue[p][j] = i
        <4>1. j \in 1 .. count
          BY <1>6, <1>7, <2>7 DEF count
        <4>2. notifyQueue[p][j] = highestAckedSeq[p] + j
          BY <2>3, <4>1
        <4> QED BY <1>6, <1>7, <4>1, <4>2
      <3>2. i \in acked'[p] \/ i \in nacked'[p]
        BY <2>1, <3>1
      <3> QED BY <1>7, <2>5, <2>7, <3>2
    <2> QED BY <1>7, <2>6, <2>7
  <1> QED BY <1>4, <1>6, <1>7, <1>8, <1>9, <1>10, <1>11

\* The sender learns what became of the packets up to the one acked.
LEMMA WayNotify ==
  ASSUME TypeInv, DataInv, NEW p \in Peers, NEW pkt \in wire[p],
         Fresh(p, pkt), ProcessRawPacket(p, pkt)
  PROVE  [Way(p)!Next]_(Way(p)!vars)
  <1> DEFINE q == Other(p)
             n == lastSendSeq[p]
             r == lastSeqRecvd[q]
             h == handled[q]
             d == highestAckedSeq[p]
             f == FateOf(p)
             t == ToldOf(p)
  <1>1. /\ q \in Peers /\ q # p /\ Other(q) = p
        /\ n \in Nat /\ r \in Nat /\ r =< n /\ h \in SUBSET (1 .. r)
        /\ d \in Nat /\ acked[p] \subseteq h /\ acked[p] \in SUBSET (1 .. d)
    BY WayTypes
  <1>2. TypeOK
    BY DEF TypeInv
  <1>3. /\ lastSendSeq' = lastSendSeq /\ highestAckedSeq'[p] = pkt.ack
        /\ handled'[q] = h /\ lastSeqRecvd'[q] = r
        /\ pkt.ack \in d .. r
        /\ \A i \in 1 .. pkt.ack :
             i \in acked'[p] <=> IF i =< d THEN i \in acked[p] ELSE i \in h
    BY <1>1, <1>2, ReceivedValues DEF TypeOK
  <1>4. FateOf(p)' = f
    BY <1>3, WayValues, WayValuesNext
  <1>5. /\ DOMAIN f = 1 .. n /\ Len(f) = n
        /\ \A i \in 1 .. n : /\ i \in h => f[i] = "handled"
                             /\ i \notin h /\ i =< r => f[i] = "lost"
    BY <1>1, WayValues, FatesType
  <1>6. /\ DOMAIN t = 1 .. d /\ Len(t) = d
        /\ \A i \in 1 .. d : t[i] = (i \in acked[p])
    BY <1>1, WayValues, ToldsType
  <1>7. ToldOf(p)' = [i \in 1 .. pkt.ack |-> i \in acked'[p]]
    BY <1>3, WayValuesNext DEF ToldsOf
  <1> HIDE DEF q, n, r, h, d, f, t
  <1>8. CASE pkt.ack = d
    <2>1. \A i \in 1 .. d : (i \in acked'[p]) = (i \in acked[p])
      BY <1>1, <1>3, <1>8
    <2>2. ToldOf(p)' = [i \in 1 .. d |-> i \in acked[p]]
      BY <1>7, <1>8, <2>1
    <2>3. t = [i \in 1 .. d |-> i \in acked[p]]
      BY WayValues DEF t, d, ToldsOf
    <2> QED BY <1>4, <2>2, <2>3 DEF Way!vars, f, t
  <1>9. CASE pkt.ack # d
    <2>1. pkt.ack \in Len(t) + 1 .. Len(f)
      BY <1>1, <1>3, <1>5, <1>6, <1>9
    <2>2. \A j \in 1 .. pkt.ack : f[j] # "flying" /\ (f[j] = "handled" <=> j \in h)
      <3> SUFFICES ASSUME NEW j \in 1 .. pkt.ack
                   PROVE  f[j] # "flying" /\ (f[j] = "handled" <=> j \in h)
        OBVIOUS
      <3>1. j \in 1 .. n /\ j =< r
        BY <1>1, <1>3
      <3> QED BY <1>5, <3>1
    <2>3. \A j \in 1 .. pkt.ack :
            (j \in acked'[p]) = IF j =< Len(t) THEN t[j] ELSE f[j] = "handled"
      <3> SUFFICES ASSUME NEW j \in 1 .. pkt.ack
                   PROVE  (j \in acked'[p]) = IF j =< Len(t) THEN t[j] ELSE f[j] = "handled"
        OBVIOUS
      <3>1. CASE j =< d
        <4>1. j \in 1 .. d
          BY <1>1, <3>1
        <4> QED BY <1>3, <1>6, <3>1, <4>1
      <3>2. CASE ~(j =< d)
        BY <1>3, <1>6, <2>2, <3>2
      <3> QED BY <3>1, <3>2
    <2>4. ToldOf(p)' = [j \in 1 .. pkt.ack |->
                          IF j =< Len(t) THEN t[j] ELSE f[j] = "handled"]
      BY <1>7, <2>3
    <2>5. Way(p)!NotifyUpTo(pkt.ack)
      BY <2>2, <2>4 DEF Way!NotifyUpTo, f, t
    <2>6. Way(p)!Notify
      BY <1>4, <2>1, <2>5 DEF Way!Notify, f, t
    <2> QED BY <2>6 DEF Way!Next
  <1> QED BY <1>8, <1>9

\* The packet itself is handled in the direction it came in.
LEMMA WayHandle ==
  ASSUME TypeInv, DataInv, NEW p \in Peers, NEW pkt \in wire[p],
         Fresh(p, pkt), ProcessRawPacket(p, pkt)
  PROVE  [Way(Other(p))!Next]_(Way(Other(p))!vars)
  <1> DEFINE q == Other(p)
             n == lastSendSeq[q]
             r == lastSeqRecvd[p]
             h == handled[p]
  <1>1. q \in Peers /\ q # p /\ Other(q) = p
    BY WayTypes
  <1>2. n \in Nat /\ r \in Nat /\ r =< n /\ h \in SUBSET (1 .. r)
    BY <1>1, WayTypes
  <1>3. TypeOK
    BY DEF TypeInv
  <1>4. /\ lastSendSeq' = lastSendSeq /\ highestAckedSeq'[q] = highestAckedSeq[q]
        /\ acked'[q] = acked[q]
        /\ lastSeqRecvd'[p] = pkt.seq /\ pkt.seq \in r .. n
        /\ handled'[p] = IF pkt.seq # r THEN h \cup {pkt.seq} ELSE h
    <2>1. /\ lastSendSeq' = lastSendSeq
          /\ highestAckedSeq' = [highestAckedSeq EXCEPT ![p] = pkt.ack]
          /\ lastSeqRecvd' = [lastSeqRecvd EXCEPT ![p] = pkt.seq]
          /\ pkt.seq \in r .. n
          /\ handled' = [handled EXCEPT ![p] = IF pkt.seq # r THEN h \cup {pkt.seq} ELSE h]
          /\ acked'[q] = acked[q]
      BY ReceivedValues
    <2> HIDE DEF q
    <2> QED BY <1>1, <1>3, <2>1 DEF TypeOK
  <1>5. CASE pkt.seq = r
    BY <1>1, <1>4, <1>5, WayStutter
  <1>6. CASE pkt.seq # r
    <2>1. pkt.seq \in r + 1 .. n
      BY <1>2, <1>4, <1>6
    <2>2. FateOf(q) = FatesOf(n, h, r) /\ FateOf(q)' = FatesOf(n, h \cup {pkt.seq}, pkt.seq)
      BY <1>1, <1>4, <1>6, WayValues, WayValuesNext
    <2>3. /\ pkt.seq \in DOMAIN FateOf(q)
          /\ FateOf(q)[pkt.seq] = "flying"
          /\ FateOf(q)' = [j \in DOMAIN FateOf(q) |->
                             CASE j = pkt.seq -> "handled"
                               [] j < pkt.seq /\ FateOf(q)[j] = "flying" -> "lost"
                               [] OTHER -> FateOf(q)[j]]
      BY <1>2, <2>1, <2>2, FatesHandle
    <2>4. ToldOf(q)' = ToldOf(q)
      BY <1>4, WayValues, WayValuesNext
    <2>5. Way(q)!Handle(pkt.seq)
      BY <2>3 DEF Way!Handle
    <2>6. Way(q)!HandlePacket
      BY <2>3, <2>4, <2>5 DEF Way!HandlePacket
    <2> QED BY <2>6 DEF Way!Next
  <1> QED BY <1>5, <1>6

LEMMA WayStep ==
  ASSUME TypeInv, DataInv, [Next]_vars, NEW p \in Peers
  PROVE  [Way(p)!Next]_(Way(p)!vars)
  <1>1. ASSUME NEW q \in Peers, CheckPacketSend(q)
        PROVE  [Way(p)!Next]_(Way(p)!vars)
    <2>1. p = q \/ p = Other(q)
      BY PeersFact
    <2> QED BY <1>1, <2>1, WaySend DEF Way!Next
  <1>2. ASSUME NEW q \in Peers, SendPingPacket(q)
        PROVE  [Way(p)!Next]_(Way(p)!vars)
    <2>1. UNCHANGED <<protocolVars, historyVars>>
      BY <1>2 DEF SendPingPacket
    <2> QED BY <2>1, WayStutter DEF protocolVars, historyVars
  <1>3. ASSUME NEW q \in Peers, Receive(q)
        PROVE  [Way(p)!Next]_(Way(p)!vars)
    <2>1. PICK pkt \in wire[q] : Fresh(q, pkt) /\ ProcessRawPacket(q, pkt)
      BY <1>3 DEF Receive
    <2>2. p = q \/ p = Other(q)
      BY PeersFact
    <2> QED BY <2>1, <2>2, WayNotify, WayHandle
  <1>4. CASE UNCHANGED vars
    BY <1>4, WayStutter DEF vars, protocolVars, historyVars
  <1> QED BY <1>1, <1>2, <1>3, <1>4 DEF Next

\* The protocol implements a notify window in each direction, whatever the
\* other direction carries and whatever the network does: what is proved of
\* windows (NotifyWindow, PacketWindow) holds of the protocol without pings.
THEOREM EachWayIsWindow == ASSUME DataOnly PROVE Spec => EachWayNotifies
  <1>1. "client" \in Peers /\ "server" \in Peers
    BY DEF Peers
  <1>2. Init => ToServer!Init /\ ToClient!Init
    <2>1. Init => Way("client")!Init /\ Way("server")!Init
      BY <1>1, WayInit
    <2> QED BY <2>1 DEF Way!Init, ToServer!Init, ToClient!Init
  <1>3. TypeInv /\ DataInv /\ [Next]_vars =>
          /\ [ToServer!Next]_(ToServer!vars)
          /\ [ToClient!Next]_(ToClient!vars)
    <2> SUFFICES ASSUME TypeInv, DataInv, [Next]_vars
                 PROVE  /\ [ToServer!Next]_(ToServer!vars)
                        /\ [ToClient!Next]_(ToClient!vars)
      OBVIOUS
    <2>1. /\ [Way("client")!Next]_(Way("client")!vars)
          /\ [Way("server")!Next]_(Way("server")!vars)
      BY <1>1, WayStep
    <2>2. [ToServer!Next]_(ToServer!vars)
      BY <2>1 DEF Way!Next, Way!vars, Way!Send, Way!HandlePacket, Way!Handle, Way!Notify,
                  Way!NotifyUpTo, ToServer!Next, ToServer!vars, ToServer!Send,
                  ToServer!HandlePacket, ToServer!Handle, ToServer!Notify,
                  ToServer!NotifyUpTo
    <2>3. [ToClient!Next]_(ToClient!vars)
      BY <2>1 DEF Way!Next, Way!vars, Way!Send, Way!HandlePacket, Way!Handle, Way!Notify,
                  Way!NotifyUpTo, ToClient!Next, ToClient!vars, ToClient!Send,
                  ToClient!HandlePacket, ToClient!Handle, ToClient!Notify,
                  ToClient!NotifyUpTo
    <2> QED BY <2>2, <2>3
  <1> QED BY <1>2, <1>3, TypeInvariant, DataInvariant, PTL
        DEF Spec, EachWayNotifies, ToServer!Spec, ToClient!Spec

-----------------------------------------------------------------------------
(* With pings, acks and reordering too: packets are handled in order, newer *)
(* ones are never refused, and the acks fit into the header.  The two      *)
(* windows hold although the notifies may not be truthful then.            *)


\* A packet on its way to p is within what the other end has sent and
\* received, and a newer one acks at least as much as an older one.
FlightInv(p) ==
  /\ \A pkt \in wire[p] :
       /\ pkt.seq =< lastSendSeq[Other(p)]
       /\ pkt.ack =< lastSeqRecvd[Other(p)]
       /\ pkt.bytes =< MaxAckBytes
       /\ pkt.seq > lastSeqRecvd[p] => highestAckedSeq[p] =< pkt.ack
  /\ \A m, n \in wire[p] : m.seq < n.seq => m.ack =< n.ack

ReceivedInv(p) == /\ handled[p] \subseteq 0 .. lastSeqRecvd[p]
                  /\ lastSeqRecvd[p] - lastRecvAckAck[p] =< AckBits

OrderInv == \A p \in Peers : WindowInv(p) /\ FlightInv(p) /\ ReceivedInv(p)

\* MaxAckBytes bytes hold the acks of AckBits packets.
LEMMA AckByteCountFits ==
  ASSUME NEW recvd \in Nat, NEW ackAck \in Nat, ackAck =< recvd,
         recvd - ackAck =< AckBits
  PROVE  AckByteCount(recvd, ackAck) =< MaxAckBytes
<1> DEFINE m == recvd - ackAck + AckByte - 1
           q == m \div AckByte
<1>1. AckByte \in Nat \ {0} /\ MaxAckBytes \in Nat /\ AckBits = AckByte * MaxAckBytes
  BY ProtocolConstants
<1>2. m \in Nat
  BY <1>1
<1>3. m = AckByte * q + (m % AckByte) /\ q \in Nat /\ m % AckByte \in 0 .. AckByte - 1
  BY <1>1, <1>2, ModRange, ModDecompose
<1>4. m < AckByte * MaxAckBytes + AckByte
  BY <1>1
<1>5. q > MaxAckBytes => AckByte * q >= AckByte * MaxAckBytes + AckByte
  <2> SUFFICES ASSUME q > MaxAckBytes PROVE AckByte * q >= AckByte * MaxAckBytes + AckByte
    OBVIOUS
  <2>1. q - MaxAckBytes - 1 \in Nat
    BY <1>1, <1>3
  <2>2. AckByte * (q - MaxAckBytes - 1) >= 0
    BY <1>1, <2>1
  <2> HIDE DEF q
  <2> QED BY <1>1, <1>3, <2>2
<1> HIDE DEF m, q
<1>6. q =< MaxAckBytes
  BY <1>1, <1>3, <1>4, <1>5
<1> QED BY <1>6 DEF AckByteCount, m, q

\* The header of a packet carries the numbers of its sender.
LEMMA HeaderFields ==
  ASSUME NEW type, NEW seq, NEW recvd, NEW ackAck, NEW mask, NEW order
  PROVE  LET h == BuildSendPacketHeader(type, seq, recvd, ackAck, mask, order)
         IN  h.seq = seq /\ h.ack = recvd /\ h.bytes = AckByteCount(recvd, ackAck)
BY DEF BuildSendPacketHeader

\* A number at or ahead of the base, within the wrap, is read as it was
\* written.
LEMMA DecodeAhead ==
  ASSUME NEW value \in Nat, NEW base \in Nat, base =< value, value < base + SeqMod
  PROVE  Decode(value % SeqMod, base) = value
<1>0. SeqMod \in Nat \ {0}
  BY ProtocolConstants
<1> DEFINE d == Decode(value % SeqMod, base)
<1>1. d \in Nat /\ base =< d /\ d < base + SeqMod
  BY DecodeRange
<1>2. PICK k \in Int : d = value + SeqMod * k
  BY DecodeRange
<1> HIDE DEF d
<1>3. -SeqMod < SeqMod * k /\ SeqMod * k < SeqMod
  BY <1>0, <1>1, <1>2
<1>4. k = 0
  BY <1>0, <1>3, NoMultipleBetween
<1> QED BY <1>0, <1>2, <1>4 DEF d

-----------------------------------------------------------------------------
(* Steps.                                                                  *)

LEMMA OrderInit == Init => OrderInv
<1> SUFFICES ASSUME Init, NEW p \in Peers PROVE WindowInv(p) /\ FlightInv(p) /\ ReceivedInv(p)
  BY DEF OrderInv
<1> USE ConstantTypes, PeersFact
<1> QED BY DEF Init, WindowInv, FlightInv, ReceivedInv

\* What the fields are, as numbers.
LEMMA FieldTypes ==
  ASSUME TypeInv, NEW p \in Peers
  PROVE  /\ lastSeqRecvd[p] \in Nat /\ highestAckedSeq[p] \in Nat
         /\ lastSendSeq[p] \in Nat /\ lastRecvAckAck[p] \in Nat
         /\ lastRecvAckAck[p] =< lastSeqRecvd[p]
         /\ \A pkt \in wire[p] : pkt \in Packet /\ pkt.seq \in Nat /\ pkt.ack \in Nat
<1>1. TypeOK /\ AckAckBounded
  BY DEF TypeInv
<1>2. \A pkt \in wire[p] : pkt \in Packet
  BY <1>1 DEF TypeOK
<1> QED BY <1>1, <1>2 DEF TypeOK, AckAckBounded, Packet

\* A packet with the newest numbers of its sender p joins those on the wire.
LEMMA SentPacketFits ==
  ASSUME TypeInv, OrderInv, NEW p \in Peers, NEW n \in Nat, lastSendSeq[p] =< n,
         NEW h, h.seq = n, h.ack = lastSeqRecvd[p], h.bytes =< MaxAckBytes
  PROVE  LET q == Other(p)
             packets == wire[q] \cup {h}
         IN  /\ \A pkt \in packets :
                  /\ pkt.seq =< n
                  /\ pkt.ack =< lastSeqRecvd[p]
                  /\ pkt.bytes =< MaxAckBytes
                  /\ pkt.seq > lastSeqRecvd[q] => highestAckedSeq[q] =< pkt.ack
             /\ \A a, b \in packets : a.seq < b.seq => a.ack =< b.ack
<1> DEFINE q == Other(p)
<1>1. q \in Peers /\ Other(q) = p
  BY PeersFact
<1>2. /\ lastSeqRecvd[p] \in Nat /\ lastSendSeq[p] \in Nat
      /\ lastSeqRecvd[q] \in Nat /\ highestAckedSeq[q] \in Nat
      /\ \A pkt \in wire[q] : pkt.seq \in Nat /\ pkt.ack \in Nat
  BY <1>1, FieldTypes
<1>3. FlightInv(q) /\ WindowInv(q)
  BY <1>1 DEF OrderInv
<1> HIDE DEF q
<1>4. \A pkt \in wire[q] : pkt.seq =< lastSendSeq[p] /\ pkt.ack =< lastSeqRecvd[p]
  BY <1>1, <1>3 DEF FlightInv
<1>5. highestAckedSeq[q] =< lastSeqRecvd[p]
  BY <1>1, <1>3 DEF WindowInv
<1>6. ASSUME NEW pkt \in wire[q] \cup {h}
      PROVE  /\ pkt.seq =< n /\ pkt.ack =< lastSeqRecvd[p] /\ pkt.bytes =< MaxAckBytes
             /\ pkt.seq > lastSeqRecvd[q] => highestAckedSeq[q] =< pkt.ack
  <2>1. CASE pkt \in wire[q]
    BY <1>2, <1>3, <1>4, <2>1 DEF FlightInv
  <2>2. CASE pkt = h
    BY <1>2, <1>5, <2>2
  <2> QED BY <2>1, <2>2
<1>7. ASSUME NEW a \in wire[q] \cup {h}, NEW b \in wire[q] \cup {h}, a.seq < b.seq
      PROVE  a.ack =< b.ack
  <2>1. CASE b = h
    BY <1>2, <1>6, <2>1
  <2>2. CASE a = h /\ b \in wire[q]
    BY <1>2, <1>4, <1>7, <2>2
  <2>3. CASE a \in wire[q] /\ b \in wire[q]
    BY <1>3, <1>7, <2>3 DEF FlightInv
  <2> QED BY <2>1, <2>2, <2>3
<1> QED BY <1>6, <1>7 DEF q

LEMMA OrderCheckPacketSend ==
  ASSUME TypeInv, OrderInv, NEW p \in Peers, CheckPacketSend(p)
  PROVE  OrderInv'
<1> DEFINE q == Other(p)
           n == lastSendSeq[p] + 1
           h == BuildSendPacketHeader("data", n, lastSeqRecvd[p], lastRecvAckAck[p],
                                      ackMask[p], n + extra[p])
<1>1. q \in Peers /\ q # p /\ Other(p) = q /\ Other(q) = p /\ Peers = {p, q}
  BY PeersFact
<1>2. /\ \A r \in Peers : /\ lastSeqRecvd[r] \in Nat /\ highestAckedSeq[r] \in Nat
                          /\ lastSendSeq[r] \in Nat /\ lastRecvAckAck[r] \in Nat
                          /\ lastRecvAckAck[r] =< lastSeqRecvd[r]
      /\ n \in Nat
  BY FieldTypes
<1>3. TypeOK /\ \A r \in Peers : WindowInv(r) /\ FlightInv(r) /\ ReceivedInv(r)
  BY DEF OrderInv, TypeInv
<1>4. /\ lastSendSeq' = [lastSendSeq EXCEPT ![p] = n]
      /\ wire' = [wire EXCEPT ![q] = @ \cup {h}]
      /\ UNCHANGED <<lastSeqRecvd, highestAckedSeq, lastRecvAckAck, handled>>
      /\ lastSendSeq[p] - highestAckedSeq[p] < SendWindow
  <2>1. lastSendSeq[p] - highestAckedSeq[p] < SendWindow
    BY <1>2, ConstantTypes DEF CheckPacketSend, WindowFull
  <2> QED BY <2>1 DEF CheckPacketSend, historyVars
<1>5. h.seq = n /\ h.ack = lastSeqRecvd[p] /\ h.bytes =< MaxAckBytes
  <2>1. lastSeqRecvd[p] - lastRecvAckAck[p] =< AckBits
    BY <1>3 DEF ReceivedInv
  <2> QED BY <1>2, <2>1, HeaderFields, AckByteCountFits
<1> HIDE DEF n, h, q
<1>6. lastSendSeq'[p] = n /\ lastSendSeq'[q] = lastSendSeq[q]
  BY <1>1, <1>3, <1>4 DEF TypeOK
<1>7. wire'[p] = wire[p] /\ wire'[q] = wire[q] \cup {h}
  BY <1>1, <1>3, <1>4 DEF TypeOK
<1>8. n >= lastSendSeq[p] /\ n =< highestAckedSeq[p] + SendWindow
  BY <1>1, <1>2, <1>4, ConstantTypes DEF n
<1>9. \A r \in Peers : WindowInv(r)'
  BY <1>1, <1>2, <1>3, <1>4, <1>6, <1>8, ConstantTypes DEF WindowInv
<1>10. \A r \in Peers : ReceivedInv(r)'
  BY <1>3, <1>4 DEF ReceivedInv
<1>11. FlightInv(p)'
  BY <1>1, <1>3, <1>4, <1>6, <1>7 DEF FlightInv
<1>12. FlightInv(q)'
  BY <1>1, <1>2, <1>4, <1>5, <1>6, <1>7, <1>8, SentPacketFits DEF FlightInv, q
<1> QED BY <1>1, <1>9, <1>10, <1>11, <1>12 DEF OrderInv

LEMMA OrderSendPingPacket ==
  ASSUME TypeInv, OrderInv, NEW p \in Peers, SendPingPacket(p)
  PROVE  OrderInv'
<1> DEFINE q == Other(p)
           n == lastSendSeq[p]
           h == BuildSendPacketHeader("ping", n, lastSeqRecvd[p], lastRecvAckAck[p],
                                      ackMask[p], n + extra[p] + 1)
<1>1. q \in Peers /\ q # p /\ Other(p) = q /\ Other(q) = p /\ Peers = {p, q}
  BY PeersFact
<1>2. /\ n \in Nat /\ lastSeqRecvd[p] \in Nat /\ lastRecvAckAck[p] \in Nat
      /\ lastRecvAckAck[p] =< lastSeqRecvd[p]
  BY FieldTypes
<1>3. TypeOK /\ \A r \in Peers : WindowInv(r) /\ FlightInv(r) /\ ReceivedInv(r)
  BY DEF OrderInv, TypeInv
<1>4. /\ wire' = [wire EXCEPT ![q] = @ \cup {h}]
      /\ UNCHANGED <<lastSendSeq, lastSeqRecvd, highestAckedSeq, lastRecvAckAck, handled>>
  BY DEF SendPingPacket, protocolVars, historyVars
<1>5. h.seq = n /\ h.ack = lastSeqRecvd[p] /\ h.bytes =< MaxAckBytes
  <2>1. lastSeqRecvd[p] - lastRecvAckAck[p] =< AckBits
    BY <1>3 DEF ReceivedInv
  <2> QED BY <1>2, <2>1, HeaderFields, AckByteCountFits
<1> HIDE DEF h, q
<1>6. wire'[p] = wire[p] /\ wire'[q] = wire[q] \cup {h}
  BY <1>1, <1>3, <1>4 DEF TypeOK
<1>7. \A r \in Peers : WindowInv(r)' /\ ReceivedInv(r)'
  BY <1>3, <1>4 DEF WindowInv, ReceivedInv
<1>8. FlightInv(p)'
  BY <1>1, <1>3, <1>4, <1>6 DEF FlightInv
<1>9. FlightInv(q)'
  BY <1>1, <1>2, <1>4, <1>5, <1>6, SentPacketFits DEF FlightInv, q
<1> QED BY <1>1, <1>7, <1>8, <1>9 DEF OrderInv

\* The numbers of a packet that is accepted are read as they were written,
\* pings and acks included.
LEMMA OrderIsRead ==
  ASSUME TypeInv, OrderInv, NEW p \in Peers, NEW pkt \in wire[p],
         Fresh(p, pkt), Accepted(p, pkt)
  PROVE  PacketSeq(p, pkt) = pkt.seq /\ PacketAck(p, pkt) = pkt.ack
<1> DEFINE q == Other(p)
<1>1. q \in Peers /\ Other(q) = p
  BY PeersFact
<1>2. /\ \A r \in Peers : /\ lastSeqRecvd[r] \in Nat /\ highestAckedSeq[r] \in Nat
                          /\ lastSendSeq[r] \in Nat
      /\ pkt.seq \in Nat /\ pkt.ack \in Nat
  BY FieldTypes
<1>3. WindowInv(p) /\ WindowInv(q) /\ FlightInv(p)
  BY <1>1 DEF OrderInv
<1>4. pkt.seq =< lastSendSeq[q] /\ pkt.ack =< lastSeqRecvd[q]
  BY <1>3 DEF FlightInv
<1>5. /\ lastSeqRecvd[q] =< lastSendSeq[p]
      /\ highestAckedSeq[q] =< lastSeqRecvd[p]
      /\ lastSendSeq[q] =< highestAckedSeq[q] + SendWindow
      /\ lastSendSeq[p] =< highestAckedSeq[p] + SendWindow
  BY <1>1, <1>3 DEF WindowInv
<1> HIDE DEF q
<1>6. PacketSeq(p, pkt) = pkt.seq
  <2>1. lastSeqRecvd[p] - pkt.seq < SeqMod - RecvWindow
    BY DEF Fresh
  <2>2. pkt.seq < lastSeqRecvd[p] + SeqMod
    BY <1>1, <1>2, <1>4, <1>5, ConstantTypes
  <2>3. Decode(pkt.seq % SeqMod, lastSeqRecvd[p]) =< lastSeqRecvd[p] + RecvWindow
    BY DEF Accepted, PacketSeq
  <2> QED BY <1>2, <2>1, <2>2, <2>3, DecodeFresh, ConstantTypes DEF PacketSeq
<1>7. PacketAck(p, pkt) = pkt.ack
  <2>1. highestAckedSeq[p] - pkt.ack < SeqMod - SendWindow
    BY DEF Fresh
  <2>2. pkt.ack < highestAckedSeq[p] + SeqMod
    BY <1>1, <1>2, <1>4, <1>5, ConstantTypes
  <2>3. Decode(pkt.ack % SeqMod, highestAckedSeq[p]) \in Nat
    BY <1>2, DecodeRange
  <2>4. Decode(pkt.ack % SeqMod, highestAckedSeq[p]) =< highestAckedSeq[p] + SendWindow
    <3>1. Decode(pkt.ack % SeqMod, highestAckedSeq[p]) =< lastSendSeq[p]
      BY DEF Accepted, PacketAck
    <3> QED BY <1>2, <1>5, <2>3, <3>1, ConstantTypes
  <2> QED BY <1>2, <2>1, <2>2, <2>4, DecodeFresh, ConstantTypes DEF PacketAck
<1> QED BY <1>6, <1>7

LEMMA OrderProcessRawPacket ==
  ASSUME TypeInv, OrderInv, NEW p \in Peers, NEW pkt \in wire[p],
         Fresh(p, pkt), ProcessRawPacket(p, pkt)
  PROVE  OrderInv'
<1> DEFINE q == Other(p)
           count == pkt.ack - highestAckedSeq[p]
           won == Successes(pkt.mask, count)
           mask == ShiftedMask(ackMask[p], pkt.seq - lastSeqRecvd[p], pkt.type = "data")
           ackAck == AckAckAfter(lastSeqRecvdAtSend[p], lastRecvAckAck[p],
                                 highestAckedSeq[p], won, pkt.seq)
           answer == AckPacketFor(p, pkt, ackAck, mask)
<1>1. q \in Peers /\ q # p /\ Other(p) = q /\ Other(q) = p /\ Peers = {p, q}
  BY PeersFact
<1>2. /\ \A r \in Peers : /\ lastSeqRecvd[r] \in Nat /\ highestAckedSeq[r] \in Nat
                          /\ lastSendSeq[r] \in Nat /\ lastRecvAckAck[r] \in Nat
                          /\ lastRecvAckAck[r] =< lastSeqRecvd[r]
                          /\ \A m \in wire[r] : m.seq \in Nat /\ m.ack \in Nat
      /\ pkt \in Packet /\ pkt.seq \in Nat /\ pkt.ack \in Nat
  BY FieldTypes
<1>3. TypeOK /\ \A r \in Peers : WindowInv(r) /\ FlightInv(r) /\ ReceivedInv(r)
  BY DEF OrderInv, TypeInv
<1>4. PacketSeq(p, pkt) = pkt.seq /\ PacketAck(p, pkt) = pkt.ack /\ Accepted(p, pkt)
  BY OrderIsRead DEF ProcessRawPacket
<1>5. /\ lastSeqRecvd[p] =< pkt.seq
      /\ highestAckedSeq[p] =< pkt.ack /\ pkt.ack =< lastSendSeq[p]
      /\ ackAck \in Nat /\ ackAck =< lastSeqRecvd[p]
  <2>1. /\ lastSeqRecvd[p] =< pkt.seq
        /\ count \in 0 .. Len(notifyQueue[p])
        /\ ackAck \in Nat /\ ackAck =< lastSeqRecvd[p]
    BY <1>2, <1>4, ProcessValues
  <2>2. pkt.ack =< lastSendSeq[p]
    BY <1>4 DEF Accepted
  <2> QED BY <1>2, <2>1, <2>2
<1>6. pkt.seq - ackAck =< AckBits
  <2> DEFINE known == IF won = {} THEN lastRecvAckAck[p]
                      ELSE lastSeqRecvdAtSend[p][(highestAckedSeq[p] + Max(won)) % Slots]
  <2>1. ackAck = IF pkt.seq - known > AckBits THEN pkt.seq - AckBits ELSE known
    BY DEF AckAckAfter
  <2>2. CASE pkt.seq - known > AckBits
    BY <1>2, <2>1, <2>2, ConstantTypes
  <2>3. CASE ~ (pkt.seq - known > AckBits)
    <3>1. ackAck = known /\ ackAck \in Nat
      BY <1>5, <2>1, <2>3
    <3> HIDE DEF known, ackAck
    <3> QED BY <1>2, <2>3, <3>1, ConstantTypes
  <2> QED BY <2>2, <2>3
<1>7. /\ lastRecvAckAck' = [lastRecvAckAck EXCEPT ![p] = ackAck]
      /\ highestAckedSeq' = [highestAckedSeq EXCEPT ![p] = pkt.ack]
      /\ lastSeqRecvd' = [lastSeqRecvd EXCEPT ![p] = pkt.seq]
      /\ lastSendSeq' = lastSendSeq
      /\ handled' = [handled EXCEPT ![p] = IF pkt.type = "data" /\ pkt.seq # lastSeqRecvd[p]
                                             THEN @ \cup {pkt.seq} ELSE @]
      /\ wire' = [r \in Peers |->
                    IF r = p THEN IF InOrder THEN {m \in wire[p] : m.order > pkt.order}
                                             ELSE wire[p]
                             ELSE wire[r] \cup answer]
  BY <1>4 DEF ProcessRawPacket, HandlePacket
<1>8. answer = {} \/ \E h : answer = {h} /\ h.seq = lastSendSeq[p]
                            /\ h.ack = lastSeqRecvd[p] /\ h.bytes =< MaxAckBytes
  <2> DEFINE h == BuildSendPacketHeader("ack", lastSendSeq[p], lastSeqRecvd[p], ackAck,
                                        mask, lastSendSeq[p] + extra[p] + 1)
  <2>1. answer = {} \/ answer = {h}
    BY DEF AckPacketFor
  <2>2. h.seq = lastSendSeq[p] /\ h.ack = lastSeqRecvd[p]
        /\ h.bytes = AckByteCount(lastSeqRecvd[p], ackAck)
    BY HeaderFields
  <2>3. lastSeqRecvd[p] - ackAck =< AckBits
    <3> HIDE DEF ackAck
    <3> QED BY <1>2, <1>5, <1>6, ConstantTypes
  <2>4. AckByteCount(lastSeqRecvd[p], ackAck) =< MaxAckBytes
    BY <1>2, <1>5, <2>3, AckByteCountFits
  <2> HIDE DEF h
  <2> QED BY <2>1, <2>2, <2>4
<1> HIDE DEF q, ackAck, answer
<1>9. /\ lastSeqRecvd'[p] = pkt.seq /\ lastSeqRecvd'[q] = lastSeqRecvd[q]
      /\ highestAckedSeq'[p] = pkt.ack /\ highestAckedSeq'[q] = highestAckedSeq[q]
      /\ lastRecvAckAck'[p] = ackAck /\ lastRecvAckAck'[q] = lastRecvAckAck[q]
      /\ wire'[p] \subseteq wire[p] /\ wire'[q] = wire[q] \cup answer
      /\ handled'[p] \subseteq handled[p] \cup {pkt.seq} /\ handled'[q] = handled[q]
  BY <1>1, <1>3, <1>7 DEF TypeOK
<1>10. pkt.seq =< lastSendSeq[q] /\ pkt.ack =< lastSeqRecvd[q]
  BY <1>1, <1>3 DEF FlightInv
<1>11. WindowInv(p)' /\ WindowInv(q)'
  BY <1>1, <1>2, <1>3, <1>5, <1>7, <1>9, <1>10, ConstantTypes DEF WindowInv
<1>12. ReceivedInv(p)' /\ ReceivedInv(q)'
  <2>1. handled'[p] \subseteq 0 .. pkt.seq
    BY <1>2, <1>3, <1>5, <1>9 DEF ReceivedInv
  <2>2. pkt.seq - ackAck =< AckBits
    BY <1>6
  <2>3. ReceivedInv(p)'
    BY <1>9, <2>1, <2>2 DEF ReceivedInv
  <2>4. ReceivedInv(q)'
    BY <1>1, <1>3, <1>9 DEF ReceivedInv
  <2> QED BY <2>3, <2>4
<1>13. FlightInv(p)'
  <2>1. ASSUME NEW m \in wire'[p]
        PROVE  /\ m.seq =< lastSendSeq'[q] /\ m.ack =< lastSeqRecvd'[q]
               /\ m.bytes =< MaxAckBytes
               /\ m.seq > lastSeqRecvd'[p] => highestAckedSeq'[p] =< m.ack
    BY <1>1, <1>3, <1>7, <1>9, <2>1 DEF FlightInv
  <2>2. \A m, n \in wire'[p] : m.seq < n.seq => m.ack =< n.ack
    BY <1>3, <1>9 DEF FlightInv
  <2> QED BY <1>1, <2>1, <2>2 DEF FlightInv
<1>14. FlightInv(q)'
  <2>1. ASSUME NEW h, h.seq = lastSendSeq[p], h.ack = lastSeqRecvd[p], h.bytes =< MaxAckBytes,
               NEW m \in wire[q] \cup {h}
        PROVE  /\ m.seq =< lastSendSeq[p] /\ m.ack =< lastSeqRecvd[p]
               /\ m.ack \in Nat
               /\ m.bytes =< MaxAckBytes
               /\ m.seq > lastSeqRecvd[q] => highestAckedSeq[q] =< m.ack
    <3>1. m.ack \in Nat
      BY <1>1, <1>2, <2>1
    <3> QED BY <1>2, <2>1, <3>1, SentPacketFits DEF q
  <2>2. ASSUME NEW h, h.seq = lastSendSeq[p], h.ack = lastSeqRecvd[p], h.bytes =< MaxAckBytes
        PROVE  \A m, n \in wire[q] \cup {h} : m.seq < n.seq => m.ack =< n.ack
    BY <1>2, <2>2, SentPacketFits DEF q
  <2>3. /\ \A m \in wire'[q] : /\ m.seq =< lastSendSeq[p] /\ m.ack =< lastSeqRecvd[p]
                               /\ m.ack \in Nat
                               /\ m.bytes =< MaxAckBytes
                               /\ m.seq > lastSeqRecvd[q] => highestAckedSeq[q] =< m.ack
        /\ \A m, n \in wire'[q] : m.seq < n.seq => m.ack =< n.ack
    <3>1. CASE answer = {}
      BY <1>1, <1>2, <1>3, <1>9, <3>1 DEF FlightInv
    <3>2. CASE answer # {}
      <4>1. PICK h : /\ answer = {h} /\ h.seq = lastSendSeq[p]
                     /\ h.ack = lastSeqRecvd[p] /\ h.bytes =< MaxAckBytes
        BY <1>8, <3>2
      <4> QED BY <1>9, <2>1, <2>2, <4>1
    <3> QED BY <3>1, <3>2
  <2>4. ASSUME NEW m \in wire'[q]
        PROVE  m.ack =< lastSeqRecvd'[p]
    BY <1>2, <1>5, <1>9, <2>3
  <2> QED BY <1>1, <1>7, <1>9, <2>3, <2>4 DEF FlightInv
<1> QED BY <1>1, <1>11, <1>12, <1>13, <1>14 DEF OrderInv

LEMMA OrderInvariant == Spec => []OrderInv
<1>1. TypeInv /\ OrderInv /\ [Next]_vars => OrderInv'
  <2> SUFFICES ASSUME TypeInv, OrderInv, [Next]_vars PROVE OrderInv'
    OBVIOUS
  <2>1. ASSUME NEW p \in Peers, CheckPacketSend(p) PROVE OrderInv'
    BY <2>1, OrderCheckPacketSend
  <2>2. ASSUME NEW p \in Peers, SendPingPacket(p) PROVE OrderInv'
    BY <2>2, OrderSendPingPacket
  <2>3. ASSUME NEW p \in Peers, Receive(p) PROVE OrderInv'
    BY <2>3, OrderProcessRawPacket DEF Receive
  <2>4. CASE UNCHANGED vars
    BY <2>4 DEF vars, protocolVars, historyVars, OrderInv, WindowInv, FlightInv,
                ReceivedInv
  <2> QED BY <2>1, <2>2, <2>3, <2>4 DEF Next
<1> QED BY <1>1, OrderInit, TypeInvariant, PTL DEF Spec

-----------------------------------------------------------------------------
(* Results.                                                                *)

\* The assertion of buildSendPacketHeader never fails: the ack bytes always
\* fit the header, although an end that only answers is never acked itself.
THEOREM AcksFit == Spec => []AckFieldFits
<1>1. TypeInv /\ OrderInv => AckFieldFits
  <2> SUFFICES ASSUME TypeInv, OrderInv, NEW p \in Peers
               PROVE  AckByteCount(lastSeqRecvd[p], lastRecvAckAck[p]) =< MaxAckBytes
    BY DEF AckFieldFits
  <2>1. lastSeqRecvd[p] - lastRecvAckAck[p] =< AckBits
    BY DEF OrderInv, ReceivedInv
  <2> QED BY <2>1, FieldTypes, AckByteCountFits
<1> QED BY <1>1, OrderInvariant, TypeInvariant, PTL

\* processRawPacket never refuses, nor misreads, a packet newer than the last
\* one received, as long as the network delivers none too late.
THEOREM NewerAccepted == Spec => []NewerIsAccepted
<1>1. TypeInv /\ OrderInv => NewerIsAccepted
  <2> SUFFICES ASSUME TypeInv, OrderInv, NEW p \in Peers, NEW pkt \in wire[p],
                      Fresh(p, pkt), pkt.seq > lastSeqRecvd[p]
               PROVE  /\ Accepted(p, pkt)
                      /\ PacketSeq(p, pkt) = pkt.seq
                      /\ PacketAck(p, pkt) = pkt.ack
    BY DEF NewerIsAccepted
  <2> DEFINE q == Other(p)
  <2>1. q \in Peers /\ Other(q) = p
    BY PeersFact
  <2>2. /\ \A r \in Peers : /\ lastSeqRecvd[r] \in Nat /\ highestAckedSeq[r] \in Nat
                            /\ lastSendSeq[r] \in Nat
        /\ pkt.seq \in Nat /\ pkt.ack \in Nat
    BY FieldTypes
  <2>3. WindowInv(p) /\ WindowInv(q) /\ FlightInv(p)
    BY <2>1 DEF OrderInv
  <2>4. /\ pkt.seq =< lastSendSeq[q] /\ pkt.ack =< lastSeqRecvd[q]
        /\ pkt.bytes =< MaxAckBytes /\ highestAckedSeq[p] =< pkt.ack
    BY <2>3 DEF FlightInv
  <2>5. /\ lastSeqRecvd[q] =< lastSendSeq[p]
        /\ highestAckedSeq[q] =< lastSeqRecvd[p]
        /\ lastSendSeq[q] =< highestAckedSeq[q] + SendWindow
        /\ lastSendSeq[p] =< highestAckedSeq[p] + SendWindow
    BY <2>1, <2>3 DEF WindowInv
  <2>6. SendWindow =< RecvWindow
    BY ProtocolConstants
  <2> HIDE DEF q
  <2>7. pkt.seq =< lastSeqRecvd[p] + RecvWindow /\ pkt.ack =< lastSendSeq[p]
    BY <2>1, <2>2, <2>4, <2>5, <2>6, ConstantTypes
  <2>8. PacketSeq(p, pkt) = pkt.seq
    BY <2>2, <2>7, DecodeAhead, ConstantTypes DEF PacketSeq
  <2>9. PacketAck(p, pkt) = pkt.ack
    <3>1. pkt.ack < highestAckedSeq[p] + SeqMod
      BY <2>1, <2>2, <2>5, <2>6, <2>7, ConstantTypes
    <3> QED BY <2>2, <2>4, <3>1, DecodeAhead, ConstantTypes DEF PacketAck
  <2> QED BY <2>4, <2>7, <2>8, <2>9 DEF Accepted
<1> QED BY <1>1, OrderInvariant, TypeInvariant, PTL

\* handlePacket is called with the packets in the order of sending, each at
\* most once, whatever pings and acks come between them.
THEOREM InOrderHandled == Spec => HandledInOrder
<1>1. TypeInv /\ OrderInv /\ [Next]_vars =>
        [\A p \in Peers : \A n \in handled'[p] \ handled[p] :
           \A m \in handled[p] : m < n]_vars
  <2> SUFFICES ASSUME TypeInv, OrderInv, Next, NEW p \in Peers,
                      NEW n \in handled'[p] \ handled[p], NEW m \in handled[p]
               PROVE  m < n
    BY DEF vars
  <2>1. CASE handled' = handled
    BY <2>1
  <2>2. ASSUME NEW r \in Peers, NEW pkt \in wire[r], Fresh(r, pkt), ProcessRawPacket(r, pkt)
        PROVE  m < n
    <3>1. PacketSeq(r, pkt) = pkt.seq /\ Accepted(r, pkt)
      BY <2>2, OrderIsRead DEF ProcessRawPacket
    <3>2. r = p /\ n = pkt.seq /\ pkt.seq # lastSeqRecvd[p]
      BY <2>2, <3>1 DEF ProcessRawPacket, HandlePacket, TypeInv, TypeOK
    <3>3. lastSeqRecvd[p] \in Nat /\ pkt.seq \in Nat /\ pkt \in Packet
      BY <2>2, <3>2, FieldTypes
    <3>4. lastSeqRecvd[p] =< pkt.seq
      BY <2>2, <3>1, <3>2, <3>3, DecodeRange DEF PacketSeq
    <3>5. m \in 0 .. lastSeqRecvd[p]
      BY DEF OrderInv, ReceivedInv
    <3> QED BY <3>2, <3>3, <3>4, <3>5
  <2> QED BY <2>1, <2>2 DEF Next, CheckPacketSend, SendPingPacket, Receive, historyVars
<1> QED BY <1>1, OrderInvariant, TypeInvariant, PTL DEF Spec, HandledInOrder

-----------------------------------------------------------------------------
(* The window that the protocol implements (EachWayIsWindow) keeps its     *)
(* promise, and PacketWindow, on which the models of events and ghosts are *)
(* built, is a view of it: the packets not yet notified.  So what is shown *)
(* of events and ghosts over a PacketWindow holds over the protocol.       *)

\* The state of any one such window.
VARIABLES fate, told

Window == INSTANCE NotifyWindow

\* The packets whose notify is still due.
Unnotified == [i \in 1 .. Len(fate) - Len(told) |-> fate[Len(told) + i]]

View == INSTANCE PacketWindow WITH window <- Unnotified

WindowIInv == Window!TypeOK /\ Window!NotifiesAreTruthful /\ \A i \in DOMAIN told : fate[i] # "flying"

LEMMA WindowInitCorrect == Window!Init => WindowIInv
BY DEF Window!Init, WindowIInv, Window!TypeOK, Window!NotifiesAreTruthful

LEMMA WindowSendStep == ASSUME WindowIInv, Window!Send PROVE WindowIInv'
<1>1. fate \in Seq(Window!Fates) /\ told \in Seq(BOOLEAN) /\ Len(told) =< Len(fate)
  BY DEF WindowIInv, Window!TypeOK
<1>2. fate' = Append(fate, "flying") /\ told' = told
  BY DEF Window!Send
<1>3. /\ fate' \in Seq(Window!Fates) /\ Len(fate') = Len(fate) + 1
      /\ \A i \in 1 .. Len(fate) : fate'[i] = fate[i]
  BY <1>1, <1>2 DEF Window!Fates
<1> QED BY <1>1, <1>2, <1>3 DEF WindowIInv, Window!TypeOK, Window!NotifiesAreTruthful

LEMMA WindowHandleStep ==
  ASSUME WindowIInv, NEW i \in DOMAIN fate, Window!Handle(i), UNCHANGED told
  PROVE  /\ WindowIInv'
         /\ i > Len(told)
         /\ Len(fate') = Len(fate)
<1>1. fate \in Seq(Window!Fates) /\ told \in Seq(BOOLEAN) /\ Len(told) =< Len(fate)
  BY DEF WindowIInv, Window!TypeOK
<1>2. i \in 1 .. Len(fate) /\ fate[i] = "flying"
  BY <1>1 DEF Window!Handle
<1>3. i > Len(told)
  BY <1>1, <1>2 DEF WindowIInv
<1>4. fate' \in Seq(Window!Fates) /\ Len(fate') = Len(fate)
  BY <1>1 DEF Window!Handle, Window!Fates
<1>5. \A j \in 1 .. Len(told) : fate'[j] = fate[j]
  BY <1>1, <1>3 DEF Window!Handle, WindowIInv
<1>6. Window!NotifiesAreTruthful' /\ (\A j \in DOMAIN told : fate[j] # "flying")'
  <2>1. DOMAIN told = 1 .. Len(told) /\ told' = told
    BY <1>1
  <2>2. \A j \in 1 .. Len(told) : (told[j] <=> fate[j] = "handled") /\ fate[j] # "flying"
    BY <2>1 DEF WindowIInv, Window!NotifiesAreTruthful
  <2> QED BY <1>5, <2>1, <2>2 DEF Window!NotifiesAreTruthful
<1> QED BY <1>1, <1>3, <1>4, <1>6 DEF WindowIInv, Window!TypeOK

LEMMA WindowNotifyStep ==
  ASSUME WindowIInv, NEW n \in Len(told) + 1 .. Len(fate), Window!NotifyUpTo(n), UNCHANGED fate
  PROVE  WindowIInv' /\ Len(told') = n
<1>1. fate \in Seq(Window!Fates) /\ told \in Seq(BOOLEAN) /\ Len(told) =< Len(fate)
  BY DEF WindowIInv, Window!TypeOK
<1>2. n \in Nat /\ n =< Len(fate)
  BY <1>1
<1>3. told' = [j \in 1..n |-> IF j =< Len(told) THEN told[j] ELSE fate[j] = "handled"]
  BY DEF Window!NotifyUpTo
<1>4. \A j \in 1 .. n : told'[j] \in BOOLEAN
  <2>1. \A j \in 1 .. n : j =< Len(told) => told[j] \in BOOLEAN
    BY <1>1
  <2>2. \A j \in 1 .. n : (fate[j] = "handled") \in BOOLEAN
    OBVIOUS
  <2>3. \A j \in 1 .. n :
          told'[j] = IF j =< Len(told) THEN told[j] ELSE fate[j] = "handled"
    BY <1>3
  <2> QED BY <2>1, <2>2, <2>3, Zenon
<1>5. told' \in Seq(BOOLEAN) /\ Len(told') = n
  BY <1>2, <1>3, <1>4
<1>6. \A j \in 1 .. n : fate[j] # "flying"
  BY DEF Window!NotifyUpTo
<1>7. \A j \in 1 .. n : told'[j] <=> fate[j] = "handled"
  <2>1. \A j \in 1 .. n : j =< Len(told) => (told[j] <=> fate[j] = "handled")
    <3>1. \A j \in 1 .. n : j =< Len(told) => j \in DOMAIN told
      BY <1>1
    <3> QED BY <3>1 DEF WindowIInv, Window!NotifiesAreTruthful
  <2>2. \A j \in 1 .. n :
          told'[j] = IF j =< Len(told) THEN told[j] ELSE fate[j] = "handled"
    BY <1>3
  <2> QED BY <2>1, <2>2, Zenon
<1> QED BY <1>1, <1>2, <1>5, <1>6, <1>7 DEF WindowIInv, Window!TypeOK, Window!NotifiesAreTruthful

LEMMA WindowStepCorrect == WindowIInv /\ [Window!Next]_(Window!vars) => WindowIInv'
<1> SUFFICES ASSUME WindowIInv, [Window!Next]_(Window!vars) PROVE WindowIInv'
  OBVIOUS
<1>1. CASE Window!Send
  BY <1>1, WindowSendStep
<1>2. CASE Window!HandlePacket
  BY <1>2, WindowHandleStep DEF Window!HandlePacket
<1>3. CASE Window!Notify
  BY <1>3, WindowNotifyStep DEF Window!Notify
<1>4. CASE UNCHANGED Window!vars
  BY <1>4 DEF Window!vars, WindowIInv, Window!TypeOK, Window!NotifiesAreTruthful
<1> QED BY <1>1, <1>2, <1>3, <1>4 DEF Window!Next

LEMMA WindowInvariant == Window!Spec => []WindowIInv
BY WindowInitCorrect, WindowStepCorrect, PTL DEF Window!Spec

\* What the sender is told of a packet is what became of it, whatever the size
\* of the window.
THEOREM WindowIsTruthful == Window!Spec => []Window!NotifiesAreTruthful
<1>1. WindowIInv => Window!NotifiesAreTruthful
  BY DEF WindowIInv
<1> QED BY <1>1, WindowInvariant, PTL

-----------------------------------------------------------------------------
(* The view.                                                               *)

LEMMA UnnotifiedType ==
  ASSUME Window!TypeOK
  PROVE  /\ Unnotified \in Seq(Window!Fates)
         /\ Len(Unnotified) = Len(fate) - Len(told)
         /\ Len(fate) \in Nat /\ Len(told) \in Nat
         /\ \A i \in 1 .. Len(fate) - Len(told) : Unnotified[i] = fate[Len(told) + i]
<1>1. Len(fate) \in Nat /\ Len(told) \in Nat /\ Len(fate) - Len(told) \in Nat
  BY DEF Window!TypeOK
<1>2. \A i \in 1 .. Len(fate) - Len(told) : fate[Len(told) + i] \in Window!Fates
  BY <1>1 DEF Window!TypeOK
<1> QED BY <1>1, <1>2 DEF Unnotified

LEMMA ViewSend == ASSUME WindowIInv, Window!Send PROVE View!Send
<1> DEFINE k == Len(told)
           w == Len(fate) - k
<1>1. /\ fate \in Seq(Window!Fates) /\ Len(fate) \in Nat /\ k \in Nat /\ w \in Nat
      /\ told' = told /\ fate' = Append(fate, "flying")
  BY DEF WindowIInv, Window!TypeOK, Window!Send
<1>2. Len(fate') = Len(fate) + 1 /\ fate'[Len(fate) + 1] = "flying"
  BY <1>1
<1>3. \A i \in 1 .. Len(fate) : fate'[i] = fate[i]
  BY <1>1
<1>4. Unnotified' = [i \in 1 .. w + 1 |-> fate'[k + i]]
  BY <1>1, <1>2 DEF Unnotified
<1>5. Unnotified \in Seq(Window!Fates) /\ Len(Unnotified) = w
  BY UnnotifiedType DEF WindowIInv
<1>6. \A i \in 1 .. w : fate'[k + i] = Unnotified[i]
  BY <1>1, <1>3 DEF Unnotified
<1>7. k + (w + 1) = Len(fate) + 1
  BY <1>1
<1>8. \A i \in 1 .. w + 1 :
        fate'[k + i] = IF i = w + 1 THEN "flying" ELSE Unnotified[i]
  BY <1>1, <1>2, <1>6, <1>7
<1>9. /\ Append(Unnotified, "flying") \in Seq(Window!Fates)
      /\ Len(Append(Unnotified, "flying")) = w + 1
      /\ \A i \in 1 .. w : Append(Unnotified, "flying")[i] = Unnotified[i]
      /\ Append(Unnotified, "flying")[w + 1] = "flying"
  <2>1. "flying" \in Window!Fates
    BY DEF Window!Fates
  <2> QED BY <1>5, <2>1, AppendProperties
<1>10. Unnotified' = Append(Unnotified, "flying")
  <2>1. Unnotified' \in Seq(Window!Fates) /\ Len(Unnotified') = w + 1
    <3>1. \A i \in 1 .. w + 1 : fate'[k + i] \in Window!Fates
      <4>1. fate' \in Seq(Window!Fates) /\ Len(fate') = Len(fate) + 1
        BY <1>1 DEF Window!Fates
      <4>2. \A i \in 1 .. w + 1 : k + i \in 1 .. Len(fate) + 1
        BY <1>1
      <4> QED BY <4>1, <4>2
    <3> QED BY <1>1, <1>4, <3>1
  <2>2. \A i \in 1 .. w + 1 : Unnotified'[i] = Append(Unnotified, "flying")[i]
    <3>1. ASSUME NEW i \in 1 .. w + 1
          PROVE  Unnotified'[i] = IF i = w + 1 THEN "flying" ELSE Unnotified[i]
      BY <1>4, <1>8
    <3>2. ASSUME NEW i \in 1 .. w + 1
          PROVE  i = w + 1 \/ i \in 1 .. w
      BY <1>1
    <3>3. w + 1 \notin 1 .. w
      BY <1>1
    <3> HIDE DEF w
    <3> QED BY <1>9, <3>1, <3>2, <3>3
  <2> QED BY <1>9, <2>1, <2>2, SeqEqual
<1>11. Len(Unnotified) < SendWindow
  BY <1>5 DEF Window!Send
<1> QED BY <1>10, <1>11 DEF View!Send

LEMMA ViewHandle ==
  ASSUME WindowIInv, NEW i \in DOMAIN fate, Window!Handle(i), UNCHANGED told
  PROVE  i - Len(told) \in DOMAIN Unnotified /\ View!Handle(i - Len(told))
<1> DEFINE k == Len(told)
           w == Len(fate) - k
           n == i - k
<1>1. /\ fate \in Seq(Window!Fates) /\ Len(fate) \in Nat /\ k \in Nat /\ w \in Nat
      /\ i \in 1 .. Len(fate) /\ i > k /\ Len(fate') = Len(fate) /\ told' = told
  BY WindowHandleStep DEF WindowIInv, Window!TypeOK
<1>2. n \in 1 .. w /\ k + n = i
  BY <1>1
<1>3. DOMAIN Unnotified = 1 .. w /\ DOMAIN Unnotified' = 1 .. w
  BY <1>1 DEF Unnotified
<1>4. Unnotified[n] = "flying"
  BY <1>1, <1>2 DEF Unnotified, Window!Handle
<1>5. ASSUME NEW j \in 1 .. w
      PROVE  Unnotified'[j] = CASE j = n -> "handled"
                                [] j < n /\ Unnotified[j] = "flying" -> "lost"
                                [] OTHER -> Unnotified[j]
  <2>1. k + j \in 1 .. Len(fate) /\ (k + j = i <=> j = n) /\ (k + j < i <=> j < n)
    BY <1>1
  <2>2. fate'[k + j] = CASE k + j = i -> "handled"
                         [] k + j < i /\ fate[k + j] = "flying" -> "lost"
                         [] OTHER -> fate[k + j]
    BY <1>1, <2>1 DEF Window!Handle
  <2>3. Unnotified[j] = fate[k + j] /\ Unnotified'[j] = fate'[k + j]
    BY <1>1 DEF Unnotified
  <2> QED BY <2>1, <2>2, <2>3
<1>6. Unnotified' = [j \in 1 .. w |-> Unnotified'[j]]
  BY <1>1 DEF Unnotified
<1> QED BY <1>2, <1>3, <1>4, <1>5, <1>6 DEF View!Handle

LEMMA ViewNotify ==
  ASSUME WindowIInv, NEW n \in Len(told) + 1 .. Len(fate), Window!NotifyUpTo(n), UNCHANGED fate
  PROVE  n - Len(told) \in DOMAIN Unnotified /\ View!Notify(n - Len(told))
<1> DEFINE k == Len(told)
           w == Len(fate) - k
           m == n - k
<1>1. /\ Len(fate) \in Nat /\ k \in Nat /\ w \in Nat /\ n \in Nat /\ m \in 1 .. w
      /\ Len(told') = n /\ fate' = fate
  BY WindowNotifyStep DEF WindowIInv, Window!TypeOK
<1>2. /\ Unnotified \in Seq(Window!Fates) /\ Len(Unnotified) = w
      /\ \A i \in 1 .. w : Unnotified[i] = fate[k + i]
  BY UnnotifiedType DEF WindowIInv
<1>3. \A j \in 1 .. m : Unnotified[j] # "flying"
  <2>1. \A j \in 1 .. n : fate[j] # "flying"
    BY DEF Window!NotifyUpTo
  <2>2. \A j \in 1 .. m : k + j \in 1 .. n /\ j \in 1 .. w
    BY <1>1
  <2> QED BY <1>2, <2>1, <2>2
<1>4. Unnotified' = [i \in 1 .. w - m |-> fate[n + i]]
  <2>1. Len(fate) - n = w - m
    BY <1>1
  <2> QED BY <1>1, <2>1 DEF Unnotified
<1>5. SubSeq(Unnotified, m + 1, w) = [i \in 1 .. w - m |-> Unnotified[m + i]]
  BY <1>1, <1>2
<1>6. \A i \in 1 .. w - m : Unnotified[m + i] = fate[n + i]
  <2>1. \A i \in 1 .. w - m : m + i \in 1 .. w /\ k + (m + i) = n + i
    BY <1>1
  <2> QED BY <1>2, <2>1
<1>7. Unnotified' = SubSeq(Unnotified, m + 1, Len(Unnotified))
  BY <1>2, <1>4, <1>5, <1>6
<1> QED BY <1>1, <1>2, <1>3, <1>7 DEF View!Notify

LEMMA ViewStep == WindowIInv /\ [Window!Next]_(Window!vars) => [View!Next]_Unnotified
<1> SUFFICES ASSUME WindowIInv, Window!Next PROVE View!Next
  BY DEF Window!vars, Unnotified
<1>1. CASE Window!Send
  BY <1>1, ViewSend DEF View!Next
<1>2. CASE Window!HandlePacket
  BY <1>2, ViewHandle DEF Window!HandlePacket, View!Next
<1>3. CASE Window!Notify
  BY <1>3, ViewNotify DEF Window!Notify, View!Next
<1> QED BY <1>1, <1>2, <1>3 DEF Window!Next

\* The packets not yet notified behave as a PacketWindow: packets are sent up
\* to the window, handled in order and notified oldest first with their fate.
THEOREM WindowImplementsPackets == Window!Spec => View!Spec
<1>1. Window!Init => View!Init
  BY DEF Window!Init, View!Init, Unnotified
<1> QED BY <1>1, ViewStep, WindowInvariant, PTL DEF Window!Spec, View!Spec
=============================================================================
