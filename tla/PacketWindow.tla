---------------------------- MODULE PacketWindow ----------------------------
(***************************************************************************)
(* One direction of a session as the writers of packets see it: the fates  *)
(* of the packets whose notify is still due, oldest first.  This is        *)
(* NotifyWindow with the packets already notified forgotten.  NetEvent and *)
(* NetGhost are built on it: eventWritePacket and ghostWritePacket fill    *)
(* the packet of Send, eventReadPacket and ghostReadPacket read the packet *)
(* of Handle, packetReceived and packetDropped answer Notify.              *)
(***************************************************************************)
EXTENDS Integers, Sequences

CONSTANT SendWindow     \* windowFull(): how many packets may be unnotified

VARIABLE window         \* window[i]: what has become of the i-th packet

Fates == {"flying", "handled", "lost"}

Init == window = <<>>

Send == /\ Len(window) < SendWindow
        /\ window' = Append(window, "flying")

\* Handling packet i gives up every earlier packet still on its way.
Handle(i) == /\ window[i] = "flying"
             /\ window' = [j \in DOMAIN window |->
                             CASE j = i -> "handled"
                               [] j < i /\ window[j] = "flying" -> "lost"
                               [] OTHER -> window[j]]

\* The first n packets are notified: received if handled, dropped if lost.
Notify(n) == /\ \A j \in 1..n : window[j] # "flying"
             /\ window' = SubSeq(window, n + 1, Len(window))

Next == \/ Send
        \/ \E i \in DOMAIN window : Handle(i)
        \/ \E n \in DOMAIN window : Notify(n)

Spec == Init /\ [][Next]_window
=============================================================================
