---------------------------- MODULE NotifyWindow ----------------------------
(***************************************************************************)
(* What ConnectionProtocol promises to its subclasses for the packets that *)
(* travel in ONE direction: a window of data packets, each handled at most *)
(* once and in the order of sending, and each notified to the sender once, *)
(* in that order, with an outcome that tells whether it was handled        *)
(* (network/connectionProtocol.h, the comment of the class).               *)
(***************************************************************************)
EXTENDS Integers, Sequences

CONSTANT SendWindow     \* windowFull(): how many packets may be unnotified

VARIABLES fate,         \* fate[i]: what has become of the i-th packet sent
          told          \* told[i]: the outcome its sender was notified of

vars == <<fate, told>>

Fates == {"flying", "handled", "lost"}

TypeOK == /\ fate \in Seq(Fates)
          /\ told \in Seq(BOOLEAN)
          /\ Len(told) =< Len(fate)

Init == fate = <<>> /\ told = <<>>

Send == /\ Len(fate) - Len(told) < SendWindow
        /\ fate' = Append(fate, "flying")
        /\ UNCHANGED told

\* Handling packet i gives up every earlier packet still on its way.
Handle(i) == /\ fate[i] = "flying"
             /\ fate' = [j \in DOMAIN fate |->
                           CASE j = i -> "handled"
                             [] j < i /\ fate[j] = "flying" -> "lost"
                             [] OTHER -> fate[j]]

\* The sender learns the fate of every packet up to the n-th.
NotifyUpTo(n) == /\ \A j \in 1..n : fate[j] # "flying"
                 /\ told' = [j \in 1..n |-> IF j =< Len(told)
                                              THEN told[j]
                                              ELSE fate[j] = "handled"]

HandlePacket == \E i \in DOMAIN fate : Handle(i) /\ UNCHANGED told

Notify == /\ \E n \in Len(told) + 1 .. Len(fate) : NotifyUpTo(n)
          /\ UNCHANGED fate

Next == Send \/ HandlePacket \/ Notify

Spec == Init /\ [][Next]_vars

-----------------------------------------------------------------------------
\* The promise in one formula: an outcome the sender was told is the packet's
\* fate, and it is final.
NotifiesAreTruthful == \A i \in DOMAIN told : told[i] <=> fate[i] = "handled"
=============================================================================
