----------------------------- MODULE EventOrder -----------------------------
(***************************************************************************)
(* What the event manager promises for guaranteed ordered events           *)
(* (NetEvent::GuaranteedOrdered, the default of every event): they are     *)
(* processed in the order of posting, none is left out, and an event is    *)
(* notified as delivered only once it has been processed.  NetEvent        *)
(* implements it; StringTable relies on it.                                *)
(***************************************************************************)
EXTENDS Integers

VARIABLES posted, processed, notified       \* how many events, from the first on

Init == posted = 0 /\ processed = 0 /\ notified = 0

Post == posted' = posted + 1 /\ UNCHANGED <<processed, notified>>

Process(n) == /\ processed + n =< posted
              /\ processed' = processed + n
              /\ UNCHANGED <<posted, notified>>

Notify(n) == /\ notified + n =< processed
             /\ notified' = notified + n
             /\ UNCHANGED <<posted, processed>>

Next == \/ Post
        \/ \E n \in 1 .. posted - processed : Process(n)
        \/ \E n \in 1 .. processed - notified : Notify(n)

Spec == Init /\ [][Next]_<<posted, processed, notified>>
=============================================================================
