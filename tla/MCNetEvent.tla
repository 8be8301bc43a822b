----------------------------- MODULE MCNetEvent -----------------------------
(* A small instance of NetEvent for TLC.                                   *)
EXTENDS NetEvent

\* More ordered events than their sequence numbers tell apart.
FourAndOne == [k \in Kinds |-> IF k = "ordered" THEN 4 ELSE 1]
=============================================================================
