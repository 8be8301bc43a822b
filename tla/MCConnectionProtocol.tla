------------------------ MODULE MCConnectionProtocol ------------------------
(* Bounds for model checking ConnectionProtocol on a scaled down window.   *)
EXTENDS ConnectionProtocol

ZeroEach == [p \in Peers |-> 0]
OneEach == [p \in Peers |-> 1]
TwoEach == [p \in Peers |-> 2]
SixEach == [p \in Peers |-> 6]

\* The server has little to send and mostly answers.
ClientMostly == [client |-> 5, server |-> 1]
=============================================================================
