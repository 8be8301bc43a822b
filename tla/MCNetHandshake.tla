--------------------------- MODULE MCNetHandshake ---------------------------
(* NetHandshake for TLC: two reconnections, one restart of the server.     *)
EXTENDS NetHandshake
=============================================================================
