--------------------------- MODULE MCGhostSession ---------------------------
(* Small instances of GhostSession for TLC.                                *)
EXTENDS GhostSession

CONSTANTS o1, o2, fA, fB, fC

\* One object needs a file the server has not got.
MCNeeds  == o1 :> <<fC, fA>> @@ o2 :> <<fA, fB>>
MCChunks == fA :> 1 @@ fB :> 2 @@ fC :> 1
=============================================================================
