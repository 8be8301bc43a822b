----------------------------- MODULE MCNetGhost -----------------------------
(* Small instances of NetGhost for TLC.                                    *)
EXTENDS NetGhost, TLC

SingleBits == {{b} : b \in Bits}
NoMasks    == {}

Symmetry == Permutations(Objects) \cup Permutations(Indices) \cup Permutations(Bits)
=============================================================================
