--------------------------- MODULE MCStringTable ----------------------------
(* A small instance of StringTable for TLC.                                *)
EXTENDS StringTable, TLC

StringSymmetry == Permutations(Strings)
=============================================================================
