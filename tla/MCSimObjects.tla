---------------------------- MODULE MCSimObjects ----------------------------
(* Small instances of SimObjects for TLC.                                  *)
EXTENDS SimObjects
=============================================================================
