--------------------------- MODULE MCSqlQueryWatcher ---------------------------
(***************************************************************************)
(* Instances of SqlQueryWatcher for TLC.                                   *)
(***************************************************************************)
EXTENDS SqlQueryWatcher

CONSTANTS t1, t2
=============================================================================
