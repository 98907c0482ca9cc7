--------------------------- MODULE MCSqlQueryManager ---------------------------
(***************************************************************************)
(* Instances of SqlQueryManager for TLC.                                   *)
(***************************************************************************)
EXTENDS SqlQueryManager

CONSTANTS main, worker, q1, q2, q3, m1, s1, v1

\* A program of queries and monitors, and one that uses the cache.
TwoPrograms == {
    {"construct", "constructExec", "prepare", "bind", "exec", "destroy", "monitor", "refuse"},
    {"cached", "bind", "exec", "destroy", "setEnabled", "refuse"} }
=============================================================================
