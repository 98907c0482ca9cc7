------------------------------ MODULE MCSqlMonitor ------------------------------
(***************************************************************************)
(* Instances of SqlMonitor for TLC.                                        *)
(***************************************************************************)
EXTENDS SqlMonitor

CONSTANTS m1, m2, t1, t2, r1
=============================================================================
