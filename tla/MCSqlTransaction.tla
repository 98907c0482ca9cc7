--------------------------- MODULE MCSqlTransaction ---------------------------
(***************************************************************************)
(* Instances of SqlTransaction for TLC.                                    *)
(***************************************************************************)
EXTENDS SqlTransaction

CONSTANTS c1, c2, t1, t2, t3, s1, s2
=============================================================================
