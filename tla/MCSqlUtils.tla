------------------------------ MODULE MCSqlUtils ------------------------------
(***************************************************************************)
(* Instances of SqlUtils for TLC.                                          *)
(***************************************************************************)
EXTENDS SqlUtils
=============================================================================
