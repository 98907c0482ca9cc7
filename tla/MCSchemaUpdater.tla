---------------------------- MODULE MCSchemaUpdater ----------------------------
(***************************************************************************)
(* Instances of SchemaUpdater for TLC.                                     *)
(***************************************************************************)
EXTENDS SchemaUpdater

CONSTANTS a, b
=============================================================================
