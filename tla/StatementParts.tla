----------------------------- MODULE StatementParts -----------------------------
(***************************************************************************)
(* What the statements are made of that expressions and the query builders *)
(* they fill have in common.                                               *)
(***************************************************************************)

CONSTANTS
    Column,     \* columns
    Value,      \* values that are bound to a placeholder
    Default     \* a column of an INSERT without a value
=============================================================================
