---------------------------- MODULE MCQueryBuilders ----------------------------
(***************************************************************************)
(* Instances of QueryBuilders for TLC.                                     *)
(***************************************************************************)
EXTENDS QueryBuilders, TLC

CONSTANTS b1, b2, b3, i, u, d, v, w, s1, s2, t1, t2

\* Values, sort columns, and builders of one kind, are interchangeable (safety runs only).
Symmetric == Permutations(Value) \cup Permutations(Selects) \cup Permutations(SortColumn)
=============================================================================
