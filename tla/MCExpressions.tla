----------------------------- MODULE MCExpressions -----------------------------
(***************************************************************************)
(* Instances of Expressions for TLC.                                       *)
(***************************************************************************)
EXTENDS Expressions, TLC

CONSTANTS v1, v2, t1, t2, c1, c2, x, y, a, inner, outer, asc, desc

\* Variables, tables, conditions and columns and the like are interchangeable.
Symmetric ==
    Permutations(Variable) \cup Permutations(Table) \cup Permutations(Condition)
        \cup Permutations(Column) \cup Permutations(JoinType) \cup Permutations(SortOrder)
=============================================================================
