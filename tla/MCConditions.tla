------------------------------ MODULE MCConditions ------------------------------
(***************************************************************************)
(* Instances of Conditions for TLC.                                        *)
(***************************************************************************)
EXTENDS Conditions, TLC

CONSTANTS where, nested, x, y, z, a, upperA, b, p, upperP

\* a and A, p and P differ in case only.
LoweredText == [t \in {a, upperA, b, p, upperP} |->
                  IF t = upperA THEN a ELSE IF t = upperP THEN p ELSE t]

\* Columns may be exchanged, and so may objects.
Symmetric == Permutations(Column) \cup Permutations(Name)
=============================================================================
