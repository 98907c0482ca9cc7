------------------------------ MODULE Expressions ------------------------------
(***************************************************************************)
(* Query expressions: SELECT, INSERT and DELETE statements a program       *)
(* writes clause by clause, each method returning an expression of a new   *)
(* type, which the program may keep in a variable and extend again.        *)
(*                                                                         *)
(* What the static assertions of a method refuse is not a step.            *)
(***************************************************************************)
EXTENDS Naturals, Sequences, StatementParts

CONSTANTS
    Variable,   \* variables, or temporaries, that hold expressions
    Kinds,      \* of {"select", "insert", "delete"}
    Table,
    Condition,  \* conditions of WHERE and JOIN
    JoinType, SortOrder,
    Missing,    \* detail::missing
    Ops,        \* how the program writes, a subset of AllOps
    MaxCalls    \* bound on the method calls

\* early: clauses are written before the table; stored: an expression that
\* was extended is used again; storedInsert: an INSERT is.
AllOps == {"early", "stored", "storedInsert"}

ASSUME BoundsAssumption == Ops \subseteq AllOps /\ MaxCalls \in Nat
ASSUME KindsAssumption == Kinds \subseteq {"select", "insert", "delete"}
ASSUME MissingAssumption == Missing \notin Table

VARIABLES
    expr,   \* the expressions
    meant,  \* history: the statement the program wrote to get each of them
    calls   \* number of calls

vars == <<expr, meant, calls>>

\* What an expression holds at run time, and the statement made of it.
Statement(t) ==
    [columns |-> <<>>, table |-> t, joins |-> <<>>, where |-> Missing, group |-> <<>>,
     order |-> <<>>, values |-> <<>>, defaults |-> FALSE]

\* An expression, with what its type remembers of the columns selected and of
\* its WHERE clause.
Expr(k, cols) ==
    [kind |-> k, columns |-> cols, data |-> Statement(Missing), hasWhere |-> FALSE]

Init ==
    /\ expr = [v \in Variable |-> Expr("none", <<>>)]
    /\ meant = [v \in Variable |-> Statement(Missing)]
    /\ calls = 0

-----------------------------------------------------------------------------
Start(v, k, cols) ==
    /\ calls < MaxCalls /\ calls' = calls + 1
    /\ k \in Kinds
    /\ expr' = [expr EXCEPT ![v] = Expr(k, cols)]
    /\ meant' = [meant EXCEPT ![v] = [Statement(Missing) EXCEPT !.columns = cols]]

Select(v, cols) == Start(v, "select", cols)
Insert(v) == Start(v, "insert", <<>>)
Del(v) == Start(v, "delete", <<>>)

\* w becomes e, a clause having been added to the statement of v; expression
\* v itself is left as kept.
Result(v, w, e, kept, m) ==
    /\ calls < MaxCalls /\ calls' = calls + 1
    /\ w # v => (IF expr[v].kind = "insert" THEN "storedInsert" ELSE "stored") \in Ops
    /\ expr' = [expr EXCEPT ![v] = kept, ![w] = e]
    /\ meant' = [meant EXCEPT ![w] = m]

HasTable(v) == expr[v].data.table # Missing
MayWrite(v) == HasTable(v) \/ "early" \in Ops

\* An expression of the new type is constructed, which knows of columns and of
\* a WHERE clause, and of nothing the old one contains; grouping is part of
\* the type too, and comes later.
Begin(v, w, t) ==
    /\ ~HasTable(v)
    /\ Result(v, w, [expr[v] EXCEPT !.data = Statement(t)], expr[v], [meant[v] EXCEPT !.table = t])

From(v, w, t) == expr[v].kind = "select" /\ Begin(v, w, t)
Into(v, w, t) == expr[v].kind = "insert" /\ Begin(v, w, t)
DeleteFrom(v, w, t) == expr[v].kind = "delete" /\ Begin(v, w, t)

\* Mutant: the copy constructor forgets the joins.
CopyWithoutJoins(e) == [e EXCEPT !.data.joins = <<>>]

\* The "copy" constructor takes over conditions, joins and order; group and
\* table go by the types.
Copy(e) == e

\* That of a DELETE takes over its condition.
CopyDelete(e) == [e EXCEPT !.data = [Statement(e.data.table) EXCEPT !.where = e.data.where]]

\* s becomes the statement in w with a WHERE clause, the only one.
Restricted(v, w, s, c) ==
    /\ MayWrite(v) /\ ~expr[v].hasWhere
    /\ Result(v, w,
              [s EXCEPT !.data.where = c, !.hasWhere = TRUE], expr[v],
              [meant[v] EXCEPT !.where = c])

Where(v, w, c) == expr[v].kind = "select" /\ Restricted(v, w, Copy(expr[v]), c)
DeleteWhere(v, w, c) == expr[v].kind = "delete" /\ Restricted(v, w, CopyDelete(expr[v]), c)

\* innerJoin() and the other methods for joins, which come before where().
Join(v, w, type, t, c) ==
    /\ expr[v].kind = "select" /\ MayWrite(v)
    /\ ~expr[v].hasWhere
    /\ Result(v, w,
              [Copy(expr[v]) EXCEPT !.data.joins = Append(@, <<type, t, c>>)], expr[v],
              [meant[v] EXCEPT !.joins = Append(@, <<type, t, c>>)])

GroupBy(v, w, c) ==
    /\ expr[v].kind = "select" /\ HasTable(v)
    /\ expr[v].data.group = <<>>
    /\ Result(v, w,
              [Copy(expr[v]) EXCEPT !.data.group = <<c>>], expr[v],
              [meant[v] EXCEPT !.group = <<c>>])

\* orderBy(): only one, of one or two columns, each ascending or descending.
OrderBy(v, w, cs) ==
    /\ expr[v].kind = "select" /\ HasTable(v)
    /\ expr[v].data.order = <<>>
    /\ Result(v, w,
              [Copy(expr[v]) EXCEPT !.data.order = cs], expr[v],
              [meant[v] EXCEPT !.order = cs])

\* Columns are added to those of earlier calls.
AddColumns(values, cols) == values \o cols

\* columns() changes the expression it is called on, and returns a copy.
Columns(v, w, cols) ==
    /\ expr[v].kind = "insert" /\ MayWrite(v)
    /\ LET e == [expr[v] EXCEPT !.data.values = AddColumns(@, cols)]
       IN  Result(v, w, e, e, [meant[v] EXCEPT !.values = @ \o cols])

\* So does defaultValues().
DefaultValues(v, w) ==
    /\ expr[v].kind = "insert" /\ MayWrite(v)
    /\ LET e == [expr[v] EXCEPT !.data.defaults = TRUE]
       IN  Result(v, w, e, e, [meant[v] EXCEPT !.defaults = TRUE])

\* A column of an INSERT, with its value or without.
ColumnValue == [col : Column, value : Value \cup {Default}]

Lists(S) == {<<c>> : c \in S} \cup {<<c, d>> : c, d \in S}

Next ==
    \E v \in Variable :
        \/ \E cols \in Lists(Column) : Select(v, cols)
        \/ Insert(v) \/ Del(v)
        \/ \E w \in Variable :
              \/ \E t \in Table : From(v, w, t) \/ Into(v, w, t) \/ DeleteFrom(v, w, t)
              \/ \E t \in Table, c \in Condition, type \in JoinType : Join(v, w, type, t, c)
              \/ \E c \in Condition : Where(v, w, c) \/ DeleteWhere(v, w, c)
              \/ \E c \in Column : GroupBy(v, w, c)
              \/ \E cs \in Lists(Column \X SortOrder) : OrderBy(v, w, cs)
              \/ \E cols \in Lists(ColumnValue) : Columns(v, w, cols)
              \/ DefaultValues(v, w)

Spec == Init /\ [][Next]_vars

-----------------------------------------------------------------------------
\* queryBuilder(): what a builder is filled with.
Selected(e) ==
    [columns |-> e.columns, table |-> e.data.table, joins |-> e.data.joins,
     where |-> e.data.where, group |-> e.data.group, order |-> e.data.order]

\* All columns are left without a value if default values are used.
Inserted(e) ==
    [table |-> e.data.table,
     columns |-> [i \in DOMAIN e.data.values |->
                    IF e.data.defaults THEN [e.data.values[i] EXCEPT !.value = Default]
                    ELSE e.data.values[i]]]

Deleted(e) == [table |-> e.data.table, where |-> e.data.where]

QueryBuilder(e) ==
    CASE e.kind = "select" -> Selected(e)
      [] e.kind = "insert" -> Inserted(e)
      [] e.kind = "delete" -> Deleted(e)

\* An expression that says all that the program wrote.
Written(v) == [expr[v] EXCEPT !.columns = meant[v].columns, !.data = meant[v]]

\* The statement of an expression is the one the program wrote: with all its
\* clauses, the condition of a DELETE above all, and no clause of another
\* statement that began in the same way.
StatementSays ==
    \A v \in Variable :
        HasTable(v) => QueryBuilder(expr[v]) = QueryBuilder(Written(v))
=============================================================================
