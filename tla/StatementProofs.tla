---------------------------- MODULE StatementProofs ----------------------------
(***************************************************************************)
(* Proofs about statements, from the expression a program writes to the    *)
(* values bound to what a builder assembles, for any number of tables,     *)
(* columns, values, builders and calls.                                    *)
(*                                                                         *)
(* The statement of an expression is the one the program wrote, if clauses *)
(* come after the table and no INSERT is used again.  A builder that       *)
(* assembles a statement binds every value to its own placeholder, if      *)
(* builders that were combined are not used again.                         *)
(***************************************************************************)
EXTENDS Expressions, QueryBuilders, FiniteSetTheorems, SequenceTheorems, TLAPS

-----------------------------------------------------------------------------
(* Expressions *)

\* The statements, and the expressions, that a program can write.
Statements ==
    [columns : Seq(Column), table : Table \cup {Missing},
     joins : Seq(JoinType \X Table \X Condition), where : Condition \cup {Missing},
     group : Seq(Column), order : Seq(Column \X SortOrder), values : Seq(ColumnValue),
     defaults : BOOLEAN]
Exprs ==
    [kind : Kinds \cup {"none"}, columns : Seq(Column), data : Statements, hasWhere : BOOLEAN]

\* The types of the variables.
Typed == expr \in [Variable -> Exprs] /\ meant \in [Variable -> Statements]

\* Expression e, with what its type remembers, says statement m; before it has
\* a table it contains nothing else, and a DELETE never contains more than the
\* table and a condition.
Says(e, m) ==
    /\ m = [e.data EXCEPT !.columns = e.columns]
    /\ e.data.columns = <<>>
    /\ e.data.table = Missing => e.data = Statement(Missing)
    /\ e.kind = "none" => e.data.table = Missing
    /\ e.kind = "delete" => e.data = [Statement(e.data.table) EXCEPT !.where = e.data.where]

\* What is written so far is kept.
SaysInv == Typed /\ \A v \in Variable : Says(expr[v], meant[v])

-----------------------------------------------------------------------------
(* What each call keeps *)

\* A statement of nothing but a table.
LEMMA StatementOf ==
    ASSUME NEW t \in Table \cup {Missing}
    PROVE  /\ Statement(t) \in Statements /\ Statement(t).table = t /\ Statement(t).columns = <<>>
           /\ [Statement(t) EXCEPT !.columns = <<>>] = Statement(t)
           /\ \A s \in Table : [Statement(t) EXCEPT !.table = s] = Statement(s)
  <1>1. Statement(t) \in Statements /\ Statement(t).table = t /\ Statement(t).columns = <<>>
    BY DEF Statement, Statements
  <1>2. PICK no : no = FALSE
    OBVIOUS
  <1>3. \A s : Statement(s) = [columns |-> <<>>, table |-> s, joins |-> <<>>, where |-> Missing,
                               group |-> <<>>, order |-> <<>>, values |-> <<>>, defaults |-> no]
    BY <1>2 DEF Statement
  <1>4. QED
    BY <1>1, <1>3

\* A method that makes of v's expression one that says what it should, and
\* leaves v's as it was or changes it alike, keeps the invariant.
LEMMA ResultSays ==
    ASSUME SaysInv, NEW v \in Variable, NEW w \in Variable, NEW e \in Exprs, NEW m \in Statements, NEW kept,
           Result(v, w, e, kept, m), Says(e, m), w = v \/ kept = expr[v]
    PROVE  SaysInv'
  <1>1. /\ expr' = [expr EXCEPT ![v] = kept, ![w] = e]
        /\ meant' = [meant EXCEPT ![w] = m]
    BY DEF Result
  <1>2. expr \in [Variable -> Exprs] /\ meant \in [Variable -> Statements]
    BY DEF SaysInv, Typed
  <1>3. /\ expr' = [expr EXCEPT ![w] = e]
        /\ expr' \in [Variable -> Exprs] /\ meant' \in [Variable -> Statements]
    BY <1>1, <1>2
  <1>4. ASSUME NEW x \in Variable PROVE Says(expr'[x], meant'[x])
    <2>1. CASE x = w
      <3>1. expr'[x] = e /\ meant'[x] = m
        BY <1>1, <1>2, <1>3, <2>1
      <3>2. QED
        BY <3>1
    <2>2. CASE x # w
      <3>1. expr'[x] = expr[x] /\ meant'[x] = meant[x]
        BY <1>1, <1>2, <1>3, <2>2
      <3>2. QED
        BY <3>1 DEF SaysInv
    <2>3. QED
      BY <2>1, <2>2
  <1>5. QED
    BY <1>3, <1>4 DEF SaysInv, Typed

\* An expression begins: select(), insert() and del().
LEMMA StartSays ==
    ASSUME SaysInv, NEW v \in Variable, NEW k \in {"select", "insert", "delete"}, NEW cols \in Seq(Column),
           Start(v, k, cols)
    PROVE  SaysInv'
  <1> DEFINE e == Expr(k, cols)
             m == [Statement(Missing) EXCEPT !.columns = cols]
  <1>1. expr' = [expr EXCEPT ![v] = e] /\ meant' = [meant EXCEPT ![v] = m] /\ k \in Kinds
    BY DEF Start
  <1>2. e \in Exprs /\ m \in Statements
    <2>1. Statement(Missing) \in Statements
      BY StatementOf
    <2>2. m \in Statements
      BY <2>1 DEF Statements
    <2>3. e \in Exprs
      BY <1>1, <2>1 DEF Expr, Exprs
    <2>4. QED
      BY <2>2, <2>3
  <1>3. Says(e, m)
    BY DEF Says, Expr, Statement
  <1> HIDE DEF e, m
  <1>4. expr \in [Variable -> Exprs] /\ meant \in [Variable -> Statements]
    BY DEF SaysInv, Typed
  <1>5. Typed'
    BY <1>1, <1>2, <1>4 DEF Typed
  <1>6. ASSUME NEW x \in Variable PROVE Says(expr'[x], meant'[x])
    <2>1. CASE x = v
      <3>1. expr'[x] = e /\ meant'[x] = m
        BY <1>1, <1>4, <2>1
      <3>2. QED
        BY <1>3, <3>1
    <2>2. CASE x # v
      <3>1. expr'[x] = expr[x] /\ meant'[x] = meant[x]
        BY <1>1, <1>4, <2>2
      <3>2. QED
        BY <3>1 DEF SaysInv
    <2>3. QED
      BY <2>1, <2>2
  <1>7. QED
    BY <1>5, <1>6 DEF SaysInv

\* What an expression is and says.
LEMMA SaysOf ==
    ASSUME SaysInv, NEW v \in Variable
    PROVE  /\ expr[v] \in Exprs /\ expr[v].data \in Statements /\ meant[v] \in Statements
           /\ Says(expr[v], meant[v])
  BY DEF SaysInv, Typed, Exprs

\* from(), into() and the like: an expression of the new type has nothing but
\* its table, and nothing but the columns was written before.
LEMMA BeginSays ==
    ASSUME SaysInv, NEW v \in Variable, NEW w \in Variable, NEW t \in Table, Begin(v, w, t),
           expr[v].kind \in {"select", "insert", "delete"}
    PROVE  SaysInv'
  <1> DEFINE e == [expr[v] EXCEPT !.data = Statement(t)]
             m == [meant[v] EXCEPT !.table = t]
  <1>1. /\ expr[v] \in Exprs /\ expr[v].data \in Statements /\ meant[v] \in Statements
        /\ Says(expr[v], meant[v])
    BY SaysOf
  <1>2. Statement(t) \in Statements /\ t # Missing
    BY StatementOf, MissingAssumption
  <1>3. e \in Exprs /\ m \in Statements
    BY <1>1, <1>2 DEF Exprs, Statements
  <1>4. Says(e, m)
    <2>1. expr[v].data = Statement(Missing)
      BY <1>1 DEF Begin, HasTable, Says
    <2>2. meant[v] = [Statement(Missing) EXCEPT !.columns = expr[v].columns]
      BY <1>1, <2>1 DEF Says
    <2>3. m = [Statement(t) EXCEPT !.columns = expr[v].columns]
      <3>1. Statement(Missing) \in Statements /\ [Statement(Missing) EXCEPT !.table = t] = Statement(t)
        BY StatementOf
      <3>2. \A s \in Statements : \A cols :
               [[s EXCEPT !.columns = cols] EXCEPT !.table = t] = [[s EXCEPT !.table = t] EXCEPT !.columns = cols]
        BY DEF Statements
      <3>3. QED
        BY <2>2, <3>1, <3>2
    <2>4. e.columns = expr[v].columns /\ e.data = Statement(t) /\ e.kind = expr[v].kind
      BY <1>1 DEF Exprs
    <2>5. Statement(t) = [Statement(t) EXCEPT !.where = Statement(t).where] /\ Statement(t).table = t
      BY DEF Statement
    <2> HIDE DEF e, m
    <2>6. QED
      BY <1>2, <2>3, <2>4, <2>5, StatementOf DEF Says
  <1>5. Result(v, w, e, expr[v], m)
    BY DEF Begin
  <1> HIDE DEF e, m
  <1>6. QED
    BY <1>3, <1>4, <1>5, ResultSays

\* A WHERE clause is added: to what the expression contains, of which a DELETE
\* keeps all there is.
LEMMA RestrictedSays ==
    ASSUME SaysInv, NEW v \in Variable, NEW w \in Variable, NEW c \in Condition, Ops \subseteq {"stored"},
           Where(v, w, c) \/ DeleteWhere(v, w, c)
    PROVE  SaysInv'
  <1> DEFINE D == [expr[v].data EXCEPT !.where = c]
             e == [expr[v] EXCEPT !.data = D, !.hasWhere = TRUE]
             m == [meant[v] EXCEPT !.where = c]
  <1>1. /\ expr[v] \in Exprs /\ expr[v].data \in Statements /\ meant[v] \in Statements
        /\ Says(expr[v], meant[v])
    BY SaysOf
  <1>2. HasTable(v) /\ expr[v].kind \in {"select", "delete"}
    BY DEF Where, DeleteWhere, Restricted, MayWrite
  <1>3. D \in Statements /\ m \in Statements
    BY <1>1 DEF Statements
  <1>4. e \in Exprs
    BY <1>1, <1>3 DEF Exprs
  <1>5. Result(v, w, e, expr[v], m)
    <2>1. CASE Where(v, w, c)
      <3>1. Result(v, w, [expr[v] EXCEPT !.data.where = c, !.hasWhere = TRUE], expr[v], m)
        BY <2>1 DEF Where, Restricted, Copy
      <3>2. [expr[v] EXCEPT !.data.where = c, !.hasWhere = TRUE] = e
        BY <1>1 DEF Exprs
      <3>3. QED
        BY <3>1, <3>2
    <2>2. CASE DeleteWhere(v, w, c)
      <3>1. expr[v].kind = "delete"
        BY <2>2 DEF DeleteWhere
      <3>2. CopyDelete(expr[v]) = expr[v]
        BY <1>1, <3>1 DEF CopyDelete, Says, Exprs
      <3>3. Result(v, w, [CopyDelete(expr[v]) EXCEPT !.data.where = c, !.hasWhere = TRUE], expr[v], m)
        BY <2>2 DEF DeleteWhere, Restricted
      <3>4. [expr[v] EXCEPT !.data.where = c, !.hasWhere = TRUE] = e
        BY <1>1 DEF Exprs
      <3>5. QED
        BY <3>2, <3>3, <3>4
    <2>3. QED
      BY <2>1, <2>2
  <1>6. Says(e, m)
    <2>1. e.columns = expr[v].columns /\ e.data = D /\ e.kind = expr[v].kind
      BY <1>1 DEF Exprs
    <2>2. m = [D EXCEPT !.columns = e.columns]
      BY <1>1, <2>1 DEF Says, Statements
    <2>3. D.columns = <<>> /\ D.table = expr[v].data.table /\ D.table # Missing
      BY <1>1, <1>2 DEF Says, Statements, HasTable
    <2>4. expr[v].kind = "delete" => D = [Statement(D.table) EXCEPT !.where = D.where]
      BY <1>1, <2>3 DEF Says, Statements, Statement
    <2> HIDE DEF D, e, m
    <2>5. QED
      BY <1>2, <2>1, <2>2, <2>3, <2>4 DEF Says
  <1> HIDE DEF e, m
  <1>7. QED
    BY <1>4, <1>3, <1>5, <1>6, ResultSays

\* A clause that is written once or is added to is written to the statement,
\* of SELECT or INSERT, as it was meant.
LEMMA ClauseSays ==
    ASSUME SaysInv, NEW v \in Variable, NEW w \in Variable, HasTable(v),
           expr[v].kind \in {"select", "insert"},
           NEW D \in Statements, NEW m \in Statements, NEW kept,
           D.columns = <<>>, D.table = expr[v].data.table, m = [D EXCEPT !.columns = meant[v].columns],
           Result(v, w, [expr[v] EXCEPT !.data = D], kept, m), w = v \/ kept = expr[v]
    PROVE  SaysInv'
  <1> DEFINE e == [expr[v] EXCEPT !.data = D]
  <1>1. expr[v] \in Exprs /\ Says(expr[v], meant[v]) /\ expr[v].data \in Statements
    BY SaysOf
  <1>2. e \in Exprs /\ e.columns = expr[v].columns /\ e.data = D /\ e.kind = expr[v].kind
    BY <1>1 DEF Exprs
  <1>3. meant[v].columns = expr[v].columns
    BY <1>1 DEF Says, Statements
  <1>4. e.data.table # Missing
    BY <1>2 DEF HasTable
  <1>5. Result(v, w, e, kept, m)
    OBVIOUS
  <1> HIDE DEF e
  <1>6. Says(e, m)
    BY <1>2, <1>3, <1>4 DEF Says
  <1>7. QED
    BY <1>2, <1>5, <1>6, ResultSays

\* A join is appended: Join.
LEMMA JoinSays ==
    ASSUME SaysInv, NEW v \in Variable, NEW w \in Variable, NEW type \in JoinType, NEW t \in Table,
           NEW c \in Condition, Ops \subseteq {"stored"}, Join(v, w, type, t, c)
    PROVE  SaysInv'
  <1> DEFINE D == [expr[v].data EXCEPT !.joins = Append(@, <<type, t, c>>)]
             m == [meant[v] EXCEPT !.joins = Append(@, <<type, t, c>>)]
  <1>1. /\ expr[v] \in Exprs /\ expr[v].data \in Statements /\ meant[v] \in Statements
        /\ Says(expr[v], meant[v])
    BY SaysOf
  <1>2. HasTable(v) /\ expr[v].kind = "select"
    BY DEF Join, MayWrite
  <1>3. D \in Statements /\ m \in Statements
    <2>1. <<type, t, c>> \in JoinType \X Table \X Condition
      OBVIOUS
    <2>2. \A s \in Statements : Append(s.joins, <<type, t, c>>) \in Seq(JoinType \X Table \X Condition)
      BY <2>1 DEF Statements
    <2>3. QED
      BY <1>1, <2>2 DEF Statements
  <1>4. D.columns = <<>> /\ D.table = expr[v].data.table /\ m = [D EXCEPT !.columns = meant[v].columns]
    BY <1>1 DEF Says, Statements
  <1>5. Result(v, w, [expr[v] EXCEPT !.data = D], expr[v], m)
    <2>1. Result(v, w, [expr[v] EXCEPT !.data.joins = Append(@, <<type, t, c>>)], expr[v], m)
      BY DEF Join, Copy
    <2>2. [expr[v] EXCEPT !.data.joins = Append(@, <<type, t, c>>)] = [expr[v] EXCEPT !.data = D]
      BY <1>1 DEF Exprs
    <2>3. QED
      BY <2>1, <2>2
  <1> HIDE DEF D, m
  <1>6. QED
    BY <1>2, <1>3, <1>4, <1>5, ClauseSays

\* Columns are grouped by: GroupBy.
LEMMA GroupBySays ==
    ASSUME SaysInv, NEW v \in Variable, NEW w \in Variable, NEW c \in Column, GroupBy(v, w, c)
    PROVE  SaysInv'
  <1> DEFINE D == [expr[v].data EXCEPT !.group = <<c>>]
             m == [meant[v] EXCEPT !.group = <<c>>]
  <1>1. /\ expr[v] \in Exprs /\ expr[v].data \in Statements /\ meant[v] \in Statements
        /\ Says(expr[v], meant[v])
    BY SaysOf
  <1>2. HasTable(v) /\ expr[v].kind = "select"
    BY DEF GroupBy
  <1>3. D \in Statements /\ m \in Statements
    <2>1. <<c>> \in Seq(Column)
      OBVIOUS
    <2>2. QED
      BY <1>1, <2>1 DEF Statements
  <1>4. D.columns = <<>> /\ D.table = expr[v].data.table /\ m = [D EXCEPT !.columns = meant[v].columns]
    BY <1>1 DEF Says, Statements
  <1>5. Result(v, w, [expr[v] EXCEPT !.data = D], expr[v], m)
    <2>1. Result(v, w, [expr[v] EXCEPT !.data.group = <<c>>], expr[v], m)
      BY DEF GroupBy, Copy
    <2>2. [expr[v] EXCEPT !.data.group = <<c>>] = [expr[v] EXCEPT !.data = D]
      BY <1>1 DEF Exprs
    <2>3. QED
      BY <2>1, <2>2
  <1> HIDE DEF D, m
  <1>6. QED
    BY <1>2, <1>3, <1>4, <1>5, ClauseSays

\* Columns are sorted by: OrderBy.
LEMMA OrderBySays ==
    ASSUME SaysInv, NEW v \in Variable, NEW w \in Variable, NEW cs \in Seq(Column \X SortOrder),
           OrderBy(v, w, cs)
    PROVE  SaysInv'
  <1> DEFINE D == [expr[v].data EXCEPT !.order = cs]
             m == [meant[v] EXCEPT !.order = cs]
  <1>1. /\ expr[v] \in Exprs /\ expr[v].data \in Statements /\ meant[v] \in Statements
        /\ Says(expr[v], meant[v])
    BY SaysOf
  <1>2. HasTable(v) /\ expr[v].kind = "select"
    BY DEF OrderBy
  <1>3. D \in Statements /\ m \in Statements
    BY <1>1 DEF Statements
  <1>4. D.columns = <<>> /\ D.table = expr[v].data.table /\ m = [D EXCEPT !.columns = meant[v].columns]
    BY <1>1 DEF Says, Statements
  <1>5. Result(v, w, [expr[v] EXCEPT !.data = D], expr[v], m)
    <2>1. Result(v, w, [expr[v] EXCEPT !.data.order = cs], expr[v], m)
      BY DEF OrderBy, Copy
    <2>2. [expr[v] EXCEPT !.data.order = cs] = [expr[v] EXCEPT !.data = D]
      BY <1>1 DEF Exprs
    <2>3. QED
      BY <2>1, <2>2
  <1> HIDE DEF D, m
  <1>6. QED
    BY <1>2, <1>3, <1>4, <1>5, ClauseSays

\* columns() changes the expression it is called on, but no other one has been
\* made of it.
LEMMA ColumnsSays ==
    ASSUME SaysInv, NEW v \in Variable, NEW w \in Variable, NEW cols \in Seq(ColumnValue),
           Ops \subseteq {"stored"}, Columns(v, w, cols)
    PROVE  SaysInv'
  <1> DEFINE D == [expr[v].data EXCEPT !.values = @ \o cols]
             m == [meant[v] EXCEPT !.values = @ \o cols]
             e == [expr[v] EXCEPT !.data = D]
  <1>1. /\ expr[v] \in Exprs /\ expr[v].data \in Statements /\ meant[v] \in Statements
        /\ Says(expr[v], meant[v])
    BY SaysOf
  <1>2. HasTable(v) /\ expr[v].kind = "insert"
    BY DEF Columns, MayWrite
  <1>3. D \in Statements /\ m \in Statements
    <2>1. \A s \in Statements : s.values \o cols \in Seq(ColumnValue)
      BY DEF Statements
    <2>2. QED
      BY <1>1, <2>1 DEF Statements
  <1>4. D.columns = <<>> /\ D.table = expr[v].data.table /\ m = [D EXCEPT !.columns = meant[v].columns]
    BY <1>1 DEF Says, Statements
  <1>5. Result(v, w, e, e, m)
    <2>1. [expr[v] EXCEPT !.data.values = @ \o cols] = e
      BY <1>1 DEF Exprs
    <2>2. QED
      BY <2>1 DEF Columns, AddColumns
  <1>6. w = v
    BY <1>2, <1>5 DEF Result
  <1> HIDE DEF D, m
  <1>7. QED
    BY <1>2, <1>3, <1>4, <1>5, <1>6, ClauseSays

\* Default values are asked for: DefaultValues.
LEMMA DefaultValuesSays ==
    ASSUME SaysInv, NEW v \in Variable, NEW w \in Variable, Ops \subseteq {"stored"}, DefaultValues(v, w)
    PROVE  SaysInv'
  <1> DEFINE D == [expr[v].data EXCEPT !.defaults = TRUE]
             m == [meant[v] EXCEPT !.defaults = TRUE]
             e == [expr[v] EXCEPT !.data = D]
  <1>1. /\ expr[v] \in Exprs /\ expr[v].data \in Statements /\ meant[v] \in Statements
        /\ Says(expr[v], meant[v])
    BY SaysOf
  <1>2. HasTable(v) /\ expr[v].kind = "insert"
    BY DEF DefaultValues, MayWrite
  <1>3. D \in Statements /\ m \in Statements
    BY <1>1 DEF Statements
  <1>4. D.columns = <<>> /\ D.table = expr[v].data.table /\ m = [D EXCEPT !.columns = meant[v].columns]
    BY <1>1 DEF Says, Statements
  <1>5. Result(v, w, e, e, m)
    <2>1. [expr[v] EXCEPT !.data.defaults = TRUE] = e
      BY <1>1 DEF Exprs
    <2>2. QED
      BY <2>1 DEF DefaultValues
  <1>6. w = v
    BY <1>2, <1>5 DEF Result
  <1> HIDE DEF D, m
  <1>7. QED
    BY <1>2, <1>3, <1>4, <1>5, <1>6, ClauseSays

-----------------------------------------------------------------------------
\* The first state.
LEMMA InitSays == Init => SaysInv
  <1> SUFFICES ASSUME Init PROVE SaysInv
    OBVIOUS
  <1> DEFINE e == Expr("none", <<>>)
  <1>1. Statement(Missing) \in Statements
    BY StatementOf
  <1>2. e \in Exprs
    BY <1>1 DEF Expr, Exprs
  <1>3. Says(e, Statement(Missing))
    <2>1. e.kind = "none" /\ e.columns = <<>> /\ e.data = Statement(Missing)
      BY DEF Expr
    <2> HIDE DEF e
    <2>2. QED
      BY <2>1, StatementOf DEF Says
  <1> HIDE DEF e
  <1>4. /\ expr = [v \in Variable |-> e]
        /\ meant = [v \in Variable |-> Statement(Missing)]
    BY DEF Init, e
  <1>5. QED
    BY <1>1, <1>2, <1>3, <1>4 DEF SaysInv, Typed

\* Any step.
LEMMA NextSays ==
    ASSUME Ops \subseteq {"stored"}, SaysInv, [Next]_vars
    PROVE  SaysInv'
  <1>1. \A S : Lists(S) \subseteq Seq(S)
    <2>1. \A S : \A x, y \in S : <<x>> \in Seq(S) /\ <<x, y>> \in Seq(S)
      OBVIOUS
    <2>2. ASSUME NEW S, NEW l \in Lists(S) PROVE l \in Seq(S)
      <3>1. (\E x \in S : l = <<x>>) \/ (\E x, y \in S : l = <<x, y>>)
        BY DEF Lists
      <3>2. QED
        BY <2>1, <3>1
    <2>3. QED
      BY <2>2
  <1>2. CASE UNCHANGED vars
    BY <1>2 DEF vars, SaysInv, Typed
  <1>3. ASSUME NEW v \in Variable,
               (\E cols \in Lists(Column) : Select(v, cols)) \/ Insert(v) \/ Del(v)
        PROVE  SaysInv'
    <2>1. ASSUME NEW cols \in Lists(Column), Select(v, cols) PROVE SaysInv'
      BY <1>1, <2>1, StartSays DEF Select
    <2>2. ASSUME Insert(v) \/ Del(v) PROVE SaysInv'
      <3>1. <<>> \in Seq(Column)
        OBVIOUS
      <3>2. Start(v, "insert", <<>>) \/ Start(v, "delete", <<>>)
        BY <2>2 DEF Insert, Del
      <3>3. QED
        BY <3>1, <3>2, StartSays
    <2>3. QED
      BY <1>3, <2>1, <2>2
  <1>4. ASSUME NEW v \in Variable, NEW w \in Variable, NEW t \in Table,
               From(v, w, t) \/ Into(v, w, t) \/ DeleteFrom(v, w, t)
        PROVE  SaysInv'
    BY <1>4, BeginSays DEF From, Into, DeleteFrom
  <1>5. ASSUME NEW v \in Variable, NEW w \in Variable, NEW t \in Table, NEW c \in Condition,
               NEW type \in JoinType, Join(v, w, type, t, c)
        PROVE  SaysInv'
    BY <1>5, JoinSays
  <1>6. ASSUME NEW v \in Variable, NEW w \in Variable, NEW c \in Condition,
               Where(v, w, c) \/ DeleteWhere(v, w, c)
        PROVE  SaysInv'
    BY <1>6, RestrictedSays
  <1>7. ASSUME NEW v \in Variable, NEW w \in Variable, NEW c \in Column, GroupBy(v, w, c)
        PROVE  SaysInv'
    BY <1>7, GroupBySays
  <1>8. ASSUME NEW v \in Variable, NEW w \in Variable, NEW cs \in Lists(Column \X SortOrder),
               OrderBy(v, w, cs)
        PROVE  SaysInv'
    BY <1>1, <1>8, OrderBySays
  <1>9. ASSUME NEW v \in Variable, NEW w \in Variable, NEW cols \in Lists(ColumnValue),
               Columns(v, w, cols)
        PROVE  SaysInv'
    BY <1>1, <1>9, ColumnsSays
  <1>10. ASSUME NEW v \in Variable, NEW w \in Variable, DefaultValues(v, w) PROVE SaysInv'
    BY <1>10, DefaultValuesSays
  <1>11. QED
    BY <1>2, <1>3, <1>4, <1>5, <1>6, <1>7, <1>8, <1>9, <1>10 DEF Next

\* What a builder is filled with depends on what the expression says.
LEMMA SaysIsMeant == SaysInv => StatementSays
  <1> SUFFICES ASSUME SaysInv, NEW v \in Variable, HasTable(v)
               PROVE  QueryBuilder(expr[v]) = QueryBuilder(Written(v))
    BY DEF StatementSays
  <1> DEFINE e == expr[v]
             f == Written(v)
  <1>1. /\ e \in Exprs /\ e.data \in Statements /\ meant[v] \in Statements /\ Says(e, meant[v])
    BY SaysOf
  <1>2. f.kind = e.kind /\ f.columns = meant[v].columns /\ f.data = meant[v]
    BY <1>1 DEF Written, Exprs
  <1>3. /\ f.columns = e.columns /\ f.data.table = e.data.table /\ f.data.joins = e.data.joins
        /\ f.data.where = e.data.where /\ f.data.group = e.data.group /\ f.data.order = e.data.order
        /\ f.data.values = e.data.values /\ f.data.defaults = e.data.defaults
    BY <1>1, <1>2 DEF Says, Statements
  <1> HIDE DEF e, f
  <1>4. Selected(f) = Selected(e) /\ Inserted(f) = Inserted(e) /\ Deleted(f) = Deleted(e)
    BY <1>3 DEF Selected, Inserted, Deleted
  <1>5. QueryBuilder(f) = QueryBuilder(e)
    BY <1>2, <1>4 DEF QueryBuilder
  <1>6. QED
    BY <1>5 DEF e, f

\* The invariant above is one of the specification.
THEOREM SaysInvariant == Ops \subseteq {"stored"} => (Spec => []SaysInv)
  <1> SUFFICES ASSUME Ops \subseteq {"stored"} PROVE Spec => []SaysInv
    OBVIOUS
  <1>1. SaysInv /\ [Next]_vars => SaysInv'
    BY NextSays
  <1>2. QED
    BY <1>1, InitSays, PTL DEF Spec

\* The statement of an expression is the one the program wrote, however
\* expressions are kept and extended: unless clauses come before the table,
\* or an INSERT is used again, when it is not.
THEOREM ExpressionsSay == Ops \subseteq {"stored"} => (Spec => []StatementSays)
  <1> SUFFICES ASSUME Ops \subseteq {"stored"} PROVE Spec => []StatementSays
    OBVIOUS
  <1>1. QED
    BY SaysInvariant, SaysIsMeant, PTL

-----------------------------------------------------------------------------
(* Query builders *)

\* What an item may be set to or compared with.
Lits == Value \cup {Now, Null, Default}

BuilderFields ==
    {"head", "where", "sort", "locks", "noWait", "binds", "offset", "assembled", "statement",
     "composed", "meant"}

\* A sequence of anything.
IsList(x) == \E S : x \in Seq(S)

\* Every builder has lists of items, and a list of values.
BuildersInv ==
    \A b \in DOMAIN builder :
        /\ DOMAIN builder[b] = BuilderFields
        /\ builder[b].head \in Seq(Item) /\ builder[b].where \in Seq(Item)
        /\ IsList(builder[b].binds)
        /\ builder[b].offset \in Nat

\* How many of the positions in R come before i.
Before(R, i) == Cardinality({j \in R : j < i})

\* A slot is m itself, or gets m out of the values vs.
Gets(at, m, vs) ==
    \/ at = m /\ at \notin Nat
    \/ at \in Nat /\ at + 1 \in DOMAIN vs /\ vs[at + 1] = m /\ m # Now

\* A text has n slots, each of which is what it means or the number, counted from
\* first, of the value it means.
TextOf(text, n, first) ==
    /\ IsList(text.slots) /\ IsList(text.meant) /\ IsList(text.values)
    /\ Len(text.slots) = n /\ Len(text.meant) = n
    /\ \A i \in 1 .. n :
          \/ text.slots[i].at = text.meant[i] /\ text.slots[i].at \notin Nat
          \/ \E k \in 1 .. Len(text.values) :
                /\ text.slots[i].at = first + k - 1
                /\ text.values[k] = text.meant[i] /\ text.meant[i] # Now

\* A position has fewer before it than the next.
LEMMA BeforeGrows ==
    ASSUME NEW n \in Nat, NEW R \in SUBSET (1 .. n), NEW i \in R, NEW k \in 1 .. n + 1, i < k
    PROVE  Before(R, i) \in Nat /\ Before(R, k) \in Nat /\ Before(R, i) < Before(R, k)
  <1> DEFINE S == {j \in R : j < i}
             T == {j \in R : j < k}
  <1>1. IsFiniteSet(R)
    <2>1. IsFiniteSet(1 .. n)
      BY FS_Interval
    <2>2. QED
      BY <2>1, FS_Subset
  <1>2. IsFiniteSet(S) /\ IsFiniteSet(T)
    BY <1>1, FS_Subset
  <1>3. S \cup {i} \subseteq T /\ i \notin S
    <2>1. i \in Nat /\ k \in Nat /\ \A j \in R : j \in Nat
      OBVIOUS
    <2>2. \A j \in R : j < i => j < k
      BY <2>1
    <2>3. ~(i < i)
      BY <2>1
    <2>4. QED
      BY <2>2, <2>3
  <1> HIDE DEF S, T
  <1>4. Cardinality(S \cup {i}) = Cardinality(S) + 1
    BY <1>2, <1>3, FS_AddElement
  <1>5. Cardinality(S \cup {i}) <= Cardinality(T)
    BY <1>2, <1>3, FS_Subset
  <1>6. Cardinality(S) \in Nat /\ Cardinality(T) \in Nat
    BY <1>2, FS_CardinalityType
  <1>7. Cardinality(S) < Cardinality(T)
    BY <1>4, <1>5, <1>6
  <1>8. Before(R, i) = Cardinality(S) /\ Before(R, k) = Cardinality(T)
    BY DEF Before, S, T
  <1>9. QED
    BY <1>6, <1>7, <1>8

\* The number before it identifies a position.
LEMMA BeforeIsPlace ==
    ASSUME NEW n \in Nat, NEW R \in SUBSET (1 .. n), NEW i \in R, NEW j \in R,
           Before(R, i) = Before(R, j)
    PROVE  i = j
  <1>1. i < j => FALSE
    BY BeforeGrows
  <1>2. j < i => FALSE
    BY BeforeGrows
  <1>3. QED
    BY <1>1, <1>2

\* The numbers given while a text is put together are the positions of the
\* values that are registered.
LEMMA ConditionalIsText ==
    ASSUME BuildersInv, NEW b \in DOMAIN builder, NEW first \in Nat
    PROVE  \E n \in Nat : TextOf(Conditional(b, first), n, first)
  <1> DEFINE items == builder[b].head \o builder[b].where
             n == Len(items)
             R == {j \in 1 .. n : Registers(b, j)}
             text == Conditional(b, first)
             before(i) == Cardinality({j \in 1 .. i - 1 : Registers(b, j)})
             lits == [i \in DOMAIN items |-> items[i].lit]
  <1>1. items \in Seq(Item)
    BY DEF BuildersInv
  <1>2. n \in Nat /\ DOMAIN items = 1 .. n /\ \A i \in 1 .. n : items[i].lit \in Lits
    <2> HIDE DEF items
    <2>1. n \in Nat /\ DOMAIN items = 1 .. n /\ \A i \in 1 .. n : items[i] \in Item
      BY <1>1
    <2>2. \A x \in Item : x.lit \in Lits
      BY DEF Item, Lits
    <2>3. QED
      BY <2>1, <2>2
  <1>3. \A i \in 1 .. n + 1 : before(i) = Before(R, i)
    <2>1. ASSUME NEW i \in 1 .. n + 1
          PROVE  {j \in 1 .. i - 1 : Registers(b, j)} = {j \in R : j < i}
      <3> HIDE DEF items
      <3> QED
        BY <1>2
    <2>2. QED
      BY <2>1 DEF Before
  <1>4. /\ text.slots = [i \in 1 .. n |->
                          Slot(items[i].col, IF Registers(b, i) THEN first + before(i) ELSE lits[i])]
        /\ text.values = [k \in 1 .. before(n + 1) |->
                           lits[CHOOSE i \in DOMAIN items : Registers(b, i) /\ before(i) = k - 1]]
        /\ text.meant = lits
    BY <1>2 DEF Conditional
  <1>5. \A i \in 1 .. n : /\ lits[i] = items[i].lit /\ lits[i] \in Lits
                          /\ ~Registers(b, i) => lits[i] \in {Now, Null}
                          /\ Registers(b, i) => lits[i] # Now
    BY <1>2 DEF Registers
  <1> HIDE DEF items, lits, text
  <1>6. R \in SUBSET (1 .. n)
    OBVIOUS
  <1>7. \A i \in R : before(i) \in Nat /\ before(n + 1) \in Nat /\ before(i) < before(n + 1)
    <2> HIDE DEF before, R
    <2>1. \A i \in R : i \in 1 .. n + 1 /\ n + 1 \in 1 .. n + 1 /\ i < n + 1
      BY <1>2, <1>6
    <2>2. QED
      BY <1>2, <1>3, <1>6, <2>1, BeforeGrows
  <1>8. \A i \in R : (CHOOSE j \in DOMAIN items : Registers(b, j) /\ before(j) = before(i)) = i
    <2>1. ASSUME NEW i \in R, NEW j \in R, before(j) = before(i) PROVE j = i
      <3> HIDE DEF before, R
      <3>1. i \in 1 .. n + 1 /\ j \in 1 .. n + 1
        BY <1>2, <1>6
      <3>2. Before(R, j) = Before(R, i)
        BY <1>3, <2>1, <3>1
      <3>3. QED
        BY <1>2, <1>6, <3>2, BeforeIsPlace
    <2> SUFFICES ASSUME NEW i \in R
                 PROVE  (CHOOSE j \in DOMAIN items : Registers(b, j) /\ before(j) = before(i)) = i
      OBVIOUS
    <2> DEFINE c == CHOOSE j \in DOMAIN items : Registers(b, j) /\ before(j) = before(i)
    <2>2. c \in DOMAIN items /\ Registers(b, c) /\ before(c) = before(i)
      <3> HIDE DEF before
      <3>1. i \in DOMAIN items /\ Registers(b, i)
        BY <1>2
      <3>2. QED
        BY <3>1
    <2>3. c \in R
      BY <1>2, <2>2
    <2> HIDE DEF c, before, R
    <2>4. c = i
      BY <2>1, <2>2, <2>3
    <2>5. QED
      BY <2>4 DEF c
  <1>9. n + 1 \in 1 .. n + 1 /\ before(n + 1) \in Nat
    <2>1. before(n + 1) = Cardinality(R)
      BY <1>2
    <2>2. IsFiniteSet(1 .. n)
      BY <1>2, FS_Interval
    <2>3. QED
      BY <1>2, <1>6, <2>1, <2>2, FS_Subset, FS_CardinalityType
  <1>10. /\ text.slots \in Seq({text.slots[i] : i \in 1 .. n}) /\ Len(text.slots) = n
         /\ text.meant \in Seq(Lits) /\ Len(text.meant) = n
    <2> HIDE DEF before
    <2>1. text.slots \in Seq({text.slots[i] : i \in 1 .. n}) /\ Len(text.slots) = n
      BY <1>2, <1>4
    <2>2. text.meant \in Seq(Lits) /\ Len(text.meant) = n
      BY <1>2, <1>4, <1>5 DEF lits
    <2>3. QED
      BY <2>1, <2>2
  <1>11. /\ text.values \in Seq({text.values[k] : k \in 1 .. before(n + 1)})
         /\ Len(text.values) = before(n + 1)
    <2> HIDE DEF before
    <2> DEFINE value(k) == lits[CHOOSE i \in DOMAIN items : Registers(b, i) /\ before(i) = k - 1]
    <2>1. text.values = [k \in 1 .. before(n + 1) |-> value(k)]
      BY <1>4
    <2> HIDE DEF value
    <2>2. QED
      BY <1>9, <2>1
  <1>12. ASSUME NEW i \in 1 .. n, ~Registers(b, i)
         PROVE  text.slots[i].at = text.meant[i] /\ text.slots[i].at \notin Nat
    <2> HIDE DEF before
    <2>1. text.slots[i].at = lits[i] /\ text.meant[i] = lits[i]
      BY <1>4, <1>12 DEF Slot
    <2>2. QED
      BY <1>5, <1>12, <2>1, LiteralAssumption
  <1>13. ASSUME NEW i \in 1 .. n, Registers(b, i)
         PROVE  \E k \in 1 .. Len(text.values) :
                   /\ text.slots[i].at = first + k - 1
                   /\ text.values[k] = text.meant[i] /\ text.meant[i] # Now
    <2>1. i \in R
      BY <1>13
    <2> DEFINE k == before(i) + 1
    <2>2. before(i) \in Nat /\ k \in 1 .. before(n + 1) /\ k - 1 = before(i)
      <3>1. before(i) \in Nat /\ before(n + 1) \in Nat /\ before(i) < before(n + 1)
        BY <1>7, <2>1
      <3> HIDE DEF before
      <3>2. QED
        BY <3>1
    <2> HIDE DEF k, before, R
    <2> DEFINE at(x) == CHOOSE j \in DOMAIN items : Registers(b, j) /\ before(j) = x
    <2>3. text.slots[i].at = first + before(i) /\ text.meant[i] = lits[i]
      BY <1>4, <1>13 DEF Slot
    <2>4. text.values[k] = lits[i]
      <3>1. text.values[k] = lits[at(k - 1)]
        BY <1>4, <2>2
      <3>2. at(before(i)) = i
        BY <1>8, <2>1
      <3> HIDE DEF at
      <3>3. QED
        BY <2>2, <3>1, <3>2
    <2>5. first + before(i) = first + k - 1
      BY <2>2
    <2>6. QED
      BY <1>5, <1>11, <1>13, <2>2, <2>3, <2>4, <2>5
  <1>14. TextOf(text, n, first)
    <2>1. IsList(text.slots) /\ IsList(text.meant) /\ IsList(text.values)
      BY <1>10, <1>11 DEF IsList
    <2>2. QED
      BY <1>10, <1>12, <1>13, <2>1 DEF TextOf
  <1>15. QED
    BY <1>2, <1>14 DEF text


\* Lists one after the other.
LEMMA ListsJoined ==
    ASSUME NEW x, NEW y, IsList(x), IsList(y)
    PROVE  /\ IsList(x \o y) /\ Len(x) \in Nat /\ Len(y) \in Nat /\ Len(x \o y) = Len(x) + Len(y)
           /\ \A i \in 1 .. Len(x) : (x \o y)[i] = x[i]
           /\ \A i \in 1 .. Len(x) + Len(y) :
                 i \notin 1 .. Len(x) => i - Len(x) \in 1 .. Len(y) /\ (x \o y)[i] = y[i - Len(x)]
  <1>1. PICK A, B : x \in Seq(A) /\ y \in Seq(B)
    BY DEF IsList
  <1> DEFINE S == A \cup B
  <1>2. x \in Seq(S) /\ y \in Seq(S)
    BY <1>1
  <1> HIDE DEF S
  <1>3. Len(x) \in Nat /\ Len(y) \in Nat
    BY <1>2
  <1>4. QED
    BY <1>2, <1>3, ConcatProperties DEF IsList

\* A text whose numbers begin behind the values old gets its values, also where
\* more values follow.
LEMMA TextGets ==
    ASSUME NEW text, NEW n \in Nat, NEW old, NEW rest, IsList(old), IsList(rest),
           TextOf(text, n, Len(old))
    PROVE  /\ IsList(old \o text.values) /\ Len(old \o text.values) = Len(old) + Len(text.values)
           /\ IsList((old \o text.values) \o rest)
           /\ \A i \in 1 .. n : Gets(text.slots[i].at, text.meant[i], old \o text.values)
           /\ \A i \in 1 .. n : Gets(text.slots[i].at, text.meant[i], (old \o text.values) \o rest)
  <1>1. PICK A : old \in Seq(A)
    BY DEF IsList
  <1>2. PICK B : text.values \in Seq(B)
    BY DEF IsList, TextOf
  <1>3. PICK C : rest \in Seq(C)
    BY DEF IsList
  <1> DEFINE S == A \cup B \cup C
             new == text.values
  <1>4. old \in Seq(S) /\ new \in Seq(S) /\ rest \in Seq(S)
    BY <1>1, <1>2, <1>3
  <1> HIDE DEF S, new
  <1> DEFINE one == old \o new
             all == one \o rest
  <1>5. one \in Seq(S) /\ all \in Seq(S)
    BY <1>4
  <1>6. Len(one) = Len(old) + Len(new) /\ Len(all) = Len(one) + Len(rest)
    BY <1>4
  <1>7. ASSUME NEW k \in 1 .. Len(new)
        PROVE  /\ (Len(old) + k - 1) + 1 \in DOMAIN one /\ one[(Len(old) + k - 1) + 1] = new[k]
               /\ (Len(old) + k - 1) + 1 \in DOMAIN all /\ all[(Len(old) + k - 1) + 1] = new[k]
               /\ Len(old) + k - 1 \in Nat
    <2>1. Len(old) \in Nat /\ Len(new) \in Nat /\ Len(rest) \in Nat
      BY <1>4
    <2>2. (Len(old) + k - 1) + 1 = Len(old) + k /\ Len(old) + k - 1 \in Nat
      BY <2>1
    <2>3. Len(old) + k \in 1 .. Len(one) /\ Len(old) + k \in 1 .. Len(all)
      BY <1>6, <2>1
    <2>4. one[Len(old) + k] = new[k]
      BY <1>4, <1>6, <2>1, <2>3
    <2> HIDE DEF one
    <2>5. all[Len(old) + k] = one[Len(old) + k]
      BY <1>4, <1>5, <2>3
    <2> HIDE DEF all
    <2>6. DOMAIN one = 1 .. Len(one) /\ DOMAIN all = 1 .. Len(all)
      BY <1>5
    <2>7. QED
      BY <2>2, <2>3, <2>4, <2>5, <2>6
  <1> HIDE DEF one, all
  <1>8. ASSUME NEW i \in 1 .. n
        PROVE  Gets(text.slots[i].at, text.meant[i], one) /\ Gets(text.slots[i].at, text.meant[i], all)
    <2>1. CASE text.slots[i].at = text.meant[i] /\ text.slots[i].at \notin Nat
      BY <2>1 DEF Gets
    <2>2. CASE \E k \in 1 .. Len(new) : /\ text.slots[i].at = Len(old) + k - 1
                                        /\ new[k] = text.meant[i] /\ text.meant[i] # Now
      BY <1>7, <2>2 DEF Gets
    <2>3. QED
      BY <2>1, <2>2 DEF TextOf, new
  <1>9. IsList(one) /\ IsList(all)
    BY <1>5 DEF IsList
  <1>10. QED
    BY <1>6, <1>8, <1>9 DEF one, all, new

\* A statement whose slots get their values from a list is aligned once it is
\* prepared and the list bound.
LEMMA BoundAligned ==
    ASSUME NEW b, NEW s, NEW vs, NEW n \in Nat, Prepare(s, vs),
           (builder[b].statement)' = s, IsList(s.slots), Len(s.slots) = n,
           Len((builder[b].meant)') = n,
           \A i \in 1 .. n : Gets(s.slots[i].at, (builder[b].meant[i])', vs)
    PROVE  Aligned(b)'
  <1>1. bound'[s] = BindAll(s, vs)
    BY DEF Prepare
  <1>2. DOMAIN s.slots = 1 .. n
    BY DEF IsList
  <1>3. ASSUME NEW i \in 1 .. n PROVE Sent(b, i)' = (builder[b].meant[i])'
    <2> DEFINE at == s.slots[i].at
    <2>1. Gets(at, (builder[b].meant[i])', vs)
      OBVIOUS
    <2>2. Sent(b, i)' = IF at \in Nat THEN bound'[s][at] ELSE at
      BY DEF Sent
    <2>3. CASE at \in Nat
      <3>1. at \in Placeholders(s)
        BY <1>2, <2>3 DEF Placeholders
      <3>2. at + 1 \in DOMAIN vs /\ vs[at + 1] = (builder[b].meant[i])' /\ vs[at + 1] # Now
        BY <2>1, <2>3 DEF Gets
      <3> HIDE DEF at
      <3>3. BindAll(s, vs)[at] = vs[at + 1]
        BY <3>1, <3>2 DEF BindAll
      <3>4. QED
        BY <1>1, <2>2, <2>3, <3>2, <3>3
    <2>4. CASE at \notin Nat
      BY <2>1, <2>2, <2>4 DEF Gets
    <2>5. QED
      BY <2>3, <2>4
  <1>4. Whole(b)'
    BY DEF Whole
  <1>5. Replaced(b)'
    BY <1>2, <1>3 DEF Replaced
  <1>6. QED
    BY <1>4, <1>5 DEF Aligned

\* The slots of an insert are numbered by column, and its values are in the
\* order of the names of the columns: the same if columns were added in that order.
LEMMA InsertGets ==
    ASSUME BuildersInv, NEW b \in DOMAIN builder, b \in Inserts, InOrder(b)
    PROVE  LET text == InsertText(b)
               n == Len(builder[b].head)
           IN  /\ n \in Nat /\ IsList(text.slots) /\ Len(text.slots) = n /\ Len(text.meant) = n
               /\ \A i \in 1 .. n : Gets(text.slots[i].at, text.meant[i], MapValues(b))
  <1> DEFINE items == builder[b].head
             n == Len(items)
             R == {i \in DOMAIN items : items[i].lit # Default}
             before(i) == Cardinality({j \in R : items[j].col < items[i].col})
             place(k) == CHOOSE i \in R : before(i) = k - 1
             text == InsertText(b)
             vs == MapValues(b)
             numbered(i) == IF items[i].lit \in {Now, Default} THEN items[i].lit ELSE i - 1
  <1>1. items \in Seq(Item)
    BY DEF BuildersInv
  <1>2. n \in Nat /\ DOMAIN items = 1 .. n /\ \A i \in 1 .. n : items[i].col \in Int
    <2> HIDE DEF items
    <2>1. n \in Nat /\ DOMAIN items = 1 .. n /\ \A i \in 1 .. n : items[i] \in Item
      BY <1>1
    <2>2. \A x \in Item : x.col \in Int
      <3>1. \A c \in Column \cup {AnyColumn} : c \in Int
        BY ColumnAssumption DEF AnyColumn
      <3>2. QED
        BY <3>1 DEF Item
    <2>3. QED
      BY <2>1, <2>2
  <1>3. \A i, j \in 1 .. n : i < j => /\ items[i].col < items[j].col
                                      /\ items[i].lit = Default => items[j].lit = Default
    BY <1>2 DEF InOrder
  <1>4. /\ text.slots = [i \in DOMAIN items |-> Slot(items[i].col, numbered(i))]
        /\ text.meant = [i \in DOMAIN items |-> items[i].lit]
        /\ vs = [k \in 1 .. Cardinality(R) |-> items[place(k)].lit]
    BY DEF InsertText, MapValues
  <1> HIDE DEF items, text, vs
  <1>5. R \in SUBSET (1 .. n)
    BY <1>2
  <1>6. ASSUME NEW i \in R PROVE before(i) = i - 1 /\ Before(R, i) = i - 1
    <2>1. \A j \in R : items[j].col < items[i].col <=> j < i
      <3>1. ASSUME NEW j \in R PROVE items[j].col < items[i].col <=> j < i
        <4>1. i \in 1 .. n /\ j \in 1 .. n
          BY <1>5
        <4> HIDE DEF R
        <4>2. j < i => items[j].col < items[i].col
          BY <1>3, <4>1
        <4>3. i < j => items[i].col < items[j].col
          BY <1>3, <4>1
        <4>4. items[i].col \in Int /\ items[j].col \in Int
          BY <1>2, <4>1
        <4>5. i = j => items[i].col = items[j].col
          OBVIOUS
        <4>6. QED
          BY <4>1, <4>2, <4>3, <4>4, <4>5
      <3>2. QED
        BY <3>1
    <2>2. {j \in R : items[j].col < items[i].col} = {j \in R : j < i}
      BY <2>1
    <2>3. {j \in R : j < i} = 1 .. i - 1
      <3>1. i \in 1 .. n /\ items[i].lit # Default
        BY <1>2
      <3>2. ASSUME NEW j \in 1 .. i - 1 PROVE j \in R /\ j < i
        <4>1. j \in 1 .. n /\ j < i
          BY <1>2, <3>1
        <4>2. items[j].lit # Default
          <5> HIDE DEF R
          <5> QED
            BY <1>3, <3>1, <4>1
        <4>3. QED
          BY <1>2, <4>1, <4>2
      <3>3. ASSUME NEW j \in R, j < i PROVE j \in 1 .. i - 1
        BY <1>2, <1>5, <3>1, <3>3
      <3> HIDE DEF R
      <3>4. QED
        BY <3>2, <3>3
    <2>4. Cardinality(1 .. i - 1) = i - 1
      <3>1. i \in Nat /\ i # 0
        BY <1>2, <1>5
      <3>2. 1 \in Int /\ i - 1 \in Int
        BY <3>1
      <3>3. Cardinality(1 .. i - 1) = IF 1 > i - 1 THEN 0 ELSE (i - 1) - 1 + 1
        BY <3>2, FS_Interval
      <3>4. QED
        BY <3>1, <3>3
    <2>5. QED
      BY <2>2, <2>3, <2>4 DEF Before
  <1>7. Cardinality(R) \in Nat /\ \A i \in R : i <= Cardinality(R)
    <2>1. Cardinality(R) = Before(R, n + 1)
      <3>1. {j \in R : j < n + 1} = R
        <4>1. \A j \in 1 .. n : j < n + 1
          BY <1>2
        <4> HIDE DEF R
        <4>2. QED
          BY <1>5, <4>1
      <3>2. QED
        BY <3>1 DEF Before
    <2>2. IsFiniteSet(1 .. n)
      BY <1>2, FS_Interval
    <2>3. Cardinality(R) \in Nat
      BY <1>5, <2>2, FS_Subset, FS_CardinalityType
    <2>4. ASSUME NEW i \in R PROVE i <= Cardinality(R)
      <3>1. i \in 1 .. n /\ n + 1 \in 1 .. n + 1 /\ i < n + 1
        BY <1>2, <1>5
      <3> HIDE DEF R, before
      <3>2. Before(R, i) < Before(R, n + 1)
        BY <1>2, <1>5, <3>1, BeforeGrows
      <3>3. QED
        BY <1>2, <1>6, <2>1, <2>3, <3>1, <3>2
    <2>5. QED
      BY <2>3, <2>4
  <1>8. ASSUME NEW i \in R PROVE place(i) = i
    <2> HIDE DEF before
    <2>1. before(i) = i - 1
      BY <1>6
    <2> DEFINE c == CHOOSE j \in R : before(j) = i - 1
    <2>2. c \in R /\ before(c) = i - 1
      <3> HIDE DEF R
      <3> QED
        BY <2>1
    <2> HIDE DEF c
    <2>3. c - 1 = i - 1
      BY <1>6, <2>2
    <2>4. c \in Nat /\ i \in Nat
      BY <1>2, <1>5, <2>2
    <2>5. c = i
      BY <2>3, <2>4
    <2>6. QED
      BY <2>5 DEF c
  <1> HIDE DEF place
  <1>9. ASSUME NEW i \in 1 .. n PROVE Gets(text.slots[i].at, text.meant[i], vs)
    <2>1. text.slots[i].at = numbered(i) /\ text.meant[i] = items[i].lit
      BY <1>2, <1>4 DEF Slot
    <2>2. CASE items[i].lit \in {Now, Default}
      BY <2>1, <2>2, LiteralAssumption DEF Gets
    <2>3. CASE items[i].lit \notin {Now, Default}
      <3>1. i \in R
        BY <1>2, <2>3
      <3>2. i \in 1 .. Cardinality(R)
        <4> HIDE DEF R
        <4> QED
          BY <1>2, <1>7, <3>1
      <3>3. i \in DOMAIN vs /\ vs[i] = items[i].lit
        <4> HIDE DEF R
        <4> QED
          BY <1>4, <1>8, <3>1, <3>2
      <3>4. i - 1 \in Nat /\ (i - 1) + 1 = i
        BY <1>2
      <3>5. QED
        BY <2>1, <2>3, <3>3, <3>4 DEF Gets
    <2>4. QED
      BY <2>2, <2>3
  <1>10. text.slots \in Seq({text.slots[i] : i \in 1 .. n}) /\ Len(text.slots) = n
    BY <1>2, <1>4
  <1>11. Len(text.meant) = n
    BY <1>2, <1>4
  <1>12. QED
    BY <1>2, <1>9, <1>10, <1>11 DEF IsList, text, items, vs

\* What the property says of a step.
AssembledAligned == \A b \in DOMAIN builder : Assembles(b) /\ InOrder(b) => Aligned(b)'

\* At first a builder is empty.
LEMMA InitBuilders == BuildersInit => BuildersInv
  <1> SUFFICES ASSUME BuildersInit PROVE BuildersInv
    OBVIOUS
  <1>1. <<>> \in Seq(Item) /\ IsList(<<>>)
    BY DEF IsList
  <1>2. PICK kind : builder = [b \in kind |->
                                [head |-> <<>>, where |-> <<>>, sort |-> <<>>, locks |-> <<>>,
                                 noWait |-> FALSE, binds |-> <<>>, offset |-> 0,
                                 assembled |-> FALSE, statement |-> NoText, composed |-> FALSE,
                                 meant |-> <<>>]]
    BY DEF BuildersInit
  <1>3. ASSUME NEW b \in DOMAIN builder
        PROVE  /\ DOMAIN builder[b] = BuilderFields
               /\ builder[b].head = <<>> /\ builder[b].where = <<>> /\ builder[b].binds = <<>>
               /\ builder[b].offset = 0
    BY <1>2 DEF BuilderFields
  <1>4. ASSUME NEW b \in DOMAIN builder
        PROVE  /\ DOMAIN builder[b] = BuilderFields
               /\ builder[b].head \in Seq(Item) /\ builder[b].where \in Seq(Item)
               /\ IsList(builder[b].binds)
               /\ builder[b].offset \in Nat
    <2>1. builder[b].head \in Seq(Item) /\ builder[b].where \in Seq(Item)
      BY <1>1, <1>3
    <2>2. IsList(builder[b].binds)
      <3>1. builder[b].binds = <<>>
        BY <1>3
      <3>2. QED
        BY <1>1, <3>1
    <2>3. DOMAIN builder[b] = BuilderFields /\ builder[b].offset \in Nat
      BY <1>3
    <2>4. QED
      BY <2>1, <2>2, <2>3
  <1>5. QED
    BY <1>4 DEF BuildersInv

\* Calls that assemble nothing.
LEMMA CallStep ==
    ASSUME BuildersInv, NEW b \in DOMAIN builder,
           \/ \E c \in Column \cup {AnyColumn}, l \in Value \cup {Now, Null, Default} : AddHead(b, c, l)
           \/ \E l \in Value \cup {Now, Null} : AddWhere(b, l)
           \/ \E c \in SortColumn : AddSortColumn(b, c) \/ RemoveSortColumn(b, c)
           \/ \E t \in LockTable : LockExclusive(b, t) \/ TryLockExclusive(b, t)
           \/ SetToDefaultValues(b) \/ InvalidateQuery(b)
    PROVE  BuildersInv' /\ AssembledAligned
  <1>1. \A c \in Column \cup {AnyColumn}, l \in Value \cup {Now, Null, Default} :
           [col |-> c, lit |-> l] \in Item
    BY DEF Item
  <1>2. ASSUME NEW c \in Column \cup {AnyColumn}, NEW l \in Value \cup {Now, Null, Default},
               AddHead(b, c, l)
        PROVE  BuildersInv'
    <2> DEFINE item == [col |-> c, lit |-> l]
    <2>1. item \in Item
      BY <1>1
    <2>2. builder' = [builder EXCEPT ![b].head = Append(@, item)]
      BY <1>2 DEF AddHead
    <2> HIDE DEF item
    <2>3. QED
      BY <2>1, <2>2 DEF BuildersInv, BuilderFields
  <1>3. ASSUME NEW l \in Value \cup {Now, Null}, AddWhere(b, l)
        PROVE  BuildersInv'
    <2>1. [col |-> AnyColumn, lit |-> l] \in Item
      BY <1>1
    <2>2. QED
      BY <1>3, <2>1 DEF BuildersInv, BuilderFields, AddWhere
  <1>4. ASSUME NEW c, AddSortColumn(b, c) PROVE BuildersInv'
    BY <1>4 DEF BuildersInv, BuilderFields, AddSortColumn
  <1>5. ASSUME NEW c, RemoveSortColumn(b, c) PROVE BuildersInv'
    BY <1>5 DEF BuildersInv, BuilderFields, RemoveSortColumn
  <1>6. ASSUME NEW t, NEW noWait, Lock(b, t, noWait) PROVE BuildersInv'
    BY <1>6 DEF BuildersInv, BuilderFields, Lock
  <1>7. ASSUME SetToDefaultValues(b) PROVE BuildersInv'
    <2> DEFINE items == builder[b].head
               all == [i \in DOMAIN items |-> [items[i] EXCEPT !.lit = Default]]
    <2>1. items \in Seq(Item)
      BY DEF BuildersInv
    <2>2. all \in Seq(Item)
      <3>1. \A x \in Item : [x EXCEPT !.lit = Default] \in Item
        BY DEF Item
      <3> HIDE DEF items
      <3>2. QED
        BY <2>1, <3>1
    <2>3. builder' = [builder EXCEPT ![b].head = all]
      BY <1>7 DEF SetToDefaultValues
    <2> HIDE DEF all
    <2>4. QED
      BY <2>2, <2>3 DEF BuildersInv, BuilderFields
  <1>8. ASSUME InvalidateQuery(b) PROVE BuildersInv'
    BY <1>8 DEF BuildersInv, BuilderFields, InvalidateQuery
  <1>9. BuildersInv'
    BY <1>2, <1>3, <1>4, <1>5, <1>6, <1>7, <1>8 DEF LockExclusive, TryLockExclusive
  <1>10. assemblies' = assemblies
    BY DEF AddHead, AddWhere, AddSortColumn, RemoveSortColumn, LockExclusive, TryLockExclusive,
           Lock, SetToDefaultValues, InvalidateQuery, NotAssembled
  <1>11. QED
    BY <1>9, <1>10 DEF AssembledAligned, Assembles

\* query() of an insert
LEMMA InsertStep ==
    ASSUME BuildersInv, NEW b \in DOMAIN builder, AssembleInsert(b)
    PROVE  BuildersInv' /\ AssembledAligned
  <1> DEFINE text == InsertText(b)
             s == Text("insert", text.slots, <<>>)
  <1>1. /\ b \in Inserts /\ Prepare(s, MapValues(b))
        /\ builder' = [builder EXCEPT ![b].assembled = TRUE, ![b].statement = s,
                                      ![b].meant = text.meant]
    BY DEF AssembleInsert
  <1> HIDE DEF text
  <1>2. BuildersInv'
    BY <1>1 DEF BuildersInv, BuilderFields
  <1>3. s.slots = text.slots
    BY DEF Text
  <1> HIDE DEF s
  <1>4. ASSUME NEW x \in DOMAIN builder, Assembles(x) PROVE x = b
    BY <1>1, <1>4 DEF Assembles
  <1>5. ASSUME InOrder(b) PROVE Aligned(b)'
    <2> DEFINE n == Len(builder[b].head)
    <2>1. /\ n \in Nat /\ IsList(text.slots) /\ Len(text.slots) = n /\ Len(text.meant) = n
          /\ \A i \in 1 .. n : Gets(text.slots[i].at, text.meant[i], MapValues(b))
      BY <1>1, <1>5, InsertGets DEF text
    <2>2. builder'[b].statement = s /\ builder'[b].meant = text.meant
      BY <1>1 DEF BuildersInv, BuilderFields
    <2> HIDE DEF n
    <2>3. QED
      BY <1>1, <1>3, <2>1, <2>2, BoundAligned
  <1>6. QED
    BY <1>2, <1>4, <1>5 DEF AssembledAligned

\* query() of an update or a delete, with new values
LEMMA ChangeStep ==
    ASSUME BuildersInv, NEW b \in DOMAIN builder, AssembleChange(b)
    PROVE  BuildersInv' /\ AssembledAligned
  <1> DEFINE text == Conditional(b, 0)
             s == Text(IF b \in Updates THEN "update" ELSE "delete", text.slots, <<>>)
  <1>1. /\ Prepare(s, text.values)
        /\ builder' = [builder EXCEPT ![b].assembled = TRUE, ![b].statement = s,
                                      ![b].binds = text.values, ![b].meant = text.meant]
    BY DEF AssembleChange
  <1>2. PICK n \in Nat : TextOf(text, n, 0)
    BY ConditionalIsText
  <1> HIDE DEF text
  <1>3. s.slots = text.slots
    BY DEF Text
  <1> HIDE DEF s
  <1>4. /\ <<>> \o text.values = text.values /\ IsList(<<>>) /\ Len(<<>>) = 0
        /\ IsList(text.values)
    BY <1>2 DEF IsList, TextOf
  <1>5. \A i \in 1 .. n : Gets(text.slots[i].at, text.meant[i], text.values)
    BY <1>2, <1>4, TextGets
  <1>6. BuildersInv'
    BY <1>1, <1>4 DEF BuildersInv, BuilderFields
  <1>7. ASSUME NEW x \in DOMAIN builder, Assembles(x) PROVE x = b
    BY <1>1, <1>7 DEF Assembles
  <1>8. builder'[b].statement = s /\ builder'[b].meant = text.meant
    BY <1>1 DEF BuildersInv, BuilderFields
  <1>9. Aligned(b)'
    BY <1>1, <1>2, <1>3, <1>5, <1>8, BoundAligned DEF TextOf
  <1>10. QED
    BY <1>6, <1>7, <1>9 DEF AssembledAligned

\* query() of a select, whose values follow those of earlier assemblies
LEMMA SelectStep ==
    ASSUME BuildersInv, ~Reuse, NEW b \in DOMAIN builder, AssembleSelect(b)
    PROVE  BuildersInv' /\ AssembledAligned
  <1> DEFINE old == builder[b].binds
             text == SelectText(b, builder[b].offset)
             s == Text("select", text.slots, <<TailOf(b)>>)
  <1>1. /\ builder[b].offset = 0 /\ ~builder[b].composed
        /\ Prepare(s, old \o text.values)
        /\ builder' = [builder EXCEPT ![b].assembled = TRUE, ![b].statement = s,
                                      ![b].binds = old \o text.values, ![b].meant = text.meant]
    BY DEF AssembleSelect
  <1>2. IsList(old) /\ Len(old) \in Nat
    BY DEF BuildersInv, IsList
  <1>3. text = Conditional(b, Len(old))
    BY <1>1, <1>2 DEF SelectText
  <1>4. PICK n \in Nat : TextOf(text, n, Len(old))
    BY <1>2, <1>3, ConditionalIsText
  <1> HIDE DEF text
  <1>5. s.slots = text.slots
    BY DEF Text
  <1> HIDE DEF s, old
  <1> DEFINE vs == old \o text.values
  <1>6. IsList(<<>>)
    BY DEF IsList
  <1>7. /\ IsList(old \o text.values)
        /\ \A i \in 1 .. n : Gets(text.slots[i].at, text.meant[i], old \o text.values)
    BY <1>2, <1>4, <1>6, TextGets
  <1>8. BuildersInv'
    BY <1>1, <1>7 DEF BuildersInv, BuilderFields
  <1>9. ASSUME NEW x \in DOMAIN builder, Assembles(x) PROVE x = b
    BY <1>1, <1>9 DEF Assembles
  <1>10. Prepare(s, vs) /\ \A i \in 1 .. n : Gets(text.slots[i].at, text.meant[i], vs)
    BY <1>1, <1>7
  <1> HIDE DEF vs
  <1>11. builder'[b].statement = s /\ builder'[b].meant = text.meant
    BY <1>1 DEF BuildersInv, BuilderFields
  <1>12. Aligned(b)'
    BY <1>10, <1>4, <1>5, <1>11, BoundAligned DEF TextOf
  <1>13. QED
    BY <1>8, <1>9, <1>12 DEF AssembledAligned

\* Lists of values may be joined from either side.
LEMMA ListsAssociate ==
    ASSUME NEW x, NEW y, NEW z, IsList(x), IsList(y), IsList(z)
    PROVE  (x \o y) \o z = x \o (y \o z)
  <1>1. PICK A, B, C : x \in Seq(A) /\ y \in Seq(B) /\ z \in Seq(C)
    BY DEF IsList
  <1> DEFINE S == A \cup B \cup C
  <1>2. x \in Seq(S) /\ y \in Seq(S) /\ z \in Seq(S)
    BY <1>1
  <1> HIDE DEF S
  <1>3. QED
    BY <1>2, ConcatAssociative

\* The builders after combineQueries, with the values it computes.
Combined(b, q1, q2, vs1, vs2, o, vs, s, m) ==
    [builder EXCEPT ![q1].binds = vs1, ![q2].binds = vs2, ![q2].offset = o,
                    ![b].binds = vs, ![b].statement = s,
                    ![b].assembled = TRUE, ![b].composed = TRUE,
                    ![b].meant = m]

\* What the builders fs have of the builders before and of these values.
CombinedInto(fs, b, vs1, vs2, o, vs, s, m) ==
    /\ DOMAIN fs = DOMAIN builder
    /\ \A x \in DOMAIN builder :
          /\ DOMAIN fs[x] = BuilderFields
          /\ fs[x].head = builder[x].head /\ fs[x].where = builder[x].where
          /\ fs[x].binds \in {builder[x].binds, vs1, vs2, vs}
          /\ fs[x].offset \in {builder[x].offset, o}
          /\ x # b => fs[x].assembled = builder[x].assembled
    /\ fs[b].statement = s /\ fs[b].meant = m

\* What combineQueries changes of the builders.
LEMMA CombinedFields ==
    ASSUME BuildersInv, NEW b \in DOMAIN builder, NEW q1 \in DOMAIN builder, NEW q2 \in DOMAIN builder,
           q1 # q2, b \notin {q1, q2}, NEW vs1, NEW vs2, NEW o, NEW vs, NEW s, NEW m
    PROVE  CombinedInto(Combined(b, q1, q2, vs1, vs2, o, vs, s, m), b, vs1, vs2, o, vs, s, m)
  <1> DEFINE f1 == [builder EXCEPT ![q1].binds = vs1]
             f2 == [f1 EXCEPT ![q2].binds = vs2, ![q2].offset = o]
             f3 == [f2 EXCEPT ![b].binds = vs, ![b].statement = s, ![b].assembled = TRUE,
                              ![b].composed = TRUE, ![b].meant = m]
  <1>1. Combined(b, q1, q2, vs1, vs2, o, vs, s, m) = f3
    BY DEF Combined
  <1>2. /\ DOMAIN f1 = DOMAIN builder
        /\ \A x \in DOMAIN builder :
              /\ DOMAIN f1[x] = BuilderFields
              /\ f1[x].head = builder[x].head /\ f1[x].where = builder[x].where
              /\ f1[x].binds \in {builder[x].binds, vs1} /\ f1[x].offset = builder[x].offset
              /\ f1[x].assembled = builder[x].assembled
    BY DEF BuildersInv, BuilderFields
  <1> HIDE DEF f1
  <1>3. /\ DOMAIN f2 = DOMAIN builder
        /\ \A x \in DOMAIN builder :
              /\ DOMAIN f2[x] = BuilderFields
              /\ f2[x].head = f1[x].head /\ f2[x].where = f1[x].where
              /\ f2[x].binds \in {f1[x].binds, vs2} /\ f2[x].offset \in {f1[x].offset, o}
              /\ f2[x].assembled = f1[x].assembled
    BY <1>2 DEF BuilderFields
  <1> HIDE DEF f2
  <1>4. /\ DOMAIN f3 = DOMAIN builder
        /\ \A x \in DOMAIN builder : x # b => f3[x] = f2[x]
        /\ f3[b] = [f2[b] EXCEPT !.binds = vs, !.statement = s, !.assembled = TRUE,
                                 !.composed = TRUE, !.meant = m]
    BY <1>3
  <1> HIDE DEF f3
  <1>5. /\ DOMAIN f3[b] = BuilderFields
        /\ f3[b].head = f2[b].head /\ f3[b].where = f2[b].where /\ f3[b].offset = f2[b].offset
        /\ f3[b].binds = vs /\ f3[b].statement = s /\ f3[b].meant = m
    BY <1>3, <1>4 DEF BuilderFields
  <1>6. ASSUME NEW x \in DOMAIN builder
        PROVE  /\ DOMAIN f3[x] = BuilderFields
               /\ f3[x].head = builder[x].head /\ f3[x].where = builder[x].where
               /\ f3[x].binds \in {builder[x].binds, vs1, vs2, vs}
               /\ f3[x].offset \in {builder[x].offset, o}
               /\ x # b => f3[x].assembled = builder[x].assembled
    <2>1. CASE x = b
      BY <1>2, <1>3, <1>5, <2>1
    <2>2. CASE x # b
      BY <1>2, <1>3, <1>4, <2>2
    <2>3. QED
      BY <2>1, <2>2
  <1>7. DOMAIN f3 = DOMAIN builder
    BY <1>4
  <1>8. CombinedInto(f3, b, vs1, vs2, o, vs, s, m)
    BY <1>5, <1>6, <1>7 DEF CombinedInto
  <1>9. QED
    BY <1>1, <1>8

\* combineQueries: the values of the second query are behind those of the first,
\* and its placeholders are numbered accordingly.
LEMMA CombineStep ==
    ASSUME BuildersInv, ~Reuse, NEW b \in DOMAIN builder,
           NEW q1 \in DOMAIN builder, NEW q2 \in DOMAIN builder, CombineQueries(b, q1, q2)
    PROVE  BuildersInv' /\ AssembledAligned
  <1> DEFINE old1 == builder[q1].binds
             old2 == builder[q2].binds
             text1 == SelectText(q1, builder[q1].offset)
             binds1 == old1 \o text1.values
             offset == Offset(q1, q2, Len(binds1))
             text2 == SelectText(q2, offset)
             binds2 == old2 \o text2.values
             s == Text("union", text1.slots \o text2.slots, <<TailOf(q1), TailOf(q2)>>)
             vs == binds1 \o binds2
  <1>1. /\ b \notin {q1, q2} /\ q1 # q2
        /\ builder[q1].offset = 0 /\ ~builder[q1].composed /\ ~builder[q2].composed
        /\ Prepare(s, vs)
    BY DEF CombineQueries
  <1>2. builder' = [builder EXCEPT
                       ![q1].binds = binds1, ![q2].binds = binds2, ![q2].offset = offset,
                       ![b].binds = vs, ![b].statement = s,
                       ![b].assembled = TRUE, ![b].composed = TRUE,
                       ![b].meant = text1.meant \o text2.meant]
    BY <1>1 DEF CombineQueries, Meant
  <1>3. IsList(old1) /\ Len(old1) \in Nat /\ IsList(old2) /\ Len(old2) \in Nat
    BY DEF BuildersInv, IsList
  <1>4. text1 = Conditional(q1, Len(old1)) /\ offset = Len(binds1)
    BY <1>1, <1>3 DEF SelectText, Offset
  <1>5. PICK n1 \in Nat : TextOf(text1, n1, Len(old1))
    BY <1>3, <1>4, ConditionalIsText
  <1> HIDE DEF text1
  <1>6. IsList(<<>>)
    BY DEF IsList
  <1>7. IsList(binds1) /\ Len(binds1) \in Nat
    <2>1. IsList(binds1)
      BY <1>3, <1>5, <1>6, TextGets
    <2> HIDE DEF binds1
    <2>2. QED
      BY <2>1 DEF IsList
  <1> DEFINE before2 == binds1 \o old2
  <1>8. IsList(before2) /\ Len(before2) = Len(binds1) + Len(old2) /\ Len(before2) \in Nat
    <2> HIDE DEF binds1, old2
    <2>1. QED
      BY <1>3, <1>7, ListsJoined
  <1>9. text2 = Conditional(q2, Len(before2))
    BY <1>4, <1>8 DEF SelectText
  <1>10. PICK n2 \in Nat : TextOf(text2, n2, Len(before2))
    <2> HIDE DEF before2, text2
    <2>1. QED
      BY <1>8, <1>9, ConditionalIsText
  <1> HIDE DEF text2
  <1>11. IsList(text2.values) /\ IsList(binds2)
    BY <1>3, <1>10, ListsJoined DEF TextOf
  <1>12. vs = before2 \o text2.values
    <2> DEFINE new == text2.values
    <2>1. IsList(binds1) /\ IsList(old2) /\ IsList(new)
      BY <1>3, <1>7, <1>11
    <2> HIDE DEF old2, binds1, new
    <2>2. (binds1 \o old2) \o new = binds1 \o (old2 \o new)
      BY <2>1, ListsAssociate
    <2>3. QED
      BY <2>2 DEF new
  <1>13. /\ IsList(vs)
         /\ \A i \in 1 .. n1 : Gets(text1.slots[i].at, text1.meant[i], vs)
         /\ \A i \in 1 .. n2 : Gets(text2.slots[i].at, text2.meant[i], vs)
    <2>1. /\ IsList(vs)
          /\ \A i \in 1 .. n1 : Gets(text1.slots[i].at, text1.meant[i], vs)
      <3> HIDE DEF old1, binds2
      <3>1. QED
        BY <1>3, <1>5, <1>11, TextGets
    <2>2. \A i \in 1 .. n2 : Gets(text2.slots[i].at, text2.meant[i], vs)
      <3> HIDE DEF vs, before2
      <3>1. QED
        BY <1>6, <1>8, <1>10, <1>12, TextGets
    <2>3. QED
      BY <2>1, <2>2
  <1> HIDE DEF vs, binds1, binds2, old1, old2, offset, s
  <1> DEFINE means == text1.meant \o text2.meant
  <1> HIDE DEF means
  <1>14. /\ DOMAIN builder' = DOMAIN builder
         /\ \A x \in DOMAIN builder :
               /\ DOMAIN builder'[x] = BuilderFields
               /\ builder'[x].head = builder[x].head /\ builder'[x].where = builder[x].where
               /\ builder'[x].binds \in {builder[x].binds, binds1, binds2, vs}
               /\ builder'[x].offset \in {builder[x].offset, offset}
               /\ x # b => builder'[x].assembled = builder[x].assembled
         /\ builder'[b].statement = s /\ builder'[b].meant = means
    <2>1. builder' = Combined(b, q1, q2, binds1, binds2, offset, vs, s, means)
      BY <1>2 DEF means, Combined
    <2>2. b \notin {q1, q2} /\ q1 # q2
      BY <1>1
    <2>3. CombinedInto(Combined(b, q1, q2, binds1, binds2, offset, vs, s, means),
                       b, binds1, binds2, offset, vs, s, means)
      BY <2>2, CombinedFields
    <2>4. CombinedInto(builder', b, binds1, binds2, offset, vs, s, means)
      BY <2>1, <2>3
    <2>5. QED
      BY <2>4 DEF CombinedInto
  <1>15. BuildersInv'
    <2>1. offset \in Nat
      BY <1>4, <1>7
    <2>2. ASSUME NEW x \in DOMAIN builder
          PROVE  /\ DOMAIN builder'[x] = BuilderFields
                 /\ builder'[x].head \in Seq(Item) /\ builder'[x].where \in Seq(Item)
                 /\ IsList(builder'[x].binds)
                 /\ builder'[x].offset \in Nat
      <3>1. /\ builder[x].head \in Seq(Item) /\ builder[x].where \in Seq(Item)
            /\ IsList(builder[x].binds) /\ builder[x].offset \in Nat
        BY DEF BuildersInv
      <3>2. /\ DOMAIN builder'[x] = BuilderFields
            /\ builder'[x].head = builder[x].head /\ builder'[x].where = builder[x].where
            /\ builder'[x].binds \in {builder[x].binds, binds1, binds2, vs}
            /\ builder'[x].offset \in {builder[x].offset, offset}
        BY <1>14
      <3>3. IsList(builder'[x].binds)
        BY <1>7, <1>11, <1>13, <3>1, <3>2
      <3>4. QED
        BY <2>1, <3>1, <3>2, <3>3
    <2>3. QED
      BY <1>14, <2>2 DEF BuildersInv
  <1>16. ASSUME NEW x \in DOMAIN builder, Assembles(x) PROVE x = b
    BY <1>14, <1>16 DEF Assembles
  <1> DEFINE slots == text1.slots \o text2.slots
  <1>17. /\ IsList(slots) /\ Len(slots) = n1 + n2 /\ Len(means) = n1 + n2
         /\ \A i \in 1 .. n1 + n2 : Gets(slots[i].at, means[i], vs)
    <2>1. /\ IsList(text1.slots) /\ IsList(text2.slots) /\ IsList(text1.meant) /\ IsList(text2.meant)
          /\ Len(text1.slots) = n1 /\ Len(text2.slots) = n2
          /\ Len(text1.meant) = n1 /\ Len(text2.meant) = n2
      BY <1>5, <1>10 DEF TextOf
    <2> DEFINE s1 == text1.slots
               s2 == text2.slots
               m1 == text1.meant
               m2 == text2.meant
    <2> HIDE DEF s1, s2, m1, m2
    <2>2. /\ IsList(s1) /\ IsList(s2) /\ IsList(m1) /\ IsList(m2)
          /\ Len(s1) = n1 /\ Len(s2) = n2 /\ Len(m1) = n1 /\ Len(m2) = n2
          /\ slots = s1 \o s2 /\ means = m1 \o m2
      BY <2>1 DEF s1, s2, m1, m2, means
    <2> HIDE DEF slots, means
    <2>3. /\ IsList(slots) /\ Len(slots) = n1 + n2
          /\ \A i \in 1 .. n1 : slots[i] = s1[i]
          /\ \A i \in 1 .. n1 + n2 : i \notin 1 .. n1 => i - n1 \in 1 .. n2 /\ slots[i] = s2[i - n1]
      <3>1. /\ IsList(s1 \o s2) /\ Len(s1 \o s2) = Len(s1) + Len(s2)
            /\ \A i \in 1 .. Len(s1) : (s1 \o s2)[i] = s1[i]
            /\ \A i \in 1 .. Len(s1) + Len(s2) :
                  i \notin 1 .. Len(s1) =>
                      i - Len(s1) \in 1 .. Len(s2) /\ (s1 \o s2)[i] = s2[i - Len(s1)]
        BY <2>2, ListsJoined
      <3>2. QED
        BY <2>2, <3>1
    <2>4. /\ Len(means) = n1 + n2
          /\ \A i \in 1 .. n1 : means[i] = m1[i]
          /\ \A i \in 1 .. n1 + n2 : i \notin 1 .. n1 => i - n1 \in 1 .. n2 /\ means[i] = m2[i - n1]
      <3>1. /\ IsList(m1 \o m2) /\ Len(m1 \o m2) = Len(m1) + Len(m2)
            /\ \A i \in 1 .. Len(m1) : (m1 \o m2)[i] = m1[i]
            /\ \A i \in 1 .. Len(m1) + Len(m2) :
                  i \notin 1 .. Len(m1) =>
                      i - Len(m1) \in 1 .. Len(m2) /\ (m1 \o m2)[i] = m2[i - Len(m1)]
        BY <2>2, ListsJoined
      <3>2. QED
        BY <2>2, <3>1
    <2>5. IsList(slots) /\ Len(slots) = n1 + n2 /\ Len(means) = n1 + n2
      BY <2>3, <2>4
    <2>6. ASSUME NEW i \in 1 .. n1 PROVE slots[i] = text1.slots[i] /\ means[i] = text1.meant[i]
      BY <2>3, <2>4 DEF s1, m1
    <2>7. ASSUME NEW i \in 1 .. n1 + n2, i \notin 1 .. n1
          PROVE  i - n1 \in 1 .. n2 /\ slots[i] = text2.slots[i - n1] /\ means[i] = text2.meant[i - n1]
      BY <2>3, <2>4, <2>7 DEF s2, m2
    <2>8. ASSUME NEW i \in 1 .. n1 + n2 PROVE Gets(slots[i].at, means[i], vs)
      <3>1. CASE i \in 1 .. n1
        BY <1>13, <2>6, <3>1
      <3>2. CASE i \notin 1 .. n1
        BY <1>13, <2>7, <3>2
      <3>3. QED
        BY <3>1, <3>2
    <2>9. QED
      BY <2>5, <2>8
  <1>18. s.slots = slots
    BY DEF Text, s
  <1> HIDE DEF slots
  <1>19. n1 + n2 \in Nat
    OBVIOUS
  <1>20. Aligned(b)'
    BY <1>1, <1>14, <1>17, <1>18, <1>19, BoundAligned
  <1>21. QED
    BY <1>15, <1>16, <1>20 DEF AssembledAligned

\* Every step keeps the lists, and is aligned.
LEMMA BuildersStep ==
    ASSUME ~Reuse, BuildersInv, [BuildersNext]_builderVars
    PROVE  BuildersInv' /\ [AssembledAligned]_builderVars
  <1>1. CASE UNCHANGED builderVars
    BY <1>1 DEF builderVars, BuildersInv
  <1>2. CASE RemoveTurn
    BY <1>2 DEF RemoveTurn, builderVars, BuildersInv
  <1>3. ASSUME NEW b \in DOMAIN builder,
               AssembleInsert(b) \/ AssembleChange(b) \/ AssembleSelect(b)
                  \/ \E q1, q2 \in DOMAIN builder : CombineQueries(b, q1, q2)
        PROVE  BuildersInv' /\ AssembledAligned
    BY <1>3, InsertStep, ChangeStep, SelectStep, CombineStep
  <1>4. QED
    BY <1>1, <1>2, <1>3, CallStep DEF BuildersNext

\* The invariant above is one of the specification.
THEOREM BuildersInvariant == ~Reuse => (BuildersSpec => []BuildersInv)
  <1> SUFFICES ASSUME ~Reuse PROVE BuildersSpec => []BuildersInv
    OBVIOUS
  <1>1. BuildersInv /\ [BuildersNext]_builderVars => BuildersInv'
    BY BuildersStep
  <1>2. QED
    BY <1>1, InitBuilders, PTL DEF BuildersSpec

\* A builder that assembles its statement binds every value to its own
\* placeholder, however many values, conditions, assemblies and combinations
\* there are: unless a builder that was combined is used again, when it does not.
THEOREM AssembliesAligned == ~Reuse => (BuildersSpec => AssemblyAligned)
  <1> SUFFICES ASSUME ~Reuse PROVE BuildersSpec => AssemblyAligned
    OBVIOUS
  <1>1. BuildersInv /\ [BuildersNext]_builderVars =>
            [\A b \in DOMAIN builder : Assembles(b) /\ InOrder(b) => Aligned(b)']_builderVars
    BY BuildersStep DEF AssembledAligned
  <1>2. QED
    BY <1>1, BuildersInvariant, PTL DEF BuildersSpec, AssemblyAligned
=============================================================================
