----------------------------- MODULE QueryBuilders -----------------------------
(***************************************************************************)
(* The query builders: a program collects columns, values and conditions   *)
(* in a builder, which assembles a statement with numbered placeholders,   *)
(* has it prepared through the cache, and binds the values by number.      *)
(*                                                                         *)
(* A statement is abstracted to its kind and the slots in it that take a   *)
(* value, in textual order.  Queries with equal statements on a connection *)
(* are copies of one cached query, and copies of a QSqlQuery share their   *)
(* bound values, so those are kept per statement.                          *)
(*                                                                         *)
(* The names of the specification begin with Builders: a module may extend *)
(* this one and Expressions.                                               *)
(***************************************************************************)
EXTENDS Integers, Sequences, FiniteSetsExt, StatementParts

CONSTANTS
    Selects, Inserts, Updates, Deletes, \* builder objects of one connection
    Now, Null,      \* SqlNowType and the invalid QVariant
    Unset,          \* a placeholder that nothing was bound to
    SortColumn,     \* columns a select may be sorted by
    LockTable,      \* tables whose rows a select may lock
    Reuse,          \* builders that were combined are used again
    MaxItems,       \* bound on the values, conditions, sort columns and locks of all builders
    MaxAssemblies   \* bound on the assemblies of a behaviour

\* Columns are numbered in the order of their names.
ASSUME ColumnAssumption == Column \subseteq Nat
\* What is not a value is not the number of a placeholder either.
ASSUME LiteralAssumption == {Now, Null, Default, Unset} \cap (Value \cup Nat) = {}
ASSUME BuilderBoundsAssumption == Reuse \in BOOLEAN /\ MaxItems \in Nat /\ MaxAssemblies \in Nat

\* A behaviour has builders of one kind: statements of two kinds differ, so
\* that builders of two kinds share nothing.
BuilderKinds == {Selects, Inserts, Updates, Deletes}

VARIABLES
    builder,     \* the objects
    bound,       \* the cached queries: statement -> [placeholder -> value]
    removing,    \* the call of removeSortColumn that is looping, if any
    assemblies   \* number of assemblies so far

builderVars == <<builder, bound, removing, assemblies>>

\* The column of a condition: which one it is makes no difference here.
AnyColumn == 0

\* A column with what it is set to or compared with.
Item == [col : Column \cup {AnyColumn}, lit : Value \cup {Now, Null, Default}]

\* The statement: a slot holds the number of a placeholder or a literal; tail
\* is what follows the WHERE of a select.
Slot(c, x) == [col |-> c, at |-> x]
Text(k, slots, tail) == [kind |-> k, slots |-> slots, tail |-> tail]
NoText == Text("none", <<>>, <<>>)

NoCall == [builder |-> "none"]

Placeholders(s) == {s.slots[i].at : i \in DOMAIN s.slots} \cap Nat

-----------------------------------------------------------------------------
BuildersInit ==
    /\ \E kind \in BuilderKinds : builder = [b \in kind |->
                    [head |-> <<>>,       \* columns with values, or conditions of joins
                     where |-> <<>>,      \* m_whereCondition, its leaves
                     sort |-> <<>>,       \* m_sortColumns
                     locks |-> <<>>,      \* m_lockTablesForUpdate, and what was asked for
                     noWait |-> FALSE,    \* m_lockNoWait
                     binds |-> <<>>,      \* m_bindValues
                     offset |-> 0,        \* m_bindedValuesOffset
                     assembled |-> FALSE, \* m_assembled
                     statement |-> NoText,
                     composed |-> FALSE,  \* assembled by combineQueries
                     meant |-> <<>>]]     \* history: what the slots stand for
    /\ bound = [s \in {} |-> {}]
    /\ removing = NoCall
    /\ assemblies = 0

\* A call of the program that assembles nothing.
NotAssembled == removing = NoCall /\ UNCHANGED <<bound, removing, assemblies>>

Items ==
    MapThenSumSet(LAMBDA b : Len(builder[b].head) + Len(builder[b].where) + Len(builder[b].sort)
                                 + Len(builder[b].locks),
                  DOMAIN builder)

\* Lits a builder takes in its head.
HeadLits(b) ==
    CASE b \in Inserts -> Value \cup {Now, Null, Default}
      [] b \in Deletes -> {}
      [] OTHER -> Value \cup {Now, Null}

\* SqlInsertQueryBuilder::addColumnValue and addColumn, addColumnValue of an
\* update, addJoin of a select.
AddHead(b, c, l) ==
    /\ Items < MaxItems
    /\ l \in HeadLits(b)
    /\ b \in Selects <=> c = AnyColumn
    /\ b \notin Selects => \A i \in DOMAIN builder[b].head : builder[b].head[i].col # c
    /\ builder' = [builder EXCEPT ![b].head = Append(@, [col |-> c, lit |-> l])]
    /\ NotAssembled

\* whereCondition().addValueCondition(), and conditions nested in it
AddWhere(b, l) ==
    /\ Items < MaxItems
    /\ b \notin Inserts
    /\ builder' = [builder EXCEPT ![b].where = Append(@, [col |-> AnyColumn, lit |-> l])]
    /\ NotAssembled

\* setToDefaultValues() of an insert empties m_values.
SetToDefaultValues(b) ==
    /\ b \in Inserts
    /\ builder' = [builder EXCEPT ![b].head =
                     [i \in DOMAIN @ |-> [@[i] EXCEPT !.lit = Default]]]
    /\ NotAssembled

InvalidateQuery(b) ==
    /\ builder' = [builder EXCEPT ![b].assembled = FALSE]
    /\ NotAssembled

AddSortColumn(b, c) ==
    /\ b \in Selects
    /\ Items < MaxItems
    /\ builder' = [builder EXCEPT ![b].sort = Append(@, c)]
    /\ NotAssembled

Lock(b, t, noWait) ==
    /\ b \in Selects
    /\ Items < MaxItems
    /\ builder' = [builder EXCEPT ![b].locks = Append(@, [table |-> t, noWait |-> noWait]),
                                  ![b].noWait = noWait]
    /\ NotAssembled

LockExclusive(b, t) == Lock(b, t, FALSE)
TryLockExclusive(b, t) == Lock(b, t, TRUE)

\* The loop looks at the first column only: that one is removed, or there is
\* none, or it goes on for ever.
RemoveSortColumn(b, c) ==
    /\ b \in Selects
    /\ removing = NoCall
    /\ \/ /\ builder[b].sort # <<>> /\ Head(builder[b].sort) = c
          /\ builder' = [builder EXCEPT ![b].sort = SubSeq(@, 2, Len(@))]
          /\ UNCHANGED removing
       \/ builder[b].sort = <<>> /\ UNCHANGED <<builder, removing>>
       \/ /\ builder[b].sort # <<>> /\ Head(builder[b].sort) # c
          /\ removing' = [builder |-> b, col |-> c]
          /\ UNCHANGED builder
    /\ UNCHANGED <<bound, assemblies>>

\* A turn of the loop, whose iterator stays where it is.
RemoveTurn == removing # NoCall /\ UNCHANGED builderVars

-----------------------------------------------------------------------------
(* Assembly *)

\* Item i of the text takes a placeholder: a condition with NULL is written
\* out, a column set to NULL is bound.
Registers(b, i) ==
    LET items == builder[b].head \o builder[b].where
        isSet == b \in Updates /\ i <= Len(builder[b].head)
    IN  items[i].lit # Now /\ (items[i].lit = Null => isSet)

\* The assembly of a builder that has a WHERE: its slots, and the values it
\* registers, where the first placeholder has the given number.
Conditional(b, first) ==
    LET items == builder[b].head \o builder[b].where
        before(i) == Cardinality({j \in 1 .. i - 1 : Registers(b, j)})
        lits == [i \in DOMAIN items |-> items[i].lit]
    IN  [slots |-> [i \in DOMAIN items |->
                      Slot(items[i].col, IF Registers(b, i) THEN first + before(i) ELSE lits[i])],
         values |-> [k \in 1 .. before(Len(items) + 1) |->
                       lits[CHOOSE i \in DOMAIN items : Registers(b, i) /\ before(i) = k - 1]],
         meant |-> lits]

\* Mutant: the offset is left at 0.
NoOffset(q1, q2, used) == builder[q2].offset

\* combineQueries numbers the placeholders of the second query behind the
\* values of the first.
Offset(q1, q2, used) == used

\* SqlSelectQueryBuilder::toString() appends to the values of earlier
\* assemblies; update and delete forget them.
SelectText(b, offset) == Conditional(b, offset + Len(builder[b].binds))

\* ORDER BY and FOR UPDATE, with one NOWAIT for all tables.
TailOf(b) ==
    [sort |-> builder[b].sort, noWait |-> builder[b].noWait /\ builder[b].locks # <<>>,
     forUpdate |-> [i \in DOMAIN builder[b].locks |-> builder[b].locks[i].table]]

\* SqlInsertQueryBuilder: placeholders have the number of their column.
InsertText(b) ==
    LET items == builder[b].head
    IN  [slots |-> [i \in DOMAIN items |->
                      Slot(items[i].col,
                           IF items[i].lit \in {Now, Default} THEN items[i].lit ELSE i - 1)],
         meant |-> [i \in DOMAIN items |-> items[i].lit]]

\* m_values.values(), in the order of the names of the columns
MapValues(b) ==
    LET items == builder[b].head
        valued == {i \in DOMAIN items : items[i].lit # Default}
        before(i) == Cardinality({j \in valued : items[j].col < items[i].col})
    IN  [k \in 1 .. Cardinality(valued) |->
           items[CHOOSE i \in valued : before(i) = k - 1].lit]

\* The values after binding vs to the placeholders 0, 1, ...: the driver
\* ignores a number the statement does not have, and bindValue skips Now.
BindAll(s, vs) ==
    LET old == IF s \in DOMAIN bound THEN bound[s] ELSE [p \in Placeholders(s) |-> Unset]
    IN  [p \in Placeholders(s) |->
           IF p + 1 \in DOMAIN vs /\ vs[p + 1] # Now THEN vs[p + 1] ELSE old[p]]

\* prepareQuery, through the cache, and the loop over the values.
Prepare(s, vs) ==
    /\ bound' = [t \in DOMAIN bound \cup {s} |-> IF t = s THEN BindAll(s, vs) ELSE bound[t]]
    /\ assemblies < MaxAssemblies
    /\ assemblies' = assemblies + 1
    /\ removing = NoCall /\ UNCHANGED removing

AssembleInsert(b) ==
    LET s == Text("insert", InsertText(b).slots, <<>>)
    IN  /\ b \in Inserts /\ ~builder[b].assembled
        /\ Prepare(s, MapValues(b))
        /\ builder' = [builder EXCEPT ![b].assembled = TRUE, ![b].statement = s,
                                      ![b].meant = InsertText(b).meant]

\* query() of an update or a delete, with the values of this assembly.
AssembleChange(b) ==
    LET text == Conditional(b, 0)
        s == Text(IF b \in Updates THEN "update" ELSE "delete", text.slots, <<>>)
    IN  /\ b \in Updates \cup Deletes /\ ~builder[b].assembled
        /\ b \in Updates => builder[b].head # <<>>
        /\ Prepare(s, text.values)
        /\ builder' = [builder EXCEPT ![b].assembled = TRUE, ![b].statement = s,
                                      ![b].binds = text.values, ![b].meant = text.meant]

AssembleSelect(b) ==
    LET text == SelectText(b, builder[b].offset)
        s == Text("select", text.slots, <<TailOf(b)>>)
        binds == builder[b].binds \o text.values
    IN  /\ b \in Selects /\ ~builder[b].assembled
        /\ Reuse \/ (builder[b].offset = 0 /\ ~builder[b].composed)
        /\ Prepare(s, binds)
        /\ builder' = [builder EXCEPT ![b].assembled = TRUE, ![b].statement = s,
                                      ![b].binds = binds,
                                      ![b].meant = IF builder[b].composed THEN @ ELSE text.meant]

\* The program means a combination used in another one to stand for both of
\* its queries.
Meant(b, text) == IF builder[b].composed THEN builder[b].meant ELSE text.meant

CombineQueries(b, q1, q2) ==
    LET text1 == SelectText(q1, builder[q1].offset)
        binds1 == builder[q1].binds \o text1.values
        offset == Offset(q1, q2, Len(binds1))
        text2 == SelectText(q2, offset)
        binds2 == builder[q2].binds \o text2.values
        s == Text("union", text1.slots \o text2.slots, <<TailOf(q1), TailOf(q2)>>)
    IN  /\ b \in Selects /\ q1 \in Selects /\ q2 \in Selects
        /\ b \notin {q1, q2} /\ q1 # q2
        /\ ~builder[b].assembled /\ builder[b].binds = <<>> /\ builder[b].statement = NoText
        /\ Reuse \/ (builder[q1].offset = 0 /\ ~builder[q1].composed /\ ~builder[q2].composed)
        /\ Prepare(s, binds1 \o binds2)
        /\ builder' = [builder EXCEPT
                         ![q1].binds = binds1, ![q2].binds = binds2, ![q2].offset = offset,
                         ![b].binds = binds1 \o binds2, ![b].statement = s,
                         ![b].assembled = TRUE, ![b].composed = TRUE,
                         ![b].meant = Meant(q1, text1) \o Meant(q2, text2)]

-----------------------------------------------------------------------------
BuildersNext ==
    \/ \E b \in DOMAIN builder :
          \/ \E c \in Column \cup {AnyColumn}, l \in Value \cup {Now, Null, Default} :
                AddHead(b, c, l)
          \/ \E l \in Value \cup {Now, Null} : AddWhere(b, l)
          \/ \E c \in SortColumn : AddSortColumn(b, c) \/ RemoveSortColumn(b, c)
          \/ \E t \in LockTable : LockExclusive(b, t) \/ TryLockExclusive(b, t)
          \/ SetToDefaultValues(b) \/ InvalidateQuery(b)
          \/ AssembleInsert(b) \/ AssembleChange(b) \/ AssembleSelect(b)
          \/ \E q1, q2 \in DOMAIN builder : CombineQueries(b, q1, q2)
    \/ RemoveTurn

BuildersSpec == BuildersInit /\ [][BuildersNext]_builderVars

\* A loop that the program is in takes its next turn.
BuildersFairSpec == BuildersSpec /\ WF_builderVars(RemoveTurn)

-----------------------------------------------------------------------------
(* Properties *)

\* Every variable stays within its type.
TypeOK ==
    /\ \A b \in DOMAIN builder :
          /\ builder[b].head \in Seq(Item) /\ builder[b].where \in Seq(Item)
          /\ builder[b].binds \in Seq(Value \cup {Null})
          /\ builder[b].offset \in Nat
          /\ builder[b].assembled => builder[b].statement \in DOMAIN bound
          /\ builder[b].sort \in Seq(SortColumn)
          /\ builder[b].locks \in Seq([table : LockTable, noWait : BOOLEAN])
    /\ \A s \in DOMAIN bound : bound[s] \in [Placeholders(s) -> Value \cup {Null, Unset}]
    /\ assemblies \in 0 .. MaxAssemblies

\* What the server would get in slot i of the statement of b.
Sent(b, i) ==
    LET s == builder[b].statement
    IN  IF s.slots[i].at \in Nat THEN bound[s][s.slots[i].at] ELSE s.slots[i].at

\* Every slot of the statement gets the value the program gave it.
Replaced(b) ==
    \A i \in DOMAIN builder[b].statement.slots : Sent(b, i) = builder[b].meant[i]

\* No part of what the program put together is missing in the statement.
Whole(b) == Len(builder[b].statement.slots) = Len(builder[b].meant)

Aligned(b) == Whole(b) /\ Replaced(b)

\* The columns of an insert are in the order of their names and the ones
\* without a value are last.
InOrder(b) ==
    b \in Inserts =>
        \A i, j \in DOMAIN builder[b].head :
            i < j => /\ builder[b].head[i].col < builder[b].head[j].col
                     /\ builder[b].head[i].lit = Default => builder[b].head[j].lit = Default

Assembles(b) == builder[b].assembled' /\ (assemblies' # assemblies) /\ ~builder[b].assembled

\* A builder that assembles its statement, for the first time or after
\* invalidateQuery(), alone or in a combination, binds every value to its own
\* placeholder: the numbers given while the text is put together and the
\* positions in the list of values agree, with the values of earlier
\* assemblies in the list and those that take no placeholder left out.
AssemblyAligned ==
    [][\A b \in DOMAIN builder : Assembles(b) /\ InOrder(b) => Aligned(b)']_builderVars

\* The columns of an INSERT receive the values that were given for them.
\* Promised, and not kept: see "Disagreements" in the README.
InsertAligned ==
    [][\A b \in DOMAIN builder : Assembles(b) /\ b \in Inserts => Aligned(b)']_builderVars

\* Every value registered while a statement is assembled replaces its
\* placeholder, however often the queries it is made of were used.
\* Promised, and not kept: see "Disagreements" in the README.
RegisteredReplaced ==
    [][\A b \in DOMAIN builder : Assembles(b) /\ Whole(b)' => Replaced(b)']_builderVars

\* A composed query is made out of both of its queries.
\* Promised, and not kept: see "Disagreements" in the README.
ComposedWhole == \A b \in DOMAIN builder : builder[b].composed => Whole(b)

\* The query of a builder keeps the builder's values until it is executed,
\* whatever other builders do.
\* Promised, and not kept: see "Disagreements" in the README.
KeepsValues == \A b \in DOMAIN builder : builder[b].assembled => Aligned(b)

\* A select waits for the rows of the tables it locks with lockExclusive(), and
\* fails at locked rows of those it locks with tryLockExclusive().
\* Promised, and not kept: see "Disagreements" in the README.
LocksAsAsked ==
    [][\A b \in Selects \cap DOMAIN builder :
          Assembles(b) /\ ~builder[b].composed' =>
              \A i \in DOMAIN builder[b].locks :
                  builder[b].locks[i].noWait = (builder[b].statement').tail[1].noWait]_builderVars

\* removeSortColumn returns.
\* Promised, and not kept: see "Disagreements" in the README.
RemoveReturns == removing # NoCall ~> removing = NoCall
=============================================================================
