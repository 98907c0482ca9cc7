------------------------------- MODULE Conditions -------------------------------
(***************************************************************************)
(* Conditions of a WHERE clause: SqlCondition objects that a program fills *)
(* and nests by value, and the text conditionToString() makes of one.      *)
(*                                                                         *)
(* A text is a sequence of words: parentheses, AND, OR and terms, a term   *)
(* comparing a column.  The rows it selects are found by reading it with   *)
(* the precedence of SQL; a comparison with NULL is not true.              *)
(***************************************************************************)
EXTENDS Integers, Sequences

CONSTANTS
    Name,        \* SqlCondition objects of the program
    Column,
    Text,        \* string values
    Null,        \* the invalid QVariant, and NULL
    Placeholder, \* placeholders the program names, and binds
    Lowered,     \* toLower() of texts and placeholders
    Compare,     \* compare operators, of {"Equals", "NotEquals", "Is", "IsNot"}
    Ops,         \* what the program does, a subset of AllOps
    MaxTerms,    \* bound on the terms the program adds
    MaxNests     \* bound on the conditions it nests

\* empty: conditions without sub-conditions are nested; lowered: terms with
\* placeholders or columns are added while case is ignored.
AllOps == {"value", "null", "placeholder", "column", "nest", "logic", "case", "expression",
           "empty", "lowered"}

ASSUME BoundsAssumption == Ops \subseteq AllOps /\ MaxTerms \in Nat /\ MaxNests \in Nat
ASSUME CompareAssumption == Compare \subseteq {"Equals", "NotEquals", "Is", "IsNot"}
ASSUME NullAssumption == Null \notin Text
ASSUME LoweredAssumption == \A t \in Text : Lowered[t] \in Text /\ Lowered[Lowered[t]] = Lowered[t]

VARIABLES
    conds,  \* the objects
    terms,  \* number of terms that were added
    nests   \* number of conditions that were nested

counts == <<terms, nests>>
conditionVars == <<conds, counts>>

LogicOperator == {"And", "Or"}
Row == [Column -> Text \cup {Null}]

\* What a column is compared with.
With(k, x) == [kind |-> k, what |-> x]
NoTerm == [col |-> Null, lower |-> FALSE, cmp |-> "Equals", with |-> With("value", Null)]

\* The constructor: no sub-conditions, combined with op; as a leaf it would
\* be the term without a column.  meant is a history: the term the program
\* asked for, lower saying that case is to be ignored.
SqlCondition(op) ==
    [logic |-> op, sensitive |-> TRUE, subs |-> <<>>, term |-> NoTerm, meant |-> NoTerm]

ConditionsInit ==
    /\ conds \in [Name -> {SqlCondition("And"), SqlCondition("Or")}]
    /\ terms = 0 /\ nests = 0

-----------------------------------------------------------------------------
(* Building *)

Leaf(c, w, cmp, lower, with) ==
    [SqlCondition("And") EXCEPT
        !.term = [col |-> c, lower |-> lower, cmp |-> cmp, with |-> with],
        !.meant = w]

Meant(sensitive, c, cmp, with) == [col |-> c, lower |-> ~sensitive, cmp |-> cmp, with |-> with]

\* The value a column in lower case is compared with.
ValueLowered(v) == Lowered[v]

\* Only strings are lowered, with their column.
ValueLeaf(sensitive, c, cmp, v) ==
    LET lower == ~sensitive /\ v \in Text
    IN  Leaf(c, Meant(sensitive, c, cmp, With("value", v)), cmp, lower,
             With("value", IF lower THEN ValueLowered(v) ELSE v))

\* The name of the placeholder is lowered, not the value bound to it.
PlaceholderLeaf(sensitive, c, cmp, p) ==
    Leaf(c, Meant(sensitive, c, cmp, With("placeholder", p)), cmp, ~sensitive,
         With("placeholder", IF sensitive THEN p ELSE Lowered[p]))

ColumnLeaf(sensitive, c, cmp, c2) ==
    Leaf(c, Meant(sensitive, c, cmp, With("column", c2)), cmp, FALSE, With("column", c2))

\* NULL is compared with IS and IS NOT, all else with the others.
WithNull == Compare \cap {"Is", "IsNot"}
WithValue == Compare \ WithNull

\* The leaves the program may add.
Leaves(sensitive) ==
    (IF "value" \in Ops
     THEN {ValueLeaf(sensitive, c, cmp, v) : c \in Column, cmp \in WithValue, v \in Text}
     ELSE {})
    \cup
    (IF "null" \in Ops
     THEN {ValueLeaf(sensitive, c, cmp, Null) : c \in Column, cmp \in WithNull}
     ELSE {})
    \cup
    (IF "placeholder" \in Ops /\ (sensitive \/ "lowered" \in Ops)
     THEN {PlaceholderLeaf(sensitive, c, cmp, p) : c \in Column, cmp \in WithValue, p \in Placeholder}
     ELSE {})
    \cup
    (IF "column" \in Ops /\ (sensitive \/ "lowered" \in Ops)
     THEN {ColumnLeaf(sensitive, c, cmp, c2) : c \in Column, cmp \in WithValue, c2 \in Column}
     ELSE {})

Add(o, condition) ==
    conds' = [conds EXCEPT ![o].subs = Append(@, condition)]

\* addValueCondition, addPlaceholderCondition, addColumnCondition
AddLeaf(o) ==
    /\ terms < MaxTerms
    /\ terms' = terms + 1 /\ UNCHANGED nests
    /\ \E l \in Leaves(conds[o].sensitive) : Add(o, l)

\* addCondition nests a copy.
AddCondition(o, p) ==
    /\ "nest" \in Ops
    /\ conds[p].subs = <<>> => "empty" \in Ops
    /\ nests < MaxNests
    /\ nests' = nests + 1 /\ UNCHANGED terms
    /\ Add(o, conds[p])

SetLogicOperator(o, op) ==
    /\ "logic" \in Ops
    /\ conds' = [conds EXCEPT ![o].logic = op]
    /\ UNCHANGED counts

SetCaseSensitive(o, sensitive) ==
    /\ "case" \in Ops
    /\ conds' = [conds EXCEPT ![o].sensitive = sensitive]
    /\ UNCHANGED counts

\* operator&& and operator|| of two leaves; assign_condition() replaces what
\* the object was by the result.
Expression(o, op) ==
    /\ "expression" \in Ops
    /\ terms + 2 <= MaxTerms
    /\ terms' = terms + 2 /\ UNCHANGED nests
    /\ \E l1, l2 \in Leaves(TRUE) :
          conds' = [conds EXCEPT ![o] = [SqlCondition(op) EXCEPT !.subs = <<l1, l2>>]]

ConditionsNext ==
    \E o \in Name :
        \/ AddLeaf(o)
        \/ \E p \in Name : AddCondition(o, p)
        \/ \E op \in LogicOperator : SetLogicOperator(o, op) \/ Expression(o, op)
        \/ \E sensitive \in BOOLEAN : SetCaseSensitive(o, sensitive)

ConditionsSpec == ConditionsInit /\ [][ConditionsNext]_conditionVars

-----------------------------------------------------------------------------
(* conditionToString *)

\* The conditions a program may nest in another: leaves, and objects with
\* sub-conditions of fewer levels.
EmptyCondition == {[SqlCondition(op) EXCEPT !.sensitive = s] : op \in LogicOperator, s \in BOOLEAN}
LeafCondition ==
    Leaves(TRUE) \cup Leaves(FALSE) \cup (IF "empty" \in Ops THEN EmptyCondition ELSE {})
Nested(S) == [logic : LogicOperator, sensitive : BOOLEAN, subs : Seq(S) \ {<<>>},
              term : {NoTerm}, meant : {NoTerm}]

Depth == MaxNests + 1
Condition[d \in 0 .. Depth] ==
    IF d = 0 THEN LeafCondition ELSE LeafCondition \cup Nested(Condition[d - 1])

Word(w) == [word |-> w, term |-> NoTerm]
TermWord(t) == [word |-> "term", term |-> t]

\* The term of a leaf; a valid value is registered, and replaced by the
\* number of its placeholder.
TermToString(t, binds) ==
    IF t.with.kind = "value" /\ t.with.what # Null
    THEN [text |-> <<TermWord([t EXCEPT !.with = With("number", Len(binds))])>>,
          binds |-> Append(binds, t.with.what)]
    ELSE [text |-> <<TermWord(t)>>, binds |-> binds]

\* What is joined before, and sub-condition i, whose text string makes.
JoinSub(string, condition, before, i) ==
    LET sub == string[condition.subs[i]][before.binds]
    IN  [text |-> IF i = 1 THEN sub.text
                  ELSE before.text \o <<Word(condition.logic)>> \o sub.text,
         binds |-> sub.binds]

\* All sub-conditions, with the operator between them.
Joined(string, condition, binds) ==
    LET joined[i \in 0 .. Len(condition.subs)] ==
            IF i = 0 THEN [text |-> <<>>, binds |-> binds]
            ELSE JoinSub(string, condition, joined[i - 1], i)
    IN  joined[Len(condition.subs)]

\* Mutant: sub-conditions are joined without parentheses.
Bare(n, text) == text

\* One sub-condition stands alone, several are in parentheses.
Parenthesized(n, text) == IF n = 1 THEN text ELSE <<Word("(")>> \o text \o <<Word(")")>>

\* The texts of the conditions of each depth.
Strings[d \in 0 .. Depth] ==
    [condition \in Condition[d] |-> [binds \in Seq(Text) |->
        IF d = 0 \/ condition.subs = <<>> THEN TermToString(condition.term, binds)
        ELSE LET joined == Joined(Strings[d - 1], condition, binds)
             IN  [joined EXCEPT !.text = Parenthesized(Len(condition.subs), @)]]]

ConditionToString(condition, binds) == Strings[Depth][condition][binds]

-----------------------------------------------------------------------------
(* The rows a text selects, and the rows that are meant *)

Holds(x, cmp, y) ==
    CASE cmp = "Equals"    -> x # Null /\ y # Null /\ x = y
      [] cmp = "NotEquals" -> x # Null /\ y # Null /\ x # y
      [] cmp = "Is"        -> x = y
      [] cmp = "IsNot"     -> x # y

LowerOf(x) == IF x = Null THEN Null ELSE Lowered[x]

\* A placeholder nothing is bound to is NULL.
Compared(w, row, binds, given) ==
    CASE w.kind = "number"      -> binds[w.what + 1]
      [] w.kind = "value"       -> w.what
      [] w.kind = "column"      -> row[w.what]
      [] w.kind = "placeholder" -> IF w.what \in Placeholder THEN given[w.what] ELSE Null

TermSelects(t, row, binds, given) ==
    Holds(IF t.lower THEN LowerOf(row[t.col]) ELSE row[t.col], t.cmp,
          Compared(t.with, row, binds, given))

\* Reading a text: in the innermost parentheses that are open, whether one of
\* the alternatives before the last OR holds and whether all terms since do,
\* which sort of word is to follow, and the level around the parentheses.
Level(any, all, next, around) == [any |-> any, all |-> all, next |-> next, around |-> around]
Opened(around) == Level(FALSE, TRUE, "operand", around)

\* A word that cannot follow, and then no other can.
Unreadable == Level(FALSE, FALSE, "nothing", <<>>)

\* An operand that holds or not.
Operand(level, holds) == Level(level.any, level.all /\ holds, "operator", level.around)

\* OR binds weaker than AND.
Read(level, w, row, binds, given) ==
    CASE level.next = "operand" /\ w.word = "term" ->
             Operand(level, TermSelects(w.term, row, binds, given))
      [] level.next = "operand" /\ w.word = "(" -> Opened(<<level>>)
      [] level.next = "operator" /\ w.word = "And" -> [level EXCEPT !.next = "operand"]
      [] level.next = "operator" /\ w.word = "Or" ->
             Level(level.any \/ level.all, TRUE, "operand", level.around)
      [] level.next = "operator" /\ w.word = ")" /\ level.around # <<>> ->
             Operand(level.around[1], level.any \/ level.all)
      [] OTHER -> Unreadable

ReadAll(level, text, row, binds, given) ==
    LET read[i \in 0 .. Len(text)] ==
            IF i = 0 THEN level ELSE Read(read[i - 1], text[i], row, binds, given)
    IN  read[Len(text)]

\* The text is a condition, and what it says of the row.
Selects(text, row, binds, given) ==
    LET end == ReadAll(Opened(<<>>), text, row, binds, given)
    IN  [readable |-> end.next = "operator" /\ end.around = <<>>,
         selected |-> end.any \/ end.all]

\* What a leaf asks for: with lower, both operands in lower case.
LeafMeans(m, row, given) ==
    LET Case(x) == IF m.lower THEN LowerOf(x) ELSE x
    IN  Holds(Case(row[m.col]), m.cmp, Case(Compared(m.with, row, <<>>, given)))

\* What the conditions of each depth ask for.
Meanings(row, given) ==
    LET means[d \in 0 .. Depth] ==
            [condition \in Condition[d] |->
                IF d = 0 \/ condition.subs = <<>> THEN LeafMeans(condition.meant, row, given)
                ELSE IF condition.logic = "And"
                THEN \A i \in DOMAIN condition.subs : means[d - 1][condition.subs[i]]
                ELSE \E i \in DOMAIN condition.subs : means[d - 1][condition.subs[i]]]
    IN  means[Depth]

-----------------------------------------------------------------------------
(* Properties *)

\* A WHERE clause is readable, and selects the rows its conditions describe, however they are
\* nested, whichever operators combine them and whatever is bound.
WhereMeant ==
    \A o \in Name :
        conds[o].subs # <<>> =>
            LET sql == ConditionToString(conds[o], <<>>)
            IN  \A row \in Row, given \in [Placeholder -> Text] :
                    LET read == Selects(sql.text, row, sql.binds, given)
                    IN  read.readable /\ (read.selected <=> Meanings(row, given)[conds[o]])

\* Every term of a WHERE clause compares some column.
\* Promised, and not kept: see "Disagreements" in the README.
TermsComplete ==
    \A o \in Name :
        conds[o].subs # <<>> =>
            LET text == ConditionToString(conds[o], <<>>).text
            IN  \A i \in DOMAIN text : text[i].word = "term" => text[i].term.col # Null
=============================================================================
