----------------------------- MODULE Declarations -----------------------------
(***************************************************************************)
(* What a program declares of its schema: columns with property flags,     *)
(* tables, lookup tables and relations; and the statements that create     *)
(* tables and columns.                                                     *)
(*                                                                         *)
(* A set of flags stands for the bits of an integer.  Types and sizes of   *)
(* columns are left out.                                                   *)
(***************************************************************************)
EXTENDS Integers, Sequences, SequencesExt

-----------------------------------------------------------------------------
(* Columns *)

\* ColumnProperties: a primary key has the bits of the other two.
Null == {}
PrimaryKey == {"key", "NotNull", "Unique"}

ReferenceTo(t, c) == [table |-> t, column |-> c]
NoReference == ReferenceTo("", "")

Column(name, P) == [name |-> name, flags |-> P, references |-> NoReference]

ForeignKey(name, ref, P) == [Column(name, P) EXCEPT !.references = ref]

IsPrimaryKey(c) == PrimaryKey \subseteq c.flags

HasForeignKey(c) == c.references # NoReference

\* The legacy name of a foreign key column.
KeyName(ref) == "fk_" \o ref.table \o "_" \o ref.column

-----------------------------------------------------------------------------
(* Tables *)

\* rows: what users may do to rows, if the table is not restricted.
Table(name, columns) ==
    [name |-> name, columns |-> columns, constraints |-> {},
     isLookup |-> FALSE, isRelation |-> FALSE, isRestricted |-> FALSE,
     rows |-> {"DELETE", "UPDATE", "INSERT"}]

NoUser(t, right) == [t EXCEPT !.rows = @ \ {right}]
OnlyUserSelect(t) == [t EXCEPT !.isRestricted = TRUE]

\* more: the columns appended to baseColumns.
LookupTable(name, more) ==
    [Table(name, <<Column("id", PrimaryKey), Column("short_desc", Null),
                   Column("description", Null)>> \o more)
        EXCEPT !.isLookup = TRUE, !.isRestricted = TRUE]

RelationTable(name, left, right, more) ==
    [Table(name, <<left, right>> \o more) EXCEPT !.isRelation = TRUE]

Relation(name, l, r, more) ==
    RelationTable(name, ForeignKey(KeyName(l), l, {"NotNull"}),
                  ForeignKey(KeyName(r), r, {"NotNull"}), more)

\* Both columns reference the same one, so the second has another name.
RecursiveRelation(name, ref, more) ==
    RelationTable(name, ForeignKey(KeyName(ref), ref, {"NotNull"}),
                  ForeignKey(KeyName(ref) \o "_link", ref, {"NotNull"}), more)

\* UniqueConstraint of the base columns: those of UniqueRelation and
\* UniqueRecursiveRelation.
Unique(relation) ==
    [relation EXCEPT !.constraints = {{relation.columns[1].name, relation.columns[2].name}}]

ColumnNames(t) == {t.columns[i].name : i \in DOMAIN t.columns}

\* What the compiler requires of a schema.
Compiles(schema) ==
    \A t \in ToSet(schema) : \A c \in ToSet(t.columns) :
        ~ {"OnDeleteCascade", "OnDeleteRestrict"} \subseteq c.flags

-----------------------------------------------------------------------------
(* CREATE TABLE *)

\* referenceStatement()
OnDeleteClause(c) ==
    IF ~HasForeignKey(c) THEN {}
    ELSE IF "OnDeleteCascade" \in c.flags THEN {"ON DELETE CASCADE"}
    ELSE IF "OnDeleteRestrict" \in c.flags THEN {"ON DELETE RESTRICT"} ELSE {}

\* column_creator: the clauses of a column.
ColumnStatement(c) ==
    [name |-> c.name,
     clauses |-> (IF IsPrimaryKey(c) THEN {"PRIMARY KEY"}
                  ELSE (IF "Unique" \in c.flags THEN {"UNIQUE"} ELSE {})
                         \cup (IF "NotNull" \in c.flags THEN {"NOT NULL"} ELSE {}))
                 \cup (IF "Default" \in c.flags THEN {"DEFAULT"} ELSE {})
                 \cup OnDeleteClause(c),
     references |-> c.references]

\* createTableStatement(): the columns and the table's constraints.
CreateTableStatement(t) ==
    [columns |-> [i \in DOMAIN t.columns |-> ColumnStatement(t.columns[i])],
     constraints |-> t.constraints]
=============================================================================
