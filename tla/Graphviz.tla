------------------------------- MODULE Graphviz -------------------------------
(***************************************************************************)
(* The drawing of a schema: a node per table with a port per column, edges *)
(* for foreign keys, and one edge for a relation that has nothing but its  *)
(* two foreign keys.                                                       *)
(***************************************************************************)
EXTENDS Declarations

\* Mutant: no relation gets a node.
IsNodeUnlessRelation(t) == t.isLookup \/ ~t.isRelation

\* table_dot_creator: a relation gets a node if it has more than its two
\* columns.
IsNode(t) == t.isLookup \/ ~t.isRelation \/ Len(t.columns) > 2

IsEdge(t) == t.isRelation /\ Len(t.columns) <= 2

\* makeNode draws the edges of its columns.
ForeignKeyEdges(t) ==
    {[from |-> ReferenceTo(t.name, c.name), to |-> c.references] :
        c \in {c \in ToSet(t.columns) : HasForeignKey(c)}}

\* makeRelationEdge
RelationEdge(t) == [from |-> t.columns[1].references, to |-> t.columns[2].references]

\* schemaToDot()
Nodes(schema) == {t \in ToSet(schema) : IsNode(t)}

Edges(schema) ==
    (UNION {ForeignKeyEdges(t) : t \in Nodes(schema)})
        \cup {RelationEdge(t) : t \in {t \in ToSet(schema) : IsEdge(t)}}

-----------------------------------------------------------------------------
Ports(schema) == UNION {{ReferenceTo(t.name, c) : c \in ColumnNames(t)} : t \in Nodes(schema)}

Shows(schema, t, c) ==
    IF ReferenceTo(t.name, c.name) \in Ports(schema)
    THEN HasForeignKey(c) => [from |-> ReferenceTo(t.name, c.name), to |-> c.references] \in Edges(schema)
    ELSE HasForeignKey(c) /\ \E e \in Edges(schema) : c.references \in {e.from, e.to}

\* The drawing of a schema shows every column, as a port with an edge to what it
\* references or as an end of a relation's edge, and no edge leads to a column
\* that is not drawn.
Draws(schema) ==
    /\ \A t \in ToSet(schema) : \A c \in ToSet(t.columns) : Shows(schema, t, c)
    /\ \A e \in Edges(schema) : {e.from, e.to} \subseteq Ports(schema)
=============================================================================
