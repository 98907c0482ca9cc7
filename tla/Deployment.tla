------------------------------- MODULE Deployment -------------------------------
(***************************************************************************)
(* Deployment of a schema: an administrator's program creates the tables   *)
(* of a schema, the columns that an older version of it did not have, and  *)
(* rules, rights and triggers, by statements that are executed, and        *)
(* committed, one by one, while ordinary users go on working.              *)
(*                                                                         *)
(* Each deployment adds a rule of a new name for a column that notifies;   *)
(* equal notifications of a transaction are delivered once, so whether     *)
(* there is one is all that is kept.                                       *)
(***************************************************************************)
EXTENDS FiniteSets, Graphviz

CONSTANTS
    Deployer,   \* programs that deploy
    Schema,     \* Schema[v] is the sequence of tables of version v
    Modes,      \* whether what is missing is created, or all tables
    Filled,     \* names of the tables that have rows when they are altered
    MaxFaults   \* bound on the failures

ASSUME BoundsAssumption == Modes \subseteq BOOLEAN /\ MaxFaults \in Nat

\* The tables of all versions.
Declared == UNION {ToSet(Schema[v]) : v \in DOMAIN Schema}

ASSUME SchemaAssumption ==
    /\ Schema \in Seq(Seq(Declared)) /\ Schema # <<>>
    /\ \A v \in DOMAIN Schema : Schema[v] # <<>> /\ Compiles(Schema[v])
    /\ \A t \in Declared :
          t.columns \in Seq(ToSet(t.columns)) /\ t.rows \subseteq {"INSERT", "UPDATE", "DELETE"}

Version == DOMAIN Schema

\* A table is of the same kind in all versions.
KindsAgree ==
    \A t, u \in Declared :
        t.name = u.name => t.isLookup = u.isLookup /\ t.isRelation = u.isRelation

\* Later versions change no column and no constraint of earlier ones: of what
\* is there, nothing is altered.
TablesAgree ==
    \A t, u \in Declared : t.name = u.name =>
        /\ t.constraints = u.constraints
        /\ \A c \in ToSet(t.columns), d \in ToSet(u.columns) :
              c.name = d.name => ColumnStatement(c) = ColumnStatement(d)

\* Columns have flags that CREATE TABLE can say: the bit of a primary key
\* comes with the other two, and what happens on deletion is said of a foreign key.
FlagsMeant ==
    \A t \in Declared : \A c \in ToSet(t.columns) :
        /\ c.flags \subseteq PrimaryKey \cup {"Default", "OnDeleteCascade", "OnDeleteRestrict",
                                            "OnUserUpdateRestrict", "Notify"}
        /\ "key" \in c.flags => IsPrimaryKey(c)
        /\ c.flags \cap {"OnDeleteCascade", "OnDeleteRestrict"} # {} => HasForeignKey(c)

\* A table is declared once, a foreign key references a column of a table that
\* is drawn as a node, and a relation drawn as an edge has two foreign keys.
EdgesLead ==
    \A v \in Version : \A t \in ToSet(Schema[v]) :
        /\ \A u \in ToSet(Schema[v]) : t.name = u.name => t = u
        /\ \A c \in ToSet(t.columns) : HasForeignKey(c) =>
              \E u \in Nodes(Schema[v]) : \E n \in ColumnNames(u) : c.references = ReferenceTo(u.name, n)
        /\ IsEdge(t) => Len(t.columns) = 2 /\ HasForeignKey(t.columns[1]) /\ HasForeignKey(t.columns[2])

\* Tables have columns, whose names differ.
NamesDiffer ==
    \A t \in Declared :
        /\ t.columns # <<>>
        /\ \A i, j \in DOMAIN t.columns : t.columns[i].name = t.columns[j].name => i = j

\* A foreign key references a table declared before, or its own, by a column
\* that every version of that table declares to be unique.
ReferencesLead ==
    \A v \in Version : \A i \in DOMAIN Schema[v] : \A c \in ToSet(Schema[v][i].columns) :
        HasForeignKey(c) =>
            /\ \E j \in 1 .. i : Schema[v][j].name = c.references.table
            /\ \A t \in Declared : t.name = c.references.table =>
                  \E u \in ToSet(t.columns) : u.name = c.references.column /\ "Unique" \in u.flags

\* A column that only some versions of a table with rows have may be left empty
\* or has a default.
ColumnsAddable ==
    \A t, u \in Declared : t.name = u.name /\ t.name \in Filled =>
        \A c \in ToSet(t.columns) :
            c.name \in ColumnNames(u) \/ "NotNull" \notin c.flags \/ "Default" \in c.flags

VARIABLES
    db,       \* the database
    run,      \* what each deployer is about
    newest,   \* the newest version whose deployment began
    deployed, \* history: the version in place since a deployment completed,
              \* 0 since another began
    faults

vars == <<db, run, newest, deployed, faults>>

\* step: the next statement; known: the tables that were there at the start,
\* and the columns of the table looked at; disturbed: another deployment
\* ended in the middle meanwhile.
Idle == [version |-> 0, missing |-> FALSE, step |-> 0, known |-> {}, disturbed |-> FALSE]

Init ==
    /\ db = [columns |-> {},   \* [table, name, clauses, references]
             uniques |-> {},   \* <<table, set of columns>>
             rules |-> {},     \* <<table, operation or column>> that notify
             grants |-> {},    \* <<group, table, right>>
             triggers |-> {}]  \* <<table, column>> users may not update
    /\ run = [d \in Deployer |-> Idle]
    /\ newest = 1 /\ deployed = 0
    /\ faults = 0

-----------------------------------------------------------------------------
(* The statements of a schema, in order *)

Command(c, t, what) == [cmd |-> c, table |-> t.name, what |-> what]

\* The statements of all columns of a table.
PerColumn(t, Statements(_, _)) ==
    FlattenSeq([i \in DOMAIN t.columns |-> Statements(t, t.columns[i])])

CreateTable(t) == <<Command("table", t, CreateTableStatement(t))>>

\* missing_column_creator: the columns of a table are read, then ALTER TABLE
\* is executed for those it does not have.
CreateMissingColumns(t) ==
    <<Command("read", t, {})>>
        \o [i \in DOMAIN t.columns |-> Command("column", t, ColumnStatement(t.columns[i]))]

TableRules(t) ==
    IF t.isLookup \/ t.isRelation THEN <<>>
    ELSE <<Command("rule", t, "INSERT"), Command("rule", t, "UPDATE"), Command("rule", t, "DELETE")>>

ColumnRule(t, c) == IF "Notify" \in c.flags THEN <<Command("rule", t, c.name)>> ELSE <<>>

ColumnRules(t) == PerColumn(t, ColumnRule)

Rights == {"SELECT", "DELETE", "UPDATE", "INSERT"}

\* Mutant: the rights of a restricted table are those of its rows.
UserRightsOfRows(t) == {"SELECT"} \cup t.rows

\* The rights of the user group.
UserRights(t) == {"SELECT"} \cup (IF t.isRestricted THEN {} ELSE t.rows)

Grants(t) == <<Command("admin", t, Rights), Command("user", t, UserRights(t))>>

IsProtected(c) == "OnUserUpdateRestrict" \in c.flags \/ IsPrimaryKey(c)

\* Mutant: the trigger is dropped last.
CreateAndDrop(t, c) == <<Command("create", t, c), Command("drop", t, c)>>

DropAndCreate(t, c) == <<Command("drop", t, c), Command("create", t, c)>>

ColumnTriggers(t, c) == IF IsProtected(c) THEN DropAndCreate(t, c.name) ELSE <<>>

Triggers(t) == PerColumn(t, ColumnTriggers)

\* The statements of all tables.
ForEach(tables, Statements(_)) ==
    FlattenSeq([i \in DOMAIN tables |-> Statements(tables[i])])

\* Mutant: rights are granted before changes are notified.
GrantsFirst(tables) ==
    ForEach(tables, Grants) \o ForEach(tables, TableRules)
        \o ForEach(tables, ColumnRules) \o ForEach(tables, Triggers)

\* createRulesPermissionsAndTriggers
RulesPermissionsAndTriggers(tables) ==
    ForEach(tables, TableRules) \o ForEach(tables, ColumnRules)
        \o ForEach(tables, Grants) \o ForEach(tables, Triggers)

Program ==
    [v \in Version |-> ForEach(Schema[v], CreateTable) \o ForEach(Schema[v], CreateMissingColumns)
                          \o RulesPermissionsAndTriggers(Schema[v])]

-----------------------------------------------------------------------------
(* The database *)

TableNames == {c.table : c \in db.columns}
HasColumn(t, c) == \E d \in db.columns : d.table = t /\ d.name = c

\* A column, and the clauses it has, of table t.
DbColumn(t, c) ==
    [table |-> t, name |-> c.name, clauses |-> c.clauses, references |-> c.references]
DbColumns(s) == {DbColumn(s.table, s.what.columns[i]) : i \in DOMAIN s.what.columns}

\* Columns that are unique may be referenced.
Referable(columns, ref) ==
    \E c \in columns : /\ c.table = ref.table /\ c.name = ref.column
                       /\ c.clauses \cap {"PRIMARY KEY", "UNIQUE"} # {}

Resolves(columns) ==
    \A c \in columns : c.references # NoReference => Referable(db.columns \cup columns, c.references)

Accepts(s) ==
    CASE s.cmd = "table" ->
            /\ s.table \notin TableNames
            /\ \A i, j \in DOMAIN s.what.columns :
                  s.what.columns[i].name = s.what.columns[j].name => i = j
            /\ Resolves(DbColumns(s))
      [] s.cmd = "read" -> TRUE
      [] s.cmd = "column" ->
            /\ s.table \in TableNames /\ ~HasColumn(s.table, s.what.name)
            /\ Resolves({DbColumn(s.table, s.what)})
            /\ s.what.clauses \cap {"NOT NULL", "PRIMARY KEY"} # {} /\ "DEFAULT" \notin s.what.clauses
                  => s.table \notin Filled
      [] s.cmd = "create" -> <<s.table, s.what>> \notin db.triggers /\ HasColumn(s.table, s.what)
      [] OTHER -> s.table \in TableNames

After(s) ==
    CASE s.cmd = "table"  -> [db EXCEPT !.columns = @ \cup DbColumns(s),
                                        !.uniques = @ \cup ({s.table} \X s.what.constraints)]
      [] s.cmd = "column" -> [db EXCEPT !.columns = @ \cup {DbColumn(s.table, s.what)}]
      [] s.cmd = "read"   -> db
      [] s.cmd = "rule"   -> [db EXCEPT !.rules = @ \cup {<<s.table, s.what>>}]
      [] s.cmd = "drop"   -> [db EXCEPT !.triggers = @ \ {<<s.table, s.what>>}]
      [] s.cmd = "create" -> [db EXCEPT !.triggers = @ \cup {<<s.table, s.what>>}]
      [] s.cmd \in {"admin", "user"} ->
            [db EXCEPT !.grants = @ \cup ({s.cmd} \X {s.table} \X s.what)]

-----------------------------------------------------------------------------
(* Steps *)

\* A statement of version v is left out by a deployer that knows what is there.
LeftOut(s, missing, known) ==
    CASE s.cmd = "table"  -> s.table \in known
      [] s.cmd = "read"   -> ~missing
      [] s.cmd = "column" -> ~missing \/ s.what.name \in known
      [] OTHER            -> FALSE

\* The first statement from step i on that is executed, or the end.
From(v, i, missing, known) ==
    CHOOSE j \in i .. Len(Program[v]) + 1 :
        /\ j <= Len(Program[v]) => ~LeftOut(Program[v][j], missing, known)
        /\ \A k \in i .. j - 1 : LeftOut(Program[v][k], missing, known)

\* Mutant: the tables that are there are created again.
NoneExisting(missing) == {}

\* The tables createMissingTables finds when it starts.
Existing(missing) == IF missing THEN TableNames ELSE {}

Start(d, v, missing) ==
    /\ run[d] = Idle /\ v >= newest
    /\ newest' = v /\ deployed' = 0
    /\ run' = [run EXCEPT ![d] =
                 [Idle EXCEPT !.version = v, !.missing = missing, !.known = Existing(missing),
                              !.step = From(v, 1, missing, Existing(missing))]]
    /\ UNCHANGED <<db, faults>>

Others(d) == {e \in Deployer \ {d} : run[e] # Idle}

Completes(d) ==
    Others(d) = {} /\ run[d].version = newest /\ ~run[d].disturbed

Statement(d) == Program[run[d].version][run[d].step]

\* What a deployer knows behind its statement s.
Known(d, s) ==
    IF s.cmd = "read" THEN {c.name : c \in {c \in db.columns : c.table = s.table}} ELSE run[d].known

\* A statement is executed; the last one completes the deployment.
Exec(d) ==
    /\ run[d] # Idle
    /\ Accepts(Statement(d))
    /\ db' = After(Statement(d))
    /\ \E known \in {Known(d, Statement(d))} :
       \E next \in {From(run[d].version, run[d].step + 1, run[d].missing, known)} :
          IF next > Len(Program[run[d].version])
          THEN /\ run' = [run EXCEPT ![d] = Idle]
               /\ deployed' = IF Completes(d) THEN newest ELSE 0
          ELSE /\ run' = [run EXCEPT ![d].step = next, ![d].known = known]
               /\ UNCHANGED deployed
    /\ UNCHANGED <<newest, faults>>

\* The exception of a refused statement ends the deployment.
ExecThrows(d) ==
    /\ run[d] # Idle
    /\ ~Accepts(Statement(d))
    /\ run' = [run EXCEPT ![d] = Idle]
    /\ UNCHANGED <<db, newest, deployed, faults>>

Step(d) == Exec(d) \/ ExecThrows(d)

\* A statement is executed and its reply lost with the connection: it will
\* be executed again.
ExecUnanswered(d) ==
    /\ faults < MaxFaults /\ faults' = faults + 1
    /\ run[d] # Idle
    /\ Accepts(Statement(d))
    /\ db' = After(Statement(d))
    /\ UNCHANGED <<run, newest, deployed>>

\* The program ends in the middle.
Crash(d) ==
    /\ faults < MaxFaults /\ faults' = faults + 1
    /\ run[d] # Idle
    /\ run' = [e \in Deployer |->
                 IF e = d THEN Idle
                 ELSE IF run[e] # Idle THEN [run[e] EXCEPT !.disturbed = TRUE] ELSE Idle]
    /\ UNCHANGED <<db, newest, deployed>>

Next ==
    \E d \in Deployer :
        \/ \E v \in Version, missing \in Modes : Start(d, v, missing)
        \/ Step(d) \/ ExecUnanswered(d) \/ Crash(d)

Spec == Init /\ [][Next]_vars

\* A deployment goes on, and one that creates what is missing is started
\* again and again after failures.
FairSpec ==
    Spec /\ \A d \in Deployer :
              /\ WF_vars(Step(d))
              /\ SF_vars(\E v \in Version : Start(d, v, TRUE))

-----------------------------------------------------------------------------
(* Properties *)

\* What the database enforces for a column, as the flags that ask for it.
InForce(c) ==
    (IF "PRIMARY KEY" \in c.clauses THEN PrimaryKey ELSE {})
        \cup (IF "UNIQUE" \in c.clauses THEN {"Unique"} ELSE {})
        \cup (IF "NOT NULL" \in c.clauses THEN {"NotNull"} ELSE {})
        \cup (IF "DEFAULT" \in c.clauses THEN {"Default"} ELSE {})
        \cup (IF "ON DELETE CASCADE" \in c.clauses THEN {"OnDeleteCascade"} ELSE {})
        \cup (IF "ON DELETE RESTRICT" \in c.clauses THEN {"OnDeleteRestrict"} ELSE {})

\* The rules, rights and triggers that a table asks for.
AskedRules(t) ==
    {t.name} \X ((IF t.isLookup \/ t.isRelation THEN {} ELSE {"INSERT", "UPDATE", "DELETE"})
                   \cup {c.name : c \in {c \in ToSet(t.columns) : "Notify" \in c.flags}})
AskedRights(t) == IF t.isRestricted THEN {"SELECT"} ELSE {"SELECT"} \cup t.rows
AskedTriggers(t) == {t.name} \X {c.name : c \in {c \in ToSet(t.columns) : IsProtected(c)}}

\* Rights of the user group on a table.
Granted(t) == {r \in Rights : <<"user", t.name, r>> \in db.grants}

\* After a deployment that completed, everything the schema asks for is in
\* place, whatever earlier ones left behind and whichever ran beside it, unless
\* one of those ended in the middle: every column with exactly the constraints
\* its flags stand for, and rules, rights and triggers.
Deployed ==
    deployed # 0 =>
        \A t \in ToSet(Schema[deployed]) :
            /\ \A c \in ToSet(t.columns) :
                  \E d \in db.columns :
                      /\ d.table = t.name /\ d.name = c.name /\ d.references = c.references
                      /\ InForce(d) = c.flags \ {"OnUserUpdateRestrict", "Notify"}
            /\ {t.name} \X t.constraints \subseteq db.uniques
            /\ AskedRules(t) \subseteq db.rules
            /\ AskedTriggers(t) \subseteq db.triggers
            /\ AskedRights(t) \subseteq Granted(t)

\* A user who may change the rows of a table that notifies is heard, from the
\* first deployment's first right on and at whatever statement later ones
\* are: rules are in place before the rights whose use they notify.
HeardFirst ==
    \A v \in 1 .. newest : \A t \in ToSet(Schema[v]) :
        ~t.isLookup /\ ~t.isRelation =>
            \A r \in Granted(t) \ {"SELECT"} : <<t.name, r>> \in db.rules

\* What users may do is something that some version deployed so far lets them
\* do, however deployments are interrupted and repeated.
RightsKnown ==
    \A t \in TableNames, r \in Rights :
        <<"user", t, r>> \in db.grants =>
            \E v \in 1 .. newest : \E u \in ToSet(Schema[v]) : u.name = t /\ r \in AskedRights(u)

\* The drawing of the version that is deployed shows all of it.
Drawn == Draws(Schema[newest])

\* Deployment, repeated, succeeds in the end, whatever was left behind, unless
\* another one runs beside it.
Redeployed == []<>(deployed # 0 \/ \A d \in Deployer : run[d] # Idle)

\* After a deployment users have no right that the schema does not give.
\* Promised, and not kept: see "Disagreements" in the README.
RightsMatch ==
    deployed # 0 => \A t \in ToSet(Schema[deployed]) : Granted(t) \subseteq AskedRights(t)

\* Users can not update a column that all versions protect.
\* Promised, and not kept: see "Disagreements" in the README.
ProtectedKept ==
    \A t \in ToSet(Schema[1]) :
        "UPDATE" \in Granted(t) => AskedTriggers(t) \subseteq db.triggers

\* There are rules for all tables that users may change.
\* Promised, and not kept: see "Disagreements" in the README.
MutableHeard ==
    deployed # 0 =>
        \A t \in ToSet(Schema[deployed]) :
            \A r \in Granted(t) \ {"SELECT"} : <<t.name, r>> \in db.rules
=============================================================================
