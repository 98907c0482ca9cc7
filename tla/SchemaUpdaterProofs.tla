------------------------- MODULE SchemaUpdaterProofs -------------------------
(***************************************************************************)
(* The safety properties of SchemaUpdater, for any number of clients, any  *)
(* schema and scripts, and any number of faults.  The invariant says what  *)
(* each loop of execUpdates has left, what the versions a client or the    *)
(* database holds stand for, and what the steps behind them rely on.       *)
(***************************************************************************)
EXTENDS SchemaUpdater, FiniteSetTheorems, WellFoundedInduction, TLAPS

\* The steps after the scripts, and those at which the version was read.
Late == {"rules", "grants", "triggers", "create", "bump"}
Deciding == {"confirm", "tables", "columns"} \cup Closing

\* The loops: what a client has left is part of what it lists.
LoopsOK ==
    \A c \in Client :
        /\ pc[c] = "tables" => todo[c] \subseteq Table
        /\ pc[c] = "columns" => todo[c] \subseteq Column
        /\ pc[c] \in {"scripts", "version", "commit"} => todo[c] = PendingUpdates(c)
        /\ pc[c] \in {"triggers", "create"} => todo[c] \subseteq Trigger
        /\ pc[c] \in {"version", "commit", "create"} => todo[c] # {}
        /\ pc[c] \in Deciding => current[c] >= 0

\* The versions: every script up to one that is held was committed, or its COMMIT
\* was reported as done without effect.
Honest(n) == \A v \in Script : Old < v /\ v <= n => ran[v] > 0 \/ v \in refused

VersionsOK ==
    /\ Honest(version)
    /\ \A c \in Client : Honest(current[c])
    /\ \A c \in Client : pc[c] \in Late => Honest(target)

\* The schema: what a client no longer has to create is there.
Schema == tables = Table /\ columns = Column

SchemaOK ==
    /\ \A c \in Client :
          /\ pc[c] = "tables" => Table \subseteq tables \cup todo[c]
          /\ pc[c] = "columns" => tables = Table /\ Column \subseteq columns \cup todo[c]
          /\ pc[c] \in Closing => Schema
    /\ SchemaFirst

\* A lone client: nobody else changes the version or what it has to create.  The
\* version it counts as its own may be ahead of the database, never behind it.
Alone == \A x, y \in began : x = y
AloneIs(c) == \A x \in began : x = c

LoneOK ==
    /\ IsFiniteSet(began)
    /\ \A c \in Client : pc[c] # "start" => c \in began
    /\ Alone => \A v \in Script : ran[v] <= 1 /\ (ran[v] > 0 => v <= version)
    /\ \A c \in Client :
          AloneIs(c) =>
              /\ current[c] >= 0 => version <= current[c]
              /\ pc[c] = "tables" => todo[c] \cap tables = {}
              /\ pc[c] = "columns" => todo[c] \cap columns = {}
              /\ pc[c] = "create" => First(todo[c]) \notin triggers

\* The end: as long as nobody was cut off, a trigger behind the one a loop is at
\* is there or about to be created again, and what was updated is complete or
\* somebody is still at work on it.
InPlace(g) == g \in triggers \/ \E d \in Client : pc[d] = "create" /\ First(todo[d]) = g

EndOK ==
    /\ \A c \in Client : pc[c] \in {"grants", "triggers", "create", "bump"} => "rules" \in deployed
    /\ \A c \in Client : pc[c] \in {"triggers", "create", "bump"} => "grants" \in deployed
    /\ ~cut =>
          /\ \A c \in Client, g \in Trigger :
                \/ pc[c] \in {"triggers", "create"} /\ g \notin todo[c]
                \/ pc[c] = "bump"
                => InPlace(g)
          /\ version > Old =>
                \/ \E c \in Client : pc[c] \in Closing
                \/ triggers = Trigger /\ deployed = {"rules", "grants"}

UpdaterInv == TypeOK /\ LoopsOK /\ VersionsOK /\ SchemaOK /\ LoneOK /\ EndOK

-----------------------------------------------------------------------------
(* Lemmas *)

\* A set of numbers that is not empty has a first one.
LEMMA FirstIsLeast ==
    ASSUME NEW S, S \subseteq Nat, S # {}
    PROVE  First(S) \in S /\ \A j \in S : First(S) <= j
  <1>1. PICK i \in S : \A j \in S : ~ (<<j, i>> \in OpToRel(<, Nat))
    BY NatLessThanWellFounded, WFMin
  <1>2. ASSUME NEW j \in S PROVE i <= j
    <2>1. ~ (j < i)
      <3> SUFFICES ASSUME j < i PROVE <<j, i>> \in OpToRel(<, Nat)
        BY <1>1
      <3>1. j \in Nat /\ i \in Nat
        OBVIOUS
      <3>2. QED
        BY <3>1 DEF OpToRel
    <2>2. QED
      BY <2>1
  <1>3. QED
    BY <1>2 DEF First

-----------------------------------------------------------------------------
(* The invariant holds at first, and every action keeps it *)

\* Before anybody began nothing has been created, and no version was reached.
LEMMA InitUpdater == Init => UpdaterInv
  <1> SUFFICES ASSUME Init PROVE UpdaterInv
    OBVIOUS
  <1>1. TypeOK
    <2>1. target \in Targets /\ version \in 0 .. target
      BY VersionAssumption DEF Init
    <2>2. faults \in 0 .. MaxFault
      BY FaultAssumption DEF Init
    <2>3. current \in [Client -> -1 .. target]
      BY <2>1, VersionAssumption DEF Init
    <2>4. QED
      BY <2>1, <2>2, <2>3 DEF Init, TypeOK, Steps
  <1>2. LoopsOK
    BY DEF Init, LoopsOK, Deciding, Closing
  <1>3. VersionsOK
    BY VersionAssumption, SchemaAssumption DEF Init, VersionsOK, Honest, Late
  <1>4. SchemaOK
    BY VersionAssumption DEF Init, SchemaOK, Closing, SchemaFirst
  <1>5. LoneOK
    BY FS_EmptySet DEF Init, LoneOK
  <1>6. EndOK
    BY VersionAssumption DEF Init, EndOK
  <1>7. QED
    BY <1>1, <1>2, <1>3, <1>4, <1>5, <1>6 DEF UpdaterInv

\* A client that fails has all it had, and a cut is remembered.
LEMMA FailsStep ==
    ASSUME UpdaterInv, NEW c \in Client, pc[c] # "start", Fails(c), faults' \in 0 .. MaxFault
    PROVE  UpdaterInv'
  <1>1. TypeOK'
    BY DEF UpdaterInv, TypeOK, Fails, database, Steps
  <1>2. LoopsOK'
    BY DEF UpdaterInv, Fails, LoopsOK, Deciding, Closing, PendingUpdates
  <1>3. VersionsOK'
    BY DEF UpdaterInv, Fails, database, VersionsOK, Honest, Late
  <1>4. SchemaOK'
    BY DEF UpdaterInv, Fails, database, SchemaOK, Closing, Schema, SchemaFirst
  <1>5. LoneOK'
    BY DEF UpdaterInv, Fails, database, LoneOK, AloneIs, Alone
  <1>6. EndOK'
    BY DEF UpdaterInv, TypeOK, Fails, database, EndOK, InPlace, Closing
  <1>7. QED
    BY <1>1, <1>2, <1>3, <1>4, <1>5, <1>6 DEF UpdaterInv

\* A new client knows nothing, and claims nothing.
LEMMA FreshStep ==
    ASSUME UpdaterInv, NEW c \in Client, Fresh(c), faults' \in 0 .. MaxFault
    PROVE  UpdaterInv'
  <1>1. TypeOK'
    BY VersionAssumption DEF UpdaterInv, TypeOK, Fresh, database, Steps
  <1>2. LoopsOK'
    BY DEF UpdaterInv, TypeOK, Fresh, LoopsOK, Deciding, Closing, PendingUpdates
  <1>3. VersionsOK'
    BY SchemaAssumption DEF UpdaterInv, Fresh, database, VersionsOK, Honest, Late
  <1>4. SchemaOK'
    BY DEF UpdaterInv, TypeOK, Fresh, database, SchemaOK, Closing, Schema, SchemaFirst
  <1>5. LoneOK'
    BY DEF UpdaterInv, TypeOK, Fresh, database, LoneOK, AloneIs, Alone
  <1>6. EndOK'
    BY DEF UpdaterInv, TypeOK, Fresh, database, EndOK, InPlace, Closing
  <1>7. QED
    BY <1>1, <1>2, <1>3, <1>4, <1>5, <1>6 DEF UpdaterInv

\* The version that is read is honest.
LEMMA AskStep ==
    ASSUME UpdaterInv, NEW c \in Client, Ask(c)
    PROVE  UpdaterInv'
  <1>1. TypeOK'
    BY DEF UpdaterInv, TypeOK, Ask, database
  <1>2. LoopsOK'
    BY DEF UpdaterInv, Ask, LoopsOK, Deciding, Closing, PendingUpdates
  <1>3. VersionsOK'
    BY DEF UpdaterInv, Ask, database, VersionsOK, Honest
  <1>4. SchemaOK'
    BY DEF UpdaterInv, Ask, database, SchemaOK, Schema, SchemaFirst
  <1>5. LoneOK'
    BY VersionAssumption DEF UpdaterInv, TypeOK, Ask, database, LoneOK, AloneIs, Alone
  <1>6. EndOK'
    BY DEF UpdaterInv, Ask, database, EndOK, InPlace
  <1>7. QED
    BY <1>1, <1>2, <1>3, <1>4, <1>5, <1>6 DEF UpdaterInv

\* A client that begins is alone if nobody began before it.
LEMMA StartStep ==
    ASSUME UpdaterInv, NEW c \in Client, Start(c)
    PROVE  UpdaterInv'
  <1>1. TypeOK'
    BY DEF UpdaterInv, TypeOK, Start, Goes, database, Steps
  <1>2. LoopsOK'
    BY DEF UpdaterInv, Start, Goes, LoopsOK, Deciding, Closing, PendingUpdates
  <1>3. VersionsOK'
    BY DEF UpdaterInv, Start, Goes, database, VersionsOK, Honest, Late
  <1>4. SchemaOK'
    BY DEF UpdaterInv, Start, Goes, database, SchemaOK, Closing, Schema, SchemaFirst
  <1>5. LoneOK'
    BY FS_AddElement DEF UpdaterInv, Start, Goes, database, LoneOK, AloneIs, Alone
  <1>6. EndOK'
    BY DEF UpdaterInv, Start, Goes, database, EndOK, InPlace, Closing
  <1>7. QED
    BY <1>1, <1>2, <1>3, <1>4, <1>5, <1>6 DEF UpdaterInv

\* A client goes on with a version that was read, now or before.
LEMMA OutdatedStep ==
    ASSUME UpdaterInv, NEW c \in Client, Outdated(c)
    PROVE  UpdaterInv'
  <1>1. TypeOK'
    BY DEF UpdaterInv, TypeOK, Outdated, Goes, VersionSeen, database, Steps
  <1>2. LoopsOK'
    BY DEF UpdaterInv, TypeOK, Outdated, Goes, VersionSeen, LoopsOK, PendingUpdates
  <1>3. VersionsOK'
    BY DEF UpdaterInv, Outdated, Goes, VersionSeen, database, VersionsOK, Honest, Late
  <1>4. SchemaOK'
    BY DEF UpdaterInv, Outdated, Goes, database, SchemaOK, Closing, Schema, SchemaFirst
  <1>5. LoneOK'
    BY VersionAssumption DEF UpdaterInv, TypeOK, Outdated, Goes, VersionSeen, database, LoneOK,
       AloneIs, Alone
  <1>6. EndOK'
    BY DEF UpdaterInv, Outdated, Goes, database, EndOK, InPlace, Closing
  <1>7. QED
    BY <1>1, <1>2, <1>3, <1>4, <1>5, <1>6 DEF UpdaterInv

\* A client that stops claims nothing.
LEMMA UpToDateStep ==
    ASSUME UpdaterInv, NEW c \in Client, UpToDate(c)
    PROVE  UpdaterInv'
  <1>1. TypeOK'
    BY DEF UpdaterInv, TypeOK, UpToDate, Goes, VersionSeen, database, Steps
  <1>2. LoopsOK'
    BY DEF UpdaterInv, UpToDate, Goes, LoopsOK, Deciding, Closing, PendingUpdates
  <1>3. VersionsOK'
    BY DEF UpdaterInv, UpToDate, Goes, VersionSeen, database, VersionsOK, Honest, Late
  <1>4. SchemaOK'
    BY DEF UpdaterInv, UpToDate, Goes, database, SchemaOK, Closing, Schema, SchemaFirst
  <1>5. LoneOK'
    BY VersionAssumption DEF UpdaterInv, TypeOK, UpToDate, Goes, VersionSeen, database, LoneOK,
       AloneIs, Alone
  <1>6. EndOK'
    BY DEF UpdaterInv, UpToDate, Goes, database, EndOK, InPlace, Closing
  <1>7. QED
    BY <1>1, <1>2, <1>3, <1>4, <1>5, <1>6 DEF UpdaterInv

\* A client that could not read the version claims nothing.
LEMMA UnreadableStep ==
    ASSUME UpdaterInv, NEW c \in Client, Unreadable(c)
    PROVE  UpdaterInv'
  <1>1. TypeOK'
    BY FaultAssumption DEF UpdaterInv, TypeOK, Unreadable, Goes, Fault, database, Steps
  <1>2. LoopsOK'
    BY DEF UpdaterInv, Unreadable, Goes, LoopsOK, Deciding, Closing, PendingUpdates
  <1>3. VersionsOK'
    BY DEF UpdaterInv, Unreadable, Goes, database, VersionsOK, Honest, Late
  <1>4. SchemaOK'
    BY DEF UpdaterInv, Unreadable, Goes, database, SchemaOK, Closing, Schema, SchemaFirst
  <1>5. LoneOK'
    BY DEF UpdaterInv, Unreadable, Goes, database, LoneOK, AloneIs, Alone
  <1>6. EndOK'
    BY DEF UpdaterInv, Unreadable, Goes, database, EndOK, InPlace, Closing
  <1>7. QED
    BY <1>1, <1>2, <1>3, <1>4, <1>5, <1>6 DEF UpdaterInv

\* A client that is declined claims nothing.
LEMMA DeclineStep ==
    ASSUME UpdaterInv, NEW c \in Client, Decline(c)
    PROVE  UpdaterInv'
  <1>1. TypeOK'
    BY FaultAssumption DEF UpdaterInv, TypeOK, Decline, Goes, Fault, database, Steps
  <1>2. LoopsOK'
    BY DEF UpdaterInv, Decline, Goes, LoopsOK, Deciding, PendingUpdates
  <1>3. VersionsOK'
    BY DEF UpdaterInv, Decline, Goes, database, VersionsOK, Honest, Late
  <1>4. SchemaOK'
    BY DEF UpdaterInv, Decline, Goes, database, SchemaOK, Closing, Schema, SchemaFirst
  <1>5. LoneOK'
    BY DEF UpdaterInv, Decline, Goes, database, LoneOK, AloneIs, Alone
  <1>6. EndOK'
    BY DEF UpdaterInv, Decline, Goes, database, EndOK, InPlace, Closing
  <1>7. QED
    BY <1>1, <1>2, <1>3, <1>4, <1>5, <1>6 DEF UpdaterInv

\* What is missing is all the client has to create.
LEMMA ListTablesStep ==
    ASSUME UpdaterInv, NEW c \in Client, ListTables(c)
    PROVE  UpdaterInv'
  <1>1. TypeOK'
    BY DEF UpdaterInv, TypeOK, ListTables, Goes, Loop, MissingTables, database, Steps
  <1>2. LoopsOK'
    BY DEF UpdaterInv, TypeOK, ListTables, Goes, Loop, MissingTables, LoopsOK, Deciding,
       PendingUpdates
  <1>3. VersionsOK'
    BY DEF UpdaterInv, ListTables, Goes, database, VersionsOK, Honest, Late
  <1>4. SchemaOK'
    BY DEF UpdaterInv, TypeOK, ListTables, Goes, Loop, MissingTables, database, SchemaOK, Closing,
       Schema, SchemaFirst
  <1>5. LoneOK'
    BY DEF UpdaterInv, TypeOK, ListTables, Goes, Loop, MissingTables, database, LoneOK, AloneIs,
       Alone
  <1>6. EndOK'
    BY DEF UpdaterInv, ListTables, Goes, Loop, database, EndOK, InPlace, Closing
  <1>7. QED
    BY <1>1, <1>2, <1>3, <1>4, <1>5, <1>6 DEF UpdaterInv

\* A table that is created leaves the list of those to create, for the others it
\* is one less that is missing.
LEMMA CreateTableStep ==
    ASSUME UpdaterInv, NEW c \in Client, First(todo[c]) \notin tables, CreateTable(c)
    PROVE  UpdaterInv'
  <1>a. /\ pc[c] = "tables"
        /\ tables' = tables \cup {First(todo[c])}
        /\ todo' = [todo EXCEPT ![c] = todo[c] \ {First(todo[c])}]
        /\ UNCHANGED <<version, columns, triggers, deployed, ran, pc, current, cacheOn, began,
                       said, target, cut, refused, faults>>
    BY DEF CreateTable, Advance, Loop
  <1>b. First(todo[c]) \in todo[c] /\ \A j \in todo[c] : First(todo[c]) <= j
    BY <1>a, FirstIsLeast, SchemaAssumption DEF UpdaterInv, TypeOK, LoopsOK, CreateTable
  <1>1. TypeOK'
    BY <1>b, <1>a DEF UpdaterInv, TypeOK, LoopsOK
  <1>2. LoopsOK'
    BY <1>a DEF UpdaterInv, LoopsOK, PendingUpdates
  <1>3. VersionsOK'
    BY <1>a DEF UpdaterInv, VersionsOK, Honest
  <1>4. SchemaOK'
    BY <1>b, <1>a DEF UpdaterInv, SchemaOK, Schema, SchemaFirst, LoopsOK
  <1>5. LoneOK'
    BY <1>a DEF UpdaterInv, TypeOK, LoneOK, AloneIs, Alone
  <1>6. EndOK'
    BY <1>a DEF UpdaterInv, EndOK, InPlace
  <1>7. QED
    BY <1>1, <1>2, <1>3, <1>4, <1>5, <1>6 DEF UpdaterInv

\* With no table left, all are there.
LEMMA ListColumnsStep ==
    ASSUME UpdaterInv, NEW c \in Client, ListColumns(c)
    PROVE  UpdaterInv'
  <1>1. TypeOK'
    BY DEF UpdaterInv, TypeOK, ListColumns, Goes, Loop, MissingColumns, database, Steps
  <1>2. LoopsOK'
    BY DEF UpdaterInv, TypeOK, ListColumns, Goes, Loop, MissingColumns, LoopsOK, Deciding,
       PendingUpdates
  <1>3. VersionsOK'
    BY DEF UpdaterInv, ListColumns, Goes, database, VersionsOK, Honest, Late
  <1>4. SchemaOK'
    BY DEF UpdaterInv, TypeOK, ListColumns, Goes, Loop, MissingColumns, database, SchemaOK, Closing,
       Schema, SchemaFirst
  <1>5. LoneOK'
    BY DEF UpdaterInv, TypeOK, ListColumns, Goes, Loop, MissingColumns, database, LoneOK, AloneIs,
       Alone
  <1>6. EndOK'
    BY DEF UpdaterInv, ListColumns, Goes, Loop, database, EndOK, InPlace, Closing
  <1>7. QED
    BY <1>1, <1>2, <1>3, <1>4, <1>5, <1>6 DEF UpdaterInv

\* A column that is added leaves the list of those to add.
LEMMA AddColumnStep ==
    ASSUME UpdaterInv, NEW c \in Client, First(todo[c]) \notin columns, AddColumn(c)
    PROVE  UpdaterInv'
  <1>a. /\ pc[c] = "columns"
        /\ columns' = columns \cup {First(todo[c])}
        /\ todo' = [todo EXCEPT ![c] = todo[c] \ {First(todo[c])}]
        /\ UNCHANGED <<version, tables, triggers, deployed, ran, pc, current, cacheOn, began,
                       said, target, cut, refused, faults>>
    BY DEF AddColumn, Advance, Loop
  <1>b. First(todo[c]) \in todo[c] /\ \A j \in todo[c] : First(todo[c]) <= j
    BY <1>a, FirstIsLeast, SchemaAssumption DEF UpdaterInv, TypeOK, LoopsOK, AddColumn
  <1>1. TypeOK'
    BY <1>b, <1>a DEF UpdaterInv, TypeOK, LoopsOK
  <1>2. LoopsOK'
    BY <1>a DEF UpdaterInv, LoopsOK, PendingUpdates
  <1>3. VersionsOK'
    BY <1>a DEF UpdaterInv, VersionsOK, Honest
  <1>4. SchemaOK'
    BY <1>b, <1>a DEF UpdaterInv, SchemaOK, Schema, SchemaFirst, LoopsOK
  <1>5. LoneOK'
    BY <1>a DEF UpdaterInv, TypeOK, LoneOK, AloneIs, Alone
  <1>6. EndOK'
    BY <1>a DEF UpdaterInv, EndOK, InPlace
  <1>7. QED
    BY <1>1, <1>2, <1>3, <1>4, <1>5, <1>6 DEF UpdaterInv

\* With no column left, the schema is there, and the scripts above the version are listed.
LEMMA ListScriptsStep ==
    ASSUME UpdaterInv, NEW c \in Client, ListScripts(c)
    PROVE  UpdaterInv'
  <1>1. TypeOK'
    BY DEF UpdaterInv, TypeOK, ListScripts, Goes, Loop, database, Steps, PendingUpdates
  <1>2. LoopsOK'
    BY DEF UpdaterInv, TypeOK, ListScripts, Goes, Loop, LoopsOK, Deciding, PendingUpdates
  <1>3. VersionsOK'
    BY DEF UpdaterInv, ListScripts, Goes, database, VersionsOK, Honest, Late
  <1>4. SchemaOK'
    BY DEF UpdaterInv, TypeOK, ListScripts, Goes, database, SchemaOK, Schema, SchemaFirst
  <1>5. LoneOK'
    BY DEF UpdaterInv, TypeOK, ListScripts, Goes, database, LoneOK, AloneIs, Alone
  <1>6. EndOK'
    BY DEF UpdaterInv, ListScripts, Goes, Loop, database, EndOK, InPlace, Closing
  <1>7. QED
    BY <1>1, <1>2, <1>3, <1>4, <1>5, <1>6 DEF UpdaterInv

\* The statements of a script are in a transaction.
LEMMA ExecUpdateStep ==
    ASSUME UpdaterInv, NEW c \in Client, ExecUpdate(c)
    PROVE  UpdaterInv'
  <1>1. TypeOK'
    BY DEF UpdaterInv, TypeOK, ExecUpdate, Goes, database, Steps
  <1>2. LoopsOK'
    BY DEF UpdaterInv, ExecUpdate, Goes, LoopsOK, Deciding, Closing, PendingUpdates
  <1>3. VersionsOK'
    BY DEF UpdaterInv, ExecUpdate, Goes, database, VersionsOK, Honest, Late
  <1>4. SchemaOK'
    BY DEF UpdaterInv, ExecUpdate, Goes, database, SchemaOK, Closing, Schema, SchemaFirst
  <1>5. LoneOK'
    BY DEF UpdaterInv, ExecUpdate, Goes, database, LoneOK, AloneIs, Alone
  <1>6. EndOK'
    BY DEF UpdaterInv, ExecUpdate, Goes, database, EndOK, InPlace, Closing
  <1>7. QED
    BY <1>1, <1>2, <1>3, <1>4, <1>5, <1>6 DEF UpdaterInv

\* The version is in the transaction of its script.
LEMMA UpdateVersionStep ==
    ASSUME UpdaterInv, NEW c \in Client, UpdateVersion(c)
    PROVE  UpdaterInv'
  <1>1. TypeOK'
    BY DEF UpdaterInv, TypeOK, UpdateVersion, Goes, database, Steps
  <1>2. LoopsOK'
    BY DEF UpdaterInv, UpdateVersion, Goes, LoopsOK, Deciding, Closing, PendingUpdates
  <1>3. VersionsOK'
    BY DEF UpdaterInv, UpdateVersion, Goes, database, VersionsOK, Honest, Late
  <1>4. SchemaOK'
    BY DEF UpdaterInv, UpdateVersion, Goes, database, SchemaOK, Closing, Schema, SchemaFirst
  <1>5. LoneOK'
    BY DEF UpdaterInv, UpdateVersion, Goes, database, LoneOK, AloneIs, Alone
  <1>6. EndOK'
    BY DEF UpdaterInv, UpdateVersion, Goes, database, EndOK, InPlace, Closing
  <1>7. QED
    BY <1>1, <1>2, <1>3, <1>4, <1>5, <1>6 DEF UpdaterInv

\* The first script left is the next above the version the client knows, which is
\* not below that of the database for a lone client.
LEMMA CommitStep ==
    ASSUME UpdaterInv, NEW c \in Client, Commit(c)
    PROVE  UpdaterInv'
  <1>b. First(todo[c]) \in todo[c] /\ \A j \in todo[c] : First(todo[c]) <= j
    BY FirstIsLeast, SchemaAssumption DEF UpdaterInv, TypeOK, LoopsOK, Commit, Goes
  <1>1. TypeOK'
    BY <1>b, SchemaAssumption DEF UpdaterInv, TypeOK, Commit, Goes, Advance, Loop, Steps, LoopsOK,
       PendingUpdates
  <1>2. LoopsOK'
    BY <1>b, SchemaAssumption DEF UpdaterInv, TypeOK, Commit, Goes, Advance, Loop, LoopsOK,
       PendingUpdates
  <1>3. VersionsOK'
    <2>1. PICK s \in Script : s = First(todo[c]) /\ s <= target
      BY <1>b DEF UpdaterInv, LoopsOK, PendingUpdates, Commit, Goes
    <2>2. /\ ran' = [ran EXCEPT ![s] = @ + 1] /\ version' = s
          /\ current' = [current EXCEPT ![c] = s] /\ UNCHANGED target
          /\ pc[c] = "commit" /\ pc' = [pc EXCEPT ![c] = "scripts"]
      BY <2>1 DEF Commit, Goes
    <2>3. ran' \in [Script -> Nat] /\ \A v \in Script : ran'[v] >= ran[v]
      BY <2>1, <2>2 DEF UpdaterInv, TypeOK
    <2>4. refused' = refused /\ \A n : Honest(n) => Honest(n)'
      <3>1. refused' = refused
        BY DEF Commit
      <3>2. ASSUME NEW n, Honest(n) PROVE Honest(n)'
        BY <2>3, <3>1, <3>2 DEF Honest, UpdaterInv, TypeOK
      <3>3. QED
        BY <3>1, <3>2
    <2>5. Honest(s)'
      <3> SUFFICES ASSUME NEW v \in Script, Old < v, v <= s PROVE ran'[v] > 0 \/ v \in refused
        BY <2>4 DEF Honest
      <3>1. CASE v = s
        BY <2>1, <2>2, <3>1 DEF UpdaterInv, TypeOK
      <3>2. CASE v # s
        <4>1. v \in Nat /\ s \in Nat /\ target \in Nat /\ current[c] \in Int
          BY VersionAssumption, SchemaAssumption DEF UpdaterInv, TypeOK
        <4>2. v \notin PendingUpdates(c)
          BY <1>b, <2>1, <2>2, <3>2, <4>1 DEF UpdaterInv, LoopsOK
        <4>3. v <= current[c]
          BY <2>1, <4>1, <4>2 DEF PendingUpdates
        <4>4. ran[v] > 0 \/ v \in refused
          BY <4>3 DEF UpdaterInv, VersionsOK, Honest
        <4>5. QED
          BY <2>3, <4>4 DEF UpdaterInv, TypeOK
      <3>3. QED
        BY <3>1, <3>2
    <2>6. QED
      BY <2>2, <2>4, <2>5 DEF UpdaterInv, TypeOK, VersionsOK, Late
  <1>4. SchemaOK'
    BY DEF UpdaterInv, Commit, Goes, SchemaOK, Closing, Schema, SchemaFirst
  <1>5. LoneOK'
    <2>1. /\ c \in began /\ First(todo[c]) \in Script
          /\ current[c] >= 0 /\ current[c] < First(todo[c])
      BY <1>b DEF UpdaterInv, LoopsOK, LoneOK, PendingUpdates, Deciding, Closing, Commit, Goes
    <2>2. Alone => AloneIs(c) /\ version <= current[c]
      BY <2>1 DEF UpdaterInv, LoneOK, Alone, AloneIs
    <2>3. \A d \in Client : AloneIs(d) => d = c
      BY <2>1 DEF AloneIs
    <2>4. Alone' = Alone /\ (\A d \in Client : AloneIs(d)' = AloneIs(d))
      BY DEF Commit, Alone, AloneIs
    <2>5. Alone => \A v \in Script : ran'[v] <= 1 /\ (ran'[v] > 0 => v <= version')
      <3> SUFFICES ASSUME Alone, NEW v \in Script
                   PROVE  ran'[v] <= 1 /\ (ran'[v] > 0 => v <= version')
        OBVIOUS
      <3>1. ran[v] \in Nat /\ v \in Nat /\ version \in Nat /\ First(todo[c]) \in Nat
            /\ version < First(todo[c])
        <4>1. current[c] \in Int /\ version \in Nat /\ First(todo[c]) \in Nat
          BY <2>1, VersionAssumption, SchemaAssumption DEF UpdaterInv, TypeOK
        <4>2. QED
          BY <2>1, <2>2, <4>1, SchemaAssumption DEF UpdaterInv, TypeOK
      <3>2. ran[v] <= 1 /\ (ran[v] > 0 => v <= version)
        BY DEF UpdaterInv, LoneOK
      <3>3. ran' = [ran EXCEPT ![First(todo[c])] = @ + 1] /\ version' = First(todo[c])
        BY DEF Commit
      <3>4. QED
        BY <3>1, <3>2, <3>3 DEF UpdaterInv, TypeOK
    <2>6. QED
      BY <2>1, <2>3, <2>4, <2>5, SchemaAssumption DEF UpdaterInv, TypeOK, LoneOK, Commit, Goes
  <1>6. EndOK'
    BY DEF UpdaterInv, Commit, Goes, Advance, Loop, EndOK, InPlace, Closing
  <1>7. QED
    BY <1>1, <1>2, <1>3, <1>4, <1>5, <1>6 DEF UpdaterInv

\* A script that took no effect passes for done: for the client, not for a lone
\* client's database.
LEMMA CommitRefusedStep ==
    ASSUME UpdaterInv, NEW c \in Client, CommitRefused(c)
    PROVE  UpdaterInv'
  <1>a. faults' \in 0 .. MaxFault /\ pc[c] = "commit"
    BY FaultAssumption DEF CommitRefused, Fault, UpdaterInv, TypeOK
  <1>b. First(todo[c]) \in todo[c] /\ \A j \in todo[c] : First(todo[c]) <= j
    BY <1>a, FirstIsLeast, SchemaAssumption DEF UpdaterInv, TypeOK, LoopsOK
  <1>c. PICK s \in Script : s = First(todo[c]) /\ s <= target /\ current[c] < s
    BY <1>a, <1>b DEF UpdaterInv, LoopsOK, PendingUpdates
  <1>d. s \in Nat /\ target \in Nat /\ version \in Nat /\ current[c] \in Int
    BY VersionAssumption, SchemaAssumption DEF UpdaterInv, TypeOK
  <1>e. CASE Fails(c)
    BY <1>a, <1>e, FailsStep
  <1>f. CASE /\ pc' = [pc EXCEPT ![c] = "scripts"]
             /\ refused' = refused \cup {s}
             /\ current' = [current EXCEPT ![c] = s]
             /\ todo' = [todo EXCEPT ![c] = todo[c] \ {s}]
             /\ UNCHANGED <<version, tables, columns, triggers, deployed, ran, cacheOn, began,
                            said, target, cut>>
    <2>1. TypeOK'
      <3>1. current' \in [Client -> -1 .. target]
        BY <1>c, <1>d, <1>f DEF UpdaterInv, TypeOK
      <3>2. todo' \in [Client -> SUBSET (Table \cup Column \cup Script \cup Trigger)]
        BY <1>f DEF UpdaterInv, TypeOK
      <3>3. pc' \in [Client -> Steps]
        BY <1>f DEF UpdaterInv, TypeOK, Steps
      <3>4. ASSUME NEW d \in Client, pc'[d] \in {"scripts", "version", "commit"}
            PROVE  todo'[d] \subseteq Script
        BY <1>a, <1>f, <3>4 DEF UpdaterInv, TypeOK
      <3>5. QED
        BY <1>a, <1>f, <3>1, <3>2, <3>3, <3>4 DEF UpdaterInv, TypeOK
    <2>2. LoopsOK'
      BY <1>a, <1>b, <1>c, <1>d, <1>f, SchemaAssumption
         DEF UpdaterInv, TypeOK, LoopsOK, PendingUpdates, Deciding, Closing
    <2>3. VersionsOK'
      <3>1. \A n : Honest(n) => Honest(n)'
        BY <1>f DEF Honest
      <3>2. Honest(s)'
        <4> SUFFICES ASSUME NEW v \in Script, Old < v, v <= s
                     PROVE  ran[v] > 0 \/ v \in refused \cup {s}
          BY <1>f DEF Honest
        <4>1. CASE v = s
          BY <4>1
        <4>2. CASE v # s
          <5>1. v \notin PendingUpdates(c) /\ v \in Nat
            BY <1>a, <1>b, <1>c, <1>d, <4>2, SchemaAssumption DEF UpdaterInv, LoopsOK
          <5>2. v <= current[c]
            BY <1>c, <1>d, <5>1 DEF PendingUpdates
          <5>3. QED
            BY <5>2 DEF UpdaterInv, VersionsOK, Honest
        <4>3. QED
          BY <4>1, <4>2
      <3>3. QED
        BY <1>f, <3>1, <3>2 DEF UpdaterInv, TypeOK, VersionsOK, Late
    <2>4. SchemaOK'
      BY <1>a, <1>f DEF UpdaterInv, TypeOK, SchemaOK, Closing, Schema, SchemaFirst
    <2>5. LoneOK'
      BY <1>a, <1>c, <1>d, <1>f, VersionAssumption DEF UpdaterInv, TypeOK, LoopsOK, LoneOK, AloneIs,
         Alone, Deciding, Closing
    <2>6. EndOK'
      BY <1>a, <1>f DEF UpdaterInv, TypeOK, EndOK, InPlace, Closing
    <2>7. QED
      BY <2>1, <2>2, <2>3, <2>4, <2>5, <2>6 DEF UpdaterInv
  <1>g. QED
    BY <1>c, <1>e, <1>f DEF CommitRefused, Goes, Advance, Loop, database

\* With no script left, all up to the target were committed or passed for it.
LEMMA ScriptsDoneStep ==
    ASSUME UpdaterInv, NEW c \in Client, ScriptsDone(c)
    PROVE  UpdaterInv'
  <1>1. TypeOK'
    BY DEF UpdaterInv, TypeOK, ScriptsDone, Goes, database, Steps
  <1>2. LoopsOK'
    BY DEF UpdaterInv, ScriptsDone, Goes, LoopsOK, Deciding, Closing, PendingUpdates
  <1>3. VersionsOK'
    BY SchemaAssumption DEF UpdaterInv, TypeOK, ScriptsDone, Goes, database, VersionsOK, Honest,
       LoopsOK, PendingUpdates
  <1>4. SchemaOK'
    BY DEF UpdaterInv, ScriptsDone, Goes, database, SchemaOK, Closing, Schema, SchemaFirst
  <1>5. LoneOK'
    BY DEF UpdaterInv, ScriptsDone, Goes, database, LoneOK, AloneIs, Alone
  <1>6. EndOK'
    BY DEF UpdaterInv, ScriptsDone, Goes, database, EndOK, InPlace, Closing
  <1>7. QED
    BY <1>1, <1>2, <1>3, <1>4, <1>5, <1>6 DEF UpdaterInv

\* Rules are in place from here on.
LEMMA CreateRulesStep ==
    ASSUME UpdaterInv, NEW c \in Client, CreateRules(c)
    PROVE  UpdaterInv'
  <1>1. TypeOK'
    BY DEF UpdaterInv, TypeOK, CreateRules, Deploy, Goes, Loop, Steps
  <1>2. LoopsOK'
    BY DEF UpdaterInv, CreateRules, Deploy, Goes, Loop, LoopsOK, Deciding, Closing, PendingUpdates
  <1>3. VersionsOK'
    BY DEF UpdaterInv, CreateRules, Deploy, Goes, VersionsOK, Honest, Late
  <1>4. SchemaOK'
    BY DEF UpdaterInv, CreateRules, Deploy, Goes, SchemaOK, Closing, Schema, SchemaFirst
  <1>5. LoneOK'
    BY DEF UpdaterInv, CreateRules, Deploy, Goes, LoneOK, AloneIs, Alone
  <1>6. EndOK'
    BY DEF UpdaterInv, CreateRules, Deploy, Goes, Loop, EndOK, InPlace, Closing
  <1>7. QED
    BY <1>1, <1>2, <1>3, <1>4, <1>5, <1>6 DEF UpdaterInv

\* Rights are in place from here on.
LEMMA GrantPermissionsStep ==
    ASSUME UpdaterInv, NEW c \in Client, GrantPermissions(c)
    PROVE  UpdaterInv'
  <1>1. TypeOK'
    BY DEF UpdaterInv, TypeOK, GrantPermissions, Deploy, Goes, Loop, Steps
  <1>2. LoopsOK'
    BY DEF UpdaterInv, TypeOK, GrantPermissions, Deploy, Goes, Loop, LoopsOK, Deciding, Closing,
       PendingUpdates
  <1>3. VersionsOK'
    BY DEF UpdaterInv, GrantPermissions, Deploy, Goes, VersionsOK, Honest, Late
  <1>4. SchemaOK'
    BY DEF UpdaterInv, GrantPermissions, Deploy, Goes, SchemaOK, Closing, Schema, SchemaFirst
  <1>5. LoneOK'
    BY DEF UpdaterInv, GrantPermissions, Deploy, Goes, LoneOK, AloneIs, Alone
  <1>6. EndOK'
    BY DEF UpdaterInv, TypeOK, GrantPermissions, Deploy, Goes, Loop, EndOK, InPlace, Closing
  <1>7. QED
    BY <1>1, <1>2, <1>3, <1>4, <1>5, <1>6 DEF UpdaterInv

\* A trigger that is dropped is about to be created again.
LEMMA DropTriggerStep ==
    ASSUME UpdaterInv, NEW c \in Client, DropTrigger(c)
    PROVE  UpdaterInv'
  <1>b. First(todo[c]) \in todo[c] /\ \A j \in todo[c] : First(todo[c]) <= j
    BY FirstIsLeast, SchemaAssumption DEF UpdaterInv, TypeOK, LoopsOK, DropTrigger, Goes
  <1>1. TypeOK'
    BY DEF UpdaterInv, TypeOK, DropTrigger, Goes, Steps
  <1>2. LoopsOK'
    BY DEF UpdaterInv, DropTrigger, Goes, LoopsOK, Deciding, Closing, PendingUpdates
  <1>3. VersionsOK'
    BY DEF UpdaterInv, DropTrigger, Goes, VersionsOK, Honest, Late
  <1>4. SchemaOK'
    BY DEF UpdaterInv, DropTrigger, Goes, SchemaOK, Closing, Schema, SchemaFirst
  <1>5. LoneOK'
    BY DEF UpdaterInv, DropTrigger, Goes, LoneOK, AloneIs, Alone
  <1>6. EndOK'
    BY DEF UpdaterInv, TypeOK, DropTrigger, Goes, EndOK, InPlace, Closing
  <1>7. QED
    BY <1>1, <1>2, <1>3, <1>4, <1>5, <1>6 DEF UpdaterInv

\* A trigger that is created leaves the list.
LEMMA CreateTriggerStep ==
    ASSUME UpdaterInv, NEW c \in Client, First(todo[c]) \notin triggers, CreateTrigger(c)
    PROVE  UpdaterInv'
  <1>a. /\ pc[c] = "create" /\ pc' = [pc EXCEPT ![c] = "triggers"]
        /\ triggers' = triggers \cup {First(todo[c])}
        /\ todo' = [todo EXCEPT ![c] = todo[c] \ {First(todo[c])}]
        /\ UNCHANGED <<version, tables, columns, deployed, ran, current, cacheOn, began,
                       said, target, cut, refused, faults>>
    BY DEF CreateTrigger, Goes, Advance, Loop
  <1>b. First(todo[c]) \in todo[c] /\ \A j \in todo[c] : First(todo[c]) <= j
    BY <1>a, FirstIsLeast, SchemaAssumption DEF UpdaterInv, TypeOK, LoopsOK, CreateTrigger
  <1>1. TypeOK'
    BY <1>b, <1>a DEF UpdaterInv, TypeOK, Steps, LoopsOK
  <1>2. LoopsOK'
    BY <1>a DEF UpdaterInv, TypeOK, LoopsOK, Deciding, Closing, PendingUpdates
  <1>3. VersionsOK'
    BY <1>a DEF UpdaterInv, VersionsOK, Honest, Late
  <1>4. SchemaOK'
    BY <1>a DEF UpdaterInv, SchemaOK, Closing, Schema, SchemaFirst
  <1>5. LoneOK'
    BY <1>a DEF UpdaterInv, TypeOK, LoneOK, AloneIs, Alone
  <1>6. EndOK'
    BY <1>a DEF UpdaterInv, EndOK, InPlace, Closing
  <1>7. QED
    BY <1>1, <1>2, <1>3, <1>4, <1>5, <1>6 DEF UpdaterInv

\* With no trigger left, each is there or about to be created by another client.
LEMMA TriggersDoneStep ==
    ASSUME UpdaterInv, NEW c \in Client, TriggersDone(c)
    PROVE  UpdaterInv'
  <1>1. TypeOK'
    BY DEF UpdaterInv, TypeOK, TriggersDone, Goes, database, Steps
  <1>2. LoopsOK'
    BY DEF UpdaterInv, TriggersDone, Goes, LoopsOK, Deciding, Closing, PendingUpdates
  <1>3. VersionsOK'
    BY DEF UpdaterInv, TriggersDone, Goes, database, VersionsOK, Honest, Late
  <1>4. SchemaOK'
    BY DEF UpdaterInv, TriggersDone, Goes, database, SchemaOK, Closing, Schema, SchemaFirst
  <1>5. LoneOK'
    BY DEF UpdaterInv, TriggersDone, Goes, database, LoneOK, AloneIs, Alone
  <1>6. EndOK'
    BY DEF UpdaterInv, TriggersDone, Goes, database, EndOK, InPlace, Closing
  <1>7. QED
    BY <1>1, <1>2, <1>3, <1>4, <1>5, <1>6 DEF UpdaterInv

\* The version goes up to the target, and the last client to leave leaves all complete.
LEMMA BumpStep ==
    ASSUME UpdaterInv, NEW c \in Client, Bump(c)
    PROVE  UpdaterInv'
  <1>1. TypeOK'
    BY VersionAssumption DEF UpdaterInv, TypeOK, Bump, Goes, Steps
  <1>2. LoopsOK'
    BY DEF UpdaterInv, TypeOK, Bump, Goes, LoopsOK, Deciding, Closing, PendingUpdates
  <1>3. VersionsOK'
    BY DEF UpdaterInv, Bump, Goes, VersionsOK, Honest, Late
  <1>4. SchemaOK'
    BY DEF UpdaterInv, Bump, Goes, SchemaOK, Closing, Schema, SchemaFirst
  <1>5. LoneOK'
    BY VersionAssumption, SchemaAssumption DEF UpdaterInv, TypeOK, Bump, Goes, LoneOK, AloneIs,
       Alone
  <1>6. EndOK'
    <2>1. UNCHANGED <<triggers, deployed, todo, cut>>
          /\ pc[c] = "bump" /\ pc' = [pc EXCEPT ![c] = "done"]
      BY DEF Bump, Goes
    <2>2. ASSUME ~cut, ~ \E d \in Client : pc'[d] \in Closing
          PROVE  triggers = Trigger /\ deployed = {"rules", "grants"}
      <3>1. \A d \in Client : pc[d] # "create"
        BY <2>1, <2>2 DEF UpdaterInv, TypeOK, Closing
      <3>2. Trigger \subseteq triggers
        BY <2>1, <2>2, <3>1 DEF UpdaterInv, EndOK, InPlace
      <3>3. QED
        BY <2>1, <3>2 DEF UpdaterInv, EndOK, TypeOK
    <2>3. QED
      BY <2>1, <2>2 DEF UpdaterInv, TypeOK, EndOK, InPlace
  <1>7. QED
    BY <1>1, <1>2, <1>3, <1>4, <1>5, <1>6 DEF UpdaterInv

-----------------------------------------------------------------------------
(* The properties of the specification *)

\* What a step that fails, or is one of the others, is for a client.
LEMMA StepCases ==
    ASSUME UpdaterInv, NEW c \in Client, Step(c)
    PROVE  UpdaterInv'
  <1>1. CASE CreateTable(c) /\ First(todo[c]) \in tables
    BY <1>1, FailsStep DEF CreateTable, UpdaterInv, TypeOK
  <1>2. CASE AddColumn(c) /\ First(todo[c]) \in columns
    BY <1>2, FailsStep DEF AddColumn, UpdaterInv, TypeOK
  <1>3. CASE CreateTrigger(c) /\ First(todo[c]) \in triggers
    BY <1>3, FailsStep DEF CreateTrigger, Goes, UpdaterInv, TypeOK
  <1>4. QED
    BY <1>1, <1>2, <1>3, StartStep, OutdatedStep, UpToDateStep, ListTablesStep, CreateTableStep,
       ListColumnsStep, AddColumnStep, ListScriptsStep, ExecUpdateStep, UpdateVersionStep,
       CommitStep, ScriptsDoneStep, CreateRulesStep, GrantPermissionsStep, DropTriggerStep,
       CreateTriggerStep, TriggersDoneStep, BumpStep DEF Step

\* UpdaterInv is inductive.
LEMMA NextUpdater == UpdaterInv /\ [Next]_vars => UpdaterInv'
  <1> SUFFICES ASSUME UpdaterInv, [Next]_vars PROVE UpdaterInv'
    OBVIOUS
  <1>1. CASE UNCHANGED vars
    <2>1. TypeOK' /\ LoopsOK' /\ VersionsOK'
      BY <1>1 DEF vars, database, program, UpdaterInv, TypeOK, LoopsOK, PendingUpdates,
                  VersionsOK, Honest
    <2>2. SchemaOK' /\ LoneOK' /\ EndOK'
      BY <1>1 DEF vars, database, program, UpdaterInv, SchemaOK, Schema, SchemaFirst, LoneOK,
                  Alone, AloneIs, EndOK, InPlace
    <2>3. QED
      BY <2>1, <2>2 DEF UpdaterInv
  <1>2. ASSUME NEW c \in Client, Step(c) \/ Ask(c) \/ Unreadable(c) \/ Decline(c)
        PROVE  UpdaterInv'
    BY <1>2, StepCases, AskStep, UnreadableStep, DeclineStep
  <1>3. ASSUME NEW c \in Client, Refuse(c) PROVE UpdaterInv'
    <2>1. pc[c] # "start" /\ faults' \in 0 .. MaxFault
      BY <1>3, FaultAssumption DEF Refuse, Commanding, Fault, UpdaterInv, TypeOK
    <2>2. QED
      BY <1>3, <2>1, FailsStep DEF Refuse
  <1>4. ASSUME NEW c \in Client, Restart(c) \/ Crash(c) PROVE UpdaterInv'
    <2>1. faults' \in 0 .. MaxFault
      BY <1>4, FaultAssumption DEF Restart, Crash, Fault, UpdaterInv, TypeOK
    <2>2. QED
      BY <1>4, <2>1, FreshStep DEF Restart, Crash
  <1>5. QED
    BY <1>1, <1>2, <1>3, <1>4, CommitRefusedStep DEF Next, Done

\* UpdaterInv is an invariant.
LEMMA UpdaterInvariant == Spec => []UpdaterInv
  BY InitUpdater, NextUpdater, PTL DEF Spec

\* Every reachable state of the updates is of its type.
THEOREM TypeCorrect == Spec => []TypeOK
  <1>1. UpdaterInv => TypeOK
    BY DEF UpdaterInv
  <1>2. QED
    BY <1>1, UpdaterInvariant, PTL

\* A database of some version has the effects of every script up to it but those
\* reported as done without effect, however many clients with different views of
\* it update it.
THEOREM VersionIsHonest == Spec => []VersionHonest
  <1>1. UpdaterInv => VersionHonest
    BY DEF UpdaterInv, VersionsOK, Honest, VersionHonest
  <1>2. QED
    BY <1>1, UpdaterInvariant, PTL

\* No new version is seen before the tables and columns it needs.
THEOREM SchemaComesFirst == Spec => []SchemaFirst
  <1>1. UpdaterInv => SchemaFirst
    BY DEF UpdaterInv, SchemaOK
  <1>2. QED
    BY <1>1, UpdaterInvariant, PTL

\* A set of at most one element has no two of them.
LEMMA AtMostOneElement ==
    ASSUME NEW S, IsFiniteSet(S), Cardinality(S) <= 1
    PROVE  \A x, y \in S : x = y
  <1>1. CASE Cardinality(S) = 0
    BY <1>1, FS_EmptySet
  <1>2. CASE Cardinality(S) = 1
    BY <1>2, FS_Singleton
  <1>3. QED
    BY <1>1, <1>2, FS_CardinalityType

\* A lone client commits no script twice, whatever fails and however often it
\* is started again.
THEOREM ScriptsRunOnce == Spec => []ScriptsOnce
  <1>1. UpdaterInv => ScriptsOnce
    <2> SUFFICES ASSUME UpdaterInv, Cardinality(began) <= 1
                 PROVE  \A v \in Script : ran[v] <= 1
      BY DEF ScriptsOnce
    <2>1. Alone
      BY AtMostOneElement DEF UpdaterInv, LoneOK, Alone
    <2>2. QED
      BY <2>1 DEF UpdaterInv, LoneOK
  <1>2. QED
    BY <1>1, UpdaterInvariant, PTL

\* Clients that stopped leave a complete schema of the target version but for
\* the scripts reported as done without effect, unless one of them ended on the
\* way from the scripts to the last step.
THEOREM CompleteIfUncut == Spec => []CompleteUnlessCut
  <1>1. UpdaterInv => CompleteUnlessCut
    <2> SUFFICES ASSUME UpdaterInv, Old < target, version = target, ~cut,
                        \A c \in Client :
                            pc[c] \in {"start", "done", "upToDate", "failed", "declined"}
                 PROVE  Deployed /\ VersionHonest
      BY DEF CompleteUnlessCut
    <2>1. tables = Table /\ columns = Column
      BY DEF UpdaterInv, SchemaOK, SchemaFirst
    <2>2. \A c \in Client : pc[c] \notin Closing
      BY DEF Closing
    <2>3. triggers = Trigger /\ deployed = {"rules", "grants"}
      BY <2>2 DEF UpdaterInv, EndOK
    <2>4. VersionHonest
      BY DEF UpdaterInv, VersionsOK, Honest, VersionHonest
    <2>5. QED
      BY <2>1, <2>3, <2>4 DEF Deployed
  <1>2. QED
    BY <1>1, UpdaterInvariant, PTL

\* What an interrupted update left behind does not make a lone client fail.
THEOREM RerunsSucceed == Spec => RerunSucceeds
  <1> DEFINE Excused == \A c \in Client :
                           began = {c} /\ pc[c] # "failed" /\ pc'[c] = "failed"
                               => faults' = faults + 1
  <1>1. UpdaterInv /\ [Next]_vars => [Excused]_vars
    <2> SUFFICES ASSUME UpdaterInv, Next, NEW c \in Client,
                        began = {c}, pc[c] # "failed", pc'[c] = "failed"
                 PROVE  faults' = faults + 1
      BY DEF vars
    <2>1. \A d \in Client : pc[d] # "start" => d = c
      BY DEF UpdaterInv, LoneOK
    <2>2. AloneIs(c)
      BY DEF AloneIs
    <2>3. PICK d \in Client : Step(d) \/ Ask(d) \/ Unreadable(d) \/ Decline(d) \/ Refuse(d)
                              \/ CommitRefused(d) \/ Restart(d) \/ Crash(d)
      BY DEF Next, Done, vars, program
    <2>4. CASE Refuse(d) \/ CommitRefused(d)
      BY <2>4 DEF Refuse, CommitRefused, Fault
    <2>5. CASE Ask(d) \/ Unreadable(d) \/ Decline(d) \/ Restart(d) \/ Crash(d)
      BY <2>5 DEF Ask, Unreadable, Decline, Restart, Crash, Fresh, Goes, UpdaterInv, TypeOK
    <2>6. CASE CreateTable(d)
      <3>1. First(todo[d]) \notin tables
        <4>1. d = c /\ todo[c] \cap tables = {} /\ todo[c] # {} /\ todo[c] \subseteq Nat
          BY <2>1, <2>2, <2>6, SchemaAssumption DEF CreateTable, UpdaterInv, LoneOK, LoopsOK
        <4>2. First(todo[c]) \in todo[c]
          BY <4>1, FirstIsLeast
        <4>3. QED
          BY <4>1, <4>2
      <3>2. QED
        BY <2>6, <3>1 DEF CreateTable
    <2>7. CASE AddColumn(d)
      <3>1. First(todo[d]) \notin columns
        <4>1. d = c /\ todo[c] \cap columns = {} /\ todo[c] # {} /\ todo[c] \subseteq Nat
          BY <2>1, <2>2, <2>7, SchemaAssumption DEF AddColumn, UpdaterInv, LoneOK, LoopsOK
        <4>2. First(todo[c]) \in todo[c]
          BY <4>1, FirstIsLeast
        <4>3. QED
          BY <4>1, <4>2
      <3>2. QED
        BY <2>7, <3>1 DEF AddColumn
    <2>8. CASE CreateTrigger(d)
      <3>1. d = c /\ First(todo[d]) \notin triggers
        BY <2>1, <2>2, <2>8 DEF CreateTrigger, Goes, UpdaterInv, LoneOK
      <3>2. QED
        BY <2>8, <3>1 DEF CreateTrigger, Goes, UpdaterInv, TypeOK
    <2>9. CASE Step(d) /\ ~ (CreateTable(d) \/ AddColumn(d) \/ CreateTrigger(d))
      BY <2>9 DEF Step, Start, Outdated, UpToDate, ListTables, ListColumns, ListScripts, ExecUpdate,
                  UpdateVersion, Commit, ScriptsDone, CreateRules, GrantPermissions, Deploy,
                  DropTrigger, TriggersDone, Bump, Goes, UpdaterInv, TypeOK
    <2>10. QED
      BY <2>3, <2>4, <2>5, <2>6, <2>7, <2>8, <2>9
  <1>2. QED
    BY <1>1, UpdaterInvariant, PTL DEF Spec, RerunSucceeds

-----------------------------------------------------------------------------
(* Updates come to an end, and not short of the target *)

\* A client that is not started again.
Finished(c) == pc[c] = "done" \/ (pc[c] = "upToDate" /\ current[c] >= 0)

\* Behind a database short of the target is a client that knows and goes on, or
\* the target's script passed for done.
NoneShort ==
    Client # {} => \/ version = target \/ target \in refused
                   \/ \E c \in Client : ~Finished(c) /\ current[c] < target

\* With one client the version never goes back; with two, one that listed its
\* scripts long ago may set it back for a while.
VersionRises == [][Cardinality(began) <= 1 => version <= version']_vars

\* The way of a client through execUpdates: its stages, the last ones being
\* its ends, and the steps of one turn of a loop.
Stage == [start |-> 0, check |-> 1, confirm |-> 2, tables |-> 3, columns |-> 4,
          scripts |-> 5, version |-> 5, commit |-> 5, rules |-> 6, grants |-> 7,
          triggers |-> 8, create |-> 8, bump |-> 9,
          done |-> 10, upToDate |-> 10, failed |-> 10, declined |-> 10]

Turns == {<<"scripts", "version">>, <<"version", "commit">>, <<"triggers", "create">>}

\* A client is further on its way than before the step.
Further(c) ==
    \/ Stage[pc[c]] < Stage[pc'[c]]
    \/ /\ Stage[pc[c]] = Stage[pc'[c]]
       /\ \/ todo'[c] \subseteq todo[c] /\ todo'[c] # todo[c]
          \/ todo'[c] = todo[c] /\ <<pc[c], pc'[c]>> \in Turns

\* Every step of execUpdates brings its client further, and nothing brings one
\* back but its being started again, after an error or for one of the faults.
RunsAdvance ==
    [][\A c \in Client :
         /\ Step(c) => Further(c)
         /\ \/ pc'[c] = pc[c] /\ todo'[c] = todo[c]
            \/ Further(c)
            \/ pc'[c] = "start" /\ (Restart(c) \/ faults' = faults + 1)]_vars

\* What a client has left of a loop shrinks with every turn.
LEMMA Advances ==
    ASSUME UpdaterInv, NEW c \in Client, todo[c] # {},
           pc[c] \in {"tables", "columns", "commit", "create"}, Advance(c)
    PROVE  todo'[c] \subseteq todo[c] /\ todo'[c] # todo[c]
  <1>1. todo[c] \subseteq Nat
    BY SchemaAssumption DEF UpdaterInv, TypeOK
  <1>2. First(todo[c]) \in todo[c]
    BY <1>1, FirstIsLeast
  <1>3. todo'[c] = todo[c] \ {First(todo[c])}
    BY DEF Advance, Loop, UpdaterInv, TypeOK
  <1>4. QED
    BY <1>2, <1>3

\* A client whose place is another one goes from its stage to that one's.
LEMMA Climbs ==
    ASSUME UpdaterInv, NEW c \in Client, NEW to \in Steps, pc' = [pc EXCEPT ![c] = to],
           Stage[pc[c]] < Stage[to]
    PROVE  Further(c)
  BY DEF UpdaterInv, TypeOK, Further

LEMMA FailsFurther ==
    ASSUME UpdaterInv, NEW c \in Client, Fails(c),
           pc[c] \notin {"done", "upToDate", "failed", "declined"}
    PROVE  Further(c)
  <1>1. Stage[pc[c]] < Stage["failed"]
    BY DEF UpdaterInv, TypeOK, Steps, Stage
  <1>2. QED
    BY <1>1, Climbs DEF Fails, Steps

\* The steps that take a client from one stage to the next.
LEMMA StagesFurther ==
    ASSUME UpdaterInv, NEW c \in Client,
           \/ Start(c) \/ Outdated(c) \/ UpToDate(c) \/ ListTables(c) \/ ListColumns(c)
           \/ ListScripts(c) \/ ScriptsDone(c) \/ CreateRules(c) \/ GrantPermissions(c)
           \/ TriggersDone(c) \/ Bump(c) \/ Unreadable(c) \/ Decline(c)
    PROVE  Further(c)
  <1>1. ASSUME NEW from \in Steps, NEW to \in Steps, Goes(c, from, to), Stage[from] < Stage[to]
        PROVE  Further(c)
    BY <1>1, Climbs DEF Goes
  <1>2. /\ Stage["start"] < Stage["check"] /\ Stage["check"] < Stage["confirm"]
        /\ Stage["check"] < Stage["upToDate"] /\ Stage["confirm"] < Stage["tables"]
        /\ Stage["tables"] < Stage["columns"] /\ Stage["columns"] < Stage["scripts"]
        /\ Stage["scripts"] < Stage["rules"] /\ Stage["rules"] < Stage["grants"]
        /\ Stage["grants"] < Stage["triggers"] /\ Stage["triggers"] < Stage["bump"]
        /\ Stage["bump"] < Stage["done"] /\ Stage["confirm"] < Stage["declined"]
    BY DEF Stage
  <1>3. CASE Start(c) \/ Outdated(c) \/ UpToDate(c) \/ Unreadable(c) \/ Decline(c)
    BY <1>1, <1>2, <1>3 DEF Start, Outdated, UpToDate, Unreadable, Decline, Steps
  <1>4. CASE ListTables(c) \/ ListColumns(c) \/ ListScripts(c) \/ ScriptsDone(c)
    BY <1>1, <1>2, <1>4 DEF ListTables, ListColumns, ListScripts, ScriptsDone, Steps
  <1>5. CASE CreateRules(c) \/ GrantPermissions(c) \/ TriggersDone(c) \/ Bump(c)
    BY <1>1, <1>2, <1>5 DEF CreateRules, GrantPermissions, Deploy, TriggersDone, Bump, Steps
  <1>6. QED
    BY <1>3, <1>4, <1>5

\* The steps of the loops.
LEMMA LoopsFurther ==
    ASSUME UpdaterInv, NEW c \in Client,
           \/ CreateTable(c) \/ AddColumn(c) \/ ExecUpdate(c) \/ UpdateVersion(c) \/ Commit(c)
           \/ DropTrigger(c) \/ CreateTrigger(c)
    PROVE  Further(c)
  <1>1. TypeOK /\ LoopsOK
    BY DEF UpdaterInv
  <1>2. CASE CreateTable(c)
    <2>1. CASE Fails(c)
      BY <1>2, <2>1, FailsFurther DEF CreateTable
    <2>2. CASE Advance(c) /\ UNCHANGED pc
      BY <1>2, <2>2, Advances DEF CreateTable, Further
    <2>3. QED
      BY <1>2, <2>1, <2>2 DEF CreateTable
  <1>3. CASE AddColumn(c)
    <2>1. CASE Fails(c)
      BY <1>3, <2>1, FailsFurther DEF AddColumn
    <2>2. CASE Advance(c) /\ UNCHANGED pc
      BY <1>3, <2>2, Advances DEF AddColumn, Further
    <2>3. QED
      BY <1>3, <2>1, <2>2 DEF AddColumn
  <1>4. ASSUME NEW from, NEW to, Goes(c, from, to), <<from, to>> \in Turns, UNCHANGED todo
        PROVE  Further(c)
    <2>1. pc[c] = from /\ pc'[c] = to
      BY <1>1, <1>4 DEF Goes, TypeOK
    <2>2. Stage[from] = Stage[to]
      BY <1>4 DEF Turns, Stage
    <2>3. QED
      BY <1>4, <2>1, <2>2 DEF Further
  <1>5. CASE ExecUpdate(c) \/ UpdateVersion(c) \/ DropTrigger(c)
    BY <1>4, <1>5 DEF ExecUpdate, UpdateVersion, DropTrigger, Turns
  <1>6. ASSUME NEW from, NEW to, Goes(c, from, to), Advance(c),
               <<from, to>> \in {<<"commit", "scripts">>, <<"create", "triggers">>}
        PROVE  Further(c)
    <2>1. pc[c] = from /\ pc'[c] = to
      BY <1>1, <1>6 DEF Goes, TypeOK
    <2>2. Stage[from] = Stage[to]
      BY <1>6 DEF Stage
    <2>3. todo[c] # {}
      BY <1>1, <1>6, <2>1 DEF LoopsOK
    <2>4. QED
      BY <1>6, <2>1, <2>2, <2>3, Advances DEF Further
  <1>7. CASE Commit(c)
    BY <1>6, <1>7 DEF Commit
  <1>8. CASE CreateTrigger(c)
    <2>1. CASE Fails(c) /\ pc[c] = "create"
      BY <2>1, FailsFurther
    <2>2. CASE Goes(c, "create", "triggers") /\ Advance(c)
      BY <1>6, <2>2
    <2>3. QED
      BY <1>8, <2>1, <2>2 DEF CreateTrigger
  <1>9. QED
    BY <1>2, <1>3, <1>5, <1>7, <1>8

\* A script that passes for done is behind its client.
LEMMA CommitRefusedFurther ==
    ASSUME UpdaterInv, NEW c \in Client, CommitRefused(c)
    PROVE  Further(c)
  <1>1. CASE Fails(c)
    BY <1>1, FailsFurther DEF CommitRefused
  <1>2. CASE Goes(c, "commit", "scripts") /\ Advance(c)
    <2>1. pc[c] = "commit" /\ pc'[c] = "scripts" /\ todo[c] # {}
      BY <1>2 DEF Goes, UpdaterInv, TypeOK, LoopsOK
    <2>2. Stage["commit"] = Stage["scripts"]
      BY DEF Stage
    <2>3. QED
      BY <1>2, <2>1, <2>2, Advances DEF Further
  <1>3. QED
    BY <1>1, <1>2 DEF CommitRefused

\* A client only moves itself.
LEMMA OthersStay ==
    ASSUME UpdaterInv, NEW c \in Client, NEW d \in Client, d # c,
           \/ Step(c) \/ Ask(c) \/ Unreadable(c) \/ Decline(c) \/ Refuse(c)
           \/ CommitRefused(c) \/ Restart(c) \/ Crash(c)
    PROVE  pc'[d] = pc[d] /\ todo'[d] = todo[d] /\ current'[d] = current[d]
  <1>1. TypeOK
    BY DEF UpdaterInv
  <1>2. CASE \/ Ask(c) \/ Unreadable(c) \/ Decline(c) \/ Refuse(c) \/ CommitRefused(c)
             \/ Restart(c) \/ Crash(c)
    BY <1>1, <1>2 DEF TypeOK, Ask, Unreadable, Decline, Refuse, CommitRefused, Restart, Crash,
                      Fails, Fresh, Goes, Advance, Loop
  <1>3. CASE \/ Start(c) \/ Outdated(c) \/ UpToDate(c) \/ ListTables(c) \/ CreateTable(c)
             \/ ListColumns(c) \/ AddColumn(c) \/ ListScripts(c) \/ ExecUpdate(c)
    BY <1>1, <1>3 DEF TypeOK, Start, Outdated, UpToDate, ListTables, CreateTable, ListColumns,
                      AddColumn, ListScripts, ExecUpdate, Fails, Goes, Advance, Loop
  <1>4. CASE \/ UpdateVersion(c) \/ Commit(c) \/ ScriptsDone(c) \/ CreateRules(c)
             \/ GrantPermissions(c) \/ DropTrigger(c) \/ CreateTrigger(c) \/ TriggersDone(c)
             \/ Bump(c)
    BY <1>1, <1>4 DEF TypeOK, UpdateVersion, Commit, ScriptsDone, CreateRules, GrantPermissions,
                      Deploy, DropTrigger, CreateTrigger, TriggersDone, Bump, Fails, Goes,
                      Advance, Loop
  <1>5. QED
    BY <1>2, <1>3, <1>4 DEF Step

\* A run of execUpdates makes progress with each of its steps, whatever the other
\* clients do: with a finite schema it comes to an end, and it is started again
\* only after it ended early.
THEOREM RunsComeToAnEnd == Spec => RunsAdvance
  <1> DEFINE A == \A c \in Client :
                     /\ Step(c) => Further(c)
                     /\ \/ pc'[c] = pc[c] /\ todo'[c] = todo[c]
                        \/ Further(c)
                        \/ pc'[c] = "start" /\ (Restart(c) \/ faults' = faults + 1)
  <1>1. UpdaterInv /\ [Next]_vars => A
    <2> DEFINE Onward(c) ==
                   \/ pc'[c] = pc[c] /\ todo'[c] = todo[c]
                   \/ Further(c)
                   \/ pc'[c] = "start" /\ (Restart(c) \/ faults' = faults + 1)
    <2> SUFFICES ASSUME UpdaterInv, [Next]_vars, NEW c \in Client
                 PROVE  (Step(c) => Further(c)) /\ Onward(c)
      OBVIOUS
    <2>1. Step(c) => Further(c)
      BY StagesFurther, LoopsFurther DEF Step
    <2>2. ASSUME NEW d \in Client,
                 \/ Step(d) \/ Ask(d) \/ Unreadable(d) \/ Decline(d) \/ Refuse(d)
                 \/ CommitRefused(d) \/ Restart(d) \/ Crash(d)
          PROVE  Onward(c)
      <3>1. CASE d # c
        BY <2>2, <3>1, OthersStay
      <3>2. CASE d = c /\ Ask(c)
        BY <3>2 DEF Ask
      <3>3. CASE d = c /\ (Unreadable(c) \/ Decline(c))
        BY <3>3, StagesFurther
      <3>4. CASE d = c /\ Refuse(c)
        BY <3>4, FailsFurther DEF Refuse, Commanding
      <3>5. CASE d = c /\ (Restart(c) \/ Crash(c))
        BY <3>5 DEF Restart, Crash, Fresh, Fault, UpdaterInv, TypeOK
      <3>6. CASE d = c /\ CommitRefused(c)
        BY <3>6, CommitRefusedFurther
      <3>7. QED
        BY <2>1, <2>2, <3>1, <3>2, <3>3, <3>4, <3>5, <3>6
    <2>3. CASE UNCHANGED vars
      BY <2>1, <2>3 DEF vars, program
    <2>4. QED
      BY <2>1, <2>2, <2>3 DEF Next, Done
  <1>2. QED
    BY <1>1, UpdaterInvariant, PTL DEF Spec, RunsAdvance

\* No step of one client leaves the database short of the target with nobody
\* at work on it.
LEMMA StepNoneShort ==
    ASSUME UpdaterInv, NoneShort, NEW c \in Client,
           \/ Step(c) \/ Ask(c) \/ Unreadable(c) \/ Decline(c) \/ Refuse(c)
           \/ CommitRefused(c) \/ Restart(c) \/ Crash(c)
    PROVE  NoneShort'
  <1>1. TypeOK
    BY DEF UpdaterInv
  <1>2. /\ target \in Nat /\ version \in Nat /\ current[c] \in Int
        /\ target' = target /\ refused \subseteq refused'
    <2>1. target' = target /\ refused \subseteq refused'
      BY DEF Step, Start, Outdated, UpToDate, ListTables, CreateTable, ListColumns, AddColumn,
             ListScripts, ExecUpdate, UpdateVersion, Commit, ScriptsDone, CreateRules,
             GrantPermissions, Deploy, DropTrigger, CreateTrigger, TriggersDone, Bump, Ask,
             Unreadable, Decline, Refuse, CommitRefused, Restart, Crash, Fails, Fresh
    <2>2. QED
      BY <1>1, <2>1, VersionAssumption DEF TypeOK
  <1>3. Client # {}
    OBVIOUS
  <1>4. ASSUME NEW d \in Client, d # c, ~Finished(d), current[d] < target
        PROVE  ~Finished(d)' /\ current'[d] < target'
    BY <1>2, <1>4, OthersStay DEF Finished
  <1>5. ASSUME version' = version,
               ~Finished(c) /\ current[c] < target /\ version # target
                   => ~Finished(c)' /\ current'[c] < target'
        PROVE  NoneShort'
    BY <1>2, <1>3, <1>4, <1>5 DEF NoneShort
  <1>6. ASSUME version' = version, current'[c] = current[c],
               pc'[c] \in Steps \ {"done", "upToDate"} \/ (current[c] < 0 /\ pc'[c] # "done")
        PROVE  NoneShort'
    BY <1>2, <1>5, <1>6 DEF Finished
  <1>7. CASE Ask(c) \/ Outdated(c)
    <2>1. pc'[c] \in {"start", "confirm"} /\ version' = version
          /\ (current'[c] = version \/ current'[c] = current[c])
      BY <1>1, <1>7 DEF TypeOK, Ask, Outdated, Goes, VersionSeen, database
    <2>2. version <= target
      BY <1>1 DEF TypeOK
    <2>3. QED
      BY <1>2, <1>5, <2>1, <2>2 DEF Finished
  <1>8. CASE UpToDate(c)
    <2>1. version' = version /\ (current[c] < target => version >= target)
      BY <1>2, <1>8 DEF UpToDate, VersionSeen, database
    <2>2. version <= target
      BY <1>1 DEF TypeOK
    <2>3. QED
      BY <1>2, <1>5, <2>1, <2>2
  <1>9. CASE Unreadable(c)
    BY <1>1, <1>6, <1>9 DEF TypeOK, Unreadable, Goes, database
  <1>10. CASE Restart(c) \/ Crash(c)
    <2>1. pc'[c] = "start" /\ current'[c] = -1 /\ version' = version
      BY <1>1, <1>10 DEF TypeOK, Restart, Crash, Fresh, database
    <2>2. QED
      BY <1>2, <1>5, <2>1, VersionAssumption DEF Finished
  <1>11. CASE \/ Start(c) \/ Decline(c) \/ Refuse(c) \/ ListTables(c) \/ CreateTable(c)
              \/ ListColumns(c) \/ AddColumn(c) \/ ListScripts(c) \/ ExecUpdate(c)
    <2>1. version' = version /\ current' = current
      BY <1>11 DEF Start, Decline, Refuse, ListTables, CreateTable, ListColumns, AddColumn,
                   ListScripts, ExecUpdate, Fails, database
    <2>2. pc'[c] \in Steps \ {"done", "upToDate"}
      BY <1>1, <1>11
         DEF TypeOK, Start, Decline, Refuse, ListTables, CreateTable, ListColumns, AddColumn,
             ListScripts, ExecUpdate, Fails, Goes, Steps
    <2>3. QED
      BY <1>6, <2>1, <2>2
  <1>12. CASE \/ UpdateVersion(c) \/ ScriptsDone(c) \/ CreateRules(c) \/ GrantPermissions(c)
              \/ DropTrigger(c) \/ CreateTrigger(c) \/ TriggersDone(c)
    <2>1. version' = version /\ current' = current
      BY <1>12 DEF UpdateVersion, ScriptsDone, CreateRules, GrantPermissions, Deploy, DropTrigger,
                   CreateTrigger, TriggersDone, Fails, database
    <2>2. pc'[c] \in Steps \ {"done", "upToDate"}
      BY <1>1, <1>12
         DEF TypeOK, UpdateVersion, ScriptsDone, CreateRules, GrantPermissions, Deploy, DropTrigger,
             CreateTrigger, TriggersDone, Fails, Goes, Steps
    <2>3. QED
      BY <1>6, <2>1, <2>2
  <1>13. CASE Commit(c)
    <2> DEFINE v == First(todo[c])
    <2>1. pc'[c] = "scripts" /\ version' = v /\ current'[c] = v
      BY <1>1, <1>13 DEF TypeOK, Commit, Goes
    <2>2. v \in PendingUpdates(c)
      <3>1. todo[c] = PendingUpdates(c) /\ todo[c] # {} /\ todo[c] \subseteq Nat
        BY <1>13, SchemaAssumption DEF UpdaterInv, LoopsOK, PendingUpdates, Commit, Goes
      <3>2. QED
        BY <3>1, FirstIsLeast
    <2>3. v \in Nat /\ v <= target
      BY <2>2, SchemaAssumption DEF PendingUpdates
    <2>4. CASE v = target
      BY <1>2, <2>1, <2>4 DEF NoneShort
    <2>5. CASE v < target
      <3>1. ~Finished(c)' /\ current'[c] < target'
        BY <1>2, <2>1, <2>5 DEF Finished
      <3>2. QED
        BY <3>1 DEF NoneShort
    <2>6. QED
      BY <1>2, <2>3, <2>4, <2>5
  <1>14. CASE Bump(c)
    <2>1. CASE current[c] < target
      BY <1>2, <1>14, <2>1 DEF Bump, NoneShort
    <2>2. CASE ~(current[c] < target)
      BY <1>5, <1>14, <2>2 DEF Bump
    <2>3. QED
      BY <2>1, <2>2
  <1>15. CASE CommitRefused(c)
    <2> DEFINE v == First(todo[c])
    <2>1. CASE Fails(c)
      <3>1. version' = version /\ current' = current /\ pc'[c] \in Steps \ {"done", "upToDate"}
        BY <1>1, <2>1 DEF TypeOK, Fails, Steps, database
      <3>2. QED
        BY <1>6, <3>1
    <2>2. CASE /\ pc[c] = "commit" /\ pc'[c] = "scripts" /\ version' = version
               /\ current'[c] = v /\ v \in refused'
      <3>1. v \in PendingUpdates(c)
        <4>1. todo[c] = PendingUpdates(c) /\ todo[c] # {} /\ todo[c] \subseteq Nat
          BY <2>2, SchemaAssumption DEF UpdaterInv, LoopsOK, PendingUpdates
        <4>2. QED
          BY <4>1, FirstIsLeast
      <3>2. v \in Nat /\ v <= target
        BY <3>1, SchemaAssumption DEF PendingUpdates
      <3>3. CASE v = target
        BY <1>2, <2>2, <3>3 DEF NoneShort
      <3>4. CASE v < target
        BY <1>2, <1>5, <2>2, <3>4 DEF Finished
      <3>5. QED
        BY <1>2, <3>2, <3>3, <3>4
    <2>3. QED
      BY <1>1, <1>15, <2>1, <2>2 DEF CommitRefused, TypeOK, Goes, database
  <1>16. QED
    BY <1>7, <1>8, <1>9, <1>10, <1>11, <1>12, <1>13, <1>14, <1>15 DEF Step

\* Updates do not end short of the target: when every client has ended for good
\* the database is of the target version, also where one with an older view of it
\* set it back on the way; unless the COMMIT of the target's own script took no
\* effect, which is the one way for an updater to take itself for further than
\* the database.
THEOREM NoUpdateEndsShort ==
    Spec => [](Client # {} /\ (\A c \in Client : Finished(c))
               => version = target \/ target \in refused)
  <1>1. Init => NoneShort
    BY VersionAssumption DEF Init, NoneShort, Finished
  <1>2. UpdaterInv /\ NoneShort /\ [Next]_vars => NoneShort'
    <2>1. CASE UNCHANGED vars
      BY <2>1 DEF vars, database, program, NoneShort, Finished
    <2>2. QED
      BY <2>1, StepNoneShort DEF Next, Done
  <1>3. NoneShort => (Client # {} /\ (\A c \in Client : Finished(c))
                      => version = target \/ target \in refused)
    BY DEF NoneShort
  <1>4. QED
    BY <1>1, <1>2, <1>3, UpdaterInvariant, PTL DEF Spec

\* As long as one client alone has updated the database its version only rises.
THEOREM VersionsRise == Spec => VersionRises
  <1> DEFINE A == Cardinality(began) <= 1 => version <= version'
  <1>1. UpdaterInv /\ [Next]_vars => A
    <2> SUFFICES ASSUME UpdaterInv, [Next]_vars, Cardinality(began) <= 1
                 PROVE  version <= version'
      OBVIOUS
    <2>1. TypeOK /\ version \in Nat /\ target \in Nat
      BY VersionAssumption DEF UpdaterInv, TypeOK
    <2>2. Alone
      BY AtMostOneElement DEF UpdaterInv, LoneOK, Alone
    <2>3. ASSUME NEW c \in Client, Commit(c) PROVE version <= version'
      <3>1. todo[c] = PendingUpdates(c) /\ todo[c] # {} /\ todo[c] \subseteq Nat /\ pc[c] = "commit"
        BY <2>3, SchemaAssumption DEF UpdaterInv, LoopsOK, PendingUpdates, Commit, Goes
      <3>2. version' \in PendingUpdates(c)
        BY <2>3, <3>1, FirstIsLeast DEF Commit
      <3>3. AloneIs(c) /\ current[c] >= 0
        BY <2>2, <3>1 DEF UpdaterInv, LoneOK, LoopsOK, Alone, AloneIs, Deciding, Closing
      <3>4. version <= current[c] /\ current[c] \in Int
        BY <3>3 DEF UpdaterInv, TypeOK, LoneOK
      <3>5. QED
        BY <2>1, <3>2, <3>4, SchemaAssumption DEF PendingUpdates
    <2>4. ASSUME NEW c \in Client, Bump(c) PROVE version <= version'
      BY <2>1, <2>4 DEF Bump, TypeOK
    <2>5. ASSUME NEW c \in Client,
                 \/ Step(c) /\ ~Commit(c) /\ ~Bump(c)
                 \/ Ask(c) \/ Unreadable(c) \/ Decline(c) \/ Refuse(c) \/ CommitRefused(c)
                 \/ Restart(c) \/ Crash(c)
          PROVE  version' = version
      BY <2>5 DEF Step, Start, Outdated, UpToDate, ListTables, CreateTable, ListColumns, AddColumn,
             ListScripts, ExecUpdate, UpdateVersion, ScriptsDone, CreateRules,
             GrantPermissions, Deploy, DropTrigger, CreateTrigger, TriggersDone, Ask,
             Unreadable, Decline, Refuse, CommitRefused, Restart, Crash, Fails, Fresh, database
    <2>6. CASE UNCHANGED vars
      BY <2>1, <2>6 DEF vars, database
    <2>7. QED
      BY <2>1, <2>3, <2>4, <2>5, <2>6 DEF Next, Done
  <1>2. QED
    BY <1>1, UpdaterInvariant, PTL DEF Spec, VersionRises
================================================================================
