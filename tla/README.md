# Formal models of sqlate

sqlate is a C++ library over Qt's SQL module for programs that work with a
PostgreSQL database: typed schemas and statements, query builders, transactions
that nest, queries that survive a lost connection, notifications of changed
tables, and the deployment and update of schemas.  This directory holds TLA+
models of it, the TLC configurations that check them, and TLAPS proofs about the
transactions, the queries with their registry and cache, the monitors, the network
watcher, schema deployment and updates, expressions, query builders and scripts.  Every definition follows the sources in
`../src`; `PROJECT.json` names the lines each one stands for.

    tlc -workers 2 -config MCSqlTransaction_main.cfg MCSqlTransaction
    tlapm SqlTransactionProofs.tla

## The system

| component | sources | state | operations | modules |
|---|---|---|---|---|
| transactions | `SqlTransaction.*` | `m_refCounts`, a static count per connection name; `m_disarmed` of each object; the server's transaction | constructor, `commit`, `rollback`, destructor | `SqlTransaction`, `AtomicUnits`, `SqlTransactionProofs` |
| queries, their registry, their cache | `SqlQuery.*`, `SqlQueryManager.*`, `SqlQueryCache.*` | the registered queries and monitors, two mutexes, the hash of cached queries and its flag, the driver's session | construct, prepare, bind, exec, destroy, `setEnabled`, `checkDbIsAlive` | `SqlQueryManager`, `SqlQueryManagerProofs` |
| monitors | `SqlMonitor.*` | tables and rows of each monitor, the driver's subscriptions, what the session listens to | `setMonitorTables`, `addValueMonitor`, `unsubscribe...`, `resubscribe`, `notificationReceived` | `SqlMonitor`, `SqlMonitorProofs` |
| network watcher | `SqlQueryWatcher.*`, `kdthreadrunner.*` | a helper thread, timer and process per query; one mutex and one flag for all | start, time out, show, quit, wait | `SqlQueryWatcher`, `SqlQueryWatcherProofs` |
| query builders | `SqlQueryBuilderBase.*` and the select, insert, update, delete and conditional builders | columns, values, conditions, row locks, bound values and their offset, the assembled query | add, sort, combine, lock, assemble, invalidate | `QueryBuilders`, `StatementProofs` |
| conditions | `SqlCondition.*`, `conditionToString` | a tree of conditions, built by value | add, nest, set logic and case, write as text | `Conditions`, `TextProofs` |
| expressions | `SqlSelect.h`, `SqlInsert.h`, `SqlDelete.h` | clauses collected by value, and a type that remembers which were given | the clause methods, `queryBuilder()` | `Expressions`, `StatementProofs` |
| declarations | `SqlSchema_p.h`, `SqlSchema.*` | types: columns with flags, tables, relations, rights | the macros and templates a schema is made of, `createTableStatement` | `Declarations` |
| deployment | `SqlCreateTable.*`, `SqlCreateRule.h`, `SqlGrantPermission.h` | the database's tables, columns, rules, rights and triggers | `createTables`, `createMissingTables`, `createMissingColumns`, `createRulesPermissionsAndTriggers` | `Deployment`, `DeploymentProofs` |
| drawings | `SqlGraphviz.h` | none | `schemaToDot` | `Graphviz`, `DeploymentProofs` |
| schema updates | `SchemaUpdater.*` | the version row, what was created, which scripts ran | `needsUpdate`, `execUpdates` | `SchemaUpdater`, `SchemaUpdaterProofs` |
| scripts | `SqlUtils.*` | the script being executed | `splitQueries`, `stripComments`, `batchExec` | `SqlUtils`, `TextProofs` |

How they interact.  Every command of a query or a transaction first calls
`SqlQueryManager::checkDbIsAlive`, which on a worker thread reopens a lost
connection, clears the query cache, prepares the registered queries again and has
the monitors subscribe again; on the main thread a lost connection ends the process.
Queries register themselves in their constructors and unregister in their
destructors; the cache holds copies that register too.  Builders take their
queries from the cache.  `SchemaUpdater` switches the cache off, creates tables by the
deployment functions, and runs scripts by statements in a `SqlTransaction`;
`batchExec` does as much.  A query that is executed has a watcher beside it, if that is
built in.

What is hard: the retry of a command after a connection was reopened under a
transaction; exceptions in the middle of nested transactions; mutexes held across
destructors; subscriptions that follow the rules of transactions; two clients
updating one database; numbers given to placeholders at one time and values bound
by position at another; the several-threaded handshake of the watcher.
`PROJECT.json` lists these hazards line by line, with the properties that cover them.

## The modules

`X.tla` models a component, `MCX.tla` names the model values and definitions for
TLC, `MCX*.cfg` is a run.

**AtomicUnits** is what a program is promised: statements form units, a unit
reaches the database as a whole or not at all, and what was acknowledged is true.
`SqlTransaction` is shown to implement it with `data` as the statements in the
database and `committed` as those of units whose `commit()` returned.

**SqlTransaction** has a thread per connection (the main thread has all of
`MainConn`).  A call is in `call[c]`, first `at` "check" (`checkDbIsAlive`) and then
at "driver" (the command); after one failure it goes through both again
(`attempt` 2).  `ConstructOuter`, `CommitOuter`, `RollbackOuter`, `DestroyOuter` are
the branches for a count of zero or one, the `...Inner` actions the others.  The
database side (`server`, `pending`, `durable`, marked external) is a PostgreSQL session:
COMMIT without a transaction is answered with a warning, COMMIT of an aborted one
rolls back and fails.  `isOpen` is what the driver believes, which only a failed
command corrects.  An exception either is caught inside the transaction or unwinds all its
objects (`Catches`, `unwinding`).  `unit`, `promised`, `discarded` and `revoked` are
histories: what has succeeded since the count was zero, and what happened to it.

**SqlQueryManager** has the registry, both mutexes and the cache in one module,
because `checkDbIsAlive` works on all three under its locks.  A task goes through
`lockQueries`, `lockMonitors`, `loop`, `drop` (the destructors of the cached queries),
`prepareAgain`, `subscribe`, and then to its command.  A lock, a server command or a
query of a loop is one step each, so that other threads, and the loss of the
connection, come between.  Queries are prepared in a numbered session and run only
in that one.  Copies of a query share its result (`shares`), and with it the values bound, until one of them
is prepared again.  What `prepareWithoutCheck` returns is ignored: a query the server refuses to prepare
again is prepared in no session and executed all the same.  `ready` is what the program knows, that the
last `prepare()` did not throw.

**SqlMonitor** is the driver's and the server's view of subscriptions: LISTEN is part
of the transaction it is executed in, the driver's own list is not.  `due` holds the
monitors owed a signal for a change, with the session it happened in.

**SqlQueryWatcher** is the thread of a query, its helper's thread and the dialog's process,
for several queries, around one mutex and one flag.

**StatementParts** declares what expressions and the builders they fill have in common:
columns, values, and DEFAULT.

**QueryBuilders** abstracts a statement to its kind and the slots that take values in
textual order, and keeps bound values per statement, since copies of one cached
`QSqlQuery` share theirs.  `meant` is the history of what each slot stands for.
A select also collects the tables whose rows it locks; the clause for them is the
`tail` of its statement.  Its specification is `BuildersSpec`, so that a module may extend
this one and `Expressions`.

**Conditions** writes a condition as words (`Strings`, sub-conditions joined from left to
right), reads them back word by word with the precedence of
AND and OR and a level for each open parenthesis (`Read`), comparing by the rules of NULL,
and sets what is read (`Selects`) against what the condition
object means (`Meanings`).  Text and meaning are functions of the depth of a condition, at most
`Depth`, so that they can be reasoned about.  Its specification is `ConditionsSpec`.

**Expressions** keeps the expressions of a program's variables with the statement the
program wrote for each (`meant`).  A variable holds a SELECT, an INSERT or a DELETE; each
clause method is an operation on a value of that kind, enabled where the type of the
C++ expression has it.

**Declarations** has the columns, tables, lookup tables and relations a program declares,
as records with the flags of the macros, and `CreateTableStatement`: the clauses
the templates make of them.

**Deployment** makes the list of statements the templates generate for each version of
a declared schema and runs it, one commit each.  `step` is the statement a
deployer is at; what it leaves out depends on what it `known`: the
tables that were there when it started, then the columns of the table it looks at.  The
database refuses what exists, a reference to what is not unique, and a NOT
NULL column for a table that has rows.  `deployed` is the history the properties
speak of, and `disturbed` that another deployment ended in the middle.

**Graphviz** is the set of nodes and edges of the drawing of a schema.

**SchemaUpdater** has a `pc` per client through the steps of `execUpdates`; tables,
columns and triggers are numbers, visited in ascending order as the code does.
`target` is the version all clients want, and may lie behind the last script.  `cut`
is the history that a client ended between its scripts and its last step.  A COMMIT that takes no effect is
sent again by `SqlTransaction`, and acknowledged, unless that one fails too; the updater
goes on as if the script were done, which `refused` remembers (`CommitRefused`).

**SqlTransactionProofs**, **SqlQueryManagerProofs**, **SqlMonitorProofs**,
**SqlQueryWatcherProofs**, **DeploymentProofs** and **SchemaUpdaterProofs**
hold the theorems about the modules they are named for,
**StatementProofs** those about `Expressions` and `QueryBuilders`, **TextProofs** those about
`SqlUtils` and `Conditions`.

**SqlUtils** works on token positions: parts, comments and words are sets of positions
of the script.  That a comment is removed together with its new line, so that what stands before and behind it
are joined, is not told apart by positions.  The transaction of the script ends by a COMMIT that
may fail, before or after it took effect, and is sent again then (`resent`); by an
exception, or the end of the process, batchExec is left without a result ("lost").

Definitions named `Mutant:` in comments are plausible mistakes.  Each property of a
passing run is violated when the definition it is paired with in
`PROJECT.json` is replaced by its mutant.

## What the runs check

All but the last must pass.

| run | question | bounds |
|---|---|---|
| `txn_main` | Is what `commit()` acknowledged in the database, what was rolled back not there, a unit whole, and no statement twice?  Is AtomicUnits implemented? | one main connection, 3 objects, 2 statements, 1 loss, refused statements, lost replies, crash |
| `txn_worker` | Does the count match the live objects on every path, is a session ever left in a transaction of no object, does every call end, does an exception end its transaction? | a main and a worker connection, 2 objects, 1 statement, 2 losses, exceptions caught inside or outside |
| `query` | Is the registry exact, does a query run in the session that prepared it and with its values and those of its copies, also if preparing it again is refused, are monitors subscribed again, is the cache never stale, does every call end? | 2 threads, 3 queries, 1 monitor, 4 calls, 1 loss, and two kinds of programs |
| `update` | Do interrupted, repeated and concurrent updates, some of whose COMMITs are refused and sent again, keep the version honest, lead to the target, and leave a complete schema? | 2 clients, from version 1 to 2, 3 or 4 with scripts for 2 and 3, 2 tables, 2 columns, 1 trigger, 3 faults of four kinds |
| `build` | Does every placeholder get its value? | 3 selects, or an insert, an update or a delete; 2 values or sort columns, 1 locked table, 2 assemblies |
| `where` | Is the text readable, and does it select the rows the condition means? | 2 conditions, 3 terms, one nesting, 2 operators |
| `expr` | Does the builder get the statement that was written? | 2 variables of 3 kinds, 6 calls, 2 tables, conditions and columns |
| `deploy` | Does a completed deployment leave nothing out, are users heard from their first right on, does the drawing show the schema, and does a repeated deployment succeed? | 2 deployers, 2 versions of a schema of a lookup table, a table with rows and two relations, 2 faults |
| `monitor` | Does the session listen to every monitored table, is a change signalled? | 2 monitors, 2 tables, 1 row, 2 losses, 2 notifications under way |
| `watcher` | One dialog, no dead helper, clean return, every query returns? | 2 threads, 2 queries each, 1 failed start |
| `script` | All or nothing, and a regular script completely, unless its COMMIT was sent again? | every script of up to 7 of four tokens |
| `txn_reconnect` | Is what `commit()` acknowledged there on a worker's connection too?  **Violated**: see below. | a worker, 1 object, 1 statement, 1 loss |

What the properties say is written above each of them.  Those worth knowing first:
`PromisedDurable`, `UnitAtomic`, `UnitsImplemented`, `CountMatches`, `NoOrphan`
(transactions); `ExecFresh`, `RegistryExact`, `CallsReturn` (queries); `VersionHonest`,
`CompleteUnlessCut`, `RerunSucceeds` (updates); `Deployed`, `HeardFirst` (deployment); `AssemblyAligned`, `WhereMeant`, `StatementSays` (statements);
`OneDialog`, `VisibleIsShown` (watcher); `TablesHeard`, `ChangeSignalled` (monitors).

`TypeOK` is listed for `txn_worker` only; it holds of `QueryBuilders`, `SqlUtils`,
`SqlQueryManager` and `SqlMonitor` in their configurations too, where it can be added to
the properties, and is proved of the modules that have proofs.

### Why the bounds are enough

`MaxRetry` is 1 where the code tries ten times: the turns of the loop differ in
nothing but the counter, and one turn already gives "reopened", "not yet" and "given
up".  Transactions need three objects for an inner one between two others, and two
statements for one before and one inside it.  A second loss lets the retry of a
command meet another lost session; a third would repeat it.  Two clients or threads
show every interleaving of two; nothing in the code distinguishes a third, the
watcher was checked with three (238 000 states), and the proofs are for any number.  For placeholders two values are
one before and one behind the other; three selects allow a union of a union.  `query` was also
checked with five calls, with two losses and with four queries.  In it a program's query shares its result with
the cached one; that more copies share is left to the proof.  The second version of the deployed schema adds a column, takes a right away and
adds relations, which is each way in which the statements of two versions differ.  Bounds are constants of the modules, each with a comment,
and appear in guards only.

The runs leave out, by their `Ops`, `Faults`, `Modes`, `Programs` and `Reuse`, the cases in
which the code is known to break its promise; each is listed under Disagreements with
the way to switch it on.

### Fairness

Weak fairness stands for a thread that is not stopped by the scheduler: a call's next
step (`Step`), the destructors of an exception on its way out, a client that runs, the
two threads of a watcher.  A query that was sent returns (`QueryDone`); that a mutex is
obtained (`TimerExpired`, within `Helper`) rests on its being held for a bounded number of steps, by a
thread that waits for nothing (proved as `OnItsWay`).
Beyond that: in `SchemaUpdater` a client that failed is started again, which is what its dialogs ask of the
user; in `Deployment` a deployment is tried again and again (strong fairness, since faults and the other
program disable it at times); in `SqlMonitor` the event loop is reached again and again between
transactions (strong fairness of `NotificationReceived`), a transaction ends, and the
program goes on using its connection, which is how a loss is noticed.  No
fairness is assumed of the environment's faults, nor of the program starting calls.

## What is proved

### Transactions

`SqlTransactionProofs` proves, for every set of connections, objects, statements, faults
and every bound:

* `TypeCorrect`: `Spec => []TypeOK`
* `CountCorrect`: `Spec => []CountMatches`
* `NoTransactionLeaks`: `Spec => []NoOrphan`
* `CallsComeToAnEnd`: `Spec => CallsAdvance`
* `ExceptionsLeaveAll`: `Spec => []Unwinds /\ ScopesEnd`

They rest on `ConnAssumption` (main connections are connections), `TxnAssumption`
(finitely many objects), `FaultsAssumption` and `BoundsAssumption`, and on the inductive
invariant

    CountInv == TypeOK /\ CallObjects /\ CountMatches /\ ClosedIsGone /\ NoOrphan

`CountMatches` is not inductive alone.  A `commit()` that succeeds lowers the count
for its object, so the object must be armed when the command returns, after any number of steps of
other threads and of `checkDbIsAlive`: `CallObjects` says that a call
in progress finds its object in the state its operation began with, and that no two constructors share
an object.  It does not hold for a second attempt of `rollback()`, whose object is
disarmed by then, which is why it speaks of the first one only.
`NoOrphan` needs `CountMatches` for the count after a step, and `ClosedIsGone`: the destructor and
`rollback()` lower the count whether or not ROLLBACK succeeds, so a failed ROLLBACK
must mean that the session is over.  It does since ROLLBACK of a living
session is not refused; `ClosedIsGone` is the case in which it is not even sent.

The lemmas first say what arming and disarming an object does to the counts, then
what a command can do to a session (`SendTypes`, `SendServer`), then what each
action keeps; `CountInvNext` puts them together.

`CallsAdvance` is the part of `CallsReturn` that does not speak of fairness: each step of a thread moves its call
on, to a later attempt, from "check" to "driver" or to another call of `open()` (`Nearer`), and no
step of another thread takes a call back.  Since attempts and calls of `open()` are bounded, so is a call.
`ScopesEnd` is the same of an exception on its way out: no object is armed meanwhile, each
destructor that returns takes its own off, and the exception is not caught before the count is zero and
the server's transaction over.  That there is a destructor to run as long as it is not caught is `Unwinds`.

### Transactions of the main thread

The same module, from `MainThread` on, proves for every set of connections, objects and
statements, and any losses, lost replies, refused statements and crashes:

* `Implementation`: `Spec => UnitsImplemented`, that is, `SqlTransaction` implements `AtomicUnits`
* `CommitsAreDurable`: `Spec => []PromisedDurable`
* `RollbacksAreComplete`: `Spec => []DiscardedUndone`
* `UnitsAreAtomic`: `Spec => []UnitAtomic`
* `NothingTwice`: `Spec => []AtMostOnce`
* `OutermostOnly`: `Spec => OnlyOutermostCommits`

under `MainThread`, which has three parts.  Each is needed:

* `MainConn = Conn`: a lost connection ends the process.  A worker reconnects, and its
  second COMMIT ends a transaction that was never begun (`txn_reconnect`).
* `Catches = {FALSE}`: an exception leaves the transactions it was thrown in.  A program that
  catches one inside goes on in a session that refuses everything, and whose COMMIT rolls back; the
  second COMMIT finds no transaction and succeeds.
* `"deferred" \notin Faults`: a deferred constraint that fails at COMMIT ends the transaction too, with
  the same second COMMIT behind it.

The inductive invariant is `CountInv /\ MainInv`.  Its heart is `PendingIsUnit`, which
relates what the server has applied to what the program was told: in a session
with an open transaction they are the same statements, in any other nothing is pending.  It needs
`InTransaction` (a session with objects is in a transaction, has failed or is gone; the
failed one has an exception on its way out, so that only destructors run) and `RetryEnds` (a second
attempt never gets past `checkDbIsAlive`).  The one window in which a
unit is in the database that the program still holds is that between the lost reply of its COMMIT and the end of
the process: `DurableEnds`.  `Places` keeps the statements of units, of calls and of the database
apart, which `AtomicUnits` asks of every new one.

The simulation has a step for each action: `CommitOuter` is `CommitAcknowledged`, or `Commit`
when its reply is lost; the last `rollback()` or destructor is `RollbackAcknowledged`; `Exec` is
`Add` or `Autocommit`; all others stutter.

### Schema updates

`SchemaUpdaterProofs` proves, for every set of clients, tables, columns and triggers,
every set of scripts, any version at first and any targets from it on, and any number of faults:

* `TypeCorrect`: `Spec => []TypeOK`
* `VersionIsHonest`: `Spec => []VersionHonest`
* `SchemaComesFirst`: `Spec => []SchemaFirst`
* `ScriptsRunOnce`: `Spec => []ScriptsOnce`
* `CompleteIfUncut`: `Spec => []CompleteUnlessCut`
* `RerunsSucceed`: `Spec => RerunSucceeds`
* `RunsComeToAnEnd`: `Spec => RunsAdvance`
* `NoUpdateEndsShort`: when all clients, of whom there are some, are `Finished`,
  `version = target \/ target \in refused`
* `VersionsRise`: `Spec => VersionRises`

from `VersionAssumption`, `SchemaAssumption` and `FaultAssumption`, and the inductive invariant

    UpdaterInv == TypeOK /\ LoopsOK /\ VersionsOK /\ SchemaOK /\ LoneOK /\ EndOK

`VersionHonest` excepts the scripts that were `refused`: their version is remembered by the client as if it
were reached, and written to the database by the next script or at the end.  It says nothing of the version a client remembers, which may be
older or newer than the database's since another client writes it too.  `VersionsOK` has
the same of every version held, and of the target behind the scripts; it is kept because
`LoopsOK` says that a client has left exactly the scripts above the version it remembers,
of which it takes the least (`FirstIsLeast`, from the library's theorem on
well-founded relations).  `SchemaOK` says what a client no longer
has to create is there, `LoneOK` that nobody changes the tables under a lone
client, nor the version, which is at most the one it remembers, and `EndOK` follows a trigger from the loop that drops it to its creation: while nobody
was cut off, a trigger behind the one a loop is at is there or about to be, also when two
clients drop and create the same.

The last three are about where updates lead.  `RunsAdvance` has every step of a client lead to a later
stage of `execUpdates`, or take something off what the loop has left, or be a further step of one turn
(`Further`); only being started again, for an error or one of the faults, brings a client back.  A client that listed its
scripts long ago may set the version back behind one that ended at the target.
`VersionRises` says that this takes two clients, and `NoUpdateEndsShort` that it is made up for.  For that the
inductive `NoneShort` says that behind a database short of the target there is a client that has
not ended for good and remembers a version below the target: the one that set it back is one.  The exception is a
target whose own script was refused: the client that sent its COMMIT again takes the target for reached, and
nothing that follows writes the version.

### Network watcher

`SqlQueryWatcherProofs` proves, for any number of threads, queries and failures:

* `TypeCorrect`: `Spec => []TypeOK`
* `DialogUnique`: `Spec => []OneDialog`
* `HelperLives`: `Spec => []HelperAlive`
* `ReturnsClean`: `Spec => []CleanReturn`
* `FlagHonest`: `Spec => []VisibleIsShown`
* `QueriesComeToAnEnd`: `Spec => [](StepsBounded /\ OnItsWay) /\ StepsRunOut`

from `NoneAssumption` and `BoundsAssumption`, and the inductive invariant

    WatcherInv == TypeOK /\ Handshake /\ Processes /\ Flag

`Handshake` says where the helper's thread is at each stage of the query's, with the
semaphore and the queued quit(); `Processes` that a process is there only while the helper can be
asked about it; `Flag` that the flag stands for one helper, and that the mutex is
held between its test and the start of the process.

`QueriesComeToAnEnd` counts the steps that are left of a query, of its own thread, its helper's thread and its
dialog's process together: twelve at most, fewer after each of them, and none added by another
thread.  `OnItsWay` says that there is a next one.  The semaphore a query waits for has been
released or its helper is being made, a helper it waits for has been told to quit, and the mutex is
held only by a helper that starts its process and waits for nothing.

### Monitors

`SqlMonitorProofs` proves, for any number of monitors, tables, rows, losses and notifications,

* `MonitorsHear`: `Spec => []TablesHeard`
* `NoChangeIsMissed`: `Spec => []SignalUnderway /\ SignalNears`

if `Ops` lacks "rollback": with it `TablesHeard` is false, see below.  The inductive invariant is

    HeardInv == TypeOK /\ Bookkeeping /\ Heard

`Heard` puts the driver's list between the two sides: `subscribe()` sends LISTEN
only for what the list lacks, so the list must hold every monitored table, and of
tables nothing the session does not listen to.  Both are claimed of a connection that works; a
LISTEN that is sent to a session that is gone is in neither, and is made up for by the
next query.

`SignalUnderway` says of a monitor that is owed a signal, in the session the change was seen in, that
a notification is queued which will make it emit one (`SignalAt`): the table is
among the monitor's, and the driver still subscribes to it, whichever monitors unsubscribed meanwhile.
`SignalNears` says that each notification that is received brings it one place forward, and that
nothing but the loss of the session takes it away.  They need `Heard` at the time of the change, and `DueOK`
with them: a signal is owed for this session or an earlier one, and a connection is closed only where its session is lost.

### Queries, their registry and their cache

`SqlQueryManagerProofs` proves, for any connections and threads, queries, monitors, statements,
programs and losses:

* `TypeCorrect`: `Spec => []TypeOK`
* `RegistryIsExact`: `Spec => []RegistryExact`
* `QueriesAreFresh`: `Spec => []ExecFresh`
* `CachedAreFresh`: `Spec => []CacheFresh`
* `ValuesAreKept`: `Spec => []BoundKept`
* `MonitorsAreHeard`: `Spec => []MonitorsHeard`
* `MutexesAreHeld`: `Spec => []Locked`
* `NoCircleOfThreads`: `Spec => [](Released /\ NoCircle)`
* `CallsComeToAnEnd`: `Spec => CallsAdvance`

from `ConnAssumption`, `BoundsAssumption` and the inductive invariant `QueryInv`, the
conjunction of `TypeOK` with

* `CallObjects` and `CallStages`: what a call is about.  The object of a constructor is nobody
  else's before it is registered; that of any other call lives, on the connection of the call, until
  it ends.
* `RegistryExact` and `Locked`: a thread that prepares queries again holds `queryMutex`, so none
  of those it has collected goes away, and none is added, before it is through.
* `CacheApart`: the queries that `SqlQueryCache::clear()` has taken out of the hash are in
  no other hands, so that two threads that clear it destroy none twice, and no call is
  about one of them.
* `PreparedFresh` and `OnlyPrepared`: a query that is prepared in some session (`Prepared`) is so in that of its
  connection, if that session can be reached, unless it is still on the list of
  `checkDbIsAlive`; what is cached is prepared, and the cache is empty while queries are prepared
  again, so that no cached query is refused.
* `BoundMeant`: the values are right also in the middle of `checkDbIsAlive`, as are those it has saved.
* `AllHeard`, `ClosedIsGone` and `SessionsCounted`: a session is replaced only after it is lost, so
  the subscriptions of one that works are never forgotten.

`RegistryExact` alone is not inductive: that a destructor removes one query, and no
other thread's, needs `CallObjects`; that the emptied cache does needs `CacheApart`.  `ExecFresh` holds
of the moment before the command, `PreparedFresh` from the loss on.

A thread that waits for the mutex it holds (`NoSelfDeadlock`, see below) keeps every one of these
invariants.  `NoCircle` says that this is all that can go wrong with the two mutexes: a thread that waits, waits for
one that holds `queryMutex` and does not wait itself, or is deadlocked with itself.  It rests
on `Released`, that a mutex is owned only between its lock and the end of `checkDbIsAlive`,
whichever way that is left, and on the order of the two locks.  `CallsAdvance` adds what makes such
waiting end: every step brings a call to its second attempt, to a later part of the attempt, to another
call of `open()` or further in what follows one, or leaves it a query less to see to (`Nearer`).

### Schema deployment

`DeploymentProofs` proves, for every schema, any number of its versions, tables, columns and
deployers, and any faults:

* `RightsAlwaysKnown`: `Spec => []RightsKnown`
* `UsersHeardFirst`: `KindsAgree => (Spec => []HeardFirst)`
* `DeploymentCompletes`: `TablesAgree /\ FlagsMeant => (Spec => []Deployed)`
* `DeployedIsDrawn`: `EdgesLead => (Spec => []Drawn)`
* `RefusedOnlyForThere`: under `TablesAgree`, `FlagsMeant`, `ReferencesLead`, `NamesDiffer` and
  `ColumnsAddable`, `Spec => []RefusedIsThere`
* `DeploymentsComeToAnEnd`: `Spec => RunsAdvance`

from `SchemaAssumption` (a version has a table, compiles, and its columns are a sequence)
and `BoundsAssumption`.  The hypotheses are about schemas the code accepts and does not
do right by; `MCDeployment` has TLC evaluate all seven on the schema of the run.

* `KindsAgree`: a table is a lookup table or a relation in all versions or in none.  One
  that becomes neither has rights without rules until it is deployed again.
* `TablesAgree`: versions that share a table share its constraints, and the flags of the columns
  they share.  Deployment only adds: what a later version changes of a column or a
  constraint stays as it is.
* `FlagsMeant`: the flags of a column are those of the macros, "key" only as part of the flag for primary
  keys, and what happens on deletion is said of foreign keys only; of other columns
  CREATE TABLE leaves it out.
* `EdgesLead`: a version declares a table once, foreign keys reference columns of tables
  drawn as nodes, and a relation drawn as an edge has two foreign keys.  An edge to a relation
  would lead to a port that is not there.
* `NamesDiffer`: a table has columns, and they have different names.
* `ReferencesLead`: a foreign key leads to a table declared before its own, or to its own, and to a column that
  every version of that table declares to be unique.  A column that only a later version of the table
  has is not there when the reference is made: all tables are created before the first column is added.
* `ColumnsAddable`: a column that only some versions of a table with rows have has a default, or may be
  NULL.  The database refuses any other, see below.

The statements of a version are what the templates generate for any schema, so
the proofs begin with sequences that are joined: `FlattenFunction` takes the fold of
`FlattenSeq` apart, and `FlattenIn`, `FlattenHas` and `Precedes` say what is in the result and
in what order.  `ProgramOf` is what the rest rests on.  It says which statements a
version's program has, that tables come first and the read of a table right before its missing columns, that
a trigger is created by the statement next to its drop, and that a table's rules precede
the rights of its users and its columns their triggers.

The inductive invariant of the rights is

    RightsInv == TypeOK /\ ColumnsKnown /\ RunsOK /\ RulesDone /\ GrantsKnown

where `RulesDone` says that the rules a deployer is past are there, and `GrantsKnown`
remembers, for each right, the version that granted it.  That of complete deployments is

    DeployInv == RightsInv /\ UniquesKept /\ KnownThere /\ StepsDone
                   /\ TriggersDone /\ Quiet /\ Deployed

`Deployed` speaks of the end; `StepsDone` says the same of every statement a
deployer is past, executed or left out.  That a statement may be left out rests on
`KnownThere`: what was seen to be there still is, since nothing is dropped but triggers.  A trigger is different,
since another deployer may just have dropped it: `TriggersDone` says it is there or
somebody is about to create it (`Guarded`), unless a deployment that ended in the middle
`disturbed` this one.  The last one to run finds nobody else about to, so all are there.

`RefusedIsThere` is about what stops a deployment: a statement that is refused creates a table, a column or
a trigger that is there, which another deployment made, or a statement whose reply was lost, after
this one had looked.  It is what makes `Redeployed` true, since one that begins again sees it.  On top of
`DeployInv` it needs that a table that is there has all columns of one of its declarations
(`WholeTables`), so that the column a reference leads to is there and unique, and that the
tables in front of a deployer's statement are there (`TablesThere`).  `RunsAdvance` says that each statement
brings a deployment nearer to the end of its program, and that nothing brings it back.

### Expressions

`StatementProofs` proves `ExpressionsSay`, `Ops \subseteq {"stored"} => (Spec => []StatementSays)`,
for any variables, tables, columns, values and calls: expressions may be kept and extended as a
program likes, but no clause comes before the table, and no INSERT is used again.  With those the property is
false, see below.  It needs `MissingAssumption`, that the mark of a table not given is no table.
The inductive invariant `SaysInv` is about all there is in an expression, also
what no builder reads yet: its data are the statement written, but for the columns, which
are with the type until the table is given (`Says`); before that nothing else is written.

### Query builders

`StatementProofs` proves `AssembliesAligned`, `~Reuse => (BuildersSpec => AssemblyAligned)`: a builder
that assembles its statement binds every value to its own placeholder.  `~Reuse` excludes programs that
use a builder again after it was combined, for which the property is false, see below; the property itself is
about inserts whose columns were added in the order of their names (`InOrder`), for the same reason.  The
inductive invariant `BuildersInv` is only that what builders collect are lists of items and of values; what
there is to show is that two orders agree.  The number of a placeholder is the count of the items before it
that take one, and its value is found in the list by position: `ConditionalIsText` says that these are the same,
because the count grows at each such item (`BeforeGrows`) and so identifies it (`BeforeIsPlace`).  The values of earlier
assemblies, or of the first query of a combination, are in front of the list, and the numbers begin
behind them (`TextGets`).  The numbers of an insert are by column and its values in the order
of the names (`InsertGets`).  It needs `LiteralAssumption`, that NOW, NULL and DEFAULT are neither values nor
numbers of placeholders, and `ColumnAssumption`, the order of the names.

### Scripts

`TextProofs` proves, for scripts of any length:

* `FailureLeavesNothing`: `Spec => []AllOrNothing`
* `RegularScripts`: `"quote" \notin Token => (Spec => []RegularExecuted)`

the second for scripts without literals, in which `stripComments` takes two dashes for a
comment.  The inductive invariant `BatchInv` says that the transaction has
exactly the words of the statements executed so far, `WordsOf` and that nothing else is in
the database, until a COMMIT was not acknowledged; from then on `AllOrNothing` is inductive, as only a second COMMIT is left.  That
all of them together are the words that are SQL is `AllWords`: splitting loses no word
(`WordsInParts`), and what is stripped of a part are its words in comments (`StrippedWords`), though
`stripComments` goes from match to match in one part and the reference, `State`, from sign to sign
through the script.  Each of the three recursive definitions is first shown to be what
its equation says (`RecursionExists`), by induction for a set in place of a predicate.

### Conditions

`TextProofs` also proves of conditions, nested to any depth:

* `ConditionsInvariant`: `"empty" \notin Ops => (ConditionsSpec => []ConditionsInv)`
* `ClausesMeant`: `Ops \cap {"empty", "lowered"} = {} => (ConditionsSpec => []WhereMeant)`

"empty" and "lowered" are what a program may do that makes its clause a wrong one, see below: nesting
a condition without sub-conditions, and adding terms with a placeholder or a column while case is
ignored.  `ConditionsInv` gives the depth of what objects contain, by the number of conditions nested so
far, and with it that their text is defined.

What there is to show is that a text can be read where it stands.  `Says` is that of any text
and any level: where an operand is expected, the words of the condition lead to the level with that operand
taken, whether earlier alternatives hold or not, and for every list of bound values that
begins with those of the text (`Extends`), as values of later terms are appended.  Leaves say what they
mean (`LeafSays`, `LeafCompares`); sub-conditions joined by one operator say together what AND or OR
makes of them (`OneMore`), and in parentheses they are an operand again, whichever operator is
around (`JoinedSays`).  `ConditionsSay` is the induction over the depth.  A single sub-condition needs
no parentheses, for its text is an operand already.  `NullAssumption` keeps NULL apart from strings, and
`LoweredAssumption` says that lowering twice is lowering once.  As for scripts, each function that is
defined by recursion is first shown to be what its equation says.

### Model-checked only

Liveness and ENABLED are out of the prover's reach: `CallsReturn` of transactions and of queries,
`ExceptionEndsTransaction`, `Updated`, `Redeployed`, `ChangeSignalled` and `QueriesReturn` are
TLC's.  What is proved of them is the argument without fairness, for any number of
threads, clients, deployers and monitors: that every step is one nearer to
the end and no step of others leads away from it (`CallsAdvance`, `ScopesEnd`,
`RunsAdvance`, `SignalNears`, `StepsRunOut`), and where that end is (`NoneShort`, `RefusedIsThere`,
`SignalUnderway`, `OnItsWay`, `NoCircle`).  That a step that may be taken is taken is what TLC adds, on the
instances of the runs.  Every safety property of the passing runs is proved, under the hypotheses named above.

## Disagreements between the code and its documentation

`txn_reconnect` is a run that ends in a counterexample: a worker's connection is lost inside a
transaction, the first COMMIT fails, `checkDbIsAlive` reopens the connection, and the second
COMMIT is answered by a session that has no transaction (`SqlTransaction.cpp:57`).  `commit()` returns; what was executed
before the loss is gone.  `SqlTransaction.h:49` promises an exception.

The others were found in the same way.  Each property is in the module named, with
"Promised, and not kept" above it; TLC finds it violated when it is put
in the place of the properties of the configuration, changed as the last column says
(deadlock checking off).

| code | what happens | what is promised | property | configuration |
|---|---|---|---|---|
| `SqlTransaction.cpp:56` | a COMMIT the server refuses (a deferred constraint) is sent again; the second has nothing to commit and succeeds | `SqlTransaction.h:49` "@throws SqlException if committing failed" | `PromisedDurable` | `_main`, `Faults` with "deferred" |
| `SqlTransaction.cpp:69` | a nested transaction that is rolled back leaves its statements to the outer commit | `SqlTransaction.h:55` "Rolls back this transaction" | `RevokedUndone` | `_main` |
| `SqlTransaction.cpp:80` | the count of transactions is the number of connections that ever had one | `SqlTransaction.h:61` "number of transactions being run" | `CountTellsRunning` | `_main` |
| `SqlQueryManager.cpp:151` | cached queries are destroyed under the registry's mutex, for which their destructors wait | `SqlQueryManager.h:33` "handles unexpected database disconnections" | `NoSelfDeadlock` | as is |
| `SqlQuery.cpp:39` | a query whose constructor throws stays registered | `SqlQueryManager.h:33` "Keeps track of queries" | `RegistryAlive` | as is |
| `SqlQueryManager.cpp:160` | a query that cannot be prepared again is executed in a session that does not know it, and throws | `SqlQueryManager.h:33` "handles unexpected database disconnections" | `ExecPrepared` | as is |
| `SqlQueryManager.cpp:160` | a connection that is lost again while queries are prepared leaves copies that share a result without their text, so they are never prepared again | `SqlQueryManager.h:33` | `StatementsKept` | `Conn = {worker}`, `MainConn = {}`, `Query` with 5, `MaxLoss = 2`, `MaxCalls = 5` |
| `SqlQueryManager.cpp:143` | the process ends, and nothing was retried | `SqlQueryManager.h:47` "offer the user to retry the SQL command or abort it" | `RetryBeforeExit` | as is |
| `SchemaUpdater.h:261` | a COMMIT that was refused is sent again and acknowledged, and the updater goes on without the script's effects | `SchemaUpdater.h:263` "Schema successfully upgraded to version" | `UpgradesKept` | as is |
| `SchemaUpdater.h:211` | an update that is not needed leaves the cache off | `SqlQueryCache.h:46` "temporarily disable caching" | `CacheBack` | as is |
| `SchemaUpdater.h:216` | the version is written before rules, rights and triggers; if those fail, the next run finds all up to date | `SchemaUpdater.h:206` "Executes all necessary database schema updates" | `SaidComplete` | as is |
| `SchemaUpdater.h:198` | a version that cannot be read counts as up to date | `SchemaUpdater.h:176` "@c true if the schema needs to be updated" | `SaidVersion` | as is |
| `SqlInsertQueryBuilder.cpp:98` | values are bound in the order of column names, placeholders numbered in the order the columns were added | `SqlInsertQueryBuilder.h:46` | `InsertAligned` | as is |
| `SqlSelectQueryBuilder.cpp:212` | a select that was the second of a union keeps its offset when it is used alone | `SqlConditionalQueryBuilderBase.h:42` "to be replaced after query preparation" | `RegisteredReplaced` | `Reuse = TRUE` |
| `SqlSelectQueryBuilder.cpp:211` | a union that is combined again loses its first parts | `SqlSelectQueryBuilder.h:195` "a composed query out of two" | `ComposedWhole` | `Reuse = TRUE` |
| `SqlQueryBuilderBase.cpp:82` | builders with equal statements share a query, the second overwrites the values of the first | `SqlQueryBuilderBase.h:59` | `KeepsValues` | as is |
| `SqlSelectQueryBuilder.cpp:77` | the loop of `removeSortColumn` does not advance | `SqlSelectQueryBuilder.h:139` | `RemoveReturns` | `FairSpec`, no symmetry |
| `SqlSelectQueryBuilder.cpp:192` | a select has one NOWAIT for all tables it locks, also those locked without it | `SqlSelectQueryBuilder.h:169` and `:182` | `LocksAsAsked` | `LockTable = {t1, t2}` |
| `SqlCondition.cpp:63` | case is ignored by lowering the name of the placeholder, not its value | `SqlCondition.h:136` "converted to the same case before comparison" | `WhereMeant` | `Ops` with "lowered" |
| `SqlCondition.cpp:82` | a nested condition without parts is written as a comparison without a column | `SqlCondition.h:75` "Create an empty condition" | `TermsComplete` | `Ops` with "empty" |
| `SqlDelete.h:70` | `del().where(c).from(T)` deletes all rows | `SqlDelete.h:74` | `StatementSays` | `Ops = {"early"}` |
| `SqlInsert.h:114` | `columns()` changes the expression it is called on | `SqlInsert.h:110`, and the other expressions | `StatementSays` | `Ops = {"storedInsert"}` |
| `SqlGrantPermission.h:66` | rights of an earlier version are never revoked | `SqlSchema_p.h:216` "regular users can only select it" | `RightsMatch` | as is |
| `SqlCreateTable.h:190` | a protected column is open between DROP TRIGGER and CREATE TRIGGER | `SqlCreateTable.h:170` "to disallow UPDATE on a column" | `ProtectedKept` | as is |
| `SqlCreateRule.h:51` | relations, which users may change, get no rule | `SqlCreateRule.h:112` "for all mutable tables" | `MutableHeard` | as is |
| `SchemaUpdater.h:146` | a new column that is NOT NULL cannot be added to a table with rows, and the update fails each time | `SchemaUpdater.h:161` "adds missing tables and columns based on the given schema" | `Redeployed` | `Schema <- VersionsNotNull` |
| `SqlMonitor.cpp:83` | a monitor ends subscriptions that others share | `SqlMonitor.h:80` | `ValuesHeard` | as is |
| `SqlMonitor.cpp:58` | tables monitored inside a transaction that is rolled back are not listened to | `SqlMonitor.h:51` | `TablesHeard` | `Ops` with "rollback" |
| `SqlUtils.cpp:77` | a COMMIT that was refused or lost is sent again and acknowledged, and the script reported as executed | `SqlUtils.h:52` "Executes SQL commands from a string" | `ReportedDurable` | as is |
| `SqlUtils.cpp:64` | a statement of fewer than three signs ends the script | `SqlUtils.cpp:63` speaks of skipping it | `ScriptExecuted` | as is |
| `SqlUtils.cpp:34` | an empty comment takes the next line along, and two dashes in a literal are taken for a comment | `SqlUtils.h:42` "Strips out comments" | `OnlyCommentsStripped` | as is for the first, `Token` with "quote" for literals |

Others are written into the properties as exceptions: changes while the connection was lost are
never signalled (`losses > k` in `ChangeSignalled`, `SqlMonitor.cpp:70`), and the flag
of the dialog stays set for good once a dialog fails to start (`failures = 0` in
`VisibleIsShown`, `SqlQueryWatcher.cpp:75`).  `CallsReturn` of the queries excepts the
self-deadlock above, and `RegistryExact` counts the queries whose constructor threw.  `ExecFresh` excepts queries
that are prepared in no session, and `BoundKept` those that lost their statement.  A COMMIT that was sent again is
excepted by `refused` in `VersionHonest`, `CompleteUnlessCut` and `Updated`, and by `resent` in
`RegularExecuted`: what these still say is that nothing else goes wrong, and nothing by halves.

Seen on the way and not modelled: the build option `SQL_ENABLE_NETWORK_WATCHER`
(`CMakeLists.txt:9`) does not define `SQLATE_ENABLE_NETWORK_WATCHER`, which
`SqlQuery.cpp:25` tests; `is_administrator()` names the group `sqladmins`
(`procedures/pre-create/ACLTriggerFunctions.tsp`), whatever group a table declares its
administrators to be; every deployment adds one more rule of a new name for a column that
notifies (`SqlCreateRule.h:81`); the DEFAULT of a string or a uuid is written without quotes
(`SqlCreateTable.h:112`, with a FIXME), which `Declarations` takes for a valid clause; a column that is unique and has a
default is refused by a table with several rows, which `Deployment` accepts;
`stripComments` joins the lines before and behind a comment (`SqlUtils.cpp:34`); the static hashes of the counters and of the cache are used by
all threads without a lock.

## What is not modelled

* Of the declarations: the C++ and SQL types and sizes of columns, `Sql.h`, and the tables of
  `PostgresSchema.*`, which only give names to columns of the server's catalogue.
* `SqlInternals_p.h`, `sqldetail.h`, `SqlExceptions.h`, `SqlGlobal.h`: value classes and
  macros.  Exceptions are modelled where they are thrown.
* The stored procedures run in the server; `Deployment` takes `is_administrator()` as refusing ordinary
  users.  Of drawings the labels, colours and layout are left out.
* Text that carries no value: DISTINCT, LIMIT, GROUP BY in the builders, table
  names, column types.  `createIdentifier` shortens a name by a hash.
* Comparisons by order and by pattern: they are written and bound like those modelled.
* Reading a result row by row, which is Qt's.
* The server's answers are modelled from how the code uses them, and are marked
  external: that `commit()` of the driver reports what the server answered is assumed.

## Plan

Done: the inventory, all the components above checked, and the theorems under What is proved.
Next, in this order:

1. Compose transactions with the query manager: what a reconnection does to the
   prepared queries of a unit that is under way.
2. Model calls of `commit()` and `rollback()` twice on one object, which lower the count again, so
   that `CountMatches` and what is proved from it would be claimed of programs without them.
