----------------------------- MODULE SchemaUpdater -----------------------------
(***************************************************************************)
(* SchemaUpdater::execUpdates: client programs bring a shared database     *)
(* from one schema version to the next, in steps that are separate         *)
(* commands or transactions.  A client can fail or be killed between any   *)
(* two of them and is started again with a new SchemaUpdater.              *)
(*                                                                         *)
(* Tables, columns and triggers are numbered by their place in the schema, *)
(* the order in which the loops of the code visit them.                    *)
(***************************************************************************)
EXTENDS Integers, FiniteSets

CONSTANTS
    Client,       \* programs that may run the updater
    Old,          \* the version at first
    Targets,      \* versions the programs may want
    Script,       \* versions that have an update script
    Table,        \* tables of the schema the database lacks at first
    Column,       \* columns it lacks in the tables it has
    Trigger,      \* triggers of the schema
    Faults,       \* a subset of {"crash", "refuse", "deferred", "decline"}
    MaxFault      \* bound on the faults of a behaviour

ASSUME VersionAssumption == Old \in Nat /\ \A t \in Targets : t \in Nat /\ Old <= t
ASSUME SchemaAssumption == Script \cup Table \cup Column \cup Trigger \subseteq Nat
ASSUME FaultAssumption ==
    Faults \subseteq {"crash", "refuse", "deferred", "decline"} /\ MaxFault \in Nat

VARIABLES
    version,         \* the database: the row of the version table
    tables, columns, \* what was created of Table and Column
    triggers,        \* the triggers in place
    deployed,        \* whether rules and grants are in place
    ran,             \* how often each script was committed
    target,          \* m_targetVersion of all clients
    pc,              \* the step each client is at
    current,         \* m_currentVersion
    todo,            \* what the loop the client is in has left
    cacheOn,         \* g_queryCacheEnabled of the client
    said,            \* the client said the schema is up to date
    began,           \* history: clients that ever began execUpdates
    cut,             \* history: a client ended between the scripts and its end
    refused,         \* history: scripts that were reported as done and took no effect
    faults

database == <<version, tables, columns, triggers, deployed, ran>>
program == <<pc, current, todo, cacheOn, said, began>>
vars == <<database, target, program, cut, refused, faults>>

\* The last four are the ends of execUpdates: all steps taken, nothing to
\* do, and, with the application told to end, an error or a "no" of the user.
Steps == {"start", "check", "confirm", "tables", "columns", "scripts", "version", "commit",
          "rules", "grants", "triggers", "create", "bump",
          "done", "upToDate", "failed", "declined"}

\* The steps after tables and columns, in which the version may be the target.
Closing == {"scripts", "version", "commit", "rules", "grants", "triggers", "create", "bump"}

First(S) == CHOOSE i \in S : \A j \in S : i <= j

Init ==
    /\ version = Old
    /\ tables = {} /\ columns = {} /\ triggers = {} /\ deployed = {}
    /\ ran = [v \in Script |-> 0]
    /\ pc = [c \in Client |-> "start"]
    /\ current = [c \in Client |-> -1]
    /\ todo = [c \in Client |-> {}]
    /\ cacheOn = [c \in Client |-> TRUE]
    /\ said = [c \in Client |-> FALSE]
    /\ began = {}
    /\ target \in Targets
    /\ cut = FALSE
    /\ refused = {}
    /\ faults = 0

Goes(c, from, to) == pc[c] = from /\ pc' = [pc EXCEPT ![c] = to]

Fault(f) == f \in Faults /\ faults < MaxFault /\ faults' = faults + 1

\* A loop over the items S of the schema or the scripts begins.
Loop(c, S) == todo' = [todo EXCEPT ![c] = S]

\* The loop goes on behind its first item.
Advance(c) == Loop(c, todo[c] \ {First(todo[c])})

\* A command is refused, for a reason of the server's own or because what it
\* creates exists: the error is shown and the application told to exit.
Fails(c) ==
    /\ pc' = [pc EXCEPT ![c] = "failed"]
    /\ cut' = (cut \/ pc[c] \in Closing)
    /\ UNCHANGED <<database, target, current, todo, cacheOn, said, began, refused>>

-----------------------------------------------------------------------------
(* needsUpdate *)

\* The program may ask for itself before it runs the updates.
Ask(c) ==
    /\ pc[c] = "start" /\ current[c] < 0
    /\ current' = [current EXCEPT ![c] = version]
    /\ UNCHANGED <<database, pc, todo, cacheOn, began, said, target, cut, refused, faults>>

\* execUpdates begins with the cache disabled.
Start(c) ==
    /\ Goes(c, "start", "check")
    /\ cacheOn' = [cacheOn EXCEPT ![c] = FALSE]
    /\ began' = began \cup {c}
    /\ UNCHANGED <<database, current, todo, said, target, cut, refused, faults>>

\* A version read before is not read again.
VersionSeen(c) == IF current[c] >= 0 THEN current[c] ELSE version

Outdated(c) ==
    /\ Goes(c, "check", "confirm")
    /\ VersionSeen(c) < target
    /\ current' = [current EXCEPT ![c] = VersionSeen(c)]
    /\ UNCHANGED <<database, todo, cacheOn, began, said, target, cut, refused, faults>>

UpToDate(c) ==
    /\ Goes(c, "check", "upToDate")
    /\ VersionSeen(c) >= target
    /\ current' = [current EXCEPT ![c] = VersionSeen(c)]
    /\ said' = [said EXCEPT ![c] = TRUE]
    /\ UNCHANGED <<database, todo, cacheOn, began, target, cut, refused, faults>>

\* The version cannot be read: needsUpdate() returns false.
Unreadable(c) ==
    /\ Goes(c, "check", "upToDate")
    /\ current[c] < 0
    /\ Fault("refuse")
    /\ said' = [said EXCEPT ![c] = TRUE]
    /\ UNCHANGED <<database, current, todo, cacheOn, began, target, cut, refused>>

Decline(c) ==
    /\ Goes(c, "confirm", "declined")
    /\ Fault("decline")
    /\ UNCHANGED <<database, current, todo, cacheOn, began, said, target, cut, refused>>

-----------------------------------------------------------------------------
(* Missing tables and columns: what exists is read once, and every item that *)
(* was not there is created by a command of its own.                         *)

\* Mutant: every table of the schema is created.
AllTables == Table
MissingTables == Table \ tables

ListTables(c) ==
    /\ Goes(c, "confirm", "tables")
    /\ Loop(c, MissingTables)
    /\ UNCHANGED <<database, current, cacheOn, began, said, target, cut, refused, faults>>

CreateTable(c) ==
    LET t == First(todo[c])
    IN  /\ pc[c] = "tables" /\ todo[c] # {}
        /\ \/ t \in tables /\ Fails(c)
           \/ /\ t \notin tables
              /\ tables' = tables \cup {t}
              /\ Advance(c)
              /\ UNCHANGED <<version, columns, triggers, deployed, ran, pc, current, cacheOn, began, said, target, cut, refused>>
        /\ UNCHANGED faults

\* Mutant: the loop starts behind the first column.
LaterColumns == (Column \ columns) \ {First(Column)}
MissingColumns == Column \ columns

ListColumns(c) ==
    /\ Goes(c, "tables", "columns")
    /\ todo[c] = {}
    /\ Loop(c, MissingColumns)
    /\ UNCHANGED <<database, current, cacheOn, began, said, target, cut, refused, faults>>

AddColumn(c) ==
    LET x == First(todo[c])
    IN  /\ pc[c] = "columns" /\ todo[c] # {}
        /\ \/ x \in columns /\ Fails(c)
           \/ /\ x \notin columns
              /\ columns' = columns \cup {x}
              /\ Advance(c)
              /\ UNCHANGED <<version, tables, triggers, deployed, ran, pc, current, cacheOn, began, said, target, cut, refused>>
        /\ UNCHANGED faults

-----------------------------------------------------------------------------
(* Update scripts, each in a transaction with the new version *)

\* Mutant: the next script is left out.
PendingSkipsNext(c) == {v \in Script : current[c] + 1 < v /\ v <= target}
PendingUpdates(c) == {v \in Script : current[c] < v /\ v <= target}

ListScripts(c) ==
    /\ Goes(c, "columns", "scripts")
    /\ todo[c] = {}
    /\ Loop(c, PendingUpdates(c))
    /\ UNCHANGED <<database, current, cacheOn, began, said, target, cut, refused, faults>>

\* The statements of the script.
ExecUpdate(c) ==
    /\ Goes(c, "scripts", "version")
    /\ todo[c] # {}
    /\ UNCHANGED <<database, current, todo, cacheOn, began, said, target, cut, refused, faults>>

\* UPDATE of the version row, which the transaction locks until its end.
UpdateVersion(c) ==
    /\ Goes(c, "version", "commit")
    /\ \A d \in Client : pc[d] # "commit"
    /\ UNCHANGED <<database, current, todo, cacheOn, began, said, target, cut, refused, faults>>

\* Mutant: the transaction does not hold the update of the version.
CommitScriptOnly(c) ==
    LET v == First(todo[c])
    IN  /\ Goes(c, "commit", "scripts")
        /\ ran' = [ran EXCEPT ![v] = @ + 1]
        /\ current' = [current EXCEPT ![c] = v]
        /\ Advance(c)
        /\ UNCHANGED <<version, tables, columns, triggers, deployed, cacheOn, began, said, target, cut, refused, faults>>

Commit(c) ==
    LET v == First(todo[c])
    IN  /\ Goes(c, "commit", "scripts")
        /\ ran' = [ran EXCEPT ![v] = @ + 1]
        /\ version' = v
        /\ current' = [current EXCEPT ![c] = v]
        /\ Advance(c)
        /\ UNCHANGED <<tables, columns, triggers, deployed, cacheOn, began, said, target, cut, refused, faults>>

\* The COMMIT took no effect: the server refused it (deferred constraints), or it
\* was lost and the session opened again.  commit() sends it once more; with no
\* transaction left the server has nothing to refuse, and the script passes for
\* done.  Only where that one is not answered either does commit() throw.
CommitRefused(c) ==
    LET v == First(todo[c])
    IN  /\ pc[c] = "commit" /\ Fault("deferred")
        /\ \/ Fails(c)
           \/ /\ Goes(c, "commit", "scripts")
              /\ refused' = refused \cup {v}
              /\ current' = [current EXCEPT ![c] = v]
              /\ Advance(c)
              /\ UNCHANGED <<database, cacheOn, began, said, target, cut>>

\* Mutant: what comes behind the scripts is left out at the target version.
ScriptsDoneAtTarget(c) ==
    /\ IF current[c] = target THEN Goes(c, "scripts", "bump") ELSE Goes(c, "scripts", "rules")
    /\ todo[c] = {}
    /\ UNCHANGED <<database, current, todo, cacheOn, began, said, target, cut, refused, faults>>

ScriptsDone(c) ==
    /\ Goes(c, "scripts", "rules")
    /\ todo[c] = {}
    /\ UNCHANGED <<database, current, todo, cacheOn, began, said, target, cut, refused, faults>>

-----------------------------------------------------------------------------
(* Rules, permissions, triggers, and the last version *)

\* CREATE OR REPLACE RULE and GRANT succeed also where the rule or right is.
Deploy(c, what, next) ==
    /\ Goes(c, what, next)
    /\ deployed' = deployed \cup {what}
    /\ Loop(c, IF next = "triggers" THEN Trigger ELSE {})
    /\ UNCHANGED <<version, tables, columns, triggers, ran, current, cacheOn, began, said, target, cut, refused, faults>>

CreateRules(c) == Deploy(c, "rules", "grants")

GrantPermissions(c) == Deploy(c, "grants", "triggers")

\* DROP TRIGGER IF EXISTS
DropTrigger(c) ==
    /\ Goes(c, "triggers", "create")
    /\ todo[c] # {}
    /\ triggers' = triggers \ {First(todo[c])}
    /\ UNCHANGED <<version, tables, columns, deployed, ran, current, todo, cacheOn, began, said, target, cut, refused, faults>>

CreateTrigger(c) ==
    LET g == First(todo[c])
    IN  /\ \/ pc[c] = "create" /\ g \in triggers /\ Fails(c)
           \/ /\ Goes(c, "create", "triggers")
              /\ g \notin triggers
              /\ triggers' = triggers \cup {g}
              /\ Advance(c)
              /\ UNCHANGED <<version, tables, columns, deployed, ran, current, cacheOn, began, said, target, cut, refused>>
        /\ UNCHANGED faults

TriggersDone(c) ==
    /\ Goes(c, "triggers", "bump")
    /\ todo[c] = {}
    /\ UNCHANGED <<database, current, todo, cacheOn, began, said, target, cut, refused, faults>>

\* Mutant: the version of the last script is written again.
BumpToCurrent(c) ==
    /\ Goes(c, "bump", "done")
    /\ \A d \in Client : current[c] < target => pc[d] # "commit"
    /\ version' = current[c]
    /\ cacheOn' = [cacheOn EXCEPT ![c] = TRUE]
    /\ UNCHANGED <<tables, columns, triggers, deployed, ran, current, todo, said, began, target, cut, refused, faults>>

\* The version goes beyond the last script, and execUpdates returns.
Bump(c) ==
    /\ Goes(c, "bump", "done")
    /\ \A d \in Client : current[c] < target => pc[d] # "commit"
    /\ version' = IF current[c] < target THEN target ELSE version
    /\ current' = [current EXCEPT ![c] = IF @ < target THEN target ELSE @]
    /\ cacheOn' = [cacheOn EXCEPT ![c] = TRUE]
    /\ UNCHANGED <<tables, columns, triggers, deployed, ran, todo, said, began, target, cut, refused, faults>>

-----------------------------------------------------------------------------
(* Failures, and the specification *)

\* Steps that send a command the server may refuse.
Commanding == {"confirm", "tables", "columns", "scripts", "version", "rules",
               "grants", "triggers", "create", "bump"}

Refuse(c) ==
    /\ pc[c] \in Commanding
    /\ Fault("refuse")
    /\ Fails(c)

\* A new process has a new updater and a cache that is enabled.
Fresh(c) ==
    /\ pc' = [pc EXCEPT ![c] = "start"]
    /\ current' = [current EXCEPT ![c] = -1]
    /\ todo' = [todo EXCEPT ![c] = {}]
    /\ cacheOn' = [cacheOn EXCEPT ![c] = TRUE]
    /\ said' = [said EXCEPT ![c] = FALSE]
    /\ cut' = (cut \/ pc[c] \in Closing)
    /\ UNCHANGED <<database, target, began, refused>>

Restart(c) ==
    /\ pc[c] \in {"failed", "declined"} \/ (pc[c] = "upToDate" /\ current[c] < 0)
    /\ Fresh(c)
    /\ UNCHANGED faults

Crash(c) ==
    /\ pc[c] \notin {"done", "upToDate", "failed", "declined"}
    /\ Fault("crash")
    /\ Fresh(c)

Step(c) ==
    \/ Start(c) \/ Outdated(c) \/ UpToDate(c)
    \/ ListTables(c) \/ CreateTable(c) \/ ListColumns(c) \/ AddColumn(c)
    \/ ListScripts(c) \/ ExecUpdate(c) \/ UpdateVersion(c) \/ Commit(c) \/ ScriptsDone(c)
    \/ CreateRules(c) \/ GrantPermissions(c)
    \/ DropTrigger(c) \/ CreateTrigger(c) \/ TriggersDone(c) \/ Bump(c)

Done == (\A c \in Client : pc[c] \in {"done", "upToDate"}) /\ UNCHANGED vars

Next ==
    \/ \E c \in Client : \/ Step(c) \/ Ask(c) \/ Unreadable(c) \/ Decline(c) \/ Refuse(c)
                         \/ CommitRefused(c) \/ Restart(c) \/ Crash(c)
    \/ Done

Spec == Init /\ [][Next]_vars

\* A client that runs goes on, and one that ended early is started again.
FairSpec == Spec /\ \A c \in Client : WF_vars(Step(c)) /\ WF_vars(Restart(c))

-----------------------------------------------------------------------------
(* Properties *)

\* Every variable stays within its type.
TypeOK ==
    /\ target \in Targets /\ version \in 0 .. target
    /\ tables \subseteq Table /\ columns \subseteq Column /\ triggers \subseteq Trigger
    /\ deployed \subseteq {"rules", "grants"}
    /\ ran \in [Script -> Nat]
    /\ pc \in [Client -> Steps]
    /\ current \in [Client -> -1 .. target]
    /\ todo \in [Client -> SUBSET (Table \cup Column \cup Script \cup Trigger)]
    /\ \A c \in Client : pc[c] \in {"scripts", "version", "commit"} => todo[c] \subseteq Script
    /\ cacheOn \in [Client -> BOOLEAN] /\ said \in [Client -> BOOLEAN]
    /\ began \subseteq Client /\ cut \in BOOLEAN /\ refused \subseteq Script
    /\ faults \in 0 .. MaxFault

\* As long as one client alone has updated the database no script was
\* committed twice, however often the client was killed or refused: the
\* script and its version are one transaction.
ScriptsOnce == Cardinality(began) <= 1 => \A v \in Script : ran[v] <= 1

\* A database of some version has the effects of every script up to it, but for
\* those whose COMMIT took no effect while the updater went on as if it had; also
\* when clients with different views of it update it at the same time.
VersionHonest == \A v \in Script : Old < v /\ v <= version => ran[v] > 0 \/ v \in refused

\* A new version is never seen before the tables and columns it needs are
\* there: scripts and other clients rely on them.
SchemaFirst == version > Old => tables = Table /\ columns = Column

\* What an interrupted update left behind does not make the next one fail: a
\* lone client fails only where the server has a reason of its own.
RerunSucceeds ==
    [][\A c \in Client :
          began = {c} /\ pc[c] # "failed" /\ pc'[c] = "failed" => faults' = faults + 1]_vars

\* Clients that are started again after every failure bring the database to the
\* target version, and it stays there; unless the script of that very version
\* was reported as done without effect, for then the updater stops short of it.
Updated == <>[](version = target \/ target \in refused)

\* What a finished update deploys besides the effects of the scripts.
Deployed ==
    /\ tables = Table /\ columns = Column /\ triggers = Trigger
    /\ deployed = {"rules", "grants"}

\* The version is raised to the target before rules, rights and triggers are in
\* place (if there is a script for it), and is all the next client asks for.  So
\* clients that stopped after an update leave a complete schema of the target
\* version if none of them ended on the way from the scripts to the last step,
\* but for the scripts that were reported as done without effect.
CompleteUnlessCut ==
    Old < target /\ version = target /\ ~cut
    /\ (\A c \in Client : pc[c] \in {"start", "done", "upToDate", "failed", "declined"})
    => Deployed /\ VersionHonest

\* Everything up to the target.
Complete == Deployed /\ \A v \in Script : Old < v /\ v <= target => ran[v] > 0

\* "Schema successfully upgraded to version": an updater that counts a version as
\* its own leaves it in the database, with the effects of its script.
\* Promised, and not kept: see "Disagreements" in the README.
UpgradesKept == \A c \in Client, v \in Script : Old < v /\ v <= current[c] => ran[v] > 0

\* A client that says the schema is up to date has a complete schema.
\* Promised, and not kept: see "Disagreements" in the README.
SaidComplete == \A c \in Client : said[c] => Complete

\* needsUpdate() returns false only where the version is the target's.
\* Promised, and not kept: see "Disagreements" in the README.
SaidVersion == \A c \in Client : said[c] => version >= target

\* Disabling the cache is temporary: when execUpdates returns to a program
\* that goes on, the cache is enabled again.
\* Promised, and not kept: see "Disagreements" in the README.
CacheBack ==
    \A c \in Client :
        pc[c] = "done" \/ (pc[c] = "upToDate" /\ current[c] >= 0) => cacheOn[c]
=============================================================================
