---------------------------- MODULE SqlQueryManager ----------------------------
(***************************************************************************)
(* SqlQueryManager, SqlQuery and SqlQueryCache: the registry of all live   *)
(* queries and monitors, its two mutexes, the cache of prepared queries,   *)
(* and checkDbIsAlive, which rebuilds the queries and subscriptions of a   *)
(* connection that was lost and reopened.                                  *)
(*                                                                         *)
(* A connection is used by one thread.  The steps between two lock         *)
(* operations, two server commands or two queries of a loop are atomic.    *)
(***************************************************************************)
EXTENDS Integers, FiniteSetsExt

CONSTANTS
    Conn,       \* connections, each with the thread that uses it
    MainConn,   \* those of the main thread
    Query,      \* SqlQuery objects, the cached ones included
    Monitor,    \* SqlMonitor objects
    Stmt,       \* texts of statements
    Value,      \* values bound to a query
    Programs,   \* sets of operations, subsets of AllOps: a program uses one of them
    None,       \* no owner, statement or value
    MaxRetry,   \* calls of open() in one checkDbIsAlive (10 in the code)
    MaxLoss,    \* bound on connection losses
    MaxCalls    \* bound on the calls of all threads

AllOps == {"construct", "constructExec", "prepare", "exec", "destroy",
           "bind", "cached", "setEnabled", "monitor", "refuse"}

ASSUME ConnAssumption == MainConn \subseteq Conn /\ None \notin Conn \cup Stmt \cup Value
ASSUME ProgramsAssumption == \A P \in Programs : P \subseteq AllOps
ASSUME BoundsAssumption == MaxRetry \in Nat /\ MaxLoss \in Nat /\ MaxCalls \in Nat

VARIABLES
    queryMutex,    \* its owner
    monitorMutex,  \* its owner
    registry,      \* m_queries
    monitors,      \* m_monitors
    query,         \* the objects: [life, conn, stmt, session, ready, bound]
    shares,        \* the objects that share one QSqlResult with each, itself included
    cache,         \* g_queryCache: the objects it holds
    cacheEnabled,  \* g_queryCacheEnabled
    task,          \* the call each thread is in
    calls,         \* how many calls the threads have made
    isOpen,        \* what the client library believes
    session,       \* number of the current session of a connection
    alive,         \* that session still exists
    heard,         \* monitors whose notifications the session delivers
    losses,
    exited,
    ops,           \* the operations the program uses
    meant          \* history: what the program last bound to a query, or to a copy of it

locks == <<queryMutex, monitorMutex>>
objects == <<registry, query, shares, cache, cacheEnabled, meant>>
conns == <<isOpen, session, alive, losses>>
vars == <<locks, objects, monitors, heard, task, calls, conns, exited, ops>>

-----------------------------------------------------------------------------
(* State *)

Idle == [op |-> "idle"]

\* Where a call is: registering or unregistering its object, inside
\* checkDbIsAlive (from "lockQueries" to "subscribe"), at its driver command,
\* inserting into the cache, or emptying the cache for setEnabled.
Places == {"register", "unregister", "lockQueries", "lockMonitors", "loop", "drop",
           "prepareAgain", "subscribe", "driver", "insert", "empty"}

Tasks == [op : {"construct", "constructExec", "prepare", "exec", "destroy", "cached",
                "setEnabled"},
          obj : Query \cup {None}, stmt : Stmt \cup {None}, at : Places,
          attempt : {1, 2}, retry : 0 .. MaxRetry, left : SUBSET Query,
          saved : [Query -> Value \cup {None}]]

\* A query's statement is prepared in a session, or in none (0).  That it is ready
\* is what the program knows: the last prepare returned without an exception.
Free == [life |-> "free", conn |-> None, stmt |-> None, session |-> 0, ready |-> FALSE,
         bound |-> None]

\* A SqlQuery of connection t, with the statement s prepared in session n.
NewQuery(t, life, s, n, v) ==
    [life |-> life, conn |-> t, stmt |-> s, session |-> n, ready |-> n > 0, bound |-> v]

Objects == [life : {"free", "alive", "cached", "dead"}, conn : Conn \cup {None},
            stmt : Stmt \cup {None}, session : 0 .. MaxLoss + 1, ready : BOOLEAN,
            bound : Value \cup {None}]

\* Objects S get results of their own, or lose the one they had.
Detached(S) == [x \in Query |-> IF x \in S THEN {x} ELSE shares[x] \ S]

\* Object q becomes a copy of h.
Joined(q, h) ==
    LET all == shares[h] \cup {q}
    IN  [x \in Query |-> IF x \in all THEN all ELSE shares[x] \ {q}]

\* The queries whose values are bound together with those of q.
Copies(q) == {x \in shares[q] : query[x].conn = query[q].conn}

SameThread(t, u) == t = u \/ {t, u} \subseteq MainConn

At(t, where) == ~exited /\ task[t] # Idle /\ task[t].at = where

GoTo(t, where) == task' = [task EXCEPT ![t].at = where]

Return(t) == task' = [task EXCEPT ![t] = Idle]

\* Mutant: the test of the connection name is inverted.
OtherRegistered(t) == {q \in registry : query[q].conn # t}

\* The queries of a connection that checkDbIsAlive prepares again.
Registered(t) == {q \in registry : query[q].conn = t}

\* SqlQueryCache::contains and query
Cached(t, s) == {q \in cache : query[q].conn = t /\ query[q].stmt = s}

-----------------------------------------------------------------------------
(* The program's calls *)

Init ==
    /\ queryMutex = None /\ monitorMutex = None
    /\ registry = {} /\ monitors = {}
    /\ query = [q \in Query |-> Free]
    /\ shares = [q \in Query |-> {q}]
    /\ cache = {} /\ cacheEnabled = TRUE
    /\ task = [t \in Conn |-> Idle]
    /\ calls = 0
    /\ isOpen = [t \in Conn |-> TRUE]
    /\ session = [t \in Conn |-> 1]
    /\ alive = [t \in Conn |-> TRUE]
    /\ heard = [t \in Conn |-> {}]
    /\ losses = 0
    /\ exited = FALSE
    /\ ops \in Programs
    /\ meant = [q \in Query |-> None]

\* A thread that is in no call starts one.
MayCall(t, op) ==
    /\ op \in ops
    /\ ~exited
    /\ calls < MaxCalls
    /\ \A u \in Conn : SameThread(t, u) => task[u] = Idle
    /\ calls' = calls + 1

Start(t, op, q, s, where) ==
    /\ MayCall(t, op)
    /\ task' = [task EXCEPT ![t] =
                  [op |-> op, obj |-> q, stmt |-> s, at |-> where, attempt |-> 1,
                   retry |-> 0, left |-> {}, saved |-> [x \in Query |-> None]]]

\* An object that no call of any thread is constructing.
Unused(q) ==
    /\ query[q].life = "free"
    /\ \A u \in Conn : task[u] # Idle => task[u].obj # q

Own(t) == {q \in Query : query[q].life = "alive" /\ query[q].conn = t}

Construct(t, q) ==
    /\ Unused(q)
    /\ Start(t, "construct", q, None, "register")
    /\ UNCHANGED <<locks, objects, monitors, heard, conns, exited, ops>>

\* SqlQuery( text, db )
ConstructExec(t, q, s) ==
    /\ Unused(q)
    /\ Start(t, "constructExec", q, s, "register")
    /\ UNCHANGED <<locks, objects, monitors, heard, conns, exited, ops>>

Prepare(t, q, s) ==
    /\ q \in Own(t)
    /\ Start(t, "prepare", q, s, "lockQueries")
    /\ UNCHANGED <<locks, objects, monitors, heard, conns, exited, ops>>

Exec(t, q) ==
    /\ q \in Own(t) /\ query[q].ready
    /\ Start(t, "exec", q, None, "lockQueries")
    /\ UNCHANGED <<locks, objects, monitors, heard, conns, exited, ops>>

Destroy(t, q) ==
    /\ q \in Own(t)
    /\ Start(t, "destroy", q, None, "unregister")
    /\ UNCHANGED <<locks, objects, monitors, heard, conns, exited, ops>>

\* The objects of a prepareQuery under way: the program's, and the cache's.
Needs(u) ==
    IF task[u] = Idle \/ task[u].op # "cached" THEN 0
    ELSE IF task[u].at = "register" THEN 2 ELSE 1

\* Of the bounded set of objects there are enough for another prepareQuery.
EnoughObjects ==
    Cardinality({o \in Query : query[o] = Free}) >= 2 + MapThenSumSet(Needs, Conn)

\* SqlQueryBuilderBase::prepareQuery
PrepareCached(t, q, s) ==
    /\ Unused(q)
    /\ EnoughObjects
    /\ Start(t, "cached", q, s, "register")
    /\ UNCHANGED <<locks, objects, monitors, heard, conns, exited, ops>>

\* SqlQueryCache::clear() empties the hash first and destroys its queries then.
ClearCache == cache' = {}

\* SqlQueryCache::setEnabled
SetEnabled(t, b) ==
    /\ MayCall(t, "setEnabled")
    /\ cacheEnabled' = b
    /\ ClearCache
    /\ task' = [task EXCEPT ![t] =
                  [op |-> "setEnabled", obj |-> None, stmt |-> None, at |-> "empty",
                   attempt |-> 1, retry |-> 0, left |-> cache \ cache',
                   saved |-> [x \in Query |-> None]]]
    /\ UNCHANGED <<locks, registry, query, shares, meant, monitors, heard, conns, exited, ops>>

\* QSqlQuery::bindValue, which binds the value of every copy.
Bind(t, q, v) ==
    /\ MayCall(t, "bind")
    /\ q \in Own(t) /\ query[q].ready
    /\ query' = [x \in Query |-> IF x \in Copies(q) THEN [query[x] EXCEPT !.bound = v] ELSE query[x]]
    /\ meant' = [x \in Query |-> IF x \in Copies(q) THEN v ELSE meant[x]]
    /\ UNCHANGED <<locks, registry, shares, cache, cacheEnabled, monitors, heard, task, conns,
                   exited, ops>>

\* SqlMonitor::SqlMonitor with setMonitorTables, and ~SqlMonitor, which leaves
\* the subscription behind.
CreateMonitor(t, m) ==
    /\ MayCall(t, "monitor")
    /\ monitorMutex = None
    /\ \A p \in monitors : p[1] # m
    /\ monitors' = monitors \cup {<<m, t>>}
    /\ heard' = [heard EXCEPT ![t] = IF isOpen[t] /\ alive[t] THEN @ \cup {m} ELSE @]
    /\ isOpen' = [isOpen EXCEPT ![t] = @ /\ alive[t]]
    /\ UNCHANGED <<locks, objects, task, session, alive, losses, exited, ops>>

DestroyMonitor(t, m) ==
    /\ MayCall(t, "monitor")
    /\ monitorMutex = None
    /\ <<m, t>> \in monitors
    /\ monitors' = monitors \ {<<m, t>>}
    /\ UNCHANGED <<locks, objects, heard, task, conns, exited, ops>>

-----------------------------------------------------------------------------
(* registerQuery and unregisterQuery *)

\* Mutant: the destructor does not unregister the query.
LeaveRegistered(q) ==
    /\ queryMutex = None
    /\ query' = [query EXCEPT ![q] = Free]
    /\ shares' = Detached({q})
    /\ meant' = [meant EXCEPT ![q] = None]
    /\ UNCHANGED registry

\* The end of a query that is not being constructed: it is out of the registry.
Unregister(q) ==
    /\ queryMutex = None
    /\ registry' = registry \ {q}
    /\ query' = [query EXCEPT ![q] = Free]
    /\ shares' = Detached({q})
    /\ meant' = [meant EXCEPT ![q] = None]

Register(t) ==
    LET k == task[t]
        hit == IF k.op = "cached" /\ cacheEnabled THEN Cached(t, k.stmt) ELSE {}
    IN  /\ At(t, "register")
        /\ queryMutex = None
        /\ registry' = registry \cup {k.obj}
        /\ IF hit # {}
           THEN /\ \E h \in hit :
                     /\ query' = [query EXCEPT ![k.obj] =
                                    NewQuery(t, "alive", query[h].stmt, query[h].session,
                                             query[h].bound)]
                     /\ shares' = Joined(k.obj, h)
                /\ Return(t)
           ELSE /\ query' = [query EXCEPT ![k.obj] = NewQuery(t, "alive", None, 0, None)]
                /\ shares' = Detached({k.obj})
                /\ IF k.op = "construct" THEN Return(t) ELSE GoTo(t, "lockQueries")
        /\ meant' = [meant EXCEPT ![k.obj] = query'[k.obj].bound]
        /\ UNCHANGED <<locks, cache, cacheEnabled, monitors, heard, calls, conns, exited, ops>>

DestroyEnd(t) ==
    /\ At(t, "unregister")
    /\ Unregister(task[t].obj)
    /\ Return(t)
    /\ UNCHANGED <<locks, cache, cacheEnabled, monitors, heard, calls, conns, exited, ops>>

\* SqlQueryCache::insert looks at the flag again.
Caches == cacheEnabled

\* SqlQueryCache::insert: the copy in the hash registers itself.
Insert(t) ==
    LET k == task[t]
    IN  /\ At(t, "insert")
        /\ IF Caches
           THEN /\ queryMutex = None
                /\ \E q \in Query :
                     /\ Unused(q)
                     /\ registry' = registry \cup {q}
                     /\ cache' = cache \cup {q}
                     /\ query' = [query EXCEPT ![q] =
                                    NewQuery(t, "cached", k.stmt, query[k.obj].session,
                                             query[k.obj].bound)]
                     /\ shares' = Joined(q, k.obj)
           ELSE UNCHANGED <<registry, cache, query, shares>>
        /\ Return(t)
        /\ UNCHANGED <<locks, meant, cacheEnabled, monitors, heard, calls, conns, exited, ops>>

\* setEnabled destroys one cached query after the other.
Empty(t) ==
    /\ At(t, "empty")
    /\ \/ /\ task[t].left = {}
          /\ Return(t)
          /\ UNCHANGED <<registry, query, shares, meant>>
       \/ \E q \in task[t].left :
             /\ Unregister(q)
             /\ task' = [task EXCEPT ![t].left = @ \ {q}]
    /\ UNCHANGED <<locks, cache, cacheEnabled, monitors, heard, calls, conns, exited, ops>>

-----------------------------------------------------------------------------
(* checkDbIsAlive *)

\* Both mutexes are taken for the whole body, and the bound values saved.
LockQueries(t) ==
    /\ At(t, "lockQueries")
    /\ queryMutex = None
    /\ queryMutex' = t
    /\ GoTo(t, "lockMonitors")
    /\ UNCHANGED <<monitorMutex, objects, monitors, heard, calls, conns, exited, ops>>

\* What is saved of the queries of the connection.
BoundValues(t) ==
    [q \in Query |-> IF q \in Registered(t) THEN query[q].bound ELSE None]

LockMonitors(t) ==
    /\ At(t, "lockMonitors")
    /\ monitorMutex = None
    /\ monitorMutex' = t
    /\ task' = [task EXCEPT ![t].at = "loop", ![t].retry = 0,
                  ![t].saved = BoundValues(t)]
    /\ UNCHANGED <<queryMutex, objects, monitors, heard, calls, conns, exited, ops>>

\* Mutant: the second mutex stays locked.
UnlockFirst == queryMutex' = None /\ UNCHANGED monitorMutex

Unlock == queryMutex' = None /\ monitorMutex' = None

\* retryCount has reached its bound.
GivesUp(t) == task[t].retry = MaxRetry

\* The connection is open, or open() failed too often.
LeaveLoop(t) ==
    /\ At(t, "loop")
    /\ isOpen[t] \/ (t \notin MainConn /\ GivesUp(t))
    /\ Unlock
    /\ GoTo(t, "driver")
    /\ UNCHANGED <<objects, monitors, heard, calls, conns, exited, ops>>

\* ::exit(1) in the main thread
Exit(t) ==
    /\ At(t, "loop")
    /\ ~isOpen[t] /\ t \in MainConn
    /\ exited' = TRUE
    /\ UNCHANGED <<locks, objects, monitors, heard, task, calls, conns, ops>>

OpenFails(t) ==
    /\ At(t, "loop")
    /\ ~isOpen[t] /\ t \notin MainConn /\ ~GivesUp(t)
    /\ task' = [task EXCEPT ![t].retry = @ + 1]
    /\ UNCHANGED <<locks, objects, monitors, heard, calls, conns, exited, ops>>

\* open() succeeds and SqlQueryCache::clear() begins.
Reopen(t) ==
    /\ At(t, "loop")
    /\ ~isOpen[t] /\ t \notin MainConn /\ ~GivesUp(t)
    /\ isOpen' = [isOpen EXCEPT ![t] = TRUE]
    /\ alive' = [alive EXCEPT ![t] = TRUE]
    /\ session' = [session EXCEPT ![t] = @ + 1]
    /\ ClearCache
    /\ task' = [task EXCEPT ![t].at = "drop", ![t].retry = @ + 1, ![t].left = cache \ cache']
    /\ UNCHANGED <<locks, registry, query, shares, cacheEnabled, meant, monitors, heard, calls,
                   losses, exited, ops>>

\* The queries that have a text to prepare again.
WithStatement(t) == {q \in Registered(t) : query[q].stmt # None}

\* ~SqlQuery of every query that was cached locks queryMutex, which this
\* thread holds.
Drop(t) ==
    LET dropped == task[t].left
    IN  /\ At(t, "drop")
        /\ dropped # {} => queryMutex = None
        /\ registry' = registry \ dropped
        /\ query' = [q \in Query |-> IF q \in dropped THEN Free ELSE query[q]]
        /\ shares' = Detached(dropped)
        /\ task' = [task EXCEPT ![t].at = "prepareAgain",
                      ![t].left = WithStatement(t) \ dropped]
        /\ UNCHANGED <<locks, cache, cacheEnabled, meant, monitors, heard, calls, conns, exited, ops>>

\* Mutant: the values are lost with the session.
Unbound(t, q) == None

\* What the query is bound to again.
SavedValue(t, q) == task[t].saved[q]

\* QSqlQuery::prepare sends nothing over a closed connection.  A query that shared
\* its result is left with an empty one, any other with all it had.
Unsent(q) ==
    IF shares[q] = {q} THEN query[q]
    ELSE [query[q] EXCEPT !.stmt = None, !.session = 0, !.bound = None]

\* prepareWithoutCheck, and the saved values.  That it fails, since the server
\* refuses the statement, or the connection is lost again, is ignored.
PrepareAgain(t) ==
    /\ At(t, "prepareAgain")
    /\ \E q \in task[t].left, ok \in BOOLEAN :
          /\ ok => alive[t]
          /\ ~ok => ~alive[t] \/ "refuse" \in ops
          /\ query' = [query EXCEPT ![q] =
                IF ~isOpen[t] THEN Unsent(q)
                ELSE [query[q] EXCEPT
                        !.session = IF ok THEN session[t]
                                    ELSE IF alive[t] THEN 0 ELSE query[q].session,
                        !.bound = SavedValue(t, q)]]
          /\ shares' = Detached({q})
          /\ task' = [task EXCEPT ![t].left = @ \ {q}]
    /\ isOpen' = [isOpen EXCEPT ![t] = alive[t]]
    /\ UNCHANGED <<locks, registry, cache, cacheEnabled, meant, monitors, heard, calls,
                   session, alive, losses, exited, ops>>

PreparedAgain(t) ==
    /\ At(t, "prepareAgain")
    /\ task[t].left = {}
    /\ GoTo(t, "subscribe")
    /\ UNCHANGED <<locks, objects, monitors, heard, calls, conns, exited, ops>>

\* Mutant: what the driver believes to be subscribed is left alone.
NotResubscribed(t) == heard[t]

\* The monitors of the connection.
Resubscribed(t) == {m \in Monitor : <<m, t>> \in monitors}

\* Everything is unsubscribed, and the monitors of the connection subscribed.
Subscribe(t) ==
    /\ At(t, "subscribe")
    /\ heard' = [heard EXCEPT ![t] = IF alive[t] THEN Resubscribed(t) ELSE {}]
    /\ isOpen' = [isOpen EXCEPT ![t] = @ /\ (alive[t] \/ \A m \in Monitor : <<m, t>> \notin monitors)]
    /\ GoTo(t, "loop")
    /\ UNCHANGED <<locks, objects, monitors, calls, session, alive, losses, exited, ops>>

-----------------------------------------------------------------------------
(* Driver commands *)

\* A command reaches the server.
Works(t) == isOpen[t] /\ alive[t]

\* The statement of the query is prepared in the session the server has.
Runnable(q, t) == query[q].session = session[t]

\* Mutant: prepareQuery does not look at the failure.
FailedCached(t) ==
    LET k == task[t]
    IN  IF ~isOpen'[t] /\ k.attempt = 1
        THEN task' = [task EXCEPT ![t].at = "lockQueries", ![t].attempt = 2]
        ELSE IF k.op = "cached" THEN GoTo(t, "insert") ELSE Return(t)

\* The second checkDbIsAlive, or the exception after the second attempt.  An
\* object whose constructor throws is gone without its destructor; the local
\* query of prepareQuery is destroyed.
Failed(t) ==
    LET k == task[t]
    IN  IF ~isOpen'[t] /\ k.attempt = 1
        THEN task' = [task EXCEPT ![t].at = "lockQueries", ![t].attempt = 2]
        ELSE IF k.op = "cached" THEN GoTo(t, "unregister") ELSE Return(t)

Dies(t) ==
    /\ task[t].op = "constructExec"
    /\ ~(~isOpen'[t] /\ task[t].attempt = 1)

\* prepare() of "prepare" and "cached"; the text that was sent stays with the
\* query also when preparing fails.
DriverPrepare(t) ==
    LET k == task[t]
    IN  /\ At(t, "driver") /\ k.op \in {"prepare", "cached"}
        /\ \E ok \in BOOLEAN :
              /\ ok => Works(t)
              /\ ~ok => ~Works(t) \/ "refuse" \in ops
              /\ isOpen' = [isOpen EXCEPT ![t] = @ /\ alive[t]]
              /\ query' = [query EXCEPT ![k.obj] =
                    IF isOpen[t]
                    THEN NewQuery(t, "alive", k.stmt, IF ok THEN session[t] ELSE 0, None)
                    ELSE [Unsent(k.obj) EXCEPT !.ready = FALSE]]
              /\ meant' = [meant EXCEPT ![k.obj] = query'[k.obj].bound]
              /\ IF ok
                 THEN IF k.op = "cached" THEN GoTo(t, "insert") ELSE Return(t)
                 ELSE Failed(t)
        /\ shares' = Detached({k.obj})
        /\ UNCHANGED <<locks, registry, cache, cacheEnabled, monitors, heard, calls, session,
                       alive, losses, exited, ops>>

\* exec() of a prepared query, and exec( text ) of a new one, which keeps the
\* text: the retry is an exec() that relies on its being prepared meanwhile.
OfText(k) == k.op = "constructExec" /\ k.attempt = 1

DriverExec(t) ==
    LET k == task[t]
    IN  /\ At(t, "driver") /\ k.op \in {"exec", "constructExec"}
        /\ \E ok \in BOOLEAN :
              /\ ok => Works(t) /\ (OfText(k) \/ Runnable(k.obj, t))
              /\ ~ok => \/ ~Works(t) \/ "refuse" \in ops
                        \/ ~OfText(k) /\ ~Runnable(k.obj, t)
              /\ isOpen' = [isOpen EXCEPT ![t] = @ /\ alive[t]]
              /\ query' = [query EXCEPT ![k.obj] =
                             IF k.op = "exec" THEN @
                             ELSE NewQuery(t, IF ~ok /\ Dies(t) THEN "dead" ELSE "alive",
                                           k.stmt, IF ok THEN session[t] ELSE 0, None)]
              /\ IF ok THEN Return(t) ELSE Failed(t)
        /\ UNCHANGED <<locks, registry, shares, cache, cacheEnabled, meant, monitors, heard,
                       calls, session, alive, losses, exited, ops>>

-----------------------------------------------------------------------------
(* The environment, and the specification *)

Lose(t) ==
    /\ ~exited
    /\ losses < MaxLoss
    /\ alive[t]
    /\ alive' = [alive EXCEPT ![t] = FALSE]
    /\ heard' = [heard EXCEPT ![t] = {}]
    /\ losses' = losses + 1
    /\ UNCHANGED <<locks, objects, monitors, task, calls, isOpen, session, exited, ops>>

Step(t) ==
    \/ Register(t) \/ DestroyEnd(t) \/ Insert(t) \/ Empty(t)
    \/ LockQueries(t) \/ LockMonitors(t) \/ LeaveLoop(t) \/ Exit(t) \/ OpenFails(t)
    \/ Reopen(t) \/ Drop(t) \/ PrepareAgain(t) \/ PreparedAgain(t) \/ Subscribe(t)
    \/ DriverPrepare(t) \/ DriverExec(t)

Call(t) ==
    \/ \E q \in Query : \/ Construct(t, q) \/ Exec(t, q) \/ Destroy(t, q)
                        \/ \E s \in Stmt : \/ ConstructExec(t, q, s) \/ Prepare(t, q, s)
                                           \/ PrepareCached(t, q, s)
                        \/ \E v \in Value : Bind(t, q, v)
    \/ \E b \in BOOLEAN : SetEnabled(t, b)
    \/ \E m \in Monitor : CreateMonitor(t, m) \/ DestroyMonitor(t, m)

\* Every thread has made its calls, or the process has ended.
Finished == exited \/ \A t \in Conn : task[t] = Idle

Done == Finished /\ UNCHANGED vars

Next ==
    \/ \E t \in Conn : Step(t) \/ Call(t) \/ Lose(t)
    \/ Done

Spec == Init /\ [][Next]_vars

\* A thread that can go on does.  A mutex is not fair, but its owner always
\* releases it and no thread calls for ever.
FairSpec == Spec /\ \A t \in Conn : WF_vars(Step(t))

-----------------------------------------------------------------------------
(* Properties *)

\* Every variable stays within its type.
TypeOK ==
    /\ queryMutex \in Conn \cup {None} /\ monitorMutex \in Conn \cup {None}
    /\ registry \subseteq Query /\ cache \subseteq Query
    /\ monitors \subseteq Monitor \X Conn
    /\ query \in [Query -> Objects] /\ shares \in [Query -> SUBSET Query]
    /\ cacheEnabled \in BOOLEAN
    /\ task \in [Conn -> Tasks \cup {Idle}]
    /\ calls \in 0 .. MaxCalls
    /\ isOpen \in [Conn -> BOOLEAN] /\ alive \in [Conn -> BOOLEAN]
    /\ session \in [Conn -> 1 .. MaxLoss + 1]
    /\ heard \in [Conn -> SUBSET Monitor]
    /\ losses \in 0 .. MaxLoss /\ exited \in BOOLEAN /\ ops \in Programs
    /\ meant \in [Query -> Value \cup {None}]

\* A thread in the part of checkDbIsAlive that runs under both mutexes.
Checking(t) ==
    /\ task[t] # Idle
    /\ task[t].at \in {"loop", "drop", "prepareAgain", "subscribe"}

\* A query the program executes is prepared in the session the server has,
\* whenever that session can be reached: the losses in the middle of preparing
\* again, and the queries prepared before them, are what a test would have to
\* hit.  It is prepared in none only if preparing again was refused by the
\* server, or found the connection lost and the text shared: that is ignored.
ExecFresh ==
    \A t \in Conn :
        At(t, "driver") /\ task[t].op = "exec" /\ Works(t)
        => Runnable(task[t].obj, t) \/ query[task[t].obj].session = 0

\* A query is executed in a session in which its statement is prepared.
\* Promised, and not kept: see "Disagreements" in the README.
ExecPrepared ==
    \A t \in Conn :
        At(t, "driver") /\ task[t].op = "exec" /\ Works(t) => Runnable(task[t].obj, t)

\* Preparing again keeps the values the program bound, to the query or to a copy
\* that shares them, as long as it keeps the statement.
BoundKept ==
    \A q \in Query : \A t \in Conn :
        q \in Own(t) /\ ~Checking(t) /\ query[q].stmt # None => query[q].bound = meant[q]

\* No query loses its statement, and the values bound to it, with a connection.
\* Promised, and not kept: see "Disagreements" in the README.
StatementsKept == \A q \in Query : query[q].ready => query[q].stmt # None

\* The registry holds exactly the queries that exist, and those whose
\* constructor threw: one that is missing is never prepared again, one too
\* many is a dangling pointer.
RegistryExact == registry = {q \in Query : query[q].life # "free"}

\* checkDbIsAlive never touches a query that no longer exists.
\* Promised, and not kept: see "Disagreements" in the README.
RegistryAlive == \A q \in registry : query[q].life # "dead"

\* A cached query is never handed out for a session that is over, unless the
\* loss has not been noticed.
CacheFresh ==
    \A q \in cache :
        LET t == query[q].conn IN Works(t) /\ ~Checking(t) => Runnable(q, t)

\* A connection that is back delivers the notifications of every monitor.
MonitorsHeard ==
    \A m \in Monitor, t \in Conn :
        <<m, t>> \in monitors /\ Works(t) /\ ~Checking(t) => m \in heard[t]

\* A thread waits for the mutex it holds.
SelfDeadlocked(t) == At(t, "drop") /\ task[t].left # {} /\ queryMutex = t

\* No thread waits for the mutex it holds: checkDbIsAlive gets over every
\* lost connection.
\* Promised, and not kept: see "Disagreements" in the README.
NoSelfDeadlock == \A t \in Conn : ~SelfDeadlocked(t)

\* The process never gives up a connection it has not tried to open again.
\* Promised, and not kept: see "Disagreements" in the README.
RetryBeforeExit ==
    [][~exited /\ exited' => \E t \in Conn : task[t].op # "idle" /\ task[t].retry > 0]_vars

\* Every call returns or throws, or the process ends, also while other
\* threads hold the mutexes through ten attempts to open.  What stops a
\* thread for ever is only the mutex that checkDbIsAlive took and asks for
\* again, in the thread itself or in another that waits for it.
CallsReturn ==
    \A t \in Conn :
        task[t] # Idle ~> exited \/ task[t] = Idle \/ \E u \in Conn : SelfDeadlocked(u)
=============================================================================
