------------------------ MODULE SqlQueryManagerProofs ------------------------
(***************************************************************************)
(* Proofs about SqlQueryManager, for every set of connections, queries,    *)
(* monitors and statements, every program and every bound.                 *)
(***************************************************************************)
EXTENDS SqlQueryManager, TLAPS

-----------------------------------------------------------------------------
(* The inductive invariant *)

\* Where the call of a thread is, if it is in one.
Stage(t) == IF task[t] = Idle THEN "idle" ELSE task[t].at

Constructs == {"construct", "constructExec", "cached"}

\* The object of a call: a constructor's does not exist before it is
\* registered, and is nobody else's; any other lives on the connection of the
\* call until the call ends.
CallObjects ==
    \A t \in Conn :
        task[t] # Idle /\ task[t].op # "setEnabled" =>
            /\ task[t].obj \in Query
            /\ IF task[t].op \in Constructs /\ task[t].at = "register"
               THEN /\ query[task[t].obj].life = "free"
                    /\ \A u \in Conn \ {t} :
                          task[u] # Idle /\ task[u].op # "setEnabled" => task[u].obj # task[t].obj
               ELSE /\ query[task[t].obj].life = "alive"
                    /\ query[task[t].obj].conn = t

\* The stages of the operations.
CallStages ==
    \A t \in Conn : task[t] # Idle =>
        /\ task[t].op = "setEnabled" <=> task[t].at = "empty"
        /\ task[t].at = "register" => task[t].op \in Constructs
        /\ task[t].at = "insert" => task[t].op = "cached"
        /\ task[t].op = "construct" => task[t].at = "register"
        /\ task[t].op = "destroy" => task[t].at = "unregister"
        /\ task[t].op \in {"constructExec", "prepare", "cached"} => task[t].stmt # None

\* What a thread that empties the cache has taken out of it is in no other
\* hands.
Emptying(t) == Stage(t) \in {"empty", "drop"}

CacheApart ==
    /\ \A q \in cache : query[q].life = "cached" /\ query[q].conn \in Conn
    /\ \A t \in Conn : Emptying(t) =>
          /\ \A q \in task[t].left : query[q].life = "cached" /\ q \notin cache
          /\ \A u \in Conn \ {t} : Emptying(u) => task[t].left \cap task[u].left = {}

\* A query that is prepared at all is so in the session of its connection if that
\* can be reached and checkDbIsAlive has nothing left to do for the query.
Prepared(q) == query[q].stmt # None /\ query[q].session > 0

Live(q, t) == query[q].life \in {"alive", "cached"} /\ query[q].conn = t

PreparedFresh ==
    \A t \in Conn, q \in Query :
        Live(q, t) /\ Prepared(q) /\ Works(t) =>
            \/ Runnable(q, t)
            \/ Stage(t) = "drop"
            \/ Stage(t) = "prepareAgain" /\ q \in task[t].left

\* What is cached or about to be is prepared, and nothing without a statement is.
OnlyPrepared ==
    /\ \A q \in cache : Prepared(q)
    /\ \A t \in Conn : Stage(t) = "insert" => Prepared(task[t].obj)
    /\ \A q \in Query : query[q].session > 0 => query[q].stmt # None

\* Also in the middle of checkDbIsAlive.
BoundMeant ==
    /\ \A q \in Query :
          query[q].life = "alive" /\ query[q].stmt # None => query[q].bound = meant[q]
    /\ \A t \in Conn, q \in Query :
          Checking(t) /\ q \in Own(t) /\ query[q].stmt # None => task[t].saved[q] = meant[q]
    /\ \A t \in Conn : task[t].op = "constructExec" /\ Stage(t) # "register" =>
          meant[task[t].obj] = None

AllHeard ==
    \A m \in Monitor, t \in Conn :
        /\ <<m, t>> \in monitors /\ Works(t)
        /\ Stage(t) \notin {"drop", "prepareAgain", "subscribe"}
        => m \in heard[t]

\* checkDbIsAlive holds its mutexes, and the queries it prepares again are
\* those of its connection; nothing is cached before it is done with them.
Locked ==
    \A t \in Conn :
        /\ Stage(t) \in {"lockMonitors", "loop", "drop", "prepareAgain", "subscribe"} =>
              queryMutex = t
        /\ Checking(t) => monitorMutex = t
        /\ Stage(t) = "prepareAgain" => task[t].left \subseteq WithStatement(t)
        /\ Stage(t) \in {"drop", "prepareAgain"} => cache = {}

\* A connection found closed has no session.
ClosedIsGone == \A t \in Conn : ~isOpen[t] => ~alive[t]

\* Every session but the first replaces one that was lost.
SessionsCounted ==
    \A t \in Conn : session[t] <= IF alive[t] THEN losses + 1 ELSE losses

QueryInv ==
    /\ TypeOK /\ CallObjects /\ CallStages /\ RegistryExact /\ CacheApart
    /\ PreparedFresh /\ OnlyPrepared /\ BoundMeant /\ AllHeard /\ Locked /\ ClosedIsGone
    /\ SessionsCounted

-----------------------------------------------------------------------------
(* How a step changes the call of its thread *)

\* Nothing of the program is None, and an idle thread has no task.
LEMMA NoneIsNeither ==
    /\ None \notin Conn /\ None \notin Stmt /\ None \notin Value
    /\ Idle \notin Tasks /\ Idle.op = "idle"
  BY ConnAssumption DEF Idle, Tasks

\* A thread at a place is in a call.
LEMMA AtPlace ==
    ASSUME TypeOK, NEW t \in Conn, NEW where, At(t, where)
    PROVE  ~exited /\ task[t] # Idle /\ task[t] \in Tasks /\ task[t].at = where
  BY DEF TypeOK, At

\* The operation, its object and its statement stay while the call lasts.
SameCall(t) ==
    task'[t].op = task[t].op /\ task'[t].obj = task[t].obj /\ task'[t].stmt = task[t].stmt

\* Going on changes the place only.
LEMMA GoToTask ==
    ASSUME TypeOK, NEW t \in Conn, NEW where \in Places, task[t] # Idle, GoTo(t, where)
    PROVE  /\ task' \in [Conn -> Tasks \cup {Idle}]
           /\ \A u \in Conn \ {t} : task'[u] = task[u]
           /\ task'[t] # Idle /\ task'[t].at = where /\ SameCall(t)
           /\ task'[t].left = task[t].left /\ task'[t].saved = task[t].saved
  <1>1. task[t] \in Tasks
    BY DEF TypeOK
  <1>2. [task[t] EXCEPT !.at = where] \in Tasks
    BY <1>1 DEF Tasks
  <1>3. task' = [task EXCEPT ![t] = [task[t] EXCEPT !.at = where]]
    BY DEF GoTo
  <1>4. QED
    BY <1>2, <1>3, NoneIsNeither DEF TypeOK, SameCall

\* A step that assigns a task to its thread changes no other's.
LEMMA ChangeTask ==
    ASSUME TypeOK, NEW t \in Conn, NEW k \in Tasks, task' = [task EXCEPT ![t] = k]
    PROVE  /\ task' \in [Conn -> Tasks \cup {Idle}]
           /\ \A u \in Conn \ {t} : task'[u] = task[u]
           /\ task'[t] = k /\ k # Idle
  BY NoneIsNeither DEF TypeOK

\* What is left of a destroyed query has the type of one.
LEMMA FreeType == Free \in Objects
  BY BoundsAssumption DEF Free, Objects

\* The parts of a task have their types.
LEMMA TaskType ==
    ASSUME TypeOK, NEW t \in Conn, task[t] # Idle
    PROVE  /\ task[t] \in Tasks /\ task[t].left \subseteq Query
           /\ task[t].obj \in Query \cup {None} /\ task[t].saved \in [Query -> Value \cup {None}]
  BY DEF TypeOK, Tasks

\* What is executed or put into the cache exists, on the connection of the call.
LEMMA RunsAlive ==
    ASSUME CallObjects, CallStages, NEW t \in Conn, task[t] # Idle,
           task[t].op = "exec" \/ task[t].at = "insert"
    PROVE  /\ task[t].obj \in Query /\ query[task[t].obj].life = "alive"
           /\ query[task[t].obj].conn = t
  BY DEF CallObjects, CallStages, Constructs

\* Results that are not shared any more, and a new copy, keep their type.
LEMMA SharesType ==
    ASSUME TypeOK
    PROVE  /\ \A S : Detached(S) \in [Query -> SUBSET Query]
           /\ \A q, h \in Query : Joined(q, h) \in [Query -> SUBSET Query]
  <1>1. \A q \in Query : shares[q] \subseteq Query
    BY DEF TypeOK
  <1>2. ASSUME NEW q \in Query, NEW h \in Query PROVE Joined(q, h) \in [Query -> SUBSET Query]
    BY <1>1 DEF Joined
  <1>3. QED
    BY <1>1, <1>2 DEF Detached

\* A call that returns leaves its thread idle.
LEMMA ReturnTask ==
    ASSUME TypeOK, NEW t \in Conn, Return(t)
    PROVE  /\ task' \in [Conn -> Tasks \cup {Idle}]
           /\ \A u \in Conn \ {t} : task'[u] = task[u]
           /\ task'[t] = Idle
  BY DEF TypeOK, Return

\* A call starts in an idle thread, and counts.
LEMMA StartTask ==
    ASSUME TypeOK, NEW t \in Conn,
           NEW op \in {"construct", "constructExec", "prepare", "exec", "destroy", "cached",
                      "setEnabled"},
           NEW q \in Query \cup {None}, NEW s \in Stmt \cup {None},
           NEW where \in Places, Start(t, op, q, s, where)
    PROVE  /\ task' \in [Conn -> Tasks \cup {Idle}]
           /\ \A u \in Conn \ {t} : task'[u] = task[u]
           /\ task[t] = Idle /\ task'[t] # Idle
           /\ task'[t].op = op /\ task'[t].obj = q /\ task'[t].stmt = s
           /\ task'[t].at = where
           /\ calls' \in 0 .. MaxCalls /\ ~exited
  <1> DEFINE k == [op |-> op, obj |-> q, stmt |-> s, at |-> where, attempt |-> 1,
                   retry |-> 0, left |-> {}, saved |-> [x \in Query |-> None]]
  <1>1. k \in Tasks
    BY BoundsAssumption DEF Tasks
  <1>2. task' = [task EXCEPT ![t] = k] /\ calls' = calls + 1 /\ calls < MaxCalls /\ ~exited
    BY DEF Start, MayCall
  <1>3. task[t] = Idle
    BY DEF Start, MayCall, SameThread
  <1>4. QED
    BY <1>1, <1>2, <1>3, NoneIsNeither, BoundsAssumption DEF TypeOK

-----------------------------------------------------------------------------
(* The program's calls *)

\* The calls on a query: its construction, prepare(), exec(), its destruction.
LEMMA StartInv ==
    ASSUME QueryInv, NEW t \in Conn,
           NEW op \in {"construct", "constructExec", "prepare", "exec", "destroy", "cached"},
           NEW q \in Query, NEW s \in Stmt \cup {None}, NEW where \in Places,
           Start(t, op, q, s, where),
           UNCHANGED <<locks, objects, monitors, heard, conns, exited, ops>>,
           \/ op \in Constructs /\ where = "register" /\ Unused(q)
           \/ op \in {"prepare", "exec"} /\ where = "lockQueries" /\ q \in Own(t)
           \/ op = "destroy" /\ where = "unregister" /\ q \in Own(t),
           op \in {"constructExec", "prepare", "cached"} => s # None
    PROVE  QueryInv'
  <1> USE DEF QueryInv
  <1>1. /\ task' \in [Conn -> Tasks \cup {Idle}]
        /\ \A u \in Conn \ {t} : task'[u] = task[u]
        /\ task[t] = Idle /\ task'[t] # Idle
        /\ task'[t].op = op /\ task'[t].obj = q /\ task'[t].stmt = s
        /\ task'[t].at = where
        /\ calls' \in 0 .. MaxCalls /\ ~exited
    BY StartTask
  <1>2. UNCHANGED <<queryMutex, monitorMutex, registry, query, shares, cache, cacheEnabled, meant,
                    monitors, heard, isOpen, session, alive, losses, exited, ops>>
    BY DEF locks, objects, conns
  <1>3. TypeOK'
    BY <1>1, <1>2 DEF TypeOK
  <1>4. CallObjects'
    BY <1>1, <1>2 DEF CallObjects, Unused, Own
  <1>5. CallStages'
    BY <1>1 DEF CallStages, Constructs
  <1>6. RegistryExact'
    BY <1>2 DEF RegistryExact
  <1>7. CacheApart'
    BY <1>1, <1>2 DEF CacheApart, Emptying, Stage
  <1>8. PreparedFresh'
    BY <1>1, <1>2 DEF PreparedFresh, Live, Prepared, Works, Runnable, Stage
  <1>9. OnlyPrepared'
    BY <1>1, <1>2 DEF OnlyPrepared, Prepared, Stage
  <1>10. BoundMeant'
    BY <1>1, <1>2 DEF BoundMeant, Checking, Own, Stage
  <1>11. AllHeard'
    BY <1>1, <1>2 DEF AllHeard, Works, Stage
  <1>12. Locked'
    BY <1>1, <1>2 DEF Locked, Checking, Stage, Registered, WithStatement
  <1>13. ClosedIsGone' /\ SessionsCounted'
    BY <1>2 DEF ClosedIsGone, SessionsCounted
  <1>14. QED
    BY <1>3, <1>4, <1>5, <1>6, <1>7, <1>8, <1>9, <1>10, <1>11, <1>12, <1>13

-----------------------------------------------------------------------------
(* Steps *)

\* Under the first mutex.
LEMMA LockQueriesInv ==
    ASSUME QueryInv, NEW t \in Conn, LockQueries(t)
    PROVE  QueryInv'
  <1> USE DEF QueryInv
  <1>1. UNCHANGED <<monitorMutex, registry, monitors, query, shares, cache, cacheEnabled, calls, isOpen,
                    session, alive, heard, losses, exited, ops, meant>>
    BY DEF LockQueries, objects, conns
  <1>2. ~exited /\ task[t] # Idle /\ task[t] \in Tasks /\ task[t].at = "lockQueries"
    BY AtPlace DEF LockQueries
  <1>3. /\ task' \in [Conn -> Tasks \cup {Idle}]
        /\ \A u \in Conn \ {t} : task'[u] = task[u]
        /\ task'[t] # Idle /\ task'[t].at = "lockMonitors" /\ SameCall(t)
        /\ task'[t].left = task[t].left /\ task'[t].saved = task[t].saved
    BY <1>2, GoToTask DEF LockQueries, Places
  <1>4. queryMutex = None /\ queryMutex' = t
    BY DEF LockQueries
  <1>5. TypeOK'
    BY <1>1, <1>3, <1>4 DEF TypeOK
  <1>6. CallObjects'
    BY <1>1, <1>2, <1>3 DEF CallObjects, SameCall
  <1>7. CallStages'
    BY <1>2, <1>3 DEF CallStages, SameCall
  <1>8. CacheApart'
    BY <1>1, <1>3 DEF CacheApart, Emptying, Stage
  <1>9. PreparedFresh'
    BY <1>1, <1>2, <1>3 DEF PreparedFresh, Live, Prepared, Works, Runnable, Stage
  <1>10. OnlyPrepared'
    BY <1>1, <1>2, <1>3 DEF OnlyPrepared, Prepared, Stage, SameCall
  <1>11. BoundMeant'
    BY <1>1, <1>2, <1>3 DEF BoundMeant, Checking, Own, Stage, SameCall
  <1>12. AllHeard'
    BY <1>1, <1>2, <1>3 DEF AllHeard, Works, Stage
  <1>13. Locked'
    BY <1>3, <1>4, NoneIsNeither DEF Locked, Checking, Stage
  <1>14. (RegistryExact /\ ClosedIsGone /\ SessionsCounted)'
    BY <1>1 DEF RegistryExact, ClosedIsGone, SessionsCounted
  <1>15. QED
    BY <1>5, <1>6, <1>7, <1>8, <1>9, <1>10, <1>11, <1>12, <1>13, <1>14

\* The mutexes are released.
LEMMA LeaveLoopInv ==
    ASSUME QueryInv, NEW t \in Conn, LeaveLoop(t)
    PROVE  QueryInv'
  <1> USE DEF QueryInv
  <1>1. UNCHANGED <<registry, monitors, query, shares, cache, cacheEnabled, calls, isOpen, session, alive,
                    heard, losses, exited, ops, meant>>
    BY DEF LeaveLoop, objects, conns
  <1>2. ~exited /\ task[t] # Idle /\ task[t] \in Tasks /\ task[t].at = "loop"
    BY AtPlace DEF LeaveLoop
  <1>3. /\ task' \in [Conn -> Tasks \cup {Idle}]
        /\ \A u \in Conn \ {t} : task'[u] = task[u]
        /\ task'[t] # Idle /\ task'[t].at = "driver" /\ SameCall(t)
        /\ task'[t].left = task[t].left /\ task'[t].saved = task[t].saved
    BY <1>2, GoToTask DEF LeaveLoop, Places
  <1>4. queryMutex' = None /\ monitorMutex' = None
    BY DEF LeaveLoop, Unlock
  <1>5. TypeOK'
    BY <1>1, <1>3, <1>4 DEF TypeOK
  <1>6. CallObjects'
    BY <1>1, <1>2, <1>3 DEF CallObjects, SameCall
  <1>7. CallStages'
    BY <1>2, <1>3 DEF CallStages, SameCall
  <1>8. CacheApart'
    BY <1>1, <1>3 DEF CacheApart, Emptying, Stage
  <1>9. PreparedFresh'
    BY <1>1, <1>2, <1>3 DEF PreparedFresh, Live, Prepared, Works, Runnable, Stage
  <1>10. OnlyPrepared'
    BY <1>1, <1>2, <1>3 DEF OnlyPrepared, Prepared, Stage, SameCall
  <1>11. BoundMeant'
    BY <1>1, <1>2, <1>3 DEF BoundMeant, Checking, Own, Stage, SameCall
  <1>12. AllHeard'
    BY <1>1, <1>2, <1>3 DEF AllHeard, Works, Stage
  <1>13. Locked'
    BY <1>2, <1>3 DEF Locked, Checking, Stage
  <1>14. (RegistryExact /\ ClosedIsGone /\ SessionsCounted)'
    BY <1>1 DEF RegistryExact, ClosedIsGone, SessionsCounted
  <1>15. QED
    BY <1>5, <1>6, <1>7, <1>8, <1>9, <1>10, <1>11, <1>12, <1>13, <1>14

\* The process ends.
LEMMA ExitInv ==
    ASSUME QueryInv, NEW t \in Conn, Exit(t)
    PROVE  QueryInv'
  <1> USE DEF QueryInv
  <1>1. UNCHANGED <<queryMutex, monitorMutex, registry, monitors, query, shares, cache, cacheEnabled,
                    task, calls, isOpen, session, alive, heard, losses, ops, meant>>
    BY DEF Exit, locks, objects, conns
  <1>2. ~exited /\ task[t] # Idle /\ task[t] \in Tasks /\ task[t].at = "loop"
    BY AtPlace DEF Exit
  <1>3. exited' = TRUE
    BY DEF Exit
  <1>4. TypeOK'
    BY <1>1, <1>3 DEF TypeOK
  <1>5. Locked'
    BY <1>1, <1>2 DEF Locked, Checking, Stage
  <1>6. (CallObjects /\ CallStages /\ RegistryExact /\ CacheApart /\ PreparedFresh
          /\ OnlyPrepared /\ BoundMeant /\ AllHeard /\ ClosedIsGone /\ SessionsCounted)'
    BY <1>1 DEF CallObjects, CallStages, RegistryExact, CacheApart, Emptying, Stage,
       PreparedFresh, Live, Prepared, Works, Runnable, OnlyPrepared, BoundMeant, Checking, Own,
       AllHeard, ClosedIsGone, SessionsCounted
  <1>7. QED
    BY <1>4, <1>5, <1>6

\* All queries are prepared again.
LEMMA PreparedAgainInv ==
    ASSUME QueryInv, NEW t \in Conn, PreparedAgain(t)
    PROVE  QueryInv'
  <1> USE DEF QueryInv
  <1>1. UNCHANGED <<queryMutex, monitorMutex, registry, monitors, query, shares, cache, cacheEnabled,
                    calls, isOpen, session, alive, heard, losses, exited, ops, meant>>
    BY DEF PreparedAgain, locks, objects, conns
  <1>2. ~exited /\ task[t] # Idle /\ task[t] \in Tasks /\ task[t].at = "prepareAgain"
    BY AtPlace DEF PreparedAgain
  <1>3. /\ task' \in [Conn -> Tasks \cup {Idle}]
        /\ \A u \in Conn \ {t} : task'[u] = task[u]
        /\ task'[t] # Idle /\ task'[t].at = "subscribe" /\ SameCall(t)
        /\ task'[t].left = task[t].left /\ task'[t].saved = task[t].saved
    BY <1>2, GoToTask DEF PreparedAgain, Places
  <1>4. task[t].left = {}
    BY DEF PreparedAgain
  <1>5. TypeOK'
    BY <1>1, <1>3 DEF TypeOK
  <1>6. CallObjects'
    BY <1>1, <1>2, <1>3 DEF CallObjects, SameCall
  <1>7. CallStages'
    BY <1>2, <1>3 DEF CallStages, SameCall
  <1>8. CacheApart'
    BY <1>1, <1>3 DEF CacheApart, Emptying, Stage
  <1>9. PreparedFresh'
    BY <1>1, <1>2, <1>3, <1>4 DEF PreparedFresh, Live, Prepared, Works, Runnable, Stage
  <1>10. OnlyPrepared'
    BY <1>1, <1>2, <1>3 DEF OnlyPrepared, Prepared, Stage, SameCall
  <1>11. BoundMeant'
    BY <1>1, <1>2, <1>3 DEF BoundMeant, Checking, Own, Stage, SameCall
  <1>12. AllHeard'
    BY <1>1, <1>3 DEF AllHeard, Works, Stage
  <1>13. Locked'
    BY <1>1, <1>2, <1>3 DEF Locked, Checking, Stage
  <1>14. (RegistryExact /\ ClosedIsGone /\ SessionsCounted)'
    BY <1>1 DEF RegistryExact, ClosedIsGone, SessionsCounted
  <1>15. QED
    BY <1>5, <1>6, <1>7, <1>8, <1>9, <1>10, <1>11, <1>12, <1>13, <1>14

\* Under both mutexes; the bound values are saved.
LEMMA LockMonitorsInv ==
    ASSUME QueryInv, NEW t \in Conn, LockMonitors(t)
    PROVE  QueryInv'
  <1> USE DEF QueryInv
  <1>1. UNCHANGED <<queryMutex, registry, monitors, query, shares, cache, cacheEnabled, calls, isOpen,
                    session, alive, heard, losses, exited, ops, meant>>
    BY DEF LockMonitors, objects, conns
  <1>2. ~exited /\ task[t] # Idle /\ task[t] \in Tasks /\ task[t].at = "lockMonitors"
    BY AtPlace DEF LockMonitors
  <1>3. BoundValues(t) \in [Query -> Value \cup {None}]
    BY DEF TypeOK, Objects, BoundValues
  <1>4. 0 \in 0 .. MaxRetry /\ "loop" \in Places
    BY BoundsAssumption DEF Places
  <1>5. [task[t] EXCEPT !.at = "loop", !.retry = 0, !.saved = BoundValues(t)] \in Tasks
    BY <1>2, <1>3, <1>4 DEF Tasks
  <1>6. task' = [task EXCEPT ![t] = [task[t] EXCEPT !.at = "loop", !.retry = 0,
                                                    !.saved = BoundValues(t)]]
    BY DEF LockMonitors
  <1>7. /\ task' \in [Conn -> Tasks \cup {Idle}]
        /\ \A u \in Conn \ {t} : task'[u] = task[u]
        /\ task'[t] # Idle /\ SameCall(t)
        /\ task'[t].at = "loop" /\ task'[t].left = task[t].left
        /\ task'[t].saved = BoundValues(t)
    BY <1>5, <1>6, ChangeTask DEF Tasks, SameCall, TypeOK
  <1>8. monitorMutex' = t /\ queryMutex = t /\ monitorMutex = None
    BY <1>2 DEF LockMonitors, Locked, Stage
  <1>9. \A q \in Own(t) : query[q].stmt # None => BoundValues(t)[q] = meant[q]
    BY DEF RegistryExact, BoundMeant, Own, Registered, BoundValues
  <1>10. TypeOK'
    BY <1>1, <1>7, <1>8 DEF TypeOK
  <1>11. CallObjects'
    BY <1>1, <1>2, <1>7 DEF CallObjects, SameCall
  <1>12. CallStages'
    BY <1>2, <1>7 DEF CallStages, SameCall
  <1>13. CacheApart'
    BY <1>1, <1>7 DEF CacheApart, Emptying, Stage
  <1>14. PreparedFresh'
    BY <1>1, <1>2, <1>7 DEF PreparedFresh, Live, Prepared, Works, Runnable, Stage
  <1>15. OnlyPrepared'
    BY <1>1, <1>2, <1>7 DEF OnlyPrepared, Prepared, Stage, SameCall
  <1>16. BoundMeant'
    BY <1>1, <1>2, <1>7, <1>9 DEF BoundMeant, Checking, Own, Stage, SameCall
  <1>17. AllHeard'
    BY <1>1, <1>2, <1>7 DEF AllHeard, Works, Stage
  <1>18. Locked'
    BY <1>1, <1>2, <1>7, <1>8 DEF Locked, Checking, Stage
  <1>19. (RegistryExact /\ ClosedIsGone /\ SessionsCounted)'
    BY <1>1 DEF RegistryExact, ClosedIsGone, SessionsCounted
  <1>20. QED
    BY <1>10, <1>11, <1>12, <1>13, <1>14, <1>15, <1>16, <1>17, <1>18, <1>19

\* Another attempt to open.
LEMMA OpenFailsInv ==
    ASSUME QueryInv, NEW t \in Conn, OpenFails(t)
    PROVE  QueryInv'
  <1> USE DEF QueryInv
  <1>1. UNCHANGED <<queryMutex, monitorMutex, registry, monitors, query, shares, cache, cacheEnabled,
                    calls, isOpen, session, alive, heard, losses, exited, ops, meant>>
    BY DEF OpenFails, locks, objects, conns
  <1>2. ~exited /\ task[t] # Idle /\ task[t] \in Tasks /\ task[t].at = "loop"
    BY AtPlace DEF OpenFails
  <1>3. [task[t] EXCEPT !.retry = @ + 1] \in Tasks
    BY <1>2, BoundsAssumption DEF Tasks, OpenFails, GivesUp
  <1>4. /\ task' \in [Conn -> Tasks \cup {Idle}]
        /\ \A u \in Conn \ {t} : task'[u] = task[u]
        /\ task'[t] # Idle /\ SameCall(t)
        /\ task'[t].at = "loop" /\ task'[t].left = task[t].left
        /\ task'[t].saved = task[t].saved
    BY <1>2, <1>3, ChangeTask DEF OpenFails, Tasks, SameCall
  <1>5. TypeOK'
    BY <1>1, <1>4 DEF TypeOK
  <1>6. CallObjects'
    BY <1>1, <1>2, <1>4 DEF CallObjects, SameCall
  <1>7. CallStages'
    BY <1>2, <1>4 DEF CallStages, SameCall
  <1>8. CacheApart'
    BY <1>1, <1>4 DEF CacheApart, Emptying, Stage
  <1>9. PreparedFresh'
    BY <1>1, <1>2, <1>4 DEF PreparedFresh, Live, Prepared, Works, Runnable, Stage
  <1>10. OnlyPrepared'
    BY <1>1, <1>2, <1>4 DEF OnlyPrepared, Prepared, Stage, SameCall
  <1>11. BoundMeant'
    BY <1>1, <1>2, <1>4 DEF BoundMeant, Checking, Own, Stage, SameCall
  <1>12. AllHeard'
    BY <1>1, <1>2, <1>4 DEF AllHeard, Works, Stage
  <1>13. Locked'
    BY <1>1, <1>2, <1>4 DEF Locked, Checking, Stage
  <1>14. (RegistryExact /\ ClosedIsGone /\ SessionsCounted)'
    BY <1>1 DEF RegistryExact, ClosedIsGone, SessionsCounted
  <1>15. QED
    BY <1>5, <1>6, <1>7, <1>8, <1>9, <1>10, <1>11, <1>12, <1>13, <1>14

\* A new session.
LEMMA ReopenInv ==
    ASSUME QueryInv, NEW t \in Conn, Reopen(t)
    PROVE  QueryInv'
  <1> USE DEF QueryInv
  <1>1. UNCHANGED <<queryMutex, monitorMutex, registry, monitors, query, shares, cacheEnabled, calls,
                    heard, losses, exited, ops, meant>>
    BY DEF Reopen, locks
  <1>2. ~exited /\ task[t] # Idle /\ task[t] \in Tasks /\ task[t].at = "loop"
    BY AtPlace DEF Reopen
  <1>3. /\ \A u \in Conn \ {t} :
              isOpen'[u] = isOpen[u] /\ alive'[u] = alive[u] /\ session'[u] = session[u]
        /\ isOpen'[t] /\ alive'[t] /\ session'[t] = session[t] + 1 /\ ~alive[t]
        /\ cache' = {}
    BY DEF Reopen, ClearCache, ClosedIsGone, TypeOK
  <1>4. /\ task' \in [Conn -> Tasks \cup {Idle}]
        /\ \A u \in Conn \ {t} : task'[u] = task[u]
        /\ task'[t] # Idle /\ SameCall(t)
        /\ task'[t].at = "drop" /\ task'[t].left = cache
        /\ task'[t].saved = task[t].saved
    BY <1>2 DEF Reopen, Tasks, TypeOK
  <1>5. session'[t] \in 1 .. MaxLoss + 1
    BY <1>3, BoundsAssumption DEF TypeOK, SessionsCounted
  <1>6. /\ isOpen' \in [Conn -> BOOLEAN] /\ alive' \in [Conn -> BOOLEAN]
        /\ session' \in [Conn -> 1 .. MaxLoss + 1]
    BY <1>5 DEF TypeOK, Reopen
  <1>7. TypeOK'
    BY <1>1, <1>3, <1>4, <1>6 DEF TypeOK
  <1>8. CallObjects'
    BY <1>1, <1>2, <1>4 DEF CallObjects, SameCall
  <1>9. CallStages'
    BY <1>2, <1>4 DEF CallStages, SameCall
  <1>10. RegistryExact'
    BY <1>1 DEF RegistryExact
  <1>11. CacheApart'
    BY <1>1, <1>3, <1>4 DEF CacheApart, Emptying, Stage
  <1>12. PreparedFresh'
    BY <1>1, <1>3, <1>4 DEF PreparedFresh, Live, Prepared, Works, Runnable, Stage
  <1>13. OnlyPrepared'
    BY <1>1, <1>2, <1>3, <1>4 DEF OnlyPrepared, Prepared, Stage, SameCall
  <1>14. BoundMeant'
    BY <1>1, <1>2, <1>4 DEF BoundMeant, Checking, Own, Stage, SameCall
  <1>15. AllHeard'
    BY <1>1, <1>3, <1>4 DEF AllHeard, Works, Stage
  <1>16. Locked'
    BY <1>1, <1>2, <1>3, <1>4 DEF Locked, Checking, Stage
  <1>17. ClosedIsGone'
    BY <1>3 DEF ClosedIsGone
  <1>18. SessionsCounted'
    BY <1>1, <1>3 DEF SessionsCounted, TypeOK
  <1>19. QED
    BY <1>7, <1>8, <1>9, <1>10, <1>11, <1>12, <1>13, <1>14, <1>15, <1>16, <1>17, <1>18

\* The cached queries are destroyed.
LEMMA DropInv ==
    ASSUME QueryInv, NEW t \in Conn, Drop(t)
    PROVE  QueryInv'
  <1> USE DEF QueryInv
  <1>1. UNCHANGED <<queryMutex, monitorMutex, monitors, cache, cacheEnabled, calls, isOpen,
                    session, alive, heard, losses, exited, ops, meant>>
    BY DEF Drop, locks, conns
  <1>2. ~exited /\ task[t] # Idle /\ task[t] \in Tasks /\ task[t].at = "drop"
    BY AtPlace DEF Drop
  <1>3. /\ task[t].left \subseteq Query
        /\ \A q \in task[t].left : query[q].life = "cached" /\ q \notin cache
        /\ \A u \in Conn \ {t} : Emptying(u) => task[t].left \cap task[u].left = {}
    BY <1>2 DEF CacheApart, Emptying, Stage, Tasks
  <1>4. [task[t] EXCEPT !.at = "prepareAgain",
                  !.left = WithStatement(t) \ task[t].left] \in Tasks
    BY <1>2 DEF Tasks, TypeOK, Places, Registered, WithStatement
  <1>5. task' = [task EXCEPT ![t] = [task[t] EXCEPT !.at = "prepareAgain",
                                                    !.left = WithStatement(t) \ task[t].left]]
    BY DEF Drop
  <1>6. /\ task' \in [Conn -> Tasks \cup {Idle}]
        /\ \A u \in Conn \ {t} : task'[u] = task[u]
        /\ task'[t] # Idle /\ SameCall(t)
        /\ task'[t].at = "prepareAgain"
        /\ task'[t].left = WithStatement(t) \ task[t].left
        /\ task'[t].saved = task[t].saved
    BY <1>4, <1>5, ChangeTask DEF Tasks, SameCall, TypeOK
  <1>7. /\ registry' = registry \ task[t].left
        /\ query' \in [Query -> Objects]
        /\ \A q \in task[t].left : query'[q] = Free
        /\ \A q \in Query \ task[t].left : query'[q] = query[q]
        /\ shares' \in [Query -> SUBSET Query]
    BY <1>3, FreeType, SharesType DEF Drop, TypeOK
  <1>8. Free.life = "free" /\ Free.stmt = None /\ Free.session = 0
    BY DEF Free
  <1>9. TypeOK'
    BY <1>1, <1>6, <1>7 DEF TypeOK
  <1>10. CallObjects'
    BY <1>2, <1>3, <1>6, <1>7 DEF CallObjects, SameCall
  <1>11. CallStages'
    BY <1>2, <1>6 DEF CallStages, SameCall
  <1>12. RegistryExact'
    BY <1>7, <1>8 DEF RegistryExact
  <1>13. CacheApart'
    <2>1. cache' = {}
      BY <1>1, <1>2 DEF Locked, Stage
    <2>2. ASSUME NEW u \in Conn, Emptying(u)'
          PROVE  /\ u # t /\ Emptying(u) /\ task'[u] = task[u]
                 /\ task[u].left \subseteq Query \ task[t].left
      <3>1. u # t /\ Emptying(u) /\ task'[u] = task[u] /\ task[u] # Idle
        BY <1>6, <2>2 DEF Emptying, Stage
      <3>2. QED
        BY <1>3, <3>1, TaskType
    <2>3. ASSUME NEW u \in Conn, Emptying(u)', NEW p \in task'[u].left
          PROVE  query'[p].life = "cached"
      BY <1>7, <2>2, <2>3 DEF CacheApart
    <2>4. QED
      BY <2>1, <2>2, <2>3 DEF CacheApart
  <1>14. PreparedFresh'
    BY <1>1, <1>6, <1>7, <1>8 DEF PreparedFresh, Live, Prepared, Works, Runnable, Stage,
       RegistryExact, Registered, WithStatement
  <1>15. OnlyPrepared'
    BY <1>1, <1>2, <1>3, <1>6, <1>7, <1>8, RunsAlive DEF OnlyPrepared, Prepared, Stage, TypeOK,
       SameCall
  <1>16. BoundMeant'
    BY <1>1, <1>2, <1>6, <1>7, <1>8 DEF BoundMeant, Checking, Own, Stage, SameCall
  <1>17. AllHeard'
    BY <1>1, <1>6 DEF AllHeard, Works, Stage
  <1>18. Locked'
    BY <1>1, <1>2, <1>6, <1>7 DEF Locked, Checking, Stage, Registered, TypeOK, WithStatement
  <1>19. (ClosedIsGone /\ SessionsCounted)'
    BY <1>1 DEF ClosedIsGone, SessionsCounted
  <1>20. QED
    BY <1>9, <1>10, <1>11, <1>12, <1>13, <1>14, <1>15, <1>16, <1>17, <1>18, <1>19

\* Everything is unsubscribed, and the monitors subscribed again.
LEMMA SubscribeInv ==
    ASSUME QueryInv, NEW t \in Conn, Subscribe(t)
    PROVE  QueryInv'
  <1> USE DEF QueryInv
  <1>1. UNCHANGED <<queryMutex, monitorMutex, registry, monitors, query, shares, cache, cacheEnabled,
                    calls, session, alive, losses, exited, ops, meant>>
    BY DEF Subscribe, locks, objects
  <1>2. ~exited /\ task[t] # Idle /\ task[t] \in Tasks /\ task[t].at = "subscribe"
    BY AtPlace DEF Subscribe
  <1>3. /\ task' \in [Conn -> Tasks \cup {Idle}]
        /\ \A u \in Conn \ {t} : task'[u] = task[u]
        /\ task'[t] # Idle /\ task'[t].at = "loop" /\ SameCall(t)
        /\ task'[t].left = task[t].left /\ task'[t].saved = task[t].saved
    BY <1>2, GoToTask DEF Subscribe, Places
  <1>4. /\ heard' = [heard EXCEPT ![t] = IF alive[t] THEN Resubscribed(t) ELSE {}]
        /\ isOpen' = [isOpen EXCEPT ![t] =
                         @ /\ (alive[t] \/ \A m \in Monitor : <<m, t>> \notin monitors)]
    BY DEF Subscribe
  <1>5. TypeOK'
    BY <1>1, <1>3, <1>4 DEF TypeOK, Resubscribed
  <1>6. CallObjects'
    BY <1>1, <1>2, <1>3 DEF CallObjects, SameCall
  <1>7. CallStages'
    BY <1>2, <1>3 DEF CallStages, SameCall
  <1>8. CacheApart'
    BY <1>1, <1>3 DEF CacheApart, Emptying, Stage
  <1>9. PreparedFresh'
    BY <1>1, <1>2, <1>3, <1>4 DEF PreparedFresh, Live, Prepared, Works, Runnable,
       Stage, TypeOK
  <1>10. OnlyPrepared'
    BY <1>1, <1>2, <1>3 DEF OnlyPrepared, Prepared, Stage, SameCall
  <1>11. BoundMeant'
    BY <1>1, <1>2, <1>3 DEF BoundMeant, Checking, Own, Stage, SameCall
  <1>12. AllHeard'
    BY <1>1, <1>3, <1>4 DEF AllHeard, Works, Stage, Resubscribed, TypeOK
  <1>13. Locked'
    BY <1>1, <1>2, <1>3 DEF Locked, Checking, Stage
  <1>14. ClosedIsGone'
    BY <1>1, <1>4 DEF ClosedIsGone, TypeOK
  <1>15. (RegistryExact /\ SessionsCounted)'
    BY <1>1 DEF RegistryExact, SessionsCounted
  <1>16. QED
    BY <1>5, <1>6, <1>7, <1>8, <1>9, <1>10, <1>11, <1>12, <1>13, <1>14, <1>15

\* One query is prepared again.
LEMMA PrepareAgainInv ==
    ASSUME QueryInv, NEW t \in Conn, PrepareAgain(t)
    PROVE  QueryInv'
  <1> USE DEF QueryInv
  <1>1. UNCHANGED <<queryMutex, monitorMutex, registry, monitors, cache, cacheEnabled, calls,
                    session, alive, heard, losses, exited, ops, meant>>
    BY DEF PrepareAgain, locks
  <1>2. ~exited /\ task[t] # Idle /\ task[t] \in Tasks /\ task[t].at = "prepareAgain"
    BY AtPlace DEF PrepareAgain
  <1>3. PICK q \in task[t].left, ok \in BOOLEAN :
        /\ ok => alive[t]
        /\ query' = [query EXCEPT ![q] =
              IF ~isOpen[t] THEN Unsent(q)
              ELSE [query[q] EXCEPT
                      !.session = IF ok THEN session[t]
                                  ELSE IF alive[t] THEN 0 ELSE query[q].session,
                      !.bound = SavedValue(t, q)]]
        /\ shares' = Detached({q})
        /\ task' = [task EXCEPT ![t].left = @ \ {q}]
        /\ isOpen' = [isOpen EXCEPT ![t] = alive[t]]
    BY DEF PrepareAgain
  <1>4. /\ task' \in [Conn -> Tasks \cup {Idle}]
        /\ \A u \in Conn \ {t} : task'[u] = task[u]
        /\ task'[t] # Idle /\ SameCall(t)
        /\ task'[t].at = "prepareAgain" /\ task'[t].left = task[t].left \ {q}
        /\ task'[t].saved = task[t].saved
    BY <1>2, <1>3, ChangeTask DEF Tasks, SameCall, TypeOK
  <1>5. /\ q \in Query /\ query[q].conn = t /\ q \in registry /\ query[q].stmt # None
        /\ cache = {}
    BY <1>2 DEF TypeOK, Locked, Stage, Registered, WithStatement
  <1>6. /\ SavedValue(t, q) \in Value \cup {None} /\ query[q] \in Objects
        /\ session[t] \in 0 .. MaxLoss + 1 /\ session[t] > 0 /\ 0 \in 0 .. MaxLoss + 1
    BY <1>2, <1>5, BoundsAssumption DEF TypeOK, Tasks, SavedValue
  <1> DEFINE n == IF ok THEN session[t] ELSE IF alive[t] THEN 0 ELSE query[q].session
  <1>7. \E new \in Objects :
          /\ query' = [query EXCEPT ![q] = new]
          /\ new.life = query[q].life /\ new.conn = t
          /\ new.stmt # None => new.stmt = query[q].stmt
          /\ new.session > 0 => new.stmt # None
          /\ isOpen[t] => new.session = n /\ new.bound = task[t].saved[q]
          /\ ~isOpen[t] /\ new.stmt # None => new = query[q]
    <2>1. CASE isOpen[t]
      <3> DEFINE new == [query[q] EXCEPT !.session = n, !.bound = SavedValue(t, q)]
      <3>1. n \in 0 .. MaxLoss + 1
        BY <1>6 DEF Objects
      <3> HIDE DEF n
      <3>2. /\ new \in Objects /\ new.life = query[q].life /\ new.conn = t
            /\ new.stmt = query[q].stmt /\ new.session = n /\ new.bound = SavedValue(t, q)
        BY <1>5, <1>6, <3>1 DEF Objects
      <3>3. query' = [query EXCEPT ![q] = new]
        BY <1>3, <2>1 DEF n
      <3> HIDE DEF new
      <3>4. QED
        BY <1>5, <2>1, <3>2, <3>3 DEF SavedValue
    <2>2. CASE ~isOpen[t] /\ shares[q] = {q}
      <3>1. query' = [query EXCEPT ![q] = query[q]]
        BY <1>3, <2>2 DEF Unsent
      <3>2. QED
        BY <1>5, <1>6, <2>2, <3>1
    <2>3. CASE ~isOpen[t] /\ shares[q] # {q}
      <3> DEFINE new == [query[q] EXCEPT !.stmt = None, !.session = 0, !.bound = None]
      <3>1. /\ new \in Objects /\ new.life = query[q].life /\ new.conn = t
            /\ new.stmt = None /\ new.session = 0
        BY <1>5, <1>6 DEF Objects
      <3>2. query' = [query EXCEPT ![q] = new]
        BY <1>3, <2>3 DEF Unsent
      <3> HIDE DEF new
      <3>3. /\ ~(new.session > 0) /\ ~(new.stmt # None) /\ ~isOpen[t]
        BY <2>3, <3>1
      <3>4. QED
        BY <3>1, <3>2, <3>3
    <2>4. QED
      BY <2>1, <2>2, <2>3
  <1> HIDE DEF n
  <1>8. /\ query' \in [Query -> Objects] /\ shares' \in [Query -> SUBSET Query]
        /\ \A p \in Query \ {q} : query'[p] = query[p]
        /\ query'[q].stmt # None => query'[q].stmt = query[q].stmt
        /\ query'[q].session > 0 => query'[q].stmt # None
        /\ isOpen[t] => query'[q].session = n /\ query'[q].bound = task[t].saved[q]
        /\ ~isOpen[t] /\ query'[q].stmt # None => query'[q] = query[q]
    <2>1. PICK new \in Objects :
            /\ query' = [query EXCEPT ![q] = new]
            /\ new.stmt # None => new.stmt = query[q].stmt
            /\ new.session > 0 => new.stmt # None
            /\ isOpen[t] => new.session = n /\ new.bound = task[t].saved[q]
            /\ ~isOpen[t] /\ new.stmt # None => new = query[q]
      BY <1>7
    <2>2. /\ query' \in [Query -> Objects] /\ query'[q] = new
          /\ \A p \in Query \ {q} : query'[p] = query[p]
      BY <1>5, <2>1 DEF TypeOK
    <2>3. shares' \in [Query -> SUBSET Query]
      BY <1>3, SharesType
    <2>4. QED
      BY <2>1, <2>2, <2>3
  <1>9. \A p \in Query : query'[p].life = query[p].life /\ query'[p].conn = query[p].conn
    BY <1>5, <1>7 DEF TypeOK
  <1>10. /\ isOpen' \in [Conn -> BOOLEAN] /\ (isOpen'[t] <=> alive[t])
         /\ \A u \in Conn \ {t} : isOpen'[u] = isOpen[u]
    BY <1>3 DEF TypeOK
  <1>11. TypeOK'
    BY <1>1, <1>4, <1>8, <1>10 DEF TypeOK
  <1>12. CallObjects'
    BY <1>2, <1>4, <1>8, <1>9 DEF CallObjects, SameCall
  <1>13. CallStages'
    BY <1>2, <1>4 DEF CallStages, SameCall
  <1>14. RegistryExact'
    BY <1>1, <1>9 DEF RegistryExact
  <1>15. CacheApart'
    BY <1>1, <1>2, <1>3, <1>4, <1>9, TaskType DEF CacheApart, Emptying, Stage, TypeOK
  <1>16. PreparedFresh'
    <2> SUFFICES ASSUME NEW u \in Conn, NEW p \in Query, (Live(p, u) /\ Prepared(p) /\ Works(u))'
                 PROVE  \/ Runnable(p, u)' \/ Stage(u)' = "drop"
                        \/ Stage(u)' = "prepareAgain" /\ p \in task'[u].left
      BY DEF PreparedFresh
    <2>1. CASE p = q
      <3>1. u = t /\ alive[t] /\ isOpen[t] /\ query'[q].session > 0
        BY <1>1, <1>5, <1>9, <2>1 DEF Live, Works, Prepared, ClosedIsGone
      <3>2. query'[q].session = session[t]
        BY <1>8, <3>1 DEF n
      <3>3. QED
        BY <1>1, <2>1, <3>1, <3>2 DEF Runnable
    <2>2. CASE p # q
      <3>1. query'[p] = query[p] /\ alive[u] /\ isOpen[u]
        BY <1>1, <1>8, <1>10, <2>2 DEF Works, ClosedIsGone
      <3>2. \/ Runnable(p, u) \/ Stage(u) = "drop"
            \/ Stage(u) = "prepareAgain" /\ p \in task[u].left
        BY <3>1 DEF PreparedFresh, Live, Prepared, Works
      <3>3. CASE u = t
        BY <1>1, <1>2, <1>4, <2>2, <3>1, <3>2, <3>3 DEF Runnable, Stage
      <3>4. CASE u # t
        BY <1>1, <1>4, <3>1, <3>2, <3>4 DEF Runnable, Stage
      <3>5. QED
        BY <3>3, <3>4
    <2>3. QED
      BY <2>1, <2>2
  <1>17. OnlyPrepared'
    <2>1. ASSUME NEW u \in Conn, Stage(u)' = "insert" PROVE Prepared(task[u].obj)'
      <3>1. u # t /\ task'[u] = task[u] /\ task[u] # Idle /\ task[u].at = "insert"
        BY <1>4, <2>1 DEF Stage
      <3>2. task[u].obj \in Query /\ task[u].obj # q /\ Prepared(task[u].obj)
        BY <1>5, <3>1, RunsAlive DEF OnlyPrepared, Stage
      <3>3. QED
        BY <1>8, <3>1, <3>2 DEF Prepared
    <2>2. \A p \in Query : query'[p].session > 0 => query'[p].stmt # None
      BY <1>8 DEF OnlyPrepared
    <2>3. QED
      BY <1>1, <1>5, <2>1, <2>2 DEF OnlyPrepared
  <1>18. BoundMeant'
    <2>1. \A p \in Query : query'[p].stmt # None => query[p].stmt # None
      BY <1>5, <1>8
    <2>2. ASSUME NEW p \in Query, query'[p].life = "alive", query'[p].stmt # None
          PROVE  query'[p].bound = meant'[p]
      <3>1. query[p].life = "alive" /\ query[p].stmt # None
        BY <1>9, <2>1, <2>2
      <3>2. CASE p = q /\ isOpen[t]
        <4>1. Checking(t) /\ q \in Own(t)
          BY <1>2, <1>5, <3>1, <3>2 DEF Checking, Own
        <4>2. QED
          BY <1>1, <1>8, <3>1, <3>2, <4>1 DEF BoundMeant
      <3>3. CASE ~(p = q /\ isOpen[t])
        BY <1>1, <1>8, <2>2, <3>1, <3>3 DEF BoundMeant
      <3>4. QED
        BY <3>2, <3>3
    <2>3. ASSUME NEW u \in Conn, NEW p \in Query, Checking(u)', p \in Own(u)', query'[p].stmt # None
          PROVE  task'[u].saved[p] = meant'[p]
      <3>1. Checking(u) /\ p \in Own(u) /\ query[p].stmt # None
        BY <1>2, <1>4, <1>9, <2>1, <2>3 DEF Checking, Own
      <3>2. QED
        BY <1>1, <1>4, <3>1 DEF BoundMeant
    <2>4. ASSUME NEW u \in Conn, task'[u].op = "constructExec", Stage(u)' # "register"
          PROVE  meant'[task'[u].obj] = None
      BY <1>1, <1>2, <1>4, <2>4 DEF BoundMeant, Stage, SameCall
    <2>5. QED
      BY <2>2, <2>3, <2>4 DEF BoundMeant
  <1>19. AllHeard'
    BY <1>1, <1>4, <1>10 DEF AllHeard, Works, Stage
  <1>20. Locked'
    <2>1. ASSUME NEW u \in Conn, Stage(u)' = "prepareAgain"
          PROVE  task'[u].left \subseteq WithStatement(u)'
      <3>1. /\ Stage(u) = "prepareAgain" /\ task'[u].left \subseteq task[u].left
            /\ u = t => q \notin task'[u].left
        BY <1>2, <1>4, <2>1 DEF Stage
      <3>2. ASSUME NEW p \in task'[u].left
            PROVE  p \in Query /\ p \in registry /\ query[p].conn = u /\ query[p].stmt # None
        BY <3>1 DEF Locked, WithStatement, Registered, TypeOK
      <3>3. \A p \in task'[u].left : p # q
        BY <1>5, <3>1, <3>2
      <3>4. QED
        BY <1>1, <1>8, <3>2, <3>3 DEF WithStatement, Registered
    <2>2. \A u \in Conn : Stage(u)' = Stage(u) /\ (Checking(u)' <=> Checking(u))
      BY <1>2, <1>4 DEF Stage, Checking
    <2>3. QED
      BY <1>1, <2>1, <2>2 DEF Locked
  <1>21. ClosedIsGone'
    BY <1>1, <1>10 DEF ClosedIsGone
  <1>22. SessionsCounted'
    BY <1>1 DEF SessionsCounted
  <1>23. QED
    BY <1>11, <1>12, <1>13, <1>14, <1>15, <1>16, <1>17, <1>18, <1>19, <1>20, <1>21, <1>22

\* A constructor registers its object.
LEMMA RegisterInv ==
    ASSUME QueryInv, NEW t \in Conn, Register(t)
    PROVE  QueryInv'
  <1> USE DEF QueryInv
  <1>1. UNCHANGED <<queryMutex, monitorMutex, monitors, cache, cacheEnabled, calls, isOpen,
                    session, alive, heard, losses, exited, ops>>
    BY DEF Register, locks, conns
  <1>2. ~exited /\ task[t] # Idle /\ task[t] \in Tasks /\ task[t].at = "register"
    BY AtPlace DEF Register
  <1>3. /\ queryMutex = None /\ task[t].op \in Constructs /\ task[t].obj \in Query
        /\ query[task[t].obj].life = "free"
        /\ \A u \in Conn \ {t} :
              task[u] # Idle /\ task[u].op # "setEnabled" => task[u].obj # task[t].obj
    BY <1>2 DEF Register, CallStages, CallObjects
  <1>4. PICK st \in Stmt \cup {None}, n \in 0 .. MaxLoss + 1, v \in Value \cup {None} :
        /\ query' = [query EXCEPT ![task[t].obj] = NewQuery(t, "alive", st, n, v)]
        /\ task[t].op # "cached" => v = None
        /\ n > 0 =>
             \E h \in Query : Live(h, t) /\ query[h].stmt = st /\ query[h].session = n
    <2>1. \/ query' = [query EXCEPT ![task[t].obj] = NewQuery(t, "alive", None, 0, None)]
          \/ /\ task[t].op = "cached"
             /\ \E h \in Cached(t, task[t].stmt) :
                  query' = [query EXCEPT ![task[t].obj] =
                              NewQuery(t, "alive", query[h].stmt, query[h].session, query[h].bound)]
      BY DEF Register
    <2>2. CASE query' = [query EXCEPT ![task[t].obj] = NewQuery(t, "alive", None, 0, None)]
      <3>1. 0 \in 0 .. MaxLoss + 1 /\ ~(0 > 0)
        BY BoundsAssumption
      <3>2. QED
        BY <2>2, <3>1
    <2>3. ASSUME task[t].op = "cached", NEW h \in Cached(t, task[t].stmt),
                 query' = [query EXCEPT ![task[t].obj] =
                             NewQuery(t, "alive", query[h].stmt, query[h].session, query[h].bound)]
          PROVE  /\ h \in Query /\ Live(h, t) /\ query[h].stmt \in Stmt \cup {None}
                 /\ query[h].session \in 0 .. MaxLoss + 1 /\ query[h].bound \in Value \cup {None}
      BY DEF TypeOK, Objects, Cached, CacheApart, Live
    <2>4. QED
      BY <2>1, <2>2, <2>3
  <1>5. /\ task' \in [Conn -> Tasks \cup {Idle}]
        /\ \A u \in Conn \ {t} : task'[u] = task[u]
        /\ task'[t] # Idle =>
             /\ task'[t].at = "lockQueries" /\ SameCall(t) /\ task[t].op # "construct"
             /\ task'[t].left = task[t].left /\ task'[t].saved = task[t].saved
    BY <1>2, GoToTask, ReturnTask DEF Register, Places
  <1>6. NewQuery(t, "alive", st, n, v) \in Objects
    BY DEF NewQuery, Objects
  <1>7. /\ query' \in [Query -> Objects]
        /\ \A p \in Query \ {task[t].obj} : query'[p] = query[p]
        /\ query'[task[t].obj] =
              [life |-> "alive", conn |-> t, stmt |-> st, session |-> n, ready |-> n > 0, bound |-> v]
    BY <1>3, <1>4, <1>6 DEF TypeOK, NewQuery
  <1>8. /\ registry' = registry \cup {task[t].obj}
        /\ meant' = [meant EXCEPT ![task[t].obj] = query'[task[t].obj].bound]
        /\ shares' \in [Query -> SUBSET Query]
    BY <1>3, SharesType DEF Register, Cached, TypeOK
  <1>9. TypeOK'
    BY <1>1, <1>3, <1>5, <1>7, <1>8 DEF TypeOK
  <1>10. CallObjects'
    BY <1>3, <1>5, <1>7 DEF CallObjects, SameCall
  <1>11. CallStages'
    BY <1>2, <1>5 DEF CallStages, SameCall
  <1>12. RegistryExact'
    BY <1>3, <1>7, <1>8 DEF RegistryExact, TypeOK
  <1>13. CacheApart'
    BY <1>1, <1>3, <1>4, <1>5 DEF CacheApart, Emptying, Stage, TypeOK
  <1>14. PreparedFresh'
    BY <1>1, <1>2, <1>4, <1>5, <1>7 DEF PreparedFresh, Live, Prepared, Works, Runnable,
       Stage, TypeOK
  <1>15. OnlyPrepared'
    <2>1. \A p \in Query : query'[p].session > 0 => query'[p].stmt # None
      BY <1>3, <1>4, <1>7 DEF OnlyPrepared
    <2>2. ASSUME NEW p \in cache' PROVE Prepared(p)'
      BY <1>1, <1>3, <1>7 DEF OnlyPrepared, Prepared, CacheApart, TypeOK
    <2>3. ASSUME NEW u \in Conn, Stage(u)' = "insert" PROVE Prepared(task[u].obj)'
      <3>1. u # t /\ task'[u] = task[u] /\ task[u] # Idle /\ task[u].at = "insert"
        BY <1>5, <2>3 DEF Stage
      <3>2. task[u].obj \in Query /\ query[task[u].obj].life = "alive" /\ Prepared(task[u].obj)
        BY <3>1, RunsAlive DEF OnlyPrepared, Stage
      <3>3. QED
        BY <1>3, <1>7, <3>1, <3>2 DEF Prepared
    <2>4. QED
      BY <2>1, <2>2, <2>3 DEF OnlyPrepared
  <1>16. BoundMeant'
    <2>1. meant' = [meant EXCEPT ![task[t].obj] = v] /\ task[t].obj \in Query
      BY <1>3, <1>7, <1>8 DEF TypeOK
    <2>2. \A q \in Query :
            query'[q].life = "alive" /\ query'[q].stmt # None => query'[q].bound = meant'[q]
      BY <1>7, <2>1 DEF BoundMeant, TypeOK
    <2>3. ASSUME NEW u \in Conn, NEW q \in Query, Checking(u)', q \in Own(u)',
                 query'[q].stmt # None
          PROVE  task'[u].saved[q] = meant'[q]
      <3>1. u # t /\ q # task[t].obj /\ task'[u] = task[u]
        BY <1>5, <1>7, <2>3 DEF Checking, Own
      <3>2. Checking(u) /\ q \in Own(u) /\ meant'[q] = meant[q] /\ query'[q] = query[q]
        BY <1>7, <2>1, <2>3, <3>1 DEF Checking, Own, TypeOK
      <3>3. QED
        BY <2>3, <3>1, <3>2 DEF BoundMeant
    <2>4. ASSUME NEW u \in Conn, task'[u].op = "constructExec", Stage(u)' # "register"
          PROVE  meant'[task'[u].obj] = None
      <3>1. CASE u = t
        BY <1>4, <1>5, <2>1, <2>4, <3>1, NoneIsNeither DEF TypeOK, SameCall
      <3>2. CASE u # t
        BY <1>3, <1>5, <2>1, <2>4, <3>2, NoneIsNeither DEF BoundMeant, Stage, TypeOK
      <3>3. QED
        BY <3>1, <3>2
    <2>5. QED
      BY <2>2, <2>3, <2>4 DEF BoundMeant
  <1>17. AllHeard'
    BY <1>1, <1>2, <1>5 DEF AllHeard, Works, Stage
  <1>18. Locked'
    BY <1>1, <1>3, <1>4, <1>5, <1>8 DEF Locked, Checking, Stage, Registered, WithStatement, RegistryExact, TypeOK
  <1>19. (ClosedIsGone /\ SessionsCounted)'
    BY <1>1 DEF ClosedIsGone, SessionsCounted
  <1>20. QED
    BY <1>9, <1>10, <1>11, <1>12, <1>13, <1>14, <1>15, <1>16, <1>17, <1>18, <1>19

\* A destructor unregisters its object.
LEMMA DestroyEndInv ==
    ASSUME QueryInv, NEW t \in Conn, DestroyEnd(t)
    PROVE  QueryInv'
  <1> USE DEF QueryInv
  <1>1. UNCHANGED <<queryMutex, monitorMutex, monitors, cache, cacheEnabled, calls, isOpen,
                    session, alive, heard, losses, exited, ops>>
    BY DEF DestroyEnd, locks, conns
  <1>2. ~exited /\ task[t] # Idle /\ task[t] \in Tasks /\ task[t].at = "unregister"
    BY AtPlace DEF DestroyEnd
  <1>3. /\ queryMutex = None /\ task[t].obj \in Query /\ query[task[t].obj].life = "alive"
        /\ query[task[t].obj].conn = t
        /\ \A u \in Conn \ {t} :
              task[u] # Idle /\ task[u].op # "setEnabled" => task[u].obj # task[t].obj
    BY <1>2 DEF DestroyEnd, Unregister, CallStages, CallObjects
  <1>4. /\ task' \in [Conn -> Tasks \cup {Idle}]
        /\ \A u \in Conn \ {t} : task'[u] = task[u]
        /\ task'[t] = Idle
    BY ReturnTask DEF DestroyEnd
  <1>5. /\ registry' = registry \ {task[t].obj}
        /\ query' \in [Query -> Objects] /\ query'[task[t].obj] = Free
        /\ \A p \in Query \ {task[t].obj} : query'[p] = query[p]
        /\ meant' \in [Query -> Value \cup {None}]
        /\ \A p \in Query \ {task[t].obj} : meant'[p] = meant[p]
        /\ shares' \in [Query -> SUBSET Query]
    BY <1>3, FreeType, SharesType DEF DestroyEnd, Unregister, TypeOK
  <1>6. Free \in Objects /\ Free.life = "free" /\ Free.stmt = None /\ Free.session = 0
    BY FreeType DEF Free
  <1>7. task'[t].op = "idle"
    BY <1>4, NoneIsNeither
  <1>8. TypeOK'
    BY <1>1, <1>4, <1>5 DEF TypeOK
  <1>9. CallObjects'
    BY <1>3, <1>4, <1>5 DEF CallObjects
  <1>10. CallStages'
    BY <1>4 DEF CallStages
  <1>11. RegistryExact'
    BY <1>5, <1>6 DEF RegistryExact
  <1>12. CacheApart'
    <2>1. \A u \in Conn : Emptying(u)' => u # t /\ Emptying(u) /\ task'[u] = task[u] /\ task[u] # Idle
      BY <1>4 DEF Emptying, Stage
    <2>2. \A p \in Query : query[p].life = "cached" => query'[p] = query[p]
      BY <1>3, <1>5
    <2>3. ASSUME NEW p \in cache' PROVE query'[p].life = "cached" /\ query'[p].conn \in Conn
      BY <1>1, <2>2 DEF CacheApart, TypeOK
    <2>4. ASSUME NEW u \in Conn, Emptying(u)'
          PROVE  /\ \A p \in task'[u].left : query'[p].life = "cached" /\ p \notin cache'
                 /\ \A w \in Conn \ {u} : Emptying(w)' => task'[u].left \cap task'[w].left = {}
      <3>1. task[u].left \subseteq Query
        BY <2>1, <2>4, TaskType
      <3>2. QED
        BY <1>1, <2>1, <2>2, <2>4, <3>1 DEF CacheApart
    <2>5. QED
      BY <2>3, <2>4 DEF CacheApart
  <1>13. PreparedFresh'
    BY <1>1, <1>2, <1>4, <1>5, <1>6 DEF PreparedFresh, Live, Prepared, Works, Runnable, Stage
  <1>14. OnlyPrepared'
    <2>1. \A p \in cache' : Prepared(p)'
      BY <1>1, <1>3, <1>5 DEF OnlyPrepared, Prepared, CacheApart, TypeOK
    <2>2. ASSUME NEW u \in Conn, Stage(u)' = "insert" PROVE Prepared(task[u].obj)'
      <3>1. u # t /\ task'[u] = task[u] /\ task[u] # Idle /\ task[u].at = "insert"
        BY <1>4, <2>2 DEF Stage
      <3>2. task[u].obj \in Query /\ task[u].obj # task[t].obj /\ Prepared(task[u].obj)
        BY <1>3, <3>1, RunsAlive DEF OnlyPrepared, Stage
      <3>3. QED
        BY <1>5, <3>1, <3>2 DEF Prepared
    <2>3. \A p \in Query : query'[p].session > 0 => query'[p].stmt # None
      BY <1>5, <1>6 DEF OnlyPrepared
    <2>4. QED
      BY <2>1, <2>2, <2>3 DEF OnlyPrepared
  <1>15. BoundMeant'
    BY <1>3, <1>4, <1>5, <1>6, <1>7 DEF BoundMeant, Checking, Own, Stage, CallObjects
  <1>16. AllHeard'
    BY <1>1, <1>2, <1>4 DEF AllHeard, Works, Stage
  <1>17. Locked'
    BY <1>1, <1>3, <1>4, <1>5 DEF Locked, Checking, Stage, Registered, WithStatement, RegistryExact
  <1>18. (ClosedIsGone /\ SessionsCounted)'
    BY <1>1 DEF ClosedIsGone, SessionsCounted
  <1>19. QED
    BY <1>8, <1>9, <1>10, <1>11, <1>12, <1>13, <1>14, <1>15, <1>16, <1>17, <1>18

\* A call returns and leaves everything else as it is.
LEMMA ReturnInv ==
    ASSUME QueryInv, NEW t \in Conn,
           NEW where \in {"empty", "insert", "driver"}, At(t, where), Return(t),
           UNCHANGED <<locks, objects, monitors, heard, calls, conns, exited, ops>>
    PROVE  QueryInv'
  <1> USE DEF QueryInv
  <1>1. UNCHANGED <<queryMutex, monitorMutex, registry, monitors, query, shares, cache, cacheEnabled,
                    calls, isOpen, session, alive, heard, losses, exited, ops, meant>>
    BY DEF locks, objects, conns
  <1>2. ~exited /\ task[t] # Idle /\ task[t] \in Tasks /\ task[t].at = where
    BY AtPlace
  <1>3. /\ task' \in [Conn -> Tasks \cup {Idle}]
        /\ \A u \in Conn \ {t} : task'[u] = task[u]
        /\ task'[t] = Idle
    BY ReturnTask
  <1>4. TypeOK'
    BY <1>1, <1>3 DEF TypeOK
  <1>5. CallObjects'
    BY <1>1, <1>3 DEF CallObjects
  <1>6. CallStages'
    BY <1>3 DEF CallStages
  <1>7. CacheApart'
    BY <1>1, <1>3 DEF CacheApart, Emptying, Stage
  <1>8. PreparedFresh'
    BY <1>1, <1>2, <1>3 DEF PreparedFresh, Live, Prepared, Works, Runnable, Stage
  <1>9. OnlyPrepared'
    BY <1>1, <1>3 DEF OnlyPrepared, Prepared, Stage
  <1>10. BoundMeant'
    BY <1>1, <1>3, NoneIsNeither DEF BoundMeant, Checking, Own, Stage
  <1>11. AllHeard'
    BY <1>1, <1>2, <1>3 DEF AllHeard, Works, Stage
  <1>12. Locked'
    BY <1>1, <1>3 DEF Locked, Checking, Stage, Registered, WithStatement
  <1>13. (RegistryExact /\ ClosedIsGone /\ SessionsCounted)'
    BY <1>1 DEF RegistryExact, ClosedIsGone, SessionsCounted
  <1>14. QED
    BY <1>4, <1>5, <1>6, <1>7, <1>8, <1>9, <1>10, <1>11, <1>12, <1>13

\* setEnabled destroys one query of the cache that it has emptied.
LEMMA EmptyOneInv ==
    ASSUME QueryInv, NEW t \in Conn, NEW q \in task[t].left, At(t, "empty"), Unregister(q),
           task' = [task EXCEPT ![t].left = @ \ {q}],
           UNCHANGED <<locks, cache, cacheEnabled, monitors, heard, calls, conns, exited, ops>>
    PROVE  QueryInv'
  <1> USE DEF QueryInv
  <1>1. UNCHANGED <<queryMutex, monitorMutex, monitors, cache, cacheEnabled, calls, isOpen,
                    session, alive, heard, losses, exited, ops>>
    BY DEF locks, conns
  <1>2. ~exited /\ task[t] # Idle /\ task[t] \in Tasks /\ task[t].at = "empty"
    BY AtPlace
  <1>3. /\ q \in Query /\ query[q].life = "cached" /\ q \notin cache
        /\ \A u \in Conn \ {t} : Emptying(u) => q \notin task[u].left
    BY <1>2, TaskType DEF CacheApart, Emptying, Stage
  <1>4. [task[t] EXCEPT !.left = @ \ {q}] \in Tasks
    BY <1>2 DEF Tasks
  <1>5. /\ task' \in [Conn -> Tasks \cup {Idle}]
        /\ \A u \in Conn \ {t} : task'[u] = task[u]
        /\ task'[t] # Idle /\ SameCall(t)
        /\ task'[t].at = "empty" /\ task'[t].left = task[t].left \ {q}
        /\ task'[t].saved = task[t].saved
    BY <1>2, ChangeTask DEF Tasks, SameCall
  <1>6. /\ registry' = registry \ {q} /\ queryMutex = None
        /\ query' \in [Query -> Objects] /\ query'[q] = Free
        /\ \A p \in Query \ {q} : query'[p] = query[p]
        /\ meant' \in [Query -> Value \cup {None}]
        /\ \A p \in Query \ {q} : meant'[p] = meant[p]
        /\ shares' \in [Query -> SUBSET Query]
    BY <1>3, FreeType, SharesType DEF Unregister, TypeOK
  <1>7. Free \in Objects /\ Free.life = "free" /\ Free.stmt = None /\ Free.session = 0
    BY FreeType DEF Free
  <1>8. TypeOK'
    BY <1>1, <1>4, <1>6 DEF TypeOK
  <1>9. CallObjects'
    BY <1>2, <1>3, <1>6 DEF CallObjects
  <1>10. CallStages'
    BY <1>2 DEF CallStages
  <1>11. RegistryExact'
    BY <1>6, <1>7 DEF RegistryExact
  <1>12. CacheApart'
    <2>1. \A p \in cache' : query'[p].life = "cached" /\ query'[p].conn \in Conn
      BY <1>3, <1>6 DEF CacheApart, TypeOK
    <2>2. ASSUME NEW u \in Conn, Emptying(u)'
          PROVE  /\ Emptying(u) /\ task'[u].left \subseteq task[u].left \ {q}
                 /\ task[u].left \subseteq Query
      <3>1. Emptying(u) /\ task[u] # Idle
        BY <1>2, <2>2 DEF Emptying, Stage
      <3>2. QED
        BY <1>3, <1>5, <3>1, TaskType
    <2>3. QED
      BY <1>6, <2>1, <2>2 DEF CacheApart
  <1>13. PreparedFresh'
    BY <1>1, <1>2, <1>6, <1>7 DEF PreparedFresh, Live, Prepared, Works, Runnable, Stage
  <1>14. OnlyPrepared'
    <2>1. OnlyPrepared /\ CallObjects /\ CallStages /\ cache \subseteq Query
      BY DEF TypeOK
    <2> HIDE DEF QueryInv
    <2>2. cache' = cache /\ \A p \in Query \ {q} : query'[p] = query[p]
      BY <1>1, <1>6
    <2>3. query'[q].session = 0
      BY <1>6, <1>7
    <2>4. \A p \in cache : Prepared(p)'
      BY <1>3, <2>1, <2>2 DEF OnlyPrepared, Prepared
    <2>5. ASSUME NEW u \in Conn, Stage(u)' = "insert"
          PROVE  Prepared(task[u].obj)' /\ task'[u] = task[u]
      <3>1. u # t /\ task'[u] = task[u] /\ task[u] # Idle /\ task[u].at = "insert"
        BY <1>5, <2>5 DEF Stage
      <3>2. task[u].obj \in Query \ {q}
        BY <1>3, <2>1, <3>1, RunsAlive
      <3>3. Prepared(task[u].obj)
        BY <2>1, <3>1 DEF OnlyPrepared, Stage
      <3>4. QED
        BY <2>2, <3>1, <3>2, <3>3 DEF Prepared
    <2>6. QED
      BY <2>1, <2>2, <2>3, <2>4, <2>5 DEF OnlyPrepared, Prepared
  <1>15. BoundMeant'
    <2>1. \A p \in Query :
            query'[p].life = "alive" /\ query'[p].stmt # None => query'[p].bound = meant'[p]
      BY <1>6, <1>7 DEF BoundMeant
    <2>2. ASSUME NEW u \in Conn, NEW p \in Query, Checking(u)', p \in Own(u)', query'[p].stmt # None
          PROVE  task'[u].saved[p] = meant'[p]
      <3>1. Checking(u) /\ task'[u] = task[u]
        BY <1>5, <2>2 DEF Checking
      <3>2. p \in Own(u) /\ meant'[p] = meant[p] /\ query[p].stmt # None
        BY <1>6, <1>7, <2>2 DEF Own
      <3>3. QED
        BY <3>1, <3>2 DEF BoundMeant
    <2>3. ASSUME NEW u \in Conn, task'[u].op = "constructExec", Stage(u)' # "register"
          PROVE  meant'[task'[u].obj] = None
      <3>1. u # t /\ task'[u] = task[u]
        BY <1>2, <2>3 DEF CallStages
      <3>2. task[u].obj \in Query /\ task[u].obj # q
        BY <1>3, <2>3, NoneIsNeither DEF CallObjects
      <3>3. QED
        BY <1>6, <2>3, <3>1, <3>2 DEF BoundMeant, Stage
    <2>4. QED
      BY <2>1, <2>2, <2>3 DEF BoundMeant
  <1>16. AllHeard'
    BY <1>1, <1>2 DEF AllHeard, Works, Stage
  <1>17. Locked'
    BY <1>2, <1>6, NoneIsNeither DEF Locked, Checking, Stage
  <1>18. (ClosedIsGone /\ SessionsCounted)'
    BY <1>1 DEF ClosedIsGone, SessionsCounted
  <1>19. QED
    BY <1>8, <1>9, <1>10, <1>11, <1>12, <1>13, <1>14, <1>15, <1>16, <1>17, <1>18

\* prepareQuery puts a copy of its query into the cache.
LEMMA InsertInv ==
    ASSUME QueryInv, NEW t \in Conn, At(t, "insert"), Caches, Insert(t)
    PROVE  QueryInv'
  <1> USE DEF QueryInv
  <1>1. UNCHANGED <<queryMutex, monitorMutex, monitors, cacheEnabled, calls, isOpen, session,
                    alive, heard, losses, exited, ops, meant>>
    BY DEF Insert, locks, conns
  <1>2. ~exited /\ task[t] # Idle /\ task[t] \in Tasks /\ task[t].at = "insert"
    BY AtPlace
  <1>3. PICK q \in Query :
        /\ Unused(q) /\ registry' = registry \cup {q} /\ cache' = cache \cup {q}
        /\ query' = [query EXCEPT ![q] =
                       NewQuery(t, "cached", task[t].stmt, query[task[t].obj].session,
                                query[task[t].obj].bound)]
        /\ shares' = Joined(q, task[t].obj)
    BY DEF Insert
  <1>4. /\ task' \in [Conn -> Tasks \cup {Idle}]
        /\ \A u \in Conn \ {t} : task'[u] = task[u]
        /\ task'[t] = Idle
    BY ReturnTask DEF Insert
  <1>5. /\ queryMutex = None /\ task[t].obj \in Query /\ query[task[t].obj].life = "alive"
        /\ query[task[t].obj].conn = t /\ task[t].stmt # None /\ Prepared(task[t].obj)
    BY <1>2, RunsAlive DEF Insert, CallStages, OnlyPrepared, Stage
  <1>6. /\ query' \in [Query -> Objects]
        /\ \A p \in Query \ {q} : query'[p] = query[p]
        /\ query'[q].life = "cached" /\ query'[q].conn = t /\ query'[q].stmt = task[t].stmt
        /\ query'[q].session = query[task[t].obj].session
        /\ shares' \in [Query -> SUBSET Query]
    BY <1>2, <1>3, <1>5, SharesType DEF TypeOK, NewQuery, Tasks, Objects
  <1>7. /\ query[q].life = "free"
        /\ \A u \in Conn : task[u] # Idle => task[u].obj # q
    BY <1>3 DEF Unused, TypeOK
  <1>8. task'[t].op = "idle"
    BY <1>4, NoneIsNeither
  <1>9. \A u \in Conn : Emptying(u)' => u # t /\ Emptying(u) /\ task'[u] = task[u]
    BY <1>4 DEF Emptying, Stage
  <1>10. \A p \in Query : Prepared(p) /\ p # q => Prepared(p)'
    BY <1>6 DEF Prepared
  <1>11. Prepared(q)'
    BY <1>5, <1>6 DEF Prepared
  <1>12. TypeOK'
    BY <1>1, <1>3, <1>4, <1>6 DEF TypeOK
  <1>13. CallObjects'
    BY <1>3, <1>4, <1>7, <1>8 DEF CallObjects, TypeOK
  <1>14. CallStages'
    BY <1>4 DEF CallStages
  <1>15. RegistryExact'
    BY <1>3, <1>6 DEF RegistryExact, TypeOK
  <1>16. CacheApart'
    <2>1. \A p \in Query : query[p].life = "cached" => p # q /\ query'[p] = query[p]
      BY <1>6, <1>7
    <2>2. ASSUME NEW p \in cache' PROVE query'[p].life = "cached" /\ query'[p].conn \in Conn
      BY <1>3, <1>6, <2>1 DEF CacheApart, TypeOK
    <2>3. ASSUME NEW u \in Conn, Emptying(u)'
          PROVE  /\ \A p \in task'[u].left : query'[p].life = "cached" /\ p \notin cache'
                 /\ \A w \in Conn \ {u} : Emptying(w)' => task'[u].left \cap task'[w].left = {}
      <3>1. Emptying(u) /\ task'[u] = task[u] /\ task[u].left \subseteq Query
        BY <1>9, <2>3, TaskType, NoneIsNeither DEF Emptying, Stage
      <3>2. ASSUME NEW p \in task'[u].left PROVE query'[p].life = "cached" /\ p \notin cache'
        BY <1>3, <2>1, <3>1 DEF CacheApart
      <3>3. \A w \in Conn \ {u} : Emptying(w)' => task'[u].left \cap task'[w].left = {}
        BY <1>9, <3>1 DEF CacheApart
      <3>4. QED
        BY <3>2, <3>3
    <2>4. QED
      BY <2>2, <2>3 DEF CacheApart
  <1>17. PreparedFresh'
    BY <1>1, <1>2, <1>4, <1>5, <1>6, <1>7, <1>8, <1>11 DEF PreparedFresh, Live, Prepared, Works,
       Runnable, Stage
  <1>18. OnlyPrepared'
    <2>1. \A p \in cache' : Prepared(p)'
      BY <1>3, <1>10, <1>11 DEF TypeOK, OnlyPrepared
    <2>2. ASSUME NEW u \in Conn, Stage(u)' = "insert" PROVE Prepared(task[u].obj)'
      <3>1. u # t /\ task'[u] = task[u] /\ task[u] # Idle /\ task[u].at = "insert"
        BY <1>4, <2>2 DEF Stage
      <3>2. task[u].obj \in Query /\ task[u].obj # q /\ Prepared(task[u].obj)
        BY <1>7, <3>1, RunsAlive DEF OnlyPrepared, Stage
      <3>3. QED
        BY <1>10, <3>1, <3>2
    <2>3. \A p \in Query : query'[p].session > 0 => query'[p].stmt # None
      BY <1>5, <1>6 DEF OnlyPrepared
    <2>4. QED
      BY <2>1, <2>2, <2>3 DEF OnlyPrepared
  <1>19. BoundMeant'
    <2>1. \A p \in Query :
            query'[p].life = "alive" /\ query'[p].stmt # None => query'[p].bound = meant'[p]
      BY <1>1, <1>6 DEF BoundMeant
    <2>2. ASSUME NEW u \in Conn, NEW p \in Query, Checking(u)', p \in Own(u)', query'[p].stmt # None
          PROVE  task'[u].saved[p] = meant'[p]
      <3>1. Checking(u) /\ task'[u] = task[u]
        BY <1>4, <2>2 DEF Checking
      <3>2. p \in Own(u) /\ query[p].stmt # None
        BY <1>6, <2>2 DEF Own
      <3>3. QED
        BY <1>1, <3>1, <3>2 DEF BoundMeant
    <2>3. QED
      BY <1>1, <1>4, <1>8, <2>1, <2>2 DEF BoundMeant, Stage
  <1>20. AllHeard'
    BY <1>1, <1>2, <1>4 DEF AllHeard, Works, Stage
  <1>21. Locked'
    BY <1>4, <1>5, NoneIsNeither DEF Locked, Checking, Stage, TypeOK
  <1>22. (ClosedIsGone /\ SessionsCounted)'
    BY <1>1 DEF ClosedIsGone, SessionsCounted
  <1>23. QED
    BY <1>12, <1>13, <1>14, <1>15, <1>16, <1>17, <1>18, <1>19, <1>20, <1>21, <1>22

\* A connection is lost.
LEMMA LoseInv ==
    ASSUME QueryInv, NEW t \in Conn, Lose(t)
    PROVE  QueryInv'
  <1> USE DEF QueryInv
  <1>1. UNCHANGED <<queryMutex, monitorMutex, registry, monitors, query, shares, cache, cacheEnabled,
                    task, calls, isOpen, session, exited, ops, meant>>
    BY DEF Lose, locks, objects
  <1>2. /\ alive' \in [Conn -> BOOLEAN] /\ ~alive'[t] /\ alive[t]
        /\ \A u \in Conn \ {t} : alive'[u] = alive[u]
        /\ heard' \in [Conn -> SUBSET Monitor]
        /\ \A u \in Conn \ {t} : heard'[u] = heard[u]
        /\ losses' = losses + 1 /\ losses < MaxLoss
    BY DEF Lose, TypeOK
  <1>3. TypeOK'
    BY <1>1, <1>2, BoundsAssumption DEF TypeOK
  <1>4. PreparedFresh'
    BY <1>1, <1>2 DEF PreparedFresh, Live, Prepared, Works, Runnable, Stage
  <1>5. AllHeard'
    BY <1>1, <1>2 DEF AllHeard, Works, Stage
  <1>6. (CallObjects /\ CallStages /\ RegistryExact /\ CacheApart /\ OnlyPrepared /\ BoundMeant
          /\ Locked)'
    BY <1>1 DEF CallObjects, CallStages, RegistryExact, CacheApart, Emptying, Stage, OnlyPrepared,
       Prepared, BoundMeant, Checking, Own, Locked, Registered, WithStatement
  <1>7. ClosedIsGone'
    BY <1>1, <1>2 DEF ClosedIsGone
  <1>8. SessionsCounted'
    BY <1>1, <1>2 DEF SessionsCounted, TypeOK
  <1>9. QED
    BY <1>3, <1>4, <1>5, <1>6, <1>7, <1>8

\* A monitor subscribes to its tables.
LEMMA CreateMonitorInv ==
    ASSUME QueryInv, NEW t \in Conn, NEW m \in Monitor, CreateMonitor(t, m)
    PROVE  QueryInv'
  <1> USE DEF QueryInv
  <1>1. UNCHANGED <<queryMutex, monitorMutex, registry, query, shares, cache, cacheEnabled, task, session,
                    alive, losses, exited, ops, meant>>
    BY DEF CreateMonitor, locks, objects
  <1>2. /\ monitors' = monitors \cup {<<m, t>>} /\ monitorMutex = None
        /\ heard' = [heard EXCEPT ![t] = IF isOpen[t] /\ alive[t] THEN @ \cup {m} ELSE @]
        /\ isOpen' = [isOpen EXCEPT ![t] = @ /\ alive[t]]
        /\ calls' \in 0 .. MaxCalls
    BY BoundsAssumption DEF CreateMonitor, MayCall, TypeOK
  <1>3. TypeOK'
    BY <1>1, <1>2 DEF TypeOK
  <1>4. PreparedFresh'
    BY <1>1, <1>2 DEF PreparedFresh, Live, Prepared, Works, Runnable,
       Stage, TypeOK
  <1>5. AllHeard'
    BY <1>1, <1>2 DEF AllHeard, Works, Stage, TypeOK
  <1>6. ClosedIsGone'
    BY <1>1, <1>2 DEF ClosedIsGone, TypeOK
  <1>7. (CallObjects /\ CallStages /\ RegistryExact /\ CacheApart /\ OnlyPrepared /\ BoundMeant
          /\ Locked /\ SessionsCounted)'
    BY <1>1 DEF CallObjects, CallStages, RegistryExact, CacheApart, Emptying, Stage, OnlyPrepared,
       Prepared, BoundMeant, Checking, Own, Locked, Registered, WithStatement, SessionsCounted
  <1>8. QED
    BY <1>3, <1>4, <1>5, <1>6, <1>7

\* A monitor goes.
LEMMA DestroyMonitorInv ==
    ASSUME QueryInv, NEW t \in Conn, NEW m \in Monitor, DestroyMonitor(t, m)
    PROVE  QueryInv'
  <1> USE DEF QueryInv
  <1>1. UNCHANGED <<queryMutex, monitorMutex, registry, query, shares, cache, cacheEnabled, task, isOpen,
                    session, alive, heard, losses, exited, ops, meant>>
    BY DEF DestroyMonitor, locks, objects, conns
  <1>2. /\ monitors' = monitors \ {<<m, t>>}
        /\ calls' \in 0 .. MaxCalls
    BY BoundsAssumption DEF DestroyMonitor, MayCall, TypeOK
  <1>3. TypeOK'
    BY <1>1, <1>2 DEF TypeOK
  <1>4. AllHeard'
    BY <1>1, <1>2 DEF AllHeard, Works, Stage
  <1>5. (CallObjects /\ CallStages /\ RegistryExact /\ CacheApart /\ PreparedFresh
          /\ OnlyPrepared /\ BoundMeant /\ Locked /\ ClosedIsGone /\ SessionsCounted)'
    BY <1>1 DEF CallObjects, CallStages, RegistryExact, CacheApart, Emptying, Stage,
       PreparedFresh, Live, Prepared, Works, Runnable, OnlyPrepared, BoundMeant, Checking, Own,
       Locked, Registered, WithStatement, ClosedIsGone, SessionsCounted
  <1>6. QED
    BY <1>3, <1>4, <1>5

\* A value is bound.
LEMMA BindInv ==
    ASSUME QueryInv, NEW t \in Conn, NEW q \in Query, NEW v \in Value, Bind(t, q, v)
    PROVE  QueryInv'
  <1> USE DEF QueryInv
  <1>1. UNCHANGED <<queryMutex, monitorMutex, registry, monitors, shares, cache, cacheEnabled, task,
                    isOpen, session, alive, heard, losses, exited, ops>>
    BY DEF Bind, locks, conns
  <1>2. /\ task[t] = Idle /\ calls' \in 0 .. MaxCalls /\ query[q].conn = t
        /\ query' = [x \in Query |-> IF x \in Copies(q) THEN [query[x] EXCEPT !.bound = v]
                                    ELSE query[x]]
        /\ meant' = [x \in Query |-> IF x \in Copies(q) THEN v ELSE meant[x]]
    BY BoundsAssumption DEF Bind, MayCall, TypeOK, SameThread, Own
  <1>3. /\ query' \in [Query -> Objects] /\ meant' \in [Query -> Value \cup {None}]
        /\ \A p \in Query :
              /\ query'[p].life = query[p].life /\ query'[p].conn = query[p].conn
              /\ query'[p].stmt = query[p].stmt /\ query'[p].session = query[p].session
              /\ \/ query[p].conn = t /\ query'[p].bound = v /\ meant'[p] = v
                 \/ query'[p] = query[p] /\ meant'[p] = meant[p]
    <2>1. ASSUME NEW p \in Query
          PROVE  /\ query'[p] \in Objects
                 /\ query'[p].life = query[p].life /\ query'[p].conn = query[p].conn
                 /\ query'[p].stmt = query[p].stmt /\ query'[p].session = query[p].session
                 /\ \/ query[p].conn = t /\ query'[p].bound = v /\ meant'[p] = v
                    \/ query'[p] = query[p] /\ meant'[p] = meant[p]
      <3>1. query[p] \in Objects
        BY DEF TypeOK
      <3>2. CASE p \in Copies(q)
        <4>1. query'[p] = [query[p] EXCEPT !.bound = v] /\ meant'[p] = v /\ query[p].conn = t
          BY <1>2, <3>2 DEF Copies
        <4>2. QED
          BY <3>1, <4>1 DEF Objects
      <3>3. CASE p \notin Copies(q)
        BY <1>2, <3>1, <3>3
      <3>4. QED
        BY <3>2, <3>3
    <2>2. meant' \in [Query -> Value \cup {None}]
      BY <1>2 DEF TypeOK
    <2>3. QED
      BY <1>2, <2>1, <2>2
  <1>4. TypeOK'
    BY <1>1, <1>2, <1>3 DEF TypeOK
  <1>5. CallObjects'
    BY <1>1, <1>3 DEF CallObjects
  <1>6. RegistryExact'
    BY <1>1, <1>3 DEF RegistryExact
  <1>7. CacheApart'
    <2>1. CacheApart /\ TypeOK
      OBVIOUS
    <2> HIDE DEF QueryInv
    <2>2. UNCHANGED <<cache, task>>
      BY <1>1
    <2>3. \A p \in Query : query'[p].life = query[p].life /\ query'[p].conn = query[p].conn
      BY <1>3
    <2>4. cache \subseteq Query /\ \A u \in Conn : Emptying(u) => task[u].left \subseteq Query
      BY <2>1, TaskType DEF Emptying, Stage, TypeOK
    <2>5. QED
      BY <2>1, <2>2, <2>3, <2>4 DEF CacheApart, Emptying, Stage
  <1>8. PreparedFresh'
    BY <1>1, <1>3 DEF PreparedFresh, Live, Prepared, Works, Runnable, Stage
  <1>9. OnlyPrepared'
    <2>1. \A p \in Query : Prepared(p)' <=> Prepared(p)
      BY <1>3 DEF Prepared
    <2>2. ASSUME NEW u \in Conn, Stage(u)' = "insert" PROVE Prepared(task[u].obj)'
      <3>1. task[u] # Idle /\ task[u].at = "insert" /\ task'[u] = task[u]
        BY <1>1, <2>2 DEF Stage
      <3>2. task[u].obj \in Query /\ Prepared(task[u].obj)
        BY <3>1, RunsAlive DEF OnlyPrepared, Stage
      <3>3. QED
        BY <2>1, <3>1, <3>2
    <2>3. \A p \in cache' : Prepared(p)'
      BY <1>1, <2>1 DEF OnlyPrepared, TypeOK
    <2>4. \A p \in Query : query'[p].session > 0 => query'[p].stmt # None
      BY <1>3 DEF OnlyPrepared
    <2>5. QED
      BY <2>2, <2>3, <2>4 DEF OnlyPrepared
  <1>10. BoundMeant'
    <2>1. \A p \in Query :
            query'[p].life = "alive" /\ query'[p].stmt # None => query'[p].bound = meant'[p]
      BY <1>3 DEF BoundMeant
    <2>2. ASSUME NEW u \in Conn, NEW p \in Query, Checking(u)', p \in Own(u)', query'[p].stmt # None
          PROVE  task'[u].saved[p] = meant'[p]
      <3>1. u # t /\ Checking(u) /\ p \in Own(u) /\ query[p].stmt # None
        BY <1>1, <1>2, <1>3, <2>2 DEF Checking, Own
      <3>2. meant'[p] = meant[p]
        BY <1>3, <3>1 DEF Own
      <3>3. QED
        BY <1>1, <3>1, <3>2 DEF BoundMeant
    <2>3. ASSUME NEW u \in Conn, task'[u].op = "constructExec", Stage(u)' # "register"
          PROVE  meant'[task'[u].obj] = None
      <3>1. task[u] # Idle /\ task[u].at # "register" /\ u # t
        BY <1>1, <1>2, <2>3, NoneIsNeither DEF Stage
      <3>2. task[u].obj \in Query /\ query[task[u].obj].conn = u
        BY <1>1, <2>3, <3>1 DEF CallObjects
      <3>3. meant[task[u].obj] = None
        BY <1>1, <2>3 DEF BoundMeant, Stage
      <3>4. QED
        BY <1>1, <1>3, <3>1, <3>2, <3>3
    <2>4. QED
      BY <2>1, <2>2, <2>3 DEF BoundMeant
  <1>11. Locked'
    <2>1. \A u \in Conn : WithStatement(u)' = WithStatement(u)
      BY <1>1, <1>3 DEF WithStatement, Registered, TypeOK
    <2>2. \A u \in Conn : Stage(u)' = Stage(u) /\ (Checking(u)' <=> Checking(u))
      BY <1>1 DEF Stage, Checking
    <2>3. QED
      BY <1>1, <2>1, <2>2 DEF Locked
  <1>12. (CallStages /\ AllHeard /\ ClosedIsGone /\ SessionsCounted)'
    BY <1>1 DEF CallStages, AllHeard, Works, Stage, ClosedIsGone, SessionsCounted
  <1>13. QED
    BY <1>4, <1>5, <1>6, <1>7, <1>8, <1>9, <1>10, <1>11, <1>12

\* The cache is switched, and emptied.
LEMMA SetEnabledInv ==
    ASSUME QueryInv, NEW t \in Conn, NEW b \in BOOLEAN, SetEnabled(t, b)
    PROVE  QueryInv'
  <1> USE DEF QueryInv
  <1>1. UNCHANGED <<queryMutex, monitorMutex, registry, monitors, query, shares, isOpen, session, alive,
                    heard, losses, exited, ops, meant>>
    BY DEF SetEnabled, locks, conns
  <1>2. /\ task[t] = Idle /\ cacheEnabled' = b /\ cache' = {}
        /\ calls' \in 0 .. MaxCalls
    BY BoundsAssumption DEF SetEnabled, ClearCache, MayCall, TypeOK, SameThread
  <1>3. /\ task' \in [Conn -> Tasks \cup {Idle}]
        /\ \A u \in Conn \ {t} : task'[u] = task[u]
        /\ task'[t] # Idle /\ task'[t].op = "setEnabled" /\ task'[t].at = "empty"
        /\ task'[t].left = cache
    <2> DEFINE k == [op |-> "setEnabled", obj |-> None, stmt |-> None, at |-> "empty",
                     attempt |-> 1, retry |-> 0, left |-> cache,
                     saved |-> [x \in Query |-> None]]
    <2>1. task' = [task EXCEPT ![t] = k]
      BY <1>2 DEF SetEnabled
    <2>2. k \in Tasks
      BY BoundsAssumption DEF Tasks, TypeOK, Places
    <2>3. QED
      BY <2>1, <2>2, ChangeTask
  <1>4. TypeOK'
    BY <1>1, <1>2, <1>3 DEF TypeOK
  <1>5. CallObjects'
    BY <1>1, <1>3 DEF CallObjects
  <1>6. CallStages'
    BY <1>3 DEF CallStages
  <1>7. CacheApart'
    BY <1>1, <1>2, <1>3 DEF CacheApart, Emptying, Stage
  <1>8. PreparedFresh'
    BY <1>1, <1>2, <1>3 DEF PreparedFresh, Live, Prepared, Works, Runnable, Stage
  <1>9. OnlyPrepared'
    BY <1>1, <1>2, <1>3 DEF OnlyPrepared, Prepared, Stage
  <1>10. BoundMeant'
    BY <1>1, <1>3 DEF BoundMeant, Checking, Own, Stage
  <1>11. AllHeard'
    BY <1>1, <1>2, <1>3 DEF AllHeard, Works, Stage
  <1>12. Locked'
    BY <1>1, <1>2, <1>3 DEF Locked, Checking, Stage, Registered, WithStatement
  <1>13. (RegistryExact /\ ClosedIsGone /\ SessionsCounted)'
    BY <1>1 DEF RegistryExact, ClosedIsGone, SessionsCounted
  <1>14. QED
    BY <1>4, <1>5, <1>6, <1>7, <1>8, <1>9, <1>10, <1>11, <1>12, <1>13

\* A command of a call succeeds or fails: its query has the statement, if any,
\* in the session of the connection or in none.
LEMMA DriverInv ==
    ASSUME QueryInv, NEW t \in Conn, NEW new \in Objects, At(t, "driver"),
           task[t].op \in {"prepare", "cached", "exec", "constructExec"},
           new.life \in {"alive", "dead"} /\ new.conn = t,
           new.session > 0 => new.stmt # None,
           isOpen[t] => new.session \in {0, session[t]},
           task[t].op = "constructExec" => new.bound = None,
           query' = IF task[t].op = "exec" THEN query ELSE [query EXCEPT ![task[t].obj] = new],
           meant' = IF task[t].op \in {"prepare", "cached"}
                    THEN [meant EXCEPT ![task[t].obj] = new.bound] ELSE meant,
           shares' \in [Query -> SUBSET Query],
           isOpen' = [isOpen EXCEPT ![t] = @ /\ alive[t]],
           \/ Return(t)
           \/ GoTo(t, "insert") /\ task[t].op = "cached" /\ new.session = session[t] /\ new.life = "alive"
           \/ GoTo(t, "unregister") /\ task[t].op = "cached" /\ new.life = "alive"
           \/ /\ task' = [task EXCEPT ![t].at = "lockQueries", ![t].attempt = 2]
              /\ new.life = "alive",
           UNCHANGED <<locks, registry, cache, cacheEnabled, monitors, heard, calls, session,
                       alive, losses, exited, ops>>
    PROVE  QueryInv'
  <1> USE DEF QueryInv
  <1>1. UNCHANGED <<queryMutex, monitorMutex, registry, monitors, cache, cacheEnabled, calls,
                    session, alive, heard, losses, exited, ops>>
    BY DEF locks
  <1>2. ~exited /\ task[t] # Idle /\ task[t] \in Tasks /\ task[t].at = "driver"
    BY AtPlace
  <1>3. /\ task[t].obj \in Query /\ query[task[t].obj].life = "alive"
        /\ query[task[t].obj].conn = t
    BY <1>2 DEF CallStages, CallObjects, Tasks
  <1>4. /\ task' \in [Conn -> Tasks \cup {Idle}]
        /\ \A u \in Conn \ {t} : task'[u] = task[u]
        /\ task'[t] # Idle =>
             /\ SameCall(t) /\ new.life = "alive"
             /\ \/ task'[t].at \in {"insert", "unregister"} /\ task[t].op = "cached"
                \/ task'[t].at = "lockQueries"
             /\ task'[t].at = "insert" => new.session = session[t]
             /\ task'[t].left = task[t].left /\ task'[t].saved = task[t].saved
    <2>1. [task[t] EXCEPT !.at = "lockQueries", !.attempt = 2] \in Tasks
      BY <1>2 DEF Tasks, Places
    <2>2. CASE task' = [task EXCEPT ![t].at = "lockQueries", ![t].attempt = 2] /\ new.life = "alive"
      <3>1. task' = [task EXCEPT ![t] = [task[t] EXCEPT !.at = "lockQueries", !.attempt = 2]]
        BY <2>2 DEF TypeOK
      <3>2. task'[t] = [task[t] EXCEPT !.at = "lockQueries", !.attempt = 2] /\ task'[t] \in Tasks
        BY <2>1, <3>1, ChangeTask DEF TypeOK
      <3>3. SameCall(t) /\ task'[t].at = "lockQueries" /\ task'[t].left = task[t].left
            /\ task'[t].saved = task[t].saved
        BY <3>2 DEF SameCall
      <3>4. QED
        <4>1. /\ task' \in [Conn -> Tasks \cup {Idle}]
              /\ \A u \in Conn \ {t} : task'[u] = task[u]
          BY <2>1, <3>1, ChangeTask
        <4>2. QED
          BY <2>2, <3>3, <4>1
    <2>3. CASE GoTo(t, "insert") /\ task[t].op = "cached" /\ new.session = session[t] /\ new.life = "alive"
      BY <1>2, <2>3, GoToTask DEF Places
    <2>4. CASE GoTo(t, "unregister") /\ task[t].op = "cached" /\ new.life = "alive"
      BY <1>2, <2>4, GoToTask DEF Places
    <2>5. CASE Return(t)
      BY <2>5, ReturnTask
    <2>6. QED
      BY <2>2, <2>3, <2>4, <2>5
  <1>5. /\ query' \in [Query -> Objects]
        /\ \A p \in Query \ {task[t].obj} : query'[p] = query[p]
        /\ query'[task[t].obj] = IF task[t].op = "exec" THEN query[task[t].obj] ELSE new
    BY <1>3 DEF TypeOK
  <1>6. /\ meant' \in [Query -> Value \cup {None}]
        /\ \A p \in Query \ {task[t].obj} : meant'[p] = meant[p]
        /\ task[t].op \in {"prepare", "cached"} => meant'[task[t].obj] = new.bound
        /\ task[t].op \in {"exec", "constructExec"} => meant'[task[t].obj] = meant[task[t].obj]
        /\ task[t].op = "constructExec" => meant[task[t].obj] = None
    <2>1. new.bound \in Value \cup {None}
      BY DEF Objects
    <2>2. QED
      BY <1>2, <1>3, <2>1 DEF TypeOK, BoundMeant, Stage
  <1>7. /\ isOpen' \in [Conn -> BOOLEAN] /\ (isOpen'[t] <=> isOpen[t] /\ alive[t])
        /\ \A u \in Conn \ {t} : isOpen'[u] = isOpen[u]
    BY DEF TypeOK
  <1>8. \A u \in Conn : Emptying(u)' => u # t /\ Emptying(u) /\ task'[u] = task[u]
    BY <1>4 DEF Emptying, Stage
  <1>9. TypeOK'
    BY <1>1, <1>4, <1>5, <1>6, <1>7 DEF TypeOK
  <1>10. CallObjects'
    BY <1>2, <1>4, <1>5 DEF CallObjects, SameCall
  <1>11. CallStages'
    BY <1>2, <1>4 DEF CallStages, SameCall
  <1>12. RegistryExact'
    BY <1>3, <1>5 DEF RegistryExact
  <1>13. CacheApart'
    BY <1>3, <1>8 DEF CacheApart
  <1>14. PreparedFresh'
    <2> SUFFICES ASSUME NEW u \in Conn, NEW p \in Query, (Live(p, u) /\ Prepared(p) /\ Works(u))'
                 PROVE  \/ Runnable(p, u)' \/ Stage(u)' = "drop"
                        \/ Stage(u)' = "prepareAgain" /\ p \in task'[u].left
      BY DEF PreparedFresh
    <2>1. CASE p = task[t].obj /\ task[t].op # "exec"
      <3>1. u = t /\ isOpen[t] /\ query'[p] = new /\ new.session > 0
        BY <1>5, <1>7, <2>1 DEF Live, Works, Prepared
      <3>2. QED
        BY <2>1, <3>1 DEF Runnable
    <2>2. CASE ~(p = task[t].obj /\ task[t].op # "exec")
      <3>1. query'[p] = query[p] /\ Live(p, u) /\ Prepared(p) /\ Works(u)
        BY <1>5, <1>7, <2>2 DEF Live, Prepared, Works
      <3>2. \/ Runnable(p, u) \/ Stage(u) = "drop"
            \/ Stage(u) = "prepareAgain" /\ p \in task[u].left
        BY <3>1 DEF PreparedFresh
      <3>3. QED
        BY <1>2, <1>4, <3>1, <3>2 DEF Runnable, Stage
    <2>3. QED
      BY <2>1, <2>2
  <1>15. OnlyPrepared'
    <2>1. \A p \in Query \ {task[t].obj} : Prepared(p) => Prepared(p)'
      BY <1>5 DEF Prepared
    <2>2. \A p \in cache' : Prepared(p)'
      BY <1>3, <2>1 DEF TypeOK, CacheApart, OnlyPrepared
    <2>3. ASSUME NEW u \in Conn, Stage(u)' = "insert" PROVE Prepared(task[u].obj)'
      <3>1. task'[u] # Idle /\ task'[u].at = "insert"
        BY <2>3 DEF Stage
      <3>2. CASE u = t
        <4>1. new.session = session[t] /\ session[t] > 0 /\ task[t].op = "cached"
          <5>1. session[t] > 0
            BY DEF TypeOK
          <5>2. task'[t].op = "cached"
            BY <1>11, <3>1, <3>2 DEF CallStages
          <5>3. QED
            BY <1>4, <3>1, <3>2, <5>1, <5>2 DEF SameCall
        <4>2. QED
          BY <1>3, <1>4, <1>5, <3>1, <3>2, <4>1 DEF Prepared, SameCall
      <3>3. CASE u # t
        <4>1. task'[u] = task[u] /\ task[u] # Idle /\ task[u].at = "insert"
          BY <1>4, <3>1, <3>3
        <4>2. task[u].obj \in Query /\ task[u].obj # task[t].obj /\ Prepared(task[u].obj)
          BY <1>3, <3>3, <4>1, RunsAlive DEF OnlyPrepared, Stage
        <4>3. QED
          BY <2>1, <4>1, <4>2
      <3>4. QED
        BY <3>2, <3>3
    <2>4. \A p \in Query : query'[p].session > 0 => query'[p].stmt # None
      BY <1>5 DEF OnlyPrepared
    <2>5. QED
      BY <2>2, <2>3, <2>4 DEF OnlyPrepared
  <1>16. BoundMeant'
    <2>1. \A p \in Query :
            query'[p].life = "alive" /\ query'[p].stmt # None => query'[p].bound = meant'[p]
      BY <1>5, <1>6 DEF BoundMeant
    <2>2. ASSUME NEW u \in Conn, NEW p \in Query, Checking(u)', p \in Own(u)', query'[p].stmt # None
          PROVE  task'[u].saved[p] = meant'[p]
      <3>1. u # t /\ Checking(u) /\ task'[u] = task[u]
        BY <1>4, <2>2 DEF Checking
      <3>2. p \in Own(u) /\ p # task[t].obj /\ query[p].stmt # None
        BY <1>3, <1>5, <2>2, <3>1 DEF Own
      <3>3. QED
        BY <3>1, <3>2 DEF BoundMeant
    <2>3. ASSUME NEW u \in Conn, task'[u].op = "constructExec", Stage(u)' # "register"
          PROVE  meant'[task'[u].obj] = None
      <3>1. CASE u = t
        BY <1>4, <1>6, <2>3, <3>1, NoneIsNeither DEF SameCall
      <3>2. CASE u # t
        <4>1. /\ task[u].obj \in Query /\ meant[task[u].obj] = None
              /\ query[task[u].obj].conn = u
          BY <1>4, <2>3, <3>2, NoneIsNeither DEF BoundMeant, CallObjects, Stage
        <4>2. QED
          BY <1>3, <1>4, <1>6, <3>2, <4>1
      <3>3. QED
        BY <3>1, <3>2
    <2>4. QED
      BY <2>1, <2>2, <2>3 DEF BoundMeant
  <1>17. AllHeard'
    BY <1>2, <1>4, <1>7 DEF AllHeard, Works, Stage
  <1>18. Locked'
    BY <1>1, <1>3, <1>4 DEF Locked, Checking, Stage, Registered, WithStatement
  <1>19. ClosedIsGone'
    BY <1>7 DEF ClosedIsGone
  <1>20. SessionsCounted'
    BY DEF SessionsCounted
  <1>21. QED
    BY <1>9, <1>10, <1>11, <1>12, <1>13, <1>14, <1>15, <1>16, <1>17, <1>18, <1>19, <1>20

\* prepare() of the driver, for a query of the program or one for the cache.
LEMMA DriverPrepareInv ==
    ASSUME QueryInv, NEW t \in Conn, DriverPrepare(t)
    PROVE  QueryInv'
  <1>1. PICK ok \in BOOLEAN :
          /\ ok => Works(t)
          /\ query' = [query EXCEPT ![task[t].obj] =
                IF isOpen[t]
                THEN NewQuery(t, "alive", task[t].stmt, IF ok THEN session[t] ELSE 0, None)
                ELSE [Unsent(task[t].obj) EXCEPT !.ready = FALSE]]
          /\ meant' = [meant EXCEPT ![task[t].obj] = query'[task[t].obj].bound]
          /\ IF ok
             THEN IF task[t].op = "cached" THEN GoTo(t, "insert") ELSE Return(t)
             ELSE Failed(t)
    BY DEF DriverPrepare
  <1>2. /\ At(t, "driver") /\ task[t].op \in {"prepare", "cached"}
        /\ shares' = Detached({task[t].obj})
        /\ isOpen' = [isOpen EXCEPT ![t] = @ /\ alive[t]]
        /\ UNCHANGED <<locks, registry, cache, cacheEnabled, monitors, heard, calls, session,
                       alive, losses, exited, ops>>
    BY DEF DriverPrepare
  <1>3. /\ TypeOK /\ task[t] # Idle /\ task[t].op \in {"prepare", "cached"}
        /\ task[t].obj \in Query /\ query[task[t].obj].life = "alive"
        /\ query[task[t].obj].conn = t /\ task[t].stmt \in Stmt
        /\ query[task[t].obj].session > 0 => query[task[t].obj].stmt # None
    BY <1>2, AtPlace, NoneIsNeither
       DEF QueryInv, CallStages, CallObjects, OnlyPrepared, Tasks, Constructs
  <1>4. \E new \in Objects :
          /\ query' = [query EXCEPT ![task[t].obj] = new]
          /\ new.life = "alive" /\ new.conn = t
          /\ new.session > 0 => new.stmt # None
          /\ isOpen[t] => new.session = IF ok THEN session[t] ELSE 0
    <2>1. CASE isOpen[t]
      <3> DEFINE n == IF ok THEN session[t] ELSE 0
                 new == NewQuery(t, "alive", task[t].stmt, n, None)
      <3>1. n \in 0 .. MaxLoss + 1
        BY <1>3, BoundsAssumption DEF TypeOK
      <3>2. query' = [query EXCEPT ![task[t].obj] = new]
        BY <1>1, <2>1
      <3> HIDE DEF n
      <3>3. /\ new \in Objects /\ new.life = "alive" /\ new.conn = t
            /\ new.stmt = task[t].stmt /\ new.session = n
        BY <1>3, <3>1 DEF NewQuery, Objects
      <3> HIDE DEF new
      <3>4. QED
        BY <1>3, <2>1, <3>2, <3>3, NoneIsNeither DEF n
    <2>2. CASE ~isOpen[t]
      <3> DEFINE new == [Unsent(task[t].obj) EXCEPT !.ready = FALSE]
      <3>1. query[task[t].obj] \in Objects /\ 0 \in 0 .. MaxLoss + 1
        BY <1>3, BoundsAssumption DEF TypeOK
      <3>2. Unsent(task[t].obj) \in Objects
        BY <3>1 DEF Unsent, Objects
      <3>3. /\ Unsent(task[t].obj).life = "alive" /\ Unsent(task[t].obj).conn = t
            /\ Unsent(task[t].obj).session > 0 => Unsent(task[t].obj).stmt # None
        BY <1>3, <3>1 DEF Unsent, Objects
      <3>4. /\ new \in Objects /\ new.life = "alive" /\ new.conn = t
            /\ new.session > 0 => new.stmt # None
        BY <3>2, <3>3 DEF Objects
      <3>5. query' = [query EXCEPT ![task[t].obj] = new]
        BY <1>1, <2>2
      <3> HIDE DEF new
      <3>6. QED
        BY <2>2, <3>4, <3>5
    <2>3. QED
      BY <2>1, <2>2
  <1>5. PICK new \in Objects :
          /\ query' = [query EXCEPT ![task[t].obj] = new]
          /\ new.life = "alive" /\ new.conn = t
          /\ new.session > 0 => new.stmt # None
          /\ isOpen[t] => new.session = IF ok THEN session[t] ELSE 0
    BY <1>4
  <1>6. meant' = [meant EXCEPT ![task[t].obj] = new.bound]
    BY <1>1, <1>3, <1>5 DEF TypeOK
  <1>7. \/ Return(t)
        \/ GoTo(t, "insert") /\ task[t].op = "cached" /\ new.session = session[t]
        \/ GoTo(t, "unregister") /\ task[t].op = "cached"
        \/ task' = [task EXCEPT ![t].at = "lockQueries", ![t].attempt = 2]
    BY <1>1, <1>5 DEF Failed, Works
  <1>8. /\ shares' \in [Query -> SUBSET Query]
        /\ isOpen[t] => new.session \in {0, session[t]}
    BY <1>2, <1>3, <1>5, SharesType
  <1>9. QED
    BY <1>2, <1>5, <1>6, <1>7, <1>8, DriverInv

\* exec() of the driver, also the one of a constructor.
LEMMA DriverExecInv ==
    ASSUME QueryInv, NEW t \in Conn, DriverExec(t)
    PROVE  QueryInv'
  <1>1. PICK ok \in BOOLEAN :
          /\ query' = [query EXCEPT ![task[t].obj] =
                         IF task[t].op = "exec" THEN @
                         ELSE NewQuery(t, IF ~ok /\ Dies(t) THEN "dead" ELSE "alive",
                                       task[t].stmt, IF ok THEN session[t] ELSE 0, None)]
          /\ IF ok THEN Return(t) ELSE Failed(t)
    BY DEF DriverExec
  <1>2. /\ At(t, "driver") /\ task[t].op \in {"exec", "constructExec"}
        /\ isOpen' = [isOpen EXCEPT ![t] = @ /\ alive[t]]
        /\ UNCHANGED <<locks, registry, shares, cache, cacheEnabled, meant, monitors, heard, calls,
                       session, alive, losses, exited, ops>>
    BY DEF DriverExec
  <1> DEFINE n == IF ok THEN session[t] ELSE 0
             life == IF ~ok /\ Dies(t) THEN "dead" ELSE "alive"
  <1>3. n \in {0, session[t]} /\ life \in {"alive", "dead"}
    OBVIOUS
  <1>4. \/ Return(t)
        \/ /\ task' = [task EXCEPT ![t].at = "lockQueries", ![t].attempt = 2]
           /\ life = "alive"
    BY <1>1, <1>2 DEF Failed, Dies
  <1> DEFINE new == IF task[t].op = "exec" THEN [query[task[t].obj] EXCEPT !.session = 0]
                    ELSE NewQuery(t, life, task[t].stmt, n, None)
  <1>5. query' = IF task[t].op = "exec" THEN query ELSE [query EXCEPT ![task[t].obj] = new]
    BY <1>1 DEF QueryInv, TypeOK
  <1>6. /\ TypeOK /\ task[t] # Idle /\ shares' \in [Query -> SUBSET Query]
        /\ session[t] \in 0 .. MaxLoss + 1 /\ 0 \in 0 .. MaxLoss + 1
        /\ task[t].obj \in Query /\ query[task[t].obj] \in Objects
        /\ query[task[t].obj].life = "alive" /\ query[task[t].obj].conn = t
        /\ task[t].op = "constructExec" => task[t].stmt \in Stmt
    BY <1>2, AtPlace, NoneIsNeither, BoundsAssumption
       DEF QueryInv, TypeOK, CallStages, CallObjects, Constructs, Tasks
  <1> HIDE DEF n, life
  <1>7. /\ new \in Objects /\ new.conn = t
        /\ new.session > 0 => new.stmt # None
        /\ new.session \in {0, session[t]}
        /\ new.life = IF task[t].op = "exec" THEN "alive" ELSE life
        /\ task[t].op = "constructExec" => new.bound = None
    <2>1. CASE task[t].op = "exec"
      BY <1>6, <2>1 DEF Objects
    <2>2. CASE task[t].op # "exec"
      BY <1>2, <1>3, <1>6, <2>2, NoneIsNeither DEF NewQuery, Objects
    <2>3. QED
      BY <2>1, <2>2
  <1> HIDE DEF new
  <1>8. QED
    BY <1>2, <1>3, <1>4, <1>5, <1>6, <1>7, DriverInv

\* The cache is emptied one query at a time.
LEMMA EmptyInv ==
    ASSUME QueryInv, NEW t \in Conn, Empty(t)
    PROVE  QueryInv'
  <1>1. CASE Return(t) /\ UNCHANGED <<registry, query, shares, meant>>
    BY <1>1, ReturnInv DEF Empty, objects
  <1>2. CASE \E q \in task[t].left : /\ Unregister(q)
                                     /\ task' = [task EXCEPT ![t].left = @ \ {q}]
    BY <1>2, EmptyOneInv DEF Empty
  <1>3. QED
    BY <1>1, <1>2 DEF Empty

\* A query goes into the cache if there is one.
LEMMA CopyInv ==
    ASSUME QueryInv, NEW t \in Conn, Insert(t)
    PROVE  QueryInv'
  <1>1. At(t, "insert")
    BY DEF Insert
  <1>2. CASE Caches
    BY <1>1, <1>2, InsertInv
  <1>3. CASE ~Caches
    BY <1>3, ReturnInv DEF Insert, objects
  <1>4. QED
    BY <1>2, <1>3

\* Every call of the program.
LEMMA CallInv ==
    ASSUME QueryInv, NEW t \in Conn, Call(t)
    PROVE  QueryInv'
  <1>1. ASSUME NEW q \in Query, Construct(t, q) \/ Exec(t, q) \/ Destroy(t, q)
        PROVE  QueryInv'
    BY <1>1, StartInv DEF Construct, Exec, Destroy, Constructs, Places
  <1>2. ASSUME NEW q \in Query, NEW s \in Stmt,
               ConstructExec(t, q, s) \/ Prepare(t, q, s) \/ PrepareCached(t, q, s)
        PROVE  QueryInv'
    BY <1>2, StartInv, NoneIsNeither DEF ConstructExec, Prepare, PrepareCached, Constructs, Places
  <1>3. QED
    BY <1>1, <1>2, BindInv, SetEnabledInv, CreateMonitorInv, DestroyMonitorInv DEF Call

-----------------------------------------------------------------------------
(* Who waits for whom, and how a call comes to its end *)

\* A mutex is owned only inside of checkDbIsAlive.
Body == {"loop", "drop", "prepareAgain", "subscribe"}

Released ==
    /\ queryMutex # None => Stage(queryMutex) \in Body \cup {"lockMonitors"}
    /\ monitorMutex # None => Stage(monitorMutex) \in Body

\* The next step of the call takes queryMutex, or monitorMutex.
AsksQueries(t) ==
    \/ Stage(t) \in {"register", "unregister", "lockQueries"}
    \/ Stage(t) = "insert" /\ Caches
    \/ Stage(t) \in {"empty", "drop"} /\ task[t].left # {}

AsksMonitors(t) == Stage(t) = "lockMonitors"

Waits(t) ==
    \/ AsksQueries(t) /\ queryMutex # None
    \/ AsksMonitors(t) /\ monitorMutex # None

\* While the process runs, a thread waits only for one that does not wait itself,
\* or that waits for itself: there is no circle of two threads or more.
NoCircle ==
    ~exited => \A t \in Conn : Waits(t) => \E u \in Conn : queryMutex = u /\ (Waits(u) => SelfDeadlocked(u))

\* How far a call is in an attempt, and in the body of checkDbIsAlive.
Part == [at \in Places |->
            CASE at = "register" -> 0 [] at = "lockQueries" -> 1 [] at = "lockMonitors" -> 2
              [] at \in Body -> 3 [] at = "driver" -> 4 [] OTHER -> 5]

Turn == [at \in Body |->
            CASE at = "drop" -> 0 [] at = "prepareAgain" -> 1 [] at = "subscribe" -> 2 [] OTHER -> 3]

\* What a step makes of a call k: it is in its second attempt, or in a later
\* part of its attempt, or opens the connection once more, or is further in
\* the body, or has one query less to see to.
Nearer(k, n) ==
    \/ k.attempt < n.attempt
    \/ /\ k.attempt = n.attempt
       /\ \/ Part[k.at] < Part[n.at]
          \/ /\ {k.at, n.at} \subseteq Body
             /\ \/ k.retry < n.retry
                \/ k.retry = n.retry /\ Turn[k.at] < Turn[n.at]
          \/ /\ k.at = n.at /\ k.retry = n.retry
             /\ n.left \subseteq k.left /\ n.left # k.left

CallsAdvance ==
    [][\A t \in Conn : task[t] # Idle =>
          /\ Step(t) => exited' \/ task'[t] # task[t]
          /\ task'[t] \in {task[t], Idle} \/ Nearer(task[t], task'[t])]_vars

\* The parts of an attempt, and of the body, in their order.
LEMMA PartIs ==
    /\ Part["register"] = 0 /\ Part["lockQueries"] = 1 /\ Part["lockMonitors"] = 2
    /\ \A at \in Body : Part[at] = 3
    /\ Part["driver"] = 4 /\ Part["insert"] = 5 /\ Part["unregister"] = 5 /\ Part["empty"] = 5
    /\ Turn["drop"] = 0 /\ Turn["prepareAgain"] = 1 /\ Turn["subscribe"] = 2 /\ Turn["loop"] = 3
  <1>1. /\ Part["register"] = 0 /\ Part["lockQueries"] = 1 /\ Part["lockMonitors"] = 2
        /\ Part["driver"] = 4 /\ Part["insert"] = 5 /\ Part["unregister"] = 5 /\ Part["empty"] = 5
    BY DEF Part, Places, Body
  <1>2. \A at \in Body : Part[at] = 3
    BY DEF Part, Places, Body
  <1>3. /\ Turn["drop"] = 0 /\ Turn["prepareAgain"] = 1 /\ Turn["subscribe"] = 2
        /\ Turn["loop"] = 3
    BY DEF Turn, Body
  <1>4. QED
    BY <1>1, <1>2, <1>3

\* What a step of a call makes of it, and of the mutexes.
Moves(t) ==
    /\ \A u \in Conn \ {t} : task'[u] = task[u]
    /\ \/ task'[t] = Idle /\ Stage(t) \notin Body \cup {"lockMonitors"}
       \/ task'[t] # Idle /\ Nearer(task[t], task'[t])
    /\ \/ UNCHANGED locks /\ (Stage(t) \in Body => Stage(t)' \in Body) /\ Stage(t) # "lockMonitors"
       \/ /\ queryMutex' = t /\ Stage(t)' = "lockMonitors"
          /\ UNCHANGED monitorMutex /\ Stage(t) \notin Body
       \/ monitorMutex' = t /\ Stage(t)' = "loop" /\ UNCHANGED queryMutex
       \/ queryMutex' = None /\ monitorMutex' = None

\* The parts of a task that order it.
LEMMA TaskParts ==
    ASSUME NEW k \in Tasks
    PROVE  k.attempt \in {1, 2} /\ k.retry \in 0 .. MaxRetry /\ k.retry \in Nat /\ k.at \in Places
  BY DEF Tasks

\* A call that goes on to a later part of its attempt.
LEMMA GoesOn ==
    ASSUME TypeOK, NEW t \in Conn, NEW where \in Places, task[t] # Idle, GoTo(t, where),
           Part[task[t].at] < Part[where] \/ ({task[t].at, where} \subseteq Body /\ Turn[task[t].at] < Turn[where])
    PROVE  /\ \A u \in Conn \ {t} : task'[u] = task[u]
           /\ task'[t] # Idle /\ Nearer(task[t], task'[t])
           /\ Stage(t)' = where
  <1>1. task[t] \in Tasks
    BY DEF TypeOK
  <1>2. /\ \A u \in Conn \ {t} : task'[u] = task[u]
        /\ task'[t] # Idle /\ task'[t].at = where
    BY GoToTask
  <1>3. task'[t].attempt = task[t].attempt /\ task'[t].retry = task[t].retry
    BY <1>1 DEF GoTo, TypeOK, Tasks
  <1>4. QED
    BY <1>2, <1>3 DEF Nearer, Stage

\* The driver's command failed: there is a second attempt, or that was it.
LEMMA FailedMoves ==
    ASSUME TypeOK, NEW t \in Conn, At(t, "driver"), Failed(t), UNCHANGED locks
    PROVE  Moves(t)
  <1>1. task[t] # Idle /\ task[t] \in Tasks /\ task[t].at = "driver"
    BY AtPlace
  <1>2. Stage(t) = "driver" /\ "driver" \notin Body /\ Part["driver"] < Part["unregister"]
    BY <1>1, PartIs DEF Stage, Body
  <1>3. CASE ~isOpen'[t] /\ task[t].attempt = 1
    <2> DEFINE k == [task[t] EXCEPT !.at = "lockQueries", !.attempt = 2]
    <2>1. k \in Tasks /\ k.attempt = 2
      BY <1>1 DEF Tasks, Places
    <2>2. task' = [task EXCEPT ![t] = k]
      BY <1>3 DEF Failed
    <2> HIDE DEF k
    <2>3. /\ \A u \in Conn \ {t} : task'[u] = task[u]
          /\ task'[t] = k /\ k # Idle
      BY <2>1, <2>2, ChangeTask
    <2>4. Nearer(task[t], k)
      BY <1>3, <2>1 DEF Nearer
    <2>5. QED
      BY <1>2, <2>3, <2>4 DEF Moves
  <1>4. CASE ~(~isOpen'[t] /\ task[t].attempt = 1) /\ task[t].op = "cached"
    <2>1. GoTo(t, "unregister")
      BY <1>4 DEF Failed
    <2>2. "unregister" \in Places
      BY DEF Places
    <2>3. QED
      BY <1>1, <1>2, <2>1, <2>2, GoesOn DEF Moves
  <1>5. CASE ~(~isOpen'[t] /\ task[t].attempt = 1) /\ task[t].op # "cached"
    BY <1>2, <1>5, ReturnTask DEF Failed, Moves
  <1>6. QED
    BY <1>3, <1>4, <1>5

\* Registering, unregistering, and the driver's commands.
LEMMA OutsideMoves ==
    ASSUME QueryInv, NEW t \in Conn,
           Register(t) \/ DestroyEnd(t) \/ Insert(t) \/ DriverPrepare(t) \/ DriverExec(t)
    PROVE  Moves(t)
  <1>1. TypeOK
    BY DEF QueryInv
  <1>2. ASSUME Return(t), UNCHANGED locks, NEW where, At(t, where),
               where \notin Body, where # "lockMonitors"
        PROVE  Moves(t)
    <2>1. Stage(t) = where
      BY <1>1, <1>2, AtPlace DEF Stage
    <2>2. QED
      BY <1>1, <1>2, <2>1, ReturnTask DEF Moves
  <1>3. ASSUME NEW where, At(t, where), NEW to \in Places, GoTo(t, to), UNCHANGED locks,
               where \notin Body, where # "lockMonitors", Part[where] < Part[to]
        PROVE  Moves(t)
    <2>1. task[t] # Idle /\ task[t].at = where /\ Stage(t) = where
      BY <1>1, <1>3, AtPlace DEF Stage
    <2>2. QED
      BY <1>1, <1>3, <2>1, GoesOn DEF Moves
  <1>4. CASE Register(t)
    <2>1. At(t, "register") /\ UNCHANGED locks /\ (Return(t) \/ GoTo(t, "lockQueries"))
      BY <1>4 DEF Register
    <2>2. "register" \notin Body /\ "lockQueries" \in Places /\ Part["register"] < Part["lockQueries"]
      BY PartIs DEF Body, Places
    <2>3. QED
      BY <1>2, <1>3, <2>1, <2>2
  <1>5. CASE DestroyEnd(t) \/ Insert(t)
    <2>1. (At(t, "unregister") \/ At(t, "insert")) /\ UNCHANGED locks /\ Return(t)
      BY <1>5 DEF DestroyEnd, Insert
    <2>2. "unregister" \notin Body /\ "insert" \notin Body
      BY DEF Body
    <2>3. QED
      BY <1>2, <2>1, <2>2
  <1>6. CASE DriverPrepare(t) \/ DriverExec(t)
    <2>1. At(t, "driver") /\ UNCHANGED locks /\ (Return(t) \/ GoTo(t, "insert") \/ Failed(t))
      BY <1>6 DEF DriverPrepare, DriverExec
    <2>2. "driver" \notin Body /\ "insert" \in Places /\ Part["driver"] < Part["insert"]
      BY PartIs DEF Body, Places
    <2>3. QED
      BY <1>1, <1>2, <1>3, <2>1, <2>2, FailedMoves
  <1>7. QED
    BY <1>4, <1>5, <1>6

\* One more query is out of the cache.
LEMMA EmptyMoves ==
    ASSUME QueryInv, NEW t \in Conn, Empty(t)
    PROVE  Moves(t)
  <1>1. TypeOK /\ UNCHANGED locks
    BY DEF QueryInv, Empty
  <1>2. task[t] # Idle /\ task[t] \in Tasks /\ task[t].at = "empty" /\ Stage(t) = "empty"
    BY <1>1, AtPlace DEF Empty, Stage
  <1>3. "empty" \notin Body
    BY DEF Body
  <1>4. CASE Return(t)
    BY <1>1, <1>2, <1>3, <1>4, ReturnTask DEF Moves
  <1>5. ASSUME NEW q \in task[t].left, task' = [task EXCEPT ![t].left = @ \ {q}]
        PROVE  Moves(t)
    <2> DEFINE k == [task[t] EXCEPT !.left = @ \ {q}]
    <2>1. /\ k \in Tasks /\ k.left = task[t].left \ {q} /\ k.at = "empty"
          /\ k.attempt = task[t].attempt /\ k.retry = task[t].retry
      BY <1>2 DEF Tasks
    <2>2. task' = [task EXCEPT ![t] = k]
      BY <1>5
    <2> HIDE DEF k
    <2>3. /\ \A u \in Conn \ {t} : task'[u] = task[u]
          /\ task'[t] = k /\ k # Idle
      BY <1>1, <2>1, <2>2, ChangeTask
    <2>4. k.left \subseteq task[t].left /\ k.left # task[t].left
      BY <1>5, <2>1
    <2>5. Nearer(task[t], k)
      BY <1>2, <2>1, <2>4 DEF Nearer
    <2>6. QED
      BY <1>1, <1>2, <1>3, <2>3, <2>5 DEF Moves
  <1>6. QED
    BY <1>4, <1>5 DEF Empty

\* A step within the body: the connection is opened once more, or the body goes
\* on to its next turn, or a query has been seen to.
LEMMA WithinBody ==
    ASSUME TypeOK, NEW t \in Conn, task[t] # Idle, task[t].at \in Body, UNCHANGED locks,
           NEW k \in Tasks, task' = [task EXCEPT ![t] = k], k.at \in Body,
           k.attempt = task[t].attempt,
           \/ task[t].retry < k.retry
           \/ k.retry = task[t].retry /\ Turn[task[t].at] < Turn[k.at]
           \/ k.retry = task[t].retry /\ k.at = task[t].at
              /\ k.left \subseteq task[t].left /\ k.left # task[t].left
    PROVE  Moves(t)
  <1>1. /\ \A u \in Conn \ {t} : task'[u] = task[u]
        /\ task'[t] = k /\ k # Idle
    BY ChangeTask
  <1>2. Nearer(task[t], k)
    BY DEF Nearer
  <1>3. Stage(t) \in Body /\ Stage(t)' \in Body /\ "lockMonitors" \notin Body
    BY <1>1 DEF Stage, Body
  <1>4. QED
    BY <1>1, <1>2, <1>3 DEF Moves

\* checkDbIsAlive takes its mutexes, and releases both.
LEMMA LockMoves ==
    ASSUME QueryInv, NEW t \in Conn, LockQueries(t) \/ LockMonitors(t) \/ LeaveLoop(t)
    PROVE  Moves(t)
  <1>1. TypeOK
    BY DEF QueryInv
  <1>2. CASE LockQueries(t)
    <2>1. /\ At(t, "lockQueries") /\ GoTo(t, "lockMonitors") /\ queryMutex' = t
          /\ UNCHANGED monitorMutex
      BY <1>2 DEF LockQueries
    <2>2. task[t] # Idle /\ task[t].at = "lockQueries" /\ Stage(t) \notin Body
      BY <1>1, <2>1, AtPlace DEF Stage, Body
    <2>3. "lockMonitors" \in Places /\ Part["lockQueries"] < Part["lockMonitors"]
      BY PartIs DEF Places
    <2>4. QED
      BY <1>1, <2>1, <2>2, <2>3, GoesOn DEF Moves
  <1>3. CASE LockMonitors(t)
    <2>1. task[t] # Idle /\ task[t] \in Tasks /\ task[t].at = "lockMonitors"
      BY <1>1, <1>3, AtPlace DEF LockMonitors
    <2> DEFINE k == [task[t] EXCEPT !.at = "loop", !.retry = 0, !.saved = BoundValues(t)]
    <2>2. task' = [task EXCEPT ![t] = k] /\ monitorMutex' = t /\ UNCHANGED queryMutex
      BY <1>3 DEF LockMonitors
    <2>3. BoundValues(t) \in [Query -> Value \cup {None}]
      BY <1>1 DEF BoundValues, TypeOK, Objects
    <2>4. k \in Tasks /\ k.at = "loop" /\ k.attempt = task[t].attempt
      <3> DEFINE saved == BoundValues(t)
      <3>1. saved \in [Query -> Value \cup {None}] /\ 0 \in 0 .. MaxRetry /\ "loop" \in Places
        BY <2>3, BoundsAssumption DEF Places
      <3> HIDE DEF saved
      <3>2. [task[t] EXCEPT !.at = "loop", !.retry = 0, !.saved = saved] \in Tasks
        BY <2>1, <3>1 DEF Tasks
      <3>3. k \in Tasks
        BY <3>2 DEF saved
      <3>4. QED
        BY <2>1, <3>3 DEF Tasks
    <2> HIDE DEF k
    <2>5. /\ \A u \in Conn \ {t} : task'[u] = task[u]
          /\ task'[t] = k /\ k # Idle
      BY <1>1, <2>2, <2>4, ChangeTask
    <2>6. Part[task[t].at] < Part[k.at]
      BY <2>1, <2>4, PartIs DEF Body
    <2>7. Nearer(task[t], k)
      BY <2>4, <2>6 DEF Nearer
    <2>8. QED
      BY <2>2, <2>4, <2>5, <2>7 DEF Moves, Stage
  <1>4. CASE LeaveLoop(t)
    <2>1. At(t, "loop") /\ GoTo(t, "driver") /\ queryMutex' = None /\ monitorMutex' = None
      BY <1>4 DEF LeaveLoop, Unlock
    <2>2. task[t] # Idle /\ task[t].at = "loop"
      BY <1>1, <2>1, AtPlace
    <2>3. "driver" \in Places /\ Part["loop"] < Part["driver"]
      BY PartIs DEF Places, Body
    <2>4. QED
      BY <1>1, <2>1, <2>2, <2>3, GoesOn DEF Moves
  <1>5. QED
    BY <1>2, <1>3, <1>4

\* The body of checkDbIsAlive.
LEMMA BodyMoves ==
    ASSUME QueryInv, NEW t \in Conn,
           \/ OpenFails(t) \/ Reopen(t) \/ Drop(t) \/ PrepareAgain(t)
           \/ PreparedAgain(t) \/ Subscribe(t)
    PROVE  Moves(t)
  <1>1. TypeOK /\ UNCHANGED locks
    BY DEF QueryInv, OpenFails, Reopen, Drop, PrepareAgain, PreparedAgain, Subscribe
  <1>2. /\ task[t] # Idle /\ task[t] \in Tasks /\ task[t].at \in Body
        /\ task[t].retry \in Nat /\ task[t].retry <= MaxRetry
    <2>1. At(t, "loop") \/ At(t, "drop") \/ At(t, "prepareAgain") \/ At(t, "subscribe")
      BY DEF OpenFails, Reopen, Drop, PrepareAgain, PreparedAgain, Subscribe
    <2>2. task[t] # Idle /\ task[t] \in Tasks /\ task[t].at \in Body
      BY <1>1, <2>1, AtPlace DEF Body
    <2>3. QED
      BY <2>2, TaskParts
  <1>3. ASSUME ~GivesUp(t) PROVE task[t].retry + 1 \in 0 .. MaxRetry
    BY <1>2, <1>3, BoundsAssumption DEF GivesUp
  <1>4. CASE OpenFails(t)
    <2> DEFINE k == [task[t] EXCEPT !.retry = @ + 1]
    <2>1. task' = [task EXCEPT ![t] = k] /\ ~GivesUp(t)
      BY <1>4 DEF OpenFails
    <2>2. /\ k \in Tasks /\ k.at = task[t].at /\ k.attempt = task[t].attempt
          /\ k.retry = task[t].retry + 1
      BY <1>2, <1>3, <2>1 DEF Tasks
    <2> HIDE DEF k
    <2>3. task[t].retry < k.retry
      BY <1>2, <2>2
    <2>4. QED
      BY <1>1, <1>2, <2>1, <2>2, <2>3, WithinBody
  <1>5. CASE Reopen(t)
    <2> DEFINE left == cache \ cache'
               k == [task[t] EXCEPT !.at = "drop", !.retry = @ + 1, !.left = left]
    <2>1. task' = [task EXCEPT ![t] = k] /\ ~GivesUp(t) /\ left \in SUBSET Query
      BY <1>1, <1>5 DEF Reopen, TypeOK
    <2> HIDE DEF left
    <2>2. /\ k \in Tasks /\ k.at = "drop" /\ k.attempt = task[t].attempt
          /\ k.retry = task[t].retry + 1
      BY <1>2, <1>3, <2>1 DEF Tasks, Places
    <2> HIDE DEF k
    <2>3. task[t].retry < k.retry /\ k.at \in Body
      BY <1>2, <2>2 DEF Body
    <2>4. QED
      BY <1>1, <1>2, <2>1, <2>2, <2>3, WithinBody
  <1>6. CASE Drop(t)
    <2> DEFINE left == WithStatement(t) \ task[t].left
               k == [task[t] EXCEPT !.at = "prepareAgain", !.left = left]
    <2>1. task' = [task EXCEPT ![t] = k] /\ task[t].at = "drop" /\ left \in SUBSET Query
      BY <1>1, <1>6, AtPlace DEF Drop, WithStatement, Registered, TypeOK
    <2> HIDE DEF left
    <2>2. /\ k \in Tasks /\ k.at = "prepareAgain" /\ k.attempt = task[t].attempt
          /\ k.retry = task[t].retry
      BY <1>2, <2>1 DEF Tasks, Places
    <2> HIDE DEF k
    <2>3. Turn[task[t].at] < Turn[k.at] /\ k.at \in Body
      BY <2>1, <2>2, PartIs DEF Body
    <2>4. QED
      BY <1>1, <1>2, <2>1, <2>2, <2>3, WithinBody
  <1>7. CASE PrepareAgain(t)
    <2>1. PICK q \in task[t].left : task' = [task EXCEPT ![t].left = @ \ {q}]
      BY <1>7 DEF PrepareAgain
    <2> DEFINE k == [task[t] EXCEPT !.left = @ \ {q}]
    <2>2. task' = [task EXCEPT ![t] = k]
      BY <2>1
    <2>3. /\ k \in Tasks /\ k.at = task[t].at /\ k.attempt = task[t].attempt
          /\ k.retry = task[t].retry /\ k.left = task[t].left \ {q}
      BY <1>2 DEF Tasks
    <2> HIDE DEF k
    <2>4. k.left \subseteq task[t].left /\ k.left # task[t].left
      BY <2>1, <2>3
    <2>5. QED
      BY <1>1, <1>2, <2>2, <2>3, <2>4, WithinBody
  <1>8. ASSUME NEW to \in Body \cap Places, GoTo(t, to), Turn[task[t].at] < Turn[to]
        PROVE  Moves(t)
    <2> DEFINE k == [task[t] EXCEPT !.at = to]
    <2>1. task' = [task EXCEPT ![t] = k]
      BY <1>8 DEF GoTo
    <2>2. /\ k \in Tasks /\ k.at = to /\ k.attempt = task[t].attempt
          /\ k.retry = task[t].retry
      BY <1>2, <1>8 DEF Tasks
    <2> HIDE DEF k
    <2>3. QED
      BY <1>1, <1>2, <1>8, <2>1, <2>2, WithinBody
  <1>9. CASE PreparedAgain(t)
    <2>1. task[t].at = "prepareAgain" /\ GoTo(t, "subscribe")
      BY <1>1, <1>9, AtPlace DEF PreparedAgain
    <2>2. "subscribe" \in Body \cap Places /\ Turn["prepareAgain"] < Turn["subscribe"]
      BY PartIs DEF Body, Places
    <2>3. QED
      BY <1>8, <2>1, <2>2
  <1>10. CASE Subscribe(t)
    <2>1. task[t].at = "subscribe" /\ GoTo(t, "loop")
      BY <1>1, <1>10, AtPlace DEF Subscribe
    <2>2. "loop" \in Body \cap Places /\ Turn["subscribe"] < Turn["loop"]
      BY PartIs DEF Body, Places
    <2>3. QED
      BY <1>8, <2>1, <2>2
  <1>11. QED
    BY <1>4, <1>5, <1>6, <1>7, <1>9, <1>10

\* Every step of a call but the end of the process.
LEMMA StepMoves ==
    ASSUME QueryInv, NEW t \in Conn, Step(t)
    PROVE  Moves(t) \/ Exit(t)
  BY OutsideMoves, EmptyMoves, LockMoves, BodyMoves DEF Step

\* Every other step: a call starts, a connection is lost.
LEMMA NoMove ==
    ASSUME QueryInv, NEW t \in Conn, Call(t) \/ Lose(t)
    PROVE  UNCHANGED locks /\ \A u \in Conn : task[u] # Idle => task'[u] = task[u]
  <1> DEFINE Starts == /\ UNCHANGED locks
                       /\ \/ UNCHANGED task
                          \/ task[t] = Idle /\ \E k : task' = [task EXCEPT ![t] = k]
  <1>1. ASSUME NEW op, NEW q, NEW s, NEW where, Start(t, op, q, s, where)
        PROVE  task[t] = Idle /\ \E k : task' = [task EXCEPT ![t] = k]
    BY <1>1 DEF Start, MayCall, SameThread
  <1>2. ASSUME NEW q \in Query, Construct(t, q) \/ Exec(t, q) \/ Destroy(t, q) PROVE Starts
    BY <1>1, <1>2 DEF Construct, Exec, Destroy
  <1>3. ASSUME NEW q \in Query, NEW s \in Stmt,
               ConstructExec(t, q, s) \/ Prepare(t, q, s) \/ PrepareCached(t, q, s)
        PROVE  Starts
    BY <1>1, <1>3 DEF ConstructExec, Prepare, PrepareCached
  <1>4. ASSUME NEW b \in BOOLEAN, SetEnabled(t, b) PROVE Starts
    BY <1>4 DEF SetEnabled, MayCall, SameThread
  <1>5. ASSUME NEW q \in Query, NEW v \in Value, Bind(t, q, v) PROVE Starts
    BY <1>5 DEF Bind
  <1>6. ASSUME NEW m \in Monitor, CreateMonitor(t, m) \/ DestroyMonitor(t, m) PROVE Starts
    BY <1>6 DEF CreateMonitor, DestroyMonitor
  <1>7. ASSUME Lose(t) PROVE Starts
    BY <1>7 DEF Lose
  <1>8. Starts
    <2> HIDE DEF Starts
    <2>1. QED
      BY <1>2, <1>3, <1>4, <1>5, <1>6, <1>7 DEF Call
  <1>9. QED
    BY <1>8 DEF QueryInv, TypeOK

\* No call is nearer to its end than itself.
LEMMA NotNearer ==
    ASSUME NEW k \in Tasks
    PROVE  ~Nearer(k, k)
  <1>1. k.attempt \in Nat /\ k.retry \in Nat /\ k.at \in Places
    BY TaskParts
  <1>2. ~(k.attempt < k.attempt) /\ ~(k.retry < k.retry)
    BY <1>1
  <1>3. ~(Part[k.at] < Part[k.at])
    <2>1. Part[k.at] \in Nat
      BY <1>1, PartIs DEF Places, Body
    <2>2. QED
      BY <2>1
  <1>4. ~({k.at, k.at} \subseteq Body /\ Turn[k.at] < Turn[k.at])
    BY PartIs DEF Body
  <1>5. QED
    BY <1>2, <1>3, <1>4 DEF Nearer

-----------------------------------------------------------------------------
(* Theorems *)

\* It holds of a program that has not started.
LEMMA InitInv == Init => QueryInv
  <1> SUFFICES ASSUME Init PROVE QueryInv
    OBVIOUS
  <1>1. TypeOK
    <2>1. 0 \in 0 .. MaxCalls /\ 0 \in 0 .. MaxLoss /\ 1 \in 1 .. MaxLoss + 1
      BY BoundsAssumption
    <2>2. QED
      BY <2>1, FreeType DEF Init, TypeOK
  <1>2. CallObjects /\ CallStages /\ CacheApart
    BY DEF Init, CallObjects, CallStages, CacheApart, Emptying, Stage
  <1>3. RegistryExact /\ PreparedFresh
    BY DEF Init, RegistryExact, PreparedFresh, Live, Free
  <1>4. OnlyPrepared /\ BoundMeant
    BY NoneIsNeither DEF Init, OnlyPrepared, BoundMeant, Checking, Stage, Free
  <1>5. AllHeard /\ Locked /\ ClosedIsGone /\ SessionsCounted
    BY DEF Init, AllHeard, Locked, Checking, Stage, ClosedIsGone, SessionsCounted
  <1>6. QED
    BY <1>1, <1>2, <1>3, <1>4, <1>5 DEF QueryInv

\* It does not depend on anything but the variables.
LEMMA StutterInv ==
    ASSUME QueryInv, UNCHANGED vars
    PROVE  QueryInv'
  <1>1. UNCHANGED <<queryMutex, monitorMutex, registry, monitors, query, shares, cache, cacheEnabled,
                    task, calls, isOpen, session, alive, heard, losses, exited, ops, meant>>
    BY DEF vars, locks, objects, conns
  <1>2. (TypeOK /\ CallObjects /\ CallStages /\ RegistryExact /\ CacheApart)'
    BY <1>1 DEF QueryInv, TypeOK, CallObjects, CallStages, RegistryExact, CacheApart, Emptying,
       Stage
  <1>3. (PreparedFresh /\ OnlyPrepared /\ BoundMeant)'
    BY <1>1 DEF QueryInv, PreparedFresh, OnlyPrepared, BoundMeant, Live, Prepared, Works, Runnable,
       Stage, Checking, Own
  <1>4. (AllHeard /\ Locked /\ ClosedIsGone /\ SessionsCounted)'
    BY <1>1 DEF QueryInv, AllHeard, Locked, ClosedIsGone, SessionsCounted, Stage, Works, Checking,
       Registered, WithStatement
  <1>5. QED
    BY <1>2, <1>3, <1>4 DEF QueryInv

\* Every step preserves it.
LEMMA NextInv == QueryInv /\ [Next]_vars => QueryInv'
  <1> SUFFICES ASSUME QueryInv, [Next]_vars PROVE QueryInv'
    OBVIOUS
  <1>1. ASSUME NEW t \in Conn, Step(t) PROVE QueryInv'
    BY <1>1, RegisterInv, DestroyEndInv, CopyInv, EmptyInv, LockQueriesInv, LockMonitorsInv,
       LeaveLoopInv, ExitInv, OpenFailsInv, ReopenInv, DropInv, PrepareAgainInv, PreparedAgainInv,
       SubscribeInv, DriverPrepareInv, DriverExecInv DEF Step
  <1>2. ASSUME NEW t \in Conn, Call(t) \/ Lose(t) PROVE QueryInv'
    BY <1>2, CallInv, LoseInv
  <1>3. CASE UNCHANGED vars
    BY <1>3, StutterInv
  <1>4. QED
    BY <1>1, <1>2, <1>3 DEF Next, Done

\* It implies what the runs check.
LEMMA QueryInvImplies ==
    ASSUME QueryInv
    PROVE  /\ TypeOK /\ RegistryExact /\ ExecFresh /\ BoundKept /\ CacheFresh /\ MonitorsHeard
           /\ Locked
  <1>1. ExecFresh
    <2> SUFFICES ASSUME NEW t \in Conn, At(t, "driver"), task[t].op = "exec", Works(t)
                 PROVE  Runnable(task[t].obj, t) \/ query[task[t].obj].session = 0
      BY DEF ExecFresh
    <2>1. task[t] # Idle /\ task[t].at = "driver"
      BY AtPlace DEF QueryInv
    <2>2. task[t].obj \in Query /\ Live(task[t].obj, t)
      BY <2>1, RunsAlive DEF QueryInv, Live
    <2>3. query[task[t].obj].session \in Nat
      BY <2>2, BoundsAssumption DEF QueryInv, TypeOK, Objects
    <2>4. query[task[t].obj].session # 0 => Prepared(task[t].obj)
      BY <2>2, <2>3 DEF QueryInv, OnlyPrepared, Prepared
    <2>5. QED
      BY <2>1, <2>2, <2>4 DEF QueryInv, PreparedFresh, Stage
  <1>2. BoundKept
    BY DEF QueryInv, BoundMeant, BoundKept, Own
  <1>3. CacheFresh
    <2> SUFFICES ASSUME NEW q \in cache, NEW t, t = query[q].conn, Works(t), ~Checking(t)
                 PROVE  Runnable(q, t)
      BY DEF CacheFresh
    <2>1. q \in Query /\ t \in Conn /\ query[q].life = "cached" /\ Prepared(q)
      BY DEF QueryInv, TypeOK, CacheApart, OnlyPrepared
    <2>2. QED
      BY <2>1 DEF QueryInv, PreparedFresh, Stage, Live, Checking
  <1>4. MonitorsHeard
    BY DEF QueryInv, AllHeard, MonitorsHeard, Checking, Stage
  <1>5. QED
    BY <1>1, <1>2, <1>3, <1>4 DEF QueryInv

\* Every step leaves the mutexes with threads in checkDbIsAlive.
LEMMA NextReleased ==
    ASSUME QueryInv, Released, [Next]_vars
    PROVE  Released'
  <1>1. /\ queryMutex \in Conn \cup {None} /\ monitorMutex \in Conn \cup {None}
        /\ queryMutex' \in Conn \cup {None} /\ monitorMutex' \in Conn \cup {None}
    BY NextInv DEF QueryInv, TypeOK
  <1>2. "idle" \notin Body \cup {"lockMonitors"}
    BY DEF Body
  <1>3. ASSUME NEW t \in Conn, Step(t) PROVE Released'
    <2>1. CASE Exit(t)
      <3>1. UNCHANGED <<queryMutex, monitorMutex, task>>
        BY <2>1 DEF Exit, locks
      <3>2. QED
        BY <3>1 DEF Released, Stage
    <2>2. CASE Moves(t)
      <3>1. \A u \in Conn \ {t} : Stage(u)' = Stage(u)
        BY <2>2 DEF Moves, Stage
      <3>2. CASE UNCHANGED locks /\ (Stage(t) \in Body => Stage(t)' \in Body) /\ Stage(t) # "lockMonitors"
        BY <1>1, <3>1, <3>2 DEF Released, locks
      <3>3. CASE /\ queryMutex' = t /\ Stage(t)' = "lockMonitors"
                 /\ UNCHANGED monitorMutex /\ Stage(t) \notin Body
        BY <1>1, <3>1, <3>3 DEF Released
      <3>4. CASE monitorMutex' = t /\ Stage(t)' = "loop" /\ UNCHANGED queryMutex
        <4>1. "loop" \in Body
          BY DEF Body
        <4>2. QED
          BY <1>1, <3>1, <3>4, <4>1 DEF Released
      <3>5. CASE queryMutex' = None /\ monitorMutex' = None
        BY <3>5 DEF Released
      <3>6. QED
        BY <2>2, <3>2, <3>3, <3>4, <3>5 DEF Moves
    <2>3. QED
      BY <1>3, <2>1, <2>2, StepMoves
  <1>4. ASSUME NEW t \in Conn, Call(t) \/ Lose(t) PROVE Released'
    <2>1. UNCHANGED <<queryMutex, monitorMutex>> /\ \A u \in Conn : task[u] # Idle => task'[u] = task[u]
      BY <1>4, NoMove DEF locks
    <2>2. \A u \in Conn : Stage(u) \in Body \cup {"lockMonitors"} => Stage(u)' = Stage(u)
      BY <1>2, <2>1 DEF Stage
    <2>3. QED
      BY <1>1, <2>1, <2>2 DEF Released
  <1>5. CASE UNCHANGED vars
    <2>1. UNCHANGED <<queryMutex, monitorMutex, task>>
      BY <1>5 DEF vars, locks
    <2>2. QED
      BY <2>1 DEF Released, Stage
  <1>6. QED
    BY <1>3, <1>4, <1>5 DEF Next, Done

\* The owner of queryMutex has monitorMutex or can take it.
LEMMA ReleasedNoCircle ==
    ASSUME QueryInv, Released
    PROVE  NoCircle
  <1> SUFFICES ASSUME ~exited, NEW t \in Conn, Waits(t)
               PROVE  \E u \in Conn : queryMutex = u /\ (Waits(u) => SelfDeadlocked(u))
    BY DEF NoCircle
  <1>1. /\ queryMutex \in Conn \cup {None} /\ monitorMutex \in Conn \cup {None}
        /\ None \notin Conn
    BY NoneIsNeither DEF QueryInv, TypeOK
  <1>2. \A u \in Conn : Stage(u) \in Body => Checking(u) /\ queryMutex = u /\ monitorMutex = u
    BY NoneIsNeither DEF QueryInv, Locked, Checking, Stage, Body
  <1>3. \A u \in Conn : Stage(u) = "lockMonitors" => queryMutex = u
    BY DEF QueryInv, Locked
  <1>4. \A u \in Conn : Stage(u) = "lockMonitors" => monitorMutex = None
    <2> SUFFICES ASSUME NEW u \in Conn, Stage(u) = "lockMonitors", monitorMutex # None PROVE FALSE
      OBVIOUS
    <2>1. Stage(monitorMutex) \in Body /\ monitorMutex \in Conn
      BY <1>1 DEF Released
    <2>2. queryMutex = monitorMutex /\ queryMutex = u
      BY <1>2, <1>3, <2>1
    <2>3. QED
      BY <2>1, <2>2 DEF Body
  <1>5. queryMutex \in Conn /\ Stage(queryMutex) \in Body \cup {"lockMonitors"}
    BY <1>1, <1>4 DEF Waits, AsksMonitors, Released
  <1>6. ASSUME Waits(queryMutex) PROVE SelfDeadlocked(queryMutex)
    <2>1. Stage(queryMutex) # "lockMonitors" \/ monitorMutex = None
      BY <1>4, <1>5
    <2>2. AsksQueries(queryMutex)
      BY <1>6, <2>1 DEF Waits, AsksMonitors
    <2>3. Stage(queryMutex) = "drop" /\ task[queryMutex].left # {}
      BY <1>5, <2>2 DEF AsksQueries, Body
    <2>4. QED
      BY <2>3 DEF SelfDeadlocked, At, Stage
  <1>7. QED
    BY <1>5, <1>6

\* The inductive invariant holds, whatever threads do and connections lose.
THEOREM Invariance == Spec => []QueryInv
  BY InitInv, NextInv, PTL DEF Spec

\* Every variable stays within its type.
THEOREM TypeCorrect == Spec => []TypeOK
  BY Invariance, QueryInvImplies, PTL

\* registerQuery and unregisterQuery keep the registry exact: whatever threads
\* construct, copy, cache and destroy queries, and whatever is lost meanwhile.
THEOREM RegistryIsExact == Spec => []RegistryExact
  BY Invariance, QueryInvImplies, PTL

\* A query that exec() sends to the server is prepared in the session its
\* connection has, or in none at all: never in one that is over.  It is in none
\* where SqlQueryManager::checkDbIsAlive ignored that preparing again was refused.
THEOREM QueriesAreFresh == Spec => []ExecFresh
  BY Invariance, QueryInvImplies, PTL

\* A query that the cache could hand out, SqlQueryCache::get, is prepared in the
\* session its connection has, if that can be reached.
THEOREM CachedAreFresh == Spec => []CacheFresh
  BY Invariance, QueryInvImplies, PTL

\* checkDbIsAlive keeps the values the program bound to its queries, also through
\* copies that share them, of every query that keeps its statement.
THEOREM ValuesAreKept == Spec => []BoundKept
  BY Invariance, QueryInvImplies, PTL

\* A connection that is back delivers the notifications of every monitor.
THEOREM MonitorsAreHeard == Spec => []MonitorsHeard
  BY Invariance, QueryInvImplies, PTL

\* checkDbIsAlive holds the mutex of the queries and that of the monitors all
\* the while it goes through them: no other thread registers one meanwhile.
THEOREM MutexesAreHeld == Spec => []Locked
  BY Invariance, QueryInvImplies, PTL

\* No mutex stays locked behind checkDbIsAlive, and no thread waits for one that
\* waits for another: what stops a thread for ever is a thread that asks for the
\* mutex it has, in SqlQueryCache::clear() inside of checkDbIsAlive.
THEOREM NoCircleOfThreads == Spec => [](Released /\ NoCircle)
  <1>1. Init => Released
    BY DEF Init, Released
  <1>2. QueryInv /\ Released /\ [Next]_vars => Released'
    BY NextReleased
  <1>3. QueryInv /\ Released => NoCircle
    BY ReleasedNoCircle
  <1>4. QED
    BY <1>1, <1>2, <1>3, Invariance, PTL DEF Spec

\* Every step of a call brings it nearer to its end: there are two attempts,
\* MaxRetry calls of open() in each, and no query is prepared again twice after
\* one of them.
THEOREM CallsComeToAnEnd == Spec => CallsAdvance
  <1> DEFINE A == \A t \in Conn : task[t] # Idle =>
                     /\ Step(t) => exited' \/ task'[t] # task[t]
                     /\ task'[t] \in {task[t], Idle} \/ Nearer(task[t], task'[t])
  <1>1. QueryInv /\ [Next]_vars => A
    <2> SUFFICES ASSUME QueryInv, [Next]_vars, NEW t \in Conn, task[t] # Idle
                 PROVE  /\ Step(t) => exited' \/ task'[t] # task[t]
                        /\ task'[t] \in {task[t], Idle} \/ Nearer(task[t], task'[t])
      OBVIOUS
    <2>1. ASSUME Step(t) PROVE exited' \/ task'[t] # task[t]
      <3>1. CASE Exit(t)
        BY <3>1 DEF Exit
      <3>2. CASE Moves(t)
        <4>1. task[t] \in Tasks
          BY DEF QueryInv, TypeOK
        <4>2. ~Nearer(task[t], task[t])
          BY <4>1, NotNearer
        <4>3. QED
          BY <3>2, <4>2 DEF Moves
      <3>3. QED
        BY <2>1, <3>1, <3>2, StepMoves
    <2>2. task'[t] \in {task[t], Idle} \/ Nearer(task[t], task'[t])
      <3>1. ASSUME NEW u \in Conn, Step(u)
            PROVE  task'[t] \in {task[t], Idle} \/ Nearer(task[t], task'[t])
        <4>1. CASE Exit(u)
          BY <4>1 DEF Exit
        <4>2. CASE Moves(u)
          BY <4>2 DEF Moves
        <4>3. QED
          BY <3>1, <4>1, <4>2, StepMoves
      <3>2. ASSUME NEW u \in Conn, Call(u) \/ Lose(u) PROVE task'[t] = task[t]
        BY <3>2, NoMove
      <3>3. CASE UNCHANGED vars
        BY <3>3 DEF vars
      <3>4. QED
        BY <3>1, <3>2, <3>3 DEF Next, Done
    <2>3. QED
      BY <2>1, <2>2
  <1>2. QED
    BY <1>1, Invariance, PTL DEF Spec, CallsAdvance
=============================================================================
