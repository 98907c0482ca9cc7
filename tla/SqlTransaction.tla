---------------------------- MODULE SqlTransaction ----------------------------
(***************************************************************************)
(* SqlTransaction (SqlTransaction.cpp): nested RAII transactions counted   *)
(* per connection name, over a driver connection that may be lost between  *)
(* any two commands, and a PostgreSQL session at its other end.            *)
(*                                                                         *)
(* A call is a sequence of steps: SqlQueryManager::checkDbIsAlive, the     *)
(* driver command, and at most one retry of both.  What checkDbIsAlive     *)
(* does to the queries and monitors of the connection is in module         *)
(* SqlQueryManager; here it reopens the connection, gives up or exits.     *)
(***************************************************************************)
EXTENDS Integers, FiniteSets

CONSTANTS
    Conn,       \* connection names
    MainConn,   \* those of the main thread; any other has a worker of its own
    Txn,        \* SqlTransaction objects, reused after their destruction
    Stmt,       \* statements the program executes, each one once
    Faults,     \* what the environment may do, a subset of AllFaults
    Catches,    \* whether the program may catch an exception inside a transaction
    MaxRetry,   \* calls of open() in one checkDbIsAlive (10 in the code)
    MaxLoss     \* bound on the connection losses of a behaviour

AllFaults == {"loss",       \* the session dies while no command is running
              "lostReply",  \* the session dies after executing a command
              "stmtError",  \* the server refuses a statement
              "deferred",   \* a deferred constraint fails at COMMIT
              "crash"}      \* the process is killed

ASSUME ConnAssumption == MainConn \subseteq Conn
ASSUME TxnAssumption == IsFiniteSet(Txn)
ASSUME FaultsAssumption == Faults \subseteq AllFaults
ASSUME BoundsAssumption ==
    Catches \subseteq BOOLEAN /\ Catches # {} /\ MaxRetry \in Nat /\ MaxLoss \in Nat

VARIABLES
    refCounts,  \* m_refCounts: a hash that has a key once the name was used
    txn,        \* the objects: [state, conn, scope]
    call,       \* the call the thread of each connection is in
    unwinding,  \* the exception that left a statement is still propagating
    isOpen,     \* QSqlDatabase::isOpen(): what the client library believes
    server,     \* the session: "gone", "idle", "open" or "aborted"
    pending,    \* what the session's transaction has applied
    durable,    \* what the database holds, of all connections
    todo,       \* statements not executed yet
    losses,     \* number of losses so far
    exited,     \* the process has ended
    unit,       \* history: statements that succeeded since the count was 0
    promised,   \* history: statements of the units commit() returned for
    discarded,  \* history: statements of the units rolled back as a whole
    revoked     \* history: statements of every object rolled back

program == <<refCounts, txn, call, unwinding, todo>>
database == <<isOpen, server, pending, durable, losses>>
history == <<unit, promised, discarded, revoked>>
vars == <<program, database, exited, history>>

-----------------------------------------------------------------------------
(* State *)

\* One execution of a statement: its first attempt or the retry.
Execution == Stmt \X {1, 2}

\* A call: the object or statement it is about, whether it is in
\* checkDbIsAlive or at its driver command, and which attempt this is.
NoCall == [op |-> "none"]
TxnOps == {"construct", "commit", "rollback", "destroy"}
Calls == [op : TxnOps, arg : Txn, at : {"check", "driver"},
          attempt : {1, 2}, retry : 0 .. MaxRetry]
         \cup [op : {"exec"}, arg : Stmt, at : {"check", "driver"},
               attempt : {1, 2}, retry : 0 .. MaxRetry]

NoObject == [state |-> "none"]
Constructing == [state |-> "constructing"]
Objects == [state : {"armed", "disarmed"}, conn : Conn, scope : SUBSET Stmt]

\* m_refCounts.value( name )
RefCount(c) == IF c \in DOMAIN refCounts THEN refCounts[c] ELSE 0

\* m_refCounts[ name ] += d, which inserts the key
AddRef(c, d) ==
    refCounts' = [n \in DOMAIN refCounts \cup {c} |->
                    IF n = c THEN RefCount(c) + d ELSE refCounts[n]]

\* SqlTransaction::transactionsCount()
TransactionsCount == Cardinality(DOMAIN refCounts)

Armed(c) == {t \in Txn : txn[t].state = "armed" /\ txn[t].conn = c}

SameThread(c, d) == c = d \/ {c, d} \subseteq MainConn

At(c, where, op) ==
    /\ ~exited
    /\ call[c].op = op
    /\ call[c].at = where

DurableStmts == {e[1] : e \in durable}

-----------------------------------------------------------------------------
(* The session and the driver: what a command may answer *)

Reply(ok, session, work, data) ==
    [ok |-> ok, server |-> session, pending |-> work, durable |-> data]

BeginReplies(c) ==
    IF server[c] = "aborted"
    THEN {Reply(FALSE, "aborted", pending[c], durable)}
    ELSE {Reply(TRUE, "open", pending[c], durable)}

\* A failure the environment may cause, which leaves the session so.
Failure(fault, session) ==
    IF fault \in Faults THEN {Reply(FALSE, session, {}, durable)} ELSE {}

\* COMMIT of an aborted transaction rolls it back and the driver reports a
\* failure; COMMIT without a transaction only warns.
CommitReplies(c) ==
    CASE server[c] = "open" ->
            {Reply(TRUE, "idle", {}, durable \cup pending[c])} \cup Failure("deferred", "idle")
      [] server[c] = "aborted" -> {Reply(FALSE, "idle", {}, durable)}
      [] OTHER -> {Reply(TRUE, "idle", {}, durable)}

RollbackReplies(c) == {Reply(TRUE, "idle", {}, durable)}

StmtReplies(c, e) ==
    CASE server[c] = "open" ->
            {Reply(TRUE, "open", pending[c] \cup {e}, durable)} \cup Failure("stmtError", "aborted")
      [] server[c] = "aborted" -> {Reply(FALSE, "aborted", {}, durable)}
      [] OTHER -> {Reply(TRUE, "idle", {}, durable \cup {e})} \cup Failure("stmtError", "idle")

\* The driver sends a command whose possible replies are R.
Answered(c, R, ok) ==
    /\ isOpen[c] /\ server[c] # "gone"
    /\ \E r \in R :
          /\ ok = r.ok
          /\ server' = [server EXCEPT ![c] = r.server]
          /\ pending' = [pending EXCEPT ![c] = r.pending]
          /\ durable' = r.durable
    /\ UNCHANGED <<isOpen, losses>>

\* The server executes it and the session dies before the reply arrives.
Unanswered(c, R, ok) ==
    /\ "lostReply" \in Faults /\ losses < MaxLoss
    /\ isOpen[c] /\ server[c] # "gone"
    /\ ~ok
    /\ \E r \in R : durable' = r.durable
    /\ losses' = losses + 1
    /\ server' = [server EXCEPT ![c] = "gone"]
    /\ pending' = [pending EXCEPT ![c] = {}]
    /\ isOpen' = [isOpen EXCEPT ![c] = FALSE]

\* Only a command that fails for it tells the client library that the
\* connection is gone.
Undelivered(c, ok) ==
    /\ ~isOpen[c] \/ server[c] = "gone"
    /\ ~ok
    /\ isOpen' = [isOpen EXCEPT ![c] = FALSE]
    /\ UNCHANGED <<server, pending, durable, losses>>

Send(c, R, ok) == Answered(c, R, ok) \/ Unanswered(c, R, ok) \/ Undelivered(c, ok)

-----------------------------------------------------------------------------
(* Calls *)

\* The n-th checkDbIsAlive of a call, before its first call of open().
Checking(op, a, n) ==
    [op |-> op, arg |-> a, at |-> "check", attempt |-> n, retry |-> 0]

Enter(c, op, a) ==
    /\ ~exited
    /\ \A d \in Conn : SameThread(c, d) => call[d] = NoCall
    /\ call' = [call EXCEPT ![c] = Checking(op, a, 1)]

Return(c) == call' = [call EXCEPT ![c] = NoCall]

\* An exception leaves the call, and every scope up to the one that catches
\* it: inside the transaction or outside of all.
Throw(c) ==
    /\ Return(c)
    /\ \E caught \in Catches :
          unwinding' = [unwinding EXCEPT ![c] = ~caught /\ Armed(c) # {}]

\* Mutants: the retry is not limited to one, counted or not.
RetryCounting(c) ==
    call' = [call EXCEPT ![c] = Checking(call[c].op, call[c].arg, call[c].attempt + 1)]
RetryForever(c) ==
    call' = [call EXCEPT ![c] = Checking(call[c].op, call[c].arg, 1)]

\* The second checkDbIsAlive after a failed command.
Retry(c) ==
    /\ call[c].attempt = 1
    /\ call' = [call EXCEPT ![c] = Checking(call[c].op, call[c].arg, 2)]

Init ==
    /\ refCounts = [n \in {} |-> 0]
    /\ txn = [t \in Txn |-> NoObject]
    /\ call = [c \in Conn |-> NoCall]
    /\ unwinding = [c \in Conn |-> FALSE]
    /\ todo = Stmt
    /\ isOpen = [c \in Conn |-> TRUE]
    /\ server = [c \in Conn |-> "idle"]
    /\ pending = [c \in Conn |-> {}]
    /\ durable = {}
    /\ losses = 0
    /\ exited = FALSE
    /\ unit = [c \in Conn |-> {}]
    /\ promised = {} /\ discarded = {} /\ revoked = {}

CallConstruct(c, t) ==
    /\ ~unwinding[c]
    /\ txn[t].state = "none"
    /\ Enter(c, "construct", t)
    /\ txn' = [txn EXCEPT ![t] = Constructing]
    /\ UNCHANGED <<refCounts, unwinding, todo, database, exited, history>>

\* commit() and rollback() of an object that is not disarmed yet.
CallEnd(c, t, op) ==
    /\ ~unwinding[c]
    /\ t \in Armed(c)
    /\ Enter(c, op, t)
    /\ UNCHANGED <<refCounts, txn, unwinding, todo, database, exited, history>>

CallDestroy(c, t) ==
    /\ t \in Armed(c)
    /\ Enter(c, "destroy", t)
    /\ UNCHANGED <<refCounts, txn, unwinding, todo, database, exited, history>>

\* The destructor of a disarmed object returns at once.
DestroyDisarmed(t) ==
    /\ ~exited
    /\ txn[t].state = "disarmed"
    /\ \A d \in Conn : SameThread(txn[t].conn, d) => call[d] = NoCall
    /\ txn' = [txn EXCEPT ![t] = NoObject]
    /\ UNCHANGED <<refCounts, call, unwinding, todo, database, exited, history>>

CallExec(c, s) ==
    /\ ~unwinding[c]
    /\ s \in todo
    /\ Enter(c, "exec", s)
    /\ todo' = todo \ {s}
    /\ UNCHANGED <<refCounts, txn, unwinding, database, exited, history>>

-----------------------------------------------------------------------------
(* SqlQueryManager::checkDbIsAlive *)

InCheck(c) == ~exited /\ call[c] # NoCall /\ call[c].at = "check"

\* Mutant: the main thread reconnects too.
ReconnectsAlways(c) == TRUE

\* Only a thread other than the main one reconnects.
Reconnects(c) == c \notin MainConn

ToDriver(c) == call' = [call EXCEPT ![c].at = "driver"]

\* The loop's condition is false: the connection is (believed to be) open.
CheckAlive(c) ==
    /\ InCheck(c)
    /\ isOpen[c]
    /\ ToDriver(c)
    /\ UNCHANGED <<refCounts, txn, unwinding, todo, database, exited, history>>

\* The server ends every session of a process that is gone.
Terminate ==
    /\ exited' = TRUE
    /\ server' = [c \in Conn |-> "gone"]
    /\ pending' = [c \in Conn |-> {}]
    /\ UNCHANGED <<program, isOpen, durable, losses, history>>

\* ::exit(1) in the main thread
CheckExits(c) ==
    /\ InCheck(c)
    /\ ~isOpen[c] /\ ~Reconnects(c)
    /\ Terminate

\* One turn of the loop: open() succeeds or not.
CheckReopens(c) ==
    /\ InCheck(c)
    /\ ~isOpen[c] /\ Reconnects(c)
    /\ call[c].retry < MaxRetry
    /\ call' = [call EXCEPT ![c].retry = @ + 1]
    /\ \/ /\ isOpen' = [isOpen EXCEPT ![c] = TRUE]
          /\ server' = [server EXCEPT ![c] = "idle"]
          /\ pending' = [pending EXCEPT ![c] = {}]
       \/ UNCHANGED <<isOpen, server, pending>>
    /\ UNCHANGED <<refCounts, txn, unwinding, todo, durable, losses, exited, history>>

CheckGivesUp(c) ==
    /\ InCheck(c)
    /\ ~isOpen[c] /\ Reconnects(c)
    /\ call[c].retry = MaxRetry
    /\ ToDriver(c)
    /\ UNCHANGED <<refCounts, txn, unwinding, todo, database, exited, history>>

-----------------------------------------------------------------------------
(* SqlTransaction::SqlTransaction *)

Constructed(c) ==
    /\ AddRef(c, 1)
    /\ txn' = [txn EXCEPT ![call[c].arg] =
                 [state |-> "armed", conn |-> c, scope |-> {}]]
    /\ Return(c)
    /\ UNCHANGED unwinding

ConstructNested(c) ==
    /\ At(c, "driver", "construct")
    /\ RefCount(c) # 0
    /\ Constructed(c)
    /\ UNCHANGED <<todo, database, exited, history>>

ConstructOuter(c) ==
    /\ At(c, "driver", "construct")
    /\ RefCount(c) = 0
    /\ \E ok \in BOOLEAN :
          /\ Send(c, BeginReplies(c), ok)
          /\ \/ ok /\ Constructed(c)
             \/ ~ok /\ Retry(c) /\ UNCHANGED <<refCounts, txn, unwinding>>
             \/ /\ ~ok /\ call[c].attempt = 2
                /\ Throw(c)
                /\ txn' = [txn EXCEPT ![call[c].arg] = NoObject]
                /\ UNCHANGED refCounts
    /\ UNCHANGED <<todo, exited, history>>

-----------------------------------------------------------------------------
(* SqlTransaction::commit *)

\* Mutant: m_disarmed is not set.
StaysArmed(t) == UNCHANGED txn

Disarm(t) == txn' = [txn EXCEPT ![t].state = "disarmed"]

Committed(c) ==
    /\ AddRef(c, -1)
    /\ Disarm(call[c].arg)
    /\ Return(c)
    /\ UNCHANGED unwinding

\* Mutant: every commit() sends COMMIT.
CommitEach(c) ==
    /\ At(c, "driver", "commit")
    /\ RefCount(c) # 1
    /\ \E ok \in BOOLEAN : Send(c, CommitReplies(c), ok)
    /\ Committed(c)
    /\ UNCHANGED <<todo, exited, history>>

CommitInner(c) ==
    /\ At(c, "driver", "commit")
    /\ RefCount(c) # 1
    /\ Committed(c)
    /\ UNCHANGED <<todo, database, exited, history>>

\* Mutant: the result of the driver's commit() is ignored.
CommitUnchecked(c) ==
    /\ At(c, "driver", "commit")
    /\ RefCount(c) = 1
    /\ \E ok \in BOOLEAN : Send(c, CommitReplies(c), ok)
    /\ Committed(c)
    /\ promised' = promised \cup unit[c]
    /\ unit' = [unit EXCEPT ![c] = {}]
    /\ UNCHANGED <<todo, exited, discarded, revoked>>

CommitOuter(c) ==
    /\ At(c, "driver", "commit")
    /\ RefCount(c) = 1
    /\ \E ok \in BOOLEAN :
          /\ Send(c, CommitReplies(c), ok)
          /\ \/ /\ ok
                /\ Committed(c)
                /\ promised' = promised \cup unit[c]
                /\ unit' = [unit EXCEPT ![c] = {}]
             \/ /\ ~ok
                /\ Retry(c)
                /\ UNCHANGED <<refCounts, txn, unwinding, promised, unit>>
             \/ /\ ~ok /\ call[c].attempt = 2
                /\ Throw(c)
                /\ UNCHANGED <<refCounts, txn, promised, unit>>
    /\ UNCHANGED <<todo, exited, discarded, revoked>>

-----------------------------------------------------------------------------
(* SqlTransaction::rollback and ~SqlTransaction *)

\* The object is rolled back; with the last one the whole unit is.
Revoke(c) ==
    /\ revoked' = revoked \cup txn[call[c].arg].scope
    /\ IF RefCount(c) = 1
       THEN /\ discarded' = discarded \cup unit[c]
            /\ unit' = [unit EXCEPT ![c] = {}]
       ELSE UNCHANGED <<discarded, unit>>
    /\ UNCHANGED promised

RollbackInner(c) ==
    /\ At(c, "driver", "rollback")
    /\ call[c].attempt = 1
    /\ RefCount(c) # 1
    /\ AddRef(c, -1)
    /\ Disarm(call[c].arg)
    /\ Revoke(c)
    /\ Return(c)
    /\ UNCHANGED <<unwinding, todo, database, exited>>

\* The count drops and the object is disarmed before ROLLBACK is sent.
RollbackOuter(c) ==
    /\ At(c, "driver", "rollback")
    /\ call[c].attempt = 1
    /\ RefCount(c) = 1
    /\ AddRef(c, -1)
    /\ Disarm(call[c].arg)
    /\ Revoke(c)
    /\ \E ok \in BOOLEAN :
          /\ Send(c, RollbackReplies(c), ok)
          /\ IF ok THEN Return(c) ELSE Retry(c)
    /\ UNCHANGED <<unwinding, todo, exited>>

RollbackAgain(c) ==
    /\ At(c, "driver", "rollback")
    /\ call[c].attempt = 2
    /\ \E ok \in BOOLEAN :
          /\ Send(c, RollbackReplies(c), ok)
          /\ \/ ok /\ Return(c) /\ UNCHANGED unwinding
             \/ ~ok /\ Throw(c)
    /\ UNCHANGED <<refCounts, txn, todo, exited, history>>

\* What the destructor leaves behind; an exception on its way out stops
\* unwinding with the last scope.
Destroyed(c) ==
    /\ AddRef(c, -1)
    /\ txn' = [txn EXCEPT ![call[c].arg] = NoObject]
    /\ unwinding' = [unwinding EXCEPT ![c] = @ /\ Armed(c) # {call[c].arg}]
    /\ Revoke(c)
    /\ Return(c)

DestroyInner(c) ==
    /\ At(c, "driver", "destroy")
    /\ RefCount(c) # 1
    /\ Destroyed(c)
    /\ UNCHANGED <<todo, database, exited>>

\* Mutant: the destructor forgets the rollback.
DestroySilently(c) ==
    /\ At(c, "driver", "destroy")
    /\ RefCount(c) = 1
    /\ Destroyed(c)
    /\ UNCHANGED <<todo, database, exited>>

\* Mutant: the destructor sends COMMIT.
DestroyCommitting(c) ==
    /\ At(c, "driver", "destroy")
    /\ RefCount(c) = 1
    /\ \E ok \in BOOLEAN : Send(c, CommitReplies(c), ok)
    /\ Destroyed(c)
    /\ UNCHANGED <<todo, exited>>

\* The result of the driver's rollback() is ignored.
DestroyOuter(c) ==
    /\ At(c, "driver", "destroy")
    /\ RefCount(c) = 1
    /\ \E ok \in BOOLEAN : Send(c, RollbackReplies(c), ok)
    /\ Destroyed(c)
    /\ UNCHANGED <<todo, exited>>

-----------------------------------------------------------------------------
(* SqlQuery::exec *)

\* Only a connection found closed is worth a second attempt.
Exec(c) ==
    LET s == call[c].arg
        e == <<s, call[c].attempt>>
    IN  /\ At(c, "driver", "exec")
        /\ \E ok \in BOOLEAN :
              /\ Send(c, StmtReplies(c, e), ok)
              /\ \/ /\ ok
                    /\ Return(c)
                    /\ unit' = [unit EXCEPT ![c] = IF RefCount(c) > 0 THEN @ \cup {s} ELSE @]
                    /\ txn' = [t \in Txn |-> IF t \in Armed(c)
                                  THEN [txn[t] EXCEPT !.scope = @ \cup {s}] ELSE txn[t]]
                    /\ UNCHANGED unwinding
                 \/ /\ ~ok /\ ~isOpen'[c]
                    /\ Retry(c)
                    /\ UNCHANGED <<unit, txn, unwinding>>
                 \/ /\ ~ok /\ (isOpen'[c] \/ call[c].attempt = 2)
                    /\ Throw(c)
                    /\ UNCHANGED <<unit, txn>>
        /\ UNCHANGED <<refCounts, todo, exited, promised, discarded, revoked>>

-----------------------------------------------------------------------------
(* The environment *)

Lose(c) ==
    /\ "loss" \in Faults /\ losses < MaxLoss
    /\ server[c] # "gone"
    /\ losses' = losses + 1
    /\ server' = [server EXCEPT ![c] = "gone"]
    /\ pending' = [pending EXCEPT ![c] = {}]
    /\ UNCHANGED <<program, isOpen, durable, exited, history>>

Crash ==
    /\ "crash" \in Faults
    /\ ~exited
    /\ Terminate

Ended == exited /\ UNCHANGED vars

Step(c) ==
    \/ CheckAlive(c) \/ CheckExits(c) \/ CheckReopens(c) \/ CheckGivesUp(c)
    \/ ConstructNested(c) \/ ConstructOuter(c)
    \/ CommitInner(c) \/ CommitOuter(c)
    \/ RollbackInner(c) \/ RollbackOuter(c) \/ RollbackAgain(c)
    \/ DestroyInner(c) \/ DestroyOuter(c)
    \/ Exec(c)

NewCall(c) ==
    \/ \E t \in Txn : \/ CallConstruct(c, t) \/ CallDestroy(c, t)
                      \/ CallEnd(c, t, "commit") \/ CallEnd(c, t, "rollback")
    \/ \E s \in Stmt : CallExec(c, s)

Next ==
    \/ \E c \in Conn : Step(c) \/ NewCall(c) \/ Lose(c)
    \/ \E t \in Txn : DestroyDisarmed(t)
    \/ Crash
    \/ Ended

Spec == Init /\ [][Next]_vars

\* A thread inside a call keeps running, and a program whose exception is
\* on its way out runs the destructors.
Fairness ==
    \A c \in Conn :
        /\ WF_vars(Step(c))
        /\ WF_vars(unwinding[c] /\ \E t \in Txn : CallDestroy(c, t))

FairSpec == Spec /\ Fairness
-----------------------------------------------------------------------------
(* Properties *)

\* Every variable stays within its type.
ProgramTypes ==
    /\ DOMAIN refCounts \subseteq Conn /\ refCounts \in [DOMAIN refCounts -> Int]
    /\ txn \in [Txn -> Objects \cup {NoObject, Constructing}]
    /\ call \in [Conn -> Calls \cup {NoCall}]
    /\ unwinding \in [Conn -> BOOLEAN]
    /\ todo \subseteq Stmt
    /\ exited \in BOOLEAN

DatabaseTypes ==
    /\ isOpen \in [Conn -> BOOLEAN]
    /\ server \in [Conn -> {"gone", "idle", "open", "aborted"}]
    /\ pending \in [Conn -> SUBSET Execution]
    /\ durable \subseteq Execution
    /\ losses \in 0 .. MaxLoss

HistoryTypes ==
    /\ unit \in [Conn -> SUBSET Stmt]
    /\ promised \subseteq Stmt /\ discarded \subseteq Stmt /\ revoked \subseteq Stmt

TypeOK == ProgramTypes /\ DatabaseTypes /\ HistoryTypes

\* m_refCounts holds, for every connection, exactly the number of objects
\* that are alive and not disarmed, on every path of the four operations:
\* a constructor that throws, a commit() that throws and is destroyed later, a
\* rollback() that disarms before it fails.  A count that drifts makes a
\* later outermost commit() or rollback() skip its command.
CountMatches == \A c \in Conn : RefCount(c) = Cardinality(Armed(c))

\* The server never has a transaction open that no object stands for:
\* nothing would ever end it, and it would keep its locks.  The destructor
\* ignores the result of rollback(), and rollback() lowers the count before
\* the command.
NoOrphan ==
    \A c \in Conn : server[c] \in {"open", "aborted"} => RefCount(c) > 0

\* Once the outermost commit() has returned, everything that succeeded
\* since the outermost constructor is in the database.
PromisedDurable == promised \subseteq DurableStmts

\* Once the outermost object is rolled back, nothing of its unit is in the
\* database.
DiscardedUndone == discarded \cap DurableStmts = {}

\* At any moment, also when the process or the session dies in the middle of
\* a call, the database holds all of a unit that is under way or nothing.
UnitAtomic ==
    \A c \in Conn : unit[c] \subseteq DurableStmts \/ unit[c] \cap DurableStmts = {}

\* An object that was rolled back, by rollback() or by its destructor,
\* leaves nothing of what was executed in its life.
\* Promised, and not kept: see "Disagreements" in the README.
RevokedUndone == revoked \cap DurableStmts = {}

\* No statement takes effect twice because its reply was lost.
AtMostOnce == \A s \in Stmt : ~({<<s, 1>>, <<s, 2>>} \subseteq durable)

\* The database only changes by the commit() of the last object of a
\* connection or by a statement outside of every transaction: an inner
\* commit() makes nothing durable.
OnlyOutermostCommits ==
    [][durable' # durable =>
         \E c \in Conn : \/ call[c].op = "commit" /\ RefCount(c) = 1
                         \/ call[c].op = "exec" /\ RefCount(c) = 0]_vars

\* transactionsCount() tells whether a transaction is running.
\* Promised, and not kept: see "Disagreements" in the README.
CountTellsRunning ==
    TransactionsCount > 0 <=> \E c \in Conn : RefCount(c) > 0

\* The promise of AtomicUnits, which a connection whose loss ends the
\* process keeps: a statement is part of the data once a unit holding it is
\* durable, and a call that fails adds nothing.
Abstract == INSTANCE AtomicUnits
                WITH data <- DurableStmts, committed <- promised

UnitsImplemented == Abstract!Spec

\* Every call returns or throws, whatever the connection does, unless
\* the process ends in it.
CallsReturn == \A c \in Conn : call[c] # NoCall ~> (exited \/ call[c] = NoCall)

\* An exception thrown inside a transaction ends with the server's
\* transaction over and the count of the connection back to zero.
ExceptionEndsTransaction ==
    \A c \in Conn :
        unwinding[c] ~> \/ exited
                        \/ /\ RefCount(c) = 0
                           /\ server[c] \notin {"open", "aborted"}
=============================================================================
