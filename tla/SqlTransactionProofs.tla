------------------------- MODULE SqlTransactionProofs -------------------------
(***************************************************************************)
(* Proofs about SqlTransaction, for every set of connections, objects and  *)
(* statements, every set of faults and every bound; from MainThread on,    *)
(* about a program that has only its main thread: whatever is lost or      *)
(* killed, units reach the database as wholes.                             *)
(***************************************************************************)
EXTENDS SqlTransaction, FiniteSetTheorems, TLAPS

-----------------------------------------------------------------------------
(* The inductive invariant *)

\* A call is about an object in the state its operation starts from, and
\* no two constructors run for the same object.
CallObjects ==
    /\ \A c \in Conn :
          \/ call[c].op \in {"commit", "destroy"}
          \/ call[c].op = "rollback" /\ call[c].attempt = 1
          => call[c].arg \in Armed(c)
    /\ \A c \in Conn :
          call[c].op = "construct" =>
              call[c].arg \in Txn /\ txn[call[c].arg].state = "constructing"
    /\ \A c, d \in Conn :
          call[c].op = "construct" /\ call[d].op = "construct"
          /\ call[c].arg = call[d].arg => c = d

\* A connection found closed has no session.
ClosedIsGone == \A c \in Conn : ~isOpen[c] => server[c] = "gone"

CountInv == TypeOK /\ CallObjects /\ CountMatches /\ ClosedIsGone /\ NoOrphan

-----------------------------------------------------------------------------
(* How a step changes the objects of a connection *)

\* The armed objects of a connection are finitely many.
LEMMA ArmedFinite ==
    ASSUME NEW c \in Conn
    PROVE  /\ IsFiniteSet(Armed(c))
           /\ Cardinality(Armed(c)) \in Nat
  <1>1. IsFiniteSet(Armed(c))
    BY TxnAssumption, FS_Subset DEF Armed
  <1>2. QED
    BY <1>1, FS_CardinalityType

\* Arming one more object adds one to the count of its connection, and
\* changes no other connection.
LEMMA ArmOne ==
    ASSUME TypeOK, CountMatches, NEW c \in Conn, NEW t \in Txn,
           txn[t].state # "armed",
           NEW s,
           txn' = [txn EXCEPT ![t] = [state |-> "armed", conn |-> c, scope |-> s]],
           AddRef(c, 1)
    PROVE  CountMatches'
  <1>1. Armed(c)' = Armed(c) \cup {t} /\ t \notin Armed(c)
    BY DEF Armed, TypeOK, ProgramTypes
  <1>2. \A d \in Conn : d # c => Armed(d)' = Armed(d)
    BY DEF Armed, TypeOK, ProgramTypes
  <1>3. RefCount(c)' = RefCount(c) + 1
    BY DEF RefCount, AddRef
  <1>4. \A d \in Conn : d # c => RefCount(d)' = RefCount(d)
    BY DEF RefCount, AddRef
  <1>5. Cardinality(Armed(c)') = Cardinality(Armed(c)) + 1
    BY <1>1, ArmedFinite, FS_AddElement
  <1>6. QED
    BY <1>2, <1>3, <1>4, <1>5 DEF CountMatches

\* An object that stops being armed takes one off the count of its
\* connection, and changes no other connection.
LEMMA DropOne ==
    ASSUME TypeOK, CountMatches, NEW c \in Conn, NEW t \in Armed(c),
           NEW r, r.state # "armed",
           txn' = [txn EXCEPT ![t] = r],
           AddRef(c, -1)
    PROVE  CountMatches'
  <1>1. Armed(c)' = Armed(c) \ {t}
    BY DEF Armed, TypeOK, ProgramTypes
  <1>2. \A d \in Conn : d # c => Armed(d)' = Armed(d)
    BY DEF Armed, TypeOK, ProgramTypes
  <1>3. RefCount(c)' = RefCount(c) - 1
    BY DEF RefCount, AddRef, TypeOK, ProgramTypes
  <1>4. \A d \in Conn : d # c => RefCount(d)' = RefCount(d)
    BY DEF RefCount, AddRef
  <1>5. Cardinality(Armed(c)') = Cardinality(Armed(c)) - 1
    BY <1>1, ArmedFinite, FS_RemoveElement
  <1>6. QED
    BY <1>2, <1>3, <1>4, <1>5 DEF CountMatches

\* A step that arms and disarms nothing and leaves the counts alone.
LEMMA SameArmed ==
    ASSUME CountMatches, UNCHANGED refCounts,
           \A d \in Conn : Armed(d)' = Armed(d)
    PROVE  CountMatches'
  BY DEF CountMatches, RefCount

-----------------------------------------------------------------------------
(* Types *)

\* A well-typed answer of the server.
Typed(r) ==
    /\ r.server \in {"idle", "open", "aborted"}
    /\ r.pending \subseteq Execution
    /\ r.durable \subseteq Execution

\* Every reply of the server is a well-typed state of session and database.
LEMMA ReplyTypes ==
    ASSUME TypeOK, NEW c \in Conn
    PROVE  /\ \A r \in BeginReplies(c) : Typed(r)
           /\ \A r \in CommitReplies(c) : Typed(r)
           /\ \A r \in RollbackReplies(c) : Typed(r)
           /\ \A e \in Execution : \A r \in StmtReplies(c, e) : Typed(r)
  <1>1. pending[c] \subseteq Execution /\ durable \subseteq Execution
    BY DEF TypeOK, DatabaseTypes
  <1>2. \A r \in BeginReplies(c) : Typed(r)
    BY <1>1 DEF BeginReplies, Reply, Typed
  <1>3. \A r \in CommitReplies(c) : Typed(r)
    BY <1>1 DEF CommitReplies, Failure, Reply, Typed
  <1>4. \A r \in RollbackReplies(c) : Typed(r)
    BY <1>1 DEF RollbackReplies, Reply, Typed
  <1>5. ASSUME NEW e \in Execution, NEW r \in StmtReplies(c, e)
        PROVE  Typed(r)
    <2>1. CASE server[c] = "open"
      BY <1>1, <1>5, <2>1 DEF StmtReplies, Failure, Reply, Typed
    <2>2. CASE server[c] = "aborted"
      BY <1>1, <1>5, <2>2 DEF StmtReplies, Failure, Reply, Typed
    <2>3. CASE server[c] \notin {"open", "aborted"}
      BY <1>1, <1>5, <2>3 DEF StmtReplies, Failure, Reply, Typed
    <2>4. QED
      BY <2>1, <2>2, <2>3
  <1>6. QED
    BY <1>2, <1>3, <1>4, <1>5

\* A command leaves the session, the connection and the database well typed.
LEMMA SendTypes ==
    ASSUME TypeOK, NEW c \in Conn, NEW R, NEW ok \in BOOLEAN, Send(c, R, ok),
           \A r \in R : Typed(r)
    PROVE  DatabaseTypes'
  <1>1. DatabaseTypes
    BY DEF TypeOK
  <1>2. CASE Answered(c, R, ok)
    BY <1>1, <1>2 DEF DatabaseTypes, Typed, Answered
  <1>3. CASE Unanswered(c, R, ok)
    <2>1. durable' \subseteq Execution
      BY <1>3 DEF Typed, Unanswered
    <2>2. losses' \in 0 .. MaxLoss
      BY <1>1, <1>3, BoundsAssumption DEF DatabaseTypes, Unanswered
    <2>3. QED
      BY <1>1, <1>3, <2>1, <2>2 DEF DatabaseTypes, Unanswered
  <1>4. CASE Undelivered(c, ok)
    BY <1>1, <1>4 DEF DatabaseTypes, Undelivered
  <1>5. QED
    BY <1>2, <1>3, <1>4 DEF Send

\* Every step of a call leaves it well typed.
LEMMA CallTypes ==
    ASSUME TypeOK, NEW c \in Conn
    PROVE  /\ Return(c) => call' \in [Conn -> Calls \cup {NoCall}]
           /\ call[c] # NoCall /\ ToDriver(c) => call' \in [Conn -> Calls \cup {NoCall}]
           /\ call[c] # NoCall /\ Retry(c) => call' \in [Conn -> Calls \cup {NoCall}]
           /\ \A t \in Txn, op \in TxnOps : Enter(c, op, t) => call' \in [Conn -> Calls \cup {NoCall}]
           /\ \A s \in Stmt : Enter(c, "exec", s) => call' \in [Conn -> Calls \cup {NoCall}]
  <1>1. Return(c) => call' \in [Conn -> Calls \cup {NoCall}]
    BY DEF TypeOK, ProgramTypes, Return
  <1>2. ASSUME call[c] # NoCall
        PROVE  /\ ToDriver(c) => call' \in [Conn -> Calls \cup {NoCall}]
               /\ Retry(c) => call' \in [Conn -> Calls \cup {NoCall}]
    <2>1. call[c] \in Calls
      BY <1>2 DEF TypeOK, ProgramTypes
    <2>2. [call[c] EXCEPT !.at = "driver"] \in Calls
      BY <2>1 DEF Calls
    <2>3. Checking(call[c].op, call[c].arg, 2) \in Calls
      BY <2>1, BoundsAssumption DEF Calls, Checking
    <2>4. QED
      BY <2>2, <2>3 DEF TypeOK, ProgramTypes, ToDriver, Retry
  <1>3. /\ \A t \in Txn, op \in TxnOps : Enter(c, op, t) => call' \in [Conn -> Calls \cup {NoCall}]
        /\ \A s \in Stmt : Enter(c, "exec", s) => call' \in [Conn -> Calls \cup {NoCall}]
    <2>1. \A t \in Txn, op \in TxnOps : Checking(op, t, 1) \in Calls
      BY BoundsAssumption DEF Calls, Checking
    <2>2. \A s \in Stmt : Checking("exec", s, 1) \in Calls
      BY BoundsAssumption DEF Calls, Checking
    <2>3. QED
      BY <2>1, <2>2 DEF TypeOK, ProgramTypes, Enter
  <1>4. QED
    BY <1>1, <1>2, <1>3

-----------------------------------------------------------------------------
(* The objects of the calls under way *)

\* A step of a call that stays about the same object, or ends, and changes
\* no object.
LEMMA CallObjectsKept ==
    ASSUME TypeOK, CallObjects, NEW c \in Conn, NEW q,
           call' = [call EXCEPT ![c] = q],
           \/ q.op \in {"none", "exec"}
           \/ /\ q.op = call[c].op /\ q.arg = call[c].arg
              /\ q.attempt = call[c].attempt \/ q.attempt = 2,
           UNCHANGED txn
    PROVE  CallObjects'
  BY DEF TypeOK, ProgramTypes, CallObjects, Armed

\* A call that starts about an object in the right state.
LEMMA CallObjectsEnter ==
    ASSUME TypeOK, CallObjects, NEW c \in Conn, NEW t \in Txn, NEW op \in TxnOps,
           Enter(c, op, t),
           \/ op # "construct" /\ t \in Armed(c) /\ UNCHANGED txn
           \/ /\ op = "construct" /\ txn[t].state = "none"
              /\ txn' = [txn EXCEPT ![t] = Constructing]
    PROVE  CallObjects'
  <1>1. call' = [call EXCEPT ![c] = Checking(op, t, 1)]
    BY DEF Enter
  <1>2. CASE op # "construct" /\ t \in Armed(c) /\ UNCHANGED txn
    BY <1>1, <1>2 DEF TypeOK, ProgramTypes, CallObjects, Armed, Checking, TxnOps
  <1>3. CASE /\ op = "construct" /\ txn[t].state = "none"
             /\ txn' = [txn EXCEPT ![t] = Constructing]
    BY <1>1, <1>3 DEF TypeOK, ProgramTypes, CallObjects, Armed, Checking, Constructing
  <1>4. QED
    BY <1>2, <1>3

\* The object of a call changes as the call ends, or turns to the retry of
\* its rollback.
LEMMA CallObjectsEnd ==
    ASSUME TypeOK, CallObjects, NEW c \in Conn, NEW t \in Txn, NEW q, NEW r,
           \/ t \in Armed(c)
           \/ call[c].op = "construct" /\ call[c].arg = t,
           txn' = [txn EXCEPT ![t] = r],
           call' = [call EXCEPT ![c] = q],
           q.op = "none" \/ (q.op = "rollback" /\ q.attempt = 2)
    PROVE  CallObjects'
  <1>1. \A d \in Conn : d # c /\ t \in Armed(c) => t \notin Armed(d)
    BY DEF Armed
  <1>2. \A d \in Conn \ {c} :
            /\ call'[d] = call[d]
            /\ call[d].op = "construct" => call[d].arg # t
            /\ t \notin Armed(d)
    BY <1>1 DEF TypeOK, ProgramTypes, CallObjects, Armed
  <1>3. \A u \in Txn \ {t} : txn'[u] = txn[u]
    BY DEF TypeOK, ProgramTypes
  <1>4. \A d \in Conn \ {c} : \A u \in Armed(d) : u \in Armed(d)'
    BY <1>2, <1>3 DEF Armed
  <1>5. call'[c] = q
    BY DEF TypeOK, ProgramTypes
  <1>6. QED
    BY <1>2, <1>3, <1>4, <1>5 DEF CallObjects

-----------------------------------------------------------------------------
(* The counts *)

LEMMA AddRefTypes ==
    ASSUME TypeOK, NEW c \in Conn, NEW n \in Int, AddRef(c, n)
    PROVE  /\ DOMAIN refCounts' \subseteq Conn
           /\ refCounts' \in [DOMAIN refCounts' -> Int]
           /\ RefCount(c) \in Int
           /\ RefCount(c)' = RefCount(c) + n
           /\ \A d \in Conn \ {c} : RefCount(d)' = RefCount(d)
  BY DEF TypeOK, ProgramTypes, AddRef, RefCount

\* A connection with an armed object has a count.
LEMMA ArmedCounted ==
    ASSUME CountMatches, NEW c \in Conn, NEW t \in Armed(c)
    PROVE  RefCount(c) \in Nat /\ RefCount(c) > 0
  BY ArmedFinite, FS_EmptySet DEF CountMatches

\* Lowering a count other than the last leaves no transaction behind.
LEMMA InnerKeeps ==
    ASSUME TypeOK, CountMatches, NoOrphan, NEW c \in Conn, NEW t \in Armed(c),
           RefCount(c) # 1, AddRef(c, -1), UNCHANGED server
    PROVE  NoOrphan'
  <1>1. RefCount(c)' > 0
    BY ArmedCounted, AddRefTypes
  <1>2. \A d \in Conn \ {c} : RefCount(d)' = RefCount(d)
    BY AddRefTypes
  <1>3. QED
    BY <1>1, <1>2 DEF NoOrphan

\* What a command does to the session of its connection.
LEMMA SendServer ==
    ASSUME TypeOK, ClosedIsGone, NEW c \in Conn, NEW R, NEW ok \in BOOLEAN, Send(c, R, ok)
    PROVE  /\ \A d \in Conn \ {c} : server'[d] = server[d]
           /\ \/ server'[c] = "gone" /\ ~ok
              \/ /\ server[c] # "gone"
                 /\ \E r \in R : server'[c] = r.server /\ ok = r.ok
           /\ ClosedIsGone'
  <1>1. server \in [Conn -> {"gone", "idle", "open", "aborted"}] /\ isOpen \in [Conn -> BOOLEAN]
    BY DEF TypeOK, DatabaseTypes
  <1>2. CASE Answered(c, R, ok)
    BY <1>1, <1>2 DEF Answered, ClosedIsGone
  <1>3. CASE Unanswered(c, R, ok)
    BY <1>1, <1>3 DEF Unanswered, ClosedIsGone
  <1>4. CASE Undelivered(c, ok)
    BY <1>1, <1>4 DEF Undelivered, ClosedIsGone
  <1>5. QED
    BY <1>2, <1>3, <1>4 DEF Send

\* ROLLBACK or COMMIT for the last count leaves no transaction behind;
\* neither does its failure.
LEMMA OuterKeeps ==
    ASSUME TypeOK, ClosedIsGone, NoOrphan, NEW c \in Conn, NEW R, NEW ok \in BOOLEAN,
           Send(c, R, ok), \A r \in R : r.server = "idle",
           \A d \in Conn \ {c} : RefCount(d)' = RefCount(d)
    PROVE  NoOrphan'
  <1>1. server'[c] \in {"idle", "gone"} /\ \A d \in Conn \ {c} : server'[d] = server[d]
    BY SendServer
  <1>2. QED
    BY <1>1 DEF NoOrphan

\* A command of a connection that is counted afterwards leaves no
\* transaction behind.
LEMMA CountedKeeps ==
    ASSUME TypeOK, ClosedIsGone, NoOrphan, NEW c \in Conn, NEW R, NEW ok \in BOOLEAN,
           Send(c, R, ok),
           server'[c] \in {"open", "aborted"} => RefCount(c)' > 0,
           \A d \in Conn \ {c} : RefCount(d)' = RefCount(d)
    PROVE  NoOrphan'
  <1>1. \A d \in Conn \ {c} : server'[d] = server[d]
    BY SendServer
  <1>2. QED
    BY <1>1 DEF NoOrphan

-----------------------------------------------------------------------------
(* Steps that neither arm nor disarm an object *)

\* Nothing the invariant is about but the calls changes.
LEMMA QuietStep ==
    ASSUME CountInv, UNCHANGED <<refCounts, txn, server, isOpen>>,
           TypeOK', CallObjects'
    PROVE  CountInv'
  BY DEF CountInv, CountMatches, ClosedIsGone, NoOrphan, RefCount, Armed

LEMMA EnterSteps ==
    ASSUME CountInv, NEW c \in Conn, NewCall(c)
    PROVE  CountInv'
  <1>1. TypeOK /\ CallObjects
    BY DEF CountInv
  <1>2. ASSUME NEW t \in Txn, CallConstruct(c, t)
        PROVE  CountInv'
    <2>1. Enter(c, "construct", t)
      BY <1>2 DEF CallConstruct
    <2>2. TypeOK'
      BY <1>1, <1>2, <2>1, CallTypes
         DEF TypeOK, ProgramTypes, DatabaseTypes, HistoryTypes, CallConstruct, TxnOps,
             database, history
    <2>3. CallObjects'
      BY <1>1, <1>2, <2>1, CallObjectsEnter DEF CallConstruct, TxnOps
    <2>4. \A d \in Conn : Armed(d)' = Armed(d)
      BY <1>1, <1>2 DEF CallConstruct, Armed, Constructing, TypeOK, ProgramTypes
    <2>5. QED
      BY <1>2, <2>2, <2>3, <2>4, SameArmed
         DEF CountInv, CallConstruct, NoOrphan, ClosedIsGone, RefCount, database
  <1>3. ASSUME NEW t \in Txn, NEW op \in {"commit", "rollback"}, CallEnd(c, t, op)
        PROVE  CountInv'
    <2>1. Enter(c, op, t) /\ op \in TxnOps
      BY <1>3 DEF CallEnd, TxnOps
    <2>2. TypeOK'
      BY <1>1, <1>3, <2>1, CallTypes
         DEF TypeOK, ProgramTypes, DatabaseTypes, HistoryTypes, CallEnd, database, history
    <2>3. CallObjects'
      BY <1>1, <1>3, <2>1, CallObjectsEnter DEF CallEnd
    <2>4. QED
      BY <1>3, <2>2, <2>3, QuietStep DEF CallEnd, database
  <1>4. ASSUME NEW t \in Txn, CallDestroy(c, t)
        PROVE  CountInv'
    <2>1. Enter(c, "destroy", t) /\ "destroy" \in TxnOps
      BY <1>4 DEF CallDestroy, TxnOps
    <2>2. TypeOK'
      BY <1>1, <1>4, <2>1, CallTypes
         DEF TypeOK, ProgramTypes, DatabaseTypes, HistoryTypes, CallDestroy, database, history
    <2>3. CallObjects'
      BY <1>1, <1>4, <2>1, CallObjectsEnter DEF CallDestroy
    <2>4. QED
      BY <1>4, <2>2, <2>3, QuietStep DEF CallDestroy, database
  <1>5. ASSUME NEW s \in Stmt, CallExec(c, s)
        PROVE  CountInv'
    <2>1. Enter(c, "exec", s)
      BY <1>5 DEF CallExec
    <2>2. TypeOK'
      BY <1>1, <1>5, <2>1, CallTypes
         DEF TypeOK, ProgramTypes, DatabaseTypes, HistoryTypes, CallExec, database, history
    <2>3. CallObjects'
      BY <1>1, <1>5, <2>1, CallObjectsKept DEF CallExec, Enter, Checking
    <2>4. QED
      BY <1>5, <2>2, <2>3, QuietStep DEF CallExec, database
  <1>6. QED
    BY <1>2, <1>3, <1>4, <1>5 DEF NewCall

\* The process ends: no session is left.
LEMMA TerminateStep ==
    ASSUME CountInv, Terminate
    PROVE  CountInv'
  <1>1. TypeOK'
    BY DEF CountInv, TypeOK, ProgramTypes, DatabaseTypes, HistoryTypes, Terminate,
           program, history
  <1>2. CallObjects'
    BY DEF CountInv, CallObjects, Armed, Terminate, program
  <1>3. QED
    BY <1>1, <1>2 DEF CountInv, CountMatches, ClosedIsGone, NoOrphan, RefCount, Armed,
                      Terminate, program

LEMMA CheckSteps ==
    ASSUME CountInv, NEW c \in Conn,
           CheckAlive(c) \/ CheckExits(c) \/ CheckReopens(c) \/ CheckGivesUp(c)
    PROVE  CountInv'
  <1>1. TypeOK /\ CallObjects
    BY DEF CountInv
  <1>2. ASSUME InCheck(c) PROVE call[c] \in Calls
    BY <1>1, <1>2 DEF InCheck, TypeOK, ProgramTypes
  <1>3. CASE CheckAlive(c) \/ CheckGivesUp(c)
    <2>1. ToDriver(c) /\ InCheck(c) /\ UNCHANGED <<refCounts, txn, unwinding, todo, database, exited, history>>
      BY <1>3 DEF CheckAlive, CheckGivesUp
    <2>2. TypeOK'
      BY <1>1, <2>1, CallTypes
         DEF TypeOK, ProgramTypes, DatabaseTypes, HistoryTypes, InCheck, database, history
    <2>3. CallObjects'
      BY <1>1, <1>2, <2>1, CallObjectsKept DEF ToDriver, Calls
    <2>4. QED
      BY <2>1, <2>2, <2>3, QuietStep DEF database
  <1>4. CASE CheckExits(c)
    BY <1>4, TerminateStep DEF CheckExits
  <1>5. CASE CheckReopens(c)
    <2>1. [call[c] EXCEPT !.retry = @ + 1] \in Calls
      <3>1. call[c] \in Calls /\ call[c].retry < MaxRetry
        BY <1>2, <1>5 DEF CheckReopens
      <3>2. call[c].retry + 1 \in 0 .. MaxRetry
        BY <3>1, BoundsAssumption DEF Calls
      <3>3. QED
        BY <3>1, <3>2 DEF Calls
    <2>2. call' = [call EXCEPT ![c] = [call[c] EXCEPT !.retry = @ + 1]]
      BY <1>5 DEF CheckReopens
    <2>3. ProgramTypes'
      BY <1>1, <1>5, <2>1, <2>2 DEF TypeOK, ProgramTypes, CheckReopens
    <2>4. DatabaseTypes'
      BY <1>1, <1>5 DEF TypeOK, DatabaseTypes, CheckReopens
    <2>5. HistoryTypes'
      BY <1>1, <1>5 DEF TypeOK, HistoryTypes, CheckReopens, history
    <2>6. CallObjects'
      BY <1>1, <1>2, <1>5, <2>2, CallObjectsKept DEF CheckReopens, Calls
    <2>7. CountMatches'
      BY <1>5, SameArmed DEF CountInv, CheckReopens, Armed
    <2>8. ClosedIsGone' /\ NoOrphan'
      BY <1>5 DEF CountInv, TypeOK, DatabaseTypes, CheckReopens, ClosedIsGone, NoOrphan, RefCount
    <2>9. QED
      BY <2>3, <2>4, <2>5, <2>6, <2>7, <2>8 DEF CountInv, TypeOK
  <1>6. QED
    BY <1>3, <1>4, <1>5

\* The session dies between two commands.
LEMMA LoseStep ==
    ASSUME CountInv, NEW c \in Conn, Lose(c)
    PROVE  CountInv'
  <1>1. TypeOK'
    BY BoundsAssumption
       DEF CountInv, TypeOK, ProgramTypes, DatabaseTypes, HistoryTypes, Lose, program, history
  <1>2. CallObjects'
    BY DEF CountInv, CallObjects, Armed, Lose, program
  <1>3. CountMatches'
    BY SameArmed DEF CountInv, Armed, Lose, program
  <1>4. ClosedIsGone' /\ NoOrphan'
    BY DEF CountInv, TypeOK, DatabaseTypes, ClosedIsGone, NoOrphan, RefCount, Lose, program
  <1>5. QED
    BY <1>1, <1>2, <1>3, <1>4 DEF CountInv

-----------------------------------------------------------------------------
(* The constructor *)

\* The object of a constructor under way is neither armed nor disarmed.
LEMMA ConstructingObject ==
    ASSUME CountInv, NEW c \in Conn, At(c, "driver", "construct")
    PROVE  /\ call[c].arg \in Txn /\ call[c] \in Calls
           /\ txn[call[c].arg].state = "constructing"
  BY DEF CountInv, CallObjects, At, TypeOK, ProgramTypes, NoCall

\* The object becomes armed and the count goes up.
LEMMA ConstructedStep ==
    ASSUME CountInv, NEW c \in Conn, At(c, "driver", "construct"), Constructed(c),
           UNCHANGED <<todo, exited>>
    PROVE  /\ ProgramTypes' /\ CallObjects' /\ CountMatches'
           /\ RefCount(c)' > 0
           /\ \A d \in Conn \ {c} : RefCount(d)' = RefCount(d)
  <1> DEFINE t == call[c].arg
  <1>1. TypeOK /\ CallObjects /\ CountMatches /\ t \in Txn /\ txn[t].state = "constructing"
    BY ConstructingObject DEF CountInv
  <1>2. txn' = [txn EXCEPT ![t] = [state |-> "armed", conn |-> c, scope |-> {}]]
        /\ AddRef(c, 1) /\ Return(c) /\ UNCHANGED unwinding
    BY DEF Constructed
  <1>3. ProgramTypes'
    <2>1. [state |-> "armed", conn |-> c, scope |-> {}] \in Objects
      BY DEF Objects
    <2>2. txn' \in [Txn -> Objects \cup {NoObject, Constructing}]
      BY <1>1, <1>2, <2>1 DEF TypeOK, ProgramTypes
    <2>3. call' \in [Conn -> Calls \cup {NoCall}]
      BY <1>1, <1>2, CallTypes
    <2>4. QED
      BY <1>1, <1>2, <2>2, <2>3, AddRefTypes DEF TypeOK, ProgramTypes
  <1>4. CallObjects'
    <2>1. call' = [call EXCEPT ![c] = NoCall] /\ NoCall.op = "none" /\ call[c].op = "construct"
      BY <1>2 DEF Return, NoCall, At
    <2>2. QED
      BY <1>1, <1>2, <2>1, CallObjectsEnd
  <1>5. CountMatches'
    BY <1>1, <1>2, ArmOne
  <1>6. RefCount(c) \in Nat
    BY <1>1, ArmedFinite DEF CountMatches
  <1>7. QED
    BY <1>1, <1>2, <1>3, <1>4, <1>5, <1>6, AddRefTypes

LEMMA ConstructSteps ==
    ASSUME CountInv, NEW c \in Conn, ConstructNested(c) \/ ConstructOuter(c)
    PROVE  CountInv'
  <1>1. TypeOK /\ CallObjects /\ CountMatches /\ ClosedIsGone /\ NoOrphan
    BY DEF CountInv
  <1>2. CASE ConstructNested(c)
    <2>1. /\ ProgramTypes' /\ CallObjects' /\ CountMatches' /\ RefCount(c)' > 0
          /\ \A d \in Conn \ {c} : RefCount(d)' = RefCount(d)
      BY <1>2, ConstructedStep DEF ConstructNested
    <2>2. DatabaseTypes' /\ HistoryTypes' /\ ClosedIsGone' /\ NoOrphan'
      BY <1>1, <1>2, <2>1
         DEF TypeOK, DatabaseTypes, HistoryTypes, ConstructNested, database, history,
             ClosedIsGone, NoOrphan
    <2>3. QED
      BY <2>1, <2>2 DEF CountInv, TypeOK
  <1>3. CASE ConstructOuter(c)
    <2>1. PICK ok \in BOOLEAN :
             /\ Send(c, BeginReplies(c), ok)
             /\ \/ ok /\ Constructed(c)
                \/ ~ok /\ Retry(c) /\ UNCHANGED <<refCounts, txn, unwinding>>
                \/ /\ ~ok /\ call[c].attempt = 2
                   /\ Throw(c)
                   /\ txn' = [txn EXCEPT ![call[c].arg] = NoObject]
                   /\ UNCHANGED refCounts
      BY <1>3 DEF ConstructOuter
    <2>2. /\ At(c, "driver", "construct") /\ RefCount(c) = 0
          /\ UNCHANGED <<todo, exited, history>>
      BY <1>3 DEF ConstructOuter
    <2>3. DatabaseTypes' /\ HistoryTypes' /\ ClosedIsGone'
      BY <1>1, <2>1, <2>2, SendTypes, ReplyTypes, SendServer
         DEF TypeOK, HistoryTypes, history
    <2>4. server[c] # "aborted" /\ (~ok => server'[c] = "gone")
      <3>1. server[c] \notin {"open", "aborted"}
        BY <1>1, <2>2 DEF NoOrphan
      <3>2. \A r \in BeginReplies(c) : r.ok
        BY <3>1 DEF BeginReplies, Reply
      <3>3. QED
        BY <1>1, <2>1, <3>1, <3>2, SendServer
    <2>5. CASE ok /\ Constructed(c)
      <3>1. /\ ProgramTypes' /\ CallObjects' /\ CountMatches' /\ RefCount(c)' > 0
            /\ \A d \in Conn \ {c} : RefCount(d)' = RefCount(d)
        BY <2>2, <2>5, ConstructedStep
      <3>2. NoOrphan'
        BY <1>1, <2>1, <3>1, CountedKeeps
      <3>3. QED
        BY <2>3, <3>1, <3>2 DEF CountInv, TypeOK
    <2>6. CASE ~ok /\ Retry(c) /\ UNCHANGED <<refCounts, txn, unwinding>>
      <3>1. ProgramTypes'
        BY <1>1, <2>2, <2>6, CallTypes, ConstructingObject DEF TypeOK, ProgramTypes, Calls, NoCall, At
      <3>2. CallObjects'
        BY <1>1, <2>6, CallObjectsKept DEF Retry, Checking
      <3>3. CountMatches' /\ \A d \in Conn : RefCount(d)' = RefCount(d)
        BY <1>1, <2>6, SameArmed DEF Armed, RefCount
      <3>4. NoOrphan'
        BY <1>1, <2>1, <2>4, <2>6, <3>3, CountedKeeps
      <3>5. QED
        BY <2>3, <3>1, <3>2, <3>3, <3>4 DEF CountInv, TypeOK
    <2>7. CASE /\ ~ok /\ call[c].attempt = 2
               /\ Throw(c)
               /\ txn' = [txn EXCEPT ![call[c].arg] = NoObject]
               /\ UNCHANGED refCounts
      <3>1. call[c].arg \in Txn /\ txn[call[c].arg].state = "constructing" /\ call[c].op = "construct"
        BY <2>2, ConstructingObject DEF At
      <3>2. ProgramTypes'
        BY <1>1, <2>2, <2>7, CallTypes, BoundsAssumption DEF TypeOK, ProgramTypes, Throw
      <3>3. CallObjects'
        <4>1. call' = [call EXCEPT ![c] = NoCall] /\ NoCall.op = "none"
          BY <2>7 DEF Throw, Return, NoCall
        <4>2. QED
          BY <1>1, <2>7, <3>1, <4>1, CallObjectsEnd
      <3>4. \A d \in Conn : Armed(d)' = Armed(d)
        BY <1>1, <2>7, <3>1 DEF Armed, TypeOK, ProgramTypes, NoObject
      <3>5. CountMatches' /\ \A d \in Conn : RefCount(d)' = RefCount(d)
        BY <1>1, <2>7, <3>4, SameArmed DEF RefCount
      <3>6. NoOrphan'
        BY <1>1, <2>1, <2>4, <2>7, <3>5, CountedKeeps
      <3>7. QED
        BY <2>3, <3>2, <3>3, <3>5, <3>6 DEF CountInv, TypeOK
    <2>8. QED
      BY <2>1, <2>5, <2>6, <2>7
  <1>4. QED
    BY <1>2, <1>3

-----------------------------------------------------------------------------
(* commit(), rollback() and the destructor *)

\* The object these operations end is armed on the connection of the call.
LEMMA EndedObject ==
    ASSUME CountInv, NEW c \in Conn,
           \/ At(c, "driver", "commit")
           \/ At(c, "driver", "destroy")
           \/ At(c, "driver", "rollback") /\ call[c].attempt = 1
    PROVE  /\ call[c].arg \in Armed(c) /\ call[c].arg \in Txn
           /\ call[c] \in Calls
           /\ txn[call[c].arg] \in Objects
           /\ [txn[call[c].arg] EXCEPT !.state = "disarmed"] \in Objects
           /\ [txn[call[c].arg] EXCEPT !.state = "disarmed"].state = "disarmed"
  <1>1. call[c].arg \in Armed(c) /\ call[c].arg \in Txn
    BY DEF CountInv, CallObjects, At, Armed
  <1>2. call[c] \in Calls
    BY DEF CountInv, TypeOK, ProgramTypes, At, NoCall
  <1>3. txn[call[c].arg] \in Objects
    BY <1>1 DEF CountInv, TypeOK, ProgramTypes, Armed, NoObject, Constructing
  <1>4. QED
    BY <1>1, <1>2, <1>3 DEF Objects

\* The armed object of a call becomes r and the count goes down, as the call
\* ends or turns to the retry of its rollback.
LEMMA DroppedStep ==
    ASSUME CountInv, NEW c \in Conn, NEW r \in Objects \cup {NoObject},
           call[c].arg \in Armed(c), r.state # "armed",
           txn' = [txn EXCEPT ![call[c].arg] = r],
           AddRef(c, -1),
           Return(c) \/ (Retry(c) /\ call[c].op = "rollback" /\ call[c] \in Calls),
           unwinding' \in [Conn -> BOOLEAN],
           UNCHANGED <<todo, exited>>
    PROVE  /\ ProgramTypes' /\ CallObjects' /\ CountMatches'
           /\ \A d \in Conn \ {c} : RefCount(d)' = RefCount(d)
  <1> DEFINE t == call[c].arg
  <1>1. TypeOK /\ CallObjects /\ CountMatches /\ t \in Txn
    BY DEF CountInv, Armed
  <1>2. ProgramTypes'
    <2>1. txn' \in [Txn -> Objects \cup {NoObject, Constructing}]
      BY <1>1 DEF TypeOK, ProgramTypes
    <2>2. call' \in [Conn -> Calls \cup {NoCall}]
      BY <1>1, CallTypes DEF Calls, NoCall
    <2>3. QED
      BY <1>1, <2>1, <2>2, AddRefTypes DEF TypeOK, ProgramTypes
  <1>3. CallObjects'
    <2>1. CASE Return(c)
      <3>1. call' = [call EXCEPT ![c] = NoCall] /\ NoCall.op = "none"
        BY <2>1 DEF Return, NoCall
      <3>2. QED
        BY <1>1, <3>1, CallObjectsEnd
    <2>2. CASE Retry(c) /\ call[c].op = "rollback"
      <3>1. /\ call' = [call EXCEPT ![c] = Checking("rollback", t, 2)]
            /\ Checking("rollback", t, 2).op = "rollback"
            /\ Checking("rollback", t, 2).attempt = 2
        BY <2>2 DEF Retry, Checking
      <3>2. QED
        BY <1>1, <3>1, CallObjectsEnd
    <2>3. QED
      BY <2>1, <2>2
  <1>4. CountMatches'
    BY <1>1, DropOne
  <1>5. QED
    BY <1>1, <1>2, <1>3, <1>4, AddRefTypes

LEMMA CommitSteps ==
    ASSUME CountInv, NEW c \in Conn, CommitInner(c) \/ CommitOuter(c)
    PROVE  CountInv'
  <1> DEFINE t == call[c].arg
  <1>1. TypeOK /\ CallObjects /\ CountMatches /\ ClosedIsGone /\ NoOrphan
    BY DEF CountInv
  <1>2. ASSUME At(c, "driver", "commit"), Committed(c), UNCHANGED <<todo, exited>>
        PROVE  /\ ProgramTypes' /\ CallObjects' /\ CountMatches'
               /\ \A d \in Conn \ {c} : RefCount(d)' = RefCount(d)
    <2>1. txn' = [txn EXCEPT ![t] = [txn[t] EXCEPT !.state = "disarmed"]]
      BY <1>2 DEF Committed, Disarm
    <2>2. unwinding' \in [Conn -> BOOLEAN]
      BY <1>1, <1>2 DEF Committed, TypeOK, ProgramTypes
    <2>3. QED
      BY <1>2, <2>1, <2>2, EndedObject, DroppedStep DEF Committed
  <1>3. CASE CommitInner(c)
    <2>1. /\ ProgramTypes' /\ CallObjects' /\ CountMatches'
          /\ \A d \in Conn \ {c} : RefCount(d)' = RefCount(d)
      BY <1>2, <1>3 DEF CommitInner
    <2>2. DatabaseTypes' /\ HistoryTypes' /\ ClosedIsGone'
      BY <1>1, <1>3 DEF TypeOK, DatabaseTypes, HistoryTypes, CommitInner, database, history, ClosedIsGone
    <2>3. NoOrphan'
      BY <1>1, <1>3, EndedObject, InnerKeeps DEF CommitInner, Committed, database
    <2>4. QED
      BY <2>1, <2>2, <2>3 DEF CountInv, TypeOK
  <1>4. CASE CommitOuter(c)
    <2>1. /\ At(c, "driver", "commit") /\ RefCount(c) = 1
          /\ UNCHANGED <<todo, exited, discarded, revoked>>
      BY <1>4 DEF CommitOuter
    <2>2. PICK ok \in BOOLEAN :
             /\ Send(c, CommitReplies(c), ok)
             /\ \/ /\ ok
                   /\ Committed(c)
                   /\ promised' = promised \cup unit[c]
                   /\ unit' = [unit EXCEPT ![c] = {}]
                \/ /\ ~ok
                   /\ Retry(c)
                   /\ UNCHANGED <<refCounts, txn, unwinding, promised, unit>>
                \/ /\ ~ok /\ call[c].attempt = 2
                   /\ Throw(c)
                   /\ UNCHANGED <<refCounts, txn, promised, unit>>
      BY <1>4 DEF CommitOuter
    <2>3. DatabaseTypes' /\ ClosedIsGone'
      BY <1>1, <2>2, SendTypes, ReplyTypes, SendServer
    <2>4. HistoryTypes'
      BY <1>1, <2>1, <2>2 DEF TypeOK, HistoryTypes
    <2>5. /\ ProgramTypes' /\ CallObjects' /\ CountMatches'
          /\ \A d \in Conn \ {c} : RefCount(d)' = RefCount(d)
      <3>1. CASE ok /\ Committed(c)
        BY <1>2, <2>1, <3>1
      <3>2. CASE (Retry(c) \/ Throw(c)) /\ UNCHANGED <<refCounts, txn>> /\ unwinding' \in [Conn -> BOOLEAN]
        <4>1. ProgramTypes'
          BY <1>1, <2>1, <3>2, CallTypes DEF TypeOK, ProgramTypes, Throw, At, NoCall
        <4>2. CallObjects'
          BY <1>1, <3>2, CallObjectsKept DEF Retry, Throw, Return, Checking, NoCall
        <4>3. CountMatches'
          BY <1>1, <3>2, SameArmed DEF Armed
        <4>4. QED
          BY <3>2, <4>1, <4>2, <4>3 DEF RefCount
      <3>3. unwinding \in [Conn -> BOOLEAN] /\ (Throw(c) => unwinding' \in [Conn -> BOOLEAN])
        BY <1>1, BoundsAssumption DEF TypeOK, ProgramTypes, Throw
      <3>4. QED
        BY <2>2, <3>1, <3>2, <3>3
    <2>6. \A r \in CommitReplies(c) : r.server = "idle"
      BY DEF CommitReplies, Failure, Reply
    <2>7. NoOrphan'
      BY <1>1, <2>2, <2>5, <2>6, OuterKeeps
    <2>8. QED
      BY <2>3, <2>4, <2>5, <2>7 DEF CountInv, TypeOK
  <1>5. QED
    BY <1>3, <1>4

\* The histories of a rollback stay well typed.
LEMMA RevokeTypes ==
    ASSUME TypeOK, NEW c \in Conn, txn[call[c].arg] \in Objects, Revoke(c)
    PROVE  HistoryTypes'
  BY DEF TypeOK, HistoryTypes, Revoke, Objects

LEMMA RollbackSteps ==
    ASSUME CountInv, NEW c \in Conn,
           RollbackInner(c) \/ RollbackOuter(c) \/ RollbackAgain(c)
    PROVE  CountInv'
  <1> DEFINE t == call[c].arg
  <1>1. TypeOK /\ CallObjects /\ CountMatches /\ ClosedIsGone /\ NoOrphan
    BY DEF CountInv
  <1>2. ASSUME At(c, "driver", "rollback"), call[c].attempt = 1, AddRef(c, -1), Disarm(t),
               Return(c) \/ Retry(c), UNCHANGED <<unwinding, todo, exited>>
        PROVE  /\ ProgramTypes' /\ CallObjects' /\ CountMatches'
               /\ \A d \in Conn \ {c} : RefCount(d)' = RefCount(d)
    <2>1. txn' = [txn EXCEPT ![t] = [txn[t] EXCEPT !.state = "disarmed"]]
      BY <1>2 DEF Disarm
    <2>2. call[c].op = "rollback" /\ unwinding' \in [Conn -> BOOLEAN]
      BY <1>1, <1>2 DEF At, TypeOK, ProgramTypes
    <2>3. QED
      BY <1>2, <2>1, <2>2, EndedObject, DroppedStep
  <1>3. CASE RollbackInner(c)
    <2>1. /\ ProgramTypes' /\ CallObjects' /\ CountMatches'
          /\ \A d \in Conn \ {c} : RefCount(d)' = RefCount(d)
      BY <1>2, <1>3 DEF RollbackInner
    <2>2. HistoryTypes'
      BY <1>1, <1>3, EndedObject, RevokeTypes DEF RollbackInner
    <2>3. DatabaseTypes' /\ ClosedIsGone'
      BY <1>1, <1>3 DEF TypeOK, DatabaseTypes, RollbackInner, database, ClosedIsGone
    <2>4. NoOrphan'
      BY <1>1, <1>3, EndedObject, InnerKeeps DEF RollbackInner, database
    <2>5. QED
      BY <2>1, <2>2, <2>3, <2>4 DEF CountInv, TypeOK
  <1>4. \A r \in RollbackReplies(c) : r.server = "idle"
    BY DEF RollbackReplies, Reply
  <1>5. CASE RollbackOuter(c)
    <2>1. PICK ok \in BOOLEAN : Send(c, RollbackReplies(c), ok) /\ (Return(c) \/ Retry(c))
      BY <1>5 DEF RollbackOuter
    <2>2. /\ ProgramTypes' /\ CallObjects' /\ CountMatches'
          /\ \A d \in Conn \ {c} : RefCount(d)' = RefCount(d)
      BY <1>2, <1>5, <2>1 DEF RollbackOuter
    <2>3. HistoryTypes'
      BY <1>1, <1>5, EndedObject, RevokeTypes DEF RollbackOuter
    <2>4. DatabaseTypes' /\ ClosedIsGone'
      BY <1>1, <2>1, SendTypes, ReplyTypes, SendServer
    <2>5. NoOrphan'
      BY <1>1, <1>4, <2>1, <2>2, OuterKeeps
    <2>6. QED
      BY <2>2, <2>3, <2>4, <2>5 DEF CountInv, TypeOK
  <1>6. CASE RollbackAgain(c)
    <2>1. PICK ok \in BOOLEAN : /\ Send(c, RollbackReplies(c), ok)
                               /\ \/ Return(c) /\ UNCHANGED unwinding
                                  \/ Throw(c)
      BY <1>6 DEF RollbackAgain
    <2>2. UNCHANGED <<refCounts, txn, todo, exited, history>> /\ Return(c)
      BY <1>6, <2>1 DEF RollbackAgain, Throw
    <2>3. unwinding' \in [Conn -> BOOLEAN]
      BY <1>1, <2>1, BoundsAssumption DEF TypeOK, ProgramTypes, Throw
    <2>4. ProgramTypes' /\ HistoryTypes'
      BY <1>1, <2>2, <2>3, CallTypes DEF TypeOK, ProgramTypes, HistoryTypes, history
    <2>5. CallObjects'
      BY <1>1, <2>2, CallObjectsKept DEF Return, NoCall
    <2>6. CountMatches' /\ \A d \in Conn : RefCount(d)' = RefCount(d)
      BY <1>1, <2>2, SameArmed DEF Armed, RefCount
    <2>7. DatabaseTypes' /\ ClosedIsGone'
      BY <1>1, <2>1, SendTypes, ReplyTypes, SendServer
    <2>8. NoOrphan'
      BY <1>1, <1>4, <2>1, <2>6, OuterKeeps
    <2>9. QED
      BY <2>4, <2>5, <2>6, <2>7, <2>8 DEF CountInv, TypeOK
  <1>7. QED
    BY <1>3, <1>5, <1>6

LEMMA DestroySteps ==
    ASSUME CountInv, NEW c \in Conn, DestroyInner(c) \/ DestroyOuter(c)
    PROVE  CountInv'
  <1>1. TypeOK /\ CallObjects /\ CountMatches /\ ClosedIsGone /\ NoOrphan
    BY DEF CountInv
  <1>2. At(c, "driver", "destroy") /\ Destroyed(c) /\ UNCHANGED <<todo, exited>>
    BY DEF DestroyInner, DestroyOuter
  <1>3. unwinding' \in [Conn -> BOOLEAN] /\ NoObject.state # "armed"
    BY <1>1, <1>2 DEF TypeOK, ProgramTypes, Destroyed, NoObject
  <1>4. /\ ProgramTypes' /\ CallObjects' /\ CountMatches'
        /\ \A d \in Conn \ {c} : RefCount(d)' = RefCount(d)
    BY <1>2, <1>3, EndedObject, DroppedStep DEF Destroyed
  <1>5. HistoryTypes'
    BY <1>1, <1>2, EndedObject, RevokeTypes DEF Destroyed
  <1>6. CASE DestroyInner(c)
    <2>1. DatabaseTypes' /\ ClosedIsGone'
      BY <1>1, <1>6 DEF TypeOK, DatabaseTypes, DestroyInner, database, ClosedIsGone
    <2>2. NoOrphan'
      BY <1>1, <1>2, <1>6, EndedObject, InnerKeeps DEF DestroyInner, Destroyed, database
    <2>3. QED
      BY <1>4, <1>5, <2>1, <2>2 DEF CountInv, TypeOK
  <1>7. CASE DestroyOuter(c)
    <2>1. PICK ok \in BOOLEAN : Send(c, RollbackReplies(c), ok)
      BY <1>7 DEF DestroyOuter
    <2>2. DatabaseTypes' /\ ClosedIsGone'
      BY <1>1, <2>1, SendTypes, ReplyTypes, SendServer
    <2>3. NoOrphan'
      BY <1>1, <1>4, <2>1, OuterKeeps DEF RollbackReplies, Reply
    <2>4. QED
      BY <1>4, <1>5, <2>2, <2>3 DEF CountInv, TypeOK
  <1>8. QED
    BY <1>6, <1>7

-----------------------------------------------------------------------------
(* exec() and the destructor of a disarmed object *)

LEMMA ExecStep ==
    ASSUME CountInv, NEW c \in Conn, Exec(c)
    PROVE  CountInv'
  <1> DEFINE s == call[c].arg
             e == <<s, call[c].attempt>>
  <1>1. TypeOK /\ CallObjects /\ CountMatches /\ ClosedIsGone /\ NoOrphan
    BY DEF CountInv
  <1>2. /\ At(c, "driver", "exec")
        /\ UNCHANGED <<refCounts, todo, exited, promised, discarded, revoked>>
    BY DEF Exec
  <1>3. call[c] \in Calls /\ s \in Stmt /\ e \in Execution
    BY <1>1, <1>2 DEF At, TypeOK, ProgramTypes, NoCall, Calls, TxnOps, Execution
  <1>4. PICK ok \in BOOLEAN :
           /\ Send(c, StmtReplies(c, e), ok)
           /\ \/ /\ Return(c)
                 /\ unit' = [unit EXCEPT ![c] = IF RefCount(c) > 0 THEN @ \cup {s} ELSE @]
                 /\ txn' = [t \in Txn |-> IF t \in Armed(c)
                               THEN [txn[t] EXCEPT !.scope = @ \cup {s}] ELSE txn[t]]
                 /\ UNCHANGED unwinding
              \/ (Retry(c) \/ Throw(c)) /\ UNCHANGED <<unit, txn>>
                 /\ (Retry(c) => UNCHANGED unwinding)
    <2>1. PICK ok \in BOOLEAN :
              /\ Send(c, StmtReplies(c, e), ok)
              /\ \/ /\ ok
                    /\ Return(c)
                    /\ unit' = [unit EXCEPT ![c] = IF RefCount(c) > 0 THEN @ \cup {s} ELSE @]
                    /\ txn' = [t \in Txn |-> IF t \in Armed(c)
                                  THEN [txn[t] EXCEPT !.scope = @ \cup {s}] ELSE txn[t]]
                    /\ UNCHANGED unwinding
                 \/ /\ ~ok /\ ~isOpen'[c]
                    /\ Retry(c)
                    /\ UNCHANGED <<unit, txn, unwinding>>
                 \/ /\ ~ok /\ (isOpen'[c] \/ call[c].attempt = 2)
                    /\ Throw(c)
                    /\ UNCHANGED <<unit, txn>>
      BY DEF Exec
    <2>2. CASE Retry(c) /\ UNCHANGED <<unit, txn, unwinding>>
      BY <2>1, <2>2
    <2>3. CASE Throw(c) /\ UNCHANGED <<unit, txn>>
      <3>1. Retry(c) => FALSE
        BY <1>1, <1>3, <2>3 DEF Throw, Return, Retry, Checking, NoCall, TypeOK, ProgramTypes, Calls, TxnOps
      <3>2. QED
        BY <2>1, <2>3, <3>1
    <2>4. QED
      BY <2>1, <2>2, <2>3
  <1>5. txn' \in [Txn -> Objects \cup {NoObject, Constructing}]
    <2>1. \A t \in Armed(c) : [txn[t] EXCEPT !.scope = @ \cup {s}] \in Objects
      BY <1>1, <1>3 DEF Armed, TypeOK, ProgramTypes, Objects, NoObject, Constructing
    <2>2. QED
      BY <1>1, <1>4, <2>1 DEF TypeOK, ProgramTypes
  <1>6. \A t \in Txn : /\ txn'[t].state = txn[t].state
                       /\ txn[t].state = "armed" => txn'[t].conn = txn[t].conn
    <2>1. \A t \in Armed(c) : /\ [txn[t] EXCEPT !.scope = @ \cup {s}].state = txn[t].state
                              /\ [txn[t] EXCEPT !.scope = @ \cup {s}].conn = txn[t].conn
      BY <1>1 DEF Armed, TypeOK, ProgramTypes, Objects, NoObject, Constructing
    <2>2. QED
      BY <1>4, <2>1
  <1>7. \A d \in Conn : Armed(d)' = Armed(d)
    BY <1>6 DEF Armed
  <1>8. ProgramTypes'
    <2>1. unwinding' \in [Conn -> BOOLEAN]
      BY <1>1, <1>4, BoundsAssumption DEF TypeOK, ProgramTypes, Throw
    <2>2. call' \in [Conn -> Calls \cup {NoCall}]
      BY <1>1, <1>3, <1>4, CallTypes DEF Throw, Calls, NoCall, TxnOps
    <2>3. QED
      BY <1>1, <1>2, <1>5, <2>1, <2>2 DEF TypeOK, ProgramTypes
  <1>9. HistoryTypes'
    BY <1>1, <1>2, <1>3, <1>4 DEF TypeOK, HistoryTypes
  <1>10. CallObjects'
    <2>1. call' \in [Conn -> Calls \cup {NoCall}] /\ \A d \in Conn \ {c} : call'[d] = call[d]
      BY <1>1, <1>4, <1>8 DEF TypeOK, ProgramTypes, Return, Throw, Retry
    <2>2. call'[c].op \in {"none", "exec"}
      BY <1>1, <1>2, <1>4 DEF TypeOK, ProgramTypes, Return, Throw, Retry, Checking, NoCall, At
    <2>3. QED
      BY <1>1, <1>6, <1>7, <2>1, <2>2 DEF CallObjects
  <1>11. CountMatches' /\ \A d \in Conn : RefCount(d)' = RefCount(d)
    BY <1>1, <1>2, <1>7, SameArmed DEF RefCount
  <1>12. DatabaseTypes' /\ ClosedIsGone'
    BY <1>1, <1>3, <1>4, SendTypes, ReplyTypes, SendServer
  <1>13. NoOrphan'
    <2>1. CASE server[c] \in {"open", "aborted"}
      <3>1. RefCount(c) > 0
        BY <1>1, <2>1 DEF NoOrphan
      <3>2. QED
        BY <1>1, <1>4, <1>11, <3>1, CountedKeeps
    <2>2. CASE server[c] \notin {"open", "aborted"}
      <3>1. \A r \in StmtReplies(c, e) : r.server = "idle"
        BY <2>2 DEF StmtReplies, Failure, Reply
      <3>2. QED
        BY <1>1, <1>4, <1>11, <3>1, OuterKeeps
    <2>3. QED
      BY <2>1, <2>2
  <1>14. QED
    BY <1>8, <1>9, <1>10, <1>11, <1>12, <1>13 DEF CountInv, TypeOK

LEMMA DestroyDisarmedStep ==
    ASSUME CountInv, NEW t \in Txn, DestroyDisarmed(t)
    PROVE  CountInv'
  <1>1. TypeOK /\ CallObjects /\ txn[t].state = "disarmed"
        /\ txn' = [txn EXCEPT ![t] = NoObject]
        /\ UNCHANGED <<refCounts, call, unwinding, todo, database, exited, history>>
    BY DEF CountInv, DestroyDisarmed
  <1>2. TypeOK'
    BY <1>1 DEF TypeOK, ProgramTypes, DatabaseTypes, HistoryTypes, database, history
  <1>3. \A d \in Conn : Armed(d)' = Armed(d)
    BY <1>1 DEF TypeOK, ProgramTypes, Armed, NoObject
  <1>4. CallObjects'
    BY <1>1, <1>3 DEF CallObjects, TypeOK, ProgramTypes
  <1>5. CountMatches'
    BY <1>1, <1>3, SameArmed DEF CountInv
  <1>6. QED
    BY <1>1, <1>2, <1>4, <1>5 DEF CountInv, ClosedIsGone, NoOrphan, RefCount, database

-----------------------------------------------------------------------------
(* The theorems *)

\* The invariant holds at first: no object, no count, no transaction.
LEMMA CountInvInit == Init => CountInv
  <1> SUFFICES ASSUME Init PROVE CountInv
    OBVIOUS
  <1>1. TypeOK
    <2>1. DOMAIN refCounts = {}
      BY DEF Init
    <2>2. refCounts \in [DOMAIN refCounts -> Int]
      BY DEF Init
    <2>3. ProgramTypes
      BY <2>1, <2>2 DEF Init, ProgramTypes
    <2>4. DatabaseTypes /\ HistoryTypes
      BY BoundsAssumption DEF Init, DatabaseTypes, HistoryTypes
    <2>5. QED
      BY <2>3, <2>4 DEF TypeOK
  <1>2. CallObjects
    <2>1. \A c \in Conn : call[c].op = "none"
      BY DEF Init, NoCall
    <2>2. QED
      BY <2>1 DEF CallObjects
  <1>3. \A c \in Conn : RefCount(c) = 0 /\ Armed(c) = {}
    <2>1. DOMAIN refCounts = {} /\ \A t \in Txn : txn[t].state = "none"
      BY DEF Init, NoObject
    <2>2. QED
      BY <2>1 DEF RefCount, Armed
  <1>4. CountMatches
    BY <1>3, FS_EmptySet DEF CountMatches
  <1>5. ClosedIsGone /\ NoOrphan
    BY DEF Init, ClosedIsGone, NoOrphan
  <1>6. QED
    BY <1>1, <1>2, <1>4, <1>5 DEF CountInv

LEMMA CountInvNext == CountInv /\ [Next]_vars => CountInv'
  <1> SUFFICES ASSUME CountInv, [Next]_vars PROVE CountInv'
    OBVIOUS
  <1>1. ASSUME NEW c \in Conn, Step(c) PROVE CountInv'
    BY <1>1, CheckSteps, ConstructSteps, CommitSteps, RollbackSteps, DestroySteps, ExecStep
       DEF Step
  <1>2. ASSUME NEW c \in Conn, NewCall(c) PROVE CountInv'
    BY <1>2, EnterSteps
  <1>3. ASSUME NEW c \in Conn, Lose(c) PROVE CountInv'
    BY <1>3, LoseStep
  <1>4. ASSUME NEW t \in Txn, DestroyDisarmed(t) PROVE CountInv'
    BY <1>4, DestroyDisarmedStep
  <1>5. CASE Crash
    BY <1>5, TerminateStep DEF Crash
  <1>6. CASE UNCHANGED vars
    BY <1>6 DEF vars, program, database, history, CountInv, TypeOK, ProgramTypes,
                DatabaseTypes, HistoryTypes, CallObjects, CountMatches, ClosedIsGone,
                NoOrphan, RefCount, Armed
  <1>7. QED
    BY <1>1, <1>2, <1>3, <1>4, <1>5, <1>6 DEF Next, Ended

\* The model is well typed, whatever the connections, objects, statements
\* and faults are.
THEOREM TypeCorrect == Spec => []TypeOK
  <1>1. CountInv => TypeOK
    BY DEF CountInv
  <1>2. QED
    BY <1>1, CountInvInit, CountInvNext, PTL DEF Spec

\* m_refCounts counts exactly the armed objects of a connection, on every
\* path of the constructor, commit(), rollback() and the destructor, also
\* those that throw, for any number of objects and any losses.
THEOREM CountCorrect == Spec => []CountMatches
  <1>1. CountInv => CountMatches
    BY DEF CountInv
  <1>2. QED
    BY <1>1, CountInvInit, CountInvNext, PTL DEF Spec

\* No transaction of the server outlives the objects of its connection.
THEOREM NoTransactionLeaks == Spec => []NoOrphan
  <1>1. CountInv => NoOrphan
    BY DEF CountInv
  <1>2. QED
    BY <1>1, CountInvInit, CountInvNext, PTL DEF Spec

-----------------------------------------------------------------------------
(* Calls come to an end, and so do exceptions *)

\* Of one call: b is later in it than a.
Nearer(a, b) ==
    /\ b.op = a.op /\ b.arg = a.arg
    /\ \/ a.attempt < b.attempt
       \/ a.attempt = b.attempt /\ a.at = "check" /\ b.at = "driver"
       \/ a.attempt = b.attempt /\ a.at = b.at /\ a.retry < b.retry

\* A step of a thread moves its call on or ends the process, and no step of
\* another takes a call back.
CallsAdvance ==
    [][\A c \in Conn : call[c] # NoCall =>
         /\ Step(c) => exited' \/ call'[c] # call[c]
         /\ call'[c] \in {call[c], NoCall} \/ Nearer(call[c], call'[c])]_vars

\* An exception on its way out has an object left to destroy, and lets the
\* thread run destructors only.
Unwinds ==
    \A c \in Conn : unwinding[c] =>
        /\ Armed(c) # {}
        /\ call[c].op \in {"none", "destroy"}

\* While an exception is on its way out no object is armed, a destructor that
\* returns takes one off, and the exception is caught when none is left: then
\* the count is back to zero and the server's transaction is over.
ScopesEnd ==
    [][\A c \in Conn : unwinding[c] =>
         /\ Armed(c)' \subseteq Armed(c)
         /\ call[c] # NoCall /\ call'[c] = NoCall => Armed(c)' # Armed(c)
         /\ \/ unwinding'[c]
            \/ RefCount(c)' = 0 /\ server'[c] \notin {"open", "aborted"}]_vars

\* Every step of a call is a step of checkDbIsAlive, the last one of the
\* call, or the one that turns to its second attempt.
LEMMA CallMoves ==
    ASSUME CountInv, NEW c \in Conn, Step(c)
    PROVE  \/ exited' /\ UNCHANGED call
           \/ /\ call[c] \in Calls
              /\ \E q : /\ call' = [call EXCEPT ![c] = q]
                        /\ q = NoCall \/ Nearer(call[c], q)
  <1>1. call \in [Conn -> Calls \cup {NoCall}] /\ NoCall.op = "none"
    BY DEF CountInv, TypeOK, ProgramTypes, NoCall
  <1>2. CASE CheckExits(c)
    BY <1>2 DEF CheckExits, Terminate, program
  <1>3. CASE (CheckAlive(c) \/ CheckGivesUp(c))
    <2>1. call[c] \in Calls /\ call[c].at = "check"
      BY <1>1, <1>3 DEF CheckAlive, CheckGivesUp, InCheck
    <2>2. call' = [call EXCEPT ![c] = [call[c] EXCEPT !.at = "driver"]]
      BY <1>3 DEF CheckAlive, CheckGivesUp, ToDriver
    <2>3. Nearer(call[c], [call[c] EXCEPT !.at = "driver"])
      BY <2>1 DEF Nearer, Calls
    <2>4. QED
      BY <2>1, <2>2, <2>3
  <1>4. CASE CheckReopens(c)
    <2>1. call[c] \in Calls
      BY <1>1, <1>4 DEF CheckReopens, InCheck
    <2>2. call' = [call EXCEPT ![c] = [call[c] EXCEPT !.retry = @ + 1]]
      BY <1>4 DEF CheckReopens
    <2>3. Nearer(call[c], [call[c] EXCEPT !.retry = @ + 1])
      BY <2>1 DEF Nearer, Calls
    <2>4. QED
      BY <2>1, <2>2, <2>3
  <1>5. ASSUME NEW op \in TxnOps \cup {"exec"}, At(c, "driver", op), Return(c) \/ Retry(c)
        PROVE  /\ call[c] \in Calls
               /\ \E q : /\ call' = [call EXCEPT ![c] = q]
                         /\ q = NoCall \/ Nearer(call[c], q)
    <2>1. call[c] \in Calls
      BY <1>1, <1>5 DEF At, TxnOps
    <2>2. CASE Return(c)
      BY <2>1, <2>2 DEF Return
    <2>3. CASE Retry(c)
      <3>1. call[c].attempt = 1 /\ call' = [call EXCEPT ![c] = Checking(call[c].op, call[c].arg, 2)]
        BY <2>3 DEF Retry
      <3>2. Nearer(call[c], Checking(call[c].op, call[c].arg, 2))
        BY <3>1 DEF Nearer, Checking
      <3>3. QED
        BY <2>1, <3>1, <3>2
    <2>4. QED
      BY <1>5, <2>2, <2>3
  <1>6. ASSUME \/ ConstructNested(c) \/ ConstructOuter(c)
               \/ CommitInner(c) \/ CommitOuter(c)
        PROVE  /\ Return(c) \/ Retry(c)
               /\ At(c, "driver", "construct") \/ At(c, "driver", "commit")
    BY <1>6 DEF ConstructNested, ConstructOuter, Constructed, CommitInner, CommitOuter,
                Committed, Throw
  <1>7. ASSUME RollbackInner(c) \/ RollbackOuter(c) \/ RollbackAgain(c)
        PROVE  (Return(c) \/ Retry(c)) /\ At(c, "driver", "rollback")
    BY <1>7 DEF RollbackInner, RollbackOuter, RollbackAgain, Throw
  <1>8. ASSUME DestroyInner(c) \/ DestroyOuter(c)
        PROVE  (Return(c) \/ Retry(c)) /\ At(c, "driver", "destroy")
    BY <1>8 DEF DestroyInner, DestroyOuter, Destroyed
  <1>9. ASSUME Exec(c)
        PROVE  (Return(c) \/ Retry(c)) /\ At(c, "driver", "exec")
    BY <1>9 DEF Exec, Throw
  <1>10. CASE \/ ConstructNested(c) \/ ConstructOuter(c) \/ CommitInner(c) \/ CommitOuter(c)
              \/ RollbackInner(c) \/ RollbackOuter(c) \/ RollbackAgain(c)
              \/ DestroyInner(c) \/ DestroyOuter(c) \/ Exec(c)
    BY <1>5, <1>6, <1>7, <1>8, <1>9, <1>10 DEF TxnOps
  <1>11. QED
    BY <1>2, <1>3, <1>4, <1>10 DEF Step

\* A call that starts is not one under way.
LEMMA NewCallMoves ==
    ASSUME NEW c \in Conn, NewCall(c) \/ Lose(c), NEW d \in Conn, call[d] # NoCall,
           TypeOK
    PROVE  call'[d] = call[d]
  <1>1. SameThread(c, c)
    BY DEF SameThread
  <1>2. ASSUME NEW op, NEW a, Enter(c, op, a) PROVE call'[d] = call[d]
    BY <1>1, <1>2 DEF Enter, TypeOK, ProgramTypes
  <1>3. CASE NewCall(c)
    BY <1>2, <1>3 DEF NewCall, CallConstruct, CallDestroy, CallEnd, CallExec
  <1>4. CASE Lose(c)
    BY <1>4 DEF Lose, program
  <1>5. QED
    BY <1>3, <1>4

\* Every step of a call brings it nearer to its end: a call has two attempts,
\* each of them MaxRetry calls of open() and one driver command, whatever fails
\* and whatever the other threads do meanwhile.
THEOREM CallsComeToAnEnd == Spec => CallsAdvance
  <1> DEFINE A == \A c \in Conn : call[c] # NoCall =>
                     /\ Step(c) => exited' \/ call'[c] # call[c]
                     /\ call'[c] \in {call[c], NoCall} \/ Nearer(call[c], call'[c])
  <1>1. CountInv /\ [Next]_vars => A
    <2> SUFFICES ASSUME CountInv, [Next]_vars, NEW c \in Conn, call[c] # NoCall
                 PROVE  /\ Step(c) => exited' \/ call'[c] # call[c]
                        /\ call'[c] \in {call[c], NoCall} \/ Nearer(call[c], call'[c])
      OBVIOUS
    <2>1. TypeOK /\ call \in [Conn -> Calls \cup {NoCall}] /\ call[c] \in Calls
      BY DEF CountInv, TypeOK, ProgramTypes
    <2>2. ~Nearer(call[c], call[c])
      BY <2>1 DEF Nearer, Calls
    <2>3. ASSUME NEW d \in Conn, Step(d)
          PROVE  /\ call'[c] \in {call[c], NoCall} \/ Nearer(call[c], call'[c])
                 /\ d = c => exited' \/ call'[c] # call[c]
      <3>1. CASE exited' /\ UNCHANGED call
        BY <3>1
      <3>2. ASSUME NEW q, call' = [call EXCEPT ![d] = q], q = NoCall \/ Nearer(call[d], q)
            PROVE  /\ call'[c] \in {call[c], NoCall} \/ Nearer(call[c], call'[c])
                   /\ d = c => exited' \/ call'[c] # call[c]
        <4>1. CASE d = c
          <5>1. call'[c] = q
            BY <2>1, <3>2, <4>1
          <5>2. QED
            BY <2>2, <3>2, <4>1, <5>1
        <4>2. CASE d # c
          <5>1. call'[c] = call[c]
            BY <2>1, <3>2, <4>2
          <5>2. QED
            BY <4>2, <5>1
        <4>3. QED
          BY <4>1, <4>2
      <3>3. QED
        BY <2>3, <3>1, <3>2, CallMoves
    <2>4. ASSUME NEW d \in Conn, NewCall(d) \/ Lose(d) PROVE call'[c] = call[c]
      BY <2>1, <2>4, NewCallMoves
    <2>5. ASSUME NEW t \in Txn, DestroyDisarmed(t) PROVE call'[c] = call[c]
      BY <2>5 DEF DestroyDisarmed
    <2>6. ASSUME Crash PROVE call'[c] = call[c]
      BY <2>6 DEF Crash, Terminate, program
    <2>7. ASSUME UNCHANGED vars PROVE call'[c] = call[c]
      BY <2>7 DEF vars, program
    <2>8. call'[c] \in {call[c], NoCall} \/ Nearer(call[c], call'[c])
      BY <2>3, <2>4, <2>5, <2>6, <2>7 DEF Next, Ended
    <2>9. QED
      BY <2>3, <2>8
  <1>2. QED
    BY <1>1, CountInvInit, CountInvNext, PTL DEF Spec, CallsAdvance

\* A step that arms or disarms at most an object of its own connection, or one
\* that no connection has.
LEMMA OthersKept ==
    ASSUME TypeOK, NEW c \in Conn, NEW t \in Txn, NEW r,
           t \in Armed(c) \/ txn[t].state # "armed",
           r.state = "armed" => r.conn = c,
           txn' = [txn EXCEPT ![t] = r]
    PROVE  /\ \A d \in Conn \ {c} : Armed(d)' = Armed(d)
           /\ r.state # "armed" => Armed(c)' = Armed(c) \ {t}
  BY DEF TypeOK, ProgramTypes, Armed

\* What a step is to the exception of connection d: it does not touch it; it is
\* a destructor's last; or it is one of a thread that has no exception under
\* way, and may throw one.
Stays(d) ==
    /\ Armed(d)' = Armed(d)
    /\ unwinding'[d] = unwinding[d]
    /\ unwinding[d] => call'[d] = call[d] \/ call'[d].op = "destroy"

Leaves(d) ==
    /\ call[d].arg \in Armed(d)
    /\ Armed(d)' = Armed(d) \ {call[d].arg}
    /\ unwinding'[d] <=> unwinding[d] /\ Armed(d)' # {}
    /\ call'[d].op = "none"

Raises(d) ==
    /\ ~unwinding[d]
    /\ unwinding'[d] => Armed(d)' # {} /\ call'[d].op = "none"

LEMMA ThrowRaises ==
    ASSUME TypeOK, NEW c \in Conn, ~unwinding[c], Throw(c), Armed(c)' = Armed(c)
    PROVE  /\ Raises(c)
           /\ \A d \in Conn \ {c} : unwinding'[d] = unwinding[d]
  <1>1. PICK caught \in Catches :
           unwinding' = [unwinding EXCEPT ![c] = ~caught /\ Armed(c) # {}]
    BY DEF Throw
  <1>2. unwinding'[c] => Armed(c) # {}
    BY <1>1 DEF TypeOK, ProgramTypes
  <1>3. call'[c].op = "none"
    BY DEF Throw, Return, NoCall, TypeOK, ProgramTypes
  <1>4. \A d \in Conn \ {c} : unwinding'[d] = unwinding[d]
    BY <1>1 DEF TypeOK, ProgramTypes
  <1>5. QED
    BY <1>2, <1>3, <1>4 DEF Raises

\* A thread whose exception is on its way out is at no command but the
\* rollback of a destructor.
LEMMA NoneRaised ==
    ASSUME Unwinds, NEW c \in Conn, NEW op \in {"construct", "commit", "rollback", "exec"},
           At(c, "driver", op)
    PROVE  ~unwinding[c]
  BY DEF Unwinds, At

LEMMA ConstructScopes ==
    ASSUME CountInv, Unwinds, NEW c \in Conn, ConstructNested(c) \/ ConstructOuter(c)
    PROVE  /\ Raises(c)
           /\ \A d \in Conn \ {c} : Armed(d)' = Armed(d) /\ unwinding'[d] = unwinding[d]
  <1> DEFINE t == call[c].arg
  <1>1. TypeOK /\ At(c, "driver", "construct")
    BY DEF CountInv, ConstructNested, ConstructOuter
  <1>2. t \in Txn /\ txn[t].state = "constructing" /\ ~unwinding[c]
    BY <1>1, ConstructingObject, NoneRaised
  <1>3. CASE Constructed(c)
    <2>1. txn' = [txn EXCEPT ![t] = [state |-> "armed", conn |-> c, scope |-> {}]]
          /\ UNCHANGED unwinding
      BY <1>3 DEF Constructed
    <2>2. \A d \in Conn \ {c} : Armed(d)' = Armed(d)
      BY <1>1, <1>2, <2>1, OthersKept
    <2>3. QED
      BY <1>2, <2>1, <2>2 DEF Raises
  <1>4. CASE UNCHANGED <<txn, unwinding>>
    BY <1>2, <1>4 DEF Raises, Armed
  <1>5. CASE Throw(c) /\ txn' = [txn EXCEPT ![t] = NoObject]
    <2>1. \A d \in Conn : Armed(d)' = Armed(d)
      BY <1>1, <1>2, <1>5, OthersKept DEF NoObject, Armed
    <2>2. QED
      BY <1>1, <1>2, <1>5, <2>1, ThrowRaises
  <1>6. QED
    BY <1>3, <1>4, <1>5 DEF ConstructNested, ConstructOuter

LEMMA CommitScopes ==
    ASSUME CountInv, Unwinds, NEW c \in Conn, CommitInner(c) \/ CommitOuter(c)
    PROVE  /\ Raises(c)
           /\ \A d \in Conn \ {c} : Armed(d)' = Armed(d) /\ unwinding'[d] = unwinding[d]
  <1> DEFINE t == call[c].arg
  <1>1. TypeOK /\ At(c, "driver", "commit")
    BY DEF CountInv, CommitInner, CommitOuter
  <1>2. t \in Txn /\ t \in Armed(c) /\ ~unwinding[c]
    BY <1>1, EndedObject, NoneRaised
  <1>3. CASE Committed(c)
    <2>1. txn' = [txn EXCEPT ![t] = [txn[t] EXCEPT !.state = "disarmed"]] /\ UNCHANGED unwinding
      BY <1>3 DEF Committed, Disarm
    <2>2. [txn[t] EXCEPT !.state = "disarmed"].state # "armed"
      BY <1>1, EndedObject
    <2>3. \A d \in Conn \ {c} : Armed(d)' = Armed(d)
      BY <1>1, <1>2, <2>1, <2>2, OthersKept
    <2>4. QED
      BY <1>2, <2>1, <2>3 DEF Raises
  <1>4. CASE UNCHANGED <<txn, unwinding>>
    BY <1>2, <1>4 DEF Raises, Armed
  <1>5. CASE Throw(c) /\ UNCHANGED txn
    BY <1>1, <1>2, <1>5, ThrowRaises DEF Armed
  <1>6. QED
    BY <1>3, <1>4, <1>5 DEF CommitInner, CommitOuter

LEMMA RollbackScopes ==
    ASSUME CountInv, Unwinds, NEW c \in Conn,
           RollbackInner(c) \/ RollbackOuter(c) \/ RollbackAgain(c)
    PROVE  /\ Raises(c)
           /\ \A d \in Conn \ {c} : Armed(d)' = Armed(d) /\ unwinding'[d] = unwinding[d]
  <1> DEFINE t == call[c].arg
  <1>1. TypeOK /\ At(c, "driver", "rollback")
    BY DEF CountInv, RollbackInner, RollbackOuter, RollbackAgain
  <1>2. ~unwinding[c]
    BY <1>1, NoneRaised
  <1>3. CASE RollbackInner(c) \/ RollbackOuter(c)
    <2>1. call[c].attempt = 1 /\ Disarm(t) /\ UNCHANGED unwinding
      BY <1>3 DEF RollbackInner, RollbackOuter
    <2>2. t \in Txn /\ t \in Armed(c) /\ [txn[t] EXCEPT !.state = "disarmed"].state # "armed"
      BY <1>1, <2>1, EndedObject
    <2>3. txn' = [txn EXCEPT ![t] = [txn[t] EXCEPT !.state = "disarmed"]]
      BY <2>1 DEF Disarm
    <2>4. \A d \in Conn \ {c} : Armed(d)' = Armed(d)
      BY <1>1, <2>2, <2>3, OthersKept
    <2>5. QED
      BY <1>2, <2>1, <2>4 DEF Raises
  <1>4. CASE RollbackAgain(c)
    <2>1. CASE UNCHANGED <<txn, unwinding>>
      BY <1>2, <2>1 DEF Raises, Armed
    <2>2. CASE Throw(c) /\ UNCHANGED txn
      BY <1>1, <1>2, <2>2, ThrowRaises DEF Armed
    <2>3. QED
      BY <1>4, <2>1, <2>2 DEF RollbackAgain
  <1>5. QED
    BY <1>3, <1>4

LEMMA DestroyScopes ==
    ASSUME CountInv, NEW c \in Conn, DestroyInner(c) \/ DestroyOuter(c)
    PROVE  /\ Leaves(c)
           /\ \A d \in Conn \ {c} : Armed(d)' = Armed(d) /\ unwinding'[d] = unwinding[d]
  <1> DEFINE t == call[c].arg
  <1>1. TypeOK /\ At(c, "driver", "destroy") /\ Destroyed(c)
    BY DEF CountInv, DestroyInner, DestroyOuter
  <1>2. t \in Txn /\ t \in Armed(c)
    BY <1>1, EndedObject
  <1>3. /\ Armed(c)' = Armed(c) \ {t}
        /\ \A d \in Conn \ {c} : Armed(d)' = Armed(d)
    <2>1. txn' = [txn EXCEPT ![t] = NoObject] /\ NoObject.state # "armed"
      BY <1>1 DEF Destroyed, NoObject
    <2>2. QED
      BY <1>1, <1>2, <2>1, OthersKept
  <1>4. /\ unwinding'[c] <=> unwinding[c] /\ Armed(c) # {t}
        /\ \A d \in Conn \ {c} : unwinding'[d] = unwinding[d]
    BY <1>1 DEF Destroyed, TypeOK, ProgramTypes
  <1>5. Armed(c)' # {} <=> Armed(c) # {t}
    BY <1>2, <1>3
  <1>6. call'[c].op = "none"
    BY <1>1 DEF Destroyed, Return, NoCall, TypeOK, ProgramTypes
  <1>7. QED
    BY <1>2, <1>3, <1>4, <1>5, <1>6 DEF Leaves

LEMMA ExecScopes ==
    ASSUME CountInv, Unwinds, NEW c \in Conn, Exec(c)
    PROVE  /\ Raises(c)
           /\ \A d \in Conn \ {c} : Armed(d)' = Armed(d) /\ unwinding'[d] = unwinding[d]
  <1> DEFINE s == call[c].arg
  <1>1. TypeOK /\ At(c, "driver", "exec") /\ ~unwinding[c]
    BY NoneRaised DEF CountInv, Exec
  <1>2. CASE /\ UNCHANGED unwinding
             /\ txn' = [t \in Txn |-> IF t \in Armed(c)
                           THEN [txn[t] EXCEPT !.scope = @ \cup {s}] ELSE txn[t]]
    <2>1. \A t \in Armed(c) : /\ [txn[t] EXCEPT !.scope = @ \cup {s}].state = txn[t].state
                              /\ [txn[t] EXCEPT !.scope = @ \cup {s}].conn = txn[t].conn
      BY <1>1 DEF Armed, TypeOK, ProgramTypes, Objects, NoObject, Constructing
    <2>2. \A t \in Txn : /\ txn'[t].state = txn[t].state
                         /\ txn[t].state = "armed" => txn'[t].conn = txn[t].conn
      BY <1>2, <2>1
    <2>3. \A d \in Conn : Armed(d)' = Armed(d)
      BY <2>2 DEF Armed
    <2>4. QED
      BY <1>1, <1>2, <2>3 DEF Raises
  <1>3. CASE UNCHANGED <<txn, unwinding>>
    BY <1>1, <1>3 DEF Raises, Armed
  <1>4. CASE Throw(c) /\ UNCHANGED txn
    BY <1>1, <1>4, ThrowRaises DEF Armed
  <1>5. QED
    BY <1>2, <1>3, <1>4 DEF Exec

\* Every step is one of the three to the exception of each connection.
LEMMA EachScope ==
    ASSUME CountInv, Unwinds, [Next]_vars, NEW d \in Conn
    PROVE  Stays(d) \/ Leaves(d) \/ Raises(d)
  <1>1. TypeOK /\ call \in [Conn -> Calls \cup {NoCall}]
    BY DEF CountInv, TypeOK, ProgramTypes
  <1>2. ASSUME NEW c \in Conn, Step(c) PROVE Stays(d) \/ Leaves(d) \/ Raises(d)
    <2>1. d # c => call'[d] = call[d]
      BY <1>1, <1>2, CallMoves
    <2>2. CASE CheckAlive(c) \/ CheckGivesUp(c) \/ CheckExits(c) \/ CheckReopens(c)
      <3>1. UNCHANGED <<txn, unwinding>>
        BY <2>2 DEF CheckAlive, CheckGivesUp, CheckExits, CheckReopens, Terminate, program
      <3>2. call'[c].op = call[c].op \/ call'[c] = call[c]
        <4>1. CASE CheckExits(c)
          BY <4>1 DEF CheckExits, Terminate, program
        <4>2. ASSUME InCheck(c) PROVE call[c] \in Calls
          BY <1>1, <4>2 DEF InCheck
        <4>3. CASE CheckAlive(c) \/ CheckGivesUp(c)
          BY <1>1, <4>2, <4>3 DEF CheckAlive, CheckGivesUp, ToDriver, Calls
        <4>4. CASE CheckReopens(c)
          BY <1>1, <4>2, <4>4 DEF CheckReopens, Calls
        <4>5. QED
          BY <2>2, <4>1, <4>3, <4>4
      <3>3. InCheck(c) /\ call[c] # NoCall
        BY <2>2 DEF CheckAlive, CheckGivesUp, CheckExits, CheckReopens, InCheck
      <3>4. unwinding[c] => call[c].op = "destroy"
        BY <1>1, <3>3 DEF Unwinds, Calls, TxnOps
      <3>5. QED
        BY <2>1, <3>1, <3>2, <3>4 DEF Stays, Armed
    <2>3. CASE \/ ConstructNested(c) \/ ConstructOuter(c) \/ CommitInner(c) \/ CommitOuter(c)
               \/ RollbackInner(c) \/ RollbackOuter(c) \/ RollbackAgain(c)
               \/ DestroyInner(c) \/ DestroyOuter(c) \/ Exec(c)
      <3>1. /\ Raises(c) \/ Leaves(c)
            /\ \A x \in Conn \ {c} : Armed(x)' = Armed(x) /\ unwinding'[x] = unwinding[x]
        BY <2>3, ConstructScopes, CommitScopes, RollbackScopes, DestroyScopes, ExecScopes
      <3>2. d # c => Stays(d)
        BY <2>1, <3>1 DEF Stays
      <3>3. QED
        BY <3>1, <3>2
    <2>4. QED
      BY <1>2, <2>2, <2>3 DEF Step
  <1>3. ASSUME NEW c \in Conn, NewCall(c) PROVE Stays(d) \/ Leaves(d) \/ Raises(d)
    <2>1. ASSUME NEW op, NEW a, Enter(c, op, a), UNCHANGED unwinding, Armed(d)' = Armed(d),
                 op = "destroy" \/ ~unwinding[c]
          PROVE  Stays(d)
      <3>1. call'[c].op = op /\ (d # c => call'[d] = call[d])
        BY <1>1, <2>1 DEF Enter, Checking
      <3>2. QED
        BY <2>1, <3>1 DEF Stays
    <2>2. ASSUME NEW t \in Txn, CallConstruct(c, t) PROVE Stays(d)
      <3>1. Armed(d)' = Armed(d)
        BY <1>1, <2>2 DEF CallConstruct, Armed, Constructing, TypeOK, ProgramTypes
      <3>2. QED
        BY <2>1, <2>2, <3>1 DEF CallConstruct
    <2>3. ASSUME NEW t \in Txn, CallDestroy(c, t) PROVE Stays(d)
      BY <2>1, <2>3 DEF CallDestroy, Armed
    <2>4. ASSUME NEW t \in Txn, NEW op, CallEnd(c, t, op) PROVE Stays(d)
      BY <2>1, <2>4 DEF CallEnd, Armed
    <2>5. ASSUME NEW s \in Stmt, CallExec(c, s) PROVE Stays(d)
      BY <2>1, <2>5 DEF CallExec, Armed
    <2>6. QED
      BY <1>3, <2>2, <2>3, <2>4, <2>5 DEF NewCall
  <1>4. CASE UNCHANGED program
    BY <1>4 DEF program, Stays, Armed
  <1>5. ASSUME NEW t \in Txn, DestroyDisarmed(t) PROVE Stays(d)
    <2>1. Armed(d)' = Armed(d)
      BY <1>1, <1>5 DEF DestroyDisarmed, TypeOK, ProgramTypes, Armed, NoObject
    <2>2. QED
      BY <1>5, <2>1 DEF DestroyDisarmed, Stays
  <1>6. QED
    BY <1>2, <1>3, <1>4, <1>5 DEF Next, Lose, Crash, Terminate, Ended, vars

LEMMA UnwindsNext ==
    CountInv /\ Unwinds /\ [Next]_vars => Unwinds'
  <1> SUFFICES ASSUME CountInv, Unwinds, [Next]_vars, NEW d \in Conn, unwinding'[d]
               PROVE  Armed(d)' # {} /\ call'[d].op \in {"none", "destroy"}
    BY DEF Unwinds
  <1>1. CASE Stays(d)
    BY <1>1 DEF Stays, Unwinds
  <1>2. CASE Leaves(d)
    BY <1>2 DEF Leaves
  <1>3. CASE Raises(d)
    BY <1>3 DEF Raises
  <1>4. QED
    BY <1>1, <1>2, <1>3, EachScope

\* Nothing but destructors runs while an exception is on its way out, each takes
\* an object with it, and when it is caught the count of the connection is zero
\* and the server's transaction over, whatever is lost meanwhile.
THEOREM ExceptionsLeaveAll == Spec => []Unwinds /\ ScopesEnd
  <1> DEFINE A == \A c \in Conn : unwinding[c] =>
                     /\ Armed(c)' \subseteq Armed(c)
                     /\ call[c] # NoCall /\ call'[c] = NoCall => Armed(c)' # Armed(c)
                     /\ \/ unwinding'[c]
                        \/ RefCount(c)' = 0 /\ server'[c] \notin {"open", "aborted"}
  <1>1. Init => Unwinds
    BY DEF Init, Unwinds
  <1>2. CountInv /\ Unwinds /\ [Next]_vars => A
    <2> SUFFICES ASSUME CountInv, Unwinds, [Next]_vars, NEW d \in Conn, unwinding[d]
                 PROVE  /\ Armed(d)' \subseteq Armed(d)
                        /\ call[d] # NoCall /\ call'[d] = NoCall => Armed(d)' # Armed(d)
                        /\ \/ unwinding'[d]
                           \/ RefCount(d)' = 0 /\ server'[d] \notin {"open", "aborted"}
      OBVIOUS
    <2>1. CASE Stays(d)
      BY <2>1 DEF Stays, NoCall
    <2>2. CASE Leaves(d)
      <3>1. Armed(d)' = {} => RefCount(d)' = 0 /\ server'[d] \notin {"open", "aborted"}
        <4>1. CountMatches' /\ NoOrphan'
          BY CountInvNext DEF CountInv
        <4>2. SUFFICES ASSUME Armed(d)' = {}
                       PROVE  RefCount(d)' = 0 /\ server'[d] \notin {"open", "aborted"}
          OBVIOUS
        <4>3. RefCount(d)' = 0
          BY <4>1, <4>2, FS_EmptySet DEF CountMatches
        <4>4. QED
          BY <4>1, <4>3 DEF NoOrphan
      <3>2. QED
        BY <2>2, <3>1 DEF Leaves
    <2>3. CASE Raises(d)
      BY <2>3 DEF Raises
    <2>4. QED
      BY <2>1, <2>2, <2>3, EachScope
  <1>3. QED
    BY <1>1, <1>2, UnwindsNext, CountInvInit, CountInvNext, PTL DEF Spec, ScopesEnd

-----------------------------------------------------------------------------
(* A program that has only its main thread *)

\* All connections belong to the main thread, the program lets every
\* exception leave the transactions it was thrown in, and no constraint is
\* deferred to the COMMIT.
MainThread ==
    /\ MainConn = Conn
    /\ Catches = {FALSE}
    /\ "deferred" \notin Faults

-----------------------------------------------------------------------------
(* The inductive invariant of the main thread *)

\* One thread is in at most one call, and an exception on its way out lets
\* it run destructors only.
OneThread ==
    /\ \A c, d \in Conn : call[c] # NoCall /\ call[d] # NoCall => c = d
    /\ \A c \in Conn : unwinding[c] => call[c].op \in {"none", "destroy"}

\* A command fails the first time only with its connection, which is never
\* opened again: the second attempt ends in checkDbIsAlive.
RetryEnds ==
    \A c \in Conn :
        call[c] # NoCall /\ call[c].attempt = 2 => call[c].at = "check" /\ ~isOpen[c]

\* The session of a connection with objects is in a transaction or gone,
\* and in one that failed only until the exception has left it.
InTransaction ==
    \A c \in Conn : /\ RefCount(c) > 0 => server[c] # "idle"
                    /\ server[c] = "aborted" => unwinding[c]

PendingStmts(c) == {e[1] : e \in pending[c]}

\* The session's transaction has applied exactly the unit under way.
PendingIsUnit ==
    \A c \in Conn : /\ RefCount(c) = 0 => unit[c] = {}
                    /\ server[c] = "open" => PendingStmts(c) = unit[c]
                    /\ server[c] # "open" => pending[c] = {}

\* A unit under way is durable only from the COMMIT whose reply was lost
\* to the end of the process.
DurableEnds ==
    \A c \in Conn :
        \/ unit[c] \cap DurableStmts = {}
        \/ /\ unit[c] \subseteq DurableStmts
           /\ exited \/ (call[c].op = "commit" /\ call[c].attempt = 2)

\* A statement is ahead, in the call under way, in one unit, rolled back
\* or in the database.
Places ==
    /\ \A c, d \in Conn : c # d => unit[c] \cap unit[d] = {}
    /\ \A c \in Conn : unit[c] \cap (todo \cup discarded) = {}
    /\ todo \cap (DurableStmts \cup discarded) = {}
    /\ DiscardedUndone
    /\ \A c \in Conn : call[c].op = "exec" =>
          /\ call[c].arg \notin todo \cup discarded
          /\ \A d \in Conn : call[c].arg \notin unit[d]
          /\ call[c].attempt = 1 => call[c].arg \notin DurableStmts

\* Nothing is executed by a second attempt.
FirstAttempts ==
    /\ durable \subseteq Stmt \X {1}
    /\ \A c \in Conn : pending[c] \subseteq Stmt \X {1}

MainInv ==
    /\ OneThread /\ RetryEnds /\ InTransaction /\ PendingIsUnit
    /\ DurableEnds /\ Places /\ FirstAttempts /\ PromisedDurable

-----------------------------------------------------------------------------
(* Calls *)

\* In a program with one thread no call starts during another.
LEMMA EnterOne ==
    ASSUME MainThread, CountInv, MainInv, NEW c \in Conn, NEW op, NEW a, op # "none",
           Enter(c, op, a), unwinding[c] => op = "destroy", UNCHANGED unwinding
    PROVE  /\ OneThread' /\ ~exited
           /\ call' = [call EXCEPT ![c] = Checking(op, a, 1)]
           /\ \A d \in Conn : call[d] = NoCall
  <1>1. \A d \in Conn : call[d] = NoCall
    BY DEF Enter, SameThread, MainThread
  <1>2. call' = [call EXCEPT ![c] = Checking(op, a, 1)] /\ ~exited
    BY DEF Enter
  <1>3. call \in [Conn -> Calls \cup {NoCall}]
    BY DEF CountInv, TypeOK, ProgramTypes
  <1>4. OneThread'
    BY <1>1, <1>2, <1>3 DEF MainInv, OneThread, Checking
  <1>5. QED
    BY <1>1, <1>2, <1>4

\* A call under way stays the only one.
LEMMA OneThreadKept ==
    ASSUME CountInv, MainInv, NEW c \in Conn, NEW q, call[c] # NoCall,
           call' = [call EXCEPT ![c] = q],
           \A d \in Conn \ {c} : unwinding'[d] = unwinding[d],
           unwinding'[c] => q.op \in {"none", "destroy"}
    PROVE  OneThread'
  BY DEF CountInv, TypeOK, ProgramTypes, MainInv, OneThread

\* A command belongs to the first attempt of the only call, and no unit is
\* in the database when it is sent.
LEMMA AtDriver ==
    ASSUME CountInv, MainInv, NEW c \in Conn, NEW op, op # "none", At(c, "driver", op)
    PROVE  /\ call[c] \in Calls /\ call[c] # NoCall /\ call[c].attempt = 1
           /\ call[c].op = op
           /\ \A d \in Conn \ {c} : call[d] = NoCall
           /\ unwinding[c] => op = "destroy"
           /\ \A d \in Conn : unit[d] \cap DurableStmts = {}
           /\ ~exited
  <1>1. /\ call[c] \in Calls /\ call[c] # NoCall /\ call[c].op = op /\ ~exited
        /\ call[c].at = "driver"
    BY DEF CountInv, TypeOK, ProgramTypes, At, NoCall
  <1>2. call[c].attempt = 1
    BY <1>1 DEF MainInv, RetryEnds, Calls
  <1>3. \A d \in Conn \ {c} : call[d] = NoCall
    BY <1>1 DEF MainInv, OneThread
  <1>4. \A d \in Conn : unit[d] \cap DurableStmts = {}
    BY <1>1, <1>2, <1>3 DEF MainInv, DurableEnds, NoCall
  <1>5. QED
    BY <1>1, <1>2, <1>4 DEF MainInv, OneThread

\* An inner object leaves others behind.
LEMMA InnerLeavesArmed ==
    ASSUME CountMatches, NEW c \in Conn, NEW t \in Armed(c), RefCount(c) # 1
    PROVE  Armed(c) # {t} /\ RefCount(c) > 1
  <1>1. Armed(c) # {t}
    BY FS_Singleton DEF CountMatches
  <1>2. QED
    BY <1>1, ArmedCounted

-----------------------------------------------------------------------------
(* Commands *)

\* One execution more is one statement more.
LEMMA OneMoreStmt ==
    ASSUME NEW E, NEW s
    PROVE  {e[1] : e \in E \cup {<<s, 1>>}} = {e[1] : e \in E} \cup {s}
  <1>1. <<s, 1>>[1] = s
    OBVIOUS
  <1>2. QED
    BY <1>1, Zenon

\* What a command leaves of the session, the connection and the database.
LEMMA SendMain ==
    ASSUME CountInv, MainInv, NEW c \in Conn, NEW R, NEW ok \in BOOLEAN, Send(c, R, ok)
    PROVE  /\ \A d \in Conn \ {c} : /\ server'[d] = server[d]
                                    /\ pending'[d] = pending[d]
                                    /\ isOpen'[d] = isOpen[d]
           /\ \/ /\ server[c] # "gone" /\ isOpen'[c]
                 /\ \E r \in R : /\ ok = r.ok /\ server'[c] = r.server
                                 /\ pending'[c] = r.pending /\ durable' = r.durable
              \/ /\ ~ok /\ ~isOpen'[c] /\ server'[c] = "gone" /\ pending'[c] = {}
                 /\ \/ durable' = durable
                    \/ server[c] # "gone" /\ \E r \in R : durable' = r.durable
  <1>1. DatabaseTypes /\ ClosedIsGone
    BY DEF CountInv, TypeOK
  <1>2. CASE Answered(c, R, ok)
    BY <1>1, <1>2 DEF Answered, DatabaseTypes
  <1>3. CASE Unanswered(c, R, ok)
    BY <1>1, <1>3 DEF Unanswered, DatabaseTypes
  <1>4. CASE Undelivered(c, ok)
    <2>1. server[c] = "gone" /\ pending[c] = {}
      BY <1>1, <1>4 DEF Undelivered, ClosedIsGone, MainInv, PendingIsUnit
    <2>2. QED
      BY <1>1, <1>4, <2>1 DEF Undelivered, DatabaseTypes
  <1>5. QED
    BY <1>2, <1>3, <1>4 DEF Send

\* BEGIN opens a transaction or finds the connection gone.
LEMMA BeginMain ==
    ASSUME CountInv, MainInv, NEW c \in Conn, NEW ok \in BOOLEAN, RefCount(c) = 0,
           Send(c, BeginReplies(c), ok)
    PROVE  /\ durable' = durable /\ pending'[c] = {}
           /\ ok => server'[c] = "open"
           /\ ~ok => server'[c] = "gone" /\ ~isOpen'[c]
  <1>1. server[c] \notin {"open", "aborted"}
    BY DEF CountInv, NoOrphan
  <1>2. BeginReplies(c) = {Reply(TRUE, "open", {}, durable)}
    BY <1>1 DEF BeginReplies, MainInv, PendingIsUnit
  <1>3. \A r \in BeginReplies(c) :
            r.ok /\ r.server = "open" /\ r.pending = {} /\ r.durable = durable
    BY <1>2 DEF Reply
  <1>4. QED
    BY <1>3, SendMain

\* ROLLBACK ends the transaction or finds the connection gone.
LEMMA RollbackMain ==
    ASSUME CountInv, MainInv, NEW c \in Conn, NEW ok \in BOOLEAN,
           Send(c, RollbackReplies(c), ok)
    PROVE  /\ durable' = durable /\ pending'[c] = {}
           /\ ok => server'[c] = "idle"
           /\ ~ok => server'[c] = "gone" /\ ~isOpen'[c]
  <1>1. \A r \in RollbackReplies(c) :
            r.ok /\ r.server = "idle" /\ r.pending = {} /\ r.durable = durable
    BY DEF RollbackReplies, Reply
  <1>2. QED
    BY <1>1, SendMain

\* COMMIT makes the unit under way durable, all of it; when it fails, the
\* connection is gone and nobody knows.
LEMMA CommitMain ==
    ASSUME MainThread, CountInv, MainInv, NEW c \in Conn, NEW ok \in BOOLEAN,
           RefCount(c) = 1, ~unwinding[c], Send(c, CommitReplies(c), ok)
    PROVE  /\ pending'[c] = {}
           /\ ok => /\ server'[c] = "idle"
                    /\ durable' = durable \cup pending[c]
                    /\ DurableStmts' = DurableStmts \cup unit[c]
           /\ ~ok => /\ server'[c] = "gone" /\ ~isOpen'[c]
                     /\ \/ durable' = durable
                        \/ /\ durable' = durable \cup pending[c]
                           /\ DurableStmts' = DurableStmts \cup unit[c]
  <1>1. server[c] \in {"open", "gone"}
    BY DEF CountInv, TypeOK, DatabaseTypes, MainInv, InTransaction
  <1>2. ASSUME server[c] = "open", NEW r \in CommitReplies(c)
        PROVE  r.ok /\ r.server = "idle" /\ r.pending = {} /\ r.durable = durable \cup pending[c]
    BY <1>2 DEF CommitReplies, Failure, MainThread, Reply
  <1>3. ASSUME server[c] = "open", durable' = durable \cup pending[c]
        PROVE  DurableStmts' = DurableStmts \cup unit[c]
    <2>1. unit[c] = PendingStmts(c)
      BY <1>3 DEF MainInv, PendingIsUnit
    <2>2. QED
      BY <1>3, <2>1 DEF DurableStmts, PendingStmts
  <1>4. QED
    BY <1>1, <1>2, <1>3, SendMain

\* A statement joins the pending work of a transaction and leaves the
\* database alone; outside of one it takes effect at once.
LEMMA StmtMain ==
    ASSUME CountInv, MainInv, NEW c \in Conn, NEW ok \in BOOLEAN, NEW s \in Stmt,
           ~unwinding[c], Send(c, StmtReplies(c, <<s, 1>>), ok)
    PROVE  /\ RefCount(c) > 0 =>
                 /\ durable' = durable
                 /\ ok => server'[c] = "open" /\ pending'[c] = pending[c] \cup {<<s, 1>>}
                          /\ server[c] = "open"
                 /\ ~ok => /\ pending'[c] = {}
                           /\ IF isOpen'[c] THEN server'[c] = "aborted" ELSE server'[c] = "gone"
           /\ RefCount(c) = 0 =>
                 /\ pending'[c] = {}
                 /\ server'[c] = (IF isOpen'[c] THEN "idle" ELSE "gone")
                 /\ ok => durable' = durable \cup {<<s, 1>>}
                 /\ ~ok => \/ durable' = durable
                           \/ ~isOpen'[c] /\ durable' = durable \cup {<<s, 1>>}
           /\ ok => isOpen'[c]
  <1> DEFINE e == <<s, 1>>
  <1>1. /\ RefCount(c) > 0 => server[c] \in {"open", "gone"}
        /\ RefCount(c) = 0 => server[c] \in {"idle", "gone"}
    BY DEF CountInv, TypeOK, DatabaseTypes, MainInv, InTransaction, NoOrphan
  <1>2. ASSUME server[c] = "open", NEW r \in StmtReplies(c, e)
        PROVE  /\ r.durable = durable
               /\ \/ r.ok /\ r.server = "open" /\ r.pending = pending[c] \cup {e}
                  \/ ~r.ok /\ r.server = "aborted" /\ r.pending = {}
    BY <1>2 DEF StmtReplies, Failure, Reply
  <1>3. ASSUME server[c] = "idle", NEW r \in StmtReplies(c, e)
        PROVE  /\ r.server = "idle" /\ r.pending = {}
               /\ \/ r.ok /\ r.durable = durable \cup {e}
                  \/ ~r.ok /\ r.durable = durable
    BY <1>3 DEF StmtReplies, Failure, Reply
  <1>4. CASE RefCount(c) > 0
    BY <1>1, <1>2, <1>4, SendMain
  <1>5. CASE RefCount(c) = 0
    BY <1>1, <1>3, <1>5, SendMain
  <1>6. RefCount(c) \in Nat
    BY ArmedFinite DEF CountInv, CountMatches
  <1>7. QED
    BY <1>4, <1>5, <1>6

-----------------------------------------------------------------------------
(* Steps that leave sessions, database and units alone *)

LEMMA QuietMain ==
    ASSUME CountInv, MainInv,
           UNCHANGED <<server, isOpen, pending, durable, exited, unit, promised, discarded, todo>>,
           \A d \in Conn : RefCount(d)' > 0 <=> RefCount(d) > 0,
           \A d \in Conn : RefCount(d)' = 0 <=> RefCount(d) = 0,
           \A d \in Conn : server[d] = "aborted" => unwinding'[d],
           OneThread', RetryEnds',
           \A d \in Conn : call[d].op = "commit" /\ call[d].attempt = 2 => call'[d] = call[d],
           \A d \in Conn : call'[d].op = "exec" =>
               /\ call[d].op = "exec" /\ call'[d].arg = call[d].arg
               /\ call'[d].attempt = 1 => call[d].attempt = 1
    PROVE  MainInv'
  <1>1. DurableStmts' = DurableStmts
    BY DEF DurableStmts
  <1>2. \A d \in Conn : PendingStmts(d)' = PendingStmts(d)
    BY DEF PendingStmts
  <1>3. InTransaction'
    BY DEF MainInv, InTransaction
  <1>4. PendingIsUnit'
    BY <1>2 DEF MainInv, PendingIsUnit
  <1>5. DurableEnds'
    BY <1>1 DEF MainInv, DurableEnds
  <1>6. Places'
    BY <1>1 DEF MainInv, Places, DiscardedUndone
  <1>7. FirstAttempts' /\ PromisedDurable'
    BY <1>1 DEF MainInv, FirstAttempts, PromisedDurable
  <1>8. QED
    BY <1>3, <1>4, <1>5, <1>6, <1>7 DEF MainInv

\* The calls of the program.
LEMMA EnterMain ==
    ASSUME MainThread, CountInv, MainInv, NEW c \in Conn, NewCall(c)
    PROVE  MainInv'
  <1>1. call \in [Conn -> Calls \cup {NoCall}] /\ NoCall.op = "none"
    BY DEF CountInv, TypeOK, ProgramTypes, NoCall
  <1>2. ASSUME NEW op \in TxnOps, NEW t \in Txn, Enter(c, op, t),
               unwinding[c] => op = "destroy",
               UNCHANGED <<refCounts, unwinding, todo, database, exited, history>>
        PROVE  MainInv'
    <2>1. /\ OneThread' /\ call' = [call EXCEPT ![c] = Checking(op, t, 1)]
          /\ \A d \in Conn : call[d] = NoCall
      BY <1>2, EnterOne DEF TxnOps
    <2>2. /\ Checking(op, t, 1).op = op /\ Checking(op, t, 1).attempt = 1
          /\ op # "exec"
      BY DEF Checking, TxnOps
    <2>3. RetryEnds'
      BY <1>1, <2>1, <2>2 DEF RetryEnds
    <2>4. \A d \in Conn : RefCount(d)' = RefCount(d)
      BY <1>2 DEF RefCount
    <2>5. \A d \in Conn : server[d] = "aborted" => unwinding'[d]
      BY <1>2 DEF MainInv, InTransaction
    <2>6. QED
      BY <1>1, <1>2, <2>1, <2>2, <2>3, <2>4, <2>5, QuietMain DEF database, history
  <1>3. ASSUME NEW t \in Txn, CallConstruct(c, t) PROVE MainInv'
    BY <1>2, <1>3 DEF CallConstruct, TxnOps
  <1>4. ASSUME NEW t \in Txn, NEW op \in {"commit", "rollback"}, CallEnd(c, t, op)
        PROVE  MainInv'
    BY <1>2, <1>4 DEF CallEnd, TxnOps
  <1>5. ASSUME NEW t \in Txn, CallDestroy(c, t) PROVE MainInv'
    BY <1>2, <1>5 DEF CallDestroy, TxnOps
  <1>6. ASSUME NEW s \in Stmt, CallExec(c, s) PROVE MainInv'
    <2>1. /\ Enter(c, "exec", s) /\ ~unwinding[c] /\ s \in todo /\ todo' = todo \ {s}
          /\ UNCHANGED <<refCounts, txn, unwinding, database, exited, history>>
      BY <1>6 DEF CallExec
    <2>2. /\ OneThread' /\ call' = [call EXCEPT ![c] = Checking("exec", s, 1)]
          /\ \A d \in Conn : call[d] = NoCall
          /\ ~exited
      BY <2>1, EnterOne
    <2>3. /\ Checking("exec", s, 1).op = "exec" /\ Checking("exec", s, 1).attempt = 1
          /\ Checking("exec", s, 1).arg = s
      BY DEF Checking
    <2>4. RetryEnds'
      BY <1>1, <2>2, <2>3 DEF RetryEnds
    <2>5. DurableStmts' = DurableStmts /\ \A d \in Conn : PendingStmts(d)' = PendingStmts(d)
      BY <2>1 DEF DurableStmts, PendingStmts, database
    <2>6. InTransaction' /\ PendingIsUnit'
      BY <2>1, <2>5 DEF MainInv, InTransaction, PendingIsUnit, RefCount, database, history
    <2>7. DurableEnds'
      BY <1>1, <2>1, <2>2, <2>5 DEF MainInv, DurableEnds, history
    <2>8. Places'
      BY <1>1, <2>1, <2>2, <2>3, <2>5 DEF MainInv, Places, DiscardedUndone, history
    <2>9. FirstAttempts' /\ PromisedDurable'
      BY <2>1, <2>5 DEF MainInv, FirstAttempts, PromisedDurable, database, history
    <2>10. QED
      BY <2>2, <2>4, <2>6, <2>7, <2>8, <2>9 DEF MainInv
  <1>7. QED
    BY <1>3, <1>4, <1>5, <1>6 DEF NewCall

LEMMA DestroyDisarmedMain ==
    ASSUME CountInv, MainInv, NEW t \in Txn, DestroyDisarmed(t)
    PROVE  MainInv'
  <1>1. UNCHANGED <<refCounts, call, unwinding, todo, database, exited, history>>
    BY DEF DestroyDisarmed
  <1>2. \A d \in Conn : RefCount(d)' = RefCount(d)
    BY <1>1 DEF RefCount
  <1>3. OneThread' /\ RetryEnds' /\ \A d \in Conn : server[d] = "aborted" => unwinding'[d]
    BY <1>1 DEF MainInv, OneThread, RetryEnds, InTransaction, database
  <1>4. QED
    BY <1>1, <1>2, <1>3, QuietMain DEF database, history

\* The process ends: what was pending is gone with its session.
LEMMA TerminateMain ==
    ASSUME CountInv, MainInv, Terminate
    PROVE  MainInv'
  <1>1. /\ UNCHANGED <<refCounts, txn, call, unwinding, todo, isOpen, durable, losses,
                       unit, promised, discarded>>
        /\ exited'
        /\ \A d \in Conn : server'[d] = "gone" /\ pending'[d] = {}
    BY DEF Terminate, program, history
  <1>2. DurableStmts' = DurableStmts
    BY <1>1 DEF DurableStmts
  <1>3. OneThread' /\ RetryEnds' /\ InTransaction'
    BY <1>1 DEF MainInv, OneThread, RetryEnds, InTransaction
  <1>4. PendingIsUnit' /\ FirstAttempts' /\ PromisedDurable'
    BY <1>1, <1>2 DEF MainInv, PendingIsUnit, FirstAttempts, PromisedDurable, RefCount
  <1>5. DurableEnds' /\ Places'
    BY <1>1, <1>2 DEF MainInv, DurableEnds, Places, DiscardedUndone
  <1>6. QED
    BY <1>3, <1>4, <1>5 DEF MainInv

\* The session of a connection dies with what was pending in it.
LEMMA LoseMain ==
    ASSUME CountInv, MainInv, NEW c \in Conn, Lose(c)
    PROVE  MainInv'
  <1>1. /\ UNCHANGED <<refCounts, txn, call, unwinding, todo, isOpen, durable, exited,
                       unit, promised, discarded>>
        /\ server' = [server EXCEPT ![c] = "gone"]
        /\ pending' = [pending EXCEPT ![c] = {}]
    BY DEF Lose, program, history
  <1>2. /\ \A d \in Conn \ {c} : server'[d] = server[d] /\ pending'[d] = pending[d]
        /\ server'[c] = "gone" /\ pending'[c] = {}
    BY <1>1 DEF CountInv, TypeOK, DatabaseTypes
  <1>3. DurableStmts' = DurableStmts /\ \A d \in Conn \ {c} : PendingStmts(d)' = PendingStmts(d)
    BY <1>1 DEF DurableStmts, PendingStmts
  <1>4. OneThread' /\ RetryEnds' /\ InTransaction'
    BY <1>1 DEF MainInv, OneThread, RetryEnds, InTransaction, RefCount
  <1>5. PendingIsUnit' /\ FirstAttempts' /\ PromisedDurable'
    BY <1>1, <1>2, <1>3 DEF MainInv, PendingIsUnit, FirstAttempts, PromisedDurable, RefCount
  <1>6. DurableEnds' /\ Places'
    BY <1>1, <1>3 DEF MainInv, DurableEnds, Places, DiscardedUndone
  <1>7. QED
    BY <1>4, <1>5, <1>6 DEF MainInv

\* checkDbIsAlive lets a call go on only at its first attempt, and never
\* reconnects.
LEMMA CheckMain ==
    ASSUME MainThread, CountInv, MainInv, NEW c \in Conn,
           CheckAlive(c) \/ CheckExits(c) \/ CheckReopens(c) \/ CheckGivesUp(c)
    PROVE  MainInv'
  <1>1. CASE CheckAlive(c)
    <2>1. /\ call[c] # NoCall /\ isOpen[c]
          /\ call' = [call EXCEPT ![c] = [call[c] EXCEPT !.at = "driver"]]
          /\ UNCHANGED <<refCounts, txn, unwinding, todo, database, exited, history>>
      BY <1>1 DEF CheckAlive, InCheck, ToDriver
    <2>2. call \in [Conn -> Calls \cup {NoCall}] /\ call[c] \in Calls
      BY <2>1 DEF CountInv, TypeOK, ProgramTypes
    <2>3. call[c].attempt = 1
      BY <2>1, <2>2 DEF MainInv, RetryEnds, Calls
    <2>4. /\ call'[c].op = call[c].op /\ call'[c].arg = call[c].arg /\ call'[c].attempt = 1
          /\ \A d \in Conn \ {c} : call'[d] = call[d]
      BY <2>1, <2>2, <2>3 DEF Calls
    <2>5. OneThread'
      BY <2>1, <2>2, <2>4 DEF MainInv, OneThread
    <2>6. RetryEnds'
      BY <2>1, <2>4 DEF MainInv, RetryEnds, database
    <2>7. /\ \A d \in Conn : RefCount(d)' = RefCount(d)
          /\ \A d \in Conn : server[d] = "aborted" => unwinding'[d]
      BY <2>1 DEF RefCount, MainInv, InTransaction
    <2>8. QED
      BY <2>1, <2>3, <2>4, <2>5, <2>6, <2>7, QuietMain DEF database, history
  <1>2. CASE CheckExits(c)
    BY <1>2, TerminateMain DEF CheckExits
  <1>3. ~CheckReopens(c) /\ ~CheckGivesUp(c)
    BY DEF CheckReopens, CheckGivesUp, Reconnects, MainThread
  <1>4. QED
    BY <1>1, <1>2, <1>3

-----------------------------------------------------------------------------
(* The four operations of a transaction *)

\* What a call does that returns, or turns to its retry.
LEMMA CallGoesOn ==
    ASSUME CountInv, MainInv, NEW c \in Conn, NEW op, op \notin {"none", "exec"},
           At(c, "driver", op), UNCHANGED exited
    PROVE  /\ Return(c) => /\ call' = [call EXCEPT ![c] = NoCall]
                           /\ call'[c] = NoCall /\ NoCall.op = "none"
           /\ Retry(c) => /\ call' = [call EXCEPT ![c] = Checking(op, call[c].arg, 2)]
                          /\ call'[c] # NoCall /\ call'[c].at = "check"
                          /\ call'[c].op = op /\ call'[c].attempt = 2
           /\ Return(c) \/ Retry(c) => \A d \in Conn \ {c} : call'[d] = NoCall
           /\ Return(c) => \A d \in Conn : call'[d].op # "exec"
           /\ Retry(c) => \A d \in Conn : call'[d].op # "exec"
           /\ \A d \in Conn : call[d].op = "commit" => d = c /\ call[d].attempt = 1
  <1>1. /\ call[c] \in Calls /\ call[c] # NoCall /\ call[c].attempt = 1 /\ call[c].op = op
        /\ \A d \in Conn \ {c} : call[d] = NoCall
        /\ call \in [Conn -> Calls \cup {NoCall}] /\ NoCall.op = "none"
    BY AtDriver DEF CountInv, TypeOK, ProgramTypes, NoCall
  <1>2. Return(c) => call' = [call EXCEPT ![c] = NoCall]
    BY DEF Return
  <1>3. ASSUME Retry(c)
        PROVE  /\ call' = [call EXCEPT ![c] = Checking(op, call[c].arg, 2)]
               /\ call'[c] # NoCall /\ call'[c].at = "check"
               /\ call'[c].op = op /\ call'[c].attempt = 2
    BY <1>1, <1>3 DEF Retry, Checking
  <1>4. QED
    BY <1>1, <1>2, <1>3

\* An inner object leaves sessions, database and units alone: its call
\* returns and the count stays above zero.
LEMMA InnerMain ==
    ASSUME CountInv, MainInv, NEW c \in Conn, NEW op, op \notin {"none", "exec"},
           At(c, "driver", op), Return(c),
           UNCHANGED <<database, todo, exited, unit, promised, discarded>>,
           RefCount(c) > 0, RefCount(c)' > 0,
           \A d \in Conn \ {c} : RefCount(d)' = RefCount(d),
           UNCHANGED unwinding
           \/ /\ unwinding' = [unwinding EXCEPT ![c] = @ /\ Armed(c) # {call[c].arg}]
              /\ Armed(c) # {call[c].arg}
    PROVE  MainInv'
  <1>1. unwinding \in [Conn -> BOOLEAN]
    BY DEF CountInv, TypeOK, ProgramTypes
  <1>2. \A d \in Conn : unwinding'[d] = unwinding[d]
    BY <1>1
  <1>3. /\ call' = [call EXCEPT ![c] = NoCall] /\ NoCall.op = "none" /\ call[c] # NoCall
        /\ \A d \in Conn : call'[d].op # "exec"
        /\ \A d \in Conn \ {c} : call'[d] = NoCall
        /\ call'[c] = NoCall
        /\ \A d \in Conn : call[d].op = "commit" => call[d].attempt = 1
    BY CallGoesOn, AtDriver
  <1>4. OneThread' /\ RetryEnds'
    <2>1. OneThread'
      BY <1>2, <1>3, OneThreadKept
    <2>2. RetryEnds'
      BY <1>3 DEF RetryEnds
    <2>3. QED
      BY <2>1, <2>2
  <1>5. \A d \in Conn : server[d] = "aborted" => unwinding'[d]
    BY <1>2 DEF MainInv, InTransaction
  <1>6. UNCHANGED <<server, isOpen, pending, durable>>
    BY DEF database
  <1>7. QED
    BY <1>3, <1>4, <1>5, <1>6, QuietMain

\* The outermost operations: what has to be known of the step, once its
\* command is answered.
LEMMA OuterMain ==
    ASSUME CountInv, CountInv', MainInv, NEW c \in Conn, NEW op, op \notin {"none", "exec"},
           At(c, "driver", op),
           Return(c) \/ (Retry(c) /\ ~isOpen'[c] /\ server'[c] = "gone"),
           UNCHANGED <<todo, exited>>,
           \A d \in Conn \ {c} : /\ server'[d] = server[d] /\ pending'[d] = pending[d]
                                 /\ isOpen'[d] = isOpen[d] /\ unwinding'[d] = unwinding[d]
                                 /\ unit'[d] = unit[d] /\ RefCount(d)' = RefCount(d),
           pending'[c] = {}, unwinding'[c] => unwinding[c],
           server'[c] \in {"idle", "open", "gone"},
           RefCount(c)' > 0 => server'[c] # "idle",
           RefCount(c)' = 0 => unit'[c] = {},
           server'[c] = "open" => unit'[c] = {}
    PROVE  OneThread' /\ RetryEnds' /\ InTransaction' /\ PendingIsUnit'
  <1>1. /\ \A d \in Conn \ {c} : call'[d] = NoCall
        /\ \/ call'[c] = NoCall /\ call' = [call EXCEPT ![c] = NoCall]
           \/ /\ call'[c].at = "check" /\ ~isOpen'[c]
              /\ call' = [call EXCEPT ![c] = Checking(op, call[c].arg, 2)]
        /\ call[c] # NoCall /\ NoCall.op = "none" /\ Checking(op, call[c].arg, 2).op = op
        /\ unwinding[c] => op = "destroy"
    <2>1. call[c] # NoCall /\ (unwinding[c] => op = "destroy")
      BY AtDriver
    <2>2. NoCall.op = "none" /\ Checking(op, call[c].arg, 2).op = op
      BY DEF NoCall, Checking
    <2>3. \/ call'[c] = NoCall /\ call' = [call EXCEPT ![c] = NoCall]
          \/ /\ call'[c].at = "check" /\ ~isOpen'[c]
             /\ call' = [call EXCEPT ![c] = Checking(op, call[c].arg, 2)]
      BY CallGoesOn
    <2>4. \A d \in Conn \ {c} : call'[d] = NoCall
      BY CallGoesOn
    <2>5. QED
      BY <2>1, <2>2, <2>3, <2>4
  <1>2. OneThread'
    BY <1>1, OneThreadKept
  <1>3. RetryEnds'
    BY <1>1 DEF RetryEnds
  <1>4. InTransaction'
    BY DEF MainInv, InTransaction
  <1>5. \A d \in Conn \ {c} : PendingStmts(d)' = PendingStmts(d)
    BY DEF PendingStmts
  <1>6. PendingStmts(c)' = {}
    BY DEF PendingStmts
  <1>7. PendingIsUnit'
    BY <1>5, <1>6 DEF MainInv, PendingIsUnit
  <1>8. QED
    BY <1>2, <1>3, <1>4, <1>7

LEMMA ConstructMain ==
    ASSUME CountInv, CountInv', MainInv, NEW c \in Conn, ConstructNested(c) \/ ConstructOuter(c)
    PROVE  MainInv'
  <1>1. At(c, "driver", "construct") /\ UNCHANGED <<todo, exited, history>>
    BY DEF ConstructNested, ConstructOuter
  <1>2. /\ RefCount(c) \in Nat /\ TypeOK
    BY ArmedFinite DEF CountInv, CountMatches
  <1>3. ASSUME AddRef(c, 1)
        PROVE  RefCount(c)' = RefCount(c) + 1 /\ \A d \in Conn \ {c} : RefCount(d)' = RefCount(d)
    BY <1>2, <1>3, AddRefTypes
  <1>4. CASE ConstructNested(c)
    <2>1. Return(c) /\ UNCHANGED <<unwinding, database>> /\ AddRef(c, 1) /\ RefCount(c) # 0
      BY <1>4 DEF ConstructNested, Constructed
    <2>2. QED
      BY <1>1, <1>2, <1>3, <2>1, InnerMain DEF history
  <1>5. CASE ConstructOuter(c)
    <2>1. call[c].attempt = 1 /\ ~unwinding[c]
      BY <1>1, AtDriver
    <2>2. PICK ok \in BOOLEAN :
             /\ Send(c, BeginReplies(c), ok)
             /\ \/ ok /\ AddRef(c, 1) /\ Return(c) /\ UNCHANGED unwinding
                \/ ~ok /\ Retry(c) /\ UNCHANGED <<refCounts, unwinding>>
      BY <1>5, <2>1 DEF ConstructOuter, Constructed
    <2>3. RefCount(c) = 0
      BY <1>5 DEF ConstructOuter
    <2>4. /\ durable' = durable /\ pending'[c] = {}
          /\ ok => server'[c] = "open"
          /\ ~ok => server'[c] = "gone" /\ ~isOpen'[c]
          /\ \A d \in Conn \ {c} : /\ server'[d] = server[d] /\ pending'[d] = pending[d]
                                   /\ isOpen'[d] = isOpen[d]
      BY <2>2, <2>3, BeginMain, SendMain
    <2>5. \A d \in Conn \ {c} : RefCount(d)' = RefCount(d)
      BY <1>3, <2>2 DEF RefCount
    <2>6. unit[c] = {} /\ unit' = unit
      BY <1>1, <2>3 DEF MainInv, PendingIsUnit, history
    <2>7. OneThread' /\ RetryEnds' /\ InTransaction' /\ PendingIsUnit'
      BY <1>1, <2>2, <2>4, <2>5, <2>6, OuterMain
    <2>8. DurableStmts' = DurableStmts
      BY <2>4 DEF DurableStmts
    <2>9. /\ \A d \in Conn : call'[d].op # "exec"
          /\ \A d \in Conn : unit[d] \cap DurableStmts = {}
      BY <1>1, <2>2, CallGoesOn, AtDriver
    <2>10. DurableEnds' /\ Places' /\ PromisedDurable'
      BY <1>1, <2>8, <2>9 DEF MainInv, DurableEnds, Places, DiscardedUndone, PromisedDurable,
         history
    <2>11. FirstAttempts'
      BY <2>4 DEF MainInv, FirstAttempts
    <2>12. QED
      BY <2>7, <2>10, <2>11 DEF MainInv
  <1>6. QED
    BY <1>4, <1>5

\* The outermost commit() returns with its unit in the database, or its
\* reply is lost and the unit is there or not.
LEMMA CommitOuterEffect ==
    ASSUME MainThread, CountInv, MainInv, NEW c \in Conn, CommitOuter(c)
    PROVE  /\ At(c, "driver", "commit") /\ RefCount(c) = 1 /\ ~unwinding[c]
           /\ UNCHANGED <<todo, exited, discarded, revoked, unwinding>>
           /\ \A d \in Conn \ {c} : /\ server'[d] = server[d] /\ pending'[d] = pending[d]
                                    /\ isOpen'[d] = isOpen[d]
           /\ pending'[c] = {}
           /\ durable' \in {durable, durable \cup pending[c]}
           /\ \/ /\ AddRef(c, -1) /\ Return(c) /\ server'[c] = "idle"
                 /\ DurableStmts' = DurableStmts \cup unit[c]
                 /\ promised' = promised \cup unit[c]
                 /\ unit' = [unit EXCEPT ![c] = {}]
              \/ /\ Retry(c) /\ server'[c] = "gone" /\ ~isOpen'[c]
                 /\ UNCHANGED <<refCounts, promised, unit>>
                 /\ DurableStmts' \in {DurableStmts, DurableStmts \cup unit[c]}
  <1>1. /\ At(c, "driver", "commit") /\ RefCount(c) = 1
        /\ UNCHANGED <<todo, exited, discarded, revoked>>
    BY DEF CommitOuter
  <1>2. call[c].attempt = 1 /\ ~unwinding[c]
    BY <1>1, AtDriver
  <1>3. PICK ok \in BOOLEAN :
           /\ Send(c, CommitReplies(c), ok)
           /\ \/ /\ ok /\ AddRef(c, -1) /\ Return(c) /\ UNCHANGED unwinding
                 /\ promised' = promised \cup unit[c]
                 /\ unit' = [unit EXCEPT ![c] = {}]
              \/ ~ok /\ Retry(c) /\ UNCHANGED <<refCounts, unwinding, promised, unit>>
    BY <1>2 DEF CommitOuter, Committed
  <1>4. durable' = durable => DurableStmts' = DurableStmts
    BY DEF DurableStmts
  <1>5. QED
    BY <1>1, <1>2, <1>3, <1>4, CommitMain, SendMain

LEMMA CommitMainStep ==
    ASSUME MainThread, CountInv, CountInv', MainInv, NEW c \in Conn,
           CommitInner(c) \/ CommitOuter(c)
    PROVE  MainInv'
  <1>1. TypeOK /\ CountMatches /\ unit \in [Conn -> SUBSET Stmt]
    BY DEF CountInv, TypeOK, HistoryTypes
  <1>2. CASE CommitInner(c)
    <2>1. /\ At(c, "driver", "commit") /\ Return(c) /\ AddRef(c, -1) /\ RefCount(c) # 1
          /\ UNCHANGED <<unwinding, todo, database, exited, history>>
      BY <1>2 DEF CommitInner, Committed
    <2>2. call[c].arg \in Armed(c)
      BY <2>1, EndedObject
    <2>3. /\ RefCount(c) > 1 /\ RefCount(c)' = RefCount(c) - 1 /\ RefCount(c) \in Int
          /\ \A d \in Conn \ {c} : RefCount(d)' = RefCount(d)
      BY <1>1, <2>1, <2>2, InnerLeavesArmed, AddRefTypes
    <2>4. QED
      BY <2>1, <2>3, InnerMain DEF history
  <1>3. CASE CommitOuter(c)
    <2>1. At(c, "driver", "commit") /\ RefCount(c) = 1 /\ UNCHANGED <<todo, exited, unwinding>>
      BY <1>3, CommitOuterEffect
    <2>2. /\ AddRef(c, -1) => RefCount(c)' = 0
          /\ AddRef(c, -1) => \A d \in Conn \ {c} : RefCount(d)' = RefCount(d)
          /\ UNCHANGED refCounts => \A d \in Conn : RefCount(d)' = RefCount(d)
      BY <1>1, <2>1, AddRefTypes DEF RefCount
    <2>3. OneThread' /\ RetryEnds' /\ InTransaction' /\ PendingIsUnit'
      BY <1>1, <1>3, <2>2, CommitOuterEffect, OuterMain
    <2>4. /\ \A d \in Conn : unit[d] \cap DurableStmts = {}
          /\ \A d \in Conn : call'[d].op # "exec"
          /\ Retry(c) => call'[c].op = "commit" /\ call'[c].attempt = 2
      BY <1>3, CommitOuterEffect, AtDriver, CallGoesOn
    <2>5. DurableStmts' \in {DurableStmts, DurableStmts \cup unit[c]} /\ discarded' = discarded
          /\ todo' = todo
          /\ \/ /\ DurableStmts' = DurableStmts \cup unit[c]
                /\ promised' = promised \cup unit[c]
                /\ unit' = [unit EXCEPT ![c] = {}]
             \/ promised' = promised /\ unit' = unit /\ Retry(c)
      BY <1>3, CommitOuterEffect
    <2>6. DurableEnds'
      BY <1>1, <2>4, <2>5 DEF MainInv, DurableEnds, Places
    <2>7. Places'
      BY <1>1, <2>4, <2>5 DEF MainInv, Places, DiscardedUndone
    <2>8. PromisedDurable'
      BY <2>5 DEF MainInv, PromisedDurable
    <2>9. FirstAttempts'
      BY <1>3, CommitOuterEffect DEF MainInv, FirstAttempts
    <2>10. QED
      BY <2>3, <2>6, <2>7, <2>8, <2>9 DEF MainInv
  <1>4. QED
    BY <1>2, <1>3

\* The end of the outermost object takes its unit with it; the command
\* leaves nothing pending, whether it is answered or not.
LEMMA RevokedMain ==
    ASSUME CountInv, CountInv', MainInv, NEW c \in Conn, NEW op \in {"rollback", "destroy"},
           At(c, "driver", op), RefCount(c) = 1, AddRef(c, -1), Revoke(c),
           NEW ok \in BOOLEAN, Send(c, RollbackReplies(c), ok),
           Return(c) \/ (~ok /\ Retry(c)),
           \A d \in Conn \ {c} : unwinding'[d] = unwinding[d],
           unwinding'[c] => unwinding[c],
           UNCHANGED <<todo, exited>>
    PROVE  MainInv'
  <1>1. /\ durable' = durable /\ pending'[c] = {}
        /\ server'[c] \in {"idle", "gone"}
        /\ ~ok => server'[c] = "gone" /\ ~isOpen'[c]
        /\ \A d \in Conn \ {c} : /\ server'[d] = server[d] /\ pending'[d] = pending[d]
                                 /\ isOpen'[d] = isOpen[d]
    BY RollbackMain, SendMain
  <1>2. RefCount(c)' = 0 /\ \A d \in Conn \ {c} : RefCount(d)' = RefCount(d)
    BY AddRefTypes DEF CountInv
  <1>3. /\ unit' = [unit EXCEPT ![c] = {}] /\ discarded' = discarded \cup unit[c]
        /\ promised' = promised
    BY DEF Revoke
  <1>4. unit'[c] = {} /\ \A d \in Conn \ {c} : unit'[d] = unit[d]
    BY <1>3 DEF CountInv, TypeOK, HistoryTypes
  <1>5. OneThread' /\ RetryEnds' /\ InTransaction' /\ PendingIsUnit'
    BY <1>1, <1>2, <1>4, OuterMain
  <1>6. DurableStmts' = DurableStmts
    BY <1>1 DEF DurableStmts
  <1>7. /\ \A d \in Conn : unit[d] \cap DurableStmts = {}
        /\ \A d \in Conn : call'[d].op # "exec"
    BY AtDriver, CallGoesOn
  <1>8. DurableEnds' /\ Places'
    BY <1>3, <1>4, <1>6, <1>7 DEF MainInv, DurableEnds, Places, DiscardedUndone
  <1>9. FirstAttempts' /\ PromisedDurable'
    BY <1>1, <1>3, <1>6 DEF MainInv, FirstAttempts, PromisedDurable
  <1>10. QED
    BY <1>5, <1>8, <1>9 DEF MainInv

\* The end of an inner object leaves the unit under way as it is.
LEMMA RevokedInner ==
    ASSUME CountInv, MainInv, NEW c \in Conn, NEW op \in {"rollback", "destroy"},
           At(c, "driver", op), call[c].arg \in Armed(c),
           RefCount(c) # 1, AddRef(c, -1), Revoke(c), Return(c),
           UNCHANGED unwinding
           \/ unwinding' = [unwinding EXCEPT ![c] = @ /\ Armed(c) # {call[c].arg}],
           UNCHANGED <<todo, database, exited>>
    PROVE  MainInv'
  <1>1. RefCount(c) > 1 /\ Armed(c) # {call[c].arg}
    BY InnerLeavesArmed DEF CountInv
  <1>2. /\ RefCount(c) \in Int /\ RefCount(c)' = RefCount(c) - 1
        /\ \A d \in Conn \ {c} : RefCount(d)' = RefCount(d)
    BY AddRefTypes DEF CountInv
  <1>3. UNCHANGED <<unit, promised, discarded>>
    BY DEF Revoke
  <1>4. QED
    BY <1>1, <1>2, <1>3, InnerMain

LEMMA RollbackMainStep ==
    ASSUME CountInv, CountInv', MainInv, NEW c \in Conn,
           RollbackInner(c) \/ RollbackOuter(c) \/ RollbackAgain(c)
    PROVE  MainInv'
  <1>1. CASE RollbackInner(c)
    <2>1. call[c].arg \in Armed(c)
      BY <1>1, EndedObject DEF RollbackInner
    <2>2. QED
      BY <1>1, <2>1, RevokedInner DEF RollbackInner
  <1>2. CASE RollbackOuter(c)
    BY <1>2, RevokedMain DEF RollbackOuter
  <1>3. ~RollbackAgain(c)
    BY AtDriver DEF RollbackAgain
  <1>4. QED
    BY <1>1, <1>2, <1>3

LEMMA DestroyMain ==
    ASSUME CountInv, CountInv', MainInv, NEW c \in Conn, DestroyInner(c) \/ DestroyOuter(c)
    PROVE  MainInv'
  <1>1. /\ At(c, "driver", "destroy") /\ AddRef(c, -1) /\ Revoke(c) /\ Return(c)
        /\ unwinding' = [unwinding EXCEPT ![c] = @ /\ Armed(c) # {call[c].arg}]
        /\ UNCHANGED <<todo, exited>>
    BY DEF DestroyInner, DestroyOuter, Destroyed
  <1>2. CASE DestroyInner(c)
    <2>1. call[c].arg \in Armed(c)
      BY <1>1, EndedObject
    <2>2. QED
      BY <1>1, <1>2, <2>1, RevokedInner DEF DestroyInner
  <1>3. CASE DestroyOuter(c)
    <2>1. PICK ok \in BOOLEAN : Send(c, RollbackReplies(c), ok)
      BY <1>3 DEF DestroyOuter
    <2>2. /\ \A d \in Conn \ {c} : unwinding'[d] = unwinding[d]
          /\ unwinding'[c] => unwinding[c]
      BY <1>1 DEF CountInv, TypeOK, ProgramTypes
    <2>3. RefCount(c) = 1
      BY <1>3 DEF DestroyOuter
    <2>4. QED
      BY <1>1, <2>1, <2>2, <2>3, RevokedMain
  <1>4. QED
    BY <1>2, <1>3

-----------------------------------------------------------------------------
(* SqlQuery::exec *)

\* A statement of a transaction joins the unit or leaves everything alone;
\* outside of one it reaches the database or leaves everything alone.
LEMMA ExecEffect ==
    ASSUME MainThread, CountInv, MainInv, NEW c \in Conn, Exec(c)
    PROVE  LET s == call[c].arg IN
           /\ At(c, "driver", "exec") /\ s \in Stmt
           /\ UNCHANGED <<refCounts, todo, exited, promised, discarded, revoked>>
           /\ \A d \in Conn \ {c} : /\ server'[d] = server[d] /\ pending'[d] = pending[d]
                                    /\ isOpen'[d] = isOpen[d] /\ unwinding'[d] = unwinding[d]
           /\ Return(c) \/ (Retry(c) /\ ~isOpen'[c])
           /\ \/ /\ RefCount(c) > 0 /\ durable' = durable /\ Return(c)
                 /\ server'[c] = "open" /\ server[c] = "open"
                 /\ pending'[c] = pending[c] \cup {<<s, 1>>}
                 /\ unit' = [unit EXCEPT ![c] = @ \cup {s}]
                 /\ ~unwinding'[c]
              \/ /\ RefCount(c) > 0 /\ durable' = durable
                 /\ server'[c] \in {"aborted", "gone"} /\ pending'[c] = {} /\ unit' = unit
                 /\ server'[c] = "aborted" => unwinding'[c]
                 /\ unwinding'[c] => Return(c)
              \/ /\ RefCount(c) = 0 /\ durable' \in {durable, durable \cup {<<s, 1>>}}
                 /\ server'[c] \in {"idle", "gone"} /\ pending'[c] = {} /\ unit' = unit
                 /\ unwinding'[c] => Return(c)
  <1> DEFINE s == call[c].arg
  <1>1. /\ At(c, "driver", "exec") /\ call[c].attempt = 1 /\ call[c] \in Calls
        /\ ~unwinding[c]
        /\ UNCHANGED <<refCounts, todo, exited, promised, discarded, revoked>>
    BY AtDriver DEF Exec
  <1>2. s \in Stmt
    BY <1>1 DEF At, Calls, TxnOps
  <1>3. unwinding \in [Conn -> BOOLEAN] /\ RefCount(c) \in Nat /\ Catches = {FALSE}
    BY ArmedFinite DEF CountInv, TypeOK, ProgramTypes, CountMatches, MainThread
  <1>4. ASSUME Throw(c)
        PROVE  /\ Return(c) /\ \A d \in Conn \ {c} : unwinding'[d] = unwinding[d]
               /\ RefCount(c) > 0 => unwinding'[c]
    <2>1. RefCount(c) > 0 => Armed(c) # {}
      BY FS_EmptySet DEF CountInv, CountMatches
    <2>2. QED
      BY <1>3, <1>4, <2>1 DEF Throw
  <1>5. PICK ok \in BOOLEAN :
           /\ Send(c, StmtReplies(c, <<s, 1>>), ok)
           /\ \/ /\ ok /\ Return(c) /\ UNCHANGED unwinding
                 /\ unit' = [unit EXCEPT ![c] = IF RefCount(c) > 0 THEN @ \cup {s} ELSE @]
              \/ ~ok /\ ~isOpen'[c] /\ Retry(c) /\ UNCHANGED <<unit, unwinding>>
              \/ ~ok /\ isOpen'[c] /\ Throw(c) /\ UNCHANGED unit
    BY <1>1 DEF Exec
  <1>6. /\ RefCount(c) > 0 =>
              /\ durable' = durable
              /\ ok => server'[c] = "open" /\ pending'[c] = pending[c] \cup {<<s, 1>>}
                       /\ server[c] = "open"
              /\ ~ok => /\ pending'[c] = {}
                        /\ IF isOpen'[c] THEN server'[c] = "aborted" ELSE server'[c] = "gone"
        /\ RefCount(c) = 0 =>
              /\ pending'[c] = {}
              /\ server'[c] = (IF isOpen'[c] THEN "idle" ELSE "gone")
              /\ durable' \in {durable, durable \cup {<<s, 1>>}}
        /\ \A d \in Conn \ {c} : /\ server'[d] = server[d] /\ pending'[d] = pending[d]
                                 /\ isOpen'[d] = isOpen[d]
    BY <1>1, <1>2, <1>5, StmtMain, SendMain
  <1>7. CASE RefCount(c) > 0
    BY <1>1, <1>2, <1>4, <1>5, <1>6, <1>7
  <1>8. CASE RefCount(c) = 0
    <2>1. unit' = unit
      BY <1>5, <1>8 DEF CountInv, TypeOK, HistoryTypes
    <2>2. QED
      BY <1>1, <1>2, <1>3, <1>4, <1>5, <1>6, <2>1
  <1>9. QED
    BY <1>3, <1>7, <1>8

LEMMA ExecMain ==
    ASSUME MainThread, CountInv, CountInv', MainInv, NEW c \in Conn, Exec(c)
    PROVE  MainInv'
  <1> DEFINE s == call[c].arg
  <1>1. /\ At(c, "driver", "exec") /\ s \in Stmt
        /\ UNCHANGED <<refCounts, todo, exited, promised, discarded, revoked>>
        /\ \A d \in Conn \ {c} : /\ server'[d] = server[d] /\ pending'[d] = pending[d]
                                 /\ isOpen'[d] = isOpen[d] /\ unwinding'[d] = unwinding[d]
        /\ Return(c) \/ (Retry(c) /\ ~isOpen'[c])
    BY ExecEffect
  <1>2. /\ call[c].attempt = 1 /\ call[c].op = "exec" /\ call[c] # NoCall /\ ~exited
        /\ \A d \in Conn \ {c} : call[d] = NoCall
        /\ \A d \in Conn : unit[d] \cap DurableStmts = {}
    BY <1>1, AtDriver
  <1>3. /\ call \in [Conn -> Calls \cup {NoCall}] /\ unit \in [Conn -> SUBSET Stmt]
        /\ NoCall.op = "none" /\ Checking("exec", s, 2).op = "exec"
        /\ Checking("exec", s, 2).arg = s /\ Checking("exec", s, 2).attempt = 2
        /\ Checking("exec", s, 2).at = "check"
    BY DEF CountInv, TypeOK, ProgramTypes, HistoryTypes, NoCall, Checking
  <1>4. \/ call' = [call EXCEPT ![c] = NoCall] /\ Return(c)
        \/ call' = [call EXCEPT ![c] = Checking("exec", s, 2)] /\ ~isOpen'[c]
    BY <1>1, <1>2 DEF Return, Retry
  <1>5. /\ \A d \in Conn \ {c} : call'[d] = NoCall
        /\ \/ call'[c] = NoCall
           \/ /\ call'[c].op = "exec" /\ call'[c].arg = s /\ call'[c].attempt = 2
              /\ call'[c].at = "check" /\ ~isOpen'[c]
    BY <1>2, <1>3, <1>4
  <1>6. RetryEnds'
    BY <1>5 DEF RetryEnds
  <1>7. \A d \in Conn : RefCount(d)' = RefCount(d)
    BY <1>1 DEF RefCount
  <1>8. /\ s \notin todo \cup discarded \cup DurableStmts
        /\ \A d \in Conn : s \notin unit[d]
    BY <1>2 DEF MainInv, Places
  <1>9. \A d \in Conn \ {c} : PendingStmts(d)' = PendingStmts(d)
    BY <1>1 DEF PendingStmts
  <1>10. durable' = durable => DurableStmts' = DurableStmts
    BY DEF DurableStmts
  <1>11. unwinding'[c] => call'[c] = NoCall
    <2>1. unwinding'[c] => Return(c)
      BY ExecEffect
    <2>2. QED
      BY <1>3, <2>1 DEF Return
  <1>12. OneThread'
    BY <1>3, <1>5, <1>11 DEF OneThread
  <1>13. CASE /\ RefCount(c) > 0 /\ durable' = durable
              /\ server'[c] = "open" /\ server[c] = "open"
              /\ pending'[c] = pending[c] \cup {<<s, 1>>}
              /\ unit' = [unit EXCEPT ![c] = @ \cup {s}]
              /\ Return(c)
    <2>1. unit'[c] = unit[c] \cup {s} /\ \A d \in Conn \ {c} : unit'[d] = unit[d]
      BY <1>3, <1>13
    <2>2. PendingStmts(c)' = PendingStmts(c) \cup {s}
      BY <1>13, OneMoreStmt DEF PendingStmts
    <2>3. \A d \in Conn : call'[d].op # "exec"
      BY <1>3, <1>5, <1>13 DEF Return
    <2>4. InTransaction' /\ PendingIsUnit'
      <3>1. InTransaction'
        BY <1>1, <1>7, <1>13 DEF MainInv, InTransaction
      <3>2. PendingStmts(c)' = unit'[c]
        BY <1>13, <2>1, <2>2 DEF MainInv, PendingIsUnit
      <3>3. PendingIsUnit'
        BY <1>1, <1>7, <1>9, <1>13, <3>2 DEF MainInv, PendingIsUnit
      <3>4. QED
        BY <3>1, <3>3
    <2>5. DurableEnds'
      BY <1>2, <1>8, <1>10, <1>13 DEF DurableEnds
    <2>6. Places'
      BY <1>1, <1>8, <1>10, <1>13, <2>3 DEF MainInv, Places, DiscardedUndone
    <2>7. FirstAttempts' /\ PromisedDurable'
      BY <1>1, <1>10, <1>13 DEF MainInv, FirstAttempts, PromisedDurable
    <2>8. QED
      BY <1>6, <1>12, <2>4, <2>5, <2>6, <2>7 DEF MainInv
  <1>14. CASE /\ RefCount(c) > 0 /\ durable' = durable
              /\ server'[c] \in {"aborted", "gone"} /\ pending'[c] = {} /\ unit' = unit
              /\ server'[c] = "aborted" => unwinding'[c]
    <2>1. InTransaction' /\ PendingIsUnit'
      BY <1>1, <1>7, <1>9, <1>14 DEF MainInv, InTransaction, PendingIsUnit
    <2>2. DurableEnds'
      BY <1>2, <1>10, <1>14 DEF DurableEnds
    <2>3. Places'
      BY <1>1, <1>3, <1>5, <1>8, <1>10, <1>14 DEF MainInv, Places, DiscardedUndone
    <2>4. FirstAttempts' /\ PromisedDurable'
      BY <1>1, <1>10, <1>14 DEF MainInv, FirstAttempts, PromisedDurable
    <2>5. QED
      BY <1>6, <1>12, <2>1, <2>2, <2>3, <2>4 DEF MainInv
  <1>15. CASE /\ RefCount(c) = 0 /\ durable' \in {durable, durable \cup {<<s, 1>>}}
              /\ server'[c] \in {"idle", "gone"} /\ pending'[c] = {} /\ unit' = unit
    <2>1. DurableStmts' \in {DurableStmts, DurableStmts \cup {s}}
      BY <1>15 DEF DurableStmts
    <2>2. InTransaction' /\ PendingIsUnit'
      BY <1>1, <1>7, <1>9, <1>15 DEF MainInv, InTransaction, PendingIsUnit
    <2>3. DurableEnds'
      BY <1>2, <1>8, <1>15, <2>1 DEF DurableEnds
    <2>4. Places'
      BY <1>1, <1>3, <1>5, <1>8, <1>15, <2>1 DEF MainInv, Places, DiscardedUndone
    <2>5. FirstAttempts' /\ PromisedDurable'
      BY <1>1, <1>15, <2>1 DEF MainInv, FirstAttempts, PromisedDurable
    <2>6. QED
      BY <1>6, <1>12, <2>2, <2>3, <2>4, <2>5 DEF MainInv
  <1>16. QED
    BY <1>13, <1>14, <1>15, ExecEffect

-----------------------------------------------------------------------------
(* The invariant *)

LEMMA MainInvInit == Init => MainInv
  <1> SUFFICES ASSUME Init PROVE MainInv
    OBVIOUS
  <1>1. DurableStmts = {} /\ NoCall.op = "none"
    BY DEF Init, DurableStmts, NoCall
  <1>2. OneThread /\ RetryEnds /\ DurableEnds
    BY DEF Init, OneThread, RetryEnds, DurableEnds
  <1>3. \A c \in Conn : RefCount(c) = 0
    <2>1. DOMAIN refCounts = {}
      BY DEF Init
    <2>2. QED
      BY <2>1 DEF RefCount
  <1>4. InTransaction /\ PendingIsUnit
    BY <1>3 DEF Init, InTransaction, PendingIsUnit
  <1>5. Places /\ FirstAttempts /\ PromisedDurable
    BY <1>1 DEF Init, Places, DiscardedUndone, FirstAttempts, PromisedDurable
  <1>6. QED
    BY <1>2, <1>4, <1>5 DEF MainInv

LEMMA MainInvNext == MainThread /\ CountInv /\ MainInv /\ [Next]_vars => MainInv'
  <1> SUFFICES ASSUME MainThread, CountInv, MainInv, [Next]_vars PROVE MainInv'
    OBVIOUS
  <1>1. CountInv'
    BY CountInvNext
  <1>2. ASSUME NEW c \in Conn, Step(c) PROVE MainInv'
    BY <1>1, <1>2, CheckMain, ConstructMain, CommitMainStep, RollbackMainStep, DestroyMain, ExecMain
       DEF Step
  <1>3. ASSUME NEW c \in Conn, NewCall(c) PROVE MainInv'
    BY <1>3, EnterMain
  <1>4. ASSUME NEW c \in Conn, Lose(c) PROVE MainInv'
    BY <1>4, LoseMain
  <1>5. ASSUME NEW t \in Txn, DestroyDisarmed(t) PROVE MainInv'
    BY <1>5, DestroyDisarmedMain
  <1>6. CASE Crash
    BY <1>6, TerminateMain DEF Crash
  <1>7. CASE UNCHANGED vars
    <2>1. DurableStmts' = DurableStmts /\ \A d \in Conn : PendingStmts(d)' = PendingStmts(d)
      BY <1>7 DEF DurableStmts, PendingStmts, vars, database
    <2>2. QED
      BY <1>7, <2>1 DEF vars, program, database, history, MainInv, OneThread, RetryEnds,
         InTransaction, PendingIsUnit, DurableEnds, Places, DiscardedUndone, FirstAttempts,
         PromisedDurable, RefCount
  <1>8. QED
    BY <1>2, <1>3, <1>4, <1>5, <1>6, <1>7 DEF Next, Ended

-----------------------------------------------------------------------------
(* Every step is one of AtomicUnits *)

\* Which changes the data, the units and what the program was told.
LEMMA QuietUnits ==
    ASSUME UNCHANGED <<durable, unit, promised, discarded>>
    PROVE  UNCHANGED Abstract!vars
  BY DEF Abstract!vars, DurableStmts

\* commit() of the last object is the commit of its unit, acknowledged or
\* not.
LEMMA CommitOuterUnits ==
    ASSUME MainThread, CountInv, MainInv, NEW c \in Conn, CommitOuter(c)
    PROVE  [Abstract!Next]_(Abstract!vars)
  <1>1. /\ discarded' = discarded
        /\ \/ /\ DurableStmts' = DurableStmts \cup unit[c]
              /\ promised' = promised \cup unit[c]
              /\ unit' = [unit EXCEPT ![c] = {}]
           \/ /\ promised' = promised /\ unit' = unit
              /\ DurableStmts' \in {DurableStmts, DurableStmts \cup unit[c]}
    BY CommitOuterEffect
  <1>2. Abstract!CommitAcknowledged(c) \/ Abstract!Commit(c) \/ UNCHANGED Abstract!vars
    BY <1>1 DEF Abstract!CommitAcknowledged, Abstract!Commit, Abstract!vars
  <1>3. QED
    BY <1>2 DEF Abstract!Next

\* rollback() or the destructor of the last object discards its unit; that
\* of an inner one leaves the unit under way.
LEMMA RevokeUnits ==
    ASSUME CountInv, MainInv, NEW c \in Conn, NEW op \in {"rollback", "destroy"},
           At(c, "driver", op), Revoke(c), UNCHANGED durable
    PROVE  [Abstract!Next]_(Abstract!vars)
  <1>1. unit[c] \cap DurableStmts = {}
    BY AtDriver
  <1>2. DurableStmts' = DurableStmts /\ promised' = promised
    BY DEF DurableStmts, Revoke
  <1>3. Abstract!RollbackAcknowledged(c) \/ UNCHANGED Abstract!vars
    BY <1>1, <1>2 DEF Revoke, Abstract!RollbackAcknowledged, Abstract!vars
  <1>4. QED
    BY <1>3 DEF Abstract!Next

\* A statement joins the unit of its connection, or takes effect at once.
LEMMA ExecUnits ==
    ASSUME MainThread, CountInv, MainInv, NEW c \in Conn, Exec(c)
    PROVE  [Abstract!Next]_(Abstract!vars)
  <1> DEFINE s == call[c].arg
  <1>1. At(c, "driver", "exec") /\ s \in Stmt /\ promised' = promised /\ discarded' = discarded
    BY ExecEffect
  <1>2. Abstract!Fresh(s)
    <2>1. call[c].attempt = 1 /\ call[c].op = "exec"
      BY <1>1, AtDriver
    <2>2. QED
      BY <2>1 DEF MainInv, Places, Abstract!Fresh
  <1>3. \/ durable' = durable /\ unit' = [unit EXCEPT ![c] = @ \cup {s}]
        \/ unit' = unit /\ durable' \in {durable, durable \cup {<<s, 1>>}}
    BY ExecEffect
  <1>4. /\ durable' = durable => DurableStmts' = DurableStmts
        /\ durable' = durable \cup {<<s, 1>>} => DurableStmts' = DurableStmts \cup {s}
    BY OneMoreStmt DEF DurableStmts
  <1>5. Abstract!Add(c, s) \/ Abstract!Autocommit(s) \/ UNCHANGED Abstract!vars
    BY <1>1, <1>2, <1>3, <1>4 DEF Abstract!Add, Abstract!Autocommit, Abstract!vars
  <1>6. QED
    BY <1>1, <1>5 DEF Abstract!Next

LEMMA StepUnits ==
    ASSUME MainThread, CountInv, MainInv, NEW c \in Conn, Step(c)
    PROVE  [Abstract!Next]_(Abstract!vars)
  <1>1. CASE CheckAlive(c) \/ CheckExits(c) \/ CheckReopens(c) \/ CheckGivesUp(c)
    BY <1>1, QuietUnits DEF CheckAlive, CheckExits, CheckReopens, CheckGivesUp, Terminate, database,
       history
  <1>2. CASE ConstructNested(c)
    BY <1>2, QuietUnits DEF ConstructNested, database, history
  <1>3. CASE ConstructOuter(c)
    <2>1. durable' = durable /\ UNCHANGED history
      BY <1>3, BeginMain DEF ConstructOuter
    <2>2. QED
      BY <2>1, QuietUnits DEF history
  <1>4. CASE CommitInner(c)
    BY <1>4, QuietUnits DEF CommitInner, database, history
  <1>5. CASE CommitOuter(c)
    BY <1>5, CommitOuterUnits
  <1>6. CASE RollbackInner(c)
    BY <1>6, RevokeUnits DEF RollbackInner, database
  <1>7. CASE RollbackOuter(c)
    <2>1. durable' = durable
      BY <1>7, RollbackMain DEF RollbackOuter
    <2>2. QED
      BY <1>7, <2>1, RevokeUnits DEF RollbackOuter
  <1>8. ~RollbackAgain(c)
    BY AtDriver DEF RollbackAgain
  <1>9. CASE DestroyInner(c)
    BY <1>9, RevokeUnits DEF DestroyInner, Destroyed, database
  <1>10. CASE DestroyOuter(c)
    <2>1. durable' = durable
      BY <1>10, RollbackMain DEF DestroyOuter
    <2>2. QED
      BY <1>10, <2>1, RevokeUnits DEF DestroyOuter, Destroyed
  <1>11. CASE Exec(c)
    BY <1>11, ExecUnits
  <1>12. QED
    BY <1>1, <1>2, <1>3, <1>4, <1>5, <1>6, <1>7, <1>8, <1>9, <1>10, <1>11 DEF Step

LEMMA NextUnits ==
    MainThread /\ CountInv /\ MainInv /\ [Next]_vars => [Abstract!Next]_(Abstract!vars)
  <1> SUFFICES ASSUME MainThread, CountInv, MainInv, [Next]_vars
               PROVE  [Abstract!Next]_(Abstract!vars)
    OBVIOUS
  <1>1. ASSUME NEW c \in Conn, Step(c) PROVE [Abstract!Next]_(Abstract!vars)
    BY <1>1, StepUnits
  <1>2. ASSUME NEW c \in Conn, NewCall(c) \/ Lose(c) PROVE UNCHANGED Abstract!vars
    BY <1>2, QuietUnits DEF NewCall, CallConstruct, CallDestroy, CallEnd, CallExec, Lose, database,
       history
  <1>3. ASSUME NEW t \in Txn, DestroyDisarmed(t) PROVE UNCHANGED Abstract!vars
    BY <1>3, QuietUnits DEF DestroyDisarmed, database, history
  <1>4. CASE Crash \/ UNCHANGED vars
    BY <1>4, QuietUnits DEF Crash, Terminate, vars, database, history
  <1>5. QED
    BY <1>1, <1>2, <1>3, <1>4 DEF Next, Ended

\* Only the COMMIT of the last object and a statement outside of every
\* transaction reach the database.
LEMMA NextOutermost ==
    ASSUME MainThread, CountInv, MainInv, [Next]_vars, durable' # durable
    PROVE  \E c \in Conn : \/ call[c].op = "commit" /\ RefCount(c) = 1
                           \/ call[c].op = "exec" /\ RefCount(c) = 0
  <1>1. ASSUME NEW c \in Conn, Step(c)
        PROVE  CommitOuter(c) \/ Exec(c)
    <2>1. ~(CheckAlive(c) \/ CheckExits(c) \/ CheckReopens(c) \/ CheckGivesUp(c))
      BY DEF CheckAlive, CheckExits, CheckReopens, CheckGivesUp, Terminate, database
    <2>2. ~(ConstructNested(c) \/ CommitInner(c) \/ RollbackInner(c) \/ DestroyInner(c))
      BY DEF ConstructNested, CommitInner, RollbackInner, DestroyInner, database
    <2>3. ~ConstructOuter(c)
      BY BeginMain DEF ConstructOuter
    <2>4. ~(RollbackOuter(c) \/ RollbackAgain(c) \/ DestroyOuter(c))
      BY RollbackMain DEF RollbackOuter, RollbackAgain, DestroyOuter
    <2>5. QED
      BY <1>1, <2>1, <2>2, <2>3, <2>4 DEF Step
  <1>2. ASSUME NEW c \in Conn, CommitOuter(c)
        PROVE  call[c].op = "commit" /\ RefCount(c) = 1
    BY <1>2 DEF CommitOuter, At
  <1>3. ASSUME NEW c \in Conn, Exec(c)
        PROVE  call[c].op = "exec" /\ RefCount(c) = 0
    BY <1>3, ExecEffect DEF At
  <1>4. \A c \in Conn : ~NewCall(c) /\ ~Lose(c)
    BY DEF NewCall, CallConstruct, CallDestroy, CallEnd, CallExec, Lose, database
  <1>5. ~(UNCHANGED vars) /\ ~Crash /\ \A t \in Txn : ~DestroyDisarmed(t)
    BY DEF vars, Crash, Terminate, DestroyDisarmed, database
  <1>6. QED
    BY <1>1, <1>2, <1>3, <1>4, <1>5 DEF Next, Ended

-----------------------------------------------------------------------------
(* The theorems *)

LEMMA MainInvariant ==
    ASSUME MainThread
    PROVE  Spec => [](CountInv /\ MainInv)
  <1>1. Init => CountInv /\ MainInv
    BY CountInvInit, MainInvInit
  <1>2. CountInv /\ MainInv /\ [Next]_vars => (CountInv /\ MainInv)'
    BY CountInvNext, MainInvNext
  <1>3. QED
    BY <1>1, <1>2, PTL DEF Spec

\* When the outermost commit() has returned, its unit is in the database,
\* whatever is lost afterwards.
THEOREM CommitsAreDurable ==
    ASSUME MainThread
    PROVE  Spec => []PromisedDurable
  <1>1. MainInv => PromisedDurable
    BY DEF MainInv
  <1>2. QED
    BY <1>1, MainInvariant, PTL

\* When the outermost object was rolled back, nothing of its unit is in the
\* database.
THEOREM RollbacksAreComplete ==
    ASSUME MainThread
    PROVE  Spec => []DiscardedUndone
  <1>1. MainInv => DiscardedUndone
    BY DEF MainInv, Places
  <1>2. QED
    BY <1>1, MainInvariant, PTL

\* The database never holds a part of a unit under way, whenever the
\* session or the process dies.
THEOREM UnitsAreAtomic ==
    ASSUME MainThread
    PROVE  Spec => []UnitAtomic
  <1>1. MainInv => UnitAtomic
    BY DEF MainInv, DurableEnds, UnitAtomic
  <1>2. QED
    BY <1>1, MainInvariant, PTL

\* A statement whose reply was lost is not executed again.
THEOREM NothingTwice ==
    ASSUME MainThread
    PROVE  Spec => []AtMostOnce
  <1>1. MainInv => AtMostOnce
    BY DEF MainInv, FirstAttempts, AtMostOnce
  <1>2. QED
    BY <1>1, MainInvariant, PTL

\* An inner commit(), a rollback, a check or a constructor makes nothing
\* durable.
THEOREM OutermostOnly ==
    ASSUME MainThread
    PROVE  Spec => OnlyOutermostCommits
  <1>1. CountInv /\ MainInv /\ [Next]_vars =>
            [durable' # durable =>
                \E c \in Conn : \/ call[c].op = "commit" /\ RefCount(c) = 1
                                \/ call[c].op = "exec" /\ RefCount(c) = 0]_vars
    BY NextOutermost
  <1>2. QED
    BY <1>1, MainInvariant, PTL DEF Spec, OnlyOutermostCommits

\* SqlTransaction keeps the promise of AtomicUnits.
THEOREM Implementation ==
    ASSUME MainThread
    PROVE  Spec => UnitsImplemented
  <1>1. Init => Abstract!Init
    BY DEF Init, Abstract!Init, DurableStmts
  <1>2. CountInv /\ MainInv /\ [Next]_vars => [Abstract!Next]_(Abstract!vars)
    BY NextUnits
  <1>3. QED
    BY <1>1, <1>2, MainInvariant, PTL DEF Spec, UnitsImplemented, Abstract!Spec
=============================================================================
