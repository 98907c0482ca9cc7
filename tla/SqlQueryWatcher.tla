---------------------------- MODULE SqlQueryWatcher ----------------------------
(***************************************************************************)
(* SqlQueryWatcherHelper and KDThreadRunner, as SqlQuery uses them when    *)
(* the network watcher is built in: every query that is executed has a     *)
(* thread of its own beside it, with a helper that shows a dialog, the     *)
(* window of another process, when the query takes too long.  One mutex    *)
(* and one flag keep the helpers of all threads to a single dialog.        *)
(***************************************************************************)
EXTENDS Integers, FiniteSets

CONSTANTS
    Thread,     \* threads that execute queries
    None,       \* no owner
    MaxFailures, \* bound on the dialogs whose process fails to start
    MaxCalls    \* bound on the queries of each thread

ASSUME NoneAssumption == None \notin Thread
ASSUME BoundsAssumption == MaxFailures \in Nat /\ MaxCalls \in Nat

VARIABLES
    caller,     \* the thread: "idle", "starting", "query" or "waiting"
    runner,     \* the thread of its watcher
    started,    \* m_waitStarted
    impl,       \* m_impl is set
    timer,      \* the timer of the helper runs
    posted,     \* quit() is in the event queue of the helper
    process,    \* m_process: "none", "running", "ended" (unnoticed), "over", "failed"
    mutex,      \* its owner
    visible,    \* s_dialogVisible
    calls,      \* number of queries begun
    failures    \* number of dialogs whose process failed to start

helper == <<timer, posted, process>>
shared == <<mutex, visible, failures>>
vars == <<caller, runner, started, impl, helper, shared, calls>>

RunnerStates == {"none", "constructing", "constructed", "loop", "expired", "launching",
                 "destroying"}

Init ==
    /\ caller = [t \in Thread |-> "idle"]
    /\ runner = [t \in Thread |-> "none"]
    /\ started = [t \in Thread |-> 0]
    /\ impl = [t \in Thread |-> FALSE]
    /\ timer = [t \in Thread |-> FALSE]
    /\ posted = [t \in Thread |-> FALSE]
    /\ process = [t \in Thread |-> "none"]
    /\ mutex = None /\ visible = FALSE /\ failures = 0
    /\ calls = [t \in Thread |-> 0]

Calls(t, from, to) == caller[t] = from /\ caller' = [caller EXCEPT ![t] = to]
Runs(t, from, to) == runner[t] = from /\ runner' = [runner EXCEPT ![t] = to]

-----------------------------------------------------------------------------
(* The thread of the query *)

\* startThread() starts the runner and waits for the helper.
StartThread(t) ==
    /\ calls[t] < MaxCalls
    /\ calls' = [calls EXCEPT ![t] = @ + 1]
    /\ Calls(t, "idle", "starting")
    /\ Runs(t, "none", "constructing")
    /\ UNCHANGED <<started, impl, helper, shared>>

\* Mutant: the semaphore is not waited for.
AcquireAtOnce(t) ==
    /\ Calls(t, "starting", "query")
    /\ UNCHANGED <<runner, started, impl, helper, shared, calls>>

Acquire(t) ==
    /\ Calls(t, "starting", "query")
    /\ started[t] > 0
    /\ started' = [started EXCEPT ![t] = @ - 1]
    /\ UNCHANGED <<runner, impl, helper, shared, calls>>

\* Mutant: quit() is not invoked.
QueryDoneSilently(t) ==
    /\ Calls(t, "query", "waiting")
    /\ UNCHANGED <<runner, started, impl, helper, shared, calls>>

\* The query is over: quit() is queued for the helper, and the thread waits.
QueryDone(t) ==
    /\ Calls(t, "query", "waiting")
    /\ posted' = [posted EXCEPT ![t] = TRUE]
    /\ UNCHANGED <<runner, started, impl, timer, process, shared, calls>>

\* Mutant: the end of the thread is not waited for.
WaitNot(t) ==
    /\ Calls(t, "waiting", "idle")
    /\ UNCHANGED <<runner, started, impl, helper, shared, calls>>

\* wait() returns when run() has.
Wait(t) ==
    /\ Calls(t, "waiting", "idle")
    /\ runner[t] = "none"
    /\ UNCHANGED <<runner, started, impl, helper, shared, calls>>

-----------------------------------------------------------------------------
(* The thread of the helper *)

Construct(t) ==
    /\ Runs(t, "constructing", "constructed")
    /\ impl' = [impl EXCEPT ![t] = TRUE]
    /\ timer' = [timer EXCEPT ![t] = TRUE]
    /\ process' = [process EXCEPT ![t] = "none"]
    /\ UNCHANGED <<caller, started, posted, shared, calls>>

DoExec(t) ==
    /\ Runs(t, "constructed", "loop")
    /\ started' = [started EXCEPT ![t] = @ + 1]
    /\ UNCHANGED <<caller, impl, helper, shared, calls>>

\* timerExpired() begins, and waits for the mutex.
TimerExpired(t) ==
    /\ Runs(t, "loop", "expired")
    /\ timer[t]
    /\ timer' = [timer EXCEPT ![t] = FALSE]
    /\ UNCHANGED <<caller, started, impl, posted, process, shared, calls>>

DialogShown(t) ==
    /\ Runs(t, "expired", "loop")
    /\ mutex = None /\ visible
    /\ UNCHANGED <<caller, started, impl, helper, shared, calls>>

\* Mutant: the flag is not looked at.
ClaimAlways(t) ==
    /\ Runs(t, "expired", "launching")
    /\ mutex = None
    /\ mutex' = t /\ visible' = TRUE
    /\ UNCHANGED <<caller, started, impl, helper, calls, failures>>

\* The mutex is held while the process is started.
Claim(t) ==
    /\ Runs(t, "expired", "launching")
    /\ mutex = None /\ ~visible
    /\ mutex' = t /\ visible' = TRUE
    /\ UNCHANGED <<caller, started, impl, helper, calls, failures>>

\* The two attempts to start the process.
Launch(t) ==
    /\ Runs(t, "launching", "loop")
    /\ mutex' = None
    /\ \/ /\ process' = [process EXCEPT ![t] = "running"]
          /\ UNCHANGED failures
       \/ /\ failures < MaxFailures
          /\ process' = [process EXCEPT ![t] = "failed"]
          /\ failures' = failures + 1
    /\ UNCHANGED <<caller, started, impl, timer, posted, visible, calls>>

\* The user closes the dialog.
Close(t) ==
    /\ process[t] = "running"
    /\ process' = [process EXCEPT ![t] = "ended"]
    /\ UNCHANGED <<caller, runner, started, impl, timer, posted, shared, calls>>

\* finished() of the process
DialogHidden(t) ==
    /\ runner[t] = "loop"
    /\ process[t] = "ended"
    /\ mutex = None
    /\ visible' = FALSE
    /\ process' = [process EXCEPT ![t] = "over"]
    /\ UNCHANGED <<caller, runner, started, impl, timer, posted, mutex, calls, failures>>

\* quit() ends the event loop, and run() goes on behind it.
Quit(t) ==
    /\ Runs(t, "loop", "destroying")
    /\ posted[t]
    /\ posted' = [posted EXCEPT ![t] = FALSE]
    /\ impl' = [impl EXCEPT ![t] = FALSE]
    /\ UNCHANGED <<caller, started, timer, process, shared, calls>>

\* Mutant: the process is killed without waiting for its end.
DestroyKilling(t) ==
    /\ Runs(t, "destroying", "none")
    /\ timer' = [timer EXCEPT ![t] = FALSE]
    /\ process' = [process EXCEPT ![t] = "none"]
    /\ UNCHANGED <<caller, started, impl, posted, shared, calls>>

\* ~SqlQueryWatcherHelper kills the process; while it waits for the end,
\* dialogHidden() is called.
Destroy(t) ==
    /\ Runs(t, "destroying", "none")
    /\ timer' = [timer EXCEPT ![t] = FALSE]
    /\ process' = [process EXCEPT ![t] = "none"]
    /\ \/ process[t] \in {"running", "ended"} /\ mutex = None /\ visible' = FALSE
       \/ process[t] \notin {"running", "ended"} /\ UNCHANGED visible
    /\ UNCHANGED <<caller, started, impl, posted, mutex, calls, failures>>

-----------------------------------------------------------------------------
Helper(t) ==
    \/ Construct(t) \/ DoExec(t)
    \/ TimerExpired(t) \/ DialogShown(t) \/ Claim(t) \/ Launch(t) \/ DialogHidden(t)
    \/ Quit(t) \/ Destroy(t)

Done == (\A t \in Thread : caller[t] = "idle" /\ calls[t] = MaxCalls) /\ UNCHANGED vars

Next ==
    \/ \E t \in Thread : \/ StartThread(t) \/ Acquire(t) \/ QueryDone(t) \/ Wait(t)
                         \/ Helper(t) \/ Close(t)
    \/ Done

Spec == Init /\ [][Next]_vars

\* Both threads run, every query returns at some time, and a thread that
\* waits for the mutex gets it, as it is held for a bounded number of turns.
FairSpec ==
    /\ Spec
    /\ \A t \in Thread : /\ WF_vars(Acquire(t)) /\ WF_vars(QueryDone(t)) /\ WF_vars(Wait(t))
                         /\ WF_vars(Helper(t))

-----------------------------------------------------------------------------
(* Properties *)

\* Every variable stays within its type.
TypeOK ==
    /\ caller \in [Thread -> {"idle", "starting", "query", "waiting"}]
    /\ runner \in [Thread -> RunnerStates]
    /\ started \in [Thread -> 0 .. 1]
    /\ impl \in [Thread -> BOOLEAN] /\ timer \in [Thread -> BOOLEAN]
    /\ posted \in [Thread -> BOOLEAN]
    /\ process \in [Thread -> {"none", "running", "ended", "over", "failed"}]
    /\ mutex \in Thread \cup {None} /\ visible \in BOOLEAN
    /\ calls \in [Thread -> 0 .. MaxCalls] /\ failures \in 0 .. MaxFailures

\* However many queries are slow at the same time, one dialog is open.
OneDialog == Cardinality({t \in Thread : process[t] = "running"}) <= 1

\* The pointer a query's thread invokes quit() through is that of a helper
\* that lives.
HelperAlive == \A t \in Thread : caller[t] = "query" => impl[t]

\* A query returns with its watcher gone, and the dialog it opened with it.
CleanReturn ==
    \A t \in Thread : caller[t] = "idle" => runner[t] = "none" /\ process[t] # "running"

\* While the flag keeps other dialogs away there is one: a helper is starting
\* it, or its process has not been noticed to be over.  Once a process has
\* failed to start the flag stays set for good.
VisibleIsShown ==
    visible /\ failures = 0 => \E t \in Thread : runner[t] = "launching" \/ process[t] \in {"running", "ended"}

\* Every query returns to its caller, whatever dialogs are started, closed
\* or killed meanwhile.
QueriesReturn == \A t \in Thread : caller[t] # "idle" ~> caller[t] = "idle"
=============================================================================
