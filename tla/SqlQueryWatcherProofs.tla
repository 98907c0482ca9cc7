------------------------- MODULE SqlQueryWatcherProofs -------------------------
(***************************************************************************)
(* The safety properties of SqlQueryWatcher, for any number of threads and *)
(* of queries.  The invariant has two parts: how far the helper's thread   *)
(* is at each stage of the query's, and who the flag stands for.  From it  *)
(* also follows that a query returns after a bounded number of steps.      *)
(***************************************************************************)
EXTENDS SqlQueryWatcher, FiniteSetTheorems, TLAPS

\* The stages at which a helper exists.
Alive == {"constructed", "loop", "expired", "launching"}
InLoop == {"loop", "expired", "launching"}

\* The handshakes of KDThreadRunner: where the thread of a helper is while
\* that of its query is at each stage, with the semaphore and with quit().
Handshake ==
    \A t \in Thread :
        /\ caller[t] = "idle" => runner[t] = "none"
        /\ caller[t] = "starting" =>
              IF started[t] = 0 THEN runner[t] \in {"constructing", "constructed"}
                                ELSE runner[t] \in InLoop
        /\ caller[t] = "query" => runner[t] \in InLoop
        /\ caller[t] # "starting" => started[t] = 0
        /\ posted[t] => caller[t] = "waiting" /\ runner[t] \in InLoop
        /\ caller[t] = "waiting" /\ runner[t] # "none" => posted[t] \/ runner[t] = "destroying"
        /\ caller[t] = "waiting" => runner[t] \in InLoop \cup {"destroying", "none"}
        /\ impl[t] <=> runner[t] \in Alive

\* A process belongs to a helper, whose timer has expired.
Processes ==
    \A t \in Thread :
        /\ runner[t] \in {"none", "constructing", "constructed", "expired", "launching"}
              => process[t] = "none"
        /\ timer[t] => process[t] = "none" /\ runner[t] \notin {"expired", "launching"}

\* The helper whose dialog is about to be there, is, or is not noticed to be over.
Shows(t) == runner[t] = "launching" \/ process[t] \in {"running", "ended"}

\* The flag stands for one helper, and the mutex is held while its process starts.
Flag ==
    /\ \A t \in Thread : Shows(t) => visible
    /\ \A s, t \in Thread : Shows(s) /\ Shows(t) => s = t
    /\ \A t \in Thread : mutex = t <=> runner[t] = "launching"
    /\ VisibleIsShown

WatcherInv == TypeOK /\ Handshake /\ Processes /\ Flag

-----------------------------------------------------------------------------
(* The invariant holds at first, and every action keeps it *)

\* At first no helper exists.
LEMMA InitWatcher == Init => WatcherInv
  <1> SUFFICES ASSUME Init PROVE WatcherInv
    OBVIOUS
  <1>1. TypeOK
    <2>1. 0 \in 0 .. MaxCalls /\ 0 \in 0 .. MaxFailures /\ 0 \in 0 .. 1
      BY BoundsAssumption
    <2>2. QED
      BY <2>1 DEF Init, TypeOK, RunnerStates
  <1>2. Handshake
    BY DEF Init, Handshake, InLoop, Alive
  <1>3. Processes
    BY DEF Init, Processes
  <1>4. Flag
    BY NoneAssumption DEF Init, Flag, Shows, VisibleIsShown
  <1>5. QED
    BY <1>1, <1>2, <1>3, <1>4 DEF WatcherInv

\* A helper begins to be made, with no process left from the one before.
LEMMA StartThreadStep ==
    ASSUME WatcherInv, NEW t \in Thread, StartThread(t)
    PROVE  WatcherInv'
  <1>1. TypeOK'
    BY BoundsAssumption DEF WatcherInv, TypeOK, StartThread, Calls, Runs, helper, shared,
                            RunnerStates
  <1>2. Handshake'
    BY DEF WatcherInv, TypeOK, StartThread, Calls, Runs, helper, Handshake, Alive
  <1>3. Processes'
    BY DEF WatcherInv, StartThread, Runs, helper, Processes
  <1>4. Flag'
    BY DEF WatcherInv, StartThread, Runs, helper, shared, Flag, Shows, VisibleIsShown
  <1>5. QED
    BY <1>1, <1>2, <1>3, <1>4 DEF WatcherInv

\* The helper released the semaphore once, from its event loop.
LEMMA AcquireStep ==
    ASSUME WatcherInv, NEW t \in Thread, Acquire(t)
    PROVE  WatcherInv'
  <1>1. TypeOK'
    BY DEF WatcherInv, TypeOK, Acquire, Calls, helper, shared
  <1>2. Handshake'
    BY DEF WatcherInv, TypeOK, Acquire, Calls, helper, Handshake
  <1>3. Processes'
    BY DEF WatcherInv, Acquire, helper, Processes
  <1>4. Flag'
    BY DEF WatcherInv, Acquire, helper, shared, Flag, Shows, VisibleIsShown
  <1>5. QED
    BY <1>1, <1>2, <1>3, <1>4 DEF WatcherInv

\* The helper quit() is queued for is in its event loop, so it will be read.
LEMMA QueryDoneStep ==
    ASSUME WatcherInv, NEW t \in Thread, QueryDone(t)
    PROVE  WatcherInv'
  <1>1. TypeOK'
    BY DEF WatcherInv, TypeOK, QueryDone, Calls, shared
  <1>2. Handshake'
    BY DEF WatcherInv, TypeOK, QueryDone, Calls, Handshake
  <1>3. Processes'
    BY DEF WatcherInv, QueryDone, Processes
  <1>4. Flag'
    BY DEF WatcherInv, QueryDone, shared, Flag, Shows, VisibleIsShown
  <1>5. QED
    BY <1>1, <1>2, <1>3, <1>4 DEF WatcherInv

\* The query's thread is back only when the helper's is gone.
LEMMA WaitStep ==
    ASSUME WatcherInv, NEW t \in Thread, Wait(t)
    PROVE  WatcherInv'
  <1>1. TypeOK'
    BY DEF WatcherInv, TypeOK, Wait, Calls, helper, shared
  <1>2. Handshake'
    BY DEF WatcherInv, Wait, Calls, helper, Handshake, InLoop
  <1>3. Processes'
    BY DEF WatcherInv, Wait, helper, Processes
  <1>4. Flag'
    BY DEF WatcherInv, Wait, helper, shared, Flag, Shows, VisibleIsShown
  <1>5. QED
    BY <1>1, <1>2, <1>3, <1>4 DEF WatcherInv

\* The helper exists, its timer runs, and it has no process.
LEMMA ConstructStep ==
    ASSUME WatcherInv, NEW t \in Thread, Construct(t)
    PROVE  WatcherInv'
  <1>1. TypeOK'
    BY DEF WatcherInv, TypeOK, Construct, Runs, shared, RunnerStates
  <1>2. Handshake'
    BY DEF WatcherInv, TypeOK, Construct, Runs, Handshake, InLoop, Alive
  <1>3. Processes'
    BY DEF WatcherInv, Construct, Runs, Processes
  <1>4. Flag'
    BY DEF WatcherInv, Construct, Runs, shared, Flag, Shows, VisibleIsShown, Processes
  <1>5. QED
    BY <1>1, <1>2, <1>3, <1>4 DEF WatcherInv

\* The semaphore is released once: the query's thread still waits for it.
LEMMA DoExecStep ==
    ASSUME WatcherInv, NEW t \in Thread, DoExec(t)
    PROVE  WatcherInv'
  <1>0. caller[t] = "starting" /\ started[t] = 0
    BY DEF WatcherInv, TypeOK, Handshake, InLoop, DoExec, Runs
  <1>1. TypeOK'
    BY <1>0 DEF WatcherInv, TypeOK, DoExec, Runs, helper, shared, RunnerStates
  <1>2. Handshake'
    BY DEF WatcherInv, TypeOK, DoExec, Runs, helper, Handshake, InLoop, Alive
  <1>3. Processes'
    BY DEF WatcherInv, DoExec, Runs, helper, Processes
  <1>4. Flag'
    BY DEF WatcherInv, DoExec, Runs, helper, shared, Flag, Shows, VisibleIsShown
  <1>5. QED
    BY <1>1, <1>2, <1>3, <1>4 DEF WatcherInv

\* The timer of a helper expires once.
LEMMA TimerExpiredStep ==
    ASSUME WatcherInv, NEW t \in Thread, TimerExpired(t)
    PROVE  WatcherInv'
  <1>1. TypeOK'
    BY DEF WatcherInv, TypeOK, TimerExpired, Runs, shared, RunnerStates
  <1>2. Handshake'
    BY DEF WatcherInv, TimerExpired, Runs, Handshake, InLoop, Alive
  <1>3. Processes'
    BY DEF WatcherInv, TypeOK, TimerExpired, Runs, Processes
  <1>4. Flag'
    BY DEF WatcherInv, TimerExpired, Runs, shared, Flag, Shows, VisibleIsShown
  <1>5. QED
    BY <1>1, <1>2, <1>3, <1>4 DEF WatcherInv

\* The helper lets another one's dialog be.
LEMMA DialogShownStep ==
    ASSUME WatcherInv, NEW t \in Thread, DialogShown(t)
    PROVE  WatcherInv'
  <1>1. TypeOK'
    BY DEF WatcherInv, TypeOK, DialogShown, Runs, helper, shared, RunnerStates
  <1>2. Handshake'
    BY DEF WatcherInv, DialogShown, Runs, helper, Handshake, InLoop, Alive
  <1>3. Processes'
    BY DEF WatcherInv, DialogShown, Runs, helper, Processes
  <1>4. Flag'
    BY DEF WatcherInv, DialogShown, Runs, helper, shared, Flag, Shows, VisibleIsShown
  <1>5. QED
    BY <1>1, <1>2, <1>3, <1>4 DEF WatcherInv

\* Nobody else shows, as the flag was not set.
LEMMA ClaimStep ==
    ASSUME WatcherInv, NEW t \in Thread, Claim(t)
    PROVE  WatcherInv'
  <1>1. TypeOK'
    BY DEF WatcherInv, TypeOK, Claim, Runs, helper, RunnerStates
  <1>2. Handshake'
    BY DEF WatcherInv, Claim, Runs, helper, Handshake, InLoop, Alive
  <1>3. Processes'
    BY DEF WatcherInv, Claim, Runs, helper, Processes
  <1>4. Flag'
    BY DEF WatcherInv, TypeOK, Claim, Runs, helper, Flag, Shows, VisibleIsShown
  <1>5. QED
    BY <1>1, <1>2, <1>3, <1>4 DEF WatcherInv

\* The dialog is there in place of the one that was about to be, or its
\* process has failed to start and the flag stands for no one.
LEMMA LaunchStep ==
    ASSUME WatcherInv, NEW t \in Thread, Launch(t)
    PROVE  WatcherInv'
  <1>1. TypeOK'
    BY BoundsAssumption DEF WatcherInv, TypeOK, Launch, Runs, RunnerStates
  <1>2. Handshake'
    BY DEF WatcherInv, Launch, Runs, Handshake, InLoop, Alive
  <1>3. Processes'
    BY DEF WatcherInv, TypeOK, Launch, Runs, Processes
  <1>4. Flag'
    BY NoneAssumption DEF WatcherInv, TypeOK, Launch, Runs, Flag, Shows, VisibleIsShown
  <1>5. QED
    BY <1>1, <1>2, <1>3, <1>4 DEF WatcherInv

\* The helper whose process has ended is the one the flag stood for.
LEMMA DialogHiddenStep ==
    ASSUME WatcherInv, NEW t \in Thread, DialogHidden(t)
    PROVE  WatcherInv'
  <1>1. TypeOK'
    BY DEF WatcherInv, TypeOK, DialogHidden
  <1>2. Handshake'
    BY DEF WatcherInv, DialogHidden, Handshake
  <1>3. Processes'
    BY DEF WatcherInv, DialogHidden, Processes
  <1>4. Flag'
    BY DEF WatcherInv, TypeOK, DialogHidden, Flag, Shows, VisibleIsShown
  <1>5. QED
    BY <1>1, <1>2, <1>3, <1>4 DEF WatcherInv

\* The helper leaves its event loop with its process, which the flag
\* still stands for.
LEMMA QuitStep ==
    ASSUME WatcherInv, NEW t \in Thread, Quit(t)
    PROVE  WatcherInv'
  <1>1. TypeOK'
    BY DEF WatcherInv, TypeOK, Quit, Runs, shared, RunnerStates
  <1>2. Handshake'
    BY DEF WatcherInv, TypeOK, Quit, Runs, Handshake, Alive
  <1>3. Processes'
    BY DEF WatcherInv, Quit, Runs, Processes
  <1>4. Flag'
    BY DEF WatcherInv, Quit, Runs, shared, Flag, Shows, VisibleIsShown
  <1>5. QED
    BY <1>1, <1>2, <1>3, <1>4 DEF WatcherInv

\* The flag is taken back if the process was still there, and only then.
LEMMA DestroyStep ==
    ASSUME WatcherInv, NEW t \in Thread, Destroy(t)
    PROVE  WatcherInv'
  <1>1. TypeOK'
    BY DEF WatcherInv, TypeOK, Destroy, Runs, RunnerStates
  <1>2. Handshake'
    BY DEF WatcherInv, Destroy, Runs, Handshake, InLoop, Alive
  <1>3. Processes'
    BY DEF WatcherInv, TypeOK, Destroy, Runs, Processes
  <1>4. Flag'
    BY DEF WatcherInv, TypeOK, Destroy, Runs, Flag, Shows, VisibleIsShown
  <1>5. QED
    BY <1>1, <1>2, <1>3, <1>4 DEF WatcherInv

\* A process that has ended is still the one the flag stands for.
LEMMA CloseStep ==
    ASSUME WatcherInv, NEW t \in Thread, Close(t)
    PROVE  WatcherInv'
  <1>1. TypeOK'
    BY DEF WatcherInv, TypeOK, Close, shared
  <1>2. Handshake'
    BY DEF WatcherInv, Close, Handshake
  <1>3. Processes'
    BY DEF WatcherInv, Close, Processes
  <1>4. Flag'
    BY DEF WatcherInv, Close, shared, Flag, Shows, VisibleIsShown
  <1>5. QED
    BY <1>1, <1>2, <1>3, <1>4 DEF WatcherInv

-----------------------------------------------------------------------------
(* The properties of the specification *)

\* WatcherInv is inductive.
LEMMA NextWatcher == WatcherInv /\ [Next]_vars => WatcherInv'
  <1> SUFFICES ASSUME WatcherInv, [Next]_vars PROVE WatcherInv'
    OBVIOUS
  <1>1. CASE UNCHANGED vars
    BY <1>1 DEF vars, helper, shared, WatcherInv, TypeOK, Handshake, Processes, Flag, Shows,
                VisibleIsShown
  <1>2. ASSUME NEW t \in Thread, StartThread(t) \/ Acquire(t) \/ QueryDone(t) \/ Wait(t)
        PROVE  WatcherInv'
    BY <1>2, StartThreadStep, AcquireStep, QueryDoneStep, WaitStep
  <1>3. ASSUME NEW t \in Thread, Helper(t) PROVE WatcherInv'
    BY <1>3, ConstructStep, DoExecStep, TimerExpiredStep, DialogShownStep, ClaimStep,
       LaunchStep, DialogHiddenStep, QuitStep, DestroyStep DEF Helper
  <1>4. ASSUME NEW t \in Thread, Close(t) PROVE WatcherInv'
    BY <1>4, CloseStep
  <1>5. QED
    BY <1>1, <1>2, <1>3, <1>4 DEF Next, Done

\* WatcherInv is an invariant.
LEMMA WatcherInvariant == Spec => []WatcherInv
  BY InitWatcher, NextWatcher, PTL DEF Spec

\* Every reachable state of the watchers is of its type.
THEOREM TypeCorrect == Spec => []TypeOK
  <1>1. WatcherInv => TypeOK
    BY DEF WatcherInv
  <1>2. QED
    BY <1>1, WatcherInvariant, PTL

\* At most one dialog is open, however many threads wait for slow queries:
\* the flag stands for a single helper at a time.
THEOREM DialogUnique == Spec => []OneDialog
  <1>1. WatcherInv => OneDialog
    <2> SUFFICES ASSUME WatcherInv PROVE OneDialog
      OBVIOUS
    <2> DEFINE Open == {t \in Thread : process[t] = "running"}
    <2>1. \A s, t \in Open : s = t
      BY DEF WatcherInv, Flag, Shows
    <2>2. CASE Open = {}
      BY <2>2, FS_EmptySet DEF OneDialog
    <2>3. CASE Open # {}
      <3>1. PICK s \in Open : Open = {s}
        BY <2>1, <2>3
      <3>2. QED
        BY <3>1, FS_Singleton DEF OneDialog
    <2>4. QED
      BY <2>2, <2>3
  <1>2. QED
    BY <1>1, WatcherInvariant, PTL

\* The thread of a query invokes quit() through a pointer to a helper that
\* exists: it is past the semaphore, and the helper leaves its loop only for quit().
THEOREM HelperLives == Spec => []HelperAlive
  <1>1. WatcherInv => HelperAlive
    BY DEF WatcherInv, Handshake, HelperAlive, InLoop, Alive
  <1>2. QED
    BY <1>1, WatcherInvariant, PTL

\* A query returns with its watcher gone and no dialog left open.
THEOREM ReturnsClean == Spec => []CleanReturn
  <1>1. WatcherInv => CleanReturn
    BY DEF WatcherInv, Handshake, Processes, CleanReturn
  <1>2. QED
    BY <1>1, WatcherInvariant, PTL

\* While no process has failed to start, the flag that keeps other dialogs
\* away stands for a dialog that is there or about to be.
THEOREM FlagHonest == Spec => []VisibleIsShown
  <1>1. WatcherInv => VisibleIsShown
    BY DEF WatcherInv, Flag
  <1>2. QED
    BY <1>1, WatcherInvariant, PTL
-----------------------------------------------------------------------------
(* Queries return *)

\* The steps that are left of a call of thread t at most: its own, those of its
\* helper, and what may become of the dialog.
CallerSteps(t) ==
    CASE caller[t] = "idle" -> 0 [] caller[t] = "waiting" -> 1
      [] caller[t] = "query" -> 2 [] caller[t] = "starting" -> 3

RunnerSteps(t) ==
    CASE runner[t] = "none" -> 0 [] runner[t] = "destroying" -> 1
      [] runner[t] = "loop" -> (IF timer[t] THEN 7 ELSE 2)
      [] runner[t] = "launching" -> 5 [] runner[t] = "expired" -> 6
      [] runner[t] = "constructed" -> 8 [] runner[t] = "constructing" -> 9

DialogSteps(t) == CASE process[t] = "running" -> 2 [] process[t] = "ended" -> 1 [] OTHER -> 0

StepsLeft(t) == CallerSteps(t) + RunnerSteps(t) + DialogSteps(t)

\* What a call does.
Acts(t) == Acquire(t) \/ QueryDone(t) \/ Wait(t) \/ Helper(t) \/ Close(t)

\* A call has at most twelve steps, and none is left when it has returned.
StepsBounded ==
    \A t \in Thread : StepsLeft(t) \in 0 .. 12 /\ (caller[t] = "idle" => StepsLeft(t) = 0)

\* Every step of a call leaves it fewer, and what other threads do adds none.
StepsRunOut ==
    [][\A t \in Thread : caller[t] # "idle" =>
          /\ StepsLeft(t)' <= StepsLeft(t)
          /\ Acts(t) => StepsLeft(t)' < StepsLeft(t)]_vars

\* What a thread waits for is on its way: the semaphore of a helper that is
\* being made, the end of one that has been told to quit, and the mutex of one
\* that starts its process, which waits for nothing.
OnItsWay ==
    /\ \A t \in Thread :
          /\ caller[t] = "starting" => started[t] > 0 \/ runner[t] \in {"constructing", "constructed"}
          /\ caller[t] = "waiting" =>
                \/ runner[t] \in {"none", "destroying"}
                \/ runner[t] \in InLoop /\ posted[t]
    /\ mutex # None => runner[mutex] = "launching"

\* The steps that are left of each part of a call.
LEMMA StepsOfParts ==
    ASSUME TypeOK, NEW t \in Thread
    PROVE  /\ CallerSteps(t) \in 0 .. 3 /\ RunnerSteps(t) \in 0 .. 9 /\ DialogSteps(t) \in 0 .. 2
           /\ StepsLeft(t) = CallerSteps(t) + RunnerSteps(t) + DialogSteps(t)
  <1>1. caller[t] \in {"idle", "starting", "query", "waiting"} /\ runner[t] \in RunnerStates
    BY DEF TypeOK
  <1>2. CallerSteps(t) \in 0 .. 3
    BY <1>1 DEF CallerSteps
  <1>3. RunnerSteps(t) \in 0 .. 9
    BY <1>1 DEF RunnerSteps, RunnerStates
  <1>4. DialogSteps(t) \in 0 .. 2
    BY DEF DialogSteps
  <1>5. QED
    BY <1>2, <1>3, <1>4 DEF StepsLeft

\* There are few steps in every state of a call.
LEMMA FewSteps == WatcherInv => StepsBounded
  <1> SUFFICES ASSUME WatcherInv, NEW t \in Thread
               PROVE  StepsLeft(t) \in 0 .. 12 /\ (caller[t] = "idle" => StepsLeft(t) = 0)
    BY DEF StepsBounded
  <1>1. /\ CallerSteps(t) \in 0 .. 3 /\ RunnerSteps(t) \in 0 .. 9 /\ DialogSteps(t) \in 0 .. 2
        /\ StepsLeft(t) = CallerSteps(t) + RunnerSteps(t) + DialogSteps(t)
    BY StepsOfParts DEF WatcherInv
  <1>2. runner[t] \in RunnerStates
    BY DEF WatcherInv, TypeOK
  <1>3. RunnerSteps(t) + DialogSteps(t) <= 9
    <2>1. CASE process[t] = "none"
      <3>1. DialogSteps(t) = 0
        BY <2>1 DEF DialogSteps
      <3>2. QED
        BY <1>1, <3>1
    <2>2. CASE process[t] # "none"
      <3>1. ~timer[t] /\ runner[t] \in {"loop", "destroying"}
        BY <1>2, <2>2 DEF WatcherInv, Processes, RunnerStates
      <3>2. RunnerSteps(t) <= 2
        BY <3>1 DEF RunnerSteps
      <3>3. QED
        BY <1>1, <3>2
    <2>3. QED
      BY <2>1, <2>2
  <1>4. caller[t] = "idle" => StepsLeft(t) = 0
    <2> SUFFICES ASSUME caller[t] = "idle" PROVE StepsLeft(t) = 0
      OBVIOUS
    <2>1. runner[t] = "none" /\ process[t] = "none"
      BY DEF WatcherInv, Handshake, Processes
    <2>2. CallerSteps(t) = 0 /\ RunnerSteps(t) = 0 /\ DialogSteps(t) = 0
      BY <2>1 DEF CallerSteps, RunnerSteps, DialogSteps
    <2>3. QED
      BY <1>1, <2>2
  <1>5. QED
    BY <1>1, <1>3, <1>4

\* A step of the query's thread is a step of its call.
LEMMA CallerRunsOut ==
    ASSUME WatcherInv, WatcherInv', NEW t \in Thread, Acquire(t) \/ QueryDone(t) \/ Wait(t)
    PROVE  StepsLeft(t)' < StepsLeft(t)
  <1>1. CallerSteps(t)' = CallerSteps(t) - 1
    <2>1. \/ caller[t] = "starting" /\ caller'[t] = "query"
          \/ caller[t] = "query" /\ caller'[t] = "waiting"
          \/ caller[t] = "waiting" /\ caller'[t] = "idle"
      BY DEF Acquire, QueryDone, Wait, Calls, WatcherInv, TypeOK
    <2>2. QED
      BY <2>1 DEF CallerSteps
  <1>2. UNCHANGED <<runner, timer, process>>
    BY DEF Acquire, QueryDone, Wait, helper
  <1>3. RunnerSteps(t)' = RunnerSteps(t) /\ DialogSteps(t)' = DialogSteps(t)
    BY <1>2 DEF RunnerSteps, DialogSteps
  <1>4. WatcherInv => TypeOK
    BY DEF WatcherInv
  <1>5. /\ CallerSteps(t) \in 0 .. 3 /\ RunnerSteps(t) \in 0 .. 9 /\ DialogSteps(t) \in 0 .. 2
        /\ StepsLeft(t) = CallerSteps(t) + RunnerSteps(t) + DialogSteps(t)
    BY <1>4, StepsOfParts
  <1>6. StepsLeft(t)' = CallerSteps(t)' + RunnerSteps(t)' + DialogSteps(t)'
    BY DEF StepsLeft
  <1>7. QED
    BY <1>1, <1>3, <1>5, <1>6

\* What the helper's thread does, and what becomes of the dialog.
LEMMA HelperRunsOut ==
    ASSUME WatcherInv, NEW t \in Thread, Helper(t) \/ Close(t)
    PROVE  StepsLeft(t)' < StepsLeft(t)
  <1>1. CallerSteps(t)' = CallerSteps(t)
    <2>1. caller' = caller
      BY DEF Helper, Construct, DoExec, TimerExpired, DialogShown, Claim, Launch, DialogHidden, Quit,
             Destroy, Close
    <2>2. QED
      BY <2>1 DEF CallerSteps
  <1>2. /\ runner \in [Thread -> RunnerStates] /\ timer \in [Thread -> BOOLEAN]
        /\ process \in [Thread -> {"none", "running", "ended", "over", "failed"}]
    BY DEF WatcherInv, TypeOK
  <1>3. \/ /\ runner'[t] = runner[t] /\ timer'[t] = timer[t]
           /\ \/ process[t] = "running" /\ process'[t] = "ended"
              \/ process[t] = "ended" /\ process'[t] = "over"
        \/ /\ runner[t] = "destroying" /\ runner'[t] = "none" /\ process'[t] = "none"
        \/ /\ runner[t] \in {"constructing", "constructed", "expired", "launching"}
           /\ process[t] = "none"
           /\ \/ runner[t] = "constructing" /\ runner'[t] = "constructed" /\ process'[t] = "none"
              \/ runner[t] = "constructed" /\ runner'[t] = "loop" /\ process'[t] = "none"
              \/ runner[t] = "expired" /\ runner'[t] = "launching" /\ process'[t] = "none"
              \/ /\ runner[t] \in {"expired", "launching"} /\ runner'[t] = "loop" /\ ~timer'[t]
                 /\ runner[t] = "expired" => process'[t] = "none"
        \/ /\ runner[t] = "loop" /\ runner'[t] = "expired" /\ timer[t] /\ process'[t] = process[t]
        \/ /\ runner[t] = "loop" /\ runner'[t] = "destroying" /\ process'[t] = process[t]
    <2>1. CASE Close(t) \/ DialogHidden(t)
      BY <1>2, <2>1 DEF Close, DialogHidden
    <2>2. CASE Destroy(t)
      BY <1>2, <2>2 DEF Destroy, Runs
    <2>3. CASE Construct(t) \/ DoExec(t)
      BY <1>2, <2>3 DEF Construct, DoExec, Runs, helper, WatcherInv, Processes
    <2>4. CASE Claim(t) \/ DialogShown(t)
      BY <1>2, <2>4 DEF Claim, DialogShown, Runs, helper, WatcherInv, Processes
    <2>5. CASE Launch(t)
      BY <1>2, <2>5 DEF Launch, Runs, WatcherInv, Processes
    <2>6. CASE TimerExpired(t) \/ Quit(t)
      BY <1>2, <2>6 DEF TimerExpired, Quit, Runs
    <2>7. QED
      BY <2>1, <2>2, <2>3, <2>4, <2>5, <2>6 DEF Helper
  <1>4. /\ RunnerSteps(t) \in 0 .. 9 /\ DialogSteps(t) \in 0 .. 2 /\ CallerSteps(t) \in 0 .. 3
        /\ StepsLeft(t) = CallerSteps(t) + RunnerSteps(t) + DialogSteps(t)
    BY StepsOfParts DEF WatcherInv
  <1>5. /\ DialogSteps(t)' \in 0 .. 2
        /\ process'[t] = process[t] => DialogSteps(t)' = DialogSteps(t)
        /\ process'[t] = "none" => DialogSteps(t)' = 0
        /\ process[t] = "none" => DialogSteps(t) = 0
        /\ process[t] = "running" /\ process'[t] = "ended" => DialogSteps(t)' < DialogSteps(t)
        /\ process[t] = "ended" /\ process'[t] = "over" => DialogSteps(t)' < DialogSteps(t)
    BY DEF DialogSteps
  <1>6. RunnerSteps(t)' \in 0 .. 9 /\ RunnerSteps(t)' + DialogSteps(t)' < RunnerSteps(t) + DialogSteps(t)
    <2>1. CASE runner'[t] = runner[t] /\ timer'[t] = timer[t]
      <3>1. RunnerSteps(t)' = RunnerSteps(t)
        BY <2>1 DEF RunnerSteps
      <3>2. DialogSteps(t)' < DialogSteps(t)
        BY <1>3, <1>5, <2>1
      <3>3. QED
        BY <1>4, <1>5, <3>1, <3>2
    <2>2. CASE runner'[t] # runner[t] /\ process'[t] \in {process[t], "none"}
      <3>1. RunnerSteps(t)' \in 0 .. 9 /\ RunnerSteps(t)' < RunnerSteps(t)
        BY <1>3, <2>2 DEF RunnerSteps
      <3>2. DialogSteps(t)' <= DialogSteps(t)
        BY <1>4, <1>5, <2>2
      <3>3. QED
        BY <1>4, <1>5, <3>1, <3>2
    <2>3. CASE runner[t] = "launching" /\ runner'[t] = "loop" /\ ~timer'[t] /\ process[t] = "none"
      <3>1. RunnerSteps(t)' = 2 /\ RunnerSteps(t) = 5
        BY <2>3 DEF RunnerSteps
      <3>2. QED
        BY <1>4, <1>5, <2>3, <3>1
    <2>4. QED
      BY <1>3, <2>1, <2>2, <2>3
  <1>7. StepsLeft(t)' = CallerSteps(t)' + RunnerSteps(t)' + DialogSteps(t)'
    BY DEF StepsLeft
  <1>8. QED
    BY <1>1, <1>4, <1>5, <1>6, <1>7

\* What is a step of another call, or begins one, leaves this one as it is.
LEMMA OthersLeave ==
    ASSUME WatcherInv, NEW t \in Thread, NEW u \in Thread, t # u, Acts(u) \/ StartThread(u)
    PROVE  StepsLeft(t)' = StepsLeft(t)
  <1>1. caller'[t] = caller[t] /\ runner'[t] = runner[t] /\ timer'[t] = timer[t] /\ process'[t] = process[t]
    <2>1. /\ caller \in [Thread -> {"idle", "starting", "query", "waiting"}]
          /\ runner \in [Thread -> RunnerStates] /\ timer \in [Thread -> BOOLEAN]
          /\ process \in [Thread -> {"none", "running", "ended", "over", "failed"}]
      BY DEF WatcherInv, TypeOK
    <2>2. CASE Acquire(u) \/ QueryDone(u) \/ Wait(u) \/ Close(u) \/ StartThread(u)
      BY <2>1, <2>2 DEF Acquire, QueryDone, Wait, Close, StartThread, Calls, Runs, helper
    <2>3. CASE Construct(u) \/ DoExec(u) \/ TimerExpired(u) \/ DialogShown(u)
      BY <2>1, <2>3 DEF Construct, DoExec, TimerExpired, DialogShown, Runs, helper
    <2>4. CASE Claim(u) \/ Launch(u) \/ DialogHidden(u)
      BY <2>1, <2>4 DEF Claim, Launch, DialogHidden, Runs, helper
    <2>5. CASE Quit(u) \/ Destroy(u)
      BY <2>1, <2>5 DEF Quit, Destroy, Runs
    <2>6. QED
      BY <2>2, <2>3, <2>4, <2>5 DEF Acts, Helper
  <1>2. QED
    BY <1>1 DEF StepsLeft, CallerSteps, RunnerSteps, DialogSteps

\* A query returns after a bounded number of steps, whatever other threads do,
\* and what it waits for on the way is under way itself: neither the semaphore,
\* nor the mutex, nor the end of the helper's thread is waited for in vain.
THEOREM QueriesComeToAnEnd == Spec => [](StepsBounded /\ OnItsWay) /\ StepsRunOut
  <1> DEFINE A == \A t \in Thread : caller[t] # "idle" =>
                     /\ StepsLeft(t)' <= StepsLeft(t)
                     /\ Acts(t) => StepsLeft(t)' < StepsLeft(t)
  <1>1. WatcherInv => OnItsWay
    <2> SUFFICES ASSUME WatcherInv PROVE OnItsWay
      OBVIOUS
    <2>1. ASSUME NEW t \in Thread
          PROVE  /\ caller[t] = "starting" =>
                       started[t] > 0 \/ runner[t] \in {"constructing", "constructed"}
                 /\ caller[t] = "waiting" =>
                       \/ runner[t] \in {"none", "destroying"}
                       \/ runner[t] \in InLoop /\ posted[t]
      BY DEF WatcherInv, TypeOK, Handshake
    <2>2. mutex # None => runner[mutex] = "launching"
      BY DEF WatcherInv, TypeOK, Flag
    <2>3. QED
      BY <2>1, <2>2 DEF OnItsWay
  <1>2. WatcherInv /\ WatcherInv' /\ [Next]_vars => A
    <2> SUFFICES ASSUME WatcherInv, WatcherInv', [Next]_vars, NEW t \in Thread, caller[t] # "idle"
                 PROVE  /\ StepsLeft(t)' <= StepsLeft(t)
                        /\ Acts(t) => StepsLeft(t)' < StepsLeft(t)
      OBVIOUS
    <2>1. StepsLeft(t) \in Nat /\ StepsLeft(t)' \in Nat
      <3>1. StepsBounded /\ StepsBounded'
        BY FewSteps, PTL
      <3>2. QED
        BY <3>1 DEF StepsBounded
    <2>2. Acts(t) => StepsLeft(t)' < StepsLeft(t)
      BY CallerRunsOut, HelperRunsOut DEF Acts
    <2>3. ~StartThread(t)
      BY DEF StartThread, Calls
    <2>4. UNCHANGED vars => StepsLeft(t)' = StepsLeft(t)
      BY DEF vars, helper, StepsLeft, CallerSteps, RunnerSteps, DialogSteps
    <2>5. (\E u \in Thread : Acts(u) \/ StartThread(u)) \/ UNCHANGED vars
      BY DEF Next, Done, Acts
    <2>6. QED
      BY <2>1, <2>2, <2>3, <2>4, <2>5, OthersLeave
  <1>3. Spec => [](StepsBounded /\ OnItsWay)
    BY <1>1, FewSteps, WatcherInvariant, PTL
  <1>4. Spec => StepsRunOut
    BY <1>2, WatcherInvariant, PTL DEF Spec, StepsRunOut
  <1>5. QED
    BY <1>3, <1>4
================================================================================
