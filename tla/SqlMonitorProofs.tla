---------------------------- MODULE SqlMonitorProofs ----------------------------
(***************************************************************************)
(* The tables of monitors are listened to, for any number of monitors,     *)
(* tables, rows and losses, where no transaction is rolled back: the       *)
(* driver's list of subscriptions, which decides whether a LISTEN is sent, *)
(* stays within what the session listens to.  A change is then not missed: *)
(* its notification is under way until the monitor is notified of it or    *)
(* the session that saw the change is lost.                                *)
(***************************************************************************)
EXTENDS SqlMonitor, SequenceTheorems, TLAPS

\* Losses count the sessions that are gone, and only monitors that exist have tables.
Bookkeeping ==
    /\ ~alive => losses > 0
    /\ \A m \in Monitor : m \notin exists => tables[m] = {}

\* Where the connection works, every monitored table is in the driver's list,
\* and the session listens to every table in it.
Heard ==
    Reaches => /\ \A m \in exists : tables[m] \subseteq subscribed
               /\ subscribed \cap Table \subseteq listening

HeardInv == TypeOK /\ Bookkeeping /\ Heard

-----------------------------------------------------------------------------
(* The invariant holds at first, and every action keeps it *)

\* At first nothing is monitored, and nothing listened to.
LEMMA InitHeard == Init => HeardInv
  <1> SUFFICES ASSUME Init PROVE HeardInv
    OBVIOUS
  <1>1. 0 \in 0 .. MaxLoss /\ <<>> \in Seq(Channel) /\ Len(<<>>) <= MaxQueue
    BY BoundsAssumption
  <1>2. TypeOK
    BY <1>1 DEF Init, TypeOK
  <1>3. Bookkeeping /\ Heard
    BY DEF Init, Bookkeeping, Heard
  <1>4. QED
    BY <1>2, <1>3 DEF HeardInv

\* A monitor begins with no tables.
LEMMA ConstructStep ==
    ASSUME HeardInv, NEW m \in Monitor, Construct(m)
    PROVE  HeardInv'
  <1>1. TypeOK'
    BY DEF HeardInv, TypeOK, Construct, Owed, session
  <1>2. Bookkeeping'
    BY DEF HeardInv, Bookkeeping, Construct, session
  <1>3. Heard'
    BY DEF HeardInv, Bookkeeping, Heard, Construct, Reaches, session
  <1>4. QED
    BY <1>1, <1>2, <1>3 DEF HeardInv

\* The subscriptions of a monitor that ends stay.
LEMMA DestroyStep ==
    ASSUME HeardInv, NEW m \in Monitor, Destroy(m)
    PROVE  HeardInv'
  <1>1. TypeOK'
    BY DEF HeardInv, TypeOK, Destroy, Owed, session
  <1>2. Bookkeeping'
    BY DEF HeardInv, TypeOK, Bookkeeping, Destroy, session
  <1>3. Heard'
    BY DEF HeardInv, Heard, Destroy, Reaches, session
  <1>4. QED
    BY <1>1, <1>2, <1>3 DEF HeardInv

\* Either LISTEN reaches the session, or the connection is found closed.
LEMMA SetMonitorTableStep ==
    ASSUME HeardInv, NEW m \in Monitor, NEW t \in Table, SetMonitorTable(m, t)
    PROVE  HeardInv'
  <1>1. TypeOK'
    BY DEF HeardInv, TypeOK, SetMonitorTable, Subscribe, Attempted, Channel
  <1>2. Bookkeeping'
    BY DEF HeardInv, Bookkeeping, SetMonitorTable
  <1>3. Heard'
    BY DEF HeardInv, TypeOK, Heard, SetMonitorTable, Subscribe, Attempted, Reaches
  <1>4. QED
    BY <1>1, <1>2, <1>3 DEF HeardInv

\* A row adds to what is listened to.
LEMMA AddValueMonitorStep ==
    ASSUME HeardInv, NEW m \in Monitor, NEW r \in Row, AddValueMonitor(m, r)
    PROVE  HeardInv'
  <1>1. TypeOK'
    BY DEF HeardInv, TypeOK, AddValueMonitor, Subscribe, Attempted, Channel
  <1>2. Bookkeeping'
    BY DEF HeardInv, Bookkeeping, AddValueMonitor
  <1>3. Heard'
    BY DEF HeardInv, Heard, AddValueMonitor, Subscribe, Attempted, Reaches
  <1>4. QED
    BY <1>1, <1>2, <1>3 DEF HeardInv

\* UNLISTEN of rows leaves the tables alone.
LEMMA UnsubscribeValuesNotificationsStep ==
    ASSUME HeardInv, NEW m \in Monitor, UnsubscribeValuesNotifications(m)
    PROVE  HeardInv'
  <1>1. TypeOK'
    BY DEF HeardInv, TypeOK, UnsubscribeValuesNotifications
  <1>2. Bookkeeping'
    BY DEF HeardInv, Bookkeeping, UnsubscribeValuesNotifications
  <1>3. Heard'
    BY ChannelAssumption DEF HeardInv, TypeOK, Heard, UnsubscribeValuesNotifications, Reaches
  <1>4. QED
    BY <1>1, <1>2, <1>3 DEF HeardInv

\* A change sends a notification, and no more.
LEMMA ChangeStep ==
    ASSUME HeardInv, NEW n \in Channel, Change(n)
    PROVE  HeardInv'
  <1>a. Session \in 0 .. MaxLoss
    BY BoundsAssumption DEF HeardInv, TypeOK, Bookkeeping, Session
  <1>b. Append(queue, n) \in Seq(Channel) /\ Len(Append(queue, n)) = Len(queue) + 1
    BY DEF HeardInv, TypeOK
  <1>1. TypeOK'
    BY BoundsAssumption, <1>a DEF HeardInv, TypeOK, Change, Owed, monitors
  <1>2. Bookkeeping'
    BY DEF HeardInv, Bookkeeping, Change, monitors
  <1>3. Heard'
    BY DEF HeardInv, Heard, Change, Reaches, monitors
  <1>4. QED
    BY <1>1, <1>2, <1>3 DEF HeardInv

\* A notification that is read leaves the others.
LEMMA NotificationReceivedStep ==
    ASSUME HeardInv, NotificationReceived
    PROVE  HeardInv'
  <1>a. Tail(queue) \in Seq(Channel) /\ Len(Tail(queue)) = Len(queue) - 1
    BY DEF HeardInv, TypeOK, NotificationReceived
  <1>1. TypeOK'
    BY BoundsAssumption DEF HeardInv, TypeOK, NotificationReceived, monitors
  <1>2. Bookkeeping'
    BY DEF HeardInv, Bookkeeping, NotificationReceived, monitors
  <1>3. Heard'
    BY DEF HeardInv, Heard, NotificationReceived, Reaches, monitors
  <1>4. QED
    BY <1>1, <1>2, <1>3 DEF HeardInv

\* A transaction begins with what is listened to.
LEMMA BeginStep ==
    ASSUME HeardInv, Begin
    PROVE  HeardInv'
  <1>1. TypeOK'
    BY DEF HeardInv, TypeOK, Begin, monitors
  <1>2. Bookkeeping'
    BY DEF HeardInv, Bookkeeping, Begin, monitors
  <1>3. Heard'
    BY DEF HeardInv, Heard, Begin, monitors
  <1>4. QED
    BY <1>1, <1>2, <1>3 DEF HeardInv

\* A transaction that is not rolled back keeps its LISTEN.
LEMMA EndStep ==
    ASSUME HeardInv, "rollback" \notin Ops, NEW committed \in BOOLEAN, End(committed)
    PROVE  HeardInv'
  <1>1. TypeOK'
    BY DEF HeardInv, TypeOK, End, Attempted, monitors
  <1>2. Bookkeeping'
    BY DEF HeardInv, Bookkeeping, End, monitors
  <1>3. Heard'
    BY DEF HeardInv, Heard, End, Attempted, Reaches, monitors
  <1>4. QED
    BY <1>1, <1>2, <1>3 DEF HeardInv

\* Nothing is claimed of a session that is gone.
LEMMA LoseStep ==
    ASSUME HeardInv, Lose
    PROVE  HeardInv'
  <1>a. queue' \in Seq(Channel) /\ Len(queue') <= MaxQueue
    BY BoundsAssumption DEF Lose
  <1>b. losses' \in 0 .. MaxLoss
    BY BoundsAssumption DEF Lose, HeardInv, TypeOK
  <1>d. listening' = {} /\ alive' = FALSE
    BY DEF Lose
  <1>c. UNCHANGED <<exists, tables, rows, subscribed, isOpen, inTxn, uncommitted, due>>
    BY DEF Lose, monitors
  <1>1. TypeOK'
    BY <1>a, <1>b, <1>c, <1>d DEF HeardInv, TypeOK
  <1>2. Bookkeeping'
    BY DEF HeardInv, TypeOK, Bookkeeping, Lose, monitors
  <1>3. Heard'
    BY DEF Heard, Lose, Reaches
  <1>4. QED
    BY <1>1, <1>2, <1>3 DEF HeardInv

\* A new session listens to what all monitors want, and the driver's list is the same.
LEMMA ReconnectStep ==
    ASSUME HeardInv, Reconnect
    PROVE  HeardInv'
  <1>1. TypeOK'
    BY BoundsAssumption DEF HeardInv, TypeOK, Reconnect, Channel, monitors
  <1>2. Bookkeeping'
    BY DEF HeardInv, Bookkeeping, Reconnect, monitors
  <1>3. Heard'
    BY DEF Heard, Reconnect, Resubscribe, Channel, monitors
  <1>4. QED
    BY <1>1, <1>2, <1>3 DEF HeardInv

-----------------------------------------------------------------------------
(* The properties of the specification *)

\* HeardInv is inductive where no transaction is rolled back.
LEMMA NextHeard ==
    ASSUME "rollback" \notin Ops
    PROVE  HeardInv /\ [Next]_vars => HeardInv'
  <1> SUFFICES ASSUME HeardInv, [Next]_vars PROVE HeardInv'
    OBVIOUS
  <1>1. CASE UNCHANGED vars
    BY <1>1 DEF vars, monitors, session, HeardInv, TypeOK, Bookkeeping, Heard, Reaches
  <1>2. CASE Next
    BY <1>2, ConstructStep, DestroyStep, SetMonitorTableStep, AddValueMonitorStep,
       UnsubscribeValuesNotificationsStep, ChangeStep, NotificationReceivedStep, BeginStep, EndStep,
       LoseStep, ReconnectStep DEF Next
  <1>3. QED
    BY <1>1, <1>2

\* Every table of a monitor is listened to by a session that is there and in no
\* transaction, if transactions are not rolled back.
THEOREM MonitorsHear ==
    ASSUME "rollback" \notin Ops
    PROVE  Spec => []TablesHeard
  <1>1. HeardInv => TablesHeard
    BY DEF HeardInv, TypeOK, Heard, TablesHeard
  <1>2. HeardInv /\ [Next]_vars => HeardInv'
    BY NextHeard
  <1>3. QED
    BY <1>1, <1>2, InitHeard, PTL DEF Spec
-----------------------------------------------------------------------------
(* No change is missed *)

\* The i-th notification under way is n, and makes monitor m emit its signal.
SignalAt(m, i, n) ==
    /\ i \in 1 .. Len(queue) /\ queue[i] = n
    /\ n \in tables[m] /\ n \in subscribed

\* The notification of a change that a monitor is owed a signal for is under way,
\* as long as the session of the change is there.
SignalUnderway ==
    \A m \in Monitor :
        <<m, losses>> \in due => alive /\ \E i \in 1 .. Len(queue), n \in Table : SignalAt(m, i, n)

\* It comes nearer with every notification that is received, and nothing but
\* the loss of its session takes it away.
SignalNears ==
    [][\A m \in Monitor, i \in 1 .. Len(queue), n \in Table :
          <<m, losses>> \in due /\ SignalAt(m, i, n) =>
             \/ <<m, losses>> \notin due' \/ losses' > losses
             \/ IF NotificationReceived THEN SignalAt(m, i - 1, n)' ELSE SignalAt(m, i, n)']_vars

\* Only the loss of a session closes the connection, and a signal is owed for a
\* change that was seen by this session or one before it.
DueOK ==
    /\ ~isOpen => ~alive
    /\ \A m \in Monitor, k \in 0 .. MaxLoss : <<m, k>> \in due => k <= losses
    /\ SignalUnderway

\* A step that leaves the notifications, what the monitor monitors and what the
\* driver has of its tables.
LEMMA SignalKept ==
    ASSUME NEW m, NEW i, NEW n \in Table, SignalAt(m, i, n),
           queue' = queue, n \in tables'[m], n \in subscribed'
    PROVE  SignalAt(m, i, n)'
  BY DEF SignalAt

\* What a step makes of a signal that is under way.
LEMMA SignalStep ==
    ASSUME HeardInv, DueOK, [Next]_vars, NEW m \in Monitor, NEW i \in 1 .. Len(queue), NEW n \in Table,
           <<m, losses>> \in due, SignalAt(m, i, n)
    PROVE  \/ <<m, losses>> \notin due' \/ losses' > losses
           \/ IF NotificationReceived THEN SignalAt(m, i - 1, n)' ELSE SignalAt(m, i, n)'
  <1>1. /\ queue \in Seq(Channel) /\ Len(queue) \in Nat /\ n \in Channel
        /\ i \in 1 .. Len(queue) /\ queue[i] = n /\ n \in tables[m] /\ n \in subscribed
        /\ m \in exists /\ losses \in Nat /\ alive
    BY DEF HeardInv, TypeOK, SignalAt, Owed, Channel, DueOK, SignalUnderway
  <1>2. ASSUME ~NotificationReceived, queue' = queue, n \in tables'[m], n \in subscribed'
        PROVE  IF NotificationReceived THEN SignalAt(m, i - 1, n)' ELSE SignalAt(m, i, n)'
    BY <1>2, SignalKept
  <1>3. CASE NotificationReceived
    <2>1. /\ queue # <<>> /\ queue' = Tail(queue) /\ tables' = tables /\ subscribed' = subscribed
          /\ due' = IF Head(queue) \in subscribed
                    THEN due \ Owed({x \in exists : Takes(x, Head(queue))}) ELSE due
      BY <1>3 DEF NotificationReceived, monitors
    <2>2. CASE i = 1
      <3>1. Head(queue) = n /\ m \in {x \in exists : Takes(x, n)}
        BY <1>1, <2>2 DEF Takes
      <3>2. <<m, losses>> \in Owed({x \in exists : Takes(x, n)})
        BY <3>1 DEF Owed, HeardInv, TypeOK
      <3>3. QED
        BY <1>1, <2>1, <3>1, <3>2
    <2>3. CASE i # 1
      <3>1. i - 1 \in 1 .. Len(queue') /\ queue'[i - 1] = n
        BY <1>1, <2>1, <2>3
      <3>2. SignalAt(m, i - 1, n)'
        BY <1>1, <2>1, <3>1 DEF SignalAt
      <3>3. QED
        BY <1>3, <3>2
    <2>4. QED
      BY <2>2, <2>3
  <1>4. ASSUME ~NotificationReceived, NEW x \in Channel, Change(x)
        PROVE  SignalAt(m, i, n)'
    <2>1. /\ tables' = tables /\ subscribed' = subscribed
          /\ queue' = queue \/ queue' = Append(queue, x)
      BY <1>4 DEF Change, monitors
    <2>2. CASE queue' = queue
      BY <1>1, <2>1, <2>2, SignalKept
    <2>3. CASE queue' = Append(queue, x)
      <3>1. i \in 1 .. Len(queue') /\ queue'[i] = n
        BY <1>1, <2>3
      <3>2. QED
        BY <1>1, <2>1, <3>1 DEF SignalAt
    <2>4. QED
      BY <2>1, <2>2, <2>3
  <1>5. CASE Lose
    BY <1>1, <1>5 DEF Lose
  <1>6. CASE Reconnect
    BY <1>1, <1>6 DEF Reconnect, Reaches, DueOK
  <1>7. ASSUME ~NotificationReceived, NEW x \in Monitor, Construct(x)
        PROVE  queue' = queue /\ n \in tables'[m] /\ n \in subscribed'
    BY <1>1, <1>7 DEF Construct, session
  <1>8. ASSUME NEW x \in Monitor, Destroy(x)
        PROVE  \/ <<m, losses>> \notin due'
               \/ queue' = queue /\ n \in tables'[m] /\ n \in subscribed'
    <2>1. /\ due' = due \ Owed({x}) /\ tables' = [tables EXCEPT ![x] = {}]
          /\ subscribed' = subscribed /\ queue' = queue
      BY <1>8 DEF Destroy, session
    <2>2. CASE x = m
      <3>1. <<m, losses>> \in Owed({x})
        BY <2>2 DEF Owed, HeardInv, TypeOK
      <3>2. QED
        BY <2>1, <3>1
    <2>3. CASE x # m
      BY <1>1, <2>1, <2>3 DEF HeardInv, TypeOK
    <2>4. QED
      BY <2>2, <2>3
  <1>9. ASSUME NEW x \in Monitor, NEW t \in Table, SetMonitorTable(x, t)
        PROVE  queue' = queue /\ n \in tables'[m] /\ n \in subscribed'
    BY <1>1, <1>9 DEF SetMonitorTable, Subscribe, HeardInv, TypeOK
  <1>10. ASSUME NEW x \in Monitor, NEW r \in Row, AddValueMonitor(x, r)
         PROVE  queue' = queue /\ n \in tables'[m] /\ n \in subscribed'
    BY <1>1, <1>10 DEF AddValueMonitor, Subscribe
  <1>11. ASSUME NEW x \in Monitor, UnsubscribeValuesNotifications(x)
         PROVE  queue' = queue /\ n \in tables'[m] /\ n \in subscribed'
    BY <1>1, <1>11, ChannelAssumption DEF UnsubscribeValuesNotifications, HeardInv, TypeOK
  <1>12. ASSUME \/ Begin \/ \E committed \in BOOLEAN : End(committed)
                \/ UNCHANGED vars
         PROVE  queue' = queue /\ n \in tables'[m] /\ n \in subscribed'
    BY <1>1, <1>12 DEF Begin, End, vars, monitors, session
  <1>13. QED
    BY <1>2, <1>3, <1>4, <1>5, <1>6, <1>7, <1>8, <1>9, <1>10, <1>11, <1>12 DEF Next

\* A change is queued for every monitor that is owed a signal for it.
LEMMA ChangeQueued ==
    ASSUME HeardInv, DueOK, NEW x \in Channel, Change(x), NEW m \in Monitor,
           <<m, losses>> \in due'
    PROVE  \/ <<m, losses>> \in due
           \/ alive /\ \E i \in 1 .. Len(queue'), n \in Table : SignalAt(m, i, n)'
  <1> SUFFICES ASSUME <<m, losses>> \notin due
               PROVE  alive /\ \E i \in 1 .. Len(queue'), n \in Table : SignalAt(m, i, n)'
    OBVIOUS
  <1>1. /\ queue' = IF alive /\ x \in (IF inTxn THEN uncommitted ELSE listening)
                    THEN Append(queue, x) ELSE queue
        /\ due' = due \cup ({y \in exists : Heeds(y, x)} \X {Session})
        /\ tables' = tables /\ subscribed' = subscribed
    BY DEF Change, monitors
  <1>2. m \in exists /\ Heeds(m, x) /\ Session = losses
    BY <1>1
  <1>3. alive /\ isOpen
    BY <1>2 DEF Session, HeardInv, TypeOK, DueOK
  <1>4. x \in tables[m] /\ x \in Table /\ x \in subscribed
    BY <1>2, <1>3 DEF Heeds, HeardInv, TypeOK, Heard, Reaches
  <1>5. x \in (IF inTxn THEN uncommitted ELSE listening)
    BY <1>2, <1>3, <1>4 DEF Heeds, HeardInv, Heard, Reaches
  <1>6. queue' = Append(queue, x) /\ queue \in Seq(Channel) /\ Len(queue) \in Nat
    BY <1>1, <1>3, <1>5 DEF HeardInv, TypeOK
  <1>7. PICK j \in 1 .. Len(queue') : queue'[j] = x
    <2>1. Len(queue) + 1 \in 1 .. Len(queue') /\ queue'[Len(queue) + 1] = x
      BY <1>6
    <2>2. QED
      BY <2>1
  <1>8. SignalAt(m, j, x)'
    BY <1>1, <1>4, <1>7 DEF SignalAt
  <1>9. QED
    BY <1>3, <1>4, <1>7, <1>8

\* What a step other than a change makes of the signals owed.
LEMMA DueStep ==
    ASSUME HeardInv, DueOK, [Next]_vars, ~(\E x \in Channel : Change(x))
    PROVE  /\ due' \subseteq due
           /\ losses' = losses \/ (losses' = losses + 1 /\ ~alive')
           /\ ~isOpen' => ~alive'
           /\ alive /\ losses' = losses => alive'
  <1>1. losses \in Nat /\ isOpen \in BOOLEAN /\ alive \in BOOLEAN /\ (~isOpen => ~alive)
    BY DEF HeardInv, TypeOK, DueOK
  <1>2. ASSUME NEW m \in Monitor,
               Construct(m) \/ Destroy(m) \/ UnsubscribeValuesNotifications(m)
        PROVE  /\ due' \subseteq due /\ losses' = losses /\ alive' = alive
               /\ ~isOpen' => ~alive'
    BY <1>1, <1>2 DEF Construct, Destroy, UnsubscribeValuesNotifications, session
  <1>3. ASSUME NEW m \in Monitor, NEW n,
               SetMonitorTable(m, n) \/ AddValueMonitor(m, n)
        PROVE  /\ due' \subseteq due /\ losses' = losses /\ alive' = alive
               /\ ~isOpen' => ~alive'
    BY <1>1, <1>3 DEF SetMonitorTable, AddValueMonitor, Subscribe, Attempted
  <1>4. ASSUME NotificationReceived \/ Begin \/ UNCHANGED vars
        PROVE  /\ due' \subseteq due /\ losses' = losses /\ alive' = alive
               /\ ~isOpen' => ~alive'
    <2>1. due' \subseteq due
      BY <1>4 DEF NotificationReceived, Begin, vars
    <2>2. losses' = losses /\ alive' = alive /\ isOpen' = isOpen
      BY <1>4 DEF NotificationReceived, Begin, vars, session
    <2>3. QED
      BY <1>1, <2>1, <2>2
  <1>5. ASSUME NEW committed \in BOOLEAN, End(committed)
        PROVE  /\ due' \subseteq due /\ losses' = losses /\ alive' = alive
               /\ ~isOpen' => ~alive'
    BY <1>1, <1>5 DEF End, Attempted
  <1>6. ASSUME Lose \/ Reconnect
        PROVE  /\ due' = due
               /\ losses' = losses \/ (losses' = losses + 1 /\ ~alive')
               /\ ~isOpen' => ~alive'
               /\ losses' = losses => alive'
    BY <1>1, <1>6 DEF Lose, Reconnect
  <1>7. QED
    <2>1. \/ \E m \in Monitor : \/ Construct(m) \/ Destroy(m) \/ UnsubscribeValuesNotifications(m)
                               \/ \E n : SetMonitorTable(m, n) \/ AddValueMonitor(m, n)
          \/ NotificationReceived \/ Begin \/ (\E committed \in BOOLEAN : End(committed))
          \/ Lose \/ Reconnect \/ UNCHANGED vars
      BY DEF Next
    <2>2. CASE \E m \in Monitor : \/ Construct(m) \/ Destroy(m) \/ UnsubscribeValuesNotifications(m)
                                 \/ \E n : SetMonitorTable(m, n) \/ AddValueMonitor(m, n)
      BY <1>2, <1>3, <2>2
    <2>3. CASE \/ NotificationReceived \/ Begin \/ (\E committed \in BOOLEAN : End(committed))
               \/ UNCHANGED vars
      BY <1>4, <1>5, <2>3
    <2>4. CASE Lose \/ Reconnect
      BY <1>6, <2>4
    <2>5. QED
      BY <2>1, <2>2, <2>3, <2>4

LEMMA NextDue ==
    ASSUME HeardInv, DueOK, [Next]_vars
    PROVE  DueOK'
  <1>1. HeardInv /\ losses \in Nat /\ losses \in 0 .. MaxLoss
    BY DEF HeardInv, TypeOK
  <1>2. ASSUME NEW x \in Channel, Change(x) PROVE DueOK'
    <2>1. losses' = losses /\ alive' = alive /\ isOpen' = isOpen
      BY <1>2 DEF Change
    <2>2. \A m \in Monitor, k \in 0 .. MaxLoss : <<m, k>> \in due' => k <= losses'
      BY <1>1, <1>2, <2>1 DEF Change, Session, DueOK
    <2>3. ASSUME NEW m \in Monitor, <<m, losses>> \in due'
          PROVE  alive' /\ \E i \in 1 .. Len(queue'), n \in Table : SignalAt(m, i, n)'
      <3>1. CASE <<m, losses>> \in due
        <4>1. PICK i \in 1 .. Len(queue), n \in Table : SignalAt(m, i, n) /\ alive
          BY <3>1 DEF DueOK, SignalUnderway
        <4>2. \E j \in {i - 1, i} : SignalAt(m, j, n)'
          BY <1>1, <2>1, <2>3, <3>1, <4>1, SignalStep
        <4>3. QED
          BY <2>1, <4>1, <4>2 DEF SignalAt
      <3>2. CASE <<m, losses>> \notin due
        BY <1>2, <2>1, <2>3, <3>2, ChangeQueued
      <3>3. QED
        BY <3>1, <3>2
    <2>4. QED
      BY <2>1, <2>2, <2>3 DEF DueOK, SignalUnderway
  <1>3. ASSUME ~(\E x \in Channel : Change(x)) PROVE DueOK'
    <2>1. /\ due' \subseteq due
          /\ losses' = losses \/ (losses' = losses + 1 /\ ~alive')
          /\ ~isOpen' => ~alive'
          /\ alive /\ losses' = losses => alive'
      BY <1>3, DueStep
    <2>2. \A m \in Monitor, k \in 0 .. MaxLoss : <<m, k>> \in due' => k <= losses
      BY <2>1 DEF DueOK
    <2>3. ASSUME NEW m \in Monitor, <<m, losses'>> \in due'
          PROVE  alive' /\ \E i \in 1 .. Len(queue'), n \in Table : SignalAt(m, i, n)'
      <3>1. losses' = losses
        <4>1. <<m, losses'>> \in Owed(exists)
          BY <2>1, <2>3 DEF HeardInv, TypeOK
        <4>2. losses' \in 0 .. MaxLoss
          BY <4>1 DEF Owed
        <4>3. losses' <= losses
          BY <2>2, <2>3, <4>2
        <4>4. QED
          BY <1>1, <2>1, <4>3
      <3>2. <<m, losses>> \in due
        BY <2>1, <2>3, <3>1
      <3>3. PICK i \in 1 .. Len(queue), n \in Table : SignalAt(m, i, n) /\ alive
        BY <3>2 DEF DueOK, SignalUnderway
      <3>4. \E j \in {i - 1, i} : SignalAt(m, j, n)'
        BY <1>1, <2>3, <3>1, <3>2, <3>3, SignalStep
      <3>5. QED
        BY <2>1, <3>1, <3>3, <3>4 DEF SignalAt
    <2>4. \A m \in Monitor, k \in 0 .. MaxLoss : <<m, k>> \in due' => k <= losses'
      BY <1>1, <2>1, <2>2
    <2>5. QED
      BY <2>1, <2>3, <2>4 DEF DueOK, SignalUnderway
  <1>4. QED
    BY <1>2, <1>3

\* Where transactions are not rolled back no change is missed: as long as its
\* session lives, the notification of a change that a monitor is owed a signal
\* for is queued, subscribed to and of a table the monitor has, and each
\* notification that is received brings it nearer.
THEOREM NoChangeIsMissed ==
    ASSUME "rollback" \notin Ops
    PROVE  Spec => []SignalUnderway /\ SignalNears
  <1> DEFINE A == \A m \in Monitor, i \in 1 .. Len(queue), n \in Table :
                     <<m, losses>> \in due /\ SignalAt(m, i, n) =>
                        \/ <<m, losses>> \notin due' \/ losses' > losses
                        \/ IF NotificationReceived THEN SignalAt(m, i - 1, n)'
                           ELSE SignalAt(m, i, n)'
  <1>1. Init => HeardInv /\ DueOK
    BY InitHeard DEF Init, DueOK, SignalUnderway
  <1>2. HeardInv /\ DueOK /\ [Next]_vars => HeardInv' /\ DueOK'
    BY NextHeard, NextDue
  <1>3. HeardInv /\ DueOK /\ [Next]_vars => A
    BY SignalStep
  <1>4. DueOK => SignalUnderway
    BY DEF DueOK
  <1>5. QED
    BY <1>1, <1>2, <1>3, <1>4, PTL DEF Spec, SignalNears
================================================================================
