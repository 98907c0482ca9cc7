------------------------------- MODULE SqlMonitor -------------------------------
(***************************************************************************)
(* SqlMonitor: objects of one connection that share the driver's           *)
(* subscriptions, and the notifications the server sends for changed       *)
(* tables and rows.  A worker's connection may be lost; the next query     *)
(* finds out, reopens it and subscribes again.                             *)
(*                                                                         *)
(* LISTEN and UNLISTEN are part of the transaction they are executed in,   *)
(* and a session receives its notifications between transactions.          *)
(***************************************************************************)
EXTENDS Integers, Sequences, FiniteSets

CONSTANTS
    Monitor,    \* SqlMonitor objects
    Table,      \* notifications of monitored tables
    Row,        \* notifications of monitored rows
    Ops,        \* what happens, a subset of AllOps
    MaxLoss,    \* bound on the losses of the connection
    MaxQueue    \* bound on the notifications under way

AllOps == {"destroy", "value", "unsubscribe", "transaction", "inside", "rollback", "change"}

ASSUME ChannelAssumption == Table \cap Row = {}
ASSUME BoundsAssumption == Ops \subseteq AllOps /\ MaxLoss \in Nat /\ MaxQueue \in Nat

Channel == Table \cup Row

VARIABLES
    exists,      \* monitors that are constructed, and registered
    tables,      \* m_tables of each
    rows,        \* m_monitoredValues of each
    subscribed,  \* subscribedToNotifications() of the driver
    isOpen,      \* what the driver believes
    alive,       \* the session exists
    listening,   \* the channels it listens to
    inTxn,       \* the session is in a transaction ...
    uncommitted, \* ... which began with these channels
    queue,       \* notifications sent to the session
    due,         \* history: monitors owed a signal, with the session of the change
    losses       \* number of losses, and of the sessions that are gone

monitors == <<exists, tables, rows>>
session == <<alive, listening, inTxn, uncommitted, queue, losses>>
vars == <<monitors, subscribed, isOpen, session, due>>

-----------------------------------------------------------------------------
Init ==
    /\ exists = {}
    /\ tables = [m \in Monitor |-> {}] /\ rows = [m \in Monitor |-> {}]
    /\ subscribed = {} /\ isOpen = TRUE
    /\ alive = TRUE /\ listening = {}
    /\ inTxn = FALSE /\ uncommitted = {}
    /\ queue = <<>>
    /\ due = {}
    /\ losses = 0

\* A driver command reaches the session, or finds out that it is gone.
Reaches == isOpen /\ alive
Attempted == isOpen' = (isOpen /\ alive)

\* A session is numbered by the losses before it.
Session == IF alive THEN losses ELSE losses - 1

Owed(M) == M \X (0 .. MaxLoss)

\* Whether a monitor may be changed in the middle of a transaction.
MaySubscribe == inTxn => "inside" \in Ops

Construct(m) ==
    /\ m \notin exists
    /\ exists' = exists \cup {m}
    /\ UNCHANGED <<tables, rows, subscribed, isOpen, session, due>>

\* Mutant: the destructor ends the subscriptions of its tables.
DestroyUnsubscribing(m) ==
    /\ "destroy" \in Ops /\ m \in exists
    /\ exists' = exists \ {m}
    /\ tables' = [tables EXCEPT ![m] = {}] /\ rows' = [rows EXCEPT ![m] = {}]
    /\ due' = due \ Owed({m})
    /\ subscribed' = subscribed \ tables[m]
    /\ listening' = listening \ tables[m]
    /\ UNCHANGED <<isOpen, alive, inTxn, uncommitted, queue, losses>>

\* ~SqlMonitor leaves the subscriptions, which others may share.
Destroy(m) ==
    /\ "destroy" \in Ops /\ m \in exists
    /\ exists' = exists \ {m}
    /\ tables' = [tables EXCEPT ![m] = {}] /\ rows' = [rows EXCEPT ![m] = {}]
    /\ due' = due \ Owed({m})
    /\ UNCHANGED <<subscribed, isOpen, session>>

\* subscribe(): a notification the driver already has is left alone.
Subscribe(n) ==
    IF n \in subscribed
    THEN UNCHANGED <<subscribed, listening, isOpen>>
    ELSE /\ subscribed' = IF Reaches THEN subscribed \cup {n} ELSE subscribed
         /\ listening' = IF Reaches THEN listening \cup {n} ELSE listening
         /\ Attempted

\* One table of setMonitorTables.
SetMonitorTable(m, t) ==
    /\ MaySubscribe
    /\ m \in exists /\ t \notin tables[m]
    /\ tables' = [tables EXCEPT ![m] = @ \cup {t}]
    /\ Subscribe(t)
    /\ UNCHANGED <<exists, rows, alive, inTxn, uncommitted, queue, losses, due>>

AddValueMonitor(m, r) ==
    /\ MaySubscribe
    /\ "value" \in Ops /\ m \in exists
    /\ rows' = [rows EXCEPT ![m] = @ \cup {r}]
    /\ Subscribe(r)
    /\ UNCHANGED <<exists, tables, alive, inTxn, uncommitted, queue, losses, due>>

UnsubscribeValuesNotifications(m) ==
    /\ MaySubscribe
    /\ "unsubscribe" \in Ops /\ m \in exists /\ rows[m] # {}
    /\ rows' = [rows EXCEPT ![m] = {}]
    /\ subscribed' = IF Reaches THEN subscribed \ rows[m] ELSE subscribed
    /\ listening' = IF Reaches THEN listening \ rows[m] ELSE listening
    /\ isOpen' = IF rows[m] \cap subscribed = {} THEN isOpen ELSE isOpen /\ alive
    /\ UNCHANGED <<exists, tables, alive, inTxn, uncommitted, queue, losses, due>>

-----------------------------------------------------------------------------
(* Notifications *)

\* A LISTEN in a transaction is in effect from its commit on.
Heeds(m, n) == n \in tables[m] /\ (inTxn => n \in uncommitted)

\* Some client changes a table or a row; its rule notifies the sessions that
\* listen.
Change(n) ==
    /\ "change" \in Ops
    /\ Len(queue) < MaxQueue
    /\ queue' = IF alive /\ n \in (IF inTxn THEN uncommitted ELSE listening)
                THEN Append(queue, n) ELSE queue
    /\ due' = due \cup ({m \in exists : Heeds(m, n)} \X {Session})
    /\ UNCHANGED <<monitors, subscribed, isOpen, alive, listening, inTxn, uncommitted, losses>>

\* Mutant: only monitored values are looked at.
TakesValuesOnly(m, n) == n \in rows[m]

\* The table branch of notificationReceived of monitor m.
Takes(m, n) == n \in tables[m]

\* The driver hands a notification to all monitors; tablesChanged is emitted.
NotificationReceived ==
    /\ queue # <<>> /\ alive /\ isOpen /\ ~inTxn
    /\ queue' = Tail(queue)
    /\ due' = IF Head(queue) \in subscribed
              THEN due \ Owed({m \in exists : Takes(m, Head(queue))})
              ELSE due
    /\ UNCHANGED <<monitors, subscribed, isOpen, alive, listening, inTxn, uncommitted, losses>>

-----------------------------------------------------------------------------
(* The connection *)

Begin ==
    /\ "transaction" \in Ops
    /\ ~inTxn /\ Reaches
    /\ inTxn' = TRUE /\ uncommitted' = listening
    /\ UNCHANGED <<monitors, subscribed, isOpen, alive, listening, queue, losses, due>>

\* The transaction ends; a rollback undoes its LISTEN and UNLISTEN.
End(committed) ==
    /\ inTxn
    /\ ~committed => "rollback" \in Ops
    /\ inTxn' = FALSE /\ uncommitted' = {}
    /\ listening' = IF committed \/ ~alive THEN listening ELSE uncommitted
    /\ Attempted
    /\ UNCHANGED <<monitors, subscribed, alive, queue, losses, due>>

Lose ==
    /\ losses < MaxLoss /\ alive
    /\ losses' = losses + 1
    /\ alive' = FALSE
    /\ listening' = {} /\ queue' = <<>>
    /\ UNCHANGED <<monitors, subscribed, isOpen, inTxn, uncommitted, due>>

\* Everything is unsubscribed before the monitors subscribe again.
Resubscribe == Channel

\* A query on the lost connection: its command fails, checkDbIsAlive opens
\* the connection and resubscribes the monitors that are registered.
Reconnect ==
    LET wanted == UNION {tables[m] \cup rows[m] : m \in exists}
    IN  /\ ~Reaches
        /\ ~inTxn
        /\ alive' = TRUE /\ isOpen' = TRUE
        /\ subscribed' = wanted
        /\ listening' = wanted \cap Resubscribe
        /\ queue' = <<>>
        /\ UNCHANGED <<monitors, inTxn, uncommitted, losses, due>>

Next ==
    \/ \E m \in Monitor :
          \/ Construct(m) \/ Destroy(m) \/ UnsubscribeValuesNotifications(m)
          \/ \E t \in Table : SetMonitorTable(m, t)
          \/ \E r \in Row : AddValueMonitor(m, r)
    \/ \E n \in Channel : Change(n)
    \/ NotificationReceived
    \/ Begin \/ (\E committed \in BOOLEAN : End(committed))
    \/ Lose \/ Reconnect

Spec == Init /\ [][Next]_vars

\* A transaction, which is a scope of the program, ends; between two of them
\* the thread comes back to its event loop again and again; and the program
\* goes on using its connection.
FairSpec ==
    /\ Spec
    /\ SF_vars(NotificationReceived)
    /\ WF_vars(\E committed \in BOOLEAN : End(committed))
    /\ WF_vars(Reconnect)

-----------------------------------------------------------------------------
(* Properties *)

\* Every variable stays within its type.
TypeOK ==
    /\ exists \subseteq Monitor
    /\ tables \in [Monitor -> SUBSET Table] /\ rows \in [Monitor -> SUBSET Row]
    /\ subscribed \subseteq Channel /\ listening \subseteq Channel
    /\ isOpen \in BOOLEAN /\ alive \in BOOLEAN /\ inTxn \in BOOLEAN
    /\ uncommitted \subseteq Channel
    /\ queue \in Seq(Channel) /\ Len(queue) <= MaxQueue
    /\ due \subseteq Owed(exists)
    /\ losses \in 0 .. MaxLoss

\* A session that is there and in no transaction listens to every table a
\* monitor has: whoever else constructs, destroys or resubscribes monitors of
\* the same tables, and however often the session was lost.
TablesHeard ==
    Reaches /\ ~inTxn => \A m \in exists : tables[m] \subseteq listening

\* The same of the rows a monitor was asked to watch.
\* Promised, and not kept: see "Disagreements" in the README.
ValuesHeard ==
    Reaches /\ ~inTxn => \A m \in exists : rows[m] \subseteq listening

\* The signal for a changed table is emitted, also for a change during a
\* transaction of the monitor's own connection, unless the session of the
\* change is lost before.
ChangeSignalled ==
    \A m \in Monitor, k \in 0 .. MaxLoss :
        <<m, k>> \in due ~> <<m, k>> \notin due \/ losses > k
=============================================================================
