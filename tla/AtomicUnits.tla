------------------------------ MODULE AtomicUnits ------------------------------
(***************************************************************************)
(* What transactions promise to the program that uses them: the statements *)
(* of a connection form units; a unit reaches the database as a whole, at  *)
(* its commit, or not at all; and what the program is told is true.        *)
(* SqlTransaction implements this module on a connection whose loss ends   *)
(* the process.                                                            *)
(***************************************************************************)
CONSTANTS Conn, Stmt

VARIABLES
    data,       \* the statements whose effect is in the database
    unit,       \* those acknowledged in the unit under way
    committed,  \* those of the units whose commit was acknowledged
    discarded   \* those of the units whose rollback was acknowledged

vars == <<data, unit, committed, discarded>>

TypeOK ==
    /\ data \subseteq Stmt /\ committed \subseteq Stmt /\ discarded \subseteq Stmt
    /\ unit \in [Conn -> SUBSET Stmt]

Init ==
    /\ data = {}
    /\ unit = [c \in Conn |-> {}]
    /\ committed = {} /\ discarded = {}

Fresh(s) == s \notin data \cup discarded /\ \A c \in Conn : s \notin unit[c]

\* A statement outside of a unit takes effect at once.
Autocommit(s) ==
    /\ Fresh(s)
    /\ data' = data \cup {s}
    /\ UNCHANGED <<unit, committed, discarded>>

Add(c, s) ==
    /\ Fresh(s)
    /\ unit' = [unit EXCEPT ![c] = @ \cup {s}]
    /\ UNCHANGED <<data, committed, discarded>>

\* The whole unit reaches the database, and the program may not live to be
\* told.
Commit(c) ==
    /\ data' = data \cup unit[c]
    /\ UNCHANGED <<unit, committed, discarded>>

CommitAcknowledged(c) ==
    /\ data' = data \cup unit[c]
    /\ committed' = committed \cup unit[c]
    /\ unit' = [unit EXCEPT ![c] = {}]
    /\ UNCHANGED discarded

RollbackAcknowledged(c) ==
    /\ unit[c] \cap data = {}
    /\ discarded' = discarded \cup unit[c]
    /\ unit' = [unit EXCEPT ![c] = {}]
    /\ UNCHANGED <<data, committed>>

Next ==
    \/ \E s \in Stmt : Autocommit(s)
    \/ \E c \in Conn : \/ Commit(c) \/ CommitAcknowledged(c) \/ RollbackAcknowledged(c)
                       \/ \E s \in Stmt : Add(c, s)

Spec == Init /\ [][Next]_vars
=============================================================================
