SPECIFICATION Spec
CONSTANTS
    c1 = c1
    c2 = c2
    t1 = t1
    t2 = t2
    t3 = t3
    s1 = s1
    s2 = s2
    Conn = {c1}
    MainConn = {c1}
    Txn = {t1, t2, t3}
    Stmt = {s1, s2}
    Faults = {"loss", "lostReply", "stmtError", "crash"}
    Catches = {FALSE}
    MaxRetry = 1
    MaxLoss = 1
INVARIANTS
    PromisedDurable
    DiscardedUndone
    UnitAtomic
    AtMostOnce
PROPERTIES
    OnlyOutermostCommits
    UnitsImplemented
