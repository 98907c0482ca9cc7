SPECIFICATION FairSpec
CONSTANTS
    c1 = c1
    c2 = c2
    t1 = t1
    t2 = t2
    t3 = t3
    s1 = s1
    s2 = s2
    Conn = {c1, c2}
    MainConn = {c1}
    Txn = {t1, t2}
    Stmt = {s1}
    Faults = {"loss", "lostReply", "stmtError"}
    Catches = {TRUE, FALSE}
    MaxRetry = 1
    MaxLoss = 2
INVARIANTS
    TypeOK
    CountMatches
    NoOrphan
PROPERTIES
    CallsReturn
    ExceptionEndsTransaction
