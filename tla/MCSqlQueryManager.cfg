SPECIFICATION FairSpec
CONSTANTS
    main = main
    worker = worker
    q1 = q1
    q2 = q2
    q3 = q3
    m1 = m1
    s1 = s1
    v1 = v1
    None = None
    Conn = {main, worker}
    MainConn = {main}
    Query = {q1, q2, q3}
    Monitor = {m1}
    Stmt = {s1}
    Value = {v1}
    Programs <- TwoPrograms
    MaxRetry = 1
    MaxLoss = 1
    MaxCalls = 4
CHECK_DEADLOCK FALSE
INVARIANTS
    ExecFresh
    BoundKept
    MonitorsHeard
    RegistryExact
    CacheFresh
PROPERTIES
    CallsReturn
