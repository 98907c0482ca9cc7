SPECIFICATION FairSpec
CONSTANTS
    m1 = m1
    m2 = m2
    t1 = t1
    t2 = t2
    r1 = r1
    Monitor = {m1, m2}
    Table = {t1, t2}
    Row = {r1}
    Ops = {"destroy", "value", "unsubscribe", "transaction", "inside", "change"}
    MaxLoss = 2
    MaxQueue = 2
INVARIANTS
    TablesHeard
PROPERTIES
    ChangeSignalled
