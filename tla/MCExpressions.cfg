SPECIFICATION Spec
CONSTANTS
    v1 = v1
    v2 = v2
    t1 = t1
    t2 = t2
    c1 = c1
    c2 = c2
    x = x
    y = y
    a = a
    inner = inner
    outer = outer
    asc = asc
    desc = desc
    Missing = Missing
    Default = Default
    Variable = {v1, v2}
    Kinds = {"select", "insert", "delete"}
    Table = {t1, t2}
    Condition = {c1, c2}
    Column = {x, y}
    JoinType = {inner, outer}
    SortOrder = {asc, desc}
    Value = {a}
    Ops = {"stored"}
    MaxCalls = 6
SYMMETRY Symmetric
INVARIANT StatementSays
CHECK_DEADLOCK FALSE
