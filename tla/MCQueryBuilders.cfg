SPECIFICATION BuildersSpec
CONSTANTS
    b1 = b1
    b2 = b2
    b3 = b3
    i = i
    u = u
    d = d
    v = v
    w = w
    s1 = s1
    s2 = s2
    t1 = t1
    t2 = t2
    Now = Now
    Null = Null
    Default = Default
    Unset = Unset
    Selects = {b1, b2, b3}
    Inserts = {i}
    Updates = {u}
    Deletes = {d}
    Column = {1,2}
    Value = {v, w}
    SortColumn = {s1, s2}
    LockTable = {t1}
    Reuse = FALSE
    MaxItems = 2
    MaxAssemblies = 2
SYMMETRY Symmetric
PROPERTIES
    AssemblyAligned
