SPECIFICATION ConditionsSpec
CONSTANTS
    where = where
    nested = nested
    x = x
    y = y
    z = z
    a = a
    upperA = upperA
    b = b
    p = p
    upperP = upperP
    Null = Null
    Lowered <- LoweredText
    Name = {where, nested}
    Column = {x}
    Text = {a, upperA}
    Placeholder = {upperP}
    Compare = {"Equals", "IsNot"}
    Ops = {"value", "null", "placeholder", "column", "nest", "logic", "case", "expression"}
    MaxTerms = 3
    MaxNests = 1
SYMMETRY Symmetric
INVARIANT WhereMeant
CHECK_DEADLOCK FALSE
