SPECIFICATION FairSpec
CONSTANTS
    t1 = t1
    t2 = t2
    None = None
    Thread = {t1, t2}
    MaxFailures = 1
    MaxCalls = 2
INVARIANTS
    OneDialog
    HelperAlive
    CleanReturn
    VisibleIsShown
PROPERTIES
    QueriesReturn
