SPECIFICATION FairSpec
CONSTANTS
    a = a
    b = b
    Client = {a, b}
    Old = 1
    Targets = {2, 3, 4}
    Script = {2, 3}
    Table = {1, 2}
    Column = {1, 2}
    Trigger = {1}
    Faults = {"crash", "refuse", "deferred", "decline"}
    MaxFault = 3
INVARIANTS
    ScriptsOnce
    VersionHonest
    SchemaFirst
    CompleteUnlessCut
PROPERTIES
    RerunSucceeds
    Updated
