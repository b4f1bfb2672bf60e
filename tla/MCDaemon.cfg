SPECIFICATION FairSpec
CONSTANTS
    a = a
    b = b
    Clients = {a, b}
    Requests <- ClassesOf
    Backlog = 1
    MaxTries = 2
    MaxFaults = 2
INVARIANTS
    TypeOK
    ReportsSettle
PROPERTIES
    NoLateEffect
    Served
    ComesBack
CHECK_DEADLOCK FALSE
