SPECIFICATION FairSpec
CONSTANTS
    a = a
    b = b
    Clients = {a, b}
    Requests <- ClassesOf
    Backlog = 1
    MaxTries = 2
    MaxFaults = 1
PROPERTY
    CorruptionCrashes
CHECK_DEADLOCK FALSE
