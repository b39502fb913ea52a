SPECIFICATION FairSpec
CONSTANTS
    Requests = {r1}
    Items = {i1, i2}
    Handlers = {h1, h2}
    Endpoints = {"upload", "batch", "smart"}
    MaxRetries = 1
    MaxFaults = 2
CHECK_DEADLOCK FALSE
INVARIANTS
    TypeOK
    StuckHasCause
    DoneHasResults
PROPERTIES
    QueueDrains
    RecoveredIsDone
