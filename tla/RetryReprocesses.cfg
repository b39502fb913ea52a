SPECIFICATION Spec
CONSTANTS
    Requests = {r1}
    Items = {i1, i2}
    Handlers = {h1}
    Endpoints = {"upload"}
    MaxRetries = 1
    MaxFaults = 0
CHECK_DEADLOCK FALSE
INVARIANTS
    RetryReprocesses
