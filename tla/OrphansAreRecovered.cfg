SPECIFICATION Spec
CONSTANTS
    Requests = {r1}
    Items = {i1, i2}
    Handlers = {h1}
    Endpoints = {"batch"}
    MaxRetries = 0
    MaxFaults = 2
CHECK_DEADLOCK FALSE
PROPERTIES
    OrphansAreRecovered
