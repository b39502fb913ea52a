\* A review and a retry.
SPECIFICATION Spec
CONSTANTS
    Items = {i1, i2}
    Request = request
    Users = {u1, u2}
    Products = {p1}
    Unknown = unknown
    Sessions = {s1, s2}
    Bodies <- MCBodies
    MaxEntries = 1
    MaxTransactions = 2
    None = None
PROPERTIES
    ClearedIsPending
CHECK_DEADLOCK FALSE
