\* Two transactions, bulk reviews of up to two entries.
SPECIFICATION Spec
CONSTANTS
    Items = {i1, i2}
    Request = request
    Users = {u1, u2}
    Products = {p1}
    Unknown = unknown
    Sessions = {s1, s2}
    Bodies <- MCBulkBodies
    MaxEntries = 2
    MaxTransactions = 2
    None = None
PROPERTIES
    EveryTransactionEnds
CHECK_DEADLOCK FALSE
