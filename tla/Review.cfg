\* Three transactions of any kind at a time or in turn, two items, two reviewers.
SPECIFICATION Spec
CONSTANTS
    Items = {i1, i2}
    Request = request
    Users = {u1, u2}
    Products = {p1}
    Unknown = unknown
    Sessions = {s1, s2, s3}
    Bodies <- MCBodies
    MaxEntries = 1
    MaxTransactions = 3
    None = None
SYMMETRY MCSymmetry
INVARIANTS
    TypeOK
    ReviewsWhatItSaw
    DeadlockHasCause
PROPERTIES
    OthersDecisionKept
CHECK_DEADLOCK FALSE
