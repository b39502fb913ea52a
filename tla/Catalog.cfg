SPECIFICATION FairSpec
CONSTANTS
    Products = {1, 2}
    Keys = {"k1", "k2"}
    Texts = {"t1", "t2"}
    Models = {"m1", "m2"}
    Jobs = {j1, j2}
    Inputs <- MCInputs
    BatchSize = 1
    CatalogSlots = 2
    MaxTries = 2
    MaxFaults = 1
    Providers = {"hosted", "none"}
    None = None
INVARIANTS
    TypeOK
    ImportsExclude
    OneActive
    ReindexCovers
    FileHasJob
PROPERTIES
    JobsEnd
CHECK_DEADLOCK FALSE
