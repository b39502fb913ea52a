SPECIFICATION Spec
CONSTANTS
    Products = {1}
    Keys = {"k1"}
    Texts = {"t1", "t2"}
    Models = {"m1"}
    Jobs = {j1, j2, j3}
    Inputs <- MCChanged
    BatchSize = 1
    CatalogSlots = 2
    MaxTries = 1
    MaxFaults = 0
    Providers = {"hosted"}
    None = None
INVARIANT RebuildsEmbeddings
CHECK_DEADLOCK FALSE
