SPECIFICATION ServicesSpec
CONSTANTS
    Lines = {1, 2}
    Goods = {p1, p2}
    Stocks <- MCStocks
    Stray = stray
    Small = 1
    AgentLoops = 2
    Setups <- MCSetups
    MaxChanges = 1
    Nothing = Nothing
    Callers = {1, 2}
    Threshold = 3
    Recovery = 2
    People = {u1, u2}
    Calls = {1, 2}
    OtherRoles = {"operator"}
    MaxRequests = 2
    Missing = Missing
    Requests = {1, 2}
    MaxHits = 3
    MaxAttempts = 2
    Window = 2
    BlockTime = 3
    MaxOutages = 1
    Processes = {api, worker}
    Tasks = {1, 2}
    Fields = {f, g}
    Values = {0, 1}
    Default = 0
    Unset = Unset
    MaxUpdates = 2
    MaxTrouble = 1
    Pairs <- MCPairs
    Products = {a, b, c}
    SmallCatalog = 2
    ListLimit = 2
    RelaxedLimit = 1
    TopN = 2
    RrfK = 60
    NotYet = NotYet
    Items = {1, 2, 3}
    Nameless = {2}
    Groups = {1, 2, 3}
    Nowhere = 0
    Homes <- MCHomes
    Trees <- MCTrees
    GroupLimit = 2
    MaxDepth = 1
    PageSize = 2
    MaxEdits = 2
    Files <- MCFiles
    Blank = Blank
    HeaderRows = 5
    SampleRows = 3
    Contents <- MCContents
    Null = Null
    MaxCommands = 2
    MaxInputs = 4
    BatchSize = 2
    MaxRetries = 3
    RankTop = 1
    Scores <- MCScores
    MaxScored = 2
INVARIANTS
    ServicesTypeOK
    ErrorHasCause
    ResultIsCoherent
    TripNeedsRun
    AdminRemains
    ResetForcesChange
    GuessesBounded
    UpdatesSurvive
    OnlySavedSettings
    AutoMatchIsEarned
    FusionMonotone
    FetchComplete
    TablesAreRead
    SchemaIsDeclared
    AnswersInPlace
PROPERTIES
    WaitingEnds
    RowsKept
CHECK_DEADLOCK FALSE
