SPECIFICATION PipelineSpec
CONSTANTS
    Lines = {1, 2}
    Goods = {p1, p2}
    Stocks <- MCStocks
    Stray = stray
    Small = 2
    AgentLoops = 2
    Setups <- MCSmartSetups
    MaxChanges = 1
    Nothing = Nothing
INVARIANTS
    CacheFollowsImport
CHECK_DEADLOCK FALSE
