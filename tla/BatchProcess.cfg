SPECIFICATION FairSpec
CONSTANTS
    Items = {i1, i2, i3}
    MaxConcurrency = 2
    CommitEvery = 1
INVARIANTS
    TypeOK
    CountersMatchRows
    DoneIsComplete
    CandidatesMatchRow
PROPERTIES
    TerminalIsFinal
    EveryRunEnds
    ImplementsAbs
