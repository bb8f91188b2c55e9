SPECIFICATION FairSpec
CONSTANTS
    NumHosts = 2
    WorkersPerHost = 1
    Kind = "Mix"
    ParallelAsync = 2
    ReadAll = FALSE
    FullTo <- OneWay
    MaxBlocks = 2
    MayHold <- NoPairs
    MustHold <- OneWay
    Limit <- MCLimit
    Partial <- MCPartial
INVARIANT CleanStream
PROPERTY StreamsClose
PROPERTY ImplementsChannels
