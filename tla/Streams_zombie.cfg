SPECIFICATION Spec
CONSTANTS
    NumHosts = 2
    WorkersPerHost = 2
    Kind = "Cat"
    ParallelAsync = 1
    ReadAll = TRUE
    FullTo <- NoPairs
    MaxBlocks = 0
    MayHold <- NoPairs
    MustHold <- ToLast
    Limit <- MCLimit
    Partial <- MCPartial
INVARIANT NoStreamRemains
