SPECIFICATION Spec
CONSTANTS
    NumHosts = 2
    WorkersPerHost = 1
    Kind = "Cat"
    ParallelAsync = 2
    ReadAll = TRUE
    FullTo <- OneWay
    MaxBlocks = 1
    MayHold <- NoPairs
    MustHold <- NoPairs
    Limit <- MCLimit
    Partial <- MCPartial
INVARIANT Delivery
