SPECIFICATION Spec
CONSTANTS
    NumHosts = 2
    WorkersPerHost = 2
    Kind = "Cat"
    ParallelAsync = 1
    ReadAll = TRUE
    FullTo <- OneAcross
    MaxBlocks = 1
    MayHold <- Across
    MustHold <- NoPairs
    Limit <- MCLimit
    Partial <- MCPartial
INVARIANT TypeOK
INVARIANT NoDie
INVARIANT Delivery
INVARIANT NoStreamRemains
INVARIANT CloseIsLast
