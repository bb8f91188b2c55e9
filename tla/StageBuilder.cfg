SPECIFICATION Spec
CONSTANTS
    Programs <- MCPrograms
    MaxKeeps = 2
    MaxDrops = 1
    Consume = TRUE
    Nested = FALSE
    Asserts = FALSE
    MemLimit = 6
    PreOpMemUse <- MCPreOpMemUse
    ExecuteMemUse <- MCExecuteMemUse
    PushDataMemUse <- MCPushDataMemUse
INVARIANTS TypeOK CompleteInput Registered ParentsFirst KeepSuffices
PROPERTY MemoryShared
