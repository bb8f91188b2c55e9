SPECIFICATION Spec
INVARIANTS
    OperationsMatchArrays
    
    ContainersKeepAll
    AlgorithmsMatch
    LayersBelowHold
PROPERTIES
    PoolKeepsReserve
    WaitsEnd
CHECK_DEADLOCK FALSE
