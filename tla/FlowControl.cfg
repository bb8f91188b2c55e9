SPECIFICATION MCSpec
CONSTANT Cases <- MCCases
INVARIANTS TypeOK Results PointersAlive OneUserPerConnection Synchronises
PROPERTY EveryCallReturns
