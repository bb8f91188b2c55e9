SPECIFICATION FairSpec
CONSTANTS
    Client = {c1, c2}
    Conn = {x1, x2}
    Self = Self
    MaxJobs = 1
INVARIANT TypeOK
INVARIANT NoLostWakeUp
INVARIANT NothingLeftBehind
PROPERTY JobsRun
PROPERTY TerminateReturns
