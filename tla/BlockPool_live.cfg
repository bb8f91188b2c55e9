SPECIFICATION FairSpec
CONSTANTS
    b1 = b1
    b2 = b2
    e1 = e1
    w1 = w1
    w2 = w2
    NoBlock = NoBlock
    Block = {b1, e1}
    ExtBlock = {e1}
    Worker = {w1, w2}
    Size <- MCSize
    SoftLimit = 1
    HardLimit = 1
    Reserve = {1}
    MaxRetry = 1
    MaxPins = 2
    OverlappingPins = FALSE
INVARIANT
    ByteAccounting
PROPERTIES
    CallsReturn
    DestructorReturns
