SPECIFICATION Spec
CONSTANTS
    b1 = b1
    b2 = b2
    e1 = e1
    w1 = w1
    w2 = w2
    NoBlock = NoBlock
    Block = {b1, b2}
    ExtBlock = {}
    Worker = {w1, w2}
    Size <- MCSize
    SoftLimit = 2
    HardLimit = 3
    Reserve = {1}
    MaxRetry = 1
    MaxPins = 1
    OverlappingPins = TRUE
SYMMETRY WorkerSymmetry
INVARIANT NoDie
