CONSTANTS
    Keys = {k1, k2}
    ZeroKey = zk
    IVs = {v1, v2}
    ZeroIV = zv
    NR = 2
    KeyWords = 1
    DEPTH = 4
    CtrMax = 3
    MaxAAD = 1
    MaxData = 2
    NoMessage = NoMessage
    NoVerdict = NoVerdict
    Resettable = FALSE
SPECIFICATION Spec
INVARIANTS CoreTypeOK KeyFresh Drained
PROPERTY ImplementsService
