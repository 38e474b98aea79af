CONSTANTS
    Keys = {k1}
    ZeroKey = zk
    IVs = {v1}
    ZeroIV = zv
    NR = 1
    KeyWords = 1
    DEPTH = 4
    CtrMax = 2
    MaxAAD = 1
    MaxData = 3
    NoMessage = NoMessage
    NoVerdict = NoVerdict
    Resettable = FALSE
SPECIFICATION FairSpec
PROPERTIES OverflowIsFinal Completes
