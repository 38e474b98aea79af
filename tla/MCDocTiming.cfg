CONSTANTS
    Keys = {k1}
    ZeroKey = zk
    IVs = {v1}
    ZeroIV = zv
    NR = 10
    KeyWords = 1
    DEPTH = 16
    CtrMax = 3
    MaxAAD = 0
    MaxData = 2
    NoMessage = NoMessage
    NoVerdict = NoVerdict
    Resettable = FALSE
SPECIFICATION TimedSpec
INVARIANT DocumentedLatency
