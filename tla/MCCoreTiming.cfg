CONSTANTS
    Keys = {k1}
    ZeroKey = zk
    IVs = {v1}
    ZeroIV = zv
    NR = 10
    KeyWords = 1
    DEPTH = 16
    CtrMax = 4
    MaxAAD = 1
    MaxData = 3
    NoMessage = NoMessage
    NoVerdict = NoVerdict
    Resettable = FALSE
SPECIFICATION TimedSpec
INVARIANT Latency
CONSTRAINT FewWords
