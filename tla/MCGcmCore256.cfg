CONSTANTS
    Keys = {k1, k2}
    ZeroKey = zk
    IVs = {v1}
    ZeroIV = zv
    NR = 3
    KeyWords = 2
    DEPTH = 5
    CtrMax = 5
    MaxAAD = 0
    MaxData = 5
    NoMessage = NoMessage
    NoVerdict = NoVerdict
    Resettable = FALSE
SPECIFICATION Spec
INVARIANTS KeystreamMatchesWord
PROPERTY ImplementsService
