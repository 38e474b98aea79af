CONSTANTS
    Keys = {k1}
    ZeroKey = zk
    IVs = {v1, v2}
    ZeroIV = zv
    NR = 1
    KeyWords = 1
    DEPTH = 3
    CtrMax = 3
    MaxAAD = 0
    MaxData = 2
    NoMessage = NoMessage
    NoVerdict = NoVerdict
    Resettable = TRUE
SPECIFICATION Spec
PROPERTIES ImplementsService DrivesCounterPath
