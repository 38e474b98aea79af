CONSTANTS
    Keys = {k1}
    ZeroKey = zk
    IVs = {v1}
    ZeroIV = zv
    NR = 1
    KeyWords = 1
    DEPTH = 3
    CtrMax = 3
SPECIFICATION CtrSpec
INVARIANTS CountersDistinct CtrInv
ACTION_CONSTRAINTS KeysRest LastWithWord
