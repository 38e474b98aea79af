CONSTANTS
    BlockBytes = 1
    MaxDataBlocks = 1
    MaxPayload = 2
    CounterLimit = 6
    Channels = {"uart"}
    Windows = {1, 2}
    MaxFaults = 1
    Key = k1
    FirstIV <- MCFirstIV
    Images <- MCImages
    Tampers = {}
    NoChunk = NoChunk
SPECIFICATION Spec
INVARIANT IVFresh
