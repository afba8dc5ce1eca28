CONSTANTS
    MaxBytes = 64
    Milli = 4
    MinSample = 3
    Batch = 2
    BigBatch = 3
    ChunkBytes = 2
    EventBytes = 1
    MaxPayload = 7
    MaxOthers = 1
    RssValues = {0, 60, 70}
SPECIFICATION Spec
INVARIANTS
    TypeOK
    EvictFloor
PROPERTIES
    AmpMovesInEighths
    AmpSettles
    PayloadReturns
CHECK_DEADLOCK FALSE
