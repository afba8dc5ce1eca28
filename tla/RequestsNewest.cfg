CONSTANTS
    t1 = t1
    t2 = t2
    ann = ann
    bob = bob
    None = None
    Events <- E
    Author <- EAuthor
    Kind <- EKind
    CreatedAt <- ECreatedAt
    Tags <- ETags
    Bytes <- EBytes
    Coordinates <- ECoordinates
    Shard <- EShard
    Shards = 2
    Filters <- TwoNewest
    MaxLimit = 10
    Tasks = {t1, t2}
    Restored <- ERestored
    MaxMessages = 2
    EvictBatch = 2
    MaxEvictions = 1
SPECIFICATION Spec
SYMMETRY TaskSymmetry
INVARIANTS
    BareAnswerNewest
CHECK_DEADLOCK FALSE
