SPECIFICATION Spec
CONSTANTS
    t1 = t1  t2 = t2  key = key  alone = alone
    Threads = {t1, t2}
    Keys = {key, alone}
    None = None
    Events <- Mixed
    KeyOf <- MixedKey
    CreatedAt <- MixedTime
    Size <- MixedSize
    NumIndexes = 2
    MaxTombstones = 1
    Evicting = TRUE
    Deletable = {3, 4}
    Republished = {1, 2, 3}
    MaxDrift = 1
SYMMETRY ThreadSymmetry
INVARIANTS
    TypeOK
    NoDeadlock
    CountNotOver
    MemoryNotOver
    StaleVersionHasOwner
    OneVersionAtRest
    IndexesMatchAtRest
    TombstonesBounded
PROPERTIES
    DeletedStaysOut
CHECK_DEADLOCK FALSE
