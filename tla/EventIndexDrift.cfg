SPECIFICATION Spec
CONSTANTS
    t1 = t1  t2 = t2  key = key  alone = alone
    Threads = {t1, t2}
    Keys = {key}
    None = None
    Events <- Versions
    KeyOf <- VersionsKey
    CreatedAt <- VersionsTime
    Size <- VersionsSize
    NumIndexes = 1
    MaxTombstones = 1
    Evicting = FALSE
    Deletable = {}
    Republished = {1, 2}
    MaxDrift = 1
SYMMETRY ThreadSymmetry
INVARIANT CountersAtRest
CHECK_DEADLOCK FALSE
