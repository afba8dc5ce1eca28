SPECIFICATION Spec
CONSTANTS
    t1 = t1  t2 = t2  key = key  alone = alone
    Threads = {t1, t2}
    Keys = {key}
    None = None
    Events <- Single
    KeyOf <- SingleKey
    CreatedAt <- SingleTime
    Size <- SingleSize
    NumIndexes = 1
    MaxTombstones = 1
    Evicting = FALSE
    Deletable = {3}
    Republished = {3}
    MaxDrift = 1
SYMMETRY ThreadSymmetry
INVARIANT DeletedStaysDeleted
CHECK_DEADLOCK FALSE
