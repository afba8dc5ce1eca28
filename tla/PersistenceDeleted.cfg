CONSTANTS
    t1 = t1
    t2 = t2
    key = key
    None = None
    Threads = {t1, t2}
    Keys = {key}
    Events <- Mixed
    KeyOf <- MixedKey
    CreatedAt <- MixedTime
    Deletable = {3}
    Evictable = {}
    Checkpointing = TRUE
    TornWrites = FALSE
    CrashInLoad = FALSE
    IOErrors = FALSE
    LoadThreshold = 0
    LoadTarget = 0
    MaxCalls = 2
    MaxCheckpoints = 1
    MaxCrashes = 1
SPECIFICATION Spec
SYMMETRY ThreadSymmetry
INVARIANTS
    DeletedNotRestored
CHECK_DEADLOCK FALSE
