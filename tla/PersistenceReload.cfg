CONSTANTS
    t1 = t1
    t2 = t2
    key = key
    None = None
    Threads = {t1, t2}
    Keys = {key}
    Events <- Mixed
    KeyOf <- MixedKey
    CreatedAt <- MixedTime
    Deletable = {}
    Evictable = {3}
    Checkpointing = TRUE
    TornWrites = FALSE
    CrashInLoad = TRUE
    IOErrors = FALSE
    LoadThreshold = 2
    LoadTarget = 1
    MaxCalls = 3
    MaxCheckpoints = 1
    MaxCrashes = 2
SPECIFICATION Spec
SYMMETRY ThreadSymmetry
INVARIANTS
    AckedRecoverable
CHECK_DEADLOCK FALSE
