CONSTANTS
    t1 = t1
    t2 = t2
    key = key
    None = None
    Threads = {t1, t2}
    Keys = {key}
    Events <- Regular
    KeyOf <- RegularKey
    CreatedAt <- RegularTime
    Deletable = {1}
    Evictable = {1}
    Checkpointing = FALSE
    TornWrites = TRUE
    CrashInLoad = FALSE
    IOErrors = TRUE
    LoadThreshold = 1
    LoadTarget = 1
    MaxCalls = 4
    MaxCheckpoints = 1
    MaxCrashes = 1
SPECIFICATION FairSpec
INVARIANTS
    OnlyHiddenLost
PROPERTIES
    EventuallySynced
CHECK_DEADLOCK FALSE
