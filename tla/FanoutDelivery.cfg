CONSTANTS
    c1 = c1
    t1 = t1
    t2 = t2
    s1 = s1
    s2 = s2
    k1 = k1
    k2 = k2
    e1 = e1
    e2 = e2
    AnyKind = AnyKind
    None = None
    Conns = {c1}
    SubIds = {s1, s2}
    Tasks = {t1, t2}
    Events = {e1, e2}
    Kinds = {k1, k2}
    KindOf <- TwoKinds
    Ephemeral = {e1}
    Requests <- OneKindOrAny
    QueueCap = 1
    MaxSubs = 1
    MaxDrops = 1
    Permits = 1
    MaxFrames = 3
SPECIFICATION FairSpec
INVARIANTS
    TypeOK
    IndexExact
    NoGap
    OverflowSignalled
    SubsBounded
PROPERTIES
    OverflowHandled
    EventAnswered
CHECK_DEADLOCK FALSE
