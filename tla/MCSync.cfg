CONSTANTS
    lapA = lapA
    lapB = lapB
    u = u
    t1 = t1
    t2 = t2
    h1 = h1
    h2 = h2
    s1 = s1
    s2 = s2
    NoMessage = NoMessage
    NoSlot = NoSlot
    NoStamp = NoStamp
    Urls = {u}
    Stamps = {t1, t2}
    Machines = {lapA, lapB}
    LastDate = 2
    Procs = {h1}
    Slots = {s1, s2}
    ChunkSize = 2
    BatchSize = 2
    Messages <- MCMessages
    Quota <- MCQuota
    LateWrites = FALSE
    MaxFaults = 1
SYMMETRY MCSymmetry
SPECIFICATION Spec
INVARIANTS
    TypeOK
    MirrorIsPrefix
    NeverAGap
    PushedIsStored
    PulledIsApplied
    CountersMatchEvents
    DaysInOrder
PROPERTY
    CursorsAdvance
    ImplementsReplica
