CONSTANTS
    lapA = lapA
    lapB = lapB
    u = u
    t1 = t1
    t2 = t2
    h1 = h1
    s1 = s1
    NoMessage = NoMessage
    NoSlot = NoSlot
    NoStamp = NoStamp
    Urls = {u}
    Stamps = {t1, t2}
    Machines = {lapA, lapB}
    LastDate = 1
    Procs = {h1}
    Slots = {s1}
    ChunkSize = 2
    BatchSize = 2
    Messages <- MCMarking
    Quota <- MCQuota
    LateWrites = FALSE
    MaxFaults = 0
SPECIFICATION Spec
INVARIANT DiffClean
