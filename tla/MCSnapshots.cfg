CONSTANTS
    fileA = fileA
    fileB = fileB
    hostA = hostA
    Agent = Agent
    NoFile = NoFile
    Files = {fileA, fileB}
    Hosts = {hostA}
    LastDate = 2
    DayOf <- MCDayOf
    SlowHosts = FALSE
    LateMerge = FALSE
    MaxFaults = 1
SPECIFICATION FairSpec
INVARIANTS
    TypeOK
    SnapshotKept
    DownloadsRowsTrue
PROPERTIES
    LinesKept
    AllArchived
    DaysSealed
    VerdictsTrue
