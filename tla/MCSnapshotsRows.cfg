CONSTANTS
    fileA = fileA
    fileB = fileB
    hostA = hostA
    Agent = Agent
    NoFile = NoFile
    Files = {fileA}
    Hosts = {hostA}
    LastDate = 2
    DayOf <- MCDayOf
    SlowHosts = TRUE
    LateMerge = FALSE
    MaxFaults = 0
SPECIFICATION FairSpec
PROPERTY
    RowsCatchUp
