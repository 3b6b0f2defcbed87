CONSTANTS
    fileA = fileA
    fileB = fileB
    hostA = hostA
    Agent = Agent
    NoFile = NoFile
    Files = {fileA, fileB}
    Hosts = {hostA}
    LastDate = 2
    DayOf <- MCDayOf
    SlowHosts = FALSE
    LateMerge = FALSE
    MaxFaults = 0
SPECIFICATION FairSpec
PROPERTY
    ManifestsCatchUp
