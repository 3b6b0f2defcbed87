CONSTANTS
    page = page
    first = first
    again = again
    Urls = {page}
    Stamps = {1, 2}
    NoStamp = NoStamp
    Threshold = 1
    LastDate = 2
    Invs = {first, again}
    Strays = {}
    Msg <- MCMsg
    DayOf <- MCDayOf
    Options <- MCOptions
    UserDeletes = TRUE
    LateMerge = FALSE
    MaxFaults = 1
SPECIFICATION MCSpec
INVARIANTS
    TypeOK
    LinesKept
    NothingForgotten
    NoPhantoms
    CountersTrue
    FirstDayWins
    ExitTrue
    SealedHasManifest
    DirectoriesTrue
ACTION_CONSTRAINT Scenarios
