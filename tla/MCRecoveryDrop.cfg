CONSTANTS
    page = page
    first = first
    again = again
    Urls = {page}
    Stamps = {1, 2}
    NoStamp = NoStamp
    Threshold = 1
    LastDate = 2
    Invs = {first}
    Strays = {}
    Msg <- MCMsg
    DayOf <- MCDayOf
    Options <- DefaultOptions
    UserDeletes = FALSE
    LateMerge = FALSE
    MaxFaults = 0
SPECIFICATION Spec
INVARIANTS
    RebuiltCountersTrue
