CONSTANTS
    Threshold = 2
    MaxMishaps = 1
SPECIFICATION TriggerSpec
INVARIANTS
    TriggerTypeOK
    ToldOnce
    PushRowClearable
