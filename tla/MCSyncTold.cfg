CONSTANTS
    Threshold = 2
    MaxMishaps = 0
SPECIFICATION TriggerSpec
PROPERTY EventuallyTold
