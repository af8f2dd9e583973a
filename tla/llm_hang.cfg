CONSTANTS
    Jobs = {"generation"}
    TypeOf <- MCTypeOf
    Slots = {s1, s2}
    CallTime <- MCCallTime
    JobTimeout <- MCJobTimeout
    MaxRetries = 3
    Conditions <- MCConditions
    MaxFaults = 1
SPECIFICATION FairSpec
PROPERTY
    LoopComesBack
