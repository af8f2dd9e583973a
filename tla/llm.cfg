CONSTANTS
    Jobs = {"classification", "generation"}
    TypeOf <- MCTypeOf
    Slots = {s1, s2}
    CallTime <- MCCallTime
    JobTimeout <- MCJobTimeout
    MaxRetries = 2
    Conditions <- MCConditions
    MaxFaults = 1
SYMMETRY SlotSymmetry
SPECIFICATION Spec
INVARIANTS
    TypeOK
    CompletedIsAudited
    RejectionIsNoOutage
