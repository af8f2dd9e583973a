CONSTANTS
    Jobs = {"classification"}
    TypeOf <- MCTypeOf
    Slots = {s1, s2}
    CallTime <- MCCallTime
    JobTimeout <- MCJobTimeout
    MaxRetries = 2
    Conditions <- MCConditions
    MaxFaults = 2
SPECIFICATION OperatedReviewSpec
INVARIANTS
    ReviewTypeOK
    ReviewIsPaired
PROPERTY
    EventuallyReviewed
