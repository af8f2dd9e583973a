CONSTANTS
    Handlers = {h1, h2}
    MaxRetries = 3
    ApiTimeout = 2
    CallTimeout = 3
    JobTimeout = 12
    DrainTimeout = 5
    Backoff = 2
    MaxFaults = 2
SPECIFICATION FairSpec
INVARIANTS
    TypeOK
    OneAttempt
    ResultMatchesBooking
PROPERTIES
    RetriesOnlyFall
    OutcomeNotSwallowed
    EventuallySettled
