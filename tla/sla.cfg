CONSTANTS
    Attempts = {a1, a2}
    MaxRetries = 3
    MaxFaults = 2
SPECIFICATION FairSpec
INVARIANTS
    TypeOK
    EscalatedOrDone
    CompletionHasItsRow
    RowsAreTrue
PROPERTIES
    EventuallySettled
