CONSTANTS
    Handlers = {h1, h2}
    MaxRetries = 3
    ApiTimeout = 2
    CallTimeout = 3
    JobTimeout = 12
    DrainTimeout = 5
    Backoff = 2
    MaxFaults = 1
SPECIFICATION Spec
INVARIANTS
    RefundIsTheValue
SYMMETRY HandlerSymmetry
