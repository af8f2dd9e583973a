CONSTANTS
    Attempts = {a1, a2}
    MaxRetries = 2
    MaxFaults = 1
SYMMETRY AttemptSymmetry
SPECIFICATION Spec
INVARIANT
    NoOpenTaskMeansDone
