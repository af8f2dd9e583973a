CONSTANTS
    Items <- OneItem
    MaxId = 2
    MaxFaults = 1
SPECIFICATION Spec
INVARIANTS
    TypeOK
    ExportingResumed
    AcknowledgedIsIndexed
    DumpCoversEngine
    WipedForWholeSet
    AuditCoversEngine
CHECK_DEADLOCK FALSE
