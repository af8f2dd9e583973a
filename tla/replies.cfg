CONSTANTS
    Threshold = 80
    Tickets <- MCTickets
    ClassifyReplies <- MCClassifyReplies
    TextReplies <- MCTextReplies
    MaxRetries = 2
SPECIFICATION Spec
INVARIANTS
    TypeOK
    UnreviewedIsConfident
    NumbersAreGrounded
    OneLanguage
    RowTellsTheRun
