CONSTANTS
    NoValue = NoValue
    Sentiments = {"neutral", "negative"}
    Currencies = {"EUR", "USD", "GBP"}
    Tickets <- MCHardTickets
    BookingAmount = 54000
    BookingCurrency = "USD"
    Rates = {87}
    MaxFaults = 2
SPECIFICATION FairSpec
INVARIANTS
    TypeOK
    RoutingCurrent
    ReviewHonoured
    ActedOnIsRecorded
    NoStrayBookingEffect
    RefundIsTheBookingsValue
    CustomerAndTopicAgree
    BreachRecorded
PROPERTIES
    ReviewedOnce
    ImplementsContract
    EventuallyCompleted
