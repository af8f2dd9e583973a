CONSTANTS
    NoValue = NoValue
    Sentiments = {"neutral", "negative"}
    Currencies = {"EUR", "USD", "GBP"}
    Tickets <- MCTickets
    BookingAmount = 54000
    BookingCurrency = "USD"
    Rates = {87}
    MaxFaults = 0
SPECIFICATION Spec
INVARIANTS
    BreachAnnounced
