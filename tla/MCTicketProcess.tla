--------------------------- MODULE MCTicketProcess ---------------------------
(* Tickets for model checking TicketProcess: values on both sides of the     *)
(* threshold once converted, with and without a booking that exists.         *)
EXTENDS TicketProcess

Ticket(tier, value, currency, customerCurrency, ref, override) ==
    [tier |-> tier, value |-> value, currency |-> currency,
     customerCurrency |-> customerCurrency, ref |-> ref, override |-> override]

\* In their essentials, T-1007, T-1003 and T-1009 of tests/e2e/tickets.json.
MCTickets ==
    {Ticket("standard", 105000,  "USD", "EUR", "known",   "none"),
     Ticket("standard", NoValue, NoValue, "EUR", "none",  "none"),
     Ticket("premium",  105000,  "EUR", "GBP", "unknown", "valid")}

\* The same, and tickets that get stuck: an amount of zero, a missing currency,
\* a booking that makes the API fail, a deadline that cannot be computed.
MCHardTickets ==
    MCTickets \cup
    {Ticket("standard", 0,       "EUR", "EUR",   "known",   "none"),
     Ticket("standard", NoValue, "EUR", NoValue, "known",   "none"),
     Ticket("premium",  NoValue, "EUR", "EUR",   "failing", "none"),
     Ticket("standard", NoValue, "EUR", "EUR",   "unknown", "unparsable")}
=============================================================================
