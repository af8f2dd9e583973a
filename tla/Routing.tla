------------------------------- MODULE Routing -------------------------------
(***************************************************************************)
(* The routing decision (decisions/routing-v1.dmn) and the currency        *)
(* conversion whose result it reads (services/fx-gateway/main.go).         *)
(*                                                                         *)
(* Amounts are integers, in hundredths of the currency unit, and rates are *)
(* integers in hundredths, so that the two decimals the gateway rounds to  *)
(* are exact.  A JSON or FEEL null where a number is expected is NoValue.  *)
(***************************************************************************)
EXTENDS Integers

CONSTANTS
    NoValue,     \* null in place of a number or of a currency code
    Sentiments   \* the labels in use; the tables tell "negative" from the rest

ASSUME NoValueAssumption == NoValue \notin Int
ASSUME SentimentsAssumption == {"neutral", "negative"} \subseteq Sentiments

Intents    == {"change_booking", "cancel_refund", "question", "other"}
Tiers      == {"standard", "premium"}
Teams      == {"bookings", "refunds", "support", "escalation"}
Priorities == {"high", "normal"}
Checks     == {"availability", "refund-policy", "manual-approval", "vip-handling"}

\* The threshold "> 1000" of the two tables that read bookingValueEur.
HighValueEur == 100000

\* A null bookingValueEur matches no "> 1000" entry.
IsHighValue(valueEur) == valueEur # NoValue /\ valueEur > HighValueEur

-----------------------------------------------------------------------------
(* The three decision tables and the literal expression over them.         *)

\* Hit policy FIRST; the last rule has an empty input entry.
RouteTeam(intent) ==
    CASE intent = "change_booking" -> "bookings"
      [] intent = "cancel_refund"  -> "refunds"
      [] intent = "question"       -> "support"
      [] OTHER                     -> "escalation"

\* Hit policy FIRST; its three specific rules give the same outputs.
SlaPolicy(tier, sentiment, valueEur) ==
    IF tier = "premium" \/ sentiment = "negative" \/ IsHighValue(valueEur)
    THEN [priority |-> "high",   slaHours |-> 4]
    ELSE [priority |-> "normal", slaHours |-> 24]

\* Hit policy COLLECT: the outputs of all the rules that match.  A list in
\* rule order in the code; no rule repeats an output, so a set says as much.
\* The null of a table without a hit becomes [] in the literal expression.
RequiredChecks(intent, tier, valueEur) ==
    {c \in Checks :
        \/ c = "availability"    /\ intent = "change_booking"
        \/ c = "refund-policy"   /\ intent = "cancel_refund"
        \/ c = "manual-approval" /\ intent = "cancel_refund" /\ IsHighValue(valueEur)
        \/ c = "vip-handling"    /\ tier = "premium"}

Route(intent, tier, sentiment, valueEur) ==
    [team     |-> RouteTeam(intent),
     priority |-> SlaPolicy(tier, sentiment, valueEur).priority,
     slaHours |-> SlaPolicy(tier, sentiment, valueEur).slaHours,
     checks   |-> RequiredChecks(intent, tier, valueEur)]

-----------------------------------------------------------------------------
(* GET /convert of the gateway: HTTP status and converted amount.          *)

\* math.Round(amount * rate * 100) / 100 on hundredths; amounts are positive,
\* so rounding half away from zero is rounding half up.
RoundedProduct(amount, rate) == (amount * rate + 50) \div 100

\* Deviation: the parameters are not validated.
ConvertibleUnchecked(from, to, amount) == amount # NoValue

\* Parameters the handler answers with 400 before it asks for a rate.
Convertible(from, to, amount) ==
    /\ from # NoValue /\ to # NoValue
    /\ amount # NoValue
    /\ amount > 0

\* "rate" is what the provider answers for the pair; it is not asked when the
\* two currencies are the same.
Converted(from, to, amount, rate) ==
    RoundedProduct(amount, IF from = to THEN 100 ELSE rate)
=============================================================================
