------------------------- MODULE TicketSafety_proofs -------------------------
(***************************************************************************)
(* The safety of TicketProcess: the inductive invariant behind the         *)
(* properties the runs check, and the refinement of TicketContract.        *)
(***************************************************************************)
EXTENDS TicketProcess_proofs

-----------------------------------------------------------------------------
(* The invariant, in named parts.                                          *)

\* Elements a ticket reaches only with a resolution.
Telling == {"notify-customer", "publish-resolved", "end-resolved"}
Settled == Telling \cup {"convert-refund"}

\* A resolution is there exactly from the element that sets it on.
ResolutionInv == pv.resolution = Null <=> at \notin Settled

BookingOf(resolution) ==
    CASE resolution = "booking_changed" -> {"changed"}
      [] resolution = "refund_issued"   -> {"cancelled"}
      [] OTHER                          -> {}

\* Effects on the booking come from the branch the ticket is on, and are what
\* its resolution says once there is one.
BookingInv ==
    /\ at \notin Settled \cup BookingTasks => out.booking = {}
    /\ at = "change-booking" => out.booking \subseteq {"changed"}
    /\ at = "cancel-refund" => out.booking \subseteq {"cancelled"}
    /\ at \in Settled => out.booking = BookingOf(pv.resolution)
    /\ ticket.ref # "known" => out.booking = {}

ConvertedBooking(value) ==
    \E r \in Rates :
        value = Converted(BookingCurrency, ticket.customerCurrency, BookingAmount, r)

\* The refund is the booking's value, or the zero no conversion accepts.
RefundInv ==
    /\ at = "convert-refund" =>
           /\ pv.resolution = "refund_issued"
           /\ \/ pv.refund = 0
              \/ pv.refund = BookingAmount /\ pv.refundCurrency = BookingCurrency
    /\ (at \notin Telling \/ pv.resolution # "refund_issued") => pv.refundCustomer = NoValue
    /\ (at \in Telling /\ pv.resolution = "refund_issued") =>
           ConvertedBooking(pv.refundCustomer)

\* The message fixed on entering publish-resolved still is that of the
\* resolution, and the customer has been told nothing else.
MessageInv ==
    /\ at \notin Telling => out.delivered = {}
    /\ at = "notify-customer" => out.delivered \subseteq {pv.resolution}
    /\ at \notin {"publish-resolved", "end-resolved"} => out.resolved = {}
    /\ at \in {"publish-resolved", "end-resolved"} =>
           /\ message.resolution = pv.resolution
           /\ message.refundCustomer = pv.refundCustomer
           /\ out.delivered = {pv.resolution}
           /\ out.resolved \subseteq {message}

OutcomeInv == ResolutionInv /\ BookingInv /\ RefundInv /\ MessageInv

-----------------------------------------------------------------------------

LEMMA EnterAt == ASSUME NEW e, NEW d, Enter(e, d) PROVE at' = e
BY DEF Enter

\* What an attempt may leave behind keeps the outcome of the ticket intact.
LEMMA OutcomeAttempt ==
    ASSUME TypeInv, OutcomeInv, out' \in EffectsOf(at) \cup {out},
           at' = at, pv' = pv, message' = message, ticket' = ticket
    PROVE  OutcomeInv'
<1> USE DEF TypeInv, TypeOK
<1>1. CASE out' = out
  BY <1>1 DEF OutcomeInv, ResolutionInv, BookingInv, RefundInv, MessageInv, ConvertedBooking
<1>2. CASE at = "classify-ticket" /\ out' # out
  <2>1. PICK c \in Classifications : out' = Audited(c)
    BY <1>2 DEF EffectsOf
  <2>2. /\ out'.booking = out.booking /\ out'.delivered = out.delivered
        /\ out'.resolved = out.resolved
    BY <2>1 DEF Audited, Effects
  <2>3. QED
    BY <2>2 DEF OutcomeInv, ResolutionInv, BookingInv, RefundInv, MessageInv, ConvertedBooking
<1>3. CASE at = "record-review" /\ out' # out
  <2>1. /\ out'.booking = out.booking /\ out'.delivered = out.delivered
        /\ out'.resolved = out.resolved
    BY <1>3 DEF EffectsOf, Reviewed, Effects
  <2>2. QED
    BY <2>1 DEF OutcomeInv, ResolutionInv, BookingInv, RefundInv, MessageInv, ConvertedBooking
<1>4. CASE at \in BookingTasks /\ out' # out
  <2>1. /\ ticket.ref = "known"
        /\ out'.booking = out.booking \cup
               {IF at = "change-booking" THEN "changed" ELSE "cancelled"}
        /\ out'.delivered = out.delivered /\ out'.resolved = out.resolved
    BY <1>4 DEF EffectsOf, BookingSet, Effects, BookingTasks
  <2>2. QED
    BY <1>4, <2>1 DEF OutcomeInv, ResolutionInv, BookingInv, RefundInv, MessageInv,
       ConvertedBooking, Settled, Telling, BookingTasks
<1>5. CASE at = "notify-customer" /\ out' # out
  <2>1. /\ out'.booking = out.booking /\ out'.resolved = out.resolved
        /\ out'.delivered = out.delivered \cup {pv.resolution}
    BY <1>5 DEF EffectsOf, Delivered, Effects
  <2>2. QED
    BY <1>5, <2>1 DEF OutcomeInv, ResolutionInv, BookingInv, RefundInv, MessageInv,
       ConvertedBooking, Settled, Telling, BookingTasks
<1>6. CASE at = "publish-resolved" /\ out' # out
  <2>1. /\ out'.booking = out.booking /\ out'.delivered = out.delivered
        /\ out'.resolved = out.resolved \cup {message}
    BY <1>6 DEF EffectsOf, Published, Effects
  <2>2. QED
    BY <1>6, <2>1 DEF OutcomeInv, ResolutionInv, BookingInv, RefundInv, MessageInv,
       ConvertedBooking, Settled, Telling, BookingTasks
<1>7. QED BY <1>1, <1>2, <1>3, <1>4, <1>5, <1>6 DEF EffectsOf, BookingTasks

\* The escalation token leaves the variables and effects of the outcome alone.
LEMMA EscalationFrame ==
    ASSUME TypeInv, EscalateSla \/ FailedEscalation \/ LostEscalation
    PROVE  /\ \E row \in BOOLEAN : out' = [out EXCEPT !.slaRow = row]
           /\ \E breached \in BOOLEAN : pv' = [pv EXCEPT !.slaBreached = breached]
           /\ UNCHANGED <<ticket, at, message, review>>
<1> USE DEF TypeInv, TypeOK
<1>1. out = [out EXCEPT !.slaRow = out.slaRow] /\ out.slaRow \in BOOLEAN
  BY DEF Effects
<1>2. pv = [pv EXCEPT !.slaBreached = pv.slaBreached] /\ pv.slaBreached \in BOOLEAN
  BY DEF Variables
<1>3. CASE EscalateSla
  BY <1>3 DEF EscalateSla
<1>4. CASE FailedEscalation
  BY <1>1, <1>2, <1>4 DEF FailedEscalation
<1>5. CASE LostEscalation
  BY <1>1, <1>2, <1>5 DEF LostEscalation
<1>6. QED BY <1>3, <1>4, <1>5

LEMMA OutcomeInit == Init => OutcomeInv
BY DEF Init, OutcomeInv, ResolutionInv, BookingInv, RefundInv, MessageInv, Settled, Telling,
       BookingTasks, Null

LEMMA OutcomeStep == TypeInv /\ OutcomeInv /\ [Next]_vars => OutcomeInv'
<1> SUFFICES ASSUME TypeInv, OutcomeInv, [Next]_vars PROVE OutcomeInv'
  OBVIOUS
<1> USE DEF TypeInv, TypeOK, Open, Settled, Telling, BookingTasks
<1>a. ASSUME UNCHANGED <<ticket, out, message>>,
             pv'.resolution = pv.resolution, pv'.refundCustomer = pv.refundCustomer,
             at \notin Settled \cup BookingTasks, at' \notin Settled
      PROVE  OutcomeInv'
  BY <1>a DEF OutcomeInv, ResolutionInv, BookingInv, RefundInv, MessageInv
<1>1. CASE ClassifyTicket
  <2>1. PICK c \in Classifications :
            /\ out' = Audited(c)
            /\ pv' = [pv EXCEPT !.intent = c.intent, !.sentiment = c.sentiment,
                                !.needsReview = c.needsReview]
    BY <1>1 DEF ClassifyTicket
  <2>2. /\ out'.booking = out.booking /\ out'.delivered = out.delivered
        /\ out'.resolved = out.resolved
    BY <2>1 DEF Audited, Effects
  <2>3. pv'.resolution = pv.resolution /\ pv'.refundCustomer = pv.refundCustomer
    BY <2>1 DEF Variables
  <2>4. at = "classify-ticket" /\ at' \in {"convert-booking-value", "route-ticket"}
    BY <1>1, EnterAt DEF ClassifyTicket, AfterClassify
  <2>5. UNCHANGED <<ticket, message>> BY <1>1 DEF ClassifyTicket
  <2>6. QED
    BY <2>2, <2>3, <2>4, <2>5 DEF OutcomeInv, ResolutionInv, BookingInv, RefundInv, MessageInv
<1>2. CASE ConvertBookingValue
  <2>1. pv'.resolution = pv.resolution /\ pv'.refundCustomer = pv.refundCustomer
    BY <1>2 DEF ConvertBookingValue, Variables
  <2>2. at = "convert-booking-value" /\ at' = "route-ticket"
    BY <1>2, EnterAt DEF ConvertBookingValue
  <2>3. QED BY <1>2, <1>a, <2>1, <2>2 DEF ConvertBookingValue
<1>3. CASE RouteTicket
  <2>1. pv'.resolution = pv.resolution /\ pv'.refundCustomer = pv.refundCustomer
    BY <1>3 DEF RouteTicket, Variables
  <2>2. at = "route-ticket"
    BY <1>3 DEF RouteTicket
  <2>3. at' \in {"review-classification", "change-booking", "cancel-refund",
                 "answer-question", "handle-by-agent"}
    BY <1>3, EnterAt DEF RouteTicket, AfterRouting, BranchOf
  <2>4. QED BY <1>3, <1>a, <2>1, <2>2, <2>3 DEF RouteTicket
<1>4. CASE RecordReview
  <2>1. /\ out'.booking = out.booking /\ out'.delivered = out.delivered
        /\ out'.resolved = out.resolved
    BY <1>4 DEF RecordReview, Reviewed, Effects
  <2>2. at = "record-review" /\ at' \in {"handle-by-agent", "route-ticket"}
    BY <1>4, EnterAt DEF RecordReview, AfterReview
  <2>3. UNCHANGED <<ticket, pv, message>> BY <1>4 DEF RecordReview
  <2>4. QED
    BY <2>1, <2>2, <2>3 DEF OutcomeInv, ResolutionInv, BookingInv, RefundInv, MessageInv
<1>5. CASE ChangeBooking
  <2>1. /\ out'.booking = out.booking \cup {"changed"}
        /\ out'.delivered = out.delivered /\ out'.resolved = out.resolved
    BY <1>5 DEF ChangeBooking, BookingSet, Effects
  <2>2. pv'.resolution = "booking_changed" /\ pv'.refundCustomer = pv.refundCustomer
    BY <1>5 DEF ChangeBooking, Variables
  <2>3. at = "change-booking" /\ at' = "notify-customer"
    BY <1>5, EnterAt DEF ChangeBooking
  <2>4. UNCHANGED <<ticket, message>> /\ ticket.ref = "known" BY <1>5 DEF ChangeBooking
  <2>5. QED
    BY <2>1, <2>2, <2>3, <2>4
    DEF OutcomeInv, ResolutionInv, BookingInv, RefundInv, MessageInv, BookingOf, Null
<1>6. CASE CancelRefund
  <2>1. /\ out'.booking = out.booking \cup {"cancelled"}
        /\ out'.delivered = out.delivered /\ out'.resolved = out.resolved
    BY <1>6 DEF CancelRefund, BookingSet, Effects
  <2>2. /\ pv'.resolution = "refund_issued" /\ pv'.refundCustomer = pv.refundCustomer
        /\ \/ pv'.refund = 0
           \/ pv'.refund = BookingAmount /\ pv'.refundCurrency = BookingCurrency
    BY <1>6 DEF CancelRefund, Variables
  <2>3. at = "cancel-refund" /\ at' = "convert-refund"
    BY <1>6, EnterAt DEF CancelRefund
  <2>4. UNCHANGED <<ticket, message>> /\ ticket.ref = "known" BY <1>6 DEF CancelRefund
  <2>5. QED
    BY <2>1, <2>2, <2>3, <2>4
    DEF OutcomeInv, ResolutionInv, BookingInv, RefundInv, MessageInv, BookingOf, Null
<1>7. CASE BookingNotFound
  <2>1. at \in BookingTasks /\ at' = "handle-by-agent"
    BY <1>7, EnterAt DEF BookingNotFound
  <2>2. UNCHANGED <<ticket, pv, out, message>> /\ ticket.ref # "known"
    BY <1>7 DEF BookingNotFound
  <2>3. QED
    BY <2>1, <2>2 DEF OutcomeInv, ResolutionInv, BookingInv, RefundInv, MessageInv
<1>8. CASE ConvertRefund
  <2>1. PICK r \in Rates :
            pv' = [pv EXCEPT !.refundCustomer =
                       Converted(pv.refundCurrency, ticket.customerCurrency, pv.refund, r)]
    BY <1>8 DEF ConvertRefund
  <2>2. pv.refund = BookingAmount /\ pv.refundCurrency = BookingCurrency
    <3>1. pv.refund > 0
      BY <1>8 DEF ConvertRefund, Convertible
    <3>2. pv.refund # 0
      BY <3>1
    <3>3. QED BY <1>8, <3>2 DEF ConvertRefund, OutcomeInv, RefundInv
  <2>3. /\ pv'.resolution = pv.resolution
        /\ ConvertedBooking(pv'.refundCustomer)
    <3>1. /\ pv'.resolution = pv.resolution
          /\ pv'.refundCustomer =
                 Converted(pv.refundCurrency, ticket.customerCurrency, pv.refund, r)
      BY <2>1 DEF Variables
    <3>2. QED BY <2>2, <3>1 DEF ConvertedBooking
  <2>4. at = "convert-refund" /\ at' = "notify-customer"
    BY <1>8, EnterAt DEF ConvertRefund
  <2>5. UNCHANGED <<ticket, out, message>> BY <1>8 DEF ConvertRefund
  <2>6. ConvertedBooking(pv.refundCustomer)'
    BY <2>3, <2>5 DEF ConvertedBooking
  <2>7. QED
    BY <2>3, <2>4, <2>5, <2>6
    DEF OutcomeInv, ResolutionInv, BookingInv, RefundInv, MessageInv, Null
<1>9. CASE AnswerQuestion
  <2>1. pv'.resolution = "answered" /\ pv'.refundCustomer = pv.refundCustomer
    BY <1>9 DEF AnswerQuestion, Variables
  <2>2. at = "answer-question" /\ at' = "notify-customer"
    BY <1>9, EnterAt DEF AnswerQuestion
  <2>3. UNCHANGED <<ticket, out, message>> BY <1>9 DEF AnswerQuestion
  <2>4. QED
    BY <2>1, <2>2, <2>3
    DEF OutcomeInv, ResolutionInv, BookingInv, RefundInv, MessageInv, BookingOf, Null
<1>10. CASE NotifyCustomer
  <2>1. /\ out'.booking = out.booking /\ out'.resolved = out.resolved
        /\ out'.delivered = out.delivered \cup {pv.resolution}
    BY <1>10 DEF NotifyCustomer, Delivered, Effects
  <2>2. message'.resolution = pv.resolution /\ message'.refundCustomer = pv.refundCustomer
    BY <1>10 DEF NotifyCustomer, Payload
  <2>3. at = "notify-customer" /\ at' = "publish-resolved"
    BY <1>10, EnterAt DEF NotifyCustomer
  <2>4. UNCHANGED <<ticket, pv>> BY <1>10 DEF NotifyCustomer
  <2>5. QED
    BY <2>1, <2>2, <2>3, <2>4
    DEF OutcomeInv, ResolutionInv, BookingInv, RefundInv, MessageInv, ConvertedBooking
<1>11. CASE PublishResolved
  <2>1. /\ out'.booking = out.booking /\ out'.delivered = out.delivered
        /\ out'.resolved = out.resolved \cup {message}
    BY <1>11 DEF PublishResolved, Published, Effects
  <2>2. at = "publish-resolved" /\ at' = "end-resolved"
    BY <1>11, EnterAt DEF PublishResolved
  <2>3. UNCHANGED <<ticket, pv, message>> BY <1>11 DEF PublishResolved
  <2>4. QED
    BY <2>1, <2>2, <2>3
    DEF OutcomeInv, ResolutionInv, BookingInv, RefundInv, MessageInv, ConvertedBooking
<1>12. CASE ReviewClassification
  <2>1. pv'.resolution = pv.resolution /\ pv'.refundCustomer = pv.refundCustomer
    BY <1>12 DEF ReviewClassification, ReviewOutputs, Variables
  <2>2. at = "review-classification" /\ at' = "record-review"
    BY <1>12, EnterAt DEF ReviewClassification
  <2>3. QED BY <1>12, <1>a, <2>1, <2>2 DEF ReviewClassification
<1>13. CASE HandleByAgent
  <2>1. pv'.resolution = "agent_handled" /\ pv'.refundCustomer = pv.refundCustomer
    BY <1>13 DEF HandleByAgent, Variables
  <2>2. at = "handle-by-agent" /\ at' = "notify-customer" /\ UNCHANGED <<ticket, out, message>>
    BY <1>13 DEF HandleByAgent
  <2>3. QED
    BY <2>1, <2>2
    DEF OutcomeInv, ResolutionInv, BookingInv, RefundInv, MessageInv, BookingOf, Null
<1>14. CASE RefusedAttempt \/ Retry \/ SlaTimer \/ RetryEscalation \/ UNCHANGED vars
  BY <1>14, OutcomeAttempt DEF RefusedAttempt, Retry, SlaTimer, RetryEscalation, vars
<1>15. CASE FailedAttempt \/ LostAttempt
  BY <1>15, OutcomeAttempt DEF FailedAttempt, LostAttempt
<1>16. CASE EscalateSla \/ FailedEscalation \/ LostEscalation
  <2>1. UNCHANGED <<ticket, at, message>> BY <1>16, EscalationFrame
  <2>2. /\ out'.booking = out.booking /\ out'.delivered = out.delivered
        /\ out'.resolved = out.resolved
    BY <1>16, EscalationFrame DEF Effects
  <2>3. /\ pv'.resolution = pv.resolution /\ pv'.refundCustomer = pv.refundCustomer
        /\ pv'.refund = pv.refund /\ pv'.refundCurrency = pv.refundCurrency
    BY <1>16, EscalationFrame DEF Variables
  <2>4. QED
    BY <2>1, <2>2, <2>3
    DEF OutcomeInv, ResolutionInv, BookingInv, RefundInv, MessageInv, ConvertedBooking
<1>17. QED
  BY <1>1, <1>2, <1>3, <1>4, <1>5, <1>6, <1>7, <1>8, <1>9, <1>10, <1>11, <1>12, <1>13,
     <1>14, <1>15, <1>16
  DEF Next, WorkerStep, HumanStep, Disturbance, EscalationStep, Rest

-----------------------------------------------------------------------------
(* The review and the audit.                                               *)

\* Elements in front of the first, and of a possible second, review.
BeforeReview == {"classify-ticket", "convert-booking-value", "review-classification"}

ReviewInv ==
    /\ ~review.done => ~pv.escalate
    /\ review.done =>
           /\ pv.intent = review.intent /\ pv.sentiment = review.sentiment
           /\ pv.escalate = review.escalate /\ ~pv.needsReview
    /\ at \in BeforeReview => ~review.done
    /\ at = "record-review" => review.done
    /\ pv.escalate =>
           /\ at \in {"record-review", "handle-by-agent"} \cup Telling
           /\ pv.resolution \in {Null, "agent_handled"}

\* An agent has the ticket, or has had it, for one of three reasons.
AgentNeeded ==
    pv.escalate \/ pv.intent = "other" \/ ticket.ref \in {"unknown", "none"}

BranchInv ==
    /\ at = "change-booking" => pv.intent = "change_booking"
    /\ at = "cancel-refund" => pv.intent = "cancel_refund"
    /\ at = "answer-question" => pv.intent = "question"
    /\ at = "handle-by-agent" => AgentNeeded
    /\ pv.resolution # Null =>
           \/ pv.resolution = ResolutionOf(pv.intent)
           \/ pv.resolution = "agent_handled" /\ AgentNeeded

Acted == [intent |-> pv.intent, sentiment |-> pv.sentiment, needsReview |-> pv.needsReview]

RowOfReview(row) ==
    /\ row.finalIntent = review.intent
    /\ row.finalSentiment = review.sentiment
    /\ row.escalated = review.escalate
    /\ \E c \in out.audited : c.intent = row.llmIntent

AuditInv ==
    /\ at # "classify-ticket" => \E c \in out.audited : c.intent = out.latest
    /\ (at # "classify-ticket" /\ ~review.done) => Acted \in out.audited
    /\ (review.done /\ at # "record-review") => \E row \in out.reviews : RowOfReview(row)

ConductInv == ReviewInv /\ BranchInv /\ AuditInv

\* Once the timer has fired the escalation token is there until it has ended
\* with its row and its variable; and neither of them, nor a message, says
\* breached before.  A timer is armed, or has been, only at the agent's task
\* and behind it, so none is armed anew.
AgentTail == {"handle-by-agent", "notify-customer", "publish-resolved", "end-resolved"}

BreachInv ==
    /\ fired <=> sla \in {"escalating", "ended"}
    /\ sla # "none" => at \in AgentTail
    /\ sla = "ended" => out.slaRow /\ pv.slaBreached
    /\ out.slaRow \/ pv.slaBreached \/ message.slaBreached => fired
    /\ \A m \in out.resolved : m.slaBreached => fired

SafetyInv == TypeInv /\ OutcomeInv /\ ConductInv /\ RoutingCurrent /\ BreachInv

LEMMA ConductInit == Init => ConductInv
BY DEF Init, ConductInv, ReviewInv, BranchInv, AuditInv, BeforeReview, NoReview, Null

\* What an attempt may leave behind neither forges nor loses a record.
LEMMA ConductAttempt ==
    ASSUME TypeInv, ConductInv, out' \in EffectsOf(at) \cup {out},
           UNCHANGED <<ticket, at, pv, review>>
    PROVE  ConductInv'
<1> USE DEF TypeInv, TypeOK
<1>1. ReviewInv' /\ BranchInv'
  BY DEF ConductInv, ReviewInv, BranchInv, AgentNeeded
<1>2. CASE at = "classify-ticket"
  BY <1>1, <1>2 DEF ConductInv, AuditInv, ReviewInv, BeforeReview
<1>3. CASE at # "classify-ticket" /\ at # "record-review"
  <2>1. out'.audited = out.audited /\ out'.latest = out.latest /\ out'.reviews = out.reviews
    BY <1>3 DEF EffectsOf, BookingSet, Delivered, Published, Effects
  <2>2. QED
    BY <1>1, <1>3, <2>1 DEF ConductInv, AuditInv, Acted, RowOfReview
<1>4. CASE at = "record-review"
  <2>1. out'.audited = out.audited /\ out'.latest = out.latest
    BY <1>4 DEF EffectsOf, Reviewed, Effects
  <2>2. QED
    BY <1>1, <1>4, <2>1 DEF ConductInv, AuditInv, Acted
<1>5. QED BY <1>2, <1>3, <1>4

LEMMA ConductStep == TypeInv /\ OutcomeInv /\ ConductInv /\ [Next]_vars => ConductInv'
<1> SUFFICES ASSUME TypeInv, OutcomeInv, ConductInv, [Next]_vars PROVE ConductInv'
  OBVIOUS
<1> USE DEF TypeInv, TypeOK, Open, Telling, BookingTasks
\* A step that neither classifies nor reviews keeps the audit part.
<1>a. ASSUME /\ UNCHANGED <<ticket, review>>
             /\ pv'.intent = pv.intent /\ pv'.sentiment = pv.sentiment
             /\ pv'.needsReview = pv.needsReview /\ pv'.escalate = pv.escalate
             /\ out'.audited = out.audited /\ out'.latest = out.latest
             /\ out'.reviews = out.reviews
             /\ at # "classify-ticket" /\ at # "record-review" /\ at' # "record-review"
      PROVE  AuditInv'
  BY <1>a DEF ConductInv, AuditInv, Acted, RowOfReview
<1>1. CASE ClassifyTicket
  <2>1. PICK c \in Classifications :
            /\ out' = Audited(c)
            /\ pv' = [pv EXCEPT !.intent = c.intent, !.sentiment = c.sentiment,
                                !.needsReview = c.needsReview]
    BY <1>1 DEF ClassifyTicket
  <2>2. c \in out'.audited /\ out'.latest = c.intent
    BY <2>1 DEF Audited, Effects
  <2>3. /\ pv'.intent = c.intent /\ pv'.sentiment = c.sentiment
        /\ pv'.needsReview = c.needsReview
        /\ pv'.escalate = pv.escalate /\ pv'.resolution = pv.resolution
    BY <2>1 DEF Variables
  <2>4. at = "classify-ticket" /\ at' \in {"convert-booking-value", "route-ticket"}
    BY <1>1, EnterAt DEF ClassifyTicket, AfterClassify
  <2>5. ~review.done /\ pv.resolution = Null /\ UNCHANGED <<ticket, review>>
    BY <1>1, <2>4
    DEF ClassifyTicket, ConductInv, ReviewInv, BeforeReview, OutcomeInv, ResolutionInv, Settled
  <2>6. Acted' = c
    BY <2>3 DEF Acted, Classifications
  <2>7. AuditInv'
    BY <2>2, <2>5, <2>6 DEF AuditInv
  <2>8. ReviewInv' /\ BranchInv'
    BY <2>3, <2>4, <2>5 DEF ConductInv, ReviewInv, BranchInv, BeforeReview
  <2>9. QED BY <2>7, <2>8 DEF ConductInv
<1>2. CASE ConvertBookingValue
  <2>1. /\ pv'.intent = pv.intent /\ pv'.sentiment = pv.sentiment
        /\ pv'.needsReview = pv.needsReview /\ pv'.escalate = pv.escalate
        /\ pv'.resolution = pv.resolution
    BY <1>2 DEF ConvertBookingValue, Variables
  <2>2. at = "convert-booking-value" /\ at' = "route-ticket"
    BY <1>2, EnterAt DEF ConvertBookingValue
  <2>3. UNCHANGED <<ticket, out, review>> /\ pv.resolution = Null
    BY <1>2, <2>2 DEF ConvertBookingValue, OutcomeInv, ResolutionInv, Settled
  <2>4. QED
    BY <1>a, <2>1, <2>2, <2>3 DEF ConductInv, ReviewInv, BranchInv, BeforeReview
<1>3. CASE RouteTicket
  <2>1. /\ pv'.intent = pv.intent /\ pv'.sentiment = pv.sentiment
        /\ pv'.needsReview = pv.needsReview /\ pv'.escalate = pv.escalate
        /\ pv'.resolution = pv.resolution
    BY <1>3 DEF RouteTicket, Variables
  <2>2. at = "route-ticket" /\ at' = AfterRouting(pv)
    BY <1>3, EnterAt DEF RouteTicket
  <2>3. UNCHANGED <<ticket, out, review>> /\ pv.resolution = Null
    BY <1>3, <2>2 DEF RouteTicket, OutcomeInv, ResolutionInv, Settled
  <2>4. pv.intent \in Intents
    BY <2>2 DEF Classified
  <2>5. /\ at' = "review-classification" => pv.needsReview
        /\ at' = "change-booking" => pv.intent = "change_booking"
        /\ at' = "cancel-refund" => pv.intent = "cancel_refund"
        /\ at' = "answer-question" => pv.intent = "question"
        /\ at' = "handle-by-agent" => pv.intent = "other"
        /\ at' \in {"review-classification", "change-booking", "cancel-refund",
                    "answer-question", "handle-by-agent"}
    BY <2>2, <2>4 DEF AfterRouting, BranchOf, Intents
  <2>6. ReviewInv'
    BY <2>1, <2>2, <2>3, <2>5 DEF ConductInv, ReviewInv, BeforeReview
  <2>7. BranchInv'
    BY <2>1, <2>3, <2>5 DEF BranchInv, AgentNeeded
  <2>8. QED BY <1>a, <2>1, <2>2, <2>3, <2>5, <2>6, <2>7 DEF ConductInv
<1>4. CASE RecordReview
  <2> DEFINE row == [llmIntent |-> out.latest, finalIntent |-> pv.intent,
                     finalSentiment |-> pv.sentiment, escalated |-> pv.escalate]
  <2>1. /\ out'.audited = out.audited /\ out'.latest = out.latest
        /\ row \in out'.reviews
    BY <1>4 DEF RecordReview, Reviewed, Effects
  <2>2. at = "record-review" /\ at' = AfterReview(pv)
    BY <1>4, EnterAt DEF RecordReview
  <2>3. UNCHANGED <<ticket, pv, review>> BY <1>4 DEF RecordReview
  <2>4. review.done /\ pv.resolution = Null
    BY <2>2 DEF ConductInv, ReviewInv, OutcomeInv, ResolutionInv, Settled
  <2>5. (RowOfReview(row))'
    BY <2>1, <2>2, <2>3, <2>4 DEF ConductInv, ReviewInv, AuditInv, RowOfReview
  <2>6. AuditInv'
    BY <2>1, <2>2, <2>3, <2>4, <2>5 DEF ConductInv, AuditInv
  <2>7. ReviewInv'
    BY <2>2, <2>3, <2>4 DEF ConductInv, ReviewInv, AfterReview, BeforeReview
  <2>8. BranchInv'
    BY <2>2, <2>3, <2>4 DEF BranchInv, AfterReview, AgentNeeded
  <2>9. QED BY <2>6, <2>7, <2>8 DEF ConductInv
<1>5. CASE ChangeBooking \/ CancelRefund \/ AnswerQuestion \/ HandleByAgent
  <2>1. /\ pv'.intent = pv.intent /\ pv'.sentiment = pv.sentiment
        /\ pv'.needsReview = pv.needsReview /\ pv'.escalate = pv.escalate
    BY <1>5 DEF ChangeBooking, CancelRefund, AnswerQuestion, HandleByAgent, Variables
  <2>2. /\ out'.audited = out.audited /\ out'.latest = out.latest
        /\ out'.reviews = out.reviews
    BY <1>5 DEF ChangeBooking, CancelRefund, AnswerQuestion, HandleByAgent, BookingSet, Effects
  <2>3. UNCHANGED <<ticket, review>> /\ at' \in {"notify-customer", "convert-refund"}
    BY <1>5, EnterAt DEF ChangeBooking, CancelRefund, AnswerQuestion, HandleByAgent
  <2>4. \/ at = "change-booking" /\ pv'.resolution = "booking_changed"
        \/ at = "cancel-refund" /\ pv'.resolution = "refund_issued"
        \/ at = "answer-question" /\ pv'.resolution = "answered"
        \/ at = "handle-by-agent" /\ pv'.resolution = "agent_handled" /\ at' = "notify-customer"
    BY <1>5 DEF ChangeBooking, CancelRefund, AnswerQuestion, HandleByAgent, Variables
  <2>5. ReviewInv'
    BY <2>1, <2>3, <2>4 DEF ConductInv, ReviewInv, BeforeReview
  <2>6. \/ pv'.resolution = ResolutionOf(pv.intent)
        \/ pv'.resolution = "agent_handled" /\ AgentNeeded
    BY <2>4 DEF ConductInv, BranchInv, ResolutionOf
  <2>7. BranchInv'
    BY <2>1, <2>3, <2>6 DEF BranchInv, AgentNeeded
  <2>8. QED BY <1>a, <2>1, <2>2, <2>3, <2>4, <2>5, <2>7 DEF ConductInv
<1>6. CASE BookingNotFound
  <2>1. at \in BookingTasks /\ at' = "handle-by-agent"
    BY <1>6, EnterAt DEF BookingNotFound
  <2>2. UNCHANGED <<ticket, pv, out, review>> /\ ticket.ref \in {"unknown", "none"}
    BY <1>6 DEF BookingNotFound
  <2>3. ReviewInv' /\ BranchInv'
    BY <2>1, <2>2 DEF ConductInv, ReviewInv, BranchInv, AgentNeeded, BeforeReview
  <2>4. QED BY <1>a, <2>1, <2>2, <2>3 DEF ConductInv
<1>7. CASE ConvertRefund \/ NotifyCustomer \/ PublishResolved
  <2>1. /\ pv'.intent = pv.intent /\ pv'.sentiment = pv.sentiment
        /\ pv'.needsReview = pv.needsReview /\ pv'.escalate = pv.escalate
        /\ pv'.resolution = pv.resolution
    BY <1>7 DEF ConvertRefund, NotifyCustomer, PublishResolved, Variables
  <2>2. /\ out'.audited = out.audited /\ out'.latest = out.latest
        /\ out'.reviews = out.reviews
    BY <1>7 DEF ConvertRefund, NotifyCustomer, PublishResolved, Delivered, Published, Effects
  <2>3. /\ UNCHANGED <<ticket, review>>
        /\ at \in {"convert-refund", "notify-customer", "publish-resolved"}
        /\ at' \in Telling
    BY <1>7, EnterAt DEF ConvertRefund, NotifyCustomer, PublishResolved
  <2>4. ReviewInv' /\ BranchInv'
    BY <2>1, <2>3 DEF ConductInv, ReviewInv, BranchInv, AgentNeeded, BeforeReview
  <2>5. QED BY <1>a, <2>1, <2>2, <2>3, <2>4 DEF ConductInv
<1>8. CASE ReviewClassification
  <2>1. PICK r \in Reviews : r.done /\ review' = r /\ pv' = ReviewOutputs(r)
    BY <1>8 DEF ReviewClassification
  <2>2. /\ pv'.intent = r.intent /\ pv'.sentiment = r.sentiment
        /\ ~pv'.needsReview /\ pv'.escalate = r.escalate
        /\ pv'.resolution = pv.resolution
    BY <2>1 DEF ReviewOutputs, Variables
  <2>3. at = "review-classification" /\ at' = "record-review" /\ UNCHANGED <<ticket, out>>
    BY <1>8, EnterAt DEF ReviewClassification
  <2>4. pv.resolution = Null
    BY <2>3 DEF OutcomeInv, ResolutionInv, Settled
  <2>5. AuditInv'
    BY <2>1, <2>3 DEF ConductInv, AuditInv
  <2>6. ReviewInv' /\ BranchInv'
    BY <2>1, <2>2, <2>3, <2>4 DEF ReviewInv, BranchInv, BeforeReview
  <2>7. QED BY <2>5, <2>6 DEF ConductInv
<1>9. CASE RefusedAttempt \/ Retry \/ SlaTimer \/ RetryEscalation \/ UNCHANGED vars
  BY <1>9, ConductAttempt DEF RefusedAttempt, Retry, SlaTimer, RetryEscalation, vars
<1>10. CASE FailedAttempt \/ LostAttempt
  BY <1>10, ConductAttempt DEF FailedAttempt, LostAttempt
<1>11. CASE EscalateSla \/ FailedEscalation \/ LostEscalation
  <2>1. UNCHANGED <<ticket, at, review>> BY <1>11, EscalationFrame
  <2>2. /\ out'.audited = out.audited /\ out'.latest = out.latest
        /\ out'.reviews = out.reviews
    BY <1>11, EscalationFrame DEF Effects
  <2>3. /\ pv'.intent = pv.intent /\ pv'.sentiment = pv.sentiment
        /\ pv'.needsReview = pv.needsReview /\ pv'.escalate = pv.escalate
        /\ pv'.resolution = pv.resolution
    BY <1>11, EscalationFrame DEF Variables
  <2>4. ReviewInv' /\ BranchInv'
    BY <2>1, <2>3 DEF ConductInv, ReviewInv, BranchInv, AgentNeeded
  <2>5. AuditInv'
    BY <2>1, <2>2, <2>3 DEF ConductInv, AuditInv, Acted, RowOfReview
  <2>6. QED BY <2>4, <2>5 DEF ConductInv
<1>12. QED
  BY <1>1, <1>2, <1>3, <1>4, <1>5, <1>6, <1>7, <1>8, <1>9, <1>10, <1>11
  DEF Next, WorkerStep, HumanStep, Disturbance, EscalationStep, Rest

-----------------------------------------------------------------------------
(* The routing and the breach.                                             *)

\* The inputs and the results of the routing decision that a step keeps.
RoutingKept ==
    /\ ticket' = ticket
    /\ pv'.intent = pv.intent /\ pv'.sentiment = pv.sentiment /\ pv'.valueEur = pv.valueEur
    /\ pv'.team = pv.team /\ pv'.priority = pv.priority /\ pv'.checks = pv.checks
    /\ pv'.deadline = pv.deadline /\ pv'.escalate = pv.escalate

LEMMA RoutingStep == TypeInv /\ ConductInv /\ RoutingCurrent /\ [Next]_vars => RoutingCurrent'
<1> SUFFICES ASSUME TypeInv, ConductInv, RoutingCurrent, [Next]_vars PROVE RoutingCurrent'
  OBVIOUS
<1> USE DEF TypeInv, TypeOK, Open, Routed, BookingTasks
<1>a. ASSUME RoutingKept, at \in Routed \/ pv.escalate \/ at' \notin Routed
      PROVE  RoutingCurrent'
  BY <1>a DEF RoutingKept, RoutingCurrent, DeadlineOf
<1>b. ASSUME at' \notin Routed PROVE RoutingCurrent'
  BY <1>b DEF RoutingCurrent
<1>1. CASE ClassifyTicket \/ ConvertBookingValue \/ ReviewClassification
  <2>1. at' \in {"convert-booking-value", "route-ticket", "record-review"}
    BY <1>1, EnterAt DEF ClassifyTicket, ConvertBookingValue, ReviewClassification, AfterClassify
  <2>2. QED BY <1>b, <2>1
<1>2. CASE RouteTicket
  <2> DEFINE routing == Route(pv.intent, ticket.tier, pv.sentiment, pv.valueEur)
  <2>1. pv' = [pv EXCEPT !.team = routing.team, !.priority = routing.priority,
                         !.checks = routing.checks,
                         !.deadline = DeadlineOf(routing.slaHours)]
    BY <1>2 DEF RouteTicket
  <2>2. /\ pv'.intent = pv.intent /\ pv'.sentiment = pv.sentiment
        /\ pv'.valueEur = pv.valueEur
        /\ pv'.team = routing.team /\ pv'.priority = routing.priority
        /\ pv'.checks = routing.checks /\ pv'.deadline = DeadlineOf(routing.slaHours)
    <3> HIDE DEF routing
    <3>1. QED BY <2>1 DEF Variables
  <2>3. ticket' = ticket
    BY <1>2 DEF RouteTicket
  <2>4. DeadlineOf(routing.slaHours)' =
            DeadlineOf(Route(pv'.intent, ticket.tier, pv'.sentiment, pv'.valueEur).slaHours)
    BY <2>3 DEF DeadlineOf
  <2>5. QED BY <2>2, <2>3, <2>4 DEF RoutingCurrent
<1>3. CASE RecordReview
  <2>1. RoutingKept BY <1>3 DEF RecordReview, RoutingKept
  <2>2. pv.escalate \/ at' = "route-ticket"
    BY <1>3, EnterAt DEF RecordReview, AfterReview
  <2>3. QED BY <1>a, <2>1, <2>2
<1>4. CASE \/ ChangeBooking \/ CancelRefund \/ BookingNotFound \/ ConvertRefund
           \/ AnswerQuestion \/ NotifyCustomer \/ PublishResolved \/ HandleByAgent
  <2>1. at \in Routed
    BY <1>4 DEF ChangeBooking, CancelRefund, BookingNotFound, ConvertRefund, AnswerQuestion,
       NotifyCustomer, PublishResolved, HandleByAgent
  <2>2. CASE ChangeBooking \/ CancelRefund
    <3>1. RoutingKept BY <2>2 DEF ChangeBooking, CancelRefund, RoutingKept, Variables
    <3>2. QED BY <1>a, <2>1, <3>1
  <2>3. CASE ConvertRefund \/ AnswerQuestion \/ HandleByAgent
    <3>1. RoutingKept
      BY <2>3 DEF ConvertRefund, AnswerQuestion, HandleByAgent, RoutingKept, Variables
    <3>2. QED BY <1>a, <2>1, <3>1
  <2>4. CASE BookingNotFound \/ NotifyCustomer \/ PublishResolved
    <3>1. RoutingKept
      BY <2>4 DEF BookingNotFound, NotifyCustomer, PublishResolved, RoutingKept
    <3>2. QED BY <1>a, <2>1, <3>1
  <2>5. QED BY <1>4, <2>2, <2>3, <2>4
<1>5. CASE EscalateSla \/ FailedEscalation \/ LostEscalation
  <2>1. UNCHANGED <<ticket, at>> BY <1>5, EscalationFrame
  <2>2. RoutingKept BY <1>5, EscalationFrame DEF RoutingKept, Variables
  <2>3. QED BY <1>a, <2>1, <2>2 DEF RoutingCurrent, RoutingKept
<1>6. CASE \/ RefusedAttempt \/ FailedAttempt \/ LostAttempt \/ Retry
           \/ SlaTimer \/ RetryEscalation \/ UNCHANGED vars
  <2>1. UNCHANGED <<ticket, at, pv>>
    BY <1>6 DEF RefusedAttempt, FailedAttempt, LostAttempt, Retry, SlaTimer, RetryEscalation, vars
  <2>2. QED BY <2>1 DEF RoutingCurrent, DeadlineOf
<1>7. QED
  BY <1>1, <1>2, <1>3, <1>4, <1>5, <1>6
  DEF Next, WorkerStep, HumanStep, Disturbance, EscalationStep, Rest

\* The main token moves without touching the escalation token, except that it
\* may arm the timer on its way in and remove it on its way out.
MainTokenMoves ==
    \/ sla' = sla /\ (sla = "none" \/ at' \in AgentTail)
    \/ sla = "none" /\ sla' = "armed" /\ at' = "handle-by-agent"
    \/ sla = "armed" /\ sla' = "none"

LEMMA BreachKept ==
    ASSUME TypeInv, BreachInv, MainTokenMoves, fired' = fired,
           pv'.slaBreached = pv.slaBreached, out'.slaRow = out.slaRow,
           out'.resolved \in {out.resolved, out.resolved \cup {message}},
           message'.slaBreached \in {message.slaBreached, pv.slaBreached}
    PROVE  BreachInv'
<1>1. /\ fired' <=> sla' \in {"escalating", "ended"}
      /\ sla' # "none" => at' \in AgentTail
      /\ sla' = "ended" => out'.slaRow /\ pv'.slaBreached
  BY DEF MainTokenMoves, BreachInv, AgentTail
<1>2. out'.slaRow \/ pv'.slaBreached \/ message'.slaBreached => fired'
  BY DEF BreachInv
<1>3. \A m \in out'.resolved : m.slaBreached => fired'
  BY DEF BreachInv
<1>4. QED BY <1>1, <1>2, <1>3 DEF BreachInv

LEMMA BreachStep == TypeInv /\ BreachInv /\ [Next]_vars => BreachInv'
<1> SUFFICES ASSUME TypeInv, BreachInv, [Next]_vars PROVE BreachInv'
  OBVIOUS
<1> USE DEF TypeInv, TypeOK
<1>1. CASE EscalateSla
  <2>1. out' = [out EXCEPT !.slaRow = TRUE] /\ pv' = [pv EXCEPT !.slaBreached = TRUE]
    BY <1>1 DEF EscalateSla
  <2>2. out'.slaRow /\ out'.resolved = out.resolved /\ pv'.slaBreached
    BY <2>1 DEF Effects, Variables
  <2>3. QED BY <1>1, <2>2 DEF EscalateSla, Escalating, BreachInv
<1>2. CASE FailedEscalation \/ LostEscalation
  <2>1. out' \in {out, [out EXCEPT !.slaRow = TRUE]} /\ fired
    BY <1>2 DEF FailedEscalation, LostEscalation, Escalating, BreachInv
  <2>2. out'.resolved = out.resolved
    BY <2>1 DEF Effects
  <2>3. UNCHANGED <<at, pv, sla, message, fired>> /\ sla = "escalating"
    BY <1>2 DEF FailedEscalation, LostEscalation, Escalating
  <2>4. QED BY <2>1, <2>2, <2>3 DEF BreachInv
<1>3. CASE SlaTimer
  BY <1>3 DEF SlaTimer, Open, BreachInv, AgentTail
<1>4. CASE ClassifyTicket \/ ReviewClassification
  <2>1. pv'.slaBreached = pv.slaBreached
    BY <1>4 DEF ClassifyTicket, ReviewClassification, ReviewOutputs, Variables
  <2>2. out'.slaRow = out.slaRow /\ out'.resolved = out.resolved
    BY <1>4 DEF ClassifyTicket, ReviewClassification, Audited, Effects
  <2>3. MainTokenMoves
    BY <1>4 DEF ClassifyTicket, ReviewClassification, Enter, Open, BreachInv, AgentTail,
       MainTokenMoves
  <2>4. UNCHANGED <<message, fired>>
    BY <1>4 DEF ClassifyTicket, ReviewClassification
  <2>5. QED BY <2>1, <2>2, <2>3, <2>4, BreachKept
<1>5. CASE ConvertBookingValue \/ RouteTicket \/ ConvertRefund \/ AnswerQuestion
  <2>1. pv'.slaBreached = pv.slaBreached /\ out' = out
    BY <1>5 DEF ConvertBookingValue, RouteTicket, ConvertRefund, AnswerQuestion, Variables
  <2>2. MainTokenMoves
    BY <1>5 DEF ConvertBookingValue, RouteTicket, ConvertRefund, AnswerQuestion, Enter, Open,
       BreachInv, AgentTail, MainTokenMoves
  <2>3. UNCHANGED <<message, fired>>
    BY <1>5 DEF ConvertBookingValue, RouteTicket, ConvertRefund, AnswerQuestion
  <2>4. QED BY <2>1, <2>2, <2>3, BreachKept
<1>6. CASE ChangeBooking \/ CancelRefund
  <2>1. pv'.slaBreached = pv.slaBreached
    BY <1>6 DEF ChangeBooking, CancelRefund, Variables
  <2>2. out'.slaRow = out.slaRow /\ out'.resolved = out.resolved
    BY <1>6 DEF ChangeBooking, CancelRefund, BookingSet, Effects
  <2>3. MainTokenMoves
    BY <1>6 DEF ChangeBooking, CancelRefund, Enter, Open, BreachInv, AgentTail, MainTokenMoves
  <2>4. UNCHANGED <<message, fired>>
    BY <1>6 DEF ChangeBooking, CancelRefund
  <2>5. QED BY <2>1, <2>2, <2>3, <2>4, BreachKept
<1>7. CASE RecordReview \/ BookingNotFound
  <2>1. pv' = pv /\ out'.slaRow = out.slaRow /\ out'.resolved = out.resolved
    BY <1>7 DEF RecordReview, BookingNotFound, Reviewed, Effects
  <2>2. at \in {"record-review"} \cup BookingTasks
    BY <1>7 DEF RecordReview, BookingNotFound, Open
  <2>3. sla = "none"
    BY <2>2 DEF BookingTasks, BreachInv, AgentTail
  <2>4. MainTokenMoves
    BY <1>7, <2>3 DEF RecordReview, BookingNotFound, Enter, MainTokenMoves
  <2>5. UNCHANGED <<message, fired>>
    BY <1>7 DEF RecordReview, BookingNotFound
  <2>6. QED BY <2>1, <2>4, <2>5, BreachKept
<1>8. CASE NotifyCustomer
  <2>1. out'.slaRow = out.slaRow /\ out'.resolved = out.resolved
    BY <1>8 DEF NotifyCustomer, Delivered, Effects
  <2>2. pv' = pv /\ fired' = fired /\ message'.slaBreached = pv.slaBreached
    BY <1>8 DEF NotifyCustomer, Payload
  <2>3. MainTokenMoves
    BY <1>8 DEF NotifyCustomer, Enter, AgentTail, MainTokenMoves
  <2>4. QED BY <2>1, <2>2, <2>3, BreachKept
<1>9. CASE PublishResolved
  <2>1. out'.slaRow = out.slaRow /\ out'.resolved = out.resolved \cup {message}
    BY <1>9 DEF PublishResolved, Published, Effects
  <2>2. UNCHANGED <<pv, message, fired>>
    BY <1>9 DEF PublishResolved
  <2>3. MainTokenMoves
    BY <1>9 DEF PublishResolved, Enter, AgentTail, MainTokenMoves
  <2>4. QED BY <2>1, <2>2, <2>3, BreachKept
<1>10. CASE HandleByAgent
  <2>1. pv'.slaBreached = pv.slaBreached
    BY <1>10 DEF HandleByAgent, Variables
  <2>2. MainTokenMoves
    BY <1>10 DEF HandleByAgent, AgentTail, MainTokenMoves
  <2>3. UNCHANGED <<out, message, fired>>
    BY <1>10 DEF HandleByAgent
  <2>4. QED BY <2>1, <2>2, <2>3, BreachKept
<1>11. CASE FailedAttempt \/ LostAttempt
  <2>1. UNCHANGED <<at, pv, sla, message, fired>> /\ out' \in EffectsOf(at) \cup {out}
    BY <1>11 DEF FailedAttempt, LostAttempt
  <2>2. /\ out'.slaRow = out.slaRow
        /\ out'.resolved \in {out.resolved, out.resolved \cup {message}}
    <3>1. CASE at = "publish-resolved"
      BY <2>1, <3>1 DEF EffectsOf, Published, Effects
    <3>2. CASE at = "classify-ticket"
      <4>1. out' = out \/ \E c \in Classifications : out' = Audited(c)
        BY <2>1, <3>2 DEF EffectsOf
      <4>2. QED BY <4>1 DEF Audited, Effects
    <3>3. CASE at = "record-review"
      BY <2>1, <3>3 DEF EffectsOf, Reviewed, Effects
    <3>4. CASE at \in BookingTasks
      BY <2>1, <3>4 DEF EffectsOf, BookingTasks, BookingSet, Effects
    <3>5. CASE at \notin {"publish-resolved", "classify-ticket", "record-review"} \cup BookingTasks
      BY <2>1, <3>5 DEF EffectsOf, BookingTasks, Delivered, Effects
    <3>6. QED BY <3>1, <3>2, <3>3, <3>4, <3>5
  <2>3. MainTokenMoves
    BY <2>1 DEF BreachInv, MainTokenMoves
  <2>4. QED BY <2>1, <2>2, <2>3, BreachKept
<1>12. CASE RefusedAttempt \/ Retry \/ RetryEscalation \/ UNCHANGED vars
  <2>1. UNCHANGED <<at, pv, sla, out, message, fired>>
    BY <1>12 DEF RefusedAttempt, Retry, RetryEscalation, vars
  <2>2. QED BY <2>1 DEF BreachInv
<1>13. QED
  BY <1>1, <1>2, <1>3, <1>4, <1>5, <1>6, <1>7, <1>8, <1>9, <1>10, <1>11, <1>12
  DEF Next, WorkerStep, HumanStep, Disturbance, EscalationStep, Rest

-----------------------------------------------------------------------------
(* The invariant of the specification, and what it implies.                *)

LEMMA SafetyInit == Init => SafetyInv
<1>1. Init => RoutingCurrent /\ BreachInv
  BY DEF Init, RoutingCurrent, Routed, BookingTasks, BreachInv, AgentTail
<1>2. QED BY <1>1, TypeInit, OutcomeInit, ConductInit DEF SafetyInv

LEMMA SafetyStep == SafetyInv /\ [Next]_vars => SafetyInv'
BY TypeStep, OutcomeStep, ConductStep, RoutingStep, BreachStep DEF SafetyInv

LEMMA Safety == Spec => []SafetyInv
BY SafetyInit, SafetyStep, PTL DEF Spec

\* Unless the reviewer escalated, a ticket is worked on with the routing of its
\* present intent, sentiment and value, for any number of faults and retries.
THEOREM RoutingStaysCurrent == Spec => []RoutingCurrent
BY Safety, PTL DEF SafetyInv

\* After a review the ticket is resolved as the reviewer's intent says, or by
\* an agent for one of the two reasons the process has.
THEOREM ReviewIsHonoured == Spec => []ReviewHonoured
<1>1. SafetyInv => ReviewHonoured
  <2> SUFFICES ASSUME SafetyInv, review.done, pv.resolution # Null
               PROVE  IF review.escalate THEN pv.resolution = "agent_handled"
                      ELSE \/ pv.resolution = ResolutionOf(review.intent)
                           \/ /\ pv.resolution = "agent_handled"
                              /\ ticket.ref \in {"unknown", "none"}
    BY DEF ReviewHonoured
  <2>1. /\ pv.intent = review.intent /\ pv.escalate = review.escalate
        /\ pv.escalate => pv.resolution = "agent_handled"
        /\ \/ pv.resolution = ResolutionOf(pv.intent)
           \/ pv.resolution = "agent_handled" /\ AgentNeeded
    BY DEF SafetyInv, ConductInv, ReviewInv, BranchInv
  <2>2. QED BY <2>1 DEF AgentNeeded, ResolutionOf
<1>2. QED BY <1>1, Safety, PTL

\* No ticket is reviewed a second time: the loop behind record-review ends.
THEOREM NoSecondReview == Spec => ReviewedOnce
<1>1. SafetyInv /\ [Next]_vars => [UNCHANGED review \/ ~review.done]_vars
  <2> SUFFICES ASSUME SafetyInv, Next, review' # review PROVE ~review.done
    BY DEF vars
  <2>1. ReviewClassification
    <3> USE DEF Next, WorkerStep, HumanStep, Disturbance, EscalationStep, Rest, vars
    <3>1. CASE WorkerStep
      BY <3>1 DEF ClassifyTicket, ConvertBookingValue, RouteTicket, RecordReview,
         ChangeBooking, CancelRefund, BookingNotFound, ConvertRefund, AnswerQuestion,
         NotifyCustomer, PublishResolved
    <3>2. CASE Disturbance \/ Retry \/ HandleByAgent \/ Rest
      BY <3>2 DEF RefusedAttempt, FailedAttempt, LostAttempt, Retry, HandleByAgent
    <3>3. CASE EscalationStep
      BY <3>3 DEF SlaTimer, EscalateSla, FailedEscalation, LostEscalation, RetryEscalation
    <3>4. QED BY <3>1, <3>2, <3>3
  <2>2. QED
    BY <2>1 DEF ReviewClassification, Open, SafetyInv, ConductInv, ReviewInv, BeforeReview
<1>2. QED BY <1>1, Safety, PTL DEF Spec, ReviewedOnce

\* Nothing is acted on that the audit, or the table of reviews, does not have.
THEOREM ActionsAreRecorded == Spec => []ActedOnIsRecorded
<1>1. SafetyInv => ActedOnIsRecorded
  BY DEF SafetyInv, ConductInv, AuditInv, Acted, RowOfReview, ActedOnIsRecorded
<1>2. QED BY <1>1, Safety, PTL

\* The booking carries the effect the resolution names and no other, whatever
\* attempts failed, were repeated or had an effect nobody was told of.
THEOREM BookingEffects == Spec => []NoStrayBookingEffect
<1>1. SafetyInv => NoStrayBookingEffect
  BY DEF SafetyInv, OutcomeInv, ResolutionInv, BookingInv, BookingOf, NoStrayBookingEffect,
     Settled, Telling, BookingTasks
<1>2. QED BY <1>1, Safety, PTL

\* A refund is announced exactly for a cancelled booking, and it is the value
\* of the booking at a rate of the provider.
THEOREM RefundValue == Spec => []RefundIsTheBookingsValue
<1>1. SafetyInv => RefundIsTheBookingsValue
  <2> SUFFICES ASSUME SafetyInv, NEW m \in out.resolved
               PROVE  /\ m.resolution = "refund_issued" <=> "cancelled" \in out.booking
                      /\ m.resolution = "refund_issued" => ConvertedBooking(m.refundCustomer)
                      /\ m.resolution # "refund_issued" => m.refundCustomer = NoValue
    BY DEF RefundIsTheBookingsValue, ConvertedBooking
  <2>1. /\ at \in {"publish-resolved", "end-resolved"}
        /\ m.resolution = pv.resolution /\ m.refundCustomer = pv.refundCustomer
    BY DEF SafetyInv, OutcomeInv, MessageInv
  <2>2. out.booking = BookingOf(pv.resolution)
    BY <2>1 DEF SafetyInv, OutcomeInv, BookingInv, Settled, Telling
  <2>3. QED
    BY <2>1, <2>2 DEF SafetyInv, OutcomeInv, RefundInv, BookingOf, Telling
<1>2. QED BY <1>1, Safety, PTL

\* The customer and the topic are told the same, and the customer first.
THEOREM CustomerAndTopic == Spec => []CustomerAndTopicAgree
<1>1. SafetyInv => CustomerAndTopicAgree
  BY DEF SafetyInv, OutcomeInv, MessageInv, CustomerAndTopicAgree
<1>2. QED BY <1>1, Safety, PTL

\* However the timer, the attempts at escalate-sla and the agent race: when the
\* instance is over, a timer that fired has left its row and its variable, and
\* one that never fired has left neither.
THEOREM BreachIsRecorded == Spec => []BreachRecorded
<1>1. SafetyInv => BreachRecorded
  BY DEF SafetyInv, BreachInv, BreachRecorded, Completed
<1>2. QED BY <1>1, Safety, PTL

-----------------------------------------------------------------------------
(* The process implements TicketContract: under the mapping of Contract the *)
(* initial state maps to the contract's, and every step to a decision, an   *)
(* announcement or a stutter.                                               *)

\* The action moves neither the resolution nor the topic nor ends the ticket.
Silent ==
    /\ pv'.resolution = pv.resolution
    /\ out'.resolved = out.resolved
    /\ at = "end-resolved" <=> at' = "end-resolved"

Deciding ==
    /\ pv.resolution = Null /\ pv'.resolution \in Resolutions
    /\ out'.resolved = out.resolved
    /\ at # "end-resolved" /\ at' # "end-resolved"

\* A record reaches the topic, by the attempt that completes or by another.
Publishing ==
    /\ at = "publish-resolved"
    /\ pv'.resolution = pv.resolution
    /\ out'.resolved = out.resolved \cup {message}

LEMMA SilentStutters == Silent => UNCHANGED Contract!cvars
BY DEF Silent, Contract!cvars

LEMMA DecidingDecides == Deciding => Contract!Decide
BY DEF Deciding, Contract!Decide, Resolutions, Null

\* The record carries the decision: that is MessageInv.
LEMMA PublishingAnnounces == SafetyInv /\ Publishing => Contract!Announce
<1> SUFFICES ASSUME SafetyInv, Publishing PROVE Contract!Announce
  OBVIOUS
<1>1. /\ pv.resolution # Null
      /\ message.resolution = pv.resolution
  BY DEF SafetyInv, OutcomeInv, ResolutionInv, MessageInv, Publishing, Settled, Telling
<1>2. {m.resolution : m \in out'.resolved} =
          {m.resolution : m \in out.resolved} \cup {pv.resolution}
  BY <1>1 DEF Publishing
<1>3. pv.resolution # "open"
  BY DEF SafetyInv, TypeInv, TypeOK, Variables, Resolutions, Null
<1>4. QED
  BY <1>1, <1>2, <1>3 DEF Publishing, Contract!Announce

LEMMA WorkerContract ==
    ASSUME SafetyInv, WorkerStep PROVE Silent \/ Deciding \/ Publishing
<1> USE DEF SafetyInv, TypeInv, TypeOK, Open
<1>1. CASE ClassifyTicket
  BY <1>1, EnterAt DEF ClassifyTicket, AfterClassify, Audited, Effects, Variables, Silent
<1>2. CASE ConvertBookingValue \/ ConvertRefund
  BY <1>2, EnterAt DEF ConvertBookingValue, ConvertRefund, Variables, Silent
<1>3. CASE RouteTicket
  <2>1. at' # "end-resolved"
    BY <1>3, EnterAt DEF RouteTicket, AfterRouting, BranchOf
  <2>2. QED BY <1>3, <2>1 DEF RouteTicket, Variables, Silent
<1>4. CASE RecordReview
  BY <1>4, EnterAt DEF RecordReview, AfterReview, Reviewed, Effects, Silent
<1>5. CASE ChangeBooking \/ CancelRefund
  <2>1. pv.resolution = Null
    BY <1>5 DEF ChangeBooking, CancelRefund, OutcomeInv, ResolutionInv, Settled, Telling
  <2>2. at' # "end-resolved"
    BY <1>5, EnterAt DEF ChangeBooking, CancelRefund
  <2>3. pv'.resolution \in Resolutions
    BY <1>5 DEF ChangeBooking, CancelRefund, Variables, Resolutions
  <2>4. out'.resolved = out.resolved
    BY <1>5 DEF ChangeBooking, CancelRefund, BookingSet, Effects
  <2>5. QED
    BY <1>5, <2>1, <2>2, <2>3, <2>4 DEF ChangeBooking, CancelRefund, Deciding
<1>6. CASE BookingNotFound
  BY <1>6, EnterAt DEF BookingNotFound, BookingTasks, Silent
<1>7. CASE AnswerQuestion
  <2>1. pv.resolution = Null
    BY <1>7 DEF AnswerQuestion, OutcomeInv, ResolutionInv, Settled, Telling
  <2>2. QED
    BY <1>7, <2>1, EnterAt DEF AnswerQuestion, Variables, Resolutions, Deciding
<1>8. CASE NotifyCustomer
  BY <1>8, EnterAt DEF NotifyCustomer, Delivered, Effects, Silent
<1>9. CASE PublishResolved
  BY <1>9 DEF PublishResolved, Published, Effects, Publishing
<1>10. QED BY <1>1, <1>2, <1>3, <1>4, <1>5, <1>6, <1>7, <1>8, <1>9 DEF WorkerStep

LEMMA AttemptContract ==
    ASSUME SafetyInv, FailedAttempt \/ LostAttempt PROVE Silent \/ Publishing
<1> USE DEF SafetyInv, TypeInv, TypeOK
<1>1. at' = at /\ pv' = pv /\ out' \in EffectsOf(at) \cup {out}
  BY DEF FailedAttempt, LostAttempt
<1>2. CASE out' # out /\ at = "publish-resolved"
  BY <1>1, <1>2 DEF EffectsOf, Published, Effects, Publishing
<1>3. CASE out' = out \/ at # "publish-resolved"
  <2>1. out'.resolved = out.resolved
    BY <1>1, <1>3 DEF EffectsOf, Audited, Reviewed, BookingSet, Delivered, Effects
  <2>2. QED BY <1>1, <2>1 DEF Silent
<1>4. QED BY <1>2, <1>3

LEMMA StepContract ==
    SafetyInv /\ [Next]_vars => [Contract!Decide \/ Contract!Announce]_(Contract!cvars)
<1> SUFFICES ASSUME SafetyInv, [Next]_vars PROVE Silent \/ Deciding \/ Publishing
  BY SilentStutters, DecidingDecides, PublishingAnnounces
<1>1. CASE WorkerStep BY <1>1, WorkerContract
<1>2. CASE FailedAttempt \/ LostAttempt BY <1>2, AttemptContract
<1>3. CASE ReviewClassification
  BY <1>3, EnterAt
  DEF ReviewClassification, ReviewOutputs, Open, SafetyInv, TypeInv, TypeOK, Variables, Silent
<1>4. CASE HandleByAgent
  <2>1. pv.resolution = Null
    BY <1>4
    DEF HandleByAgent, Open, SafetyInv, OutcomeInv, ResolutionInv, Settled, Telling
  <2>2. QED
    BY <1>4, <2>1
    DEF HandleByAgent, Open, SafetyInv, TypeInv, TypeOK, Variables, Resolutions, Deciding
<1>5. CASE EscalateSla \/ FailedEscalation \/ LostEscalation
  <2>1. at' = at /\ out'.resolved = out.resolved /\ pv'.resolution = pv.resolution
    BY <1>5, EscalationFrame DEF SafetyInv, TypeInv, TypeOK, Effects, Variables
  <2>2. QED BY <2>1 DEF Silent
<1>6. CASE RefusedAttempt \/ Retry \/ SlaTimer \/ RetryEscalation \/ UNCHANGED vars
  BY <1>6 DEF RefusedAttempt, Retry, SlaTimer, RetryEscalation, vars, Silent
<1>7. QED
  BY <1>1, <1>2, <1>3, <1>4, <1>5, <1>6 DEF Next, HumanStep, Disturbance, EscalationStep, Rest

\* The process keeps what it promises to the consumers of the topic: one
\* decision, announced as it was taken and never before, and no closed ticket
\* without it, for any tickets and rates and any number of faults and retries.
THEOREM ProcessImplementsContract == Spec => ImplementsContract
<1>1. Init => Contract!Init
  BY DEF Init, Contract!Init
<1>2. QED
  BY <1>1, StepContract, Safety, PTL DEF Spec, ImplementsContract, Contract!Spec
=============================================================================
