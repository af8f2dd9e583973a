--------------------------- MODULE TicketProcess ---------------------------
(***************************************************************************)
(* One instance of the process support-request-v1, version 10              *)
(* (processes/support-request-v1.bpmn): the way of its two tokens through  *)
(* the model, the process variables, and what the workers leave behind     *)
(* outside the engine: audit rows, bookings, messages to the customer and  *)
(* records on the topic support.ticket.resolved.                           *)
(*                                                                         *)
(* A worker serves a job at least once.  Its callback has its effect, then *)
(* the engine learns the outcome; every attempt may fail before or after   *)
(* the effect, and the outcome of a finished attempt may be lost, in which *)
(* case the job times out and runs again with the retries it had.          *)
(***************************************************************************)
EXTENDS Routing

CONSTANTS
    Currencies,     \* three-letter currency codes
    Tickets,        \* the start variables a ticket may carry
    BookingAmount,  \* value of the ticket's booking in the booking API
    BookingCurrency,
    Rates,          \* rates the currency provider may answer with
    MaxFaults       \* bound: attempts disturbed by a fault, over the run

MaxRetries == 3     \* the engine's default, and the model's own retries="3"

References == {"known", "unknown", "failing", "none"}
Overrides  == {"none", "valid", "unparsable"}

\* The start variables the process reads: customerTier, bookingValue,
\* currency, customerCurrency, bookingRef (a booking the API knows, one it
\* does not know, a BK-FAIL id, null) and slaOverride.
TicketType ==
    [tier : Tiers, value : Int \cup {NoValue},
     currency : Currencies \cup {NoValue},
     customerCurrency : Currencies \cup {NoValue},
     ref : References, override : Overrides]

ASSUME ProcessAssumption ==
    /\ Tickets \subseteq TicketType
    /\ "EUR" \in Currencies /\ NoValue \notin Currencies
    /\ BookingCurrency \in Currencies
    /\ BookingAmount \in Nat \ {0}
    /\ Rates \subseteq Nat \ {0}
    /\ MaxFaults \in Nat

VARIABLES
    ticket,   \* the start variables
    at,       \* element the main token waits in
    job,      \* retries and incident of the job or task at that element
    pv,       \* the process variables
    sla,      \* the boundary timer and the escalation token it starts
    slaJob,   \* retries and incident of escalate-sla
    out,      \* effects outside the engine
    message,  \* input of publish-resolved, fixed when the task is entered
    review,   \* what the reviewer entered: the completed task's local variables
    fired,    \* history, read by the properties alone: the timer has fired
    faults    \* faults so far

vars == <<ticket, at, job, pv, sla, slaJob, out, message, review, fired, faults>>

-----------------------------------------------------------------------------
(* Types.                                                                  *)

BookingTasks == {"change-booking", "cancel-refund"}
FxTasks      == {"convert-booking-value", "convert-refund"}
JobTasks     == {"classify-ticket", "record-review", "answer-question",
                 "notify-customer", "publish-resolved"} \cup BookingTasks \cup FxTasks
UserTasks    == {"review-classification", "handle-by-agent"}
Elements     == JobTasks \cup UserTasks \cup {"route-ticket", "end-resolved"}

Resolutions == {"booking_changed", "refund_issued", "answered", "agent_handled"}
Deadlines   == {"PT4H", "PT24H", "override"}   \* distance from the routing
Null        == "null"

Jobs            == [retries : 0 .. MaxRetries, incident : BOOLEAN]
Classifications == [intent : Intents, sentiment : Sentiments, needsReview : BOOLEAN]

FreshJob == [retries |-> MaxRetries, incident |-> FALSE]

Variables ==
    [intent : Intents \cup {Null}, sentiment : Sentiments \cup {Null},
     needsReview : BOOLEAN, escalate : BOOLEAN,
     valueEur : Int \cup {NoValue}, team : Teams \cup {Null},
     priority : Priorities \cup {Null}, checks : SUBSET Checks,
     deadline : Deadlines \cup {Null}, resolution : Resolutions \cup {Null},
     refund : Int \cup {NoValue}, refundCurrency : Currencies \cup {NoValue},
     refundCustomer : Int \cup {NoValue}, slaBreached : BOOLEAN]

ReviewRows == [llmIntent : Intents \cup {Null}, finalIntent : Intents,
               finalSentiment : Sentiments, escalated : BOOLEAN]

Payloads ==
    [resolution : Resolutions \cup {Null}, team : Teams \cup {Null},
     priority : Priorities \cup {Null}, deadline : Deadlines \cup {Null},
     refundCustomer : Int \cup {NoValue}, slaBreached : BOOLEAN]

Effects ==
    [audited   : SUBSET Classifications,                \* llm_audit, job_type classify
     latest    : Intents \cup {Null},                  \* intent of the newest such row
     reviews   : SUBSET ReviewRows,                     \* classification_review
     booking   : SUBSET {"changed", "cancelled"},       \* done to the ticket's booking
     delivered : SUBSET (Resolutions \cup {Null}),      \* messages to the customer
     resolved  : SUBSET Payloads,                       \* support.ticket.resolved
     slaRow    : BOOLEAN]                               \* sla_escalation

Reviews  == [done : BOOLEAN, intent : Intents, sentiment : Sentiments, escalate : BOOLEAN]
NoReview == [done |-> FALSE, intent |-> "other", sentiment |-> "neutral", escalate |-> FALSE]

TypeOK ==
    /\ ticket \in Tickets
    /\ at \in Elements
    /\ job \in Jobs
    /\ pv \in Variables
    /\ sla \in {"none", "armed", "escalating", "ended"}
    /\ slaJob \in Jobs
    /\ out \in Effects
    /\ message \in Payloads
    /\ review \in Reviews
    /\ fired \in BOOLEAN
    /\ faults \in 0 .. MaxFaults

-----------------------------------------------------------------------------
(* Initial state: the Kafka start event has created the instance.          *)

Init ==
    /\ ticket \in Tickets
    /\ at = "classify-ticket"
    /\ job = FreshJob
    /\ pv = [intent |-> Null, sentiment |-> Null, needsReview |-> FALSE,
             escalate |-> FALSE, valueEur |-> NoValue, team |-> Null,
             priority |-> Null, checks |-> {}, deadline |-> Null,
             resolution |-> Null, refund |-> NoValue, refundCurrency |-> NoValue,
             refundCustomer |-> NoValue, slaBreached |-> FALSE]
    /\ sla = "none"
    /\ slaJob = FreshJob
    /\ out = [audited |-> {}, latest |-> Null, reviews |-> {}, booking |-> {},
              delivered |-> {}, resolved |-> {}, slaRow |-> FALSE]
    /\ message = [resolution |-> Null, team |-> Null, priority |-> Null, deadline |-> Null,
                  refundCustomer |-> NoValue, slaBreached |-> FALSE]
    /\ review = NoReview
    /\ fired = FALSE
    /\ faults = 0

-----------------------------------------------------------------------------
(* The engine: jobs, gateways and the entering of elements.                *)

\* The token waits in element e and its job or task can be worked on.
Open(e) == at = e /\ ~job.incident

\* Deviation: the floor at zero and the incident come one failure late.
JobFailedLate(j) == [retries |-> j.retries - 1, incident |-> j.retries < 1]

\* fail-job with one retry less; none left raises the incident JOB_NO_RETRIES.
JobFailed(j) ==
    [retries |-> IF j.retries > 0 THEN j.retries - 1 ELSE 0, incident |-> j.retries <= 1]

Incident == [retries |-> 0, incident |-> TRUE]

\* The token moves to e.  Entering handle-by-agent evaluates the time date of
\* its boundary timer: a null deadline is an incident and arms nothing.
Enter(e, deadline) ==
    /\ at' = e
    /\ IF e # "handle-by-agent"
       THEN job' = FreshJob /\ UNCHANGED sla
       ELSE IF deadline = Null
            THEN job' = Incident /\ UNCHANGED sla
            ELSE job' = FreshJob /\ sla' = "armed"

\* gw-has-booking-value
AfterClassify == IF ticket.value # NoValue THEN "convert-booking-value" ELSE "route-ticket"

\* gw-intent
BranchOf(intent) ==
    CASE intent = "change_booking" -> "change-booking"
      [] intent = "cancel_refund"  -> "cancel-refund"
      [] intent = "question"       -> "answer-question"
      [] OTHER                     -> "handle-by-agent"

\* gw-needs-review, then gw-intent
AfterRouting(v) == IF v.needsReview THEN "review-classification" ELSE BranchOf(v.intent)

\* Deviation, the flow of versions 1 to 6: straight to gw-intent.
AfterReviewV6(v) == IF v.escalate THEN "handle-by-agent" ELSE BranchOf(v.intent)

\* gw-review-exit: the default flow goes back to the routing decision.
AfterReview(v) == IF v.escalate THEN "handle-by-agent" ELSE "route-ticket"

\* The output mapping slaDeadline of route-ticket.
DeadlineOf(hours) ==
    CASE ticket.override = "valid"      -> "override"
      [] ticket.override = "unparsable" -> Null
      [] OTHER                          -> IF hours = 4 THEN "PT4H" ELSE "PT24H"

-----------------------------------------------------------------------------
(* What an attempt at a job leaves behind, whatever the engine learns.     *)

\* Mandatory audit of a classification: the row precedes the result.
Audited(c) == [out EXCEPT !.audited = @ \cup {c}, !.latest = c.intent]

\* review.record: the form's final values beside the newest classify row.
Reviewed ==
    [out EXCEPT !.reviews = @ \cup
        {[llmIntent |-> out.latest, finalIntent |-> pv.intent,
          finalSentiment |-> pv.sentiment, escalated |-> pv.escalate]}]

\* The booking API sets the status of a booking it knows, whatever it was.
BookingSet(status) ==
    IF ticket.ref = "known" THEN [out EXCEPT !.booking = @ \cup {status}] ELSE out

\* ticket.notify: delivery of the message about the resolution.
Delivered == [out EXCEPT !.delivered = @ \cup {pv.resolution}]

\* Deviation: the resolution is derived from the intent once more.
PayloadFromIntent ==
    [resolution |-> CASE pv.intent = "change_booking" -> "booking_changed"
                      [] pv.intent = "cancel_refund"  -> "refund_issued"
                      [] pv.intent = "question"       -> "answered"
                      [] OTHER                        -> "agent_handled",
     team |-> pv.team, priority |-> pv.priority, deadline |-> pv.deadline,
     refundCustomer |-> pv.refundCustomer, slaBreached |-> pv.slaBreached]

\* The input mapping message.value of publish-resolved.
Payload ==
    [resolution |-> pv.resolution, team |-> pv.team, priority |-> pv.priority,
     deadline |-> pv.deadline, refundCustomer |-> pv.refundCustomer,
     slaBreached |-> pv.slaBreached]

Published == [out EXCEPT !.resolved = @ \cup {message}]

EffectsOf(e) ==
    CASE e = "classify-ticket"  -> {Audited(c) : c \in Classifications}
      [] e = "record-review"    -> {Reviewed}
      [] e = "change-booking"   -> {BookingSet("changed")}
      [] e = "cancel-refund"    -> {BookingSet("cancelled")}
      [] e = "notify-customer"  -> {Delivered}
      [] e = "publish-resolved" -> {Published}
      [] OTHER                  -> {out}

Fault == faults < MaxFaults /\ faults' = faults + 1

-----------------------------------------------------------------------------
(* The jobs of the main token, completed.                                  *)

\* Deviation: a failed audit write is logged and the result returned.
ClassifyTicketUnaudited ==
    /\ Open("classify-ticket")
    /\ \E c \in Classifications :
        /\ out' \in {out, Audited(c)}
        /\ pv' = [pv EXCEPT !.intent = c.intent, !.sentiment = c.sentiment,
                            !.needsReview = c.needsReview]
    /\ Enter(AfterClassify, pv.deadline)
    /\ UNCHANGED <<ticket, slaJob, message, review, fired, faults>>

\* ticket.classify; no output mappings, so the result lands in the process.
ClassifyTicket ==
    /\ Open("classify-ticket")
    /\ \E c \in Classifications :
        /\ out' = Audited(c)
        /\ pv' = [pv EXCEPT !.intent = c.intent, !.sentiment = c.sentiment,
                            !.needsReview = c.needsReview]
    /\ Enter(AfterClassify, pv.deadline)
    /\ UNCHANGED <<ticket, slaJob, message, review, fired, faults>>

ConvertBookingValue ==
    /\ Open("convert-booking-value")
    /\ Convertible(ticket.currency, "EUR", ticket.value)
    /\ \E r \in Rates :
        pv' = [pv EXCEPT !.valueEur = Converted(ticket.currency, "EUR", ticket.value, r)]
    /\ Enter("route-ticket", pv.deadline)
    /\ UNCHANGED <<ticket, slaJob, out, message, review, fired, faults>>

\* The business rule task, its output mappings and the gateways behind it.
RouteTicket ==
    /\ Open("route-ticket")
    /\ LET routing == Route(pv.intent, ticket.tier, pv.sentiment, pv.valueEur)
       IN  /\ pv' = [pv EXCEPT !.team = routing.team, !.priority = routing.priority,
                               !.checks = routing.checks,
                               !.deadline = DeadlineOf(routing.slaHours)]
           /\ Enter(AfterRouting(pv), DeadlineOf(routing.slaHours))
    /\ UNCHANGED <<ticket, slaJob, out, message, review, fired, faults>>

\* review.record, then gw-review-exit.
RecordReview ==
    /\ Open("record-review")
    /\ out' = Reviewed
    /\ Enter(AfterReview(pv), pv.deadline)
    /\ UNCHANGED <<ticket, pv, slaJob, message, review, fired, faults>>

ChangeBooking ==
    /\ Open("change-booking")
    /\ ticket.ref = "known"
    /\ out' = BookingSet("changed")
    /\ pv' = [pv EXCEPT !.resolution = "booking_changed"]
    /\ Enter("notify-customer", pv.deadline)
    /\ UNCHANGED <<ticket, slaJob, message, review, fired, faults>>

\* The refund is the booking's value; a 200 whose body is lost on the way is
\* completed all the same, with the zero values of the decoder.
CancelRefund ==
    /\ Open("cancel-refund")
    /\ ticket.ref = "known"
    /\ out' = BookingSet("cancelled")
    /\ \/ /\ pv' = [pv EXCEPT !.resolution = "refund_issued", !.refund = BookingAmount,
                               !.refundCurrency = BookingCurrency]
          /\ UNCHANGED faults
       \/ /\ pv' = [pv EXCEPT !.resolution = "refund_issued", !.refund = 0,
                               !.refundCurrency = NoValue]
          /\ Fault
    /\ Enter("convert-refund", pv.deadline)
    /\ UNCHANGED <<ticket, slaJob, message, review, fired>>

\* Deviation: every attempt without a 2xx answer is a BOOKING_NOT_FOUND.
BookingNotFoundOnAnyFailure ==
    /\ \E e \in BookingTasks : Open(e)
    /\ out' \in EffectsOf(at) \cup {out}
    /\ Enter("handle-by-agent", pv.deadline)
    /\ UNCHANGED <<ticket, pv, slaJob, message, review, fired, faults>>

\* BPMN error BOOKING_NOT_FOUND, caught by the interrupting boundary events.
BookingNotFound ==
    /\ \E e \in BookingTasks : Open(e)
    /\ ticket.ref \in {"unknown", "none"}
    /\ Enter("handle-by-agent", pv.deadline)
    /\ UNCHANGED <<ticket, pv, slaJob, out, message, review, fired, faults>>

ConvertRefund ==
    /\ Open("convert-refund")
    /\ Convertible(pv.refundCurrency, ticket.customerCurrency, pv.refund)
    /\ \E r \in Rates :
        pv' = [pv EXCEPT !.refundCustomer =
                   Converted(pv.refundCurrency, ticket.customerCurrency, pv.refund, r)]
    /\ Enter("notify-customer", pv.deadline)
    /\ UNCHANGED <<ticket, slaJob, out, message, review, fired, faults>>

AnswerQuestion ==
    /\ Open("answer-question")
    /\ pv' = [pv EXCEPT !.resolution = "answered"]
    /\ Enter("notify-customer", pv.deadline)
    /\ UNCHANGED <<ticket, slaJob, out, message, review, fired, faults>>

\* Deviation: a failed delivery is logged and the job completed.
NotifyCustomerBestEffort ==
    /\ Open("notify-customer")
    /\ out' \in {out, Delivered}
    /\ message' = Payload
    /\ Enter("publish-resolved", pv.deadline)
    /\ UNCHANGED <<ticket, pv, slaJob, review, fired, faults>>

NotifyCustomer ==
    /\ Open("notify-customer")
    /\ out' = Delivered
    /\ message' = Payload
    /\ Enter("publish-resolved", pv.deadline)
    /\ UNCHANGED <<ticket, pv, slaJob, review, fired, faults>>

\* Deviation: end-resolved drawn as a terminate event, which ends the
\* escalation token with the instance.
PublishResolvedTerminating ==
    /\ Open("publish-resolved")
    /\ out' = Published
    /\ at' = "end-resolved" /\ job' = FreshJob
    /\ sla' = IF sla = "escalating" THEN "none" ELSE sla
    /\ UNCHANGED <<ticket, pv, slaJob, message, review, fired, faults>>

PublishResolved ==
    /\ Open("publish-resolved")
    /\ out' = Published
    /\ Enter("end-resolved", pv.deadline)
    /\ UNCHANGED <<ticket, pv, slaJob, message, review, fired, faults>>

-----------------------------------------------------------------------------
(* The two user tasks.                                                     *)

\* Deviations: the task-local variables of D4-6, and the missing literal.
ReviewOutputsLocal(r) == [pv EXCEPT !.needsReview = FALSE, !.escalate = r.escalate]
ReviewOutputsLooping(r) ==
    [pv EXCEPT !.intent = r.intent, !.sentiment = r.sentiment, !.escalate = r.escalate]

\* The output mappings of review-classification.  They alone carry the form's
\* values into the process, and needsReview = false closes the review loop.
ReviewOutputs(r) ==
    [pv EXCEPT !.needsReview = FALSE, !.intent = r.intent,
               !.sentiment = r.sentiment, !.escalate = r.escalate]

ReviewClassification ==
    /\ Open("review-classification")
    /\ \E r \in Reviews :
        /\ r.done
        /\ review' = r
        /\ pv' = ReviewOutputs(r)
    /\ Enter("record-review", pv.deadline)
    /\ UNCHANGED <<ticket, slaJob, out, message, fired, faults>>

\* Completing the task removes its timer, if that has not fired.
HandleByAgent ==
    /\ Open("handle-by-agent")
    /\ pv' = [pv EXCEPT !.resolution = "agent_handled"]
    /\ at' = "notify-customer"
    /\ job' = FreshJob
    /\ sla' = IF sla = "armed" THEN "none" ELSE sla
    /\ UNCHANGED <<ticket, slaJob, out, message, review, fired, faults>>

-----------------------------------------------------------------------------
(* Attempts that do not complete, and the operator.                        *)

\* Requests that can only be refused: 400 of the FX gateway, a booking whose
\* id makes the booking API fail.
Hopeless ==
    \/ at = "convert-booking-value" /\ ~Convertible(ticket.currency, "EUR", ticket.value)
    \/ at = "convert-refund"
       /\ ~Convertible(pv.refundCurrency, ticket.customerCurrency, pv.refund)
    \/ at \in BookingTasks /\ ticket.ref = "failing"

RefusedAttempt ==
    /\ Open(at) /\ at \in JobTasks
    /\ Hopeless
    /\ job' = JobFailed(job)
    /\ UNCHANGED <<ticket, at, pv, sla, slaJob, out, message, review, fired, faults>>

\* A failure is reported, with or without the effect: an exception, a 5xx, a
\* timeout, an answer lost on its way.  The booking worker turns an outcome
\* that it cannot report into a failure without retries.
FailedAttempt ==
    /\ Open(at) /\ at \in JobTasks
    /\ Fault
    /\ out' \in EffectsOf(at) \cup {out}
    /\ \/ job' = JobFailed(job)
       \/ at \in BookingTasks /\ job' = Incident
    /\ UNCHANGED <<ticket, at, pv, sla, slaJob, message, review, fired>>

\* Nothing is reported, and the engine hands the job out again: the worker
\* died, or the outcome did not reach the engine.
LostAttempt ==
    /\ Open(at) /\ at \in JobTasks
    /\ Fault
    /\ out' \in EffectsOf(at)
    /\ UNCHANGED <<ticket, at, job, pv, sla, slaJob, message, review, fired>>

\* Retry in Operate: the retries are raised and the incident is resolved.  A
\* null deadline is evaluated again with the same result.
Retry ==
    /\ job.incident /\ at # "handle-by-agent"
    /\ \E n \in 1 .. MaxRetries : job' = [retries |-> n, incident |-> FALSE]
    /\ UNCHANGED <<ticket, at, pv, sla, slaJob, out, message, review, fired, faults>>

-----------------------------------------------------------------------------
(* The boundary timer of handle-by-agent and the escalation token.         *)

SlaTimer ==
    /\ Open("handle-by-agent")
    /\ sla = "armed"
    /\ sla' = "escalating"
    /\ fired' = TRUE
    /\ slaJob' = FreshJob
    /\ UNCHANGED <<ticket, at, job, pv, out, message, review, faults>>

Escalating == sla = "escalating" /\ ~slaJob.incident

\* sla.escalate: one row for every outcome, then slaBreached = true.
EscalateSla ==
    /\ Escalating
    /\ out' = [out EXCEPT !.slaRow = TRUE]
    /\ pv' = [pv EXCEPT !.slaBreached = TRUE]
    /\ sla' = "ended"
    /\ UNCHANGED <<ticket, at, job, slaJob, message, review, fired, faults>>

\* 4xx of the user task API: no retries; anything else: one retry less.
FailedEscalation ==
    /\ Escalating
    /\ Fault
    /\ \/ slaJob' = JobFailed(slaJob) /\ out' \in {out, [out EXCEPT !.slaRow = TRUE]}
       \/ slaJob' = Incident /\ UNCHANGED out
    /\ UNCHANGED <<ticket, at, job, pv, sla, message, review, fired>>

LostEscalation ==
    /\ Escalating
    /\ Fault
    /\ out' = [out EXCEPT !.slaRow = TRUE]
    /\ UNCHANGED <<ticket, at, job, pv, sla, slaJob, message, review, fired>>

RetryEscalation ==
    /\ slaJob.incident
    /\ \E n \in 1 .. MaxRetries : slaJob' = [retries |-> n, incident |-> FALSE]
    /\ UNCHANGED <<ticket, at, job, pv, sla, out, message, review, fired, faults>>

-----------------------------------------------------------------------------
(* The instance has completed when both tokens have ended.                 *)

Completed == at = "end-resolved" /\ sla \in {"none", "ended"}

\* An agent task that cannot be entered: it waits for a corrected deadline.
NoDeadline == at = "handle-by-agent" /\ job.incident

Rest == (Completed \/ NoDeadline) /\ UNCHANGED vars

WorkerStep ==
    \/ ClassifyTicket \/ ConvertBookingValue \/ RouteTicket \/ RecordReview
    \/ ChangeBooking \/ CancelRefund \/ BookingNotFound \/ ConvertRefund
    \/ AnswerQuestion \/ NotifyCustomer \/ PublishResolved

HumanStep == ReviewClassification \/ HandleByAgent

Disturbance == RefusedAttempt \/ FailedAttempt \/ LostAttempt

EscalationStep ==
    SlaTimer \/ EscalateSla \/ FailedEscalation \/ LostEscalation \/ RetryEscalation

Next ==
    \/ WorkerStep \/ HumanStep
    \/ Disturbance \/ Retry
    \/ EscalationStep
    \/ Rest

Spec == Init /\ [][Next]_vars

\* Workers keep serving jobs, and people their tasks and incidents.  Nothing
\* makes the timer fire before the agent is done.
Fairness ==
    /\ WF_vars(WorkerStep)
    /\ WF_vars(RefusedAttempt)
    /\ WF_vars(HumanStep)
    /\ WF_vars(Retry)
    /\ WF_vars(EscalateSla)
    /\ WF_vars(RetryEscalation)

FairSpec == Spec /\ Fairness

-----------------------------------------------------------------------------
(* Properties.                                                             *)

\* The elements behind the gateways of the routing decision.
Routed == {"review-classification", "notify-customer", "publish-resolved", "convert-refund",
           "answer-question", "handle-by-agent", "end-resolved"} \cup BookingTasks

\* Unless the reviewer escalated, the routing a ticket is worked on with is
\* that of its present intent, sentiment and value in euros, also after a
\* review has corrected them; so is the deadline (D5-4).
RoutingCurrent ==
    (at \in Routed /\ ~pv.escalate) =>
        LET routing == Route(pv.intent, ticket.tier, pv.sentiment, pv.valueEur)
        IN  /\ pv.team = routing.team
            /\ pv.priority = routing.priority
            /\ pv.checks = routing.checks
            /\ pv.deadline = DeadlineOf(routing.slaHours)

ResolutionOf(intent) ==
    CASE intent = "change_booking" -> "booking_changed"
      [] intent = "cancel_refund"  -> "refund_issued"
      [] intent = "question"       -> "answered"
      [] OTHER                     -> "agent_handled"

\* The reviewer has the last word: after a review the ticket is resolved as
\* the reviewer's intent says, or by an agent if the reviewer escalated or the
\* booking does not exist.
ReviewHonoured ==
    (review.done /\ pv.resolution # Null) =>
        IF review.escalate THEN pv.resolution = "agent_handled"
        ELSE \/ pv.resolution = ResolutionOf(review.intent)
             \/ pv.resolution = "agent_handled" /\ ticket.ref \in {"unknown", "none"}

\* A ticket is reviewed once: the loop back to the routing decision does not
\* lead to a second review.
ReviewedOnce == [][UNCHANGED review \/ ~review.done]_vars

\* No classification is acted on that is not in the audit (D5-3), and no
\* review that is not recorded beside an intent the audit has, on the
\* escalate path too.
ActedOnIsRecorded ==
    /\ (at # "classify-ticket" /\ ~review.done) =>
           [intent |-> pv.intent, sentiment |-> pv.sentiment,
            needsReview |-> pv.needsReview] \in out.audited
    /\ (review.done /\ at # "record-review") =>
           \E row \in out.reviews :
               /\ row.finalIntent = review.intent
               /\ row.finalSentiment = review.sentiment
               /\ row.escalated = review.escalate
               /\ \E c \in out.audited : c.intent = row.llmIntent

\* A ticket handed to an agent has no half-done booking behind it, and the
\* booking is never touched in a way the resolution does not name, whatever
\* attempts have failed or been repeated.
NoStrayBookingEffect ==
    /\ at = "handle-by-agent" => out.booking = {}
    /\ pv.resolution # Null =>
           out.booking = CASE pv.resolution = "booking_changed" -> {"changed"}
                           [] pv.resolution = "refund_issued"   -> {"cancelled"}
                           [] OTHER                             -> {}

\* The topic names a refund exactly for the tickets whose booking has been
\* cancelled, and its amount is the booking's value at some rate of the
\* provider: a refund whose amount was lost on the way is never announced.
RefundIsTheBookingsValue ==
    \A m \in out.resolved :
        /\ m.resolution = "refund_issued" <=> "cancelled" \in out.booking
        /\ m.resolution = "refund_issued" =>
               \E r \in Rates : m.refundCustomer =
                   Converted(BookingCurrency, ticket.customerCurrency, BookingAmount, r)
        /\ m.resolution # "refund_issued" => m.refundCustomer = NoValue

\* The customer and the consumers of the topic are told the same, and the
\* customer first, however often the two messages have been repeated.
CustomerAndTopicAgree == \A m \in out.resolved : out.delivered = {m.resolution}

\* The breach survives its race with the agent: when the instance is over, a
\* timer that has fired has left its row and its variable, even if the ticket
\* was finished, and announced, before escalate-sla had got anywhere; and none
\* of the three says breached of a ticket whose timer never fired.
BreachRecorded ==
    /\ Completed => (fired <=> out.slaRow) /\ (fired <=> pv.slaBreached)
    /\ \A m \in out.resolved : m.slaBreached => fired

\* operations-v1.md 4.1: a breach is visible in support.ticket.resolved, whose
\* slaBreached is null only when the timer never fired.
BreachAnnounced == fired => \A m \in out.resolved : m.slaBreached

\* Every ticket is resolved and its instance completed, unless it waits for
\* data only an operator can correct: an amount or currency the FX gateway
\* refuses, a booking reference that makes the API fail, a null deadline.
EventuallyCompleted == <>(Completed \/ NoDeadline \/ Hopeless)

Contract ==
    INSTANCE TicketContract WITH
        decision  <- IF pv.resolution = Null THEN "open" ELSE pv.resolution,
        announced <- {m.resolution : m \in out.resolved},
        closed    <- at = "end-resolved"

\* The process keeps its promise to the consumers of the resolved topic.
ImplementsContract == Contract!Spec
=============================================================================
