------------------------ MODULE TicketProcess_proofs ------------------------
(***************************************************************************)
(* Proofs about TicketProcess, for every set of tickets, currencies and    *)
(* rates and for any number of faults.                                     *)
(***************************************************************************)
EXTENDS TicketProcess, TLAPS

-----------------------------------------------------------------------------
(* What the operators return.                                              *)

\* The routing decision is total: whatever classification reaches the tables,
\* null included, a team, a priority and a set of checks come out.
LEMMA RouteType ==
    ASSUME NEW intent, NEW tier, NEW sentiment, NEW value
    PROVE  LET r == Route(intent, tier, sentiment, value)
           IN  /\ r.team \in Teams
               /\ r.priority \in Priorities
               /\ r.checks \in SUBSET Checks
BY DEF Route, RouteTeam, SlaPolicy, RequiredChecks, Teams, Priorities, Checks

\* A conversion the gateway accepts has a number as its result.
LEMMA ConvertedType ==
    ASSUME NEW from, NEW to, NEW amount \in Int \cup {NoValue}, NEW r \in Rates,
           Convertible(from, to, amount)
    PROVE  Converted(from, to, amount, r) \in Int
BY ProcessAssumption DEF ProcessAssumption, Convertible, Converted, RoundedProduct

\* A failure leaves a job that the engine can still serve or an incident.
LEMMA JobFailedType ==
    ASSUME NEW j \in Jobs
    PROVE  JobFailed(j) \in Jobs
BY DEF Jobs, JobFailed, MaxRetries

LEMMA JobConstants == FreshJob \in Jobs /\ Incident \in Jobs
BY DEF FreshJob, Incident, Jobs, MaxRetries

SlaStates == {"none", "armed", "escalating", "ended"}

\* Entering an element keeps the main token, its job and the timer in type.
LEMMA EnterType ==
    ASSUME NEW e \in Elements, NEW deadline, sla \in SlaStates, Enter(e, deadline)
    PROVE  at' \in Elements /\ job' \in Jobs /\ sla' \in SlaStates
BY JobConstants DEF Enter, SlaStates

LEMMA Targets ==
    ASSUME NEW intent, NEW v
    PROVE  /\ AfterClassify \in Elements /\ BranchOf(intent) \in Elements
           /\ AfterRouting(v) \in Elements /\ AfterReview(v) \in Elements
BY DEF AfterClassify, BranchOf, AfterRouting, AfterReview, Elements, JobTasks, UserTasks,
       BookingTasks, FxTasks

LEMMA DeadlineType == ASSUME NEW h PROVE DeadlineOf(h) \in Deadlines \cup {Null}
BY DEF DeadlineOf, Deadlines

-----------------------------------------------------------------------------
(* Type correctness.  It is inductive only together with the fact that a   *)
(* ticket past its classification has an intent and a sentiment: that is   *)
(* what review.record writes into columns declared NOT NULL.               *)

Classified == at # "classify-ticket" => pv.intent \in Intents /\ pv.sentiment \in Sentiments

TypeInv == TypeOK /\ Classified

\* Whatever an attempt leaves behind outside the engine is of its type.
LEMMA EffectsType ==
    ASSUME TypeInv, NEW o \in EffectsOf(at) \cup {out}
    PROVE  o \in Effects
<1> USE DEF TypeInv, TypeOK, Classified
<1>1. CASE at = "classify-ticket"
  <2>1. CASE o = out BY <2>1
  <2>2. ASSUME NEW c \in Classifications, o = Audited(c) PROVE o \in Effects
    <3>1. c.intent \in Intents BY DEF Classifications
    <3>2. out.audited \cup {c} \in SUBSET Classifications BY DEF Effects
    <3>3. QED BY <2>2, <3>1, <3>2 DEF Audited, Effects
  <2>3. QED BY <1>1, <2>1, <2>2 DEF EffectsOf
<1>2. CASE at = "record-review"
  <2>1. [llmIntent |-> out.latest, finalIntent |-> pv.intent,
         finalSentiment |-> pv.sentiment, escalated |-> pv.escalate] \in ReviewRows
    BY <1>2 DEF ReviewRows, Effects, Variables
  <2>2. QED BY <1>2, <2>1 DEF EffectsOf, Reviewed, Effects
<1>3. CASE at \in BookingTasks
  BY <1>3 DEF EffectsOf, BookingSet, Effects, BookingTasks
<1>4. CASE at = "notify-customer"
  BY <1>4 DEF EffectsOf, Delivered, Effects, Variables
<1>5. CASE at = "publish-resolved"
  BY <1>5 DEF EffectsOf, Published, Effects
<1>6. CASE at \notin {"classify-ticket", "record-review", "notify-customer",
                      "publish-resolved"} \cup BookingTasks
  BY <1>6 DEF EffectsOf, BookingTasks
<1>7. QED BY <1>1, <1>2, <1>3, <1>4, <1>5, <1>6

LEMMA TypeInit == Init => TypeInv
<1> SUFFICES ASSUME Init PROVE TypeInv
  OBVIOUS
<1>1. at \in Elements BY DEF Init, Elements, JobTasks
<1>2. pv \in Variables BY DEF Init, Variables
<1>3. out \in Effects BY DEF Init, Effects
<1>4. message \in Payloads BY DEF Init, Payloads
<1>5. review \in Reviews BY SentimentsAssumption DEF Init, NoReview, Reviews, Intents
<1>6. ticket \in Tickets /\ at = "classify-ticket" /\ job \in Jobs /\ sla = "none" /\ slaJob \in Jobs
  BY JobConstants DEF Init
<1>7. faults \in 0 .. MaxFaults
  BY ProcessAssumption DEF Init, ProcessAssumption
<1>8. fired \in BOOLEAN BY DEF Init
<1>9. QED
  BY <1>1, <1>2, <1>3, <1>4, <1>5, <1>6, <1>7, <1>8 DEF TypeInv, TypeOK, Classified

LEMMA TypeStep == TypeInv /\ [Next]_vars => TypeInv'
<1> SUFFICES ASSUME TypeInv, [Next]_vars PROVE TypeInv'
  OBVIOUS
<1> USE DEF TypeInv, TypeOK, Classified, Open
<1> sla \in SlaStates
  BY DEF SlaStates
<1>1. CASE ClassifyTicket
  <2> SUFFICES ASSUME NEW c \in Classifications, out' = Audited(c),
                      pv' = [pv EXCEPT !.intent = c.intent, !.sentiment = c.sentiment,
                                       !.needsReview = c.needsReview]
               PROVE  TypeInv'
    BY <1>1 DEF ClassifyTicket
  <2>1. out' \in Effects BY <1>1, EffectsType DEF ClassifyTicket, EffectsOf
  <2>2. /\ pv' \in Variables
        /\ pv'.intent \in Intents /\ pv'.sentiment \in Sentiments
    BY DEF Variables, Classifications
  <2>3. at' \in Elements /\ job' \in Jobs /\ sla' \in SlaStates
    BY <1>1, Targets, EnterType DEF ClassifyTicket
  <2>4. QED BY <1>1, <2>1, <2>2, <2>3 DEF ClassifyTicket, SlaStates
<1>2. CASE ConvertBookingValue
  <2>1. PICK r \in Rates :
            pv' = [pv EXCEPT !.valueEur = Converted(ticket.currency, "EUR", ticket.value, r)]
    BY <1>2 DEF ConvertBookingValue
  <2>2. ticket.value \in Int \cup {NoValue}
    BY ProcessAssumption DEF ProcessAssumption, TicketType
  <2>3. pv' \in Variables /\ pv'.intent = pv.intent /\ pv'.sentiment = pv.sentiment
    BY <1>2, <2>1, <2>2, ConvertedType DEF ConvertBookingValue, Variables
  <2>4. at' \in Elements /\ job' \in Jobs /\ sla' \in SlaStates
    BY <1>2, EnterType DEF ConvertBookingValue, Elements
  <2>5. QED BY <1>2, <2>3, <2>4 DEF ConvertBookingValue, SlaStates
<1>3. CASE RouteTicket
  <2> DEFINE routing == Route(pv.intent, ticket.tier, pv.sentiment, pv.valueEur)
  <2>1. /\ routing.team \in Teams /\ routing.priority \in Priorities
        /\ routing.checks \in SUBSET Checks
    BY RouteType
  <2>2. DeadlineOf(routing.slaHours) \in Deadlines \cup {Null}
    BY DeadlineType
  <2>3. pv' = [pv EXCEPT !.team = routing.team, !.priority = routing.priority,
                         !.checks = routing.checks,
                         !.deadline = DeadlineOf(routing.slaHours)]
    BY <1>3 DEF RouteTicket
  <2> HIDE DEF routing
  <2>4. pv' \in Variables /\ pv'.intent = pv.intent /\ pv'.sentiment = pv.sentiment
    BY <2>1, <2>2, <2>3 DEF Variables
  <2>5. at' \in Elements /\ job' \in Jobs /\ sla' \in SlaStates
    BY <1>3, Targets, EnterType DEF RouteTicket
  <2>6. QED BY <1>3, <2>4, <2>5 DEF RouteTicket, SlaStates
<1>4. CASE RecordReview
  <2>1. out' \in Effects BY <1>4, EffectsType DEF RecordReview, EffectsOf
  <2>2. at' \in Elements /\ job' \in Jobs /\ sla' \in SlaStates
    BY <1>4, Targets, EnterType DEF RecordReview
  <2>3. QED BY <1>4, <2>1, <2>2 DEF RecordReview, SlaStates
<1>5. CASE ChangeBooking
  <2>1. out' \in Effects BY <1>5, EffectsType DEF ChangeBooking, EffectsOf
  <2>2. pv' \in Variables /\ pv'.intent = pv.intent /\ pv'.sentiment = pv.sentiment
    BY <1>5 DEF ChangeBooking, Variables, Resolutions
  <2>3. at' \in Elements /\ job' \in Jobs /\ sla' \in SlaStates
    BY <1>5, EnterType DEF ChangeBooking, Elements, JobTasks
  <2>4. QED BY <1>5, <2>1, <2>2, <2>3 DEF ChangeBooking, SlaStates
<1>6. CASE CancelRefund
  <2>1. out' \in Effects BY <1>6, EffectsType DEF CancelRefund, EffectsOf
  <2>2. pv' \in Variables /\ pv'.intent = pv.intent /\ pv'.sentiment = pv.sentiment
    <3>1. PICK a \in Int \cup {NoValue}, c \in Currencies \cup {NoValue} :
              pv' = [pv EXCEPT !.resolution = "refund_issued", !.refund = a,
                               !.refundCurrency = c]
      <4>1. /\ BookingAmount \in Int \cup {NoValue} /\ 0 \in Int \cup {NoValue}
            /\ BookingCurrency \in Currencies
        BY ProcessAssumption DEF ProcessAssumption
      <4>2. QED BY <1>6, <4>1 DEF CancelRefund
    <3>2. QED BY <3>1 DEF Variables, Resolutions
  <2>3. at' \in Elements /\ job' \in Jobs /\ sla' \in SlaStates
    BY <1>6, EnterType DEF CancelRefund, Elements, FxTasks, JobTasks
  <2>4. faults' \in 0 .. MaxFaults
    BY <1>6, ProcessAssumption DEF CancelRefund, Fault, ProcessAssumption
  <2>5. QED BY <1>6, <2>1, <2>2, <2>3, <2>4 DEF CancelRefund, SlaStates
<1>7. CASE BookingNotFound
  <2>1. at' \in Elements /\ job' \in Jobs /\ sla' \in SlaStates
    BY <1>7, EnterType DEF BookingNotFound, Elements, UserTasks
  <2>2. at # "classify-ticket"
    BY <1>7 DEF BookingNotFound, BookingTasks
  <2>3. QED BY <1>7, <2>1, <2>2 DEF BookingNotFound, SlaStates
<1>8. CASE ConvertRefund
  <2>1. PICK r \in Rates :
            pv' = [pv EXCEPT !.refundCustomer =
                       Converted(pv.refundCurrency, ticket.customerCurrency, pv.refund, r)]
    BY <1>8 DEF ConvertRefund
  <2>2. pv.refund \in Int \cup {NoValue}
    BY DEF Variables
  <2>3. pv' \in Variables /\ pv'.intent = pv.intent /\ pv'.sentiment = pv.sentiment
    BY <1>8, <2>1, <2>2, ConvertedType DEF ConvertRefund, Variables
  <2>4. at' \in Elements /\ job' \in Jobs /\ sla' \in SlaStates
    BY <1>8, EnterType DEF ConvertRefund, Elements, JobTasks
  <2>5. QED BY <1>8, <2>3, <2>4 DEF ConvertRefund, SlaStates
<1>9. CASE AnswerQuestion
  <2>1. pv' \in Variables /\ pv'.intent = pv.intent /\ pv'.sentiment = pv.sentiment
    BY <1>9 DEF AnswerQuestion, Variables, Resolutions
  <2>2. at' \in Elements /\ job' \in Jobs /\ sla' \in SlaStates
    BY <1>9, EnterType DEF AnswerQuestion, Elements, JobTasks
  <2>3. QED BY <1>9, <2>1, <2>2 DEF AnswerQuestion, SlaStates
<1>10. CASE NotifyCustomer
  <2>1. out' \in Effects BY <1>10, EffectsType DEF NotifyCustomer, EffectsOf
  <2>2. message' \in Payloads BY <1>10 DEF NotifyCustomer, Payload, Payloads, Variables
  <2>3. at' \in Elements /\ job' \in Jobs /\ sla' \in SlaStates
    BY <1>10, EnterType DEF NotifyCustomer, Elements, JobTasks
  <2>4. QED BY <1>10, <2>1, <2>2, <2>3 DEF NotifyCustomer, SlaStates
<1>11. CASE PublishResolved
  <2>1. out' \in Effects BY <1>11, EffectsType DEF PublishResolved, EffectsOf
  <2>2. at' \in Elements /\ job' \in Jobs /\ sla' \in SlaStates
    BY <1>11, EnterType DEF PublishResolved, Elements
  <2>3. QED BY <1>11, <2>1, <2>2 DEF PublishResolved, SlaStates
<1>12. CASE ReviewClassification
  <2>1. PICK r \in Reviews : review' = r /\ pv' = ReviewOutputs(r)
    BY <1>12 DEF ReviewClassification
  <2>2. PICK i \in Intents, s \in Sentiments, e \in BOOLEAN :
            pv' = [pv EXCEPT !.needsReview = FALSE, !.intent = i, !.sentiment = s,
                             !.escalate = e]
    BY <2>1 DEF ReviewOutputs, Reviews
  <2>3. pv' \in Variables /\ pv'.intent \in Intents /\ pv'.sentiment \in Sentiments
    BY <2>2 DEF Variables
  <2>4. at' \in Elements /\ job' \in Jobs /\ sla' \in SlaStates
    BY <1>12, EnterType DEF ReviewClassification, Elements, JobTasks
  <2>5. QED BY <1>12, <2>1, <2>3, <2>4 DEF ReviewClassification, SlaStates
<1>13. CASE HandleByAgent
  <2>1. pv' \in Variables /\ pv'.intent = pv.intent /\ pv'.sentiment = pv.sentiment
    BY <1>13 DEF HandleByAgent, Variables, Resolutions
  <2>2. at' \in Elements /\ at # "classify-ticket"
    BY <1>13 DEF HandleByAgent, Elements, JobTasks
  <2>3. QED BY <1>13, <2>1, <2>2, JobConstants DEF HandleByAgent
<1>14. CASE RefusedAttempt
  BY <1>14, JobFailedType DEF RefusedAttempt
<1>15. CASE FailedAttempt
  <2>1. out' \in Effects BY <1>15, EffectsType DEF FailedAttempt
  <2>2. job' \in Jobs BY <1>15, JobFailedType, JobConstants DEF FailedAttempt
  <2>3. faults' \in 0 .. MaxFaults
    BY <1>15, ProcessAssumption DEF FailedAttempt, Fault, ProcessAssumption
  <2>4. QED BY <1>15, <2>1, <2>2, <2>3 DEF FailedAttempt
<1>16. CASE LostAttempt
  <2>1. out' \in Effects BY <1>16, EffectsType DEF LostAttempt
  <2>2. faults' \in 0 .. MaxFaults
    BY <1>16, ProcessAssumption DEF LostAttempt, Fault, ProcessAssumption
  <2>3. QED BY <1>16, <2>1, <2>2 DEF LostAttempt
<1>17. CASE Retry
  BY <1>17 DEF Retry, Jobs
<1>18. CASE SlaTimer
  BY <1>18, JobConstants DEF SlaTimer
<1>19. CASE EscalateSla
  <2>1. pv' \in Variables /\ pv'.intent = pv.intent /\ pv'.sentiment = pv.sentiment
    BY <1>19 DEF EscalateSla, Variables
  <2>2. out' \in Effects BY <1>19 DEF EscalateSla, Effects
  <2>3. QED BY <1>19, <2>1, <2>2 DEF EscalateSla
<1>20. CASE FailedEscalation
  <2>1. out' \in Effects BY <1>20 DEF FailedEscalation, Effects
  <2>2. slaJob' \in Jobs BY <1>20, JobFailedType, JobConstants DEF FailedEscalation
  <2>3. faults' \in 0 .. MaxFaults
    BY <1>20, ProcessAssumption DEF FailedEscalation, Fault, ProcessAssumption
  <2>4. QED BY <1>20, <2>1, <2>2, <2>3 DEF FailedEscalation
<1>21. CASE LostEscalation
  <2>1. out' \in Effects BY <1>21 DEF LostEscalation, Effects
  <2>2. faults' \in 0 .. MaxFaults
    BY <1>21, ProcessAssumption DEF LostEscalation, Fault, ProcessAssumption
  <2>3. QED BY <1>21, <2>1, <2>2 DEF LostEscalation
<1>22. CASE RetryEscalation
  BY <1>22 DEF RetryEscalation, Jobs
<1>23. CASE UNCHANGED vars
  BY <1>23 DEF vars
<1>24. QED
  BY <1>1, <1>2, <1>3, <1>4, <1>5, <1>6, <1>7, <1>8, <1>9, <1>10, <1>11, <1>12, <1>13,
     <1>14, <1>15, <1>16, <1>17, <1>18, <1>19, <1>20, <1>21, <1>22, <1>23
  DEF Next, WorkerStep, HumanStep, Disturbance, EscalationStep, Rest

\* Every variable keeps its type: a job never has a negative number of retries,
\* a review row never lacks the values its columns require.
THEOREM TypeCorrect == Spec => []TypeOK
<1>1. TypeInv => TypeOK BY DEF TypeInv
<1>2. QED BY TypeInit, TypeStep, <1>1, PTL DEF Spec

=============================================================================
