--------------------------- MODULE BookingWorker ---------------------------
(***************************************************************************)
(* One job of type booking.change or booking.cancel: the engine's lease on *)
(* it, the attempts of the Go worker (workers/booking), and the booking    *)
(* API with its outage toggle (services/booking-api).                      *)
(*                                                                         *)
(* Time passes in ticks.  The engine names a job by its key alone: a       *)
(* report does not say which attempt sends it, and nothing but the lease   *)
(* keeps the attempts apart.                                               *)
(***************************************************************************)
EXTENDS Naturals

CONSTANTS
    Handlers,      \* slots for the attempts alive at the same time
    MaxRetries,    \* retries of a new job
    ApiTimeout,    \* apiTimeout, of a call to the booking API
    CallTimeout,   \* requestTimeout + 5 s, of a call to the engine
    JobTimeout,    \* jobTimeout, the lease
    DrainTimeout,  \* drainTimeout
    Backoff,       \* RETRY_BACKOFF
    MaxFaults      \* bound: lost answers, slow calls and stops of the worker

\* The lease outlasts a late activation answer, the call to the booking API,
\* a report and its fallback.
ASSUME LeaseAssumption ==
    /\ {ApiTimeout, CallTimeout, JobTimeout, DrainTimeout, Backoff} \subseteq Nat \ {0}
    /\ CallTimeout + ApiTimeout + CallTimeout + CallTimeout < JobTimeout
    /\ MaxRetries \in Nat \ {0}
    /\ MaxFaults \in Nat

VARIABLES
    ref,      \* what bookingRef names
    job,      \* the engine's job; "lease" runs while activated or backing off
    attempt,  \* attempt[h]: the goroutine of activation h
    worker,   \* the process
    drain,    \* what is left of drainTimeout
    booking,  \* whether the booking carries the new status
    outage,   \* the toggle /admin/fault
    faults    \* faults so far

vars == <<ref, job, attempt, worker, drain, booking, outage, faults>>

-----------------------------------------------------------------------------

\* A booking the API knows, one it does not, BK-FAIL-500, BK-FAIL-TIMEOUT, null.
References == {"known", "unknown", "failing", "silent", "none"}

Jobs ==
    [state : {"activatable", "activated", "backoff", "incident", "completed", "thrown"},
     retries : 0 .. MaxRetries,
     lease : 0 .. JobTimeout + Backoff,
     refund : {"none", "value", "zero"}]   \* refundAmount of the completion

\* The calls of an attempt, in the order it makes them; "answer" is what the
\* called side has done and said, before the caller has seen it.
Phases  == {"idle", "delivering", "calling", "completion", "error", "failure", "fallback"}
Reports == {"completion", "error", "failure", "fallback"}
Attempts ==
    [phase : Phases,
     left : 0 .. ApiTimeout + CallTimeout,
     answer : {"none", "2xx", "404", "5xx"},
     retries : 0 .. MaxRetries,            \* activatedJob.Retries
     refund : {"none", "value", "zero"}]

Idle == [phase |-> "idle", left |-> 0, answer |-> "none", retries |-> 0, refund |-> "none"]

TypeOK ==
    /\ ref \in References
    /\ job \in Jobs
    /\ attempt \in [Handlers -> Attempts]
    /\ worker \in {"up", "draining", "down"}
    /\ drain \in 0 .. DrainTimeout
    /\ booking \in {"confirmed", "done"}
    /\ outage \in BOOLEAN
    /\ faults \in 0 .. MaxFaults

Init ==
    /\ ref \in References
    /\ job = [state |-> "activatable", retries |-> MaxRetries,
              lease |-> 0, refund |-> "none"]
    /\ attempt = [h \in Handlers |-> Idle]
    /\ worker = "up"
    /\ drain = 0
    /\ booking = "confirmed"
    /\ outage = FALSE
    /\ faults = 0

Busy(h)  == attempt[h].phase # "idle"
Fault    == faults < MaxFaults /\ faults' = faults + 1

\* Goes on to the call "phase" with a fresh timeout, or ends.
Call(h, phase, timeout) ==
    attempt' = [attempt EXCEPT ![h].phase = phase, ![h].left = timeout, ![h].answer = "none"]
End(h) == attempt' = [attempt EXCEPT ![h] = Idle]

-----------------------------------------------------------------------------
(* Activation: poll and activateJobs.                                      *)

\* Deviation: a lease that forgets the fallback and the way of the answer.
ShortLease == ApiTimeout + CallTimeout

\* The lease given to the job at its activation.
Lease == JobTimeout

\* The engine locks the job for the one long poll of its type.
Activate(h) ==
    /\ worker = "up" /\ ~Busy(h)
    /\ \A g \in Handlers : attempt[g].phase # "delivering"
    /\ job.state = "activatable"
    /\ job' = [job EXCEPT !.state = "activated", !.lease = Lease]
    /\ attempt' = [attempt EXCEPT ![h] =
           [Idle EXCEPT !.phase = "delivering", !.left = CallTimeout, !.retries = job.retries]]
    /\ UNCHANGED <<ref, worker, drain, booking, outage, faults>>

\* The answer arrives, also just before the poll is cancelled: handle begins,
\* and throws the error at once when there is no reference.
Deliver(h) ==
    /\ attempt[h].phase = "delivering"
    /\ IF ref = "none" THEN Call(h, "error", CallTimeout) ELSE Call(h, "calling", ApiTimeout)
    /\ UNCHANGED <<ref, job, worker, drain, booking, outage, faults>>

\* The answer does not arrive: the job is locked and nobody works on it.  A
\* shutdown cancels the poll; otherwise it is a fault.
DeliveryLost(h) ==
    /\ attempt[h].phase = "delivering"
    /\ (worker = "draining" /\ UNCHANGED faults) \/ Fault
    /\ End(h)
    /\ UNCHANGED <<ref, job, worker, drain, booking, outage>>

-----------------------------------------------------------------------------
(* The call to the booking API.                                            *)

\* The toggle first, then the BK-FAIL ids, then the lookup.
ApiAnswer ==
    IF outage \/ ref \in {"failing", "silent"} THEN "5xx"
    ELSE IF ref = "known" THEN "2xx" ELSE "404"

\* mutateBooking; BK-FAIL-TIMEOUT answers too late, unless the toggle is on.
Serve(h) ==
    /\ attempt[h].phase = "calling" /\ attempt[h].answer = "none"
    /\ ref = "silent" => outage
    /\ attempt' = [attempt EXCEPT ![h].answer = ApiAnswer]
    /\ booking' = IF ApiAnswer = "2xx" THEN "done" ELSE booking
    /\ UNCHANGED <<ref, job, worker, drain, outage, faults>>

\* Deviation: everything but a 404 is a result.
ReportLeniently(answer) == IF answer = "404" THEN "error" ELSE "completion"

\* What handle reports on an answer.
ReportOf(answer) ==
    CASE answer = "2xx" -> "completion"
      [] answer = "404" -> "error"
      [] OTHER          -> "failure"

\* The answer arrives; the body of a 2xx may be cut off, which the decoder's
\* ignored error turns into zero values.
Answered(h) ==
    /\ attempt[h].phase = "calling" /\ attempt[h].answer # "none"
    /\ \E body \in {"value", "zero"} :
           /\ IF body = "value" THEN UNCHANGED faults
              ELSE attempt[h].answer = "2xx" /\ Fault
           /\ attempt' = [attempt EXCEPT ![h].phase = ReportOf(attempt[h].answer),
                  ![h].left = CallTimeout, ![h].answer = "none", ![h].refund = body]
    /\ UNCHANGED <<ref, job, worker, drain, booking, outage>>

\* Client timeout or transport error, before or after the API has done it.
Unanswered(h) ==
    /\ attempt[h].phase = "calling"
    /\ \/ attempt[h].left = 0 /\ ref = "silent" /\ UNCHANGED faults
       \/ Fault
    /\ Call(h, "failure", CallTimeout)
    /\ UNCHANGED <<ref, job, worker, drain, booking, outage>>

-----------------------------------------------------------------------------
(* The report to the engine.                                               *)

\* Deviation: attempts made, in place of retries left.
RetriesUsed(retries) == retries + 1

\* Deviation: the retries the job was created with.
RetriesLeftOfNew(retries) == MaxRetries - 1

\* fail: retries - 1, not below zero.
RetriesLeft(retries) == IF retries = 0 THEN 0 ELSE retries - 1

\* What a command does to a job the engine still has.
Reported(call, a) ==
    CASE call = "completion" -> [job EXCEPT !.state = "completed", !.refund = a.refund]
      [] call = "error"      -> [job EXCEPT !.state = "thrown"]
      [] call = "failure"    ->
             [job EXCEPT !.state = IF RetriesLeft(a.retries) = 0 THEN "incident" ELSE "backoff",
                         !.retries = RetriesLeft(a.retries), !.lease = Backoff]
      [] call = "fallback"   -> [job EXCEPT !.state = "incident", !.retries = 0]

\* The engine takes a command for a job that is activated or activatable; for
\* a failed job or one that is gone it answers with an error.
Execute(h) ==
    /\ attempt[h].phase \in Reports /\ attempt[h].answer = "none"
    /\ IF job.state \in {"activated", "activatable"}
       THEN /\ job' = Reported(attempt[h].phase, attempt[h])
            /\ attempt' = [attempt EXCEPT ![h].answer = "2xx"]
       ELSE /\ attempt' = [attempt EXCEPT ![h].answer = "404"]
            /\ UNCHANGED job
    /\ UNCHANGED <<ref, worker, drain, booking, outage, faults>>

\* Deviation: a failed call is only logged.
OnlyLog(h) == End(h)

\* report, after a call that failed: a failed failure can only be logged.
FallBack(h) ==
    IF attempt[h].phase \in {"completion", "error"}
    THEN Call(h, "fallback", CallTimeout)
    ELSE End(h)

Acknowledged(h) ==
    /\ attempt[h].phase \in Reports /\ attempt[h].answer # "none"
    /\ IF attempt[h].answer = "2xx" THEN End(h) ELSE FallBack(h)
    /\ UNCHANGED <<ref, job, worker, drain, booking, outage, faults>>

\* No answer, whether or not the engine has executed the command.
Unacknowledged(h) ==
    /\ attempt[h].phase \in Reports
    /\ Fault
    /\ FallBack(h)
    /\ UNCHANGED <<ref, job, worker, drain, booking, outage>>

-----------------------------------------------------------------------------
(* The engine, the operator, the process and time.                         *)

JobTimesOut ==
    /\ job.state = "activated" /\ job.lease = 0
    /\ job' = [job EXCEPT !.state = "activatable"]
    /\ UNCHANGED <<ref, attempt, worker, drain, booking, outage, faults>>

BackoffOver ==
    /\ job.state = "backoff" /\ job.lease = 0
    /\ job' = [job EXCEPT !.state = "activatable"]
    /\ UNCHANGED <<ref, attempt, worker, drain, booking, outage, faults>>

\* Retry of the incident in Operate.
Retry ==
    /\ job.state = "incident"
    /\ \E n \in 1 .. MaxRetries :
           job' = [job EXCEPT !.state = "activatable", !.retries = n]
    /\ UNCHANGED <<ref, attempt, worker, drain, booking, outage, faults>>

\* faultOn and faultOff.
Toggle ==
    /\ outage' = ~outage
    /\ UNCHANGED <<ref, job, attempt, worker, drain, booking, faults>>

\* SIGTERM: activation stops, the attempts go on.
Terminate ==
    /\ worker = "up"
    /\ Fault
    /\ worker' = "draining" /\ drain' = DrainTimeout
    /\ UNCHANGED <<ref, job, attempt, booking, outage>>

\* The process ends with the last attempt or at the drain limit; inFlight
\* counts from the start of handle, so an answer on its way does not hold it.
Exit ==
    /\ worker = "draining"
    /\ drain = 0 \/ \A h \in Handlers : attempt[h].phase \in {"idle", "delivering"}
    /\ worker' = "down"
    /\ attempt' = [h \in Handlers |-> Idle]
    /\ drain' = 0
    /\ UNCHANGED <<ref, job, booking, outage, faults>>

Crash ==
    /\ worker # "down"
    /\ Fault
    /\ worker' = "down"
    /\ attempt' = [h \in Handlers |-> Idle]
    /\ drain' = 0
    /\ UNCHANGED <<ref, job, booking, outage>>

\* restart: unless-stopped
Start ==
    /\ worker = "down"
    /\ worker' = "up"
    /\ UNCHANGED <<ref, job, attempt, drain, booking, outage, faults>>

Less(t) == IF t = 0 THEN 0 ELSE t - 1

\* No caller waits beyond its timeout, and the drain limit is kept; a call is
\* late only by a fault or because BK-FAIL-TIMEOUT answers after 30 s.  The
\* engine looks for jobs that timed out now and then.
Tick ==
    /\ \A h \in Handlers : Busy(h) =>
           /\ attempt[h].left > 0
           /\ attempt[h].left = 1 =>
                  faults < MaxFaults \/ (attempt[h].phase = "calling" /\ ref = "silent")
    /\ worker = "draining" => drain > 0
    /\ job' = [job EXCEPT !.lease = Less(@)]
    /\ attempt' = [h \in Handlers |-> [attempt[h] EXCEPT !.left = Less(@)]]
    /\ drain' = Less(drain)
    /\ UNCHANGED <<ref, worker, booking, outage, faults>>

AttemptStep(h) ==
    \/ Activate(h) \/ Deliver(h) \/ Serve(h) \/ Answered(h) \/ Execute(h) \/ Acknowledged(h)

AttemptFault(h) == DeliveryLost(h) \/ Unanswered(h) \/ Unacknowledged(h)

EngineStep == JobTimesOut \/ BackoffOver

ProcessStep == Terminate \/ Exit \/ Crash \/ Start

Next ==
    \/ \E h \in Handlers : AttemptStep(h) \/ AttemptFault(h)
    \/ EngineStep \/ ProcessStep \/ Retry \/ Toggle \/ Tick

Spec == Init /\ [][Next]_vars

\* Attempts go on, time passes, the engine looks at its deadlines and the
\* container is restarted.  Nothing makes an operator retry or end an outage.
FairSpec ==
    /\ Spec
    /\ \A h \in Handlers :
           /\ WF_vars(Activate(h)) /\ WF_vars(Deliver(h)) /\ WF_vars(Serve(h))
           /\ WF_vars(Answered(h)) /\ WF_vars(Execute(h)) /\ WF_vars(Acknowledged(h))
           /\ WF_vars(attempt[h].left = 0 /\ Unanswered(h))
    /\ WF_vars(EngineStep) /\ WF_vars(Tick) /\ WF_vars(Exit) /\ WF_vars(Start)

-----------------------------------------------------------------------------
(* Properties.                                                             *)

\* The attempt may still call the API or change the job.
Live(h) ==
    \/ attempt[h].phase \in {"delivering", "calling"}
    \/ attempt[h].phase \in Reports /\ attempt[h].answer = "none"

\* Two attempts never work on the job at once: the lease of 60 s outlasts the
\* slowest attempt (main.go:26-35), so the booking is not called twice in
\* parallel and no report meets the job of a later attempt.
OneAttempt == \A g, h \in Handlers : Live(g) /\ Live(h) => g = h

\* A completed job has its booking changed, and a job that ended in
\* BOOKING_NOT_FOUND has left the booking alone, whatever calls were lost.
ResultMatchesBooking ==
    /\ job.state = "completed" => booking = "done"
    /\ job.state = "thrown" => booking = "confirmed" /\ ref \in {"unknown", "none"}

\* Retries rise by the operator's hand only: no report of an earlier attempt
\* gives a job back what later attempts have spent.
RetriesOnlyFall == [][job.state # "incident" => job'.retries <= job.retries]_vars

\* An outcome is never dropped with a green job behind it (main.go:189-193):
\* an attempt that has a result or a BPMN error to report ends with the job
\* finished or in an incident, unless a second call of it fails or it dies.
OutcomeNotSwallowed ==
    [][\A h \in Handlers :
        (/\ attempt[h].phase \in {"completion", "error"}
         /\ attempt'[h].phase = "idle" /\ worker' # "down") =>
            job'.state \in {"completed", "thrown", "incident"}]_vars

\* The refund contract (main.go:178-180): "the refund equals the booking's
\* value in the booking's currency".
RefundIsTheValue == job.state = "completed" => job.refund = "value"

\* The job comes to an end or to the operator, through outages, lost calls
\* and restarts of the worker: it does not go round for ever.
EventuallySettled == <>(job.state \in {"completed", "thrown", "incident"})
=============================================================================
