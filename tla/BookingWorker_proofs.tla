------------------------ MODULE BookingWorker_proofs ------------------------
(***************************************************************************)
(* Safety of BookingWorker for all timeouts that keep LeaseAssumption, any *)
(* number of attempts and any faults.                                      *)
(*                                                                         *)
(* The argument is one about time: while an attempt may still do harm, the *)
(* lease of the job is longer than all the calls it has yet to make.       *)
(***************************************************************************)
EXTENDS BookingWorker, TLAPS

-----------------------------------------------------------------------------
(* Types.                                                                  *)

LEMMA Times ==
    /\ ApiTimeout \in Nat /\ CallTimeout \in Nat /\ JobTimeout \in Nat
    /\ DrainTimeout \in Nat /\ Backoff \in Nat
    /\ MaxRetries \in Nat /\ MaxFaults \in Nat
    /\ {0, ApiTimeout, CallTimeout} \subseteq 0 .. ApiTimeout + CallTimeout
    /\ {0, JobTimeout, Backoff} \subseteq 0 .. JobTimeout + Backoff
    /\ {0, MaxRetries} \subseteq 0 .. MaxRetries
    /\ {0, DrainTimeout} \subseteq 0 .. DrainTimeout
    /\ 0 \in 0 .. MaxFaults
BY LeaseAssumption

LEMMA LessType == ASSUME NEW n \in Nat, NEW t \in 0 .. n PROVE Less(t) \in 0 .. n
BY DEF Less

LEMMA IdleType == Idle \in Attempts
BY Times DEF Idle, Attempts, Phases

LEMMA AttemptsChange ==
    ASSUME TypeOK, NEW h \in Handlers, NEW a \in Attempts,
           attempt' = [attempt EXCEPT ![h] = a]
    PROVE  attempt' \in [Handlers -> Attempts]
BY DEF TypeOK

LEMMA CallType ==
    ASSUME TypeOK, NEW h \in Handlers, NEW phase \in Phases,
           NEW timeout \in {ApiTimeout, CallTimeout}, Call(h, phase, timeout)
    PROVE  attempt' \in [Handlers -> Attempts]
<1>1. attempt[h] \in Attempts BY DEF TypeOK
<1>2. timeout \in 0 .. ApiTimeout + CallTimeout BY Times
<1>3. [attempt[h] EXCEPT !.phase = phase, !.left = timeout, !.answer = "none"] \in Attempts
  BY <1>1, <1>2 DEF Attempts
<1>4. attempt' = [attempt EXCEPT
          ![h] = [attempt[h] EXCEPT !.phase = phase, !.left = timeout, !.answer = "none"]]
  BY DEF Call, TypeOK
<1>5. QED BY <1>3, <1>4, AttemptsChange

LEMMA EndType ==
    ASSUME TypeOK, NEW h \in Handlers, End(h) PROVE attempt' \in [Handlers -> Attempts]
BY IdleType, AttemptsChange DEF End

LEMMA FallBackType ==
    ASSUME TypeOK, NEW h \in Handlers, FallBack(h) PROVE attempt' \in [Handlers -> Attempts]
BY CallType, EndType DEF FallBack, Phases

LEMMA ReportedType ==
    ASSUME TypeOK, NEW call \in Reports, NEW a \in Attempts
    PROVE  Reported(call, a) \in Jobs
<1>1. RetriesLeft(a.retries) \in 0 .. MaxRetries
  BY LeaseAssumption DEF RetriesLeft, Attempts
<1>2. Backoff \in 0 .. JobTimeout + Backoff /\ 0 \in 0 .. MaxRetries
  BY LeaseAssumption
<1>3. a.refund \in {"none", "value", "zero"}
  BY DEF Attempts
<1>4. job \in Jobs BY DEF TypeOK
<1>5. CASE call = "completion" BY <1>3, <1>4, <1>5 DEF Reported, Jobs
<1>6. CASE call = "error" BY <1>4, <1>6 DEF Reported, Jobs
<1>7. CASE call = "failure" BY <1>1, <1>2, <1>4, <1>7 DEF Reported, Jobs
<1>8. CASE call = "fallback" BY <1>2, <1>4, <1>8 DEF Reported, Jobs
<1>9. QED BY <1>5, <1>6, <1>7, <1>8 DEF Reports

LEMMA TypeInit == Init => TypeOK
<1> SUFFICES ASSUME Init PROVE TypeOK
  OBVIOUS
<1>1. job \in Jobs BY Times DEF Init, Jobs
<1>2. attempt \in [Handlers -> Attempts] BY IdleType DEF Init
<1>3. QED BY <1>1, <1>2, Times DEF Init, TypeOK

LEMMA TypeStep == TypeOK /\ [Next]_vars => TypeOK'
<1> SUFFICES ASSUME TypeOK, [Next]_vars PROVE TypeOK'
  OBVIOUS
<1>1. ASSUME NEW h \in Handlers, AttemptStep(h) PROVE TypeOK'
  <2>1. CASE Activate(h)
    <3>1. job' \in Jobs
      BY <2>1, Times DEF Activate, Lease, TypeOK, Jobs
    <3>2. [Idle EXCEPT !.phase = "delivering", !.left = CallTimeout, !.retries = job.retries]
              \in Attempts
      BY Times DEF Idle, Attempts, Phases, TypeOK, Jobs
    <3>3. QED BY <2>1, <3>1, <3>2, AttemptsChange DEF Activate, TypeOK
  <2>2. CASE Deliver(h)
    <3>1. attempt' \in [Handlers -> Attempts]
      BY <2>2, CallType DEF Deliver, Phases
    <3>2. QED BY <2>2, <3>1 DEF Deliver, TypeOK
  <2>3. CASE Serve(h)
    BY <2>3 DEF Serve, ApiAnswer, TypeOK, Attempts
  <2>4. CASE Answered(h)
    <3>1. ReportOf(attempt[h].answer) \in Phases BY DEF ReportOf, Phases
    <3>2. CallTimeout \in 0 .. ApiTimeout + CallTimeout BY LeaseAssumption
    <3>3. attempt' \in [Handlers -> Attempts]
      BY <2>4, <3>1, <3>2 DEF Answered, TypeOK, Attempts
    <3>4. faults' \in 0 .. MaxFaults
      BY <2>4, LeaseAssumption DEF Answered, Fault, TypeOK
    <3>5. QED BY <2>4, <3>3, <3>4 DEF Answered, TypeOK
  <2>5. CASE Execute(h)
    <3>1. job' \in Jobs
      BY <2>5, ReportedType DEF Execute, TypeOK
    <3>2. attempt' \in [Handlers -> Attempts]
      BY <2>5 DEF Execute, TypeOK, Attempts
    <3>3. QED BY <2>5, <3>1, <3>2 DEF Execute, TypeOK
  <2>6. CASE Acknowledged(h)
    BY <2>6, EndType, FallBackType DEF Acknowledged, TypeOK
  <2>7. QED BY <1>1, <2>1, <2>2, <2>3, <2>4, <2>5, <2>6 DEF AttemptStep
<1>2. ASSUME NEW h \in Handlers, AttemptFault(h) PROVE TypeOK'
  <2>1. attempt' \in [Handlers -> Attempts]
    BY <1>2, EndType, CallType, FallBackType
    DEF AttemptFault, DeliveryLost, Unanswered, Unacknowledged, Phases
  <2>2. faults' \in 0 .. MaxFaults
    BY <1>2, LeaseAssumption
    DEF AttemptFault, DeliveryLost, Unanswered, Unacknowledged, Fault, TypeOK
  <2>3. QED
    BY <1>2, <2>1, <2>2 DEF AttemptFault, DeliveryLost, Unanswered, Unacknowledged, TypeOK
<1>3. CASE EngineStep \/ Retry
  <2>1. job' \in Jobs
    <3>1. CASE EngineStep
      BY <1>3, <3>1 DEF EngineStep, JobTimesOut, BackoffOver, TypeOK, Jobs
    <3>2. CASE Retry
      <4>1. PICK n \in 1 .. MaxRetries :
                job' = [job EXCEPT !.state = "activatable", !.retries = n]
        BY <3>2 DEF Retry
      <4>2. n \in 0 .. MaxRetries BY Times
      <4>3. QED BY <4>1, <4>2 DEF TypeOK, Jobs
    <3>3. QED BY <1>3, <3>1, <3>2
  <2>2. QED BY <1>3, <2>1 DEF EngineStep, JobTimesOut, BackoffOver, Retry, TypeOK
<1>4. CASE ProcessStep
  <2>1. /\ faults' \in 0 .. MaxFaults /\ drain' \in 0 .. DrainTimeout
        /\ worker' \in {"up", "draining", "down"}
    BY <1>4, LeaseAssumption DEF ProcessStep, Terminate, Exit, Crash, Start, Fault, TypeOK
  <2>2. attempt' \in [Handlers -> Attempts]
    BY <1>4, IdleType DEF ProcessStep, Terminate, Exit, Crash, Start, TypeOK
  <2>3. QED BY <1>4, <2>1, <2>2 DEF ProcessStep, Terminate, Exit, Crash, Start, TypeOK
<1>5. CASE Tick
  <2>1. job' \in Jobs
    <3>1. Less(job.lease) \in 0 .. JobTimeout + Backoff BY Times, LessType DEF TypeOK, Jobs
    <3>2. QED BY <1>5, <3>1 DEF Tick, TypeOK, Jobs
  <2>2. drain' \in 0 .. DrainTimeout BY <1>5, Times, LessType DEF Tick, TypeOK
  <2>3. ASSUME NEW h \in Handlers
        PROVE  [attempt[h] EXCEPT !.left = Less(@)] \in Attempts
    <3>1. attempt[h] \in Attempts BY DEF TypeOK
    <3>2. Less(attempt[h].left) \in 0 .. ApiTimeout + CallTimeout
      BY <3>1, Times, LessType DEF Attempts
    <3>3. QED BY <3>1, <3>2 DEF Attempts
  <2>4. QED BY <1>5, <2>1, <2>2, <2>3 DEF Tick, TypeOK
<1>6. CASE Toggle \/ UNCHANGED vars
  BY <1>6 DEF Toggle, vars, TypeOK
<1>7. QED BY <1>1, <1>2, <1>3, <1>4, <1>5, <1>6 DEF Next

-----------------------------------------------------------------------------
(* The lease.                                                              *)

Over == job.state \in {"completed", "thrown"}

\* Time of the calls an attempt may have to make after the present one.
Rest(phase) ==
    CASE phase = "delivering"              -> ApiTimeout + CallTimeout + CallTimeout
      [] phase = "calling"                 -> CallTimeout + CallTimeout
      [] phase \in {"completion", "error"} -> CallTimeout
      [] OTHER                             -> 0

\* The attempt holds a lease that outlasts it, and knows the job's retries.
Holds(h) ==
    /\ job.state = "activated"
    /\ attempt[h].left + Rest(attempt[h].phase) < job.lease
    /\ attempt[h].retries = job.retries

\* The attempt may call again, if only because it does not know that the
\* engine has executed its report.
Engaged(h) == Live(h) \/ attempt[h].phase \in {"completion", "error"}

\* Only the fallback may meet a job that its own report has already ended.
LeaseInv ==
    /\ \A g, h \in Handlers : Engaged(g) /\ Engaged(h) => g = h
    /\ \A h \in Handlers :
           /\ Live(h) => Holds(h) \/ (attempt[h].phase = "fallback" /\ Over)
           /\ (attempt[h].phase \in {"completion", "error"} /\ ~Live(h)) => Over

\* What an attempt reports is what the API has done.
ResultInv ==
    /\ ResultMatchesBooking
    /\ booking = "done" => ref = "known"
    /\ \A h \in Handlers :
           /\ attempt[h].phase = "calling" =>
                  /\ ref # "none"
                  /\ attempt[h].answer = "2xx" => booking = "done"
                  /\ attempt[h].answer = "404" => ref = "unknown"
           /\ attempt[h].phase = "completion" => booking = "done"
           /\ attempt[h].phase = "error" => ref \in {"unknown", "none"}

BookingInv == TypeOK /\ LeaseInv /\ ResultInv

LEMMA BookingInit == Init => BookingInv
<1> SUFFICES ASSUME Init PROVE LeaseInv /\ ResultInv
  BY TypeInit DEF BookingInv
<1>1. \A h \in Handlers : attempt[h].phase = "idle"
  BY DEF Init, Idle
<1>2. \A h \in Handlers : ~Live(h)
  BY <1>1 DEF Live, Reports
<1>3. LeaseInv
  BY <1>1, <1>2 DEF LeaseInv, Engaged
<1>4. ResultInv
  BY <1>1 DEF ResultInv, ResultMatchesBooking, Init
<1>5. QED BY <1>3, <1>4

LEMMA TimesLeft ==
    ASSUME TypeOK
    PROVE  /\ job.lease \in Nat
           /\ \A g \in Handlers :
                  attempt[g].left \in Nat /\ Rest(attempt[g].phase) \in Nat
<1>1. job.lease \in Nat BY Times DEF TypeOK, Jobs
<1>2. ASSUME NEW g \in Handlers
      PROVE  attempt[g].left \in Nat /\ Rest(attempt[g].phase) \in Nat
  BY Times DEF TypeOK, Attempts, Rest
<1>3. QED BY <1>1, <1>2

\* One attempt changes, and the job does not.
LEMMA OneChanges ==
    ASSUME LeaseInv, NEW h \in Handlers, job' = job,
           \A g \in Handlers : g # h => attempt'[g] = attempt[g],
           Engaged(h)' => Engaged(h),
           Live(h)' => Holds(h)' \/ (attempt'[h].phase = "fallback" /\ Over),
           (attempt'[h].phase \in {"completion", "error"} /\ ~Live(h)') => Over
    PROVE  LeaseInv'
<1>1. ASSUME NEW g \in Handlers, g # h
      PROVE  /\ Live(g)' <=> Live(g)
             /\ Holds(g)' <=> Holds(g)
             /\ Engaged(g)' <=> Engaged(g)
  BY <1>1 DEF Live, Holds, Engaged
<1>2. \A f, g \in Handlers : Engaged(f)' /\ Engaged(g)' => f = g
  BY <1>1 DEF LeaseInv
<1>3. ASSUME NEW g \in Handlers
      PROVE  /\ Live(g)' => Holds(g)' \/ (attempt'[g].phase = "fallback" /\ Over)
             /\ (attempt'[g].phase \in {"completion", "error"} /\ ~Live(g)') => Over'
  BY <1>1 DEF LeaseInv, Over
<1>4. QED BY <1>2, <1>3 DEF LeaseInv, Over

\* An attempt makes its next call: the lease covers it.
LEMMA CallHolds ==
    ASSUME TypeOK, LeaseInv, NEW h \in Handlers, Live(h), job' = job,
           NEW phase \in Phases, NEW timeout \in Nat,
           \A g \in Handlers : g # h => attempt'[g] = attempt[g],
           attempt'[h].phase = phase, attempt'[h].left = timeout, attempt'[h].answer = "none",
           attempt'[h].retries = attempt[h].retries,
           attempt[h].phase # "fallback",
           timeout + Rest(phase) <= Rest(attempt[h].phase)
    PROVE  LeaseInv'
<1>1. Holds(h) BY DEF LeaseInv
<1>2. /\ attempt[h].left \in Nat /\ job.lease \in Nat
      /\ Rest(attempt[h].phase) \in Nat /\ Rest(phase) \in Nat
  BY Times, TimesLeft DEF Rest
<1>3. Holds(h)'
  BY <1>1, <1>2 DEF Holds, Rest
<1>4. (attempt'[h].phase \in {"completion", "error"}) => Live(h)'
  BY DEF Live, Reports
<1>5. QED BY <1>3, <1>4, OneChanges DEF Engaged

\* An attempt ends, or is left with nothing to do any more.
LEMMA EndKeepsLease ==
    ASSUME TypeOK, LeaseInv, NEW h \in Handlers, job' = job, End(h)
    PROVE  LeaseInv'
<1>1. attempt'[h] = Idle /\ \A g \in Handlers : g # h => attempt'[g] = attempt[g]
  BY DEF End, TypeOK
<1>2. attempt'[h].phase = "idle" /\ ~Live(h)' /\ ~Engaged(h)'
  BY <1>1 DEF Idle, Live, Reports, Engaged
<1>3. QED BY <1>1, <1>2, OneChanges

LEMMA CallFields ==
    ASSUME TypeOK, NEW h \in Handlers, NEW phase, NEW timeout, Call(h, phase, timeout)
    PROVE  /\ \A g \in Handlers : g # h => attempt'[g] = attempt[g]
           /\ attempt'[h].phase = phase /\ attempt'[h].left = timeout
           /\ attempt'[h].answer = "none" /\ attempt'[h].retries = attempt[h].retries
BY DEF TypeOK, Attempts, Call

LEMMA FallBackKeepsLease ==
    ASSUME TypeOK, LeaseInv, NEW h \in Handlers, job' = job, FallBack(h)
    PROVE  LeaseInv'
<1>1. CASE attempt[h].phase \in {"completion", "error"}
  <2>1. Call(h, "fallback", CallTimeout) BY <1>1 DEF FallBack
  <2>2. CASE Live(h)
    <3>1. CallTimeout + Rest("fallback") <= Rest(attempt[h].phase)
      BY <1>1, Times DEF Rest
    <3>2. QED BY <1>1, <2>1, <2>2, <3>1, CallFields, CallHolds, Times DEF Phases
  <2>3. CASE ~Live(h)
    <3>1. Over BY <1>1, <2>3 DEF LeaseInv
    <3>2. Engaged(h) BY <1>1 DEF Engaged
    <3>3. QED BY <2>1, <3>1, <3>2, CallFields, OneChanges
  <2>4. QED BY <2>2, <2>3
<1>2. CASE attempt[h].phase \notin {"completion", "error"}
  BY <1>2, EndKeepsLease DEF FallBack
<1>3. QED BY <1>1, <1>2

LEMMA ExecuteKeepsLease ==
    ASSUME TypeOK, LeaseInv, NEW h \in Handlers, Execute(h) PROVE LeaseInv'
<1>1. Live(h) BY DEF Execute, Live
<1>2. /\ \A g \in Handlers : g # h => attempt'[g] = attempt[g] /\ ~Engaged(g)
      /\ attempt'[h].phase = attempt[h].phase /\ attempt'[h].answer # "none"
  BY <1>1 DEF Execute, TypeOK, Attempts, LeaseInv, Engaged
<1>3. ~Live(h)' BY <1>2 DEF Live, Execute, Reports
<1>4. \A g \in Handlers : g # h => ~Engaged(g)' /\ ~Live(g)'
  BY <1>2 DEF Engaged, Live
<1>5. attempt[h].phase \in {"completion", "error"} => Over'
  <2> SUFFICES ASSUME attempt[h].phase \in {"completion", "error"} PROVE Over'
    OBVIOUS
  <2>1. job.state = "activated" BY <1>1 DEF LeaseInv, Holds
  <2>2. job' = Reported(attempt[h].phase, attempt[h]) BY <2>1 DEF Execute
  <2>3. QED BY <2>2 DEF Reported, Over, TypeOK, Jobs
<1>6. QED BY <1>2, <1>3, <1>4, <1>5 DEF LeaseInv, Engaged

LEMMA AttemptKeepsLease ==
    ASSUME TypeOK, LeaseInv, NEW h \in Handlers, AttemptStep(h) \/ AttemptFault(h)
    PROVE  LeaseInv'
<1>1. CASE Activate(h)
  <2>1. \A g \in Handlers : ~Engaged(g)
    BY <1>1 DEF Activate, LeaseInv, Holds, Over, Engaged
  <2>2. \A g \in Handlers : g # h => attempt'[g] = attempt[g]
    BY <1>1 DEF Activate
  <2>3. \A g \in Handlers : g # h => ~Engaged(g)' /\ ~Live(g)'
    BY <2>1, <2>2 DEF Engaged, Live
  <2>4. /\ attempt'[h].phase = "delivering" /\ attempt'[h].left = CallTimeout
        /\ attempt'[h].retries = job.retries
    BY <1>1 DEF Activate, TypeOK, Idle
  <2>5. /\ job'.state = "activated" /\ job'.lease = JobTimeout
        /\ job'.retries = job.retries
    BY <1>1 DEF Activate, Lease, TypeOK, Jobs
  <2>6. Holds(h)'
    BY <2>4, <2>5, LeaseAssumption, Times DEF Holds, Rest
  <2>7. QED BY <2>3, <2>4, <2>6 DEF LeaseInv, Engaged
<1>2. CASE Deliver(h)
  <2>1. Live(h) BY <1>2 DEF Deliver, Live
  <2>2. CallTimeout + Rest("error") <= Rest("delivering")
    BY Times DEF Rest
  <2>3. ApiTimeout + Rest("calling") <= Rest("delivering")
    BY Times DEF Rest
  <2>4. CASE ref = "none"
    BY <1>2, <2>1, <2>2, <2>4, CallFields, CallHolds, Times DEF Deliver, Phases
  <2>5. CASE ref # "none"
    BY <1>2, <2>1, <2>3, <2>5, CallFields, CallHolds, Times DEF Deliver, Phases
  <2>6. QED BY <2>4, <2>5
<1>3. CASE Serve(h)
  <2>1. /\ \A g \in Handlers : g # h => attempt'[g] = attempt[g]
        /\ attempt'[h].phase = "calling" /\ attempt'[h].left = attempt[h].left
        /\ attempt'[h].retries = attempt[h].retries
    BY <1>3 DEF Serve, TypeOK, Attempts
  <2>2. Live(h) /\ Holds(h) BY <1>3 DEF Serve, Live, LeaseInv
  <2>3. Holds(h)' BY <1>3, <2>1, <2>2 DEF Holds, Serve
  <2>4. QED BY <1>3, <2>1, <2>2, <2>3, OneChanges DEF Serve, Engaged
<1>4. CASE Answered(h)
  <2>1. Live(h) BY <1>4 DEF Answered, Live
  <2>2. ReportOf(attempt[h].answer) \in {"completion", "error", "failure"}
    BY DEF ReportOf
  <2>3. /\ \A g \in Handlers : g # h => attempt'[g] = attempt[g]
        /\ attempt'[h].phase = ReportOf(attempt[h].answer)
        /\ attempt'[h].left = CallTimeout /\ attempt'[h].answer = "none"
        /\ attempt'[h].retries = attempt[h].retries
    BY <1>4 DEF Answered, TypeOK, Attempts
  <2>4. CallTimeout + Rest(ReportOf(attempt[h].answer)) <= Rest("calling")
    BY <2>2, Times DEF Rest
  <2>5. ReportOf(attempt[h].answer) \in Phases BY <2>2 DEF Phases
  <2>6. attempt[h].phase = "calling" /\ job' = job BY <1>4 DEF Answered
  <2>7. QED BY <2>1, <2>3, <2>4, <2>5, <2>6, CallHolds, Times
<1>5. CASE Execute(h) BY <1>5, ExecuteKeepsLease
<1>6. CASE Acknowledged(h) \/ Unacknowledged(h)
  BY <1>6, EndKeepsLease, FallBackKeepsLease DEF Acknowledged, Unacknowledged
<1>7. CASE DeliveryLost(h)
  BY <1>7, EndKeepsLease DEF DeliveryLost
<1>8. CASE Unanswered(h)
  <2>1. Live(h) BY <1>8 DEF Unanswered, Live
  <2>2. CallTimeout + Rest("failure") <= Rest("calling")
    BY Times DEF Rest
  <2>3. QED
    BY <1>8, <2>1, <2>2, CallFields, CallHolds, Times DEF Unanswered, Phases
<1>9. QED
  BY <1>1, <1>2, <1>3, <1>4, <1>5, <1>6, <1>7, <1>8 DEF AttemptStep, AttemptFault

LEMMA LeaseStep == TypeOK /\ LeaseInv /\ [Next]_vars => LeaseInv'
<1> SUFFICES ASSUME TypeOK, LeaseInv, [Next]_vars PROVE LeaseInv'
  OBVIOUS
<1>1. ASSUME NEW h \in Handlers, AttemptStep(h) \/ AttemptFault(h) PROVE LeaseInv'
  BY <1>1, AttemptKeepsLease
<1>2. CASE EngineStep \/ Retry
  <2>1. ~Over /\ \A g \in Handlers : ~Engaged(g)
    <3>1. job.state \notin {"completed", "thrown"}
      BY <1>2 DEF EngineStep, JobTimesOut, BackoffOver, Retry
    <3>2. \A g \in Handlers : Holds(g) => job.lease > 0
      BY TimesLeft DEF Holds
    <3>3. job.state # "activated" \/ job.lease = 0
      BY <1>2 DEF EngineStep, JobTimesOut, BackoffOver, Retry
    <3>4. \A g \in Handlers : ~Holds(g)
      BY <3>2, <3>3 DEF Holds
    <3>5. QED BY <3>1, <3>4 DEF LeaseInv, Over, Engaged
  <2>2. attempt' = attempt
    BY <1>2 DEF EngineStep, JobTimesOut, BackoffOver, Retry
  <2>3. \A g \in Handlers : ~Engaged(g)'
    BY <2>1, <2>2 DEF Engaged, Live
  <2>4. QED BY <2>3 DEF LeaseInv, Engaged
<1>3. CASE Exit \/ Crash
  <2>1. \A g \in Handlers : attempt'[g].phase = "idle"
    BY <1>3 DEF Exit, Crash, Idle
  <2>2. QED BY <2>1 DEF LeaseInv, Engaged, Live, Reports
<1>4. CASE Terminate \/ Start \/ Toggle \/ UNCHANGED vars
  BY <1>4 DEF Terminate, Start, Toggle, vars, LeaseInv, Engaged, Live, Holds, Over
<1>5. CASE Tick
  <2>1. ASSUME NEW g \in Handlers
        PROVE  /\ attempt'[g].phase = attempt[g].phase /\ attempt'[g].answer = attempt[g].answer
               /\ attempt'[g].retries = attempt[g].retries
               /\ attempt'[g].left = Less(attempt[g].left)
    BY <1>5 DEF Tick, TypeOK, Attempts
  <2>2. /\ job'.state = job.state /\ job'.retries = job.retries
        /\ job'.lease = Less(job.lease)
    BY <1>5 DEF Tick, TypeOK, Jobs
  <2>3. ASSUME NEW g \in Handlers
        PROVE  (Live(g)' <=> Live(g)) /\ (Engaged(g)' <=> Engaged(g))
    BY <2>1 DEF Live, Engaged
  <2>4. ASSUME NEW g \in Handlers, Live(g), Holds(g) PROVE Holds(g)'
    <3>1. attempt[g].left > 0
      BY <1>5, <2>4 DEF Tick, Busy, Live, Reports
    <3>2. /\ attempt[g].left \in Nat /\ job.lease \in Nat
          /\ Rest(attempt[g].phase) \in Nat
      BY TimesLeft
    <3>3. Less(attempt[g].left) = attempt[g].left - 1 /\ Less(job.lease) = job.lease - 1
      BY <2>4, <3>1, <3>2 DEF Less, Holds
    <3>4. Less(attempt[g].left) + Rest(attempt[g].phase) < Less(job.lease)
      BY <2>4, <3>2, <3>3 DEF Holds
    <3>5. QED BY <2>1, <2>2, <2>4, <3>4 DEF Holds
  <2>5. QED BY <2>1, <2>2, <2>3, <2>4 DEF LeaseInv, Over
<1>6. QED BY <1>1, <1>2, <1>3, <1>4, <1>5 DEF Next, ProcessStep

-----------------------------------------------------------------------------
(* What is reported is what was done.                                      *)

LEMMA ResultStep == TypeOK /\ LeaseInv /\ ResultInv /\ [Next]_vars => ResultInv'
<1> SUFFICES ASSUME TypeOK, LeaseInv, ResultInv, [Next]_vars PROVE ResultInv'
  OBVIOUS
<1>1. ASSUME NEW h \in Handlers, Activate(h) \/ DeliveryLost(h) \/ Unanswered(h)
                                  \/ Acknowledged(h) \/ Unacknowledged(h)
      PROVE  ResultInv'
  <2>1. /\ \A g \in Handlers : g # h => attempt'[g] = attempt[g]
        /\ attempt'[h].phase \in {"idle", "delivering", "failure", "fallback"}
    <3>1. CASE Activate(h)
      BY <3>1 DEF Activate, Idle, TypeOK
    <3>2. CASE End(h)
      BY <3>2 DEF End, Idle, TypeOK
    <3>3. CASE Call(h, "failure", CallTimeout) \/ Call(h, "fallback", CallTimeout)
      BY <3>3, CallFields
    <3>4. QED
      BY <1>1, <3>1, <3>2, <3>3
      DEF DeliveryLost, Unanswered, Acknowledged, Unacknowledged, FallBack
  <2>2. UNCHANGED <<ref, booking>>
    BY <1>1 DEF Activate, DeliveryLost, Unanswered, Acknowledged, Unacknowledged
  <2>3. job'.state = job.state \/ job'.state = "activated"
    BY <1>1 DEF Activate, DeliveryLost, Unanswered, Acknowledged, Unacknowledged, TypeOK, Jobs
  <2>4. QED BY <2>1, <2>2, <2>3 DEF ResultInv, ResultMatchesBooking
<1>2. ASSUME NEW h \in Handlers, Deliver(h) PROVE ResultInv'
  BY <1>2, CallFields DEF Deliver, ResultInv, ResultMatchesBooking
<1>3. ASSUME NEW h \in Handlers, Serve(h) PROVE ResultInv'
  <2>1. /\ \A g \in Handlers : g # h => attempt'[g] = attempt[g]
        /\ attempt'[h].phase = "calling" /\ attempt[h].phase = "calling"
        /\ attempt'[h].answer = ApiAnswer
    BY <1>3 DEF Serve, TypeOK, Attempts
  <2>2. /\ attempt'[h].answer = "2xx" <=> booking' = "done" /\ ApiAnswer = "2xx"
        /\ ApiAnswer = "2xx" => ref = "known"
        /\ attempt'[h].answer = "404" => ref = "unknown"
    BY <1>3, <2>1 DEF Serve, ApiAnswer, TypeOK, References, ResultInv
  <2>3. job.state = "activated"
    BY <1>3 DEF Serve, LeaseInv, Live, Holds
  <2>4. /\ UNCHANGED <<ref, job>> /\ booking' \in {booking, "done"}
        /\ booking' # booking => ApiAnswer = "2xx"
    BY <1>3 DEF Serve
  <2>5. QED BY <2>1, <2>2, <2>3, <2>4 DEF ResultInv, ResultMatchesBooking
<1>4. ASSUME NEW h \in Handlers, Answered(h) PROVE ResultInv'
  <2>1. /\ \A g \in Handlers : g # h => attempt'[g] = attempt[g]
        /\ attempt'[h].phase = ReportOf(attempt[h].answer)
        /\ attempt[h].phase = "calling"
    BY <1>4 DEF Answered, TypeOK, Attempts
  <2>2. UNCHANGED <<ref, booking, job>> BY <1>4 DEF Answered
  <2>3. QED BY <2>1, <2>2 DEF ReportOf, ResultInv, ResultMatchesBooking
<1>5. ASSUME NEW h \in Handlers, Execute(h) PROVE ResultInv'
  <2>1. \A g \in Handlers : attempt'[g].phase = attempt[g].phase /\
                           (attempt[g].phase = "calling" => attempt'[g] = attempt[g])
    BY <1>5 DEF Execute, TypeOK, Attempts, Reports
  <2>2. UNCHANGED <<ref, booking>> BY <1>5 DEF Execute
  <2>3. /\ job'.state = "completed" => booking = "done"
        /\ job'.state = "thrown" => booking = "confirmed" /\ ref \in {"unknown", "none"}
    <3>1. CASE job' = job BY <3>1 DEF ResultInv, ResultMatchesBooking
    <3>2. CASE job' # job
      <4>1. job' = Reported(attempt[h].phase, attempt[h]) BY <1>5, <3>2 DEF Execute
      <4>2. /\ job'.state = "completed" => attempt[h].phase = "completion"
            /\ job'.state = "thrown" => attempt[h].phase = "error"
        BY <1>5, <4>1 DEF Execute, Reported, Reports, TypeOK, Jobs
      <4>3. booking = "done" => ref = "known" BY DEF ResultInv
      <4>4. QED BY <4>2, <4>3 DEF ResultInv, TypeOK
    <3>3. QED BY <3>1, <3>2
  <2>4. QED BY <2>1, <2>2, <2>3 DEF ResultInv, ResultMatchesBooking
<1>6. CASE EngineStep \/ Retry
  <2>1. job'.state = "activatable"
    BY <1>6 DEF EngineStep, JobTimesOut, BackoffOver, Retry, TypeOK, Jobs
  <2>2. UNCHANGED <<ref, attempt, booking>>
    BY <1>6 DEF EngineStep, JobTimesOut, BackoffOver, Retry
  <2>3. QED BY <2>1, <2>2 DEF ResultInv, ResultMatchesBooking
<1>7. CASE Exit \/ Crash
  <2>1. \A g \in Handlers : attempt'[g].phase = "idle"
    BY <1>7 DEF Exit, Crash, Idle
  <2>2. QED BY <1>7, <2>1 DEF Exit, Crash, ResultInv, ResultMatchesBooking
<1>8. CASE Terminate \/ Start \/ Toggle \/ UNCHANGED vars
  BY <1>8 DEF Terminate, Start, Toggle, vars, ResultInv, ResultMatchesBooking
<1>9. CASE Tick
  <2>1. ASSUME NEW g \in Handlers
        PROVE  attempt'[g].phase = attempt[g].phase /\ attempt'[g].answer = attempt[g].answer
    BY <1>9 DEF Tick, TypeOK, Attempts
  <2>2. job'.state = job.state /\ UNCHANGED <<ref, booking>>
    BY <1>9 DEF Tick, TypeOK, Jobs
  <2>3. QED BY <2>1, <2>2 DEF ResultInv, ResultMatchesBooking
<1>10. QED
  BY <1>1, <1>2, <1>3, <1>4, <1>5, <1>6, <1>7, <1>8, <1>9
  DEF Next, AttemptStep, AttemptFault, ProcessStep

-----------------------------------------------------------------------------
(* The theorems.                                                           *)

LEMMA BookingStep == BookingInv /\ [Next]_vars => BookingInv'
BY TypeStep, LeaseStep, ResultStep DEF BookingInv

LEMMA BookingSafety == Spec => []BookingInv
BY BookingInit, BookingStep, PTL DEF Spec

\* Every reachable state is of its type, for all timeouts and any faults.
THEOREM BookingTypeCorrect == Spec => []TypeOK
BY TypeInit, TypeStep, PTL DEF Spec

\* Two attempts never work on the job at once, whatever is late or lost, if the
\* lease is longer than the calls of an attempt together.
THEOREM AttemptsNeverOverlap == Spec => []OneAttempt
<1>1. BookingInv => OneAttempt
  BY DEF BookingInv, LeaseInv, Engaged, OneAttempt
<1>2. QED BY <1>1, BookingSafety, PTL

\* A job ends as its booking says: completed and done, or thrown and untouched.
THEOREM JobEndsAsBookingSays == Spec => []ResultMatchesBooking
<1>1. BookingInv => ResultMatchesBooking
  BY DEF BookingInv, ResultInv
<1>2. QED BY <1>1, BookingSafety, PTL

\* No report gives a job back retries that were spent.
THEOREM NoRetriesBack == Spec => RetriesOnlyFall
<1>1. BookingInv /\ [Next]_vars => [job.state # "incident" => job'.retries <= job.retries]_vars
  <2> SUFFICES ASSUME TypeOK, LeaseInv, Next, job.state # "incident"
               PROVE  job'.retries <= job.retries
    BY DEF BookingInv, vars
  <2>1. job.retries \in 0 .. MaxRetries /\ job.retries <= job.retries
    BY Times DEF TypeOK, Jobs
  <2>2. ASSUME NEW h \in Handlers, Execute(h) PROVE job'.retries <= job.retries
    <3>1. CASE job' = job BY <2>1, <3>1
    <3>2. CASE job' # job
      <4>1. /\ job.state \in {"activated", "activatable"}
            /\ job' = Reported(attempt[h].phase, attempt[h])
            /\ attempt[h].phase \in Reports
        BY <2>2, <3>2 DEF Execute
      <4>2. attempt[h].retries = job.retries
        BY <2>2, <4>1 DEF Execute, LeaseInv, Live, Holds, Over
      <4>3. job'.retries \in {0, job.retries, RetriesLeft(job.retries)}
        BY <4>1, <4>2 DEF Reported, Reports, TypeOK, Jobs
      <4>4. RetriesLeft(job.retries) <= job.retries /\ 0 <= job.retries
        BY <2>1, Times DEF RetriesLeft
      <4>5. QED BY <2>1, <4>3, <4>4
    <3>3. QED BY <3>1, <3>2
  <2>3. CASE \E h \in Handlers : Activate(h)
    BY <2>1, <2>3 DEF Activate, TypeOK, Jobs
  <2>4. CASE EngineStep \/ Tick
    BY <2>1, <2>4 DEF EngineStep, JobTimesOut, BackoffOver, Tick, TypeOK, Jobs
  <2>5. CASE \E h \in Handlers : \/ Deliver(h) \/ Serve(h) \/ Answered(h) \/ Acknowledged(h)
                               \/ AttemptFault(h)
    BY <2>1, <2>5 DEF Deliver, Serve, Answered, Acknowledged, AttemptFault, DeliveryLost,
       Unanswered, Unacknowledged
  <2>6. CASE ProcessStep \/ Toggle
    BY <2>1, <2>6 DEF ProcessStep, Terminate, Exit, Crash, Start, Toggle
  <2>7. CASE Retry
    BY <2>7 DEF Retry
  <2>8. QED BY <2>2, <2>3, <2>4, <2>5, <2>6, <2>7 DEF Next, AttemptStep
<1>2. QED BY <1>1, BookingSafety, PTL DEF Spec, RetriesOnlyFall

\* A result or a BPMN error is not dropped with the job left open: the attempt
\* that has one ends on a report the engine took, or goes on to the fallback.
THEOREM OutcomesAreNotSwallowed == Spec => OutcomeNotSwallowed
<1> DEFINE Kept == \A h \in Handlers :
        (/\ attempt[h].phase \in {"completion", "error"}
         /\ attempt'[h].phase = "idle" /\ worker' # "down") =>
            job'.state \in {"completed", "thrown", "incident"}
<1>1. BookingInv /\ [Next]_vars => [Kept]_vars
  <2> SUFFICES ASSUME TypeOK, LeaseInv, Next, NEW h \in Handlers,
                      attempt[h].phase \in {"completion", "error"},
                      attempt'[h].phase = "idle", worker' # "down"
               PROVE  job'.state \in {"completed", "thrown", "incident"}
    BY DEF BookingInv, vars
  <2>1. ASSUME NEW g \in Handlers, AttemptStep(g) \/ AttemptFault(g)
        PROVE  g = h /\ Acknowledged(h) /\ attempt[h].answer = "2xx"
    <3>1. g = h
      <4>1. g # h => attempt'[h] = attempt[h]
        BY <2>1 DEF AttemptStep, AttemptFault, Activate, Deliver, Serve, Answered, Execute,
           Acknowledged, DeliveryLost, Unanswered, Unacknowledged, FallBack, Call, End, TypeOK
      <4>2. QED BY <4>1
    <3>2. ~(Activate(h) \/ Deliver(h) \/ Serve(h) \/ Answered(h) \/ DeliveryLost(h) \/ Unanswered(h))
      BY DEF Activate, Busy, Deliver, Serve, Answered, DeliveryLost, Unanswered
    <3>3. ~Execute(h) BY DEF Execute, TypeOK, Attempts
    <3>4. ~FallBack(h)
      <4>1. FallBack(h) => attempt'[h].phase = "fallback" BY CallFields DEF FallBack
      <4>2. QED BY <4>1
    <3>5. QED
      BY <2>1, <3>1, <3>2, <3>3, <3>4 DEF AttemptStep, AttemptFault, Acknowledged, Unacknowledged
  <2>2. CASE \E g \in Handlers : AttemptStep(g) \/ AttemptFault(g)
    <3>1. Acknowledged(h) /\ attempt[h].answer = "2xx" BY <2>1, <2>2
    <3>2. ~Live(h) BY <3>1 DEF Live, Reports
    <3>3. Over /\ job' = job BY <3>1, <3>2 DEF LeaseInv, Acknowledged
    <3>4. QED BY <3>3 DEF Over
  <2>3. CASE Tick
    <3>1. attempt'[h].phase = attempt[h].phase BY <2>3 DEF Tick, TypeOK, Attempts
    <3>2. QED BY <3>1
  <2>4. CASE EngineStep \/ Retry \/ Toggle \/ Terminate \/ Start
    BY <2>4 DEF EngineStep, JobTimesOut, BackoffOver, Retry, Toggle, Terminate, Start
  <2>5. CASE Exit \/ Crash BY <2>5 DEF Exit, Crash
  <2>6. QED BY <2>2, <2>3, <2>4, <2>5 DEF Next, ProcessStep
<1>2. QED BY <1>1, BookingSafety, PTL DEF Spec, OutcomeNotSwallowed
=============================================================================
