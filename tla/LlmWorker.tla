----------------------------- MODULE LlmWorker -----------------------------
(***************************************************************************)
(* The jobs the LLM worker serves with a call to the model: ticket.classify *)
(* and the two generations (workers/llm-classifier: worker.py,             *)
(* classifier.py, generator.py, guardrails.py, audit.py).                  *)
(*                                                                         *)
(* The callbacks are coroutines that never await: the provider's client    *)
(* and psycopg block.  So one callback at a time holds the event loop, from *)
(* the call to the model to the row in the database, and until it is done   *)
(* no other one starts, nothing is reported and no poll is read.           *)
(*                                                                         *)
(* Time passes in ticks of 30 s, and only while a callback waits or all is *)
(* idle: everything else is quick.                                         *)
(***************************************************************************)
EXTENDS Naturals

CONSTANTS
    Jobs,        \* the jobs
    TypeOf,      \* TypeOf[j]: "classify" or "generate"
    Slots,       \* slots for the activations the worker holds
    CallTime,    \* CallTime[type]: provider timeout times (max_retries + 1)
    JobTimeout,  \* JobTimeout[type]: job_timeout_milliseconds
    MaxRetries,  \* retries of a new job
    Conditions,  \* what calls to the provider may meet: sets of Outcomes
    MaxFaults    \* bound: stops and pauses of the database, crashes

Types == {"classify", "generate"}
None  == "none"

\* A rejection is an error of ours: key, model, schema of the request.
Outcomes == {"answers", "rejects", "fails"}

ASSUME LlmAssumption ==
    /\ TypeOf \in [Jobs -> Types]
    /\ CallTime \in [Types -> Nat \ {0}]
    /\ JobTimeout \in [Types -> Nat \ {0}]
    /\ MaxRetries \in Nat \ {0}
    /\ Conditions \subseteq SUBSET Outcomes
    /\ MaxFaults \in Nat
    /\ None \notin Slots

VARIABLES
    provider,  \* what calls may meet, each anew: an answer, a rejection, a failure
    job,       \* job[j]: the engine's job
    run,       \* run[s]: one activation and its callback
    loop,      \* the slot whose callback holds the event loop
    worker,    \* the process
    db,        \* PostgreSQL
    conn,      \* the worker's one connection; "stale" once the server is gone
    rows,      \* llm_audit
    faults     \* faults so far

vars == <<provider, job, run, loop, worker, db, conn, rows, faults>>

-----------------------------------------------------------------------------
(* The answer of the model and the guardrails on it.                       *)

\* A valid answer: its confidence, below CLASSIFY_CONFIDENCE_THRESHOLD, above,
\* or at least LLM_CONFIDENCE_CEILING; whether a keyword rule of at least
\* RULES_CONFIDENCE_FLOOR names another intent.
Answers == [confidence : {"low", "fair", "high"}, challenged : BOOLEAN]

\* apply_policy, for an answer.
NeedsReview(answer) ==
    \/ answer.confidence = "low"
    \/ answer.challenged /\ answer.confidence # "high"

\* What a job returns; a generation has nothing to review.
Results == [source : {"llm", "fallback"}, needsReview : BOOLEAN]
Result(j, answer) ==
    [source |-> "llm", needsReview |-> TypeOf[j] = "classify" /\ NeedsReview(answer)]

\* The keyword rules, whose own needsReview is overridden, or the template.
Fallback(j) == [source |-> "fallback", needsReview |-> TypeOf[j] = "classify"]

NoResult == [source |-> "fallback", needsReview |-> FALSE]

-----------------------------------------------------------------------------

JobStates ==
    [state : {"activatable", "activated", "incident", "completed"},
     retries : 0 .. MaxRetries,
     lease : Nat,
     result : Results]

\* "held" has been activated; "first" and "second" wait for the model; "write"
\* for the database; "complete" and "fail" are reports to be sent.
Runs ==
    [phase : {"idle", "held", "first", "second", "write", "complete", "fail"},
     job : Jobs \cup {None},
     retries : 0 .. MaxRetries,
     left : Nat,
     result : Results]

Idle == [phase |-> "idle", job |-> None, retries |-> 0, left |-> 0, result |-> NoResult]

TypeOK ==
    /\ provider \in Conditions
    /\ job \in [Jobs -> JobStates]
    /\ run \in [Slots -> Runs]
    /\ loop \in Slots \cup {None}
    /\ worker \in {"up", "down"}
    /\ db \in {"up", "down", "paused"}
    /\ conn \in {"open", "stale", "closed"}
    /\ rows \subseteq [job : Jobs, result : Results]
    /\ faults \in 0 .. MaxFaults

Init ==
    /\ provider \in Conditions
    /\ job = [j \in Jobs |-> [state |-> "activatable", retries |-> MaxRetries,
                              lease |-> 0, result |-> NoResult]]
    /\ run = [s \in Slots |-> Idle]
    /\ loop = None
    /\ worker = "up"
    /\ db = "up"
    /\ conn = "open"
    /\ rows = {}
    /\ faults = 0

Busy(s)  == run[s].phase # "idle"
Fault    == faults < MaxFaults /\ faults' = faults + 1

\* The callback goes on to "phase", or gives the loop back with a report.
Goes(s, phase, left) == run' = [run EXCEPT ![s].phase = phase, ![s].left = left]
Returns(s)           == run' = [run EXCEPT ![s].phase = "complete"] /\ loop' = None

\* Deviation: the job fails with the retries it had.
RetriesKept(retries) == retries

\* Deviation: a failure counts the other way.
RetriesCountedUp(retries) == retries + 1

\* An exception out of the callback: the SDK fails the job with one retry less.
RetriesLeft(retries) == IF retries = 0 THEN 0 ELSE retries - 1

Raises(s) ==
    /\ run' = [run EXCEPT ![s] = [Idle EXCEPT !.phase = "fail", !.job = run[s].job,
                                             !.retries = RetriesLeft(run[s].retries)]]
    /\ loop' = None

-----------------------------------------------------------------------------
(* The engine and the worker's polls.                                      *)

\* A poll that is on its way is answered also while a callback holds the loop.
Activate(j) ==
    /\ worker = "up" /\ \E s \in Slots : ~Busy(s)
    /\ job[j].state = "activatable"
    /\ job' = [job EXCEPT ![j].state = "activated", ![j].lease = JobTimeout[TypeOf[j]]]
    /\ run' = [run EXCEPT ![CHOOSE s \in Slots : ~Busy(s)] =
           [Idle EXCEPT !.phase = "held", !.job = j, !.retries = job[j].retries]]
    /\ UNCHANGED <<provider, loop, worker, db, conn, rows, faults>>

JobTimesOut(j) ==
    /\ job[j].state = "activated" /\ job[j].lease = 0
    /\ job' = [job EXCEPT ![j].state = "activatable"]
    /\ UNCHANGED <<provider, run, loop, worker, db, conn, rows, faults>>

\* The engine takes the report of any run while the job is not finished or in
\* an incident; the SDK logs an error answer.
Report(s) ==
    /\ loop = None
    /\ run[s].phase \in {"complete", "fail"}
    /\ run' = [run EXCEPT ![s] = Idle]
    /\ LET j == run[s].job
           done == IF run[s].phase = "complete"
                   THEN [job[j] EXCEPT !.state = "completed", !.lease = 0, !.result = run[s].result]
                   ELSE [job[j] EXCEPT !.retries = run[s].retries, !.lease = 0,
                             !.state = IF run[s].retries = 0 THEN "incident" ELSE "activatable"]
       IN job' = IF job[j].state \in {"activatable", "activated"}
                 THEN [job EXCEPT ![j] = done] ELSE job
    /\ UNCHANGED <<provider, loop, worker, db, conn, rows, faults>>

\* Retry of the incident in Operate.
Retry(j) ==
    /\ job[j].state = "incident"
    /\ job' = [job EXCEPT ![j].state = "activatable", ![j].retries = 1]
    /\ UNCHANGED <<provider, run, loop, worker, db, conn, rows, faults>>

-----------------------------------------------------------------------------
(* The callback: the model.                                                *)

Begin(s) ==
    /\ loop = None
    /\ run[s].phase = "held"
    /\ loop' = s
    /\ Goes(s, "first", CallTime[TypeOf[run[s].job]])
    /\ UNCHANGED <<provider, job, worker, db, conn, rows, faults>>

Waiting(s) == loop = s /\ run[s].phase \in {"first", "second"}
Writes(s, result) ==
    run' = [run EXCEPT ![s].phase = "write", ![s].left = 0, ![s].result = result]

Answered(s) ==
    /\ Waiting(s) /\ "answers" \in provider
    /\ \E answer \in Answers : Writes(s, Result(run[s].job, answer))
    /\ UNCHANGED <<provider, job, loop, worker, db, conn, rows, faults>>

\* The validator refuses the answer: one more call, then the fallback.
Invalid(s) ==
    /\ Waiting(s) /\ "answers" \in provider
    /\ IF run[s].phase = "first"
       THEN Goes(s, "second", CallTime[TypeOf[run[s].job]])
       ELSE Writes(s, Fallback(run[s].job))
    /\ UNCHANGED <<provider, job, loop, worker, db, conn, rows, faults>>

\* Deviation: the exception is not caught.
UnavailableRaises(s) ==
    /\ Waiting(s) /\ "fails" \in provider
    /\ Raises(s)
    /\ UNCHANGED <<provider, job, worker, db, conn, rows, faults>>

\* Connection, timeout, 429 or 5xx, after the provider client's own retries.
Unavailable(s) ==
    /\ Waiting(s) /\ "fails" \in provider
    /\ Writes(s, Fallback(run[s].job))
    /\ UNCHANGED <<provider, job, loop, worker, db, conn, rows, faults>>

\* Deviation: every error of the provider's client falls back.
RejectedFallsBack(s) ==
    /\ Waiting(s) /\ "rejects" \in provider
    /\ Writes(s, Fallback(run[s].job))
    /\ UNCHANGED <<provider, job, loop, worker, db, conn, rows, faults>>

\* Any other 4xx.
Rejected(s) ==
    /\ Waiting(s) /\ "rejects" \in provider
    /\ Raises(s)
    /\ UNCHANGED <<provider, job, worker, db, conn, rows, faults>>

-----------------------------------------------------------------------------
(* The callback: the row (write_llm, _connection, _reset).                 *)

Writing(s) == loop = s /\ run[s].phase = "write"

\* Deviation: the connection made at the start is the only one.
UsableUntilBroken == conn = "open" /\ db = "up"

\* The connection in use after _connection: an open one as it is, else a new
\* one, which connect_timeout gives up on; one whose server has gone is found
\* out by the statement that fails on it.
Usable     == conn \in {"open", "closed"} /\ db = "up"
Unanswered == conn = "open" /\ db = "paused"
Broken     == ~Usable /\ ~Unanswered

Write(s) ==
    /\ Writing(s) /\ Usable
    /\ conn' = "open"
    /\ rows' = rows \cup {[job |-> run[s].job, result |-> run[s].result]}
    /\ Returns(s)
    /\ UNCHANGED <<provider, job, worker, db, faults>>

\* Deviation: a failed write is only logged.
WriteFailsQuietly(s) ==
    /\ Writing(s) /\ Broken
    /\ conn' = "closed"
    /\ Returns(s)
    /\ UNCHANGED <<provider, job, worker, db, rows, faults>>

\* The server is gone, has been restarted, or does not let us connect.
WriteFails(s) ==
    /\ Writing(s) /\ Broken
    /\ conn' = "closed"
    /\ Raises(s)
    /\ UNCHANGED <<provider, job, worker, db, rows, faults>>

-----------------------------------------------------------------------------
(* The database, the process and time.                                     *)

\* A stopped server breaks the connection; a paused one keeps it.
DbStops ==
    /\ db = "up" /\ Fault
    /\ db' = "down"
    /\ conn' = IF conn = "open" THEN "stale" ELSE conn
    /\ UNCHANGED <<provider, job, run, loop, worker, rows>>

DbPauses ==
    /\ db = "up" /\ Fault
    /\ db' = "paused"
    /\ UNCHANGED <<provider, job, run, loop, worker, conn, rows>>

DbBack ==
    /\ db # "up"
    /\ db' = "up"
    /\ UNCHANGED <<provider, job, run, loop, worker, conn, rows, faults>>

Crash ==
    /\ worker = "up" /\ Fault
    /\ worker' = "down"
    /\ run' = [s \in Slots |-> Idle]
    /\ loop' = None
    /\ conn' = "closed"
    /\ UNCHANGED <<provider, job, db, rows>>

\* connect_with_retry lets nothing start without the database; the container
\* is restarted until it does.
Start ==
    /\ worker = "down" /\ db = "up"
    /\ worker' = "up"
    /\ conn' = "open"
    /\ UNCHANGED <<provider, job, run, loop, db, rows, faults>>

\* The row waits for a paused database for ever.
Hanging(s) == Writing(s) /\ Unanswered

Less(t) == IF t = 0 THEN 0 ELSE t - 1

Tick ==
    /\ IF loop = None THEN \A s \in Slots : ~Busy(s)
       ELSE Hanging(loop) \/ run[loop].left > 0
    /\ job' = [j \in Jobs |-> [job[j] EXCEPT !.lease = Less(@)]]
    /\ run' = IF loop = None THEN run ELSE [run EXCEPT ![loop].left = Less(@)]
    /\ UNCHANGED <<provider, loop, worker, db, conn, rows, faults>>

Callback(s) ==
    \/ Begin(s) \/ Answered(s) \/ Invalid(s) \/ Unavailable(s) \/ Rejected(s)
    \/ Write(s) \/ WriteFails(s) \/ Report(s)

Database == DbStops \/ DbPauses \/ DbBack

Next ==
    \/ \E s \in Slots : Callback(s)
    \/ \E j \in Jobs : Activate(j) \/ JobTimesOut(j) \/ Retry(j)
    \/ Database \/ Crash \/ Start \/ Tick

Spec == Init /\ [][Next]_vars

\* The worker, the engine and time go on, and the container is restarted.  The
\* loop's queue is first in, first out, and each job type has its own poll:
\* what waits for the loop or for an activation has its turn.  Retries do not
\* stop the clock.  A database that is away may stay away.
FairSpec ==
    /\ Spec
    /\ \A s \in Slots : WF_vars(Callback(s)) /\ SF_vars(Begin(s)) /\ SF_vars(Report(s))
    /\ \A j \in Jobs : WF_vars(JobTimesOut(j)) /\ SF_vars(Activate(j))
    /\ WF_vars(Start) /\ SF_vars(Tick)

-----------------------------------------------------------------------------
(* Properties.                                                             *)

\* No job is completed that the audit does not hold (D5-3): not when the
\* database goes away between two calls, nor by a run that was overtaken.
CompletedIsAudited ==
    \A j \in Jobs : job[j].state = "completed" => [job |-> j, result |-> job[j].result] \in rows

\* An outage of the provider is no incident, and a rejected request no outage
\* (D5-7): as long as the provider does not reject, and the database and the
\* worker stay up, every job keeps its retries; and while it rejects what we
\* send, nothing is classified or generated in its place, neither by a repeated
\* attempt nor after the operator's retry.
RejectionIsNoOutage ==
    /\ "rejects" \notin provider /\ faults = 0 => \A j \in Jobs : job[j].retries = MaxRetries
    /\ provider = {"rejects"} => rows = {} /\ \A j \in Jobs : job[j].state # "completed"

\* A job comes to an end through every outage, crash and stop of the database
\* that ends, with the operator's retries; only a request of ours that the
\* provider rejects comes to the operator instead, and again after every retry
\* for as long as it is rejected (D5-3, D5-7).
EventuallyDone ==
    \A j \in Jobs :
        /\ <>(job[j].state = "completed" \/ ("rejects" \in provider /\ job[j].state = "incident"))
        /\ provider = {"rejects"} => []<>(job[j].state = "incident")

\* "A database that accepts TCP but never answers must fail the job, not
\* hang" (audit.py:23-24): a callback gives the loop back.
LoopComesBack == \A s \in Slots : loop = s ~> loop # s
=============================================================================
