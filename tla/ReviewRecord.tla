---------------------------- MODULE ReviewRecord ----------------------------
(***************************************************************************)
(* review.record beside the runs of ticket.classify (workers/llm-classifier *)
(* worker.py make_review_callback, audit.py latest_classify, write_review). *)
(*                                                                         *)
(* A classification that asks for it is shown to a person; what the person  *)
(* decides is then written beside what the model said, and this the worker  *)
(* takes from the newest row of the audit.  The module extends LlmWorker:   *)
(* both kinds of job share the event loop and the database connection, and  *)
(* the runs of a classification that was given out twice go on writing.     *)
(***************************************************************************)
EXTENDS LlmWorker

VARIABLES
    newest,     \* newest[j]: the newest classify row of the ticket of job j
    overtaken,  \* the jobs that have had two runs at the same time
    review,     \* review[j]: the review of what job j returned
    pairs       \* classification_review

reviewVars == <<newest, overtaken, review, pairs>>
allVars    == <<vars, reviewVars>>

\* "state" is the job's, "call" the callback's: its two statements, then a row
\* to report.  "late": the lease ran out and the worker holds the job again.
Reviews ==
    [state : {"none", "due", "incident", "done"},
     call : {"no", "reading", "writing", "reporting"},
     late : BOOLEAN,
     retries : 0 .. MaxRetries,
     seen : Results]

NoReview == [state |-> "none", call |-> "no", late |-> FALSE, retries |-> MaxRetries,
             seen |-> NoResult]

ReviewTypeOK ==
    /\ TypeOK
    /\ newest \in [Jobs -> Results]
    /\ overtaken \subseteq Jobs
    /\ review \in [Jobs -> Reviews]
    /\ pairs \subseteq [job : Jobs, llm : Results]

ReviewInit ==
    /\ Init
    /\ newest = [j \in Jobs |-> NoResult]
    /\ overtaken = {}
    /\ review = [j \in Jobs |-> NoReview]
    /\ pairs = {}

\* The loop is not held by a callback of review.record.
InCallback(j) == review[j].call \in {"reading", "writing"}
Free          == \A j \in Jobs : ~InCallback(j)

-----------------------------------------------------------------------------
(* The classification, as in LlmWorker.                                    *)

ClassifyTurn(s) == (Begin(s) \/ Report(s)) /\ Free /\ UNCHANGED reviewVars

\* Deviation: the oldest row counts.
FirstRow(s) ==
    newest' = [newest EXCEPT ![run[s].job] =
        IF \E row \in rows : row.job = run[s].job THEN @ ELSE run[s].result]

\* ORDER BY id DESC LIMIT 1
NewRow(s) == newest' = [newest EXCEPT ![run[s].job] = run[s].result]

ClassifyCalls(s) ==
    \/ /\ Answered(s) \/ Invalid(s) \/ Unavailable(s) \/ Rejected(s) \/ WriteFails(s)
       /\ UNCHANGED reviewVars
    \/ Write(s) /\ NewRow(s) /\ UNCHANGED <<overtaken, review, pairs>>

ClassifyActivated(j) ==
    /\ Activate(j)
    /\ overtaken' = IF \E s \in Slots : run[s].job = j THEN overtaken \cup {j} ELSE overtaken
    /\ UNCHANGED <<newest, review, pairs>>

-----------------------------------------------------------------------------
(* The review.                                                             *)

Calls(j, call) == review' = [review EXCEPT ![j].call = call]

\* gw-needs-review, the user task, and the job behind it.
PersonReviews(j) ==
    /\ job[j].state = "completed" /\ job[j].result.needsReview
    /\ review[j].state = "none"
    /\ review' = [review EXCEPT ![j].state = "due"]
    /\ UNCHANGED <<vars, newest, overtaken, pairs>>

\* The first attempt, or one more for a lease that has run out.
RecordBegins(j) ==
    /\ worker = "up" /\ loop = None /\ Free
    /\ review[j].call = "no" /\ (review[j].state = "due" \/ review[j].late)
    /\ review' = [review EXCEPT ![j].call = "reading",
           ![j].late = @ /\ review[j].state = "due"]
    /\ UNCHANGED <<vars, newest, overtaken, pairs>>

\* A statement over the kept connection, or a new one.
Executes ==
    /\ Usable
    /\ conn' = "open"
    /\ UNCHANGED <<provider, job, run, loop, worker, db, rows, faults>>

\* latest_classify
RecordReads(j) ==
    /\ review[j].call = "reading" /\ Executes
    /\ review' = [review EXCEPT ![j].call = "writing", ![j].seen = newest[j]]
    /\ UNCHANGED <<newest, overtaken, pairs>>

\* write_review
RecordWrites(j) ==
    /\ review[j].call = "writing" /\ Executes
    /\ pairs' = pairs \cup {[job |-> j, llm |-> review[j].seen]}
    /\ Calls(j, "reporting")
    /\ UNCHANGED <<newest, overtaken>>

\* An exception out of the callback; the engine takes the failure of a job
\* that is not finished.
RecordRaises(j) ==
    LET left == RetriesLeft(review[j].retries)
        failed == [review[j] EXCEPT !.call = "no", !.seen = NoResult, !.retries = left,
                                    !.state = IF left = 0 THEN "incident" ELSE "due"]
    IN  review' = [review EXCEPT ![j] = IF review[j].state = "due" THEN failed
                                        ELSE [@ EXCEPT !.call = "no", !.seen = NoResult]]

\* Either statement raises: the connection is reset and the job fails.
RecordFails(j) ==
    /\ InCallback(j) /\ Broken
    /\ conn' = "closed"
    /\ RecordRaises(j)
    /\ UNCHANGED <<provider, job, run, loop, worker, db, rows, faults, newest, overtaken, pairs>>

RecordReports(j) ==
    /\ loop = None /\ Free
    /\ review[j].call = "reporting"
    /\ review' = [review EXCEPT ![j].call = "no", ![j].seen = NoResult,
           ![j].state = IF @ = "due" THEN "done" ELSE @]
    /\ UNCHANGED <<vars, newest, overtaken, pairs>>

\* Retry of the incident in Operate.
RecordRetried(j) ==
    /\ review[j].state = "incident"
    /\ review' = [review EXCEPT ![j].state = "due", ![j].retries = 1]
    /\ UNCHANGED <<vars, newest, overtaken, pairs>>

\* What a crash cuts off comes back when its lease has run out.
CrashInReview ==
    /\ Crash
    /\ review' = [j \in Jobs |-> [review[j] EXCEPT !.call = "no", !.late = FALSE, !.seen = NoResult]]
    /\ UNCHANGED <<newest, overtaken, pairs>>

RecordTurn(j) == RecordBegins(j) \/ RecordReports(j)
RecordStep(j) ==
    PersonReviews(j) \/ RecordReads(j) \/ RecordWrites(j) \/ RecordFails(j) \/ RecordRetried(j)

-----------------------------------------------------------------------------

Outside(j) == (JobTimesOut(j) \/ Retry(j)) /\ UNCHANGED reviewVars

\* A review that waits for a paused database lets time pass, too.  A tick is
\* the whole job timeout of review.record.
TimePasses ==
    /\ Tick
    /\ Free \/ Unanswered
    /\ review' = [j \in Jobs |-> [review[j] EXCEPT !.late = @ \/ review[j].state = "due"]]
    /\ UNCHANGED <<newest, overtaken, pairs>>

Recovers  == (DbBack \/ Start) /\ UNCHANGED reviewVars
Disturbed == (DbStops \/ DbPauses) /\ UNCHANGED reviewVars

ReviewNext ==
    \/ \E s \in Slots : ClassifyTurn(s) \/ ClassifyCalls(s)
    \/ \E j \in Jobs :
          ClassifyActivated(j) \/ Outside(j) \/ RecordTurn(j) \/ RecordStep(j)
    \/ Recovers \/ Disturbed \/ CrashInReview \/ TimePasses

ReviewSpec == ReviewInit /\ [][ReviewNext]_allVars

\* As FairSpec of LlmWorker; besides, the database comes back, the operator
\* retries, the person reviews, and the record has its turn as the other jobs
\* have.
OperatedReviewSpec ==
    /\ ReviewSpec
    /\ WF_allVars(\E s \in Slots : ClassifyCalls(s))
    /\ \A s \in Slots : SF_allVars(ClassifyTurn(s))
    /\ \A j \in Jobs :
          /\ SF_allVars(ClassifyActivated(j)) /\ WF_allVars(Outside(j))
          /\ SF_allVars(RecordTurn(j)) /\ WF_allVars(RecordStep(j))
    /\ SF_allVars(TimePasses)
    /\ WF_allVars(Recovers)

-----------------------------------------------------------------------------
(* Properties.                                                             *)

\* A review that is done is in classification_review, beside what the person
\* has overruled (worker.py:6-7, "pairing the form's final values with the
\* LLM's from the audit"): the result the process got, whatever was written
\* twice, lost or retried, unless two runs of the classification overlapped.
ReviewIsPaired ==
    \A j \in Jobs :
        /\ review[j].state = "done" => \E p \in pairs : p.job = j
        /\ j \notin overtaken => \A p \in pairs : p.job = j => p.llm = job[j].result

\* Every classification comes to an end and, where it asks for it, its review
\* to a row, through every outage, crash and stop of the database that ends,
\* with the operator's retries (D5-3).
EventuallyReviewed ==
    /\ EventuallyDone
    /\ \A j \in Jobs : (job[j].state = "completed" /\ job[j].result.needsReview)
                           ~> review[j].state = "done"
=============================================================================
