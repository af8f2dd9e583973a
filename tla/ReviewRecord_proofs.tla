------------------------ MODULE ReviewRecord_proofs ------------------------
(***************************************************************************)
(* Safety of ReviewRecord for any jobs, slots, times, retries and faults.  *)
(*                                                                         *)
(* The record takes the result from the newest row, not from the job.  As  *)
(* long as a job has one run at a time the two agree from its completion   *)
(* on: the run that wrote the newest row is the one that was heard, and    *)
(* none is left to write another.  Of LlmWorker the record disturbs only   *)
(* the connection, and in the way the rows do: its invariant carries over. *)
(***************************************************************************)
EXTENDS ReviewRecord, LlmWorker_proofs

-----------------------------------------------------------------------------
(* The inductive invariant.                                                *)

Holds(s, j) == Busy(s) /\ run[s].job = j

\* A job that never had two runs at a time: its run, the row it has written,
\* and what the record makes of them.
Single(j)  == \A s, t \in Slots : Holds(s, j) /\ Holds(t, j) => s = t
Written(j) ==
    \A s \in Slots : Holds(s, j) /\ run[s].phase = "complete" => newest[j] = run[s].result
Settled(j) ==
    job[j].state = "completed" => newest[j] = job[j].result /\ \A s \in Slots : ~Holds(s, j)
Seen(j)    == review[j].call = "writing" => review[j].seen = job[j].result
Beside(j)  == \A p \in pairs : p.job = j => p.llm = job[j].result
Alone(j)   == Single(j) /\ Written(j) /\ Settled(j) /\ Seen(j) /\ Beside(j)

\* Only what is completed is reviewed, recorded and paired.
Reviewable(j) ==
    /\ review[j].state # "none" => job[j].state = "completed"
    /\ review[j].call # "no" \/ review[j].late => review[j].state # "none"
    /\ \A p \in pairs : p.job = j => review[j].state # "none"

\* The row precedes the report.
Recorded(j) ==
    review[j].call = "reporting" \/ review[j].state = "done" => \E p \in pairs : p.job = j

PairInv == \A j \in Jobs : Reviewable(j) /\ Recorded(j) /\ (j \notin overtaken => Alone(j))

RecordInv == ReviewTypeOK /\ LlmInv /\ PairInv

-----------------------------------------------------------------------------
(* The worker's invariant.                                                 *)

\* A statement of the record finds the connection as a row does.
LEMMA ConnectionStep ==
    ASSUME TypeOK, LlmInv, conn' \in {"open", "stale", "closed"},
           "rejects" \notin provider /\ faults = 0 => conn' = "open",
           UNCHANGED <<provider, job, run, loop, worker, db, rows, faults>>
    PROVE  TypeOK' /\ LlmInv'
<1>1. RunsOK' /\ JobsOK' /\ RowsOK' BY RunsStill, JobsStill, RowsStill DEF LlmInv
<1>2. Undisturbed' BY DEF LlmInv, Undisturbed
<1>3. TypeOK' BY DEF TypeOK
<1>4. QED BY <1>1, <1>2, <1>3 DEF LlmInv

\* Every step is one of LlmWorker, or one of the connection.
LEMMA WorkerStep ==
    ASSUME TypeOK, LlmInv, [ReviewNext]_allVars PROVE TypeOK' /\ LlmInv'
<1>1. CASE UNCHANGED allVars BY <1>1, Stepwise DEF allVars
<1>2. ASSUME NEW s \in Slots, ClassifyTurn(s) \/ ClassifyCalls(s) PROVE TypeOK' /\ LlmInv'
  <2>1. Callback(s) BY <1>2 DEF ClassifyTurn, ClassifyCalls, Callback
  <2>2. QED BY <2>1, Stepwise DEF Next
<1>3. ASSUME NEW j \in Jobs, ClassifyActivated(j) \/ Outside(j) PROVE TypeOK' /\ LlmInv'
  BY <1>3, ActivateStep, ActivatableStep DEF ClassifyActivated, Outside
<1>4. ASSUME NEW j \in Jobs, RecordTurn(j) \/ PersonReviews(j) \/ RecordRetried(j)
      PROVE TypeOK' /\ LlmInv'
  <2>1. UNCHANGED vars
    BY <1>4 DEF RecordTurn, RecordBegins, RecordReports, PersonReviews, RecordRetried
  <2>2. QED BY <2>1, Stepwise
<1>5. ASSUME NEW j \in Jobs, RecordReads(j) \/ RecordWrites(j) PROVE TypeOK' /\ LlmInv'
  BY <1>5, ConnectionStep DEF RecordReads, RecordWrites, Executes
<1>6. ASSUME NEW j \in Jobs, RecordFails(j) PROVE TypeOK' /\ LlmInv'
  <2>1. ~("rejects" \notin provider /\ faults = 0)
    BY <1>6 DEF RecordFails, Broken, Usable, LlmInv, Undisturbed
  <2>2. QED BY <1>6, <2>1, ConnectionStep DEF RecordFails
<1>7. CASE Recovers \/ Disturbed \/ CrashInReview \/ TimePasses
  <2>1. Database \/ Crash \/ Start \/ Tick
    BY <1>7 DEF Recovers, Disturbed, CrashInReview, TimePasses, Database
  <2>2. QED BY <2>1, Stepwise DEF Next
<1>8. QED BY <1>1, <1>2, <1>3, <1>4, <1>5, <1>6, <1>7 DEF ReviewNext, RecordStep

-----------------------------------------------------------------------------
(* What the steps have in common.                                          *)

\* A run goes on towards its row, or fails, and stays its job's run.
LEMMA RunKept ==
    ASSUME RecordInv, NEW s \in Slots, NEW r, Busy(s),
           run' = [run EXCEPT ![s] = r], r.job = run[s].job, r.phase # "complete",
           UNCHANGED <<job, reviewVars>>
    PROVE  PairInv'
<1>1. run'[s] = r /\ \A t \in Slots : t # s => run'[t] = run[t]
  BY DEF RecordInv, ReviewTypeOK, TypeOK
<1>2. \A t \in Slots, j \in Jobs : Holds(t, j)' => Holds(t, j)
  BY <1>1 DEF Holds, Busy
<1>3. \A t \in Slots : run'[t].phase = "complete" => run'[t] = run[t]
  BY <1>1
<1>4. ASSUME NEW j \in Jobs PROVE (Reviewable(j) /\ Recorded(j))'
  BY DEF RecordInv, PairInv, Reviewable, Recorded, reviewVars
<1>5. ASSUME NEW j \in Jobs, j \notin overtaken' PROVE Alone(j)'
  <2>1. Alone(j) BY <1>5 DEF RecordInv, PairInv, reviewVars
  <2>2. Single(j)' BY <1>2, <2>1 DEF Alone, Single
  <2>3. Written(j)' BY <1>2, <1>3, <2>1 DEF Alone, Written, reviewVars
  <2>4. Settled(j)' BY <1>2, <2>1 DEF Alone, Settled, reviewVars
  <2>5. Seen(j)' /\ Beside(j)' BY <2>1 DEF Alone, Seen, Beside, reviewVars
  <2>6. QED BY <2>2, <2>3, <2>4, <2>5 DEF Alone
<1>6. QED BY <1>4, <1>5 DEF PairInv

\* Jobs and runs keep what the record asks of them, or are gone.
LEMMA RunsAsTheyWere ==
    ASSUME RecordInv,
           \A s \in Slots : run'[s].phase = "idle" \/
               /\ run'[s].phase = run[s].phase /\ run'[s].job = run[s].job
               /\ run'[s].result = run[s].result,
           \A j \in Jobs : /\ job[j].state = "completed" <=> job'[j].state = "completed"
                           /\ job'[j].result = job[j].result,
           \A j \in Jobs : /\ review'[j].state = review[j].state
                           /\ review'[j].late => review[j].late \/ review[j].state = "due"
                           /\ \/ review'[j].call = "no"
                              \/ review'[j].call = review[j].call /\ review'[j].seen = review[j].seen,
           UNCHANGED <<newest, overtaken, pairs>>
    PROVE  PairInv'
<1>1. \A t \in Slots, j \in Jobs : Holds(t, j)' => Holds(t, j) /\ run'[t].phase = run[t].phase
                                               /\ run'[t].result = run[t].result
  BY DEF Holds, Busy
<1>2. ASSUME NEW j \in Jobs PROVE (Reviewable(j) /\ Recorded(j))'
  BY DEF RecordInv, PairInv, Reviewable, Recorded
<1>3. ASSUME NEW j \in Jobs, j \notin overtaken' PROVE Alone(j)'
  <2>1. Alone(j) BY <1>3 DEF RecordInv, PairInv
  <2>2. Single(j)' BY <1>1, <2>1 DEF Alone, Single
  <2>3. Written(j)' BY <1>1, <2>1 DEF Alone, Written
  <2>4. Settled(j)' BY <1>1, <2>1 DEF Alone, Settled
  <2>5. Seen(j)' BY <2>1 DEF Alone, Seen
  <2>6. Beside(j)' BY <2>1 DEF Alone, Beside
  <2>7. QED BY <2>2, <2>3, <2>4, <2>5, <2>6 DEF Alone
<1>4. QED BY <1>2, <1>3 DEF PairInv

\* One review goes on, with a pair or without.
LEMMA ReviewGoesOn ==
    ASSUME RecordInv, NEW j \in Jobs, NEW v \in Reviews,
           review' = [review EXCEPT ![j] = v],
           UNCHANGED <<job, run, newest, overtaken>>,
           NEW new \in SUBSET [job : {j}, llm : Results], pairs' = pairs \cup new,
           v.state # "none", job[j].state = "completed",
           v.call = "reporting" \/ v.state = "done" => \E p \in pairs' : p.job = j,
           j \notin overtaken =>
               /\ v.call = "writing" => v.seen = job[j].result
               /\ \A p \in new : p.llm = job[j].result
    PROVE  PairInv' /\ review' \in [Jobs -> Reviews] /\ pairs' \subseteq [job : Jobs, llm : Results]
<1>1. /\ review' \in [Jobs -> Reviews] /\ review'[j] = v
      /\ \A k \in Jobs : k # j => review'[k] = review[k]
  BY DEF RecordInv, ReviewTypeOK
<1>2. /\ \A p \in new : p.job = j
      /\ new \subseteq [job : Jobs, llm : Results]
  OBVIOUS
<1>3. pairs' \subseteq [job : Jobs, llm : Results] BY <1>2 DEF RecordInv, ReviewTypeOK
<1>4. ASSUME NEW k \in Jobs PROVE (Reviewable(k) /\ Recorded(k))'
  <2>1. CASE k = j BY <1>1, <2>1 DEF Reviewable, Recorded
  <2>2. CASE k # j
    <3>1. review'[k] = review[k] /\ Reviewable(k) /\ Recorded(k)
      BY <1>1, <2>2 DEF RecordInv, PairInv
    <3>2. QED BY <1>2, <2>2, <3>1 DEF Reviewable, Recorded
  <2>3. QED BY <2>1, <2>2
<1>5. ASSUME NEW k \in Jobs, k \notin overtaken' PROVE Alone(k)'
  <2>1. Alone(k) BY <1>5 DEF RecordInv, PairInv
  <2>2. (Single(k) /\ Written(k) /\ Settled(k))'
    BY <2>1 DEF Alone, Single, Written, Settled, Holds, Busy
  <2>3. Seen(k)' BY <1>1, <1>5, <2>1 DEF Alone, Seen
  <2>4. Beside(k)' BY <1>2, <1>5, <2>1 DEF Alone, Beside
  <2>5. QED BY <2>2, <2>3, <2>4 DEF Alone
<1>6. QED BY <1>1, <1>3, <1>4, <1>5 DEF PairInv

-----------------------------------------------------------------------------
(* The classification.                                                     *)

LEMMA RunJob ==
    ASSUME RecordInv, NEW s \in Slots, Busy(s)
    PROVE  run[s] \in Runs /\ run[s].job \in Jobs /\ run[s].result \in Results
<1>1. run[s] \in Runs BY DEF RecordInv, ReviewTypeOK, TypeOK
<1>2. run[s].job \in Jobs BY DEF RecordInv, LlmInv, RunsOK, RunOK, Busy
<1>3. QED BY <1>1, <1>2 DEF Runs

\* Up to the row nothing is known of the run.
LEMMA ModelPairs ==
    ASSUME RecordInv, NEW s \in Slots, UNCHANGED reviewVars,
           \/ Begin(s) \/ Answered(s) \/ Invalid(s) \/ Unavailable(s) \/ Rejected(s)
           \/ WriteFails(s)
    PROVE  PairInv'
<1>1. UNCHANGED job /\ Busy(s)
  BY DEF Begin, Answered, Invalid, Unavailable, Rejected, WriteFails, Waiting, Writing, Busy
<1>2. run \in [Slots -> Runs] /\ run[s] \in Runs BY DEF RecordInv, ReviewTypeOK, TypeOK
<1>3. ASSUME NEW phase \in {"first", "second"}, NEW left, Goes(s, phase, left) PROVE PairInv'
  <2> DEFINE r == [run[s] EXCEPT !.phase = phase, !.left = left]
  <2>1. run' = [run EXCEPT ![s] = r] BY <1>2, <1>3 DEF Goes
  <2>2. r.job = run[s].job /\ r.phase # "complete" BY <1>2, <1>3 DEF Runs
  <2>3. QED BY <1>1, <2>1, <2>2, RunKept
<1>4. ASSUME NEW result, Writes(s, result) PROVE PairInv'
  <2> DEFINE r == [run[s] EXCEPT !.phase = "write", !.left = 0, !.result = result]
  <2>1. run' = [run EXCEPT ![s] = r] BY <1>2, <1>4 DEF Writes
  <2>2. r.job = run[s].job /\ r.phase # "complete" BY <1>2 DEF Runs
  <2>3. QED BY <1>1, <2>1, <2>2, RunKept
<1>5. ASSUME Raises(s) PROVE PairInv'
  <2> DEFINE r == [Idle EXCEPT !.phase = "fail", !.job = run[s].job,
                               !.retries = RetriesLeft(run[s].retries)]
  <2>1. run' = [run EXCEPT ![s] = r] BY <1>5 DEF Raises
  <2>2. r.job = run[s].job /\ r.phase # "complete" BY DEF Idle
  <2>3. QED BY <1>1, <2>1, <2>2, RunKept
<1>6. CASE Begin(s) BY <1>3, <1>6 DEF Begin
<1>7. CASE Answered(s) BY <1>4, <1>7 DEF Answered
<1>8. CASE Invalid(s) BY <1>3, <1>4, <1>8 DEF Invalid
<1>9. CASE Unavailable(s) BY <1>4, <1>9 DEF Unavailable
<1>10. CASE Rejected(s) BY <1>5, <1>10 DEF Rejected
<1>11. CASE WriteFails(s) BY <1>5, <1>11 DEF WriteFails
<1>12. QED BY <1>6, <1>7, <1>8, <1>9, <1>10, <1>11

\* The newest row becomes that of the one run the job has.
LEMMA RowPairs ==
    ASSUME RecordInv, NEW s \in Slots, Write(s), NewRow(s), UNCHANGED <<overtaken, review, pairs>>
    PROVE  PairInv' /\ newest' \in [Jobs -> Results]
<1>1. Busy(s) BY DEF Write, Writing, Busy
<1>2. PICK i \in Jobs : i = run[s].job BY <1>1, RunJob
<1>3. run[s].result \in Results BY <1>1, RunJob
<1>4. newest' = [newest EXCEPT ![i] = run[s].result] BY <1>2 DEF NewRow
<1>5. /\ newest' \in [Jobs -> Results] /\ newest'[i] = run[s].result
      /\ \A j \in Jobs : j # i => newest'[j] = newest[j]
  BY <1>3, <1>4 DEF RecordInv, ReviewTypeOK
<1>6. /\ UNCHANGED job /\ run'[s].job = i /\ run'[s].result = run[s].result
      /\ \A t \in Slots : t # s => run'[t] = run[t]
  <2>1. run \in [Slots -> Runs] BY DEF RecordInv, ReviewTypeOK, TypeOK
  <2>2. run' = [run EXCEPT ![s] = [run[s] EXCEPT !.phase = "complete"]]
    BY <2>1 DEF Write, Returns
  <2>3. QED BY <1>2, <2>1, <2>2 DEF Write, Runs
<1>7. \A t \in Slots, j \in Jobs : Holds(t, j)' => Holds(t, j)
  BY <1>1, <1>2, <1>6 DEF Holds, Busy
<1>8. Holds(s, i) BY <1>1, <1>2 DEF Holds
<1>9. ASSUME NEW j \in Jobs PROVE (Reviewable(j) /\ Recorded(j))'
  BY <1>6 DEF RecordInv, PairInv, Reviewable, Recorded
<1>10. ASSUME NEW j \in Jobs, j \notin overtaken' PROVE Alone(j)'
  <2>1. Alone(j) BY <1>10 DEF RecordInv, PairInv
  <2>2. Single(j)' BY <1>7, <2>1 DEF Alone, Single
  <2>3. Written(j)'
    <3>1. SUFFICES ASSUME NEW t \in Slots, Holds(t, j)', run'[t].phase = "complete"
                   PROVE  newest'[j] = run'[t].result
      BY DEF Written
    <3>2. CASE t = s
      <4>1. j = i BY <1>6, <3>1, <3>2 DEF Holds
      <4>2. QED BY <1>5, <1>6, <3>2, <4>1
    <3>3. CASE t # s
      <4>1. Holds(t, j) /\ run'[t] = run[t] BY <1>6, <1>7, <3>1, <3>3
      <4>2. j # i BY <1>8, <2>1, <3>3, <4>1 DEF Alone, Single
      <4>3. newest[j] = run[t].result BY <2>1, <3>1, <4>1 DEF Alone, Written
      <4>4. QED BY <1>5, <4>1, <4>2, <4>3
    <3>4. QED BY <3>2, <3>3
  <2>4. Settled(j)'
    <3>1. job[j].state = "completed" => j # i BY <1>8, <2>1 DEF Alone, Settled
    <3>2. QED BY <1>5, <1>6, <1>7, <2>1, <3>1 DEF Alone, Settled
  <2>5. Seen(j)' /\ Beside(j)' BY <1>6, <2>1 DEF Alone, Seen, Beside
  <2>6. QED BY <2>2, <2>3, <2>4, <2>5 DEF Alone
<1>11. QED BY <1>5, <1>9, <1>10 DEF PairInv

\* What the engine hears is the newest row, and the last run of the job.
LEMMA ReportPairs ==
    ASSUME RecordInv, NEW s \in Slots, Report(s), UNCHANGED reviewVars PROVE PairInv'
<1>1. Busy(s) /\ run[s].phase \in {"complete", "fail"} BY DEF Report, Busy
<1>2. PICK i \in Jobs : i = run[s].job BY <1>1, RunJob
<1>3. /\ run'[s].phase = "idle"
      /\ \A t \in Slots : t # s => run'[t] = run[t]
  <2>1. run \in [Slots -> Runs] BY DEF RecordInv, ReviewTypeOK, TypeOK
  <2>2. run' = [run EXCEPT ![s] = Idle] BY DEF Report
  <2>3. QED BY <2>1, <2>2 DEF Idle
<1>4. \A t \in Slots, j \in Jobs : Holds(t, j)' => t # s /\ Holds(t, j) /\ run'[t] = run[t]
  BY <1>3 DEF Holds, Busy
<1>5. job \in [Jobs -> JobStates] BY DEF RecordInv, ReviewTypeOK, TypeOK
<1>6. \A j \in Jobs : j # i => job'[j] = job[j] BY <1>2, <1>5 DEF Report
<1>7. \/ job' = job
      \/ /\ job[i].state # "completed"
         /\ \/ job'[i].state # "completed"
            \/ run[s].phase = "complete" /\ job'[i].result = run[s].result
  <2>1. CASE job' = job BY <2>1
  <2>2. CASE job[i].state \in {"activatable", "activated"} /\ run[s].phase = "complete"
    <3>1. job' = [job EXCEPT ![i] = [job[i] EXCEPT !.state = "completed", !.lease = 0,
                                                   !.result = run[s].result]]
      BY <1>2, <2>2 DEF Report
    <3>2. job'[i].result = run[s].result BY <1>5, <3>1 DEF JobStates
    <3>3. QED BY <2>2, <3>2
  <2>3. CASE job[i].state \in {"activatable", "activated"} /\ run[s].phase # "complete"
    <3>1. job' = [job EXCEPT ![i] = [job[i] EXCEPT !.retries = run[s].retries, !.lease = 0,
                     !.state = IF run[s].retries = 0 THEN "incident" ELSE "activatable"]]
      BY <1>2, <2>3 DEF Report
    <3>2. job'[i].state # "completed" BY <1>5, <3>1 DEF JobStates
    <3>3. QED BY <2>3, <3>2
  <2>4. QED BY <1>2, <2>1, <2>2, <2>3 DEF Report
<1>8. \A j \in Jobs : job[j].state = "completed" => job'[j] = job[j]
  BY <1>6, <1>7
<1>9. ASSUME NEW j \in Jobs PROVE (Reviewable(j) /\ Recorded(j))'
  BY <1>8 DEF RecordInv, PairInv, Reviewable, Recorded, reviewVars
<1>10. ASSUME NEW j \in Jobs, j \notin overtaken' PROVE Alone(j)'
  <2>1. Alone(j) BY <1>10 DEF RecordInv, PairInv, reviewVars
  <2>2. Single(j)' BY <1>4, <2>1 DEF Alone, Single
  <2>3. Written(j)' BY <1>4, <2>1 DEF Alone, Written, reviewVars
  <2>4. Settled(j)'
    <3>1. CASE job'[j] = job[j] BY <1>4, <2>1, <3>1 DEF Alone, Settled, reviewVars
    <3>2. CASE job'[j] # job[j] /\ job'[j].state = "completed"
      <4>1. j = i /\ run[s].phase = "complete" /\ job'[i].result = run[s].result
        BY <1>6, <1>7, <3>2
      <4>2. Holds(s, i) BY <1>1, <1>2 DEF Holds
      <4>3. newest[j] = run[s].result BY <2>1, <4>1, <4>2 DEF Alone, Written
      <4>4. \A t \in Slots : ~Holds(t, j)' BY <1>4, <2>1, <4>1, <4>2 DEF Alone, Single
      <4>5. QED BY <4>1, <4>3, <4>4 DEF Settled, reviewVars
    <3>3. QED BY <3>1, <3>2 DEF Settled
  <2>5. job[j].state = "completed" \/ (review[j].state = "none" /\ review[j].call = "no")
    BY DEF RecordInv, PairInv, Reviewable
  <2>6. Seen(j)' BY <1>8, <2>1, <2>5 DEF Alone, Seen, reviewVars
  <2>7. Beside(j)'
    BY <1>8, <2>1, <2>5 DEF RecordInv, PairInv, Reviewable, Alone, Beside, reviewVars
  <2>8. QED BY <2>2, <2>3, <2>4, <2>6, <2>7 DEF Alone
<1>11. QED BY <1>9, <1>10 DEF PairInv

\* A second activation while a run of the job is held: the runs overlap.
LEMMA ActivatedPairs ==
    ASSUME RecordInv, NEW j \in Jobs, ClassifyActivated(j)
    PROVE  PairInv' /\ overtaken' \subseteq Jobs
<1>1. UNCHANGED <<newest, review, pairs>> BY DEF ClassifyActivated
<1>2. Activate(j) BY DEF ClassifyActivated
<1>3. PICK s \in Slots : s = (CHOOSE t \in Slots : ~Busy(t)) /\ ~Busy(s) BY <1>2 DEF Activate
<1>4. /\ run'[s].job = j /\ run'[s].phase = "held"
      /\ \A t \in Slots : t # s => run'[t] = run[t]
  <2>1. run \in [Slots -> Runs] BY DEF RecordInv, ReviewTypeOK, TypeOK
  <2>2. run' = [run EXCEPT ![s] = [Idle EXCEPT !.phase = "held", !.job = j,
                                              !.retries = job[j].retries]]
    BY <1>2, <1>3 DEF Activate
  <2>3. QED BY <2>1, <2>2 DEF Idle
<1>5. /\ job[j].state # "completed" /\ job'[j].state # "completed"
      /\ \A k \in Jobs : k # j => job'[k] = job[k]
  <2>1. job \in [Jobs -> JobStates] BY DEF RecordInv, ReviewTypeOK, TypeOK
  <2>2. QED BY <1>2, <2>1 DEF Activate, JobStates
<1>6. /\ overtaken \subseteq overtaken' /\ overtaken' \subseteq overtaken \cup {j}
      /\ j \notin overtaken' => \A t \in Slots : ~Holds(t, j)
  BY DEF ClassifyActivated, Holds
<1>7. ASSUME NEW k \in Jobs PROVE (Reviewable(k) /\ Recorded(k))'
  BY <1>1, <1>5 DEF RecordInv, PairInv, Reviewable, Recorded
<1>8. ASSUME NEW k \in Jobs, k \notin overtaken' PROVE Alone(k)'
  <2>1. Alone(k) BY <1>6, <1>8 DEF RecordInv, PairInv
  <2>2. CASE k = j
    <3>1. \A t \in Slots : Holds(t, j)' => t = s BY <1>4, <1>6, <1>8, <2>2 DEF Holds, Busy
    <3>2. review[j].state = "none" /\ review[j].call = "no" /\ \A p \in pairs : p.job # j
      BY <1>5 DEF RecordInv, PairInv, Reviewable
    <3>3. QED BY <1>1, <1>4, <1>5, <2>2, <3>1, <3>2
          DEF Alone, Single, Written, Settled, Seen, Beside
  <2>3. CASE k # j
    <3>1. \A t \in Slots : Holds(t, k)' => Holds(t, k) /\ run'[t] = run[t]
      BY <1>4, <2>3 DEF Holds, Busy
    <3>2. Single(k)' BY <2>1, <3>1 DEF Alone, Single
    <3>3. Written(k)' BY <1>1, <2>1, <3>1 DEF Alone, Written
    <3>4. (Settled(k) /\ Seen(k) /\ Beside(k))'
      BY <1>1, <1>5, <2>1, <2>3, <3>1 DEF Alone, Settled, Seen, Beside
    <3>5. QED BY <3>2, <3>3, <3>4 DEF Alone
  <2>4. QED BY <2>2, <2>3
<1>9. QED BY <1>6, <1>7, <1>8 DEF PairInv, RecordInv, ReviewTypeOK

-----------------------------------------------------------------------------
(* The rest of LlmWorker.                                                  *)

LEMMA OutsidePairs ==
    ASSUME RecordInv, NEW j \in Jobs, Outside(j) PROVE PairInv'
<1>1. UNCHANGED run /\ UNCHANGED reviewVars BY DEF Outside, JobTimesOut, Retry
<1>2. job \in [Jobs -> JobStates] BY DEF RecordInv, ReviewTypeOK, TypeOK
<1>3. /\ job[j].state # "completed" /\ job'[j].state # "completed"
      /\ job'[j].result = job[j].result
      /\ \A k \in Jobs : k # j => job'[k] = job[k]
  <2>1. CASE JobTimesOut(j)
    <3>1. job' = [job EXCEPT ![j] = [job[j] EXCEPT !.state = "activatable"]]
      BY <1>2, <2>1 DEF JobTimesOut
    <3>2. QED BY <1>2, <2>1, <3>1 DEF JobTimesOut, JobStates
  <2>2. CASE Retry(j)
    <3>1. job' = [job EXCEPT ![j] = [job[j] EXCEPT !.state = "activatable", !.retries = 1]]
      BY <1>2, <2>2 DEF Retry
    <3>2. QED BY <1>2, <2>2, <3>1 DEF Retry, JobStates
  <2>3. QED BY <2>1, <2>2 DEF Outside
<1>4. QED BY <1>1, <1>3, RunsAsTheyWere DEF reviewVars

LEMMA DatabasePairs == ASSUME RecordInv, Recovers \/ Disturbed PROVE PairInv'
<1>1. UNCHANGED <<job, run>> /\ UNCHANGED reviewVars
  BY DEF Recovers, Disturbed, DbBack, Start, DbStops, DbPauses
<1>2. QED BY <1>1, RunsAsTheyWere DEF reviewVars

\* A crash ends every run and every callback.
LEMMA CrashPairs ==
    ASSUME RecordInv, CrashInReview PROVE PairInv' /\ review' \in [Jobs -> Reviews]
<1>1. UNCHANGED <<job, newest, overtaken, pairs>> /\ run' = [s \in Slots |-> Idle]
  BY DEF CrashInReview, Crash
<1>2. ASSUME NEW j \in Jobs
      PROVE  /\ review'[j] \in Reviews /\ review'[j].state = review[j].state
             /\ review'[j].call = "no" /\ ~review'[j].late
  <2>1. review[j] \in Reviews /\ NoResult \in Results
    BY DEF RecordInv, ReviewTypeOK, NoResult, Results
  <2>2. review'[j] = [review[j] EXCEPT !.call = "no", !.late = FALSE, !.seen = NoResult]
    BY DEF CrashInReview
  <2>3. QED BY <2>1, <2>2 DEF Reviews
<1>3. review' \in [Jobs -> Reviews] BY <1>2 DEF CrashInReview
<1>4. \A s \in Slots : run'[s].phase = "idle" BY <1>1 DEF Idle
<1>5. PairInv' BY <1>1, <1>2, <1>4, RunsAsTheyWere
<1>6. QED BY <1>3, <1>5

\* Time makes a review late that is due, and no other.
LEMMA TimePairs ==
    ASSUME RecordInv, TimePasses PROVE PairInv' /\ review' \in [Jobs -> Reviews]
<1>1. Tick /\ UNCHANGED <<newest, overtaken, pairs>> BY DEF TimePasses
<1>2. ASSUME NEW j \in Jobs
      PROVE  /\ review'[j] \in Reviews /\ review'[j].state = review[j].state
             /\ review'[j].call = review[j].call /\ review'[j].seen = review[j].seen
             /\ review'[j].late => review[j].late \/ review[j].state = "due"
  <2>1. review[j] \in Reviews BY DEF RecordInv, ReviewTypeOK
  <2>2. review'[j] = [review[j] EXCEPT !.late = review[j].late \/ review[j].state = "due"]
    BY DEF TimePasses
  <2>3. (review[j].late \/ review[j].state = "due") \in BOOLEAN OBVIOUS
  <2>4. QED BY <2>1, <2>2, <2>3 DEF Reviews
<1>3. review' \in [Jobs -> Reviews] BY <1>2 DEF TimePasses
<1>4. \A j \in Jobs : job'[j].state = job[j].state /\ job'[j].result = job[j].result
  <2>1. job \in [Jobs -> JobStates] BY DEF RecordInv, ReviewTypeOK, TypeOK
  <2>2. \A j \in Jobs : job'[j] = [job[j] EXCEPT !.lease = Less(job[j].lease)]
    BY <1>1 DEF Tick
  <2>3. QED BY <2>1, <2>2 DEF JobStates
<1>5. \A s \in Slots : /\ run'[s].phase = run[s].phase /\ run'[s].job = run[s].job
                       /\ run'[s].result = run[s].result
  <2>1. run \in [Slots -> Runs] BY DEF RecordInv, ReviewTypeOK, TypeOK
  <2>2. CASE run' = run BY <2>2
  <2>3. CASE run' = [run EXCEPT ![loop].left = Less(@)] BY <2>1, <2>3 DEF Runs
  <2>4. QED BY <1>1, <2>2, <2>3 DEF Tick
<1>6. PairInv' BY <1>1, <1>2, <1>4, <1>5, RunsAsTheyWere
<1>7. QED BY <1>3, <1>6

-----------------------------------------------------------------------------
(* The record.                                                             *)

\* The person, the callback up to its first statement, its report and its
\* failure, and the retry: no pair is new.
LEMMA NoNewPair ==
    ASSUME RecordInv, NEW j \in Jobs,
           PersonReviews(j) \/ RecordTurn(j) \/ RecordRetried(j) \/ RecordFails(j)
    PROVE  PairInv' /\ review' \in [Jobs -> Reviews]
<1>1. UNCHANGED <<job, run, newest, overtaken, pairs>>
  BY DEF PersonReviews, RecordTurn, RecordBegins, RecordReports, RecordRetried, RecordFails, vars
<1>2. /\ review \in [Jobs -> Reviews] /\ review[j] \in Reviews /\ NoResult \in Results
      /\ 1 \in 0 .. MaxRetries
  BY LlmAssumption DEF RecordInv, ReviewTypeOK, NoResult, Results
<1>3. Reviewable(j) /\ Recorded(j) /\ (j \notin overtaken => Seen(j))
  BY DEF RecordInv, PairInv, Alone
<1>4. PICK v \in Reviews :
        /\ review' = [review EXCEPT ![j] = v]
        /\ v.state # "none" /\ job[j].state = "completed"
        /\ v.call = "reporting" \/ v.state = "done" => \E p \in pairs : p.job = j
        /\ v.call = "writing" => review[j].call = "writing" /\ v.seen = review[j].seen
  <2>1. CASE PersonReviews(j)
    <3> DEFINE v == [review[j] EXCEPT !.state = "due"]
    <3>1. review' = [review EXCEPT ![j] = v] BY <1>2, <2>1 DEF PersonReviews
    <3>2. v \in Reviews /\ v.state = "due" /\ v.call = review[j].call BY <1>2 DEF Reviews
    <3>3. job[j].state = "completed" /\ v.call = "no"
      BY <1>3, <2>1, <3>2 DEF PersonReviews, Reviewable
    <3>4. QED BY <3>1, <3>2, <3>3
  <2>2. CASE RecordBegins(j)
    <3> DEFINE v == [review[j] EXCEPT !.call = "reading",
                                      !.late = review[j].late /\ review[j].state = "due"]
    <3>1. review' = [review EXCEPT ![j] = v] BY <1>2, <2>2 DEF RecordBegins
    <3>2. (review[j].late /\ review[j].state = "due") \in BOOLEAN OBVIOUS
    <3>3. v \in Reviews /\ v.state = review[j].state /\ v.call = "reading"
      BY <1>2, <3>2 DEF Reviews
    <3>4. review[j].state # "none" BY <1>3, <2>2 DEF RecordBegins, Reviewable
    <3>5. QED BY <1>3, <3>1, <3>3, <3>4 DEF Reviewable, Recorded
  <2>3. CASE RecordReports(j)
    <3> DEFINE v == [review[j] EXCEPT !.call = "no", !.seen = NoResult,
                         !.state = IF review[j].state = "due" THEN "done" ELSE review[j].state]
    <3>1. review' = [review EXCEPT ![j] = v] BY <1>2, <2>3 DEF RecordReports
    <3>2. v \in Reviews /\ v.call = "no" /\ (v.state = "done" \/ v.state = review[j].state)
      BY <1>2 DEF Reviews
    <3>3. review[j].call = "reporting" BY <2>3 DEF RecordReports
    <3>4. QED BY <1>3, <3>1, <3>2, <3>3 DEF Reviewable, Recorded
  <2>4. CASE RecordRetried(j)
    <3> DEFINE v == [review[j] EXCEPT !.state = "due", !.retries = 1]
    <3>1. review' = [review EXCEPT ![j] = v] BY <1>2, <2>4 DEF RecordRetried
    <3>2. /\ v \in Reviews /\ v.state = "due" /\ v.call = review[j].call
          /\ v.seen = review[j].seen
      BY <1>2 DEF Reviews
    <3>3. review[j].state = "incident" BY <2>4 DEF RecordRetried
    <3>4. QED BY <1>3, <3>1, <3>2, <3>3 DEF Reviewable, Recorded
  <2>5. CASE RecordFails(j)
    <3> DEFINE left   == RetriesLeft(review[j].retries)
               failed == [review[j] EXCEPT !.call = "no", !.seen = NoResult, !.retries = left,
                              !.state = IF left = 0 THEN "incident" ELSE "due"]
               over   == [review[j] EXCEPT !.call = "no", !.seen = NoResult]
    <3>1. left \in 0 .. MaxRetries BY <1>2, RetriesType DEF Reviews
    <3>2. failed \in Reviews /\ failed.call = "no" /\ failed.state \in {"incident", "due"}
      BY <1>2, <3>1 DEF Reviews
    <3>3. over \in Reviews /\ over.call = "no" /\ over.state = review[j].state
      BY <1>2 DEF Reviews
    <3>4. review[j].state # "none" BY <1>3, <2>5 DEF RecordFails, InCallback, Reviewable
    <3>5. CASE review' = [review EXCEPT ![j] = failed]
      BY <1>3, <3>2, <3>4, <3>5 DEF Reviewable
    <3>6. CASE review' = [review EXCEPT ![j] = over]
      BY <1>3, <3>3, <3>4, <3>6 DEF Reviewable, Recorded
    <3>7. QED BY <1>2, <2>5, <3>5, <3>6 DEF RecordFails, RecordRaises
  <2>6. QED BY <2>1, <2>2, <2>3, <2>4, <2>5 DEF RecordTurn
<1>5. pairs' = pairs \cup {} /\ {} \in SUBSET [job : {j}, llm : Results] BY <1>1
<1>6. j \notin overtaken => (v.call = "writing" => v.seen = job[j].result)
  BY <1>3, <1>4 DEF Seen
<1>7. QED BY <1>1, <1>4, <1>5, <1>6, ReviewGoesOn

\* The newest row of a completed job is what the process got.
LEMMA ReadPairs ==
    ASSUME RecordInv, NEW j \in Jobs, RecordReads(j)
    PROVE  PairInv' /\ review' \in [Jobs -> Reviews]
<1>1. /\ UNCHANGED <<job, run, newest, overtaken, pairs>> /\ review[j].call = "reading"
      /\ review' = [review EXCEPT ![j].call = "writing", ![j].seen = newest[j]]
  BY DEF RecordReads, Executes
<1>2. review \in [Jobs -> Reviews] /\ review[j] \in Reviews /\ newest[j] \in Results
  BY DEF RecordInv, ReviewTypeOK
<1>3. Reviewable(j) /\ Recorded(j) /\ (j \notin overtaken => Settled(j))
  BY DEF RecordInv, PairInv, Alone
<1>4. PICK v \in Reviews : /\ review' = [review EXCEPT ![j] = v]
                          /\ v.call = "writing" /\ v.seen = newest[j]
                          /\ v.state = review[j].state
  <2> DEFINE v == [review[j] EXCEPT !.call = "writing", !.seen = newest[j]]
  <2>1. review' = [review EXCEPT ![j] = v] BY <1>1, <1>2
  <2>2. v \in Reviews /\ v.call = "writing" /\ v.seen = newest[j] /\ v.state = review[j].state
    BY <1>2 DEF Reviews
  <2>3. QED BY <2>1, <2>2
<1>5. v.state # "none" /\ job[j].state = "completed" BY <1>1, <1>3, <1>4 DEF Reviewable
<1>6. v.state = "done" => \E p \in pairs : p.job = j BY <1>3, <1>4 DEF Recorded
<1>7. j \notin overtaken => v.seen = job[j].result BY <1>3, <1>4, <1>5 DEF Settled
<1>8. pairs' = pairs \cup {} /\ {} \in SUBSET [job : {j}, llm : Results] BY <1>1
<1>9. QED BY <1>1, <1>4, <1>5, <1>6, <1>7, <1>8, ReviewGoesOn

\* What was read is paired, also when the engine hears of it too late.
LEMMA WritePairs ==
    ASSUME RecordInv, NEW j \in Jobs, RecordWrites(j)
    PROVE  /\ PairInv' /\ review' \in [Jobs -> Reviews]
           /\ pairs' \subseteq [job : Jobs, llm : Results]
<1>1. /\ UNCHANGED <<job, run, newest, overtaken>> /\ review[j].call = "writing"
      /\ review' = [review EXCEPT ![j].call = "reporting"]
      /\ pairs' = pairs \cup {[job |-> j, llm |-> review[j].seen]}
  BY DEF RecordWrites, Executes, Calls
<1>2. review \in [Jobs -> Reviews] /\ review[j] \in Reviews /\ review[j].seen \in Results
  BY DEF RecordInv, ReviewTypeOK, Reviews
<1>3. Reviewable(j) /\ (j \notin overtaken => Seen(j)) BY DEF RecordInv, PairInv, Alone
<1>4. PICK v \in Reviews : /\ review' = [review EXCEPT ![j] = v]
                          /\ v.call = "reporting" /\ v.state = review[j].state
  <2> DEFINE v == [review[j] EXCEPT !.call = "reporting"]
  <2>1. review' = [review EXCEPT ![j] = v] BY <1>1, <1>2
  <2>2. v \in Reviews /\ v.call = "reporting" /\ v.state = review[j].state BY <1>2 DEF Reviews
  <2>3. QED BY <2>1, <2>2
<1>5. v.state # "none" /\ job[j].state = "completed" BY <1>1, <1>3, <1>4 DEF Reviewable
<1>6. PICK new : new = {[job |-> j, llm |-> review[j].seen]} OBVIOUS
<1>7. /\ new \in SUBSET [job : {j}, llm : Results] /\ pairs' = pairs \cup new
      /\ \E p \in pairs' : p.job = j
  <2>1. [job |-> j, llm |-> review[j].seen] \in [job : {j}, llm : Results] BY <1>2
  <2>2. pairs' = pairs \cup new BY <1>1, <1>6
  <2>3. \E p \in new : p.job = j BY <1>6
  <2>4. QED BY <1>6, <2>1, <2>2, <2>3
<1>8. j \notin overtaken => \A p \in new : p.llm = job[j].result
  BY <1>1, <1>3, <1>6 DEF Seen
<1>9. /\ v.call = "reporting" \/ v.state = "done" => \E p \in pairs' : p.job = j
      /\ j \notin overtaken => (v.call = "writing" => v.seen = job[j].result)
  BY <1>4, <1>7
<1>10. QED BY <1>1, <1>4, <1>5, <1>7, <1>8, <1>9, ReviewGoesOn

-----------------------------------------------------------------------------
(* The theorems.                                                           *)

LEMMA ReviewInitially == ASSUME ReviewInit PROVE RecordInv
<1>1. TypeOK /\ LlmInv BY Initially DEF ReviewInit
<1>2. NoResult \in Results BY DEF NoResult, Results
<1>3. NoReview \in Reviews /\ NoReview.state = "none" /\ NoReview.call = "no" /\ ~NoReview.late
  BY <1>2, LlmAssumption DEF NoReview, Reviews
<1>4. ReviewTypeOK BY <1>1, <1>2, <1>3 DEF ReviewInit, ReviewTypeOK
<1>5. \A j \in Jobs : job[j].state = "activatable" BY DEF ReviewInit, Init
<1>6. \A s \in Slots, j \in Jobs : ~Holds(s, j) BY DEF ReviewInit, Init, Holds, Busy, Idle
<1>7. ASSUME NEW j \in Jobs PROVE Reviewable(j) /\ Recorded(j) /\ Alone(j)
  <2>1. review[j] = NoReview /\ pairs = {} BY DEF ReviewInit
  <2>2. QED BY <1>3, <1>5, <1>6, <2>1
        DEF Reviewable, Recorded, Alone, Single, Written, Settled, Seen, Beside
<1>8. QED BY <1>1, <1>4, <1>7 DEF RecordInv, PairInv

LEMMA ReviewStepwise == ASSUME RecordInv, [ReviewNext]_allVars PROVE RecordInv'
<1>1. TypeOK' /\ LlmInv' BY WorkerStep DEF RecordInv, ReviewTypeOK
<1> DEFINE Kept == /\ PairInv' /\ review' \in [Jobs -> Reviews] /\ newest' \in [Jobs -> Results]
                   /\ overtaken' \subseteq Jobs /\ pairs' \subseteq [job : Jobs, llm : Results]
<1>2. SUFFICES Kept BY <1>1 DEF RecordInv, ReviewTypeOK
<1>3. /\ review \in [Jobs -> Reviews] /\ newest \in [Jobs -> Results]
      /\ overtaken \subseteq Jobs /\ pairs \subseteq [job : Jobs, llm : Results]
  BY DEF RecordInv, ReviewTypeOK
<1>4. CASE UNCHANGED allVars
  <2>1. UNCHANGED <<job, run>> /\ UNCHANGED reviewVars BY <1>4 DEF allVars, vars
  <2>2. PairInv' BY <2>1, RunsAsTheyWere DEF reviewVars
  <2>3. QED BY <1>3, <2>1, <2>2 DEF reviewVars
<1>5. ASSUME NEW s \in Slots, ClassifyTurn(s) \/ ClassifyCalls(s) PROVE Kept
  <2>1. CASE Write(s) /\ NewRow(s) /\ UNCHANGED <<overtaken, review, pairs>>
    BY <1>3, <2>1, RowPairs
  <2>2. CASE Report(s) /\ UNCHANGED reviewVars BY <1>3, <2>2, ReportPairs DEF reviewVars
  <2>3. CASE /\ UNCHANGED reviewVars
             /\ \/ Begin(s) \/ Answered(s) \/ Invalid(s) \/ Unavailable(s) \/ Rejected(s)
                \/ WriteFails(s)
    BY <1>3, <2>3, ModelPairs DEF reviewVars
  <2>4. QED BY <1>5, <2>1, <2>2, <2>3 DEF ClassifyTurn, ClassifyCalls
<1>6. ASSUME NEW j \in Jobs, ClassifyActivated(j) PROVE Kept
  BY <1>3, <1>6, ActivatedPairs DEF ClassifyActivated
<1>7. ASSUME NEW j \in Jobs, Outside(j) PROVE Kept
  BY <1>3, <1>7, OutsidePairs DEF Outside, reviewVars
<1>8. ASSUME NEW j \in Jobs, RecordTurn(j) \/ RecordStep(j) PROVE Kept
  <2>1. CASE PersonReviews(j) \/ RecordTurn(j) \/ RecordRetried(j) \/ RecordFails(j)
    <3>1. UNCHANGED <<newest, overtaken, pairs>>
      BY <2>1 DEF PersonReviews, RecordTurn, RecordBegins, RecordReports, RecordRetried, RecordFails
    <3>2. QED BY <1>3, <2>1, <3>1, NoNewPair
  <2>2. CASE RecordReads(j) BY <1>3, <2>2, ReadPairs DEF RecordReads
  <2>3. CASE RecordWrites(j) BY <1>3, <2>3, WritePairs DEF RecordWrites
  <2>4. QED BY <1>8, <2>1, <2>2, <2>3 DEF RecordStep
<1>9. CASE Recovers \/ Disturbed
  BY <1>3, <1>9, DatabasePairs DEF Recovers, Disturbed, reviewVars
<1>10. CASE CrashInReview BY <1>3, <1>10, CrashPairs DEF CrashInReview
<1>11. CASE TimePasses BY <1>3, <1>11, TimePairs DEF TimePasses
<1>12. QED BY <1>4, <1>5, <1>6, <1>7, <1>8, <1>9, <1>10, <1>11 DEF ReviewNext

LEMMA ReviewInductive == ReviewSpec => []RecordInv
<1>1. ReviewInit => RecordInv BY ReviewInitially
<1>2. RecordInv /\ [ReviewNext]_allVars => RecordInv' BY ReviewStepwise
<1>3. QED BY <1>1, <1>2, PTL DEF ReviewSpec

\* Every reachable state of the worker, of the reviews and of their rows is of
\* its type.
THEOREM ReviewTypeCorrect == ReviewSpec => []ReviewTypeOK
<1>1. RecordInv => ReviewTypeOK BY DEF RecordInv
<1>2. QED BY <1>1, ReviewInductive, PTL

\* A review that is done has its row, beside the result the process got unless
\* two runs of the classification overlapped: whatever was retried, lost, or
\* written by an attempt that no longer counted.
THEOREM ReviewsArePaired == ReviewSpec => []ReviewIsPaired
<1>1. RecordInv => ReviewIsPaired
  BY DEF RecordInv, PairInv, Recorded, Alone, Beside, ReviewIsPaired
<1>2. QED BY <1>1, ReviewInductive, PTL

\* With the record beside it the worker still completes no job that the audit
\* does not hold, and takes no rejection for an outage, nor an outage for an error
\* of ours.
THEOREM WorkerSafeWithReviews == ReviewSpec => [](CompletedIsAudited /\ RejectionIsNoOutage)
<1>1. RecordInv => CompletedIsAudited /\ RejectionIsNoOutage
  BY DEF RecordInv, LlmInv, JobsOK, JobOK, RowsOK, Audited, Served, Undisturbed,
     CompletedIsAudited, RejectionIsNoOutage
<1>2. QED BY <1>1, ReviewInductive, PTL
=============================================================================
