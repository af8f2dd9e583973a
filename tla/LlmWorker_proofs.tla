-------------------------- MODULE LlmWorker_proofs --------------------------
(***************************************************************************)
(* Safety of LlmWorker for any jobs, slots, times, retries and faults.     *)
(*                                                                         *)
(* A run carries the result it will report, and from its row on the rows   *)
(* hold that result for good.  So it does not matter which of several runs *)
(* of a job the engine hears first: whichever it is has been audited.      *)
(***************************************************************************)
EXTENDS LlmWorker, TLAPS

-----------------------------------------------------------------------------
(* The inductive invariant.                                                *)

\* The provider does more than reject.
Served == provider # {"rejects"}
Audited(j, result) == [job |-> j, result |-> result] \in rows

RunOK(r) ==
    /\ r.phase # "idle" => r.job \in Jobs
    /\ r.phase \in {"write", "complete"} => Served
    /\ r.phase = "complete" => Audited(r.job, r.result)
JobOK(j) == job[j].state = "completed" => Served /\ Audited(j, job[j].result)

RunsOK == \A s \in Slots : RunOK(run[s])
JobsOK == \A j \in Jobs : JobOK(j)
RowsOK == rows # {} => Served

\* With no rejection and nothing broken, nothing fails a job.
Undisturbed ==
    "rejects" \notin provider /\ faults = 0 =>
        /\ db = "up" /\ conn = "open"
        /\ \A s \in Slots :
               /\ run[s].phase # "fail"
               /\ run[s].phase # "idle" => run[s].retries = MaxRetries
        /\ \A j \in Jobs : job[j].state # "incident" /\ job[j].retries = MaxRetries

LlmInv == RunsOK /\ JobsOK /\ RowsOK /\ Undisturbed

-----------------------------------------------------------------------------
(* Types.                                                                  *)

LEMMA ResultTypes ==
    ASSUME NEW j, NEW answer \in Answers
    PROVE  Result(j, answer) \in Results /\ Fallback(j) \in Results /\ NoResult \in Results
<1>1. NeedsReview(answer) \in BOOLEAN BY DEF NeedsReview
<1>2. QED BY <1>1 DEF Result, Fallback, NoResult, Results

LEMMA FallbackType == ASSUME NEW j PROVE Fallback(j) \in Results
BY DEF Fallback, Results

LEMMA IdleType == Idle \in Runs /\ Idle.phase = "idle"
<1>1. NoResult \in Results BY DEF NoResult, Results
<1>2. QED BY <1>1, LlmAssumption DEF Idle, Runs

LEMMA RetriesType ==
    ASSUME NEW n \in 0 .. MaxRetries PROVE RetriesLeft(n) \in 0 .. MaxRetries
BY LlmAssumption DEF RetriesLeft

LEMMA CallTimeType ==
    ASSUME TypeOK, NEW j \in Jobs PROVE CallTime[TypeOf[j]] \in Nat /\ JobTimeout[TypeOf[j]] \in Nat
<1>1. TypeOf[j] \in Types BY LlmAssumption
<1>2. QED BY <1>1, LlmAssumption

LEMMA FaultType == ASSUME TypeOK, Fault PROVE faults' \in 0 .. MaxFaults /\ faults' # 0
BY LlmAssumption DEF TypeOK, Fault

-----------------------------------------------------------------------------
(* What the steps have in common.                                          *)

\* One run goes on; the rows do not shrink.
LEMMA RunGoesOn ==
    ASSUME TypeOK, RunsOK, NEW s \in Slots, NEW r \in Runs, run' = [run EXCEPT ![s] = r],
           RunOK(r)', rows \subseteq rows', UNCHANGED provider
    PROVE  RunsOK' /\ run' \in [Slots -> Runs] /\ run'[s] = r
           /\ \A t \in Slots : t # s => run'[t] = run[t]
<1>1. /\ run' \in [Slots -> Runs] /\ run'[s] = r
      /\ \A t \in Slots : t # s => run'[t] = run[t]
  BY DEF TypeOK
<1>2. ASSUME NEW t \in Slots PROVE RunOK(run[t])'
  <2>1. CASE t = s BY <1>1, <2>1
  <2>2. CASE t # s
    <3>1. run'[t] = run[t] BY <1>1, <2>2
    <3>2. RunOK(run[t]) BY DEF RunsOK
    <3>3. QED BY <3>1, <3>2 DEF RunOK, Audited, Served
  <2>3. QED BY <2>1, <2>2
<1>3. QED BY <1>1, <1>2 DEF RunsOK

LEMMA RunsStill ==
    ASSUME RunsOK, UNCHANGED <<provider, run>>, rows \subseteq rows' PROVE RunsOK'
BY DEF RunsOK, RunOK, Audited, Served

LEMMA JobsStill ==
    ASSUME JobsOK, UNCHANGED <<provider, job>>, rows \subseteq rows' PROVE JobsOK'
BY DEF JobsOK, JobOK, Audited, Served

LEMMA RowsStill == ASSUME RowsOK, UNCHANGED <<provider, rows>> PROVE RowsOK'
BY DEF RowsOK, Served

\* One job changes, and is not completed by it, or as it should be.
LEMMA JobGoesOn ==
    ASSUME TypeOK, JobsOK, NEW j \in Jobs, NEW b \in JobStates, job' = [job EXCEPT ![j] = b],
           rows \subseteq rows', UNCHANGED provider,
           b.state = "completed" => Served /\ Audited(j, b.result)'
    PROVE  JobsOK' /\ job' \in [Jobs -> JobStates] /\ job'[j] = b
           /\ \A k \in Jobs : k # j => job'[k] = job[k]
<1>1. /\ job' \in [Jobs -> JobStates] /\ job'[j] = b
      /\ \A k \in Jobs : k # j => job'[k] = job[k]
  BY DEF TypeOK
<1>2. ASSUME NEW k \in Jobs PROVE JobOK(k)'
  <2>1. CASE k = j BY <1>1, <2>1 DEF JobOK, Served
  <2>2. CASE k # j
    <3>1. job'[k] = job[k] /\ JobOK(k) BY <1>1, <2>2 DEF JobsOK
    <3>2. QED BY <3>1 DEF JobOK, Served, Audited
  <2>3. QED BY <2>1, <2>2
<1>3. QED BY <1>1, <1>2 DEF JobsOK

\* A step of the callback that gives the run another phase, and fails it only
\* when something is disturbed.
LEMMA CallbackStep ==
    ASSUME TypeOK, LlmInv, NEW s \in Slots, NEW r \in Runs,
           run' = [run EXCEPT ![s] = r], RunOK(r)',
           UNCHANGED <<provider, job, worker, db, faults>>,
           rows' \subseteq [job : Jobs, result : Results], rows \subseteq rows',
           rows' = rows \/ Served,
           loop' \in Slots \cup {None}, conn' \in {"open", "stale", "closed"},
           "rejects" \notin provider /\ faults = 0 =>
               conn' = "open" /\ r.phase # "fail" /\ (r.phase # "idle" => r.retries = MaxRetries)
    PROVE  TypeOK' /\ LlmInv'
<1>1. /\ RunsOK' /\ run' \in [Slots -> Runs] /\ run'[s] = r
      /\ \A t \in Slots : t # s => run'[t] = run[t]
  BY RunGoesOn DEF LlmInv
<1>2. JobsOK' BY JobsStill DEF LlmInv
<1>3. Undisturbed' BY <1>1 DEF LlmInv, Undisturbed
<1>4. TypeOK' BY <1>1 DEF TypeOK
<1>5. RowsOK' BY DEF LlmInv, RowsOK, Served
<1>6. QED BY <1>1, <1>2, <1>3, <1>4, <1>5 DEF LlmInv

\* An exception in the callback, where something is disturbed.
LEMMA RaisesStep ==
    ASSUME TypeOK, LlmInv, NEW s \in Slots, run[s].phase # "idle", Raises(s),
           ~("rejects" \notin provider /\ faults = 0),
           conn' \in {"open", "stale", "closed"},
           UNCHANGED <<provider, job, worker, db, rows, faults>>
    PROVE  TypeOK' /\ LlmInv'
<1>1. run[s] \in Runs /\ RunOK(run[s]) BY DEF TypeOK, LlmInv, RunsOK
<1>2. run[s].job \in Jobs BY <1>1 DEF RunOK
<1>3. RetriesLeft(run[s].retries) \in 0 .. MaxRetries BY <1>1, RetriesType DEF Runs
<1>4. PICK r \in Runs : /\ r.phase = "fail" /\ r.job \in Jobs
                        /\ run' = [run EXCEPT ![s] = r]
  <2> DEFINE r == [Idle EXCEPT !.phase = "fail", !.job = run[s].job,
                               !.retries = RetriesLeft(run[s].retries)]
  <2>1. Idle \in Runs BY IdleType
  <2>2. r \in Runs /\ r.phase = "fail" /\ r.job \in Jobs BY <1>2, <1>3, <2>1 DEF Runs
  <2>3. run' = [run EXCEPT ![s] = r] BY DEF Raises
  <2>4. QED BY <2>2, <2>3
<1>5. RunOK(r)' BY <1>4 DEF RunOK
<1>6. loop' \in Slots \cup {None} BY DEF Raises
<1>7. rows' \subseteq [job : Jobs, result : Results] BY DEF TypeOK
<1>8. QED BY <1>4, <1>5, <1>6, <1>7, CallbackStep

-----------------------------------------------------------------------------
(* The callback.                                                           *)

\* On to a call of the model.
LEMMA GoesStep ==
    ASSUME TypeOK, LlmInv, NEW s \in Slots, run[s].phase # "idle",
           NEW phase \in {"first", "second"}, NEW left \in Nat, Goes(s, phase, left),
           loop' \in Slots \cup {None},
           UNCHANGED <<provider, job, worker, db, conn, rows, faults>>
    PROVE  TypeOK' /\ LlmInv'
<1>1. PICK r \in Runs : /\ r.phase = phase /\ r.job \in Jobs
                        /\ r.retries = run[s].retries /\ run' = [run EXCEPT ![s] = r]
  <2> DEFINE r == [run[s] EXCEPT !.phase = phase, !.left = left]
  <2>1. run[s] \in Runs /\ RunOK(run[s]) BY DEF TypeOK, LlmInv, RunsOK
  <2>2. run[s].job \in Jobs BY <2>1 DEF RunOK
  <2>3. r \in Runs /\ r.phase = phase /\ r.job \in Jobs /\ r.retries = run[s].retries
    BY <2>1, <2>2 DEF Runs
  <2>4. run' = [run EXCEPT ![s] = r] BY DEF Goes, TypeOK
  <2>5. QED BY <2>3, <2>4
<1>2. RunOK(r)' BY <1>1 DEF RunOK
<1>3. "rejects" \notin provider /\ faults = 0 =>
          conn' = "open" /\ r.phase # "fail" /\ r.retries = MaxRetries
  BY <1>1 DEF LlmInv, Undisturbed
<1>4. conn' \in {"open", "stale", "closed"} /\ rows' \subseteq [job : Jobs, result : Results]
  BY DEF TypeOK
<1>5. QED BY <1>1, <1>2, <1>3, <1>4, CallbackStep

LEMMA WritesStep ==
    ASSUME TypeOK, LlmInv, NEW s \in Slots, run[s].phase # "idle",
           NEW result \in Results, Served, Writes(s, result),
           UNCHANGED <<provider, job, loop, worker, db, conn, rows, faults>>
    PROVE  TypeOK' /\ LlmInv'
<1>1. PICK r \in Runs : /\ r.phase = "write" /\ r.job \in Jobs
                        /\ r.retries = run[s].retries /\ run' = [run EXCEPT ![s] = r]
  <2> DEFINE r == [run[s] EXCEPT !.phase = "write", !.left = 0, !.result = result]
  <2>1. run[s] \in Runs /\ RunOK(run[s]) BY DEF TypeOK, LlmInv, RunsOK
  <2>2. run[s].job \in Jobs BY <2>1 DEF RunOK
  <2>3. r \in Runs /\ r.phase = "write" /\ r.job = run[s].job /\ r.result = result
        /\ r.retries = run[s].retries
    BY <2>1 DEF Runs
  <2>4. run' = [run EXCEPT ![s] = r] BY DEF Writes, TypeOK
  <2>5. QED BY <2>2, <2>3, <2>4
<1>2. RunOK(r)' BY <1>1 DEF RunOK, Served
<1>3. "rejects" \notin provider /\ faults = 0 =>
          conn' = "open" /\ r.phase # "fail" /\ r.retries = MaxRetries
  BY <1>1 DEF LlmInv, Undisturbed
<1>4. /\ conn' \in {"open", "stale", "closed"} /\ rows' \subseteq [job : Jobs, result : Results]
      /\ loop' \in Slots \cup {None}
  BY DEF TypeOK
<1>5. QED BY <1>1, <1>2, <1>3, <1>4, CallbackStep

\* Before the row: the call to the model and its answers.
LEMMA ModelStep ==
    ASSUME TypeOK, LlmInv, NEW s \in Slots,
           Begin(s) \/ Answered(s) \/ Invalid(s) \/ Unavailable(s) \/ Rejected(s)
    PROVE  TypeOK' /\ LlmInv'
<1>1. run[s].phase # "idle" BY DEF Begin, Answered, Invalid, Unavailable, Rejected, Waiting
<1>2. run[s].job \in Jobs BY <1>1 DEF LlmInv, RunsOK, RunOK
<1>3. CallTime[TypeOf[run[s].job]] \in Nat BY <1>2, CallTimeType
<1>4. CASE Begin(s)
  <2>1. Goes(s, "first", CallTime[TypeOf[run[s].job]]) /\ loop' \in Slots \cup {None}
    BY <1>4 DEF Begin
  <2>2. QED BY <1>1, <1>3, <1>4, <2>1, GoesStep DEF Begin
<1>5. CASE Answered(s)
  <2>1. PICK answer \in Answers : Writes(s, Result(run[s].job, answer)) BY <1>5 DEF Answered
  <2>2. Result(run[s].job, answer) \in Results BY ResultTypes
  <2>3. Served BY <1>5 DEF Answered, Served
  <2>4. QED BY <1>1, <1>5, <2>1, <2>2, <2>3, WritesStep DEF Answered
<1>6. CASE Invalid(s)
  <2>1. CASE run[s].phase = "first"
    <3>1. Goes(s, "second", CallTime[TypeOf[run[s].job]]) /\ loop' \in Slots \cup {None}
      BY <1>6, <2>1 DEF Invalid, TypeOK
    <3>2. QED BY <1>1, <1>3, <1>6, <3>1, GoesStep DEF Invalid
  <2>2. CASE run[s].phase # "first"
    <3>1. Writes(s, Fallback(run[s].job)) /\ Served BY <1>6, <2>2 DEF Invalid, Served
    <3>2. QED BY <1>1, <1>6, <3>1, FallbackType, WritesStep DEF Invalid
  <2>3. QED BY <2>1, <2>2
<1>7. CASE Unavailable(s)
  BY <1>1, <1>7, FallbackType, WritesStep DEF Unavailable, Served
<1>8. CASE Rejected(s)
  <2>1. conn' \in {"open", "stale", "closed"} /\ "rejects" \in provider
    BY <1>8 DEF Rejected, TypeOK
  <2>2. QED BY <1>1, <1>8, <2>1, RaisesStep DEF Rejected
<1>9. QED BY <1>4, <1>5, <1>6, <1>7, <1>8

\* The row: after it the run reports what the audit holds.
LEMMA WriteStep == ASSUME TypeOK, LlmInv, NEW s \in Slots, Write(s) PROVE TypeOK' /\ LlmInv'
<1>1. run[s].phase = "write" BY DEF Write, Writing
<1>2. run[s] \in Runs /\ RunOK(run[s]) BY DEF TypeOK, LlmInv, RunsOK
<1>3. run[s].job \in Jobs /\ run[s].result \in Results /\ Served
  BY <1>1, <1>2 DEF RunOK, Runs
<1>4. PICK r \in Runs : /\ r.phase = "complete" /\ r.job = run[s].job /\ r.result = run[s].result
                        /\ r.retries = run[s].retries /\ run' = [run EXCEPT ![s] = r]
  <2> DEFINE r == [run[s] EXCEPT !.phase = "complete"]
  <2>1. r \in Runs /\ r.phase = "complete" /\ r.job = run[s].job /\ r.result = run[s].result
        /\ r.retries = run[s].retries
    BY <1>2 DEF Runs
  <2>2. run' = [run EXCEPT ![s] = r] BY DEF Write, Returns, TypeOK
  <2>3. QED BY <2>1, <2>2
<1>5. rows' = rows \cup {[job |-> r.job, result |-> r.result]} BY <1>4 DEF Write
<1>6. RunOK(r)' BY <1>3, <1>4, <1>5 DEF RunOK, Audited, Served, Write
<1>7. rows' \subseteq [job : Jobs, result : Results] BY <1>3, <1>4, <1>5 DEF TypeOK
<1>8. "rejects" \notin provider /\ faults = 0 =>
          conn' = "open" /\ r.phase # "fail" /\ r.retries = MaxRetries
  BY <1>1, <1>4 DEF LlmInv, Undisturbed, Write
<1>9. /\ loop' \in Slots \cup {None} /\ conn' \in {"open", "stale", "closed"}
      /\ UNCHANGED <<provider, job, worker, db, faults>>
  BY DEF Write, Returns
<1>10. QED BY <1>3, <1>4, <1>5, <1>6, <1>7, <1>8, <1>9, CallbackStep

LEMMA WriteFailsStep ==
    ASSUME TypeOK, LlmInv, NEW s \in Slots, WriteFails(s) PROVE TypeOK' /\ LlmInv'
<1>1. run[s].phase # "idle" /\ Raises(s) /\ conn' \in {"open", "stale", "closed"}
      /\ UNCHANGED <<provider, job, worker, db, rows, faults>>
  BY DEF WriteFails, Writing
<1>2. ~("rejects" \notin provider /\ faults = 0)
  BY DEF WriteFails, Broken, Usable, LlmInv, Undisturbed
<1>3. QED BY <1>1, <1>2, RaisesStep

-----------------------------------------------------------------------------
(* The engine.                                                             *)

LEMMA ActivateStep == ASSUME TypeOK, LlmInv, NEW j \in Jobs, Activate(j) PROVE TypeOK' /\ LlmInv'
<1>1. /\ UNCHANGED <<provider, loop, worker, db, conn, rows, faults>>
      /\ job[j].state = "activatable" /\ job[j] \in JobStates
      /\ JobTimeout[TypeOf[j]] \in Nat
  BY CallTimeType DEF Activate, TypeOK
<1>2. PICK s \in Slots : s = CHOOSE t \in Slots : ~Busy(t) BY DEF Activate
<1>3. PICK r \in Runs : /\ r.phase = "held" /\ r.job = j /\ r.retries = job[j].retries
                        /\ run' = [run EXCEPT ![s] = r]
  <2> DEFINE r == [Idle EXCEPT !.phase = "held", !.job = j, !.retries = job[j].retries]
  <2>1. Idle \in Runs /\ job[j].retries \in 0 .. MaxRetries BY <1>1, IdleType DEF JobStates
  <2>2. r \in Runs /\ r.phase = "held" /\ r.job = j /\ r.retries = job[j].retries
    BY <2>1 DEF Runs
  <2>3. run' = [run EXCEPT ![s] = r] BY <1>2 DEF Activate
  <2>4. QED BY <2>2, <2>3
<1>4. PICK b \in JobStates : /\ b.state = "activated" /\ b.retries = job[j].retries
                             /\ job' = [job EXCEPT ![j] = b]
  <2> DEFINE b == [job[j] EXCEPT !.state = "activated", !.lease = JobTimeout[TypeOf[j]]]
  <2>1. b \in JobStates /\ b.state = "activated" /\ b.retries = job[j].retries
    BY <1>1 DEF JobStates
  <2>2. job' = [job EXCEPT ![j] = b] BY DEF Activate, TypeOK
  <2>3. QED BY <2>1, <2>2
<1>5. RunOK(r)' BY <1>3 DEF RunOK
<1>6. /\ RunsOK' /\ run' \in [Slots -> Runs] /\ run'[s] = r
      /\ \A t \in Slots : t # s => run'[t] = run[t]
  BY <1>1, <1>3, <1>5, RunGoesOn DEF LlmInv
<1>7. /\ JobsOK' /\ job' \in [Jobs -> JobStates] /\ job'[j] = b
      /\ \A k \in Jobs : k # j => job'[k] = job[k]
  BY <1>1, <1>4, JobGoesOn DEF LlmInv
<1>8. Undisturbed' BY <1>1, <1>3, <1>4, <1>6, <1>7 DEF LlmInv, Undisturbed
<1>9. TypeOK' BY <1>1, <1>6, <1>7 DEF TypeOK
<1>10. RowsOK' BY <1>1, RowsStill DEF LlmInv
<1>11. QED BY <1>6, <1>7, <1>8, <1>9, <1>10 DEF LlmInv

\* The engine or the operator makes a job activatable again.
LEMMA ActivatableStep ==
    ASSUME TypeOK, LlmInv, NEW j \in Jobs, JobTimesOut(j) \/ Retry(j) PROVE TypeOK' /\ LlmInv'
<1>1. /\ UNCHANGED <<provider, run, loop, worker, db, conn, rows, faults>>
      /\ job[j] \in JobStates
  BY DEF JobTimesOut, Retry, TypeOK
<1>2. PICK b \in JobStates :
        /\ b.state = "activatable" /\ job' = [job EXCEPT ![j] = b]
        /\ job[j].state # "incident" => b.retries = job[j].retries
  <2>1. CASE JobTimesOut(j)
    <3> DEFINE b == [job[j] EXCEPT !.state = "activatable"]
    <3>1. b \in JobStates /\ b.state = "activatable" /\ b.retries = job[j].retries
      BY <1>1 DEF JobStates
    <3>2. job' = [job EXCEPT ![j] = b] BY <2>1 DEF JobTimesOut, TypeOK
    <3>3. QED BY <3>1, <3>2
  <2>2. CASE Retry(j)
    <3> DEFINE b == [job[j] EXCEPT !.state = "activatable", !.retries = 1]
    <3>1. 1 \in 0 .. MaxRetries BY LlmAssumption
    <3>2. b \in JobStates /\ b.state = "activatable" BY <1>1, <3>1 DEF JobStates
    <3>3. job' = [job EXCEPT ![j] = b] /\ job[j].state = "incident" BY <2>2 DEF Retry, TypeOK
    <3>4. QED BY <3>2, <3>3
  <2>3. QED BY <2>1, <2>2
<1>3. RunsOK' BY <1>1, RunsStill DEF LlmInv
<1>4. /\ JobsOK' /\ job' \in [Jobs -> JobStates] /\ job'[j] = b
      /\ \A k \in Jobs : k # j => job'[k] = job[k]
  BY <1>1, <1>2, JobGoesOn DEF LlmInv
<1>5. Undisturbed' BY <1>1, <1>2, <1>4 DEF LlmInv, Undisturbed
<1>6. TypeOK' BY <1>1, <1>4 DEF TypeOK
<1>7. RowsOK' BY <1>1, RowsStill DEF LlmInv
<1>8. QED BY <1>3, <1>4, <1>5, <1>6, <1>7 DEF LlmInv

\* The report of a run that completes leaves an audited job.
LEMMA ReportStep == ASSUME TypeOK, LlmInv, NEW s \in Slots, Report(s) PROVE TypeOK' /\ LlmInv'
<1>1. /\ UNCHANGED <<provider, loop, worker, db, conn, rows, faults>>
      /\ run[s].phase \in {"complete", "fail"} /\ run' = [run EXCEPT ![s] = Idle]
  BY DEF Report
<1>2. run[s] \in Runs /\ RunOK(run[s]) BY DEF TypeOK, LlmInv, RunsOK
<1>3. PICK j \in Jobs : j = run[s].job BY <1>1, <1>2 DEF RunOK
<1>4. job[j] \in JobStates BY DEF TypeOK
<1>5. RunOK(Idle)' BY IdleType DEF RunOK
<1>6. /\ RunsOK' /\ run' \in [Slots -> Runs] /\ run'[s] = Idle
      /\ \A t \in Slots : t # s => run'[t] = run[t]
  BY <1>1, <1>5, IdleType, RunGoesOn DEF LlmInv
<1>7. PICK b \in JobStates :
        /\ job' = [job EXCEPT ![j] = b]
        /\ b.state = "completed" => Served /\ Audited(j, b.result)
        /\ run[s].phase # "fail" => b.retries = job[j].retries
        /\ run[s].phase # "fail" /\ job[j].state # "incident" => b.state # "incident"
  <2>1. CASE job' = job
    <3>1. job[j].state = "completed" => Served /\ Audited(j, job[j].result)
      BY DEF LlmInv, JobsOK, JobOK
    <3>2. job' = [job EXCEPT ![j] = job[j]] BY <2>1 DEF TypeOK
    <3>3. QED BY <1>4, <3>1, <3>2
  <2>2. CASE /\ run[s].phase = "complete"
             /\ job' = [job EXCEPT ![j] = [job[j] EXCEPT !.state = "completed", !.lease = 0,
                                                         !.result = run[s].result]]
    <3> DEFINE b == [job[j] EXCEPT !.state = "completed", !.lease = 0, !.result = run[s].result]
    <3>1. /\ b \in JobStates /\ b.state = "completed" /\ b.result = run[s].result
          /\ b.retries = job[j].retries
      BY <1>2, <1>4 DEF JobStates, Runs
    <3>2. Served /\ Audited(j, run[s].result)
      BY <1>2, <1>3, <2>2 DEF RunOK
    <3>3. QED BY <2>2, <3>1, <3>2
  <2>3. CASE /\ run[s].phase = "fail"
             /\ job' = [job EXCEPT ![j] = [job[j] EXCEPT !.retries = run[s].retries, !.lease = 0,
                     !.state = IF run[s].retries = 0 THEN "incident" ELSE "activatable"]]
    <3> DEFINE b == [job[j] EXCEPT !.retries = run[s].retries, !.lease = 0,
                         !.state = IF run[s].retries = 0 THEN "incident" ELSE "activatable"]
    <3>1. b \in JobStates /\ b.state # "completed" BY <1>2, <1>4 DEF JobStates, Runs
    <3>2. QED BY <2>3, <3>1
  <2>4. QED BY <1>1, <1>3, <2>1, <2>2, <2>3 DEF Report
<1>8. b.state = "completed" => Served /\ Audited(j, b.result)'
  BY <1>1, <1>7 DEF Audited
<1>9. /\ JobsOK' /\ job' \in [Jobs -> JobStates] /\ job'[j] = b
      /\ \A k \in Jobs : k # j => job'[k] = job[k]
  BY <1>1, <1>7, <1>8, JobGoesOn DEF LlmInv
<1>10. Undisturbed'
  BY <1>1, <1>6, <1>7, <1>9, IdleType DEF LlmInv, Undisturbed
<1>11. TypeOK' BY <1>1, <1>6, <1>9 DEF TypeOK
<1>12. RowsOK' BY <1>1, RowsStill DEF LlmInv
<1>13. QED BY <1>6, <1>9, <1>10, <1>11, <1>12 DEF LlmInv

-----------------------------------------------------------------------------
(* The database, the process and time.                                     *)

LEMMA DatabaseStep == ASSUME TypeOK, LlmInv, Database PROVE TypeOK' /\ LlmInv'
<1>1. UNCHANGED <<provider, job, run, loop, worker, rows>>
  BY DEF Database, DbStops, DbPauses, DbBack
<1>2. RunsOK' /\ JobsOK' /\ RowsOK' BY <1>1, RunsStill, JobsStill, RowsStill DEF LlmInv
<1>3. CASE DbStops \/ DbPauses
  <2>1. faults' \in 0 .. MaxFaults /\ faults' # 0 BY <1>3, FaultType DEF DbStops, DbPauses
  <2>2. db' \in {"up", "down", "paused"} /\ conn' \in {"open", "stale", "closed"}
    BY <1>3 DEF DbStops, DbPauses, TypeOK
  <2>3. TypeOK' BY <1>1, <2>1, <2>2 DEF TypeOK
  <2>4. Undisturbed' BY <2>1 DEF Undisturbed
  <2>5. QED BY <1>2, <2>3, <2>4 DEF LlmInv
<1>4. CASE DbBack
  <2>1. TypeOK' BY <1>1, <1>4 DEF TypeOK, DbBack
  <2>2. Undisturbed' BY <1>1, <1>4 DEF LlmInv, Undisturbed, DbBack
  <2>3. QED BY <1>2, <2>1, <2>2 DEF LlmInv
<1>5. QED BY <1>3, <1>4 DEF Database

LEMMA CrashStep == ASSUME TypeOK, LlmInv, Crash PROVE TypeOK' /\ LlmInv'
<1>1. /\ UNCHANGED <<provider, job, db, rows>> /\ run' = [s \in Slots |-> Idle]
      /\ loop' = None /\ conn' = "closed" /\ worker' = "down"
  BY DEF Crash
<1>2. faults' \in 0 .. MaxFaults /\ faults' # 0 BY FaultType DEF Crash
<1>3. RunsOK' BY <1>1, IdleType DEF RunsOK, RunOK
<1>4. JobsOK' BY <1>1, JobsStill DEF LlmInv
<1>5. Undisturbed' BY <1>2 DEF Undisturbed
<1>6. TypeOK' BY <1>1, <1>2, IdleType DEF TypeOK
<1>7. RowsOK' BY <1>1, RowsStill DEF LlmInv
<1>8. QED BY <1>3, <1>4, <1>5, <1>6, <1>7 DEF LlmInv

LEMMA StartStep == ASSUME TypeOK, LlmInv, Start PROVE TypeOK' /\ LlmInv'
<1>1. /\ UNCHANGED <<provider, job, run, loop, db, rows, faults>>
      /\ conn' = "open" /\ worker' = "up"
  BY DEF Start
<1>2. RunsOK' /\ JobsOK' BY <1>1, RunsStill, JobsStill DEF LlmInv
<1>3. Undisturbed' BY <1>1 DEF LlmInv, Undisturbed
<1>4. TypeOK' BY <1>1 DEF TypeOK
<1>5. RowsOK' BY <1>1, RowsStill DEF LlmInv
<1>6. QED BY <1>2, <1>3, <1>4, <1>5 DEF LlmInv

LEMMA LessType == ASSUME NEW t \in Nat PROVE Less(t) \in Nat
BY DEF Less

\* Time wears off leases and the patience of the call, and nothing else.
LEMMA TickStep == ASSUME TypeOK, LlmInv, Tick PROVE TypeOK' /\ LlmInv'
<1>1. UNCHANGED <<provider, loop, worker, db, conn, rows, faults>> BY DEF Tick
<1>2. job' = [j \in Jobs |-> [job[j] EXCEPT !.lease = Less(job[j].lease)]] BY DEF Tick
<1>3. ASSUME NEW j \in Jobs
      PROVE  /\ job'[j] \in JobStates /\ job'[j].state = job[j].state
             /\ job'[j].retries = job[j].retries /\ job'[j].result = job[j].result
  <2>1. job[j] \in JobStates BY DEF TypeOK
  <2>2. Less(job[j].lease) \in Nat BY <2>1, LessType DEF JobStates
  <2>3. job'[j] = [job[j] EXCEPT !.lease = Less(job[j].lease)] BY <1>2
  <2>4. QED BY <2>1, <2>2, <2>3 DEF JobStates
<1>4. ASSUME NEW s \in Slots
      PROVE  /\ run'[s] \in Runs /\ run'[s].phase = run[s].phase /\ run'[s].job = run[s].job
             /\ run'[s].retries = run[s].retries /\ run'[s].result = run[s].result
  <2>1. run[s] \in Runs BY DEF TypeOK
  <2>2. CASE run'[s] = run[s] BY <2>1, <2>2
  <2>3. CASE run'[s] # run[s]
    <3>1. run'[s] = [run[s] EXCEPT !.left = Less(run[s].left)] BY <2>3 DEF Tick, TypeOK
    <3>2. Less(run[s].left) \in Nat BY <2>1, LessType DEF Runs
    <3>3. QED BY <2>1, <3>1, <3>2 DEF Runs
  <2>4. QED BY <2>2, <2>3
<1>5. job' \in [Jobs -> JobStates] BY <1>2, <1>3
<1>6. run' \in [Slots -> Runs]
  <2>1. CASE loop = None BY <2>1 DEF Tick, TypeOK
  <2>2. CASE loop # None
    <3>1. run[loop] \in Runs BY <2>2 DEF TypeOK
    <3>2. Less(run[loop].left) \in Nat BY <3>1, LessType DEF Runs
    <3>3. [run[loop] EXCEPT !.left = Less(run[loop].left)] \in Runs BY <3>1, <3>2 DEF Runs
    <3>4. run' = [run EXCEPT ![loop] = [run[loop] EXCEPT !.left = Less(run[loop].left)]]
      BY <2>2 DEF Tick, TypeOK
    <3>5. QED BY <3>3, <3>4 DEF TypeOK
  <2>3. QED BY <2>1, <2>2
<1>7. RunsOK' BY <1>1, <1>4 DEF LlmInv, RunsOK, RunOK, Served, Audited
<1>8. JobsOK' BY <1>1, <1>3 DEF LlmInv, JobsOK, JobOK, Served, Audited
<1>9. Undisturbed' BY <1>1, <1>3, <1>4 DEF LlmInv, Undisturbed
<1>10. TypeOK' BY <1>1, <1>5, <1>6 DEF TypeOK
<1>11. RowsOK' BY <1>1, RowsStill DEF LlmInv
<1>12. QED BY <1>7, <1>8, <1>9, <1>10, <1>11 DEF LlmInv

-----------------------------------------------------------------------------
(* The theorems.                                                           *)

LEMMA Initially == ASSUME Init PROVE TypeOK /\ LlmInv
<1>1. \A j \in Jobs : /\ job[j] \in JobStates /\ job[j].state = "activatable"
                      /\ job[j].retries = MaxRetries
  <2>1. NoResult \in Results BY DEF NoResult, Results
  <2>2. MaxRetries \in 0 .. MaxRetries /\ 0 \in Nat BY LlmAssumption
  <2>3. [state |-> "activatable", retries |-> MaxRetries, lease |-> 0, result |-> NoResult]
            \in JobStates
    BY <2>1, <2>2 DEF JobStates
  <2>4. QED BY <2>3 DEF Init
<1>2. \A s \in Slots : run[s] = Idle BY DEF Init
<1>3. TypeOK
  <2>1. job \in [Jobs -> JobStates] BY <1>1 DEF Init
  <2>2. run \in [Slots -> Runs] BY IdleType DEF Init
  <2>3. faults \in 0 .. MaxFaults BY LlmAssumption DEF Init
  <2>4. QED BY <2>1, <2>2, <2>3 DEF Init, TypeOK
<1>4. RunsOK BY <1>2, IdleType DEF RunsOK, RunOK
<1>5. JobsOK BY <1>1 DEF JobsOK, JobOK
<1>6. Undisturbed BY <1>1, <1>2, IdleType DEF Init, Undisturbed
<1>7. RowsOK BY DEF Init, RowsOK
<1>8. QED BY <1>3, <1>4, <1>5, <1>6, <1>7 DEF LlmInv

LEMMA Stepwise == ASSUME TypeOK, LlmInv, [Next]_vars PROVE TypeOK' /\ LlmInv'
<1>1. CASE UNCHANGED vars
  BY <1>1 DEF vars, TypeOK, LlmInv, RunsOK, RunOK, JobsOK, JobOK, RowsOK,
     Undisturbed, Served, Audited
<1>2. ASSUME NEW s \in Slots, Callback(s) PROVE TypeOK' /\ LlmInv'
  BY <1>2, ModelStep, WriteStep, WriteFailsStep, ReportStep DEF Callback
<1>3. ASSUME NEW j \in Jobs, Activate(j) \/ JobTimesOut(j) \/ Retry(j) PROVE TypeOK' /\ LlmInv'
  BY <1>3, ActivateStep, ActivatableStep
<1>4. CASE Database \/ Crash \/ Start \/ Tick
  BY <1>4, DatabaseStep, CrashStep, StartStep, TickStep
<1>5. QED BY <1>1, <1>2, <1>3, <1>4 DEF Next

LEMMA Inductive == Spec => [](TypeOK /\ LlmInv)
<1>1. Init => TypeOK /\ LlmInv BY Initially
<1>2. TypeOK /\ LlmInv /\ [Next]_vars => (TypeOK /\ LlmInv)' BY Stepwise
<1>3. QED BY <1>1, <1>2, PTL DEF Spec

\* Every reachable state of the worker, its jobs and its database is of its
\* type.
THEOREM LlmTypeCorrect == Spec => []TypeOK
BY Inductive, PTL

\* No job is completed that the audit does not hold, whichever of its runs is
\* heard first and whatever becomes of the database.
THEOREM NothingUnaudited == Spec => []CompletedIsAudited
<1>1. TypeOK /\ LlmInv => CompletedIsAudited
  BY DEF LlmInv, JobsOK, JobOK, Audited, CompletedIsAudited
<1>2. QED BY <1>1, Inductive, PTL

\* An outage of the provider alone costs no job a retry, and while it rejects
\* what we send no job gets a row or a result, whatever is repeated or lost.
THEOREM RejectionsAndOutagesApart == Spec => []RejectionIsNoOutage
<1>1. TypeOK /\ LlmInv => RejectionIsNoOutage
  BY DEF LlmInv, Undisturbed, JobsOK, JobOK, RowsOK, Served, RejectionIsNoOutage
<1>2. QED BY <1>1, Inductive, PTL
=============================================================================
