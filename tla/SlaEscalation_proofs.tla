----------------------- MODULE SlaEscalation_proofs -----------------------
(***************************************************************************)
(* Safety of SlaEscalation for any number of attempts, retries and faults. *)
(*                                                                         *)
(* The task only goes one way, from open to done and from 50 to 90, so     *)
(* what an attempt has read of it, however old, stays true in the sense    *)
(* that matters: a task seen raised is raised, and one that the index held *)
(* and holds no more is done.                                              *)
(***************************************************************************)
EXTENDS SlaEscalation, TLAPS

-----------------------------------------------------------------------------
(* Types.                                                                  *)

LEMMA PriorityFacts ==
    /\ Priorities = {50, 90} /\ DefaultPriority = 50 /\ ESCALATED_PRIORITY = 90
    /\ NoTask = 0 /\ NoTask \notin Priorities
BY DEF Priorities, DefaultPriority, ESCALATED_PRIORITY, NoTask

LEMMA IdleType == Idle \in Runs
BY SlaAssumption DEF Idle, Runs

LEMMA TaskType == ASSUME TypeOK PROVE Task \in Versions /\ Len(versions) \in Nat \ {0}
<1>1. versions \in Seq(Versions) /\ versions # <<>> BY DEF TypeOK
<1>2. Len(versions) \in Nat /\ Len(versions) # 0 BY <1>1
<1>3. QED BY <1>1, <1>2 DEF Task

LEMMA FoundType == ASSUME TypeOK PROVE Found \in Priorities \cup {NoTask}
<1>1. CASE indexed > 0
  <2>1. indexed \in 1 .. Len(versions) BY <1>1, TaskType DEF TypeOK
  <2>2. versions[indexed] \in Versions BY <2>1 DEF TypeOK
  <2>3. QED BY <2>2 DEF Found, Versions
<1>2. CASE ~(indexed > 0) BY <1>2 DEF Found
<1>3. QED BY <1>1, <1>2

\* What becomes of the task: no version is lost, and the newest is the one
\* given.
LEMMA BecomesFacts ==
    ASSUME TypeOK, NEW t \in Versions, Becomes(t)
    PROVE  /\ versions' \in Seq(Versions) /\ versions' # <<>>
           /\ Len(versions') \in Len(versions) .. Len(versions) + 1
           /\ \A i \in 1 .. Len(versions) : versions'[i] = versions[i]
           /\ \A i \in 1 .. Len(versions') : i > Len(versions) => versions'[i] = t
           /\ Task' = t
<1>1. versions \in Seq(Versions) /\ versions # <<>> /\ Len(versions) \in Nat \ {0}
  BY TaskType DEF TypeOK
<1>2. CASE t = Task /\ versions' = versions BY <1>1, <1>2 DEF Task
<1>3. CASE versions' = Append(versions, t) BY <1>1, <1>3 DEF Task
<1>4. QED BY <1>2, <1>3 DEF Becomes

LEMMA RunsChange ==
    ASSUME TypeOK, NEW a \in Attempts, NEW r \in Runs, attempt' = [attempt EXCEPT ![a] = r]
    PROVE  attempt' \in [Attempts -> Runs]
BY DEF TypeOK

LEMMA FailingType ==
    ASSUME TypeOK, NEW a \in Attempts, NEW left \in 0 .. MaxRetries, NEW wait \in BOOLEAN,
           Failing(a, left, wait)
    PROVE  attempt' \in [Attempts -> Runs]
<1>1. attempt[a] \in Runs BY DEF TypeOK
<1>2. [attempt[a] EXCEPT !.phase = "fail", !.retries = left, !.wait = wait] \in Runs
  BY <1>1 DEF Runs
<1>3. attempt' = [attempt EXCEPT
          ![a] = [attempt[a] EXCEPT !.phase = "fail", !.retries = left, !.wait = wait]]
  BY DEF Failing, TypeOK
<1>4. QED BY <1>2, <1>3, RunsChange

LEMMA RetriesType ==
    ASSUME TypeOK, NEW a \in Attempts PROVE RetriesLeft(a) \in 0 .. MaxRetries /\ 0 \in 0 .. MaxRetries
<1>1. attempt[a].retries \in 0 .. MaxRetries BY DEF TypeOK, Runs
<1>2. QED BY <1>1, SlaAssumption DEF RetriesLeft

LEMMA RowType ==
    ASSUME TypeOK, NEW a \in Attempts, attempt[a].outcome \in Outcomes
    PROVE  Row(a) \in Rows /\ Append(rows, Row(a)) \in Seq(Rows)
BY DEF TypeOK, Runs, Row, Rows

-----------------------------------------------------------------------------
(* The inductive invariant.                                                *)

\* What was once seen of the task still binds it.
TaskInv ==
    \A i \in 1 .. Len(versions) :
        /\ ~versions[i].open => ~Task.open
        /\ versions[i].priority = ESCALATED_PRIORITY => Task.priority = ESCALATED_PRIORITY

\* An outcome, with the priority found, that the task bears out.
True(outcome, previous) ==
    /\ outcome \in Outcomes
    /\ outcome = "escalated" =>
           previous = DefaultPriority /\ Task.priority = ESCALATED_PRIORITY
    /\ outcome = "already_escalated" => Task.priority = ESCALATED_PRIORITY
    /\ outcome = "no_open_task" /\ known => ~Task.open

HasRow(outcome) == \E i \in 1 .. Len(rows) : rows[i].outcome = outcome

RunTrue(r) ==
    /\ r.phase = "patch" => r.outcome = "escalated" /\ r.previous = DefaultPriority
    /\ r.phase \in {"write", "complete"} => True(r.outcome, r.previous)
    /\ r.phase = "complete" => HasRow(r.outcome)

RunInv == \A a \in Attempts : RunTrue(attempt[a])
RowInv == \A i \in 1 .. Len(rows) : True(rows[i].outcome, rows[i].previous)
JobInv ==
    Completed => /\ HasRow(job.outcome)
                 /\ \E p \in Priorities \cup {NoTask} : True(job.outcome, p)

\* Nothing has begun before the timer fires.
StartInv ==
    /\ timer = "fired" <=> job.state # "none"
    /\ timer # "fired" => rows = <<>> /\ ~known /\ \A a \in Attempts : attempt[a].phase = "idle"
    /\ known => indexed > 0

SlaInv == TaskInv /\ RunInv /\ RowInv /\ JobInv /\ StartInv

\* The ways of the task, of what is known of it and of the rows in a step.
TaskGoesOn ==
    /\ ~Task.open => ~Task'.open
    /\ Task.priority = ESCALATED_PRIORITY => Task'.priority = ESCALATED_PRIORITY
RowsStay == \A o \in Outcomes : HasRow(o) => HasRow(o)'

LEMMA TaskStill == ASSUME TaskInv, UNCHANGED versions PROVE TaskInv' /\ TaskGoesOn
BY DEF TaskInv, TaskGoesOn, Task

LEMMA TaskBecomes ==
    ASSUME TypeOK, TaskInv, NEW t \in Versions, Becomes(t),
           ~Task.open => ~t.open,
           Task.priority = ESCALATED_PRIORITY => t.priority = ESCALATED_PRIORITY
    PROVE  TaskInv' /\ TaskGoesOn
<1>1. TaskGoesOn BY BecomesFacts DEF TaskGoesOn
<1>2. ASSUME NEW i \in 1 .. Len(versions')
      PROVE  /\ ~versions'[i].open => ~Task'.open
             /\ versions'[i].priority = ESCALATED_PRIORITY => Task'.priority = ESCALATED_PRIORITY
  <2>1. CASE i \in 1 .. Len(versions)
    <3>1. versions'[i] = versions[i] BY <2>1, BecomesFacts
    <3>2. QED BY <2>1, <3>1, <1>1 DEF TaskInv, TaskGoesOn
  <2>2. CASE i \notin 1 .. Len(versions)
    <3>1. i > Len(versions) BY <2>2, TaskType, BecomesFacts
    <3>2. versions'[i] = Task' BY <3>1, BecomesFacts
    <3>3. QED BY <3>2
  <2>3. QED BY <2>1, <2>2
<1>3. QED BY <1>1, <1>2 DEF TaskInv

LEMMA TrueStays ==
    ASSUME TaskGoesOn, known' = known, NEW o, NEW p, True(o, p) PROVE True(o, p)'
BY DEF True, TaskGoesOn

LEMMA RowsStill ==
    ASSUME RowInv, TaskGoesOn, known' = known, UNCHANGED rows PROVE RowInv' /\ RowsStay
<1>1. RowsStay BY DEF RowsStay, HasRow
<1>2. RowInv' BY TrueStays DEF RowInv
<1>3. QED BY <1>1, <1>2

LEMMA RowsGrow ==
    ASSUME TypeOK, RowInv, TaskGoesOn, known' = known,
           NEW r \in Rows, True(r.outcome, r.previous)', rows' = Append(rows, r)
    PROVE  RowInv' /\ RowsStay /\ HasRow(r.outcome)' /\ rows' \in Seq(Rows)
<1>1. /\ rows \in Seq(Rows) /\ Len(rows) \in Nat
      /\ rows' \in Seq(Rows) /\ Len(rows') = Len(rows) + 1
      /\ \A i \in 1 .. Len(rows) : rows'[i] = rows[i]
      /\ rows'[Len(rows) + 1] = r
  BY DEF TypeOK
<1>2. RowsStay BY <1>1 DEF RowsStay, HasRow
<1>3. ASSUME NEW i \in 1 .. Len(rows') PROVE True(rows[i].outcome, rows[i].previous)'
  <2>1. CASE i \in 1 .. Len(rows)
    <3>1. True(rows[i].outcome, rows[i].previous) BY <2>1 DEF RowInv
    <3>2. rows'[i] = rows[i] BY <2>1, <1>1
    <3>3. QED BY <3>1, <3>2, TrueStays
  <2>2. CASE i = Len(rows) + 1 BY <2>2, <1>1
  <2>3. QED BY <1>1, <2>1, <2>2
<1>4. HasRow(r.outcome)' BY <1>1 DEF HasRow
<1>5. QED BY <1>1, <1>2, <1>3, <1>4 DEF RowInv

\* The runs that take no part in a step keep their truth.
LEMMA RunStays ==
    ASSUME TaskGoesOn, known' = known, RowsStay, NEW r, RunTrue(r) PROVE RunTrue(r)'
BY TrueStays DEF RunTrue, RowsStay, True

LEMMA RunsStill ==
    ASSUME RunInv, TaskGoesOn, known' = known, RowsStay, UNCHANGED attempt PROVE RunInv'
BY RunStays DEF RunInv

LEMMA RunChanges ==
    ASSUME TypeOK, RunInv, TaskGoesOn, known' = known, RowsStay,
           NEW a \in Attempts, NEW r \in Runs, RunTrue(r)',
           attempt' = [attempt EXCEPT ![a] = r]
    PROVE  RunInv' /\ attempt' \in [Attempts -> Runs]
<1>1. attempt' \in [Attempts -> Runs] BY RunsChange
<1>2. ASSUME NEW b \in Attempts PROVE RunTrue(attempt[b])'
  <2>1. CASE b = a BY <2>1 DEF TypeOK
  <2>2. CASE b # a
    <3>1. attempt'[b] = attempt[b] BY <2>2 DEF TypeOK
    <3>2. QED BY <3>1, RunStays DEF RunInv
  <2>3. QED BY <2>1, <2>2
<1>3. QED BY <1>1, <1>2 DEF RunInv

LEMMA JobStays ==
    ASSUME JobInv, TaskGoesOn, known' = known, RowsStay, TypeOK,
           Completed' => Completed /\ job'.outcome = job.outcome
    PROVE  JobInv'
<1>1. SUFFICES ASSUME Completed'
      PROVE  HasRow(job.outcome)' /\ \E p \in Priorities \cup {NoTask} : True(job.outcome, p)'
  BY DEF JobInv
<1>2. PICK p \in Priorities \cup {NoTask} : True(job.outcome, p) BY <1>1 DEF JobInv
<1>3. True(job.outcome, p)' BY <1>1, <1>2, TrueStays
<1>4. HasRow(job.outcome) /\ job.outcome \in Outcomes BY <1>1, <1>2 DEF JobInv, True
<1>5. HasRow(job.outcome)' BY <1>1, <1>4 DEF RowsStay
<1>6. QED BY <1>3, <1>5

-----------------------------------------------------------------------------
(* The steps.                                                              *)

\* A step that leaves the task, the timer and the rows alone.
LEMMA JobSteps ==
    ASSUME TypeOK, SlaInv, JobTimesOut \/ BackoffOver \/ Retry
    PROVE  TypeOK' /\ SlaInv'
<1> USE DEF SlaInv
<1> DEFINE Again ==
      /\ UNCHANGED <<versions, indexed, timer, known, attempt, rows, outage>>
      /\ job.state \in {"activated", "backoff", "incident"} /\ job'.state = "activatable"
      /\ job' \in Jobs /\ faults' \in 0 .. MaxFaults
<1>1. Again
  <2>1. job \in Jobs /\ faults \in 0 .. MaxFaults BY DEF TypeOK
  <2>2. CASE JobTimesOut BY <2>1, <2>2, SlaAssumption DEF JobTimesOut, Jobs, Fault
  <2>3. CASE BackoffOver BY <2>1, <2>3 DEF BackoffOver, Jobs
  <2>4. CASE Retry
    <3>1. 1 \in 0 .. MaxRetries BY SlaAssumption
    <3>2. QED BY <2>1, <2>4, <3>1 DEF Retry, Jobs
  <2>5. QED BY <2>2, <2>3, <2>4
<1>2. TypeOK' BY <1>1 DEF TypeOK
<1>3. TaskInv' /\ TaskGoesOn BY <1>1, TaskStill
<1>4. RowInv' /\ RowsStay BY <1>1, <1>3, RowsStill
<1>5. RunInv' BY <1>1, <1>3, <1>4, RunsStill
<1>6. JobInv' BY <1>1 DEF JobInv, Completed
<1>7. StartInv' BY <1>1 DEF StartInv
<1>8. QED BY <1>2, <1>3, <1>4, <1>5, <1>6, <1>7

LEMMA ToggleStep == ASSUME TypeOK, SlaInv, Toggle PROVE TypeOK' /\ SlaInv'
<1> USE DEF SlaInv
<1>1. UNCHANGED <<versions, indexed, timer, known, job, attempt, rows, faults>> BY DEF Toggle
<1>2. TypeOK' BY <1>1 DEF TypeOK, Toggle
<1>3. TaskInv' /\ TaskGoesOn BY <1>1, TaskStill
<1>4. RowInv' /\ RowsStay BY <1>1, <1>3, RowsStill
<1>5. RunInv' BY <1>1, <1>3, <1>4, RunsStill
<1>6. JobInv' BY <1>1, <1>3, <1>4, JobStays DEF Completed
<1>7. StartInv' BY <1>1 DEF StartInv
<1>8. QED BY <1>2, <1>3, <1>4, <1>5, <1>6, <1>7

LEMMA ExportStep == ASSUME TypeOK, SlaInv, Export PROVE TypeOK' /\ SlaInv'
<1> USE DEF SlaInv
<1>1. UNCHANGED <<versions, timer, known, job, attempt, rows, outage, faults>> BY DEF Export
<1>2. indexed' \in 0 .. Len(versions) /\ indexed' > 0 BY TaskType DEF Export, TypeOK
<1>3. TypeOK' BY <1>1, <1>2 DEF TypeOK
<1>4. TaskInv' /\ TaskGoesOn BY <1>1, TaskStill
<1>5. RowInv' /\ RowsStay BY <1>1, <1>4, RowsStill
<1>6. RunInv' BY <1>1, <1>4, <1>5, RunsStill
<1>7. JobInv' BY <1>1, <1>4, <1>5, JobStays DEF Completed
<1>8. StartInv' BY <1>1, <1>2 DEF StartInv
<1>9. QED BY <1>3, <1>4, <1>5, <1>6, <1>7, <1>8

LEMMA TimerStep == ASSUME TypeOK, SlaInv, TimerFires PROVE TypeOK' /\ SlaInv'
<1> USE DEF SlaInv
<1>1. /\ UNCHANGED <<versions, indexed, attempt, rows, outage, faults>>
      /\ timer' = "fired" /\ job'.state = "activatable" /\ job' \in Jobs
      /\ known' = (indexed > 0)
  BY DEF TimerFires, TypeOK, Jobs
<1>2. rows = <<>> /\ \A a \in Attempts : attempt[a].phase = "idle" BY DEF StartInv, TimerFires
<1>3. TypeOK' BY <1>1 DEF TypeOK
<1>4. TaskInv' BY <1>1, TaskStill
<1>5. RowInv' BY <1>1, <1>2 DEF RowInv
<1>6. RunInv' BY <1>1, <1>2 DEF RunInv, RunTrue
<1>7. JobInv' BY <1>1 DEF JobInv, Completed
<1>8. StartInv' BY <1>1 DEF StartInv
<1>9. QED BY <1>3, <1>4, <1>5, <1>6, <1>7, <1>8

LEMMA AgentStep == ASSUME TypeOK, SlaInv, AgentCompletes PROVE TypeOK' /\ SlaInv'
<1> USE DEF SlaInv
<1> DEFINE t == [Task EXCEPT !.open = FALSE]
<1>1. UNCHANGED <<indexed, known, job, attempt, rows, outage, faults>> BY DEF AgentCompletes
<1>2. t \in Versions /\ ~t.open /\ t.priority = Task.priority BY TaskType DEF Versions
<1>3. Becomes(t) BY DEF AgentCompletes
<1> HIDE DEF t
<1>4. timer' \in {"fired", "cancelled"} /\ (timer' = "fired" <=> timer = "fired")
  BY DEF AgentCompletes, TypeOK
<1>5. indexed \in 0 .. Len(versions') BY <1>2, <1>3, BecomesFacts, TaskType DEF TypeOK
<1>6. TypeOK' BY <1>1, <1>2, <1>3, <1>4, <1>5, BecomesFacts DEF TypeOK
<1>7. TaskInv' /\ TaskGoesOn BY <1>2, <1>3, TaskBecomes
<1>8. RowInv' /\ RowsStay BY <1>1, <1>7, RowsStill
<1>9. RunInv' BY <1>1, <1>7, <1>8, RunsStill
<1>10. JobInv' BY <1>1, <1>7, <1>8, JobStays DEF Completed
<1>11. StartInv' BY <1>1, <1>4 DEF StartInv
<1>12. QED BY <1>6, <1>7, <1>8, <1>9, <1>10, <1>11

\* What a step of an attempt has in common with any other: it takes place
\* after the timer fired.
LEMMA AttemptsAreLate ==
    ASSUME TypeOK, SlaInv, NEW a \in Attempts, attempt[a].phase # "idle"
    PROVE  timer = "fired" /\ job.state # "none"
BY DEF SlaInv, StartInv

LEMMA ActivateStep ==
    ASSUME TypeOK, SlaInv, NEW a \in Attempts, Activate(a) PROVE TypeOK' /\ SlaInv'
<1> USE DEF SlaInv
<1>1. /\ UNCHANGED <<versions, indexed, timer, known, rows, outage, faults>>
      /\ job.state = "activatable" /\ job'.state = "activated" /\ job' \in Jobs
  BY DEF Activate, TypeOK, Jobs
<1>2. PICK r \in Runs : r.phase = "search" /\ attempt' = [attempt EXCEPT ![a] = r]
  <2> DEFINE r == [Idle EXCEPT !.phase = "search", !.retries = job.retries]
  <2>1. r \in Runs /\ r.phase = "search" BY IdleType DEF TypeOK, Jobs, Runs, Idle
  <2>2. attempt' = [attempt EXCEPT ![a] = r] BY DEF Activate
  <2>3. QED BY <2>1, <2>2
<1>3. TaskInv' /\ TaskGoesOn BY <1>1, TaskStill
<1>4. RowInv' /\ RowsStay BY <1>1, <1>3, RowsStill
<1>5. RunTrue(r)' BY <1>2 DEF RunTrue
<1>6. RunInv' /\ attempt' \in [Attempts -> Runs] BY <1>1, <1>2, <1>3, <1>4, <1>5, RunChanges
<1>7. TypeOK' BY <1>1, <1>6 DEF TypeOK
<1>8. JobInv' BY <1>1 DEF JobInv, Completed
<1>9. StartInv' BY <1>1 DEF StartInv
<1>10. QED BY <1>3, <1>4, <1>6, <1>7, <1>8, <1>9

\* A step of an attempt that fails it, with the task and the rows as they may
\* have become.
LEMMA FailingStep ==
    ASSUME TypeOK, SlaInv, NEW a \in Attempts, attempt[a].phase # "idle",
           NEW left \in 0 .. MaxRetries, NEW wait \in BOOLEAN, Failing(a, left, wait),
           TaskInv', TaskGoesOn, RowInv', RowsStay, rows' \in Seq(Rows),
           versions' \in Seq(Versions), versions' # <<>>, indexed \in 0 .. Len(versions'),
           faults' \in 0 .. MaxFaults, UNCHANGED <<indexed, timer, known, job, outage>>
    PROVE  TypeOK' /\ SlaInv'
<1> USE DEF SlaInv
<1>1. PICK r \in Runs : r.phase = "fail" /\ attempt' = [attempt EXCEPT ![a] = r]
  <2> DEFINE r == [attempt[a] EXCEPT !.phase = "fail", !.retries = left, !.wait = wait]
  <2>1. r \in Runs /\ r.phase = "fail" BY DEF TypeOK, Runs
  <2>2. attempt' = [attempt EXCEPT ![a] = r] BY DEF Failing, TypeOK
  <2>3. QED BY <2>1, <2>2
<1>2. RunTrue(r)' BY <1>1 DEF RunTrue
<1>4. RunInv' /\ attempt' \in [Attempts -> Runs] BY <1>1, <1>2, RunChanges
<1>5. TypeOK' BY <1>4 DEF TypeOK
<1>6. JobInv' BY JobStays DEF Completed
<1>7. StartInv' BY AttemptsAreLate DEF StartInv
<1>8. QED BY <1>4, <1>5, <1>6, <1>7

\* What the search finds binds the task for good.
LEMMA FoundFacts ==
    ASSUME TypeOK, SlaInv
    PROVE  /\ Found \in {NoTask, DefaultPriority, ESCALATED_PRIORITY}
           /\ Found = ESCALATED_PRIORITY => Task.priority = ESCALATED_PRIORITY
           /\ Found = NoTask /\ known => ~Task.open
<1> USE DEF SlaInv
<1>1. Found \in {NoTask, DefaultPriority, ESCALATED_PRIORITY} BY FoundType, PriorityFacts
<1>2. CASE indexed > 0
  <2>1. indexed \in 1 .. Len(versions) BY <1>2, TaskType DEF TypeOK
  <2>2. /\ ~versions[indexed].open => ~Task.open
        /\ versions[indexed].priority = ESCALATED_PRIORITY => Task.priority = ESCALATED_PRIORITY
    BY <2>1 DEF TaskInv
  <2>3. versions[indexed].priority # NoTask
    <3>1. versions[indexed] \in Versions BY <2>1 DEF TypeOK
    <3>2. QED BY <3>1, PriorityFacts DEF Versions
  <2>4. Found = ESCALATED_PRIORITY => versions[indexed].priority = ESCALATED_PRIORITY
    BY PriorityFacts DEF Found
  <2>5. Found = NoTask => ~versions[indexed].open BY <1>2, <2>3 DEF Found
  <2>6. QED BY <1>1, <2>2, <2>4, <2>5
<1>3. CASE ~(indexed > 0)
  <2>1. Found = NoTask /\ ~known BY <1>3 DEF Found, StartInv
  <2>2. QED BY <1>1, <2>1, PriorityFacts
<1>4. QED BY <1>2, <1>3

\* The decision on what was found is true of the task.
LEMMA DecisionTrue ==
    ASSUME TypeOK, SlaInv
    PROVE  LET d == Decision(Found) IN
           /\ d.outcome \in Outcomes /\ d.phase \in {"patch", "write"}
           /\ d.phase = "patch" => d.outcome = "escalated" /\ Found = DefaultPriority
           /\ d.phase = "write" => True(d.outcome, Found)
<1>1. CASE Found = NoTask
  BY <1>1, FoundFacts DEF Decision, True, Outcomes
<1>2. CASE Found = DefaultPriority
  BY <1>2, PriorityFacts DEF Decision, True, Outcomes
<1>3. CASE Found = ESCALATED_PRIORITY
  BY <1>3, FoundFacts, PriorityFacts DEF Decision, True, Outcomes
<1>4. QED BY <1>1, <1>2, <1>3, FoundFacts

LEMMA SearchStep ==
    ASSUME TypeOK, SlaInv, NEW a \in Attempts, Search(a) PROVE TypeOK' /\ SlaInv'
<1> USE DEF SlaInv
<1>1. UNCHANGED <<versions, indexed, timer, known, job, rows, outage, faults>> BY DEF Search
<1>2. PICK r \in Runs :
        /\ r.phase = Decision(Found).phase
        /\ r.outcome = Decision(Found).outcome
        /\ r.previous = Found
        /\ attempt' = [attempt EXCEPT ![a] = r]
  <2> DEFINE r == [attempt[a] EXCEPT !.previous = Found,
                       !.outcome = Decision(Found).outcome, !.phase = Decision(Found).phase]
  <2>1. attempt[a] \in Runs BY DEF TypeOK
  <2>2. r \in Runs BY <2>1, FoundType, DecisionTrue DEF Runs
  <2>3. /\ r.phase = Decision(Found).phase /\ r.outcome = Decision(Found).outcome
        /\ r.previous = Found
    BY <2>1 DEF Runs
  <2>4. attempt' = [attempt EXCEPT ![a] = r] BY DEF Search, TypeOK
  <2>5. QED BY <2>2, <2>3, <2>4
<1>3. TaskInv' /\ TaskGoesOn BY <1>1, TaskStill
<1>4. RowInv' /\ RowsStay BY <1>1, <1>3, RowsStill
<1>5. RunTrue(r) BY <1>2, DecisionTrue DEF RunTrue
<1>6. RunTrue(r)' BY <1>1, <1>3, <1>4, <1>5, RunStays
<1>7. RunInv' /\ attempt' \in [Attempts -> Runs] BY <1>1, <1>2, <1>3, <1>4, <1>6, RunChanges
<1>8. TypeOK' BY <1>1, <1>7 DEF TypeOK
<1>9. JobInv' BY <1>1, <1>3, <1>4, JobStays DEF Completed
<1>10. StartInv'
  <2>1. timer = "fired" /\ job.state # "none" BY AttemptsAreLate DEF Search
  <2>2. QED BY <1>1, <2>1 DEF StartInv
<1>11. QED BY <1>3, <1>4, <1>7, <1>8, <1>9, <1>10

\* The raise of the open task, as the update and a failed update make it.
LEMMA RaiseFacts ==
    ASSUME TypeOK, SlaInv, Becomes([Task EXCEPT !.priority = ESCALATED_PRIORITY])
    PROVE  /\ TaskInv' /\ TaskGoesOn /\ Task'.priority = ESCALATED_PRIORITY
           /\ versions' \in Seq(Versions) /\ versions' # <<>>
           /\ indexed \in 0 .. Len(versions')
<1> DEFINE t == [Task EXCEPT !.priority = ESCALATED_PRIORITY]
<1>1. t \in Versions /\ t.open = Task.open /\ t.priority = ESCALATED_PRIORITY
  BY TaskType DEF Versions, Priorities
<1>2. Becomes(t) OBVIOUS
<1> HIDE DEF t
<1>3. TaskInv' /\ TaskGoesOn BY <1>1, <1>2, TaskBecomes DEF SlaInv
<1>4. indexed \in 0 .. Len(versions') BY <1>1, <1>2, BecomesFacts, TaskType DEF TypeOK
<1>5. QED BY <1>1, <1>2, <1>3, <1>4, BecomesFacts

LEMMA PatchStep ==
    ASSUME TypeOK, SlaInv, NEW a \in Attempts, Patch(a) PROVE TypeOK' /\ SlaInv'
<1> USE DEF SlaInv
<1>1. UNCHANGED <<indexed, timer, known, job, rows, outage, faults>> BY DEF Patch
<1>2. CASE Task.open
  <2>1. Becomes([Task EXCEPT !.priority = ESCALATED_PRIORITY]) BY <1>2 DEF Patch
  <2>2. PICK r \in Runs :
          /\ r.phase = "write" /\ r.outcome = "escalated" /\ r.previous = DefaultPriority
          /\ attempt' = [attempt EXCEPT ![a] = r]
    <3> DEFINE r == [attempt[a] EXCEPT !.phase = "write"]
    <3>1. attempt[a] \in Runs BY DEF TypeOK
    <3>2. r \in Runs /\ r.phase = "write" BY <3>1 DEF Runs
    <3>3. r.outcome = "escalated" /\ r.previous = DefaultPriority
      BY <3>1 DEF Patch, RunInv, RunTrue, Runs
    <3>4. attempt' = [attempt EXCEPT ![a] = r] BY <1>2 DEF Patch, TypeOK
    <3>5. QED BY <3>2, <3>3, <3>4
  <2>3. TaskInv' /\ TaskGoesOn BY <2>1, RaiseFacts
  <2>4. RowInv' /\ RowsStay BY <1>1, <2>3, RowsStill
  <2>5. Task'.priority = ESCALATED_PRIORITY BY <2>1, RaiseFacts
  <2>6. RunTrue(r)' BY <2>2, <2>5 DEF RunTrue, True, Outcomes
  <2>7. RunInv' /\ attempt' \in [Attempts -> Runs] BY <1>1, <2>2, <2>3, <2>4, <2>6, RunChanges
  <2>8. TypeOK' BY <1>1, <2>1, <2>7, RaiseFacts DEF TypeOK
  <2>9. JobInv' BY <1>1, <2>3, <2>4, JobStays DEF Completed
  <2>10. StartInv'
    <3>1. timer = "fired" /\ job.state # "none" BY AttemptsAreLate DEF Patch
    <3>2. QED BY <1>1, <3>1 DEF StartInv
  <2>11. QED BY <2>3, <2>4, <2>7, <2>8, <2>9, <2>10
<1>3. CASE ~Task.open
  <2>1. Failing(a, 0, FALSE) /\ UNCHANGED versions BY <1>3 DEF Patch
  <2>2. TaskInv' /\ TaskGoesOn BY <2>1, TaskStill
  <2>3. RowInv' /\ RowsStay BY <1>1, <2>2, RowsStill
  <2>4. /\ rows' \in Seq(Rows) /\ versions' \in Seq(Versions) /\ versions' # <<>>
        /\ indexed \in 0 .. Len(versions') /\ faults' \in 0 .. MaxFaults
    BY <1>1, <2>1 DEF TypeOK
  <2>5. attempt[a].phase # "idle" BY DEF Patch
  <2>6. 0 \in 0 .. MaxRetries BY RetriesType
  <2>7. QED BY <1>1, <2>1, <2>2, <2>3, <2>4, <2>5, <2>6, FailingStep
<1>4. QED BY <1>2, <1>3

LEMMA CallFailsStep ==
    ASSUME TypeOK, SlaInv, NEW a \in Attempts, CallFails(a) PROVE TypeOK' /\ SlaInv'
<1>1. /\ UNCHANGED <<indexed, timer, known, job, rows, outage>>
      /\ attempt[a].phase # "idle" /\ Failing(a, RetriesLeft(a), TRUE)
  BY DEF CallFails
<1>2. faults' \in 0 .. MaxFaults BY SlaAssumption DEF CallFails, Fault, TypeOK
<1>3. TaskInv' /\ TaskGoesOn /\ versions' \in Seq(Versions) /\ versions' # <<>>
      /\ indexed \in 0 .. Len(versions')
  <2>1. CASE UNCHANGED versions BY <2>1, TaskStill DEF TypeOK, SlaInv
  <2>2. CASE Becomes([Task EXCEPT !.priority = ESCALATED_PRIORITY]) BY <2>2, RaiseFacts
  <2>3. QED BY <2>1, <2>2 DEF CallFails
<1>4. RowInv' /\ RowsStay /\ rows' \in Seq(Rows) BY <1>1, <1>3, RowsStill DEF SlaInv, TypeOK
<1>5. QED BY <1>1, <1>2, <1>3, <1>4, RetriesType, FailingStep

LEMMA WriteRefusedStep ==
    ASSUME TypeOK, SlaInv, NEW a \in Attempts, WriteRefused(a) PROVE TypeOK' /\ SlaInv'
<1>1. /\ UNCHANGED <<versions, indexed, timer, known, job, rows, outage, faults>>
      /\ attempt[a].phase # "idle" /\ Failing(a, RetriesLeft(a), FALSE)
  BY DEF WriteRefused
<1>2. TaskInv' /\ TaskGoesOn BY <1>1, TaskStill DEF SlaInv
<1>3. RowInv' /\ RowsStay BY <1>1, <1>2, RowsStill DEF SlaInv
<1>4. /\ rows' \in Seq(Rows) /\ versions' \in Seq(Versions) /\ versions' # <<>>
      /\ indexed \in 0 .. Len(versions') /\ faults' \in 0 .. MaxFaults
  BY <1>1 DEF TypeOK
<1>5. QED BY <1>1, <1>2, <1>3, <1>4, RetriesType, FailingStep

\* A row of an attempt in the write is as true as the attempt.
LEMMA WriteTrue ==
    ASSUME TypeOK, SlaInv, NEW a \in Attempts, attempt[a].phase = "write"
    PROVE  /\ attempt[a].outcome \in Outcomes
           /\ Row(a) \in Rows
           /\ True(Row(a).outcome, Row(a).previous)
<1>1. True(attempt[a].outcome, attempt[a].previous) BY DEF SlaInv, RunInv, RunTrue
<1>2. attempt[a].outcome \in Outcomes BY <1>1 DEF True
<1>3. Row(a) \in Rows BY <1>2, RowType
<1>4. QED BY <1>1, <1>2, <1>3 DEF Row

LEMMA WriteStep ==
    ASSUME TypeOK, SlaInv, NEW a \in Attempts, Write(a) PROVE TypeOK' /\ SlaInv'
<1> USE DEF SlaInv
<1>1. UNCHANGED <<versions, indexed, timer, known, job, outage, faults>> BY DEF Write
<1>2. PICK r \in Runs :
        /\ r.phase = "complete" /\ r.outcome = Row(a).outcome /\ r.previous = Row(a).previous
        /\ attempt' = [attempt EXCEPT ![a] = r]
  <2> DEFINE r == [attempt[a] EXCEPT !.phase = "complete"]
  <2>1. attempt[a] \in Runs BY DEF TypeOK
  <2>2. r \in Runs /\ r.phase = "complete" BY <2>1 DEF Runs
  <2>3. r.outcome = Row(a).outcome /\ r.previous = Row(a).previous BY <2>1 DEF Row, Runs
  <2>4. attempt' = [attempt EXCEPT ![a] = r] BY DEF Write, TypeOK
  <2>5. QED BY <2>2, <2>3, <2>4
<1>3. PICK w \in Rows : w = Row(a) BY WriteTrue DEF Write
<1>4. True(w.outcome, w.previous) /\ rows' = Append(rows, w) BY <1>3, WriteTrue DEF Write
<1>5. TaskInv' /\ TaskGoesOn BY <1>1, TaskStill
<1>6. True(w.outcome, w.previous)' BY <1>1, <1>4, <1>5, TrueStays
<1>7. RowInv' /\ RowsStay /\ HasRow(w.outcome)' /\ rows' \in Seq(Rows)
  BY <1>1, <1>4, <1>5, <1>6, RowsGrow
<1>8. RunTrue(r)' BY <1>2, <1>3, <1>6, <1>7 DEF RunTrue
<1>9. RunInv' /\ attempt' \in [Attempts -> Runs] BY <1>1, <1>2, <1>5, <1>7, <1>8, RunChanges
<1>10. TypeOK' BY <1>1, <1>7, <1>9 DEF TypeOK
<1>11. JobInv' BY <1>1, <1>5, <1>7, JobStays DEF Completed
<1>12. StartInv'
  <2>1. timer = "fired" /\ job.state # "none" BY AttemptsAreLate DEF Write
  <2>2. QED BY <1>1, <2>1 DEF StartInv
<1>13. QED BY <1>5, <1>7, <1>9, <1>10, <1>11, <1>12

LEMMA WriteFailsStep ==
    ASSUME TypeOK, SlaInv, NEW a \in Attempts, WriteFails(a) PROVE TypeOK' /\ SlaInv'
<1>1. /\ UNCHANGED <<versions, indexed, timer, known, job, outage>>
      /\ attempt[a].phase = "write" /\ Failing(a, RetriesLeft(a), FALSE)
  BY DEF WriteFails
<1>2. faults' \in 0 .. MaxFaults BY SlaAssumption DEF WriteFails, Fault, TypeOK
<1>3. TaskInv' /\ TaskGoesOn BY <1>1, TaskStill DEF SlaInv
<1>4. /\ versions' \in Seq(Versions) /\ versions' # <<>> /\ indexed \in 0 .. Len(versions')
  BY <1>1 DEF TypeOK
<1>5. RowInv' /\ RowsStay /\ rows' \in Seq(Rows)
  <2>1. CASE rows' = rows BY <1>1, <1>3, <2>1, RowsStill DEF SlaInv, TypeOK
  <2>2. CASE rows' = Append(rows, Row(a))
    <3>1. PICK w \in Rows : w = Row(a) BY <1>1, WriteTrue
    <3>2. True(w.outcome, w.previous) BY <1>1, <3>1, WriteTrue
    <3>3. True(w.outcome, w.previous)' BY <1>1, <1>3, <3>2, TrueStays
    <3>4. QED BY <1>1, <1>3, <2>2, <3>1, <3>3, RowsGrow DEF SlaInv
  <2>3. QED BY <2>1, <2>2 DEF WriteFails
<1>6. QED BY <1>1, <1>2, <1>3, <1>4, <1>5, RetriesType, FailingStep

\* A report, and the loss of an attempt, leave it idle.
LEMMA EndsIdle ==
    ASSUME TypeOK, SlaInv, NEW a \in Attempts, attempt[a].phase # "idle",
           attempt' = [attempt EXCEPT ![a] = Idle],
           UNCHANGED <<versions, indexed, timer, known, rows, outage>>,
           job' \in Jobs, job'.state # "none", faults' \in 0 .. MaxFaults, JobInv'
    PROVE  TypeOK' /\ SlaInv'
<1> USE DEF SlaInv
<1>1. TaskInv' /\ TaskGoesOn BY TaskStill
<1>2. RowInv' /\ RowsStay BY <1>1, RowsStill
<1>3. RunTrue(Idle)' BY DEF RunTrue, Idle
<1>4. RunInv' /\ attempt' \in [Attempts -> Runs] BY <1>1, <1>2, <1>3, IdleType, RunChanges
<1>5. TypeOK' BY <1>4 DEF TypeOK
<1>6. StartInv' BY AttemptsAreLate DEF StartInv
<1>7. QED BY <1>1, <1>2, <1>4, <1>5, <1>6

LEMMA ReportStep ==
    ASSUME TypeOK, SlaInv, NEW a \in Attempts, Report(a) PROVE TypeOK' /\ SlaInv'
<1> USE DEF SlaInv
<1>1. /\ UNCHANGED <<versions, indexed, timer, known, rows, outage, faults>>
      /\ attempt[a].phase \in {"complete", "fail"}
      /\ attempt' = [attempt EXCEPT ![a] = Idle]
  BY DEF Report
<1>2. /\ attempt[a] \in Runs /\ job \in Jobs /\ job.state # "none"
      /\ faults' \in 0 .. MaxFaults
  BY <1>1, AttemptsAreLate DEF TypeOK
<1>3. TaskInv' /\ TaskGoesOn BY <1>1, TaskStill
<1>4. RowInv' /\ RowsStay BY <1>1, <1>3, RowsStill
<1>5. CASE job' = job
  <2>1. JobInv' BY <1>1, <1>3, <1>4, <1>5, JobStays DEF Completed
  <2>2. QED BY <1>1, <1>2, <1>5, <2>1, EndsIdle
<1>6. CASE /\ attempt[a].phase = "complete"
           /\ job' = [job EXCEPT !.state = "completed", !.outcome = attempt[a].outcome]
  <2>1. True(attempt[a].outcome, attempt[a].previous) /\ HasRow(attempt[a].outcome)
    BY <1>6 DEF RunInv, RunTrue
  <2>2. attempt[a].previous \in Priorities \cup {NoTask} BY <1>2 DEF Runs
  <2>3. job' \in Jobs /\ job'.state # "none" /\ job'.outcome = attempt[a].outcome
    BY <1>2, <1>6 DEF Jobs, Runs
  <2>4. PICK o \in Outcomes, p \in Priorities \cup {NoTask} :
          o = attempt[a].outcome /\ True(o, p) /\ HasRow(o)
    BY <2>1, <2>2 DEF True
  <2>5. True(o, p)' /\ HasRow(o)' BY <1>1, <1>3, <1>4, <2>4, TrueStays DEF RowsStay
  <2>6. JobInv' BY <2>3, <2>4, <2>5 DEF JobInv
  <2>7. QED BY <1>1, <1>2, <2>3, <2>6, EndsIdle
<1>7. CASE job' = [job EXCEPT !.retries = attempt[a].retries,
                       !.state = IF attempt[a].retries = 0 THEN "incident"
                                 ELSE IF attempt[a].wait THEN "backoff" ELSE "activatable"]
  <2>1. job' \in Jobs /\ job'.state \in {"incident", "backoff", "activatable"}
    BY <1>2, <1>7 DEF Jobs, Runs
  <2>2. JobInv' BY <2>1 DEF JobInv, Completed
  <2>3. QED BY <1>1, <1>2, <2>1, <2>2, EndsIdle
<1>8. QED BY <1>5, <1>6, <1>7 DEF Report

LEMMA AttemptLostStep ==
    ASSUME TypeOK, SlaInv, NEW a \in Attempts, AttemptLost(a) PROVE TypeOK' /\ SlaInv'
<1>1. /\ UNCHANGED <<versions, indexed, timer, known, job, rows, outage>>
      /\ attempt[a].phase # "idle" /\ attempt' = [attempt EXCEPT ![a] = Idle]
  BY DEF AttemptLost, Busy
<1>2. faults' \in 0 .. MaxFaults BY SlaAssumption DEF AttemptLost, Fault, TypeOK
<1>3. job' \in Jobs /\ job'.state # "none" BY <1>1, AttemptsAreLate DEF TypeOK
<1>4. TaskInv' /\ TaskGoesOn BY <1>1, TaskStill DEF SlaInv
<1>5. RowInv' /\ RowsStay BY <1>1, <1>4, RowsStill DEF SlaInv
<1>6. JobInv' BY <1>1, <1>4, <1>5, JobStays DEF Completed, SlaInv
<1>7. QED BY <1>1, <1>2, <1>3, <1>6, EndsIdle

-----------------------------------------------------------------------------
(* The theorems.                                                           *)

LEMMA Initially == ASSUME Init PROVE TypeOK /\ SlaInv
<1>1. /\ Len(versions) = 1 /\ versions \in Seq(Versions) /\ versions # <<>>
      /\ versions[1] = Task /\ indexed \in 0 .. Len(versions)
      /\ Task = [open |-> TRUE, priority |-> DefaultPriority]
  BY DEF Init, Versions, Priorities, Task
<1>2. job \in Jobs /\ job.state = "none" BY SlaAssumption DEF Init, Jobs
<1>3. attempt \in [Attempts -> Runs] /\ \A a \in Attempts : attempt[a] = Idle
  BY IdleType DEF Init
<1>4. TypeOK
  <2>1. faults \in 0 .. MaxFaults BY SlaAssumption DEF Init
  <2>2. rows \in Seq(Rows) BY DEF Init
  <2>3. timer \in {"armed", "fired", "cancelled"} /\ known \in BOOLEAN /\ outage \in BOOLEAN
    BY DEF Init
  <2>4. QED BY <1>1, <1>2, <1>3, <2>1, <2>2, <2>3 DEF TypeOK
<1>5. TaskInv BY <1>1, PriorityFacts DEF TaskInv
<1>6. RunInv /\ RowInv BY <1>3 DEF Init, RunInv, RunTrue, RowInv, Idle
<1>7. JobInv /\ StartInv BY <1>2, <1>3 DEF Init, JobInv, Completed, StartInv, Idle
<1>8. QED BY <1>4, <1>5, <1>6, <1>7 DEF SlaInv

LEMMA Stepwise == ASSUME TypeOK, SlaInv, [Next]_vars PROVE TypeOK' /\ SlaInv'
<1>1. CASE UNCHANGED vars
  BY <1>1 DEF vars, TypeOK, SlaInv, TaskInv, RunInv, RunTrue, RowInv, JobInv, StartInv,
              True, HasRow, Completed, Task
<1>2. ASSUME NEW a \in Attempts, AttemptStep(a) PROVE TypeOK' /\ SlaInv'
  BY <1>2, ActivateStep, SearchStep, PatchStep, WriteStep, WriteRefusedStep, ReportStep
     DEF AttemptStep
<1>3. ASSUME NEW a \in Attempts, AttemptFault(a) PROVE TypeOK' /\ SlaInv'
  BY <1>3, CallFailsStep, WriteFailsStep, AttemptLostStep DEF AttemptFault
<1>4. CASE AgentCompletes \/ Export \/ TimerFires
  BY <1>4, AgentStep, ExportStep, TimerStep
<1>5. CASE JobTimesOut \/ BackoffOver \/ Retry \/ Toggle
  BY <1>5, JobSteps, ToggleStep
<1>6. QED BY <1>1, <1>2, <1>3, <1>4, <1>5 DEF Next

LEMMA Inductive == Spec => [](TypeOK /\ SlaInv)
<1>1. Init => TypeOK /\ SlaInv BY Initially
<1>2. TypeOK /\ SlaInv /\ [Next]_vars => (TypeOK /\ SlaInv)' BY Stepwise
<1>3. QED BY <1>1, <1>2, PTL DEF Spec

\* Every reachable state of the escalation is of its type.
THEOREM SlaTypeCorrect == Spec => []TypeOK
BY Inductive, PTL

\* A breach is not overlooked: whatever of the calls is lost, late or made
\* twice, a completed escalation has the task raised or the agent done, if
\* the index held the task when the timer fired.
THEOREM BreachNotOverlooked == Spec => []EscalatedOrDone
<1>1. TypeOK /\ SlaInv => EscalatedOrDone
  BY DEF SlaInv, JobInv, True, Outcomes, EscalatedOrDone
<1>2. QED BY <1>1, Inductive, PTL

\* The outcome the process is told of is also the outcome of a row.
THEOREM CompletionIsRecorded == Spec => []CompletionHasItsRow
<1>1. TypeOK /\ SlaInv => CompletionHasItsRow
  BY DEF SlaInv, JobInv, HasRow, CompletionHasItsRow
<1>2. QED BY <1>1, Inductive, PTL

\* Every row that is ever written is true of the task.
THEOREM RowsStayTrue == Spec => []RowsAreTrue
<1>1. TypeOK /\ SlaInv => (Task.priority = ESCALATED_PRIORITY => Raised)
  BY TaskType DEF Raised, Task
<1>2. TypeOK /\ SlaInv => RowsAreTrue
  BY <1>1 DEF SlaInv, RowInv, True, RowsAreTrue
<1>3. QED BY <1>2, Inductive, PTL
=============================================================================
