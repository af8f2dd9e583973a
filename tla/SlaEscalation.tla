--------------------------- MODULE SlaEscalation ---------------------------
(***************************************************************************)
(* The timer sla-timer on handle-by-agent and the one job of type          *)
(* sla.escalate it starts (workers/llm-classifier/sla.py), call by call:   *)
(* search for the open task, raise it, write the row, complete the job.    *)
(*                                                                         *)
(* The search reads the index that the engine exports to, which is behind  *)
(* the task it describes; the update reaches the engine itself.  The       *)
(* worker's one event loop serves all job types, so an attempt may stand   *)
(* still for longer than the job's 30 s and meet another attempt of the    *)
(* same job: nothing here depends on the time an attempt takes.            *)
(***************************************************************************)
EXTENDS Naturals, Sequences

CONSTANTS
    Attempts,    \* slots for the attempts alive at the same time
    MaxRetries,  \* retries of a new job
    MaxFaults    \* bound: lost answers, failed writes, overdue jobs, crashes

ASSUME SlaAssumption == MaxRetries \in Nat \ {0} /\ MaxFaults \in Nat

VARIABLES
    versions,  \* the states the agent's task has had, newest last
    indexed,   \* how many of them the index holds
    timer,     \* sla-timer
    known,     \* whether the index held the task when the timer fired
    job,       \* the engine's job
    attempt,   \* attempt[a]: one run of the callback
    rows,      \* sla_escalation
    outage,    \* whether the database is away
    faults     \* faults so far

vars == <<versions, indexed, timer, known, job, attempt, rows, outage, faults>>

-----------------------------------------------------------------------------

DefaultPriority   == 50
ESCALATED_PRIORITY == 90
Priorities == {DefaultPriority, ESCALATED_PRIORITY}
NoTask     == 0
Outcomes   == {"escalated", "already_escalated", "no_open_task"}

Versions == [open : BOOLEAN, priority : Priorities]
Jobs ==
    [state : {"none", "activatable", "activated", "backoff", "incident", "completed"},
     retries : 0 .. MaxRetries,
     outcome : Outcomes \cup {"none"}]    \* escalatedAt is set by "escalated" alone
Runs ==
    [phase : {"idle", "search", "patch", "write", "complete", "fail"},
     retries : 0 .. MaxRetries,           \* job.retries, then what a failure leaves
     wait : BOOLEAN,                      \* retry_back_off of the failure
     previous : Priorities \cup {NoTask}, \* priority of the task found
     outcome : Outcomes \cup {"none"}]
Rows == [outcome : Outcomes, previous : Priorities \cup {NoTask}]

Idle == [phase |-> "idle", retries |-> 0, wait |-> FALSE,
         previous |-> NoTask, outcome |-> "none"]

TypeOK ==
    /\ versions \in Seq(Versions) /\ versions # <<>>
    /\ indexed \in 0 .. Len(versions)
    /\ timer \in {"armed", "fired", "cancelled"}
    /\ known \in BOOLEAN
    /\ job \in Jobs
    /\ attempt \in [Attempts -> Runs]
    /\ rows \in Seq(Rows)
    /\ outage \in BOOLEAN
    /\ faults \in 0 .. MaxFaults

\* The token enters handle-by-agent; the index may not know yet.
Init ==
    /\ versions = <<[open |-> TRUE, priority |-> DefaultPriority]>>
    /\ indexed \in 0 .. 1
    /\ timer = "armed"
    /\ known = FALSE
    /\ job = [state |-> "none", retries |-> MaxRetries, outcome |-> "none"]
    /\ attempt = [a \in Attempts |-> Idle]
    /\ rows = <<>>
    /\ outage = FALSE
    /\ faults = 0

Task == versions[Len(versions)]

\* What search_user_tasks finds: the priority of the task in the index, if it
\* is there in state CREATED.
Found == IF indexed > 0 /\ versions[indexed].open THEN versions[indexed].priority ELSE NoTask

Becomes(task) == versions' = IF task = Task THEN versions ELSE Append(versions, task)

Busy(a) == attempt[a].phase # "idle"
Fault   == faults < MaxFaults /\ faults' = faults + 1

Failing(a, left, wait) ==
    attempt' = [attempt EXCEPT ![a].phase = "fail", ![a].retries = left, ![a].wait = wait]

\* Deviation: a failure keeps the retries.
RetriesKept(a) == attempt[a].retries

\* Deviation: a failure counts the other way.
RetriesCountedUp(a) == attempt[a].retries + 1

\* retries_left
RetriesLeft(a) == IF attempt[a].retries = 0 THEN 0 ELSE attempt[a].retries - 1

-----------------------------------------------------------------------------
(* The agent, the exporter and the timer.                                  *)

\* The agent completes the task; an armed timer goes with it.
AgentCompletes ==
    /\ Task.open
    /\ Becomes([Task EXCEPT !.open = FALSE])
    /\ timer' = IF timer = "armed" THEN "cancelled" ELSE timer
    /\ UNCHANGED <<indexed, known, job, attempt, rows, outage, faults>>

\* The exporter is behind, by more when Elasticsearch is slow.
Export ==
    /\ indexed < Len(versions)
    /\ indexed' = indexed + 1
    /\ UNCHANGED <<versions, timer, known, job, attempt, rows, outage, faults>>

\* Also at once: the deadline may have passed when the task is entered.
TimerFires ==
    /\ timer = "armed"
    /\ timer' = "fired"
    /\ known' = (indexed > 0)
    /\ job' = [job EXCEPT !.state = "activatable"]
    /\ UNCHANGED <<versions, indexed, attempt, rows, outage, faults>>

-----------------------------------------------------------------------------
(* An attempt: the callback of make_sla_callback.                          *)

Activate(a) ==
    /\ job.state = "activatable" /\ ~Busy(a)
    /\ job' = [job EXCEPT !.state = "activated"]
    /\ attempt' = [attempt EXCEPT ![a] =
           [Idle EXCEPT !.phase = "search", !.retries = job.retries]]
    /\ UNCHANGED <<versions, indexed, timer, known, rows, outage, faults>>

\* Deviation: a task at the escalated priority is escalated again.
DecisionWithoutCheck(found) ==
    IF found = NoTask THEN [outcome |-> "no_open_task", phase |-> "write"]
    ELSE [outcome |-> "escalated", phase |-> "patch"]

\* The decision on what the search has found, and the call that follows.
Decision(found) ==
    IF found = NoTask THEN [outcome |-> "no_open_task", phase |-> "write"]
    ELSE IF found >= ESCALATED_PRIORITY
         THEN [outcome |-> "already_escalated", phase |-> "write"]
         ELSE [outcome |-> "escalated", phase |-> "patch"]

Search(a) ==
    /\ attempt[a].phase = "search"
    /\ attempt' = [attempt EXCEPT ![a].previous = Found,
           ![a].outcome = Decision(Found).outcome, ![a].phase = Decision(Found).phase]
    /\ UNCHANGED <<versions, indexed, timer, known, job, rows, outage, faults>>

\* update_user_task: a task that is gone is a 404, which leaves no retries.
Patch(a) ==
    /\ attempt[a].phase = "patch"
    /\ IF Task.open
       THEN /\ Becomes([Task EXCEPT !.priority = ESCALATED_PRIORITY])
            /\ attempt' = [attempt EXCEPT ![a].phase = "write"]
       ELSE Failing(a, 0, FALSE) /\ UNCHANGED versions
    /\ UNCHANGED <<indexed, timer, known, job, rows, outage, faults>>

\* Deviation: a failed call is logged and the row written.
CallFailsQuietly(a) ==
    /\ attempt[a].phase \in {"search", "patch"}
    /\ Fault
    /\ attempt' = [attempt EXCEPT ![a].phase = "write", ![a].outcome = "escalated"]
    /\ UNCHANGED <<versions, indexed, timer, known, job, rows, outage>>

\* A call fails, with a 5xx or without an answer: the update may have been
\* made or not.
CallFails(a) ==
    /\ attempt[a].phase \in {"search", "patch"}
    /\ Fault
    /\ Failing(a, RetriesLeft(a), TRUE)
    /\ \/ UNCHANGED versions
       \/ /\ attempt[a].phase = "patch" /\ Task.open
          /\ Becomes([Task EXCEPT !.priority = ESCALATED_PRIORITY])
    /\ UNCHANGED <<indexed, timer, known, job, rows, outage>>

Row(a) == [outcome |-> attempt[a].outcome, previous |-> attempt[a].previous]

\* write_sla_escalation, then the return of the callback.
Write(a) ==
    /\ attempt[a].phase = "write" /\ ~outage
    /\ rows' = Append(rows, Row(a))
    /\ attempt' = [attempt EXCEPT ![a].phase = "complete"]
    /\ UNCHANGED <<versions, indexed, timer, known, job, outage, faults>>

\* Deviation: a refused write is logged and the job completed.
WriteRefusedQuietly(a) ==
    /\ attempt[a].phase = "write" /\ outage
    /\ attempt' = [attempt EXCEPT ![a].phase = "complete"]
    /\ UNCHANGED <<versions, indexed, timer, known, job, rows, outage, faults>>

\* The write raises, before or after its commit: the job fails (D5-3).
WriteFails(a) ==
    /\ attempt[a].phase = "write"
    /\ Fault
    /\ Failing(a, RetriesLeft(a), FALSE)
    /\ rows' \in {rows, Append(rows, Row(a))}
    /\ UNCHANGED <<versions, indexed, timer, known, job, outage>>

WriteRefused(a) ==
    /\ attempt[a].phase = "write" /\ outage
    /\ Failing(a, RetriesLeft(a), FALSE)
    /\ UNCHANGED <<versions, indexed, timer, known, job, rows, outage, faults>>

\* The engine takes the report of any attempt while the job is not finished
\* or failed, and answers the others with an error that the SDK logs.
Report(a) ==
    /\ attempt[a].phase \in {"complete", "fail"}
    /\ attempt' = [attempt EXCEPT ![a] = Idle]
    /\ job' =
           IF job.state \notin {"activatable", "activated"} THEN job
           ELSE IF attempt[a].phase = "complete"
           THEN [job EXCEPT !.state = "completed", !.outcome = attempt[a].outcome]
           ELSE [job EXCEPT !.retries = attempt[a].retries,
                     !.state = IF attempt[a].retries = 0 THEN "incident"
                               ELSE IF attempt[a].wait THEN "backoff" ELSE "activatable"]
    /\ UNCHANGED <<versions, indexed, timer, known, rows, outage, faults>>

\* The worker ends, or the report does not reach the engine.
AttemptLost(a) ==
    /\ Busy(a)
    /\ Fault
    /\ attempt' = [attempt EXCEPT ![a] = Idle]
    /\ UNCHANGED <<versions, indexed, timer, known, job, rows, outage>>

-----------------------------------------------------------------------------
(* The engine and the operator.                                            *)

Unattended == \A a \in Attempts : ~Busy(a)

\* After 30 s: certain when nobody works on the job, else a fault, because
\* the event loop has been held by another job for as long.
JobTimesOut ==
    /\ job.state = "activated"
    /\ \/ Unattended /\ UNCHANGED faults
       \/ ~Unattended /\ Fault
    /\ job' = [job EXCEPT !.state = "activatable"]
    /\ UNCHANGED <<versions, indexed, timer, known, attempt, rows, outage>>

BackoffOver ==
    /\ job.state = "backoff"
    /\ job' = [job EXCEPT !.state = "activatable"]
    /\ UNCHANGED <<versions, indexed, timer, known, attempt, rows, outage, faults>>

\* Retry of the incident in Operate.
Retry ==
    /\ job.state = "incident"
    /\ job' = [job EXCEPT !.state = "activatable", !.retries = 1]
    /\ UNCHANGED <<versions, indexed, timer, known, attempt, rows, outage, faults>>

Toggle ==
    /\ outage' = ~outage
    /\ UNCHANGED <<versions, indexed, timer, known, job, attempt, rows, faults>>

AttemptStep(a) ==
    Activate(a) \/ Search(a) \/ Patch(a) \/ Write(a) \/ WriteRefused(a) \/ Report(a)

AttemptFault(a) == CallFails(a) \/ WriteFails(a) \/ AttemptLost(a)

Next ==
    \/ \E a \in Attempts : AttemptStep(a) \/ AttemptFault(a)
    \/ AgentCompletes \/ Export \/ TimerFires
    \/ JobTimesOut \/ BackoffOver \/ Retry \/ Toggle

Spec == Init /\ [][Next]_vars

\* The worker and the engine go on and the exporter catches up.  Neither the
\* agent nor the operator has to act, nor does an outage end.
FairSpec ==
    /\ Spec
    /\ WF_vars(TimerFires)
    /\ WF_vars(Export)
    /\ WF_vars(JobTimesOut)
    /\ WF_vars(BackoffOver)
    /\ WF_vars(\E a \in Attempts : Activate(a))
    /\ \A a \in Attempts : WF_vars(Search(a) \/ Patch(a) \/ Write(a) \/ WriteRefused(a) \/ Report(a))

-----------------------------------------------------------------------------
(* Properties.                                                             *)

Completed == job.state = "completed"
Raised    == \E i \in 1 .. Len(versions) : versions[i].priority = ESCALATED_PRIORITY

\* A breach is not overlooked: when the escalation is over and the index held
\* the task when the timer fired, the task is raised or the agent is done
\* (sla.py:10-14), whatever of the calls was lost, late or made twice.
EscalatedOrDone == Completed /\ known => ~Task.open \/ Task.priority = ESCALATED_PRIORITY

\* "Every outcome writes one sla_escalation row" (sla.py:15): what the
\* process is told of the escalation is also in the database.
CompletionHasItsRow == Completed => \E i \in 1 .. Len(rows) : rows[i].outcome = job.outcome

\* A row is true: an escalated one names the priority before a raise that was
\* made, an already escalated one follows a raise, and no_open_task means the
\* agent is done, if the index held the task when the timer fired.
RowsAreTrue ==
    \A i \in 1 .. Len(rows) :
        /\ rows[i].outcome = "escalated" => rows[i].previous = DefaultPriority /\ Raised
        /\ rows[i].outcome = "already_escalated" => Raised
        /\ rows[i].outcome = "no_open_task" /\ known => ~Task.open

\* "no_open_task: the agent finished at the deadline" (sla.py:14).
NoOpenTaskMeansDone == job.outcome = "no_open_task" => ~Task.open

\* "The instance carries slaBreached = true and escalatedAt" (runbook
\* sla-escalation.md:6-7): a task the job has raised leaves its time there.
RaiseHasItsTime == Completed /\ Raised => job.outcome = "escalated"

\* The escalation ends or reaches the operator, through an outage of the
\* database and behind a late index: it does not go round for ever.
EventuallySettled == timer = "fired" ~> job.state \in {"completed", "incident"}
=============================================================================
