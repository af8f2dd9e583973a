# Formal verification of camunda-support-automation

TLA+ modules, TLC configurations and TLAPS proofs about the customer support stand of this
repository: a Camunda 8.9 process, a routing decision, a Go worker for bookings, a Python worker
with a language model, two Go services, and the scripts that keep the stand.

Paths below are relative to the repository (`src/` in `PROJECT.json`). Every definition that
stands for code has an entry in `PROJECT.json` `map` with the lines it is read from.

- [1 The system](#1-the-system)
- [2 Modules](#2-modules)
- [3 What the runs check](#3-what-the-runs-check)
- [4 Fairness](#4-fairness)
- [5 What is proved](#5-what-is-proved)
- [6 Findings](#6-findings)
- [7 What is not modelled](#7-what-is-not-modelled)
- [8 Plan](#8-plan)
- [9 How to run](#9-how-to-run)

## 1 The system

A ticket comes in over Kafka and becomes an instance of `support-request-v1`. The LLM worker
classifies it, the FX gateway converts the booking's value, the DMN decision routes it, a person
may review the classification, and one of four branches resolves it: change of the booking,
cancel and refund, an answer, or an agent. The customer gets a message, the topic
`support.ticket.resolved` a record. An agent who takes too long is escalated by a timer.

Everything meets in the engine. A worker *activates* a job (a lease with a timeout), does its work,
and *reports* completion, failure or a BPMN error. The engine gives a job out again when the lease
runs out, so every effect happens at least once; a failure costs a retry, and no retries left is an
incident, which an operator resolves.

| Component | State | Operations | Meets | Hard behaviours | What makes it correct |
|---|---|---|---|---|---|
| process `processes/support-request-v1.bpmn` | token(s), variables, retries, incidents, timer | 13 elements, 4 gateways, boundary events, mappings | every worker, people, both topics | two tokens in one instance; mappings evaluated at different moments; the loop through review; repeated jobs | routing is that of the present variables; the reviewer has the last word; no stray booking effect; refund, customer and topic agree; a breach is recorded; every ticket ends |
| decision `decisions/routing-v1.dmn` | none | three tables and their composition | process | hit policies, null inputs, the threshold in euros | total: a team, a priority, a deadline for every input |
| FX gateway `services/fx-gateway` | none kept here | convert | rate provider, process | zero and unknown currency refused; rounding | a refused conversion never becomes an amount |
| booking worker `workers/booking` | goroutine per job, drain | activate, call, report, fall back, drain, exit | engine, booking API | late and lost answers, SIGTERM in mid-flight, fallback of a report | attempts never overlap; the result matches the booking; retries are never given back; no outcome is swallowed; the job settles |
| booking API `services/booking-api` | bookings, outage toggle | change, cancel, toggle | booking worker | outage; an answer lost behind a change | repeating a change is harmless |
| LLM worker `workers/llm-classifier/worker.py` | one event loop, five callbacks | classify, generate ×2, record review, escalate | engine, model, database | blocking calls hold the loop; runs outlive their lease; a review that reads what another run writes | completed implies audited; the loop comes back; a review is paired with what it was about |
| classifier, generator, guardrails | none | parse, check, second call, fallback, review policy, templates | provider, database | timeouts, invalid answers, rejected requests; answers that no check notices; what one job hands to the next | a rejected request is no outage; unreviewed means confident; numbers are grounded; one declared language per ticket, and the templates keep it; the row tells the run |
| audit database `audit.py`, `infra/postgres` | one kept connection; three tables | write, reset, newest classification, review | LLM worker | server gone, paused, restarted under an open connection; values a column refuses | an outcome is reported only behind its row |
| SLA escalation `sla.py` | none (index, task, rows) | search, raise, row, complete | Tasklist API, database | index behind the engine, agent racing the update, overlapping attempts | no breach overlooked; every outcome has a true row |
| forms | none | review, agent | people | which outputs reach the process | (with the process) |
| Kafka connectors | offset, message deduplication | start, publish | topics | redelivery | (publish in the process; start planned) |
| backup, restore, deletion `tests/ops` | sets of parts, the exporter's pause, script positions | sync, pause, parts, resume, dump; refusals and deletes; wipe and restores | engine, Elasticsearch, PostgreSQL, workers | parts taken one by one beside work; stopped or refused half-way; scripts beside each other | exporting resumes; parts of a set fit together; no wipe without a whole set |
| migration, account, lab, smoke and test scripts | none of their own | | | | section 7 |

`PROJECT.json` `components` lists all of them with what is left out, and `hazards` what can go
wrong where, with the property that would catch it.

## 2 Modules

| Module | Models | Extends |
|---|---|---|
| `Routing` | the DMN tables and the FX conversion, as operators | |
| `TicketProcess` | one instance of the process with all workers as at-least-once attempts | `Routing` |
| `TicketContract` | abstract: what consumers of `support.ticket.resolved` are promised | |
| `BookingWorker` | one booking job: engine lease, attempts of the Go worker, booking API | |
| `SlaEscalation` | timer, escalation job, its attempts, the index, the agent, the rows | |
| `LlmWorker` | jobs with model calls, the event loop, the database connection | |
| `ReviewRecord` | `review.record` beside the runs of a classification: one loop, one connection | `LlmWorker` |
| `Guardrails` | what is done with an answer of the model, as operators: parsing, policy, rules, grounding, templates | |
| `Replies` | one ticket through classify, answer and notify, for any answers of the model | `Guardrails` |
| `StandBackup` | `backup.sh`, `delete-backup.sh`, `restore.sh` beside the work of the stand | |
| `MCTicketProcess`, `MCBookingWorker`, `MCSlaEscalation`, `MCLlmWorker`, `MCReviewRecord`, `MCReplies`, `MCStandBackup` | constants and symmetry for TLC | |
| `TicketProcess_proofs` → `TicketSafety_proofs` | proofs about the process and its contract | |
| `BookingWorker_proofs`, `SlaEscalation_proofs`, `Replies_proofs`, `LlmWorker_proofs` → `ReviewRecord_proofs` | proofs about the workers | |
| `StandBackup_proofs` | proofs about the scripts | |

Two levels fit together. `TicketProcess` sees a worker as an attempt: it has its effect or not, and
the engine hears of it or not. `BookingWorker`, `SlaEscalation` and `LlmWorker` open that attempt up,
call by call and in time, and show what the process takes for granted: that a completion has its
effect behind it, that attempts of a booking do not overlap, that an outcome has its row. The LLM worker is
cut along another line, too: `LlmWorker` has the time and the connection of its callbacks and answers that are
valid or not, `Replies` the answers and what is made of them, one callback after the other.

### TicketProcess

`at` is the element the main token waits in, `sla` the boundary timer and the second token it starts.
`pv` holds the process variables; `message` the payload of `publish-resolved`, which the engine
evaluates when the task is entered; `review` the reviewer's local variables; `out` everything that
leaves the engine (audit rows, review rows, bookings, customer messages, topic records, the
escalation's row); `fired` is history, set when the timer fires and read by the properties alone; `job` and `slaJob` the retries and incident of the two tokens. Each service task
is an action that has the effect of its worker, the output mappings, and the gateways up to the next
wait state, since the engine does these in one go. `FailedAttempt`, `LostAttempt` and
`RefusedAttempt` are the ways an attempt does not complete; the first two may have had the effect.
`Retry` raises retries and resolves an incident in Operate. Amounts are in cents and rates
in hundredths; a review may correct intent and sentiment to anything the form offers.

### BookingWorker

`job.lease` counts down; when it reaches zero the engine gives the job out again. An attempt is one
goroutine: `delivering` (the activation answer is under way), `calling` (the API), then one of the
reports `completion`, `error`, `failure`, and `fallback`, which is the failure without retries that the
worker sends when a report was refused. A call has an answer fixed when the called side executes it
and one seen when the caller reads it; between the two the answer may be lost or the call run into
its timeout (`Unanswered`). `Terminate`, `Exit`, `Crash` and `Start` are SIGTERM with its drain, the
end, a kill, and the container's restart. One tick is 5 s. The engine knows a job by its key alone:
nothing but the lease keeps attempts apart, and that is what `OneAttempt` is about. An activation that
the client has given up is either executed before its timeout or lost.

### SlaEscalation

`versions` are the states the agent's task has had and `indexed` how many of them the search index
holds, so `Found` may be old. An attempt walks through search, decision, update (`Patch`), row and
report, and every call may fail or lose its answer. There is no clock: another callback may hold the
worker's loop for any time, so an attempt may always be overtaken by another of the same job.
`outage` is the database away. The task starts with priority 50, since the model sets none.

### LlmWorker

`loop` is the slot whose callback runs; callbacks contain no await, so from the model call to the row
nothing else of the worker moves. (That async callbacks run on the one event loop is the reading
decision D5-3 gives of the SDK; it is marked external.) A classification has two calls of up to 30 s three times each
under a lease of 30 s, a generation two of up to 30 s twice under 90 s; one tick is 30 s, and `Tick`
takes time from leases and the waiting call. `provider` says what the model's provider may do in this behaviour: answer, reject what we send
(any other 4xx), fail (connection, timeout, 429, 5xx); it is a set, and fixed, since a 4xx is a matter of what is sent. `conn` is the connection the worker keeps: `stale` after the
server went away, since psycopg does not notice before the next use. `NeedsReview` is the policy of
`guardrails.py` on what an answer has: confidence below the threshold, or a keyword rule that
disagrees, unless the confidence is at the ceiling.

### ReviewRecord

The module extends `LlmWorker` by the job that follows a classification which asks for a review. `review[j]` is
that job with its callback, whose two statements, `latest_classify` and `write_review`, hold the loop and use the kept
connection, each able to fail; `newest[j]` is what the first of them finds, the row with the highest id. `overtaken` is
kept for the property only: the classifications that have had two runs at a time. One tick is the whole
lease of `review.record` (30 s), so an attempt may be repeated for a lease that has run out (`late`).

### Guardrails and Replies

An answer of the model is a packaging (a sequence of tokens before, inside and after the object: fences,
prose, braces, braces within strings, members) around what it says. `ExtractJson` counts braces as the code does; `IsObject` is
what `json.loads` then makes of it. A confidence is in hundredths, with `NaN`, which `json.loads` reads, for a value that compares with
nothing. A text has numbers and two languages: the one its answer declares (`language`, a field beside the text) and the one it is written in
(`reads`), which may differ. The code compares the declared one alone (`generation_guardrails.py:91`), so a text declared `ru` and written in
English passes here as it does there; only the templates are known to be written as they declare. A number is where it comes from: the ticket,
its deadline, its body, the knowledge base, the refund, or nowhere (`stray`). That the same value may come from two places is left out, and so is how a
number is written. A subject is the keywords in it and how it starts.

`Replies` takes one ticket through three jobs. `step` is the job, `run` the callback: first call, second call, `write`
(the row, with its output at hand). `Replied` parses, checks and either accepts, asks again, or falls back; `ProviderFails` falls back in
either call; `ProviderRejects` fails the job. `Completes` writes the row and hands the result to the process by the output mappings,
`RowRefused` is what PostgreSQL does with `NaN` or `\u0000` in a `jsonb` column. `Resolve` is the rest of the process between the jobs;
`classified` is dropped there, since the later callbacks read its language only. `run.said` remembers what the provider did, for
`RowTellsTheRun`. Requests are rejected throughout or never: a 4xx is a matter of configuration.

### StandBackup

`engine`, `acked` and `index` say how far an item of work is (`absent`, `active`, `done`) in the engine, in
what the exporter acknowledged and in the web apps' index; `rows` are the audit rows and `written` the items
whose worker has its row and has yet to report. `set[id]` holds the parts of a backup with their content:
web apps, dated snapshot, Zeebe partition, dump. `backup`, `deletion` and `restore` are script positions, one action
per call; the cluster takes a requested part in its own time, also after the script gave up. A soft
pause exports on and acknowledges nothing, so that the record between the two snapshots comes again after a
restore. `faults` is the set of kinds of fault that have happened; a kind in it may strike any number of times. A property names in
`Never({...})` the kinds it cannot stand, and each of them is needed: without it TLC finds a violation.
`dropped` are rows that `pg_restore` took away from running workers. What is not a process of the stand is
assumed by hand: nobody starts a restore beside another script, nor a backup or a deletion beside a restore.

## 3 What the runs check

`pass` runs finish without an error; `violation` runs check one statement of a document or comment
that the code does not keep (section 6).

| Run | States | Checks |
|---|---|---|
| `ticket` | 1.78 M | all safety of the process, that it implements `TicketContract`, and that every ticket is resolved or stops where only an operator can correct its data |
| `ticket_breach` | | violation: `BreachAnnounced` |
| `booking` | 355 k | safety and liveness of the booking job with the worker's own times |
| `booking_refund` | | violation: `RefundIsTheValue` |
| `sla` | 189 k | safety and liveness of the escalation |
| `sla_overlooked`, `sla_time` | | violations: `NoOpenTaskMeansDone`, `RaiseHasItsTime` |
| `llm` | 1.99 M | audit and retries of two jobs that share the loop, and that a rejected request is not taken for an outage |
| `llm_live` | 88 k | a classification and its review come to their ends through two faults, and the review is paired with what it was about |
| `llm_hang` | | violation: `LoopComesBack` |
| `replies` | 64 k | what the process and the customer get, for every classification and every text |
| `backup` | 1.29 M | safety of backup, deletion and restore beside the work |

The properties, and why they are not obvious:

- **Process.** `RoutingCurrent`: a review changes the inputs of a decision already taken.
  `ReviewHonoured`: output mappings decide which values survive the task. `ReviewedOnce`: the loop
  must not come back to the review. `ActedOnIsRecorded`: what is acted on is in the audit, also after
  a review and on the escalate path. `NoStrayBookingEffect`, `RefundIsTheBookingsValue`: repeated and
  lost attempts of two jobs in two services. `CustomerAndTopicAgree`: two messages, each repeatable.
  `BreachRecorded`: from the moment the timer fires the escalation is a second token beside the agent's; a ticket that completes has its row and
  `slaBreached` exactly if the timer fired, though the agent may finish first, the token repeat its attempts or wait as an incident, and the
  record on the topic go out before it; what the topic says is never a breach that was none. `ImplementsContract`:
  refinement, with the decision read from `resolution` and the announcements from the topic.
- **Booking.** `OneAttempt`, `ResultMatchesBooking`, `RetriesOnlyFall`, `OutcomeNotSwallowed`,
  `EventuallySettled`.
- **SLA.** `EscalatedOrDone` (if the index held the task when the timer fired), `CompletionHasItsRow`,
  `RowsAreTrue`, `EventuallySettled`.
- **LLM.** `CompletedIsAudited`. `RejectionIsNoOutage` holds the two apart in both directions: failures of the provider alone cost no job a retry, and while it
  rejects what we send no attempt, first, repeated or after the operator's retry, puts rules or a template in the place of an answer. `ReviewIsPaired`: the newest row is that of the result only
  as long as no other run of the job can write; the exception `overtaken` is needed, without it TLC finds a review paired with the other run's row.
  `EventuallyReviewed`: every classification ends, and where it asks for it its review, through every outage that ends. A connection broken by a restart
  of the database looks open until a statement has failed on it; each restart costs an attempt, and what comes back must come over a new connection. Only a
  rejected request may end as an incident instead, and if all are rejected it does so again after every retry.
- **Replies.** `UnreviewedIsConfident`: a confidence that no comparison notices must be stopped elsewhere. `NumbersAreGrounded`: a notification may say what
  the answer said, and the answer what the notification may not. `OneLanguage`: two jobs compute the language they declare, from variables that a fallback leaves behind, and templates and texts alternate; a text that is
  written in another language than it declares is the model's own, or the template that repeats such an answer between its greeting and its closing. `RowTellsTheRun`:
  failures in the second call; and a good answer must be found in whatever packaging.
- **Backup.** `ExportingResumed`: the trap, with what fails in between. `AcknowledgedIsIndexed` needs the sync, the pause and
  the order of the two snapshots. `DumpCoversEngine` and `AuditCoversEngine` need the dump last and the row
  before the report. `WipedForWholeSet`: restore.sh looks at the dump only, so a dump must be the last sign of a whole set, also
  while deletions go on.

Each module has one `TypeOK`. Every property has a mutant: a definition of the module
with the change a plausible bug would make (`...Lenient`, `...Quietly`, `...CountedUp` and so on, next to
what they deviate from), under which TLC finds the property violated. They are part of no specification.

### Bounds

| Bound | Value | Why it is enough |
|---|---|---|
| `Tickets` | seven in `ticket`; three in `ticket_breach` | both sides of the threshold after conversion, no value, booking known, unknown and missing, override valid; the four more are those that get stuck (amount 0, no currency, a booking that fails the API, an unparsable deadline) |
| `Rates`, amounts | 0.87 | 1050.00 is on one side of the threshold in euros and on the other in dollars |
| `MaxFaults` of `ticket` | 2 (0 breach) | one per token, or two on the same job; a refused attempt and a retry are not counted |
| `Handlers` | 2 | a third attempt would need two leases to run out during one call, which the times rule out; the theorem holds for any number |
| `ApiTimeout` … `Backoff` | 2, 3, 12, 5, 2 ticks of 5 s | the worker's own 10, 15, 60, 25 and 10 s |
| `MaxFaults` of `booking` | 2 | a lost answer and a crash, in both orders; outages and operator retries are not counted |
| `Conditions` of `llm` and `llm_live` | the provider answers or fails; it only rejects; anything, in `llm`, and rejecting or failing in `llm_live` | in order, a configuration the provider refuses, and both mixed; the theorems hold for any |
| `Attempts` | 2 | an attempt that meets one other; proved for any number |
| `MaxFaults` of `sla` | 2 | e.g. an answer lost and an attempt overtaken; outages are not counted |
| `Jobs`, `Slots` of `LlmWorker` | 2 and 2 for safety, 1 job live | one job that waits behind another's callback, and two runs of the same job; slots are interchangeable (symmetry in `llm`, which checks no liveness) |
| `MaxFaults` of `llm` | 1 (2 in `llm_live`) | one stop, pause or crash at any moment; all answers that `Conditions` allows are free |
| `Tickets` of `MCReplies` | seven | each rule, none, and two at once; a language we speak, one we do not, each met by any detected one |
| replies of `MCReplies` | both sides of every limit, `NaN`; every text that reads as it declares, and one set of numbers in every language it does not declare; one good answer of each kind in 100 packagings | packaging and content do not meet in the code: the first ends with `json.loads`. The properties are proved for any |
| `Items`, `MaxId` of `StandBackup` | 1 and 2 | each property is about one item at a time; a newest set and an older one that may be deleted. Two items with one backup and two kinds of fault were checked too. A fault that needs a third set is beyond the run: the theorems hold for any number |
| `MaxFaults` of `backup` | 1 kind, any number of times | the properties except kinds, not counts; one item, two backups and two kinds (7 M states) was checked too |
| `MaxRetries` | 3, the engine's default (2 in `llm`, `llm_live`, `replies`) | down to an incident and up again by the operator |

TLC checks for deadlock in every run but `backup`, where all backups may be taken and all work done. In `TicketProcess` the end is the explicit stutter `Rest`; in the
worker modules the outage toggle, the database or the clock always goes on.

## 4 Fairness

Liveness is checked under what the code and the deployment schedule, and no more.

- `TicketProcess`: weak fairness of worker steps, people, refused attempts, operator retries and the
  escalation. Faults, and the timer, are free: an agent may be quicker.
- `BookingWorker`: weak fairness of each step of an attempt, of the engine's deadlines, of time, of the
  exit after the drain and of the container's start (`restart: unless-stopped`). A call whose time is up
  does end. Nobody has to end an outage or retry an incident: "settled" includes the incident.
- `SlaEscalation`: weak fairness of the timer, the exporter, timeouts, back-off, activation and each
  attempt. Neither the agent nor the operator nor the database has to come back.
- `LlmWorker`: callbacks go on (weak); `Begin`, `Report` and `Activate` are strongly fair, because the
  loop's ready queue is first in, first out and each job type has its own poller: what waits has its turn
  though the loop is taken again and again in between. `Tick` is strongly fair: retries do not stop the
  clock. `llm_hang` is checked under this alone, since a paused database may stay paused.
- `ReviewRecord`: the same for both kinds of job, and that the database comes back, the operator retries incidents and the person
  reviews. `RecordBegins` and `RecordReports` are strongly fair for the same ready queue.
- `Replies`: none; only safety is stated. (That a rejected request is retried for ever is not excluded.)
- `StandBackup`: none; only safety is stated.

## 5 What is proved

TLAPS checks all of these for every value of the constants, in 8 modules. With them every invariant and every action property
of the `pass` runs is a theorem: a run shows it on a small instance, and that its mutant breaks it; the theorem shows it for any.

| Module | Theorems |
|---|---|
| `TicketProcess_proofs` | `TypeCorrect` |
| `TicketSafety_proofs` | `RoutingStaysCurrent`, `ReviewIsHonoured`, `NoSecondReview`, `ActionsAreRecorded`, `BookingEffects`, `RefundValue`, `CustomerAndTopic`, `BreachIsRecorded`, `ProcessImplementsContract` (refinement) |
| `BookingWorker_proofs` | `BookingTypeCorrect`, `AttemptsNeverOverlap`, `JobEndsAsBookingSays`, `NoRetriesBack`, `OutcomesAreNotSwallowed` |
| `SlaEscalation_proofs` | `SlaTypeCorrect`, `BreachNotOverlooked`, `CompletionIsRecorded`, `RowsStayTrue` |
| `LlmWorker_proofs` | `LlmTypeCorrect`, `NothingUnaudited`, `RejectionsAndOutagesApart` |
| `ReviewRecord_proofs` | `ReviewTypeCorrect`, `ReviewsArePaired`, `WorkerSafeWithReviews` |
| `Replies_proofs` | `RepliesTypeCorrect`, `UnreviewedStaysConfident`, `NumbersStayGrounded`, `LanguageIsOne`, `RowsTellTheRun` |
| `StandBackup_proofs` | `TypeCorrect`, `NoPauseLeftBehind`, `NothingLostToTheIndex`, `DumpIsNotBehind`, `DumpIsSignOfWholeSet`, `NoDecisionWithoutRow` |

**Process.** Assumption: `ProcessAssumption` (tickets are of their type, the booking has a value).
`TypeOK` alone is not inductive: routing a ticket needs that one past `classify-ticket` has an intent
(`Classified`). `SafetyInv` joins what holds of outcomes (`OutcomeInv`: a resolution exists exactly from the
element that sets it; booking effects belong to the branch; the refund is the booking's value;
message and deliveries carry the resolution), of conduct (`ConductInv`: the review, the branch and the
audit agree with the variables), `RoutingCurrent` and `BreachInv`. `BreachRecorded` speaks of the end of both tokens; what makes it inductive is
that a timer that has fired is never forgotten (`fired` if and only if the second token is on its way or has ended), that it ends with both records,
and that a timer is armed at the agent's task alone (`AgentTail`), so that no later one hides an earlier. Each safety theorem follows from
`SafetyInv`; the action property and the refinement use it in the step.

**Booking job.** Assumption: `LeaseAssumption`, the lease is longer than a late activation answer, the API
call, a report and its fallback together (15 + 10 + 15 + 15 < 60 s, `main.go:26-35`). `OneAttempt` is not
inductive; `LeaseInv` is: while an attempt may still act, the lease is longer than all the calls it has
left, so the engine cannot have given the job out again. From there `ResultInv` ties answers to the booking. `OutcomeNotSwallowed` is about
a step, and the lease decides it too: a report that was acknowledged is that of an attempt whose lease ran, so the job is over by it.

**Escalation.** Assumption: at least one retry. No lease helps here, so the argument is another one: the
task only goes from open to done and from 50 to 90, hence whatever an attempt has read, however old, stays
true in the sense that counts. `SlaInv` says this of attempts, rows and job.

**LLM jobs.** `LlmInv`: a run that is about to report a completion has its row already, and a completed job likewise. Several
runs of one job do not matter, because whichever is heard first satisfies it. Under a provider that only rejects no run has
anything to write (`Served`), so neither rows nor completions come about. `Undisturbed` carries the clause on retries.

**Review beside the runs.** No assumption but those of `LlmWorker`. The record takes the result from the newest row, not from the job, so `PairInv`
has to say for a job that was not overtaken that the two are the same: there is one run (`Single`), from its row on the newest row is what it
will report (`Written`), once it was heard nobody is left to write another (`Settled`), and the record has read that one (`Seen`, `Beside`). `overtaken` is where
this ends: a lease that ran out with its run still going. Of `LlmWorker` the record disturbs only the connection, and in no way that
rows do not (`WorkerStep`, `ReviewGoesOn`), hence `LlmInv` carries over and with it `WorkerSafeWithReviews`.

**Replies.** Assumptions: `ThresholdAssumption` (a number between 0 and 1, in hundredths) and `RepliesAssumption` (a reply is a sequence of tokens with
an answer in it, of which there may be any, with any integer or `NaN` as confidence). The properties speak of what the process has, so `RepliesInv` says the same of what is at
hand before the row: `OutputOK`, an output is `Proper` for its job, though a classification may still be `NaN`, and one that stands in for an answer is in the language it
declares or repeats the model's (`TemplateReads`). `ClassifiedIsJudged`, `AcceptedIsProper` and
`FallbackIsProper` give that for the three sources of an output, `CompletesKeepsInv` carries it over the row. `StageOK` says what the process cannot have yet,
so that the language, computed anew by each job, and the refund do not change under a text. How an answer was packed does not
matter there, since only what is parsed is accepted. It does for `RowTellsTheRun`, where a good answer must be found. `Level` is what the count of braces is
after so many tokens; in a packaging that only wraps the object it is zero for the first time at the object's end (`LevelAtTheEnd`, `RestOfObject`), and an opening fence or
prose does not change that (`FenceInFront`, `ObjectInFront`), so `PackagingIsSeenThrough`. The count is a cardinality of sets of positions, not a recursion, which
is what makes it provable. `RunTold` then keeps the calls of a run and their outcomes (`Counts`) with the account in its row (`Accounts`).

**Backup.** No assumption but that the bounds are natural numbers. The invariants follow the data. `ScriptsInv` and `OrderInv`: the scripts keep out of each other's way as far as
they look, and a deletion is of an older set than the one being made. `ProgressInv`: which parts the set has that `backup.sh` is at. `PauseInv`: between the pause and the
resume the exporter acknowledges nothing, so the index parts, taken on both sides of the partition, belong to one point of it. `IndexInv` says so of the
stand, of every set, and of a stand half-way through a restore; `RowsInv` of the rows and the dump. `WholeInv`: the dump is the last part to come and, but for a deletion in
progress, the last sign of the set to go. The faults a property excludes with `Never` are those its own part of the argument needs, no others.

**What the proofs changed.** `DumpCoversEngine` as first stated, without the exception of a dump that was not restored, passed TLC with two backups but was not inductive. With three it is false:
a restore without its rows, a second backup of that stand, and a restore of that; the trace has 55 states. The property now names the fault. `RepliesAssumption` says now what a reply is.

**Only model-checked:** liveness (`EventuallyCompleted`, `EventuallySettled`, `EventuallyReviewed`: fairness and ENABLED are beyond the prover), and the `violation` runs, which are
counterexamples.

## 6 Findings

Five statements of the repository that the code does not keep; the traces are those of the runs.

1. `ticket_breach` — the topic record can say `slaBreached: null` though the timer fired: the payload is
   evaluated when `publish-resolved` is entered, and nothing orders it behind `escalate-sla`
   (`support-request-v1.bpmn:235`; `operations-v1.md:209-212`, `process-v1.md:360`).
2. `booking_refund` — the decoder's error on a cut-off 200 is dropped, and the refund becomes 0
   (`workers/booking/main.go:174`; `main.go:178-180`).
3. `sla_overlooked` — a task the index does not hold yet is taken for one that is done (`sla.py:71`; `sla.py:14`).
4. `sla_time` — an escalation repeated after its own raise ends without `escalatedAt` (`sla.py:74`; `sla-escalation.md:6-7`).
5. `llm_hang` — a paused database under an open connection holds the event loop without a bound
   (`audit.py:53`; `audit.py:23-24`, D5-12).

Smaller observations without a run of their own: the booking worker's default branch takes any 4xx other
than 404 for success (the booking API never sends one); a booking value of 0 stops in an FX incident; a tiny
amount converts to 0.00; the drain of 25 s is shorter than the 40 s an attempt may take; D5-2 does not name
the confidence floor of 0.8.

Of the escalation: the runbook has "one `sla_escalation` row per fired timer" and lets the analytics count breaches from the table
(`sla-escalation.md:38`, `61-62`). An attempt that is lost after its row, or overtaken, leaves a row, and the next attempt writes another; no constraint
makes a row unique (`infra/postgres/init/002_sla_escalation.sql:8-22`). `CompletionHasItsRow` says that there is at least one; a count would have to be of tickets.

Of the LLM worker, met in `LlmWorker`, `ReviewRecord` and `Replies`:

- D5-8 has the reply language "enforced by the guardrail (`language_mismatch`)" (`llm-classifier-v1.md:73`). What `generation_guardrails.py:91` compares is the model's
  own `language` field; a text in another language under the right label is sent. `OneLanguage` promises the label, and the language of the templates, no more.
- A classification or a generation runs twice at a time when its calls take longer than its lease (`worker.py:203-211`; `generator.py:25-26`
  has 2 × 60 s "under the 90 s job timeout", and D5-10 says that the job then fails "cleanly instead of running twice"). The review may then be paired with the row of the other run (`audit.py:96`; the exception in `ReviewIsPaired`).
- A confidence of `NaN` passes `json.loads`, the schema and every comparison of the policy (`guardrails.py:83-121`). What stops it is the
  `jsonb` column alone: the job fails and may end in an incident, where D5-2 has a violation lead to a second call and the fallback. A
  `\u0000` in a string likewise; D5-9 has the job "always complete".
- The scan for the end of the object counts braces within strings (`guardrails.py:69-77`): a good answer with an unbalanced brace in a text
  is refused if something follows that makes the count wrong. `RowTellsTheRun` asks for balanced strings only.
- `too_long` of `check_grounding` is never reached, since the schema has the same limit.
- The tokens of a first response are in no row when the second request is rejected.

Those of `StandBackup`, each the reason of an exception in a property: a pause whose answer is lost, or a resume that
is refused, leaves the exporter paused (`backup.sh:33-35`, `18-19`; `backup-restore.md` §2 has the trap resume it on any
failure); rows that workers write between `up -d` and `pg_restore` are taken away (`restore.sh:105-107`), which is not the
harmless direction of §6; a deletion that stops half-way leaves the dump, on which `restore.sh:22` relies before it
wipes; the status of a snapshot's restore is printed only (`restore.sh:75`); a restore that fails once the stand is up again (at `pg_restore`) cannot be
repeated if the restored set has running instances (`restore.sh:27`). And of the rules: "nothing is deleted while a backup
runs" (`delete-backup.sh:88`) looks once, before the first delete, and the newest set is kept though it may be incomplete while an older, whole one
is deleted.

## 7 What is not modelled

- **Cancel and edit of instances** by operators in Operate: planned. **Migration** (`migrate-instance.sh`): the script looks things up and makes one
  call; what changes is up to the engine and the two versions of the process, of which only version 10 is in the repository.
- **Of backup, restore and deletion**: the `zeebe-record*` snapshot (the exporter in use has no such indices), the days of the
  dated snapshot and the archiver, `--list` and `--dry-run`, `verify-state.sh`, two backups or two restores at once,
  a `docker compose down` that fails.
- **Kafka consumer of the start event**, its offset and deduplication: engine's connector; planned from its use.
- **The language a text is written in**: `reads` is free for the model's texts, and the code does not look at it.
- **Text**: the prompts, the request, `build_from_env`, the formats of numbers (`numbers_in`, `_to_number`) and the wording of templates: nothing in the
  properties depends on them beyond what `Guardrails` keeps.
- **`parseISODuration`** (back-off from the environment): a pure function of text, which drops the error of `Atoi` (`main.go:71`).
- **The race of `inFlight.Add` with the drain's `Wait`** in the booking worker (`main.go:220`), and the pace at which failed audits
  use up retries (no back-off, `worker.py:203`).
- **Health endpoints, polls of other job types, logging, metrics**: no state the properties read.
- **booking-api restarts**: the stub keeps its test data in memory.
- **Smoke, lab, account and test scripts**: calls made by hand in a fixed order.

## 8 Plan

Done, in this order: `Routing` and `TicketProcess` with `TicketContract` (the core); `BookingWorker`;
`SlaEscalation`; `LlmWorker`; their proofs; `StandBackup`; `ReviewRecord`; `Guardrails` and `Replies`; the proofs of these and of `OutcomeNotSwallowed`. To come:

1. **`Ingress`**: start event with Kafka redelivery and message deduplication by `messageId` and TTL.
2. **Operators**: cancel and edit of variables of an instance.
3. **Proofs**: that `BookingWorker`'s outcomes are those of `TicketProcess`'s attempts (a refinement); that `ReviewRecord` without its reviews is
   `LlmWorker` under a weaker connection, as a refinement, where now only the invariants carry over.

## 9 How to run

    tlc -workers 2 -config ticket.cfg MCTicketProcess
    tlapm TicketSafety_proofs.tla

`PROJECT.json` `runs` names the module of every cfg. The longest run (`ticket`) takes about three minutes.
