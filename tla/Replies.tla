------------------------------ MODULE Replies ------------------------------
(***************************************************************************)
(* One ticket through the callbacks that call the model: ticket.classify,   *)
(* ticket.answer and ticket.notify (worker.py, classifier.py, generator.py, *)
(* audit.py), for any answers of the model.                                *)
(*                                                                         *)
(* LlmWorker has the time and the connection of these callbacks; here it is *)
(* what they make of an answer: the second call, the fallback, the row of   *)
(* the audit, and what of one job reaches the next.                        *)
(***************************************************************************)
EXTENDS Guardrails

CONSTANTS
    Tickets,          \* tickets: language; keywords of the subject, its start
    ClassifyReplies,  \* the model's replies to classify,
    TextReplies,      \* and to the two generations
    MaxRetries        \* retries of a new job

ASSUME RepliesAssumption ==
    /\ \A t \in Tickets : t.language \in STRING /\ t.subject.start \in STRING
    /\ LET Wrapped(answers) == [before : Seq(Tokens), inside : Seq(Tokens), after : Seq(Tokens),
                                answer : answers]
       IN  ClassifyReplies \subseteq Wrapped(Answers(Int)) /\ TextReplies \subseteq Wrapped(TextAnswers)
    /\ MaxRetries \in Nat \ {0}

VARIABLES
    ticket,    \* language and subject of the payload
    requests,  \* whether the provider takes our requests
    step,      \* the job of the ticket, or what the process does between two
    pv,        \* process variables
    retries,   \* of the job
    run,       \* the callback
    row        \* the row it has just written to llm_audit

vars == <<ticket, requests, step, pv, retries, run, row>>

JobTypes    == {"classify", "answer", "notify"}
Resolutions == {"booking_changed", "refund_issued", "answered", "agent_handled"}
Codes == {"invalid_output", "language_mismatch", "unknown_kb_id", "grounding_violation"}
None  == [none |-> TRUE]

Sources == {"llm", "fallback"}
Classifications ==
    [intent : INTENTS, confidence : (0 .. 100) \cup {NaN}, needsReview : BOOLEAN,
     detectedLanguage : LANGUAGES, source : Sources]

\* "said" keeps what the provider did, for the properties only.
Runs ==
    [phase : {"first", "second", "write"},
     violations : Seq(Codes),
     responses : Nat,
     reason : Codes \cup {"none", "api_error"},
     output : Classifications \cup Texts \cup {None},
     clean : BOOLEAN,
     said : Seq({"good", "bad", "down"})]

Fresh == [phase |-> "first", violations |-> <<>>, responses |-> 0, reason |-> "none",
          output |-> None, clean |-> TRUE, said |-> <<>>]

TypeOK ==
    /\ ticket \in Tickets
    /\ requests \in {"accepted", "rejected"}
    /\ step \in JobTypes \cup {"resolve", "done"}
    /\ pv \in [classified : Classifications \cup {None}, detectedLanguage : LANGUAGES,
               resolution : Resolutions \cup {"none"},
               answerText : Texts \cup {None}, answerSource : Sources \cup {"none"},
               customerMessage : Texts \cup {None}, notifySource : Sources \cup {"none"}]
    /\ retries \in 0 .. MaxRetries
    /\ run \in Runs
    /\ row \in {None} \cup [job : JobTypes, source : Sources, reason : Codes \cup {"none", "api_error"},
           violations : Seq(Codes), responses : Nat, said : Seq({"good", "bad", "down"})]

Init ==
    /\ ticket \in Tickets
    /\ requests \in {"accepted", "rejected"}
    /\ step = "classify"
    /\ pv = [classified |-> None, detectedLanguage |-> "other", resolution |-> "none",
             answerText |-> None, answerSource |-> "none",
             customerMessage |-> None, notifySource |-> "none"]
    /\ retries = MaxRetries
    /\ run = Fresh
    /\ row = None

-----------------------------------------------------------------------------
(* What the three callbacks have of their own.                             *)

Language == ReplyLanguage(ticket.language, pv.detectedLanguage)
Refund   == IF pv.resolution = "refund_issued" THEN {"refund"} ELSE {}
AnswerNumbers == IF pv.answerText = None THEN {} ELSE pv.answerText.numbers

\* What the template of an answered ticket repeats.
Repeated == IF pv.answerText = None THEN AnswerHandover(Language) ELSE pv.answerText

\* Deviation: whatever the process has may be said.
AllKnown == Numbers \ {"stray"}

\* ANSWER_FIELDS and the knowledge base; NOTIFY_FIELDS.
Allowed == IF step = "answer" THEN {"ticket", "body", "kb"}
           ELSE {"ticket", "deadline"} \cup Refund \cup AnswerNumbers

Check(reply) ==
    IF step = "classify"
    THEN IF ValidClassification(reply) THEN "ok" ELSE "invalid_output"
    ELSE TextCheck(reply, Language, Allowed)

Accepted(reply) ==
    IF step = "classify" THEN Classified(reply.answer, Keywords(ticket.subject))
    ELSE reply.answer.text

Fallback ==
    CASE step = "classify" -> ClassifiedByRules(Keywords(ticket.subject))
      [] step = "answer"   -> AnswerHandover(Language)
      [] OTHER             -> NotifyMessage(Language, pv.resolution, Refund, Repeated)

-----------------------------------------------------------------------------
(* The callback.                                                           *)

Running == step \in JobTypes /\ retries > 0
Calling == Running /\ run.phase \in {"first", "second"}

\* An answer in a fence or in prose, with braces in the right places only.
Plain(reply) ==
    /\ \A i \in DOMAIN reply.before : reply.before[i] \in {"fence", "prose"}
    /\ \A i \in DOMAIN reply.inside : reply.inside[i] = "members"

Saying(reply) ==
    IF Plain(reply) /\ Check([reply EXCEPT !.before = <<>>, !.after = <<>>]) = "ok"
    THEN "good" ELSE "bad"

\* Deviation: only the last response is counted, and its violation.
CountedAnew(reply, outcome) ==
    [run EXCEPT !.responses = 1, !.said = Append(@, Saying(reply)),
                !.violations = IF outcome = "ok" THEN <<>> ELSE <<outcome>>]

\* responses and violations grow with every reply.
Counted(reply, outcome) ==
    [run EXCEPT !.responses = @ + 1, !.said = Append(@, Saying(reply)),
                !.violations = IF outcome = "ok" THEN @ ELSE Append(@, outcome)]

FallsBack(r, reason) ==
    [r EXCEPT !.phase = "write", !.reason = reason, !.output = Fallback, !.clean = TRUE]

Replied(reply) ==
    /\ Calling /\ requests = "accepted"
    /\ LET outcome == Check(reply)
           counted == Counted(reply, outcome)
       IN  run' = CASE outcome = "ok" ->
                          [counted EXCEPT !.phase = "write", !.output = Accepted(reply),
                                          !.clean = reply.answer.clean]
                    [] outcome # "ok" /\ run.phase = "first" -> [counted EXCEPT !.phase = "second"]
                    [] OTHER -> FallsBack(counted, outcome)
    /\ row' = None
    /\ UNCHANGED <<ticket, requests, step, pv, retries>>

\* Connection, timeout, 429, 5xx.
ProviderFails ==
    /\ Calling
    /\ run' = FallsBack([run EXCEPT !.said = Append(@, "down")], "api_error")
    /\ row' = None
    /\ UNCHANGED <<ticket, requests, step, pv, retries>>

\* Deviation: a failure counts the other way.
JobFailsCountingUp ==
    /\ retries' = retries + 1
    /\ run' = Fresh
    /\ row' = None
    /\ UNCHANGED <<ticket, requests, step, pv>>

\* An exception out of the callback; without retries left it is an incident.
JobFails ==
    /\ retries' = retries - 1
    /\ run' = Fresh
    /\ row' = None
    /\ UNCHANGED <<ticket, requests, step, pv>>

\* Retry of the incident in Operate.
Retry ==
    /\ retries = 0
    /\ retries' = 1
    /\ row' = None
    /\ UNCHANGED <<ticket, requests, step, pv, run>>

\* Any other 4xx.
ProviderRejects == Calling /\ requests = "rejected" /\ JobFails

\* Deviation: a column of type json, or text.
StorableAsText == TRUE

\* output is jsonb: it takes neither \u0000 nor what json.dumps makes of NaN.
Storable == run.clean /\ ~(step = "classify" /\ run.output.confidence = NaN)

Source == IF run.reason = "none" THEN "llm" ELSE "fallback"

\* What the callback returns, by the output mappings of its task.
Returned ==
    CASE step = "classify" -> [pv EXCEPT !.classified = run.output,
                                         !.detectedLanguage = run.output.detectedLanguage]
      [] step = "answer"   -> [pv EXCEPT !.answerText = run.output, !.answerSource = Source]
      [] OTHER             -> [pv EXCEPT !.customerMessage = run.output, !.notifySource = Source]

\* write_llm, and the result to the engine.
Completes ==
    /\ Running /\ run.phase = "write" /\ Storable
    /\ row' = [job |-> step, source |-> Source, reason |-> run.reason,
               violations |-> IF step = "classify" THEN <<>> ELSE run.violations,
               responses |-> run.responses, said |-> run.said]
    /\ pv' = Returned
    /\ step' = CASE step = "classify" -> "resolve" [] step = "answer" -> "notify" [] OTHER -> "done"
    /\ run' = Fresh
    /\ retries' = MaxRetries
    /\ UNCHANGED <<ticket, requests>>

\* The insert is refused: audit write failed.
RowRefused == Running /\ run.phase = "write" /\ ~Storable /\ JobFails

-----------------------------------------------------------------------------

\* Routing, review and the branch of the ticket, which TicketProcess has; from
\* here on the callbacks read only the language of the classification.
Resolve ==
    /\ step = "resolve"
    /\ \E resolution \in Resolutions :
          /\ pv' = [pv EXCEPT !.classified = None, !.resolution = resolution]
          /\ step' = IF resolution = "answered" THEN "answer" ELSE "notify"
    /\ row' = None
    /\ UNCHANGED <<ticket, requests, retries, run>>

Rest == step = "done" /\ UNCHANGED vars

Next ==
    \/ \E reply \in IF step = "classify" THEN ClassifyReplies ELSE TextReplies : Replied(reply)
    \/ ProviderFails \/ ProviderRejects \/ Completes \/ RowRefused \/ Retry
    \/ Resolve \/ Rest

Spec == Init /\ [][Next]_vars

-----------------------------------------------------------------------------
(* Properties.                                                             *)

\* What goes on without a review is the model's, sure enough of itself, and
\* not contradicted by a keyword rule unless it is very sure (D5-2): also when
\* the model's confidence is no number at all, which no comparison of the
\* policy notices.
UnreviewedIsConfident ==
    LET c == pv.classified
        rules == Keywords(ticket.subject)
    IN  c # None /\ ~c.needsReview =>
            /\ c.source = "llm"
            /\ c.confidence \in Threshold .. 100
            /\ rules.intent # c.intent /\ rules.confidence >= RULES_CONFIDENCE_FLOOR
                   => c.confidence >= LLM_CONFIDENCE_CEILING

\* No number reaches the customer that is not of the ticket, its deadline, the
\* knowledge base or the refund that was made (D5-5, D5-9): not through the second call,
\* the templates, or an answer that the notification repeats.
NumbersAreGrounded ==
    \A text \in {pv.answerText, pv.customerMessage} \ {None} :
        text.numbers \subseteq {"ticket", "deadline", "body", "kb"} \cup Refund

\* Answer and notification declare the customer's language where we speak it,
\* else both the same one (D5-8), whichever of them is a template.  In which
\* language a text of the model is written nobody looks at; but nothing except
\* the model puts a foreign one out: a template reads as it declares, save where
\* it repeats an answer that the model wrote.
OneLanguage ==
    /\ \A text \in {pv.answerText, pv.customerMessage} \ {None} :
          /\ ticket.language \in REPLY_LANGUAGES => text.language = ticket.language
          /\ pv.answerText # None => text.language = pv.answerText.language
    /\ pv.answerSource = "fallback" => pv.answerText.reads = pv.answerText.language
    /\ pv.notifySource = "fallback" /\ pv.customerMessage.reads # pv.customerMessage.language =>
          /\ pv.answerSource = "llm"
          /\ pv.customerMessage.reads = pv.answerText.reads

\* The row accounts for the run (D5-3, D5-9): as many responses as were paid
\* for, the model's answer where it gave one that is good, in whatever
\* packaging, and else a reason and every violation.
RowTellsTheRun ==
    row # None =>
        LET last == row.said[Len(row.said)]
            Times(what) == Cardinality({i \in DOMAIN row.said : row.said[i] = what})
        IN  /\ row.responses = Len(row.said) - Times("down")
            /\ last = "good" => row.source = "llm" /\ row.reason = "none"
            /\ last = "down" => row.source = "fallback" /\ row.reason = "api_error"
            /\ row.source = "fallback" /\ last = "bad" => row.reason \in Codes
            /\ row.job # "classify" /\ row.reason \in Codes =>
                   Len(row.violations) = 2 /\ row.reason = row.violations[2]
=============================================================================
