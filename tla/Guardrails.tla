----------------------------- MODULE Guardrails -----------------------------
(***************************************************************************)
(* What the LLM worker does with an answer of the model, as operators       *)
(* (workers/llm-classifier: llm/guardrails.py, llm/generation_guardrails.py, *)
(* rules.py, and the pure parts of handlers.py and generator.py).           *)
(*                                                                         *)
(* A raw answer is a sequence of tokens, as far as braces and fences go; a  *)
(* number in a text is where it comes from; confidences are in hundredths.  *)
(***************************************************************************)
EXTENDS Integers, SequencesExt

CONSTANT Threshold  \* CLASSIFY_CONFIDENCE_THRESHOLD, 0.8

ASSUME ThresholdAssumption == Threshold \in 0 .. 100

RULES_CONFIDENCE_FLOOR == 80
LLM_CONFIDENCE_CEILING == 90

INTENTS         == {"change_booking", "cancel_refund", "question", "other"}
LANGUAGES       == {"ru", "en", "other"}
REPLY_LANGUAGES == {"ru", "en"}

\* json.loads reads NaN, and NaN is neither less nor greater than a number.
NaN        == 999
Less(a, b) == NaN \notin {a, b} /\ a < b

-----------------------------------------------------------------------------
(* The packaging of an answer.                                             *)

\* "quotedOpen" and "quotedClose" are braces within a string of the object,
\* "members" all its members.
Tokens == {"fence", "prose", "open", "close", "quotedOpen", "quotedClose", "members"}

Opening(token) == token \in {"open", "quotedOpen"}
Closing(token) == token \in {"close", "quotedClose"}

\* The object from its first brace to where the count of braces is level; the
\* count does not know of strings.
ExtractJson(text) ==
    LET opened == IF text # <<>> /\ Head(text) = "fence" THEN Tail(text) ELSE text
        bare   == IF opened # text /\ opened # <<>> /\ Last(opened) = "fence"
                  THEN Front(opened) ELSE opened
        start  == SelectInSeq(bare, Opening)
        rest   == SubSeq(bare, start, Len(bare))
        Count(i, Brace(_)) == Cardinality({k \in 1 .. i : Brace(rest[k])})
        ends   == {i \in 1 .. Len(rest) : Count(i, Opening) = Count(i, Closing)}
    IN  IF start = 0 THEN bare
        ELSE IF ends = {} THEN rest
        ELSE SubSeq(rest, 1, CHOOSE i \in ends : \A k \in ends : i <= k)

\* json.loads reads the members out of it: one object, quoted braces within.
IsObject(text) ==
    /\ Len(text) > 2 /\ text[1] = "open" /\ Last(text) = "close"
    /\ LET inside == SubSeq(text, 2, Len(text) - 1)
       IN /\ \A i \in DOMAIN inside : inside[i] \in {"members", "quotedOpen", "quotedClose"}
          /\ \E i \in DOMAIN inside : inside[i] = "members"

\* A reply: an answer in its packaging.
Raw(reply) == reply.before \o <<"open">> \o reply.inside \o <<"close">> \o reply.after

Parsed(reply) == IsObject(ExtractJson(Raw(reply)))

-----------------------------------------------------------------------------
(* Classification.                                                         *)

\* "fits": the rest of the schema, enums, required and further members, length.
\* "clean": PostgreSQL can store it, no \u0000 in a string.
Answers(confidences) ==
    [intent : INTENTS, detectedLanguage : LANGUAGES, confidence : confidences,
     fits : BOOLEAN, clean : BOOLEAN]

\* parse_and_validate: minimum and maximum of the schema.
ValidClassification(reply) ==
    /\ Parsed(reply)
    /\ reply.answer.fits
    /\ ~Less(reply.answer.confidence, 0) /\ ~Less(100, reply.answer.confidence)

\* The first rule that matches; a subject is the keywords in it and its start.
CLASSIFY_RULES == <<
    [contains |-> {"change"},           starts |-> {}, intent |-> "change_booking", confidence |-> 92],
    [contains |-> {"cancel", "refund"}, starts |-> {}, intent |-> "cancel_refund",  confidence |-> 90],
    [contains |-> {"?"}, starts |-> {"how", "what", "when"}, intent |-> "question", confidence |-> 85],
    [contains |-> {"unclear"},          starts |-> {}, intent |-> "question",       confidence |-> 40]>>
CLASSIFY_DEFAULT == [contains |-> {}, starts |-> {}, intent |-> "other", confidence |-> 80]

Keywords(subject) ==
    LET Matches(rule) == subject.words \cap rule.contains # {} \/ subject.start \in rule.starts
        first == SelectInSeq(CLASSIFY_RULES, Matches)
    IN  IF first = 0 THEN CLASSIFY_DEFAULT ELSE CLASSIFY_RULES[first]

\* apply_policy, for an answer and without one.
ReviewReasons(answer, rules) ==
    {reason \in {"below_threshold", "cross_check"} :
        IF reason = "below_threshold" THEN Less(answer.confidence, Threshold)
        ELSE /\ rules.intent # answer.intent
             /\ rules.confidence >= RULES_CONFIDENCE_FLOOR
             /\ Less(answer.confidence, LLM_CONFIDENCE_CEILING)}

Classified(answer, rules) ==
    [intent |-> answer.intent, confidence |-> answer.confidence,
     needsReview |-> ReviewReasons(answer, rules) # {},
     detectedLanguage |-> answer.detectedLanguage, source |-> "llm"]

ClassifiedByRules(rules) ==
    [intent |-> rules.intent, confidence |-> rules.confidence, needsReview |-> TRUE,
     detectedLanguage |-> "other", source |-> "fallback"]

-----------------------------------------------------------------------------
(* Generation.                                                             *)

\* Where a number of a text comes from: the ticket's ids and subject, its
\* deadline, its body, the knowledge base, the refund; "stray" is the model's own.
Numbers == {"ticket", "deadline", "body", "kb", "refund", "stray"}

\* "language" is what the answer declares itself to be in, a field beside its
\* text; "reads" is the language of the text, which may be another one, and which
\* nothing in the code looks at.  An answer cites the knowledge base, too.
Texts == [numbers : SUBSET Numbers, language : REPLY_LANGUAGES, reads : LANGUAGES]
TextAnswers ==
    [text : Texts, cites : {"known", "unknown"}, fits : BOOLEAN, clean : BOOLEAN]

\* Deviation: the detection before the customer's own word.
DetectedFirst(language, detectedLanguage) ==
    IF detectedLanguage \in REPLY_LANGUAGES THEN detectedLanguage
    ELSE IF language \in REPLY_LANGUAGES THEN language ELSE "en"

ReplyLanguage(language, detectedLanguage) ==
    IF language \in REPLY_LANGUAGES THEN language
    ELSE IF detectedLanguage \in REPLY_LANGUAGES THEN detectedLanguage ELSE "en"

\* Generator._validate with check_grounding: the code of the first violation.
\* The declared language is compared, never the text's; "too_long" is the schema's
\* already.
TextCheck(reply, language, allowed) ==
    IF ~(Parsed(reply) /\ reply.answer.fits) THEN "invalid_output"
    ELSE IF reply.answer.text.language # language THEN "language_mismatch"
    ELSE IF reply.answer.cites = "unknown" THEN "unknown_kb_id"
    ELSE IF ~(reply.answer.text.numbers \subseteq allowed) THEN "grounding_violation"
    ELSE "ok"

\* The templates: the handover has no numbers, the notification those of the
\* reference and the refund.  That of an answered ticket is the answer between a
\* greeting and a closing: it has its numbers and reads as it does.
AnswerHandover(language) == [numbers |-> {}, language |-> language, reads |-> language]

\* Deviation: the template of the one language for both.
EnglishNotification(language, resolution, refund, answer) ==
    [numbers |-> {}, language |-> language, reads |-> "en"]

NotifyMessage(language, resolution, refund, answer) ==
    [language |-> language,
     numbers  |-> CASE resolution = "refund_issued" -> {"ticket"} \cup refund
                    [] resolution = "answered"      -> answer.numbers
                    [] OTHER                        -> {"ticket"},
     reads    |-> IF resolution = "answered" THEN answer.reads ELSE language]
=============================================================================
