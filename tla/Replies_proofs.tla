--------------------------- MODULE Replies_proofs ---------------------------
(***************************************************************************)
(* Safety of Replies for any tickets, any answers of the model in any       *)
(* packaging, any threshold and any number of retries.                      *)
(*                                                                         *)
(* What a callback has at hand when it comes to its row is either an answer *)
(* that passed its checks or a fallback; both keep the rules of the job.    *)
(* The process has what was at hand at one of its rows.                     *)
(***************************************************************************)
EXTENDS Replies, SequenceTheorems, FiniteSetTheorems, TLAPS

-----------------------------------------------------------------------------
(* The inductive invariant.                                                *)

Confident(c) ==
    LET rules == Keywords(ticket.subject)
    IN  /\ c.source = "llm"
        /\ c.confidence \in Threshold .. 100
        /\ rules.intent # c.intent /\ rules.confidence >= RULES_CONFIDENCE_FLOOR
               => c.confidence >= LLM_CONFIDENCE_CEILING

Judged(c)  == ~c.needsReview /\ c.confidence # NaN => Confident(c)
Sayable    == {"ticket", "deadline", "body", "kb"} \cup Refund
Fits(text) == text.numbers \subseteq Sayable /\ text.language = Language

\* An output as the callback of the job may return it.
Proper(output) ==
    /\ step = "classify" => output \in Classifications /\ Judged(output)
    /\ step \in {"answer", "notify"} => output \in Texts /\ Fits(output)

\* A template reads as it declares, or as the answer of the model it repeats.
TemplateReads(output) ==
    \/ output.reads = output.language
    \/ step = "notify" /\ pv.answerSource = "llm" /\ output.reads = pv.answerText.reads

RunOK(r) ==
    /\ r.phase = "write" => Proper(r.output)
    /\ r.phase # "write" => r.reason = "none"
    /\ r.reason # "none" /\ step # "classify" => TemplateReads(r.output)

OutputOK ==
    /\ RunOK(run)
    /\ step \notin JobTypes => run.phase = "first"

StageOK ==
    /\ step \in {"classify", "resolve"} => pv.resolution = "none" /\ pv.answerText = None
    /\ step = "answer" => pv.resolution = "answered" /\ pv.answerText = None
    /\ step # "done" => pv.customerMessage = None /\ pv.notifySource = "none"
    /\ step \in JobTypes => pv.classified = None
    /\ pv.answerText = None <=> pv.answerSource = "none"

TextsOK == \A text \in {pv.answerText, pv.customerMessage} \ {None} : text \in Texts /\ Fits(text)

TemplatesOK ==
    /\ pv.answerSource = "fallback" => pv.answerText.reads = pv.answerText.language
    /\ pv.notifySource = "fallback" /\ pv.customerMessage.reads # pv.customerMessage.language =>
          /\ pv.answerSource = "llm"
          /\ pv.customerMessage.reads = pv.answerText.reads

RepliesInv == OutputOK /\ StageOK /\ TextsOK /\ TemplatesOK /\ UnreviewedIsConfident

\* What a run has counted: while it calls, and when it comes to its row.
Downs(said) == Cardinality({i \in DOMAIN said : said[i] = "down"})
Counts(r) ==
    /\ Len(r.said) = IF r.phase = "first" THEN 0 ELSE 1
    /\ r.responses = Len(r.said) /\ Len(r.violations) = Len(r.said)
    /\ \A i \in 1 .. Len(r.said) : r.said[i] # "down"
    /\ r.reason = "none"
Accounts(r) ==
    LET last == r.said[Len(r.said)]
    IN  /\ r.responses = Len(r.said) - Downs(r.said)
        /\ \/ r.reason = "none" /\ last # "down"
           \/ r.reason = "api_error" /\ last = "down"
           \/ /\ r.reason \in Codes /\ last = "bad"
              /\ Len(r.violations) = 2 /\ r.reason = r.violations[2]

RunTold == (run.phase # "write" => Counts(run)) /\ (run.phase = "write" => Accounts(run))
RowInv  == RunTold /\ RowTellsTheRun

-----------------------------------------------------------------------------
(* The rules and the policy.                                               *)

LEMMA LeastIndex == ASSUME NEW I, I \subseteq 1 .. 4, I # {} PROVE Min(I) \in I
<1>1. \E x \in I : \A y \in I : x =< y
  <2>1. CASE 1 \in I BY <2>1
  <2>2. CASE 1 \notin I /\ 2 \in I BY <2>2
  <2>3. CASE 1 \notin I /\ 2 \notin I /\ 3 \in I BY <2>3
  <2>4. CASE 1 \notin I /\ 2 \notin I /\ 3 \notin I
    <3>1. \A y \in I : y \in 1 .. 4 OBVIOUS
    <3>2. \A y \in I : y = 4 BY <2>4, <3>1
    <3>3. PICK x \in I : TRUE OBVIOUS
    <3>4. \A y \in I : x =< y BY <3>2, <3>3
    <3>5. QED BY <3>3, <3>4
  <2>5. QED BY <2>1, <2>2, <2>3, <2>4
<1>2. QED BY <1>1 DEF Min

LEMMA RuleTypes ==
    ASSUME NEW i \in 1 .. 4
    PROVE  CLASSIFY_RULES[i].intent \in INTENTS /\ CLASSIFY_RULES[i].confidence \in 0 .. 100
BY DEF CLASSIFY_RULES, INTENTS

LEMMA KeywordsType ==
    ASSUME NEW subject
    PROVE  Keywords(subject).intent \in INTENTS /\ Keywords(subject).confidence \in 0 .. 100
<1> DEFINE Matches(rule) ==
        subject.words \cap rule.contains # {} \/ subject.start \in rule.starts
<1> DEFINE I == {i \in 1 .. Len(CLASSIFY_RULES) : Matches(CLASSIFY_RULES[i])}
<1> DEFINE first == IF I # {} THEN Min(I) ELSE 0
<1>1. Len(CLASSIFY_RULES) = 4 BY DEF CLASSIFY_RULES
<1>2. I \subseteq 1 .. 4 BY <1>1
<1>3. Keywords(subject) = IF first = 0 THEN CLASSIFY_DEFAULT ELSE CLASSIFY_RULES[first]
  BY DEF Keywords, SelectInSeq
<1>4. first \in 0 .. 4
  <2> HIDE DEF I
  <2>1. CASE I = {} BY <2>1
  <2>2. CASE I # {}
    <3>1. Min(I) \in I BY <2>2, <1>2, LeastIndex
    <3>2. Min(I) \in 1 .. 4 BY <3>1, <1>2
    <3>3. QED BY <2>2, <3>2
  <2>3. QED BY <2>1, <2>2
<1> HIDE DEF first
<1>5. CLASSIFY_DEFAULT.intent \in INTENTS /\ CLASSIFY_DEFAULT.confidence \in 0 .. 100
  BY DEF CLASSIFY_DEFAULT, INTENTS
<1>6. QED BY <1>3, <1>4, <1>5, RuleTypes

\* An answer that passes the schema is judged by the policy.
LEMMA ClassifiedIsJudged ==
    ASSUME NEW reply, reply.answer \in Answers(Int), ValidClassification(reply)
    PROVE  LET c == Classified(reply.answer, Keywords(ticket.subject))
           IN  c \in Classifications /\ Judged(c)
<1> DEFINE a == reply.answer
           rules == Keywords(ticket.subject)
           reasons == ReviewReasons(a, rules)
<1>1. a.intent \in INTENTS /\ a.detectedLanguage \in LANGUAGES /\ a.confidence \in Int
  BY DEF Answers
<1>2. a.confidence \in (0 .. 100) \cup {NaN}
  BY <1>1 DEF ValidClassification, Less, NaN
<1>3. (reasons # {}) \in BOOLEAN OBVIOUS
<1>4. Classified(a, rules) \in Classifications
  BY <1>1, <1>2, <1>3 DEF Classified, Classifications, Sources
<1>5. ASSUME reasons = {}, a.confidence # NaN
      PROVE  /\ a.confidence \in Threshold .. 100
             /\ rules.intent # a.intent /\ rules.confidence >= RULES_CONFIDENCE_FLOOR
                    => a.confidence >= LLM_CONFIDENCE_CEILING
  <2>1. "below_threshold" \notin reasons /\ "cross_check" \notin reasons BY <1>5
  <2>2. ~Less(a.confidence, Threshold) BY <2>1 DEF ReviewReasons
  <2>3. rules.intent # a.intent /\ rules.confidence >= RULES_CONFIDENCE_FLOOR
            => ~Less(a.confidence, LLM_CONFIDENCE_CEILING)
    BY <2>1 DEF ReviewReasons
  <2>4. a.confidence \in 0 .. 100 BY <1>2, <1>5
  <2>5. \A limit \in 0 .. 100 : ~Less(a.confidence, limit) => a.confidence >= limit
    BY <2>4 DEF Less, NaN
  <2>6. a.confidence >= Threshold BY <2>2, <2>5, ThresholdAssumption
  <2>7. ~Less(a.confidence, LLM_CONFIDENCE_CEILING) => a.confidence >= LLM_CONFIDENCE_CEILING
    BY <2>5 DEF LLM_CONFIDENCE_CEILING
  <2>8. QED BY <2>3, <2>4, <2>6, <2>7, ThresholdAssumption
<1>6. QED BY <1>4, <1>5 DEF Judged, Confident, Classified

\* The rules in place of an answer ask for a review.
LEMMA RulesAreJudged ==
    LET c == ClassifiedByRules(Keywords(ticket.subject)) IN c \in Classifications /\ Judged(c)
BY KeywordsType DEF ClassifiedByRules, Classifications, Sources, LANGUAGES, Judged

-----------------------------------------------------------------------------
(* The texts.                                                              *)

LEMMA LanguageType ==
    /\ Language \in REPLY_LANGUAGES
    /\ ticket.language \in REPLY_LANGUAGES => Language = ticket.language
BY DEF Language, ReplyLanguage, REPLY_LANGUAGES

LEMMA AllowedIsSayable ==
    ASSUME TypeOK, StageOK, TextsOK, step \in {"answer", "notify"}
    PROVE  Allowed \subseteq Sayable /\ AnswerNumbers \subseteq Sayable
<1>1. AnswerNumbers \subseteq Sayable
  BY DEF AnswerNumbers, TextsOK, Fits
<1>2. QED BY <1>1 DEF Allowed, Sayable

\* A text that passes the checks is proper, and so is a template.
LEMMA AcceptedIsProper ==
    ASSUME TypeOK, StageOK, TextsOK, step \in JobTypes, NEW reply, Check(reply) = "ok",
           reply.answer \in IF step = "classify" THEN Answers(Int) ELSE TextAnswers
    PROVE  Proper(Accepted(reply))
<1>1. CASE step = "classify"
  BY <1>1, ClassifiedIsJudged DEF Check, Accepted, Proper
<1>2. CASE step \in {"answer", "notify"}
  <2>1. reply.answer.text \in Texts BY <1>2 DEF TextAnswers
  <2>2. reply.answer.text.language = Language /\ reply.answer.text.numbers \subseteq Allowed
    BY <1>2 DEF Check, TextCheck
  <2>3. QED BY <1>2, <2>1, <2>2, AllowedIsSayable DEF Accepted, Proper, Fits
<1>3. QED BY <1>1, <1>2 DEF JobTypes

LEMMA FallbackIsProper ==
    ASSUME TypeOK, StageOK, TextsOK, TemplatesOK, step \in JobTypes
    PROVE  Proper(Fallback) /\ (step # "classify" => TemplateReads(Fallback))
<1>1. CASE step = "classify" BY <1>1, RulesAreJudged DEF Fallback, Proper
<1>2. CASE step = "answer"
  BY <1>2, LanguageType
     DEF Fallback, AnswerHandover, Proper, Texts, Fits, REPLY_LANGUAGES, LANGUAGES, TemplateReads
<1>3. CASE step = "notify"
  <2>1. Refund \subseteq Sayable /\ "ticket" \in Sayable BY DEF Sayable
  <2>2. Sayable \subseteq Numbers BY DEF Sayable, Refund, Numbers
  <2>3. Language \in REPLY_LANGUAGES /\ Language \in LANGUAGES
    BY LanguageType DEF REPLY_LANGUAGES, LANGUAGES
  <2>4. Repeated \in Texts /\ Fits(Repeated)
    BY <2>3 DEF Repeated, AnswerHandover, TextsOK, Texts, Fits
  <2>5. \/ Repeated.reads = Language
        \/ pv.answerSource = "llm" /\ Repeated.reads = pv.answerText.reads
    <3>1. CASE pv.answerText = None BY <3>1 DEF Repeated, AnswerHandover
    <3>2. CASE pv.answerText # None
      <4>1. pv.answerSource \in {"llm", "fallback"} /\ Repeated = pv.answerText
        BY <3>2 DEF Repeated, StageOK, TypeOK, Sources
      <4>2. QED BY <2>4, <4>1 DEF TemplatesOK, Fits
    <3>3. QED BY <3>1, <3>2
  <2>6. Fallback = NotifyMessage(Language, pv.resolution, Refund, Repeated)
    BY <1>3 DEF Fallback
  <2>7. /\ Fallback.language = Language
        /\ Fallback.reads = IF pv.resolution = "answered" THEN Repeated.reads ELSE Language
        /\ Fallback \in Texts /\ Fallback.numbers \subseteq Sayable
    BY <2>1, <2>2, <2>3, <2>4, <2>6 DEF NotifyMessage, Texts, Fits
  <2>8. QED BY <1>3, <2>5, <2>7 DEF Proper, Fits, TemplateReads
<1>4. QED BY <1>1, <1>2, <1>3 DEF JobTypes

-----------------------------------------------------------------------------
(* Types.                                                                  *)

LEMMA FreshType == Fresh \in Runs /\ Fresh.phase = "first"
<1>1. <<>> \in Seq(Codes) /\ <<>> \in Seq({"good", "bad", "down"}) OBVIOUS
<1>2. QED BY <1>1 DEF Fresh, Runs

LEMMA CheckType == ASSUME NEW reply PROVE Check(reply) \in Codes \cup {"ok"}
BY DEF Check, TextCheck, Codes

LEMMA CountedType ==
    ASSUME TypeOK, NEW reply, NEW outcome \in Codes \cup {"ok"}
    PROVE  Counted(reply, outcome) \in Runs /\ Counted(reply, outcome).phase = run.phase
<1>1. Saying(reply) \in {"good", "bad", "down"} BY DEF Saying
<1>2. Append(run.said, Saying(reply)) \in Seq({"good", "bad", "down"})
  BY <1>1 DEF TypeOK, Runs
<1>3. outcome # "ok" => Append(run.violations, outcome) \in Seq(Codes)
  BY DEF TypeOK, Runs
<1>4. run.responses + 1 \in Nat BY DEF TypeOK, Runs
<1>5. QED BY <1>2, <1>3, <1>4 DEF TypeOK, Runs, Counted

LEMMA ProperType ==
    ASSUME step \in JobTypes, NEW output, Proper(output)
    PROVE  output \in Classifications \cup Texts
BY DEF Proper, JobTypes

\* A run that falls back has a proper output.
LEMMA FallsBackType ==
    ASSUME TypeOK, StageOK, TextsOK, TemplatesOK, step \in JobTypes, NEW r \in Runs,
           NEW reason \in Codes \cup {"api_error"}
    PROVE  FallsBack(r, reason) \in Runs /\ RunOK(FallsBack(r, reason))
<1>1. /\ Proper(Fallback) /\ Fallback \in Classifications \cup Texts
      /\ step # "classify" => TemplateReads(Fallback)
  BY FallbackIsProper, ProperType
<1> DEFINE fallen == FallsBack(r, reason)
<1>2. fallen \in Runs /\ fallen.phase = "write" /\ fallen.output = Fallback
  BY <1>1 DEF FallsBack, Runs
<1> HIDE DEF fallen
<1>3. RunOK(fallen) BY <1>1, <1>2 DEF RunOK
<1>4. QED BY <1>2, <1>3 DEF fallen

LEMMA ReplyAnswers ==
    ASSUME NEW reply \in IF step = "classify" THEN ClassifyReplies ELSE TextReplies
    PROVE  /\ reply.answer \in IF step = "classify" THEN Answers(Int) ELSE TextAnswers
           /\ reply.answer.clean \in BOOLEAN
BY RepliesAssumption DEF Answers, TextAnswers

\* What a reply makes of the run.
LEMMA RepliedRun ==
    ASSUME TypeOK, OutputOK, StageOK, TextsOK, TemplatesOK,
           NEW reply \in IF step = "classify" THEN ClassifyReplies ELSE TextReplies, Replied(reply)
    PROVE  run' \in Runs /\ RunOK(run')
<1> DEFINE outcome == Check(reply)
           counted == Counted(reply, outcome)
<1>1. step \in JobTypes /\ run.phase \in {"first", "second"} BY DEF Replied, Calling, Running
<1>2. outcome \in Codes \cup {"ok"} BY CheckType
<1>3. counted \in Runs /\ counted.phase = run.phase /\ counted.reason = "none"
  <2>1. counted \in Runs /\ counted.phase = run.phase BY <1>2, CountedType
  <2>2. run.reason = "none" BY <1>1 DEF OutputOK, RunOK
  <2>3. QED BY <2>1, <2>2 DEF Counted, TypeOK, Runs
<1>4. CASE outcome = "ok"
  <2>1. Proper(Accepted(reply)) /\ Accepted(reply) \in Classifications \cup Texts
    BY <1>1, <1>4, ReplyAnswers, AcceptedIsProper, ProperType
  <2>2. run' = [counted EXCEPT !.phase = "write", !.output = Accepted(reply),
                               !.clean = reply.answer.clean]
    BY <1>4 DEF Replied
  <2> HIDE DEF counted
  <2>3. QED BY <1>3, <2>1, <2>2, ReplyAnswers DEF Runs, RunOK
<1>5. CASE outcome # "ok" /\ run.phase = "first"
  <2>1. run' = [counted EXCEPT !.phase = "second"] BY <1>5 DEF Replied
  <2> HIDE DEF counted
  <2>2. QED BY <1>3, <2>1 DEF Runs, RunOK
<1>6. CASE outcome # "ok" /\ run.phase # "first"
  <2>1. run' = FallsBack(counted, outcome) BY <1>6 DEF Replied
  <2>2. outcome \in Codes BY <1>2, <1>6
  <2> HIDE DEF counted, outcome
  <2>3. QED BY <1>1, <1>3, <2>1, <2>2, FallsBackType
<1>7. QED BY <1>4, <1>5, <1>6

-----------------------------------------------------------------------------
(* The steps.                                                              *)

\* The callback goes on, and nothing is returned yet.
LEMMA OnlyRunMoves ==
    ASSUME RepliesInv, step \in JobTypes, UNCHANGED <<ticket, step, pv>>,
           RunOK(run')
    PROVE  RepliesInv'
<1>1. OutputOK'
  BY DEF OutputOK, RunOK, TemplateReads, Proper, Judged, Confident, Fits, Sayable, Refund, Language
<1>2. StageOK' /\ TextsOK' /\ TemplatesOK' /\ UnreviewedIsConfident'
  BY DEF RepliesInv, StageOK, TextsOK, TemplatesOK, UnreviewedIsConfident, Fits, Sayable, Refund,
     Language
<1>3. QED BY <1>1, <1>2 DEF RepliesInv

LEMMA JobFailsKeeps ==
    ASSUME TypeOK, RepliesInv, step \in JobTypes, retries > 0, JobFails
    PROVE  TypeOK' /\ RepliesInv'
<1>1. retries' \in 0 .. MaxRetries BY RepliesAssumption DEF TypeOK, JobFails
<1>2. TypeOK' BY <1>1, FreshType DEF TypeOK, JobFails
<1>3. RunOK(Fresh) BY FreshType DEF RunOK, Fresh
<1>4. RepliesInv' BY <1>3, OnlyRunMoves DEF JobFails
<1>5. QED BY <1>2, <1>4

\* The output of the run becomes the process's.
LEMMA CompletesKeepsInv ==
    ASSUME TypeOK, RepliesInv, Completes
    PROVE  RepliesInv'
<1>1. /\ step \in JobTypes /\ Proper(run.output) /\ pv' = Returned
      /\ ticket' = ticket /\ run' = Fresh
      /\ step = "classify" => run.output.confidence # NaN
      /\ Source = "fallback" /\ step # "classify" => TemplateReads(run.output)
  BY DEF Completes, Running, RepliesInv, OutputOK, RunOK, Storable, Source
<1>2. OutputOK' BY <1>1, FreshType DEF OutputOK, RunOK, Fresh
<1>3. CASE step = "classify"
  <2>1. step' = "resolve" BY <1>3 DEF Completes
  <2>2. /\ pv'.classified = run.output /\ pv'.resolution = "none"
        /\ pv'.answerText = None /\ pv'.customerMessage = None
        /\ pv'.answerSource = "none" /\ pv'.notifySource = "none"
    BY <1>1, <1>3 DEF Returned, RepliesInv, StageOK, TypeOK
  <2>3. Judged(run.output) /\ run.output.confidence # NaN BY <1>1, <1>3 DEF Proper
  <2>4. UnreviewedIsConfident'
    BY <1>1, <2>2, <2>3 DEF UnreviewedIsConfident, Judged, Confident
  <2>5. StageOK' /\ TextsOK' /\ TemplatesOK'
    BY <2>1, <2>2 DEF StageOK, TextsOK, TemplatesOK, JobTypes
  <2>6. QED BY <1>2, <2>4, <2>5 DEF RepliesInv
<1>4. CASE step \in {"answer", "notify"}
  <2>1. /\ pv'.classified = None /\ pv'.resolution = pv.resolution
        /\ pv'.detectedLanguage = pv.detectedLanguage
    BY <1>1, <1>4 DEF Returned, RepliesInv, StageOK, TypeOK, JobTypes
  <2>2. Language' = Language /\ Sayable' = Sayable
    BY <1>1, <2>1 DEF Language, Sayable, Refund
  <2>3. \A text : Fits(text)' <=> text.numbers \subseteq Sayable /\ text.language = Language
    BY <2>2 DEF Fits
  <2>4. run.output \in Texts /\ Fits(run.output) BY <1>1, <1>4 DEF Proper
  <2>5. pv'.answerText \in {pv.answerText, run.output}
        /\ pv'.customerMessage \in {pv.customerMessage, run.output}
    BY <1>1, <1>4 DEF Returned, TypeOK
  <2>6. TextsOK'
    <3> SUFFICES ASSUME NEW text \in {pv'.answerText, pv'.customerMessage} \ {None}
                 PROVE  text \in Texts /\ Fits(text)'
      BY DEF TextsOK
    <3>1. text \in Texts /\ Fits(text) BY <2>4, <2>5 DEF RepliesInv, TextsOK
    <3>2. QED BY <2>3, <3>1 DEF Fits
  <2>7. run.output # None /\ Source \in {"llm", "fallback"} BY <2>4 DEF Texts, None, Source
  <2>8. StageOK' /\ TemplatesOK'
    <3>1. CASE step = "answer"
      <4>1. /\ pv'.answerText = run.output /\ pv'.answerSource = Source
            /\ pv'.customerMessage = None /\ pv'.notifySource = "none" /\ step' = "notify"
        BY <1>1, <3>1 DEF Returned, Completes, RepliesInv, StageOK, TypeOK
      <4>2. Source = "fallback" => run.output.reads = run.output.language
        BY <1>1, <3>1 DEF TemplateReads
      <4>3. QED BY <2>1, <2>7, <4>1, <4>2 DEF StageOK, TemplatesOK
    <3>2. CASE step = "notify"
      <4>1. /\ pv'.answerText = pv.answerText /\ pv'.answerSource = pv.answerSource
            /\ pv'.customerMessage = run.output /\ pv'.notifySource = Source /\ step' = "done"
        BY <1>1, <3>2 DEF Returned, Completes, TypeOK
      <4>2. Source = "fallback" /\ run.output.reads # run.output.language =>
                pv.answerSource = "llm" /\ run.output.reads = pv.answerText.reads
        BY <1>1, <3>2 DEF TemplateReads
      <4>3. StageOK /\ TemplatesOK BY DEF RepliesInv
      <4>4. QED BY <2>1, <2>7, <4>1, <4>2, <4>3 DEF StageOK, TemplatesOK, JobTypes
    <3>3. QED BY <1>4, <3>1, <3>2
  <2>9. UnreviewedIsConfident' BY <2>1 DEF UnreviewedIsConfident
  <2>10. QED BY <1>2, <2>6, <2>8, <2>9 DEF RepliesInv
<1>5. QED BY <1>1, <1>3, <1>4 DEF JobTypes

LEMMA CompletesKeepsType ==
    ASSUME TypeOK, RepliesInv, Completes
    PROVE  TypeOK'
<1>1. step \in JobTypes /\ Proper(run.output) /\ run \in Runs
  BY DEF Completes, Running, RepliesInv, OutputOK, RunOK, TypeOK
<1>2. pv' \in [classified : Classifications \cup {None}, detectedLanguage : LANGUAGES,
               resolution : Resolutions \cup {"none"},
               answerText : Texts \cup {None}, answerSource : Sources \cup {"none"},
               customerMessage : Texts \cup {None}, notifySource : Sources \cup {"none"}]
  <2>1. CASE step = "classify"
    <3>1. run.output \in Classifications BY <1>1, <2>1 DEF Proper
    <3>2. run.output.detectedLanguage \in LANGUAGES BY <3>1 DEF Classifications
    <3>3. QED BY <2>1, <3>1, <3>2 DEF Completes, Returned, TypeOK
  <2>2. CASE step \in {"answer", "notify"}
    <3>1. run.output \in Texts /\ Source \in Sources BY <1>1, <2>2 DEF Proper, Source, Sources
    <3>2. QED BY <2>2, <3>1 DEF Completes, Returned, TypeOK
  <2>3. QED BY <1>1, <2>1, <2>2 DEF JobTypes
<1>3. row' \in [job : JobTypes, source : Sources, reason : Codes \cup {"none", "api_error"},
           violations : Seq(Codes), responses : Nat, said : Seq({"good", "bad", "down"})]
  <2>1. <<>> \in Seq(Codes) OBVIOUS
  <2>2. QED BY <1>1, <2>1 DEF Completes, Runs, Source, Sources
<1>4. step' \in JobTypes \cup {"resolve", "done"} /\ retries' \in 0 .. MaxRetries
  BY RepliesAssumption DEF Completes, JobTypes
<1>5. QED BY <1>2, <1>3, <1>4, FreshType DEF TypeOK, Completes

\* From here on there is a resolution; what may be said grows with a refund.
LEMMA ResolveKeeps ==
    ASSUME TypeOK, RepliesInv, Resolve
    PROVE  TypeOK' /\ RepliesInv'
<1>1. PICK resolution \in Resolutions :
          /\ pv' = [pv EXCEPT !.classified = None, !.resolution = resolution]
          /\ step' = IF resolution = "answered" THEN "answer" ELSE "notify"
  BY DEF Resolve
<1>2. /\ pv'.classified = None /\ pv'.resolution = resolution
      /\ pv'.answerText = pv.answerText /\ pv'.customerMessage = pv.customerMessage
      /\ pv'.answerSource = pv.answerSource /\ pv'.notifySource = pv.notifySource
  BY <1>1 DEF TypeOK
<1>3. /\ pv.answerText = None /\ pv.customerMessage = None
      /\ pv.answerSource = "none" /\ pv.notifySource = "none"
  BY DEF Resolve, RepliesInv, StageOK
<1>4. TypeOK' BY <1>1 DEF TypeOK, Resolve, JobTypes
<1>5. OutputOK'
  <2>1. run'.phase = "first" /\ run'.reason = "none"
    BY DEF Resolve, RepliesInv, OutputOK, RunOK, JobTypes
  <2>2. QED BY <2>1 DEF OutputOK, RunOK
<1>6. StageOK' BY <1>1, <1>2, <1>3 DEF StageOK, Resolve
<1>7. TextsOK' /\ TemplatesOK' /\ UnreviewedIsConfident'
  BY <1>2, <1>3 DEF TextsOK, TemplatesOK, UnreviewedIsConfident
<1>8. QED BY <1>4, <1>5, <1>6, <1>7 DEF RepliesInv

LEMMA InitInv == ASSUME Init PROVE TypeOK /\ RepliesInv
<1>1. TypeOK BY FreshType, RepliesAssumption DEF Init, TypeOK, JobTypes, LANGUAGES
<1>2. OutputOK BY FreshType DEF Init, OutputOK, RunOK, Fresh, JobTypes
<1>3. StageOK /\ TextsOK /\ TemplatesOK /\ UnreviewedIsConfident
  BY DEF Init, StageOK, TextsOK, TemplatesOK, UnreviewedIsConfident, JobTypes
<1>4. QED BY <1>1, <1>2, <1>3 DEF RepliesInv

LEMMA StepKeepsInv ==
    ASSUME TypeOK, RepliesInv, [Next]_vars
    PROVE  TypeOK' /\ RepliesInv'
<1>1. ASSUME NEW reply \in IF step = "classify" THEN ClassifyReplies ELSE TextReplies,
             Replied(reply)
      PROVE  TypeOK' /\ RepliesInv'
  <2>1. run' \in Runs /\ RunOK(run')
    BY <1>1, RepliedRun DEF RepliesInv
  <2>2. TypeOK' BY <1>1, <2>1 DEF TypeOK, Replied
  <2>3. RepliesInv' BY <1>1, <2>1, OnlyRunMoves DEF Replied, Calling, Running
  <2>4. QED BY <2>2, <2>3
<1>2. CASE ProviderFails
  <2> DEFINE failed == [run EXCEPT !.said = Append(@, "down")]
  <2>1. Append(run.said, "down") \in Seq({"good", "bad", "down"}) BY DEF TypeOK, Runs
  <2>2. failed \in Runs BY <2>1 DEF TypeOK, Runs
  <2>3. run' = FallsBack(failed, "api_error") /\ step \in JobTypes
    BY <1>2 DEF ProviderFails, Calling, Running
  <2> HIDE DEF failed
  <2>4. run' \in Runs /\ RunOK(run') BY <2>2, <2>3, FallsBackType DEF RepliesInv
  <2>5. TypeOK' BY <1>2, <2>4 DEF TypeOK, ProviderFails
  <2>6. RepliesInv' BY <1>2, <2>3, <2>4, OnlyRunMoves DEF ProviderFails
  <2>7. QED BY <2>5, <2>6
<1>3. CASE ProviderRejects
  BY <1>3, JobFailsKeeps DEF ProviderRejects, Calling, Running
<1>4. CASE RowRefused
  BY <1>4, JobFailsKeeps DEF RowRefused, Running
<1>5. CASE Completes BY <1>5, CompletesKeepsInv, CompletesKeepsType
<1>6. CASE Resolve BY <1>6, ResolveKeeps
<1>7. ASSUME UNCHANGED <<ticket, step, pv, run>> PROVE RepliesInv'
  BY <1>7 DEF RepliesInv, OutputOK, RunOK, TemplateReads, StageOK, TextsOK, TemplatesOK,
     UnreviewedIsConfident, Proper, Judged, Confident, Fits, Sayable, Refund, Language
<1>8. CASE Retry
  <2>1. TypeOK' BY <1>8, RepliesAssumption DEF TypeOK, Retry
  <2>2. QED BY <1>7, <1>8, <2>1 DEF Retry
<1>9. CASE UNCHANGED vars
  <2>1. TypeOK' BY <1>9 DEF TypeOK, vars
  <2>2. QED BY <1>7, <1>9, <2>1 DEF vars
<1>10. QED
  BY <1>1, <1>2, <1>3, <1>4, <1>5, <1>6, <1>8, <1>9 DEF Next, Rest

-----------------------------------------------------------------------------
(* The packaging of an answer.                                             *)

\* An object with nothing but its members, in a text that starts with fences and
\* prose and goes on with anything.
ObjectAt(text, m, n) ==
    /\ text \in Seq(Tokens)
    /\ m \in 1 .. Len(text) /\ n \in m + 1 .. Len(text)
    /\ text[m] = "open" /\ text[n] = "close"
    /\ \A k \in 1 .. m - 1 : text[k] \in {"fence", "prose"}
    /\ \A k \in m + 1 .. n - 1 : text[k] = "members"

LEMMA LeastIsChosen ==
    ASSUME NEW I, I \subseteq Int, NEW m \in I, \A k \in I : m =< k
    PROVE  (CHOOSE x \in I : \A y \in I : x =< y) = m
<1> DEFINE least == CHOOSE x \in I : \A y \in I : x =< y
<1>1. \E x \in I : \A y \in I : x =< y OBVIOUS
<1>2. least \in I /\ \A y \in I : least =< y BY <1>1, Zenon
<1> HIDE DEF least
<1>3. least = m BY <1>2
<1>4. QED BY <1>3 DEF least

LEMMA FirstOpening ==
    ASSUME NEW text, NEW m, NEW n, ObjectAt(text, m, n)
    PROVE  SelectInSeq(text, Opening) = m
<1> DEFINE I == {k \in 1 .. Len(text) : Opening(text[k])}
<1>1. Len(text) \in Nat /\ m \in 1 .. Len(text) BY LenProperties DEF ObjectAt
<1>2. m \in I /\ \A k \in I : m =< k
  BY <1>1 DEF ObjectAt, Opening
<1>3. I \subseteq Int BY <1>1
<1> HIDE DEF I
<1>4. Min(I) = m BY <1>2, <1>3, LeastIsChosen DEF Min
<1>5. I # {} BY <1>2
<1>6. SelectInSeq(text, Opening) = IF I # {} THEN Min(I) ELSE 0 BY DEF SelectInSeq, I
<1>7. QED BY <1>4, <1>5, <1>6

\* Where the count of braces is level.
Level(rest) ==
    {i \in 1 .. Len(rest) : Cardinality({k \in 1 .. i : Opening(rest[k])})
                               = Cardinality({k \in 1 .. i : Closing(rest[k])})}

\* The count of braces is level at the end of the object, and not before.
LEMMA LevelAtTheEnd ==
    ASSUME NEW rest, NEW n, ObjectAt(rest, 1, n)
    PROVE  Level(rest) # {} /\ (CHOOSE i \in Level(rest) : \A k \in Level(rest) : i <= k) = n
<1> DEFINE Opens(i)  == {k \in 1 .. i : Opening(rest[k])}
           Closes(i) == {k \in 1 .. i : Closing(rest[k])}
<1>1. Len(rest) \in Nat /\ n \in 2 .. Len(rest) BY LenProperties DEF ObjectAt
<1>2. ASSUME NEW i \in 1 .. n - 1 PROVE Opens(i) = {1} /\ Closes(i) = {}
  BY <1>1, <1>2 DEF ObjectAt, Opening, Closing
<1>3. Opens(n) = {1} /\ Closes(n) = {n}
  BY <1>1 DEF ObjectAt, Opening, Closing
<1> HIDE DEF Opens, Closes
<1>4. \A i \in 1 .. n - 1 : Cardinality(Opens(i)) = 1 /\ Cardinality(Closes(i)) = 0
  BY <1>2, FS_EmptySet, FS_Singleton
<1>5. Cardinality(Opens(n)) = 1 /\ Cardinality(Closes(n)) = 1
  BY <1>3, FS_Singleton
<1>6. Level(rest) = {i \in 1 .. Len(rest) : Cardinality(Opens(i)) = Cardinality(Closes(i))}
  BY DEF Level, Opens, Closes
<1>7. n \in Level(rest) /\ Level(rest) \subseteq Int /\ \A k \in Level(rest) : n =< k
  BY <1>1, <1>4, <1>5, <1>6
<1>8. QED BY <1>7, LeastIsChosen

LEMMA RestOfObject ==
    ASSUME NEW text, NEW m, NEW n, ObjectAt(text, m, n)
    PROVE  ObjectAt(SubSeq(text, m, Len(text)), 1, n - m + 1)
<1> DEFINE rest == SubSeq(text, m, Len(text))
<1>1. /\ text \in Seq(Tokens) /\ Len(text) \in Nat /\ m \in 1 .. Len(text)
      /\ n \in m + 1 .. Len(text)
  BY LenProperties DEF ObjectAt
<1>2. \A i \in m .. Len(text) : text[i] \in Tokens BY <1>1, ElementOfSeq
<1>3. /\ rest \in Seq(Tokens) /\ Len(rest) = Len(text) - m + 1
      /\ \A i \in 1 .. Len(text) - m + 1 : rest[i] = text[m + i - 1]
  BY <1>1, <1>2, SubSeqProperties
<1> HIDE DEF rest
<1>4. rest[1] = text[m] /\ rest[n - m + 1] = text[n] BY <1>1, <1>3
<1>5. \A k \in 2 .. n - m : rest[k] = text[m + k - 1] /\ m + k - 1 \in m + 1 .. n - 1
  BY <1>1, <1>3
<1>6. n - m + 1 \in 2 .. Len(rest) /\ Len(rest) \in Nat BY <1>1, <1>3
<1>7. \A k \in 2 .. n - m : rest[k] = "members" BY <1>5 DEF ObjectAt
<1>8. QED BY <1>1, <1>3, <1>4, <1>6, <1>7 DEF ObjectAt, rest

\* An object is read as it stands.
LEMMA ObjectIsRead ==
    ASSUME NEW text, NEW n, ObjectAt(text, 1, n), Len(text) = n
    PROVE  IsObject(text) <=> n > 2
<1> DEFINE inside == SubSeq(text, 2, Len(text) - 1)
<1>1. text \in Seq(Tokens) /\ Len(text) = n /\ n \in Nat /\ n >= 2
  BY LenProperties DEF ObjectAt
<1>2. text[1] = "open" /\ text[n] = "close" /\ \A i \in 2 .. n - 1 : text[i] = "members"
  BY <1>1 DEF ObjectAt
<1>3. \A i \in 2 .. n - 1 : text[i] \in Tokens BY <1>1, ElementOfSeq
<1>4. /\ inside \in Seq(Tokens) /\ Len(inside) = n - 2
      /\ \A i \in 1 .. n - 2 : inside[i] = text[i + 1]
  BY <1>1, <1>3, SubSeqProperties
<1> HIDE DEF inside
<1>5. DOMAIN inside = 1 .. n - 2 /\ \A i \in 1 .. n - 2 : inside[i] = "members"
  BY <1>1, <1>2, <1>4, LenProperties
<1>6. n > 2 => 1 \in DOMAIN inside BY <1>1, <1>5
<1>7. QED BY <1>1, <1>2, <1>5, <1>6 DEF IsObject, Last, inside

\* A fence is taken off in front and behind.
LEMMA FenceInFront ==
    ASSUME NEW text, NEW m, NEW n, ObjectAt(text, m, n), Head(text) = "fence"
    PROVE  ObjectAt(Tail(text), m - 1, n - 1)
<1>1. /\ text \in Seq(Tokens) /\ Len(text) \in Nat /\ m \in 1 .. Len(text)
      /\ n \in m + 1 .. Len(text) /\ text # <<>>
  BY LenProperties, EmptySeq DEF ObjectAt
<1>2. /\ Tail(text) \in Seq(Tokens) /\ Len(Tail(text)) = Len(text) - 1
      /\ \A i \in 1 .. Len(text) - 1 : Tail(text)[i] = text[i + 1]
  BY <1>1, HeadTailProperties
<1>3. Head(text) = text[1] BY <1>1
<1>4. m # 1 BY <1>3 DEF ObjectAt
<1> DEFINE tail == Tail(text)
<1> HIDE DEF tail
<1>5. m - 1 \in 1 .. Len(tail) /\ n - 1 \in m .. Len(tail) BY <1>1, <1>2, <1>4 DEF tail
<1>6. tail[m - 1] = "open" /\ tail[n - 1] = "close"
  <2>1. tail[m - 1] = text[m] /\ tail[n - 1] = text[n] BY <1>1, <1>2, <1>4 DEF tail
  <2>2. QED BY <2>1 DEF ObjectAt
<1>7. ASSUME NEW k \in 1 .. m - 2 PROVE tail[k] \in {"fence", "prose"}
  <2>1. tail[k] = text[k + 1] /\ k + 1 \in 1 .. m - 1 BY <1>1, <1>2, <1>7 DEF tail
  <2>2. QED BY <2>1 DEF ObjectAt
<1>8. ASSUME NEW k \in m .. n - 2 PROVE tail[k] = "members"
  <2>1. tail[k] = text[k + 1] /\ k + 1 \in m + 1 .. n - 1 BY <1>1, <1>2, <1>8 DEF tail
  <2>2. QED BY <2>1 DEF ObjectAt
<1>9. m - 1 - 1 = m - 2 /\ m - 1 + 1 = m /\ n - 1 - 1 = n - 2 BY <1>1
<1>10. tail \in Seq(Tokens) BY <1>2 DEF tail
<1>11. ObjectAt(tail, m - 1, n - 1) BY <1>5, <1>6, <1>7, <1>8, <1>9, <1>10 DEF ObjectAt
<1>12. QED BY <1>11 DEF tail

LEMMA ObjectInFront ==
    ASSUME NEW text, NEW m, NEW n, ObjectAt(text, m, n), NEW len \in n .. Len(text)
    PROVE  ObjectAt(SubSeq(text, 1, len), m, n) /\ Len(SubSeq(text, 1, len)) = len
<1> DEFINE front == SubSeq(text, 1, len)
<1>1. /\ text \in Seq(Tokens) /\ Len(text) \in Nat /\ m \in 1 .. Len(text)
      /\ n \in m + 1 .. Len(text)
  BY LenProperties DEF ObjectAt
<1>2. \A i \in 1 .. len : text[i] \in Tokens BY <1>1, ElementOfSeq
<1>3. /\ front \in Seq(Tokens) /\ Len(front) = len
      /\ \A i \in 1 .. len : front[i] = text[i]
  BY <1>1, <1>2, SubSeqProperties
<1> HIDE DEF front
<1>4. m \in 1 .. Len(front) /\ n \in m + 1 .. Len(front) BY <1>1, <1>3
<1>5. \A i \in 1 .. n : front[i] = text[i] BY <1>1, <1>3
<1>6. \A k \in 1 .. m - 1 : k \in 1 .. n BY <1>1
<1>7. \A k \in m + 1 .. n - 1 : k \in 1 .. n BY <1>1
<1>8. m \in 1 .. n /\ n \in 1 .. n BY <1>1
<1>9. QED BY <1>3, <1>4, <1>5, <1>6, <1>7, <1>8 DEF ObjectAt, front

\* So the object is found wherever it stands, whatever follows it.
LEMMA ObjectIsFound ==
    ASSUME NEW text, NEW m, NEW n, ObjectAt(text, m, n)
    PROVE  IsObject(ExtractJson(text)) <=> n > m + 1
<1> DEFINE opened == IF text # <<>> /\ Head(text) = "fence" THEN Tail(text) ELSE text
           bare   == IF opened # text /\ opened # <<>> /\ Last(opened) = "fence"
                     THEN Front(opened) ELSE opened
           start  == SelectInSeq(bare, Opening)
           rest   == SubSeq(bare, start, Len(bare))
           object == SubSeq(rest, 1, n - m + 1)
<1>1. n \in Int /\ m \in Int BY LenProperties DEF ObjectAt
<1>2. PICK a \in Int, b \in Int : ObjectAt(opened, a, b) /\ b - a = n - m
  <2>1. CASE opened = text BY <1>1, <2>1
  <2>2. CASE opened # text
    <3>1. Head(text) = "fence" /\ opened = Tail(text) BY <2>2
    <3>2. ObjectAt(opened, m - 1, n - 1) BY <3>1, FenceInFront
    <3>3. m - 1 \in Int /\ n - 1 \in Int /\ (n - 1) - (m - 1) = n - m BY <1>1
    <3>4. QED BY <3>2, <3>3
  <2>3. QED BY <2>1, <2>2
<1> HIDE DEF opened
<1>3. ObjectAt(bare, a, b)
  <2>1. /\ opened \in Seq(Tokens) /\ Len(opened) \in Nat /\ a \in 1 .. Len(opened)
        /\ b \in a + 1 .. Len(opened) /\ opened[b] = "close"
    BY <1>2, LenProperties DEF ObjectAt
  <2>2. Last(opened) = "fence" => Len(opened) - 1 \in b .. Len(opened) BY <2>1 DEF Last
  <2>3. Last(opened) = "fence" => ObjectAt(Front(opened), a, b)
    BY <1>2, <2>2, ObjectInFront DEF Front
  <2>4. QED BY <1>2, <2>3
<1>4. start = a BY <1>3, FirstOpening
<1>5. bare \in Seq(Tokens) /\ Len(bare) \in Nat /\ a \in 1 .. Len(bare)
  BY <1>3, LenProperties DEF ObjectAt
<1> HIDE DEF bare, start
<1>6. ObjectAt(rest, 1, n - m + 1)
  <2>1. b - a + 1 = n - m + 1 BY <1>1, <1>2
  <2>2. QED BY <1>3, <1>4, <2>1, RestOfObject
<1>7. Len(rest) \in Nat /\ n - m + 1 \in 1 .. Len(rest)
  <2>1. rest \in Seq(Tokens) /\ n - m + 1 \in 1 + 1 .. Len(rest) BY <1>6 DEF ObjectAt
  <2> HIDE DEF rest
  <2>2. QED BY <1>1, <2>1, LenProperties
<1> HIDE DEF rest
<1>8. ObjectAt(object, 1, n - m + 1) /\ Len(object) = n - m + 1
  BY <1>6, <1>7, ObjectInFront
<1>9. ExtractJson(text) = object
  <2>1. Level(rest) # {}
        /\ (CHOOSE i \in Level(rest) : \A k \in Level(rest) : i <= k) = n - m + 1
    BY <1>6, LevelAtTheEnd
  <2>2. start # 0 BY <1>4, <1>5
  <2>3. ExtractJson(text) =
          IF start = 0 THEN bare
          ELSE IF Level(rest) = {} THEN rest
          ELSE SubSeq(rest, 1, CHOOSE i \in Level(rest) : \A k \in Level(rest) : i <= k)
    BY DEF ExtractJson, Level, opened, bare, start, rest
  <2>4. QED BY <2>1, <2>2, <2>3
<1> HIDE DEF object
<1>10. IsObject(object) <=> n - m + 1 > 2 BY <1>8, ObjectIsRead
<1>11. QED BY <1>1, <1>9, <1>10

LEMMA Joined ==
    ASSUME NEW s \in Seq(Tokens), NEW t \in Seq(Tokens)
    PROVE  /\ s \o t \in Seq(Tokens) /\ Len(s) \in Nat /\ Len(t) \in Nat
           /\ Len(s \o t) = Len(s) + Len(t)
           /\ \A k \in 1 .. Len(s) : (s \o t)[k] = s[k]
           /\ \A k \in 1 .. Len(t) : (s \o t)[Len(s) + k] = t[k]
<1>1. /\ s \o t \in Seq(Tokens) /\ Len(s) \in Nat /\ Len(t) \in Nat
      /\ Len(s \o t) = Len(s) + Len(t)
  BY ConcatProperties, LenProperties
<1>2. \A k \in 1 .. Len(s) + Len(t) :
          (s \o t)[k] = IF k <= Len(s) THEN s[k] ELSE t[k - Len(s)]
  BY ConcatProperties
<1>3. ASSUME NEW k \in 1 .. Len(s) PROVE (s \o t)[k] = s[k]
  <2>1. k \in 1 .. Len(s) + Len(t) /\ k <= Len(s) BY <1>1, <1>3
  <2>2. QED BY <1>2, <2>1
<1>4. ASSUME NEW k \in 1 .. Len(t) PROVE (s \o t)[Len(s) + k] = t[k]
  <2>1. Len(s) + k \in 1 .. Len(s) + Len(t) /\ ~(Len(s) + k <= Len(s)) BY <1>1, <1>4
  <2>2. (Len(s) + k) - Len(s) = k BY <1>1, <1>4
  <2>3. QED BY <1>2, <2>1, <2>2
<1>5. QED BY <1>1, <1>3, <1>4

\* Between packaging of fences and prose in front, and of any kind behind, an
\* answer is read as if it came bare.
LEMMA PackagingIsSeenThrough ==
    ASSUME NEW before \in Seq(Tokens), NEW inside \in Seq(Tokens), NEW after \in Seq(Tokens),
           \A i \in DOMAIN before : before[i] \in {"fence", "prose"},
           \A i \in DOMAIN inside : inside[i] = "members"
    PROVE  IsObject(ExtractJson(before \o <<"open">> \o inside \o <<"close">> \o after))
               <=> inside # <<>>
<1> DEFINE one == before \o <<"open">>
           two == one \o inside
           three == two \o <<"close">>
           text == three \o after
           m == Len(before) + 1
           n == Len(before) + Len(inside) + 2
<1>1. /\ Len(before) \in Nat /\ Len(inside) \in Nat /\ Len(after) \in Nat
      /\ DOMAIN before = 1 .. Len(before) /\ DOMAIN inside = 1 .. Len(inside)
  BY LenProperties
<1>2. /\ <<"open">> \in Seq(Tokens) /\ Len(<<"open">>) = 1 /\ <<"open">>[1] = "open"
      /\ <<"close">> \in Seq(Tokens) /\ Len(<<"close">>) = 1 /\ <<"close">>[1] = "close"
  BY DEF Tokens
<1>3. /\ one \in Seq(Tokens) /\ Len(one) = m /\ one[m] = "open"
      /\ \A k \in 1 .. Len(before) : one[k] = before[k]
  <2>1. 1 \in 1 .. Len(<<"open">>) BY <1>2
  <2>2. one[Len(before) + 1] = <<"open">>[1] BY <1>2, <2>1, Joined
  <2>3. QED BY <1>2, <2>2, Joined
<1> HIDE DEF one
<1>4. /\ two \in Seq(Tokens) /\ Len(two) = m + Len(inside)
      /\ \A k \in 1 .. m : two[k] = one[k]
      /\ \A k \in 1 .. Len(inside) : two[m + k] = inside[k]
  <2>1. /\ two \in Seq(Tokens) /\ Len(two) = Len(one) + Len(inside)
        /\ \A k \in 1 .. Len(one) : two[k] = one[k]
        /\ \A k \in 1 .. Len(inside) : two[Len(one) + k] = inside[k]
    BY <1>3, Joined
  <2> HIDE DEF m, two
  <2>2. QED BY <1>3, <2>1
<1> HIDE DEF two
<1>5. /\ three \in Seq(Tokens) /\ Len(three) = n /\ three[n] = "close"
      /\ \A k \in 1 .. m + Len(inside) : three[k] = two[k]
  <2>1. 1 \in 1 .. Len(<<"close">>) BY <1>2
  <2>2. three[Len(two) + 1] = <<"close">>[1] BY <1>2, <1>4, <2>1, Joined
  <2>3. Len(three) = Len(two) + 1 /\ three \in Seq(Tokens) BY <1>2, <1>4, Joined
  <2>4. \A k \in 1 .. Len(two) : three[k] = two[k] BY <1>2, <1>4, Joined
  <2>5. Len(two) + 1 = n /\ Len(two) = m + Len(inside) BY <1>1, <1>4
  <2> HIDE DEF m, n
  <2>6. QED BY <1>2, <2>2, <2>3, <2>4, <2>5
<1> HIDE DEF three
<1>6. /\ text \in Seq(Tokens) /\ Len(text) = n + Len(after)
      /\ \A k \in 1 .. n : text[k] = three[k]
  <2> HIDE DEF n
  <2>1. QED BY <1>5, Joined
<1> HIDE DEF text
<1>7. m \in 1 .. Len(text) /\ n \in m + 1 .. Len(text) BY <1>1, <1>6
<1>8. text[m] = "open" /\ text[n] = "close"
  <2>1. m \in 1 .. n /\ n \in 1 .. n /\ m \in 1 .. m + Len(inside) /\ m \in 1 .. m BY <1>1
  <2> HIDE DEF m, n
  <2>2. QED BY <1>3, <1>4, <1>5, <1>6, <2>1
<1>9. ASSUME NEW k \in 1 .. m - 1 PROVE text[k] = before[k]
  <2>1. k \in 1 .. n /\ k \in 1 .. m + Len(inside) /\ k \in 1 .. m /\ k \in 1 .. Len(before)
    BY <1>1, <1>9
  <2> HIDE DEF m, n
  <2>2. QED BY <1>3, <1>4, <1>5, <1>6, <2>1
<1>10. ASSUME NEW k \in m + 1 .. n - 1 PROVE text[k] = "members"
  <2>1. k - m \in 1 .. Len(inside) /\ m + (k - m) = k /\ k \in 1 .. n
        /\ k \in 1 .. m + Len(inside)
    BY <1>1, <1>10
  <2> HIDE DEF m, n
  <2>2. text[k] = two[k] BY <1>5, <1>6, <2>1
  <2>3. two[m + (k - m)] = inside[k - m] BY <1>4, <2>1
  <2>4. QED BY <1>1, <2>1, <2>2, <2>3
<1>11. \A k \in 1 .. m - 1 : k \in DOMAIN before BY <1>1
<1>12. ObjectAt(text, m, n) BY <1>1, <1>6, <1>7, <1>8, <1>9, <1>10, <1>11 DEF ObjectAt
<1>13. n > m + 1 <=> inside # <<>> BY <1>1, EmptySeq
<1> HIDE DEF m, n
<1>14. IsObject(ExtractJson(text)) <=> inside # <<>> BY <1>12, <1>13, ObjectIsFound
<1>15. QED BY <1>14 DEF text, three, two, one

-----------------------------------------------------------------------------
(* The account of a run.                                                   *)

LEMMA RepliesType ==
    ASSUME NEW reply \in IF step = "classify" THEN ClassifyReplies ELSE TextReplies
    PROVE  \E answers : reply \in [before : Seq(Tokens), inside : Seq(Tokens), after : Seq(Tokens),
                                  answer : answers]
BY RepliesAssumption

\* An answer that is good when it comes bare passes in plain packaging, too.
LEMMA GoodPasses ==
    ASSUME NEW reply \in IF step = "classify" THEN ClassifyReplies ELSE TextReplies,
           Check(reply) # "ok"
    PROVE  Saying(reply) = "bad"
<1>1. PICK answers : reply \in [before : Seq(Tokens), inside : Seq(Tokens), after : Seq(Tokens),
                                answer : answers]
  BY RepliesType
<1> DEFINE bare == [reply EXCEPT !.before = <<>>, !.after = <<>>]
<1>2. SUFFICES ASSUME Plain(reply), Check(bare) = "ok" PROVE FALSE BY DEF Saying
<1>3. /\ bare.before = <<>> /\ bare.after = <<>> /\ bare.inside = reply.inside
      /\ bare.answer = reply.answer
  BY <1>1
<1>4. /\ reply.before \in Seq(Tokens) /\ reply.inside \in Seq(Tokens)
      /\ reply.after \in Seq(Tokens) /\ <<>> \in Seq(Tokens)
  BY <1>1
<1>5. Parsed(reply) <=> reply.inside # <<>>
  BY <1>2, <1>4, PackagingIsSeenThrough DEF Plain, Parsed, Raw
<1>6. Parsed(bare) <=> reply.inside # <<>>
  <2>1. \A i \in DOMAIN <<>> : <<>>[i] \in {"fence", "prose"} OBVIOUS
  <2>2. \A i \in DOMAIN reply.inside : reply.inside[i] = "members" BY <1>2 DEF Plain
  <2>3. IsObject(ExtractJson(<<>> \o <<"open">> \o reply.inside \o <<"close">> \o <<>>))
            <=> reply.inside # <<>>
    BY <1>4, <2>1, <2>2, PackagingIsSeenThrough
  <2>4. Raw(bare) = <<>> \o <<"open">> \o reply.inside \o <<"close">> \o <<>>
    BY <1>3 DEF Raw
  <2>5. QED BY <2>3, <2>4 DEF Parsed
<1> HIDE DEF bare
<1>7. Check(bare) = Check(reply)
  BY <1>3, <1>5, <1>6 DEF Check, ValidClassification, TextCheck
<1>8. QED BY <1>2, <1>7

LEMMA NoDowns ==
    ASSUME NEW S, NEW said \in Seq(S), \A i \in 1 .. Len(said) : said[i] # "down"
    PROVE  Downs(said) = 0
<1>1. DOMAIN said = 1 .. Len(said) BY LenProperties
<1>2. {i \in DOMAIN said : said[i] = "down"} = {} BY <1>1
<1>3. QED BY <1>2, FS_EmptySet DEF Downs

LEMMA OneDown ==
    ASSUME NEW said \in Seq({"good", "bad", "down"}), \A i \in 1 .. Len(said) : said[i] # "down"
    PROVE  Downs(Append(said, "down")) = 1
<1> DEFINE more == Append(said, "down")
<1>1. /\ more \in Seq({"good", "bad", "down"}) /\ Len(more) = Len(said) + 1
      /\ Len(said) \in Nat /\ more[Len(said) + 1] = "down"
      /\ \A i \in 1 .. Len(said) : more[i] = said[i]
  BY AppendProperties, LenProperties
<1> HIDE DEF more
<1>2. DOMAIN more = 1 .. Len(said) + 1 BY <1>1, LenProperties
<1>3. {i \in DOMAIN more : more[i] = "down"} = {Len(said) + 1} BY <1>1, <1>2
<1>4. QED BY <1>3, FS_Singleton DEF Downs, more

LEMMA FreshCounts == Counts(Fresh) /\ Fresh.phase # "write"
BY DEF Fresh, Counts

\* Only a step that writes the row has something to tell.
LEMMA NothingToTell == ASSUME RunTold', row' = None PROVE RowInv'
BY DEF RowInv, RowTellsTheRun

LEMMA RepliedTells ==
    ASSUME TypeOK, RowInv,
           NEW reply \in IF step = "classify" THEN ClassifyReplies ELSE TextReplies, Replied(reply)
    PROVE  RowInv'
<1> DEFINE outcome == Check(reply)
           counted == Counted(reply, outcome)
           said    == Append(run.said, Saying(reply))
<1>1. /\ run.phase \in {"first", "second"} /\ run \in Runs /\ Counts(run) /\ row' = None
  BY DEF Replied, Calling, RowInv, RunTold, TypeOK
<1>2. /\ run.said \in Seq({"good", "bad", "down"}) /\ run.violations \in Seq(Codes)
      /\ Len(run.said) \in Nat
  BY <1>1, LenProperties DEF Runs
<1>3. Saying(reply) \in {"good", "bad"} BY DEF Saying
<1>4. /\ said \in Seq({"good", "bad", "down"}) /\ Len(said) = Len(run.said) + 1
      /\ said[Len(said)] = Saying(reply)
      /\ \A i \in 1 .. Len(run.said) : said[i] = run.said[i]
  BY <1>2, <1>3, AppendProperties
<1>5. /\ counted.said = said /\ counted.responses = Len(said) /\ counted.reason = "none"
      /\ counted \in Runs
  <2>1. outcome \in Codes \cup {"ok"} BY CheckType
  <2>2. counted \in Runs BY <2>1, CountedType
  <2>3. QED BY <1>1, <1>4, <2>2 DEF Counted, Counts, Runs
<1>6. \A i \in 1 .. Len(said) : said[i] # "down"
  <2>1. ASSUME NEW i \in 1 .. Len(said) PROVE said[i] # "down"
    <3>1. i = Len(said) \/ i \in 1 .. Len(run.said) BY <1>2, <1>4
    <3>2. QED BY <1>1, <1>3, <1>4, <3>1 DEF Counts
  <2>2. QED BY <2>1
<1>7. Downs(said) = 0 BY <1>4, <1>6, NoDowns
<1>8. outcome # "ok" => /\ counted.violations = Append(run.violations, outcome)
                        /\ Len(counted.violations) = Len(said)
                        /\ counted.violations[Len(said)] = outcome
  <2>1. ASSUME outcome # "ok"
        PROVE  /\ counted.violations = Append(run.violations, outcome)
               /\ Len(counted.violations) = Len(said)
               /\ counted.violations[Len(said)] = outcome
    <3>1. outcome \in Codes BY <2>1, CheckType
    <3>2. counted.violations = Append(run.violations, outcome) BY <1>1, <2>1 DEF Counted, Runs
    <3>3. Len(run.violations) = Len(run.said) BY <1>1 DEF Counts
    <3> HIDE DEF counted, outcome
    <3>4. QED BY <1>2, <1>4, <3>1, <3>2, <3>3, AppendProperties
  <2>2. QED BY <2>1
<1>9. CASE outcome = "ok"
  <2>1. run' = [counted EXCEPT !.phase = "write", !.output = Accepted(reply),
                               !.clean = reply.answer.clean]
    BY <1>9 DEF Replied
  <2> HIDE DEF counted, said, outcome
  <2>2. /\ run'.phase = "write" /\ run'.said = said /\ run'.responses = Len(said)
        /\ run'.reason = "none"
    BY <1>5, <2>1 DEF Runs
  <2>3. Accounts(run')
    <3>1. Len(said) \in Nat /\ said[Len(said)] # "down" BY <1>2, <1>3, <1>4
    <3>2. QED BY <1>7, <2>2, <3>1 DEF Accounts
  <2>4. QED BY <1>1, <2>2, <2>3, NothingToTell DEF RunTold
<1>10. CASE outcome # "ok" /\ run.phase = "first"
  <2>1. run' = [counted EXCEPT !.phase = "second"] BY <1>10 DEF Replied
  <2>2. Len(said) = 1 BY <1>1, <1>4, <1>10 DEF Counts
  <2> HIDE DEF counted, said, outcome
  <2>3. /\ run'.phase = "second" /\ run'.said = said /\ run'.responses = Len(said)
        /\ run'.reason = "none" /\ run'.violations = counted.violations
    BY <1>5, <2>1 DEF Runs
  <2>4. Counts(run') BY <1>6, <1>8, <1>10, <2>2, <2>3 DEF Counts
  <2>5. QED BY <1>1, <2>3, <2>4, NothingToTell DEF RunTold
<1>11. CASE outcome # "ok" /\ run.phase # "first"
  <2>1. run' = FallsBack(counted, outcome) BY <1>11 DEF Replied
  <2>2. outcome \in Codes BY <1>11, CheckType
  <2>3. Saying(reply) = "bad" BY <1>11, GoodPasses
  <2>4. Len(said) = 2 BY <1>1, <1>4, <1>11 DEF Counts
  <2> HIDE DEF counted, said, outcome
  <2>5. /\ run'.phase = "write" /\ run'.said = said /\ run'.responses = Len(said)
        /\ run'.reason = outcome /\ run'.violations = counted.violations
    BY <1>5, <2>1 DEF FallsBack, Runs
  <2>6. Accounts(run')
    <3>1. said[Len(said)] = "bad" /\ Len(said) - Downs(said) = Len(said)
      BY <1>4, <1>7, <2>3, <2>4
    <3>2. Len(counted.violations) = 2 /\ counted.violations[2] = outcome
      BY <1>8, <1>11, <2>4
    <3>3. QED BY <2>2, <2>5, <3>1, <3>2 DEF Accounts
  <2>7. QED BY <1>1, <2>5, <2>6, NothingToTell DEF RunTold
<1>12. QED BY <1>9, <1>10, <1>11

LEMMA ProviderFailsTells == ASSUME TypeOK, RowInv, ProviderFails PROVE RowInv'
<1> DEFINE failed == [run EXCEPT !.said = Append(@, "down")]
           said   == Append(run.said, "down")
<1>1. /\ run.phase \in {"first", "second"} /\ run \in Runs /\ Counts(run) /\ row' = None
      /\ run' = FallsBack(failed, "api_error")
  BY DEF ProviderFails, Calling, RowInv, RunTold, TypeOK
<1>2. run.said \in Seq({"good", "bad", "down"}) /\ Len(run.said) \in Nat
  BY <1>1, LenProperties DEF Runs
<1>3. Len(said) = Len(run.said) + 1 /\ said[Len(said)] = "down" /\ Downs(said) = 1
  BY <1>1, <1>2, AppendProperties, OneDown DEF Counts
<1>4. /\ run'.phase = "write" /\ run'.said = said /\ run'.responses = run.responses
      /\ run'.reason = "api_error"
  BY <1>1 DEF FallsBack, Runs
<1> HIDE DEF said
<1>5. run.responses = Len(run.said) BY <1>1 DEF Counts
<1>6. Accounts(run') BY <1>2, <1>3, <1>4, <1>5 DEF Accounts
<1>7. QED BY <1>1, <1>4, <1>6, NothingToTell DEF RunTold

\* The row is the account of the run.
LEMMA CompletesTells == ASSUME TypeOK, RowInv, Completes PROVE RowInv'
<1>1. /\ run.phase = "write" /\ Accounts(run) /\ run' = Fresh
      /\ row' = [job |-> step, source |-> Source, reason |-> run.reason,
                 violations |-> IF step = "classify" THEN <<>> ELSE run.violations,
                 responses |-> run.responses, said |-> run.said]
  BY DEF Completes, RowInv, RunTold
<1>2. /\ row'.job = step /\ row'.source = Source /\ row'.reason = run.reason
      /\ step # "classify" => row'.violations = run.violations
      /\ row'.responses = run.responses /\ row'.said = run.said
  BY <1>1
<1>3. RowTellsTheRun'
  BY <1>1, <1>2 DEF RowTellsTheRun, Accounts, Downs, Source, Codes
<1>4. RunTold' BY <1>1, FreshCounts DEF RunTold
<1>5. QED BY <1>3, <1>4 DEF RowInv

LEMMA StepTells == ASSUME TypeOK, RowInv, [Next]_vars PROVE RowInv'
<1>1. CASE JobFails BY <1>1, FreshCounts, NothingToTell DEF JobFails, RunTold
<1>2. CASE Retry \/ Resolve BY <1>2, NothingToTell DEF Retry, Resolve, RowInv, RunTold
<1>3. CASE UNCHANGED vars BY <1>3 DEF vars, RowInv, RunTold, RowTellsTheRun
<1>4. QED
  BY <1>1, <1>2, <1>3, RepliedTells, ProviderFailsTells, CompletesTells
     DEF Next, Rest, ProviderRejects, RowRefused

-----------------------------------------------------------------------------
(* The theorems.                                                           *)

LEMMA InvHolds == Spec => [](TypeOK /\ RepliesInv)
BY InitInv, StepKeepsInv, PTL DEF Spec

\* Every state is of its type: in particular a run, a row and the variables of
\* the process stay within what the schemas and the policy allow (worker.py:45-126).
THEOREM RepliesTypeCorrect == Spec => []TypeOK
BY InvHolds, PTL

\* What goes on without a review is confident, whatever the model answers and
\* however it is packed (guardrails.py:94-131, D5-2).
THEOREM UnreviewedStaysConfident == Spec => []UnreviewedIsConfident
<1>1. RepliesInv => UnreviewedIsConfident BY DEF RepliesInv
<1>2. QED BY <1>1, InvHolds, PTL

\* No number of the model's own reaches the customer
\* (generation_guardrails.py:48-107, D5-5, D5-9).
THEOREM NumbersStayGrounded == Spec => []NumbersAreGrounded
<1>1. TypeOK /\ RepliesInv => NumbersAreGrounded
  BY DEF RepliesInv, TextsOK, Fits, Sayable, NumbersAreGrounded
<1>2. QED BY <1>1, InvHolds, PTL

\* Answer and notification declare one language, the customer's where we speak it
\* (generator.py:44-50, D5-8), and no template is in another than it declares, save
\* where it repeats an answer of the model (rules.py:75-85).
THEOREM LanguageIsOne == Spec => []OneLanguage
<1>1. TypeOK /\ RepliesInv => OneLanguage
  <2> SUFFICES ASSUME RepliesInv,
                      NEW text \in {pv.answerText, pv.customerMessage} \ {None}
               PROVE  /\ ticket.language \in REPLY_LANGUAGES => text.language = ticket.language
                      /\ pv.answerText # None => text.language = pv.answerText.language
    BY DEF OneLanguage, RepliesInv, TemplatesOK
  <2>1. text.language = Language /\ (pv.answerText # None => pv.answerText.language = Language)
    BY DEF RepliesInv, TextsOK, Fits
  <2>2. QED BY <2>1, LanguageType
<1>2. QED BY <1>1, InvHolds, PTL

\* The row tells what the run was: the responses that were paid for, the good
\* answer in whatever plain packaging it came, and else the reason and every
\* violation (audit.py:58-94, generator.py:102-157, D5-3, D5-9).
THEOREM RowsTellTheRun == Spec => []RowTellsTheRun
<1>1. Init => RowInv
  BY FreshCounts DEF Init, RowInv, RunTold, RowTellsTheRun
<1>2. TypeOK /\ RowInv /\ [Next]_vars => RowInv' BY StepTells
<1>3. RowInv => RowTellsTheRun BY DEF RowInv
<1>4. QED BY <1>1, <1>2, <1>3, RepliesTypeCorrect, PTL DEF Spec
=============================================================================
