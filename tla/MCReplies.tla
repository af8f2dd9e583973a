----------------------------- MODULE MCReplies -----------------------------
(* Model checking of Replies.  Every classification and every text that     *)
(* reads as it declares comes bare; so do texts of one kind of numbers in   *)
(* every other language than they declare.  One good answer of each kind    *)
(* comes in every packaging of a token or a prologue and a fence around one *)
(* or two tokens within.                                                   *)
EXTENDS Replies

Bare(answer) == [before |-> <<>>, inside |-> <<"members">>, after |-> <<>>, answer |-> answer]

Within == {s \in BoundedSeq({"members", "quotedOpen", "quotedClose"}, 2) :
               Cardinality({i \in DOMAIN s : s[i] = "members"}) = 1}
Packed(answer) ==
    [before : BoundedSeq({"fence", "prose", "open"}, 1) \cup {<<"prose", "fence">>},
     inside : Within,
     after : BoundedSeq({"fence", "prose", "close"}, 1), answer : {answer}]

Ticket(language, words, start) ==
    [language |-> language, subject |-> [words |-> words, start |-> start]]
MCTickets ==
    {Ticket(language, {}, "how") : language \in {"ru", "en", "de"}}
        \cup {Ticket("de", {"change", "refund"}, "my"), Ticket("de", {"unclear"}, "my"),
              Ticket("ru", {"cancel", "?"}, "what"), Ticket("ru", {}, "my")}

Sure == [intent |-> "question", detectedLanguage |-> "ru", confidence |-> 95,
         fits |-> TRUE, clean |-> TRUE]
MCClassifyReplies ==
    {Bare(a) : a \in {a \in Answers({-5, 50, 80, 85, 90, 95, 105, NaN}) : a.fits /\ a.clean}}
        \cup {Bare([Sure EXCEPT !.fits = FALSE]), Bare([Sure EXCEPT !.clean = FALSE])}
        \cup Packed(Sure)

Short == [text |-> [numbers |-> {"ticket"}, language |-> "ru", reads |-> "ru"], cites |-> "known",
          fits |-> TRUE, clean |-> TRUE]
MCTextReplies ==
    {Bare(a) : a \in {a \in TextAnswers : a.fits /\ a.clean /\ a.text.reads = a.text.language}}
        \cup {Bare([Short EXCEPT !.text = text]) :
                  text \in {text \in Texts : text.numbers = {"ticket"} /\ text.reads # text.language}}
        \cup {Bare([Short EXCEPT !.fits = FALSE]), Bare([Short EXCEPT !.clean = FALSE])}
        \cup Packed(Short)
=============================================================================
