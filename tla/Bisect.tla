-------------------------------- MODULE Bisect --------------------------------
(***************************************************************************)
(* The search for the system text a provider refuses                         *)
(* (internal/httpapi/errbisect.go): halve the sentences of the system prompt, *)
(* then the words of the one that is left, and replay the request without     *)
(* each half.                                                                *)
(*                                                                         *)
(* The provider refuses a request that holds all the sentences of an offence,  *)
(* each with the words that offend.  A replay may also fail in another way.    *)
(***************************************************************************)
EXTENDS Integers, FiniteSets

CONSTANTS
    NSentences,    \* sentences of the system prompt
    NWords,        \* words of each
    BisectReplays, \* replays a search may spend (16)
    MinWords       \* words below which a part is not tried (3)

ASSUME BisectAssumption ==
    NSentences \in Nat \ {0} /\ NWords \in Nat \ {0} /\ BisectReplays \in Nat \ {0} /\ MinWords \in Nat \ {0}

Sentences == 1 .. NSentences
Words     == 1 .. NWords

VARIABLES
    offences,  \* sets of sentences refused together
    offending, \* the words of them that offend, from the first to the last
    search     \* the search

bisectVars == <<offences, offending, search>>

\* A text is some sentences, or some words of one.
SentencesOf(lo, hi)  == [of |-> "prompt", sentence |-> 0, lo |-> lo, hi |-> hi]
WordsOf(s, lo, hi)   == [of |-> "sentence", sentence |-> s, lo |-> lo, hi |-> hi]

BisectInit ==
    /\ offences \in {o \in SUBSET (SUBSET Sentences \ {{}}) : Cardinality(o) \in 1 .. 2}
    /\ offending \in {w \in Words \X Words : w[1] <= w[2]}
    /\ search = [pc |-> "whole", text |-> SentencesOf(1, NSentences), half |-> 1, replays |-> 0]

-----------------------------------------------------------------------------

Size(text) == text.hi - text.lo + 1

\* The request is accepted without a text when every offence loses some of it.
Touches(text, sentence) ==
    IF text.of = "prompt" THEN sentence \in text.lo .. text.hi
    ELSE sentence = text.sentence /\ text.lo <= offending[2] /\ offending[1] <= text.hi

AcceptedWithout(text) == \A o \in offences : \E s \in o : Touches(text, s)

\* Half n of a text.  The first half is the smaller one.
Half(text, n) ==
    LET h == Size(text) \div 2
    IN  IF n = 1 THEN [text EXCEPT !.hi = text.lo + h - 1] ELSE [text EXCEPT !.lo = text.lo + h]

Splits(text) == IF text.of = "prompt" THEN Size(text) > 1 ELSE Size(text) > MinWords
TooShort(text) == text.of = "sentence" /\ Size(text) < MinWords

Narrowed(text) ==
    IF text.of = "prompt" /\ Size(text) = 1 THEN WordsOf(text.lo, 1, NWords) ELSE text

Continues(text) ==
    LET t == Narrowed(text)
    IN  [search EXCEPT !.pc = IF Splits(t) THEN "halve" ELSE "found", !.text = t, !.half = 1, !.replays = @ + 1]

\* A replay that brings another failure, or one too many, ends the search.
GiveUp ==
    /\ search.pc \in {"whole", "halve"}
    /\ search' = [search EXCEPT !.pc = "none"]
    /\ UNCHANGED <<offences, offending>>

MayReplay == search.replays < BisectReplays

\* The request without its system prompt.
TryWhole ==
    /\ search.pc = "whole" /\ MayReplay
    /\ search' = IF AcceptedWithout(search.text) THEN Continues(search.text)
                 ELSE [search EXCEPT !.pc = "none", !.replays = @ + 1]
    /\ UNCHANGED <<offences, offending>>

\* Slip: a refused half is taken for the text.
TrustsSecond(text) == AcceptedWithout(text) \/ search.half = 2

Kept(text) == AcceptedWithout(text)

\* A half that is accepted is searched on; when neither is, the text stays.
TryHalf ==
    LET part == Half(search.text, search.half) IN
    /\ search.pc = "halve" /\ (MayReplay \/ TooShort(part))
    /\ search' =
         IF ~TooShort(part) /\ Kept(part) THEN Continues(part)
         ELSE [search EXCEPT !.replays = IF TooShort(part) THEN @ ELSE @ + 1,
                             !.half = 2,
                             !.pc = IF search.half = 2 THEN "found" ELSE "halve"]
    /\ UNCHANGED <<offences, offending>>

BisectNext == TryWhole \/ TryHalf \/ GiveUp

BisectSpec == BisectInit /\ [][BisectNext]_bisectVars

-----------------------------------------------------------------------------
\* The text a search finds makes the request accepted when it is removed, within
\* the replays a search may spend (errbisect.go:76), for every way a provider refuses.
FoundIsRefused ==
    /\ search.replays <= BisectReplays
    /\ search.pc = "found" => AcceptedWithout(search.text)

\* When the provider refuses one thing only, the search finds one sentence of it,
\* and in it fewer words than the sentence has unless the words that offend lie in
\* both of its halves.
OneOffenceNarrowed ==
    search.pc = "found" /\ Cardinality(offences) = 1 =>
        /\ search.text.of = "sentence"
        /\ \E o \in offences : search.text.sentence \in o
        /\ Size(search.text) > MinWords =>
             \A n \in 1 .. 2 : TooShort(Half(search.text, n)) \/ ~AcceptedWithout(Half(search.text, n))

\* The rule removes only text the provider was seen to refuse (errbisect.go:152):
\* every sentence it removes is one of an offence.
\* The code does not keep this (README.md, Disagreements found).
RemovesOnlyRefused ==
    search.pc = "found" /\ search.text.of = "prompt" =>
        search.text.lo .. search.text.hi \subseteq UNION offences
=============================================================================
