------------------------------- MODULE ToolNames -------------------------------
(***************************************************************************)
(* The names of one request's tools, in the provider's vocabulary and back     *)
(* (internal/translate/toolnames.go). A tool goes out under the name the        *)
(* provider's own agent uses when it is the only one of its kind, and a call    *)
(* the model makes comes back under the caller's name; a name intact did not    *)
(* send is matched by what it is for, when one declared tool is that.           *)
(***************************************************************************)
EXTENDS Naturals

CONSTANTS
    Names,      \* every name a caller or a model may use
    Caps,       \* what a tool may be for
    CapsOf,     \* capsOf: what a name is for, by its own words
    FirstCap,   \* the first of them
    Spaced,     \* names with a namespace
    Long,       \* names longer than MaxToolName
    Short,      \* ShortToolName
    Vocab       \* the provider's own name for a capability, Caps -> Names \cup {NoName}

NoName == ""

\* A word of a vocabulary is one of its capability (toolnames.go, nameCap), short
\* and without a namespace; a shortened name keeps its hash, and no caller has it.
ASSUME NamesAssumption ==
    /\ CapsOf \in [Names -> SUBSET Caps] /\ FirstCap \in [Names -> Caps]
    /\ \A n \in Names : CapsOf[n] # {} => FirstCap[n] \in CapsOf[n]
    /\ Spaced \subseteq Names /\ Long \subseteq Names /\ NoName \notin Names
    /\ Vocab \in [Caps -> Names \cup {NoName}]
    /\ \A c \in Caps : Vocab[c] # NoName => CapsOf[Vocab[c]] = {c} /\ Vocab[c] \notin Spaced \cup Long
    /\ Short \in [Long -> Names \ Long]
    /\ \A m, n \in Long : Short[m] = Short[n] => m = n
    /\ \A n \in Long, c \in Caps : Short[n] # Vocab[c]

VARIABLE declared   \* the tools the caller declares

(***************************************************************************)
(* NewToolNames, for the declared tools                                      *)
(***************************************************************************)
Known == {n \in declared : n \notin Spaced /\ CapsOf[n] # {}}
OfKind(c) == {n \in Known : FirstCap[n] = c}

\* A slip: the last tool of a kind gets the provider's name.
OneOfItsKind(n) == n \in Known

\* With several tools of a kind, which one the model meant is not knowable.
Alone(n) == n \in Known /\ OfKind(FirstCap[n]) = {n}

Renamed(n) == Alone(n) /\ Vocab[FirstCap[n]] \notin {NoName, n}

ToProvider(n) ==
    IF Renamed(n) THEN Vocab[FirstCap[n]]
    ELSE IF n \in Long THEN Short[n] ELSE n

\* toClient: the declared tool that may go out as this name.
SentFor(n, name) == (Renamed(n) /\ name = Vocab[FirstCap[n]]) \/ (n \in Long /\ name = Short[n])

\* One tool that each thing the name asks for fits.
Fits(n, name) == CapsOf[name] # {} /\ \A c \in CapsOf[name] : OfKind(c) = {n}

SeveralKnown == \E m, n \in Known : m # n

ToClient(name) ==
    IF \E n \in declared : SentFor(n, name) THEN CHOOSE n \in declared : SentFor(n, name)
    ELSE IF SeveralKnown /\ name \notin Spaced /\ \E n \in Known : Fits(n, name)
         THEN CHOOSE n \in Known : Fits(n, name)
    ELSE name

(***************************************************************************)
(* Callers declare any tools, no shortened name among them.                  *)
(***************************************************************************)
NamesInit == declared = {}

Declare(n) ==
    /\ n \notin declared /\ \A m \in Long : Short[m] # n
    /\ declared' = declared \cup {n}

NamesNext == \E n \in Names : Declare(n)

NamesSpec == NamesInit /\ [][NamesNext]_declared

(***************************************************************************)
(* Properties                                                                *)
(***************************************************************************)

\* A call of a declared tool comes back as a call of that tool, whatever else is
\* declared: no two tools go out as one, and no guess takes a name that was sent.
NamesComeBack == \A n \in declared : ToClient(ToProvider(n)) = n

\* A name the caller did not declare becomes one of its tools only when it was sent
\* for that tool or the tool is the one of its kind; a name with a namespace never
\* becomes another's (toolnames.go:211).
NothingIsGuessed == \A name \in Names \ declared : ToClient(name) # name =>
    LET n == ToClient(name) IN
    /\ n \in declared
    /\ name \in Spaced => n \in Long
    /\ n \notin Spaced \/ n \in Long
    /\ ToProvider(n) = name \/ n \in Long \/ (CapsOf[name] = {FirstCap[n]} /\ Alone(n))
=============================================================================
