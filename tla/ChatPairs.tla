------------------------------- MODULE ChatPairs -------------------------------
(***************************************************************************)
(* Chat messages with tool calls, and what a chat provider asks of them: it    *)
(* refuses a history whose calls and results do not pair                      *)
(* (responses_client.go:498-502).                                             *)
(***************************************************************************)
EXTENDS Naturals, Sequences, SequencesExt

NoId == 0

\* A message: of an assistant with its calls, of a tool with the call it answers,
\* or of a user; "from" names the items it was made of.
Message(role, calls, id, from) == [role |-> role, calls |-> calls, id |-> id, from |-> from]

ResultsAfter(msgs, n) == [k \in 1 .. Len(msgs[n].calls) |->
    IF n + k <= Len(msgs) /\ msgs[n + k].role = "tool" THEN msgs[n + k].id ELSE NoId]

Count(s, x) == Cardinality({k \in DOMAIN s : s[k] = x})

\* The calls of an assistant turn are answered right after it, each once.
Answered(msgs, n) == \A c \in Range(msgs[n].calls) : Count(ResultsAfter(msgs, n), c) = Count(msgs[n].calls, c)

\* A result answers a call of the turn it follows.
Answers(msgs, n) == \E a \in 1 .. n - 1 :
    /\ msgs[a].role = "assistant" /\ n - a <= Len(msgs[a].calls)
    /\ \A k \in a + 1 .. n - 1 : msgs[k].role = "tool"

PairedUp(msgs) == \A n \in DOMAIN msgs :
    /\ msgs[n].role = "assistant" => Answered(msgs, n)
    /\ msgs[n].role = "tool" => Answers(msgs, n)
=============================================================================
