--------------------------- MODULE StreamTranslation ---------------------------
(***************************************************************************)
(* A provider's stream on its way to a client (internal/translate). The      *)
(* provider speaks one of four protocols; one converter makes Chat chunks of  *)
(* its events (toChatChunks), a second makes of the chunks what the client    *)
(* reads: Messages events, Responses events, or one whole answer. The model    *)
(* feeds all three clients from one provider, so that they can be compared.    *)
(*                                                                         *)
(* The provider is external: it says text, thoughts and calls whose arguments  *)
(* come in MaxPieces pieces, and may fail, stop or be cut at any point. Text   *)
(* and arguments are the numbers of their pieces; usage, ids, names and        *)
(* encodings are left out. A Search block of the answer is ServerTools'.       *)
(***************************************************************************)
EXTENDS Naturals, Sequences, SequencesExt

CONSTANTS MaxEvents, MaxCalls, MaxPieces

ASSUME StreamAssumption == {MaxEvents, MaxCalls, MaxPieces} \subseteq Nat \ {0}

VARIABLES
    via,      \* the provider's protocol
    indexed,  \* whether a chat provider numbers its calls
    said,     \* what the provider said, in order
    hub,      \* the converter to chunks, and the chunks it wrote last
    ant,      \* OpenAIStreamToAnthropic
    rsp,      \* OpenAIStreamToResponses
    whole     \* CollectOpenAIStream

streamVars == <<via, indexed, said, hub, ant, rsp, whole>>

Protocols == {"chat", "anthropic", "responses", "gemini"}
NoIndex == 99

(***************************************************************************)
(* What the provider said                                                    *)
(***************************************************************************)
Event(k) == [k |-> k, call |-> 0, pieces |-> <<>>, why |-> ""]
Saying(ks) == SelectSeq(said, LAMBDA e : e.k \in ks)
Over == \E n \in DOMAIN said : said[n].k \in {"stop", "failed", "eof", "cut"}
Opened == Len(Saying({"open"}))
OfCall(c) == SelectSeq(said, LAMBDA e : e.k \in {"open", "args"} /\ e.call = c)
PiecesOf(es) == FoldLeft(LAMBDA ps, e : ps \o e.pieces, <<>>, es)
ArgsSent(c) == PiecesOf(OfCall(c))
Closed(c) == \E n \in DOMAIN said : said[n].k = "close" /\ said[n].call = c
AllSent == \A c \in 1 .. Opened : Len(ArgsSent(c)) = MaxPieces
AllPieces == [n \in 1 .. MaxPieces |-> n]

(***************************************************************************)
(* Chunks, and the converters that write them                                *)
(***************************************************************************)
Chunk(t) == [t |-> t, ix |-> NoIndex, id |-> 0, pieces |-> <<>>, why |-> ""]
Words(t, e) == [Chunk(t) EXCEPT !.pieces = e.pieces]
CallChunk(ix, id, ps) == [Chunk("call") EXCEPT !.ix = ix, !.id = id, !.pieces = ps]
FinishChunk(why) == [Chunk("finish") EXCEPT !.why = why]

NoHub == [calls |-> <<>>, streamed |-> {}, finish |-> "", over |-> FALSE, chunks |-> <<>>]

Writes(h, cs) == [h EXCEPT !.chunks = cs]
\* The converter is done: the pipe is closed after the last chunk.
Ends(h, cs) == [h EXCEPT !.over = TRUE, !.chunks = Append(cs, Chunk("eof"))]
\* A call's index is its place among the calls.
IndexOf(h, c) == (CHOOSE n \in DOMAIN h.calls : h.calls[n] = c) - 1
Opens(h, c, ps) == [Writes(h, <<CallChunk(Len(h.calls), c, ps)>>) EXCEPT !.calls = Append(@, c)]

\* toChatChunks: a chat stream passes through, its read error with it.
FromChat(h, e) ==
    CASE e.k \in {"text", "think"} -> Writes(h, <<Words(e.k, e)>>)
      [] e.k = "open" -> Writes([h EXCEPT !.calls = Append(@, e.call)],
                                <<CallChunk(IF indexed THEN Len(h.calls) ELSE NoIndex, e.call, <<>>)>>)
      [] e.k = "args" -> Writes(h, <<CallChunk(IF indexed THEN IndexOf(h, e.call) ELSE NoIndex, 0, e.pieces)>>)
      [] e.k = "finish" -> Writes(h, <<FinishChunk(e.why)>>)
      [] e.k = "stop" -> Ends(h, <<Chunk("done")>>)
      [] e.k = "failed" -> Ends(h, <<Chunk("error")>>)
      [] e.k = "eof" -> Ends(h, <<>>)
      [] e.k = "cut" -> Ends(h, <<Chunk("cut")>>)

\* AnthropicStreamToOpenAI: only message_stop ends an answer.
FromAnthropic(h, e) ==
    CASE e.k \in {"text", "think"} -> Writes(h, <<Words(e.k, e)>>)
      [] e.k = "open" -> Opens(h, e.call, <<>>)
      [] e.k = "args" -> Writes(h, <<CallChunk(IndexOf(h, e.call), 0, e.pieces)>>)
      [] e.k = "finish" -> Writes([h EXCEPT !.finish = e.why], <<>>)
      [] e.k = "stop" -> Ends(h, <<FinishChunk(IF h.finish = "" THEN "stop" ELSE h.finish), Chunk("done")>>)
      [] e.k \in {"failed", "eof", "cut"} -> Ends(h, <<Chunk("error")>>)

\* ResponsesStreamToOpenAI: arguments come as deltas, or with the finished item;
\* an answer cut short for its length with nothing in it is an error.
FromResponses(h, e) ==
    CASE e.k \in {"text", "think"} -> Writes(h, <<Words(e.k, e)>>)
      [] e.k = "open" -> Opens(h, e.call, <<>>)
      [] e.k = "args" -> Writes([h EXCEPT !.streamed = @ \cup {e.call}],
                                <<CallChunk(IndexOf(h, e.call), 0, e.pieces)>>)
      [] e.k = "close" -> Writes(h, IF e.call \in h.streamed THEN <<>>
                                    ELSE <<CallChunk(IndexOf(h, e.call), 0, e.pieces)>>)
      [] e.k = "stop" -> IF e.why = "length" /\ Len(Saying({"text", "think", "open"})) = 0
                         THEN Ends(h, <<Chunk("error")>>)
                         ELSE Ends(h, <<FinishChunk(IF e.why = "length" THEN e.why
                                                    ELSE IF h.calls = <<>> THEN "stop" ELSE "tool_calls"),
                                        Chunk("done")>>)
      [] e.k \in {"failed", "eof", "cut"} -> Ends(h, <<Chunk("error")>>)

\* GeminiStreamToOpenAI: a call comes whole, and the finish reason ends the
\* answer at the end of the stream.
FromGemini(h, e) ==
    CASE e.k \in {"text", "think"} -> Writes(h, <<Words(e.k, e)>>)
      [] e.k = "open" -> Opens(h, e.call, e.pieces)
      [] e.k = "finish" -> Writes([h EXCEPT !.finish = e.why], <<>>)
      [] e.k = "eof" -> IF h.finish = "" THEN Ends(h, <<Chunk("error")>>)
                        ELSE Ends(h, <<FinishChunk(IF h.finish = "stop" /\ h.calls # <<>> THEN "tool_calls"
                                                   ELSE h.finish), Chunk("done")>>)
      [] e.k \in {"failed", "cut"} -> Ends(h, <<Chunk("error")>>)

Convert(h, e) ==
    CASE via = "chat" -> FromChat(h, e)
      [] via = "anthropic" -> FromAnthropic(h, e)
      [] via = "responses" -> FromResponses(h, e)
      [] via = "gemini" -> FromGemini(h, e)

(***************************************************************************)
(* OpenAIStreamToAnthropic. Calls are gathered and written as whole blocks at *)
(* the end: a client takes one open block at a time.                          *)
(***************************************************************************)
NoAnt == [started |-> FALSE, open |-> "", next |-> 0, tools |-> <<>>, last |-> 0, stop |-> "", end |-> "", out |-> <<>>]

Sent(a, e, kind, ps) == [a EXCEPT !.out = Append(@, [e |-> e, i |-> a.next - 1, kind |-> kind, pieces |-> ps])]

AntStart(a) == IF a.started THEN a ELSE [a EXCEPT !.started = TRUE]
AntClose(a) == IF a.open = "" THEN a ELSE [Sent(a, "close", a.open, <<>>) EXCEPT !.open = ""]
\* A slip: the open block is left open.
AntOpenBeside(a, kind) == Sent([a EXCEPT !.open = kind, !.next = @ + 1], "open", kind, <<>>)

AntOpen(a, kind) == Sent([AntClose(a) EXCEPT !.open = kind, !.next = @ + 1], "open", kind, <<>>)
AntDelta(a, kind, ps) == Sent(IF a.open = kind THEN a ELSE AntOpen(a, kind), "delta", kind, ps)

\* A slip: a fragment with no index always belongs to the call before it.
ToolBefore(a, ch) == IF ch.ix # NoIndex THEN ch.ix ELSE a.last

\* A fragment with no index belongs to the call before it, unless it names a new id.
Tool(a, ch) ==
    LET Known(i) == \E n \in DOMAIN a.tools : a.tools[n].ix = i
        Before == CHOOSE n \in DOMAIN a.tools : a.tools[n].ix = a.last
        NamesNew == ch.id # 0 /\ Known(a.last) /\ a.tools[Before].id \notin {0, ch.id}
    IN CASE ch.ix # NoIndex -> ch.ix
         [] ch.ix = NoIndex /\ NamesNew -> Len(a.tools)
         [] OTHER -> a.last

AntCall(a, ch) ==
    LET ti == Tool(a, ch)
        tools == IF \E n \in DOMAIN a.tools : a.tools[n].ix = ti THEN a.tools
                 ELSE Append(a.tools, [ix |-> ti, id |-> 0, pieces |-> <<>>])
        n == CHOOSE k \in DOMAIN tools : tools[k].ix = ti
    IN [a EXCEPT !.last = ti,
                 !.tools = [tools EXCEPT ![n].id = IF ch.id # 0 THEN ch.id ELSE @,
                                         ![n].pieces = @ \o ch.pieces]]

\* Some chat upstreams close a tool call turn with "stop".
StopReason(a) ==
    CASE a.tools # <<>> /\ a.stop \in {"", "stop"} -> "tool_calls"
      [] a.tools = <<>> /\ a.stop \in {"", "tool_calls"} -> "stop"
      [] OTHER -> a.stop

AntFinish(a) ==
    LET written == FoldLeft(LAMBDA s, t : AntDelta(AntOpen(s, "tool"), "tool", t.pieces), AntClose(AntStart(a)), a.tools)
    IN [AntClose(written) EXCEPT !.stop = StopReason(a), !.end = "finished"]

\* A slip: a stream that ends by itself has ended well.
AntCutByError(a, ch) == ch.t = "cut"

\* A stream that ended without [DONE] and without a finish reason was cut.
AntCut(a, ch) == ch.t = "cut" \/ a.stop = ""

ToAnthropic(a, ch) ==
    LET s == AntStart(a) IN
    IF a.end # "" THEN a ELSE
    CASE ch.t \in {"text", "think"} -> AntDelta(s, ch.t, ch.pieces)
      [] ch.t = "call" -> AntCall(s, ch)
      [] ch.t = "finish" -> [s EXCEPT !.stop = ch.why]
      [] ch.t = "done" -> AntFinish(s)
      [] ch.t = "error" -> [s EXCEPT !.end = "failed"]
      [] ch.t \in {"eof", "cut"} ->
            IF AntCut(a, ch) THEN [s EXCEPT !.end = "failed"] ELSE AntFinish(s)

(***************************************************************************)
(* OpenAIStreamToResponses. Items are written as they come; text or thought   *)
(* closes the calls before it, and a closed call takes no more arguments.      *)
(***************************************************************************)
NoRsp == [items |-> <<>>, tools |-> <<>>, finish |-> "", end |-> ""]

Close(b, kinds) == [b EXCEPT !.items = [n \in DOMAIN @ |->
    IF @[n].kind \in kinds /\ @[n].st = "open" THEN [@[n] EXCEPT !.st = "done"] ELSE @[n]]]
AddItem(b, kind, id) == [b EXCEPT !.items = Append(@, [kind |-> kind, id |-> id, st |-> "open", pieces |-> <<>>])]
AddPieces(b, n, ps) == [b EXCEPT !.items[n].pieces = IF b.items[n].st = "open" THEN @ \o ps ELSE @]

\* think and say: one reasoning or message item is open at a time.
Say(b, kind, ps) ==
    LET open == {n \in DOMAIN b.items : b.items[n].kind = kind /\ b.items[n].st = "open"}
        opened == IF open # {} THEN b ELSE AddItem(Close(b, {"text", "think", "tool"} \ {kind}), kind, 0)
        n == IF open # {} THEN CHOOSE k \in open : TRUE ELSE Len(opened.items)
    IN AddPieces(opened, n, ps)

\* The calls of a chunk with no index are all of index 0.
RspCall(b, ch) ==
    LET key == IF ch.ix = NoIndex THEN 0 ELSE ch.ix
        known == \E n \in DOMAIN b.tools : b.tools[n].ix = key
        closed == AddItem(Close(b, {"text", "think"}), "tool", ch.id)
        s == IF known THEN b ELSE [closed EXCEPT !.tools = Append(@, [ix |-> key, item |-> Len(closed.items)])]
        t == CHOOSE n \in DOMAIN s.tools : s.tools[n].ix = key
    IN AddPieces(s, s.tools[t].item, ch.pieces)

\* Arguments parse when there are none of them, or all.
ArgsComplete(ps) == Len(ps) \in {0, MaxPieces}

\* A length stop must not hand over a call with half its input.
Dropped(b) == [b EXCEPT !.items = [n \in DOMAIN @ |->
    IF @[n].kind = "tool" /\ @[n].st = "open" /\ ~ArgsComplete(@[n].pieces) THEN [@[n] EXCEPT !.st = "dropped"] ELSE @[n]]]

RspFinish(b) ==
    LET closed == Close(b, {"text", "think"})
        kept == IF b.finish = "length" THEN Dropped(closed) ELSE closed
    IN [Close(kept, {"tool"}) EXCEPT !.end = "finished"]

ToResponses(b, ch) ==
    IF b.end # "" THEN b ELSE
    CASE ch.t \in {"text", "think"} -> Say(b, ch.t, ch.pieces)
      [] ch.t = "call" -> RspCall(b, ch)
      [] ch.t = "finish" -> [b EXCEPT !.finish = ch.why]
      [] ch.t = "done" -> RspFinish(b)
      [] ch.t \in {"error", "cut"} -> [b EXCEPT !.end = "failed"]
      [] ch.t = "eof" -> IF b.finish = "" THEN [b EXCEPT !.end = "failed"] ELSE RspFinish(b)

(***************************************************************************)
(* CollectOpenAIStream: the one answer the chunks add up to.                  *)
(***************************************************************************)
NoWhole == [text |-> <<>>, think |-> <<>>, calls |-> [i \in 0 .. MaxCalls - 1 |-> <<>>], finish |-> "", end |-> ""]

Collect(c, ch) ==
    LET i == IF ch.ix = NoIndex THEN 0 ELSE ch.ix IN
    IF c.end # "" THEN c ELSE
    CASE ch.t = "text" -> [c EXCEPT !.text = @ \o ch.pieces]
      [] ch.t = "think" -> [c EXCEPT !.think = @ \o ch.pieces]
      [] ch.t = "call" -> [c EXCEPT !.calls[i] = @ \o ch.pieces]
      [] ch.t = "finish" -> [c EXCEPT !.finish = ch.why]
      [] ch.t = "done" -> [c EXCEPT !.end = "finished"]
      [] ch.t = "error" -> [c EXCEPT !.end = "failed"]
      [] ch.t \in {"eof", "cut"} -> [c EXCEPT !.end = IF c.finish = "" THEN "failed" ELSE "finished"]

(***************************************************************************)
(* The provider's steps                                                      *)
(***************************************************************************)
StreamInit ==
    /\ via \in Protocols
    /\ indexed \in IF via = "chat" THEN BOOLEAN ELSE {TRUE}
    /\ said = <<>>
    /\ hub = NoHub /\ ant = NoAnt /\ rsp = NoRsp /\ whole = NoWhole

Reads(e) ==
    /\ ~Over
    /\ Len(said) < MaxEvents \/ e.k \in {"stop", "failed", "eof", "cut"}
    /\ said' = Append(said, e)
    /\ hub' = Convert(hub, e)
    /\ ant' = FoldLeft(ToAnthropic, ant, hub'.chunks)
    /\ rsp' = FoldLeft(ToResponses, rsp, hub'.chunks)
    /\ whole' = FoldLeft(Collect, whole, hub'.chunks)
    /\ UNCHANGED <<via, indexed>>

NothingAfterFinish == Len(Saying({"finish"})) = 0

SaysWords(k) == NothingAfterFinish /\ Reads([Event(k) EXCEPT !.pieces = <<Len(Saying({k})) + 1>>])

OpensCall ==
    /\ Opened < MaxCalls /\ NothingAfterFinish
    /\ Reads([Event("open") EXCEPT !.call = Opened + 1, !.pieces = IF via = "gemini" THEN AllPieces ELSE <<>>])

\* Only a provider that numbers its calls may come back to one.
SendsArgs(c) ==
    /\ c <= Opened /\ ~Closed(c) /\ NothingAfterFinish /\ via # "gemini"
    /\ Len(ArgsSent(c)) < MaxPieces
    /\ (via # "chat" \/ ~indexed) => Last(said).call = c
    /\ Reads([Event("args") EXCEPT !.call = c, !.pieces = <<Len(ArgsSent(c)) + 1>>])

\* The item of a call is done; its arguments may come only with it.
ClosesCall(c) ==
    /\ via = "responses" /\ c <= Opened /\ Last(said).call = c /\ ~Closed(c)
    /\ Len(ArgsSent(c)) \in {0, MaxPieces}
    /\ Reads([Event("close") EXCEPT !.call = c, !.pieces = AllPieces])

SentOrClosed == \A c \in 1 .. Opened : Len(ArgsSent(c)) = MaxPieces \/ Closed(c)

\* A provider cuts arguments short only for its limit on the answer's length.
Finishes(why) ==
    /\ via # "responses" /\ NothingAfterFinish
    /\ why \in {"stop", "tool_calls"} => AllSent
    /\ Reads([Event("finish") EXCEPT !.why = why])

Stops ==
    /\ via # "gemini"
    /\ IF via = "responses"
       THEN \E why \in {"stop", "length"} : (why = "stop" => SentOrClosed) /\ Reads([Event("stop") EXCEPT !.why = why])
       ELSE (NothingAfterFinish => AllSent) /\ Reads(Event("stop"))

Breaks == \E k \in {"failed", "eof", "cut"} : Reads(Event(k))

StreamNext ==
    \/ \E k \in {"text", "think"} : SaysWords(k)
    \/ OpensCall
    \/ \E c \in 1 .. MaxCalls : SendsArgs(c) \/ ClosesCall(c)
    \/ \E why \in {"stop", "tool_calls", "length"} : Finishes(why)
    \/ Stops
    \/ Breaks

StreamSpec == StreamInit /\ [][StreamNext]_streamVars

(***************************************************************************)
(* Properties                                                                *)
(***************************************************************************)

\* The events a Messages client reads nest: each block opens once, in the order
\* of its index, after the one before it has closed, its deltas come while it is
\* open, and a finished answer leaves none open (response.go, OpenAIStreamToAnthropic).
BlocksNest ==
    /\ \A n \in DOMAIN ant.out :
        LET e == ant.out[n]
            before == {k \in 1 .. n - 1 : ant.out[k].e = "open"}
            closed == {k \in 1 .. n - 1 : ant.out[k].e = "close"}
        IN CASE e.e = "open" -> e.i = Len(SelectSeq(SubSeq(ant.out, 1, n - 1), LAMBDA x : x.e = "open"))
                                /\ \A k \in before : \E j \in closed : ant.out[j].i = ant.out[k].i
             [] OTHER -> /\ \E k \in before : ant.out[k].i = e.i /\ ant.out[k].kind = e.kind
                         /\ ~\E k \in closed : ant.out[k].i = e.i
    /\ ant.end = "finished" => ant.open = ""

\* The provider ended its answer, in the way of its protocol.
Ended ==
    CASE via = "gemini" -> Last(said).k = "eof" /\ ~NothingAfterFinish
      [] via = "chat" -> Last(said).k = "stop" \/ (Last(said).k = "eof" /\ ~NothingAfterFinish)
      [] OTHER -> Last(said).k = "stop"

EmptyLength == via = "responses" /\ Last(said).why = "length" /\ Len(Saying({"text", "think", "open"})) = 0

\* A client is told its answer is finished exactly when the provider ended it:
\* an answer that was cut is an error, and none is lost. A whole answer is kept
\* when its finish reason had arrived before the cut (collect.go).
CutIsNotFinished == Over =>
    LET right == IF Ended /\ ~EmptyLength THEN "finished" ELSE "failed" IN
    /\ ant.end = right /\ rsp.end = right
    /\ whole.end = IF via = "chat" /\ Last(said).k = "cut" /\ ~NothingAfterFinish THEN "finished" ELSE right

WordsSaid(k) == PiecesOf(Saying({k}))
Blocks(kind) == SelectSeq(ant.out, LAMBDA e : e.e = "delta" /\ e.kind = kind)
Items(kind) == SelectSeq(rsp.items, LAMBDA t : t.kind = kind /\ t.st = "done")

\* What the provider sent of a call: the pieces of its deltas, or of its finished item.
Arguments(c) == IF Closed(c) THEN AllPieces ELSE ArgsSent(c)
CallsSent == [c \in 1 .. Opened |-> Arguments(c)]

\* Words came while a call had only some of its pieces.
Interrupted == \E m \in DOMAIN said : said[m].k \in {"text", "think"} /\
    LET before == SubSeq(said, 1, m - 1)
        Piecewise(c) == SelectSeq(before, LAMBDA e : e.k \in {"open", "args", "close"} /\ e.call = c)
    IN \E c \in 1 .. Opened : Piecewise(c) # <<>> /\ Len(PiecesOf(Piecewise(c))) < MaxPieces

\* The three clients get the same answer, and it is the provider's: all its text,
\* and each call once with its own arguments, whole. A Messages client is told to
\* run them; a Responses client is not handed a call with half of its arguments.
\* Calls with no index are told apart for a Messages client only, and a Responses
\* client loses arguments that come after words that closed their call.
AnswersAgree ==
    /\ ant.end = "finished" =>
        /\ PiecesOf(Blocks("text")) = WordsSaid("text") /\ PiecesOf(Blocks("think")) = WordsSaid("think")
        /\ [c \in DOMAIN Blocks("tool") |-> Blocks("tool")[c].pieces] = CallsSent
        /\ ant.stop # "length" => (ant.stop = "tool_calls" <=> Opened > 0)
    /\ rsp.end = "finished" =>
        /\ PiecesOf(Items("text")) = WordsSaid("text") /\ PiecesOf(Items("think")) = WordsSaid("think")
        /\ indexed /\ ~Interrupted =>
            [c \in DOMAIN Items("tool") |-> Items("tool")[c].pieces] = SelectSeq(CallsSent, ArgsComplete)
    /\ whole.end = "finished" =>
        /\ whole.text = WordsSaid("text") /\ whole.think = WordsSaid("think")
        /\ indexed => \A i \in 0 .. MaxCalls - 1 :
            whole.calls[i] = IF i < Opened THEN CallsSent[i + 1] ELSE <<>>

\* "a length stop must not hand the caller a call it would run with half its
\* input" (responses_client.go:665).
\* The code does not keep this (README.md, Disagreements found).
HalfCallNotHanded ==
    rsp.end = "finished" /\ rsp.finish = "length" =>
        \A n \in DOMAIN Items("tool") : Len(Items("tool")[n].pieces) \in {0, MaxPieces}
=============================================================================
