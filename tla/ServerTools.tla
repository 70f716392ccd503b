------------------------------ MODULE ServerTools ------------------------------
(***************************************************************************)
(* The tools Anthropic runs on its own servers, run by intact for a model of   *)
(* another provider (internal/servertools, httpapi/websearch.go serverTools).  *)
(* A Plan reads the client's history into plain calls and results (normalize), *)
(* calls the model, runs the calls of its own tools and calls again, until the *)
(* model answers, calls a tool of the client, or the turns are used up.        *)
(*                                                                         *)
(* Three tools of intact's stand for the kinds: an MCP server's, web fetch and *)
(* tool search, with one deferred tool to find; "client" is any tool of the    *)
(* client. Of texts only the URL in them is kept, of a result only its error   *)
(* flag, its URL and whether an image comes with it. The model and the web are *)
(* external. A web search run before the first call is left out.               *)
(***************************************************************************)
EXTENDS ChatPairs

CONSTANTS
    Urls,
    MaxTurns,     \* maxTurns
    MaxUses,      \* max_uses of web fetch, 0 for no limit
    MaxBlocks,    \* blocks the model answers in one conversation
    MaxRequests   \* requests of one conversation

ASSUME ToolsAssumption == {MaxTurns, MaxUses, MaxBlocks, MaxRequests} \subseteq Nat

VARIABLES
    conv,     \* the conversation as the client keeps it
    pc,       \* who is to act: the client, the model, or the plan
    msgs,     \* req.messages
    out,      \* the blocks the client is answered with
    answer,   \* blocks of the model's answer still to run
    turn,     \* internal and results of the turn
    turns, uses, urls, loaded,
    stop,     \* stop_reason of the last answer
    ids       \* ids given so far

toolVars == <<conv, pc, msgs, out, answer, turn, turns, uses, urls, loaded, stop, ids>>

NoUrl == "none"
Handled == {"mcp", "fetch", "search"}

Block(t, id, name, url) == [t |-> t, id |-> id, name |-> name, url |-> url, err |-> FALSE, image |-> FALSE]
Turn(role, blocks) == [role |-> role, blocks |-> blocks]
NoTurn == [internal |-> <<>>, results |-> <<>>]

(***************************************************************************)
(* normalize: the history as plain calls and results                         *)
(***************************************************************************)
FlushTurn(s) == IF s.cur = <<>> THEN s ELSE [turns |-> Append(s.turns, Turn("assistant", s.cur)), cur |-> <<>>]

NormalBlock(s, b) ==
    CASE b.t = "server" -> [s EXCEPT !.cur = Append(@, [b EXCEPT !.t = "use"])]
      [] b.t = "serverResult" -> [FlushTurn(s) EXCEPT !.turns = Append(@, Turn("user", <<[b EXCEPT !.t = "result"]>>))]
      [] OTHER -> [s EXCEPT !.cur = Append(@, b)]

NormalTurn(ts, m) ==
    IF m.role = "user" THEN Append(ts, m)
    ELSE FlushTurn(FoldLeft(NormalBlock, [turns |-> ts, cur |-> <<>>], m.blocks)).turns

MergeUsers(ts) == FoldLeft(LAMBDA s, m :
    IF s # <<>> /\ Last(s).role = "user" /\ m.role = "user"
    THEN [s EXCEPT ![Len(s)].blocks = @ \o m.blocks] ELSE Append(s, m), <<>>, ts)

Normalize(c) == MergeUsers(FoldLeft(NormalTurn, <<>>, c))

BlocksOf(ts) == FoldLeft(LAMBDA bs, m : bs \o m.blocks, <<>>, ts)

\* A slip: the pages fetched before are not learned from the history.
HarvestedFromUsers(c) ==
    {b.url : b \in Range(BlocksOf(SelectSeq(c, LAMBDA m : m.role = "user")))} \ {NoUrl}

\* What the history lets be fetched: the URLs of the user and of the client's
\* results, and the pages fetched before.
Harvested(c) == {b.url : b \in Range(BlocksOf(SelectSeq(c, LAMBDA m : m.role = "user")))
                        \cup {x \in Range(BlocksOf(c)) : x.t = "serverResult" /\ x.name = "fetch" /\ ~x.err}} \ {NoUrl}
FoundIn(c) == \E b \in Range(BlocksOf(c)) : b.t = "serverResult" /\ b.name = "search" /\ ~b.err

(***************************************************************************)
(* AnthropicToOpenAIFor: turns as Chat messages                              *)
(***************************************************************************)
ResultMessages(bs) == FoldLeft(LAMBDA ms, b :
    IF b.t # "result" THEN ms
    ELSE ms \o <<Message("tool", <<>>, b.id, <<>>)>> \o IF b.image THEN <<Message("user", <<>>, NoId, <<>>)>> ELSE <<>>,
    <<>>, bs)
Texts(bs) == SelectSeq(bs, LAMBDA b : b.t = "text")
UserText(bs) == IF Texts(bs) = <<>> THEN <<>> ELSE <<Message("user", <<>>, NoId, <<>>)>>
Uses(bs) == SelectSeq(bs, LAMBDA b : b.t = "use")
IdsOf(bs) == [n \in DOMAIN bs |-> bs[n].id]

\* A slip: the user's text goes first.
TextFirst(m) ==
    IF m.role = "assistant" THEN <<Message("assistant", IdsOf(Uses(m.blocks)), NoId, <<>>)>>
    ELSE UserText(m.blocks) \o ResultMessages(m.blocks)

ChatTurn(m) ==
    IF m.role = "assistant" THEN <<Message("assistant", IdsOf(Uses(m.blocks)), NoId, <<>>)>>
    ELSE ResultMessages(m.blocks) \o UserText(m.blocks)

ChatOfTurns(ts) == FoldLeft(LAMBDA ms, m : ms \o ChatTurn(m), <<>>, ts)

(***************************************************************************)
(* The client                                                                *)
(***************************************************************************)
ToolsInit ==
    /\ conv = <<>> /\ pc = "client" /\ msgs = <<>> /\ out = <<>> /\ answer = <<>> /\ turn = NoTurn
    /\ turns = 0 /\ uses = 0 /\ urls = {} /\ loaded = FALSE /\ stop = "end_turn" /\ ids = 0

Requests == Len(SelectSeq(conv, LAMBDA m : m.role = "assistant"))
Waiting == IF conv = <<>> THEN <<>> ELSE Uses(Last(conv).blocks)

\* Prepare: the request is read into a plan.
Prepare(c) ==
    /\ conv' = c /\ msgs' = Normalize(c)
    /\ urls' = Harvested(c) /\ loaded' = FoundIn(c)
    /\ turns' = 0 /\ uses' = 0 /\ out' = <<>>
    /\ pc' = "model"
    /\ UNCHANGED <<answer, turn, stop, ids>>

\* The client answers its own calls in the order they came, and may say more.
Asks(url, images) ==
    /\ pc = "client" /\ stop # "pause_turn" /\ Requests < MaxRequests
    /\ Prepare(Append(conv, Turn("user",
        [n \in DOMAIN Waiting |-> [Block("result", Waiting[n].id, "client", NoUrl) EXCEPT !.image = n \in images]]
            \o <<Block("text", NoId, "", url)>>)))

\* A paused turn is sent back as it came.
Resumes == pc = "client" /\ stop = "pause_turn" /\ Requests < MaxRequests /\ Prepare(conv)

(***************************************************************************)
(* Advance                                                                   *)
(***************************************************************************)
Finish(blocks, why) ==
    /\ conv' = Append(conv, Turn("assistant", blocks))
    /\ stop' = why /\ pc' = "client" /\ answer' = <<>> /\ turn' = NoTurn /\ out' = <<>>

Numbered(bs) == [n \in DOMAIN bs |-> IF bs[n].t = "use" THEN [bs[n] EXCEPT !.id = ids + n] ELSE bs[n]]

\* The model answers; an answer with no call of intact's is the client's.
ModelAnswers(content) ==
    /\ pc = "model" /\ ids + Len(content) <= MaxBlocks
    /\ ids' = ids + Len(content)
    /\ IF \E b \in Range(content) : b.t = "use" /\ b.name \in Handled
       THEN pc' = "run" /\ answer' = Numbered(content) /\ turn' = NoTurn /\ UNCHANGED <<conv, out, stop>>
       ELSE Finish(out \o Numbered(content), IF Uses(content) = <<>> THEN "end_turn" ELSE "tool_use")
    /\ UNCHANGED <<msgs, turns, uses, urls, loaded>>

\* failover had no answer: the client gets the error, and keeps its conversation.
ModelFails ==
    /\ pc = "model" /\ conv' = SubSeq(conv, 1, Len(conv) - IF Last(conv).role = "user" THEN 1 ELSE 0)
    /\ pc' = "client" /\ out' = <<>>
    /\ UNCHANGED <<msgs, answer, turn, turns, uses, urls, loaded, stop, ids>>

\* A block that is not a call of intact's goes on as it is.
Keeps ==
    LET b == Head(answer) IN
    /\ pc = "run" /\ answer # <<>> /\ ~(b.t = "use" /\ b.name \in Handled)
    /\ out' = Append(out, b) /\ turn' = [turn EXCEPT !.internal = Append(@, b)] /\ answer' = Tail(answer)
    /\ UNCHANGED <<conv, pc, msgs, turns, uses, urls, loaded, stop, ids>>

\* run: the client is shown the call and its result, the model is given the result.
Ran(b, result) ==
    /\ out' = out \o <<[b EXCEPT !.t = "server"], result>>
    /\ turn' = [internal |-> Append(turn.internal, b), results |-> Append(turn.results, [result EXCEPT !.t = "result"])]
    /\ answer' = Tail(answer)
    /\ UNCHANGED <<conv, pc, msgs, turns, stop, ids>>

Runs(name) == pc = "run" /\ answer # <<>> /\ Head(answer).t = "use" /\ Head(answer).name = name
ResultOf(b, url, err) == [Block("serverResult", b.id, b.name, url) EXCEPT !.err = err]

\* The text of an MCP tool may name a URL; it is not read for one.
RunMcp(url, err) ==
    /\ Runs("mcp") /\ Ran(Head(answer), ResultOf(Head(answer), url, err))
    /\ UNCHANGED <<uses, urls, loaded>>

RunSearch(found) ==
    /\ Runs("search") /\ Ran(Head(answer), ResultOf(Head(answer), NoUrl, ~found))
    /\ loaded' = (loaded \/ found)
    /\ UNCHANGED <<uses, urls>>

Fetchable(url) == (MaxUses = 0 \/ uses < MaxUses) /\ url \in urls

\* Only a URL of the conversation is fetched; the page may be another's, and may
\* be fetched from then on.
RunFetch(final, err) ==
    LET b == Head(answer) IN
    /\ Runs("fetch")
    /\ ~err => Fetchable(b.url)
    /\ Ran(b, ResultOf(b, IF err THEN NoUrl ELSE final, err))
    /\ uses' = uses + 1
    /\ urls' = IF err THEN urls ELSE urls \cup {final}
    /\ UNCHANGED loaded

\* After the calls: the client runs its own, the turns are used up, or the model
\* is called again.
TurnEnds ==
    /\ pc = "run" /\ answer = <<>>
    /\ turns' = IF Uses(turn.internal) = Uses(SelectSeq(turn.internal, LAMBDA b : b.name # "client")) THEN turns + 1 ELSE turns
    /\ IF turns' = turns THEN Finish(out, "tool_use") /\ UNCHANGED msgs
       ELSE IF turns' >= MaxTurns THEN Finish(out, "pause_turn") /\ UNCHANGED msgs
       ELSE /\ msgs' = msgs \o <<Turn("assistant", turn.internal), Turn("user", turn.results)>>
            /\ pc' = "model" /\ turn' = NoTurn
            /\ UNCHANGED <<conv, out, stop, answer>>
    /\ UNCHANGED <<uses, urls, loaded, ids>>

Content == {Block("text", NoId, "", NoUrl), Block("use", NoId, "client", NoUrl), Block("use", NoId, "mcp", NoUrl),
            Block("use", NoId, "search", NoUrl)} \cup {Block("use", NoId, "fetch", u) : u \in Urls}

ToolsNext ==
    \/ \E url \in Urls \cup {NoUrl}, images \in SUBSET (1 .. Len(Waiting)) : Asks(url, images)
    \/ Resumes
    \/ \E n \in 1 .. MaxBlocks : \E content \in [1 .. n -> Content] : ModelAnswers(content)
    \/ ModelFails
    \/ Keeps
    \/ \E url \in Urls : RunMcp(url, FALSE)
    \/ RunMcp(NoUrl, TRUE)
    \/ \E found \in BOOLEAN : RunSearch(found)
    \/ \E final \in Urls, err \in BOOLEAN : RunFetch(final, err)
    \/ TurnEnds

ToolsSpec == ToolsInit /\ [][ToolsNext]_toolVars

(***************************************************************************)
(* Properties                                                                *)
(***************************************************************************)
NotResults(ts) == SelectSeq(BlocksOf(ts), LAMBDA b : b.t # "result")
Results(ts) == {b \in Range(BlocksOf(ts)) : b.t = "result"}

\* When a turn's calls are run, the history the client is given back reads, once
\* normalized, as the one the model would be called with: the same texts and
\* calls in their order, with the same results (plan.go, Advance and normalize).
\* A tool found before is known to be found, and a page fetched stays fetchable.
HistoryComesBack == pc = "run" /\ answer = <<>> =>
    LET back == Append(conv, Turn("assistant", out))
        kept == msgs \o <<Turn("assistant", turn.internal), Turn("user", turn.results)>>
    IN /\ NotResults(Normalize(back)) = NotResults(kept)
       /\ Results(Normalize(back)) = Results(kept)
       /\ FoundIn(back) = loaded /\ Harvested(back) = urls

Seen(c, b) == \E n \in DOMAIN c : c[n].url = b.url /\
    (c[n].t \in {"text", "result"} \/ (c[n].t = "serverResult" /\ c[n].name = "fetch"))

\* A page is fetched only when its URL stood in the conversation before: in what
\* the user or the client's tools said, or as a page fetched before. What the
\* model made up is not fetched (plan.go, runFetch and harvest).
FetchOnlySeen ==
    LET all == BlocksOf(conv) \o out IN
    \A n \in DOMAIN all : all[n].t = "serverResult" /\ all[n].name = "fetch" /\ ~all[n].err =>
        Seen(SubSeq(all, 1, n - 2), all[n - 1])

TurnPairs(ts, n) == \A b \in Range(Uses(ts[n].blocks)) :
    n < Len(ts) /\ Count(IdsOf(ts[n + 1].blocks), b.id) = 1

\* Every call of the history the model is given has one result, after it, and a
\* call of intact's has it in the next turn. Where the turns pair and no image
\* stands between results, the Chat messages made of them pair as well. No two
\* turns of the user follow each other (plan.go, mergeUsers).
CallsAnsweredOnce == pc = "model" =>
    /\ \A b \in Range(Uses(BlocksOf(msgs))) :
        Count(IdsOf(SelectSeq(BlocksOf(msgs), LAMBDA x : x.t = "result")), b.id) = 1
    /\ \A n \in DOMAIN msgs : \A b \in Range(Uses(msgs[n].blocks)) :
        b.name \in Handled => b.id \in Range(IdsOf(msgs[n + 1].blocks))
    /\ (\A n \in DOMAIN msgs : TurnPairs(msgs, n)) /\ (\A b \in Results(msgs) : ~b.image) => PairedUp(ChatOfTurns(msgs))
    /\ \A n \in 1 .. Len(msgs) - 1 : {msgs[n].role, msgs[n + 1].role} # {"user"}

\* "each pair becomes a call and a result in turn, which every provider takes"
\* (plan.go:518).
\* The code does not keep this (README.md, Disagreements found).
TurnsPair == pc = "model" => \A n \in DOMAIN msgs : TurnPairs(msgs, n)

\* "it must follow the assistant turn that called the tool, before any user text"
\* (request.go).
\* The code does not keep this (README.md, Disagreements found).
ResultsFollowCalls ==
    pc = "model" /\ (\A n \in DOMAIN msgs : TurnPairs(msgs, n)) => PairedUp(ChatOfTurns(msgs))
=============================================================================
