------------------------------ MODULE ToolHistory ------------------------------
(***************************************************************************)
(* The history a Responses client sends (internal/translate). An agent's list  *)
(* of items holds calls, their outputs and messages as they came, some outputs *)
(* late, doubled, without an id or missing. For a provider that speaks Chat    *)
(* the items become messages (ResponsesToOpenAIFor) and are healed            *)
(* (healToolPairs); for one that speaks Responses, missing outputs get a       *)
(* stand-in (HealResponsesCallOutputs).                                       *)
(*                                                                         *)
(* An item is known by its place in the list; texts, names and arguments are   *)
(* left out, and system messages, which go to the head of the request.         *)
(***************************************************************************)
EXTENDS ChatPairs

CONSTANTS MaxItems, CallIds

ASSUME HistoryAssumption == MaxItems \in Nat /\ CallIds \subseteq Nat \ {NoId}

VARIABLE items   \* the input of the request

historyVars == <<items>>

Item(t, id, image) == [t |-> t, id |-> id, image |-> image]
StandIn == "standin"

(***************************************************************************)
(* ResponsesToOpenAIFor: the items as messages                               *)
(***************************************************************************)

\* pushText: text of the one who spoke last joins what he said.
PushText(msgs, role, n) ==
    IF msgs # <<>> /\ Last(msgs).role = role /\ Last(msgs).calls = <<>> /\ ~Last(msgs).image
    THEN [msgs EXCEPT ![Len(msgs)].from = Append(@, n)]
    ELSE Append(msgs, Message(role, <<>>, NoId, <<n>>) @@ [image |-> FALSE])

\* pushCall: parallel calls come as items of their own and make one turn.
PushCall(msgs, id, n) ==
    IF msgs # <<>> /\ Last(msgs).role = "assistant"
    THEN [msgs EXCEPT ![Len(msgs)].calls = Append(@, id), ![Len(msgs)].from = Append(@, n)]
    ELSE Append(msgs, Message("assistant", <<id>>, NoId, <<n>>) @@ [image |-> FALSE])

\* An output is a tool's message; its images follow as a user's.
PushOutput(msgs, it, n) ==
    Append(msgs, Message("tool", <<>>, it.id, <<n>>) @@ [image |-> FALSE])
        \o IF it.image THEN <<Message("user", <<>>, NoId, <<n>>) @@ [image |-> TRUE]>> ELSE <<>>

ChatOf(its) == FoldLeft(LAMBDA msgs, n :
    CASE its[n].t \in {"user", "assistant"} -> PushText(msgs, its[n].t, n)
      [] its[n].t = "call" -> PushCall(msgs, its[n].id, n)
      [] its[n].t = "output" -> PushOutput(msgs, its[n], n)
      [] OTHER -> msgs, <<>>, [n \in DOMAIN its |-> n])

(***************************************************************************)
(* healToolPairs                                                             *)
(***************************************************************************)
Missing(id) == Message("tool", <<>>, id, <<>>) @@ [image |-> FALSE]
Orphan(m) == [m EXCEPT !.role = "user", !.id = NoId]
Mapped(Op(_), s) == [n \in DOMAIN s |-> Op(s[n])]

Unhealed == [out |-> <<>>, pending |-> <<>>, deferred |-> <<>>, held |-> <<>>]

\* A slip: an unanswered call is forgotten with the batch.
FlushWithoutMissing(s) ==
    [Unhealed EXCEPT !.out = s.out \o Mapped(Orphan, s.deferred) \o s.held]

Flush(s) == [Unhealed EXCEPT !.out =
    s.out \o Mapped(Missing, s.pending) \o Mapped(Orphan, s.deferred) \o s.held]

\* A result with no id answers the oldest call that waits.
HealResult(s, m) ==
    LET id == IF m.id = NoId /\ s.pending # <<>> THEN s.pending[1] ELSE m.id
        taken == [s EXCEPT !.pending = RemoveFirst(@, id), !.out = Append(@, [m EXCEPT !.id = id])]
    IN IF id \in Range(s.pending) THEN IF taken.pending = <<>> THEN Flush(taken) ELSE taken
       ELSE IF s.pending # <<>> THEN [s EXCEPT !.deferred = Append(@, m)]
       ELSE [s EXCEPT !.out = Append(@, Orphan(m))]

\* A message between a call and its result waits for the batch to be answered.
HealStep(s, m) ==
    IF m.role = "tool" THEN HealResult(s, m)
    ELSE IF s.pending # <<>> /\ m.role # "assistant" THEN [s EXCEPT !.held = Append(@, m)]
    ELSE [Flush(s) EXCEPT !.out = Append(@, m), !.pending = m.calls]

Heal(msgs) == Flush(FoldLeft(HealStep, Unhealed, msgs)).out

(***************************************************************************)
(* HealResponsesCallOutputs                                                  *)
(***************************************************************************)
InBatch(it) == it.t \in {"call", "think"}
HasOutput(its, id) == \E n \in DOMAIN its : its[n].t = "output" /\ its[n].id = id

EndOfBatch(its, n) == n = Len(its) \/ ~InBatch(its[n + 1])

HealItems(its) ==
    FoldLeft(LAMBDA s, n :
        LET missing == IF its[n].t = "call" /\ ~HasOutput(its, its[n].id)
                       THEN Append(s.missing, Item(StandIn, its[n].id, FALSE)) ELSE s.missing
        IN IF EndOfBatch(its, n) THEN [out |-> Append(s.out, its[n]) \o missing, missing |-> <<>>]
           ELSE [out |-> Append(s.out, its[n]), missing |-> missing],
        [out |-> <<>>, missing |-> <<>>], [n \in DOMAIN its |-> n]).out

(***************************************************************************)
(* Any history of at most MaxItems items                                     *)
(***************************************************************************)
HistoryInit == items = <<>>

Adds(it) == Len(items) < MaxItems /\ items' = Append(items, it)

HistoryNext ==
    \/ \E t \in {"user", "assistant", "think"} : Adds(Item(t, NoId, FALSE))
    \/ \E id \in CallIds : Adds(Item("call", id, FALSE))
    \/ \E id \in CallIds \cup {NoId} : Adds(Item("output", id, FALSE))
    \/ \E id \in CallIds : Adds(Item("output", id, TRUE))

HistorySpec == HistoryInit /\ [][HistoryNext]_historyVars

(***************************************************************************)
(* Properties                                                                *)
(***************************************************************************)
Places(msgs) == FoldLeft(LAMBDA ps, m : ps \o m.from, <<>>, msgs)

\* An output comes before the assistant speaks again, and none before it has
\* answered its call.
InTime(i, j) ==
    /\ i < j /\ items[i].t = "call" /\ items[j].t = "output" /\ items[j].id = items[i].id
    /\ ~\E k \in i + 1 .. j - 1 :
        \/ items[k].t = "assistant"
        \/ items[k].t = "output" /\ items[k].id \in {items[i].id, NoId}
        \/ items[k].t = "call" /\ items[k].id = items[i].id
        \/ items[k].t = "call" /\ \E m \in i + 1 .. k - 1 : items[m].t \notin {"call", "think"}

\* Whatever an agent sends, the calls of the messages pair with their results;
\* every message, call and output goes on, an output without a call as a user's
\* text, and an output that comes in time answers its own call.
HealedPairsUp ==
    LET healed == Heal(ChatOf(items))
        places == Places(healed)
    IN
    /\ PairedUp(healed)
    /\ \A n \in DOMAIN items : items[n].t # "think" => Count(places, n) = IF items[n].image THEN 2 ELSE 1
    /\ \A i, j \in DOMAIN items : InTime(i, j) =>
        \E m \in Range(healed) : m.role = "tool" /\ m.from = <<j>> /\ m.id = items[i].id

\* The items go on in their order; every call has an output or one stand-in; and
\* no batch of calls is broken up by a stand-in.
StandInsFit ==
    LET out == HealItems(items) IN
    /\ SelectSeq(out, LAMBDA it : it.t # StandIn) = items
    /\ \A n \in DOMAIN out : out[n].t = StandIn =>
        /\ \E k \in 1 .. n - 1 : out[k].t = "call" /\ out[k].id = out[n].id
        /\ n < Len(out) => ~InBatch(out[n + 1])
    /\ \A id \in CallIds :
        Count(Mapped(LAMBDA it : <<it.t, it.id>>, out), <<StandIn, id>>)
            = IF HasOutput(items, id) THEN 0 ELSE Count(Mapped(LAMBDA it : <<it.t, it.id>>, items), <<"call", id>>)
=============================================================================
