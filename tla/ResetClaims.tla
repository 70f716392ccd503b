----------------------------- MODULE ResetClaims -----------------------------
(***************************************************************************)
(* Claims of a quota reset (httpapi/quota_resets.go:claimReset).            *)
(*                                                                         *)
(* An account may have resets that refill its quota, each to be spent once. *)
(* A click in the dashboard claims one: a row of the provider's quota, under *)
(* a request id.  One claim of an account runs at a time.  It reads the      *)
(* quota, sends the claim, and remembers in memory what came of it: done, in *)
(* doubt because no answer came, or held because the provider may go on      *)
(* showing a reset for a while after it was spent.                           *)
(*                                                                         *)
(* The provider takes a claim now, later or never, whatever its answer's     *)
(* fate.  It shows what it took after a while.  One row of one account.      *)
(***************************************************************************)
EXTENDS QuotaCache

CONSTANTS
    Clicks,        \* request ids
    MaxLeft,       \* bound: resets of the row at first
    MaxRestarts    \* bound: restarts of the process

ASSUME ResetAssumption == MaxLeft \in Nat \ {0} /\ MaxRestarts \in Nat

VARIABLES
    kind,         \* the row's kind: one a week, a grant of some, or a single credit
    left,         \* resets the account has
    shown,        \* resets the provider shows
    late,         \* clicks that are still on their way to the provider
    taken,        \* clicks the provider took
    at,           \* where each claim is
    post,         \* its click
    doubted,      \* what was left before the attempt in doubt that it repeats
    row,          \* what its read showed
    answer,       \* what the provider answered
    unknown,      \* the click in doubt
    hold,         \* the count that must go down before the next claim
    done,         \* clicks that are decided, for a quarter of an hour
    told,         \* history: clicks that given a decision, or that a restart forgot
    confirmed,    \* history: clicks that were answered with a reset
    restarts

provider  == <<kind, left, shown, late, taken>>
claims    == <<at, post, doubted, row, answer>>
tables    == <<unknown, hold, done>>
histories == <<told, confirmed, restarts>>
resetVars == <<quotaVars, provider, claims, tables, histories>>

Kinds   == {"weekly", "grant", "credit"}
NoClick == "none"
Missing == [there |-> FALSE, left |-> 0, usable |-> FALSE, next |-> FALSE]
NoDoubt == [click |-> NoClick, left |-> 0, old |-> FALSE]
NoHold  == [left |-> 0, old |-> FALSE]            \* a held count is at least one
Finals  == {"reset", "spent", "refused"}          \* "refused": not needed, not allowed

\* What the provider may show of the row now.  Where the account is not at its
\* limit a weekly reset reads as none left, and a grant as one not usable.
WeeklyRows ==
    {[there |-> TRUE, left |-> shown, usable |-> shown = 1, next |-> shown = 0],
     [there |-> TRUE, left |-> 0, usable |-> FALSE, next |-> shown = 0]}

Counted(u) == [there |-> TRUE, left |-> shown, usable |-> u, next |-> FALSE]
Gone       == IF shown = 0 THEN {Missing} ELSE {}

GrantRows  == {Counted(FALSE), Counted(shown > 0)} \cup Gone
CreditRows == {Counted(shown > 0)} \cup Gone

Rows == CASE kind = "weekly" -> WeeklyRows
          [] kind = "grant"  -> GrantRows
          [] kind = "credit" -> CreditRows

ResetInit ==
    /\ QuotaInit
    /\ kind \in Kinds
    /\ left \in IF kind = "grant" THEN 1..MaxLeft ELSE {1}
    /\ shown = left /\ late = {} /\ taken = {}
    /\ at = [t \in Claimers |-> "idle"]
    /\ post = [t \in Claimers |-> NoClick]
    /\ doubted = [t \in Claimers |-> 0]
    /\ row = [t \in Claimers |-> Missing]
    /\ answer = [t \in Claimers |-> "none"]
    /\ unknown = NoDoubt /\ hold = NoHold /\ done = {}
    /\ told = {} /\ confirmed = {} /\ restarts = 0

Goto(t, where) == at' = [at EXCEPT ![t] = where]

\* The handler answers and lets go of the account's lock.
End(t) ==
    /\ Goto(t, "idle")
    /\ post' = [post EXCEPT ![t] = NoClick]
    /\ doubted' = [doubted EXCEPT ![t] = 0]
    /\ row' = [row EXCEPT ![t] = Missing]
    /\ answer' = [answer EXCEPT ![t] = "none"]

-----------------------------------------------------------------------------
(* A claim, step by step. *)

Locked == \E t \in Claimers : at[t] # "idle"

\* A click that is decided, or that has to wait for one in doubt, is refused.
MayClaim(q) ==
    /\ q \notin done
    /\ unknown # NoDoubt => unknown.click = q /\ unknown.old

Begin(t, q) ==
    /\ ~Locked /\ MayClaim(q)
    /\ Goto(t, "begun")
    /\ post' = [post EXCEPT ![t] = q]
    /\ doubted' = [doubted EXCEPT ![t] = unknown.left]
    /\ UNCHANGED <<quotaVars, provider, row, answer, tables, histories>>

ReadRow(t) ==
    /\ at[t] = "begun"
    /\ FreshBegins(t)
    /\ Goto(t, "reading")
    /\ UNCHANGED <<provider, post, doubted, row, answer, tables, histories>>

SeeRow(t) ==
    /\ at[t] = "reading"
    /\ FreshEnds(t)
    /\ \E seen \in Rows : row' = [row EXCEPT ![t] = seen]
    /\ Goto(t, "decide")
    /\ UNCHANGED <<provider, post, doubted, answer, tables, histories>>

\* The quota cannot be read, or its resets cannot.
CannotRead(t) ==
    /\ \/ at[t] = "begun" /\ UNCHANGED quotaVars
       \/ at[t] = "reading" /\ (FreshFails(t) \/ FreshEnds(t))
    /\ End(t)
    /\ UNCHANGED <<provider, tables, histories>>

\* The click in doubt probably went through: fewer are left than before it.
LikelySpent(t) ==
    /\ doubted[t] # 0
    /\ \/ ~row[t].there
       \/ row[t].left < doubted[t] /\ (kind = "weekly" => row[t].next)

Decided(t) ==
    /\ done' = done \cup {post[t]} /\ told' = told \cup {post[t]}
    /\ unknown' = NoDoubt

SettleDoubt(t) ==
    /\ at[t] = "decide" /\ LikelySpent(t)
    /\ Decided(t) /\ End(t)
    /\ UNCHANGED <<quotaVars, provider, hold, confirmed, restarts>>

\* A slip of the code that the properties must notice.
NeverHeld(t) == FALSE

\* The provider still shows the count of before the last reset.
Held(t) ==
    /\ hold # NoHold /\ ~hold.old
    /\ ~(row[t].there /\ row[t].left < hold.left)

Decline(t) ==
    /\ at[t] = "decide" /\ ~LikelySpent(t) /\ Held(t)
    /\ End(t)
    /\ UNCHANGED <<quotaVars, provider, tables, histories>>

\* Nothing to claim, or no token to claim it with.
GiveUp(t) ==
    /\ at[t] = "decide" /\ ~LikelySpent(t) /\ ~Held(t)
    /\ hold' = NoHold
    /\ End(t)
    /\ UNCHANGED <<quotaVars, provider, unknown, done, histories>>

Send(t) ==
    /\ at[t] = "decide" /\ ~LikelySpent(t) /\ ~Held(t) /\ row[t].usable
    /\ hold' = NoHold
    /\ Goto(t, "sent")
    /\ UNCHANGED <<quotaVars, provider, post, doubted, row, answer, unknown, done, histories>>

Answered(t, a) ==
    /\ answer' = [answer EXCEPT ![t] = a]
    /\ Goto(t, "answered")
    /\ UNCHANGED <<quotaVars, post, doubted, row, tables, histories>>

\* Slips of the code that the properties must notice.
KeepsDoubt(t) == IF answer[t] = "unknown"
                 THEN [click |-> post[t], left |-> row[t].left, old |-> FALSE]
                 ELSE unknown
FailureSettles(t) == IF answer[t] = "unknown"
                     THEN [click |-> post[t], left |-> row[t].left, old |-> FALSE]
                     ELSE NoDoubt

\* What is in doubt after the answer: a failure leaves that as it was.
DoubtAfter(t) ==
    CASE answer[t] = "unknown" -> [click |-> post[t], left |-> row[t].left, old |-> FALSE]
      [] answer[t] = "failed"  -> unknown
      [] OTHER                 -> NoDoubt

\* The quota is invalidated and the tables are brought up to date.
Record(t) ==
    /\ at[t] = "answered"
    /\ Invalidate
    /\ unknown' = DoubtAfter(t)
    /\ hold' = IF answer[t] = "reset" THEN [left |-> row[t].left, old |-> FALSE] ELSE hold
    /\ IF answer[t] \in Finals
       THEN done' = done \cup {post[t]} /\ told' = told \cup {post[t]}
       ELSE UNCHANGED <<done, told>>
    /\ confirmed' = IF answer[t] = "reset" THEN confirmed \cup {post[t]} ELSE confirmed
    /\ IF answer[t] = "reset"
       THEN Goto(t, "reset") /\ UNCHANGED <<post, doubted, row, answer>>
       ELSE End(t)
    /\ UNCHANGED <<provider, restarts>>

\* After a reset the handler reads the quota once more for its answer.
ReadAgain(t) ==
    /\ at[t] = "reset"
    /\ FreshBegins(t)
    /\ Goto(t, "rereading")
    /\ UNCHANGED <<provider, post, doubted, row, answer, tables, histories>>

Finish(t) ==
    /\ \/ at[t] = "reset" /\ UNCHANGED quotaVars
       \/ at[t] = "rereading" /\ (FreshEnds(t) \/ FreshFails(t))
    /\ End(t)
    /\ UNCHANGED <<provider, tables, histories>>

-----------------------------------------------------------------------------
(* The provider. *)

\* It takes a click once: a grant's carries its request id.
Takes(q) ==
    /\ left > 0 /\ q \notin taken
    /\ left' = left - 1 /\ taken' = taken \cup {q}
    /\ UNCHANGED <<kind, shown>>

\* It takes the claim; the answer may be lost.
Accept(t) ==
    /\ at[t] = "sent"
    /\ Takes(post[t]) /\ UNCHANGED late
    /\ Answered(t, "reset") \/ Answered(t, "unknown")

\* It took this click before, or has no reset left.
Repeat(t) ==
    /\ at[t] = "sent" /\ (post[t] \in taken \/ left = 0)
    /\ Answered(t, "spent") \/ (post[t] \in taken /\ kind = "grant" /\ Answered(t, "reset"))
    /\ UNCHANGED provider

\* It takes nothing: nothing to refill, not allowed, too many requests, a bad token.
TurnDown(t) ==
    /\ at[t] = "sent"
    /\ Answered(t, "refused") \/ Answered(t, "failed")
    /\ UNCHANGED provider

\* No answer within 25 seconds; the claim may still be taken.
TimeOut(t) ==
    /\ at[t] = "sent"
    /\ Answered(t, "unknown")
    /\ late' = late \cup {post[t]}
    /\ UNCHANGED <<kind, left, shown, taken>>

Arrive(q) ==
    /\ q \in late
    /\ late' = late \ {q}
    /\ Takes(q) \/ UNCHANGED <<kind, left, shown, taken>>
    /\ UNCHANGED <<quotaVars, claims, tables, histories>>

Show ==
    /\ shown # left
    /\ shown' = left
    /\ UNCHANGED <<quotaVars, kind, left, late, taken, claims, tables, histories>>

-----------------------------------------------------------------------------
(* Time, and a restart. *)

Age ==
    /\ \/ /\ unknown # NoDoubt /\ ~unknown.old
          /\ unknown' = [unknown EXCEPT !.old = TRUE] /\ UNCHANGED <<hold, done>>
       \* The provider shows within a minute what it took; a claim that has read
       \* the row decides on it at once.
       \/ /\ hold # NoHold /\ ~hold.old /\ shown = left
          /\ \A t \in Claimers : at[t] # "decide"
          /\ hold' = [hold EXCEPT !.old = TRUE] /\ UNCHANGED <<unknown, done>>
       \/ (\E q \in done : done' = done \ {q}) /\ UNCHANGED <<unknown, hold>>
    /\ UNCHANGED <<quotaVars, provider, claims, histories>>

Restart ==
    /\ restarts < MaxRestarts
    /\ restarts' = restarts + 1
    /\ Forget
    /\ at' = [t \in Claimers |-> "idle"]
    /\ post' = [t \in Claimers |-> NoClick]
    /\ doubted' = [t \in Claimers |-> 0]
    /\ row' = [t \in Claimers |-> Missing]
    /\ answer' = [t \in Claimers |-> "none"]
    /\ unknown' = NoDoubt /\ hold' = NoHold /\ done' = {}
    /\ confirmed' = {}
    /\ told' = told \cup taken \cup late
         \cup {post[t] : t \in {u \in Claimers : at[u] = "sent"}}
    /\ UNCHANGED provider

Claim(t) ==
    \/ ReadRow(t) \/ SeeRow(t) \/ CannotRead(t) \/ SettleDoubt(t) \/ Decline(t) \/ GiveUp(t)
    \/ Send(t) \/ Accept(t) \/ Repeat(t) \/ TurnDown(t) \/ TimeOut(t) \/ Record(t)
    \/ ReadAgain(t) \/ Finish(t)

ResetNext ==
    \/ \E t \in Claimers : (\E q \in Clicks : Begin(t, q)) \/ Claim(t)
    \/ \E q \in Clicks : Arrive(q)
    \/ ReadOn /\ UNCHANGED <<provider, claims, tables, histories>>
    \/ Show \/ Age \/ Restart

ResetSpec == ResetInit /\ [][ResetNext]_resetVars

-----------------------------------------------------------------------------
\* The type of every variable of claimReset's tables, claims and provider.
ResetTypeOK ==
    /\ QuotaTypeOK
    /\ kind \in Kinds /\ left \in 0..MaxLeft /\ shown \in 0..MaxLeft
    /\ late \subseteq Clicks /\ taken \subseteq Clicks /\ done \subseteq Clicks
    /\ told \subseteq Clicks /\ confirmed \subseteq taken
    /\ at \in [Claimers -> {"idle", "begun", "reading", "decide", "sent", "answered", "reset",
                            "rereading"}]
    /\ post \in [Claimers -> Clicks \cup {NoClick}]
    /\ doubted \in [Claimers -> 0..MaxLeft]
    /\ \A t \in Claimers : row[t].left \in 0..MaxLeft
    /\ answer \in [Claimers -> Finals \cup {"none", "unknown", "failed"}]
    /\ unknown.click \in Clicks \cup {NoClick} /\ unknown.left \in 0..MaxLeft
    /\ hold.left \in 0..MaxLeft

\* A row in doubt can be settled: the click the others wait for is not refused
\* as decided, and its count tells a spent reset from one that is left
\* (quota_resets.go:671 before :681).
DoubtCanBeSettled ==
    unknown # NoDoubt => unknown.click \notin done /\ unknown.left > 0

Sends(t) == at[t] = "decide" /\ at'[t] = "sent"

\* A claim is sent only when every other click that reached the provider, or
\* still may, was decided: two clicks never spend two resets because the answer
\* to the first was lost (quota_claim_test.go:222, "unknown_pending").
DoubtBlocks ==
    [][\A t \in Claimers : Sends(t) =>
         \A q \in (taken \cup late) \ {post[t]} : q \in told]_resetVars

\* No claim is sent on a count that still contains a reset that was
\* confirmed, however long the provider takes to show it
\* (quota_claim_test.go:326, "while provider still reports old resets").
HeldUntilShown ==
    [][\A t \in Claimers : Sends(t) /\ kind # "weekly" =>
         row[t].left + Cardinality(confirmed) <= left + Cardinality(taken)]_resetVars
=============================================================================
