------------------------------ MODULE Failover ------------------------------
(***************************************************************************)
(* The handler that tries a request on one account after another           *)
(* (httpapi/v1.go:failover), for any list of attempts.                      *)
(*                                                                         *)
(* Each request is a process.  An attempt is sent; its answer may earn one  *)
(* resend to the same account at each of four stages, in this order: the    *)
(* path is changed, reasoning another account encrypted is left out, an     *)
(* exchanged token is exchanged again, an OAuth token is refreshed.  What   *)
(* remains of the answer then decides: the next attempt, or the answer is   *)
(* the caller's.                                                            *)
(***************************************************************************)
EXTENDS Integers, Sequences

CONSTANTS
    Accounts,          \* connection ids
    Requests,          \* client requests
    Exchanging,        \* accounts whose credential is exchanged first (Copilot)
    OAuth,             \* accounts with a refresh token
    Ciphered,          \* requests in the Responses shape that carry reasoning
    Streaming,         \* requests the upstream answers with a stream
    Answers,           \* bound: what the upstreams answer in a run
    MaxAttempts        \* bound: attempts of a request in a run

ASSUME FailoverAssumption ==
    /\ Exchanging \subseteq Accounts /\ OAuth \subseteq Accounts
    /\ Ciphered \subseteq Requests /\ Streaming \subseteq Requests
    /\ MaxAttempts \in Nat

VARIABLES
    pc,         \* where the handler of each request is
    attempts,   \* the tries of the request, in order
    idx,        \* the try under way
    stage,      \* the resends already spent on it
    status,     \* the last answer of the upstream
    sends,      \* calls made upstream (tried, and the resends)
    shortened,  \* the history was shortened for a rate limit
    reply       \* what the caller got

failoverVars == <<pc, attempts, idx, stage, status, sends, shortened, reply>>

-----------------------------------------------------------------------------
Attempt == [acc : Accounts, alt : BOOLEAN, standby : BOOLEAN]

\* The resends, by the stage that spends them.
FirstSend == 0
NewPath   == 1
NoCipher  == 2
Exchanged == 3
Refreshed == 4

\* What an upstream may answer.  "empty" is a stream that closes before its first
\* byte; "wrongpath" a 400 that names /responses; "cipher400" and "cipher200" the
\* refusal of reasoning another account encrypted, as a 400 or as the first event
\* of a 200 stream.
Succeeded == {"ok", "empty", "cipher200"}
Busy      == {"limited", "busy"}                  \* retryableStatus: 429, others
Refusals  == {"unauthorized", "refused"}          \* accountRefusal: 401, 402 or 403
Rejected  == {"rejected", "wrongpath", "cipher400"}
Statuses  == Succeeded \cup Busy \cup Refusals \cup Rejected

\* What account a may answer to request r after the resends spent on it: a path is
\* refused before it was changed, reasoning while the request still carries it.
Possible(r, a, n) ==
    {s \in Answers \cap Statuses :
        /\ s \in {"empty", "cipher200"} => r \in Streaming
        /\ s \in {"cipher400", "cipher200"} => r \in Ciphered /\ n < NoCipher
        /\ s = "wrongpath" => a \in Exchanging /\ n < NewPath}

Replies == [kind : {"none", "relay", "untranslatable", "no usable account",
                    "all accounts failed"},
            status : Statuses \cup {"none"}]
NoReply == [kind |-> "none", status |-> "none"]
Relay(s) == [kind |-> "relay", status |-> s]
Own(k)  == [kind |-> k, status |-> "none"]          \* an error of intact's own

Current(r) == attempts[r][idx[r]].acc
IsLast(r)  == idx[r] = Len(attempts[r])


-----------------------------------------------------------------------------
FailoverInit ==
    /\ pc = [r \in Requests |-> "idle"]
    /\ attempts = [r \in Requests |-> <<>>]
    /\ idx = [r \in Requests |-> 1]
    /\ stage = [r \in Requests |-> FirstSend]
    /\ status = [r \in Requests |-> "none"]
    /\ sends = [r \in Requests |-> 0]
    /\ shortened = [r \in Requests |-> FALSE]
    /\ reply = [r \in Requests |-> NoReply]

Goto(r, where) == pc' = [pc EXCEPT ![r] = where]

\* intact answers by itself.
Answer(r, kind) ==
    /\ Goto(r, "done")
    /\ reply' = [reply EXCEPT ![r] = Own(kind)]

\* The next attempt, with nothing spent on it yet.
NextAttempt(r) ==
    /\ Goto(r, "try")
    /\ idx' = [idx EXCEPT ![r] = @ + 1]
    /\ stage' = [stage EXCEPT ![r] = FirstSend]
    /\ status' = [status EXCEPT ![r] = "none"]

Resend(r, s) ==
    /\ stage' = [stage EXCEPT ![r] = s]
    /\ sends' = [sends EXCEPT ![r] = @ + 1]
    /\ Goto(r, "sent")
    /\ UNCHANGED <<attempts, idx, status, shortened, reply>>

\* The step before a resend failed (no token, no translation): the answer stands.
GiveUpResend(r, s) ==
    /\ stage' = [stage EXCEPT ![r] = s]
    /\ UNCHANGED <<pc, attempts, idx, status, sends, shortened, reply>>

\* A handler starts on its list of attempts.
Begin(r, list) ==
    /\ pc[r] = "idle"
    /\ list \in Seq(Attempt) /\ list # <<>>
    /\ attempts' = [attempts EXCEPT ![r] = list]
    /\ Goto(r, "try")
    /\ UNCHANGED <<idx, stage, status, sends, shortened, reply>>

\* The account cannot be used: no provider, no credential, no exchanged token, no
\* project.
Skip(r) ==
    /\ pc[r] = "try" /\ idx[r] <= Len(attempts[r])
    /\ NextAttempt(r)
    /\ UNCHANGED <<attempts, sends, shortened, reply>>

\* The request cannot be put into the account's shape.
Untranslatable(r) ==
    /\ pc[r] = "try" /\ idx[r] <= Len(attempts[r])
    /\ Answer(r, "untranslatable")
    /\ UNCHANGED <<attempts, idx, stage, status, sends, shortened>>

Send(r) ==
    /\ pc[r] = "try" /\ idx[r] <= Len(attempts[r])
    /\ Resend(r, FirstSend)

\* The upstream answers with a status.
Receive(r, s) ==
    /\ pc[r] = "sent"
    /\ s \in Possible(r, Current(r), stage[r])
    /\ Goto(r, "got")
    /\ status' = [status EXCEPT ![r] = s]
    /\ UNCHANGED <<attempts, idx, stage, sends, shortened, reply>>

\* The call fails without an answer.  A resend without the refused reasoning keeps
\* the answer it wanted to replace; any other call gives the account up.
KeepsAnswer(r) == stage[r] = NoCipher /\ status[r] \in {"cipher400", "cipher200"}

LoseContact(r) ==
    /\ pc[r] = "sent"
    /\ IF KeepsAnswer(r)
       THEN /\ Goto(r, "got")
            /\ UNCHANGED <<idx, stage, status>>
       ELSE NextAttempt(r)
    /\ UNCHANGED <<attempts, sends, shortened, reply>>

-----------------------------------------------------------------------------
(* The resends. *)

MayRedirect(r) == stage[r] < NewPath /\ status[r] = "wrongpath"

MayDecipher(r) == stage[r] < NoCipher /\ status[r] \in {"cipher400", "cipher200"}

MayExchange(r) ==
    /\ stage[r] < Exchanged
    /\ status[r] = "unauthorized"
    /\ Current(r) \in Exchanging

\* Copilot serves the model on /responses alone.
ResendOnNewPath(r) ==
    /\ pc[r] = "got" /\ MayRedirect(r)
    /\ Resend(r, NewPath) \/ GiveUpResend(r, NewPath)

\* Without the reasoning another account encrypted.
ResendWithoutCipher(r) ==
    /\ pc[r] = "got" /\ MayDecipher(r)
    /\ Resend(r, NoCipher)

\* The exchanged token is dropped and exchanged again.
ResendExchanged(r) ==
    /\ pc[r] = "got" /\ MayExchange(r)
    /\ Resend(r, Exchanged) \/ GiveUpResend(r, Exchanged)

\* Slips of the code that the properties must notice.
RefreshesAnyTime(r) == status[r] = "unauthorized" /\ Current(r) \in OAuth /\ ~MayExchange(r)
RefreshesOrExchanges(r) ==
    stage[r] < Exchanged /\ status[r] = "unauthorized" /\ Current(r) \in OAuth
        /\ ~MayExchange(r)

MayRefresh(r) ==
    /\ stage[r] < Refreshed
    /\ status[r] = "unauthorized"
    /\ Current(r) \in OAuth
    /\ ~MayExchange(r)

\* forceRefresh, and for Copilot a new exchange from the renewed token.
ResendRefreshed(r) ==
    /\ pc[r] = "got" /\ MayRefresh(r)
    /\ Resend(r, Refreshed) \/ GiveUpResend(r, Refreshed)

-----------------------------------------------------------------------------
(* The decision, once no resend applies. *)

Settled(r) ==
    /\ pc[r] = "got"
    /\ ~MayRedirect(r) /\ ~MayDecipher(r) /\ ~MayExchange(r) /\ ~MayRefresh(r)

\* Slips of the code that the properties must notice.
ForgetsEmpty(s) == s \in Busy \cup Refusals

\* The answer says to try another account.
TryNext(s) == s \in Busy \cup Refusals \cup {"empty"}

\* The next account holds no cache for this conversation and takes it shorter:
\* another account, that is no standby, after a rate limit, once a request.
MayShorten(r) ==
    /\ status[r] = "limited" /\ ~shortened[r]
    /\ attempts[r][idx[r] + 1].acc # Current(r)
    /\ ~attempts[r][idx[r] + 1].standby

\* `worth` says whether the conversation is long enough and its provider's rotation
\* has it (compactForRateLimit).
MoveOn(r, worth) ==
    /\ Settled(r) /\ TryNext(status[r]) /\ ~IsLast(r)
    /\ shortened' = [shortened EXCEPT ![r] = IF worth /\ MayShorten(r) THEN TRUE ELSE @]
    /\ NextAttempt(r)
    /\ UNCHANGED <<attempts, sends, reply>>

\* The answer is the caller's, the last account's whatever it is.
Commit(r) ==
    /\ Settled(r) /\ (~TryNext(status[r]) \/ IsLast(r))
    /\ reply' = [reply EXCEPT ![r] = Relay(status[r])]
    /\ Goto(r, "done")
    /\ UNCHANGED <<attempts, idx, stage, status, sends, shortened>>

\* No attempt is left and none was the caller's.
Exhausted(r) ==
    /\ pc[r] = "try" /\ idx[r] > Len(attempts[r])
    /\ Answer(r, IF sends[r] = 0 THEN "no usable account" ELSE "all accounts failed")
    /\ UNCHANGED <<attempts, idx, stage, status, sends, shortened>>

\* One attempt after another.
Work(r) ==
    \/ Skip(r) \/ Untranslatable(r) \/ Send(r)
    \/ \E s \in Statuses : Receive(r, s)
    \/ LoseContact(r)
    \/ ResendOnNewPath(r) \/ ResendWithoutCipher(r)
    \/ ResendExchanged(r) \/ ResendRefreshed(r)
    \/ \E worth \in BOOLEAN : MoveOn(r, worth)
    \/ Commit(r)

\* A slip of the code: nothing is answered when the attempts run out.
WorkOnly(r) == Work(r)

\* Everything a started handler does by itself, and what the upstream does to it.
Handle(r) == Work(r) \/ Exhausted(r)

\* The model an attempt names plays no part here, so a run leaves it out.
OwnModel == {at \in Attempt : ~at.alt}

FailoverNext ==
    \E r \in Requests :
        \/ Handle(r)
        \/ \E n \in 1..MaxAttempts : \E list \in [1..n -> OwnModel] : Begin(r, list)

FailoverSpec == FailoverInit /\ [][FailoverNext]_failoverVars

\* A handler runs on, and every call it makes ends: the upstream client bounds the
\* wait for the headers and for each read of the body (upstream/client.go).
FairFailoverSpec == FailoverSpec /\ \A r \in Requests : WF_failoverVars(Handle(r))

-----------------------------------------------------------------------------
FailoverTypeOK ==
    /\ pc \in [Requests -> {"idle", "try", "sent", "got", "done"}]
    /\ attempts \in [Requests -> Seq(Attempt)]
    /\ idx \in [Requests -> Nat \ {0}]
    /\ stage \in [Requests -> FirstSend..Refreshed]
    /\ status \in [Requests -> Statuses \cup {"none"}]
    /\ sends \in [Requests -> Nat]
    /\ shortened \in [Requests -> BOOLEAN]
    /\ reply \in [Requests -> Replies]

\* The caller sees a busy answer, an account's own refusal or an empty stream only
\* when no account was left to try (v1.go:733, "The last account's answer is
\* relayed whatever it is").
BusyOnlyFromLast ==
    \A r \in Requests :
        reply[r].kind = "relay" /\ reply[r].status \in Busy \cup Refusals \cup {"empty"}
        => idx[r] = Len(attempts[r])

\* However its answers send a request back to an account, each account is called
\* once and once more for each thing that can be put right, and never again.
SendsBounded ==
    \A r \in Requests : sends[r] <= (Refreshed + 1) * Len(attempts[r])

\* A 401 reaches the caller only after everything that renews the account's
\* credential was tried (v1.go:736, "refreshed and retried once").
RenewedBeforeRefusal ==
    \A r \in Requests :
        reply[r].kind = "relay" /\ reply[r].status = "unauthorized"
        => /\ Current(r) \in Exchanging => stage[r] >= Exchanged
           /\ Current(r) \in OAuth => stage[r] = Refreshed

\* The promise to the caller: the attempts not yet given up are the candidates.
Promise == INSTANCE Delivery WITH
    Answers   <- Statuses,
    Elsewhere <- Busy \cup Refusals \cup {"empty"},
    left      <- [r \in Requests |->
                    IF pc[r] = "idle" THEN -1 ELSE Len(attempts[r]) - idx[r] + 1],
    answer    <- [r \in Requests |->
                    IF reply[r].kind = "none" THEN "waiting"
                    ELSE IF reply[r].kind = "relay" THEN reply[r].status
                    ELSE IF reply[r].kind = "untranslatable" THEN "refused"
                    ELSE "failed"]

\* The handler keeps it: nothing is relayed or failed too early, no request is
\* answered twice, and each that is started is answered in the end, whatever the
\* upstreams do (v1.go:733).
KeepsPromise == Promise!DeliverySpec

\* A request some account answered never ends as if every account failed without
\* an answer (docs/routing.md:162).  One whose history was shortened had a 429.
\* The code does not keep this (README.md, Disagreements found).
FailedWithoutAnswer ==
    \A r \in Requests : reply[r].kind = "all accounts failed" => ~shortened[r]
=============================================================================
