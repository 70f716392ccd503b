---------------------------- MODULE TokenRefresh ----------------------------
(***************************************************************************)
(* How the OAuth token of one account is renewed (httpapi/oauth.go).         *)
(*                                                                         *)
(* Callers renew it before its expiry (secretFor) or after a 401             *)
(* (forceRefresh), one at a time under the account's lock.  A provider may   *)
(* rotate the refresh token: the answer then brings a new one and the old    *)
(* one is worth nothing.  The answer is written to the store; when that      *)
(* write fails, it is kept in memory and served from there.  The process may *)
(* die at any step.                                                          *)
(***************************************************************************)
EXTENDS Integers

CONSTANTS
    Callers,       \* requests and jobs that need the account's token
    Styles,        \* how the provider answers: "rotates", "keeps" the token
    MaxGrants,     \* bound: exchanges the provider grants
    MaxCrashes     \* bound: crashes of the process

NoToken == -1             \* the empty string
Any     == -2             \* prev of a secretFor call
Nobody  == "nobody"

ASSUME TokenAssumption ==
    /\ Nobody \notin Callers
    /\ Styles \subseteq {"rotates", "keeps"}
    /\ MaxGrants \in Nat /\ MaxCrashes \in Nat

VARIABLES
    stored,     \* the account's row: access token, refresh token, expiry due
    override,   \* the same, of a refresh the store did not keep
    lock,       \* who holds the account's lock
    pc,         \* where each caller is
    used,       \* the access token each caller was given last
    prev,       \* the access token a forceRefresh found when it was called
    sent,       \* the refresh token the lock's holder presents
    got,        \* the provider's answer to it
    live,       \* the refresh token the provider accepts
    granted,    \* exchanges granted
    crashes,    \* crashes so far
    excused,    \* history: a token was lost outside the program's reach
    overtaken   \* history: which callers waited while another one renewed the token

provider  == <<live, granted>>
tokenVars == <<stored, override, lock, pc, used, prev, sent, got, provider, crashes, excused,
               overtaken>>

Kept     == [at : Int, rt : Int, due : BOOLEAN]
Nothing  == [at |-> NoToken, rt |-> NoToken, due |-> FALSE]

-----------------------------------------------------------------------------
HasOverride == override.at # NoToken

\* A slip of the code that the properties must notice.
StoredToken == stored.rt

\* What applyOverride makes of the stored credentials.
RefreshToken == IF HasOverride /\ override.rt # NoToken THEN override.rt ELSE stored.rt
Due          == IF HasOverride THEN override.due ELSE stored.due

\* currentSecret
CurrentSecret == IF HasOverride THEN override.at ELSE stored.at

TokenInit ==
    /\ stored \in [at : {0}, rt : {0}, due : BOOLEAN]
    /\ override = Nothing
    /\ lock = Nobody
    /\ pc = [p \in Callers |-> "idle"]
    /\ used = [p \in Callers |-> 0]
    /\ prev = [p \in Callers |-> Any]
    /\ sent = NoToken
    /\ got = Nothing
    /\ live = 0
    /\ granted = 0
    /\ crashes = 0
    /\ excused = FALSE
    /\ overtaken = [p \in Callers |-> "no"]

Goto(p, where) == pc' = [pc EXCEPT ![p] = where]

\* secretFor gives the current token when it is not due.
Fetch(p) ==
    /\ pc[p] = "idle" /\ ~Due
    /\ used' = [used EXCEPT ![p] = CurrentSecret]
    /\ UNCHANGED <<stored, override, lock, pc, prev, sent, got, provider, crashes, excused,
                   overtaken>>

Wait(p, before) ==
    /\ prev' = [prev EXCEPT ![p] = before]
    /\ Goto(p, "waiting")
    /\ overtaken' = [overtaken EXCEPT ![p] = "no"]
    /\ UNCHANGED <<stored, override, lock, used, sent, got, provider, crashes, excused>>

\* It waits for the lock when the token is due.
SecretFor(p) == pc[p] = "idle" /\ Due /\ Wait(p, Any)

\* The token the caller was given is answered 401. forceRefresh remembers the one
\* that is current when it is called.
ForceRefresh(p) == pc[p] = "idle" /\ Wait(p, CurrentSecret)

Lock(p) ==
    /\ pc[p] = "waiting" /\ lock = Nobody
    /\ lock' = p
    /\ Goto(p, "checking")
    /\ UNCHANGED <<stored, override, used, prev, sent, got, provider, crashes, excused,
                   overtaken>>

\* Under the lock the caller looks again: another one may have renewed the token.
Always(p) == IF prev[p] = Any THEN Due ELSE TRUE

StillNeeded(p) == IF prev[p] = Any THEN Due ELSE CurrentSecret = prev[p]

\* The caller goes on with a token.
KeepsLock(p, token) ==
    /\ Goto(p, "idle")
    /\ sent' = NoToken /\ got' = Nothing
    /\ used' = [used EXCEPT ![p] = token]
    /\ UNCHANGED lock

Return(p, token) ==
    /\ Goto(p, "idle")
    /\ lock' = Nobody
    /\ sent' = NoToken /\ got' = Nothing
    /\ used' = [used EXCEPT ![p] = token]

Present(p) ==
    /\ pc[p] = "checking" /\ StillNeeded(p)
    /\ sent' = RefreshToken
    /\ Goto(p, "asking")
    /\ UNCHANGED <<stored, override, lock, used, prev, got, provider, crashes, excused,
                   overtaken>>

\* The token was renewed meanwhile.
Leave(p) ==
    /\ pc[p] = "checking" /\ ~StillNeeded(p)
    /\ Return(p, CurrentSecret)
    /\ UNCHANGED <<stored, override, prev, provider, crashes, excused, overtaken>>

\* A renewal that fails: secretFor goes on with the current token, forceRefresh
\* has none to give and its caller keeps the one it has.
Without(p) == IF prev[p] = Any THEN CurrentSecret ELSE used[p]

\* The credentials cannot be read.
Unreadable(p) ==
    /\ pc[p] = "checking"
    /\ prev[p] # Any => StillNeeded(p)
    /\ Return(p, Without(p))
    /\ UNCHANGED <<stored, override, prev, provider, crashes, excused, overtaken>>

-----------------------------------------------------------------------------
(* The provider. *)

New == granted + 1

Grant(p) ==
    /\ pc[p] = "asking" /\ sent = live /\ granted < MaxGrants
    /\ \E style \in Styles :
          LET rt == IF style = "rotates" THEN New ELSE NoToken
          IN  /\ got' = [at |-> New, rt |-> rt, due |-> FALSE]
              /\ live' = IF style = "rotates" THEN rt ELSE live
    /\ granted' = New
    /\ Goto(p, "granted")
    /\ UNCHANGED <<stored, override, lock, used, prev, sent, crashes, excused, overtaken>>

\* It refuses, or cannot be reached.
Deny(p) ==
    /\ pc[p] = "asking"
    /\ Return(p, Without(p))
    /\ UNCHANGED <<stored, override, prev, provider, crashes, excused, overtaken>>

\* It rotates the token and the answer does not arrive.
LoseAnswer(p) ==
    /\ pc[p] = "asking" /\ sent = live /\ granted < MaxGrants /\ "rotates" \in Styles
    /\ live' = New /\ granted' = New
    /\ excused' = TRUE
    /\ Return(p, Without(p))
    /\ UNCHANGED <<stored, override, prev, crashes, overtaken>>

-----------------------------------------------------------------------------
\* UpdateAfterRefresh: an answer without a refresh token keeps the stored one.
KeepsStoredToken == [at |-> got.at, due |-> FALSE, rt |-> stored.rt]

Renewed ==
    [at |-> got.at, due |-> FALSE,
     rt |-> IF got.rt = NoToken THEN stored.rt ELSE got.rt]

Save(p) ==
    /\ pc[p] = "granted"
    /\ \/ Goto(p, "saved") /\ stored' = Renewed
       \/ Goto(p, "unsaved") /\ UNCHANGED stored
    /\ overtaken' = [q \in Callers |-> IF pc[q] = "waiting" THEN "whole" ELSE overtaken[q]]
    /\ UNCHANGED <<override, lock, used, prev, sent, got, provider, crashes, excused>>

\* The answer that the store did not keep, with the token that was presented when
\* it brings none.

Unsaved ==
    [at |-> got.at, due |-> FALSE,
     rt |-> IF got.rt = NoToken THEN sent ELSE got.rt]

\* setOverride or clearOverride, and the lock is free.
Settle(p) ==
    /\ pc[p] \in {"saved", "unsaved"}
    /\ override' = IF pc[p] = "saved" THEN Nothing ELSE Unsaved
    /\ overtaken' = [q \in Callers |->
            IF pc[q] = "waiting" /\ overtaken[q] = "no" THEN "end" ELSE overtaken[q]]
    /\ Return(p, got.at)
    /\ UNCHANGED <<stored, prev, provider, crashes, excused>>

\* The token in use comes within a minute of its expiry.
Expire ==
    /\ stored' = [stored EXCEPT !.due = TRUE]
    /\ override' = IF HasOverride THEN [override EXCEPT !.due = TRUE] ELSE override
    /\ overtaken' = [p \in Callers |-> "no"]
    /\ UNCHANGED <<lock, pc, used, prev, sent, got, provider, crashes, excused>>

\* The process dies with what it keeps in memory: the refresh token too, when the
\* store does not have it.
Crash ==
    /\ crashes < MaxCrashes
    /\ crashes' = crashes + 1
    /\ excused' = (excused \/ stored.rt # live)
    /\ override' = Nothing
    /\ lock' = Nobody
    /\ pc' = [p \in Callers |-> "idle"]
    /\ overtaken' = [p \in Callers |-> "no"]
    /\ sent' = NoToken /\ got' = Nothing
    /\ UNCHANGED <<stored, used, prev, provider>>

Continue(p) ==
    \/ Present(p) \/ Leave(p) \/ Unreadable(p) \/ Grant(p) \/ Deny(p) \/ LoseAnswer(p)
    \/ Save(p) \/ Settle(p)

TokenNext ==
    \/ \E p \in Callers : Fetch(p) \/ SecretFor(p) \/ ForceRefresh(p) \/ Lock(p) \/ Continue(p)
    \/ Expire \/ Crash

TokenSpec == TokenInit /\ [][TokenNext]_tokenVars

\* A caller runs on: the exchange is bounded by 30 seconds, also when the client is
\* gone, and a sync.Mutex lets no waiter starve.
FairTokenSpec ==
    /\ TokenSpec
    /\ \A p \in Callers : WF_tokenVars(Continue(p)) /\ SF_tokenVars(Lock(p))

-----------------------------------------------------------------------------
TokenTypeOK ==
    /\ stored \in Kept /\ stored.rt \in Nat
    /\ override \in Kept /\ (HasOverride => override.rt \in Nat)
    /\ lock \in Callers \cup {Nobody}
    /\ pc \in [Callers -> {"idle", "waiting", "checking", "asking", "granted", "saved",
                           "unsaved"}]
    /\ used \in [Callers -> Int] /\ prev \in [Callers -> Int]
    /\ sent \in Int /\ got \in Kept
    /\ live \in Nat /\ granted \in 0..MaxGrants /\ crashes \in Nat
    /\ excused \in BOOLEAN
    /\ overtaken \in [Callers -> {"no", "end", "whole"}]

\* While no exchange is under way, the next one will present the refresh token the
\* provider accepts, unless that token was lost outside the program's reach: no
\* rotated token is lost, whichever writes fail (oauth.go:22).
RotatedTokenKept ==
    lock = Nobody /\ ~excused => RefreshToken = live

\* No exchange presents a refresh token that was rotated away: the provider would
\* answer such a reuse by revoking the account (oauth.go:13).
PresentsLive ==
    \A p \in Callers : pc[p] = "asking" /\ ~excused => sent = live

Rotates(p) == pc[p] = "checking" /\ pc'[p] = "asking"

\* A caller that was waiting when another one's renewed token was written takes
\* that token; it does not rotate a second time (oauth.go:225).
NoSecondRotation ==
    [][\A p \in Callers : Rotates(p) => overtaken[p] # "whole"]_tokenVars

\* The same for every caller whose token was refused and which waited while another
\* one renewed it (oauth.go:225). The code asks a caller's question too early: it
\* compares with the token that was current at the call, not with the refused one.
\* The code does not keep this (README.md, Disagreements found).
RefusalSharesRenewal ==
    [][\A p \in Callers :
         Rotates(p) /\ prev[p] # Any /\ overtaken[p] # "no" => used[p] = CurrentSecret]_tokenVars

\* Every caller goes on with a token, old or new.
CallersReturn == \A p \in Callers : pc[p] = "waiting" ~> pc[p] = "idle"
=============================================================================
