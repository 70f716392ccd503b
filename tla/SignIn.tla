-------------------------------- MODULE SignIn --------------------------------
(***************************************************************************)
(* Signing in an OAuth account from the dashboard (httpapi/login.go): opening  *)
(* the provider's page, pasting its code back or polling for a device, the     *)
(* exchange for tokens, and the writes that make the account                *)
(* (store/pending.go, store/connection.go, store/oauth.go).                    *)
(*                                                                         *)
(* Pages survive a restart, requests do not. Labels, the forms of a paste and  *)
(* the encodings of the exchange are left out, and so is the organization id   *)
(* of a Claude account, whose lost write is only logged.                     *)
(***************************************************************************)
EXTENDS Naturals, FiniteSets

CONSTANTS
    SignIns,   \* sign-ins a person starts
    Finishers, \* requests that finish one: a paste, or a poll for a device
    Providers  \* which of KnownProviders are signed in to

KnownProviders == {"claude", "codex", "antigravity", "github", "declared"}

ASSUME SignInAssumption == Providers \subseteq KnownProviders /\ SignIns \cap Finishers = {}

Devices == {"github", "declared"}  \* signed in with a device code
Renewable == KnownProviders \ {"github"}  \* with a token URL, so with credentials to keep

VARIABLES
    signsTo,  \* the provider of each sign-in
    page,     \* its pending row, or its device code
    seeking,  \* the sign-in that looks for Antigravity's secret, under the lock
    secret,   \* whether the secret is kept in the settings
    finisher, \* where each request is, for which sign-in, and what it still has to write
    account   \* what is written of the account each request makes

signInVars == <<signsTo, page, seeking, secret, finisher, account>>

NotBegun    == [pc |-> "idle", of |-> "none", owes |-> {}]
Pieces  == {"row", "oauth", "meta"}

SignInInit ==
    /\ signsTo \in [SignIns -> Providers]
    /\ page = [s \in SignIns |-> "none"]
    /\ seeking = {} /\ secret = FALSE
    /\ finisher = [h \in Finishers |-> NotBegun]
    /\ account = [h \in Finishers |-> {}]

SignInTypeOK ==
    /\ signsTo \in [SignIns -> Providers]
    /\ page \in [SignIns -> {"none", "kept", "old", "taken", "shown", "approved", "redeemed"}]
    /\ seeking \subseteq SignIns /\ secret \in BOOLEAN
    /\ finisher \in [Finishers -> [pc : {"idle", "asking", "saving", "undoing", "stored", "refused", "left", "cut"},
                                  of : SignIns \cup {"none"}, owes : SUBSET Pieces]]
    /\ account \in [Finishers -> SUBSET Pieces]

-----------------------------------------------------------------------------
\* Starting: the page of a browser sign-in, or a device code. Antigravity's page is
\* shown only with the secret at hand, which one sign-in at a time looks for.

LacksSecret(s) == signsTo[s] = "antigravity" /\ ~secret

\* PutPendingLogin also forgets the sign-ins whose time is over.
Opened(s) == [q \in SignIns |-> IF q = s THEN "kept" ELSE IF page[q] = "old" THEN "none" ELSE page[q]]

OpenPage(s) ==
    /\ page[s] = "none" /\ signsTo[s] \notin Devices
    /\ signsTo[s] = "antigravity" => seeking = {}
    /\ IF LacksSecret(s) THEN seeking' = {s} /\ UNCHANGED page
                         ELSE page' = Opened(s) /\ UNCHANGED seeking
    /\ UNCHANGED <<signsTo, secret, finisher, account>>

ShowDeviceCode(s) ==
    /\ page[s] = "none" /\ signsTo[s] \in Devices
    /\ page' = [page EXCEPT ![s] = "shown"]
    /\ UNCHANGED <<signsTo, seeking, secret, finisher, account>>

\* ensureAntigravitySecret finds and keeps the secret, and the page follows if it is kept too.
SecretFound(s, ok) ==
    /\ s \in seeking
    /\ seeking' = {} /\ secret' = TRUE
    /\ page' = IF ok THEN Opened(s) ELSE page
    /\ UNCHANGED <<signsTo, finisher, account>>

\* It finds none, or cannot keep it.
NoSecret(s) ==
    /\ s \in seeking
    /\ seeking' = {}
    /\ UNCHANGED <<signsTo, page, secret, finisher, account>>

GrowsOld(s) == page[s] = "kept" /\ page' = [page EXCEPT ![s] = "old"] /\ UNCHANGED <<signsTo, seeking, secret, finisher, account>>

\* The person enters the device code at the provider.
Approved(s) == page[s] = "shown" /\ page' = [page EXCEPT ![s] = "approved"] /\ UNCHANGED <<signsTo, seeking, secret, finisher, account>>

-----------------------------------------------------------------------------
\* TakePendingLogin reads the row and deletes it in one statement.
Peeked(s) == page
Taken(s)  == [page EXCEPT ![s] = "taken"]

Becomes(h, pc) == finisher' = [finisher EXCEPT ![h].pc = pc]
Begins(h, s, pc) == finisher' = [finisher EXCEPT ![h] = [pc |-> pc, of |-> s, owes |-> {}]]

\* loginFinish: the code the person pastes, once per sign-in and within its 30 minutes.
Paste(h, s) ==
    /\ finisher[h].pc = "idle" /\ signsTo[s] \notin Devices /\ page[s] # "none"
    /\ page' = IF page[s] \in {"kept", "old"} THEN Taken(s) ELSE page
    /\ Begins(h, s, IF page[s] = "kept" THEN "asking" ELSE "refused")
    /\ UNCHANGED <<signsTo, seeking, secret, account>>

\* A poll asks the provider with the code the page shows.
Polls(h, s) ==
    /\ finisher[h].pc = "idle" /\ page[s] # "none"
    /\ Begins(h, s, "asking")
    /\ UNCHANGED <<signsTo, page, seeking, secret, account>>

PollGithub(h, s)   == signsTo[s] = "github" /\ Polls(h, s)
PollDeclared(h, s) == signsTo[s] = "declared" /\ Polls(h, s)

\* What an answer with tokens makes the request write: a Codex account's id comes with
\* the email in its token, and an account without a token URL keeps no credentials.
Owed(p, named) == {"row"} \cup (IF p \in Renewable THEN {"oauth"} ELSE {})
                          \cup (IF p = "codex" /\ named THEN {"meta"} ELSE {})

\* exchangeLogin and the polls: the provider gives the tokens, once for a device code.
Tokens(h, named) ==
    LET s == finisher[h].of IN
    /\ finisher[h].pc = "asking"
    /\ signsTo[s] \in Devices => page[s] = "approved"
    /\ page' = IF signsTo[s] \in Devices THEN [page EXCEPT ![s] = "redeemed"] ELSE page
    /\ finisher' = [finisher EXCEPT ![h].pc = "saving", ![h].owes = Owed(signsTo[s], named)]
    /\ UNCHANGED <<signsTo, seeking, secret, account>>

\* Not approved yet: the page polls again.
StillPending(h) ==
    /\ finisher[h].pc = "asking" /\ page[finisher[h].of] = "shown"
    /\ finisher' = [finisher EXCEPT ![h] = NotBegun]
    /\ UNCHANGED <<signsTo, page, seeking, secret, account>>

Refused(h) ==
    /\ finisher[h].pc = "asking"
    /\ Becomes(h, "refused")
    /\ UNCHANGED <<signsTo, page, seeking, secret, account>>

-----------------------------------------------------------------------------
\* saveOAuthAccount: the row, its credentials, its metadata, a statement each.
NextPiece(h) == CHOOSE piece \in finisher[h].owes :
              \/ piece = "row"
              \/ piece = "oauth" /\ "row" \notin finisher[h].owes
              \/ finisher[h].owes = {piece}

\* After a failed statement the row is taken back, if there is one.
AfterFailure(h) == IF account[h] = {} THEN "refused" ELSE "undoing"

Write(h) ==
    /\ finisher[h].pc = "saving"
    /\ account' = [account EXCEPT ![h] = @ \cup {NextPiece(h)}]
    /\ finisher' = [finisher EXCEPT ![h].owes = @ \ {NextPiece(h)},
                                    ![h].pc = IF finisher[h].owes = {NextPiece(h)} THEN "stored" ELSE "saving"]
    /\ UNCHANGED <<signsTo, page, seeking, secret>>

WriteFails(h) ==
    /\ finisher[h].pc = "saving"
    /\ Becomes(h, AfterFailure(h))
    /\ UNCHANGED <<signsTo, page, seeking, secret, account>>

\* DeleteConnection; its own failure is not looked at.
RollBack(h, ok) ==
    /\ finisher[h].pc = "undoing"
    /\ account' = IF ok THEN [account EXCEPT ![h] = {}] ELSE account
    /\ Becomes(h, IF ok THEN "refused" ELSE "left")
    /\ UNCHANGED <<signsTo, page, seeking, secret>>

\* A restart ends every request where it is.
SignInRestart ==
    /\ finisher' = [h \in Finishers |-> IF finisher[h].pc \in {"asking", "saving", "undoing"}
                                        THEN [finisher[h] EXCEPT !.pc = "cut"] ELSE finisher[h]]
    /\ seeking' = {}
    /\ UNCHANGED <<signsTo, page, secret, account>>

SignInNext ==
    \/ \E s \in SignIns : OpenPage(s) \/ ShowDeviceCode(s) \/ NoSecret(s) \/ GrowsOld(s) \/ Approved(s)
    \/ \E s \in SignIns, yes \in BOOLEAN : SecretFound(s, yes)
    \/ \E h \in Finishers, s \in SignIns : Paste(h, s) \/ PollGithub(h, s) \/ PollDeclared(h, s)
    \/ \E h \in Finishers, yes \in BOOLEAN : Tokens(h, yes) \/ RollBack(h, yes)
    \/ \E h \in Finishers : StillPending(h) \/ Refused(h) \/ Write(h) \/ WriteFails(h)
    \/ SignInRestart

SignInSpec == SignInInit /\ [][SignInNext]_signInVars

-----------------------------------------------------------------------------
Whole(h) == {"row"} \cup (IF signsTo[finisher[h].of] \in Renewable THEN {"oauth"} ELSE {}) \subseteq account[h]

\* A sign-in ends in one account that can be used, or in none: an account said to be
\* stored has what its renewal needs, a refused one leaves nothing behind, and pasting a
\* code twice, before or after a restart, does not make a second account. (What a failed
\* roll-back or a restart between two writes leaves is known to be half: "left", "cut".)
SignInsEndWhole ==
    /\ \A h \in Finishers : finisher[h].pc = "stored" => Whole(h)
    /\ \A h \in Finishers : finisher[h].pc = "refused" => account[h] = {}
    /\ \A s \in SignIns : Cardinality({h \in Finishers : finisher[h].of = s /\ account[h] # {}}) <= 1
=============================================================================
