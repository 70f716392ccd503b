----------------------------- MODULE AccountProofs -----------------------------
(***************************************************************************)
(* Proofs about what makes and keeps an account. Its token's renewal, for any  *)
(* number of callers, grants and crashes: one caller at a time talks to the    *)
(* provider, a caller that waited for a renewal takes it, and at a provider   *)
(* that always rotates the refresh token, or never does, no rotated token is   *)
(* lost. Its sign-in, for any number of sign-ins, requests and restarts: what   *)
(* it ends with is one whole account or none.                                *)
(***************************************************************************)
EXTENDS TokenRefresh, SignIn, FiniteSetTheorems, TLAPS

\* The steps under the lock, and those of them that hold an answer.
Holding  == {"checking", "asking", "granted", "saved", "unsaved"}
Answered == {"granted", "saved", "unsaved"}
Written  == {"saved", "unsaved"}

Types ==
    /\ TokenTypeOK
    /\ \A p \in Callers :
        /\ pc[p] \in Answered => got.at \in Nat /\ got.rt \in Nat \cup {NoToken}
        /\ pc[p] \in Answered \cup {"asking"} => sent \in Nat

\* The lock is held by the caller that is past it.
Exclusive == \A p \in Callers : pc[p] \in Holding <=> lock = p

LockInv == Types /\ Exclusive

\* A provider that always rotates the refresh token, or never does.
OneStyle == Styles \subseteq {"keeps"} \/ Styles \subseteq {"rotates"}

AsStyled ==
    /\ Styles \subseteq {"keeps"} => live = 0 /\ stored.rt = 0 /\ got.rt = NoToken
    /\ Styles \subseteq {"rotates"} =>
            \A p \in Callers : pc[p] \in Answered => got.rt # NoToken

\* Where the token that the provider accepts is, at every step of a renewal.
Traced ==
    ~excused =>
        /\ (\A p \in Callers : pc[p] \notin Answered) => RefreshToken = live
        /\ \A p \in Callers :
            /\ pc[p] = "asking" => sent = live
            /\ pc[p] \in {"granted", "unsaved"} => Unsaved.rt = live
            /\ pc[p] = "saved" => stored.rt = live

KeptInv == LockInv /\ AsStyled /\ Traced

\* Access tokens are numbered as they are granted; what is granted is newer than
\* everything a caller knows.
Fresh ==
    /\ stored.at <= granted /\ override.at <= granted
    /\ \A p \in Callers : prev[p] <= granted
    /\ \A q \in Callers : pc[q] \in Answered => got.at <= granted
    /\ \A q \in Callers : pc[q] = "granted" =>
            /\ stored.at < got.at /\ override.at < got.at
            /\ \A p \in Callers : prev[p] < got.at

\* A caller that waited while a renewal was written finds, when it gets the lock,
\* a token newer than its own and not due.
FindsNewer ==
    \A p \in Callers :
        overtaken[p] = "whole" /\ pc[p] \in {"waiting", "checking"} =>
            IF \E q \in Callers : pc[q] \in Written
            THEN /\ prev[p] < got.at
                 /\ \A q \in Callers : pc[q] = "saved" => stored.at = got.at /\ ~stored.due
            ELSE ~Due /\ prev[p] < CurrentSecret

SharedInv == LockInv /\ Fresh /\ FindsNewer

-----------------------------------------------------------------------------
(* One caller at a time. *)

LEMMA LockAtStart ==
    TokenInit => LockInv
<1> SUFFICES ASSUME TokenInit PROVE LockInv
    OBVIOUS
<1>1. stored \in Kept /\ stored.rt \in Nat
      BY DEF TokenInit, Kept
<1>2. override \in Kept /\ got \in Kept /\ ~HasOverride
      BY DEF TokenInit, Kept, Nothing, NoToken, HasOverride
<1>3. TokenTypeOK
  <2>1. /\ used \in [Callers -> Int] /\ prev \in [Callers -> Int]
        /\ overtaken \in [Callers -> {"no", "end", "whole"}]
        BY DEF TokenInit, Any
  <2>2. pc \in [Callers -> {"idle", "waiting", "checking", "asking", "granted", "saved",
                           "unsaved"}]
        BY DEF TokenInit
  <2>3. sent \in Int /\ live \in Nat /\ granted \in 0..MaxGrants /\ crashes \in Nat
        BY TokenAssumption DEF TokenInit, NoToken
  <2>4. lock \in Callers \cup {Nobody} /\ excused \in BOOLEAN
        BY DEF TokenInit
  <2> QED BY <1>1, <1>2, <2>1, <2>2, <2>3, <2>4 DEF TokenTypeOK
<1>4. Types
      BY <1>3 DEF TokenInit, Types, Answered
<1>5. Exclusive
      BY TokenAssumption DEF TokenInit, Exclusive, Holding
<1> QED BY <1>4, <1>5 DEF LockInv

\* A caller that goes on with a token leaves nobody under the lock.
LEMMA ReturnFrees ==
    ASSUME LockInv, NEW p \in Callers, pc[p] \in Holding, NEW token \in Int,
           Return(p, token),
           stored' \in Kept, stored'.rt \in Nat, override' \in Kept,
           HasOverride' => override'.rt \in Nat, prev' = prev,
           live' \in Nat, granted' \in 0..MaxGrants, crashes' \in Nat,
           excused' \in BOOLEAN,
           overtaken' \in [Callers -> {"no", "end", "whole"}]
    PROVE  LockInv'
<1>1. pc' = [pc EXCEPT ![p] = "idle"] /\ lock' = Nobody /\ lock = p
      BY DEF Return, Goto, LockInv, Exclusive
<1>2. Types'
  <2>1. got' \in Kept /\ sent' \in Int
        BY DEF Return, Nothing, NoToken, Kept
  <2>2. used' \in [Callers -> Int]
        BY DEF Return, LockInv, Types, TokenTypeOK
  <2>3. pc' \in [Callers -> {"idle", "waiting", "checking", "asking", "granted", "saved",
                             "unsaved"}]
        BY <1>1 DEF LockInv, Types, TokenTypeOK
  <2>4. \A q \in Callers : pc'[q] \notin Holding
        BY <1>1 DEF LockInv, Exclusive, Types, TokenTypeOK, Holding
  <2>5. TokenTypeOK'
        BY <1>1, <2>1, <2>2, <2>3 DEF LockInv, Types, TokenTypeOK
  <2> QED BY <2>4, <2>5 DEF Types, Answered, Holding
<1>3. Exclusive'
  <2> SUFFICES ASSUME NEW q \in Callers PROVE pc'[q] \in Holding <=> lock' = q
      BY DEF Exclusive
  <2>1. lock' # q
        BY <1>1, TokenAssumption
  <2>2. CASE q = p
        BY <2>1, <2>2, <1>1 DEF LockInv, Types, TokenTypeOK, Holding
  <2>3. CASE q # p
        BY <2>1, <2>3, <1>1 DEF LockInv, Types, TokenTypeOK, Exclusive
  <2> QED BY <2>2, <2>3
<1> QED BY <1>2, <1>3 DEF LockInv

\* The tokens that a caller may be given are numbers.
LEMMA TokensAreNumbers ==
    ASSUME LockInv
    PROVE  /\ CurrentSecret \in Int /\ RefreshToken \in Nat
           /\ \A p \in Callers : Without(p) \in Int
           /\ Due \in BOOLEAN
BY DEF LockInv, Types, TokenTypeOK, CurrentSecret, RefreshToken, Without, Due, Kept, HasOverride,
       NoToken

\* The steps of a caller before it has the lock, and when it gets it.
LEMMA OutsideKeepsLock ==
    ASSUME LockInv, NEW p \in Callers,
           Fetch(p) \/ SecretFor(p) \/ ForceRefresh(p)
    PROVE  LockInv'
<1> USE DEF LockInv
<1>1. CurrentSecret \in Int
      BY TokensAreNumbers
<1>2. CASE Fetch(p)
  <2>1. Types'
        BY <1>1, <1>2 DEF Fetch, Types, TokenTypeOK, HasOverride, provider
  <2>2. Exclusive'
        BY <1>2 DEF Fetch, Exclusive
  <2> QED BY <2>1, <2>2
<1>3. ASSUME NEW before \in Int, Wait(p, before), pc[p] = "idle" PROVE LockInv'
  <2>1. Types'
        BY <1>3 DEF Wait, Goto, Types, TokenTypeOK, HasOverride, provider, Answered
  <2>2. Exclusive'
        BY <1>3 DEF Wait, Goto, Exclusive, Types, TokenTypeOK, Holding
  <2> QED BY <2>1, <2>2
<1>4. CASE SecretFor(p)
      BY <1>3, <1>4 DEF SecretFor, Any
<1>5. CASE ForceRefresh(p)
      BY <1>1, <1>3, <1>5 DEF ForceRefresh
<1> QED BY <1>2, <1>4, <1>5

LEMMA LockTakes ==
    ASSUME LockInv, NEW p \in Callers, Lock(p)
    PROVE  LockInv'
<1>1. Types'
      BY DEF LockInv, Lock, Goto, Types, TokenTypeOK, HasOverride, provider, Answered
<1>2. Exclusive'
      BY TokenAssumption
      DEF LockInv, Lock, Goto, Exclusive, Types, TokenTypeOK, Holding
<1> QED BY <1>1, <1>2 DEF LockInv

\* The steps of the lock's holder that keep it.
LEMMA HolderKeepsLock ==
    ASSUME LockInv, NEW p \in Callers, Present(p) \/ Grant(p) \/ Save(p)
    PROVE  LockInv'
<1>1. pc[p] \in Holding
      BY DEF Present, Grant, Save, Holding
<1>2. \A q \in Callers : q # p => pc[q] \notin Holding
      BY <1>1 DEF LockInv, Exclusive
<1>3. PICK there \in Holding : pc' = [pc EXCEPT ![p] = there]
      BY DEF Present, Grant, Save, Goto, Holding
<1>4. Exclusive'
  <2>1. lock' = lock
        BY DEF Present, Grant, Save
  <2> QED BY <1>1, <1>3, <2>1 DEF LockInv, Exclusive, Types, TokenTypeOK
<1>5. \A q \in Callers : q # p => pc'[q] \notin Holding
      BY <1>2, <1>3 DEF LockInv, Types, TokenTypeOK
<1>6. pc' \in [Callers -> {"idle", "waiting", "checking", "asking", "granted", "saved",
                           "unsaved"}]
      BY <1>3 DEF LockInv, Types, TokenTypeOK, Holding
<1>7. CASE Present(p)
  <2>1. sent' \in Nat
        BY <1>7, TokensAreNumbers DEF Present
  <2>2. TokenTypeOK'
        BY <1>6, <1>7, <2>1 DEF Present, LockInv, Types, TokenTypeOK, HasOverride, provider
  <2>3. pc'[p] = "asking"
        BY <1>7 DEF Present, Goto, LockInv, Types, TokenTypeOK
  <2> QED BY <1>4, <1>5, <2>1, <2>2, <2>3 DEF LockInv, Types, Answered, Holding
<1>8. CASE Grant(p)
  <2>1. New \in Nat /\ New \in 0..MaxGrants
        BY <1>8, TokenAssumption DEF Grant, New, LockInv, Types, TokenTypeOK
  <2>2. /\ got' \in Kept /\ got'.at \in Nat /\ got'.rt \in Nat \cup {NoToken}
        /\ live' \in Nat /\ sent' \in Nat
        BY <1>8, <2>1 DEF Grant, LockInv, Types, TokenTypeOK, Kept, NoToken
  <2>3. TokenTypeOK'
        BY <1>6, <1>8, <2>1, <2>2 DEF Grant, LockInv, Types, TokenTypeOK, HasOverride
  <2>4. pc'[p] = "granted"
        BY <1>8 DEF Grant, Goto, LockInv, Types, TokenTypeOK
  <2> QED BY <1>4, <1>5, <2>2, <2>3, <2>4 DEF LockInv, Types, Answered, Holding
<1>9. CASE Save(p)
  <2>1. /\ got.at \in Nat /\ got.rt \in Nat \cup {NoToken} /\ sent \in Nat
        /\ UNCHANGED <<got, sent>>
        BY <1>9 DEF Save, LockInv, Types, Answered
  <2>2. Renewed \in Kept /\ Renewed.rt \in Nat
        BY <2>1 DEF Renewed, LockInv, Types, TokenTypeOK, Kept, NoToken
  <2>3. stored' \in Kept /\ stored'.rt \in Nat
        BY <1>9, <2>2 DEF Save, LockInv, Types, TokenTypeOK
  <2>4. overtaken' \in [Callers -> {"no", "end", "whole"}]
        BY <1>9 DEF Save, LockInv, Types, TokenTypeOK
  <2>5. TokenTypeOK'
        BY <1>6, <1>9, <2>3, <2>4 DEF Save, LockInv, Types, TokenTypeOK, HasOverride, provider
  <2> QED BY <1>4, <1>5, <2>1, <2>5 DEF LockInv, Types, Answered, Holding
<1> QED BY <1>7, <1>8, <1>9

\* The steps of the lock's holder that free it, and those of nobody.
LEMMA HolderFreesLock ==
    ASSUME LockInv, NEW p \in Callers,
           Leave(p) \/ Unreadable(p) \/ Deny(p) \/ LoseAnswer(p) \/ Settle(p)
    PROVE  LockInv'
<1>1. pc[p] \in Holding /\ CurrentSecret \in Int /\ Without(p) \in Int
      BY TokensAreNumbers DEF Leave, Unreadable, Deny, LoseAnswer, Settle, Holding
<1>2. CASE Leave(p) \/ Unreadable(p) \/ Deny(p)
      BY <1>1, <1>2, ReturnFrees
      DEF Leave, Unreadable, Deny, LockInv, Types, TokenTypeOK, HasOverride, provider
<1>3. CASE LoseAnswer(p)
  <2>1. New \in Nat /\ New \in 0..MaxGrants
        BY <1>3, TokenAssumption DEF LoseAnswer, New, LockInv, Types, TokenTypeOK
  <2> QED BY <1>1, <1>3, <2>1, ReturnFrees
          DEF LoseAnswer, LockInv, Types, TokenTypeOK, HasOverride
<1>4. CASE Settle(p)
  <2>1. /\ got \in Kept /\ got.at \in Nat /\ got.rt \in Nat \cup {NoToken} /\ sent \in Nat
        BY <1>4 DEF Settle, LockInv, Types, TokenTypeOK, Answered
  <2>2. override' \in Kept /\ (HasOverride' => override'.rt \in Nat)
        BY <1>4, <2>1 DEF Settle, Unsaved, Nothing, HasOverride, Kept, NoToken
  <2>3. overtaken' \in [Callers -> {"no", "end", "whole"}]
        BY <1>4 DEF Settle, LockInv, Types, TokenTypeOK
  <2>4. got.at \in Int /\ Return(p, got.at)
        BY <1>4, <2>1 DEF Settle
  <2> QED BY <1>1, <1>4, <2>2, <2>3, <2>4, ReturnFrees
          DEF Settle, LockInv, Types, TokenTypeOK, provider
<1> QED BY <1>2, <1>3, <1>4

LEMMA ExpireKeepsLock ==
    ASSUME LockInv, Expire
    PROVE  LockInv'
<1>1. /\ stored' \in Kept /\ stored'.rt \in Nat
      /\ override' \in Kept /\ (HasOverride' => override'.rt \in Nat)
      BY DEF Expire, LockInv, Types, TokenTypeOK, Kept, HasOverride
<1>2. TokenTypeOK'
      BY <1>1 DEF Expire, LockInv, Types, TokenTypeOK, provider
<1>3. UNCHANGED <<pc, lock, got, sent>>
      BY DEF Expire
<1> QED BY <1>2, <1>3 DEF LockInv, Types, Exclusive

LEMMA CrashFreesLock ==
    ASSUME LockInv, Crash
    PROVE  LockInv'
<1>1. got' \in Kept /\ sent' \in Int /\ override' \in Kept /\ ~HasOverride'
      BY DEF Crash, Nothing, NoToken, Kept, HasOverride
<1>2. /\ crashes' \in Nat /\ excused' \in BOOLEAN
      /\ overtaken' \in [Callers -> {"no", "end", "whole"}]
      /\ pc' \in [Callers -> {"idle"}] /\ lock' = Nobody
      BY DEF Crash, LockInv, Types, TokenTypeOK
<1>3. TokenTypeOK'
      BY <1>1, <1>2 DEF Crash, LockInv, Types, TokenTypeOK, provider
<1> QED BY <1>2, <1>3, TokenAssumption DEF LockInv, Types, Exclusive, Holding, Answered

LEMMA LockStep ==
    LockInv /\ [TokenNext]_tokenVars => LockInv'
<1> SUFFICES ASSUME LockInv, [TokenNext]_tokenVars PROVE LockInv'
    OBVIOUS
<1>1. ASSUME NEW p \in Callers,
             Fetch(p) \/ SecretFor(p) \/ ForceRefresh(p) \/ Lock(p) \/ Continue(p)
      PROVE  LockInv'
      BY <1>1, OutsideKeepsLock, LockTakes, HolderKeepsLock, HolderFreesLock DEF Continue
<1>2. CASE Expire
      BY <1>2, ExpireKeepsLock
<1>3. CASE Crash
      BY <1>3, CrashFreesLock
<1>4. CASE UNCHANGED tokenVars
      BY <1>4 DEF tokenVars, provider, LockInv, Types, TokenTypeOK, Exclusive, HasOverride
<1> QED BY <1>1, <1>2, <1>3, <1>4 DEF TokenNext

LEMMA LockHolds ==
    TokenSpec => []LockInv
BY LockAtStart, LockStep, PTL DEF TokenSpec

\* Every variable keeps its type, whatever the provider and the store do
\* (oauth.go): an override always has a refresh token to present.
THEOREM TokenTypes ==
    TokenSpec => []TokenTypeOK
<1>1. LockInv => TokenTypeOK
      BY DEF LockInv, Types
<1> QED BY <1>1, LockHolds, PTL

-----------------------------------------------------------------------------
(* No rotated token is lost. *)

LEMMA KeptAtStart ==
    TokenInit => KeptInv
<1> SUFFICES ASSUME TokenInit PROVE KeptInv
    OBVIOUS
<1>1. LockInv
      BY LockAtStart
<1>2. AsStyled
      BY DEF TokenInit, AsStyled, Nothing, Answered
<1>3. Traced
      BY DEF TokenInit, Traced, RefreshToken, HasOverride, Nothing, Answered
<1> QED BY <1>1, <1>2, <1>3 DEF KeptInv

\* One caller under the lock is the only one there.
LEMMA Alone ==
    ASSUME LockInv, NEW p \in Callers, pc[p] \in Holding
    PROVE  \A q \in Callers : q # p => pc[q] \notin Holding
BY DEF LockInv, Exclusive

\* A step that moves no caller from or to the exchange and no token.
LEMMA QuietKeeps ==
    ASSUME KeptInv, UNCHANGED <<sent, got, live, excused>>,
           RefreshToken' = RefreshToken, stored'.rt = stored.rt,
           \A q \in Callers : pc'[q] # pc[q] =>
                pc[q] \notin Answered \cup {"asking"} /\ pc'[q] \notin Answered \cup {"asking"}
    PROVE  AsStyled' /\ Traced'
<1>1. Unsaved' = Unsaved
      BY DEF Unsaved
<1>2. \A q \in Callers : pc'[q] \in Answered \cup {"asking"} => pc[q] = pc'[q]
      OBVIOUS
<1>3. AsStyled'
      BY <1>2 DEF KeptInv, AsStyled
<1>4. (\A q \in Callers : pc'[q] \notin Answered) => \A q \in Callers : pc[q] \notin Answered
      BY <1>2
<1>5. Traced'
      BY <1>1, <1>2, <1>4 DEF KeptInv, Traced, Answered
<1> QED BY <1>3, <1>5

\* A step after which no exchange is under way.
LEMMA FreedKeeps ==
    ASSUME KeptInv, \A q \in Callers : pc'[q] \notin Answered \cup {"asking"},
           got'.rt = NoToken, stored'.rt = stored.rt,
           "rotates" \in Styles \/ live' = live,
           excused' \/ RefreshToken' = live'
    PROVE  AsStyled' /\ Traced'
<1>1. AsStyled'
      BY DEF KeptInv, AsStyled
<1>2. Traced'
      BY DEF Traced, Answered
<1> QED BY <1>1, <1>2

\* The fields that make up the token to present.
LEMMA SameToken ==
    ASSUME UNCHANGED <<stored, override>>
    PROVE  RefreshToken' = RefreshToken
BY DEF RefreshToken, HasOverride

LEMMA OutsideKeepsToken ==
    ASSUME KeptInv, NEW p \in Callers,
           Fetch(p) \/ SecretFor(p) \/ ForceRefresh(p) \/ Lock(p)
    PROVE  AsStyled' /\ Traced'
<1>1. UNCHANGED <<stored, override, sent, got, live, excused>>
      BY DEF Fetch, SecretFor, ForceRefresh, Wait, Lock, provider
<1>2. pc[p] \in {"idle", "waiting"}
      BY DEF Fetch, SecretFor, ForceRefresh, Wait, Lock
<1>3. pc' = pc \/ \E there \in {"waiting", "checking"} : pc' = [pc EXCEPT ![p] = there]
      BY DEF Fetch, SecretFor, ForceRefresh, Wait, Lock, Goto
<1>4. \A q \in Callers : pc'[q] # pc[q] =>
          pc[q] \notin Answered \cup {"asking"} /\ pc'[q] \notin Answered \cup {"asking"}
      BY <1>2, <1>3 DEF KeptInv, LockInv, Types, TokenTypeOK, Answered
<1> QED BY <1>1, <1>4, QuietKeeps, SameToken

LEMMA PresentKeepsToken ==
    ASSUME KeptInv, NEW p \in Callers, Present(p)
    PROVE  AsStyled' /\ Traced'
<1>1. \A q \in Callers : pc[q] \notin Answered \cup {"asking"}
      BY Alone DEF Present, KeptInv, Holding, Answered
<1>2. /\ \A q \in Callers : pc'[q] \notin Answered
      /\ RefreshToken' = RefreshToken /\ sent' = RefreshToken
      /\ UNCHANGED <<stored, got, live, excused>>
      BY <1>1, SameToken
      DEF Present, Goto, provider, KeptInv, LockInv, Types, TokenTypeOK, Answered
<1>3. AsStyled'
      BY <1>2 DEF KeptInv, AsStyled
<1>4. Traced'
      BY <1>1, <1>2 DEF KeptInv, Traced, Answered
<1> QED BY <1>3, <1>4

LEMMA GrantKeepsToken ==
    ASSUME KeptInv, NEW p \in Callers, Grant(p)
    PROVE  AsStyled' /\ Traced'
<1>1. \A q \in Callers : q # p => pc[q] \notin Answered \cup {"asking"}
      BY Alone DEF Grant, KeptInv, Holding, Answered
<1>2. /\ pc'[p] = "granted"
      /\ \A q \in Callers : q # p => pc'[q] \notin Answered \cup {"asking"}
      BY <1>1 DEF Grant, Goto, KeptInv, LockInv, Types, TokenTypeOK
<1>3. New \in Nat
      BY DEF Grant, New, KeptInv, LockInv, Types, TokenTypeOK
<1>4. PICK style \in Styles :
        /\ got' = [at |-> New, due |-> FALSE,
                   rt |-> IF style = "rotates" THEN New ELSE NoToken]
        /\ live' = IF style = "rotates" THEN New ELSE live
      BY DEF Grant
<1>5. AsStyled'
  <2>1. Styles \subseteq {"keeps"} => live' = live /\ got'.rt = NoToken
        BY <1>4
  <2>2. Styles \subseteq {"rotates"} => got'.rt # NoToken
        BY <1>3, <1>4 DEF NoToken
  <2>3. stored' = stored
        BY DEF Grant
  <2> QED BY <1>2, <2>1, <2>2, <2>3 DEF KeptInv, AsStyled, Answered
<1>6. Unsaved'.rt = live'
  <2>1. sent = live /\ sent' = sent
        BY DEF Grant
  <2> QED BY <1>3, <1>4, <2>1 DEF Unsaved, NoToken
<1>7. Traced'
      BY <1>2, <1>6 DEF Traced, Answered
<1> QED BY <1>5, <1>7

LEMMA SaveKeepsToken ==
    ASSUME OneStyle, KeptInv, NEW p \in Callers, Save(p)
    PROVE  AsStyled' /\ Traced'
<1>1. \A q \in Callers : q # p => pc[q] \notin Answered \cup {"asking"}
      BY Alone DEF Save, KeptInv, Holding, Answered
<1>2. /\ pc[p] = "granted" /\ pc'[p] \in {"saved", "unsaved"}
      /\ \A q \in Callers : q # p => pc'[q] \notin Answered \cup {"asking"}
      /\ UNCHANGED <<got, sent, live, excused>>
      BY <1>1 DEF Save, Goto, provider, KeptInv, LockInv, Types, TokenTypeOK
<1>3. CASE pc'[p] = "unsaved"
  <2>1. stored' = stored /\ Unsaved' = Unsaved
        BY <1>2, <1>3 DEF Save, Goto, Unsaved, KeptInv, LockInv, Types, TokenTypeOK
  <2>2. AsStyled'
        BY <1>2, <2>1 DEF KeptInv, AsStyled, Answered
  <2>3. Traced'
        BY <1>2, <1>3, <2>1 DEF KeptInv, Traced, Answered
  <2> QED BY <2>2, <2>3
<1>4. CASE pc'[p] = "saved"
  <2>1. stored' = Renewed
        BY <1>2, <1>4 DEF Save, Goto, KeptInv, LockInv, Types, TokenTypeOK
  <2>2. stored'.rt = IF got.rt = NoToken THEN stored.rt ELSE got.rt
        BY <2>1 DEF Renewed
  <2>3. AsStyled'
        BY <1>2, <2>2 DEF KeptInv, AsStyled, Answered
  <2>4. ~excused => stored'.rt = live
    <3> SUFFICES ASSUME ~excused PROVE stored'.rt = live
        OBVIOUS
    <3>1. CASE Styles \subseteq {"keeps"}
          BY <2>2, <3>1 DEF KeptInv, AsStyled
    <3>2. CASE Styles \subseteq {"rotates"}
      <4>1. got.rt # NoToken
            BY <1>2, <3>2 DEF KeptInv, AsStyled, Answered
      <4>2. Unsaved.rt = live
            BY <1>2 DEF KeptInv, Traced
      <4> QED BY <2>2, <4>1, <4>2 DEF Unsaved
    <3> QED BY <3>1, <3>2 DEF OneStyle
  <2>5. Traced'
        BY <1>2, <1>4, <2>4 DEF Traced, Answered
  <2> QED BY <2>3, <2>5
<1> QED BY <1>2, <1>3, <1>4

LEMMA ReturnKeepsToken ==
    ASSUME KeptInv, NEW p \in Callers,
           Leave(p) \/ Unreadable(p) \/ Deny(p) \/ LoseAnswer(p) \/ Settle(p)
    PROVE  AsStyled' /\ Traced'
<1>1. pc[p] \in Holding
      BY DEF Leave, Unreadable, Deny, LoseAnswer, Settle, Holding
<1>2. \A q \in Callers : q # p => pc[q] \notin Holding
      BY <1>1, Alone DEF KeptInv
<1>3. pc' = [pc EXCEPT ![p] = "idle"] /\ got' = Nothing /\ stored' = stored
      BY DEF Leave, Unreadable, Deny, LoseAnswer, Settle, Return, Goto
<1>4. \A q \in Callers : pc'[q] \notin Answered \cup {"asking"}
      BY <1>2, <1>3 DEF KeptInv, LockInv, Types, TokenTypeOK, Holding, Answered
<1>5. "rotates" \in Styles \/ live' = live
      BY DEF Leave, Unreadable, Deny, LoseAnswer, Settle, provider
<1>6. excused' \/ RefreshToken' = live'
  <2>1. CASE LoseAnswer(p)
        BY <2>1 DEF LoseAnswer
  <2>2. CASE Leave(p) \/ Unreadable(p) \/ Deny(p)
    <3>1. pc[p] \notin Answered /\ UNCHANGED <<stored, override, live, excused>>
          BY <2>2 DEF Leave, Unreadable, Deny, provider, Answered
    <3>2. \A q \in Callers : pc[q] \notin Answered
          BY <1>2, <3>1 DEF Holding, Answered
    <3> QED BY <3>1, <3>2, SameToken DEF KeptInv, Traced
  <2>3. CASE Settle(p)
    <3>1. pc[p] \in {"saved", "unsaved"} /\ UNCHANGED <<stored, live, excused>>
          BY <2>3 DEF Settle, provider
    <3>2. CASE pc[p] = "saved"
      <4>1. ~HasOverride'
            BY <2>3, <3>2 DEF Settle, HasOverride, Nothing
      <4> QED BY <3>1, <3>2, <4>1 DEF KeptInv, Traced, RefreshToken
    <3>3. CASE pc[p] = "unsaved"
      <4>1. override' = Unsaved
            BY <2>3, <3>3 DEF Settle
      <4>2. /\ got.at \in Nat /\ got.rt \in Nat \cup {NoToken} /\ sent \in Nat
            BY <3>3 DEF KeptInv, LockInv, Types, Answered
      <4>3. Unsaved.rt \in Nat /\ Unsaved.at \in Nat
            BY <4>2 DEF Unsaved, NoToken
      <4>4. RefreshToken' = Unsaved.rt
            BY <4>1, <4>3 DEF RefreshToken, HasOverride, NoToken
      <4> QED BY <3>1, <3>3, <4>4 DEF KeptInv, Traced
    <3> QED BY <3>1, <3>2, <3>3
  <2> QED BY <2>1, <2>2, <2>3
<1> QED BY <1>3, <1>4, <1>5, <1>6, FreedKeeps DEF Nothing

LEMMA ExpireKeepsToken ==
    ASSUME KeptInv, Expire
    PROVE  AsStyled' /\ Traced'
<1>1. stored \in Kept /\ override \in Kept
      BY DEF KeptInv, LockInv, Types, TokenTypeOK
<1>2. stored'.rt = stored.rt /\ override'.rt = override.rt /\ override'.at = override.at
      BY <1>1 DEF Expire, Kept
<1>3. RefreshToken' = RefreshToken
      BY <1>2 DEF RefreshToken, HasOverride
<1> QED BY <1>2, <1>3, QuietKeeps DEF Expire, provider

LEMMA CrashKeepsToken ==
    ASSUME KeptInv, Crash
    PROVE  AsStyled' /\ Traced'
<1>1. \A q \in Callers : pc'[q] \notin Answered \cup {"asking"}
      BY DEF Crash, Answered
<1>2. ~HasOverride' /\ UNCHANGED <<stored, live>> /\ got'.rt = NoToken
      BY DEF Crash, HasOverride, Nothing, provider
<1>3. excused' \/ RefreshToken' = live'
      BY <1>2 DEF Crash, RefreshToken
<1> QED BY <1>1, <1>2, <1>3, FreedKeeps

LEMMA KeptHolds ==
    ASSUME OneStyle
    PROVE  TokenSpec => []KeptInv
<1>1. KeptInv /\ [TokenNext]_tokenVars => KeptInv'
  <2> SUFFICES ASSUME KeptInv, [TokenNext]_tokenVars PROVE AsStyled' /\ Traced'
      BY LockStep DEF KeptInv
  <2>1. ASSUME NEW p \in Callers,
               Fetch(p) \/ SecretFor(p) \/ ForceRefresh(p) \/ Lock(p) \/ Continue(p)
        PROVE  AsStyled' /\ Traced'
        BY <2>1, OutsideKeepsToken, PresentKeepsToken, GrantKeepsToken, SaveKeepsToken,
           ReturnKeepsToken
        DEF Continue
  <2>2. CASE Expire
        BY <2>2, ExpireKeepsToken
  <2>3. CASE Crash
        BY <2>3, CrashKeepsToken
  <2>4. CASE UNCHANGED tokenVars
        BY <2>4, QuietKeeps, SameToken DEF tokenVars, provider
  <2> QED BY <2>1, <2>2, <2>3, <2>4 DEF TokenNext
<1> QED BY <1>1, KeptAtStart, PTL DEF TokenSpec

\* At a provider that always rotates the refresh token, or never does, the next
\* exchange presents the token the provider accepts, whichever writes fail, unless
\* it was lost with an answer or a crash (oauth.go:22).
THEOREM TokenNotLost ==
    ASSUME OneStyle
    PROVE  TokenSpec => []RotatedTokenKept
<1>1. KeptInv => RotatedTokenKept
  <2> SUFFICES ASSUME KeptInv, lock = Nobody, ~excused PROVE RefreshToken = live
      BY DEF RotatedTokenKept
  <2>1. \A p \in Callers : pc[p] \notin Answered
        BY TokenAssumption DEF KeptInv, LockInv, Exclusive, Holding, Answered
  <2> QED BY <2>1 DEF KeptInv, Traced
<1> QED BY <1>1, KeptHolds, PTL

\* There, no exchange presents a refresh token that was rotated away (oauth.go:13).
THEOREM NoReuse ==
    ASSUME OneStyle
    PROVE  TokenSpec => []PresentsLive
<1>1. KeptInv => PresentsLive
      BY DEF KeptInv, Traced, PresentsLive
<1> QED BY <1>1, KeptHolds, PTL

-----------------------------------------------------------------------------
(* A caller that waited for a renewal takes it. *)

LEMMA SharedAtStart ==
    TokenInit => SharedInv
<1> SUFFICES ASSUME TokenInit PROVE SharedInv
    OBVIOUS
<1>1. LockInv
      BY LockAtStart
<1>2. Fresh
      BY DEF TokenInit, Fresh, Nothing, NoToken, Any, Answered
<1>3. FindsNewer
      BY DEF TokenInit, FindsNewer
<1> QED BY <1>1, <1>2, <1>3 DEF SharedInv

\* The access tokens are numbers that can be compared.
LEMMA Numbered ==
    ASSUME LockInv
    PROVE  /\ stored.at \in Int /\ override.at \in Int /\ got.at \in Int /\ granted \in Nat
           /\ prev \in [Callers -> Int] /\ CurrentSecret \in Int
BY DEF LockInv, Types, TokenTypeOK, Kept, CurrentSecret

LEMMA FetchIsShared ==
    ASSUME SharedInv, NEW p \in Callers, Fetch(p)
    PROVE  Fresh' /\ FindsNewer'
BY DEF SharedInv, Fetch, Fresh, FindsNewer, provider, Due, CurrentSecret, HasOverride

LEMMA WaitIsShared ==
    ASSUME SharedInv, NEW p \in Callers, SecretFor(p) \/ ForceRefresh(p)
    PROVE  Fresh' /\ FindsNewer'
<1>1. PICK before \in {Any, CurrentSecret} : pc[p] = "idle" /\ Wait(p, before)
      BY DEF SecretFor, ForceRefresh
<1>2. UNCHANGED <<stored, override, got, granted>>
      BY <1>1 DEF Wait, provider
<1>3. /\ prev' = [prev EXCEPT ![p] = before] /\ pc' = [pc EXCEPT ![p] = "waiting"]
      /\ overtaken' = [overtaken EXCEPT ![p] = "no"]
      BY <1>1 DEF Wait, Goto
<1>4. /\ before \in Int /\ before <= granted
      /\ \A q \in Callers : pc[q] = "granted" => before < got.at
  <2>1. CASE before = CurrentSecret
        BY <2>1, Numbered DEF SharedInv, Fresh, CurrentSecret
  <2>2. CASE before = Any
    <3>1. /\ before = -2 /\ granted \in Nat
          /\ \A q \in Callers : pc[q] = "granted" => got.at \in Nat
          BY <2>2, Numbered DEF Any, SharedInv, LockInv, Types, Answered
    <3> QED BY <3>1
  <2> QED BY <1>1, <2>1, <2>2
<1>5. \A q \in Callers : pc'[q] \in Answered => pc'[q] = pc[q]
      BY <1>3 DEF SharedInv, LockInv, Types, TokenTypeOK, Answered
<1>6. \A q \in Callers : prev'[q] = prev[q] \/ prev'[q] = before
      BY <1>3, Numbered DEF SharedInv
<1>7. Fresh'
      BY <1>2, <1>4, <1>5, <1>6 DEF SharedInv, Fresh, Answered
<1>8. FindsNewer'
  <2> SUFFICES ASSUME NEW q \in Callers, overtaken'[q] = "whole",
                      pc'[q] \in {"waiting", "checking"}
               PROVE  IF \E s \in Callers : pc'[s] \in Written
                      THEN /\ prev'[q] < got'.at
                           /\ \A s \in Callers : pc'[s] = "saved" =>
                                stored'.at = got'.at /\ ~stored'.due
                      ELSE ~Due' /\ prev'[q] < CurrentSecret'
      BY DEF FindsNewer
  <2>1. q # p
        BY <1>3 DEF SharedInv, LockInv, Types, TokenTypeOK
  <2>2. /\ overtaken[q] = "whole" /\ pc[q] \in {"waiting", "checking"} /\ prev'[q] = prev[q]
        BY <1>3, <2>1, Numbered DEF SharedInv, LockInv, Types, TokenTypeOK
  <2>3. (\E s \in Callers : pc'[s] \in Written) <=> (\E s \in Callers : pc[s] \in Written)
        BY <1>1, <1>3 DEF SharedInv, LockInv, Types, TokenTypeOK, Written
  <2>4. Due' = Due /\ CurrentSecret' = CurrentSecret
        BY <1>2 DEF Due, CurrentSecret, HasOverride
  <2>5. \A s \in Callers : pc'[s] = "saved" => pc[s] = "saved"
        BY <1>5 DEF Answered
  <2> QED BY <1>2, <2>2, <2>3, <2>4, <2>5 DEF SharedInv, FindsNewer
<1> QED BY <1>7, <1>8

\* A step between two states in which no answer is held, that changes no token and
\* lets no caller start to wait.
LEMMA StillShared ==
    ASSUME SharedInv, UNCHANGED <<stored, override, prev, overtaken>>,
           \A q \in Callers : pc'[q] \notin Answered,
           \A q \in Callers : pc[q] \notin Answered,
           \A q \in Callers : pc'[q] \in {"waiting", "checking"} =>
                                pc[q] \in {"waiting", "checking"},
           granted' \in Nat, granted <= granted'
    PROVE  Fresh' /\ FindsNewer'
<1>1. Fresh'
      BY Numbered DEF SharedInv, Fresh, Answered
<1>2. Due' = Due /\ CurrentSecret' = CurrentSecret
      BY DEF Due, CurrentSecret, HasOverride
<1>3. FindsNewer'
      BY <1>2 DEF SharedInv, FindsNewer, Written, Answered
<1> QED BY <1>1, <1>3

LEMMA LockIsShared ==
    ASSUME SharedInv, NEW p \in Callers, Lock(p)
    PROVE  Fresh' /\ FindsNewer'
<1>1. \A q \in Callers : pc[q] \notin Holding
      BY TokenAssumption DEF Lock, SharedInv, LockInv, Exclusive
<1>2. pc[p] = "waiting" /\ pc' = [pc EXCEPT ![p] = "checking"]
      BY DEF Lock, Goto
<1>3. \A q \in Callers : /\ pc[q] \notin Answered /\ pc'[q] \notin Answered
                         /\ pc'[q] \in {"waiting", "checking"} =>
                                pc[q] \in {"waiting", "checking"}
      BY <1>1, <1>2 DEF SharedInv, LockInv, Types, TokenTypeOK, Holding, Answered
<1>4. UNCHANGED <<stored, override, prev, overtaken, granted>>
      BY DEF Lock, provider
<1> QED BY <1>3, <1>4, StillShared, Numbered DEF SharedInv

LEMMA AskingIsShared ==
    ASSUME SharedInv, NEW p \in Callers,
           Present(p) \/ Leave(p) \/ Unreadable(p) \/ Deny(p) \/ LoseAnswer(p)
    PROVE  Fresh' /\ FindsNewer'
<1>1. pc[p] \in {"checking", "asking"}
      BY DEF Present, Leave, Unreadable, Deny, LoseAnswer
<1>2. \A q \in Callers : q # p => pc[q] \notin Holding
      BY <1>1, Alone DEF SharedInv, Holding
<1>3. PICK there \in {"idle", "asking"} : pc' = [pc EXCEPT ![p] = there]
      BY DEF Present, Leave, Unreadable, Deny, LoseAnswer, Return, Goto
<1>4. \A q \in Callers : /\ pc[q] \notin Answered /\ pc'[q] \notin Answered
                         /\ pc'[q] \in {"waiting", "checking"} =>
                                pc[q] \in {"waiting", "checking"}
      BY <1>1, <1>2, <1>3 DEF SharedInv, LockInv, Types, TokenTypeOK, Holding, Answered
<1>5. UNCHANGED <<stored, override, prev, overtaken>> /\ granted' \in {granted, New}
      BY DEF Present, Leave, Unreadable, Deny, LoseAnswer, provider
<1>6. granted' \in Nat /\ granted <= granted'
      BY <1>5, Numbered DEF New, SharedInv
<1> QED BY <1>4, <1>5, <1>6, StillShared

LEMMA GrantIsShared ==
    ASSUME SharedInv, NEW p \in Callers, Grant(p)
    PROVE  Fresh' /\ FindsNewer'
<1>1. \A q \in Callers : q # p => pc[q] \notin Holding
      BY Alone DEF Grant, SharedInv, Holding
<1>2. /\ pc[p] = "asking" /\ pc' = [pc EXCEPT ![p] = "granted"]
      /\ UNCHANGED <<stored, override, prev, overtaken>>
      /\ granted' = granted + 1 /\ got'.at = granted + 1
      BY DEF Grant, Goto, New
<1>3. Fresh'
      BY <1>1, <1>2, Numbered
      DEF SharedInv, LockInv, Types, TokenTypeOK, Fresh, Holding, Answered
<1>4. /\ \A q \in Callers : pc[q] \notin Written /\ pc'[q] \notin Written
      /\ \A q \in Callers : pc'[q] \in {"waiting", "checking"} => pc'[q] = pc[q]
      BY <1>1, <1>2 DEF SharedInv, LockInv, Types, TokenTypeOK, Holding, Written
<1>5. Due' = Due /\ CurrentSecret' = CurrentSecret
      BY <1>2 DEF Due, CurrentSecret, HasOverride
<1>6. FindsNewer'
      BY <1>2, <1>4, <1>5 DEF SharedInv, FindsNewer
<1> QED BY <1>3, <1>6

\* While an answer is being written, every caller that waits was overtaken by a
\* token newer than its own.
LEMMA SaveIsShared ==
    ASSUME SharedInv, NEW p \in Callers, Save(p)
    PROVE  Fresh' /\ FindsNewer'
<1>1. \A q \in Callers : q # p => pc[q] \notin Holding
      BY Alone DEF Save, SharedInv, Holding
<1>2. /\ pc[p] = "granted" /\ pc'[p] \in Written
      /\ \A q \in Callers : q # p => pc'[q] = pc[q]
      /\ UNCHANGED <<override, prev, got, granted>>
      /\ stored'.at \in {stored.at, got.at}
      BY DEF Save, Goto, provider, Renewed, Written, SharedInv, LockInv, Types, TokenTypeOK
<1>3. Fresh'
      BY <1>1, <1>2 DEF SharedInv, Fresh, Holding, Answered, Written
<1>4. \A q \in Callers : pc'[q] \in {"waiting", "checking"} => prev'[q] < got'.at
      BY <1>2 DEF SharedInv, Fresh
<1>5. pc'[p] = "saved" => stored'.at = got'.at /\ ~stored'.due
      BY <1>2 DEF Save, Goto, Renewed, SharedInv, LockInv, Types, TokenTypeOK
<1>6. FindsNewer'
      BY <1>1, <1>2, <1>4, <1>5 DEF FindsNewer, Holding
<1> QED BY <1>3, <1>6

\* Then that token is the current one.
LEMMA SettleIsShared ==
    ASSUME SharedInv, NEW p \in Callers, Settle(p)
    PROVE  Fresh' /\ FindsNewer'
<1>1. pc[p] \in Written /\ \A q \in Callers : q # p => pc[q] \notin Holding
      BY Alone DEF Settle, SharedInv, Holding, Written
<1>2. /\ pc' = [pc EXCEPT ![p] = "idle"]
      /\ UNCHANGED <<stored, prev, granted>>
      BY DEF Settle, Return, Goto, provider
<1>3. \A q \in Callers : pc'[q] \notin Answered /\ pc'[q] \notin Written
      BY <1>1, <1>2 DEF SharedInv, LockInv, Types, TokenTypeOK, Holding, Answered, Written
<1>4. got.at <= granted /\ got.at \in Nat
      BY <1>1 DEF SharedInv, LockInv, Types, Fresh, Answered, Written
<1>5. override'.at \in {NoToken, got.at}
      BY DEF Settle, Nothing, Unsaved
<1>6. Fresh'
      BY <1>2, <1>3, <1>4, <1>5, Numbered DEF SharedInv, Fresh, Answered, NoToken
<1>7. FindsNewer'
  <2> SUFFICES ASSUME NEW q \in Callers, overtaken'[q] = "whole",
                      pc'[q] \in {"waiting", "checking"}
               PROVE  ~Due' /\ prev'[q] < CurrentSecret'
      BY <1>3 DEF FindsNewer
  <2>1. overtaken[q] = "whole" /\ pc[q] \in {"waiting", "checking"}
        BY <1>2 DEF Settle, SharedInv, LockInv, Types, TokenTypeOK
  <2>2. /\ prev[q] < got.at
        /\ pc[p] = "saved" => stored.at = got.at /\ ~stored.due
        BY <1>1, <2>1 DEF SharedInv, FindsNewer
  <2>3. CASE pc[p] = "saved"
        BY <1>2, <2>2, <2>3 DEF Settle, Due, CurrentSecret, HasOverride, Nothing
  <2>4. CASE pc[p] = "unsaved"
    <3>1. override' = Unsaved
          BY <2>4 DEF Settle
    <3>2. CurrentSecret' = got.at /\ ~Due'
          BY <1>4, <3>1 DEF Unsaved, Due, CurrentSecret, HasOverride, NoToken
    <3> QED BY <1>2, <2>2, <3>2
  <2> QED BY <1>1, <2>3, <2>4 DEF Written
<1> QED BY <1>6, <1>7

LEMMA ExpireIsShared ==
    ASSUME SharedInv, Expire
    PROVE  Fresh' /\ FindsNewer'
<1>1. stored'.at = stored.at /\ override'.at = override.at
      BY DEF Expire, SharedInv, LockInv, Types, TokenTypeOK, Kept
<1>2. Fresh'
      BY <1>1 DEF Expire, provider, SharedInv, Fresh
<1>3. FindsNewer'
      BY DEF Expire, FindsNewer
<1> QED BY <1>2, <1>3

LEMMA CrashIsShared ==
    ASSUME SharedInv, Crash
    PROVE  Fresh' /\ FindsNewer'
<1>1. Fresh'
      BY Numbered DEF Crash, provider, Nothing, NoToken, SharedInv, Fresh, Answered
<1>2. FindsNewer'
      BY DEF Crash, FindsNewer
<1> QED BY <1>1, <1>2

LEMMA SharedHolds ==
    TokenSpec => []SharedInv
<1>1. SharedInv /\ [TokenNext]_tokenVars => SharedInv'
  <2> SUFFICES ASSUME SharedInv, [TokenNext]_tokenVars PROVE Fresh' /\ FindsNewer'
      BY LockStep DEF SharedInv
  <2>1. ASSUME NEW p \in Callers,
               Fetch(p) \/ SecretFor(p) \/ ForceRefresh(p) \/ Lock(p) \/ Continue(p)
        PROVE  Fresh' /\ FindsNewer'
        BY <2>1, FetchIsShared, WaitIsShared, LockIsShared, AskingIsShared, GrantIsShared,
           SaveIsShared, SettleIsShared
        DEF Continue
  <2>2. CASE Expire
        BY <2>2, ExpireIsShared
  <2>3. CASE Crash
        BY <2>3, CrashIsShared
  <2>4. CASE UNCHANGED tokenVars
        BY <2>4 DEF tokenVars, provider, SharedInv, Fresh, FindsNewer, Due, CurrentSecret,
                    HasOverride
  <2> QED BY <2>1, <2>2, <2>3, <2>4 DEF TokenNext
<1> QED BY <1>1, SharedAtStart, PTL DEF TokenSpec

\* A caller that waited while another one's renewal was written never starts an
\* exchange of its own, whatever the provider does (oauth.go:225).
THEOREM RenewalIsShared ==
    TokenSpec => NoSecondRotation
<1>1. SharedInv /\ [TokenNext]_tokenVars =>
        [\A p \in Callers : Rotates(p) => overtaken[p] # "whole"]_tokenVars
  <2> SUFFICES ASSUME SharedInv, TokenNext, NEW p \in Callers, Rotates(p),
                      overtaken[p] = "whole"
               PROVE  FALSE
      OBVIOUS
  <2>1. pc[p] = "checking" /\ pc'[p] = "asking"
        BY DEF Rotates
  <2>2. Present(p)
    <3>1. pc \in [Callers -> {"idle", "waiting", "checking", "asking", "granted", "saved",
                             "unsaved"}]
          BY DEF SharedInv, LockInv, Types, TokenTypeOK
    <3>2. ASSUME NEW q \in Callers, NEW there, there # "asking",
                 pc' = [pc EXCEPT ![q] = there]
          PROVE  FALSE
          BY <2>1, <3>1, <3>2
    <3>3. ~Expire /\ ~Crash
          BY <2>1, <3>1 DEF Expire, Crash
    <3>4. PICK q \in Callers :
                Fetch(q) \/ SecretFor(q) \/ ForceRefresh(q) \/ Lock(q) \/ Continue(q)
          BY <3>3 DEF TokenNext
    <3>5. ~Fetch(q)
          BY <2>1 DEF Fetch
    <3>6. ~(SecretFor(q) \/ ForceRefresh(q) \/ Lock(q) \/ Grant(q) \/ Save(q))
          BY <3>2 DEF SecretFor, ForceRefresh, Wait, Lock, Grant, Save, Goto
    <3>7. ~(Leave(q) \/ Unreadable(q) \/ Deny(q) \/ LoseAnswer(q) \/ Settle(q))
          BY <3>2 DEF Leave, Unreadable, Deny, LoseAnswer, Settle, Return, Goto
    <3>8. Present(q)
          BY <3>4, <3>5, <3>6, <3>7 DEF Continue
    <3>9. q = p
          BY <2>1, <3>1, <3>8 DEF Present, Goto
    <3> QED BY <3>8, <3>9
  <2>3. ~Due /\ prev[p] < CurrentSecret
    <3>1. \A q \in Callers : pc[q] \notin Written
          BY <2>1, Alone DEF SharedInv, Holding, Written
    <3> QED BY <2>1, <3>1 DEF SharedInv, FindsNewer
  <2>4. prev[p] \in Int /\ CurrentSecret \in Int
        BY Numbered DEF SharedInv
  <2> QED BY <2>2, <2>3, <2>4 DEF Present, StillNeeded
<1> QED BY <1>1, SharedHolds, PTL DEF TokenSpec, NoSecondRotation

-----------------------------------------------------------------------------
\* Sign-in.

\* What a request must have written before its account is said to be stored.
Needed(h) == {"row"} \cup (IF signsTo[finisher[h].of] \in Renewable THEN {"oauth"} ELSE {})

\* A request that used the page's code up: a browser's request took the page, a
\* device's was given the tokens.
UsedUp(h) ==
    \/ finisher[h].pc \in {"saving", "undoing", "stored", "left"}
    \/ account[h] # {}
    \/ finisher[h].pc \in {"asking", "cut"} /\ signsTo[finisher[h].of] \notin Devices

Gone == {"taken", "redeemed"}

FinisherOK(h) ==
    /\ finisher[h].pc # "idle" => finisher[h].of \in SignIns
    /\ finisher[h].pc \in {"idle", "asking", "refused"} => account[h] = {}
    /\ finisher[h].pc = "saving" => finisher[h].owes # {}
    /\ finisher[h].pc = "saving" => Needed(h) \subseteq finisher[h].owes \cup account[h]
    /\ finisher[h].pc = "stored" => Needed(h) \subseteq account[h]
    /\ UsedUp(h) => page[finisher[h].of] \in Gone

SeekOK == \A s \in seeking : signsTo[s] = "antigravity" /\ page[s] = "none"

\* A page's code is used up once.
UsedOnce == \A g, h \in Finishers : UsedUp(g) /\ UsedUp(h) /\ finisher[g].of = finisher[h].of => g = h

SignInInv == SignInTypeOK /\ SeekOK /\ (\A h \in Finishers : FinisherOK(h)) /\ UsedOnce

\* A step of one request: the others keep what they have, and pages used up stay so.
Only(h) ==
    /\ \A g \in Finishers : g # h => finisher'[g] = finisher[g] /\ account'[g] = account[g]
    /\ signsTo' = signsTo
    /\ \A s \in SignIns : page[s] \in Gone => page'[s] = page[s]

LEMMA OthersKeep ==
    ASSUME SignInInv, NEW h \in Finishers, Only(h), SignInTypeOK', SeekOK',
           FinisherOK(h)',
           UsedUp(h)' => \A g \in Finishers : g # h /\ UsedUp(g) => finisher[g].of # finisher'[h].of
    PROVE  SignInInv'
  <1>1. \A g \in Finishers : g # h => FinisherOK(g)' /\ (UsedUp(g)' <=> UsedUp(g))
    <2> SUFFICES ASSUME NEW g \in Finishers, g # h PROVE FinisherOK(g)' /\ (UsedUp(g)' <=> UsedUp(g))
        OBVIOUS
    <2>1. finisher'[g] = finisher[g] /\ account'[g] = account[g] /\ signsTo' = signsTo
        BY DEF Only
    <2>2. UsedUp(g)' <=> UsedUp(g)  BY <2>1 DEF UsedUp
    <2>3. Needed(g)' = Needed(g)  BY <2>1 DEF Needed
    <2>4. FinisherOK(g)  BY DEF SignInInv
    <2>5. UsedUp(g)' => finisher[g].of \in SignIns /\ page[finisher[g].of] \in Gone
        BY <2>2, <2>4 DEF FinisherOK, UsedUp
    <2>6. UsedUp(g)' => page'[finisher'[g].of] \in Gone  BY <2>1, <2>5 DEF Only
    <2> QED BY <2>1, <2>2, <2>3, <2>4, <2>6 DEF FinisherOK
  <1>2. UsedOnce'
    <2> SUFFICES ASSUME NEW a \in Finishers, NEW b \in Finishers,
                        UsedUp(a)', UsedUp(b)', finisher'[a].of = finisher'[b].of
                 PROVE a = b
        BY DEF UsedOnce
    <2>1. CASE a # h /\ b # h
        BY <1>1, <2>1 DEF Only, SignInInv, UsedOnce
    <2>2. CASE a = h /\ b # h  BY <1>1, <2>2 DEF Only
    <2>3. CASE a # h /\ b = h  BY <1>1, <2>3 DEF Only
    <2> QED BY <2>1, <2>2, <2>3
  <1> QED BY <1>1, <1>2 DEF SignInInv

LEMMA PieceIsOwed ==
    ASSUME SignInTypeOK, NEW h \in Finishers, finisher[h].owes # {}
    PROVE  NextPiece(h) \in finisher[h].owes
  <1>1. finisher[h].owes \subseteq Pieces  BY DEF SignInTypeOK
  <1>2. \E piece \in finisher[h].owes :
              \/ piece = "row"
              \/ piece = "oauth" /\ "row" \notin finisher[h].owes
              \/ finisher[h].owes = {piece}
    <2>1. CASE "row" \in finisher[h].owes  BY <2>1
    <2>2. CASE "row" \notin finisher[h].owes /\ "oauth" \in finisher[h].owes  BY <2>2
    <2>3. CASE "row" \notin finisher[h].owes /\ "oauth" \notin finisher[h].owes
      <3>1. finisher[h].owes = {"meta"}  BY <1>1, <2>3 DEF Pieces
      <3> QED BY <3>1
    <2> QED BY <2>1, <2>2, <2>3
  <1> QED BY <1>2 DEF NextPiece

\* Steps of the pages: no request moves.
LEMMA PagesKeep ==
    ASSUME SignInInv, UNCHANGED <<finisher, account, signsTo>>, SignInTypeOK', SeekOK',
           \A s \in SignIns : page[s] \in Gone => page'[s] = page[s]
    PROVE  SignInInv'
  <1>1. \A g \in Finishers : FinisherOK(g)' /\ (UsedUp(g)' <=> UsedUp(g))
    <2> SUFFICES ASSUME NEW g \in Finishers PROVE FinisherOK(g)' /\ (UsedUp(g)' <=> UsedUp(g))
        OBVIOUS
    <2>1. UsedUp(g)' <=> UsedUp(g)  BY DEF UsedUp
    <2>2. Needed(g)' = Needed(g)  BY DEF Needed
    <2>3. FinisherOK(g)  BY DEF SignInInv
    <2>4. UsedUp(g)' => finisher[g].of \in SignIns /\ page[finisher[g].of] \in Gone
        BY <2>1, <2>3 DEF FinisherOK, UsedUp
    <2> QED BY <2>1, <2>2, <2>3, <2>4 DEF FinisherOK
  <1> QED BY <1>1 DEF SignInInv, UsedOnce

\* A page opened for one sign-in leaves those that are used up, and those not yet open.
LEMMA OpenedTyped ==
    ASSUME SignInTypeOK, NEW s \in SignIns, page' = Opened(s)
    PROVE  /\ page' \in [SignIns -> {"none", "kept", "old", "taken", "shown", "approved", "redeemed"}]
           /\ page'[s] = "kept"
           /\ \A q \in SignIns : q # s /\ page[q] # "old" => page'[q] = page[q]
  BY DEF SignInTypeOK, Opened

LEMMA OpenPageKeeps ==
    ASSUME SignInInv, NEW s \in SignIns, OpenPage(s)
    PROVE  SignInInv'
  <1>1. CASE LacksSecret(s)
    <2>1. UNCHANGED <<finisher, account, signsTo, page, secret>> /\ seeking' = {s}
        BY <1>1 DEF OpenPage
    <2>2. SignInTypeOK'  BY <2>1 DEF SignInInv, SignInTypeOK
    <2>3. SeekOK'  BY <1>1, <2>1 DEF SeekOK, OpenPage, LacksSecret
    <2> QED BY <2>1, <2>2, <2>3, PagesKeep
  <1>2. CASE ~LacksSecret(s)
    <2>1. UNCHANGED <<finisher, account, signsTo, seeking, secret>> /\ page' = Opened(s)
        BY <1>2 DEF OpenPage
    <2>2. SignInTypeOK'  BY <2>1, OpenedTyped DEF SignInInv, SignInTypeOK
    <2>3. s \notin seeking  BY DEF OpenPage, SignInInv, SeekOK
    <2>4. SeekOK'  BY <2>1, <2>3, OpenedTyped DEF SignInInv, SeekOK, SignInTypeOK
    <2>5. \A q \in SignIns : page[q] \in Gone => page'[q] = page[q]
        BY <2>1, OpenedTyped DEF Gone, OpenPage, SignInInv
    <2> QED BY <2>1, <2>2, <2>4, <2>5, PagesKeep
  <1> QED BY <1>1, <1>2

LEMMA SecretFoundKeeps ==
    ASSUME SignInInv, NEW s \in SignIns, NEW ok \in BOOLEAN, SecretFound(s, ok)
    PROVE  SignInInv'
  <1>1. UNCHANGED <<finisher, account, signsTo>> /\ seeking' = {} /\ secret' = TRUE
      BY DEF SecretFound
  <1>2. SeekOK'  BY <1>1 DEF SeekOK
  <1>3. page[s] = "none"  BY DEF SecretFound, SignInInv, SeekOK
  <1>4. CASE ok
    <2>1. page' = Opened(s)  BY <1>4 DEF SecretFound
    <2>2. SignInTypeOK'  BY <1>1, <2>1, OpenedTyped DEF SignInInv, SignInTypeOK
    <2>3. \A q \in SignIns : page[q] \in Gone => page'[q] = page[q]
        BY <1>3, <2>1, OpenedTyped DEF Gone, SignInInv
    <2> QED BY <1>1, <1>2, <2>2, <2>3, PagesKeep
  <1>5. CASE ~ok
    <2>1. page' = page  BY <1>5 DEF SecretFound
    <2>2. SignInTypeOK'  BY <1>1, <2>1 DEF SignInInv, SignInTypeOK
    <2> QED BY <1>1, <1>2, <2>1, <2>2, PagesKeep
  <1> QED BY <1>4, <1>5

LEMMA NoSecretKeeps ==
    ASSUME SignInInv, NEW s \in SignIns, NoSecret(s)
    PROVE  SignInInv'
  <1>1. UNCHANGED <<finisher, account, signsTo, page, secret>> /\ seeking' = {}
      BY DEF NoSecret
  <1>2. SignInTypeOK' /\ SeekOK'  BY <1>1 DEF SignInInv, SignInTypeOK, SeekOK
  <1> QED BY <1>1, <1>2, PagesKeep

\* A code that is shown, one that is approved, a page that grows old.
LEMMA PageKeeps ==
    ASSUME SignInInv, NEW s \in SignIns, ShowDeviceCode(s) \/ GrowsOld(s) \/ Approved(s)
    PROVE  SignInInv'
  <1>1. PICK v \in {"shown", "old", "approved"} : page' = [page EXCEPT ![s] = v]
      BY DEF ShowDeviceCode, GrowsOld, Approved
  <1>2. UNCHANGED <<finisher, account, signsTo, seeking, secret>>
      BY DEF ShowDeviceCode, GrowsOld, Approved
  <1>3. page[s] \notin Gone  BY DEF ShowDeviceCode, GrowsOld, Approved, Gone
  <1>4. s \notin seeking
    <2>1. s \in seeking => signsTo[s] = "antigravity" /\ page[s] = "none"
        BY DEF SignInInv, SeekOK
    <2> QED BY <2>1 DEF ShowDeviceCode, GrowsOld, Approved, Devices
  <1>5. SignInTypeOK'  BY <1>1, <1>2 DEF SignInInv, SignInTypeOK
  <1>6. SeekOK'  BY <1>1, <1>2, <1>4 DEF SignInInv, SignInTypeOK, SeekOK
  <1>7. \A q \in SignIns : page[q] \in Gone => page'[q] = page[q]
      BY <1>1, <1>3 DEF SignInInv, SignInTypeOK
  <1> QED BY <1>2, <1>5, <1>6, <1>7, PagesKeep

LEMMA RestartKeeps ==
    ASSUME SignInInv, SignInRestart
    PROVE  SignInInv'
  <1> DEFINE Ends(h) == finisher[h].pc \in {"asking", "saving", "undoing"}
  <1>1. UNCHANGED <<signsTo, page, secret, account>> /\ seeking' = {}  BY DEF SignInRestart
  <1>2. \A h \in Finishers : /\ finisher'[h].of = finisher[h].of
                             /\ finisher'[h].owes = finisher[h].owes
                             /\ finisher'[h].pc = IF Ends(h) THEN "cut" ELSE finisher[h].pc
                             /\ finisher'[h] \in [pc : {"idle", "asking", "saving", "undoing", "stored", "refused", "left", "cut"},
                                  of : SignIns \cup {"none"}, owes : SUBSET Pieces]
      BY DEF SignInRestart, SignInInv, SignInTypeOK
  <1>3. SignInTypeOK'  BY <1>1, <1>2 DEF SignInRestart, SignInInv, SignInTypeOK
  <1>4. SeekOK'  BY <1>1 DEF SeekOK
  <1>5. \A h \in Finishers : UsedUp(h)' => UsedUp(h)
      BY <1>1, <1>2 DEF UsedUp
  <1>6. \A h \in Finishers : FinisherOK(h)'
    <2> SUFFICES ASSUME NEW h \in Finishers PROVE FinisherOK(h)'
        OBVIOUS
    <2>1. FinisherOK(h)  BY DEF SignInInv
    <2>2. Needed(h)' = Needed(h)  BY <1>1, <1>2 DEF Needed
    <2> QED BY <1>1, <1>2, <1>5, <2>1, <2>2 DEF FinisherOK
  <1>7. UsedOnce'  BY <1>2, <1>5 DEF UsedOnce, SignInInv
  <1> QED BY <1>3, <1>4, <1>6, <1>7 DEF SignInInv

States == {"idle", "asking", "saving", "undoing", "stored", "refused", "left", "cut"}
Pages  == {"none", "kept", "old", "taken", "shown", "approved", "redeemed"}

\* Pages used up, and those not open, stay as they are.
PagesStay == \A q \in SignIns : page[q] \in Gone \cup {"none"} => page'[q] = page[q]

\* A request moves to f, with a written of its account, and p on the pages.
LEMMA MoveTyped ==
    ASSUME SignInInv, NEW h \in Finishers,
           NEW f \in [pc : States, of : SignIns \cup {"none"}, owes : SUBSET Pieces],
           NEW a \in SUBSET Pieces,
           finisher' = [finisher EXCEPT ![h] = f], account' = [account EXCEPT ![h] = a],
           UNCHANGED <<signsTo, seeking, secret>>,
           page' \in [SignIns -> Pages],
           PagesStay
    PROVE  SignInTypeOK' /\ SeekOK' /\ Only(h) /\ finisher'[h] = f /\ account'[h] = a
  <1>1. SignInTypeOK'  BY DEF SignInInv, SignInTypeOK, States, Pages
  <1>2. finisher'[h] = f /\ account'[h] = a  BY DEF SignInInv, SignInTypeOK
  <1>3. Only(h)  BY DEF SignInInv, SignInTypeOK, Only, PagesStay
  <1>4. SeekOK'  BY DEF SignInInv, SignInTypeOK, SeekOK, PagesStay
  <1> QED BY <1>1, <1>2, <1>3, <1>4

LEMMA PasteKeeps ==
    ASSUME SignInInv, NEW h \in Finishers, NEW s \in SignIns, Paste(h, s)
    PROVE  SignInInv'
  <1> DEFINE to == IF page[s] = "kept" THEN "asking" ELSE "refused"
  <1>0. to \in States /\ (page[s] = "kept" => to = "asking") /\ (page[s] # "kept" => to = "refused")
      BY DEF States
  <1>1. PICK f : f = [pc |-> to, of |-> s, owes |-> {}]  OBVIOUS
  <1>2. f \in [pc : States, of : SignIns \cup {"none"}, owes : SUBSET Pieces]
      BY <1>0, <1>1
  <1>3. finisher' = [finisher EXCEPT ![h] = f]  BY <1>1 DEF Paste, Begins
  <1> HIDE DEF to
  <1>4. account' = [account EXCEPT ![h] = account[h]] /\ account[h] \in SUBSET Pieces
      BY DEF Paste, SignInInv, SignInTypeOK
  <1>5. /\ page' \in [SignIns -> Pages]
        /\ page[s] \in {"kept", "old"} => page'[s] = "taken"
        /\ PagesStay
      BY DEF Paste, SignInInv, SignInTypeOK, Taken, Pages, Gone, PagesStay
  <1>6. UNCHANGED <<signsTo, seeking, secret>>  BY DEF Paste
  <1>7. SignInTypeOK' /\ SeekOK' /\ Only(h) /\ finisher'[h] = f /\ account'[h] = account[h]
      BY <1>2, <1>3, <1>4, <1>5, <1>6, MoveTyped
  <1>8. account[h] = {}  BY DEF SignInInv, FinisherOK, Paste
  <1>9. FinisherOK(h)'
      BY <1>0, <1>1, <1>5, <1>7, <1>8 DEF FinisherOK, UsedUp, Gone
  <1>10. ASSUME UsedUp(h)', NEW g \in Finishers, g # h, UsedUp(g)
         PROVE  finisher[g].of # finisher'[h].of
    <2>1. page[s] = "kept"  BY <1>0, <1>1, <1>7, <1>8, <1>10 DEF UsedUp
    <2>2. page[finisher[g].of] \in Gone  BY <1>10 DEF SignInInv, FinisherOK
    <2> QED BY <1>1, <1>7, <2>1, <2>2 DEF Gone
  <1> QED BY <1>7, <1>9, <1>10, OthersKeep

LEMMA PollsKeeps ==
    ASSUME SignInInv, NEW h \in Finishers, NEW s \in SignIns, PollGithub(h, s) \/ PollDeclared(h, s)
    PROVE  SignInInv'
  <1>1. PICK f : f = [pc |-> "asking", of |-> s, owes |-> {}]  OBVIOUS
  <1>2. f \in [pc : States, of : SignIns \cup {"none"}, owes : SUBSET Pieces]
      BY <1>1 DEF States
  <1>3. finisher' = [finisher EXCEPT ![h] = f]  BY <1>1 DEF PollGithub, PollDeclared, Polls, Begins
  <1>4. account' = [account EXCEPT ![h] = account[h]] /\ account[h] \in SUBSET Pieces
      BY DEF PollGithub, PollDeclared, Polls, SignInInv, SignInTypeOK
  <1>5. page' = page /\ page \in [SignIns -> Pages] /\ PagesStay
      BY DEF PollGithub, PollDeclared, Polls, SignInInv, SignInTypeOK, Pages, PagesStay
  <1>6. UNCHANGED <<signsTo, seeking, secret>>  BY DEF PollGithub, PollDeclared, Polls
  <1>7. SignInTypeOK' /\ SeekOK' /\ Only(h) /\ finisher'[h] = f /\ account'[h] = account[h]
      BY <1>2, <1>3, <1>4, <1>5, <1>6, MoveTyped
  <1>8. account[h] = {}  BY DEF SignInInv, FinisherOK, PollGithub, PollDeclared, Polls
  <1>9. signsTo'[s] \in Devices  BY <1>6 DEF PollGithub, PollDeclared, Devices
  <1>10. ~UsedUp(h)'  BY <1>1, <1>7, <1>8, <1>9 DEF UsedUp
  <1>11. FinisherOK(h)'
      BY <1>1, <1>7, <1>8, <1>10 DEF FinisherOK
  <1> QED BY <1>7, <1>10, <1>11, OthersKeep

LEMMA TokensKeeps ==
    ASSUME SignInInv, NEW h \in Finishers, NEW named \in BOOLEAN, Tokens(h, named)
    PROVE  SignInInv'
  <1>s. PICK s : s = finisher[h].of  OBVIOUS
  <1>p. finisher[h].pc = "asking"  BY DEF Tokens
  <1>h. FinisherOK(h)  BY DEF SignInInv
  <1>i. s \in SignIns /\ account[h] = {}  BY <1>s, <1>p, <1>h DEF FinisherOK
  <1>o. PICK o : o = Owed(signsTo[s], named)  OBVIOUS
  <1>1. PICK f : f = [finisher[h] EXCEPT !.pc = "saving", !.owes = o]  OBVIOUS
  <1>2. /\ f \in [pc : States, of : SignIns \cup {"none"}, owes : SUBSET Pieces]
        /\ f.pc = "saving" /\ f.of = s /\ f.owes = o
    <2>1. o \in SUBSET Pieces  BY <1>o DEF Owed, Pieces
    <2>2. finisher[h] \in [pc : States, of : SignIns \cup {"none"}, owes : SUBSET Pieces]
        BY DEF SignInInv, SignInTypeOK, States
    <2> QED BY <1>1, <1>s, <2>1, <2>2 DEF States
  <1>3. finisher' = [finisher EXCEPT ![h] = f]  BY <1>1, <1>s, <1>o DEF Tokens
  <1>4. account' = [account EXCEPT ![h] = account[h]] /\ account[h] \in SUBSET Pieces
      BY DEF Tokens, SignInInv, SignInTypeOK
  <1>5. /\ page' \in [SignIns -> Pages]
        /\ signsTo[s] \in Devices => page[s] = "approved" /\ page'[s] = "redeemed"
        /\ signsTo[s] \notin Devices => page' = page
        /\ PagesStay
      BY <1>s, <1>i DEF Tokens, SignInInv, SignInTypeOK, Pages, Gone, PagesStay
  <1>6. UNCHANGED <<signsTo, seeking, secret>>  BY DEF Tokens
  <1>7. SignInTypeOK' /\ SeekOK' /\ Only(h) /\ finisher'[h] = f /\ account'[h] = account[h]
      BY <1>2, <1>3, <1>4, <1>5, <1>6, MoveTyped
  <1>8. page'[s] \in Gone
    <2>1. CASE signsTo[s] \in Devices  BY <1>5, <2>1 DEF Gone
    <2>2. CASE signsTo[s] \notin Devices
      <3>1. UsedUp(h)  BY <1>p, <1>s, <2>2 DEF UsedUp
      <3> QED BY <1>5, <1>h, <1>s, <2>2, <3>1 DEF FinisherOK
    <2> QED BY <2>1, <2>2
  <1>9. FinisherOK(h)'
    <2>1. Needed(h)' \subseteq o /\ o # {}
        BY <1>2, <1>o, <1>6, <1>7 DEF Needed, Owed
    <2> QED BY <1>2, <1>7, <1>8, <1>i, <2>1 DEF FinisherOK
  <1>10. ASSUME UsedUp(h)', NEW g \in Finishers, g # h, UsedUp(g)
         PROVE  finisher[g].of # finisher'[h].of
    <2>1. page[finisher[g].of] \in Gone  BY <1>10 DEF SignInInv, FinisherOK
    <2>2. CASE signsTo[s] \in Devices  BY <1>2, <1>5, <1>7, <2>1, <2>2 DEF Gone
    <2>3. CASE signsTo[s] \notin Devices
      <3>1. UsedUp(h)  BY <1>p, <1>s, <2>3 DEF UsedUp
      <3> QED BY <1>2, <1>7, <1>s, <1>10, <3>1 DEF SignInInv, UsedOnce
    <2> QED BY <2>2, <2>3
  <1> QED BY <1>7, <1>9, <1>10, OthersKeep

\* A request goes on with its sign-in: it uses up nothing it had not used up before.
LEMMA GoesOn ==
    ASSUME SignInInv, NEW h \in Finishers, finisher[h].pc # "idle",
           NEW f \in [pc : States, of : SignIns \cup {"none"}, owes : SUBSET Pieces],
           NEW a \in SUBSET Pieces,
           finisher' = [finisher EXCEPT ![h] = f], account' = [account EXCEPT ![h] = a],
           UNCHANGED <<signsTo, page, seeking, secret>>,
           f.of = finisher[h].of, f.pc # "idle",
           UsedUp(h)' => UsedUp(h),
           f.pc \in {"asking", "refused"} => a = {},
           f.pc = "saving" => f.owes # {} /\ Needed(h) \subseteq f.owes \cup a,
           f.pc = "stored" => Needed(h) \subseteq a
    PROVE  SignInInv'
  <1>1. page' \in [SignIns -> Pages] /\ PagesStay
      BY DEF SignInInv, SignInTypeOK, Pages, PagesStay
  <1>2. SignInTypeOK' /\ SeekOK' /\ Only(h) /\ finisher'[h] = f /\ account'[h] = a
      BY <1>1, MoveTyped
  <1>3. FinisherOK(h)  BY DEF SignInInv
  <1>4. Needed(h)' = Needed(h)  BY <1>2 DEF Needed
  <1>5. FinisherOK(h)'  BY <1>2, <1>3, <1>4 DEF FinisherOK
  <1>6. ASSUME UsedUp(h)', NEW g \in Finishers, g # h, UsedUp(g)
        PROVE  finisher[g].of # finisher'[h].of
      BY <1>2, <1>6 DEF SignInInv, UsedOnce
  <1> QED BY <1>2, <1>5, <1>6, OthersKeep

\* Only the place of a request changes.
LEMMA BecomesTyped ==
    ASSUME SignInInv, NEW h \in Finishers, NEW to \in States, Becomes(h, to)
    PROVE  \E f \in [pc : States, of : SignIns \cup {"none"}, owes : SUBSET Pieces] :
              /\ finisher' = [finisher EXCEPT ![h] = f] /\ finisher'[h] = f
              /\ f.pc = to /\ f.of = finisher[h].of /\ f.owes = finisher[h].owes
  <1>1. PICK f : f = [finisher[h] EXCEPT !.pc = to]  OBVIOUS
  <1>2. finisher \in [Finishers -> [pc : States, of : SignIns \cup {"none"}, owes : SUBSET Pieces]]
      BY DEF SignInInv, SignInTypeOK, States
  <1>3. /\ f \in [pc : States, of : SignIns \cup {"none"}, owes : SUBSET Pieces]
        /\ f.pc = to /\ f.of = finisher[h].of /\ f.owes = finisher[h].owes
      BY <1>1, <1>2
  <1>4. finisher' = [finisher EXCEPT ![h] = f]  BY <1>1 DEF Becomes
  <1>5. finisher'[h] = f  BY <1>2, <1>4
  <1> QED BY <1>3, <1>4, <1>5

LEMMA StillPendingKeeps ==
    ASSUME SignInInv, NEW h \in Finishers, StillPending(h)
    PROVE  SignInInv'
  <1>1. PICK f : f = NotBegun  OBVIOUS
  <1>2. /\ f \in [pc : States, of : SignIns \cup {"none"}, owes : SUBSET Pieces]
        /\ f.pc = "idle"
      BY <1>1 DEF NotBegun, States
  <1>3. finisher' = [finisher EXCEPT ![h] = f]  BY <1>1 DEF StillPending
  <1>4. account' = [account EXCEPT ![h] = account[h]] /\ account[h] \in SUBSET Pieces
      BY DEF StillPending, SignInInv, SignInTypeOK
  <1>5. page' \in [SignIns -> Pages] /\ PagesStay /\ UNCHANGED <<signsTo, seeking, secret>>
      BY DEF StillPending, SignInInv, SignInTypeOK, Pages, PagesStay
  <1>6. SignInTypeOK' /\ SeekOK' /\ Only(h) /\ finisher'[h] = f /\ account'[h] = account[h]
      BY <1>2, <1>3, <1>4, <1>5, MoveTyped
  <1>7. account[h] = {}  BY DEF SignInInv, FinisherOK, StillPending
  <1>8. ~UsedUp(h)'  BY <1>2, <1>6, <1>7 DEF UsedUp
  <1>9. FinisherOK(h)'  BY <1>2, <1>6, <1>7, <1>8 DEF FinisherOK
  <1> QED BY <1>6, <1>8, <1>9, OthersKeep

LEMMA RefusedKeeps ==
    ASSUME SignInInv, NEW h \in Finishers, Refused(h)
    PROVE  SignInInv'
  <1>1. PICK f \in [pc : States, of : SignIns \cup {"none"}, owes : SUBSET Pieces] :
              /\ finisher' = [finisher EXCEPT ![h] = f] /\ finisher'[h] = f
              /\ f.pc = "refused" /\ f.of = finisher[h].of /\ f.owes = finisher[h].owes
      BY BecomesTyped DEF Refused, States
  <1>2. account' = [account EXCEPT ![h] = account[h]] /\ account[h] \in SUBSET Pieces
      BY DEF Refused, SignInInv, SignInTypeOK
  <1>3. account[h] = {}  BY DEF SignInInv, FinisherOK, Refused
  <1>4. UNCHANGED <<signsTo, page, seeking, secret, account>> /\ finisher[h].pc # "idle"
      BY DEF Refused
  <1>5. ~UsedUp(h)'  BY <1>1, <1>3, <1>4 DEF UsedUp
  <1> QED BY <1>1, <1>2, <1>3, <1>4, <1>5, GoesOn

LEMMA WriteFailsKeeps ==
    ASSUME SignInInv, NEW h \in Finishers, WriteFails(h)
    PROVE  SignInInv'
  <1>t. AfterFailure(h) \in {"refused", "undoing"} /\ (AfterFailure(h) = "refused" => account[h] = {})
      BY DEF AfterFailure
  <1>1. PICK f \in [pc : States, of : SignIns \cup {"none"}, owes : SUBSET Pieces] :
              /\ finisher' = [finisher EXCEPT ![h] = f] /\ finisher'[h] = f
              /\ f.pc = AfterFailure(h) /\ f.of = finisher[h].of /\ f.owes = finisher[h].owes
      BY <1>t, BecomesTyped DEF WriteFails, States
  <1>2. account' = [account EXCEPT ![h] = account[h]] /\ account[h] \in SUBSET Pieces
      BY DEF WriteFails, SignInInv, SignInTypeOK
  <1>4. UNCHANGED <<signsTo, page, seeking, secret, account>> /\ finisher[h].pc = "saving"
      BY DEF WriteFails
  <1>5. UsedUp(h)  BY <1>4 DEF UsedUp
  <1> QED BY <1>t, <1>1, <1>2, <1>4, <1>5, GoesOn

LEMMA RollBackKeeps ==
    ASSUME SignInInv, NEW h \in Finishers, NEW ok \in BOOLEAN, RollBack(h, ok)
    PROVE  SignInInv'
  <1>1. PICK to \in {"refused", "left"} :
          Becomes(h, to) /\ (ok => to = "refused") /\ (~ok => to = "left")
      BY DEF RollBack
  <1>2. PICK f \in [pc : States, of : SignIns \cup {"none"}, owes : SUBSET Pieces] :
              /\ finisher' = [finisher EXCEPT ![h] = f] /\ finisher'[h] = f
              /\ f.pc = to /\ f.of = finisher[h].of /\ f.owes = finisher[h].owes
      BY <1>1, BecomesTyped DEF States
  <1>3. PICK a \in SUBSET Pieces : account' = [account EXCEPT ![h] = a] /\ (ok => a = {})
    <2>1. account \in [Finishers -> SUBSET Pieces]  BY DEF SignInInv, SignInTypeOK
    <2>2. CASE ok  BY <2>2 DEF RollBack
    <2>3. CASE ~ok  BY <2>1, <2>3 DEF RollBack
    <2> QED BY <2>2, <2>3
  <1>4. UNCHANGED <<signsTo, page, seeking, secret>> /\ finisher[h].pc = "undoing"
      BY DEF RollBack
  <1>5. UsedUp(h)  BY <1>4 DEF UsedUp
  <1> QED BY <1>1, <1>2, <1>3, <1>4, <1>5, GoesOn

LEMMA WriteKeeps ==
    ASSUME SignInInv, NEW h \in Finishers, Write(h)
    PROVE  SignInInv'
  <1>p. finisher[h].pc = "saving"  BY DEF Write
  <1>h. finisher[h].owes # {} /\ Needed(h) \subseteq finisher[h].owes \cup account[h]
      BY <1>p DEF SignInInv, FinisherOK
  <1>t. /\ finisher \in [Finishers -> [pc : States, of : SignIns \cup {"none"}, owes : SUBSET Pieces]]
        /\ account \in [Finishers -> SUBSET Pieces]
      BY DEF SignInInv, SignInTypeOK, States
  <1>0. PICK n \in finisher[h].owes : n = NextPiece(h)
      BY <1>h, PieceIsOwed DEF SignInInv
  <1>1. n \in Pieces  BY <1>t, <1>0
  <1>2. PICK f : f = [finisher[h] EXCEPT !.owes = finisher[h].owes \ {n},
                                         !.pc = IF finisher[h].owes = {n} THEN "stored" ELSE "saving"]
      OBVIOUS
  <1>3. /\ f \in [pc : States, of : SignIns \cup {"none"}, owes : SUBSET Pieces]
        /\ f.owes = finisher[h].owes \ {n} /\ f.of = finisher[h].of
        /\ f.pc \in {"saving", "stored"}
        /\ f.pc = "stored" => finisher[h].owes = {n}
        /\ f.pc = "saving" => finisher[h].owes # {n}
      BY <1>2, <1>t DEF States
  <1>4. finisher' = [finisher EXCEPT ![h] = f]  BY <1>0, <1>2 DEF Write
  <1>5. account' = [account EXCEPT ![h] = account[h] \cup {n}] /\ account[h] \cup {n} \in SUBSET Pieces
      BY <1>0, <1>1, <1>t DEF Write
  <1>6. UNCHANGED <<signsTo, page, seeking, secret>>  BY DEF Write
  <1>7. UsedUp(h)  BY <1>p DEF UsedUp
  <1>8. f.pc = "saving" => f.owes # {} /\ Needed(h) \subseteq f.owes \cup (account[h] \cup {n})
      BY <1>3, <1>h, <1>0
  <1>9. f.pc = "stored" => Needed(h) \subseteq account[h] \cup {n}
      BY <1>3, <1>h
  <1> QED BY <1>p, <1>3, <1>4, <1>5, <1>6, <1>7, <1>8, <1>9, GoesOn

LEMMA SignInStarts ==
    ASSUME SignInInit
    PROVE  SignInInv
  <1>1. SignInTypeOK  BY DEF SignInInit, SignInTypeOK, NotBegun
  <1>2. \A h \in Finishers : finisher[h].pc = "idle" /\ account[h] = {}
      BY DEF SignInInit, NotBegun
  <1>3. \A h \in Finishers : ~UsedUp(h) /\ FinisherOK(h)
      BY <1>2 DEF UsedUp, FinisherOK
  <1>4. SeekOK  BY DEF SignInInit, SeekOK
  <1> QED BY <1>1, <1>3, <1>4 DEF SignInInv, UsedOnce

LEMMA SignInSteps ==
    ASSUME SignInInv, [SignInNext]_signInVars
    PROVE  SignInInv'
  <1>1. CASE UNCHANGED signInVars
    <2>1. SignInTypeOK' /\ SeekOK'  BY <1>1 DEF signInVars, SignInInv, SignInTypeOK, SeekOK
    <2>2. UNCHANGED <<finisher, account, signsTo, page>>  BY <1>1 DEF signInVars
    <2> QED BY <2>1, <2>2, PagesKeep
  <1>2. ASSUME NEW s \in SignIns,
               OpenPage(s) \/ ShowDeviceCode(s) \/ NoSecret(s) \/ GrowsOld(s) \/ Approved(s)
        PROVE  SignInInv'
      BY <1>2, OpenPageKeeps, PageKeeps, NoSecretKeeps
  <1>3. ASSUME NEW s \in SignIns, NEW yes \in BOOLEAN, SecretFound(s, yes)
        PROVE  SignInInv'
      BY <1>3, SecretFoundKeeps
  <1>4. ASSUME NEW h \in Finishers, NEW s \in SignIns, Paste(h, s) \/ PollGithub(h, s) \/ PollDeclared(h, s)
        PROVE  SignInInv'
      BY <1>4, PasteKeeps, PollsKeeps
  <1>5. ASSUME NEW h \in Finishers, NEW yes \in BOOLEAN, Tokens(h, yes) \/ RollBack(h, yes)
        PROVE  SignInInv'
      BY <1>5, TokensKeeps, RollBackKeeps
  <1>6. ASSUME NEW h \in Finishers, StillPending(h) \/ Refused(h) \/ Write(h) \/ WriteFails(h)
        PROVE  SignInInv'
      BY <1>6, StillPendingKeeps, RefusedKeeps, WriteKeeps, WriteFailsKeeps
  <1> QED BY <1>1, <1>2, <1>3, <1>4, <1>5, <1>6, RestartKeeps DEF SignInNext

\* What is known at every step of a sign-in (login.go), for any sign-ins, requests and
\* restarts: what its request still has to write, and that no two requests have used up
\* the same page.
THEOREM SignInInvariant == SignInSpec => []SignInInv
  <1>1. SignInInit => SignInInv  BY SignInStarts
  <1>2. SignInInv /\ [SignInNext]_signInVars => SignInInv'  BY SignInSteps
  <1> QED BY <1>1, <1>2, PTL DEF SignInSpec

LEMMA InvEndsWhole ==
    ASSUME SignInInv
    PROVE  SignInsEndWhole
  <1>1. \A h \in Finishers : FinisherOK(h)  BY DEF SignInInv
  <1>2. \A h \in Finishers : finisher[h].pc = "stored" => Whole(h)
      BY <1>1 DEF FinisherOK, Needed, Whole
  <1>3. \A h \in Finishers : finisher[h].pc = "refused" => account[h] = {}
      BY <1>1 DEF FinisherOK
  <1>4. ASSUME NEW s \in SignIns
        PROVE  Cardinality({h \in Finishers : finisher[h].of = s /\ account[h] # {}}) <= 1
    <2>1. PICK S : S = {h \in Finishers : finisher[h].of = s /\ account[h] # {}}  OBVIOUS
    <2>2. \A g, h \in S : g = h
        BY <2>1 DEF SignInInv, UsedOnce, UsedUp
    <2>3. CASE S = {}
        BY <2>1, <2>3, FS_EmptySet
    <2>4. CASE S # {}
      <3>1. PICK g \in S : S = {g}  BY <2>2, <2>4
      <3>2. Cardinality(S) = 1  BY <3>1, FS_Singleton
      <3> QED BY <2>1, <3>2
    <2> QED BY <2>3, <2>4
  <1> QED BY <1>2, <1>3, <1>4 DEF SignInsEndWhole

\* A sign-in ends in one account that can be used, or in none, whatever writes fail and
\* whenever intact restarts (login.go: saveOAuthAccount takes back what it could not finish,
\* TakePendingLogin gives a page's code away once).
THEOREM EndsWhole == SignInSpec => []SignInsEndWhole
  <1>1. SignInInv => SignInsEndWhole  BY InvEndsWhole
  <1> QED BY <1>1, SignInInvariant, PTL
=============================================================================
