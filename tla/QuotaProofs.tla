----------------------------- MODULE QuotaProofs -----------------------------
(***************************************************************************)
(* Theorems about an account's quota. The cache, for any readers, any claims  *)
(* and reads of any number: whoever asks after an invalidation is given a read  *)
(* that began after it, and no two flights that could be kept are ever under   *)
(* way. The claims of its resets, for any clicks, tabs, resets and restarts:    *)
(* a click in doubt is settled before another one is sent, and no claim is sent *)
(* on a count that still contains a confirmed reset.                         *)
(***************************************************************************)
EXTENDS ResetClaims, FiniteSetTheorems, TLAPS

\* What is kept is newer than the last invalidation.
KeptIsNewer ==
    /\ invalidated <= highWater
    /\ cache # None => invalidated < cache

\* Whatever a reader waits for, reads or was given is newer than the
\* invalidation before it asked.
ReaderOK(r) ==
    /\ since[r] <= invalidated
    /\ joined[r] # None => since[r] < joined[r]
    /\ reading[r] # None => since[r] < reading[r]
    /\ given[r] # None => since[r] < given[r]

\* A flight that could still be kept is the one that may be joined.
OnlyFlight == \A n \in running : n > highWater => n = flight

QuotaInv ==
    /\ QuotaTypeOK /\ KeptIsNewer /\ OnlyFlight
    /\ \A r \in Readers : ReaderOK(r)

\* The steps of quota.go; a claim may invalidate at any time.
QuotaStep ==
    \/ \E r \in Readers : Ask(r) \/ Wake(r) \/ StopWaiting(r) \/ Refreshed(r)
    \/ \E n \in running : Land(n)
    \/ \E c \in Claimers : FreshBegins(c) \/ FreshEnds(c) \/ FreshFails(c)
    \/ GrowOld \/ Invalidate \/ Forget

-----------------------------------------------------------------------------
\* Nothing was read.
LEMMA QuotaStarts == QuotaInit => QuotaInv
<1> SUFFICES ASSUME QuotaInit PROVE QuotaInv
  OBVIOUS
<1>1. QuotaTypeOK
  <2>1. expired \in BOOLEAN
    BY Zenon DEF QuotaInit
  <2>2. /\ joined \in [Readers -> 0..seq] /\ reading \in [Readers \cup Claimers -> 0..seq]
        /\ given \in [Readers -> 0..seq] /\ since \in [Readers -> 0..seq]
    BY DEF QuotaInit, None
  <2>3. /\ seq \in Nat /\ cache \in 0..seq /\ highWater \in 0..seq /\ invalidated \in 0..seq
        /\ flight \in 0..seq /\ running \subseteq 1..seq
    BY DEF QuotaInit, None
  <2> QED
    BY <2>1, <2>2, <2>3 DEF QuotaTypeOK
<1>2. KeptIsNewer /\ OnlyFlight
  BY DEF QuotaInit, KeptIsNewer, OnlyFlight, None
<1>3. ASSUME NEW r \in Readers PROVE ReaderOK(r)
  BY DEF QuotaInit, ReaderOK, None
<1> QED
  BY <1>1, <1>2, <1>3 DEF QuotaInv

\* The conjuncts of the types that the lemmas use, as numbers.
LEMMA Taken ==
    ASSUME QuotaTypeOK
    PROVE  /\ seq \in Nat /\ cache \in Nat /\ highWater \in Nat /\ invalidated \in Nat
           /\ flight \in Nat /\ running \subseteq Nat
           /\ cache <= seq /\ highWater <= seq /\ invalidated <= seq
           /\ \A r \in Readers : since[r] \in Nat /\ joined[r] \in Nat /\ given[r] \in Nat
           /\ \A c \in Readers \cup Claimers : reading[c] \in Nat
  BY DEF QuotaTypeOK

\* What stays what it was while a number is taken keeps its type.
LEMMA MoreNumbers ==
    ASSUME QuotaTypeOK, Number
    PROVE  /\ seq' \in Nat /\ seq' \in 1..seq' /\ seq' \in 0..seq' /\ 0 \in 0..seq'
           /\ seq < seq'
           /\ cache \in 0..seq' /\ highWater \in 0..seq' /\ invalidated \in 0..seq'
           /\ flight \in 0..seq' /\ running \subseteq 1..seq'
           /\ joined \in [Readers -> 0..seq']
           /\ reading \in [Readers \cup Claimers -> 0..seq']
           /\ given \in [Readers -> 0..seq'] /\ since \in [Readers -> 0..seq']
<1>1. seq \in Nat /\ seq' = seq + 1
  BY DEF QuotaTypeOK, Number
<1>2. 0..seq \subseteq 0..seq' /\ 1..seq \subseteq 1..seq'
  BY <1>1
<1> QED
  BY <1>1, <1>2 DEF QuotaTypeOK

\* Keeping a read lets the high water only rise, and keeps it above the last
\* invalidation.
LEMMA KeepRaises ==
    ASSUME QuotaInv, NEW n \in 1..seq, Keep(n), UNCHANGED <<seq, invalidated>>
    PROVE  /\ cache' \in 0..seq /\ highWater' \in 0..seq /\ expired' \in BOOLEAN
           /\ highWater <= highWater' /\ n <= highWater'
           /\ KeptIsNewer'
<1>1. /\ n \in Nat /\ n # None /\ n <= seq /\ expired \in BOOLEAN
      /\ cache \in 0..seq /\ highWater \in 0..seq /\ invalidated \in Nat
      /\ invalidated <= highWater /\ (cache # None => invalidated < cache)
  BY DEF QuotaInv, QuotaTypeOK, KeptIsNewer, None
<1>2. CASE n > highWater
  <2>1. highWater' = n /\ cache' = n /\ expired' = FALSE
    BY <1>2 DEF Keep
  <2>2. expired' \in BOOLEAN
    BY <2>1, Zenon
  <2>3. /\ cache' \in 0..seq /\ highWater' \in 0..seq
        /\ highWater <= highWater' /\ n <= highWater'
    BY <1>1, <1>2, <2>1
  <2>4. KeptIsNewer'
    BY <1>1, <1>2, <2>1 DEF KeptIsNewer
  <2> QED
    BY <2>2, <2>3, <2>4
<1>3. CASE ~(n > highWater)
  <2>1. UNCHANGED <<highWater, cache, expired>>
    BY <1>3 DEF Keep
  <2> QED
    BY <1>1, <1>3, <2>1 DEF KeptIsNewer
<1> QED
  BY <1>2, <1>3

-----------------------------------------------------------------------------
(* One lemma for each operation. *)

\* A cached read is newer than the last invalidation.
LEMMA AnswerFromCacheInv ==
    ASSUME QuotaInv, NEW r \in Readers, AnswerFromCache(r)
    PROVE  QuotaInv'
<1>1. /\ given' = [given EXCEPT ![r] = cache] /\ since' = [since EXCEPT ![r] = invalidated]
      /\ cache # None /\ joined[r] = None /\ reading[r] = None
      /\ UNCHANGED <<seq, cache, expired, highWater, flight, running, invalidated, joined, reading>>
  BY DEF AnswerFromCache, Give, Asks, Hit, Idle, cacheVars
<1>2. QuotaTypeOK'
  BY <1>1 DEF QuotaInv, QuotaTypeOK
<1>3. KeptIsNewer' /\ OnlyFlight'
  BY <1>1 DEF QuotaInv, KeptIsNewer, OnlyFlight
<1>4. ASSUME NEW q \in Readers PROVE ReaderOK(q)'
  BY <1>1, Taken DEF QuotaInv, QuotaTypeOK, KeptIsNewer, ReaderOK, None
<1> QED
  BY <1>2, <1>3, <1>4 DEF QuotaInv

\* A flight that may be joined began after the last invalidation.
LEMMA JoinInv ==
    ASSUME QuotaInv, NEW r \in Readers, Join(r)
    PROVE  QuotaInv'
<1>1. /\ joined' = [joined EXCEPT ![r] = flight] /\ given' = [given EXCEPT ![r] = None]
      /\ since' = [since EXCEPT ![r] = invalidated]
      /\ flight > highWater /\ reading[r] = None
      /\ UNCHANGED <<seq, cache, expired, highWater, flight, running, invalidated, reading>>
  BY DEF Join, MayJoin, Give, Asks, Idle, cacheVars
<1>2. QuotaTypeOK'
  BY <1>1 DEF QuotaInv, QuotaTypeOK, None
<1>3. KeptIsNewer' /\ OnlyFlight'
  BY <1>1 DEF QuotaInv, KeptIsNewer, OnlyFlight
<1>4. ASSUME NEW q \in Readers PROVE ReaderOK(q)'
  BY <1>1, Taken DEF QuotaInv, QuotaTypeOK, KeptIsNewer, ReaderOK, None
<1> QED
  BY <1>2, <1>3, <1>4 DEF QuotaInv

\* A flight takes off only where the one before could not be kept.
LEMMA TakeOffInv ==
    ASSUME QuotaInv, NEW r \in Readers, TakeOff(r)
    PROVE  QuotaInv'
<1>1. /\ Number /\ flight' = seq' /\ running' = running \cup {seq'}
      /\ joined' = [joined EXCEPT ![r] = seq'] /\ given' = [given EXCEPT ![r] = None]
      /\ since' = [since EXCEPT ![r] = invalidated]
      /\ reading[r] = None /\ ~(flight # None /\ flight > highWater)
      /\ UNCHANGED <<cache, expired, highWater, invalidated, reading>>
  BY DEF TakeOff, MayJoin, Give, Asks, Idle
<1>2. QuotaTypeOK'
  BY <1>1, MoreNumbers DEF QuotaInv, QuotaTypeOK, None
<1>3. KeptIsNewer'
  BY <1>1 DEF QuotaInv, KeptIsNewer
<1>4. OnlyFlight'
  <2>1. ASSUME NEW n \in running PROVE ~(n > highWater)
    BY <1>1, Taken DEF QuotaInv, QuotaTypeOK, OnlyFlight, None
  <2> QED
    BY <1>1, <2>1 DEF OnlyFlight
<1>5. ASSUME NEW q \in Readers PROVE ReaderOK(q)'
  <2>1. invalidated < seq'
    BY <1>1, MoreNumbers, Taken DEF QuotaInv
  <2> QED
    BY <1>1, <2>1, Taken DEF QuotaInv, QuotaTypeOK, ReaderOK, None
<1> QED
  BY <1>2, <1>3, <1>4, <1>5 DEF QuotaInv

\* A flight that lands cannot be kept any more.
LEMMA LandInv ==
    ASSUME QuotaInv, NEW n \in running, Land(n)
    PROVE  QuotaInv'
<1>1. /\ Keep(n) /\ running' = running \ {n}
      /\ flight' = IF flight = n THEN None ELSE flight
      /\ UNCHANGED <<seq, invalidated, joined, reading, given, since>>
  BY DEF Land, readerVars
<1>2. n \in 1..seq
  BY DEF QuotaInv, QuotaTypeOK
<1>3. /\ cache' \in 0..seq /\ highWater' \in 0..seq /\ expired' \in BOOLEAN
      /\ highWater <= highWater' /\ KeptIsNewer'
  BY <1>1, <1>2, KeepRaises
<1>4. QuotaTypeOK'
  BY <1>1, <1>3 DEF QuotaInv, QuotaTypeOK, None
<1>5. OnlyFlight'
  <2>1. ASSUME NEW m \in running, m # n, m > highWater' PROVE m = flight'
    <3>1. m > highWater
      BY <2>1, <1>3, Taken DEF QuotaInv, QuotaTypeOK
    <3> QED
      BY <3>1, <2>1, <1>1 DEF QuotaInv, OnlyFlight
  <2> QED
    BY <1>1, <2>1 DEF OnlyFlight
<1>6. \A q \in Readers : ReaderOK(q)'
  BY <1>1 DEF QuotaInv, ReaderOK
<1> QED
  BY <1>3, <1>4, <1>5, <1>6 DEF QuotaInv

\* Those who waited are given what is kept, or what they waited for.
LEMMA WakeInv ==
    ASSUME QuotaInv, NEW r \in Readers, Wake(r)
    PROVE  QuotaInv'
<1>1. /\ given' = [given EXCEPT ![r] = IF cache # None THEN cache ELSE joined[r]]
      /\ joined' = [joined EXCEPT ![r] = None] /\ joined[r] # None
      /\ UNCHANGED <<seq, cache, expired, highWater, flight, running, invalidated, reading, since>>
  BY DEF Wake, Give, cacheVars
<1>2. QuotaTypeOK'
  BY <1>1 DEF QuotaInv, QuotaTypeOK, None
<1>3. KeptIsNewer' /\ OnlyFlight'
  BY <1>1 DEF QuotaInv, KeptIsNewer, OnlyFlight
<1>4. ASSUME NEW q \in Readers PROVE ReaderOK(q)'
  BY <1>1, Taken DEF QuotaInv, QuotaTypeOK, KeptIsNewer, ReaderOK, None
<1> QED
  BY <1>2, <1>3, <1>4 DEF QuotaInv

\* A reader that is gone waits for nothing.
LEMMA StopWaitingInv ==
    ASSUME QuotaInv, NEW r \in Readers, StopWaiting(r)
    PROVE  QuotaInv'
<1>1. /\ joined' = [joined EXCEPT ![r] = None]
      /\ UNCHANGED <<cacheVars, reading, given, since>>
  BY DEF StopWaiting
<1>2. QuotaTypeOK'
  BY <1>1 DEF QuotaInv, QuotaTypeOK, None, cacheVars
<1>3. KeptIsNewer' /\ OnlyFlight'
  BY <1>1 DEF QuotaInv, KeptIsNewer, OnlyFlight, cacheVars
<1>4. ASSUME NEW q \in Readers PROVE ReaderOK(q)'
  BY <1>1 DEF QuotaInv, QuotaTypeOK, ReaderOK, None, cacheVars
<1> QED
  BY <1>2, <1>3, <1>4 DEF QuotaInv

\* A read of one's own takes a number newer than every invalidation.
LEMMA RefreshInv ==
    ASSUME QuotaInv, NEW r \in Readers, Refresh(r)
    PROVE  QuotaInv'
<1>1. /\ Number /\ reading' = [reading EXCEPT ![r] = seq']
      /\ given' = [given EXCEPT ![r] = None] /\ since' = [since EXCEPT ![r] = invalidated]
      /\ joined[r] = None
      /\ UNCHANGED <<cache, expired, highWater, flight, running, invalidated, joined>>
  BY DEF Refresh, BeginRead, Give, Asks, Idle
<1>2. QuotaTypeOK'
  BY <1>1, MoreNumbers DEF QuotaInv, QuotaTypeOK, None
<1>3. KeptIsNewer' /\ OnlyFlight'
  BY <1>1 DEF QuotaInv, KeptIsNewer, OnlyFlight
<1>4. ASSUME NEW q \in Readers PROVE ReaderOK(q)'
  <2>1. invalidated < seq'
    BY <1>1, MoreNumbers, Taken DEF QuotaInv
  <2> QED
    BY <1>1, <2>1, Taken DEF QuotaInv, QuotaTypeOK, ReaderOK, None
<1> QED
  BY <1>2, <1>3, <1>4 DEF QuotaInv

\* A read of one's own ends and may be kept.
LEMMA EndReadInv ==
    ASSUME QuotaInv, NEW c \in Readers \cup Claimers, EndRead(c),
           \/ c \in Readers /\ given' = [given EXCEPT ![c] = reading[c]]
           \/ UNCHANGED given
    PROVE  QuotaInv'
<1>1. /\ Keep(reading[c]) /\ reading[c] # None /\ reading' = [reading EXCEPT ![c] = None]
      /\ UNCHANGED <<seq, flight, running, invalidated, joined, since>>
  BY DEF EndRead
<1>2. reading[c] \in 1..seq
  BY <1>1 DEF QuotaInv, QuotaTypeOK, None
<1>3. /\ cache' \in 0..seq /\ highWater' \in 0..seq /\ expired' \in BOOLEAN
      /\ highWater <= highWater' /\ KeptIsNewer'
  BY <1>1, <1>2, KeepRaises
<1>4. QuotaTypeOK'
  BY <1>1, <1>2, <1>3 DEF QuotaInv, QuotaTypeOK, None
<1>5. OnlyFlight'
  BY <1>1, <1>3, Taken DEF QuotaInv, QuotaTypeOK, OnlyFlight
<1>6. ASSUME NEW q \in Readers PROVE ReaderOK(q)'
  BY <1>1, <1>2 DEF QuotaInv, QuotaTypeOK, ReaderOK, None
<1> QED
  BY <1>3, <1>4, <1>5, <1>6 DEF QuotaInv

\* A claim's read takes a number and concerns no reader.
LEMMA FreshBeginsInv ==
    ASSUME QuotaInv, NEW c \in Claimers, FreshBegins(c)
    PROVE  QuotaInv'
<1>1. /\ Number /\ reading' = [reading EXCEPT ![c] = seq']
      /\ UNCHANGED <<cache, expired, highWater, flight, running, invalidated, joined, given, since>>
  BY DEF FreshBegins, BeginRead
<1>2. QuotaTypeOK'
  BY <1>1, MoreNumbers DEF QuotaInv, QuotaTypeOK
<1>3. KeptIsNewer' /\ OnlyFlight'
  BY <1>1 DEF QuotaInv, KeptIsNewer, OnlyFlight
<1>4. ASSUME NEW q \in Readers PROVE ReaderOK(q)'
  BY <1>1, QuotaAssumption DEF QuotaInv, QuotaTypeOK, ReaderOK
<1> QED
  BY <1>2, <1>3, <1>4 DEF QuotaInv

\* A claim's read that fails is not kept.
LEMMA FreshFailsInv ==
    ASSUME QuotaInv, NEW c \in Claimers, FreshFails(c)
    PROVE  QuotaInv'
<1>1. /\ reading' = [reading EXCEPT ![c] = None]
      /\ UNCHANGED <<seq, cache, expired, highWater, flight, running, invalidated, joined, given, since>>
  BY DEF FreshFails, cacheVars
<1>2. QuotaTypeOK'
  BY <1>1 DEF QuotaInv, QuotaTypeOK, None
<1>3. KeptIsNewer' /\ OnlyFlight'
  BY <1>1 DEF QuotaInv, KeptIsNewer, OnlyFlight
<1>4. ASSUME NEW q \in Readers PROVE ReaderOK(q)'
  BY <1>1, QuotaAssumption DEF QuotaInv, QuotaTypeOK, ReaderOK
<1> QED
  BY <1>2, <1>3, <1>4 DEF QuotaInv

\* What began before an invalidation is not kept after it.
LEMMA InvalidateInv ==
    ASSUME QuotaInv, Invalidate
    PROVE  QuotaInv'
<1>1. /\ Number /\ cache' = None /\ expired' = FALSE
      /\ highWater' = seq' /\ invalidated' = seq'
      /\ UNCHANGED <<flight, running, joined, reading, given, since>>
  BY DEF Invalidate, readerVars
<1>2. QuotaTypeOK'
  <2>1. expired' \in BOOLEAN
    BY <1>1, Zenon
  <2> QED
    BY <1>1, <2>1, MoreNumbers DEF QuotaInv, QuotaTypeOK, None
<1>3. KeptIsNewer'
  BY <1>1, MoreNumbers DEF QuotaInv, KeptIsNewer
<1>4. OnlyFlight'
  BY <1>1, MoreNumbers DEF QuotaInv, QuotaTypeOK, OnlyFlight
<1>5. ASSUME NEW q \in Readers PROVE ReaderOK(q)'
  BY <1>1, MoreNumbers, Taken DEF QuotaInv, ReaderOK
<1> QED
  BY <1>2, <1>3, <1>4, <1>5 DEF QuotaInv

\* Growing old changes no number.
LEMMA ExpireInv ==
    ASSUME QuotaInv, GrowOld
    PROVE  QuotaInv'
  BY DEF QuotaInv, GrowOld, readerVars, QuotaTypeOK, KeptIsNewer, OnlyFlight, ReaderOK

\* A restart begins again.
LEMMA ForgetInv == Forget => QuotaInv'
<1>1. QuotaInit' => QuotaInv'
  BY QuotaStarts, PTL
<1> QED
  BY <1>1 DEF Forget, QuotaInit

-----------------------------------------------------------------------------
\* Every step of quota.go keeps the invariant; the modules that add to it use
\* this lemma for their own steps.
LEMMA QuotaStepInv ==
    ASSUME QuotaInv, QuotaStep \/ UNCHANGED quotaVars
    PROVE  QuotaInv'
<1>1. ASSUME NEW r \in Readers, Ask(r) PROVE QuotaInv'
  BY <1>1, AnswerFromCacheInv, JoinInv, TakeOffInv, RefreshInv DEF Ask
<1>2. ASSUME NEW r \in Readers, Wake(r) \/ StopWaiting(r) PROVE QuotaInv'
  BY <1>2, WakeInv, StopWaitingInv
<1>3. ASSUME NEW r \in Readers, Refreshed(r) PROVE QuotaInv'
  BY <1>3, EndReadInv DEF Refreshed, Give
<1>4. ASSUME NEW n \in running, Land(n) PROVE QuotaInv'
  BY <1>4, LandInv
<1>5. ASSUME NEW c \in Claimers, FreshBegins(c) \/ FreshFails(c) PROVE QuotaInv'
  BY <1>5, FreshBeginsInv, FreshFailsInv
<1>6. ASSUME NEW c \in Claimers, FreshEnds(c) PROVE QuotaInv'
  BY <1>6, EndReadInv DEF FreshEnds
<1>7. CASE GrowOld \/ Invalidate \/ Forget
  BY <1>7, ExpireInv, InvalidateInv, ForgetInv
<1>8. CASE UNCHANGED quotaVars
  BY <1>8 DEF quotaVars, cacheVars, readerVars, QuotaInv, QuotaTypeOK, KeptIsNewer, OnlyFlight,
              ReaderOK
<1> QED
  BY <1>1, <1>2, <1>3, <1>4, <1>5, <1>6, <1>7, <1>8 DEF QuotaStep

\* The invariant says what the runs check.
LEMMA QuotaInvShows ==
    QuotaInv => QuotaTypeOK /\ FreshAfterClaim /\ SingleFlight
<1> SUFFICES ASSUME QuotaInv PROVE QuotaTypeOK /\ FreshAfterClaim /\ SingleFlight
  OBVIOUS
<1>1. FreshAfterClaim
  BY Taken DEF QuotaInv, ReaderOK, FreshAfterClaim
<1>2. SingleFlight
  BY DEF QuotaInv, OnlyFlight, SingleFlight
<1> QED
  BY <1>1, <1>2 DEF QuotaInv

\* The invariant holds throughout.
LEMMA QuotaInvHolds == QuotaSpec => []QuotaInv
<1>1. QuotaInv /\ [QuotaNext]_quotaVars => QuotaInv'
  BY QuotaStepInv DEF QuotaNext, ReadOn, QuotaStep
<1> QED
  BY QuotaStarts, <1>1, PTL DEF QuotaSpec

\* Every variable of the cache keeps its type, for any readers and claims.
THEOREM QuotaTypes == QuotaSpec => []QuotaTypeOK
  BY QuotaInvHolds, QuotaInvShows, PTL

\* Whoever asks after an invalidation is given a read that began after it.
THEOREM ClaimsAreSeen == QuotaSpec => []FreshAfterClaim
  BY QuotaInvHolds, QuotaInvShows, PTL

\* Two flights whose answers could both be kept are never under way.
THEOREM OneFlight == QuotaSpec => []SingleFlight
  BY QuotaInvHolds, QuotaInvShows, PTL

-----------------------------------------------------------------------------
(* Claims. *)

RowTypes   == [there : BOOLEAN, left : 0..MaxLeft, usable : BOOLEAN, next : BOOLEAN]
DoubtTypes == [click : Clicks \cup {NoClick}, left : 0..MaxLeft, old : BOOLEAN]
HoldTypes  == [left : 0..MaxLeft, old : BOOLEAN]
Places     == {"idle", "begun", "reading", "decide", "sent", "answered", "reset", "rereading"}

ProviderTypes ==
    /\ kind \in Kinds /\ left \in 0..MaxLeft /\ shown \in 0..MaxLeft
    /\ late \subseteq Clicks /\ taken \subseteq Clicks /\ IsFiniteSet(taken)

ClaimTypes ==
    /\ at \in [Claimers -> Places]
    /\ post \in [Claimers -> Clicks \cup {NoClick}]
    /\ doubted \in [Claimers -> 0..MaxLeft]
    /\ row \in [Claimers -> RowTypes]
    /\ answer \in [Claimers -> Finals \cup {"none", "unknown", "failed"}]

TableTypes ==
    /\ unknown \in DoubtTypes /\ hold \in HoldTypes /\ done \subseteq Clicks
    /\ told \subseteq Clicks /\ confirmed \subseteq taken

\* One claim at a time.
OneClaim == \A t, u \in Claimers : at[t] # "idle" /\ at[u] # "idle" => t = u

\* Until its answer is recorded.
Undecided == {"begun", "reading", "decide", "sent", "answered"}

\* A claim under way is of a click that is not decided, and of the one in doubt if one is.
ClaimOK(t) ==
    /\ at[t] # "idle" => post[t] \in Clicks
    /\ at[t] \in Undecided => post[t] \notin done
    /\ at[t] \in Undecided /\ unknown # NoDoubt => unknown.click = post[t]
    /\ row[t].usable => row[t].left > 0
    /\ at[t] \in {"sent", "answered"} => row[t].left > 0
    /\ at[t] = "answered" => answer[t] # "none"
    /\ at[t] = "answered" /\ answer[t] = "reset" => post[t] \in taken

\* What the provider took or may take was decided, is in doubt, or is about to be either.
Recorded(t, q) == at[t] = "answered" /\ answer[t] # "failed" /\ post[t] = q

Known ==
    \A q \in taken \cup late :
        \/ q \in told
        \/ unknown # NoDoubt /\ unknown.click = q
        \/ \E t \in Claimers : Recorded(t, q)

\* The resets the account had at first.
Granted == left + Cardinality(taken)

\* The provider never shows less than is left, nor more than there was.
ShownOK == left <= shown /\ shown <= Granted

Released == hold = NoHold \/ hold.old

\* A count on which a claim may be sent has no confirmed reset in it.
HoldOK ==
    /\ Released => shown + Cardinality(confirmed) <= Granted
    /\ hold.left + Cardinality(confirmed) <= Granted + 1

CountOK(t) ==
    /\ at[t] = "decide" => shown <= row[t].left
    /\ at[t] = "decide" /\ Released => row[t].left + Cardinality(confirmed) <= Granted
    /\ at[t] \in {"sent", "answered"} => row[t].left + Cardinality(confirmed) <= Granted

ClaimsInv ==
    /\ ProviderTypes /\ ClaimTypes /\ TableTypes
    /\ OneClaim /\ (\A t \in Claimers : ClaimOK(t))
    /\ DoubtCanBeSettled /\ Known
    /\ ShownOK
    /\ kind # "weekly" => HoldOK /\ \A t \in Claimers : CountOK(t)

ResetInv == QuotaInv /\ ClaimsInv

\* A claim under way is the only one.
Mine(t) == \A u \in Claimers : u # t => at[u] = "idle"
Still(t) == \A u \in Claimers : u # t => at'[u] = "idle" /\ row'[u] = row[u]

LEMMA ItIsMine ==
    ASSUME ClaimsInv, NEW t \in Claimers, at[t] # "idle"
    PROVE  Mine(t)
  BY DEF ClaimsInv, OneClaim, Mine

LEMMA MineKeeps ==
    ASSUME ClaimsInv, NEW t \in Claimers, Still(t),
           ProviderTypes', ClaimTypes', TableTypes', kind' = kind,
           ClaimOK(t)', DoubtCanBeSettled', Known', ShownOK',
           kind # "weekly" => HoldOK' /\ CountOK(t)'
    PROVE  ClaimsInv'
  <1>1. OneClaim'
    <2>1. \A u \in Claimers : u # t => at'[u] = "idle"  BY DEF Still
    <2> QED BY <2>1 DEF OneClaim
  <1>2. ASSUME NEW u \in Claimers, u # t PROVE ClaimOK(u)' /\ CountOK(u)'
    <2>1. at'[u] = "idle" /\ row'[u] = row[u]  BY <1>2 DEF Still
    <2>2. ClaimOK(u)  BY DEF ClaimsInv
    <2>3. ClaimOK(u)'  BY <2>1, <2>2 DEF ClaimOK, Undecided
    <2>4. CountOK(u)'  BY <2>1 DEF CountOK
    <2> QED BY <2>3, <2>4
  <1>3. \A u \in Claimers : ClaimOK(u)'  BY <1>2
  <1>4. kind' # "weekly" => HoldOK' /\ \A u \in Claimers : CountOK(u)'  BY <1>2
  <1> QED BY <1>1, <1>3, <1>4 DEF ClaimsInv

LEMMA NoHoldTyped == NoHold \in HoldTypes /\ NoDoubt \in DoubtTypes /\ Missing \in RowTypes
  <1>1. 0 \in 0..MaxLeft  BY ResetAssumption
  <1> QED BY <1>1 DEF NoHold, HoldTypes, NoDoubt, DoubtTypes, NoClick, Missing, RowTypes

\* Everything counted is a number.
LEMMA Numbers ==
    ASSUME ClaimsInv
    PROVE  /\ left \in Nat /\ shown \in Nat /\ hold.left \in Nat
           /\ IsFiniteSet(taken) /\ IsFiniteSet(confirmed)
           /\ Cardinality(taken) \in Nat /\ Cardinality(confirmed) \in Nat
           /\ Cardinality(confirmed) <= Cardinality(taken)
           /\ \A t \in Claimers : row[t].left \in Nat
  <1>1. IsFiniteSet(confirmed) /\ IsFiniteSet(taken) /\ Cardinality(confirmed) <= Cardinality(taken)
      BY FS_Subset DEF ClaimsInv, ProviderTypes, TableTypes
  <1>2. \A t \in Claimers : row[t] \in RowTypes  BY DEF ClaimsInv, ClaimTypes
  <1> QED BY <1>1, <1>2, FS_CardinalityType, ResetAssumption
          DEF ClaimsInv, ProviderTypes, TableTypes, HoldTypes, RowTypes

\* What End leaves behind.
LEMMA EndTyped ==
    ASSUME ClaimTypes, NEW t \in Claimers, Mine(t), End(t)
    PROVE  /\ ClaimTypes' /\ Still(t)
           /\ at'[t] = "idle" /\ row'[t] = Missing
           /\ ~row'[t].usable
           /\ \A q : \A u \in Claimers : ~Recorded(u, q)'
  <1>1. at' = [at EXCEPT ![t] = "idle"] /\ at \in [Claimers -> Places]
      BY DEF End, Goto, ClaimTypes
  <1>2. PICK m : m = Missing  OBVIOUS
  <1>3. m \in RowTypes /\ m.usable = FALSE  BY <1>2, NoHoldTyped DEF Missing
  <1>4. row' = [row EXCEPT ![t] = m] /\ row \in [Claimers -> RowTypes]
      BY <1>2 DEF End, ClaimTypes
  <1>5. row' \in [Claimers -> RowTypes] /\ row'[t] = m
        /\ \A u \in Claimers : u # t => row'[u] = row[u]
      BY <1>3, <1>4
  <1>6. at' \in [Claimers -> Places] /\ \A u \in Claimers : at'[u] = "idle"
      BY <1>1 DEF Places, Mine
  <1>7. post' \in [Claimers -> Clicks \cup {NoClick}]  BY DEF End, ClaimTypes
  <1>8. doubted' \in [Claimers -> 0..MaxLeft]
    <2>1. 0 \in 0..MaxLeft  BY ResetAssumption
    <2> QED BY <2>1 DEF End, ClaimTypes
  <1>9. answer' \in [Claimers -> Finals \cup {"none", "unknown", "failed"}]
      BY DEF End, ClaimTypes
  <1>10. ClaimTypes'  BY <1>5, <1>6, <1>7, <1>8, <1>9 DEF ClaimTypes
  <1>11. Still(t)  BY <1>5, <1>6 DEF Still
  <1>12. \A q : \A u \in Claimers : ~Recorded(u, q)'  BY <1>6 DEF Recorded
  <1> QED BY <1>2, <1>3, <1>5, <1>6, <1>10, <1>11, <1>12

\* A claim ends: what it leaves in the tables is all there is to see to.
LEMMA EndKeeps ==
    ASSUME ClaimsInv, NEW t \in Claimers, at[t] # "idle", End(t), UNCHANGED provider,
           TableTypes', DoubtCanBeSettled', Known',
           kind # "weekly" => HoldOK'
    PROVE  ClaimsInv'
  <1>1. Mine(t)  BY ItIsMine
  <1>2. /\ ClaimTypes' /\ Still(t) /\ at'[t] = "idle" /\ ~row'[t].usable
      BY <1>1, EndTyped DEF ClaimsInv
  <1>3. ProviderTypes' /\ ShownOK' /\ kind' = kind
      BY DEF provider, ProviderTypes, ShownOK, Granted, ClaimsInv
  <1>4. ClaimOK(t)' /\ CountOK(t)'  BY <1>2 DEF ClaimOK, CountOK, Undecided
  <1> QED BY <1>2, <1>3, <1>4, MineKeeps

\* What is known of a claim whose answer is not in hand is in the tables.
InTables(q) == q \in told \/ (unknown # NoDoubt /\ unknown.click = q)

LEMMA TablesKnow ==
    ASSUME ClaimsInv, NEW t \in Claimers, at[t] \notin {"idle", "answered"}
    PROVE  \A q \in taken \cup late : InTables(q)
  <1>1. Mine(t)  BY ItIsMine
  <1>2. \A q : \A u \in Claimers : ~Recorded(u, q)  BY <1>1 DEF Recorded, Mine
  <1> QED BY <1>2 DEF ClaimsInv, Known, InTables

\* Steps that end a claim and leave the tables as they are, but for a hold let go.
LEMMA LeaveKeeps ==
    ASSUME ClaimsInv, NEW t \in Claimers, at[t] \notin {"idle", "answered"}, End(t),
           UNCHANGED <<provider, unknown, done, histories>>,
           \/ hold' = hold
           \/ hold' = NoHold /\ (kind # "weekly" => shown + Cardinality(confirmed) <= Granted)
    PROVE  ClaimsInv'
  <1>1. Known'
    <2>1. \A q \in taken \cup late : InTables(q)  BY TablesKnow
    <2> QED BY <2>1 DEF InTables, Known, provider, histories
  <1>2. TableTypes' /\ DoubtCanBeSettled'
    <2>1. hold' \in HoldTypes
      <3>1. hold \in HoldTypes /\ NoHold \in HoldTypes
          BY NoHoldTyped DEF ClaimsInv, TableTypes
      <3> QED BY <3>1
    <2> QED BY <2>1 DEF ClaimsInv, TableTypes, DoubtCanBeSettled, provider, histories
  <1>3. ASSUME kind # "weekly" PROVE HoldOK'
    <2>1. HoldOK  BY <1>3 DEF ClaimsInv
    <2>2. UNCHANGED <<shown, left, taken, confirmed>>  BY DEF provider, histories
    <2>3. CASE hold' = hold  BY <2>1, <2>2, <2>3 DEF HoldOK, Released, Granted
    <2>4. CASE hold' = NoHold /\ shown + Cardinality(confirmed) <= Granted
      <3>1. shown \in Nat /\ left \in Nat /\ Cardinality(taken) \in Nat /\ Cardinality(confirmed) \in Nat
          BY Numbers
      <3>2. hold'.left = 0  BY <2>4 DEF NoHold
      <3> QED BY <2>2, <2>4, <3>1, <3>2 DEF HoldOK, Released, Granted
    <2> QED BY <1>3, <2>3, <2>4
  <1> QED BY <1>1, <1>2, <1>3, EndKeeps

LEMMA GotoTyped ==
    ASSUME ClaimTypes, NEW t \in Claimers, NEW w \in Places, Goto(t, w)
    PROVE  /\ at' \in [Claimers -> Places] /\ at'[t] = w
           /\ \A u \in Claimers : u # t => at'[u] = at[u]
  BY DEF ClaimTypes, Goto

\* A claim goes a step on, having told the tables nothing.
LEMMA GoesOn ==
    ASSUME ClaimsInv, NEW t \in Claimers, at[t] \notin {"idle", "answered"}, NEW w \in Places,
           Goto(t, w), UNCHANGED <<provider, post, unknown, done, histories>>,
           ClaimTypes', TableTypes', \A u \in Claimers : u # t => row'[u] = row[u],
           ClaimOK(t)', kind # "weekly" => HoldOK' /\ CountOK(t)'
    PROVE  ClaimsInv'
  <1>1. Mine(t)  BY ItIsMine
  <1>2. Still(t)  BY <1>1, GotoTyped DEF ClaimsInv, Still, Mine
  <1>3. Known'
    <2>1. \A q \in taken \cup late : InTables(q)  BY TablesKnow
    <2> QED BY <2>1 DEF InTables, Known, provider, histories
  <1>4. ProviderTypes' /\ ShownOK' /\ kind' = kind
      BY DEF provider, ProviderTypes, ShownOK, Granted, ClaimsInv
  <1>5. DoubtCanBeSettled'  BY DEF ClaimsInv, DoubtCanBeSettled
  <1> QED BY <1>2, <1>3, <1>4, <1>5, MineKeeps

LEMMA BeginKeeps ==
    ASSUME ClaimsInv, NEW t \in Claimers, NEW q \in Clicks, Begin(t, q)
    PROVE  ClaimsInv'
  <1>1. \A u \in Claimers : at[u] = "idle"  BY DEF Begin, Locked
  <1>2. /\ at' \in [Claimers -> Places] /\ at'[t] = "begun"
        /\ \A u \in Claimers : u # t => at'[u] = "idle"
      BY <1>1, GotoTyped DEF Begin, ClaimsInv, Places
  <1>3. UNCHANGED <<kind, left, shown, late, taken, row, answer, unknown, hold, done, told, confirmed>>
      BY DEF Begin, provider, tables, histories
  <1>4. post' \in [Claimers -> Clicks \cup {NoClick}] /\ post'[t] = q
      BY DEF Begin, ClaimsInv, ClaimTypes
  <1>5. doubted' \in [Claimers -> 0..MaxLeft]
    <2>1. unknown.left \in 0..MaxLeft  BY DEF ClaimsInv, TableTypes, DoubtTypes
    <2> QED BY <2>1 DEF Begin, ClaimsInv, ClaimTypes
  <1>6. ClaimTypes'  BY <1>2, <1>3, <1>4, <1>5 DEF ClaimsInv, ClaimTypes
  <1>7. ProviderTypes' /\ TableTypes' /\ DoubtCanBeSettled' /\ ShownOK' /\ kind' = kind
      BY <1>3 DEF ClaimsInv, ProviderTypes, TableTypes, DoubtCanBeSettled, ShownOK, Granted
  <1>8. Known'
    <2>1. \A p \in taken \cup late : InTables(p)
        BY <1>1 DEF ClaimsInv, Known, InTables, Recorded
    <2> QED BY <1>3, <2>1 DEF InTables, Known
  <1>9. ClaimOK(t)'
    <2>1. row[t].usable => row[t].left > 0  BY DEF ClaimsInv, ClaimOK
    <2> QED BY <1>2, <1>3, <1>4, <2>1 DEF ClaimOK, Begin, MayClaim, NoDoubt
  <1>10. kind # "weekly" => HoldOK' /\ CountOK(t)'
      BY <1>2, <1>3 DEF ClaimsInv, HoldOK, Released, Granted, CountOK
  <1>11. Still(t)  BY <1>2, <1>3 DEF Still
  <1> QED BY <1>6, <1>7, <1>8, <1>9, <1>10, <1>11, MineKeeps

LEMMA ReadRowKeeps ==
    ASSUME ClaimsInv, NEW t \in Claimers, ReadRow(t)
    PROVE  ClaimsInv'
  <1>1. /\ at[t] = "begun" /\ Goto(t, "reading")
        /\ UNCHANGED <<provider, post, doubted, row, answer, unknown, hold, done, histories>>
      BY DEF ReadRow, tables
  <1>2. "reading" \in Places  BY DEF Places
  <1>3. at' \in [Claimers -> Places] /\ at'[t] = "reading"
      BY <1>1, <1>2, GotoTyped DEF ClaimsInv
  <1>4. ClaimTypes' /\ TableTypes'
      BY <1>1, <1>3 DEF ClaimsInv, ClaimTypes, TableTypes, provider, histories
  <1>5. ClaimOK(t)'
    <2>1. ClaimOK(t)  BY DEF ClaimsInv
    <2> QED BY <1>1, <1>3, <2>1 DEF ClaimOK, Undecided
  <1>6. kind # "weekly" => HoldOK' /\ CountOK(t)'
      BY <1>1, <1>3 DEF ClaimsInv, HoldOK, Released, Granted, CountOK, provider, histories
  <1> QED BY <1>1, <1>2, <1>4, <1>5, <1>6, GoesOn

LEMMA ReadAgainKeeps ==
    ASSUME ClaimsInv, NEW t \in Claimers, ReadAgain(t)
    PROVE  ClaimsInv'
  <1>1. /\ at[t] = "reset" /\ Goto(t, "rereading")
        /\ UNCHANGED <<provider, post, doubted, row, answer, unknown, hold, done, histories>>
      BY DEF ReadAgain, tables
  <1>2. "rereading" \in Places  BY DEF Places
  <1>3. at' \in [Claimers -> Places] /\ at'[t] = "rereading"
      BY <1>1, <1>2, GotoTyped DEF ClaimsInv
  <1>4. ClaimTypes' /\ TableTypes'
      BY <1>1, <1>3 DEF ClaimsInv, ClaimTypes, TableTypes, provider, histories
  <1>5. ClaimOK(t)'
    <2>1. ClaimOK(t)  BY DEF ClaimsInv
    <2> QED BY <1>1, <1>3, <2>1 DEF ClaimOK, Undecided
  <1>6. kind # "weekly" => HoldOK' /\ CountOK(t)'
      BY <1>1, <1>3 DEF ClaimsInv, HoldOK, Released, Granted, CountOK, provider, histories
  <1> QED BY <1>1, <1>2, <1>4, <1>5, <1>6, GoesOn

\* What a row says: a reset that may be claimed is left, and but for a weekly one the
\* count is what the provider shows.
LEMMA RowsSay ==
    ASSUME ClaimsInv, NEW seen \in Rows
    PROVE  /\ seen \in RowTypes
           /\ seen.usable => seen.left > 0
           /\ kind # "weekly" => seen.left = shown
  <1>1. shown \in 0..MaxLeft /\ shown \in Nat /\ kind \in Kinds  BY Numbers DEF ClaimsInv, ProviderTypes
  <1>2. \A u \in BOOLEAN : Counted(u) \in RowTypes /\ Counted(u).left = shown /\ Counted(u).usable = u
      BY <1>1 DEF Counted, RowTypes
  <1>3. \A s \in Gone : s \in RowTypes /\ s.usable = FALSE /\ s.left = shown
    <2> SUFFICES ASSUME NEW s \in Gone PROVE s \in RowTypes /\ s.usable = FALSE /\ s.left = shown
        OBVIOUS
    <2>1. s = Missing /\ shown = 0  BY DEF Gone
    <2>2. Missing.usable = FALSE /\ Missing.left = 0  BY DEF Missing
    <2> QED BY <2>1, <2>2, NoHoldTyped
  <1>4. CASE kind = "weekly"
    <2>1. seen \in WeeklyRows  BY <1>4 DEF Rows
    <2>2. CASE seen = [there |-> TRUE, left |-> shown, usable |-> shown = 1, next |-> shown = 0]
      <3>1. (shown = 1) \in BOOLEAN /\ (shown = 0) \in BOOLEAN  OBVIOUS
      <3>2. seen \in RowTypes  BY <1>1, <2>2, <3>1 DEF RowTypes
      <3>3. seen.usable => seen.left > 0
        <4>1. PICK u \in BOOLEAN : u <=> shown = 1  OBVIOUS
        <4>2. u = (shown = 1)  BY <4>1
        <4>3. seen.usable = u /\ seen.left = shown  BY <2>2, <4>2
        <4> QED BY <4>1, <4>3
      <3> QED BY <1>4, <3>2, <3>3
    <2>3. CASE seen = [there |-> TRUE, left |-> 0, usable |-> FALSE, next |-> shown = 0]
      <3>1. (shown = 0) \in BOOLEAN /\ 0 \in 0..MaxLeft  BY ResetAssumption
      <3>2. seen \in RowTypes  BY <2>3, <3>1 DEF RowTypes
      <3>3. ~seen.usable  BY <2>3
      <3> QED BY <1>4, <3>2, <3>3
    <2> QED BY <2>1, <2>2, <2>3 DEF WeeklyRows
  <1>5. CASE kind = "grant"
    <2>1. seen = Counted(FALSE) \/ seen = Counted(shown > 0) \/ seen \in Gone
        BY <1>5 DEF Rows, GrantRows
    <2>2. (shown > 0) \in BOOLEAN  OBVIOUS
    <2> QED BY <1>1, <1>2, <1>3, <2>1, <2>2
  <1>6. CASE kind = "credit"
    <2>1. seen = Counted(shown > 0) \/ seen \in Gone
        BY <1>6 DEF Rows, CreditRows
    <2>2. (shown > 0) \in BOOLEAN  OBVIOUS
    <2> QED BY <1>1, <1>2, <1>3, <2>1, <2>2
  <1> QED BY <1>1, <1>4, <1>5, <1>6 DEF Kinds

LEMMA SeeRowKeeps ==
    ASSUME ClaimsInv, NEW t \in Claimers, SeeRow(t)
    PROVE  ClaimsInv'
  <1>1. /\ at[t] = "reading" /\ Goto(t, "decide")
        /\ UNCHANGED <<provider, post, doubted, answer, unknown, hold, done, histories>>
      BY DEF SeeRow, tables
  <1>0. PICK seen \in Rows : row' = [row EXCEPT ![t] = seen]  BY DEF SeeRow
  <1>2. "decide" \in Places  BY DEF Places
  <1>3. at' \in [Claimers -> Places] /\ at'[t] = "decide"
      BY <1>1, <1>2, GotoTyped DEF ClaimsInv
  <1>r. seen \in RowTypes /\ (seen.usable => seen.left > 0) /\ (kind # "weekly" => seen.left = shown)
      BY RowsSay
  <1>s. /\ row' \in [Claimers -> RowTypes] /\ row'[t] = seen
        /\ \A u \in Claimers : u # t => row'[u] = row[u]
      BY <1>0, <1>r DEF ClaimsInv, ClaimTypes
  <1>4. ClaimTypes' /\ TableTypes'
      BY <1>1, <1>3, <1>s DEF ClaimsInv, ClaimTypes, TableTypes, provider, histories
  <1>5. ClaimOK(t)'
    <2>1. ClaimOK(t)  BY DEF ClaimsInv
    <2> QED BY <1>1, <1>3, <1>r, <1>s, <2>1 DEF ClaimOK, Undecided
  <1>6. ASSUME kind # "weekly" PROVE HoldOK' /\ CountOK(t)'
    <2>1. HoldOK'
        BY <1>1, <1>6 DEF ClaimsInv, HoldOK, Released, Granted, provider, histories
    <2>2. UNCHANGED <<left, shown, taken, confirmed, hold>>  BY <1>1 DEF provider, histories
    <2>3. row'[t].left = shown  BY <1>6, <1>r, <1>s
    <2> QED BY <1>3, <2>1, <2>2, <2>3, Numbers DEF HoldOK, CountOK, Released, Granted
  <1> QED BY <1>1, <1>2, <1>4, <1>5, <1>6, <1>s, GoesOn

\* A count that is no longer held has no confirmed reset in it.
LEMMA NotHeldCounts ==
    ASSUME ClaimsInv, NEW t \in Claimers, at[t] = "decide", ~Held(t), kind # "weekly"
    PROVE  /\ row[t].left + Cardinality(confirmed) <= Granted
           /\ shown + Cardinality(confirmed) <= Granted
  <1>1. CountOK(t) /\ HoldOK  BY DEF ClaimsInv
  <1>2. CASE Released  BY <1>1, <1>2 DEF CountOK, HoldOK
  <1>3. CASE ~Released
    <2>1. row[t].left < hold.left  BY <1>3 DEF Held, Released
    <2>2. hold.left + Cardinality(confirmed) <= Granted + 1 /\ shown <= row[t].left
        BY <1>1 DEF CountOK, HoldOK
    <2>3. Granted \in Nat  BY Numbers DEF Granted
    <2>4. row[t].left \in Nat  BY Numbers
    <2> QED BY <2>1, <2>2, <2>3, <2>4, Numbers
  <1> QED BY <1>2, <1>3

LEMMA SendKeeps ==
    ASSUME ClaimsInv, NEW t \in Claimers, Send(t)
    PROVE  ClaimsInv'
  <1>1. /\ at[t] = "decide" /\ Goto(t, "sent") /\ ~Held(t) /\ row[t].usable
        /\ hold' = NoHold
        /\ UNCHANGED <<provider, post, doubted, row, answer, unknown, done, histories>>
      BY DEF Send
  <1>2. "sent" \in Places  BY DEF Places
  <1>3. at' \in [Claimers -> Places] /\ at'[t] = "sent"
      BY <1>1, <1>2, GotoTyped DEF ClaimsInv
  <1>4. ClaimTypes' /\ TableTypes'
      BY <1>1, <1>3, NoHoldTyped DEF ClaimsInv, ClaimTypes, TableTypes, provider, histories
  <1>5. ClaimOK(t)'
    <2>1. ClaimOK(t)  BY DEF ClaimsInv
    <2> QED BY <1>1, <1>3, <2>1 DEF ClaimOK, Undecided
  <1>6. ASSUME kind # "weekly" PROVE HoldOK' /\ CountOK(t)'
    <2>1. UNCHANGED <<left, shown, taken, confirmed, row>>  BY <1>1 DEF provider, histories
    <2>2. /\ row[t].left + Cardinality(confirmed) <= Granted
          /\ shown + Cardinality(confirmed) <= Granted
        BY <1>1, <1>6, NotHeldCounts
    <2>3. hold'.left = 0  BY <1>1 DEF NoHold
    <2> QED BY <1>3, <2>1, <2>2, <2>3, Numbers DEF HoldOK, CountOK, Released, Granted
  <1> QED BY <1>1, <1>2, <1>4, <1>5, <1>6, GoesOn

LEMMA LeavesKeep ==
    ASSUME ClaimsInv, NEW t \in Claimers,
           CannotRead(t) \/ Decline(t) \/ GiveUp(t) \/ Finish(t)
    PROVE  ClaimsInv'
  <1>1. at[t] \notin {"idle", "answered"}
      BY DEF CannotRead, Decline, GiveUp, Finish
  <1>2. End(t) /\ UNCHANGED <<provider, unknown, done, histories>>
      BY DEF CannotRead, Decline, GiveUp, Finish, tables
  <1>3. \/ hold' = hold
        \/ hold' = NoHold /\ (kind # "weekly" => shown + Cardinality(confirmed) <= Granted)
      BY NotHeldCounts DEF CannotRead, Decline, GiveUp, Finish, tables
  <1> QED BY <1>1, <1>2, <1>3, LeaveKeeps

LEMMA SettleDoubtKeeps ==
    ASSUME ClaimsInv, NEW t \in Claimers, SettleDoubt(t)
    PROVE  ClaimsInv'
  <1>1. /\ at[t] = "decide" /\ End(t)
        /\ done' = done \cup {post[t]} /\ told' = told \cup {post[t]} /\ unknown' = NoDoubt
        /\ UNCHANGED <<provider, hold, confirmed>>
      BY DEF SettleDoubt, Decided
  <1>2. post[t] \in Clicks /\ (unknown # NoDoubt => unknown.click = post[t])
      BY <1>1 DEF ClaimsInv, ClaimOK, Undecided
  <1>3. TableTypes'
      BY <1>1, <1>2, NoHoldTyped DEF ClaimsInv, TableTypes, provider
  <1>4. DoubtCanBeSettled'  BY <1>1 DEF DoubtCanBeSettled
  <1>5. Known'
    <2>1. \A q \in taken \cup late : InTables(q)  BY <1>1, TablesKnow
    <2> QED BY <1>1, <1>2, <2>1 DEF InTables, Known, provider
  <1>6. kind # "weekly" => HoldOK'
      BY <1>1 DEF ClaimsInv, HoldOK, Released, Granted, provider
  <1> QED BY <1>1, <1>3, <1>4, <1>5, <1>6, EndKeeps

Answers == Finals \cup {"unknown", "failed"}

\* An answer comes, or none: what the provider took by then is of this claim.
LEMMA AnswerKeeps ==
    ASSUME ClaimsInv, NEW t \in Claimers, at[t] = "sent", NEW a \in Answers, Answered(t, a),
           ProviderTypes', kind' = kind, taken \subseteq taken', ShownOK',
           shown' = shown, Granted' = Granted,
           a = "reset" => post[t] \in taken',
           \A q \in taken' \cup late' : q \in taken \cup late \/ (q = post[t] /\ a # "failed")
    PROVE  ClaimsInv'
  <1>1. Mine(t)  BY ItIsMine
  <1>2. "answered" \in Places /\ Goto(t, "answered")  BY DEF Places, Answered
  <1>3. /\ at' \in [Claimers -> Places] /\ at'[t] = "answered"
        /\ \A u \in Claimers : u # t => at'[u] = at[u]
      BY <1>2, GotoTyped DEF ClaimsInv
  <1>4. /\ answer' \in [Claimers -> Finals \cup {"none", "unknown", "failed"}] /\ answer'[t] = a
      BY DEF Answered, Answers, ClaimsInv, ClaimTypes
  <1>5. UNCHANGED <<post, doubted, row, unknown, hold, done, told, confirmed>>
      BY DEF Answered, tables, histories
  <1>6. ClaimTypes' /\ TableTypes'
      BY <1>3, <1>4, <1>5 DEF ClaimsInv, ClaimTypes, TableTypes
  <1>7. Still(t)  BY <1>1, <1>3, <1>5 DEF Still, Mine
  <1>8. ClaimOK(t)'
    <2>1. ClaimOK(t)  BY DEF ClaimsInv
    <2>2. a # "none"  BY DEF Answers, Finals
    <2> QED BY <1>3, <1>4, <1>5, <2>1, <2>2 DEF ClaimOK, Undecided
  <1>9. DoubtCanBeSettled'  BY <1>5 DEF ClaimsInv, DoubtCanBeSettled
  <1>10. Known'
    <2> SUFFICES ASSUME NEW q \in taken' \cup late'
                 PROVE  \/ q \in told' \/ (unknown' # NoDoubt /\ unknown'.click = q)
                        \/ \E u \in Claimers : Recorded(u, q)'
        BY DEF Known
    <2>1. CASE q \in taken \cup late
      <3>1. InTables(q)  BY <2>1, TablesKnow
      <3> QED BY <1>5, <3>1 DEF InTables
    <2>2. CASE q = post[t] /\ a # "failed"
        BY <1>3, <1>4, <1>5, <2>2 DEF Recorded
    <2> QED BY <2>1, <2>2
  <1>11. ASSUME kind # "weekly" PROVE HoldOK' /\ CountOK(t)'
    <2>1. HoldOK /\ CountOK(t)  BY <1>11 DEF ClaimsInv
    <2> QED BY <1>3, <1>5, <2>1 DEF HoldOK, CountOK, Released
  <1> QED BY <1>6, <1>7, <1>8, <1>9, <1>10, <1>11, MineKeeps

\* A click is taken once: one reset less is left.
LEMMA TakesTyped ==
    ASSUME ClaimsInv, NEW q \in Clicks, Takes(q), late' \subseteq Clicks
    PROVE  /\ ProviderTypes' /\ kind' = kind /\ taken' = taken \cup {q} /\ shown' = shown
           /\ Granted' = Granted /\ ShownOK'
  <1>1. /\ left > 0 /\ q \notin taken /\ left' = left - 1 /\ taken' = taken \cup {q}
        /\ kind' = kind /\ shown' = shown
      BY DEF Takes
  <1>2. left \in 0..MaxLeft /\ MaxLeft \in Nat  BY ResetAssumption DEF ClaimsInv, ProviderTypes
  <1>3. IsFiniteSet(taken') /\ Cardinality(taken') = Cardinality(taken) + 1
      BY <1>1, FS_AddElement DEF ClaimsInv, ProviderTypes
  <1>4. ProviderTypes'  BY <1>1, <1>2, <1>3 DEF ClaimsInv, ProviderTypes
  <1>5. Granted' = Granted  BY <1>1, <1>3, Numbers DEF Granted
  <1>6. ShownOK'
    <2>1. left <= shown /\ shown <= Granted  BY DEF ClaimsInv, ShownOK
    <2> QED BY <1>1, <1>5, <2>1, Numbers DEF ShownOK
  <1> QED BY <1>1, <1>4, <1>5, <1>6

LEMMA AcceptKeeps ==
    ASSUME ClaimsInv, NEW t \in Claimers, Accept(t)
    PROVE  ClaimsInv'
  <1>1. at[t] = "sent" /\ Takes(post[t]) /\ late' = late  BY DEF Accept
  <1>2. PICK a \in {"reset", "unknown"} : Answered(t, a)  BY DEF Accept
  <1>3. post[t] \in Clicks  BY <1>1 DEF ClaimsInv, ClaimOK
  <1>4. late' \subseteq Clicks  BY <1>1 DEF ClaimsInv, ProviderTypes
  <1>5. /\ ProviderTypes' /\ kind' = kind /\ taken' = taken \cup {post[t]} /\ shown' = shown
        /\ Granted' = Granted /\ ShownOK'
      BY <1>1, <1>3, <1>4, TakesTyped
  <1>6. a \in Answers /\ a # "failed"  BY DEF Answers, Finals
  <1>7. /\ taken \subseteq taken' /\ post[t] \in taken'
        /\ \A q \in taken' \cup late' : q \in taken \cup late \/ (q = post[t] /\ a # "failed")
      BY <1>1, <1>5, <1>6
  <1> QED BY <1>1, <1>2, <1>5, <1>6, <1>7, AnswerKeeps

LEMMA RepeatKeeps ==
    ASSUME ClaimsInv, NEW t \in Claimers, Repeat(t) \/ TurnDown(t)
    PROVE  ClaimsInv'
  <1>1. at[t] = "sent" /\ UNCHANGED provider  BY DEF Repeat, TurnDown
  <1>2. PICK a \in Answers : Answered(t, a) /\ (a = "reset" => post[t] \in taken)
      BY DEF Repeat, TurnDown, Answers, Finals
  <1>3. /\ ProviderTypes' /\ kind' = kind /\ taken' = taken /\ late' = late /\ ShownOK'
        /\ shown' = shown /\ Granted' = Granted
      BY <1>1 DEF provider, ClaimsInv, ProviderTypes, ShownOK, Granted
  <1>4. /\ taken \subseteq taken' /\ (a = "reset" => post[t] \in taken')
        /\ \A q \in taken' \cup late' : q \in taken \cup late \/ (q = post[t] /\ a # "failed")
      BY <1>2, <1>3
  <1> QED BY <1>1, <1>2, <1>3, <1>4, AnswerKeeps

LEMMA TimeOutKeeps ==
    ASSUME ClaimsInv, NEW t \in Claimers, TimeOut(t)
    PROVE  ClaimsInv'
  <1>1. at[t] = "sent" /\ Answered(t, "unknown") /\ late' = late \cup {post[t]}
        /\ UNCHANGED <<kind, left, shown, taken>>
      BY DEF TimeOut
  <1>2. PICK a \in Answers : a = "unknown"  BY DEF Answers
  <1>3. post[t] \in Clicks  BY <1>1 DEF ClaimsInv, ClaimOK
  <1>4. ProviderTypes' /\ ShownOK' /\ Granted' = Granted
      BY <1>1, <1>3 DEF ClaimsInv, ProviderTypes, ShownOK, Granted
  <1>5. /\ taken \subseteq taken' /\ (a = "reset" => post[t] \in taken')
        /\ \A q \in taken' \cup late' : q \in taken \cup late \/ (q = post[t] /\ a # "failed")
      BY <1>1, <1>2
  <1>6. Answered(t, a)  BY <1>1, <1>2
  <1> QED BY <1>1, <1>4, <1>5, <1>6, AnswerKeeps

LEMMA RecordKeeps ==
    ASSUME ClaimsInv, NEW t \in Claimers, Record(t)
    PROVE  ClaimsInv'
  <1>a. /\ at[t] = "answered" /\ unknown' = DoubtAfter(t)
        /\ answer[t] = "reset" => hold' = [left |-> row[t].left, old |-> FALSE]
        /\ answer[t] # "reset" => hold' = hold
        /\ answer[t] \in Finals => done' = done \cup {post[t]} /\ told' = told \cup {post[t]}
        /\ answer[t] \notin Finals => done' = done /\ told' = told
        /\ answer[t] = "reset" => confirmed' = confirmed \cup {post[t]}
        /\ answer[t] # "reset" => confirmed' = confirmed
        /\ answer[t] = "reset" => Goto(t, "reset") /\ UNCHANGED <<post, doubted, row, answer>>
        /\ answer[t] # "reset" => End(t)
        /\ UNCHANGED provider
      BY DEF Record
  <1>m. Mine(t)  BY <1>a, ItIsMine
  <1>c. ClaimOK(t)  BY DEF ClaimsInv
  <1>d. /\ post[t] \in Clicks \ done /\ row[t].left > 0 /\ row[t].left \in 0..MaxLeft
        /\ unknown # NoDoubt => unknown.click = post[t]
        /\ answer[t] \in Answers
    <2>1. row[t] \in RowTypes /\ answer[t] \in Finals \cup {"none", "unknown", "failed"}
        BY DEF ClaimsInv, ClaimTypes
    <2> QED BY <1>a, <1>c, <2>1 DEF ClaimOK, Undecided, RowTypes, Answers
  \* The doubt after the answer.
  <1>e. /\ answer[t] = "unknown" => /\ unknown' \in DoubtTypes /\ unknown' # NoDoubt
                                    /\ unknown'.click = post[t] /\ unknown'.left > 0
        /\ answer[t] = "failed" => unknown' = unknown
        /\ answer[t] \in Finals => unknown' = NoDoubt
    <2>1. CASE answer[t] = "unknown"
      <3>1. PICK d : d = [click |-> post[t], left |-> row[t].left, old |-> FALSE]  OBVIOUS
      <3>2. unknown' = d  BY <1>a, <2>1, <3>1 DEF DoubtAfter
      <3>3. d \in DoubtTypes /\ d.click = post[t] /\ d.left = row[t].left
          BY <3>1, <1>d DEF DoubtTypes
      <3>4. NoDoubt.left = 0  BY DEF NoDoubt
      <3> QED BY <1>d, <2>1, <3>2, <3>3, <3>4 DEF Finals
    <2>2. CASE answer[t] = "failed"  BY <1>a, <2>2 DEF DoubtAfter, Finals
    <2>3. CASE answer[t] \in Finals  BY <1>a, <2>3 DEF DoubtAfter, Finals
    <2> QED BY <1>d, <2>1, <2>2, <2>3 DEF Answers
  <1>h. hold' \in HoldTypes /\ (answer[t] = "reset" => hold'.left = row[t].left /\ ~Released')
    <2>1. CASE answer[t] = "reset"
      <3>1. PICK d : d = [left |-> row[t].left, old |-> FALSE]  OBVIOUS
      <3>2. d \in HoldTypes /\ d.left = row[t].left /\ d.old = FALSE
          BY <3>1, <1>d DEF HoldTypes
      <3>3. hold' = d  BY <1>a, <2>1, <3>1
      <3>4. NoHold.left = 0  BY DEF NoHold
      <3>5. ~Released'  BY <1>d, <3>2, <3>3, <3>4 DEF Released
      <3> QED BY <3>2, <3>3, <3>5
    <2>2. CASE answer[t] # "reset"  BY <1>a, <2>2 DEF ClaimsInv, TableTypes
    <2> QED BY <2>1, <2>2
  <1>p. /\ ProviderTypes' /\ ShownOK' /\ kind' = kind /\ Granted' = Granted /\ shown' = shown
        /\ taken' = taken /\ late' = late
      BY <1>a DEF provider, ClaimsInv, ProviderTypes, ShownOK, Granted
  <1>t. TableTypes'
    <2>1. confirmed' \subseteq taken'
        BY <1>a, <1>c, <1>p DEF ClaimsInv, TableTypes, ClaimOK
    <2>2. unknown' \in DoubtTypes
        BY <1>e, <1>d, NoHoldTyped DEF ClaimsInv, TableTypes, Answers
    <2>3. done' \subseteq Clicks /\ told' \subseteq Clicks
        BY <1>a, <1>d DEF ClaimsInv, TableTypes
    <2> QED BY <1>h, <2>1, <2>2, <2>3 DEF TableTypes
  <1>u. DoubtCanBeSettled'
    <2>1. CASE answer[t] = "unknown"  BY <1>a, <1>d, <1>e, <2>1 DEF DoubtCanBeSettled, Finals
    <2>2. CASE answer[t] = "failed"
        BY <1>a, <1>e, <2>2 DEF DoubtCanBeSettled, Finals, ClaimsInv
    <2>3. CASE answer[t] \in Finals  BY <1>e, <2>3 DEF DoubtCanBeSettled
    <2> QED BY <1>d, <2>1, <2>2, <2>3 DEF Answers
  <1>k. \A q \in taken' \cup late' : q \in told' \/ (unknown' # NoDoubt /\ unknown'.click = q)
    <2> SUFFICES ASSUME NEW q \in taken \cup late
                 PROVE  q \in told' \/ (unknown' # NoDoubt /\ unknown'.click = q)
        BY <1>p
    <2>1. \/ q \in told \/ (unknown # NoDoubt /\ unknown.click = q)
          \/ \E u \in Claimers : Recorded(u, q)
        BY DEF ClaimsInv, Known
    <2>2. told \subseteq told'  BY <1>a
    <2>3. CASE unknown # NoDoubt /\ unknown.click = q
      <3>1. q = post[t]  BY <1>d, <2>3
      <3> QED BY <1>a, <1>d, <1>e, <2>3, <3>1 DEF Answers
    <2>4. CASE \E u \in Claimers : Recorded(u, q)
      <3>1. PICK u \in Claimers : Recorded(u, q)  BY <2>4
      <3>2. u = t  BY <1>m, <3>1 DEF Mine, Recorded
      <3>3. q = post[t] /\ answer[t] # "failed"  BY <3>1, <3>2 DEF Recorded
      <3> QED BY <1>a, <1>d, <1>e, <3>3 DEF Answers
    <2> QED BY <2>1, <2>2, <2>3, <2>4
  <1>o. ASSUME kind # "weekly" PROVE HoldOK'
    <2>1. HoldOK /\ CountOK(t)  BY <1>o DEF ClaimsInv
    <2>2. CASE answer[t] = "reset"
      <3>1. row[t].left + Cardinality(confirmed) <= Granted  BY <1>a, <2>1 DEF CountOK
      <3>2. Cardinality(confirmed') <= Cardinality(confirmed) + 1 /\ Cardinality(confirmed') \in Nat
        <4>1. confirmed' = confirmed \cup {post[t]}  BY <1>a, <2>2
        <4>2. /\ IsFiniteSet(confirmed')
              /\ \/ Cardinality(confirmed') = Cardinality(confirmed)
                 \/ Cardinality(confirmed') = Cardinality(confirmed) + 1
            BY <4>1, Numbers, FS_AddElement
        <4> QED BY <4>2, Numbers, FS_CardinalityType
      <3>3. Granted \in Nat /\ row[t].left \in Nat  BY Numbers DEF Granted
      <3>4. hold'.left + Cardinality(confirmed') <= Granted + 1
          BY <1>h, <2>2, <3>1, <3>2, <3>3, Numbers
      <3> QED BY <1>h, <1>p, <2>2, <3>4 DEF HoldOK
    <2>3. CASE answer[t] # "reset"
        BY <1>a, <1>p, <2>1, <2>3 DEF HoldOK, Released
    <2> QED BY <2>2, <2>3
  <1>1. CASE answer[t] # "reset"
    <2>1. Known'  BY <1>k DEF Known
    <2> QED BY <1>1, <1>a, <1>t, <1>u, <1>o, <2>1, EndKeeps
  <1>2. CASE answer[t] = "reset"
    <2>1. "reset" \in Places  BY DEF Places
    <2>2. /\ at' \in [Claimers -> Places] /\ at'[t] = "reset"
          /\ \A u \in Claimers : u # t => at'[u] = at[u]
        BY <1>2, <1>a, <2>1, GotoTyped DEF ClaimsInv
    <2>3. UNCHANGED <<post, doubted, row, answer>>  BY <1>2, <1>a
    <2>4. ClaimTypes'  BY <2>2, <2>3 DEF ClaimsInv, ClaimTypes
    <2>5. Still(t)  BY <1>m, <2>2, <2>3 DEF Still, Mine
    <2>6. ClaimOK(t)'  BY <1>c, <1>d, <2>2, <2>3 DEF ClaimOK, Undecided
    <2>7. CountOK(t)'  BY <2>2 DEF CountOK
    <2>8. Known'  BY <1>k DEF Known
    <2> QED BY <1>p, <1>t, <1>u, <1>o, <2>4, <2>5, <2>6, <2>7, <2>8, MineKeeps
  <1> QED BY <1>1, <1>2

\* Steps of the provider and of time: no claim moves.
LEMMA RestKeeps ==
    ASSUME ClaimsInv, UNCHANGED <<claims, told, kind>>, ProviderTypes', TableTypes', ShownOK',
           taken \subseteq taken', taken' \cup late' \subseteq taken \cup late, done' \subseteq done,
           unknown' # NoDoubt <=> unknown # NoDoubt,
           unknown'.click = unknown.click, unknown'.left = unknown.left,
           kind # "weekly" => HoldOK' /\ \A t \in Claimers : CountOK(t)'
    PROVE  ClaimsInv'
  <1>1. UNCHANGED <<at, post, doubted, row, answer>>  BY DEF claims
  <1>2. ClaimTypes' /\ OneClaim'  BY <1>1 DEF ClaimsInv, ClaimTypes, OneClaim
  <1>3. \A t \in Claimers : ClaimOK(t)'
    <2> SUFFICES ASSUME NEW t \in Claimers PROVE ClaimOK(t)'
        OBVIOUS
    <2>1. ClaimOK(t)  BY DEF ClaimsInv
    <2> QED BY <1>1, <2>1 DEF ClaimOK
  <1>4. DoubtCanBeSettled'  BY DEF ClaimsInv, DoubtCanBeSettled
  <1>5. Known'
    <2>1. \A t \in Claimers, q \in taken' \cup late' : Recorded(t, q)' <=> Recorded(t, q)
        BY <1>1 DEF Recorded
    <2> QED BY <2>1 DEF ClaimsInv, Known
  <1> QED BY <1>2, <1>3, <1>4, <1>5 DEF ClaimsInv

LEMMA ArriveKeeps ==
    ASSUME ClaimsInv, NEW q \in Clicks, Arrive(q)
    PROVE  ClaimsInv'
  <1>1. /\ q \in late /\ late' = late \ {q}
        /\ UNCHANGED <<claims, unknown, hold, done, told, confirmed>>
      BY DEF Arrive, tables, histories
  <1>2. late' \subseteq Clicks  BY <1>1 DEF ClaimsInv, ProviderTypes
  <1>3. /\ ProviderTypes' /\ ShownOK' /\ kind' = kind /\ shown' = shown /\ Granted' = Granted
        /\ taken \subseteq taken' /\ taken' \subseteq taken \cup {q}
    <2>1. CASE Takes(q)  BY <1>2, <2>1, TakesTyped
    <2>2. CASE UNCHANGED <<kind, left, shown, taken>>
        BY <1>2, <2>2 DEF ClaimsInv, ProviderTypes, ShownOK, Granted
    <2> QED BY <2>1, <2>2 DEF Arrive
  <1>4. TableTypes'  BY <1>1, <1>3 DEF ClaimsInv, TableTypes
  <1>5. ASSUME kind # "weekly" PROVE HoldOK' /\ \A t \in Claimers : CountOK(t)'
    <2>1. HoldOK'  BY <1>1, <1>3, <1>5 DEF ClaimsInv, HoldOK, Released
    <2>2. \A t \in Claimers : CountOK(t)'
        BY <1>1, <1>3, <1>5 DEF ClaimsInv, CountOK, Released, claims
    <2> QED BY <2>1, <2>2
  <1> QED BY <1>1, <1>3, <1>4, <1>5, RestKeeps

LEMMA ShowKeeps ==
    ASSUME ClaimsInv, Show
    PROVE  ClaimsInv'
  <1>1. /\ shown' = left
        /\ UNCHANGED <<kind, left, late, taken, claims, unknown, hold, done, told, confirmed>>
      BY DEF Show, tables, histories
  <1>n. left \in Nat /\ shown \in Nat /\ left <= shown /\ shown <= Granted /\ Granted \in Nat
      BY Numbers DEF ClaimsInv, ShownOK, Granted
  <1>2. ProviderTypes' /\ TableTypes'
      BY <1>1 DEF ClaimsInv, ProviderTypes, TableTypes
  <1>3. ShownOK' /\ Granted' = Granted
      BY <1>1, <1>n DEF ShownOK, Granted
  <1>4. ASSUME kind # "weekly" PROVE HoldOK' /\ \A t \in Claimers : CountOK(t)'
    <2>1. HoldOK'
      <3>1. HoldOK  BY <1>4 DEF ClaimsInv
      <3> QED BY <1>1, <1>3, <1>n, <3>1, Numbers DEF HoldOK, Released
    <2>2. ASSUME NEW t \in Claimers PROVE CountOK(t)'
      <3>1. CountOK(t)  BY <1>4 DEF ClaimsInv
      <3> QED BY <1>1, <1>3, <1>n, <3>1, Numbers DEF CountOK, Released, claims
    <2> QED BY <2>1, <2>2
  <1> QED BY <1>1, <1>2, <1>3, <1>4, RestKeeps

LEMMA AgeKeeps ==
    ASSUME ClaimsInv, Age
    PROVE  ClaimsInv'
  <1>1. UNCHANGED <<kind, left, shown, late, taken, claims, told, confirmed>>
      BY DEF Age, provider, histories
  <1>2. ProviderTypes' /\ ShownOK' /\ Granted' = Granted
      BY <1>1 DEF ClaimsInv, ProviderTypes, ShownOK, Granted
  <1>3. CASE unknown # NoDoubt /\ unknown' = [unknown EXCEPT !.old = TRUE] /\ UNCHANGED <<hold, done>>
    <2>1. unknown' \in DoubtTypes /\ unknown'.click = unknown.click /\ unknown'.left = unknown.left
        BY <1>3 DEF ClaimsInv, TableTypes, DoubtTypes
    <2>2. unknown' # NoDoubt
      <3>1. unknown.left > 0  BY <1>3 DEF ClaimsInv, DoubtCanBeSettled
      <3> QED BY <2>1, <3>1 DEF NoDoubt
    <2>3. TableTypes'  BY <1>1, <1>3, <2>1 DEF ClaimsInv, TableTypes
    <2>4. kind # "weekly" => HoldOK' /\ \A t \in Claimers : CountOK(t)'
        BY <1>1, <1>2, <1>3 DEF ClaimsInv, HoldOK, CountOK, Released, claims
    <2> QED BY <1>1, <1>2, <1>3, <2>1, <2>2, <2>3, <2>4, RestKeeps
  <1>4. CASE /\ hold # NoHold /\ ~hold.old /\ shown = left /\ \A t \in Claimers : at[t] # "decide"
             /\ hold' = [hold EXCEPT !.old = TRUE] /\ UNCHANGED <<unknown, done>>
    <2>1. hold' \in HoldTypes /\ hold'.left = hold.left
        BY <1>4 DEF ClaimsInv, TableTypes, HoldTypes
    <2>2. TableTypes'  BY <1>1, <1>4, <2>1 DEF ClaimsInv, TableTypes
    <2>3. ASSUME kind # "weekly" PROVE HoldOK' /\ \A t \in Claimers : CountOK(t)'
      <3>1. HoldOK /\ \A t \in Claimers : CountOK(t)  BY <2>3 DEF ClaimsInv
      <3>2. shown + Cardinality(confirmed) <= Granted  BY <1>4, Numbers DEF Granted
      <3>3. HoldOK'  BY <1>1, <1>2, <2>1, <3>1, <3>2 DEF HoldOK
      <3>4. \A t \in Claimers : CountOK(t)'
          BY <1>1, <1>2, <1>4, <3>1 DEF CountOK, claims
      <3> QED BY <3>3, <3>4
    <2> QED BY <1>1, <1>2, <1>4, <2>2, <2>3, RestKeeps
  <1>5. CASE (\E q \in done : done' = done \ {q}) /\ UNCHANGED <<unknown, hold>>
    <2>1. TableTypes'  BY <1>1, <1>5 DEF ClaimsInv, TableTypes
    <2>2. kind # "weekly" => HoldOK' /\ \A t \in Claimers : CountOK(t)'
        BY <1>1, <1>2, <1>5 DEF ClaimsInv, HoldOK, CountOK, Released, claims
    <2> QED BY <1>1, <1>2, <1>5, <2>1, <2>2, RestKeeps
  <1>6. \/ unknown # NoDoubt /\ unknown' = [unknown EXCEPT !.old = TRUE] /\ UNCHANGED <<hold, done>>
        \/ /\ hold # NoHold /\ ~hold.old /\ shown = left /\ \A t \in Claimers : at[t] # "decide"
           /\ hold' = [hold EXCEPT !.old = TRUE] /\ UNCHANGED <<unknown, done>>
        \/ (\E q \in done : done' = done \ {q}) /\ UNCHANGED <<unknown, hold>>
      BY DEF Age
  <1> QED BY <1>3, <1>4, <1>5, <1>6

\* A restart forgets the tables, and the claims that were under way.
LEMMA RestartKeeps ==
    ASSUME ClaimsInv, Restart
    PROVE  ClaimsInv'
  <1>1. /\ UNCHANGED <<kind, left, shown, late, taken>>
        /\ unknown' = NoDoubt /\ hold' = NoHold /\ done' = {} /\ confirmed' = {}
      BY DEF Restart, provider
  <1>2. \A t \in Claimers : at'[t] = "idle" /\ row'[t] = Missing  BY DEF Restart
  <1>3. ClaimTypes'
    <2>1. 0 \in 0..MaxLeft  BY ResetAssumption
    <2>2. at' \in [Claimers -> Places]  BY DEF Restart, Places
    <2>3. row' \in [Claimers -> RowTypes]  BY NoHoldTyped DEF Restart
    <2>4. /\ post' \in [Claimers -> Clicks \cup {NoClick}] /\ doubted' \in [Claimers -> 0..MaxLeft]
          /\ answer' \in [Claimers -> Finals \cup {"none", "unknown", "failed"}]
        BY <2>1 DEF Restart
    <2> QED BY <2>2, <2>3, <2>4 DEF ClaimTypes
  <1>4. told' \subseteq Clicks /\ taken \cup late \subseteq told'
    <2>1. {post[t] : t \in {u \in Claimers : at[u] = "sent"}} \subseteq Clicks
        BY DEF ClaimsInv, ClaimOK
    <2> QED BY <2>1 DEF Restart, ClaimsInv, ProviderTypes, TableTypes
  <1>5. TableTypes'  BY <1>1, <1>4, NoHoldTyped DEF TableTypes
  <1>6. ProviderTypes' /\ ShownOK' /\ Granted' = Granted
      BY <1>1 DEF ClaimsInv, ProviderTypes, ShownOK, Granted
  <1>7. OneClaim' /\ \A t \in Claimers : ClaimOK(t)' /\ CountOK(t)'
    <2>1. Missing.usable = FALSE  BY DEF Missing
    <2>2. OneClaim'  BY <1>2 DEF OneClaim
    <2> QED BY <1>2, <2>1, <2>2 DEF ClaimOK, CountOK, Undecided
  <1>8. DoubtCanBeSettled'  BY <1>1 DEF DoubtCanBeSettled
  <1>9. Known'  BY <1>1, <1>4 DEF Known
  <1>10. HoldOK'
    <2>1. Cardinality(confirmed') = 0  BY <1>1, FS_EmptySet
    <2>2. hold'.left = 0  BY <1>1 DEF NoHold
    <2>3. shown <= Granted  BY DEF ClaimsInv, ShownOK
    <2> QED BY <1>1, <1>6, <2>1, <2>2, <2>3, Numbers DEF HoldOK, Granted
  <1> QED BY <1>3, <1>5, <1>6, <1>7, <1>8, <1>9, <1>10 DEF ClaimsInv

LEMMA ClaimsStart ==
    ASSUME ResetInit
    PROVE  ClaimsInv
  <1>1. /\ kind \in Kinds /\ left \in 1..MaxLeft /\ shown = left /\ late = {} /\ taken = {}
        /\ unknown = NoDoubt /\ hold = NoHold /\ done = {} /\ told = {} /\ confirmed = {}
    <2>1. 1 \in 1..MaxLeft  BY ResetAssumption
    <2> QED BY <2>1 DEF ResetInit
  <1>n. left \in 0..MaxLeft /\ left \in Nat  BY <1>1, ResetAssumption
  <1>2. \A t \in Claimers : at[t] = "idle" /\ row[t] = Missing  BY DEF ResetInit
  <1>3. ClaimTypes
    <2>1. 0 \in 0..MaxLeft  BY ResetAssumption
    <2>2. at \in [Claimers -> Places]  BY DEF ResetInit, Places
    <2>3. row \in [Claimers -> RowTypes]  BY NoHoldTyped DEF ResetInit
    <2>4. /\ post \in [Claimers -> Clicks \cup {NoClick}] /\ doubted \in [Claimers -> 0..MaxLeft]
          /\ answer \in [Claimers -> Finals \cup {"none", "unknown", "failed"}]
        BY <2>1 DEF ResetInit
    <2> QED BY <2>2, <2>3, <2>4 DEF ClaimTypes
  <1>4. TableTypes  BY <1>1, NoHoldTyped DEF TableTypes
  <1>5. ProviderTypes  BY <1>1, <1>n, FS_EmptySet DEF ProviderTypes
  <1>6. OneClaim /\ \A t \in Claimers : ClaimOK(t) /\ CountOK(t)
    <2>1. Missing.usable = FALSE  BY DEF Missing
    <2>2. OneClaim  BY <1>2 DEF OneClaim
    <2> QED BY <1>2, <2>1, <2>2 DEF ClaimOK, CountOK, Undecided
  <1>7. DoubtCanBeSettled /\ Known  BY <1>1 DEF DoubtCanBeSettled, Known
  <1>8. Cardinality(taken) = 0 /\ Cardinality(confirmed) = 0  BY <1>1, FS_EmptySet
  <1>9. ShownOK /\ HoldOK
    <2>1. hold.left = 0  BY <1>1 DEF NoHold
    <2> QED BY <1>1, <1>n, <1>8, <2>1 DEF ShownOK, HoldOK, Granted
  <1> QED BY <1>3, <1>4, <1>5, <1>6, <1>7, <1>9 DEF ClaimsInv

LEMMA ClaimsStay ==
    ASSUME ClaimsInv, UNCHANGED <<provider, claims, tables, histories>>
    PROVE  ClaimsInv'
  <1>1. UNCHANGED <<kind, left, shown, late, taken, unknown, hold, done, told, confirmed>>
      BY DEF provider, tables, histories
  <1>2. ProviderTypes' /\ TableTypes' /\ ShownOK'
      BY <1>1 DEF ClaimsInv, ProviderTypes, TableTypes, ShownOK, Granted
  <1>3. kind # "weekly" => HoldOK' /\ \A t \in Claimers : CountOK(t)'
      BY <1>1 DEF ClaimsInv, HoldOK, CountOK, Released, Granted, claims
  <1> QED BY <1>1, <1>2, <1>3, RestKeeps

LEMMA ClaimSteps ==
    ASSUME ClaimsInv, [ResetNext]_resetVars
    PROVE  ClaimsInv'
  <1>1. CASE UNCHANGED resetVars
      BY <1>1, ClaimsStay DEF resetVars
  <1>2. ASSUME NEW t \in Claimers, Claim(t) PROVE ClaimsInv'
      BY <1>2, ReadRowKeeps, SeeRowKeeps, LeavesKeep, SettleDoubtKeeps, SendKeeps, AcceptKeeps,
         RepeatKeeps, TimeOutKeeps, RecordKeeps, ReadAgainKeeps DEF Claim
  <1>3. ASSUME NEW t \in Claimers, NEW q \in Clicks, Begin(t, q) PROVE ClaimsInv'
      BY <1>3, BeginKeeps
  <1> QED BY <1>1, <1>2, <1>3, ArriveKeeps, ShowKeeps, AgeKeeps, RestartKeeps, ClaimsStay
          DEF ResetNext

\* A claim's steps are steps of the cache, or leave it alone.
LEMMA ClaimsReadCache ==
    ASSUME [ResetNext]_resetVars
    PROVE  QuotaStep \/ UNCHANGED quotaVars
  <1>1. CASE UNCHANGED resetVars  BY <1>1 DEF resetVars
  <1>2. ASSUME NEW t \in Claimers, Claim(t) PROVE QuotaStep \/ UNCHANGED quotaVars
    <2>1. CASE ReadRow(t) \/ SeeRow(t) \/ CannotRead(t)
        BY <2>1 DEF ReadRow, SeeRow, CannotRead, QuotaStep
    <2>2. CASE SettleDoubt(t) \/ Decline(t) \/ GiveUp(t) \/ Send(t)
        BY <2>2 DEF SettleDoubt, Decline, GiveUp, Send
    <2>3. CASE Accept(t) \/ Repeat(t) \/ TurnDown(t) \/ TimeOut(t)
        BY <2>3 DEF Accept, Repeat, TurnDown, TimeOut, Answered
    <2>4. CASE Record(t) \/ ReadAgain(t) \/ Finish(t)
        BY <2>4 DEF Record, ReadAgain, Finish, QuotaStep
    <2> QED BY <1>2, <2>1, <2>2, <2>3, <2>4 DEF Claim
  <1>3. ASSUME NEW t \in Claimers, NEW q \in Clicks, Begin(t, q) PROVE UNCHANGED quotaVars
      BY <1>3 DEF Begin
  <1>4. ASSUME NEW q \in Clicks, Arrive(q) PROVE UNCHANGED quotaVars
      BY <1>4 DEF Arrive
  <1>5. CASE ReadOn  BY <1>5 DEF ReadOn, QuotaStep
  <1>6. CASE Show \/ Age  BY <1>6 DEF Show, Age
  <1>7. CASE Restart  BY <1>7 DEF Restart, QuotaStep
  <1> QED BY <1>1, <1>2, <1>3, <1>4, <1>5, <1>6, <1>7 DEF ResetNext

\* What is known of an account's claims at every step (quota_resets.go:claimReset), for
\* any clicks, tabs and resets: one claim at a time, what the provider took or may take is
\* decided or in doubt, and a held count is at most one above what is left.
THEOREM ResetInvariant == ResetSpec => []ResetInv
  <1>1. ResetInit => ResetInv
      BY ClaimsStart, QuotaStarts DEF ResetInit, ResetInv
  <1>2. ResetInv /\ [ResetNext]_resetVars => ResetInv'
      BY ClaimSteps, ClaimsReadCache, QuotaStepInv DEF ResetInv
  <1> QED BY <1>1, <1>2, PTL DEF ResetSpec

\* A row in doubt can be settled (quota_resets.go:671 before :681).
THEOREM DoubtIsSettled == ResetSpec => []DoubtCanBeSettled
  <1>1. ResetInv => DoubtCanBeSettled  BY DEF ResetInv, ClaimsInv
  <1> QED BY <1>1, ResetInvariant, PTL

\* Claims share the cache with its readers, who are still given what began after the last
\* claim (quota.go:invalidateQuota).
THEOREM ClaimsKeepCache == ResetSpec => []FreshAfterClaim
  <1>1. ResetInv => FreshAfterClaim  BY QuotaInvShows DEF ResetInv
  <1> QED BY <1>1, ResetInvariant, PTL

\* A claim is sent only when every other click that reached the provider, or may
\* still, was decided (quota_claim_test.go:222).
THEOREM OneInDoubt == ResetSpec => DoubtBlocks
  <1>1. ASSUME ResetInv, [ResetNext]_resetVars,
               NEW t \in Claimers, Sends(t), NEW q \in (taken \cup late) \ {post[t]}
        PROVE  q \in told
    <2>1. at[t] = "decide" /\ ClaimsInv  BY <1>1 DEF Sends, ResetInv
    <2>2. InTables(q)  BY <2>1, <1>1, TablesKnow
    <2>3. unknown # NoDoubt => unknown.click = post[t]
        BY <2>1 DEF ClaimsInv, ClaimOK, Undecided
    <2> QED BY <1>1, <2>2, <2>3 DEF InTables
  <1>2. ResetInv /\ [ResetNext]_resetVars =>
          [\A t \in Claimers : Sends(t) =>
             \A q \in (taken \cup late) \ {post[t]} : q \in told]_resetVars
      BY <1>1
  <1> QED BY <1>2, ResetInvariant, PTL DEF ResetSpec, DoubtBlocks

\* No claim is sent on a count that still contains a confirmed reset
\* (quota_claim_test.go:326).
THEOREM CountsAreHeld == ResetSpec => HeldUntilShown
  <1>1. ASSUME ResetInv, [ResetNext]_resetVars,
               NEW t \in Claimers, Sends(t), kind # "weekly"
        PROVE  row[t].left + Cardinality(confirmed) <= left + Cardinality(taken)
    <2>1. at[t] = "decide" /\ at'[t] = "sent" /\ ClaimsInv  BY <1>1 DEF Sends, ResetInv
    <2>2. Send(t)
      <3>1. Mine(t)  BY <2>1, ItIsMine
      <3>2. at' # at  BY <2>1
      <3>3. ASSUME NEW u \in Claimers, Claim(u) PROVE u = t
        <4>1. at[u] # "idle"
            BY <3>3 DEF Claim, ReadRow, SeeRow, CannotRead, SettleDoubt, Decline, GiveUp, Send,
               Accept, Repeat, TurnDown, TimeOut, Record, ReadAgain, Finish
        <4> QED BY <3>1, <4>1 DEF Mine
      <3>4. ASSUME NEW u \in Claimers, NEW q \in Clicks, Begin(u, q) PROVE FALSE
          BY <2>1, <3>4 DEF Begin, Locked
      <3>5. ~Restart  BY <2>1 DEF Restart
      <3>6. ~Age /\ ~Show /\ (\A q \in Clicks : ~Arrive(q))
            /\ ~UNCHANGED <<provider, claims, tables, histories>> /\ ~UNCHANGED resetVars
          BY <3>2 DEF Age, Show, Arrive, claims, resetVars
      <3>7. Claim(t)  BY <1>1, <3>3, <3>4, <3>5, <3>6 DEF ResetNext
      <3>8. ~End(t)  BY <2>1 DEF End, Goto, ClaimsInv, ClaimTypes
      <3> QED BY <2>1, <3>7, <3>8 DEF Claim, ReadRow, SeeRow, CannotRead, SettleDoubt, Decline, GiveUp,
                 Accept, Repeat, TurnDown, TimeOut, Record, ReadAgain, Finish
    <2>3. ~Held(t)  BY <2>2 DEF Send
    <2> QED BY <1>1, <2>1, <2>3, NotHeldCounts DEF Granted
  <1>2. ResetInv /\ [ResetNext]_resetVars =>
          [\A t \in Claimers : Sends(t) /\ kind # "weekly" =>
             row[t].left + Cardinality(confirmed) <= left + Cardinality(taken)]_resetVars
      BY <1>1
  <1> QED BY <1>2, ResetInvariant, PTL DEF ResetSpec, HeldUntilShown
=============================================================================
